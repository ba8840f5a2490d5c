------------------------------ MODULE AgentHome ------------------------------
(***************************************************************************)
(* What the tools make of the two answers in which the backend tells an    *)
(* agent what it may do: the home answer (get_agent_home, and the check    *)
(* create_post makes before it hands out a challenge) and the status       *)
(* answer (get_agent_status, and authenticate_write before every write).   *)
(*                                                                         *)
(* The account changes between the reads of one call.  An answer says the  *)
(* truth of the account, but for one field at most.  A field is the set of *)
(* values its aliases carry: it may be missing, contradict itself or hold  *)
(* something that is no value of its type.                                 *)
(***************************************************************************)
EXTENDS Integers, FiniteSets, ToolInputs

CONSTANTS
    LIMIT,    \* daily limit of each kind of write
    None,     \* JSON's null
    Bad,      \* a value of another type, negative, or a blank text
    OFFERS    \* the actions a home answer offers

ASSUME HomeParameters ==
    /\ LIMIT \in Nat \ {0}
    /\ Bad \notin BOOLEAN
    /\ \A o \in OFFERS : o.tool \in Tools /\ DOMAIN o.params = Params[o.tool]

Kinds == {"post", "comment", "note"}
News == {"activity", "notes", "warning"}
NoOffer == [tool |-> "none"]

\* The statuses a write is allowed for.
Usable == {"active", "claimed"}
Standings == Usable \cup {"suspended", "pending"}

\* An account as the backend keeps it: only a usable one with something left of
\* a kind of write may be allowed it.
Accounts ==
    {a \in [standing : Standings, left : [Kinds -> 0 .. LIMIT], may : SUBSET Kinds] :
        \A kind \in a.may : a.standing \in Usable /\ a.left[kind] > 0}

Suspended(a) == a.standing = "suspended"
Fresh == [standing |-> "active", left |-> [kind \in Kinds |-> LIMIT], may |-> Kinds]

VARIABLES
    account,  \* at the backend
    call      \* the tool call in progress, with what it has read; the fields
              \* posting and usable are history

vars == <<account, call>>

NoCall == [phase |-> "idle"]

-----------------------------------------------------------------------------
(* The backend's answers *)

Truth(a) ==
    [status              |-> {a.standing},
     suspended           |-> {Suspended(a)},
     can_create_post     |-> {"post" \in a.may},
     can_create_comment  |-> {"comment" \in a.may},
     can_send_note       |-> {"note" \in a.may},
     posts_remaining     |-> {a.left["post"]},
     comments_remaining  |-> {a.left["comment"]},
     notes_remaining     |-> {a.left["note"]},
     note_daily_limit    |-> {LIMIT}]

With(r, more) ==
    [field \in DOMAIN r \cup DOMAIN more |->
        IF field \in DOMAIN r THEN r[field] ELSE more[field]]

StatusTruth(a) ==
    With(Truth(a), [max_posts_per_day |-> {LIMIT}, max_comments_per_day |-> {LIMIT}])

\* The fields of Truth are the hard constraints and the agent's status.  The
\* capabilities say a second time what may be written.
HomeTruth(a, news) ==
    With(Truth(a), [constraints       |-> {TRUE},   \* hard_constraints is there
                    sections          |-> {TRUE},   \* so is every other section
                    post_available    |-> {"post" \in a.may},
                    comment_available |-> {"comment" \in a.may},
                    note_available    |-> {"note" \in a.may},
                    warnings          |-> {"warning" \in news},
                    unread_activity   |-> {IF "activity" \in news THEN 1 ELSE 0},
                    unread_notes      |-> {IF "notes" \in news THEN 1 ELSE 0},
                    urgency           |-> {}])

\* What a field may carry instead.  A section of the answer can only be left
\* out; the status has no alias; a capability may be listed twice.
Wrong(field) ==
    CASE field \in {"constraints", "sections"} -> {{}}
      [] field = "status" -> {{}, {Bad}, {None}} \cup {{s} : s \in Standings}
      [] field = "urgency" -> {{Bad}, {None}, {"normal"}, {"normal", "urgent"}}
      [] field \in {"suspended", "can_create_post", "can_create_comment",
                    "can_send_note", "post_available", "comment_available",
                    "note_available", "warnings"} -> SUBSET BOOLEAN \cup {{Bad}, {None}}
      [] OTHER -> {{}, {Bad}, {None}, {0, 1}} \cup {{n} : n \in 0 .. LIMIT + 1}

WithOneWrong(answer) ==
    {answer} \cup UNION {{[answer EXCEPT ![field] = v] : v \in Wrong(field)} :
                            field \in DOMAIN answer}

-----------------------------------------------------------------------------
(* How a field is read: policy_field, validate_policy_permission and        *)
(* validate_policy_quota                                                     *)

Count == 0 .. LIMIT + 1

Agreed(values, kind) == values \subseteq kind /\ Cardinality(values) <= 1
Stated(values, kind) == Agreed(values, kind) /\ values # {}

Value(values) == IF values = {} THEN None ELSE CHOOSE v \in values : TRUE

PermissionSound(suspended, allowed, remaining) ==
    TRUE \in allowed => TRUE \notin suspended /\ 0 \notin remaining

QuotaSound(maximum, remaining) ==
    \A m \in maximum, r \in remaining : r <= m

-----------------------------------------------------------------------------
(* The hard constraints, and what they mean for a post *)

\* validate_hard_constraints; a post needs nothing of what is said of comments.
ConstraintsSound(a, post_only) ==
    /\ Stated(a.suspended, BOOLEAN)
    /\ Stated(a.can_create_post, BOOLEAN)
    /\ Stated(a.posts_remaining, Count)
    /\ Agreed(a.can_send_note, BOOLEAN)
    /\ Agreed(a.notes_remaining, Count)
    /\ Agreed(a.note_daily_limit, Count)
    /\ PermissionSound(a.suspended, a.can_create_post, a.posts_remaining)
    /\ PermissionSound(a.suspended, a.can_send_note, a.notes_remaining)
    /\ QuotaSound(a.note_daily_limit, a.notes_remaining)
    /\ ~post_only =>
           /\ Stated(a.can_create_comment, BOOLEAN)
           /\ Stated(a.comments_remaining, Count)
           /\ PermissionSound(a.suspended, a.can_create_comment, a.comments_remaining)

\* _preflight_create_post: go on, or the error it returns instead.  It looks at
\* no other section of the home.
Preflight(a) ==
    IF a.constraints = {} THEN "agent_home_contract_missing"
    ELSE IF ~ConstraintsSound(a, TRUE) THEN "agent_home_contract_invalid"
    ELSE IF TRUE \in a.suspended THEN "agent_suspended"
    ELSE IF 0 \in a.posts_remaining THEN "post_daily_limit_exceeded"
    ELSE IF FALSE \in a.can_create_post THEN "post_not_allowed"
    ELSE "go"

Retryable(outcome) == outcome = "post_daily_limit_exceeded"

-----------------------------------------------------------------------------
(* The home as get_agent_home shows it *)

\* The availability of a capability is not checked against the constraints.
HomeShown(a) ==
    /\ a.constraints # {} /\ a.sections # {}
    /\ ConstraintsSound(a, FALSE)
    /\ Stated(a.warnings, BOOLEAN)
    /\ Agreed(a.unread_activity, Count)
    /\ Agreed(a.unread_notes, Count \cup {None})
    /\ Agreed(a.urgency, {"normal", "urgent", None})

\* Fault: the account's own status is not looked at.
EscalationsOfConstraints(a) ==
    {e \in {"agent_suspended", "warning"} :
        \/ e = "agent_suspended" /\ TRUE \in a.suspended
        \/ e = "warning" /\ TRUE \in a.warnings}

\* _to_agent takes any text for a status, and none for a missing one.
Escalations(a) ==
    {e \in {"agent_suspended", "agent_status_attention", "warning"} :
        \/ e = "agent_suspended" /\ TRUE \in a.suspended
        \/ e = "agent_status_attention" /\ a.status # {} /\ a.status \cap Usable = {}
        \/ e = "warning" /\ TRUE \in a.warnings}

Reasons(a) ==
    {r \in {"activity_on_my_posts", "unread_notes", "warnings", "agent_suspended"} :
        \/ r = "activity_on_my_posts" /\ a.unread_activity \cap (1 .. LIMIT + 1) # {}
        \/ r = "unread_notes" /\ a.unread_notes \cap (1 .. LIMIT + 1) # {}
        \/ r = "warnings" /\ TRUE \in a.warnings
        \/ r = "agent_suspended" /\ TRUE \in a.suspended}

\* _to_heartbeat: the backend's own word first.
Urgency(a) ==
    CASE a.urgency \notin {{}, {None}} -> Value(a.urgency)
      [] OTHER -> IF Reasons(a) \cap {"agent_suspended", "warnings"} # {} THEN "urgent"
                  ELSE IF Reasons(a) # {} THEN "attention" ELSE "normal"

\* The kinds of write the hard constraints, or the restrictions of a status,
\* are shown to allow.
Granted(a) ==
    {kind \in Kinds :
        \/ kind = "post" /\ TRUE \in a.can_create_post
        \/ kind = "comment" /\ TRUE \in a.can_create_comment
        \/ kind = "note" /\ TRUE \in a.can_send_note}

\* _to_capabilities: the kinds of write a capability is shown as available for.
\* A missing word or null is no; a value of another type may count as a yes.
Available(a) ==
    LET shown(values) == TRUE \in values \/ Bad \in values
    IN  {kind \in Kinds :
            \/ kind = "post" /\ shown(a.post_available)
            \/ kind = "comment" /\ shown(a.comment_available)
            \/ kind = "note" /\ shown(a.note_available)}

-----------------------------------------------------------------------------
(* The status as get_agent_status shows it, and as a write reads it *)

StatusShown(a) ==
    /\ Stated(a.status, Usable \cup {"suspended"})
    /\ \A count \in {a.max_posts_per_day, a.max_comments_per_day,
                     a.posts_remaining, a.comments_remaining} : Stated(count, Count)
    /\ Agreed(a.note_daily_limit, Count) /\ Agreed(a.notes_remaining, Count)
    /\ QuotaSound(a.max_posts_per_day, a.posts_remaining)
    /\ QuotaSound(a.max_comments_per_day, a.comments_remaining)
    /\ QuotaSound(a.note_daily_limit, a.notes_remaining)
    /\ \A flag \in {a.can_create_post, a.can_create_comment, a.suspended} :
           Stated(flag, BOOLEAN)
    /\ Agreed(a.can_send_note, BOOLEAN)
    /\ PermissionSound(a.suspended, a.can_create_post, a.posts_remaining)
    /\ PermissionSound(a.suspended, a.can_create_comment, a.comments_remaining)
    /\ PermissionSound(a.suspended, a.can_send_note, a.notes_remaining)
    /\ a.status = {"suspended"} => TRUE \in a.suspended

\* authenticate_write looks at nothing else of the status answer.
MayWrite(a) == a.status \cap Usable # {}

-----------------------------------------------------------------------------
(* The calls *)

Init == account \in Accounts /\ call = NoCall

\* Suspended, counted, released, claimed: at any time, but for the moment in
\* which an answer is shown.
AccountChanges ==
    /\ call.phase \notin {"home", "status", "blocked", "cleared"}
    /\ account' \in Accounts \ {account}
    /\ UNCHANGED call

\* What is offered matters to no other field, so the offers come with one answer.
GetAgentHome ==
    /\ call = NoCall
    /\ \E news \in SUBSET News : \E answer \in WithOneWrong(HomeTruth(account, news)) :
       \E offer \in {NoOffer} \cup
                    (IF account = Fresh /\ answer = HomeTruth(Fresh, {}) THEN OFFERS ELSE {}) :
          call' = [phase |-> "home", news |-> news, answer |-> answer, offer |-> offer]
    /\ UNCHANGED account

GetAgentStatus ==
    /\ call = NoCall
    /\ \E answer \in WithOneWrong(StatusTruth(account)) :
          call' = [phase |-> "status", answer |-> answer]
    /\ UNCHANGED account

\* The first read of a write.
\* Fault: a post that brings its answer is not checked a second time.
FirstReadOnce(kind, answering) ==
    IF kind = "post" /\ ~answering THEN "preflight" ELSE "authenticate"
FirstRead(kind, answering) ==
    IF kind = "post" THEN "preflight" ELSE "authenticate"

\* A write is called without a challenge, to get one, or with an answered one.
CallWrite ==
    /\ call = NoCall
    /\ \E kind \in Kinds, answering \in BOOLEAN :
          call' = [phase |-> FirstRead(kind, answering),
                   kind |-> kind, answering |-> answering, posting |-> FALSE]
    /\ UNCHANGED account

CheckHome ==
    /\ call.phase = "preflight"
    /\ \E answer \in WithOneWrong(HomeTruth(account, {})) :
          call' = IF Preflight(answer) = "go"
                  THEN [call EXCEPT !.phase = "authenticate",
                                    !.posting = ~Suspended(account) /\ account.left["post"] > 0]
                  ELSE [phase |-> "blocked", answer |-> answer]
    /\ UNCHANGED account

\* The status read clears the call: a challenge is issued, or the one that was
\* answered is checked and the write sent.  A wrong status raises.
AuthenticateWrite ==
    /\ call.phase = "authenticate"
    /\ \E answer \in WithOneWrong(StatusTruth(account)) :
          call' = IF MayWrite(answer)
                  THEN [phase |-> "cleared", kind |-> call.kind, answering |-> call.answering,
                        posting |-> call.posting,
                        usable |-> answer = StatusTruth(account) => account.standing \in Usable]
                  ELSE NoCall
    /\ UNCHANGED account

\* A read that fails ends the call as well.
ReadFails ==
    /\ call.phase \in {"preflight", "authenticate"}
    /\ call' = NoCall
    /\ UNCHANGED account

Return ==
    /\ call.phase \in {"home", "status", "blocked", "cleared"}
    /\ call' = NoCall
    /\ UNCHANGED account

Next == AccountChanges \/ GetAgentHome \/ GetAgentStatus \/ CallWrite
        \/ CheckHome \/ AuthenticateWrite \/ ReadFails \/ Return

Spec == Init /\ [][Next]_vars

-----------------------------------------------------------------------------
(* Properties *)

\* No write goes ahead on old facts or on one wrong field: a post is cleared
\* only if at this call's own reading of the home the agent was not suspended and
\* had posts left, even if any one field of that answer was wrong, and any write
\* only for an account that was usable when its status was read.
GoAheadGrounded ==
    call.phase = "cleared" =>
        /\ call.kind = "post" => call.posting
        /\ call.usable

\* What is shown of an answer that is right is the account, and the reason a post
\* is refused for is the real one: a caller told to retry has only used up its
\* posts.  The hard constraints of a home and the check before a post read one
\* answer alike.  And no single wrong field makes the hard constraints shown to a
\* suspended agent, or the restrictions of its status, allow anything, or keeps
\* the suspension from the human.  Of what the capabilities of a wrong answer
\* show nothing is said: they are the backend's word and are passed on unchecked.
HomeTruthful ==
    /\ call.phase = "home" =>
           /\ call.answer = HomeTruth(account, call.news) =>
                  /\ HomeShown(call.answer)
                  /\ Granted(call.answer) = account.may
                  /\ Available(call.answer) = account.may
                  /\ Urgency(call.answer) = "normal" <=>
                         call.news = {} /\ ~Suspended(account)
           /\ HomeShown(call.answer) =>
                  (Preflight(call.answer) = "go" <=> "post" \in Granted(call.answer))
           /\ HomeShown(call.answer) /\ Suspended(account) =>
                  Granted(call.answer) = {} /\ Escalations(call.answer) \ {"warning"} # {}
    /\ call.phase = "status" =>
           /\ call.answer = StatusTruth(account) =>
                  (StatusShown(call.answer) <=> account.standing # "pending")
           /\ StatusShown(call.answer) /\ Suspended(account) =>
                  TRUE \in call.answer.suspended /\ Granted(call.answer) = {}
    /\ call.phase = "blocked" /\ call.answer = HomeTruth(account, {}) =>
           /\ "post" \notin account.may
           /\ Retryable(Preflight(call.answer)) <=>
                  ~Suspended(account) /\ account.left["post"] = 0

\* An offered action is shown as valid and complete exactly when the tool would
\* take the call as it stands, and one shown as valid is taken once the inputs
\* named as missing are added; only the operation's id is left to the call, its
\* use depends on the backend.
OffersCallable ==
    call.phase = "home" /\ call.offer # NoOffer =>
        LET tool == call.offer.tool
            params == call.offer.params
            full == Filled(tool, params)
            ready(p) == tool \in Writes => OperationUsable(p)
        IN  /\ Entered(tool, params) <=> InputComplete(tool, params) /\ ready(params)
            /\ Valid(tool, params) /\ ready(full) => Entered(tool, full)

=============================================================================
