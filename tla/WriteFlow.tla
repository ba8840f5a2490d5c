------------------------------- MODULE WriteFlow -------------------------------
(***************************************************************************)
(* A challenge-gated write end to end: the tools create_post,              *)
(* create_comment, create_reply and send_note (tools/activity.py,          *)
(* tools/notes.py) over the challenge manager, the POST to the backend     *)
(* with its optional idempotency key, and the answer the agent gets.       *)
(*                                                                         *)
(* Before it touches a challenge a tool only reads from the backend, and   *)
(* all it keeps of that is whether to go on, so a call is modelled from    *)
(* the step that verifies or issues.  That step has no await in it.  The   *)
(* await of the POST is where other calls, a timeout, a lost message or a  *)
(* restart come in between.                                                *)
(***************************************************************************)
EXTENDS Integers, Sequences, FiniteSets

CONSTANTS
    Task,     \* tool calls in flight
    Write,    \* what an agent wants written: action, target and content
    Post,     \* the writes made with create_post
    NoId,     \* no challenge id, no operation id
    NoTask,   \* nobody waits for the response
    SUPPORT,  \* NOVIIS_OPERATION_SUPPORT
    MaxCommits, \* bound: the backend stops committing
    \* those of ChallengeManager
    Owner, Id, EXPIRES, FAIL_LIMIT, FAILURE_WINDOW, SUSPEND, MAX_PENDING,
    ISSUE_LIMIT, ISSUE_WINDOW, RETENTION, MAX_TOTAL_PENDING, MAX_RECORDS,
    MaxClock, MaxBoots

ASSUME FlowParameters ==
    /\ SUPPORT \in BOOLEAN /\ Post \subseteq Write
    /\ NoId \notin Id /\ NoTask \notin Task /\ MaxCommits \in Nat

VARIABLES
    clock, challenges, owners, reply, boot, grants, accepted,
    call,     \* what each task is at
    wire,     \* POSTs the backend has not handled yet
    commits,  \* the writes the backend made, in order
    outcome   \* what the last call that ended returned or raised

OpId == Id \cup {NoId}

\* A challenge is bound to the write and to the operation id.
Payloads == Write \X OpId

CM == INSTANCE ChallengeManager WITH Context <- Payloads

ASSUME ManagerParameters == CM!LimitsArePositive /\ CM!BoundsAreNaturals

vars == <<clock, challenges, owners, reply, boot, grants, accepted,
          call, wire, commits, outcome>>

\* A step that leaves the challenge manager alone.
ManagerIdle ==
    /\ reply' = CM!Silent
    /\ UNCHANGED <<clock, challenges, owners, boot, grants, accepted>>

\* Fault: the operation id is left out of what the challenge is bound to.
BoundWithoutOperation(w, op) == <<w, NoId>>
Bound(w, op) == <<w, op>>

\* write_operation_id
OperationId(id, op) ==
    IF ~SUPPORT THEN NoId ELSE IF op = NoId THEN id ELSE op

-------------------------------------------------------------------------------
(* State *)

Request == [owner: Owner, write: Write, op: OpId, id: Id]
Phase == {"idle", "replacing", "posting"}
Heard == {"nothing", "success", "rejection", "rate limit"}
Idle == [phase |-> "idle"]
Call == [phase: Phase \ {"idle"}, request: Request, heard: Heard]

Message == [task: Task \cup {NoTask}, request: Request]

\* "blocked": used, unknown or mismatching challenge; "rejected": blocked by a
\* 4xx answer; "preflight": blocked before the challenge was looked at;
\* "raised": an exception, the outcome of the write is not known.
Status == {"challenge_required", "limited", "blocked", "rejected", "preflight",
           "created", "raised"}
\* The caller, and the challenge it sent.
Outcome == [status: Status, retryable: BOOLEAN, owner: Owner, id: OpId]
Silent == [status |-> "none"]

TypeOK ==
    /\ CM!TypeOK
    /\ call \in [Task -> Call \cup {Idle}]
    /\ wire \subseteq Message
    /\ commits \in Seq(Request)
    /\ outcome \in Outcome \cup {Silent}

Answer(status, retryable, o, id) ==
    outcome' = [status |-> status, retryable |-> retryable, owner |-> o, id |-> id]

\* Nothing else runs between a failed verification and its replacement.
Undivided == \A t \in Task : call[t].phase # "replacing"

-------------------------------------------------------------------------------
(* First call: no challenge yet *)

\* The challenge is bound to the operation id the agent gave, or to its own id.
RequestChallenge(o, w, op) ==
    /\ Undivided
    /\ op # NoId => SUPPORT     \* check_operation_support
    /\ \/ /\ \E id \in Id :
               CM!IssueGranted(o, Bound(w, OperationId(id, op)), id)
          /\ Answer("challenge_required", TRUE, o, NoId)
       \/ /\ CM!IssueRefused(o)
          /\ Answer("limited", TRUE, o, NoId)
    /\ UNCHANGED <<call, wire, commits>>

\* A read before the challenge is answered 4xx, or says that the agent cannot
\* post now: retryable for a 429 and for an exhausted daily limit.
Preflight(o, id, retryable) ==
    /\ Undivided
    /\ Answer("preflight", retryable, o, id)
    /\ ManagerIdle
    /\ UNCHANGED <<call, wire, commits>>

-------------------------------------------------------------------------------
(* Second call: verify_or_reissue_challenge *)

\* Fault: an unknown challenge is replaced like a failed one.
ReplacesUnknown(code, w) ==
    code \in {"expired", "failed", "foreign", "unknown"}
      \/ (code = "mismatch" /\ w \notin Post)

\* A known challenge that let nothing through is replaced.
Replaces(code, w) ==
    code \in {"expired", "failed", "foreign"}
      \/ (code = "mismatch" /\ w \notin Post)

\* Fault: the idempotency key is not sent.
KeylessMessage(t, r) == [task |-> t, request |-> [r EXCEPT !.op = NoId]]
PostMessage(t, r) == [task |-> t, request |-> r]

\* Bound: the model has finitely many ids, and keeps one for the replacement.
IdLeft == Id \ DOMAIN grants # {}

Posting(r, heard) == [phase |-> "posting", request |-> r, heard |-> heard]
Replacing(r) == [phase |-> "replacing", request |-> r, heard |-> "nothing"]

\* The tool's ways on from what verify_challenge said of r's challenge.
GoOn(t, r, code) ==
    \/ /\ code = "accepted"
       /\ call' = [call EXCEPT ![t] = Posting(r, "nothing")]
       /\ wire' = wire \cup {PostMessage(t, r)}
       /\ outcome' = Silent
    \/ /\ Replaces(code, r.write)
       /\ IdLeft
       /\ call' = [call EXCEPT ![t] = Replacing(r)]
       /\ wire' = wire
       /\ outcome' = Silent
    \/ /\ code \in {"suspended", "owner_storage"}
       /\ Answer("limited", TRUE, r.owner, r.id)
       /\ UNCHANGED <<call, wire>>
    \/ /\ code \notin {"accepted", "suspended", "owner_storage"}
       /\ ~Replaces(code, r.write)
       /\ Answer("blocked", FALSE, r.owner, r.id)
       /\ UNCHANGED <<call, wire>>

Prepared(o, w, op, id) ==
    [owner |-> o, write |-> w, op |-> OperationId(id, op), id |-> id]

\* Into the POST once the challenge is accepted.
Submit(t, o, w, op, id) ==
    LET r == Prepared(o, w, op, id)
    IN  /\ Undivided
        /\ call[t] = Idle
        /\ op # NoId => SUPPORT
        /\ CM!Verify(o, Bound(w, r.op), id)
        /\ GoOn(t, r, reply'.code)
        /\ UNCHANGED commits

\* issue_challenge_result for the same payload, operation id included.
Replace(t) ==
    /\ call[t].phase = "replacing"
    /\ LET r == call[t].request
       IN  \/ /\ \E id \in Id : CM!IssueGranted(r.owner, Bound(r.write, r.op), id)
              /\ Answer("challenge_required", TRUE, r.owner, r.id)
           \/ /\ CM!IssueRefused(r.owner)
              /\ Answer("limited", TRUE, r.owner, r.id)
    /\ call' = [call EXCEPT ![t] = Idle]
    /\ UNCHANGED <<wire, commits>>

-------------------------------------------------------------------------------
(* The POST *)

\* No call waits for the messages of the tasks in T any more.
Disowned(T) ==
    {[m EXCEPT !.task = IF m.task \in T THEN NoTask ELSE m.task] : m \in wire}

AnswerTo(t) ==
    LET r == call[t].request
    IN  CASE call[t].heard = "success"    -> Answer("created", FALSE, r.owner, r.id)
          [] call[t].heard = "rejection"  -> Answer("rejected", FALSE, r.owner, r.id)
          [] call[t].heard = "rate limit" -> Answer("rejected", TRUE, r.owner, r.id)

\* A well-formed answer arrives.  Of the 4xx answers those with an error code
\* are rejections; a 401, a 403 without a code and the rest are exceptions.
ReturnAnswer(t) ==
    /\ Undivided
    /\ call[t].phase = "posting" /\ call[t].heard # "nothing"
    /\ AnswerTo(t)
    /\ call' = [call EXCEPT ![t] = Idle]
    /\ ManagerIdle
    /\ UNCHANGED <<wire, commits>>

\* Fault: the client sends the POST again after a server error.
RaiseUnknownResends(t) ==
    /\ Undivided
    /\ call[t].phase = "posting"
    /\ wire' = Disowned({t}) \cup {PostMessage(t, call[t].request)}
    /\ call' = [call EXCEPT ![t].heard = "nothing"]
    /\ outcome' = Silent
    /\ ManagerIdle
    /\ UNCHANGED commits

\* Fault: a server error is reported like a rejection.
RaiseUnknownAsRejection(t) ==
    /\ Undivided
    /\ call[t].phase = "posting"
    /\ Answer("rejected", TRUE, call[t].request.owner, call[t].request.id)
    /\ wire' = Disowned({t})
    /\ call' = [call EXCEPT ![t] = Idle]
    /\ ManagerIdle
    /\ UNCHANGED commits

\* Fault: no deadline, an answer that never comes is waited for.
RaiseUnknownOnAnswer(t) ==
    /\ Undivided
    /\ call[t].phase = "posting" /\ call[t].heard # "nothing"
    /\ Answer("raised", FALSE, call[t].request.owner, call[t].request.id)
    /\ wire' = Disowned({t})
    /\ call' = [call EXCEPT ![t] = Idle]
    /\ ManagerIdle
    /\ UNCHANGED commits

\* Deadline, transport error, 5xx, malformed success: the call ends with an
\* exception, whatever the backend has done or is still going to do.
RaiseUnknown(t) ==
    /\ Undivided
    /\ call[t].phase = "posting"
    /\ Answer("raised", FALSE, call[t].request.owner, call[t].request.id)
    /\ wire' = Disowned({t})
    /\ call' = [call EXCEPT ![t] = Idle]
    /\ ManagerIdle
    /\ UNCHANGED commits

-------------------------------------------------------------------------------
(* The backend (external): it keeps a receipt for each idempotency key.    *)

Receipts(r) ==
    {i \in DOMAIN commits : /\ r.op # NoId
                            /\ commits[i].op = r.op
                            /\ commits[i].owner = r.owner}

Handled(m, heard) ==
    /\ m \in wire
    /\ wire' = wire \ {m}
    /\ call' = IF m.task = NoTask THEN call
               ELSE [call EXCEPT ![m.task].heard = heard]
    /\ outcome' = Silent
    /\ ManagerIdle

Commit(m) ==
    /\ Len(commits) < MaxCommits
    /\ Receipts(m.request) = {}
    /\ Handled(m, "success")
    /\ commits' = Append(commits, m.request)

\* The stored result for the same write, 409 for another one.
AnswerFromReceipt(m) ==
    /\ \E i \in Receipts(m.request) :
         Handled(m, IF commits[i].write = m.request.write
                    THEN "success" ELSE "rejection")
    /\ UNCHANGED commits

Refuse(m) ==
    /\ \E heard \in {"rejection", "rate limit"} : Handled(m, heard)
    /\ UNCHANGED commits

\* The request is lost, or fails without an effect: nothing is heard.
Lose(m) == Handled(m, "nothing") /\ UNCHANGED commits

-------------------------------------------------------------------------------
(* Environment *)

\* The process loses its calls and its challenges; POSTs on their way arrive.
Restart ==
    /\ CM!Restart
    /\ call' = [t \in Task |-> Idle]
    /\ wire' = Disowned(Task)
    /\ outcome' = Silent
    /\ UNCHANGED commits

Tick ==
    /\ CM!Tick
    /\ outcome' = Silent
    /\ UNCHANGED <<call, wire, commits>>

Init ==
    /\ CM!Init
    /\ call = [t \in Task |-> Idle]
    /\ wire = {}
    /\ commits = <<>>
    /\ outcome = Silent

\* Ids an agent can name: those handed out so far.
Known == DOMAIN grants

Advance(t) == Replace(t) \/ ReturnAnswer(t) \/ RaiseUnknown(t)

Next ==
    \/ \E o \in Owner, w \in Write, op \in Known \cup {NoId} :
         RequestChallenge(o, w, op)
    \/ \E o \in Owner, id \in Known \cup {NoId}, retryable \in BOOLEAN :
         Preflight(o, id, retryable)
    \/ \E t \in Task, o \in Owner, w \in Write :
         \E op \in Known \cup {NoId}, id \in Known : Submit(t, o, w, op, id)
    \/ \E t \in Task : Advance(t)
    \/ \E m \in wire :
         Commit(m) \/ AnswerFromReceipt(m) \/ Refuse(m) \/ Lose(m)
    \/ Restart
    \/ Tick

Spec == Init /\ [][Next]_vars

\* The event loop resumes every call, and fail_after ends every await.
FairSpec == Spec /\ \A t \in Task : WF_vars(Advance(t))

-------------------------------------------------------------------------------
(* Properties *)

\* One challenge lets at most one write through to the backend, however calls
\* overlap, are retried, time out or are cut off by a restart: the client never
\* sends a POST twice and a challenge is consumed before its POST.
OneCommitPerChallenge ==
    \A i, j \in DOMAIN commits : commits[i].id = commits[j].id => i = j

\* README.md, durable write operations: with operation support, retries with
\* the same operation id and fresh challenges commit once.
OneCommitPerOperation ==
    SUPPORT => \A i, j \in DOMAIN commits :
        /\ commits[i].owner = commits[j].owner
        /\ commits[i].op = commits[j].op
        => i = j

\* What is committed is exactly what some agent confirmed by solving a
\* challenge issued to it for that write under that operation id.
CommitsAsConfirmed ==
    \A i \in DOMAIN commits :
        LET c == commits[i]
        IN  /\ c.id \in DOMAIN accepted
            /\ grants[c.id].owner = c.owner
            /\ grants[c.id].context = <<c.write, c.op>>

\* The write of the owner's challenge is made, or may still be made.
MayBeWritten(o, id) ==
    \/ \E i \in DOMAIN commits : commits[i].owner = o /\ commits[i].id = id
    \/ \E m \in wire : m.request.owner = o /\ m.request.id = id

\* The answers a verified call gives are true: "created" only for a write that
\* exists; a rejection, a limit or a replacement only if the write of the caller's
\* challenge is not made and cannot be made any more by an earlier POST.
AnswerTrue ==
    /\ outcome.status = "created" =>
         \E i \in DOMAIN commits :
             /\ commits[i].owner = outcome.owner
             /\ <<commits[i].write, commits[i].op>> = grants[outcome.id].context
    /\ outcome.status \in {"rejected", "limited", "challenge_required"} =>
         ~MayBeWritten(outcome.owner, outcome.id)
AnswersHonest == [][AnswerTrue']_vars

\* tools/write_errors.py:11-14: a committed write is not declared safely
\* retryable.
CommittedNeverRetryable ==
    outcome # Silent /\ outcome.retryable =>
        \A i \in DOMAIN commits :
            commits[i].owner = outcome.owner => commits[i].id # outcome.id

\* Every call ends: no lost message, slow backend or other call keeps it.
CallsEnd == \A t \in Task : call[t] # Idle ~> call[t] = Idle

-------------------------------------------------------------------------------
(* The inductive invariant behind the safety properties, next to that of   *)
(* the challenge manager                                                   *)

CallsTyped ==
    /\ call \in [Task -> Call \cup {Idle}]
    /\ wire \subseteq Message
    /\ commits \in Seq(Request)

\* The agent solved a challenge of its own for this write and operation.
Confirmed(r) ==
    /\ r.id \in DOMAIN accepted /\ r.id \in DOMAIN grants
    /\ grants[r.id].owner = r.owner
    /\ grants[r.id].context = <<r.write, r.op>>
    /\ SUPPORT => r.op # NoId

AllConfirmed ==
    /\ \A t \in Task : call[t].phase = "posting" => Confirmed(call[t].request)
    /\ \A m \in wire : Confirmed(m.request)
    /\ \A i \in DOMAIN commits : Confirmed(commits[i])

\* A challenge is on its way, or has been written, or neither.
SentOnce ==
    /\ \A m, n \in wire : m.request.id = n.request.id => m = n
    /\ \A m \in wire, i \in DOMAIN commits : commits[i].id # m.request.id
    /\ OneCommitPerChallenge

\* What a call has heard is so.
HeardTrue(c) ==
    /\ c.heard = "success" =>
         \E i \in DOMAIN commits :
             /\ commits[i].owner = c.request.owner
             /\ commits[i].write = c.request.write
             /\ commits[i].op = c.request.op
    /\ c.heard \in {"rejection", "rate limit"} =>
         ~MayBeWritten(c.request.owner, c.request.id)

\* The challenge has let nothing of the caller's through.
Unspent(r) == ~(r.id \in DOMAIN accepted /\ grants[r.id].owner = r.owner)

CallsKnow ==
    /\ \A m \in wire :
         m.task # NoTask => call[m.task] = Posting(m.request, "nothing")
    /\ \A t \in Task :
         /\ call[t].phase = "posting" => HeardTrue(call[t])
         /\ call[t].phase = "replacing" => Unspent(call[t].request)

FlowInv ==
    CallsTyped /\ AllConfirmed /\ SentOnce /\ OneCommitPerOperation /\ CallsKnow
===============================================================================
