---------------------------- MODULE WriteFlowProofs ----------------------------
(***************************************************************************)
(* One challenge, one operation, one write, for any number of agents,      *)
(* writes and overlapping calls.  What the challenge manager guarantees is *)
(* proved in ChallengeManagerProofs; here it is carried over to the calls, *)
(* the messages they send and the writes the backend makes of them.  The   *)
(* last part is about the client that sends the POST: the two modules have *)
(* no name in common, and nothing here relates the states of both.         *)
(***************************************************************************)
EXTENDS WriteFlow, BackendRequest, SequenceTheorems, TLAPS

\* The manager of the flow, with the theorems about it.
CMP == INSTANCE ChallengeManagerProofs WITH Context <- Payloads

-------------------------------------------------------------------------------
(* CM and CMP are instances of one module: what they define is the same.   *)

LEMMA Limits == CMP!LimitsArePositive /\ CMP!BoundsAreNaturals
BY ManagerParameters DEF ManagerParameters, CM!LimitsArePositive, CMP!LimitsArePositive,
   CM!BoundsAreNaturals, CMP!BoundsAreNaturals

LEMMA SameCardinality == \A S : CM!Cardinality(S) = CMP!Cardinality(S)
BY DEF CM!Cardinality, CMP!Cardinality

LEMMA SameRecords ==
    /\ \A t : CM!RecordsAt(t) = CMP!RecordsAt(t)
    /\ CM!Records = CMP!Records
<1>1. \A t : CM!RecordsAt(t) = CMP!RecordsAt(t)
  BY Zenon DEF CM!RecordsAt, CMP!RecordsAt, CM!Forgotten, CMP!Forgotten,
     CM!Lapse, CMP!Lapse, CM!Finish, CMP!Finish, CM!None, CMP!None
<1>2. QED
  BY <1>1 DEF CM!Records, CMP!Records

LEMMA SamePending ==
    \A cs : /\ CM!Pending(cs) = CMP!Pending(cs)
            /\ \A o : CM!PendingOf(cs, o) = CMP!PendingOf(cs, o)
BY Zenon DEF CM!Pending, CMP!Pending, CM!PendingOf, CMP!PendingOf

LEMMA SameStates ==
    /\ \A t : CM!StatesAt(t) = CMP!StatesAt(t)
    /\ CM!States = CMP!States
<1>1. \A t : CM!StatesAt(t) = CMP!StatesAt(t)
  BY Zenon DEF CM!StatesAt, CMP!StatesAt, CM!Pending, CMP!Pending, CM!Idle, CMP!Idle,
     CM!Prune, CMP!Prune, CM!RecordsAt, CMP!RecordsAt, CM!Forgotten, CMP!Forgotten,
     CM!Lapse, CMP!Lapse, CM!Finish, CMP!Finish, CM!None, CMP!None
<1>2. QED
  BY <1>1 DEF CM!States, CMP!States

LEMMA SameOwnerState ==
    \A os, o, t :
        /\ CM!NoRoom(os, o) <=> CMP!NoRoom(os, o)
        /\ CM!Suspended(os, o, t) <=> CMP!Suspended(os, o, t)
        /\ CM!WithOwner(os, o) = CMP!WithOwner(os, o)
        /\ CM!WithStamp(os, t) = CMP!WithStamp(os, t)
        /\ CM!StrikesOut(os, o, t) <=> CMP!StrikesOut(os, o, t)
        /\ CM!MarkFailure(os, o, t) = CMP!MarkFailure(os, o, t)
<1> SUFFICES ASSUME NEW os, NEW o, NEW t
             PROVE  /\ CM!NoRoom(os, o) <=> CMP!NoRoom(os, o)
                    /\ CM!Suspended(os, o, t) <=> CMP!Suspended(os, o, t)
                    /\ CM!WithOwner(os, o) = CMP!WithOwner(os, o)
                    /\ CM!WithStamp(os, t) = CMP!WithStamp(os, t)
                    /\ CM!StrikesOut(os, o, t) <=> CMP!StrikesOut(os, o, t)
                    /\ CM!MarkFailure(os, o, t) = CMP!MarkFailure(os, o, t)
  OBVIOUS
<1>1. CM!NoRoom(os, o) <=> CMP!NoRoom(os, o)
  BY SameCardinality DEF CM!NoRoom, CMP!NoRoom
<1>2. CM!Suspended(os, o, t) <=> CMP!Suspended(os, o, t)
  BY DEF CM!Suspended, CMP!Suspended, CM!None, CMP!None
<1>3. CM!WithOwner(os, o) = CMP!WithOwner(os, o)
  BY Zenon DEF CM!WithOwner, CMP!WithOwner, CM!NewOwner, CMP!NewOwner, CM!None, CMP!None
<1>4. \A S : CM!WithStamp(S, t) = CMP!WithStamp(S, t)
  BY SameCardinality DEF CM!WithStamp, CMP!WithStamp
<1>5. CM!Struck(os, o, t) = CMP!Struck(os, o, t)
  BY <1>4 DEF CM!Struck, CMP!Struck
<1>6. CM!StrikesOut(os, o, t) <=> CMP!StrikesOut(os, o, t)
  BY <1>5, SameCardinality DEF CM!StrikesOut, CMP!StrikesOut
<1>7. CM!MarkFailure(os, o, t) = CMP!MarkFailure(os, o, t)
  BY <1>5, <1>6, Zenon DEF CM!MarkFailure, CMP!MarkFailure
<1>8. QED
  BY <1>1, <1>2, <1>3, <1>4, <1>6, <1>7

LEMMA SameOutcome == \A o, t : CM!IssueOutcome(o, t) = CMP!IssueOutcome(o, t)
BY SameRecords, SameStates, SamePending, SameOwnerState, SameCardinality
   DEF CM!IssueOutcome, CMP!IssueOutcome

\* RetryDeadline over given tables.
Deadline(cs, os, code, pending, own, o, t) ==
    LET expiries(S) == {cs[id].expires : id \in S}
        releases == {CM!Release(cs[id]) : id \in DOMAIN cs}
    IN  CASE code = "owner_storage"  -> t + FAILURE_WINDOW
          [] code = "suspended"      -> os[o].suspended
          [] code = "record_storage" -> CM!Earliest(releases)
          [] code = "global_pending" -> CM!Earliest(expiries(pending))
          [] code = "issue_limit"    -> CM!Earliest({x[1] : x \in os[o].issued})
                                          + ISSUE_WINDOW
          [] code = "pending_limit"  -> CM!Earliest(expiries(own))

LEMMA SameRetry == \A o, t : CM!RetryAfter(o, t) = CMP!RetryAfter(o, t)
<1> SUFFICES ASSUME NEW o, NEW t
             PROVE  CM!RetryAfter(o, t) = CMP!RetryAfter(o, t)
  OBVIOUS
<1>1. CM!RetryDeadline(o, t) =
        Deadline(CM!RecordsAt(t), CM!StatesAt(t), CM!IssueOutcome(o, t),
                 CM!Pending(CM!RecordsAt(t)), CM!PendingOf(CM!RecordsAt(t), o), o, t)
  BY Zenon DEF CM!RetryDeadline, Deadline
<1>2. CMP!RetryDeadline(o, t) =
        Deadline(CMP!RecordsAt(t), CMP!StatesAt(t), CMP!IssueOutcome(o, t),
                 CMP!Pending(CMP!RecordsAt(t)), CMP!PendingOf(CMP!RecordsAt(t), o), o, t)
  BY Zenon DEF CMP!RetryDeadline, Deadline, CM!Earliest, CMP!Earliest, CM!Release,
     CMP!Release, CM!None, CMP!None
<1>3. CM!RetryDeadline(o, t) = CMP!RetryDeadline(o, t)
  BY <1>1, <1>2, SameRecords, SameStates, SamePending, SameOutcome, Zenon
<1>4. QED
  BY <1>3, Zenon DEF CM!RetryAfter, CMP!RetryAfter, CM!SecondsUntil, CMP!SecondsUntil

LEMMA SameIssue ==
    ASSUME NEW o
    PROVE  /\ CM!IssueRefused(o) <=> CMP!IssueRefused(o)
           /\ \A c, id : CM!IssueGranted(o, c, id) <=> CMP!IssueGranted(o, c, id)
<1>1. CM!IssueRefused(o) <=> CMP!IssueRefused(o)
  BY SameRecords, SameStates, SameOwnerState, SameOutcome, SameRetry
     DEF CM!IssueRefused, CMP!IssueRefused, CM!Respond, CMP!Respond, CM!history, CMP!history
<1>2. \A c, id : CM!IssueGranted(o, c, id) <=> CMP!IssueGranted(o, c, id)
  BY SameRecords, SameStates, SameOwnerState, SameOutcome
     DEF CM!IssueGranted, CMP!IssueGranted, CM!Respond, CMP!Respond, CM!Put, CMP!Put,
         CM!NewRecord, CMP!NewRecord, CM!Noted, CMP!Noted, CM!None, CMP!None
<1>3. QED
  BY <1>1, <1>2

LEMMA SameVerify == \A o, c, id : CM!Verify(o, c, id) <=> CMP!Verify(o, c, id)
<1> SUFFICES ASSUME NEW o, NEW c, NEW id
             PROVE  CM!Verify(o, c, id) <=> CMP!Verify(o, c, id)
  OBVIOUS
<1>1. /\ CM!Holds(o, id) <=> CMP!Holds(o, id)
      /\ CM!MayTry(o) <=> CMP!MayTry(o)
      /\ CM!Admitted(o, id) <=> CMP!Admitted(o, id)
  BY SameRecords, SameStates, SameOwnerState
     DEF CM!Holds, CMP!Holds, CM!MayTry, CMP!MayTry, CM!Admitted, CMP!Admitted
<1>2. \A code : CM!CountFailure(code, o) <=> CMP!CountFailure(code, o)
  BY SameStates, SameOwnerState
     DEF CM!CountFailure, CMP!CountFailure, CM!Respond, CMP!Respond
<1>3. \A status : CM!Close(id, status) <=> CMP!Close(id, status)
  BY SameRecords DEF CM!Close, CMP!Close, CM!Finish, CMP!Finish
<1>4. /\ CM!VerifyUnknown(o, id) <=> CMP!VerifyUnknown(o, id)
      /\ CM!VerifyForeign(o, id) <=> CMP!VerifyForeign(o, id)
      /\ CM!VerifyUsed(o, id) <=> CMP!VerifyUsed(o, id)
      /\ CM!VerifyBlocked(o, id) <=> CMP!VerifyBlocked(o, id)
  BY <1>1, <1>2, SameRecords, SameStates, SameOwnerState
     DEF CM!VerifyUnknown, CMP!VerifyUnknown, CM!VerifyForeign, CMP!VerifyForeign,
         CM!VerifyUsed, CMP!VerifyUsed, CM!VerifyBlocked, CMP!VerifyBlocked,
         CM!Respond, CMP!Respond, CM!SecondsUntil, CMP!SecondsUntil, CM!history, CMP!history
<1>5. /\ CM!VerifyMismatch(o, c, id) <=> CMP!VerifyMismatch(o, c, id)
      /\ CM!VerifyExpired(o, c, id) <=> CMP!VerifyExpired(o, c, id)
      /\ CM!VerifyFailed(o, c, id) <=> CMP!VerifyFailed(o, c, id)
      /\ CM!VerifyIncorrect(o, c, id) <=> CMP!VerifyIncorrect(o, c, id)
  BY <1>1, <1>2, <1>3, SameRecords, SameStates, SameOwnerState
     DEF CM!VerifyMismatch, CMP!VerifyMismatch, CM!VerifyExpired, CMP!VerifyExpired,
         CM!VerifyFailed, CMP!VerifyFailed, CM!VerifyIncorrect, CMP!VerifyIncorrect,
         CM!Respond, CMP!Respond, CM!history, CMP!history
<1>6. CM!VerifyAccepted(o, c, id) <=> CMP!VerifyAccepted(o, c, id)
  BY <1>1, <1>3, SameRecords, SameStates, SameOwnerState
     DEF CM!VerifyAccepted, CMP!VerifyAccepted, CM!Respond, CMP!Respond,
         CM!Put, CMP!Put, CM!Noted, CMP!Noted
<1>7. QED
  BY <1>4, <1>5, <1>6 DEF CM!Verify, CMP!Verify

LEMMA SameRest ==
    /\ CM!Init <=> CMP!Init
    /\ CM!Tick <=> CMP!Tick
    /\ CM!Restart <=> CMP!Restart
BY DEF CM!Init, CMP!Init, CM!Tick, CMP!Tick, CM!Restart, CMP!Restart,
   CM!Empty, CMP!Empty, CM!Silent, CMP!Silent, CM!history, CMP!history

-------------------------------------------------------------------------------
(* What one call of the manager tells the flow *)

\* Time, other agents and restarts do not touch what has been granted or accepted.
LEMMA IdleKeeps == CMP!IInv /\ ManagerIdle => CMP!IInv'
<1> SUFFICES ASSUME CMP!IInv, ManagerIdle
             PROVE  CMP!IInv'
  OBVIOUS
<1>1. UNCHANGED <<clock, challenges, owners, boot, grants, accepted>>
      /\ reply' = CMP!Silent
  BY DEF ManagerIdle, CM!Silent, CMP!Silent
<1>2. CMP!TypeOK'
  BY <1>1 DEF CMP!IInv, CMP!TypeOK
<1>3. CMP!Bookkeeping'
  BY <1>1 DEF CMP!IInv, CMP!Bookkeeping, CMP!NotFromTheFuture, CMP!AcceptedAsIssued,
     CMP!IssuedByUs, CMP!UsedKept, CMP!OwnersKept, CMP!Pending
<1>4. QED
  BY <1>2, <1>3 DEF CMP!IInv

LEMMA ManagerKeeps ==
    ASSUME CMP!IInv,
           \/ \E o \in Owner : CM!IssueRefused(o)
           \/ \E o \in Owner, c \in Payloads, id \in Id :
                CM!IssueGranted(o, c, id) \/ CM!Verify(o, c, id)
           \/ CM!Tick \/ CM!Restart
    PROVE  CMP!IInv'
<1>1. CMP!Next
  BY SameIssue, SameVerify, SameRest DEF CMP!Next
<1>2. QED
  BY <1>1, Limits, CMP!InvStep DEF CMP!InvStep

\* An accepted challenge was not accepted before and was granted for this very
\* caller and write; one that is refused otherwise than as unknown or used has
\* let nothing of the caller's through.
LEMMA VerifyFacts ==
    ASSUME CMP!IInv, NEW o \in Owner, NEW c \in Payloads, NEW id \in Id,
           CM!Verify(o, c, id)
    PROVE  /\ grants' = grants
           /\ reply'.code = "accepted" =>
                /\ id \notin DOMAIN accepted /\ id \in DOMAIN grants
                /\ grants[id].owner = o /\ grants[id].context = c
                /\ DOMAIN accepted' = DOMAIN accepted \cup {id}
           /\ reply'.code # "accepted" => accepted' = accepted
           /\ reply'.code \notin {"accepted", "unknown", "used"} =>
                ~(id \in DOMAIN accepted /\ grants[id].owner = o)
<1> DEFINE Own == id \in DOMAIN accepted /\ grants[id].owner = o
<1>1. CMP!Verify(o, c, id)
  BY SameVerify
<1>2. CMP!IssuedByUs(CMP!Records) /\ CMP!UsedKept(CMP!Records)
  BY Limits, CMP!CleanedIssued, CMP!CleanedUsed DEF CMP!CleanedIssued, CMP!CleanedUsed
<1>3. /\ id \in DOMAIN CMP!Records /\ ~CMP!Holds(o, id) => ~Own
      /\ CMP!Admitted(o, id) => ~Own
      /\ CMP!Holds(o, id) /\ CMP!Records[id].status # "used" => ~Own
  BY <1>2 DEF CMP!IssuedByUs, CMP!UsedKept, CMP!Holds, CMP!Admitted
<1>4. CASE CMP!VerifyAccepted(o, c, id)
  <2>1. /\ id \in DOMAIN CMP!Records /\ CMP!Records[id].status = "pending"
        /\ CMP!Records[id].owner = o /\ CMP!Records[id].context = c
        /\ reply'.code = "accepted" /\ grants' = grants
        /\ DOMAIN accepted' = DOMAIN accepted \cup {id}
    BY <1>4 DEF CMP!VerifyAccepted, CMP!Admitted, CMP!Holds, CMP!Respond, CMP!Put
  <2>2. QED
    BY <1>2, <2>1 DEF CMP!IssuedByUs, CMP!UsedKept
<1>5. CASE CMP!VerifyUnknown(o, id) \/ CMP!VerifyUsed(o, id)
  BY <1>5 DEF CMP!VerifyUnknown, CMP!VerifyUsed, CMP!Respond, CMP!history
<1>6. CASE CMP!VerifyForeign(o, id) \/ CMP!VerifyBlocked(o, id)
  BY <1>3, <1>6 DEF CMP!VerifyForeign, CMP!VerifyBlocked, CMP!CountFailure,
     CMP!Respond, CMP!history
<1>7. CASE \/ CMP!VerifyMismatch(o, c, id) \/ CMP!VerifyExpired(o, c, id)
           \/ CMP!VerifyFailed(o, c, id) \/ CMP!VerifyIncorrect(o, c, id)
  <2>1. CMP!Admitted(o, id) /\ UNCHANGED <<grants, accepted>>
    BY <1>7 DEF CMP!VerifyMismatch, CMP!VerifyExpired, CMP!VerifyFailed,
       CMP!VerifyIncorrect, CMP!history
  <2>2. reply'.code # "accepted"
    BY <1>7 DEF CMP!VerifyMismatch, CMP!VerifyExpired, CMP!VerifyFailed,
       CMP!VerifyIncorrect, CMP!CountFailure, CMP!Respond
  <2>3. QED
    BY <1>3, <2>1, <2>2
<1>8. QED
  BY <1>1, <1>4, <1>5, <1>6, <1>7 DEF CMP!Verify

-------------------------------------------------------------------------------
(* The invariant: one lemma per way a step moves calls and messages        *)

IInv == CMP!IInv /\ FlowInv

\* Challenges are only added, and what is recorded of one stays.
GrantsGrow ==
    /\ DOMAIN accepted \subseteq DOMAIN accepted'
    /\ \A id \in DOMAIN grants : id \in DOMAIN grants' /\ grants'[id] = grants[id]

LEMMA ConfirmedStays ==
    ASSUME GrantsGrow, NEW r, Confirmed(r)
    PROVE  Confirmed(r)'
BY DEF GrantsGrow, Confirmed

LEMMA AcceptedGranted == CMP!IInv => DOMAIN accepted \subseteq DOMAIN grants
BY DEF CMP!IInv, CMP!Bookkeeping, CMP!AcceptedAsIssued

\* What no step of the manager does but an accepting verification.
LEMMA NothingAccepted ==
    ASSUME \/ ManagerIdle \/ CM!Tick \/ CM!Restart
           \/ \E o \in Owner : CM!IssueRefused(o)
           \/ \E o \in Owner, c \in Payloads, id \in Id : CM!IssueGranted(o, c, id)
    PROVE  GrantsGrow /\ accepted' = accepted
BY DEF GrantsGrow, ManagerIdle, CM!Tick, CM!Restart, CM!IssueRefused, CM!IssueGranted,
   CM!Put, CM!history

\* The calls of the tasks in T end, and nobody else hears or sends anything.
LEMMA CallsDropped ==
    ASSUME CMP!IInv, FlowInv, GrantsGrow, accepted' = accepted,
           NEW T \in SUBSET Task,
           call' = [t \in Task |-> IF t \in T THEN Idle ELSE call[t]],
           wire' = Disowned(T), commits' = commits
    PROVE  FlowInv'
<1>1. CallsTyped'
  BY DEF FlowInv, CallsTyped, Disowned, Message
<1>2. \A n \in wire' : \E m \in wire :
        /\ n = [m EXCEPT !.task = IF m.task \in T THEN NoTask ELSE m.task]
        /\ n.request = m.request
        /\ n.task = IF m.task \in T THEN NoTask ELSE m.task
  BY DEF FlowInv, CallsTyped, Disowned, Message
<1>3. AllConfirmed'
  BY <1>2, ConfirmedStays DEF FlowInv, AllConfirmed, Idle
<1>4. SentOnce'
  BY <1>2 DEF FlowInv, SentOnce, OneCommitPerChallenge
<1>5. OneCommitPerOperation'
  BY DEF FlowInv, OneCommitPerOperation
<1>6. CallsKnow'
  <2>1. \A o, id : MayBeWritten(o, id)' => MayBeWritten(o, id)
    BY <1>2 DEF MayBeWritten
  <2>2. \A c : HeardTrue(c) => HeardTrue(c)'
    BY <2>1 DEF HeardTrue
  <2>3. \A r : Unspent(r) => Unspent(r)'
    BY AcceptedGranted DEF Unspent, GrantsGrow
  <2>4. \A t \in Task : IF t \in T THEN call'[t] = Idle ELSE call'[t] = call[t]
    OBVIOUS
  <2>5. ASSUME NEW n \in wire', n.task # NoTask
        PROVE  call'[n.task] = Posting(n.request, "nothing")
    <3>1. PICK m \in wire : /\ n.request = m.request
                            /\ n.task = IF m.task \in T THEN NoTask ELSE m.task
      BY <1>2
    <3>2. n.task = m.task /\ m.task \notin T /\ m.task \in Task
      BY <2>5, <3>1 DEF FlowInv, CallsTyped, Message
    <3>3. call[m.task] = Posting(m.request, "nothing")
      BY <2>5, <3>2 DEF FlowInv, CallsKnow
    <3>4. QED
      BY <2>4, <3>1, <3>2, <3>3
  <2>6. ASSUME NEW t \in Task
        PROVE  (/\ call[t].phase = "posting" => HeardTrue(call[t])
                /\ call[t].phase = "replacing" => Unspent(call[t].request))'
    <3>1. CASE t \in T
      BY <2>4, <3>1 DEF Idle
    <3>2. CASE t \notin T
      BY <2>2, <2>3, <2>4, <3>2 DEF FlowInv, CallsKnow, HeardTrue, Unspent
    <3>3. QED
      BY <3>1, <3>2
  <2>7. QED
    BY <2>5, <2>6 DEF CallsKnow, Posting
<1>7. QED
  BY <1>1, <1>3, <1>4, <1>5, <1>6 DEF FlowInv

\* The log of the backend after it has handled m: as it was, or with m's write.
Logged(m, heard) ==
    /\ commits' \in Seq(Request)
    /\ \A i \in DOMAIN commits : i \in DOMAIN commits' /\ commits'[i] = commits[i]
    /\ \A i \in DOMAIN commits' :
         i \in DOMAIN commits \/ (commits'[i] = m.request /\ i = Len(commits) + 1)
    /\ heard = "success" =>
         \E i \in DOMAIN commits' :
             /\ commits'[i].owner = m.request.owner
             /\ commits'[i].write = m.request.write
             /\ commits'[i].op = m.request.op
    /\ heard \in {"rejection", "rate limit"} => commits' = commits

LEMMA PostingFields ==
    \A c, r, heard : c = Posting(r, heard) =>
        c.phase = "posting" /\ c.request = r /\ c.heard = heard
BY DEF Posting

LEMMA NewIndex ==
    ASSUME NEW S, NEW s \in Seq(S)
    PROVE  \A i \in DOMAIN s : i # Len(s) + 1
BY LenProperties

\* The backend takes a message off the wire, and makes its write or not.
LEMMA MessageHandled ==
    ASSUME CMP!IInv, FlowInv, NEW m \in wire, NEW heard \in Heard, Handled(m, heard),
           Logged(m, heard), OneCommitPerOperation'
    PROVE  FlowInv'
<1>1. /\ GrantsGrow /\ accepted' = accepted /\ grants' = grants
      /\ wire' = wire \ {m}
      /\ m.request \in Request /\ (m.task # NoTask => m.task \in Task)
  BY NothingAccepted DEF Handled, ManagerIdle, FlowInv, CallsTyped, Message
<1>2. \A t \in Task : call'[t] = IF t = m.task THEN Posting(m.request, heard) ELSE call[t]
  <2>1. CASE m.task = NoTask
    BY <2>1, FlowParameters DEF Handled, FlowParameters
  <2>2. CASE m.task # NoTask
    <3>1. call[m.task] = Posting(m.request, "nothing")
      BY <2>2 DEF FlowInv, CallsKnow
    <3>2. call' = [call EXCEPT ![m.task].heard = heard]
      BY <2>2 DEF Handled
    <3>3. m.task \in DOMAIN call
      BY <1>1, <2>2 DEF Logged, FlowInv, CallsTyped
    <3>4. call'[m.task] = [Posting(m.request, "nothing") EXCEPT !.heard = heard]
      BY <3>1, <3>2, <3>3
    <3>5. call'[m.task] = Posting(m.request, heard)
      BY <3>4 DEF Posting
    <3>6. QED
      BY <3>2, <3>5 DEF FlowInv, CallsTyped
  <2>3. QED
    BY <2>1, <2>2
<1>3. CallsTyped'
  <2>1. Posting(m.request, heard) \in Call
    BY <1>1 DEF Posting, Call, Phase
  <2>2. call' \in [Task -> Call \cup {Idle}]
    BY <1>2, <2>1 DEF FlowInv, CallsTyped, Handled
  <2>3. QED
    BY <1>1, <2>2 DEF Logged, FlowInv, CallsTyped
<1>4. AllConfirmed'
  <2>1. \A t \in Task : call'[t].phase = "posting" => Confirmed(call'[t].request)
    <3>1. TAKE t \in Task
    <3>2. CASE t = m.task
      <4>1. Confirmed(m.request)
        BY DEF FlowInv, AllConfirmed
      <4>2. call'[t].request = m.request
        BY <1>2, <3>2, PostingFields
      <4>3. QED
        BY <4>1, <4>2
    <3>3. CASE t # m.task
      BY <1>2, <3>3 DEF FlowInv, AllConfirmed
    <3>4. QED
      BY <3>2, <3>3
  <2>2. \A n \in wire' : Confirmed(n.request)
    BY <1>1 DEF FlowInv, AllConfirmed
  <2>3. \A i \in DOMAIN commits' : Confirmed(commits'[i])
    BY DEF Logged, FlowInv, AllConfirmed
  <2>4. QED
    BY <1>1, <2>1, <2>2, <2>3 DEF AllConfirmed, Confirmed
<1>5. SentOnce'
  <2>1. \A i \in DOMAIN commits : i # Len(commits) + 1
    <3>1. commits \in Seq(Request)
      BY DEF FlowInv, CallsTyped
    <3>2. QED
      BY <3>1, NewIndex
  <2>2. \A n, p \in wire' : n.request.id = p.request.id => n = p
    BY <1>1 DEF FlowInv, SentOnce
  <2>3. \A n \in wire' : n.request.id # m.request.id
    BY <1>1 DEF FlowInv, SentOnce
  <2>4. \A n \in wire', i \in DOMAIN commits' : commits'[i].id # n.request.id
    BY <1>1, <2>3 DEF Logged, FlowInv, SentOnce
  <2>5. \A i, j \in DOMAIN commits' : commits'[i].id = commits'[j].id => i = j
    <3>1. ASSUME NEW i \in DOMAIN commits', NEW j \in DOMAIN commits',
                 commits'[i].id = commits'[j].id
          PROVE  i = j
      <4>1. CASE i \in DOMAIN commits /\ j \in DOMAIN commits
        BY <3>1, <4>1 DEF Logged, FlowInv, SentOnce, OneCommitPerChallenge
      <4>2. CASE i \in DOMAIN commits /\ j \notin DOMAIN commits
        BY <3>1, <4>2 DEF Logged, FlowInv, SentOnce
      <4>3. CASE i \notin DOMAIN commits /\ j \in DOMAIN commits
        BY <3>1, <4>3 DEF Logged, FlowInv, SentOnce
      <4>4. CASE i \notin DOMAIN commits /\ j \notin DOMAIN commits
        BY <4>4 DEF Logged
      <4>5. QED
        BY <4>1, <4>2, <4>3, <4>4
    <3>2. QED
      BY <3>1
  <2>6. QED
    BY <2>2, <2>4, <2>5 DEF SentOnce, OneCommitPerChallenge
<1>6. CallsKnow'
  <2>1. ASSUME NEW n \in wire', n.task # NoTask
        PROVE  call'[n.task] = Posting(n.request, "nothing")
    <3>1. n \in wire /\ n # m /\ n.task \in Task
      BY <1>1, <2>1 DEF FlowInv, CallsTyped, Message
    <3>2. call[n.task] = Posting(n.request, "nothing")
      BY <2>1, <3>1 DEF FlowInv, CallsKnow
    <3>3. ASSUME n.task = m.task PROVE FALSE
      <4>1. Posting(n.request, "nothing") = Posting(m.request, "nothing")
        BY <2>1, <3>2, <3>3 DEF FlowInv, CallsKnow
      <4>2. Posting(n.request, "nothing").request = Posting(m.request, "nothing").request
        BY <4>1
      <4>3. n.request = m.request
        BY <4>2 DEF Posting
      <4>4. QED
        BY <3>1, <4>3 DEF Logged, FlowInv, SentOnce
    <3>4. QED
      BY <1>2, <3>1, <3>2, <3>3
  <2>2. ASSUME NEW t \in Task
        PROVE  (/\ call[t].phase = "posting" => HeardTrue(call[t])
                /\ call[t].phase = "replacing" => Unspent(call[t].request))'
    <3>1. CASE t = m.task
      <4>1. call'[t] = Posting(m.request, heard)
        BY <1>2, <3>1
      <4>2. heard \in {"rejection", "rate limit"} =>
              ~MayBeWritten(m.request.owner, m.request.id)'
        <5>1. \A n \in wire' : n.request.id # m.request.id
          BY <1>1 DEF FlowInv, SentOnce
        <5>2. \A j \in DOMAIN commits : commits[j].id # m.request.id
          BY DEF Logged, FlowInv, SentOnce
        <5>3. QED
          BY <5>1, <5>2 DEF MayBeWritten, Logged
      <4>3. /\ call'[t].phase = "posting" /\ call'[t].heard = heard
            /\ call'[t].request = m.request
        BY <4>1, PostingFields
      <4>4. QED
        BY <4>2, <4>3 DEF Logged, HeardTrue
    <3>2. CASE t # m.task
      <4>1. call'[t] = call[t]
        BY <1>2, <3>2
      <4>2. \A o, id : MayBeWritten(o, id)' => MayBeWritten(o, id)
        <5>1. wire' \subseteq wire
          BY <1>1
        <5>2. \A i \in DOMAIN commits' :
                \/ \E j \in DOMAIN commits : commits'[i] = commits[j]
                \/ commits'[i] = m.request
          BY DEF Logged
        <5>3. QED
          BY <5>1, <5>2 DEF MayBeWritten
      <4>3. QED
        <5>1. /\ call[t].phase = "posting" => HeardTrue(call[t])
              /\ call[t].phase = "replacing" => Unspent(call[t].request)
          BY DEF FlowInv, CallsKnow
        <5>2. QED
          BY <1>1, <4>1, <4>2, <5>1 DEF Logged, HeardTrue, Unspent
    <3>3. QED
      BY <3>1, <3>2
  <2>3. QED
    BY <2>1, <2>2 DEF CallsKnow, Posting
<1>7. QED
  BY <1>3, <1>4, <1>5, <1>6 DEF FlowInv

LEMMA NobodyDropped ==
    ASSUME FlowInv
    PROVE  /\ Disowned({}) = wire
           /\ \A t \in Task : (\A m \in wire : m.task # t) => Disowned({t}) = wire
           /\ call = [t \in Task |-> IF t \in {} THEN Idle ELSE call[t]]
<1>1. \A m \in wire : [m EXCEPT !.task = m.task] = m
  BY DEF FlowInv, CallsTyped, Message
<1>2. Disowned({}) = {m : m \in wire}
  BY <1>1 DEF Disowned
<1>3. ASSUME NEW t \in Task, \A m \in wire : m.task # t
      PROVE  Disowned({t}) = {m : m \in wire}
  BY <1>1, <1>3 DEF Disowned
<1>4. call = [t \in Task |-> IF t \in {} THEN Idle ELSE call[t]]
  BY DEF FlowInv, CallsTyped
<1>5. QED
  BY <1>2, <1>3, <1>4

\* The manager issued or refused something, time passed, nobody's call moved.
LEMMA CallsUntouched ==
    ASSUME CMP!IInv, FlowInv, GrantsGrow, accepted' = accepted,
           UNCHANGED <<call, wire, commits>>
    PROVE  FlowInv'
<1>1. {} \in SUBSET Task
  OBVIOUS
<1>2. QED
  BY <1>1, NobodyDropped, CallsDropped

LEMMA OperationIdType ==
    ASSUME NEW id \in Id, NEW op \in OpId
    PROVE  OperationId(id, op) \in OpId /\ (SUPPORT => OperationId(id, op) # NoId)
BY FlowParameters DEF FlowParameters, OperationId, OpId

\* A call whose challenge was accepted sends its message.
LEMMA MessageSent ==
    ASSUME CMP!IInv, FlowInv, Undivided, GrantsGrow, NEW t \in Task, NEW r \in Request,
           call[t] = Idle, r.id \notin DOMAIN accepted, Confirmed(r)', commits' = commits,
           call' = [call EXCEPT ![t] = Posting(r, "nothing")],
           wire' = wire \cup {PostMessage(t, r)}
    PROVE  FlowInv'
<1> DEFINE n == PostMessage(t, r)
<1>1. n \in Message /\ n.task = t /\ n.request = r
  BY DEF PostMessage, Message
<1>2. \A u \in Task : call'[u] = IF u = t THEN Posting(r, "nothing") ELSE call[u]
  BY DEF FlowInv, CallsTyped
<1>3. CallsTyped'
  <2>1. Posting(r, "nothing") \in Call
    BY DEF Posting, Call, Phase, Heard
  <2>2. QED
    BY <1>1, <2>1 DEF FlowInv, CallsTyped
<1>4. AllConfirmed'
  <2>1. \A u \in Task : (call[u].phase = "posting" => Confirmed(call[u].request))'
    <3>1. TAKE u \in Task
    <3>2. CASE u = t
      BY <1>2, <3>2, PostingFields DEF Confirmed
    <3>3. CASE u # t
      BY <1>2, <3>3, ConfirmedStays DEF FlowInv, AllConfirmed, Confirmed
    <3>4. QED
      BY <3>2, <3>3
  <2>2. \A m \in wire' : Confirmed(m.request)'
    BY <1>1, ConfirmedStays DEF FlowInv, AllConfirmed
  <2>3. \A i \in DOMAIN commits : Confirmed(commits[i])'
    BY ConfirmedStays DEF FlowInv, AllConfirmed
  <2>4. QED
    BY <2>1, <2>2, <2>3 DEF AllConfirmed, Confirmed
<1>5. SentOnce'
  <2>1. \A m \in wire : m.request.id # r.id
    BY DEF FlowInv, AllConfirmed, Confirmed
  <2>2. \A i \in DOMAIN commits : commits[i].id # r.id
    BY DEF FlowInv, AllConfirmed, Confirmed
  <2>3. QED
    BY <1>1, <2>1, <2>2 DEF FlowInv, SentOnce, OneCommitPerChallenge
<1>6. CallsKnow'
  <2>1. ASSUME NEW m \in wire', m.task # NoTask
        PROVE  call'[m.task] = Posting(m.request, "nothing")
    <3>1. CASE m = n
      BY <1>1, <1>2, <3>1
    <3>2. CASE m # n
      <4>1. m \in wire /\ m.task \in Task
        BY <2>1, <3>2 DEF FlowInv, CallsTyped, Message
      <4>2. call[m.task] = Posting(m.request, "nothing")
        BY <2>1, <4>1 DEF FlowInv, CallsKnow
      <4>3. m.task # t
        BY <4>2 DEF Posting, Idle
      <4>4. QED
        BY <1>2, <4>1, <4>2, <4>3
    <3>3. QED
      BY <3>1, <3>2
  <2>2. ASSUME NEW u \in Task
        PROVE  (/\ call[u].phase = "posting" => HeardTrue(call[u])
                /\ call[u].phase = "replacing" => Unspent(call[u].request))'
    <3>1. CASE u = t
      <4>1. /\ call'[u].phase = "posting" /\ call'[u].heard = "nothing"
        BY <1>2, <3>1, PostingFields
      <4>2. QED
        BY <4>1 DEF HeardTrue
    <3>2. CASE u # t
      <4>1. call'[u] = call[u] /\ call[u].phase # "replacing"
        BY <1>2, <3>2 DEF Undivided
      <4>2. call[u].phase = "posting" => HeardTrue(call[u]) /\ Confirmed(call[u].request)
        BY DEF FlowInv, CallsKnow, AllConfirmed
      <4>3. \A o, id : MayBeWritten(o, id)' /\ id # r.id => MayBeWritten(o, id)
        BY <1>1 DEF MayBeWritten
      <4>4. call[u].phase = "posting" => call[u].request.id # r.id
        BY <4>2 DEF Confirmed
      <4>5. QED
        BY <4>1, <4>2, <4>3, <4>4 DEF HeardTrue
    <3>3. QED
      BY <3>1, <3>2
  <2>3. QED
    BY <2>1, <2>2 DEF CallsKnow, Posting
<1>7. OneCommitPerOperation'
  BY DEF FlowInv, OneCommitPerOperation
<1>8. QED
  BY <1>3, <1>4, <1>5, <1>6, <1>7 DEF FlowInv

\* A call whose challenge let nothing through goes on to a new one.
LEMMA ReplacementBegun ==
    ASSUME CMP!IInv, FlowInv, grants' = grants, accepted' = accepted, NEW t \in Task,
           NEW r \in Request, Unspent(r), call[t] = Idle, UNCHANGED <<wire, commits>>,
           call' = [call EXCEPT ![t] = Replacing(r)]
    PROVE  FlowInv'
<1>1. \A u \in Task : call'[u] = IF u = t THEN Replacing(r) ELSE call[u]
  BY DEF FlowInv, CallsTyped
<1>2. CallsTyped'
  <2>1. Replacing(r) \in Call
    BY DEF Replacing, Call, Phase, Heard
  <2>2. QED
    BY <2>1 DEF FlowInv, CallsTyped
<1>3. AllConfirmed'
  BY <1>1 DEF FlowInv, AllConfirmed, Confirmed, Replacing
<1>4. SentOnce' /\ OneCommitPerOperation'
  BY DEF FlowInv, SentOnce, OneCommitPerChallenge, OneCommitPerOperation
<1>5. CallsKnow'
  <2>1. ASSUME NEW m \in wire, m.task # NoTask
        PROVE  call'[m.task] = Posting(m.request, "nothing")
    <3>1. m.task \in Task /\ call[m.task] = Posting(m.request, "nothing")
      BY <2>1 DEF FlowInv, CallsTyped, Message, CallsKnow
    <3>2. m.task # t
      BY <3>1 DEF Posting, Idle
    <3>3. QED
      BY <1>1, <3>1, <3>2
  <2>2. ASSUME NEW u \in Task
        PROVE  (/\ call[u].phase = "posting" => HeardTrue(call[u])
                /\ call[u].phase = "replacing" => Unspent(call[u].request))'
    <3>1. CASE u = t
      BY <1>1, <3>1 DEF Unspent, Replacing
    <3>2. CASE u # t
      <4>1. \A o, id : MayBeWritten(o, id)' => MayBeWritten(o, id)
        BY DEF MayBeWritten
      <4>2. call'[u] = call[u]
        BY <1>1, <3>2
      <4>3. QED
        BY <4>1, <4>2 DEF FlowInv, CallsKnow, HeardTrue, Unspent
    <3>3. QED
      BY <3>1, <3>2
  <2>3. QED
    BY <2>1, <2>2 DEF CallsKnow, Posting
<1>6. QED
  BY <1>2, <1>3, <1>4, <1>5 DEF FlowInv

\* The four ways a submitted challenge goes.
Submitted(t, r) ==
    /\ r \in Request /\ call[t] = Idle /\ Undivided
    /\ commits' = commits /\ grants' = grants
    /\ \/ /\ r.id \notin DOMAIN accepted /\ GrantsGrow /\ Confirmed(r)'
          /\ call' = [call EXCEPT ![t] = Posting(r, "nothing")]
          /\ wire' = wire \cup {PostMessage(t, r)}
          /\ outcome' = Silent
       \/ /\ accepted' = accepted /\ Unspent(r) /\ wire' = wire
          /\ call' = [call EXCEPT ![t] = Replacing(r)]
          /\ outcome' = Silent
       \/ /\ accepted' = accepted /\ Unspent(r) /\ UNCHANGED <<call, wire>>
          /\ Answer("limited", TRUE, r.owner, r.id)
       \/ /\ accepted' = accepted /\ UNCHANGED <<call, wire>>
          /\ Answer("blocked", FALSE, r.owner, r.id)

LEMMA SubmitCases ==
    ASSUME CMP!IInv, NEW t \in Task, NEW o \in Owner, NEW w \in Write, NEW op \in OpId,
           NEW id \in Id, Submit(t, o, w, op, id)
    PROVE  Submitted(t, Prepared(o, w, op, id))
<1> DEFINE r == Prepared(o, w, op, id)
<1>1. /\ r \in Request /\ r.owner = o /\ r.id = id /\ r.write = w
      /\ r.op = OperationId(id, op)
  BY OperationIdType DEF Request, Prepared
<1>2. Bound(w, r.op) \in Payloads /\ Bound(w, r.op) = <<w, r.op>>
  BY <1>1 DEF Bound, Payloads, Request
<1>3. CM!Verify(o, Bound(w, r.op), id)
  BY DEF Submit
<1>4. /\ grants' = grants
      /\ reply'.code = "accepted" =>
           /\ id \notin DOMAIN accepted /\ id \in DOMAIN grants
           /\ grants[id].owner = o /\ grants[id].context = <<w, r.op>>
           /\ DOMAIN accepted' = DOMAIN accepted \cup {id}
      /\ reply'.code # "accepted" => accepted' = accepted
      /\ reply'.code \notin {"accepted", "unknown", "used"} =>
           ~(id \in DOMAIN accepted /\ grants[id].owner = o)
  BY <1>2, <1>3, VerifyFacts
<1>5. call[t] = Idle /\ Undivided /\ commits' = commits /\ GoOn(t, r, reply'.code)
  BY DEF Submit
<1> HIDE DEF r
<1>6. Submitted(t, r)
  <2>1. CASE reply'.code = "accepted"
    <3>1. GrantsGrow
      BY <1>4, <2>1 DEF GrantsGrow
    <3>2. Confirmed(r)'
      BY <1>1, <1>4, <2>1, OperationIdType DEF Confirmed
    <3>3. /\ call' = [call EXCEPT ![t] = Posting(r, "nothing")]
          /\ wire' = wire \cup {PostMessage(t, r)} /\ outcome' = Silent
      BY <1>5, <2>1 DEF GoOn, Replaces
    <3>4. QED
      BY <1>1, <1>4, <1>5, <2>1, <3>1, <3>2, <3>3 DEF Submitted
  <2>2. CASE reply'.code # "accepted"
    <3>1. accepted' = accepted
      BY <1>4, <2>2
    <3>2. Replaces(reply'.code, r.write) \/ reply'.code \in {"suspended", "owner_storage"}
            => Unspent(r)
      BY <1>1, <1>4, <2>2 DEF Unspent, Replaces
    <3>3. QED
      BY <1>1, <1>4, <1>5, <2>2, <3>1, <3>2 DEF GoOn, Submitted
  <2>3. QED
    BY <2>1, <2>2
<1>7. QED
  BY <1>6 DEF r
-------------------------------------------------------------------------------
(* Every step keeps the invariant                                          *)

LEMMA KnownIds == CMP!IInv => Known \in SUBSET Id
BY DEF CMP!IInv, CMP!TypeOK, CMP!Dict, Known

LEMMA RequestChallengeKeeps ==
    ASSUME IInv, NEW o \in Owner, NEW w \in Write, NEW op \in OpId, RequestChallenge(o, w, op)
    PROVE  IInv'
<1>1. \/ CM!IssueRefused(o)
      \/ \E c \in Payloads, id \in Id : CM!IssueGranted(o, c, id)
  <2>1. \A id \in Id : Bound(w, OperationId(id, op)) \in Payloads
    BY OperationIdType DEF Bound, Payloads
  <2>2. QED
    BY <2>1 DEF RequestChallenge
<1>2. CMP!IInv'
  BY <1>1, ManagerKeeps DEF IInv
<1>3. GrantsGrow /\ accepted' = accepted
  BY <1>1, NothingAccepted
<1>4. FlowInv'
  BY <1>3, CallsUntouched DEF IInv, RequestChallenge
<1>5. QED
  BY <1>2, <1>4 DEF IInv

LEMMA SubmitKeeps ==
    ASSUME IInv, NEW t \in Task, NEW o \in Owner, NEW w \in Write, NEW op \in OpId,
           NEW id \in Id, Submit(t, o, w, op, id)
    PROVE  IInv'
<1> DEFINE r == Prepared(o, w, op, id)
<1>1. Submitted(t, r)
  BY SubmitCases DEF IInv
<1>2. CMP!IInv'
  <2>1. Bound(w, r.op) \in Payloads
    BY OperationIdType DEF Bound, Payloads, Prepared
  <2>2. CM!Verify(o, Bound(w, r.op), id)
    BY DEF Submit
  <2>3. QED
    BY <2>1, <2>2, ManagerKeeps DEF IInv
<1> HIDE DEF r
<1>3. accepted' = accepted => GrantsGrow
  BY <1>1 DEF Submitted, GrantsGrow
<1>4. FlowInv'
  <2>1. CASE r.id \notin DOMAIN accepted /\ GrantsGrow /\ Confirmed(r)'
             /\ call' = [call EXCEPT ![t] = Posting(r, "nothing")]
             /\ wire' = wire \cup {PostMessage(t, r)}
    BY <1>1, <2>1, MessageSent DEF Submitted, IInv
  <2>2. CASE accepted' = accepted /\ Unspent(r) /\ wire' = wire
             /\ call' = [call EXCEPT ![t] = Replacing(r)]
    BY <1>1, <2>2, ReplacementBegun DEF Submitted, IInv
  <2>3. CASE accepted' = accepted /\ UNCHANGED <<call, wire>>
    BY <1>1, <1>3, <2>3, CallsUntouched DEF Submitted, IInv
  <2>4. QED
    BY <1>1, <2>1, <2>2, <2>3 DEF Submitted
<1>5. QED
  BY <1>2, <1>4 DEF IInv

LEMMA IdleCall ==
    ASSUME CallsTyped, NEW t \in Task
    PROVE  [call EXCEPT ![t] = Idle] = [u \in Task |-> IF u \in {t} THEN Idle ELSE call[u]]
BY DEF CallsTyped

LEMMA AdvanceKeeps ==
    ASSUME IInv, NEW t \in Task, Advance(t)
    PROVE  IInv'
<1> USE DEF IInv
<1>1. CASE Replace(t)
  <2>1. call[t] \in Call /\ call[t].request \in Request
    BY <1>1 DEF Replace, FlowInv, CallsTyped, Idle, Call
  <2>2. /\ call[t].request.owner \in Owner
        /\ Bound(call[t].request.write, call[t].request.op) \in Payloads
    BY <2>1 DEF Request, Bound, Payloads
  <2>3. \/ CM!IssueRefused(call[t].request.owner)
        \/ \E c \in Payloads, id \in Id : CM!IssueGranted(call[t].request.owner, c, id)
    BY <1>1, <2>2 DEF Replace
  <2>4. CMP!IInv'
    BY <2>2, <2>3, ManagerKeeps
  <2>5. GrantsGrow /\ accepted' = accepted
    BY <2>2, <2>3, NothingAccepted
  <2>6. \A m \in wire : m.task # t
    <3>1. ASSUME NEW m \in wire, m.task = t PROVE FALSE
      <4>1. call[t] = Posting(m.request, "nothing")
        BY <3>1, FlowParameters DEF FlowInv, CallsKnow, FlowParameters
      <4>2. QED
        BY <1>1, <4>1 DEF Replace, Posting
    <3>2. QED
      BY <3>1
  <2>7. call' = [u \in Task |-> IF u \in {t} THEN Idle ELSE call[u]]
    BY <1>1, IdleCall DEF Replace, FlowInv
  <2>8. wire' = Disowned({t}) /\ commits' = commits
    BY <1>1, <2>6, NobodyDropped DEF Replace
  <2>9. QED
    BY <2>4, <2>5, <2>7, <2>8, CallsDropped
<1>2. CASE ReturnAnswer(t)
  <2>1. \A m \in wire : m.task # t
    <3>1. ASSUME NEW m \in wire, m.task = t PROVE FALSE
      <4>1. call[t] = Posting(m.request, "nothing")
        BY <3>1, FlowParameters DEF FlowInv, CallsKnow, FlowParameters
      <4>2. QED
        BY <1>2, <4>1 DEF ReturnAnswer, Posting
    <3>2. QED
      BY <3>1
  <2>2. call' = [u \in Task |-> IF u \in {t} THEN Idle ELSE call[u]]
    BY <1>2, IdleCall DEF ReturnAnswer, FlowInv
  <2>3. wire' = Disowned({t}) /\ commits' = commits
    BY <1>2, <2>1, NobodyDropped DEF ReturnAnswer
  <2>4. ManagerIdle
    BY <1>2 DEF ReturnAnswer
  <2>5. QED
    BY <2>2, <2>3, <2>4, IdleKeeps, NothingAccepted, CallsDropped
<1>3. CASE RaiseUnknown(t)
  <2>1. call' = [u \in Task |-> IF u \in {t} THEN Idle ELSE call[u]]
    BY <1>3, IdleCall DEF RaiseUnknown, FlowInv
  <2>2. wire' = Disowned({t}) /\ commits' = commits /\ ManagerIdle
    BY <1>3 DEF RaiseUnknown
  <2>3. QED
    BY <2>1, <2>2, IdleKeeps, NothingAccepted, CallsDropped
<1>4. QED
  BY <1>1, <1>2, <1>3 DEF Advance

LEMMA UnloggedKeeps ==
    ASSUME IInv, NEW m \in wire, NEW heard \in Heard, Handled(m, heard), commits' = commits,
           heard = "success" =>
             \E i \in DOMAIN commits :
                 /\ commits[i].owner = m.request.owner
                 /\ commits[i].write = m.request.write
                 /\ commits[i].op = m.request.op
    PROVE  IInv'
<1>1. CMP!IInv'
  BY IdleKeeps DEF IInv, Handled
<1>2. Logged(m, heard) /\ OneCommitPerOperation'
  BY DEF Logged, IInv, FlowInv, CallsTyped, OneCommitPerOperation
<1>3. QED
  BY <1>1, <1>2, MessageHandled DEF IInv

LEMMA CommitKeeps ==
    ASSUME IInv, NEW m \in wire, Commit(m)
    PROVE  IInv'
<1>1. Handled(m, "success") /\ CMP!IInv'
  BY IdleKeeps DEF IInv, Commit, Handled
<1>2. commits \in Seq(Request) /\ m.request \in Request /\ commits' = Append(commits, m.request)
  BY DEF IInv, FlowInv, CallsTyped, Message, Commit
<1>3. /\ commits' \in Seq(Request)
      /\ DOMAIN commits' = DOMAIN commits \cup {Len(commits) + 1}
      /\ \A i \in DOMAIN commits : commits'[i] = commits[i]
      /\ commits'[Len(commits) + 1] = m.request
      /\ Len(commits) + 1 \notin DOMAIN commits
  BY <1>2, AppendProperties, LenProperties
<1>4. Logged(m, "success")
  BY <1>3 DEF Logged
<1>5. OneCommitPerOperation'
  <2>1. SUFFICES ASSUME SUPPORT, NEW i \in DOMAIN commits', NEW j \in DOMAIN commits',
                        commits'[i].owner = commits'[j].owner, commits'[i].op = commits'[j].op
                 PROVE  i = j
    BY DEF OneCommitPerOperation
  <2>2. \A k \in DOMAIN commits :
          ~(commits[k].op = m.request.op /\ commits[k].owner = m.request.owner)
    BY <2>1 DEF IInv, FlowInv, AllConfirmed, Confirmed, Commit, Receipts
  <2>3. QED
    BY <1>3, <2>1, <2>2 DEF IInv, FlowInv, OneCommitPerOperation
<1>6. QED
  BY <1>1, <1>4, <1>5, MessageHandled DEF IInv, Heard

LEMMA BackendKeeps ==
    ASSUME IInv, NEW m \in wire,
           Commit(m) \/ AnswerFromReceipt(m) \/ Refuse(m) \/ Lose(m)
    PROVE  IInv'
<1>1. CASE Commit(m)
  BY <1>1, CommitKeeps
<1>2. CASE AnswerFromReceipt(m)
  <2>1. PICK i \in Receipts(m.request) :
          Handled(m, IF commits[i].write = m.request.write THEN "success" ELSE "rejection")
    BY <1>2 DEF AnswerFromReceipt
  <2>2. i \in DOMAIN commits /\ commits[i].op = m.request.op
          /\ commits[i].owner = m.request.owner /\ commits' = commits
    BY <1>2 DEF Receipts, AnswerFromReceipt
  <2>3. CASE commits[i].write = m.request.write
    BY <2>1, <2>2, <2>3, UnloggedKeeps DEF Heard
  <2>4. CASE commits[i].write # m.request.write
    BY <2>1, <2>2, <2>4, UnloggedKeeps DEF Heard
  <2>5. QED
    BY <2>3, <2>4
<1>3. CASE Refuse(m) \/ Lose(m)
  BY <1>3, UnloggedKeeps DEF Refuse, Lose, Heard
<1>4. QED
  BY <1>1, <1>2, <1>3

LEMMA EnvironmentKeeps ==
    ASSUME IInv, Restart \/ Tick
    PROVE  IInv'
<1>1. CASE Restart
  <2>1. CMP!IInv' /\ GrantsGrow /\ accepted' = accepted
    BY <1>1, ManagerKeeps, NothingAccepted DEF IInv, Restart
  <2>2. call' = [t \in Task |-> IF t \in Task THEN Idle ELSE call[t]]
    BY <1>1 DEF Restart
  <2>3. wire' = Disowned(Task) /\ commits' = commits
    BY <1>1 DEF Restart
  <2>4. QED
    BY <2>1, <2>2, <2>3, CallsDropped DEF IInv
<1>2. CASE Tick
  BY <1>2, ManagerKeeps, NothingAccepted, CallsUntouched DEF IInv, Tick
<1>3. QED
  BY <1>1, <1>2

LEMMA InvInit == Init => IInv
<1> SUFFICES ASSUME Init PROVE IInv
  OBVIOUS
<1>1. CMP!IInv
  BY SameRest, Limits, CMP!InvInit DEF Init, CMP!InvInit
<1>2. CallsTyped
  BY DEF Init, CallsTyped
<1>3. AllConfirmed /\ SentOnce /\ OneCommitPerOperation /\ CallsKnow
  BY DEF Init, AllConfirmed, SentOnce, OneCommitPerChallenge, OneCommitPerOperation,
     CallsKnow, Idle
<1>4. QED
  BY <1>1, <1>2, <1>3 DEF IInv, FlowInv

LEMMA InvStep == IInv /\ [Next]_vars => IInv'
<1> SUFFICES ASSUME IInv, [Next]_vars PROVE IInv'
  OBVIOUS
<1>1. Known \in SUBSET Id /\ \A op \in Known \cup {NoId} : op \in OpId
  BY KnownIds DEF IInv, OpId
<1>2. CASE \E o \in Owner, w \in Write, op \in Known \cup {NoId} : RequestChallenge(o, w, op)
  BY <1>1, <1>2, RequestChallengeKeeps
<1>3. CASE \E o \in Owner, id \in Known \cup {NoId}, retryable \in BOOLEAN :
             Preflight(o, id, retryable)
  <2>1. ManagerIdle /\ UNCHANGED <<call, wire, commits>>
    BY <1>3 DEF Preflight
  <2>2. QED
    BY <2>1, IdleKeeps, NothingAccepted, CallsUntouched DEF IInv
<1>4. CASE \E t \in Task, o \in Owner, w \in Write :
             \E op \in Known \cup {NoId}, id \in Known : Submit(t, o, w, op, id)
  BY <1>1, <1>4, SubmitKeeps
<1>5. CASE \E t \in Task : Advance(t)
  BY <1>5, AdvanceKeeps
<1>6. CASE \E m \in wire : Commit(m) \/ AnswerFromReceipt(m) \/ Refuse(m) \/ Lose(m)
  BY <1>6, BackendKeeps
<1>7. CASE Restart \/ Tick
  BY <1>7, EnvironmentKeeps
<1>8. CASE UNCHANGED vars
  <2>1. CMP!IInv'
    <3>1. UNCHANGED CMP!vars
      BY <1>8 DEF vars, CMP!vars, CMP!history
    <3>2. QED
      BY <3>1, Limits, CMP!InvStep DEF IInv, CMP!InvStep
  <2>2. GrantsGrow /\ accepted' = accepted /\ UNCHANGED <<call, wire, commits>>
    BY <1>8 DEF vars, GrantsGrow
  <2>3. QED
    BY <2>1, <2>2, CallsUntouched DEF IInv
<1>9. QED
  BY <1>2, <1>3, <1>4, <1>5, <1>6, <1>7, <1>8 DEF Next

LEMMA Invariance == Spec => []IInv
BY InvInit, InvStep, PTL DEF Spec

-------------------------------------------------------------------------------
(* The theorems *)

\* One solved challenge makes at most one write, whatever overlaps, is lost or is
\* cut off: the client sends no POST twice and consumes the challenge before it.
THEOREM ChallengeCommitsOnce == Spec => []OneCommitPerChallenge
<1>1. IInv => OneCommitPerChallenge
  BY DEF IInv, FlowInv, SentOnce
<1>2. QED
  BY <1>1, Invariance, PTL

\* With operation support, retries under one operation id and fresh challenges
\* make at most one write (README.md, durable write operations).
THEOREM OperationCommitsOnce == Spec => []OneCommitPerOperation
<1>1. IInv => OneCommitPerOperation
  BY DEF IInv, FlowInv
<1>2. QED
  BY <1>1, Invariance, PTL

\* A committed write is the one its agent was issued the challenge for and solved
\* it for, under the operation id the challenge was bound to.
THEOREM OnlyConfirmedCommits == Spec => []CommitsAsConfirmed
<1>1. IInv => CommitsAsConfirmed
  BY DEF IInv, FlowInv, AllConfirmed, Confirmed, CommitsAsConfirmed
<1>2. QED
  BY <1>1, Invariance, PTL

LEMMA OutcomeFields ==
    \A status, retryable, o, id :
        Answer(status, retryable, o, id) =>
          outcome'.status = status /\ outcome'.owner = o /\ outcome'.id = id
BY DEF Answer

\* No answer, and one that claims nothing of the write.
LEMMA NoClaim ==
    \/ outcome' = Silent
    \/ \E retryable, o, id :
         \/ Answer("blocked", retryable, o, id)
         \/ Answer("preflight", retryable, o, id)
         \/ Answer("raised", retryable, o, id)
    => AnswerTrue'
BY DEF AnswerTrue, Silent, Answer

\* One that denies the write, and rightly.
LEMMA TrueDenial ==
    ASSUME NEW status, status # "created", NEW retryable, NEW o, NEW id,
           Answer(status, retryable, o, id), ~MayBeWritten(o, id)'
    PROVE  AnswerTrue'
<1>1. outcome'.status = status /\ outcome'.owner = o /\ outcome'.id = id
  BY OutcomeFields
<1>2. QED
  BY <1>1 DEF AnswerTrue, MayBeWritten

\* A challenge that let nothing of its holder's through has no write.
LEMMA UnspentUnwritten ==
    ASSUME FlowInv, NEW o, NEW id, ~(id \in DOMAIN accepted /\ grants[id].owner = o),
           UNCHANGED <<wire, commits>>
    PROVE  ~MayBeWritten(o, id)'
BY DEF FlowInv, AllConfirmed, Confirmed, MayBeWritten

LEMMA AnswerStep == IInv /\ Next => AnswerTrue'
<1> SUFFICES ASSUME IInv, Next PROVE AnswerTrue'
  OBVIOUS
<1>1. Known \in SUBSET Id /\ \A op \in Known \cup {NoId} : op \in OpId
  BY KnownIds DEF IInv, OpId
<1>2. ASSUME NEW o \in Owner, NEW w \in Write, NEW op \in Known \cup {NoId},
             RequestChallenge(o, w, op)
      PROVE  AnswerTrue'
  <2>1. NoId \notin DOMAIN accepted
    BY FlowParameters, AcceptedGranted, <1>1 DEF IInv, FlowParameters, Known
  <2>2. ~MayBeWritten(o, NoId)'
    BY <1>2, <2>1, UnspentUnwritten DEF IInv, RequestChallenge
  <2>3. \/ Answer("challenge_required", TRUE, o, NoId)
        \/ Answer("limited", TRUE, o, NoId)
    BY <1>2 DEF RequestChallenge
  <2>4. QED
    BY <2>2, <2>3, TrueDenial
<1>3. ASSUME NEW o \in Owner, NEW id \in Known \cup {NoId}, NEW retryable \in BOOLEAN,
             Preflight(o, id, retryable)
      PROVE  AnswerTrue'
  BY <1>3, NoClaim DEF Preflight
<1>4. ASSUME NEW t \in Task, NEW o \in Owner, NEW w \in Write, NEW op \in Known \cup {NoId},
             NEW id \in Known, Submit(t, o, w, op, id)
      PROVE  AnswerTrue'
  <2> DEFINE r == Prepared(o, w, op, id)
  <2>1. Submitted(t, r)
    BY <1>1, <1>4, SubmitCases DEF IInv
  <2> HIDE DEF r
  <2>2. CASE outcome' = Silent
    BY <2>2, NoClaim
  <2>3. CASE Unspent(r) /\ UNCHANGED <<call, wire>> /\ Answer("limited", TRUE, r.owner, r.id)
    <3>1. ~MayBeWritten(r.owner, r.id)'
      BY <2>1, <2>3, UnspentUnwritten DEF IInv, Submitted, Unspent
    <3>2. QED
      BY <2>3, <3>1, TrueDenial
  <2>4. CASE Answer("blocked", FALSE, r.owner, r.id)
    BY <2>4, NoClaim
  <2>5. QED
    BY <2>1, <2>2, <2>3, <2>4 DEF Submitted
<1>5. ASSUME NEW t \in Task, Replace(t)
      PROVE  AnswerTrue'
  <2>0. PICK r : r = call[t].request
    OBVIOUS
  <2>1. Unspent(r)
    BY <1>5, <2>0 DEF IInv, FlowInv, CallsKnow, Replace
  <2>2. ~MayBeWritten(r.owner, r.id)'
    BY <1>5, <2>1, UnspentUnwritten DEF IInv, Replace, Unspent
  <2>3. \/ Answer("challenge_required", TRUE, r.owner, r.id)
        \/ Answer("limited", TRUE, r.owner, r.id)
    BY <1>5, <2>0 DEF Replace
  <2>4. QED
    BY <2>2, <2>3, TrueDenial
<1>6. ASSUME NEW t \in Task, ReturnAnswer(t)
      PROVE  AnswerTrue'
  <2>0. PICK r : r = call[t].request
    OBVIOUS
  <2>1. /\ call[t].phase = "posting" /\ AnswerTo(t)
        /\ UNCHANGED <<wire, commits>> /\ grants' = grants
    BY <1>6 DEF ReturnAnswer, ManagerIdle
  <2>2. HeardTrue(call[t]) /\ Confirmed(r)
    BY <2>0, <2>1 DEF IInv, FlowInv, CallsKnow, AllConfirmed
  <2>3. call[t].heard \in {"success", "rejection", "rate limit"}
    <3>1. call[t] \in Call
      BY <2>1 DEF IInv, FlowInv, CallsTyped, Idle
    <3>2. QED
      BY <1>6, <3>1 DEF ReturnAnswer, Call, Heard
  <2>4. CASE call[t].heard = "success"
    <3>1. Answer("created", FALSE, r.owner, r.id)
      BY <2>0, <2>1, <2>4 DEF AnswerTo
    <3>2. outcome'.status = "created" /\ outcome'.owner = r.owner /\ outcome'.id = r.id
      BY <3>1, OutcomeFields
    <3>3. \E i \in DOMAIN commits' :
            /\ commits'[i].owner = r.owner
            /\ <<commits'[i].write, commits'[i].op>> = grants'[r.id].context
      BY <2>0, <2>1, <2>2, <2>4 DEF HeardTrue, Confirmed
    <3>4. QED
      BY <3>2, <3>3 DEF AnswerTrue
  <2>5. CASE call[t].heard \in {"rejection", "rate limit"}
    <3>1. Answer("rejected", FALSE, r.owner, r.id) \/ Answer("rejected", TRUE, r.owner, r.id)
      BY <2>0, <2>1, <2>5 DEF AnswerTo
    <3>2. ~MayBeWritten(r.owner, r.id)'
      BY <2>0, <2>1, <2>2, <2>5 DEF HeardTrue, MayBeWritten
    <3>3. QED
      BY <3>1, <3>2, TrueDenial
  <2>6. QED
    BY <2>3, <2>4, <2>5
<1>7. ASSUME NEW t \in Task, RaiseUnknown(t)
      PROVE  AnswerTrue'
  <2>1. PICK r : r = call[t].request
    OBVIOUS
  <2>2. Answer("raised", FALSE, r.owner, r.id)
    BY <1>7, <2>1 DEF RaiseUnknown
  <2>3. QED
    BY <2>2, NoClaim
<1>8. ASSUME NEW m \in wire, Commit(m) \/ AnswerFromReceipt(m) \/ Refuse(m) \/ Lose(m)
      PROVE  AnswerTrue'
  BY <1>8, NoClaim DEF Commit, AnswerFromReceipt, Refuse, Lose, Handled
<1>9. CASE Restart \/ Tick
  BY <1>9, NoClaim DEF Restart, Tick
<1>10. QED
  BY <1>2, <1>3, <1>4, <1>5, <1>6, <1>7, <1>8, <1>9 DEF Next, Advance

\* What a call tells the agent of its write is so: created only if the write is
\* there, rejected, limited or to be repeated only if its challenge has no write
\* and can have none, whatever earlier POSTs still do.
THEOREM AnswersAreHonest == Spec => AnswersHonest
<1>1. IInv /\ [Next]_vars => [AnswerTrue']_vars
  BY AnswerStep
<1>2. QED
  BY <1>1, Invariance, PTL DEF Spec, AnswersHonest

-------------------------------------------------------------------------------
(* The manager inside the flow: what it guarantees on its own, it still does *)

\* The manager's variables that its policy is about.
Tables == <<clock, challenges, owners, boot, grants, accepted>>

\* A step of the flow is a step of the manager, or leaves these alone.
LEMMA ManagerStep ==
    ASSUME IInv, [Next]_vars
    PROVE  CMP!Next \/ UNCHANGED Tables
<1> DEFINE Called == \/ \E o \in Owner : CM!IssueRefused(o)
                     \/ \E o \in Owner, c \in Payloads, id \in Id :
                          CM!IssueGranted(o, c, id) \/ CM!Verify(o, c, id)
                     \/ CM!Tick \/ CM!Restart
<1>1. Called => CMP!Next
  BY SameIssue, SameVerify, SameRest DEF CMP!Next
<1>2. ManagerIdle => UNCHANGED Tables
  BY DEF ManagerIdle, Tables
<1>3. Known \subseteq Id /\ \A op \in Known \cup {NoId} : op \in OpId
  BY KnownIds DEF IInv, OpId
<1>4. ASSUME NEW o \in Owner, NEW w \in Write, NEW op \in OpId, RequestChallenge(o, w, op)
      PROVE  Called
  <2>1. \A id \in Id : Bound(w, OperationId(id, op)) \in Payloads
    BY OperationIdType DEF Bound, Payloads
  <2>2. QED
    BY <1>4, <2>1 DEF RequestChallenge
<1>5. ASSUME NEW t \in Task, NEW o \in Owner, NEW w \in Write, NEW op \in OpId,
             NEW id \in Id, Submit(t, o, w, op, id)
      PROVE  Called
  <2> DEFINE r == Prepared(o, w, op, id)
  <2>1. Bound(w, r.op) \in Payloads
    BY OperationIdType DEF Bound, Payloads, Prepared
  <2>2. CM!Verify(o, Bound(w, r.op), id)
    BY <1>5 DEF Submit
  <2>3. QED
    BY <2>1, <2>2
<1>6. ASSUME NEW t \in Task, Replace(t) PROVE Called
  <2>1. call[t] \in Call /\ call[t].request \in Request
    BY <1>6 DEF Replace, IInv, FlowInv, CallsTyped, Idle, Call
  <2>2. /\ call[t].request.owner \in Owner
        /\ Bound(call[t].request.write, call[t].request.op) \in Payloads
    BY <2>1 DEF Request, Bound, Payloads
  <2>3. QED
    BY <1>6, <2>2 DEF Replace
<1>7. ASSUME NEW t \in Task, ReturnAnswer(t) \/ RaiseUnknown(t) PROVE ManagerIdle
  BY <1>7 DEF ReturnAnswer, RaiseUnknown
<1>8. ASSUME NEW m \in wire, Commit(m) \/ AnswerFromReceipt(m) \/ Refuse(m) \/ Lose(m)
      PROVE  ManagerIdle
  BY <1>8 DEF Commit, AnswerFromReceipt, Refuse, Lose, Handled
<1>9. CASE Restart \/ Tick
  BY <1>1, <1>9 DEF Restart, Tick
<1>10. CASE UNCHANGED vars
  BY <1>10 DEF vars, Tables
<1> HIDE DEF Called
<1>11. CASE Next
  BY <1>1, <1>2, <1>3, <1>4, <1>5, <1>6, <1>7, <1>8, <1>9, <1>11, Zenon
     DEF Next, Advance, Preflight
<1>12. QED
  BY <1>10, <1>11

\* What the theorems on the policy, the rate and the limits take from the manager.
ManagerInv ==
    CMP!BoundsHold /\ CMP!StandingsOK(owners, clock) /\ CMP!Rates

LEMMA ManagerInvInit == Init => ManagerInv
<1> SUFFICES ASSUME Init PROVE ManagerInv
  OBVIOUS
<1>1. CMP!Init
  BY SameRest DEF Init
<1>2. QED
  BY <1>1, Limits, CMP!BoundedInit, CMP!StandingsInit, CMP!RatesInit
     DEF ManagerInv, CMP!BoundedInit, CMP!StandingsInit, CMP!RatesInit

LEMMA ManagerInvStep == IInv /\ ManagerInv /\ [Next]_vars => ManagerInv'
<1> SUFFICES ASSUME IInv, ManagerInv, [Next]_vars PROVE ManagerInv'
  OBVIOUS
<1>0. CMP!IInv /\ CMP!TypeOK
  BY DEF IInv, CMP!IInv
<1>1. CASE CMP!Next
  <2>1. CMP!BoundsHold'
    BY <1>0, <1>1, Limits, CMP!BoundedStep DEF ManagerInv, CMP!BoundedStep
  <2>2. CMP!StandingsOK(owners, clock)'
    BY <1>0, <1>1, Limits, CMP!StandingsStep
       DEF ManagerInv, CMP!StandingsStep, CMP!StandingsOK, CMP!StandingOK
  <2>3. CMP!Rates'
    BY <1>0, <1>1, Limits, CMP!RatesStep DEF ManagerInv, CMP!RatesStep
  <2>4. QED
    BY <2>1, <2>2, <2>3 DEF ManagerInv
<1>2. CASE UNCHANGED Tables
  <2>1. CMP!BoundsHold'
    BY <1>2 DEF Tables, ManagerInv, CMP!BoundsHold, CMP!RecordsBounded, CMP!OwnersBounded,
       CMP!Pending, CMP!PendingOf
  <2>2. CMP!StandingsOK(owners, clock)'
    BY <1>2 DEF Tables, ManagerInv, CMP!StandingsOK, CMP!StandingOK
  <2>3. CMP!Rates'
    BY <1>2 DEF Tables, ManagerInv, CMP!Rates, CMP!Rated, CMP!IssueRate, CMP!IssuedTo,
       CMP!IssuedSince
  <2>4. QED
    BY <2>1, <2>2, <2>3 DEF ManagerInv
<1>3. QED
  BY <1>1, <1>2, ManagerStep

\* However tools overlap, stop half way or ask for replacements, no agent is
\* issued more challenges in a window than the manager allows.
THEOREM FlowIsRated == Spec => []CMP!IssueRate
<1>1. ManagerInv => CMP!IssueRate
  BY DEF ManagerInv, CMP!Rates
<1>2. QED
  BY <1>1, Invariance, ManagerInvInit, ManagerInvStep, PTL DEF Spec

\* Seen from the tools, with their overlapping calls, restarts and lost answers,
\* the manager is still the attempt policy.
THEOREM FlowFollowsPolicy == Spec => CMP!PolicySpec
<1>1. Init => CMP!Policy!Init
  BY SameRest, Limits, CMP!InitMapped DEF Init, CMP!InitMapped
<1>2. IInv /\ IInv' /\ ManagerInv /\ [Next]_vars => [CMP!Policy!Next]_(CMP!Policy!vars)
  <2> SUFFICES ASSUME IInv, IInv', ManagerInv, [Next]_vars
               PROVE  [CMP!Policy!Next]_(CMP!Policy!vars)
    OBVIOUS
  <2>1. CASE CMP!Next
    BY <2>1, Limits, CMP!StepMapped DEF CMP!StepMapped, IInv, ManagerInv
  <2>2. CASE UNCHANGED Tables
    BY <2>2, Limits, CMP!IdleMapped DEF CMP!IdleMapped, IInv, Tables
  <2>3. QED
    BY <2>1, <2>2, ManagerStep
<1>3. Spec => []ManagerInv
  BY Invariance, ManagerInvInit, ManagerInvStep, PTL DEF Spec
<1>4. QED
  BY <1>1, <1>2, <1>3, Invariance, PTL DEF Spec, CMP!PolicySpec, CMP!Policy!Spec

-------------------------------------------------------------------------------
(***************************************************************************)
(* The POST, step by step.  The flow takes one POST of a write for one     *)
(* step of the backend and at most one message: the HTTP client never      *)
(* sends a write twice and what it says of its outcome is so.              *)
(* These are the theorems of BackendRequest, for every budget, wait and    *)
(* parsing time, for writes and for reads, which are retried.              *)
(***************************************************************************)

\* How many requests went out, by where the call is: a second one only after
\* the wait of a read, and nothing is answered before the call ends.
AttemptsCounted ==
    /\ stage = "loop" => sent = IF retried THEN 1 ELSE 0
    /\ stage \in {"waiting", "reading"} => sent = IF retried THEN 2 ELSE 1
    /\ stage = "sleeping" => retried /\ sent = 1
    /\ asked.write => ~retried /\ sent <= 1
    /\ stage # "ended" => result = Pending

\* What the response says of a write: its effects are those of requests that
\* were handled, one after a 2xx, none after a rejection.
ResponseFits ==
    /\ stage \in {"loop", "reading", "sleeping"} => flight = 0
    /\ stage = "reading" => response # Nothing
    /\ response # Nothing => flight = 0
    /\ applied + flight <= sent
    /\ applied > 0 => asked.write
    /\ asked.write /\ response # Nothing =>
         /\ response.class = "ok" => applied = 1
         /\ response.class \notin {"ok", "5xx"} => applied = 0

\* The budget: the call goes on within it, the sleep ends in it with time left.
InBudget ==
    /\ stage # "ended" => seconds <= Limit
    /\ retried => Limit - due > 1
    /\ stage = "sleeping" => seconds <= due
    /\ stage = "loop" /\ retried => seconds <= due

ClientInv ==
    /\ ClientTypeOK /\ AttemptsCounted /\ ResponseFits /\ InBudget
    /\ OutcomeHonest

LEMMA ClientLimit ==
    ASSUME asked \in Asked
    PROVE  Limit \in Nat
BY RequestParameters DEF RequestParameters, Asked, Limit, Least

\* A sleep that begins with more than the wait and a second left.
LEMMA RetryFits ==
    ASSUME NEW now \in Nat, NEW wait \in Nat, NEW limit \in Nat,
           NEW end, end = now + wait, limit - now > wait + 1
    PROVE  end \in 0 .. limit /\ limit - end > 1 /\ now <= end /\ now <= limit
OBVIOUS

\* A success or a rejection is told only of a response of that class.
LEMMA ResponseKinds ==
    ASSUME response \in Response
    PROVE  /\ Meaning \subseteq Kind
           /\ "ok" \in Meaning => response.class = "ok"
           /\ "rejection" \in Meaning => response.class \notin {"ok", "5xx"}
BY DEF Response, Class, Meaning, Kind

LEMMA ClientInvInit == ClientInit => ClientInv
<1> SUFFICES ASSUME ClientInit PROVE ClientInv
  OBVIOUS
<1>0. /\ Limit \in Nat /\ PARSING \in Nat
      /\ 0 \in 0 .. Limit /\ 0 \in 0 .. Limit + PARSING
  <2>1. Limit \in Nat /\ PARSING \in Nat
    BY RequestParameters, ClientLimit DEF ClientInit, RequestParameters
  <2>2. QED
    BY <2>1
<1>1. ClientTypeOK
  <2>1. seconds \in 0 .. Limit + PARSING /\ due \in 0 .. Limit
    BY <1>0 DEF ClientInit
  <2>2. sent \in 0 .. 2 /\ flight \in 0 .. 1 /\ applied \in 0 .. 1
    BY DEF ClientInit
  <2>3. QED
    BY <2>1, <2>2 DEF ClientInit, ClientTypeOK
<1>2. AttemptsCounted /\ ResponseFits /\ InBudget
  BY <1>0, <1>1 DEF ClientInit, AttemptsCounted, ResponseFits, InBudget,
     Nothing
<1>3. OutcomeHonest
  BY DEF ClientInit, OutcomeHonest, Pending
<1>4. QED
  BY <1>1, <1>2, <1>3 DEF ClientInv

\* A step that ends the call.
LEMMA ClientEnded ==
    ASSUME ClientInv, stage # "ended",
           NEW kind \in Kind, NEW told \in BOOLEAN, End(kind, told),
           seconds' \in seconds .. seconds + PARSING,
           kind = "ok" => /\ ~TooLate(seconds')
                          /\ response # Nothing /\ response.class = "ok",
           kind = "rejection" => response # Nothing /\ response.class \notin {"ok", "5xx"},
           kind = "server" => (told = asked.write) \/ sent = 0 \/ ~asked.write,
           kind = "contract" => told,
           UNCHANGED <<External, asked, retried, due, sent, response>>
    PROVE  ClientInv'
<1>0. /\ ClientTypeOK /\ Limit \in Nat /\ PARSING \in Nat /\ Limit' = Limit
  BY RequestParameters, ClientLimit DEF ClientInv, ClientTypeOK, RequestParameters, Limit
<1>1. /\ seconds \in Nat /\ seconds <= Limit
      /\ seconds' \in Nat /\ seconds' <= Limit + PARSING
  BY <1>0 DEF ClientInv, ClientTypeOK, InBudget
<1>2. /\ stage' = "ended" /\ result' = [kind |-> kind, told |-> told, at |-> seconds']
  BY DEF End
<1>3. ClientTypeOK'
  BY <1>0, <1>1, <1>2 DEF ClientTypeOK, External, Result
<1>4. AttemptsCounted' /\ InBudget'
  BY <1>0, <1>2 DEF ClientInv, AttemptsCounted, InBudget
<1>5. ResponseFits'
  BY <1>2 DEF ClientInv, ResponseFits, External
<1>6. OutcomeHonest'
  <2>1. kind = "ok" => seconds' < Limit /\ (asked.write => applied = 1)
    BY <1>0, <1>1 DEF ClientInv, ResponseFits, TooLate
  <2>2. asked.write /\ kind = "rejection" => applied = 0 /\ flight = 0
    BY DEF ClientInv, ResponseFits
  <2>3. asked.write /\ kind \in {"server", "contract"} /\ sent > 0 => told
    <3>1. sent > 0 => sent # 0
      BY <1>0 DEF ClientTypeOK
    <3>2. kind \in {"server", "contract"} => kind = "server" \/ told
      OBVIOUS
    <3>3. asked.write /\ told = asked.write => told
      OBVIOUS
    <3>4. QED
      BY <3>1, <3>2, <3>3
  <2>4. QED
    BY <1>0, <1>2, <2>1, <2>2, <2>3 DEF OutcomeHonest, External
<1>7. QED
  BY <1>3, <1>4, <1>5, <1>6 DEF ClientInv

LEMMA ClientSendKeeps ==
    ASSUME ClientInv, Send
    PROVE  ClientInv'
<1>0. ClientTypeOK /\ Limit \in Nat /\ Limit' = Limit /\ flight = 0
  BY ClientLimit DEF ClientInv, ClientTypeOK, Limit, Send, ResponseFits
<1>1. sent' \in 1 .. 2 /\ flight' = 1 /\ sent' = IF retried THEN 2 ELSE 1
  BY <1>0 DEF ClientInv, Send, AttemptsCounted, ClientTypeOK
<1>2. ClientTypeOK'
  BY <1>0, <1>1 DEF ClientTypeOK, Send
<1>3. AttemptsCounted'
  BY <1>0, <1>1 DEF ClientInv, AttemptsCounted, Send
<1>4. ResponseFits'
  BY <1>0, <1>1 DEF ClientInv, ResponseFits, AttemptsCounted, Send,
     ClientTypeOK
<1>5. InBudget'
  BY <1>0 DEF ClientInv, InBudget, Send
<1>6. OutcomeHonest'
  BY DEF ClientInv, AttemptsCounted, Send, OutcomeHonest, Pending
<1>7. QED
  BY <1>2, <1>3, <1>4, <1>5, <1>6 DEF ClientInv

LEMMA ClientReadHeadersKeeps ==
    ASSUME ClientInv, ReadHeaders
    PROVE  ClientInv'
<1>0. ClientTypeOK /\ Limit' = Limit
  BY DEF ClientInv, Limit, ReadHeaders
<1>1. ClientTypeOK'
  BY <1>0 DEF ClientTypeOK, ReadHeaders, External
<1>2. AttemptsCounted' /\ InBudget'
  BY <1>0 DEF ClientInv, AttemptsCounted, InBudget, ReadHeaders
<1>3. ResponseFits'
  BY DEF ClientInv, ResponseFits, ReadHeaders, External
<1>4. OutcomeHonest'
  BY DEF ClientInv, AttemptsCounted, ReadHeaders, OutcomeHonest,
     Pending
<1>5. QED
  BY <1>1, <1>2, <1>3, <1>4 DEF ClientInv

LEMMA ClientParseKeeps ==
    ASSUME ClientInv, Parse
    PROVE  ClientInv'
<1>0. /\ Limit \in Nat /\ PARSING \in Nat /\ WAIT \in Nat
      /\ seconds' \in Nat /\ seconds' <= Limit + PARSING
  <2>1. /\ Limit \in Nat /\ PARSING \in Nat /\ WAIT \in Nat
        /\ seconds \in Nat /\ seconds <= Limit
        /\ seconds' \in seconds .. seconds + PARSING
    BY RequestParameters, ClientLimit DEF ClientInv, ClientTypeOK, RequestParameters,
       Parse, InBudget
  <2>2. QED
    BY <2>1
<1>1. /\ ClientTypeOK /\ Limit' = Limit /\ stage = "reading" /\ stage # "ended"
      /\ response \in Response /\ response # Nothing /\ asked.write \in BOOLEAN
  BY DEF ClientInv, ClientTypeOK, Limit, Parse, ResponseFits,
     Asked
<1>2. UNCHANGED <<External, asked, sent, response>>
  BY DEF Parse
<1>2a. seconds' \in seconds .. seconds + PARSING
  BY DEF Parse
<1>3. CASE TooLate(seconds')
  <2>1. End("server", asked.write) /\ UNCHANGED <<retried, due>>
    BY <1>3 DEF Parse
  <2>2. QED
    BY <1>1, <1>2, <1>2a, <2>1, ClientEnded DEF Kind
<1>4. CASE ~TooLate(seconds') /\ response.class = "5xx" /\ Retries(seconds')
  <2>1. /\ stage' = "sleeping" /\ retried' = TRUE /\ due' = seconds' + WAIT
        /\ result' = result
    BY <1>4 DEF Parse
  <2>2. ~asked.write
    BY <1>4 DEF Retries
  <2>3. ~retried
    BY <1>4 DEF Retries
  <2>4. Limit - seconds' > WAIT + 1
    BY <1>4 DEF Retries
  <2>4a. due' = seconds' + WAIT
    BY <2>1
  <2>5. /\ due' \in 0 .. Limit /\ Limit - due' > 1
        /\ seconds' <= due' /\ seconds' <= Limit
        /\ seconds' \in 0 .. Limit + PARSING
    <3>1. seconds' \in Nat /\ Limit \in Nat /\ WAIT \in Nat
      BY <1>0
    <3>2. /\ due' \in 0 .. Limit /\ Limit - due' > 1
          /\ seconds' <= due' /\ seconds' <= Limit
      BY <3>1, <2>4, <2>4a, RetryFits
    <3>3. seconds' \in 0 .. Limit + PARSING
      BY <1>0
    <3>4. QED
      BY <3>2, <3>3
  <2>6. ClientTypeOK'
    BY <1>1, <1>2, <2>1, <2>5 DEF ClientTypeOK, External
  <2>7. AttemptsCounted'
    BY <1>1, <1>2, <2>1, <2>2, <2>3 DEF ClientInv, AttemptsCounted
  <2>8. InBudget'
    BY <1>1, <2>1, <2>5 DEF InBudget
  <2>9. ResponseFits'
    BY <1>1, <1>2, <2>1 DEF ClientInv, ResponseFits, External
  <2>10. OutcomeHonest'
    BY <1>1, <1>2, <2>1 DEF ClientInv, AttemptsCounted, OutcomeHonest,
       Pending
  <2>11. QED
    BY <2>6, <2>7, <2>8, <2>9, <2>10 DEF ClientInv
<1>5. CASE ~TooLate(seconds') /\ ~(response.class = "5xx" /\ Retries(seconds'))
  <2>1. /\ \E kind \in Meaning :
              End(kind, kind = "contract" \/ (kind = "server" /\ asked.write))
        /\ UNCHANGED <<retried, due>>
    BY <1>5 DEF Parse
  <2>2. PICK kind \in Meaning :
          End(kind, kind = "contract" \/ (kind = "server" /\ asked.write))
    BY <2>1
  <2>3. /\ kind \in Kind
        /\ kind = "ok" => response.class = "ok"
        /\ kind = "rejection" => response.class \notin {"ok", "5xx"}
    BY <1>1, ResponseKinds
  <2> DEFINE told == kind = "contract" \/ (kind = "server" /\ asked.write)
  <2>4. /\ told \in BOOLEAN
        /\ kind = "server" => (told = asked.write)
        /\ kind = "contract" => told
    BY <1>1
  <2>5. End(kind, told)
    BY <2>2
  <2> HIDE DEF told
  <2>6. kind = "ok" => /\ ~TooLate(seconds')
                       /\ response # Nothing /\ response.class = "ok"
    BY <1>1, <1>5, <2>3
  <2>7. kind = "rejection" => response # Nothing /\ response.class \notin {"ok", "5xx"}
    BY <1>1, <2>3
  <2>8. kind = "server" => (told = asked.write) \/ sent = 0 \/ ~asked.write
    BY <2>4
  <2>9. UNCHANGED <<External, asked, retried, due, sent, response>>
    BY <1>2, <2>1
  <2>10. kind \in Kind /\ told \in BOOLEAN /\ stage # "ended"
    BY <1>1, <2>3, <2>4
  <2>11. QED
    BY <1>2a, <2>4, <2>5, <2>6, <2>7, <2>8, <2>9, <2>10, ClientEnded
<1>6. QED
  BY <1>3, <1>4, <1>5

LEMMA ClientWakeKeeps ==
    ASSUME ClientInv, Wake
    PROVE  ClientInv'
<1>0. ClientTypeOK /\ Limit' = Limit
  BY DEF ClientInv, Limit, Wake
<1>1. ClientTypeOK'
  BY <1>0 DEF ClientTypeOK, Wake, External
<1>2. AttemptsCounted' /\ InBudget' /\ ResponseFits'
  BY <1>0 DEF ClientInv, AttemptsCounted, InBudget, ResponseFits,
     Wake, External
<1>3. OutcomeHonest'
  BY DEF ClientInv, AttemptsCounted, Wake, OutcomeHonest, Pending
<1>4. QED
  BY <1>1, <1>2, <1>3 DEF ClientInv

LEMMA ClientHandleKeeps ==
    ASSUME ClientInv, Handle
    PROVE  ClientInv'
<1>1. PICK class \in Class, coded \in BOOLEAN, effect \in BOOLEAN, lost \in BOOLEAN :
        /\ effect => asked.write /\ class \in {"ok", "5xx"}
        /\ asked.write /\ class = "ok" => effect
        /\ applied' = IF effect THEN applied + 1 ELSE applied
        /\ response' = IF lost \/ stage # "waiting" THEN response
                     ELSE [class |-> class, coded |-> coded]
  BY DEF Handle
<1>2. /\ ClientTypeOK /\ Limit' = Limit /\ flight = 1 /\ flight' = 0
      /\ sent \in Nat
      /\ applied \in 0 .. 1
      /\ UNCHANGED <<seconds, stage, asked, retried, due, sent, result>>
  BY DEF ClientInv, ClientTypeOK, Limit, Handle
\* No answer has come yet, and a write has had no effect yet.
<1>3. /\ response = Nothing /\ stage \in {"waiting", "ended"}
      /\ applied = 0 /\ 1 <= sent
  BY <1>2 DEF ClientInv, ResponseFits, AttemptsCounted, ClientTypeOK
<1>4. applied' \in 0 .. 1 /\ applied' <= sent /\ (applied' > 0 => asked.write)
  BY <1>1, <1>2, <1>3
<1>5. response' \in Response \cup {Nothing}
  BY <1>1, <1>2 DEF Response, ClientTypeOK
<1>6. ClientTypeOK'
  BY <1>2, <1>4, <1>5 DEF ClientTypeOK
<1>7. AttemptsCounted' /\ InBudget'
  BY <1>2 DEF ClientInv, AttemptsCounted, InBudget
<1>8. ResponseFits'
  <2>1. response' # Nothing =>
          response' = [class |-> class, coded |-> coded] /\ stage = "waiting"
    BY <1>1, <1>3
  <2>2. asked.write /\ response' # Nothing =>
          /\ response'.class = "ok" => applied' = 1
          /\ response'.class \notin {"ok", "5xx"} => applied' = 0
    BY <1>1, <1>3, <2>1
  <2>3. stage \notin {"loop", "reading", "sleeping"} /\ applied' + flight' <= sent
    <3>1. applied' \in Nat /\ applied' <= sent /\ flight' = 0
      BY <1>2, <1>4
    <3>2. applied' + flight' <= sent
      BY <3>1
    <3>3. QED
      BY <1>3, <3>2
  <2>4. QED
    BY <1>2, <1>4, <2>2, <2>3 DEF ResponseFits
<1>9. OutcomeHonest'
  <2>1. asked.write => result.kind # "ok" /\ result.kind # "rejection"
    BY <1>2, <1>3 DEF ClientInv, OutcomeHonest
  <2>2. QED
    BY <1>2, <2>1 DEF ClientInv, OutcomeHonest
<1>10. QED
  BY <1>6, <1>7, <1>8, <1>9 DEF ClientInv

LEMMA ClientTickKeeps ==
    ASSUME ClientInv, Elapse
    PROVE  ClientInv'
<1>0. /\ Limit \in Nat /\ PARSING \in Nat /\ seconds \in Nat /\ due \in 0 .. Limit
      /\ asked.enclosing \in Nat
  <2>1. /\ Limit \in Nat /\ PARSING \in Nat /\ due \in 0 .. Limit
        /\ seconds \in 0 .. Limit + PARSING /\ asked.enclosing \in Nat
    BY RequestParameters, ClientLimit DEF ClientInv, ClientTypeOK, RequestParameters, Asked
  <2>2. QED
    BY <2>1
<1>1. /\ ClientTypeOK /\ Limit' = Limit
      /\ stage \in {"loop", "waiting", "reading", "sleeping", "ended"}
  BY DEF ClientInv, ClientTypeOK, Limit, Elapse
<1>2. /\ stage \in {"waiting", "reading", "sleeping"} /\ seconds' = seconds + 1
      /\ stage = "sleeping" => seconds < due
      /\ stage # "sleeping" => seconds < Limit
  <2>1. seconds' = seconds + 1 /\ Prompt
    BY DEF Elapse
  <2>2. stage = "sleeping" => seconds < due
    BY <1>0, <2>1 DEF Prompt, Least
  <2>3. stage \in {"waiting", "reading"} => seconds < Limit
    <3>1. stage \in {"waiting", "reading"} => ~(seconds >= Limit)
      BY <2>1 DEF Prompt, AttemptOver
    <3>2. QED
      BY <1>0, <3>1
  <2>4. stage \notin {"loop", "ended"}
    BY <2>1 DEF Prompt
  <2>5. seconds' = seconds + 1
    BY <2>1
  <2>6. stage \in {"waiting", "reading", "sleeping"}
    BY <1>1, <2>4
  <2>7. stage = "sleeping" => seconds < due
    BY <2>2
  <2>8. stage # "sleeping" => seconds < Limit
    BY <2>3, <2>6
  <2>9. QED
    BY <2>5, <2>6, <2>7, <2>8
<1>3. seconds' \in Nat /\ seconds' <= Limit /\ (stage = "sleeping" => seconds' <= due)
  BY <1>0, <1>2
<1>4. ClientTypeOK'
  BY <1>0, <1>1, <1>3 DEF ClientTypeOK, Elapse, External
<1>5. AttemptsCounted' /\ InBudget'
  BY <1>1, <1>2, <1>3 DEF ClientInv, AttemptsCounted, InBudget, Elapse
<1>6. ResponseFits'
  BY DEF ClientInv, ResponseFits, Elapse, External
<1>7. OutcomeHonest'
  BY <1>2 DEF ClientInv, AttemptsCounted, Elapse, OutcomeHonest,
     Pending
<1>8. QED
  BY <1>4, <1>5, <1>6, <1>7 DEF ClientInv

LEMMA ClientInvStep == ClientInv /\ [ClientNext]_clientVars => ClientInv'
<1> SUFFICES ASSUME ClientInv, [ClientNext]_clientVars PROVE ClientInv'
  OBVIOUS
<1>0. /\ seconds \in Nat /\ PARSING \in Nat /\ asked.write \in BOOLEAN
      /\ seconds \in seconds .. seconds + PARSING
  BY RequestParameters, ClientLimit DEF ClientInv, ClientTypeOK, RequestParameters, Asked
<1>1. CASE Send
  BY <1>1, ClientSendKeeps
<1>2. CASE Exhausted
  <2>1. sent = 0 \/ ~asked.write
    BY <1>2 DEF ClientInv, AttemptsCounted, Exhausted
  <2>2. QED
    BY <1>0, <1>2, <2>1, ClientEnded DEF Exhausted, Kind
<1>3. CASE ReadHeaders
  BY <1>3, ClientReadHeadersKeeps
<1>4. CASE BodyInvalid
  BY <1>0, <1>4, ClientEnded DEF BodyInvalid, Kind
<1>5. CASE Parse
  BY <1>5, ClientParseKeeps
<1>6. CASE Wake
  BY <1>6, ClientWakeKeeps
<1>7. CASE Timeout \/ TransportError
  BY <1>0, <1>7, ClientEnded DEF Timeout, TransportError,
     AttemptFails, Kind
<1>8. CASE Cancel
  BY <1>0, <1>8, ClientEnded DEF Cancel, Kind
<1>9. CASE Handle
  BY <1>9, ClientHandleKeeps
<1>10. CASE Elapse
  BY <1>10, ClientTickKeeps
<1>11. CASE UNCHANGED clientVars
  BY <1>11 DEF clientVars, ClientInv, ClientTypeOK, Limit, AttemptsCounted,
     ResponseFits, InBudget, OutcomeHonest
<1>12. QED
  BY <1>1, <1>2, <1>3, <1>4, <1>5, <1>6, <1>7, <1>8, <1>9, <1>10, <1>11
     DEF ClientNext

LEMMA ClientInvariance == ClientSpec => []ClientInv
<1>1. ClientInit => ClientInv
  BY ClientInvInit
<1>2. ClientInv /\ [ClientNext]_clientVars => ClientInv'
  BY ClientInvStep
<1>3. QED
  BY <1>1, <1>2, PTL DEF ClientSpec

\* The client never repeats a write by itself: request_json sends at most one
\* request for it, which is why the flow above has one message for a POST.
THEOREM WritesAreSentOnce == ClientSpec => [](asked.write => sent <= 1)
<1>1. ClientSpec => []ClientInv
  BY ClientInvariance
<1>2. ClientInv => (asked.write => sent <= 1)
  BY DEF ClientInv, AttemptsCounted
<1>3. QED
  BY <1>1, <1>2, PTL

\* What request_json returns or raises is true of the backend: a result is of a
\* write that was made and comes within the budget of the call and of the
\* request around it, a rejected write is not made any more, and a ServerError
\* or BackendContractError of a write that was sent says that its outcome is
\* unknown.
THEOREM OutcomesAreHonest == ClientSpec => []OutcomeHonest
<1>1. ClientSpec => []ClientInv
  BY ClientInvariance
<1>2. ClientInv => OutcomeHonest
  BY DEF ClientInv
<1>3. QED
  BY <1>1, <1>2, PTL

\* A second request goes out only with more than a second of the budget left,
\* after the sleep and the parsing before it.
THEOREM RetriesHaveBudget == ClientSpec => RetryHasBudget
<1>1. ASSUME ClientInv, [ClientNext]_clientVars, sent' > sent, sent > 0
      PROVE  Limit - seconds > 1
  <2>1. sent' # sent
    BY <1>1 DEF ClientInv, ClientTypeOK
  <2>2. Send
    BY <1>1, <2>1 DEF ClientNext, clientVars, Exhausted, ReadHeaders,
       BodyInvalid, Parse, Wake, Timeout,
       TransportError, AttemptFails, Cancel, Handle,
       Elapse
  <2>3. retried /\ seconds <= due /\ Limit - due > 1
    BY <1>1, <2>2 DEF ClientInv, AttemptsCounted, InBudget, Send
  <2>4. seconds \in Nat /\ due \in Nat /\ Limit \in Nat
    BY <1>1, ClientLimit DEF ClientInv, ClientTypeOK
  <2>5. QED
    BY <2>3, <2>4
<1>2. ClientInv /\ [ClientNext]_clientVars =>
        [sent' > sent /\ sent > 0 => Limit - seconds > 1]_clientVars
  BY <1>1
<1>3. ClientSpec => []ClientInv
  BY ClientInvariance
<1>4. QED
  BY <1>2, <1>3, PTL DEF ClientSpec, RetryHasBudget

===============================================================================
