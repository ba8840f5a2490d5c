--------------------------- MODULE ChallengeManager ---------------------------
(***************************************************************************)
(* The write-challenge manager of challenge.py: the two process-local      *)
(* tables (challenge records and per-owner abuse state) and the two        *)
(* synchronous operations on them, issue_challenge and verify_challenge.   *)
(* Both run without an await, so each is one atomic step.  Time passes and *)
(* the process restarts between them.                                      *)
(*                                                                         *)
(* A Context stands for the pair (action, payload digest) a challenge is   *)
(* bound to.  An answer is correct or not: a malformed answer and a wrong  *)
(* one take the same branch.                                               *)
(***************************************************************************)
EXTENDS Integers, FiniteSets

CONSTANTS
    Owner,            \* token digests of the agents
    Context,          \* (action, payload digest) pairs
    Id,               \* challenge ids; uuid4 never repeats one
    EXPIRES,          \* CHALLENGE_EXPIRES_SECONDS
    FAIL_LIMIT,       \* CHALLENGE_FAIL_LIMIT
    FAILURE_WINDOW,   \* CHALLENGE_FAILURE_WINDOW_SECONDS
    SUSPEND,          \* CHALLENGE_SUSPEND_SECONDS
    MAX_PENDING,      \* CHALLENGE_MAX_PENDING
    ISSUE_LIMIT,      \* CHALLENGE_ISSUE_LIMIT
    ISSUE_WINDOW,     \* CHALLENGE_ISSUE_WINDOW_SECONDS
    RETENTION,        \* CHALLENGE_RETENTION_SECONDS
    MAX_TOTAL_PENDING, \* CHALLENGE_MAX_TOTAL_PENDING
    MAX_RECORDS,      \* CHALLENGE_MAX_RECORDS, the cap of both tables
    MaxClock,         \* bound: the clock stops here
    MaxBoots          \* bound: restarts of the process

\* Every limit is read with _positive_int (config.py:90-99).
ASSUME LimitsArePositive ==
    /\ EXPIRES \in Nat \ {0}           /\ FAIL_LIMIT \in Nat \ {0}
    /\ FAILURE_WINDOW \in Nat \ {0}    /\ SUSPEND \in Nat \ {0}
    /\ MAX_PENDING \in Nat \ {0}       /\ ISSUE_LIMIT \in Nat \ {0}
    /\ ISSUE_WINDOW \in Nat \ {0}      /\ RETENTION \in Nat \ {0}
    /\ MAX_TOTAL_PENDING \in Nat \ {0} /\ MAX_RECORDS \in Nat \ {0}
ASSUME BoundsAreNaturals == MaxClock \in Nat /\ MaxBoots \in Nat

VARIABLES
    clock,       \* time.monotonic(), in ticks
    challenges,  \* dict: challenge id -> ChallengeRecord
    owners,      \* dict: owner digest -> OwnerState
    reply,       \* what the last operation returned or raised
    boot,        \* history: number of restarts so far
    grants,      \* history: id -> to whom, for what and when it was issued
    accepted     \* history: id -> by whom, for what and when it was accepted

vars == <<clock, challenges, owners, reply, boot, grants, accepted>>
history == <<boot, grants, accepted>>

-------------------------------------------------------------------------------
(* Records *)

Empty == [x \in {} |-> x]   \* the empty dict
None == -1   \* Python's None for finished_at and suspended_until

Status == {"pending", "used", "expired", "failed"}
ChallengeRecord == [owner: Owner, context: Context, expires: Nat,
                    status: Status, finished: Nat \cup {None}]

\* A list of time stamps is the set of pairs <<stamp, rank among equal stamps>>.
Stamp == Nat \X Nat
OwnerState == [failures: SUBSET Stamp, issued: SUBSET Stamp,
               suspended: Nat \cup {None}]
NewOwner == [failures |-> {}, issued |-> {}, suspended |-> None]

WithStamp(S, t) == S \cup {<<t, Cardinality({s \in S : s[1] = t})>>}

Codes == {"issued", "owner_storage", "suspended", "record_storage",
          "global_pending", "issue_limit", "pending_limit",
          "unknown", "foreign", "used", "mismatch", "expired", "failed",
          "accepted"}
Reply == [code: Codes, owner: Owner, retry: Nat]
Silent == [code |-> "none"]   \* no operation returned in the last step

Boots == 0 .. MaxBoots
Grant == [owner: Owner, context: Context, at: Nat, boot: Boots]

\* A dict with keys in S and values in T.
Dict(f, S, T) == DOMAIN f \subseteq S /\ f \in [DOMAIN f -> T]

Put(f, k, v) == [i \in DOMAIN f \cup {k} |-> IF i = k THEN v ELSE f[i]]

OwnerTable(os) ==
    /\ Dict(os, Owner, OwnerState)
    /\ \A o \in DOMAIN os :
         IsFiniteSet(os[o].failures) /\ IsFiniteSet(os[o].issued)

TypeOK ==
    /\ clock \in Nat
    /\ Dict(challenges, Id, ChallengeRecord)
    /\ OwnerTable(owners)
    /\ reply \in Reply \cup {Silent}
    /\ boot \in Boots
    /\ Dict(grants, Id, Grant)
    /\ Dict(accepted, Id, Grant)

-------------------------------------------------------------------------------
(* _cleanup(now): the first thing both operations do to the two tables *)

Finish(r, status, t) == [r EXCEPT !.status = status, !.finished = t]

\* Fault: a challenge still counts at the very moment it expires.
LapseLate(r, t) ==
    IF r.status = "pending" /\ r.expires < t
    THEN Finish(r, "expired", r.expires) ELSE r

Lapse(r, t) ==
    IF r.status = "pending" /\ r.expires <= t
    THEN Finish(r, "expired", r.expires) ELSE r

\* A finished record whose retention is over is deleted.
Forgotten(r, t) == r.finished # None /\ t >= r.finished + RETENTION

RecordsAt(t) ==
    LET kept == {id \in DOMAIN challenges :
                    ~Forgotten(Lapse(challenges[id], t), t)}
    IN  [id \in kept |-> Lapse(challenges[id], t)]

Pending(cs) == {id \in DOMAIN cs : cs[id].status = "pending"}
PendingOf(cs, o) == {id \in Pending(cs) : cs[id].owner = o}

Prune(s, t) ==
    [failures |-> {x \in s.failures : x[1] > t - FAILURE_WINDOW},
     issued |-> {x \in s.issued : x[1] > t - ISSUE_WINDOW},
     suspended |-> IF s.suspended # None /\ s.suspended <= t
                   THEN None ELSE s.suspended]

\* Fault: an entry whose only content is its issue list is dropped.
IdleForgetsIssued(s) == s.failures = {} /\ s.suspended = None
\* Fault: an entry whose only content is its failure list is dropped.
IdleForgetsFailures(s) == s.issued = {} /\ s.suspended = None

Idle(s) == s.failures = {} /\ s.issued = {} /\ s.suspended = None

\* Fault: a pending challenge does not keep its owner's entry.
StatesAtDropsPending(t) ==
    [o \in {p \in DOMAIN owners : ~Idle(Prune(owners[p], t))} |->
        Prune(owners[o], t)]

StatesAt(t) ==
    LET cs == RecordsAt(t)
        busy == {cs[id].owner : id \in Pending(cs)}
        kept == {o \in DOMAIN owners : ~Idle(Prune(owners[o], t)) \/ o \in busy}
    IN  [o \in kept |-> Prune(owners[o], t)]

\* The tables as an operation that runs now finds them.
Records == RecordsAt(clock)
States == StatesAt(clock)

-------------------------------------------------------------------------------
(* Owner state *)

\* Fault: off by one.
NoRoomLate(os, o) == o \notin DOMAIN os /\ Cardinality(DOMAIN os) > MAX_RECORDS

NoRoom(os, o) == o \notin DOMAIN os /\ Cardinality(DOMAIN os) >= MAX_RECORDS

\* _owner_state: the owner's entry, created when it is missing.
WithOwner(os, o) ==
    [p \in DOMAIN os \cup {o} |-> IF p \in DOMAIN os THEN os[p] ELSE NewOwner]

Suspended(os, o, t) ==
    /\ o \in DOMAIN os
    /\ os[o].suspended # None
    /\ os[o].suspended > t

\* _mark_failure: the limit-th failure in the window suspends the owner.
Struck(os, o, t) == WithStamp(os[o].failures, t)
StrikesOut(os, o, t) == Cardinality(Struck(os, o, t)) >= FAIL_LIMIT

MarkFailure(os, o, t) ==
    IF StrikesOut(os, o, t)
    THEN [os EXCEPT ![o].failures = {}, ![o].suspended = t + SUSPEND]
    ELSE [os EXCEPT ![o].failures = Struck(os, o, t)]

\* Fault: swapped operands, not clamped.
SecondsSince(deadline, t) == t - deadline

SecondsUntil(deadline, t) == IF deadline - t > 1 THEN deadline - t ELSE 1

Earliest(S) == CHOOSE x \in S : \A y \in S : x <= y

\* An entry of the history variables.
Noted(o, c) == [owner |-> o, context |-> c, at |-> clock, boot |-> boot]

Respond(code, o, retry) ==
    reply' = [code |-> code, owner |-> o, retry |-> retry]

-------------------------------------------------------------------------------
(* issue_challenge *)

\* The checks in the order the code makes them.
IssueOutcome(o, t) ==
    LET cs == RecordsAt(t)
        os == StatesAt(t)
    IN  IF NoRoom(os, o) THEN "owner_storage"
        ELSE IF Suspended(os, o, t) THEN "suspended"
        ELSE IF Cardinality(DOMAIN cs) >= MAX_RECORDS THEN "record_storage"
        ELSE IF Cardinality(Pending(cs)) >= MAX_TOTAL_PENDING
             THEN "global_pending"
        ELSE IF Cardinality(WithOwner(os, o)[o].issued) >= ISSUE_LIMIT
             THEN "issue_limit"
        ELSE IF Cardinality(PendingOf(cs, o)) >= MAX_PENDING
             THEN "pending_limit"
        ELSE "issued"

\* Fault: the storage refusal points at the expiry, not at the deletion.
ReleaseAtExpiry(r) == IF r.finished # None THEN r.finished ELSE r.expires

\* When a record will leave the table.
Release(r) ==
    (IF r.finished # None THEN r.finished ELSE r.expires) + RETENTION

\* The moment a refusal's retry_after points at.
RetryDeadline(o, t) ==
    LET cs == RecordsAt(t)
        os == StatesAt(t)
        expiries(S) == {cs[id].expires : id \in S}
        releases == {Release(cs[id]) : id \in DOMAIN cs}
        code == IssueOutcome(o, t)
    IN  CASE code = "owner_storage"  -> t + FAILURE_WINDOW
          [] code = "suspended"      -> os[o].suspended
          [] code = "record_storage" -> Earliest(releases)
          [] code = "global_pending" -> Earliest(expiries(Pending(cs)))
          [] code = "issue_limit"    -> Earliest({x[1] : x \in os[o].issued})
                                          + ISSUE_WINDOW
          [] code = "pending_limit"  -> Earliest(expiries(PendingOf(cs, o)))

RetryAfter(o, t) == SecondsUntil(RetryDeadline(o, t), t)

\* A refused issue still creates the owner's entry, when there is room for it.
IssueRefused(o) ==
    LET code == IssueOutcome(o, clock)
    IN  /\ code # "issued"
        /\ challenges' = Records
        /\ owners' = IF code = "owner_storage" THEN States
                     ELSE WithOwner(States, o)
        /\ Respond(code, o, RetryAfter(o, clock))
        /\ UNCHANGED <<clock, history>>

NewRecord(o, c) ==
    [owner |-> o, context |-> c, expires |-> clock + EXPIRES,
     status |-> "pending", finished |-> None]

IssueGranted(o, c, id) ==
    /\ id \notin DOMAIN grants      \* a fresh uuid4
    /\ IssueOutcome(o, clock) = "issued"
    /\ challenges' = Put(Records, id, NewRecord(o, c))
    /\ owners' = [WithOwner(States, o) EXCEPT
                    ![o].issued = WithStamp(@, clock)]
    /\ Respond("issued", o, 0)
    /\ grants' = Put(grants, id, Noted(o, c))
    /\ UNCHANGED <<clock, boot, accepted>>

-------------------------------------------------------------------------------
(* verify_challenge: one action per way out, in the order of the code.     *)
(* o asks, with context c, for the challenge id.                           *)

Holds(o, id) == id \in DOMAIN Records /\ Records[id].owner = o

\* Fault: verify_challenge forgets _check_suspension.
MayTrySuspended(o) == ~NoRoom(States, o)

\* _owner_state and _check_suspension both let the caller through.
MayTry(o) == ~NoRoom(States, o) /\ ~Suspended(States, o, clock)

\* _mark_failure, then the branch's own error: striking out pre-empts it.
CountFailure(code, o) ==
    /\ owners' = MarkFailure(WithOwner(States, o), o, clock)
    /\ IF StrikesOut(WithOwner(States, o), o, clock)
       THEN Respond("suspended", o, SUSPEND)
       ELSE Respond(code, o, 0)

Close(id, status) ==
    challenges' = [Records EXCEPT ![id] = Finish(@, status, clock)]

\* The record is gone or never was: the failure is counted if it can be, and
\* neither a suspension nor a full table changes the answer.
VerifyUnknown(o, id) ==
    /\ id \notin DOMAIN Records
    /\ challenges' = Records
    /\ owners' = IF MayTry(o)
                 THEN MarkFailure(WithOwner(States, o), o, clock)
                 ELSE States
    /\ Respond("unknown", o, 0)
    /\ UNCHANGED <<clock, history>>

\* Fault: the ownership check comes after the record is closed.
VerifyForeignCloses(o, id) ==
    /\ id \in DOMAIN Records /\ ~Holds(o, id)
    /\ MayTry(o)
    /\ Close(id, "failed")
    /\ CountFailure("foreign", o)
    /\ UNCHANGED <<clock, history>>

VerifyForeign(o, id) ==
    /\ id \in DOMAIN Records /\ ~Holds(o, id)
    /\ MayTry(o)
    /\ challenges' = Records
    /\ CountFailure("foreign", o)
    /\ UNCHANGED <<clock, history>>

\* A used record answers before suspension and payload are looked at.
VerifyUsed(o, id) ==
    /\ Holds(o, id) /\ Records[id].status = "used"
    /\ challenges' = Records
    /\ owners' = States
    /\ Respond("used", o, 0)
    /\ UNCHANGED <<clock, history>>

VerifyBlocked(o, id) ==
    /\ id \in DOMAIN Records
    /\ Holds(o, id) => Records[id].status # "used"
    /\ ~MayTry(o)
    /\ challenges' = Records
    /\ owners' = States
    /\ IF NoRoom(States, o)
       THEN Respond("owner_storage", o, FAILURE_WINDOW)
       ELSE Respond("suspended", o, SecondsUntil(States[o].suspended, clock))
    /\ UNCHANGED <<clock, history>>

\* The caller holds the record and is let through to its status.
Admitted(o, id) ==
    Holds(o, id) /\ Records[id].status # "used" /\ MayTry(o)

VerifyMismatch(o, c, id) ==
    /\ Admitted(o, id) /\ Records[id].context # c
    /\ IF Records[id].status = "pending" THEN Close(id, "failed")
       ELSE challenges' = Records
    /\ CountFailure("mismatch", o)
    /\ UNCHANGED <<clock, history>>

VerifyExpired(o, c, id) ==
    /\ Admitted(o, id) /\ Records[id].context = c
    /\ Records[id].status = "expired"
    /\ challenges' = Records
    /\ owners' = WithOwner(States, o)
    /\ Respond("expired", o, 0)
    /\ UNCHANGED <<clock, history>>

VerifyFailed(o, c, id) ==
    /\ Admitted(o, id) /\ Records[id].context = c
    /\ Records[id].status = "failed"
    /\ challenges' = Records
    /\ CountFailure("failed", o)
    /\ UNCHANGED <<clock, history>>

VerifyIncorrect(o, c, id) ==
    /\ Admitted(o, id) /\ Records[id].context = c
    /\ Records[id].status = "pending"
    /\ Close(id, "failed")
    /\ CountFailure("failed", o)
    /\ UNCHANGED <<clock, history>>

\* Fault: the accepted record is not marked used.
VerifyAcceptedKeeps(o, c, id) ==
    /\ Admitted(o, id) /\ Records[id].context = c
    /\ Records[id].status = "pending"
    /\ challenges' = Records
    /\ owners' = WithOwner(States, o)
    /\ Respond("accepted", o, 0)
    /\ accepted' = Put(accepted, id, Noted(o, c))
    /\ UNCHANGED <<clock, boot, grants>>

VerifyAccepted(o, c, id) ==
    /\ Admitted(o, id) /\ Records[id].context = c
    /\ Records[id].status = "pending"
    /\ Close(id, "used")
    /\ owners' = WithOwner(States, o)
    /\ Respond("accepted", o, 0)
    /\ accepted' = Put(accepted, id, Noted(o, c))
    /\ UNCHANGED <<clock, boot, grants>>

Verify(o, c, id) ==
    \/ VerifyUnknown(o, id)
    \/ VerifyForeign(o, id)
    \/ VerifyUsed(o, id)
    \/ VerifyBlocked(o, id)
    \/ VerifyMismatch(o, c, id)
    \/ VerifyExpired(o, c, id)
    \/ VerifyFailed(o, c, id)
    \/ VerifyIncorrect(o, c, id)
    \/ VerifyAccepted(o, c, id)

-------------------------------------------------------------------------------
(* Environment *)

Tick ==
    /\ clock < MaxClock
    /\ clock' = clock + 1
    /\ reply' = Silent
    /\ UNCHANGED <<challenges, owners, history>>

\* The state is process-local: a restart begins with two empty tables.
Restart ==
    /\ boot < MaxBoots
    /\ boot' = boot + 1
    /\ challenges' = Empty
    /\ owners' = Empty
    /\ reply' = Silent
    /\ UNCHANGED <<clock, grants, accepted>>

Init ==
    /\ clock = 0
    /\ challenges = Empty
    /\ owners = Empty
    /\ reply = Silent
    /\ boot = 0
    /\ grants = Empty
    /\ accepted = Empty

Next ==
    \/ \E o \in Owner : IssueRefused(o)
    \/ \E o \in Owner, c \in Context, id \in Id : IssueGranted(o, c, id)
    \/ \E o \in Owner, c \in Context, id \in Id : Verify(o, c, id)
    \/ Tick
    \/ Restart

Spec == Init /\ [][Next]_vars

-------------------------------------------------------------------------------
(* Properties *)

\* README.md, challenge policy: an issued challenge can be completed although
\* capacity refuses new ones.  verify_challenge looks the owner up again and
\* would be refused if cleanup had dropped its entry from a full table, so
\* cleanup must keep the entry of every owner with a pending challenge.
CompletionUnblocked ==
    \A id \in Pending(Records) : Records[id].owner \in DOMAIN States

\* A consumed challenge can never be consumed again, and until its retention
\* is over in the same process it is still there to say so: neither expiry,
\* cleanup, a full table nor another caller removes or reopens it.
SingleUse ==
    \A id \in DOMAIN accepted :
        /\ id \notin Pending(challenges)
        /\ accepted[id].boot = boot /\ clock < accepted[id].at + RETENTION
              => id \in DOMAIN Records /\ Records[id].status = "used"

\* verify_challenge accepts only the agent, action and payload the challenge
\* was issued for, strictly before its expiry and in the process that issued it.
AcceptedAsIssued ==
    \A id \in DOMAIN accepted :
        /\ id \in DOMAIN grants
        /\ accepted[id] = [grants[id] EXCEPT !.at = accepted[id].at]
        /\ accepted[id].at - grants[id].at \in 0 .. EXPIRES - 1

\* Both tables and both pending counts stay within their limits.
TablesBounded ==
    /\ Cardinality(DOMAIN challenges) <= MAX_RECORDS
    /\ Cardinality(DOMAIN owners) <= MAX_RECORDS
    /\ Cardinality(Pending(challenges)) <= MAX_TOTAL_PENDING
    /\ \A o \in Owner : Cardinality(PendingOf(challenges, o)) <= MAX_PENDING

\* No owner is issued more than ISSUE_LIMIT challenges in any window of
\* ISSUE_WINDOW of one process, although OwnerState entries come and go.
IssuedTo(o, from, to) ==
    {id \in DOMAIN grants : /\ grants[id].owner = o
                            /\ grants[id].boot = boot
                            /\ grants[id].at \in from .. to}
IssueRate ==
    \A o \in Owner, t \in 0 .. clock :
        Cardinality(IssuedTo(o, t + 1 - ISSUE_WINDOW, t)) <= ISSUE_LIMIT

\* retry_after is honest: a client that waits that long is not refused for the
\* same reason if nobody else acted in between.  The owner table's refusal
\* always names the failure window, which is long enough only when no other
\* reason to keep an entry lasts longer.
EntriesOutliveNoWindow ==
    /\ ISSUE_WINDOW <= FAILURE_WINDOW
    /\ SUSPEND <= FAILURE_WINDOW
    /\ EXPIRES <= FAILURE_WINDOW
RetryHonest ==
    \A o \in Owner :
        LET code == IssueOutcome(o, clock)
        IN  code = "issued"
              \/ IssueOutcome(o, clock + RetryAfter(o, clock)) # code

\* A suspension is served in full: until suspended_until nothing lifts or
\* prolongs it, and the owner neither gets nor completes a challenge.
SuspensionServed ==
    [][\A o \in Owner :
         Suspended(owners, o, clock') /\ boot' = boot =>
           /\ o \in DOMAIN owners'
           /\ owners'[o].suspended = owners[o].suspended
           /\ \A id \in DOMAIN grants' \ DOMAIN grants : grants'[id].owner # o
           /\ \A id \in DOMAIN accepted' \ DOMAIN accepted :
                accepted'[id].owner # o]_vars

\* One agent's call changes another agent's challenges only in the way time
\* alone does, and leaves every other agent's standing as cleanup leaves it.
OthersUntouched ==
    [][\A o \in Owner :
         reply' # Silent /\ reply'.owner # o =>
           /\ \A id \in DOMAIN challenges :
                challenges[id].owner = o =>
                  \/ id \in DOMAIN Records /\ id \in DOMAIN challenges'
                       /\ challenges'[id] = Records[id]
                  \/ id \notin DOMAIN Records /\ id \notin DOMAIN challenges'
           /\ o \in DOMAIN States <=> o \in DOMAIN owners'
           /\ o \in DOMAIN States => owners'[o] = States[o]]_vars

-------------------------------------------------------------------------------
(* The inductive invariant behind CompletionUnblocked, SingleUse and       *)
(* AcceptedAsIssued.  The parts about the tables take them as parameters:  *)
(* they hold of the tables before and after cleanup alike.                 *)

IssuedByUs(cs) ==
    \A id \in DOMAIN cs :
        /\ id \in DOMAIN grants
        /\ grants[id].owner = cs[id].owner
        /\ grants[id].context = cs[id].context
        /\ grants[id].at + EXPIRES = cs[id].expires
        /\ grants[id].boot = boot
        /\ cs[id].status = "pending" <=> cs[id].finished = None

UsedKept(cs) ==
    \A id \in DOMAIN accepted :
        /\ id \in DOMAIN cs =>
             cs[id].status = "used" /\ cs[id].finished = accepted[id].at
        /\ accepted[id].boot = boot /\ clock < accepted[id].at + RETENTION
             => id \in DOMAIN cs

OwnersKept(cs, os) == \A id \in Pending(cs) : cs[id].owner \in DOMAIN os

NotFromTheFuture ==
    \A id \in DOMAIN grants : grants[id].at <= clock /\ grants[id].boot <= boot

Bookkeeping ==
    /\ NotFromTheFuture
    /\ AcceptedAsIssued
    /\ IssuedByUs(challenges)
    /\ UsedKept(challenges)
    /\ OwnersKept(challenges, owners)

IInv == TypeOK /\ Bookkeeping

-------------------------------------------------------------------------------
(* What the lazy cleanup has to look like from outside: AttemptPolicy has  *)
(* no tables and no cleanup, everything lapses the moment its time is up.  *)

OpenPermits ==
    {[id |-> id, owner |-> Records[id].owner, context |-> Records[id].context,
      until |-> Records[id].expires] : id \in Pending(Records)}
StrikesNow ==
    [o \in Owner |-> IF o \in DOMAIN States THEN States[o].failures ELSE {}]
LockedUntil ==
    [o \in Owner |-> IF Suspended(States, o, clock) THEN States[o].suspended
                     ELSE 0]

Policy == INSTANCE AttemptPolicy WITH
    now <- clock, open <- OpenPermits, granted <- DOMAIN grants,
    spent <- DOMAIN accepted, strikes <- StrikesNow, locked <- LockedUntil
PolicySpec == Policy!Spec
===============================================================================
