------------------------ MODULE ChallengeManagerProofs ------------------------
(***************************************************************************)
(* Theorems about ChallengeManager, for every value of the limits and any  *)
(* sets of owners, contexts and ids.                                       *)
(***************************************************************************)
EXTENDS ChallengeManager, FiniteSetTheorems, WellFoundedInduction, TLAPS

-------------------------------------------------------------------------------
(* What cleanup returns *)

LEMMA LapseType ==
    ASSUME NEW r \in ChallengeRecord, NEW t \in Nat
    PROVE  /\ Lapse(r, t) \in ChallengeRecord
           /\ Lapse(r, t).owner = r.owner
           /\ Lapse(r, t).context = r.context
           /\ Lapse(r, t).expires = r.expires
BY DEF Lapse, Finish, ChallengeRecord, Status

\* Either the record has just expired, or it is as it was.
LEMMA LapseCases ==
    ASSUME NEW r \in ChallengeRecord, NEW t \in Nat
    PROVE  \/ /\ r.status = "pending" /\ r.expires <= t
              /\ Lapse(r, t).status = "expired"
              /\ Lapse(r, t).finished = r.expires
           \/ /\ r.status = "pending" => t < r.expires
              /\ Lapse(r, t) = r
BY DEF Lapse, Finish, ChallengeRecord, Status

LEMMA RecordsAtShape ==
    ASSUME NEW t
    PROVE  /\ DOMAIN RecordsAt(t) =
                {id \in DOMAIN challenges : ~Forgotten(Lapse(challenges[id], t), t)}
           /\ \A id \in DOMAIN RecordsAt(t) :
                RecordsAt(t)[id] = Lapse(challenges[id], t)
           /\ RecordsAt(t) = [id \in DOMAIN RecordsAt(t) |-> Lapse(challenges[id], t)]
BY DEF RecordsAt

LEMMA RecordsAtType ==
    ASSUME TypeOK, NEW t \in Nat
    PROVE  Dict(RecordsAt(t), Id, ChallengeRecord) /\ DOMAIN RecordsAt(t) \subseteq DOMAIN challenges
BY LapseType, RecordsAtShape DEF TypeOK, Dict

LEMMA PruneType ==
    ASSUME NEW s \in OwnerState, NEW t \in Nat,
           IsFiniteSet(s.failures), IsFiniteSet(s.issued)
    PROVE  /\ Prune(s, t) \in OwnerState
           /\ IsFiniteSet(Prune(s, t).failures)
           /\ IsFiniteSet(Prune(s, t).issued)
<1>1. Prune(s, t).failures \subseteq s.failures
  BY DEF Prune
<1>2. Prune(s, t).issued \subseteq s.issued
  BY DEF Prune
<1>3. Prune(s, t) \in OwnerState
  BY DEF Prune, OwnerState
<1>4. QED
  BY <1>1, <1>2, <1>3, FS_Subset

LEMMA StatesAtShape ==
    ASSUME NEW t
    PROVE  /\ DOMAIN StatesAt(t) =
                {o \in DOMAIN owners :
                   \/ ~Idle(Prune(owners[o], t))
                   \/ \E id \in Pending(RecordsAt(t)) : RecordsAt(t)[id].owner = o}
           /\ \A o \in DOMAIN StatesAt(t) : StatesAt(t)[o] = Prune(owners[o], t)
           /\ StatesAt(t) = [o \in DOMAIN StatesAt(t) |-> Prune(owners[o], t)]
BY DEF StatesAt

LEMMA StatesAtType ==
    ASSUME TypeOK, NEW t \in Nat
    PROVE  OwnerTable(StatesAt(t)) /\ DOMAIN StatesAt(t) \subseteq DOMAIN owners
<1>1. \A o \in DOMAIN StatesAt(t) :
        /\ StatesAt(t)[o] \in OwnerState
        /\ IsFiniteSet(StatesAt(t)[o].failures)
        /\ IsFiniteSet(StatesAt(t)[o].issued)
  <2>1. TAKE o \in DOMAIN StatesAt(t)
  <2>2. o \in DOMAIN owners /\ StatesAt(t)[o] = Prune(owners[o], t)
    BY StatesAtShape
  <2>3. /\ owners[o] \in OwnerState
        /\ IsFiniteSet(owners[o].failures)
        /\ IsFiniteSet(owners[o].issued)
    BY <2>2 DEF TypeOK, OwnerTable, Dict
  <2>4. QED
    BY <2>2, <2>3, PruneType
<1>2. DOMAIN StatesAt(t) \subseteq DOMAIN owners
  BY StatesAtShape
<1>3. StatesAt(t) \in [DOMAIN StatesAt(t) -> OwnerState]
  BY <1>1, StatesAtShape
<1>4. QED
  BY <1>1, <1>2, <1>3 DEF TypeOK, OwnerTable, Dict

-------------------------------------------------------------------------------
(* What the helpers return *)

LEMMA WithOwnerType ==
    ASSUME NEW os, OwnerTable(os), NEW o \in Owner
    PROVE  /\ OwnerTable(WithOwner(os, o))
           /\ DOMAIN WithOwner(os, o) = DOMAIN os \cup {o}
           /\ \A p \in DOMAIN os : WithOwner(os, o)[p] = os[p]
<1>1. NewOwner \in OwnerState /\ IsFiniteSet({})
  BY FS_EmptySet DEF NewOwner, OwnerState
<1>2. \A p \in DOMAIN os \cup {o} :
        /\ WithOwner(os, o)[p] \in OwnerState
        /\ IsFiniteSet(WithOwner(os, o)[p].failures)
        /\ IsFiniteSet(WithOwner(os, o)[p].issued)
  BY <1>1 DEF WithOwner, OwnerTable, Dict, NewOwner
<1>3. QED
  BY <1>2 DEF WithOwner, OwnerTable, Dict

LEMMA WithStampType ==
    ASSUME NEW S \in SUBSET Stamp, IsFiniteSet(S), NEW t \in Nat
    PROVE  WithStamp(S, t) \in SUBSET Stamp /\ IsFiniteSet(WithStamp(S, t))
<1> DEFINE Equal == {s \in S : s[1] = t}
<1>1. IsFiniteSet(Equal)
  BY FS_Subset
<1>2. Cardinality(Equal) \in Nat
  BY <1>1, FS_CardinalityType
<1>3. <<t, Cardinality(Equal)>> \in Stamp
  BY <1>2 DEF Stamp
<1>4. IsFiniteSet(S \cup {<<t, Cardinality(Equal)>>})
  BY FS_AddElement
<1>5. QED
  BY <1>3, <1>4 DEF WithStamp

\* Changing one entry of an owner table keeps it one.
LEMMA OwnerTableExcept ==
    ASSUME NEW os, OwnerTable(os), NEW o \in DOMAIN os, NEW s \in OwnerState,
           IsFiniteSet(s.failures), IsFiniteSet(s.issued)
    PROVE  OwnerTable([os EXCEPT ![o] = s])
BY DEF OwnerTable, Dict

LEMMA MarkFailureType ==
    ASSUME NEW os, OwnerTable(os), NEW o \in DOMAIN os, NEW t \in Nat
    PROVE  /\ OwnerTable(MarkFailure(os, o, t))
           /\ DOMAIN MarkFailure(os, o, t) = DOMAIN os
<1> DEFINE s == IF StrikesOut(os, o, t)
                THEN [os[o] EXCEPT !.failures = {}, !.suspended = t + SUSPEND]
                ELSE [os[o] EXCEPT !.failures = Struck(os, o, t)]
<1>1. os[o] \in OwnerState /\ IsFiniteSet(os[o].failures) /\ IsFiniteSet(os[o].issued)
  BY DEF OwnerTable, Dict
<1>2. /\ Struck(os, o, t) \in SUBSET Stamp
      /\ IsFiniteSet(Struck(os, o, t))
  BY <1>1, WithStampType DEF Struck, OwnerState
<1>3. t + SUSPEND \in Nat
  BY LimitsArePositive
<1>4. s \in OwnerState /\ IsFiniteSet(s.failures) /\ IsFiniteSet(s.issued)
  BY <1>1, <1>2, <1>3, FS_EmptySet DEF OwnerState
<1>5. MarkFailure(os, o, t) = [os EXCEPT ![o] = s]
  BY <1>1 DEF MarkFailure, OwnerTable, Dict
<1> HIDE DEF s
<1>6. OwnerTable([os EXCEPT ![o] = s])
  BY <1>4, OwnerTableExcept
<1>7. QED
  BY <1>5, <1>6

LEMMA EarliestType ==
    ASSUME NEW S \in SUBSET Nat, S # {}
    PROVE  Earliest(S) \in S /\ \A y \in S : Earliest(S) <= y
<1>1. PICK x \in S : \A y \in S : ~(<<y, x>> \in OpToRel(<, Nat))
  BY NatLessThanWellFounded, WFMin
<1>2. \A y \in S : ~(y < x)
  BY <1>1, Zenon DEF OpToRel
<1>3. \A y \in S : x <= y
  BY <1>2
<1>4. QED
  BY <1>3 DEF Earliest

LEMMA DictPut ==
    ASSUME NEW S, NEW T, NEW f, Dict(f, S, T), NEW k \in S, NEW v \in T
    PROVE  Dict(Put(f, k, v), S, T)
BY DEF Dict, Put

LEMMA DictExcept ==
    ASSUME NEW S, NEW T, NEW f, Dict(f, S, T), NEW k \in DOMAIN f, NEW v \in T
    PROVE  Dict([f EXCEPT ![k] = v], S, T)
BY DEF Dict

LEMMA EmptyDict ==
    ASSUME NEW S, NEW T
    PROVE  Dict(Empty, S, T) /\ DOMAIN Empty = {}
BY DEF Dict, Empty

LEMMA NonemptyIfCounted ==
    ASSUME NEW S, NEW n \in Nat \ {0}, Cardinality(S) >= n
    PROVE  S # {}
BY FS_EmptySet

\* Every refusal names a moment of the clock, so retry_after is a number.
LEMMA RetryType ==
    ASSUME TypeOK, NEW o \in Owner, NEW t \in Nat, IssueOutcome(o, t) # "issued"
    PROVE  RetryDeadline(o, t) \in Nat /\ RetryAfter(o, t) \in Nat
<1> DEFINE cs == RecordsAt(t)
           os == StatesAt(t)
           expiries(S) == {cs[id].expires : id \in S}
           releases == {Release(cs[id]) : id \in DOMAIN cs}
           stamps == {x[1] : x \in os[o].issued}
<1>1. Dict(cs, Id, ChallengeRecord) /\ OwnerTable(os)
  BY RecordsAtType, StatesAtType
<1>2. \A S \in SUBSET DOMAIN cs : S # {} => Earliest(expiries(S)) \in Nat
  <2>1. TAKE S \in SUBSET DOMAIN cs
  <2>2. HAVE S # {}
  <2>3. expiries(S) \in SUBSET Nat /\ expiries(S) # {}
    BY <1>1, <2>2 DEF Dict, ChallengeRecord
  <2>4. QED
    BY <2>3, EarliestType
<1>3. releases \in SUBSET Nat
  BY <1>1, LimitsArePositive DEF Dict, ChallengeRecord, Release
<1>4. o \in DOMAIN os => stamps \in SUBSET Nat
  BY <1>1 DEF OwnerTable, Dict, OwnerState, Stamp
<1>5. RetryDeadline(o, t) \in Nat
  <2>1. CASE IssueOutcome(o, t) = "owner_storage"
    BY <2>1, LimitsArePositive DEF RetryDeadline
  <2>2. CASE IssueOutcome(o, t) = "suspended"
    <3>1. Suspended(os, o, t)
      BY <2>2 DEF IssueOutcome
    <3>2. os[o].suspended \in Nat
      BY <1>1, <3>1 DEF Suspended, OwnerTable, Dict, OwnerState
    <3>3. QED
      BY <2>2, <3>2 DEF RetryDeadline
  <2>3. CASE IssueOutcome(o, t) = "record_storage"
    <3>1. Cardinality(DOMAIN cs) >= MAX_RECORDS
      BY <2>3 DEF IssueOutcome
    <3>2. releases # {}
      BY <3>1, NonemptyIfCounted, LimitsArePositive
    <3>3. Earliest(releases) \in Nat
      BY <1>3, <3>2, EarliestType
    <3>4. QED
      BY <2>3, <3>3 DEF RetryDeadline
  <2>4. CASE IssueOutcome(o, t) = "global_pending"
    <3>1. Cardinality(Pending(cs)) >= MAX_TOTAL_PENDING
      BY <2>4 DEF IssueOutcome
    <3>2. Pending(cs) # {}
      BY <3>1, NonemptyIfCounted, LimitsArePositive
    <3>3. Earliest(expiries(Pending(cs))) \in Nat
      BY <1>2, <3>2 DEF Pending
    <3>4. QED
      BY <2>4, <3>3 DEF RetryDeadline
  <2>5. CASE IssueOutcome(o, t) = "issue_limit"
    <3>1. Cardinality(WithOwner(os, o)[o].issued) >= ISSUE_LIMIT
      BY <2>5 DEF IssueOutcome
    <3>2. WithOwner(os, o)[o].issued # {}
      BY <3>1, NonemptyIfCounted, LimitsArePositive
    <3>3. o \in DOMAIN os /\ os[o].issued # {}
      BY <3>2 DEF WithOwner, NewOwner
    <3>4. Earliest(stamps) \in Nat
      BY <1>4, <3>3, EarliestType
    <3>5. QED
      BY <2>5, <3>4, LimitsArePositive DEF RetryDeadline
  <2>6. CASE IssueOutcome(o, t) = "pending_limit"
    <3>1. Cardinality(PendingOf(cs, o)) >= MAX_PENDING
      BY <2>6 DEF IssueOutcome
    <3>2. PendingOf(cs, o) # {}
      BY <3>1, NonemptyIfCounted, LimitsArePositive
    <3>3. Earliest(expiries(PendingOf(cs, o))) \in Nat
      BY <1>2, <3>2 DEF PendingOf, Pending
    <3>4. QED
      BY <2>6, <3>3 DEF RetryDeadline
  <2>7. QED
    BY <2>1, <2>2, <2>3, <2>4, <2>5, <2>6 DEF IssueOutcome
<1>6. QED
  BY <1>5 DEF RetryAfter, SecondsUntil

-------------------------------------------------------------------------------
(* Types *)

\* The tables every operation starts from.
LEMMA CleanedType ==
    ASSUME TypeOK
    PROVE  /\ Dict(Records, Id, ChallengeRecord)
           /\ OwnerTable(States)
BY RecordsAtType, StatesAtType DEF Records, States, TypeOK

LEMMA OwnStatesType ==
    ASSUME TypeOK, NEW o \in Owner
    PROVE  /\ OwnerTable(WithOwner(States, o))
           /\ DOMAIN WithOwner(States, o) = DOMAIN States \cup {o}
           /\ o \in DOMAIN WithOwner(States, o)
<1>1. OwnerTable(States)
  BY CleanedType
<1>2. QED
  BY <1>1, WithOwnerType

LEMMA NotedType ==
    ASSUME TypeOK, NEW o \in Owner, NEW c \in Context
    PROVE  Noted(o, c) \in Grant
BY DEF TypeOK, Noted, Grant

LEMMA RespondType ==
    ASSUME NEW code \in Codes, NEW o \in Owner, NEW retry \in Nat,
           Respond(code, o, retry)
    PROVE  reply' \in Reply \cup {Silent}
BY DEF Respond, Reply

LEMMA CountFailureType ==
    ASSUME TypeOK, NEW code \in Codes, NEW o \in Owner, CountFailure(code, o)
    PROVE  OwnerTable(owners)' /\ reply' \in Reply \cup {Silent}
<1> DEFINE os == WithOwner(States, o)
<1>1. OwnerTable(os) /\ o \in DOMAIN os
  BY OwnStatesType
<1>2. clock \in Nat
  BY DEF TypeOK
<1>3. OwnerTable(MarkFailure(os, o, clock))
  BY <1>1, <1>2, MarkFailureType
<1>4. OwnerTable(owners)'
  BY <1>3 DEF CountFailure, OwnerTable, Dict
<1>5. reply' \in Reply \cup {Silent}
  BY RespondType, LimitsArePositive DEF CountFailure, Codes
<1>6. QED
  BY <1>4, <1>5

LEMMA CloseType ==
    ASSUME TypeOK, NEW id \in DOMAIN Records, NEW status \in Status,
           Close(id, status)
    PROVE  Dict(challenges, Id, ChallengeRecord)'
<1>1. Records[id] \in ChallengeRecord
  BY CleanedType DEF Dict
<1>2. Finish(Records[id], status, clock) \in ChallengeRecord
  BY <1>1 DEF Finish, ChallengeRecord, TypeOK
<1>3. Dict([Records EXCEPT ![id] = Finish(Records[id], status, clock)],
           Id, ChallengeRecord)
  BY <1>2, CleanedType, DictExcept
<1>4. QED
  BY <1>3 DEF Close, Dict

\* One action after the other keeps the type invariant.
LEMMA TypeStep == TypeOK /\ [Next]_vars => TypeOK'
<1> SUFFICES ASSUME TypeOK, [Next]_vars
             PROVE  TypeOK'
  OBVIOUS
<1> USE CleanedType DEF TypeOK, history
<1>1. ASSUME NEW o \in Owner, IssueRefused(o)
      PROVE  TypeOK'
  <2> DEFINE code == IssueOutcome(o, clock)
  <2>1. code # "issued" /\ code \in Codes /\ RetryAfter(o, clock) \in Nat
    BY <1>1, RetryType DEF IssueRefused, IssueOutcome, Codes
  <2>2. reply' \in Reply \cup {Silent}
    BY <1>1, <2>1, RespondType DEF IssueRefused
  <2>3. OwnerTable(WithOwner(States, o))
    BY WithOwnerType
  <2>4. owners' \in {States, WithOwner(States, o)}
    BY <1>1 DEF IssueRefused
  <2>5. OwnerTable(owners)'
    BY <2>3, <2>4 DEF OwnerTable, Dict
  <2>6. QED
    BY <1>1, <2>2, <2>5 DEF IssueRefused, Dict
<1>2. ASSUME NEW o \in Owner, NEW c \in Context, NEW id \in Id,
             IssueGranted(o, c, id)
      PROVE  TypeOK'
  <2> DEFINE os == WithOwner(States, o)
             stamped == [os[o] EXCEPT !.issued = WithStamp(os[o].issued, clock)]
  <2>1. OwnerTable(os) /\ o \in DOMAIN os
    BY OwnStatesType
  <2>2. os[o] \in OwnerState /\ IsFiniteSet(os[o].issued) /\ IsFiniteSet(os[o].failures)
    BY <2>1 DEF OwnerTable, Dict
  <2>3. WithStamp(os[o].issued, clock) \in SUBSET Stamp
        /\ IsFiniteSet(WithStamp(os[o].issued, clock))
    BY <2>2, WithStampType DEF OwnerState
  <2>4. /\ stamped \in OwnerState
        /\ IsFiniteSet(stamped.issued)
        /\ IsFiniteSet(stamped.failures)
    BY <2>2, <2>3 DEF OwnerState
  <2>5. OwnerTable([os EXCEPT ![o] = stamped])
    BY <2>1, <2>4, OwnerTableExcept
  <2>6. owners' = [os EXCEPT ![o] = stamped]
    BY <1>2, <2>1 DEF IssueGranted, OwnerTable, Dict
  <2>7. OwnerTable(owners)'
    BY <2>5, <2>6 DEF OwnerTable, Dict
  <2>8. NewRecord(o, c) \in ChallengeRecord
    BY LimitsArePositive DEF NewRecord, ChallengeRecord, Status
  <2>9. Dict(challenges, Id, ChallengeRecord)'
    BY <1>2, <2>8, DictPut DEF IssueGranted, Dict
  <2>10. Dict(grants, Id, Grant)'
    BY <1>2, NotedType, DictPut DEF IssueGranted, Dict
  <2>11. reply' \in Reply \cup {Silent}
    BY <1>2, RespondType DEF IssueGranted, Codes
  <2>12. QED
    BY <1>2, <2>7, <2>9, <2>10, <2>11 DEF IssueGranted, Dict
<1>3. ASSUME NEW o \in Owner, NEW c \in Context, NEW id \in Id, Verify(o, c, id)
      PROVE  TypeOK'
  <2>1. CASE VerifyUnknown(o, id)
    <3>1. OwnerTable(WithOwner(States, o)) /\ o \in DOMAIN WithOwner(States, o)
      BY OwnStatesType
    <3>2. OwnerTable(MarkFailure(WithOwner(States, o), o, clock))
      BY <3>1, MarkFailureType
    <3>3. owners' \in {States, MarkFailure(WithOwner(States, o), o, clock)}
      BY <2>1 DEF VerifyUnknown
    <3>4. OwnerTable(owners)'
      BY <3>2, <3>3 DEF OwnerTable, Dict
    <3>5. reply' \in Reply \cup {Silent}
      BY <2>1, RespondType DEF VerifyUnknown, Codes
    <3>6. QED
      BY <2>1, <3>4, <3>5 DEF VerifyUnknown, Dict
  <2>2. CASE VerifyForeign(o, id)
    BY <2>2, CountFailureType DEF VerifyForeign, Codes, Dict
  <2>3. CASE VerifyUsed(o, id)
    <3>1. reply' \in Reply \cup {Silent}
      BY <2>3, RespondType DEF VerifyUsed, Codes
    <3>2. QED
      BY <2>3, <3>1 DEF VerifyUsed, Dict, OwnerTable
  <2>4. CASE VerifyBlocked(o, id)
    <3>1. CASE NoRoom(States, o)
      BY <2>4, <3>1, RespondType, LimitsArePositive DEF VerifyBlocked, Codes
    <3>2. CASE ~NoRoom(States, o)
      <4>1. Suspended(States, o, clock)
        BY <2>4, <3>2 DEF VerifyBlocked, MayTry
      <4>2. States[o].suspended \in Nat
        BY <4>1 DEF Suspended, OwnerTable, Dict, OwnerState
      <4>3. SecondsUntil(States[o].suspended, clock) \in Nat
        BY <4>2 DEF SecondsUntil
      <4>4. QED
        BY <2>4, <3>2, <4>3, RespondType DEF VerifyBlocked, Codes
    <3>3. reply' \in Reply \cup {Silent}
      BY <2>4, <3>1, <3>2 DEF VerifyBlocked
    <3>4. QED
      BY <2>4, <3>3 DEF VerifyBlocked, Dict, OwnerTable
  <2>5. CASE VerifyMismatch(o, c, id)
    <3>1. id \in DOMAIN Records
      BY <2>5 DEF VerifyMismatch, Admitted, Holds
    <3>2. Dict(challenges, Id, ChallengeRecord)'
      BY <2>5, <3>1, CloseType DEF VerifyMismatch, Dict, Status
    <3>3. QED
      BY <2>5, <3>2, CountFailureType DEF VerifyMismatch, Codes, Dict
  <2>6. CASE VerifyExpired(o, c, id)
    <3>1. OwnerTable(WithOwner(States, o))
      BY WithOwnerType
    <3>2. reply' \in Reply \cup {Silent}
      BY <2>6, RespondType DEF VerifyExpired, Codes
    <3>3. QED
      BY <2>6, <3>1, <3>2 DEF VerifyExpired, Dict, OwnerTable
  <2>7. CASE VerifyFailed(o, c, id)
    BY <2>7, CountFailureType DEF VerifyFailed, Codes, Dict
  <2>8. CASE VerifyIncorrect(o, c, id)
    <3>1. id \in DOMAIN Records
      BY <2>8 DEF VerifyIncorrect, Admitted, Holds
    <3>2. Dict(challenges, Id, ChallengeRecord)'
      BY <2>8, <3>1, CloseType DEF VerifyIncorrect, Status
    <3>3. QED
      BY <2>8, <3>2, CountFailureType DEF VerifyIncorrect, Codes, Dict
  <2>9. CASE VerifyAccepted(o, c, id)
    <3>1. id \in DOMAIN Records
      BY <2>9 DEF VerifyAccepted, Admitted, Holds
    <3>2. Dict(challenges, Id, ChallengeRecord)'
      BY <2>9, <3>1, CloseType DEF VerifyAccepted, Status
    <3>3. OwnerTable(WithOwner(States, o))
      BY WithOwnerType
    <3>4. reply' \in Reply \cup {Silent}
      BY <2>9, RespondType DEF VerifyAccepted, Codes
    <3>5. Dict(accepted, Id, Grant)'
      BY <2>9, NotedType, DictPut DEF VerifyAccepted, Dict
    <3>6. QED
      BY <2>9, <3>2, <3>3, <3>4, <3>5 DEF VerifyAccepted, Dict, OwnerTable
  <2>10. QED
    BY <1>3, <2>1, <2>2, <2>3, <2>4, <2>5, <2>6, <2>7, <2>8, <2>9 DEF Verify
<1>4. CASE Tick
  BY <1>4 DEF Tick, Dict, OwnerTable
<1>5. CASE Restart
  <2>1. Dict(Empty, Id, ChallengeRecord) /\ OwnerTable(Empty)
    BY EmptyDict DEF OwnerTable
  <2>2. boot' \in Boots
    BY <1>5, BoundsAreNaturals DEF Restart, Boots
  <2>3. QED
    BY <1>5, <2>1, <2>2 DEF Restart, Dict, OwnerTable, Grant
<1>6. CASE UNCHANGED vars
  BY <1>6 DEF vars, Dict, OwnerTable
<1>7. QED
  BY <1>1, <1>2, <1>3, <1>4, <1>5, <1>6 DEF Next

LEMMA TypeInit == Init => TypeOK
BY EmptyDict, BoundsAreNaturals DEF Init, TypeOK, OwnerTable, Boots

\* The tables of the challenge manager always hold what they were made for:
\* records of owners and contexts, finite lists of stamps, and every refusal
\* carries a number of seconds to wait.
THEOREM TypeCorrect == Spec => []TypeOK
BY TypeInit, TypeStep, PTL DEF Spec

-------------------------------------------------------------------------------
(* Safety: cleanup keeps the invariant's parts, then every action does *)

LEMMA CleanedRecord ==
    ASSUME NEW id \in DOMAIN Records
    PROVE  /\ id \in DOMAIN challenges
           /\ Records[id] = Lapse(challenges[id], clock)
           /\ ~Forgotten(Records[id], clock)
BY RecordsAtShape DEF Records

\* What is pending after cleanup was pending before, and has not expired.
LEMMA CleanedPending ==
    ASSUME TypeOK, NEW id \in DOMAIN Records, Records[id].status = "pending"
    PROVE  challenges[id].status = "pending" /\ clock < Records[id].expires
<1>1. challenges[id] \in ChallengeRecord /\ clock \in Nat
  BY CleanedRecord DEF TypeOK, Dict
<1>2. QED
  BY <1>1, CleanedRecord, LapseCases

LEMMA CleanedIssued ==
    ASSUME IInv
    PROVE  IssuedByUs(Records)
<1>1. SUFFICES ASSUME NEW id \in DOMAIN Records
               PROVE  /\ id \in DOMAIN grants
                      /\ grants[id].owner = Records[id].owner
                      /\ grants[id].context = Records[id].context
                      /\ grants[id].at + EXPIRES = Records[id].expires
                      /\ grants[id].boot = boot
                      /\ Records[id].status = "pending" <=> Records[id].finished = None
  BY DEF IssuedByUs
<1>2. challenges[id] \in ChallengeRecord /\ clock \in Nat
  BY CleanedRecord DEF IInv, TypeOK, Dict
<1>3. Records[id].status = "pending" <=> Records[id].finished = None
  <2>1. challenges[id].expires # None
    BY <1>2 DEF ChallengeRecord, None
  <2>2. challenges[id].status = "pending" <=> challenges[id].finished = None
    BY CleanedRecord DEF IInv, Bookkeeping, IssuedByUs
  <2>3. QED
    BY <1>2, <2>1, <2>2, CleanedRecord, LapseCases
<1>4. QED
  BY <1>2, <1>3, CleanedRecord, LapseType DEF IInv, Bookkeeping, IssuedByUs

LEMMA CleanedUsed ==
    ASSUME IInv
    PROVE  UsedKept(Records)
<1>1. SUFFICES ASSUME NEW id \in DOMAIN accepted
               PROVE  /\ id \in DOMAIN Records =>
                            /\ Records[id].status = "used"
                            /\ Records[id].finished = accepted[id].at
                      /\ accepted[id].boot = boot /\ clock < accepted[id].at + RETENTION
                            => id \in DOMAIN Records
  BY DEF UsedKept
<1>2. id \in DOMAIN challenges =>
        /\ challenges[id].status = "used"
        /\ challenges[id].finished = accepted[id].at
        /\ Lapse(challenges[id], clock) = challenges[id]
  BY DEF IInv, Bookkeeping, UsedKept, Lapse
<1>3. ASSUME accepted[id].boot = boot, clock < accepted[id].at + RETENTION
      PROVE  id \in DOMAIN Records
  <2>1. id \in DOMAIN challenges
    BY <1>3 DEF IInv, Bookkeeping, UsedKept
  <2>2. accepted[id].at \in Nat /\ clock \in Nat
    BY DEF IInv, TypeOK, Dict, Grant
  <2>3. ~Forgotten(Lapse(challenges[id], clock), clock)
    BY <1>2, <1>3, <2>1, <2>2, LimitsArePositive DEF Forgotten
  <2>4. QED
    BY <2>1, <2>3, RecordsAtShape DEF Records
<1>4. QED
  BY <1>2, <1>3, CleanedRecord

LEMMA CleanedOwners ==
    ASSUME IInv
    PROVE  OwnersKept(Records, States)
<1>1. SUFFICES ASSUME NEW id \in Pending(Records)
               PROVE  Records[id].owner \in DOMAIN States
  BY DEF OwnersKept
<1>2. id \in DOMAIN Records /\ Records[id].status = "pending"
  BY DEF Pending
<1>3. id \in Pending(challenges)
  BY <1>2, CleanedRecord, CleanedPending DEF IInv, Pending
<1>4. challenges[id] \in ChallengeRecord /\ clock \in Nat
  BY <1>2, CleanedRecord DEF IInv, TypeOK, Dict
<1>5. Records[id].owner = challenges[id].owner
  BY <1>2, <1>4, CleanedRecord, LapseType
<1>6. Records[id].owner \in DOMAIN owners
  BY <1>3, <1>5 DEF IInv, Bookkeeping, OwnersKept
<1>7. QED
  BY <1>6, StatesAtShape DEF States, Records

LEMMA OwnersGrow ==
    ASSUME TypeOK, NEW code, NEW o \in Owner, CountFailure(code, o)
    PROVE  DOMAIN States \subseteq DOMAIN owners'
<1>1. OwnerTable(WithOwner(States, o)) /\ o \in DOMAIN WithOwner(States, o)
  BY OwnStatesType
<1>2. DOMAIN owners' = DOMAIN WithOwner(States, o)
  BY <1>1, MarkFailureType DEF CountFailure, TypeOK
<1>3. QED
  BY <1>2, OwnStatesType

\* An operation that leaves the cleaned records as they are.
LEMMA QuietStep ==
    ASSUME IInv, challenges' = Records, UNCHANGED <<clock, history>>,
           DOMAIN States \subseteq DOMAIN owners'
    PROVE  Bookkeeping'
<1>1. /\ IssuedByUs(Records) /\ UsedKept(Records)
      /\ OwnersKept(Records, States)
  BY CleanedIssued, CleanedUsed, CleanedOwners
<1>2. NotFromTheFuture' /\ AcceptedAsIssued'
  BY DEF IInv, Bookkeeping, NotFromTheFuture, AcceptedAsIssued, history
<1>3. IssuedByUs(challenges)'
  BY <1>1 DEF IssuedByUs, history
<1>4. UsedKept(challenges)'
  BY <1>1 DEF UsedKept, history
<1>5. OwnersKept(challenges, owners)'
  BY <1>1 DEF OwnersKept, Pending
<1>6. QED
  BY <1>2, <1>3, <1>4, <1>5 DEF Bookkeeping

\* An operation that closes a pending record as failed.
LEMMA FailStep ==
    ASSUME IInv, NEW id \in DOMAIN Records, Records[id].status = "pending",
           Close(id, "failed"), UNCHANGED <<clock, history>>,
           DOMAIN States \subseteq DOMAIN owners'
    PROVE  Bookkeeping'
<1>1. /\ IssuedByUs(Records) /\ UsedKept(Records)
      /\ OwnersKept(Records, States)
  BY CleanedIssued, CleanedUsed, CleanedOwners
<1>2. Dict(Records, Id, ChallengeRecord) /\ clock \in Nat
  BY CleanedType DEF IInv, TypeOK
<1>3. /\ DOMAIN challenges' = DOMAIN Records
      /\ \A i \in DOMAIN Records \ {id} : challenges'[i] = Records[i]
      /\ challenges'[id] = Finish(Records[id], "failed", clock)
  BY <1>2 DEF Close, Dict
<1>4. /\ Finish(Records[id], "failed", clock).owner = Records[id].owner
      /\ Finish(Records[id], "failed", clock).context = Records[id].context
      /\ Finish(Records[id], "failed", clock).expires = Records[id].expires
      /\ Finish(Records[id], "failed", clock).status = "failed"
      /\ Finish(Records[id], "failed", clock).finished = clock
  BY <1>2 DEF Dict, ChallengeRecord, Finish
<1>5. clock # None
  BY <1>2 DEF None
<1>6. NotFromTheFuture' /\ AcceptedAsIssued'
  BY DEF IInv, Bookkeeping, NotFromTheFuture, AcceptedAsIssued, history
<1>7. IssuedByUs(challenges)'
  BY <1>1, <1>3, <1>4, <1>5 DEF IssuedByUs, history
<1>8. id \notin DOMAIN accepted
  BY <1>1 DEF UsedKept
<1>9. UsedKept(challenges)'
  BY <1>1, <1>3, <1>8 DEF UsedKept, history
<1>10. OwnersKept(challenges, owners)'
  BY <1>1, <1>3, <1>4 DEF OwnersKept, Pending
<1>11. QED
  BY <1>6, <1>7, <1>9, <1>10 DEF Bookkeeping

LEMMA GrantStep ==
    ASSUME IInv, NEW o \in Owner, NEW c \in Context, NEW id \in Id,
           IssueGranted(o, c, id)
    PROVE  Bookkeeping'
<1>1. /\ IssuedByUs(Records) /\ UsedKept(Records)
      /\ OwnersKept(Records, States)
  BY CleanedIssued, CleanedUsed, CleanedOwners
<1>2. /\ clock \in Nat /\ boot \in Nat /\ EXPIRES \in Nat
  BY LimitsArePositive, BoundsAreNaturals DEF IInv, TypeOK, Boots
<1>3. /\ DOMAIN challenges' = DOMAIN Records \cup {id}
      /\ \A i \in DOMAIN Records \ {id} : challenges'[i] = Records[i]
      /\ challenges'[id] = NewRecord(o, c)
      /\ DOMAIN grants' = DOMAIN grants \cup {id}
      /\ \A i \in DOMAIN grants : grants'[i] = grants[i]
      /\ grants'[id] = Noted(o, c)
      /\ id \notin DOMAIN grants
      /\ UNCHANGED <<clock, boot, accepted>>
  BY DEF IssueGranted, Put
<1>4. id \notin DOMAIN Records /\ id \notin DOMAIN accepted
  BY <1>1, <1>3 DEF IssuedByUs, IInv, Bookkeeping, AcceptedAsIssued
<1>5. DOMAIN States \cup {o} \subseteq DOMAIN owners'
  <2>1. OwnerTable(WithOwner(States, o))
        /\ DOMAIN WithOwner(States, o) = DOMAIN States \cup {o}
    BY OwnStatesType DEF IInv
  <2>2. QED
    BY <2>1 DEF IssueGranted
<1>6. NotFromTheFuture'
  BY <1>2, <1>3 DEF IInv, Bookkeeping, NotFromTheFuture, Noted
<1>7. AcceptedAsIssued'
  BY <1>3, <1>4 DEF IInv, Bookkeeping, AcceptedAsIssued
<1>8. IssuedByUs(challenges)'
  BY <1>1, <1>3, <1>4 DEF IssuedByUs, NewRecord, Noted
<1>9. UsedKept(challenges)'
  BY <1>1, <1>3, <1>4 DEF UsedKept
<1>10. OwnersKept(challenges, owners)'
  BY <1>1, <1>3, <1>5 DEF OwnersKept, Pending, NewRecord
<1>11. QED
  BY <1>6, <1>7, <1>8, <1>9, <1>10 DEF Bookkeeping

LEMMA AcceptStep ==
    ASSUME IInv, NEW o \in Owner, NEW c \in Context, NEW id \in Id,
           VerifyAccepted(o, c, id)
    PROVE  Bookkeeping'
<1>1. /\ IssuedByUs(Records) /\ UsedKept(Records)
      /\ OwnersKept(Records, States)
  BY CleanedIssued, CleanedUsed, CleanedOwners
<1>2. /\ id \in DOMAIN Records /\ Records[id].status = "pending"
      /\ Records[id].owner = o /\ Records[id].context = c
      /\ Close(id, "used")
      /\ UNCHANGED <<clock, boot, grants>>
  BY DEF VerifyAccepted, Admitted, Holds
<1>3. Dict(Records, Id, ChallengeRecord) /\ clock \in Nat
  BY CleanedType DEF IInv, TypeOK
<1>4. /\ DOMAIN challenges' = DOMAIN Records
      /\ \A i \in DOMAIN Records \ {id} : challenges'[i] = Records[i]
      /\ challenges'[id] = Finish(Records[id], "used", clock)
  BY <1>2, <1>3 DEF Close, Dict
<1>5. /\ Finish(Records[id], "used", clock).owner = Records[id].owner
      /\ Finish(Records[id], "used", clock).context = Records[id].context
      /\ Finish(Records[id], "used", clock).expires = Records[id].expires
      /\ Finish(Records[id], "used", clock).status = "used"
      /\ Finish(Records[id], "used", clock).finished = clock
  BY <1>2, <1>3 DEF Dict, ChallengeRecord, Finish
<1>6. /\ DOMAIN accepted' = DOMAIN accepted \cup {id}
      /\ \A i \in DOMAIN accepted \ {id} : accepted'[i] = accepted[i]
      /\ accepted'[id] = Noted(o, c)
  BY DEF VerifyAccepted, Put
<1>7. clock # None
  BY <1>3 DEF None
<1>8. NotFromTheFuture'
  BY <1>2 DEF IInv, Bookkeeping, NotFromTheFuture
<1>9. /\ id \in DOMAIN grants
      /\ grants[id] \in Grant
      /\ grants[id].owner = o /\ grants[id].context = c /\ grants[id].boot = boot
      /\ grants[id].at <= clock
      /\ clock < grants[id].at + EXPIRES
  BY <1>1, <1>2, CleanedPending DEF IssuedByUs, IInv, TypeOK, Dict, Bookkeeping, NotFromTheFuture
<1>10. AcceptedAsIssued'
  <2>1. accepted'[id] = [grants[id] EXCEPT !.at = accepted'[id].at]
    BY <1>6, <1>9 DEF Noted, Grant
  <2>2. accepted'[id].at - grants[id].at \in 0 .. EXPIRES - 1
    BY <1>3, <1>6, <1>9, LimitsArePositive DEF Noted, Grant
  <2>3. QED
    BY <1>2, <1>6, <1>9, <2>1, <2>2 DEF IInv, Bookkeeping, AcceptedAsIssued
<1>11. IssuedByUs(challenges)'
  BY <1>1, <1>2, <1>4, <1>5, <1>7 DEF IssuedByUs
<1>12. UsedKept(challenges)'
  BY <1>1, <1>2, <1>4, <1>5, <1>6 DEF UsedKept, Noted
<1>13. OwnersKept(challenges, owners)'
  <2>1. DOMAIN States \subseteq DOMAIN owners'
    BY OwnStatesType DEF IInv, VerifyAccepted
  <2>2. QED
    BY <1>1, <1>2, <1>4, <1>5, <2>1 DEF OwnersKept, Pending
<1>14. QED
  BY <1>8, <1>10, <1>11, <1>12, <1>13 DEF Bookkeeping

-------------------------------------------------------------------------------
(* The inductive invariant and what follows from it *)

LEMMA InvInit == Init => IInv
<1>1. Init => Bookkeeping
  BY DEF Init, Bookkeeping, NotFromTheFuture, AcceptedAsIssued, IssuedByUs,
         UsedKept, OwnersKept, Pending, Empty
<1>2. QED
  BY <1>1, TypeInit DEF IInv

LEMMA InvStep == IInv /\ [Next]_vars => IInv'
<1> SUFFICES ASSUME IInv, [Next]_vars
             PROVE  Bookkeeping'
  BY TypeStep DEF IInv
<1>0. TypeOK
  BY DEF IInv
<1>1. ASSUME NEW o \in Owner, IssueRefused(o)
      PROVE  Bookkeeping'
  <2>1. DOMAIN States \subseteq DOMAIN owners'
    BY <1>0, <1>1, OwnStatesType DEF IssueRefused
  <2>2. QED
    BY <1>1, <2>1, QuietStep DEF IssueRefused
<1>2. ASSUME NEW o \in Owner, NEW c \in Context, NEW id \in Id,
             IssueGranted(o, c, id)
      PROVE  Bookkeeping'
  BY <1>2, GrantStep
<1>3. ASSUME NEW o \in Owner, NEW c \in Context, NEW id \in Id, Verify(o, c, id)
      PROVE  Bookkeeping'
  <2>1. CASE VerifyUnknown(o, id)
    <3>1. DOMAIN MarkFailure(WithOwner(States, o), o, clock) =
            DOMAIN WithOwner(States, o)
      BY <1>0, OwnStatesType, MarkFailureType DEF TypeOK
    <3>2. DOMAIN States \subseteq DOMAIN owners'
      BY <1>0, <2>1, <3>1, OwnStatesType DEF VerifyUnknown
    <3>3. QED
      BY <2>1, <3>2, QuietStep DEF VerifyUnknown
  <2>2. CASE VerifyForeign(o, id)
    BY <1>0, <2>2, OwnersGrow, QuietStep DEF VerifyForeign
  <2>3. CASE VerifyUsed(o, id)
    BY <2>3, QuietStep DEF VerifyUsed
  <2>4. CASE VerifyBlocked(o, id)
    BY <2>4, QuietStep DEF VerifyBlocked
  <2>5. CASE VerifyMismatch(o, c, id)
    <3>1. id \in DOMAIN Records /\ DOMAIN States \subseteq DOMAIN owners'
      BY <1>0, <2>5, OwnersGrow DEF VerifyMismatch, Admitted, Holds
    <3>2. QED
      BY <2>5, <3>1, FailStep, QuietStep DEF VerifyMismatch
  <2>6. CASE VerifyExpired(o, c, id)
    BY <1>0, <2>6, OwnStatesType, QuietStep DEF VerifyExpired
  <2>7. CASE VerifyFailed(o, c, id)
    BY <1>0, <2>7, OwnersGrow, QuietStep DEF VerifyFailed
  <2>8. CASE VerifyIncorrect(o, c, id)
    <3>1. id \in DOMAIN Records /\ DOMAIN States \subseteq DOMAIN owners'
      BY <1>0, <2>8, OwnersGrow DEF VerifyIncorrect, Admitted, Holds
    <3>2. QED
      BY <2>8, <3>1, FailStep DEF VerifyIncorrect
  <2>9. CASE VerifyAccepted(o, c, id)
    BY <2>9, AcceptStep
  <2>10. QED
    BY <1>3, <2>1, <2>2, <2>3, <2>4, <2>5, <2>6, <2>7, <2>8, <2>9 DEF Verify
<1>4. CASE Tick
  <2>1. /\ clock \in Nat /\ clock' = clock + 1
        /\ UNCHANGED <<challenges, owners, boot, grants, accepted>>
    BY <1>0, <1>4 DEF Tick, history, TypeOK
  <2>2. NotFromTheFuture'
    BY <1>0, <2>1 DEF IInv, Bookkeeping, NotFromTheFuture, TypeOK, Dict, Grant
  <2>3. UsedKept(challenges)'
    BY <1>0, <2>1, LimitsArePositive DEF IInv, Bookkeeping, UsedKept, TypeOK, Dict, Grant
  <2>4. AcceptedAsIssued'
    BY <2>1 DEF IInv, Bookkeeping, AcceptedAsIssued
  <2>5. IssuedByUs(challenges)' /\ OwnersKept(challenges, owners)'
    BY <2>1 DEF IInv, Bookkeeping, IssuedByUs, OwnersKept, Pending
  <2>6. QED
    BY <2>2, <2>3, <2>4, <2>5 DEF Bookkeeping
<1>5. CASE Restart
  <2>1. /\ challenges' = Empty /\ owners' = Empty /\ boot' = boot + 1
        /\ UNCHANGED <<clock, grants, accepted>>
    BY <1>5 DEF Restart
  <2>2. boot \in Nat /\ \A id \in DOMAIN grants : grants[id].boot \in Nat
    BY <1>0, BoundsAreNaturals DEF TypeOK, Dict, Grant, Boots
  <2>3. NotFromTheFuture'
    BY <2>1, <2>2 DEF IInv, Bookkeeping, NotFromTheFuture
  <2>4. AcceptedAsIssued'
    BY <2>1 DEF IInv, Bookkeeping, AcceptedAsIssued
  <2>5. IssuedByUs(challenges)' /\ OwnersKept(challenges, owners)'
    BY <2>1, EmptyDict DEF IssuedByUs, OwnersKept, Pending
  <2>6. \A id \in DOMAIN accepted : accepted[id].boot # boot'
    <3>1. TAKE id \in DOMAIN accepted
    <3>2. id \in DOMAIN grants /\ accepted[id].boot = grants[id].boot
      BY <1>0 DEF IInv, Bookkeeping, AcceptedAsIssued, TypeOK, Dict, Grant
    <3>3. grants[id].boot <= boot
      BY <3>2 DEF IInv, Bookkeeping, NotFromTheFuture
    <3>4. QED
      BY <2>1, <2>2, <3>2, <3>3
  <2>7. UsedKept(challenges)'
    BY <2>1, <2>6, EmptyDict DEF UsedKept
  <2>8. QED
    BY <2>3, <2>4, <2>5, <2>7 DEF Bookkeeping
<1>6. CASE UNCHANGED vars
  BY <1>6 DEF vars, IInv, Bookkeeping, NotFromTheFuture, AcceptedAsIssued,
              IssuedByUs, UsedKept, OwnersKept, Pending
<1>7. QED
  BY <1>1, <1>2, <1>3, <1>4, <1>5, <1>6 DEF Next

\* The strengthened invariant, with what the history says of the two tables,
\* holds in every reachable state.
THEOREM Invariance == Spec => []IInv
BY InvInit, InvStep, PTL DEF Spec

LEMMA InvImpliesSingleUse == IInv => SingleUse
<1> SUFFICES ASSUME IInv, NEW id \in DOMAIN accepted
             PROVE  /\ id \notin Pending(challenges)
                    /\ accepted[id].boot = boot
                         /\ clock < accepted[id].at + RETENTION
                         => id \in DOMAIN Records /\ Records[id].status = "used"
  BY DEF SingleUse
<1>1. id \notin Pending(challenges)
  BY DEF IInv, Bookkeeping, UsedKept, Pending
<1>2. QED
  BY <1>1, CleanedUsed DEF UsedKept

\* Whatever the limits, the clock and the callers do, a challenge that let one
\* write through never lets another through, and keeps saying so for its
\* whole retention.
THEOREM ChallengesAreSingleUse == Spec => []SingleUse
BY Invariance, InvImpliesSingleUse, PTL

\* A challenge is only ever accepted for the owner, action and payload it was
\* issued for, before it expired, by the process that issued it.
THEOREM AcceptedOnlyAsIssued == Spec => []AcceptedAsIssued
<1>1. IInv => AcceptedAsIssued
  BY DEF IInv, Bookkeeping
<1>2. QED
  BY <1>1, Invariance, PTL

\* The owner of a pending challenge always has its entry, so a full owner
\* table cannot get between a challenge and its completion.
THEOREM CapacityNeverBlocksCompletion == Spec => []CompletionUnblocked
<1>1. IInv => CompletionUnblocked
  BY CleanedOwners DEF OwnersKept, CompletionUnblocked
<1>2. QED
  BY <1>1, Invariance, PTL

-------------------------------------------------------------------------------
(* The limits of the tables                                                 *)

\* cs is ds with some records closed or deleted.
Within(cs, ds) ==
    /\ DOMAIN cs \subseteq DOMAIN ds
    /\ \A id \in DOMAIN cs :
         /\ cs[id].owner = ds[id].owner
         /\ cs[id].status = "pending" => ds[id].status = "pending"

RecordsBounded(cs) ==
    /\ IsFiniteSet(DOMAIN cs) /\ Cardinality(DOMAIN cs) <= MAX_RECORDS
    /\ Cardinality(Pending(cs)) <= MAX_TOTAL_PENDING
    /\ \A o \in Owner : Cardinality(PendingOf(cs, o)) <= MAX_PENDING

OwnersBounded(os) == IsFiniteSet(DOMAIN os) /\ Cardinality(DOMAIN os) <= MAX_RECORDS

LEMMA WithinBounded ==
    ASSUME NEW cs, NEW ds, Within(cs, ds), RecordsBounded(ds)
    PROVE  RecordsBounded(cs)
<1>1. ASSUME NEW S, NEW T, S \subseteq T, IsFiniteSet(T), NEW n \in Nat, Cardinality(T) <= n
      PROVE  IsFiniteSet(S) /\ Cardinality(S) <= n
  BY <1>1, FS_Subset, FS_CardinalityType
<1>2. /\ DOMAIN cs \subseteq DOMAIN ds /\ Pending(cs) \subseteq Pending(ds)
      /\ \A o \in Owner : PendingOf(cs, o) \subseteq PendingOf(ds, o)
  BY DEF Within, Pending, PendingOf
<1>3. IsFiniteSet(Pending(ds)) /\ \A o \in Owner : IsFiniteSet(PendingOf(ds, o))
  <2>1. Pending(ds) \subseteq DOMAIN ds /\ \A o \in Owner : PendingOf(ds, o) \subseteq DOMAIN ds
    BY DEF Pending, PendingOf
  <2>2. QED
    BY <2>1, FS_Subset DEF RecordsBounded
<1>4. QED
  BY <1>1, <1>2, <1>3, LimitsArePositive DEF RecordsBounded

LEMMA RecordsWithin == ASSUME TypeOK PROVE Within(Records, challenges)
<1>1. SUFFICES ASSUME NEW id \in DOMAIN Records
               PROVE  /\ id \in DOMAIN challenges
                      /\ Records[id].owner = challenges[id].owner
                      /\ Records[id].status = "pending" => challenges[id].status = "pending"
  BY DEF Within
<1>2. challenges[id] \in ChallengeRecord /\ clock \in Nat
  BY CleanedRecord DEF TypeOK, Dict
<1>3. QED
  BY <1>2, CleanedRecord, CleanedPending, LapseType

LEMMA CloseWithin ==
    ASSUME TypeOK, NEW id, NEW status \in Status \ {"pending"}, Close(id, status)
    PROVE  Within(challenges', Records)
<1>1. \A i \in DOMAIN Records : Records[i] \in ChallengeRecord
  BY CleanedType DEF Dict
<1>2. QED
  BY <1>1 DEF Close, Finish, ChallengeRecord, Within

\* One more, where there was room for it.
LEMMA OneMore ==
    ASSUME NEW S, IsFiniteSet(S), NEW x, NEW n \in Nat, Cardinality(S) < n,
           NEW T, T \subseteq S \cup {x}
    PROVE  IsFiniteSet(T) /\ Cardinality(T) <= n
<1>1. /\ IsFiniteSet(S \cup {x}) /\ Cardinality(S) \in Nat
      /\ Cardinality(S \cup {x}) \in {Cardinality(S), Cardinality(S) + 1}
  BY FS_AddElement, FS_CardinalityType
<1>2. IsFiniteSet(T) /\ Cardinality(T) <= Cardinality(S \cup {x}) /\ Cardinality(T) \in Nat
  BY <1>1, FS_Subset, FS_CardinalityType
<1>3. QED
  BY <1>1, <1>2

\* What issue_challenge checked before it grants.
LEMMA GrantedRoom ==
    ASSUME NEW o, IssueOutcome(o, clock) = "issued"
    PROVE  /\ ~NoRoom(States, o) /\ ~Suspended(States, o, clock)
           /\ ~(Cardinality(DOMAIN Records) >= MAX_RECORDS)
           /\ ~(Cardinality(Pending(Records)) >= MAX_TOTAL_PENDING)
           /\ ~(Cardinality(PendingOf(Records, o)) >= MAX_PENDING)
BY DEF IssueOutcome, Records, States

LEMMA GrantBounded ==
    ASSUME TypeOK, RecordsBounded(challenges),
           NEW o \in Owner, NEW c \in Context, NEW id \in Id, IssueGranted(o, c, id)
    PROVE  RecordsBounded(challenges')
<1> DEFINE cs == Put(Records, id, NewRecord(o, c))
<1>1. RecordsBounded(Records)
  BY RecordsWithin, WithinBounded
<1>2. /\ ~(Cardinality(DOMAIN Records) >= MAX_RECORDS)
      /\ ~(Cardinality(Pending(Records)) >= MAX_TOTAL_PENDING)
      /\ ~(Cardinality(PendingOf(Records, o)) >= MAX_PENDING)
  BY GrantedRoom DEF IssueGranted
<1>3. /\ IsFiniteSet(DOMAIN Records) /\ IsFiniteSet(Pending(Records))
      /\ \A p \in Owner : IsFiniteSet(PendingOf(Records, p))
  <2>1. /\ Pending(Records) \subseteq DOMAIN Records
        /\ \A p \in Owner : PendingOf(Records, p) \subseteq DOMAIN Records
    BY DEF Pending, PendingOf
  <2>2. QED
    BY <1>1, <2>1, FS_Subset DEF RecordsBounded
<1>4. /\ Cardinality(DOMAIN Records) < MAX_RECORDS
      /\ Cardinality(Pending(Records)) < MAX_TOTAL_PENDING
      /\ Cardinality(PendingOf(Records, o)) < MAX_PENDING
      /\ MAX_RECORDS \in Nat /\ MAX_TOTAL_PENDING \in Nat /\ MAX_PENDING \in Nat
  BY <1>2, <1>3, FS_CardinalityType, LimitsArePositive
<1>5. /\ DOMAIN cs \subseteq DOMAIN Records \cup {id}
      /\ Pending(cs) \subseteq Pending(Records) \cup {id}
      /\ PendingOf(cs, o) \subseteq PendingOf(Records, o) \cup {id}
      /\ \A p \in Owner \ {o} : PendingOf(cs, p) \subseteq PendingOf(Records, p)
  BY DEF Put, Pending, PendingOf, NewRecord
<1> HIDE DEF cs
<1>6. IsFiniteSet(DOMAIN cs) /\ Cardinality(DOMAIN cs) <= MAX_RECORDS
  BY <1>3, <1>4, <1>5, OneMore
<1>7. Cardinality(Pending(cs)) <= MAX_TOTAL_PENDING
  BY <1>3, <1>4, <1>5, OneMore
<1>8. Cardinality(PendingOf(cs, o)) <= MAX_PENDING
  BY <1>3, <1>4, <1>5, OneMore
<1>9. ASSUME NEW p \in Owner \ {o} PROVE Cardinality(PendingOf(cs, p)) <= MAX_PENDING
  <2>1. /\ Cardinality(PendingOf(cs, p)) <= Cardinality(PendingOf(Records, p))
        /\ Cardinality(PendingOf(Records, p)) \in Nat
        /\ Cardinality(PendingOf(cs, p)) \in Nat
    BY <1>3, <1>5, FS_Subset, FS_CardinalityType
  <2>2. QED
    BY <1>1, <1>4, <2>1 DEF RecordsBounded
<1>10. challenges' = cs
  BY DEF IssueGranted, cs
<1>11. QED
  BY <1>6, <1>7, <1>8, <1>9, <1>10 DEF RecordsBounded

\* An operation of o leaves the cleaned owners, or those and o when it may.
LEMMA OwnersStayBounded ==
    ASSUME TypeOK, OwnersBounded(owners), NEW o,
           \/ owners' = States
           \/ ~NoRoom(States, o) /\ DOMAIN owners' = DOMAIN States \cup {o}
    PROVE  OwnersBounded(owners')
<1>1. /\ IsFiniteSet(DOMAIN States) /\ Cardinality(DOMAIN States) <= MAX_RECORDS
      /\ Cardinality(DOMAIN States) \in Nat /\ MAX_RECORDS \in Nat
  <2>1. DOMAIN States \subseteq DOMAIN owners
    BY StatesAtShape DEF States
  <2>2. /\ IsFiniteSet(DOMAIN States) /\ Cardinality(DOMAIN States) <= Cardinality(DOMAIN owners)
        /\ Cardinality(DOMAIN owners) \in Nat /\ Cardinality(DOMAIN States) \in Nat
    BY <2>1, FS_Subset, FS_CardinalityType DEF OwnersBounded
  <2>3. QED
    BY <2>2, LimitsArePositive DEF OwnersBounded
<1>2. CASE owners' = States
  BY <1>1, <1>2 DEF OwnersBounded
<1>3. CASE ~NoRoom(States, o) /\ DOMAIN owners' = DOMAIN States \cup {o}
  <2>1. CASE o \in DOMAIN States
    <3>1. DOMAIN owners' = DOMAIN States
      BY <1>3, <2>1
    <3>2. QED
      BY <1>1, <3>1 DEF OwnersBounded
  <2>2. CASE o \notin DOMAIN States
    <3>1. Cardinality(DOMAIN States) < MAX_RECORDS
      BY <1>1, <1>3, <2>2 DEF NoRoom
    <3>2. QED
      BY <1>1, <1>3, <3>1, OneMore DEF OwnersBounded
  <2>3. QED
    BY <2>1, <2>2
<1>4. QED
  BY <1>2, <1>3

\* What every way out of verify_challenge has in common.
LEMMA VerifyShape ==
    ASSUME TypeOK, NEW o \in Owner, NEW c \in Context, NEW id \in Id, Verify(o, c, id)
    PROVE  /\ challenges' = Records
                \/ \E status \in Status \ {"pending"} : Close(id, status)
           /\ \/ owners' = States
              \/ /\ MayTry(o)
                 /\ owners' \in {WithOwner(States, o),
                                 MarkFailure(WithOwner(States, o), o, clock)}
           /\ \/ accepted' = accepted
              \/ MayTry(o) /\ accepted' = Put(accepted, id, Noted(o, c))
           /\ UNCHANGED <<clock, boot, grants>>
<1> USE DEF history, Status
<1>1. CASE VerifyUnknown(o, id)
  BY <1>1 DEF VerifyUnknown
<1>2. CASE VerifyForeign(o, id)
  BY <1>2 DEF VerifyForeign, CountFailure
<1>3. CASE VerifyUsed(o, id)
  BY <1>3 DEF VerifyUsed
<1>4. CASE VerifyBlocked(o, id)
  BY <1>4 DEF VerifyBlocked
<1>5. CASE VerifyMismatch(o, c, id)
  BY <1>5 DEF VerifyMismatch, Admitted, CountFailure
<1>6. CASE VerifyExpired(o, c, id)
  BY <1>6 DEF VerifyExpired, Admitted
<1>7. CASE VerifyFailed(o, c, id)
  BY <1>7 DEF VerifyFailed, Admitted, CountFailure
<1>8. CASE VerifyIncorrect(o, c, id)
  BY <1>8 DEF VerifyIncorrect, Admitted, CountFailure
<1>9. CASE VerifyAccepted(o, c, id)
  BY <1>9 DEF VerifyAccepted, Admitted
<1>10. QED
  BY <1>1, <1>2, <1>3, <1>4, <1>5, <1>6, <1>7, <1>8, <1>9 DEF Verify

LEMMA IssueOwners ==
    ASSUME NEW o \in Owner, IssueRefused(o)
    PROVE  \/ owners' = States
           \/ ~NoRoom(States, o) /\ owners' = WithOwner(States, o)
BY DEF IssueRefused, IssueOutcome, States

LEMMA EmptyBounded == RecordsBounded(Empty) /\ OwnersBounded(Empty)
<1>1. IsFiniteSet({}) /\ Cardinality({}) = 0
  BY FS_EmptySet
<1>2. DOMAIN Empty = {}
  BY DEF Empty
<1>3. Pending(Empty) = {}
  BY <1>2 DEF Pending
<1>4. \A o \in Owner : PendingOf(Empty, o) = {}
  BY <1>3 DEF PendingOf
<1>5. 0 <= MAX_RECORDS /\ 0 <= MAX_TOTAL_PENDING /\ 0 <= MAX_PENDING
  BY LimitsArePositive
<1>6. QED
  BY <1>1, <1>2, <1>3, <1>4, <1>5 DEF RecordsBounded, OwnersBounded

BoundsHold == RecordsBounded(challenges) /\ OwnersBounded(owners)

LEMMA BoundedStep == TypeOK /\ BoundsHold /\ [Next]_vars => BoundsHold'
<1> SUFFICES ASSUME TypeOK, RecordsBounded(challenges), OwnersBounded(owners), [Next]_vars
             PROVE  RecordsBounded(challenges') /\ OwnersBounded(owners')
  BY DEF BoundsHold, RecordsBounded, OwnersBounded, Pending, PendingOf
<1>0. RecordsBounded(Records) /\ clock \in Nat
  BY RecordsWithin, WithinBounded DEF TypeOK
<1>1. ASSUME NEW o \in Owner, IssueRefused(o)
      PROVE  RecordsBounded(challenges') /\ OwnersBounded(owners')
  <2>1. challenges' = Records
    BY <1>1 DEF IssueRefused
  <2>2. OwnersBounded(owners')
    BY <1>1, IssueOwners, OwnStatesType, OwnersStayBounded
  <2>3. QED
    BY <1>0, <2>1, <2>2
<1>2. ASSUME NEW o \in Owner, NEW c \in Context, NEW id \in Id, IssueGranted(o, c, id)
      PROVE  RecordsBounded(challenges') /\ OwnersBounded(owners')
  <2>1. ~NoRoom(States, o)
    BY <1>2, GrantedRoom DEF IssueGranted
  <2>2. DOMAIN owners' = DOMAIN States \cup {o}
    BY <1>2, OwnStatesType DEF IssueGranted
  <2>3. QED
    BY <1>2, <2>1, <2>2, GrantBounded, OwnersStayBounded
<1>3. ASSUME NEW o \in Owner, NEW c \in Context, NEW id \in Id, Verify(o, c, id)
      PROVE  RecordsBounded(challenges') /\ OwnersBounded(owners')
  <2>1. RecordsBounded(challenges')
    BY <1>0, <1>3, VerifyShape, CloseWithin, WithinBounded
  <2>2. /\ DOMAIN WithOwner(States, o) = DOMAIN States \cup {o}
        /\ DOMAIN MarkFailure(WithOwner(States, o), o, clock) = DOMAIN States \cup {o}
    BY <1>0, OwnStatesType, MarkFailureType
  <2>3. \/ owners' = States
        \/ ~NoRoom(States, o) /\ DOMAIN owners' = DOMAIN States \cup {o}
    BY <1>3, <2>2, VerifyShape DEF MayTry
  <2>4. QED
    BY <2>1, <2>3, OwnersStayBounded
<1>4. CASE Tick
  BY <1>4 DEF Tick
<1>5. CASE Restart
  BY <1>5, EmptyBounded DEF Restart
<1>6. CASE UNCHANGED vars
  BY <1>6 DEF vars
<1>7. QED
  BY <1>1, <1>2, <1>3, <1>4, <1>5, <1>6 DEF Next

LEMMA BoundedInit == Init => BoundsHold
BY EmptyBounded DEF Init, BoundsHold

\* However calls, lapses and restarts interleave, neither table outgrows its
\* cap, and no more challenges are pending than the limits allow.
THEOREM TablesStayBounded == Spec => []TablesBounded
<1>1. BoundsHold => TablesBounded
  BY DEF BoundsHold, RecordsBounded, OwnersBounded, TablesBounded
<1>2. QED
  BY <1>1, TypeInit, TypeStep, BoundedInit, BoundedStep, PTL DEF Spec

-------------------------------------------------------------------------------
(* Suspensions *)

\* Cleanup keeps a suspension that is still running.
LEMMA SuspendedKept ==
    ASSUME TypeOK, NEW o, Suspended(owners, o, clock)
    PROVE  /\ o \in DOMAIN States
           /\ States[o].suspended = owners[o].suspended
           /\ Suspended(States, o, clock)
<1>1. /\ o \in DOMAIN owners /\ owners[o].suspended # None
      /\ owners[o].suspended > clock
  BY DEF Suspended
<1>2. owners[o].suspended \in Nat /\ clock \in Nat
  BY <1>1 DEF TypeOK, OwnerTable, Dict, OwnerState
<1>3. Prune(owners[o], clock).suspended = owners[o].suspended
  BY <1>1, <1>2 DEF Prune
<1>4. ~Idle(Prune(owners[o], clock))
  BY <1>1, <1>3 DEF Idle
<1>5. o \in DOMAIN States /\ States[o] = Prune(owners[o], clock)
  BY <1>1, <1>4, StatesAtShape DEF States
<1>6. QED
  BY <1>1, <1>3, <1>5 DEF Suspended

\* Counting a failure of p leaves every other owner alone.
LEMMA OtherUnmarked ==
    ASSUME TypeOK, NEW p \in Owner, NEW o \in DOMAIN States, o # p
    PROVE  /\ o \in DOMAIN MarkFailure(WithOwner(States, p), p, clock)
           /\ MarkFailure(WithOwner(States, p), p, clock)[o] = States[o]
<1>1. /\ OwnerTable(WithOwner(States, p)) /\ o \in DOMAIN WithOwner(States, p)
      /\ WithOwner(States, p)[o] = States[o]
  BY OwnStatesType, CleanedType, WithOwnerType
<1>2. QED
  BY <1>1 DEF MarkFailure

\* While o is suspended no operation changes that, nor gives o anything.
Serves(o) ==
    /\ o \in DOMAIN owners'
    /\ owners'[o].suspended = owners[o].suspended
    /\ \A id \in DOMAIN grants' \ DOMAIN grants : grants'[id].owner # o
    /\ \A id \in DOMAIN accepted' \ DOMAIN accepted : accepted'[id].owner # o

LEMMA ServedStep ==
    ASSUME TypeOK, [Next]_vars, NEW o \in Owner,
           Suspended(owners, o, clock'), boot' = boot
    PROVE  Serves(o)
<1>0. clock \in Nat /\ boot \in Nat
  BY BoundsAreNaturals DEF TypeOK, Boots
<1>1. ASSUME clock' = clock
      PROVE  /\ o \in DOMAIN States
             /\ States[o].suspended = owners[o].suspended
             /\ Suspended(States, o, clock)
             /\ ~MayTry(o)
             /\ \A p \in Owner : /\ o \in DOMAIN WithOwner(States, p)
                                 /\ WithOwner(States, p)[o] = States[o]
  BY <1>1, SuspendedKept DEF MayTry, WithOwner
<1>2. ASSUME NEW p \in Owner, IssueRefused(p)
      PROVE  Serves(o)
  <2>1. UNCHANGED <<clock, grants, accepted>>
    BY <1>2 DEF IssueRefused, history
  <2>2. QED
    BY <1>1, <1>2, <2>1, IssueOwners DEF Serves
<1>3. ASSUME NEW p \in Owner, NEW c \in Context, NEW id \in Id, IssueGranted(p, c, id)
      PROVE  Serves(o)
  <2>1. /\ UNCHANGED <<clock, accepted>>
        /\ grants' = Put(grants, id, Noted(p, c))
        /\ IssueOutcome(p, clock) = "issued"
        /\ owners' = [WithOwner(States, p) EXCEPT ![p].issued = WithStamp(@, clock)]
    BY <1>3 DEF IssueGranted
  <2>2. p # o
    BY <1>1, <2>1, GrantedRoom
  <2>3. o \in DOMAIN owners' /\ owners'[o] = States[o]
    BY <1>1, <2>1, <2>2
  <2>4. \A i \in DOMAIN grants' \ DOMAIN grants : grants'[i].owner = p
    BY <2>1 DEF Put, Noted
  <2>5. QED
    BY <1>1, <2>1, <2>2, <2>3, <2>4 DEF Serves
<1>4. ASSUME NEW p \in Owner, NEW c \in Context, NEW id \in Id, Verify(p, c, id)
      PROVE  Serves(o)
  <2>1. UNCHANGED <<clock, grants>>
    BY <1>4, VerifyShape
  <2>2. p = o => owners' = States /\ accepted' = accepted
    BY <1>1, <1>4, <2>1, VerifyShape
  <2>3. o \in DOMAIN owners' /\ owners'[o] = States[o]
    BY <1>1, <1>4, <2>1, <2>2, VerifyShape, OtherUnmarked
  <2>4. \A i \in DOMAIN accepted' \ DOMAIN accepted : accepted'[i].owner # o
    <3>1. \/ accepted' = accepted
          \/ p # o /\ accepted' = Put(accepted, id, Noted(p, c))
      BY <1>4, <2>2, VerifyShape
    <3>2. QED
      BY <3>1 DEF Put, Noted
  <2>5. QED
    BY <1>1, <2>1, <2>3, <2>4 DEF Serves
<1>5. CASE Tick
  BY <1>5 DEF Tick, history, Serves, Suspended
<1>6. CASE Restart
  BY <1>0, <1>6 DEF Restart
<1>7. CASE UNCHANGED vars
  BY <1>7 DEF vars, Serves, Suspended
<1>8. QED
  BY <1>2, <1>3, <1>4, <1>5, <1>6, <1>7 DEF Next

\* Nothing the owner or anybody else does shortens, lengthens or gets round a
\* suspension before it is over; only a restart of the process forgets it.
THEOREM SuspensionIsServed == Spec => SuspensionServed
<1>1. TypeOK /\ [Next]_vars =>
        [\A o \in Owner :
           Suspended(owners, o, clock') /\ boot' = boot =>
             /\ o \in DOMAIN owners'
             /\ owners'[o].suspended = owners[o].suspended
             /\ \A id \in DOMAIN grants' \ DOMAIN grants : grants'[id].owner # o
             /\ \A id \in DOMAIN accepted' \ DOMAIN accepted :
                  accepted'[id].owner # o]_vars
  BY ServedStep DEF Serves
<1>2. QED
  BY <1>1, TypeInit, TypeStep, PTL DEF Spec, SuspensionServed

-------------------------------------------------------------------------------
(* One agent's calls and another's challenges *)

\* What cleanup alone does to the challenges and the standing of o.
RecordsSpared(o) ==
    \A id \in DOMAIN challenges :
        challenges[id].owner = o =>
          \/ id \in DOMAIN Records /\ id \in DOMAIN challenges'
               /\ challenges'[id] = Records[id]
          \/ id \notin DOMAIN Records /\ id \notin DOMAIN challenges'

StandingSpared(o) ==
    /\ o \in DOMAIN States <=> o \in DOMAIN owners'
    /\ o \in DOMAIN States => owners'[o] = States[o]

LEMMA QuietSpares ==
    ASSUME challenges' = Records, NEW o
    PROVE  RecordsSpared(o)
BY DEF RecordsSpared

LEMMA CloseSpares ==
    ASSUME TypeOK, NEW p, NEW o, o # p, NEW id, Holds(p, id), NEW status, Close(id, status)
    PROVE  RecordsSpared(o)
<1>1. challenges[id].owner = p
  BY RecordsWithin DEF Within, Holds
<1>2. QED
  BY <1>1 DEF Close, RecordsSpared

LEMMA GrantSpares ==
    ASSUME IInv, NEW p \in Owner, NEW o, NEW c, NEW id, IssueGranted(p, c, id)
    PROVE  RecordsSpared(o)
<1>1. challenges' = Put(Records, id, NewRecord(p, c)) /\ id \notin DOMAIN challenges
  BY DEF IssueGranted, IInv, Bookkeeping, IssuedByUs
<1>2. QED
  BY <1>1 DEF Put, RecordsSpared

\* Every table of owners that an operation of p can leave.
LEMMA StandingIsSpared ==
    ASSUME TypeOK, NEW p \in Owner, NEW o \in Owner, o # p,
           \/ owners' \in {States, WithOwner(States, p),
                           MarkFailure(WithOwner(States, p), p, clock)}
           \/ \E s : owners' = [WithOwner(States, p) EXCEPT ![p] = s]
    PROVE  StandingSpared(o)
<1>1. /\ DOMAIN WithOwner(States, p) = DOMAIN States \cup {p}
      /\ \A q \in DOMAIN States : WithOwner(States, p)[q] = States[q]
      /\ DOMAIN MarkFailure(WithOwner(States, p), p, clock) = DOMAIN States \cup {p}
  <2>1. /\ OwnerTable(States) /\ clock \in Nat
        /\ OwnerTable(WithOwner(States, p)) /\ p \in DOMAIN WithOwner(States, p)
        /\ DOMAIN WithOwner(States, p) = DOMAIN States \cup {p}
    BY CleanedType, OwnStatesType DEF TypeOK
  <2>2. \A q \in DOMAIN States : WithOwner(States, p)[q] = States[q]
    BY <2>1, WithOwnerType
  <2>3. DOMAIN MarkFailure(WithOwner(States, p), p, clock) = DOMAIN WithOwner(States, p)
    BY <2>1, MarkFailureType
  <2>4. QED
    BY <2>1, <2>2, <2>3
<1>2. \A q \in DOMAIN States \ {p} :
        MarkFailure(WithOwner(States, p), p, clock)[q] = States[q]
  BY OtherUnmarked
<1>3. CASE owners' \in {States, WithOwner(States, p),
                        MarkFailure(WithOwner(States, p), p, clock)}
  BY <1>1, <1>2, <1>3 DEF StandingSpared
<1>4. CASE \E s : owners' = [WithOwner(States, p) EXCEPT ![p] = s]
  BY <1>1, <1>4 DEF StandingSpared
<1>5. QED
  BY <1>3, <1>4

\* Whose call it was is what its reply says.
LEMMA VerifyOwn ==
    ASSUME NEW p \in Owner, NEW c \in Context, NEW id \in Id, Verify(p, c, id)
    PROVE  /\ reply'.owner = p
           /\ \/ challenges' = Records
              \/ Holds(p, id) /\ \E status \in Status : Close(id, status)
<1> USE DEF Respond, CountFailure, Status
<1>1. CASE VerifyUnknown(p, id)
  BY <1>1 DEF VerifyUnknown
<1>2. CASE VerifyForeign(p, id)
  BY <1>2 DEF VerifyForeign
<1>3. CASE VerifyUsed(p, id)
  BY <1>3 DEF VerifyUsed
<1>4. CASE VerifyBlocked(p, id)
  BY <1>4 DEF VerifyBlocked
<1>5. CASE VerifyMismatch(p, c, id)
  BY <1>5 DEF VerifyMismatch, Admitted
<1>6. CASE VerifyExpired(p, c, id)
  BY <1>6 DEF VerifyExpired
<1>7. CASE VerifyFailed(p, c, id)
  BY <1>7 DEF VerifyFailed
<1>8. CASE VerifyIncorrect(p, c, id)
  BY <1>8 DEF VerifyIncorrect, Admitted
<1>9. CASE VerifyAccepted(p, c, id)
  BY <1>9 DEF VerifyAccepted, Admitted
<1>10. QED
  BY <1>1, <1>2, <1>3, <1>4, <1>5, <1>6, <1>7, <1>8, <1>9 DEF Verify

LEMMA SparedStep ==
    ASSUME IInv, Next, NEW o \in Owner, reply' # Silent, reply'.owner # o
    PROVE  RecordsSpared(o) /\ StandingSpared(o)
<1>0. TypeOK
  BY DEF IInv
<1>1. ASSUME NEW p \in Owner, IssueRefused(p)
      PROVE  RecordsSpared(o) /\ StandingSpared(o)
  <2>1. p # o /\ challenges' = Records
    BY <1>1 DEF IssueRefused, Respond
  <2>2. QED
    BY <1>0, <1>1, <2>1, IssueOwners, QuietSpares, StandingIsSpared
<1>2. ASSUME NEW p \in Owner, NEW c \in Context, NEW id \in Id, IssueGranted(p, c, id)
      PROVE  RecordsSpared(o) /\ StandingSpared(o)
  <2> DEFINE own == WithOwner(States, p)[p]
             stamped == [own EXCEPT !.issued = WithStamp(own.issued, clock)]
  <2>1. p # o
    BY <1>2 DEF IssueGranted, Respond
  <2>2. owners' = [WithOwner(States, p) EXCEPT ![p] = stamped]
    BY <1>0, <1>2, OwnStatesType DEF IssueGranted, OwnerTable, Dict
  <2> HIDE DEF stamped
  <2>3. \E s : owners' = [WithOwner(States, p) EXCEPT ![p] = s]
    BY <2>2
  <2>4. QED
    BY <1>0, <1>2, <2>1, <2>3, GrantSpares, StandingIsSpared
<1>3. ASSUME NEW p \in Owner, NEW c \in Context, NEW id \in Id, Verify(p, c, id)
      PROVE  RecordsSpared(o) /\ StandingSpared(o)
  <2>1. p # o
    BY <1>3, VerifyOwn
  <2>2. RecordsSpared(o)
    BY <1>0, <1>3, <2>1, VerifyOwn, QuietSpares, CloseSpares
  <2>3. StandingSpared(o)
    BY <1>0, <1>3, <2>1, VerifyShape, StandingIsSpared
  <2>4. QED
    BY <2>2, <2>3
<1>4. CASE Tick \/ Restart
  BY <1>4 DEF Tick, Restart
<1>5. QED
  BY <1>1, <1>2, <1>3, <1>4 DEF Next

\* No call of one agent, not even a guess at another's challenge id, changes
\* another's challenges, failures or suspension otherwise than time does.
THEOREM OthersAreUntouched == Spec => OthersUntouched
<1>1. IInv /\ [Next]_vars =>
        [\A o \in Owner :
           reply' # Silent /\ reply'.owner # o =>
             /\ \A id \in DOMAIN challenges :
                  challenges[id].owner = o =>
                    \/ id \in DOMAIN Records /\ id \in DOMAIN challenges'
                         /\ challenges'[id] = Records[id]
                    \/ id \notin DOMAIN Records /\ id \notin DOMAIN challenges'
             /\ o \in DOMAIN States <=> o \in DOMAIN owners'
             /\ o \in DOMAIN States => owners'[o] = States[o]]_vars
  BY SparedStep DEF RecordsSpared, StandingSpared
<1>2. QED
  BY <1>1, InvInit, InvStep, PTL DEF Spec, OthersUntouched

-------------------------------------------------------------------------------
(* Lists of stamps: a new stamp is always a new element                     *)

Ranked(S) == \A x \in S : x[2] < Cardinality({y \in S : y[1] = x[1]})

\* A list that can be there at time t.
StampsOK(S, t) ==
    S \in SUBSET Stamp /\ IsFiniteSet(S) /\ Ranked(S) /\ \A x \in S : x[1] <= t

LEMMA NoStamps == \A t : StampsOK({}, t)
BY FS_EmptySet DEF StampsOK, Ranked

LEMMA WithStampCounts ==
    ASSUME NEW t \in Nat, NEW S, StampsOK(S, t)
    PROVE  LET s == <<t, Cardinality({x \in S : x[1] = t})>>
           IN  /\ s \notin S /\ s \in Stamp
               /\ s[2] <= Cardinality(S)
               /\ WithStamp(S, t) = S \cup {s}
               /\ Cardinality(WithStamp(S, t)) = Cardinality(S) + 1
               /\ StampsOK(WithStamp(S, t), t)
<1> DEFINE E == {x \in S : x[1] = t}
           s == <<t, Cardinality(E)>>
<1>1. /\ IsFiniteSet(E) /\ Cardinality(E) \in Nat /\ Cardinality(E) <= Cardinality(S)
      /\ IsFiniteSet(S) /\ Cardinality(S) \in Nat
  BY FS_Subset, FS_CardinalityType DEF StampsOK
<1>2. s \notin S
  <2>1. SUFFICES ASSUME s \in S PROVE FALSE
    OBVIOUS
  <2>2. s[2] < Cardinality(E)
    BY <2>1 DEF StampsOK, Ranked
  <2>3. QED
    BY <1>1, <2>2
<1>3. WithStamp(S, t) = S \cup {s}
  BY DEF WithStamp
<1>4. /\ IsFiniteSet(S \cup {s}) /\ Cardinality(S \cup {s}) = Cardinality(S) + 1
  BY <1>1, <1>2, FS_AddElement
<1>5. s \in Stamp /\ s[1] = t /\ s[2] = Cardinality(E)
  BY <1>1 DEF Stamp
<1>6. Cardinality(E \cup {s}) = Cardinality(E) + 1
  BY <1>1, <1>2, FS_AddElement
<1>7. Ranked(S \cup {s})
  <2>1. SUFFICES ASSUME NEW x \in S \cup {s}
                 PROVE  x[2] < Cardinality({y \in S \cup {s} : y[1] = x[1]})
    BY DEF Ranked
  <2>2. CASE x[1] = t
    <3>1. {y \in S \cup {s} : y[1] = x[1]} = E \cup {s}
      BY <1>5, <2>2
    <3>2. x = s \/ x[2] < Cardinality(E)
      BY <2>2 DEF StampsOK, Ranked
    <3>3. x[2] \in Nat
      BY <1>5 DEF StampsOK, Stamp
    <3>4. x[2] < Cardinality(E) + 1
      BY <1>1, <1>5, <3>2, <3>3
    <3>5. QED
      BY <1>6, <3>1, <3>4
  <2>3. CASE x[1] # t
    <3>1. {y \in S \cup {s} : y[1] = x[1]} = {y \in S : y[1] = x[1]} /\ x \in S
      BY <1>5, <2>3
    <3>2. QED
      BY <3>1 DEF StampsOK, Ranked
  <2>4. QED
    BY <2>2, <2>3
<1>8. StampsOK(S \cup {s}, t)
  BY <1>4, <1>5, <1>7 DEF StampsOK
<1>9. QED
  BY <1>1, <1>2, <1>3, <1>4, <1>5, <1>8

\* Pruning removes all stamps of a moment or none.
LEMMA PrunedStamps ==
    ASSUME NEW t \in Nat, NEW S, StampsOK(S, t), NEW lo \in Int
    PROVE  StampsOK({x \in S : x[1] > lo}, t)
<1> DEFINE P == {x \in S : x[1] > lo}
<1>1. P \subseteq S /\ IsFiniteSet(P)
  BY FS_Subset DEF StampsOK
<1>2. ASSUME NEW x \in P PROVE {y \in P : y[1] = x[1]} = {y \in S : y[1] = x[1]}
  OBVIOUS
<1>3. Ranked(P)
  BY <1>1, <1>2 DEF StampsOK, Ranked
<1>4. QED
  BY <1>1, <1>3 DEF StampsOK

LEMMA LaterStamps ==
    ASSUME NEW t \in Nat, NEW u \in Nat, t <= u, NEW S, StampsOK(S, t)
    PROVE  StampsOK(S, u)
BY DEF StampsOK, Stamp

\* What can be in the table of owners at time t.
StandingOK(s, t) ==
    /\ StampsOK(s.failures, t) /\ StampsOK(s.issued, t)
    /\ s.suspended <= t + SUSPEND
    /\ Cardinality(s.issued) <= ISSUE_LIMIT
StandingsOK(os, t) == \A o \in DOMAIN os : StandingOK(os[o], t)

LEMMA PrunedStanding ==
    ASSUME NEW t \in Nat, NEW s \in OwnerState, StandingOK(s, t)
    PROVE  StandingOK(Prune(s, t), t)
<1>1. t - FAILURE_WINDOW \in Int /\ t - ISSUE_WINDOW \in Int
  BY LimitsArePositive
<1>2. StampsOK(Prune(s, t).failures, t)
  BY <1>1, PrunedStamps DEF Prune, StandingOK
<1>3. StampsOK(Prune(s, t).issued, t)
  BY <1>1, PrunedStamps DEF Prune, StandingOK
<1>4. Prune(s, t).suspended <= t + SUSPEND
  BY LimitsArePositive DEF Prune, StandingOK, None
<1>5. Prune(s, t).issued \subseteq s.issued /\ IsFiniteSet(s.issued)
  BY DEF Prune, StandingOK, StampsOK
<1>6. /\ Cardinality(Prune(s, t).issued) <= Cardinality(s.issued)
      /\ Cardinality(Prune(s, t).issued) \in Nat /\ Cardinality(s.issued) \in Nat
  BY <1>5, FS_Subset, FS_CardinalityType
<1>7. Cardinality(Prune(s, t).issued) <= ISSUE_LIMIT
  BY <1>6, LimitsArePositive DEF StandingOK
<1>8. QED
  BY <1>2, <1>3, <1>4, <1>7 DEF StandingOK

LEMMA CleanedStandings ==
    ASSUME TypeOK, StandingsOK(owners, clock)
    PROVE  StandingsOK(States, clock)
<1>1. SUFFICES ASSUME NEW o \in DOMAIN States PROVE StandingOK(States[o], clock)
  BY DEF StandingsOK
<1>2. o \in DOMAIN owners /\ States[o] = Prune(owners[o], clock)
  BY StatesAtShape DEF States
<1>3. owners[o] \in OwnerState /\ clock \in Nat
  BY <1>2 DEF TypeOK, OwnerTable, Dict
<1>4. QED
  BY <1>2, <1>3, PrunedStanding DEF StandingsOK

LEMMA OwnStanding ==
    ASSUME NEW os, OwnerTable(os), NEW t \in Nat, StandingsOK(os, t), NEW o \in Owner
    PROVE  StandingsOK(WithOwner(os, o), t)
<1>1. StandingOK(NewOwner, t)
  BY NoStamps, FS_EmptySet, LimitsArePositive DEF StandingOK, NewOwner, None
<1>2. QED
  BY <1>1 DEF StandingsOK, WithOwner

LEMMA MarkedStanding ==
    ASSUME NEW os, OwnerTable(os), NEW t \in Nat, StandingsOK(os, t), NEW o \in DOMAIN os
    PROVE  StandingsOK(MarkFailure(os, o, t), t)
<1>1. StandingOK(os[o], t) /\ os[o] \in OwnerState
  BY DEF StandingsOK, OwnerTable, Dict
<1>2. StampsOK(Struck(os, o, t), t)
  BY <1>1, WithStampCounts DEF Struck, StandingOK
<1>3. \A p \in DOMAIN os : MarkFailure(os, o, t)[p] =
        IF p # o THEN os[p]
        ELSE IF StrikesOut(os, o, t)
             THEN [os[o] EXCEPT !.failures = {}, !.suspended = t + SUSPEND]
             ELSE [os[o] EXCEPT !.failures = Struck(os, o, t)]
  BY <1>1 DEF MarkFailure, OwnerTable, Dict, OwnerState
<1>4. DOMAIN MarkFailure(os, o, t) = DOMAIN os
  BY MarkFailureType
<1>5. StandingOK(MarkFailure(os, o, t)[o], t)
  <2>1. CASE StrikesOut(os, o, t)
    <3>1. MarkFailure(os, o, t)[o] = [os[o] EXCEPT !.failures = {}, !.suspended = t + SUSPEND]
      BY <1>3, <2>1
    <3>2. /\ MarkFailure(os, o, t)[o].failures = {}
          /\ MarkFailure(os, o, t)[o].issued = os[o].issued
          /\ MarkFailure(os, o, t)[o].suspended = t + SUSPEND
      BY <1>1, <3>1 DEF OwnerState
    <3>3. t + SUSPEND <= t + SUSPEND
      BY LimitsArePositive
    <3>4. QED
      BY <1>1, <3>2, <3>3, NoStamps DEF StandingOK
  <2>2. CASE ~StrikesOut(os, o, t)
    BY <1>1, <1>2, <1>3, <2>2 DEF StandingOK, OwnerState
  <2>3. QED
    BY <2>1, <2>2
<1>6. QED
  BY <1>3, <1>4, <1>5 DEF StandingsOK

LEMMA StandingsInit == Init => StandingsOK(owners, clock)
BY DEF Init, StandingsOK, Empty

LEMMA StandingsStep ==
    TypeOK /\ StandingsOK(owners, clock) /\ [Next]_vars => StandingsOK(owners', clock')
<1> SUFFICES ASSUME TypeOK, StandingsOK(owners, clock), [Next]_vars
             PROVE  StandingsOK(owners', clock')
  OBVIOUS
<1>0. OwnerTable(States) /\ clock \in Nat /\ StandingsOK(States, clock)
  BY CleanedType, CleanedStandings DEF TypeOK
<1>1. ASSUME NEW o \in Owner
      PROVE  /\ OwnerTable(WithOwner(States, o)) /\ o \in DOMAIN WithOwner(States, o)
             /\ StandingsOK(WithOwner(States, o), clock)
             /\ StandingsOK(MarkFailure(WithOwner(States, o), o, clock), clock)
  BY <1>0, OwnStatesType, OwnStanding, MarkedStanding
<1>2. ASSUME NEW o \in Owner, IssueRefused(o)
      PROVE  StandingsOK(owners', clock')
  BY <1>0, <1>1, <1>2, IssueOwners DEF IssueRefused
<1>3. ASSUME NEW o \in Owner, NEW c \in Context, NEW id \in Id, IssueGranted(o, c, id)
      PROVE  StandingsOK(owners', clock')
  <2> DEFINE os == WithOwner(States, o)
             n == [os[o] EXCEPT !.issued = WithStamp(os[o].issued, clock)]
  <2>1. os[o] \in OwnerState /\ StandingOK(os[o], clock)
    BY <1>1 DEF OwnerTable, Dict, StandingsOK
  <2>2. /\ StampsOK(WithStamp(os[o].issued, clock), clock)
        /\ Cardinality(WithStamp(os[o].issued, clock)) = Cardinality(os[o].issued) + 1
    BY <1>0, <2>1, WithStampCounts DEF StandingOK
  <2>3. ~(Cardinality(os[o].issued) >= ISSUE_LIMIT) /\ Cardinality(os[o].issued) \in Nat
    <3>1. ~(Cardinality(os[o].issued) >= ISSUE_LIMIT)
      BY <1>3 DEF IssueGranted, IssueOutcome, States
    <3>2. QED
      BY <2>1, <3>1, FS_CardinalityType DEF StandingOK, StampsOK
  <2>4. StandingOK(n, clock)
    <3>1. /\ n.failures = os[o].failures /\ n.suspended = os[o].suspended
          /\ n.issued = WithStamp(os[o].issued, clock)
      BY <2>1 DEF OwnerState
    <3>2. Cardinality(n.issued) <= ISSUE_LIMIT
      BY <2>2, <2>3, <3>1, LimitsArePositive
    <3>3. QED
      BY <2>1, <2>2, <3>1, <3>2 DEF StandingOK
  <2>5. owners' = [os EXCEPT ![o] = n] /\ clock' = clock
    BY <1>1, <1>3 DEF IssueGranted, OwnerTable, Dict
  <2> HIDE DEF n
  <2>6. QED
    BY <1>1, <2>4, <2>5 DEF StandingsOK
<1>4. ASSUME NEW o \in Owner, NEW c \in Context, NEW id \in Id, Verify(o, c, id)
      PROVE  StandingsOK(owners', clock')
  BY <1>0, <1>1, <1>4, VerifyShape
<1>5. CASE Tick
  <2>1. owners' = owners /\ clock' = clock + 1
    BY <1>5 DEF Tick
  <2>2. ASSUME NEW o \in DOMAIN owners PROVE StandingOK(owners[o], clock + 1)
    <3>1. owners[o] \in OwnerState /\ StandingOK(owners[o], clock)
      BY DEF TypeOK, OwnerTable, Dict, StandingsOK
    <3>2. /\ StampsOK(owners[o].failures, clock + 1)
          /\ StampsOK(owners[o].issued, clock + 1)
      <4>1. clock + 1 \in Nat /\ clock <= clock + 1
        BY <1>0
      <4>2. StampsOK(owners[o].failures, clock) /\ StampsOK(owners[o].issued, clock)
        BY <3>1 DEF StandingOK
      <4>3. QED
        BY <1>0, <4>1, <4>2, LaterStamps
    <3>3. owners[o].suspended <= clock + 1 + SUSPEND
      BY <1>0, <3>1, LimitsArePositive DEF StandingOK, OwnerState, None
    <3>4. QED
      BY <3>1, <3>2, <3>3 DEF StandingOK
  <2>3. QED
    BY <2>1, <2>2 DEF StandingsOK
<1>6. CASE Restart
  BY <1>6 DEF Restart, StandingsOK, Empty
<1>7. CASE UNCHANGED vars
  BY <1>7 DEF vars
<1>8. QED
  BY <1>2, <1>3, <1>4, <1>5, <1>6, <1>7 DEF Next

-------------------------------------------------------------------------------
(* The rate: in every window that reaches up to now, an owner's list holds a *)
(* stamp for each challenge granted, although its entry is pruned, dropped   *)
(* and created again                                                         *)

IssuedSince(os, o, from) ==
    IF o \in DOMAIN os THEN {x \in os[o].issued : x[1] >= from} ELSE {}

Rated(os) ==
    \A o \in Owner, from \in Int :
        from > clock - ISSUE_WINDOW =>
          Cardinality(IssuedTo(o, from, clock)) <= Cardinality(IssuedSince(os, o, from))

LEMMA SinceFinite ==
    ASSUME NEW os, NEW t, StandingsOK(os, t), NEW o, NEW from
    PROVE  /\ IsFiniteSet(IssuedSince(os, o, from))
           /\ Cardinality(IssuedSince(os, o, from)) \in Nat
<1>1. CASE o \in DOMAIN os
  BY <1>1, FS_Subset, FS_CardinalityType DEF IssuedSince, StandingsOK, StandingOK, StampsOK
<1>2. CASE o \notin DOMAIN os
  BY <1>2, FS_EmptySet DEF IssuedSince
<1>3. QED
  BY <1>1, <1>2

LEMMA IssuedToFinite ==
    ASSUME IsFiniteSet(DOMAIN grants), NEW o, NEW from, NEW to
    PROVE  /\ IsFiniteSet(IssuedTo(o, from, to)) /\ Cardinality(IssuedTo(o, from, to)) \in Nat
BY FS_Subset, FS_CardinalityType DEF IssuedTo

LEMMA CleanedSince ==
    ASSUME TypeOK, NEW o, NEW from \in Int, from > clock - ISSUE_WINDOW
    PROVE  IssuedSince(States, o, from) = IssuedSince(owners, o, from)
<1>1. CASE o \in DOMAIN owners
  <2>1. owners[o].issued \in SUBSET Stamp /\ clock \in Nat
    BY <1>1 DEF TypeOK, OwnerTable, Dict, OwnerState
  <2>2. {x \in Prune(owners[o], clock).issued : x[1] >= from} =
          {x \in owners[o].issued : x[1] >= from}
    BY <2>1, LimitsArePositive DEF Prune, Stamp
  <2>3. CASE o \in DOMAIN States
    BY <1>1, <2>2, <2>3, StatesAtShape DEF IssuedSince, States
  <2>4. CASE o \notin DOMAIN States
    <3>1. Prune(owners[o], clock).issued = {}
      BY <1>1, <2>4, StatesAtShape DEF States, Idle
    <3>2. QED
      BY <1>1, <2>2, <2>4, <3>1 DEF IssuedSince
  <2>5. QED
    BY <2>3, <2>4
<1>2. CASE o \notin DOMAIN owners
  BY <1>2, StatesAtShape DEF IssuedSince, States
<1>3. QED
  BY <1>1, <1>2

LEMMA OwnSince ==
    ASSUME TypeOK, NEW p \in Owner, NEW o \in Owner, NEW from
    PROVE  /\ IssuedSince(WithOwner(States, p), o, from) = IssuedSince(States, o, from)
           /\ IssuedSince(MarkFailure(WithOwner(States, p), p, clock), o, from) =
                IssuedSince(States, o, from)
<1> DEFINE os == WithOwner(States, p)
           ms == MarkFailure(os, p, clock)
<1>1. /\ OwnerTable(os) /\ p \in DOMAIN os /\ DOMAIN os = DOMAIN States \cup {p}
      /\ clock \in Nat
  BY OwnStatesType DEF TypeOK
<1>2. DOMAIN ms = DOMAIN os
  BY <1>1, MarkFailureType
<1>3. \A q \in DOMAIN os : ms[q].issued = os[q].issued
  BY <1>1 DEF MarkFailure, OwnerTable, Dict, OwnerState
<1>4. \A q \in DOMAIN os : os[q] = IF q \in DOMAIN States THEN States[q] ELSE NewOwner
  BY <1>1 DEF WithOwner
<1>5. NewOwner.issued = {}
  BY DEF NewOwner
<1> HIDE DEF os, ms
<1>6. IssuedSince(os, o, from) = IssuedSince(States, o, from)
  BY <1>1, <1>4, <1>5 DEF IssuedSince
<1>7. IssuedSince(ms, o, from) = IssuedSince(os, o, from)
  BY <1>2, <1>3 DEF IssuedSince
<1>8. QED
  BY <1>6, <1>7 DEF os, ms

Rates == IsFiniteSet(DOMAIN grants) /\ Rated(owners) /\ IssueRate

\* An operation that grants nothing.
LEMMA UnissuedRates ==
    ASSUME TypeOK, Rates, UNCHANGED <<clock, boot, grants>>,
           \A o \in Owner, from \in Int :
               from > clock - ISSUE_WINDOW =>
                 IssuedSince(owners', o, from) = IssuedSince(owners, o, from)
    PROVE  Rates'
<1>1. \A o, from, to : IssuedTo(o, from, to)' = IssuedTo(o, from, to)
  BY DEF IssuedTo
<1>2. Rated(owners)'
  BY <1>1 DEF Rates, Rated, IssuedSince
<1>3. IssueRate'
  BY <1>1 DEF Rates, IssueRate
<1>4. QED
  BY <1>2, <1>3 DEF Rates

LEMMA GrantRates ==
    ASSUME TypeOK, Rates, StandingsOK(owners, clock),
           NEW o \in Owner, NEW c \in Context, NEW id \in Id, IssueGranted(o, c, id)
    PROVE  Rates'
<1> DEFINE os == WithOwner(States, o)
           issued == os[o].issued
<1>0. /\ clock \in Nat /\ boot \in Boots /\ clock' = clock /\ boot' = boot
      /\ id \notin DOMAIN grants /\ grants' = Put(grants, id, Noted(o, c))
      /\ \A i \in DOMAIN grants : grants[i].at \in Nat
  BY DEF TypeOK, IssueGranted, Dict, Grant
<1>1. /\ OwnerTable(os) /\ o \in DOMAIN os /\ os[o] \in OwnerState
      /\ StampsOK(issued, clock)
  <2>1. OwnerTable(os) /\ o \in DOMAIN os /\ StandingsOK(os, clock)
    BY <1>0, CleanedType, CleanedStandings, OwnStatesType, OwnStanding
  <2>2. QED
    BY <2>1 DEF StandingsOK, StandingOK, OwnerTable, Dict
<1>2. PICK s \in Stamp : s \notin issued /\ s[1] = clock /\ WithStamp(issued, clock) = issued \cup {s}
  <2> DEFINE s == <<clock, Cardinality({x \in issued : x[1] = clock})>>
  <2>1. s \notin issued /\ s \in Stamp /\ WithStamp(issued, clock) = issued \cup {s}
    BY <1>0, <1>1, WithStampCounts
  <2>2. s[1] = clock
    OBVIOUS
  <2>3. QED
    BY <2>1, <2>2
<1> HIDE DEF issued
<1>3. /\ DOMAIN grants' = DOMAIN grants \cup {id} /\ grants'[id] = Noted(o, c)
      /\ \A i \in DOMAIN grants : grants'[i] = grants[i]
  BY <1>0 DEF Put
<1>4. IsFiniteSet(DOMAIN grants) /\ IsFiniteSet(DOMAIN grants')
  BY <1>3, FS_AddElement DEF Rates
<1>5. \A p \in Owner, from \in Int, to \in Int :
        IssuedTo(p, from, to)' =
          IF p = o /\ clock \in from .. to THEN IssuedTo(p, from, to) \cup {id}
                                           ELSE IssuedTo(p, from, to)
  BY <1>0, <1>3 DEF IssuedTo, Noted
<1>6. \A p \in Owner, from \in Int :
        IssuedSince(owners', p, from) =
          IF p = o /\ clock >= from THEN IssuedSince(os, p, from) \cup {s}
                                    ELSE IssuedSince(os, p, from)
  <2> DEFINE n == [os[o] EXCEPT !.issued = WithStamp(issued, clock)]
  <2>1. owners' = [os EXCEPT ![o] = n]
    BY <1>1 DEF IssueGranted, OwnerTable, Dict, issued
  <2>2. n.issued = issued \cup {s}
    BY <1>1, <1>2 DEF OwnerState
  <2> HIDE DEF n
  <2>3. DOMAIN owners' = DOMAIN os /\ owners'[o].issued = issued \cup {s}
        /\ \A p \in DOMAIN os \ {o} : owners'[p] = os[p]
    BY <1>1, <2>1, <2>2
  <2>4. QED
    BY <1>1, <1>2, <2>3 DEF IssuedSince, issued
<1>7. ASSUME NEW p \in Owner, NEW from \in Int, from > clock - ISSUE_WINDOW
      PROVE  /\ Cardinality(IssuedTo(p, from, clock)) <= Cardinality(IssuedSince(os, p, from))
             /\ IsFiniteSet(IssuedTo(p, from, clock)) /\ IsFiniteSet(IssuedSince(os, p, from))
             /\ Cardinality(IssuedTo(p, from, clock)) \in Nat
             /\ Cardinality(IssuedSince(os, p, from)) \in Nat
  <2>1. IssuedSince(os, p, from) = IssuedSince(owners, p, from)
    BY <1>7, OwnSince, CleanedSince
  <2>2. QED
    BY <1>4, <1>7, <2>1, SinceFinite, IssuedToFinite DEF Rates, Rated
<1>8. id \notin IssuedTo(o, clock, clock) /\ \A p, from, to : id \notin IssuedTo(p, from, to)
  BY <1>0 DEF IssuedTo
<1>9. ASSUME NEW p \in Owner, NEW from \in Int, from > clock - ISSUE_WINDOW
      PROVE  Cardinality(IssuedTo(p, from, clock)') <= Cardinality(IssuedSince(owners', p, from))
  <2>1. CASE p = o /\ clock >= from
    <3>1. s \notin IssuedSince(os, p, from)
      BY <1>1, <1>2, <2>1 DEF IssuedSince, issued
    <3>2. /\ Cardinality(IssuedSince(os, p, from) \cup {s}) =
               Cardinality(IssuedSince(os, p, from)) + 1
          /\ Cardinality(IssuedTo(p, from, clock) \cup {id}) =
               Cardinality(IssuedTo(p, from, clock)) + 1
      BY <1>7, <1>8, <1>9, <3>1, FS_AddElement
    <3>3. /\ IssuedTo(p, from, clock)' = IssuedTo(p, from, clock) \cup {id}
          /\ IssuedSince(owners', p, from) = IssuedSince(os, p, from) \cup {s}
      BY <1>0, <1>5, <1>6, <2>1
    <3>4. QED
      BY <1>7, <1>9, <3>2, <3>3
  <2>2. CASE ~(p = o /\ clock >= from)
    <3>1. /\ IssuedTo(p, from, clock)' = IssuedTo(p, from, clock)
          /\ IssuedSince(owners', p, from) = IssuedSince(os, p, from)
      BY <1>0, <1>5, <1>6, <2>2
    <3>2. QED
      BY <1>7, <1>9, <3>1
  <2>3. QED
    BY <2>1, <2>2
<1>10. Rated(owners)'
  BY <1>0, <1>9 DEF Rated, IssuedSince, IssuedTo
<1>11. ASSUME NEW p \in Owner, NEW t \in 0 .. clock
       PROVE  Cardinality(IssuedTo(p, t + 1 - ISSUE_WINDOW, t)') <= ISSUE_LIMIT
  <2> DEFINE from == t + 1 - ISSUE_WINDOW
  <2>1. from \in Int /\ t \in Int /\ Cardinality(IssuedTo(p, from, t)) <= ISSUE_LIMIT
    BY <1>0, <1>11, LimitsArePositive DEF Rates, IssueRate
  <2>2. CASE ~(p = o /\ clock \in from .. t)
    <3>1. IssuedTo(p, from, t)' = IssuedTo(p, from, t)
      BY <1>5, <2>1, <2>2
    <3>2. QED
      BY <2>1, <3>1
  <2>3. CASE p = o /\ clock \in from .. t
    <3>1. t = clock /\ from > clock - ISSUE_WINDOW
      BY <1>0, <1>11, <2>1, <2>3, LimitsArePositive
    <3>2. ~(Cardinality(issued) >= ISSUE_LIMIT) /\ Cardinality(issued) \in Nat
      <4>1. ~(Cardinality(issued) >= ISSUE_LIMIT)
        BY DEF IssueGranted, IssueOutcome, States, issued
      <4>2. QED
        BY <1>1, <4>1, FS_CardinalityType DEF StampsOK
    <3>3. /\ Cardinality(IssuedSince(os, o, from)) <= Cardinality(issued)
      <4>1. IssuedSince(os, o, from) \subseteq issued
        BY <1>1 DEF IssuedSince, issued
      <4>2. QED
        BY <1>1, <4>1, FS_Subset DEF StampsOK
    <3> HIDE DEF from
    <3>4. /\ Cardinality(IssuedTo(o, from, clock)) <= Cardinality(IssuedSince(os, o, from))
          /\ IsFiniteSet(IssuedTo(o, from, clock))
          /\ Cardinality(IssuedTo(o, from, clock)) \in Nat
          /\ Cardinality(IssuedSince(os, o, from)) \in Nat
      BY <1>7, <2>1, <3>1
    <3>5. Cardinality(IssuedTo(o, from, clock) \cup {id}) =
            Cardinality(IssuedTo(o, from, clock)) + 1
      BY <1>8, <3>4, FS_AddElement
    <3>6. IssuedTo(p, from, t)' = IssuedTo(o, from, clock) \cup {id}
      <4>1. IssuedTo(p, from, t)' = IssuedTo(p, from, t) \cup {id}
        BY <1>5, <2>1, <2>3
      <4>2. QED
        BY <2>3, <3>1, <4>1
    <3>7. Cardinality(IssuedTo(p, from, t)') <= ISSUE_LIMIT
      BY <3>2, <3>3, <3>4, <3>5, <3>6, LimitsArePositive
    <3>8. QED
      BY <3>7 DEF from
  <2>4. QED
    BY <2>2, <2>3
<1>12. IssueRate'
  BY <1>0, <1>11 DEF IssueRate, IssuedTo
<1>13. QED
  BY <1>4, <1>10, <1>12 DEF Rates

\* Time passes: nothing is granted in the window that begins.
LEMMA TickRates ==
    ASSUME IInv, Rates, StandingsOK(owners, clock), Tick
    PROVE  Rates'
<1>0. /\ clock \in Nat /\ clock' = clock + 1 /\ boot' = boot /\ grants' = grants
      /\ owners' = owners
      /\ \A i \in DOMAIN grants : grants[i].at \in Nat /\ grants[i].at <= clock
  BY DEF IInv, TypeOK, Tick, history, Dict, Grant, Bookkeeping, NotFromTheFuture
<1>1. \A o, from, to : /\ IssuedTo(o, from, to)' = IssuedTo(o, from, to)
                        /\ IssuedTo(o, from, clock)' = IssuedTo(o, from, clock + 1)
  BY <1>0 DEF IssuedTo
<1>2. \A o : \A from \in Int : IssuedTo(o, from, clock + 1) = IssuedTo(o, from, clock)
  BY <1>0 DEF IssuedTo
<1>3. Rated(owners)'
  <2>1. ASSUME NEW o \in Owner, NEW from \in Int, from > clock' - ISSUE_WINDOW
        PROVE  Cardinality(IssuedTo(o, from, clock)') <= Cardinality(IssuedSince(owners', o, from))
    <3>1. from > clock - ISSUE_WINDOW
      BY <1>0, <2>1, LimitsArePositive
    <3>2. IssuedTo(o, from, clock)' = IssuedTo(o, from, clock)
      BY <1>1, <1>2
    <3>3. QED
      BY <1>0, <3>1, <3>2 DEF Rates, Rated
  <2>2. QED
    BY <2>1 DEF Rated, IssuedSince, IssuedTo
<1>4. IssueRate'
  <2>1. SUFFICES ASSUME NEW o \in Owner, NEW t \in 0 .. clock + 1
                 PROVE  Cardinality(IssuedTo(o, t + 1 - ISSUE_WINDOW, t)) <= ISSUE_LIMIT
    BY <1>0, <1>1 DEF IssueRate
  <2>2. CASE t \in 0 .. clock
    BY <2>2 DEF Rates, IssueRate
  <2>3. CASE t = clock + 1
    <3> DEFINE from == clock + 2 - ISSUE_WINDOW
    <3>1. from \in Int /\ from > clock - ISSUE_WINDOW /\ t + 1 - ISSUE_WINDOW = from
      BY <1>0, <2>3, LimitsArePositive
    <3> HIDE DEF from
    <3>2. IssuedTo(o, t + 1 - ISSUE_WINDOW, t) = IssuedTo(o, from, clock)
      BY <1>2, <2>3, <3>1
    <3>3. Cardinality(IssuedTo(o, from, clock)) <= Cardinality(IssuedSince(owners, o, from))
      BY <3>1 DEF Rates, Rated
    <3>4. Cardinality(IssuedSince(owners, o, from)) <= ISSUE_LIMIT
      <4>1. CASE o \in DOMAIN owners
        <5>1. /\ IsFiniteSet(owners[o].issued) /\ Cardinality(owners[o].issued) <= ISSUE_LIMIT
              /\ IssuedSince(owners, o, from) \subseteq owners[o].issued
          BY <4>1 DEF StandingsOK, StandingOK, StampsOK, IssuedSince
        <5>2. /\ Cardinality(IssuedSince(owners, o, from)) <= Cardinality(owners[o].issued)
              /\ Cardinality(owners[o].issued) \in Nat
          BY <5>1, FS_Subset, FS_CardinalityType
        <5>3. QED
          BY <5>1, <5>2, SinceFinite, LimitsArePositive
      <4>2. CASE o \notin DOMAIN owners
        BY <4>2, FS_EmptySet, LimitsArePositive DEF IssuedSince
      <4>3. QED
        BY <4>1, <4>2
    <3>5. /\ Cardinality(IssuedTo(o, from, clock)) \in Nat
          /\ Cardinality(IssuedSince(owners, o, from)) \in Nat
      BY IssuedToFinite, SinceFinite DEF Rates
    <3>6. QED
      BY <3>2, <3>3, <3>4, <3>5, LimitsArePositive
  <2>4. QED
    BY <1>0, <2>2, <2>3
<1>5. QED
  BY <1>0, <1>3, <1>4 DEF Rates

\* A restart begins a process that has granted nothing.
LEMMA RestartRates ==
    ASSUME IInv, Rates, Restart
    PROVE  Rates'
<1>0. /\ boot \in Nat /\ boot' = boot + 1 /\ grants' = grants /\ owners' = Empty
      /\ \A i \in DOMAIN grants : grants[i].boot \in Nat /\ grants[i].boot <= boot
  BY BoundsAreNaturals
     DEF IInv, TypeOK, Restart, Dict, Grant, Boots, Bookkeeping, NotFromTheFuture
<1>1. \A o, from, to : IssuedTo(o, from, to)' = {} /\ IssuedTo(o, from, clock)' = {}
  BY <1>0 DEF IssuedTo
<1>2. \A o, from : IssuedSince(Empty, o, from) = {}
  BY DEF IssuedSince, Empty
<1>3. Cardinality({}) = 0 /\ 0 <= ISSUE_LIMIT
  BY FS_EmptySet, LimitsArePositive
<1>4. Rated(owners)'
  <2>1. ASSUME NEW o \in Owner, NEW from \in Int
        PROVE  Cardinality(IssuedTo(o, from, clock)') <= Cardinality(IssuedSince(owners', o, from))
    BY <1>0, <1>1, <1>2, <1>3
  <2>2. QED
    BY <2>1 DEF Rated, IssuedSince, IssuedTo
<1>5. IssueRate'
  BY <1>1, <1>3 DEF IssueRate
<1>6. QED
  BY <1>0, <1>4, <1>5 DEF Rates

LEMMA RatesStep ==
    IInv /\ StandingsOK(owners, clock) /\ Rates /\ [Next]_vars => Rates'
<1> SUFFICES ASSUME IInv, StandingsOK(owners, clock), Rates, [Next]_vars PROVE Rates'
  OBVIOUS
<1>0. TypeOK
  BY DEF IInv
<1>1. ASSUME NEW p \in Owner, UNCHANGED <<clock, boot, grants>>,
             owners' \in {States, WithOwner(States, p),
                          MarkFailure(WithOwner(States, p), p, clock)}
      PROVE  Rates'
  <2>1. \A o \in Owner, from \in Int :
            from > clock - ISSUE_WINDOW =>
              IssuedSince(owners', o, from) = IssuedSince(owners, o, from)
    BY <1>0, <1>1, OwnSince, CleanedSince
  <2>2. QED
    BY <1>0, <1>1, <2>1, UnissuedRates
<1>2. ASSUME NEW o \in Owner, IssueRefused(o) PROVE Rates'
  <2>1. owners' \in {States, WithOwner(States, o)} /\ UNCHANGED <<clock, boot, grants>>
    BY <1>2, IssueOwners DEF IssueRefused, history
  <2>2. QED
    BY <1>1, <2>1
<1>3. ASSUME NEW o \in Owner, NEW c \in Context, NEW id \in Id, IssueGranted(o, c, id)
      PROVE  Rates'
  BY <1>0, <1>3, GrantRates
<1>4. ASSUME NEW o \in Owner, NEW c \in Context, NEW id \in Id, Verify(o, c, id)
      PROVE  Rates'
  BY <1>0, <1>1, <1>4, VerifyShape
<1>5. CASE Tick
  BY <1>5, TickRates
<1>6. CASE Restart
  BY <1>6, RestartRates
<1>7. CASE UNCHANGED vars
  <2>1. UNCHANGED <<clock, boot, grants>> /\ owners' = owners
    BY <1>7 DEF vars
  <2>2. QED
    BY <1>0, <2>1, UnissuedRates
<1>8. QED
  BY <1>2, <1>3, <1>4, <1>5, <1>6, <1>7 DEF Next

LEMMA RatesInit == Init => Rates
<1> SUFFICES ASSUME Init PROVE Rates
  OBVIOUS
<1>1. DOMAIN grants = {} /\ owners = Empty
  BY DEF Init, Empty
<1>2. \A o, from, to : IssuedTo(o, from, to) = {}
  BY <1>1 DEF IssuedTo
<1>3. \A o, from : IssuedSince(Empty, o, from) = {}
  BY DEF IssuedSince, Empty
<1>4. IsFiniteSet({}) /\ Cardinality({}) = 0 /\ 0 <= ISSUE_LIMIT
  BY FS_EmptySet, LimitsArePositive
<1>5. Rated(owners)
  BY <1>1, <1>2, <1>3, <1>4 DEF Rated
<1>6. IssueRate
  BY <1>2, <1>4 DEF IssueRate
<1>7. QED
  BY <1>1, <1>4, <1>5, <1>6 DEF Rates

\* What is in the owner table is always a list the code could have built.
LEMMA StandingsHold == Spec => []StandingsOK(owners, clock)
<1>1. TypeOK /\ StandingsOK(owners, clock) /\ [Next]_vars => StandingsOK(owners, clock)'
  BY StandingsStep DEF StandingsOK, StandingOK
<1>2. QED
  BY <1>1, StandingsInit, TypeCorrect, PTL DEF Spec

\* However entries are pruned, dropped from the table and created again, no
\* owner is granted more than ISSUE_LIMIT challenges in a window of one process.
THEOREM IssuesAreRated == Spec => []IssueRate
<1>1. Rates => IssueRate
  BY DEF Rates
<1>2. QED
  BY <1>1, RatesInit, RatesStep, StandingsHold, Invariance, PTL DEF Spec

-------------------------------------------------------------------------------
(* Retry hints: at the moment a refusal names, its reason is gone            *)

\* Waiting as told takes the caller to the deadline, and past the refusal.
LEMMA RetryReaches ==
    ASSUME TypeOK, NEW o \in Owner, IssueOutcome(o, clock) # "issued"
    PROVE  /\ clock + RetryAfter(o, clock) \in Nat
           /\ clock + RetryAfter(o, clock) >= RetryDeadline(o, clock)
<1>1. clock \in Nat
  BY DEF TypeOK
<1>2. RetryDeadline(o, clock) \in Nat /\ RetryAfter(o, clock) \in Nat
  BY <1>1, RetryType
<1>3. QED
  BY <1>1, <1>2 DEF RetryAfter, SecondsUntil

LEMMA Fewer ==
    ASSUME NEW S, IsFiniteSet(S), NEW n \in Nat, Cardinality(S) <= n,
           NEW T, T \subseteq S, NEW x \in S, x \notin T
    PROVE  ~(Cardinality(T) >= n)
<1>1. /\ IsFiniteSet(T) /\ Cardinality(T) \in Nat /\ Cardinality(S) \in Nat
      /\ Cardinality(T) <= Cardinality(S) /\ Cardinality(T) # Cardinality(S)
  BY FS_Subset, FS_CardinalityType
<1>2. QED
  BY <1>1

\* What is pending at a later moment is pending now, and expires later still.
LEMMA LaterPending ==
    ASSUME TypeOK, NEW t \in Nat, NEW id \in Pending(RecordsAt(t))
    PROVE  /\ id \in Pending(challenges) /\ t < challenges[id].expires
           /\ RecordsAt(t)[id].owner = challenges[id].owner
<1>1. id \in DOMAIN RecordsAt(t) /\ RecordsAt(t)[id].status = "pending"
  BY DEF Pending
<1>2. id \in DOMAIN challenges /\ RecordsAt(t)[id] = Lapse(challenges[id], t)
  BY <1>1, RecordsAtShape
<1>3. challenges[id] \in ChallengeRecord
  BY <1>2 DEF TypeOK, Dict
<1>4. QED
  BY <1>1, <1>2, <1>3, LapseCases, LapseType DEF Pending

LEMMA OwnersEmptied ==
    ASSUME IInv, StandingsOK(owners, clock), EntriesOutliveNoWindow,
           NEW t \in Nat, t >= clock + FAILURE_WINDOW
    PROVE  DOMAIN StatesAt(t) = {}
<1>0. TypeOK /\ clock \in Nat
  BY DEF IInv, TypeOK
<1>1. ASSUME NEW o \in DOMAIN owners PROVE Idle(Prune(owners[o], t))
  <2>1. owners[o] \in OwnerState /\ StandingOK(owners[o], clock)
    BY <1>0 DEF TypeOK, OwnerTable, Dict, StandingsOK
  <2>2. /\ \A x \in owners[o].failures : x[1] \in Nat /\ x[1] <= clock
        /\ \A x \in owners[o].issued : x[1] \in Nat /\ x[1] <= clock
    BY <2>1 DEF StandingOK, StampsOK, Stamp
  <2>3. Prune(owners[o], t).failures = {}
    <3>1. \A x \in owners[o].failures : ~(x[1] > t - FAILURE_WINDOW)
      BY <1>0, <2>2, LimitsArePositive
    <3>2. QED
      BY <3>1 DEF Prune
  <2>4. Prune(owners[o], t).issued = {}
    <3>1. \A x \in owners[o].issued : ~(x[1] > t - ISSUE_WINDOW)
      BY <1>0, <2>2, LimitsArePositive DEF EntriesOutliveNoWindow
    <3>2. QED
      BY <3>1 DEF Prune
  <2>5. Prune(owners[o], t).suspended = None
    <3>1. owners[o].suspended <= clock + SUSPEND /\ owners[o].suspended \in Nat \cup {None}
      BY <2>1 DEF StandingOK, OwnerState
    <3>2. owners[o].suspended # None => owners[o].suspended <= t
      BY <1>0, <3>1, LimitsArePositive DEF EntriesOutliveNoWindow
    <3>3. QED
      BY <3>2 DEF Prune
  <2>6. QED
    BY <2>3, <2>4, <2>5 DEF Idle
<1>2. Pending(RecordsAt(t)) = {}
  <2>1. SUFFICES ASSUME NEW id \in Pending(RecordsAt(t)) PROVE FALSE
    OBVIOUS
  <2>2. id \in DOMAIN challenges /\ t < challenges[id].expires
    BY <1>0, LaterPending DEF Pending
  <2>3. /\ id \in DOMAIN grants /\ grants[id].at + EXPIRES = challenges[id].expires
        /\ grants[id].at <= clock /\ grants[id].at \in Nat
    BY <2>2 DEF IInv, TypeOK, Dict, Grant, Bookkeeping, IssuedByUs, NotFromTheFuture
  <2>4. QED
    BY <1>0, <2>2, <2>3, LimitsArePositive DEF EntriesOutliveNoWindow
<1>3. QED
  BY <1>1, <1>2, StatesAtShape

\* A record leaves the table at its release.
LEMMA Released ==
    ASSUME IInv, NEW id \in DOMAIN Records, NEW t \in Nat, t >= Release(Records[id])
    PROVE  id \in DOMAIN challenges /\ id \notin DOMAIN RecordsAt(t)
<1> DEFINE r == challenges[id]
<1>1. /\ id \in DOMAIN challenges /\ r \in ChallengeRecord /\ clock \in Nat
      /\ Records[id] = Lapse(r, clock)
      /\ r.status = "pending" <=> r.finished = None
  BY CleanedRecord DEF IInv, TypeOK, Dict, Bookkeeping, IssuedByUs
<1>2. /\ r.expires \in Nat /\ r.finished \in Nat \cup {None} /\ None \notin Nat
      /\ r.status = "pending" => r.finished = None
      /\ r.finished = None => r.status = "pending"
  BY <1>1 DEF ChallengeRecord, None
<1>3. CASE r.status = "pending"
  <2>1. Release(Records[id]) = r.expires + RETENTION
    BY <1>1, <1>2, <1>3, LapseCases DEF Release
  <2>2. r.expires <= t /\ t >= r.expires + RETENTION
    BY <1>2, <2>1, LimitsArePositive
  <2>3. Lapse(r, t).finished = r.expires
    BY <1>1, <1>2, <1>3, <2>2, LapseCases
  <2>4. Forgotten(Lapse(r, t), t)
    BY <1>2, <2>2, <2>3 DEF Forgotten
  <2>5. QED
    BY <1>1, <2>4, RecordsAtShape
<1>4. CASE r.status # "pending"
  <2>1. Lapse(r, clock) = r /\ Lapse(r, t) = r
    BY <1>4 DEF Lapse
  <2>2. Forgotten(Lapse(r, t), t)
    BY <1>1, <1>2, <1>4, <2>1 DEF Forgotten, Release
  <2>3. QED
    BY <1>1, <2>2, RecordsAtShape
<1>5. QED
  BY <1>3, <1>4

\* One of the counted pending challenges has expired at the deadline.
LEMMA OneExpired ==
    ASSUME TypeOK, NEW S, S \subseteq Pending(Records), S # {}, NEW t \in Nat,
           t >= Earliest({Records[id].expires : id \in S})
    PROVE  \E id \in S : id \in Pending(challenges) /\ id \notin Pending(RecordsAt(t))
<1> DEFINE E == {Records[id].expires : id \in S}
<1>1. E \in SUBSET Nat /\ E # {}
  BY CleanedType DEF Dict, ChallengeRecord, Pending
<1>2. Earliest(E) \in E
  BY <1>1, EarliestType
<1>3. PICK id \in S : Earliest(E) = Records[id].expires
  BY <1>2
<1>4. /\ id \in DOMAIN Records /\ Records[id].status = "pending"
      /\ challenges[id] \in ChallengeRecord /\ clock \in Nat
  BY CleanedRecord DEF Pending, TypeOK, Dict
<1>5. id \in Pending(challenges) /\ Records[id].expires = challenges[id].expires
  BY <1>4, CleanedRecord, CleanedPending, LapseType DEF Pending
<1>6. ASSUME id \in Pending(RecordsAt(t)) PROVE FALSE
  <2>1. t < challenges[id].expires
    BY <1>6, LaterPending
  <2>2. challenges[id].expires \in Nat
    BY <1>4 DEF ChallengeRecord
  <2>3. QED
    BY <1>3, <1>5, <2>1, <2>2
<1>7. QED
  BY <1>5, <1>6

\* What each refusal says of the tables.
LEMMA RefusedBecause ==
    ASSUME NEW o, NEW t
    PROVE  /\ IssueOutcome(o, t) = "owner_storage" => NoRoom(StatesAt(t), o)
           /\ IssueOutcome(o, t) = "suspended" => Suspended(StatesAt(t), o, t)
           /\ IssueOutcome(o, t) = "record_storage" =>
                Cardinality(DOMAIN RecordsAt(t)) >= MAX_RECORDS
           /\ IssueOutcome(o, t) = "global_pending" =>
                Cardinality(Pending(RecordsAt(t))) >= MAX_TOTAL_PENDING
           /\ IssueOutcome(o, t) = "issue_limit" =>
                Cardinality(WithOwner(StatesAt(t), o)[o].issued) >= ISSUE_LIMIT
           /\ IssueOutcome(o, t) = "pending_limit" =>
                Cardinality(PendingOf(RecordsAt(t), o)) >= MAX_PENDING
           /\ IssueOutcome(o, t) \in {"owner_storage", "suspended", "record_storage",
                 "global_pending", "issue_limit", "pending_limit", "issued"}
BY DEF IssueOutcome

LEMMA HonestNow ==
    ASSUME IInv, BoundsHold, StandingsOK(owners, clock), EntriesOutliveNoWindow,
           NEW o \in Owner, IssueOutcome(o, clock) # "issued",
           IssueOutcome(o, clock + RetryAfter(o, clock)) = IssueOutcome(o, clock)
    PROVE  FALSE
<1> DEFINE t == clock + RetryAfter(o, clock)
           code == IssueOutcome(o, clock)
<1>0. /\ TypeOK /\ clock \in Nat /\ RecordsBounded(challenges)
      /\ t \in Nat /\ t >= RetryDeadline(o, clock)
      /\ IssueOutcome(o, t) = code
  BY RetryReaches DEF IInv, TypeOK, BoundsHold
<1> HIDE DEF t
<1>1. /\ IsFiniteSet(DOMAIN challenges) /\ Cardinality(DOMAIN challenges) <= MAX_RECORDS
      /\ IsFiniteSet(Pending(challenges))
      /\ Cardinality(Pending(challenges)) <= MAX_TOTAL_PENDING
      /\ IsFiniteSet(PendingOf(challenges, o))
      /\ Cardinality(PendingOf(challenges, o)) <= MAX_PENDING
  <2>1. Pending(challenges) \subseteq DOMAIN challenges
        /\ PendingOf(challenges, o) \subseteq DOMAIN challenges
    BY DEF Pending, PendingOf
  <2>2. QED
    BY <1>0, <2>1, FS_Subset DEF RecordsBounded
<1>2. Pending(RecordsAt(t)) \subseteq Pending(challenges)
  BY <1>0, LaterPending
<1>3. CASE code = "owner_storage"
  <2>1. t >= clock + FAILURE_WINDOW
    BY <1>0, <1>3 DEF RetryDeadline
  <2>2. DOMAIN StatesAt(t) = {}
    BY <1>0, <2>1, OwnersEmptied
  <2>3. ~NoRoom(StatesAt(t), o)
    BY <2>2, FS_EmptySet, LimitsArePositive DEF NoRoom
  <2>4. QED
    BY <1>0, <1>3, <2>3, RefusedBecause
<1>4. CASE code = "suspended"
  <2>1. Suspended(States, o, clock) /\ Suspended(StatesAt(t), o, t)
    BY <1>0, <1>4, RefusedBecause DEF States
  <2>2. t >= States[o].suspended
    BY <1>0, <1>4 DEF RetryDeadline, States
  <2>3. /\ o \in DOMAIN owners /\ States[o] = Prune(owners[o], clock)
        /\ StatesAt(t)[o] = Prune(owners[o], t)
    BY <2>1, StatesAtShape DEF Suspended, States
  <2>4. States[o].suspended = owners[o].suspended /\ StatesAt(t)[o].suspended = owners[o].suspended
    BY <2>1, <2>3 DEF Suspended, Prune
  <2>5. owners[o].suspended \in Nat
    BY <1>0, <2>1, <2>3, <2>4 DEF TypeOK, OwnerTable, Dict, OwnerState, Suspended
  <2>6. QED
    BY <1>0, <2>1, <2>2, <2>4, <2>5 DEF Suspended
<1>5. CASE code = "record_storage"
  <2> DEFINE releases == {Release(Records[id]) : id \in DOMAIN Records}
  <2>1. Cardinality(DOMAIN Records) >= MAX_RECORDS
    BY <1>5, RefusedBecause DEF Records
  <2>2. releases # {}
    BY <2>1, NonemptyIfCounted, LimitsArePositive
  <2>3. releases \in SUBSET Nat
    BY <1>0, CleanedType, LimitsArePositive DEF Dict, ChallengeRecord, Release
  <2>4. PICK id \in DOMAIN Records : Earliest(releases) = Release(Records[id])
    BY <2>2, <2>3, EarliestType
  <2>5. RetryDeadline(o, clock) = Earliest(releases)
    BY <1>5 DEF RetryDeadline, Records
  <2>6. id \in DOMAIN challenges /\ id \notin DOMAIN RecordsAt(t)
    BY <1>0, <2>4, <2>5, Released
  <2>7. DOMAIN RecordsAt(t) \subseteq DOMAIN challenges
    BY RecordsAtShape
  <2>8. ~(Cardinality(DOMAIN RecordsAt(t)) >= MAX_RECORDS)
    BY <1>1, <2>6, <2>7, Fewer, LimitsArePositive
  <2>9. QED
    BY <1>0, <1>5, <2>8, RefusedBecause
<1>6. CASE code = "global_pending"
  <2>1. Cardinality(Pending(Records)) >= MAX_TOTAL_PENDING
    BY <1>6, RefusedBecause DEF Records
  <2>2. Pending(Records) # {}
    BY <2>1, NonemptyIfCounted, LimitsArePositive
  <2>3. t >= Earliest({Records[id].expires : id \in Pending(Records)})
    BY <1>0, <1>6 DEF RetryDeadline, Records
  <2>4. PICK id \in Pending(challenges) : id \notin Pending(RecordsAt(t))
    BY <1>0, <2>2, <2>3, OneExpired
  <2>5. ~(Cardinality(Pending(RecordsAt(t))) >= MAX_TOTAL_PENDING)
    BY <1>1, <1>2, <2>4, Fewer, LimitsArePositive
  <2>6. QED
    BY <1>0, <1>6, <2>5, RefusedBecause
<1>7. CASE code = "issue_limit"
  <2> DEFINE stamps == {x[1] : x \in States[o].issued}
  <2>1. Cardinality(WithOwner(States, o)[o].issued) >= ISSUE_LIMIT
    BY <1>7, RefusedBecause DEF States
  <2>2. WithOwner(States, o)[o].issued # {}
    BY <2>1, NonemptyIfCounted, LimitsArePositive
  <2>3. o \in DOMAIN States /\ States[o].issued # {}
    BY <2>2 DEF WithOwner, NewOwner
  <2>4. /\ o \in DOMAIN owners /\ States[o] = Prune(owners[o], clock)
        /\ owners[o] \in OwnerState /\ IsFiniteSet(owners[o].issued)
        /\ Cardinality(owners[o].issued) <= ISSUE_LIMIT
    BY <1>0, <2>3, StatesAtShape
       DEF States, TypeOK, OwnerTable, Dict, StandingsOK, StandingOK
  <2>5. States[o].issued \subseteq owners[o].issued /\ owners[o].issued \in SUBSET Stamp
    BY <2>4 DEF Prune, OwnerState
  <2>6. stamps \in SUBSET Nat /\ stamps # {}
    BY <2>3, <2>5 DEF Stamp
  <2>7. PICK x \in States[o].issued : Earliest(stamps) = x[1]
    BY <2>6, EarliestType
  <2>8. t >= x[1] + ISSUE_WINDOW /\ x[1] \in Nat
    BY <1>0, <1>7, <2>5, <2>7 DEF RetryDeadline, States, Stamp
  <2>9. x \in owners[o].issued /\ x \notin Prune(owners[o], t).issued
    BY <1>0, <2>5, <2>7, <2>8, LimitsArePositive DEF Prune
  <2>10. WithOwner(StatesAt(t), o)[o].issued \subseteq Prune(owners[o], t).issued
    BY StatesAtShape DEF WithOwner, NewOwner
  <2>11. Prune(owners[o], t).issued \subseteq owners[o].issued
    BY DEF Prune
  <2>12. ~(Cardinality(WithOwner(StatesAt(t), o)[o].issued) >= ISSUE_LIMIT)
    BY <2>4, <2>9, <2>10, <2>11, Fewer, LimitsArePositive
  <2>13. QED
    BY <1>0, <1>7, <2>12, RefusedBecause
<1>8. CASE code = "pending_limit"
  <2>1. Cardinality(PendingOf(Records, o)) >= MAX_PENDING
    BY <1>8, RefusedBecause DEF Records
  <2>2. PendingOf(Records, o) # {} /\ PendingOf(Records, o) \subseteq Pending(Records)
    BY <2>1, NonemptyIfCounted, LimitsArePositive DEF PendingOf
  <2>3. t >= Earliest({Records[id].expires : id \in PendingOf(Records, o)})
    BY <1>0, <1>8 DEF RetryDeadline, Records
  <2>4. PICK id \in PendingOf(Records, o) :
          id \in Pending(challenges) /\ id \notin Pending(RecordsAt(t))
    BY <1>0, <2>2, <2>3, OneExpired
  <2>5. PendingOf(RecordsAt(t), o) \subseteq PendingOf(challenges, o)
    BY <1>0, <1>2, LaterPending DEF PendingOf
  <2>6. id \in PendingOf(challenges, o) /\ id \notin PendingOf(RecordsAt(t), o)
    BY <1>0, <2>4, RecordsWithin DEF PendingOf, Pending, Within
  <2>7. ~(Cardinality(PendingOf(RecordsAt(t), o)) >= MAX_PENDING)
    BY <1>1, <2>5, <2>6, Fewer, LimitsArePositive
  <2>8. QED
    BY <1>0, <1>8, <2>7, RefusedBecause
<1>9. QED
  BY <1>3, <1>4, <1>5, <1>6, <1>7, <1>8, RefusedBecause

LEMMA BoundsAlwaysHold == Spec => []BoundsHold
BY TypeInit, TypeStep, BoundedInit, BoundedStep, PTL DEF Spec

\* A client that waits as long as a refusal tells it to is not refused for the
\* same reason again, unless others acted meanwhile; for the owner table's
\* refusal this needs that nothing keeps an entry longer than the failure window.
THEOREM RetryHintsAreHonest == EntriesOutliveNoWindow => (Spec => []RetryHonest)
<1>1. ASSUME EntriesOutliveNoWindow PROVE Spec => []RetryHonest
  <2>1. IInv /\ BoundsHold /\ StandingsOK(owners, clock) => RetryHonest
    BY <1>1, HonestNow DEF RetryHonest
  <2>2. QED
    BY <2>1, Invariance, BoundsAlwaysHold, StandingsHold, PTL
<1>2. QED
  BY <1>1

-------------------------------------------------------------------------------
(* Refinement: the tables, read without cleanup, are the policy's variables  *)

PermitOf(cs, id) ==
    [id |-> id, owner |-> cs[id].owner, context |-> cs[id].context,
     until |-> cs[id].expires]
LivePermits(cs, t) == {PermitOf(cs, id) : id \in {i \in Pending(cs) : cs[i].expires > t}}
LiveStrikes(os, t) ==
    [o \in Owner |-> IF o \in DOMAIN os
                     THEN {x \in os[o].failures : x[1] > t - FAILURE_WINDOW} ELSE {}]
LiveLocks(os, t) ==
    [o \in Owner |-> IF Suspended(os, o, t) THEN os[o].suspended ELSE 0]

LEMMA PermitsMapped == IInv => OpenPermits = LivePermits(challenges, clock)
<1> SUFFICES ASSUME IInv PROVE OpenPermits = LivePermits(challenges, clock)
  OBVIOUS
<1>0. TypeOK /\ clock \in Nat
  BY DEF IInv, TypeOK
<1>1. ASSUME NEW id \in Pending(Records)
      PROVE  /\ id \in Pending(challenges) /\ challenges[id].expires > clock
             /\ Records[id] = challenges[id]
  <2>1. id \in DOMAIN Records /\ Records[id].status = "pending"
    BY DEF Pending
  <2>2. /\ id \in DOMAIN challenges /\ challenges[id].status = "pending"
        /\ clock < Records[id].expires /\ Records[id] = Lapse(challenges[id], clock)
        /\ challenges[id] \in ChallengeRecord
    BY <1>0, <2>1, CleanedRecord, CleanedPending DEF TypeOK, Dict
  <2>3. Records[id] = challenges[id]
    BY <1>0, <2>1, <2>2, LapseCases
  <2>4. challenges[id].expires > clock
    BY <1>0, <2>2, <2>3 DEF ChallengeRecord
  <2>5. QED
    BY <2>2, <2>3, <2>4 DEF Pending
<1>2. ASSUME NEW id \in Pending(challenges), challenges[id].expires > clock
      PROVE  id \in Pending(Records)
  <2>1. /\ id \in DOMAIN challenges /\ challenges[id].status = "pending"
        /\ challenges[id].expires \in Nat
        /\ challenges[id].finished = None
    BY <1>0 DEF Pending, TypeOK, Dict, ChallengeRecord, IInv, Bookkeeping, IssuedByUs
  <2>2. Lapse(challenges[id], clock) = challenges[id]
    BY <1>0, <1>2, <2>1 DEF Lapse
  <2>3. id \in DOMAIN Records /\ Records[id] = challenges[id]
    BY <2>1, <2>2, RecordsAtShape DEF Records, Forgotten
  <2>4. QED
    BY <2>1, <2>3 DEF Pending
<1>3. Pending(Records) = {i \in Pending(challenges) : challenges[i].expires > clock}
  BY <1>1, <1>2
<1>4. QED
  BY <1>1, <1>3 DEF OpenPermits, LivePermits, PermitOf

LEMMA StrikesMapped == TypeOK => StrikesNow = LiveStrikes(owners, clock)
<1> SUFFICES ASSUME TypeOK, NEW o \in Owner
             PROVE  (IF o \in DOMAIN States THEN States[o].failures ELSE {}) =
                      IF o \in DOMAIN owners
                      THEN {x \in owners[o].failures : x[1] > clock - FAILURE_WINDOW} ELSE {}
  BY DEF StrikesNow, LiveStrikes
<1>1. CASE o \in DOMAIN States
  <2>1. o \in DOMAIN owners /\ States[o] = Prune(owners[o], clock)
    BY <1>1, StatesAtShape DEF States
  <2>2. QED
    BY <1>1, <2>1 DEF Prune
<1>2. CASE o \in DOMAIN owners /\ o \notin DOMAIN States
  BY <1>2, StatesAtShape DEF States, Prune, Idle
<1>3. CASE o \notin DOMAIN owners
  BY <1>3, StatesAtShape DEF States
<1>4. QED
  BY <1>1, <1>2, <1>3

LEMMA LocksMapped == TypeOK => LockedUntil = LiveLocks(owners, clock)
<1> SUFFICES ASSUME TypeOK, NEW o \in Owner
             PROVE  (IF Suspended(States, o, clock) THEN States[o].suspended ELSE 0) =
                      IF Suspended(owners, o, clock) THEN owners[o].suspended ELSE 0
  BY DEF LockedUntil, LiveLocks
<1>1. CASE o \in DOMAIN owners
  <2>1. owners[o].suspended \in Nat \cup {None} /\ clock \in Nat
    BY <1>1 DEF TypeOK, OwnerTable, Dict, OwnerState
  <2>2. CASE o \in DOMAIN States
    <3>1. States[o] = Prune(owners[o], clock)
      BY <2>2, StatesAtShape DEF States
    <3>2. QED
      BY <1>1, <2>1, <2>2, <3>1 DEF Suspended, Prune, None
  <2>3. CASE o \notin DOMAIN States
    <3>1. Prune(owners[o], clock).suspended = None
      BY <1>1, <2>3, StatesAtShape DEF States, Idle
    <3>2. QED
      BY <1>1, <2>1, <2>3, <3>1 DEF Suspended, Prune
  <2>4. QED
    BY <2>2, <2>3
<1>2. CASE o \notin DOMAIN owners
  BY <1>2, StatesAtShape DEF States, Suspended
<1>3. QED
  BY <1>1, <1>2

\* Cleanup changes nothing a policy variable shows.
LEMMA CleanedPermits ==
    ASSUME TypeOK PROVE LivePermits(Records, clock) = OpenPermits
<1>1. ASSUME NEW id \in Pending(Records) PROVE Records[id].expires > clock
  <2>1. id \in DOMAIN Records /\ Records[id].status = "pending"
    BY DEF Pending
  <2>2. clock < Records[id].expires /\ clock \in Nat /\ Records[id].expires \in Nat
    BY <2>1, CleanedPending, CleanedType DEF TypeOK, Dict, ChallengeRecord
  <2>3. QED
    BY <2>2
<1>2. {i \in Pending(Records) : Records[i].expires > clock} = Pending(Records)
  BY <1>1
<1>3. QED
  BY <1>2 DEF OpenPermits, LivePermits, PermitOf

LEMMA CleanedStrikes ==
    ASSUME TypeOK, NEW p \in Owner
    PROVE  /\ LiveStrikes(States, clock) = StrikesNow
           /\ LiveStrikes(WithOwner(States, p), clock) = StrikesNow
<1>1. \A o \in DOMAIN States :
        {x \in States[o].failures : x[1] > clock - FAILURE_WINDOW} = States[o].failures
  <2>1. TAKE o \in DOMAIN States
  <2>2. States[o] = Prune(owners[o], clock)
    BY StatesAtShape DEF States
  <2>3. States[o].failures =
          {x \in owners[o].failures : x[1] > clock - FAILURE_WINDOW}
    BY <2>2 DEF Prune
  <2>4. QED
    BY <2>3
<1>2. LiveStrikes(States, clock) = StrikesNow
  BY <1>1 DEF LiveStrikes, StrikesNow
<1>3. LiveStrikes(WithOwner(States, p), clock) = LiveStrikes(States, clock)
  <2>1. NewOwner.failures = {}
    BY DEF NewOwner
  <2>2. QED
    BY <2>1 DEF LiveStrikes, WithOwner
<1>4. QED
  BY <1>2, <1>3

LEMMA CleanedLocks ==
    ASSUME NEW p \in Owner
    PROVE  /\ LiveLocks(States, clock) = LockedUntil
           /\ LiveLocks(WithOwner(States, p), clock) = LockedUntil
<1>1. LiveLocks(States, clock) = LockedUntil
  BY DEF LiveLocks, LockedUntil
<1>2. NewOwner.suspended = None
  BY DEF NewOwner
<1>3. ASSUME NEW o \in Owner
      PROVE  /\ Suspended(WithOwner(States, p), o, clock) <=> Suspended(States, o, clock)
             /\ o \in DOMAIN States => WithOwner(States, p)[o] = States[o]
  BY <1>2 DEF Suspended, WithOwner
<1>4. LiveLocks(WithOwner(States, p), clock) = LiveLocks(States, clock)
  BY <1>3 DEF LiveLocks, Suspended
<1>5. QED
  BY <1>1, <1>4

\* What the policy's variables show after a step.
LEMMA MappedNext ==
    IInv' => /\ OpenPermits' = LivePermits(challenges', clock')
             /\ StrikesNow' = LiveStrikes(owners', clock')
             /\ LockedUntil' = LiveLocks(owners', clock')
<1>1. IInv => TypeOK
  BY DEF IInv
<1>2. (IInv => /\ OpenPermits = LivePermits(challenges, clock)
               /\ StrikesNow = LiveStrikes(owners, clock)
               /\ LockedUntil = LiveLocks(owners, clock))'
  BY <1>1, PermitsMapped, StrikesMapped, LocksMapped, PTL
<1>3. QED
  BY <1>2 DEF LivePermits, LiveStrikes, LiveLocks, PermitOf, Pending, Suspended

LEMMA QuietMapped ==
    ASSUME IInv, IInv', NEW o \in Owner, challenges' = Records,
           owners' \in {States, WithOwner(States, o)}, UNCHANGED <<clock, grants, accepted>>
    PROVE  UNCHANGED Policy!vars
<1>0. TypeOK
  BY DEF IInv
<1>1. OpenPermits' = OpenPermits
  BY <1>0, MappedNext, CleanedPermits
<1>2. StrikesNow' = StrikesNow
  BY <1>0, MappedNext, CleanedStrikes
<1>3. LockedUntil' = LockedUntil
  BY MappedNext, CleanedLocks
<1>4. QED
  BY <1>1, <1>2, <1>3 DEF Policy!vars

\* Closing a record takes its permit away, if it was open.
LEMMA ClosedPermits ==
    ASSUME TypeOK, NEW id \in DOMAIN Records, NEW status \in Status \ {"pending"},
           Close(id, status)
    PROVE  /\ LivePermits(challenges', clock) = {p \in OpenPermits : p.id # id}
           /\ LivePermits(challenges', clock) = OpenPermits \ {PermitOf(Records, id)}
<1>1. \A i \in DOMAIN Records : Records[i] \in ChallengeRecord
  BY CleanedType DEF Dict
<1>2. /\ DOMAIN challenges' = DOMAIN Records /\ challenges'[id].status # "pending"
      /\ \A i \in DOMAIN Records \ {id} : challenges'[i] = Records[i]
  BY <1>1 DEF Close, Finish, ChallengeRecord
<1>3. Pending(challenges') = Pending(Records) \ {id}
  BY <1>2 DEF Pending
<1>4. {i \in Pending(challenges') : challenges'[i].expires > clock} =
        {i \in Pending(Records) : Records[i].expires > clock} \ {id}
  BY <1>2, <1>3 DEF Pending
<1>5. \A i \in Pending(challenges') : PermitOf(challenges', i) = PermitOf(Records, i)
  BY <1>2, <1>3 DEF PermitOf, Pending
<1>6. \A i : PermitOf(Records, i).id = i
  BY DEF PermitOf
<1>7. OpenPermits = LivePermits(Records, clock)
  BY CleanedPermits
<1>8. \A p \in OpenPermits : p = PermitOf(Records, p.id)
  BY <1>6, <1>7 DEF LivePermits
<1>9. LivePermits(challenges', clock) = {p \in OpenPermits : p.id # id}
  BY <1>4, <1>5, <1>6, <1>7 DEF LivePermits
<1>10. {p \in OpenPermits : p.id # id} = OpenPermits \ {PermitOf(Records, id)}
  BY <1>6, <1>8
<1>11. QED
  BY <1>9, <1>10

\* What counting a failure shows: one strike more, or the lock.
LEMMA MarkedStrikes ==
    ASSUME TypeOK, StandingsOK(owners, clock), NEW o \in Owner, MayTry(o)
    PROVE  LET os == WithOwner(States, o)
               ms == MarkFailure(os, o, clock)
               F == StrikesNow[o]
           IN  /\ LockedUntil[o] = 0
               /\ IF StrikesOut(os, o, clock)
                  THEN /\ Cardinality(F) + 1 >= FAIL_LIMIT
                       /\ LiveStrikes(ms, clock) = [StrikesNow EXCEPT ![o] = {}]
                       /\ LiveLocks(ms, clock) = [LockedUntil EXCEPT ![o] = clock + SUSPEND]
                  ELSE /\ Cardinality(F) + 1 < FAIL_LIMIT
                       /\ \E rank \in 0 .. FAIL_LIMIT :
                            /\ <<clock, rank>> \notin F
                            /\ LiveStrikes(ms, clock) =
                                 [StrikesNow EXCEPT ![o] = F \cup {<<clock, rank>>}]
                       /\ LiveLocks(ms, clock) = LockedUntil
<1> DEFINE os == WithOwner(States, o)
           ms == MarkFailure(os, o, clock)
           F == StrikesNow[o]
<1>1. /\ clock \in Nat /\ OwnerTable(os) /\ o \in DOMAIN os /\ os[o] \in OwnerState
      /\ StandingsOK(os, clock) /\ StampsOK(os[o].failures, clock)
  <2>1. clock \in Nat /\ OwnerTable(States) /\ StandingsOK(States, clock)
    BY CleanedType, CleanedStandings DEF TypeOK
  <2>2. OwnerTable(os) /\ o \in DOMAIN os /\ StandingsOK(os, clock)
    BY <2>1, OwnStatesType, OwnStanding
  <2>3. QED
    BY <2>1, <2>2 DEF OwnerTable, Dict, StandingsOK, StandingOK
<1>2. LockedUntil[o] = 0
  BY DEF LockedUntil, MayTry
<1>3. os[o].failures = F
  BY DEF StrikesNow, WithOwner, NewOwner
<1>4. \A x \in F : x[1] > clock - FAILURE_WINDOW
  <2>1. CASE o \in DOMAIN States
    <3>1. States[o] = Prune(owners[o], clock)
      BY <2>1, StatesAtShape DEF States
    <3>2. QED
      BY <2>1, <3>1 DEF StrikesNow, Prune
  <2>2. CASE o \notin DOMAIN States
    BY <2>2 DEF StrikesNow
  <2>3. QED
    BY <2>1, <2>2
<1>5. PICK rank \in Nat :
        /\ <<clock, rank>> \notin F /\ rank <= Cardinality(F)
        /\ Struck(os, o, clock) = F \cup {<<clock, rank>>}
        /\ Cardinality(Struck(os, o, clock)) = Cardinality(F) + 1
        /\ Cardinality(F) \in Nat
  <2> DEFINE rank == Cardinality({x \in F : x[1] = clock})
             s == <<clock, rank>>
  <2>1. /\ s \notin F /\ s \in Stamp /\ s[2] <= Cardinality(F)
        /\ WithStamp(F, clock) = F \cup {s}
        /\ Cardinality(WithStamp(F, clock)) = Cardinality(F) + 1
    BY <1>1, <1>3, WithStampCounts
  <2>2. rank \in Nat /\ s[2] = rank
    BY <2>1 DEF Stamp
  <2>3. Cardinality(F) \in Nat
    BY <1>1, <1>3, FS_CardinalityType DEF StampsOK
  <2>4. Struck(os, o, clock) = WithStamp(F, clock)
    BY <1>3 DEF Struck
  <2>5. QED
    BY <2>1, <2>2, <2>3, <2>4
<1>6. /\ DOMAIN ms = DOMAIN os
      /\ \A p \in DOMAIN os : ms[p] =
           IF p # o THEN os[p]
           ELSE IF StrikesOut(os, o, clock)
                THEN [os[o] EXCEPT !.failures = {}, !.suspended = clock + SUSPEND]
                ELSE [os[o] EXCEPT !.failures = Struck(os, o, clock)]
  BY <1>1, MarkFailureType DEF MarkFailure, OwnerTable, Dict, OwnerState
<1>7. /\ LiveStrikes(os, clock) = StrikesNow /\ LiveLocks(os, clock) = LockedUntil
  BY CleanedStrikes, CleanedLocks
<1> HIDE DEF os, ms, F
<1>8. ASSUME NEW p \in Owner, p # o
      PROVE  LiveStrikes(ms, clock)[p] = StrikesNow[p] /\ LiveLocks(ms, clock)[p] = LockedUntil[p]
  <2>1. /\ LiveStrikes(ms, clock)[p] = LiveStrikes(os, clock)[p]
        /\ LiveLocks(ms, clock)[p] = LiveLocks(os, clock)[p]
    BY <1>1, <1>6, <1>8 DEF LiveStrikes, LiveLocks, Suspended
  <2>2. QED
    BY <1>7, <2>1
<1>9. CASE StrikesOut(os, o, clock)
  <2>1. /\ ms[o].failures = {} /\ ms[o].suspended = clock + SUSPEND /\ o \in DOMAIN ms
    BY <1>1, <1>6, <1>9 DEF OwnerState
  <2>2. LiveStrikes(ms, clock)[o] = {}
    BY <2>1 DEF LiveStrikes
  <2>3. LiveLocks(ms, clock)[o] = clock + SUSPEND
    BY <1>1, <2>1, LimitsArePositive DEF LiveLocks, Suspended, None
  <2>4. /\ LiveStrikes(ms, clock) = [StrikesNow EXCEPT ![o] = {}]
        /\ LiveLocks(ms, clock) = [LockedUntil EXCEPT ![o] = clock + SUSPEND]
    BY <1>8, <2>2, <2>3 DEF LiveStrikes, LiveLocks, StrikesNow, LockedUntil
  <2>5. Cardinality(F) + 1 >= FAIL_LIMIT
    BY <1>5, <1>9 DEF StrikesOut
  <2>6. QED
    BY <1>2, <1>9, <2>4, <2>5 DEF os, ms, F
<1>10. CASE ~StrikesOut(os, o, clock)
  <2>1. /\ ms[o].failures = F \cup {<<clock, rank>>} /\ ms[o].suspended = os[o].suspended
        /\ o \in DOMAIN ms
    BY <1>1, <1>5, <1>6, <1>10 DEF OwnerState
  <2>2. LiveStrikes(ms, clock)[o] = F \cup {<<clock, rank>>}
    <3>1. clock > clock - FAILURE_WINDOW
      BY <1>1, LimitsArePositive
    <3>2. \A x \in F \cup {<<clock, rank>>} : x[1] > clock - FAILURE_WINDOW
      BY <1>4, <3>1
    <3>3. LiveStrikes(ms, clock)[o] = {x \in ms[o].failures : x[1] > clock - FAILURE_WINDOW}
      BY <2>1 DEF LiveStrikes
    <3>4. QED
      BY <2>1, <3>2, <3>3
  <2>3. LiveLocks(ms, clock)[o] = LockedUntil[o]
    <3>1. LiveLocks(ms, clock)[o] = LiveLocks(os, clock)[o]
      BY <1>1, <2>1 DEF LiveLocks, Suspended
    <3>2. QED
      BY <1>7, <3>1
  <2>4. LiveStrikes(ms, clock) = [StrikesNow EXCEPT ![o] = F \cup {<<clock, rank>>}]
    BY <1>8, <2>2 DEF LiveStrikes, StrikesNow
  <2>5. LiveLocks(ms, clock) = LockedUntil
    BY <1>8, <2>3 DEF LiveLocks, LockedUntil
  <2>6. Cardinality(F) + 1 < FAIL_LIMIT
    BY <1>5, <1>10, LimitsArePositive DEF StrikesOut
  <2>7. rank \in 0 .. FAIL_LIMIT
    BY <1>5, <2>6, LimitsArePositive
  <2>8. QED
    BY <1>2, <1>5, <1>10, <2>4, <2>5, <2>6, <2>7 DEF os, ms, F
<1>11. QED
  BY <1>9, <1>10 DEF os

\* The policy's Cardinality is the one of FiniteSets.
LEMMA SameCount == \A S : Policy!Cardinality(S) = Cardinality(S)
BY DEF Policy!Cardinality, Cardinality

LEMMA StrikeMapped ==
    ASSUME IInv, IInv', StandingsOK(owners, clock), NEW o \in Owner, MayTry(o),
           NEW id, challenges' = Records \/ (Holds(o, id) /\ Close(id, "failed")),
           owners' = MarkFailure(WithOwner(States, o), o, clock),
           UNCHANGED <<clock, grants, accepted>>
    PROVE  Policy!Strike(o)
<1>0. TypeOK
  BY DEF IInv
<1>1. OpenPermits' = LivePermits(challenges', clock)
  BY MappedNext
<1>2. /\ OpenPermits' \subseteq OpenPermits
      /\ OpenPermits \ OpenPermits' \subseteq {p \in OpenPermits : p.owner = o}
      /\ Cardinality(OpenPermits \ OpenPermits') <= 1
  <2>1. CASE challenges' = Records
    <3>1. OpenPermits' = OpenPermits
      BY <1>0, <1>1, <2>1, CleanedPermits
    <3>2. OpenPermits \ OpenPermits' = {}
      BY <3>1
    <3>3. QED
      BY <3>1, <3>2, FS_EmptySet
  <2>2. CASE Holds(o, id) /\ Close(id, "failed")
    <3>1. OpenPermits' = OpenPermits \ {PermitOf(Records, id)}
      BY <1>0, <1>1, <2>2, ClosedPermits DEF Holds, Status
    <3>2. PermitOf(Records, id).owner = o
      BY <2>2 DEF Holds, PermitOf
    <3>3. OpenPermits \ OpenPermits' \in {{}, {PermitOf(Records, id)}}
      BY <3>1
    <3>4. Cardinality({}) = 0 /\ Cardinality({PermitOf(Records, id)}) = 1
      BY FS_EmptySet, FS_Singleton
    <3>5. Cardinality(OpenPermits \ OpenPermits') <= 1
      BY <3>3, <3>4
    <3>6. QED
      BY <3>1, <3>2, <3>5
  <2>3. QED
    BY <2>1, <2>2
<1>3. /\ StrikesNow' = LiveStrikes(MarkFailure(WithOwner(States, o), o, clock), clock)
      /\ LockedUntil' = LiveLocks(MarkFailure(WithOwner(States, o), o, clock), clock)
  BY MappedNext
<1>4. /\ LockedUntil[o] = 0
      /\ \/ /\ Cardinality(StrikesNow[o]) + 1 < FAIL_LIMIT
            /\ \E rank \in 0 .. FAIL_LIMIT :
                 /\ <<clock, rank>> \notin StrikesNow[o]
                 /\ StrikesNow' =
                      [StrikesNow EXCEPT ![o] = StrikesNow[o] \cup {<<clock, rank>>}]
            /\ LockedUntil' = LockedUntil
         \/ /\ Cardinality(StrikesNow[o]) + 1 >= FAIL_LIMIT
            /\ StrikesNow' = [StrikesNow EXCEPT ![o] = {}]
            /\ LockedUntil' = [LockedUntil EXCEPT ![o] = clock + SUSPEND]
  <2> DEFINE os == WithOwner(States, o)
             ms == MarkFailure(os, o, clock)
  <2>1. /\ LockedUntil[o] = 0
        /\ IF StrikesOut(os, o, clock)
           THEN /\ Cardinality(StrikesNow[o]) + 1 >= FAIL_LIMIT
                /\ LiveStrikes(ms, clock) = [StrikesNow EXCEPT ![o] = {}]
                /\ LiveLocks(ms, clock) = [LockedUntil EXCEPT ![o] = clock + SUSPEND]
           ELSE /\ Cardinality(StrikesNow[o]) + 1 < FAIL_LIMIT
                /\ \E rank \in 0 .. FAIL_LIMIT :
                     /\ <<clock, rank>> \notin StrikesNow[o]
                     /\ LiveStrikes(ms, clock) =
                          [StrikesNow EXCEPT ![o] = StrikesNow[o] \cup {<<clock, rank>>}]
                /\ LiveLocks(ms, clock) = LockedUntil
    BY <1>0, MarkedStrikes
  <2>2. StrikesNow' = LiveStrikes(ms, clock) /\ LockedUntil' = LiveLocks(ms, clock)
    BY <1>3
  <2> HIDE DEF os, ms
  <2>3. QED
    BY <2>1, <2>2
<1>5. UNCHANGED <<clock, DOMAIN grants, DOMAIN accepted>>
  OBVIOUS
<1>6. QED
  BY <1>2, <1>4, <1>5, SameCount DEF Policy!Strike, Policy!OpenOf

LEMMA GrantMapped ==
    ASSUME IInv, IInv', NEW o \in Owner, NEW c \in Context, NEW id \in Id,
           IssueGranted(o, c, id), BoundsHold
    PROVE  Policy!GrantPermit(o, c, id)
<1> DEFINE cs == Put(Records, id, NewRecord(o, c))
           os == WithOwner(States, o)
           permit == [id |-> id, owner |-> o, context |-> c, until |-> clock + EXPIRES]
<1>0. /\ TypeOK /\ clock \in Nat /\ clock' = clock /\ id \notin DOMAIN grants
      /\ challenges' = cs /\ UNCHANGED accepted
      /\ grants' = Put(grants, id, Noted(o, c))
      /\ RecordsBounded(Records)
  <2>1. TypeOK /\ RecordsBounded(challenges)
    BY DEF IInv, BoundsHold
  <2>2. RecordsBounded(Records)
    BY <2>1, RecordsWithin, WithinBounded
  <2>3. QED
    BY <2>1, <2>2 DEF TypeOK, IssueGranted
<1>1. DOMAIN grants' = DOMAIN grants \cup {id} /\ DOMAIN accepted' = DOMAIN accepted
  BY <1>0 DEF Put
<1>2. LockedUntil[o] = 0
  BY GrantedRoom DEF IssueGranted, LockedUntil
<1>3. /\ IsFiniteSet(OpenPermits) /\ Cardinality(OpenPermits) < MAX_TOTAL_PENDING
      /\ Cardinality({p \in OpenPermits : p.owner = o}) < MAX_PENDING
  <2>1. /\ ~(Cardinality(Pending(Records)) >= MAX_TOTAL_PENDING)
        /\ ~(Cardinality(PendingOf(Records, o)) >= MAX_PENDING)
    BY GrantedRoom DEF IssueGranted
  <2>2. IsFiniteSet(Pending(Records)) /\ IsFiniteSet(PendingOf(Records, o))
    <3>1. Pending(Records) \subseteq DOMAIN Records /\ PendingOf(Records, o) \subseteq DOMAIN Records
      BY DEF Pending, PendingOf
    <3>2. QED
      BY <1>0, <3>1, FS_Subset DEF RecordsBounded
  <2>3. ASSUME NEW S, IsFiniteSet(S)
        PROVE  /\ IsFiniteSet({PermitOf(Records, i) : i \in S})
               /\ Cardinality({PermitOf(Records, i) : i \in S}) <= Cardinality(S)
    <3> DEFINE f == [i \in S |-> PermitOf(Records, i)]
               T == {PermitOf(Records, i) : i \in S}
    <3>1. f \in Surjection(S, T)
      BY DEF Surjection
    <3> HIDE DEF f, T
    <3>2. IsFiniteSet(T) /\ Cardinality(T) <= Cardinality(S)
      BY <2>3, <3>1, FS_Surjection
    <3>3. QED
      BY <3>2 DEF T
  <2>4. OpenPermits = {PermitOf(Records, i) : i \in Pending(Records)}
    BY DEF OpenPermits, PermitOf
  <2>5. {p \in OpenPermits : p.owner = o} = {PermitOf(Records, i) : i \in PendingOf(Records, o)}
    BY <2>4 DEF PermitOf, PendingOf
  <2>6. /\ IsFiniteSet(OpenPermits) /\ Cardinality(OpenPermits) <= Cardinality(Pending(Records))
        /\ Cardinality({p \in OpenPermits : p.owner = o}) <= Cardinality(PendingOf(Records, o))
        /\ IsFiniteSet({p \in OpenPermits : p.owner = o})
    BY <2>2, <2>3, <2>4, <2>5
  <2>7. /\ Cardinality(OpenPermits) \in Nat /\ Cardinality(Pending(Records)) \in Nat
        /\ Cardinality({p \in OpenPermits : p.owner = o}) \in Nat
        /\ Cardinality(PendingOf(Records, o)) \in Nat
    BY <2>2, <2>6, FS_CardinalityType
  <2>8. QED
    BY <2>1, <2>6, <2>7, LimitsArePositive
<1>4. OpenPermits' = OpenPermits \cup {permit}
  <2>1. OpenPermits' = LivePermits(cs, clock) /\ OpenPermits = LivePermits(Records, clock)
    BY <1>0, MappedNext, CleanedPermits
  <2>2. id \notin DOMAIN Records
    BY <1>0, CleanedIssued DEF IssuedByUs
  <2>3. /\ DOMAIN cs = DOMAIN Records \cup {id} /\ cs[id] = NewRecord(o, c)
        /\ \A i \in DOMAIN Records : cs[i] = Records[i]
    BY <2>2 DEF Put
  <2>4. /\ cs[id].status = "pending" /\ cs[id].expires = clock + EXPIRES
        /\ clock + EXPIRES > clock /\ PermitOf(cs, id) = permit
    BY <1>0, <2>3, LimitsArePositive DEF NewRecord, PermitOf
  <2> HIDE DEF cs, permit
  <2>5. Pending(cs) = Pending(Records) \cup {id}
    BY <2>2, <2>3, <2>4 DEF Pending
  <2>6. \A i \in Pending(Records) :
          cs[i] = Records[i] /\ PermitOf(cs, i) = PermitOf(Records, i)
    BY <2>3 DEF Pending, PermitOf
  <2>7. LivePermits(cs, clock) = LivePermits(Records, clock) \cup {permit}
    BY <2>4, <2>5, <2>6 DEF LivePermits
  <2>8. QED
    BY <2>1, <2>7
<1>5. StrikesNow' = StrikesNow /\ LockedUntil' = LockedUntil
  <2>1. OwnerTable(os) /\ o \in DOMAIN os
    BY <1>0, OwnStatesType
  <2>2. /\ DOMAIN owners' = DOMAIN os
        /\ \A p \in DOMAIN os : /\ owners'[p].failures = os[p].failures
                                /\ owners'[p].suspended = os[p].suspended
    BY <2>1 DEF IssueGranted, OwnerTable, Dict, OwnerState
  <2> HIDE DEF os
  <2>3. LiveStrikes(owners', clock) = LiveStrikes(os, clock)
    BY <2>2 DEF LiveStrikes
  <2>4. LiveLocks(owners', clock) = LiveLocks(os, clock)
    BY <2>2 DEF LiveLocks, Suspended
  <2>5. LiveStrikes(os, clock) = StrikesNow /\ LiveLocks(os, clock) = LockedUntil
    BY <1>0, CleanedStrikes, CleanedLocks DEF os
  <2>6. QED
    BY <1>0, <2>3, <2>4, <2>5, MappedNext
<1>6. QED
  BY <1>0, <1>1, <1>2, <1>3, <1>4, <1>5, SameCount DEF Policy!GrantPermit, Policy!OpenOf

LEMMA AcceptMapped ==
    ASSUME IInv, IInv', NEW o \in Owner, NEW c \in Context, NEW id \in Id,
           VerifyAccepted(o, c, id)
    PROVE  \E p \in OpenPermits : Policy!Accept(p)
<1> DEFINE p == PermitOf(Records, id)
<1>0. /\ TypeOK /\ UNCHANGED <<clock, grants>> /\ Close(id, "used")
      /\ id \in DOMAIN Records /\ Records[id].owner = o /\ Records[id].status = "pending"
      /\ accepted' = Put(accepted, id, Noted(o, c)) /\ owners' = WithOwner(States, o)
      /\ MayTry(o)
  BY DEF IInv, VerifyAccepted, Admitted, Holds
<1>1. p \in OpenPermits /\ p.id = id /\ p.owner = o
  BY <1>0 DEF OpenPermits, PermitOf, Pending
<1>2. DOMAIN accepted' = DOMAIN accepted \cup {id}
  BY <1>0 DEF Put
<1>3. LockedUntil[o] = 0
  BY <1>0 DEF LockedUntil, MayTry
<1>4. OpenPermits' = OpenPermits \ {p}
  BY <1>0, MappedNext, ClosedPermits DEF Status
<1>5. StrikesNow' = StrikesNow /\ LockedUntil' = LockedUntil
  BY <1>0, MappedNext, CleanedStrikes, CleanedLocks
<1> HIDE DEF p
<1>6. Policy!Accept(p)
  BY <1>0, <1>1, <1>2, <1>3, <1>4, <1>5 DEF Policy!Accept
<1>7. QED
  BY <1>1, <1>6

LEMMA TickMapped == ASSUME IInv, IInv', Tick PROVE Policy!Tick
<1>0. /\ TypeOK /\ clock \in Nat /\ clock' = clock + 1
      /\ UNCHANGED <<challenges, owners, grants, accepted>>
  BY DEF IInv, TypeOK, Tick, history
<1>1. OpenPermits' = {p \in OpenPermits : p.until > clock'}
  <2>1. /\ OpenPermits' = LivePermits(challenges, clock + 1)
        /\ OpenPermits = LivePermits(challenges, clock)
    BY <1>0, MappedNext, PermitsMapped
  <2>2. \A i : PermitOf(challenges, i).until = challenges[i].expires
    BY DEF PermitOf
  <2>3. \A i \in Pending(challenges) : challenges[i].expires \in Nat
    BY <1>0 DEF TypeOK, Dict, ChallengeRecord, Pending
  <2>4. {i \in Pending(challenges) : challenges[i].expires > clock + 1} =
          {i \in {j \in Pending(challenges) : challenges[j].expires > clock} :
             challenges[i].expires > clock + 1}
    BY <1>0, <2>3
  <2>5. LivePermits(challenges, clock + 1) =
          {p \in LivePermits(challenges, clock) : p.until > clock + 1}
    BY <2>2, <2>4 DEF LivePermits
  <2>6. QED
    BY <1>0, <2>1, <2>5
<1>2. StrikesNow' = [o \in Owner |-> {s \in StrikesNow[o] : s[1] > clock' - FAILURE_WINDOW}]
  <2>1. StrikesNow' = LiveStrikes(owners, clock') /\ StrikesNow = LiveStrikes(owners, clock)
    BY <1>0, MappedNext, StrikesMapped
  <2>2. ASSUME NEW o \in Owner
        PROVE  LiveStrikes(owners, clock')[o] =
                 {s \in StrikesNow[o] : s[1] > clock' - FAILURE_WINDOW}
    <3>1. CASE o \in DOMAIN owners
      <4>1. \A x \in owners[o].failures : x[1] \in Nat
        BY <1>0, <3>1 DEF TypeOK, OwnerTable, Dict, OwnerState, Stamp
      <4>2. StrikesNow[o] = {x \in owners[o].failures : x[1] > clock - FAILURE_WINDOW}
        BY <2>1, <3>1 DEF LiveStrikes
      <4>3. LiveStrikes(owners, clock')[o] =
              {x \in owners[o].failures : x[1] > clock' - FAILURE_WINDOW}
        BY <3>1 DEF LiveStrikes
      <4>4. QED
        BY <1>0, <4>1, <4>2, <4>3, LimitsArePositive
    <3>2. CASE o \notin DOMAIN owners
      BY <2>1, <3>2 DEF LiveStrikes
    <3>3. QED
      BY <3>1, <3>2
  <2>3. LiveStrikes(owners, clock') =
          [o \in Owner |-> {s \in StrikesNow[o] : s[1] > clock' - FAILURE_WINDOW}]
    BY <2>2 DEF LiveStrikes
  <2>4. QED
    BY <2>1, <2>3
<1>3. LockedUntil' = [o \in Owner |-> IF LockedUntil[o] > clock' THEN LockedUntil[o] ELSE 0]
  <2>1. /\ LockedUntil' = LiveLocks(owners, clock + 1)
        /\ LockedUntil = LiveLocks(owners, clock)
    BY <1>0, MappedNext, LocksMapped
  <2>2. ASSUME NEW o \in Owner
        PROVE  LiveLocks(owners, clock + 1)[o] =
                 IF LiveLocks(owners, clock)[o] > clock + 1
                 THEN LiveLocks(owners, clock)[o] ELSE 0
    <3>1. o \in DOMAIN owners => owners[o].suspended \in Nat \cup {None}
      BY <1>0 DEF TypeOK, OwnerTable, Dict, OwnerState
    <3>2. QED
      BY <1>0, <3>1 DEF LiveLocks, Suspended, None
  <2>3. LiveLocks(owners, clock + 1) =
          [o \in Owner |-> IF LiveLocks(owners, clock)[o] > clock + 1
                           THEN LiveLocks(owners, clock)[o] ELSE 0]
    BY <2>2 DEF LiveLocks
  <2>4. QED
    BY <1>0, <2>1, <2>3
<1>4. QED
  BY <1>0, <1>1, <1>2, <1>3 DEF Policy!Tick

LEMMA EmptyMapped ==
    ASSUME NEW t
    PROVE  /\ LivePermits(Empty, t) = {}
           /\ LiveStrikes(Empty, t) = [o \in Owner |-> {}]
           /\ LiveLocks(Empty, t) = [o \in Owner |-> 0]
<1>1. DOMAIN Empty = {}
  BY DEF Empty
<1>2. Pending(Empty) = {}
  BY <1>1 DEF Pending
<1>3. QED
  BY <1>1, <1>2 DEF LivePermits, LiveStrikes, LiveLocks, Suspended

LEMMA RestartMapped == ASSUME IInv, IInv', Restart PROVE Policy!Forget
<1>1. /\ OpenPermits' = {} /\ StrikesNow' = [o \in Owner |-> {}]
      /\ LockedUntil' = [o \in Owner |-> 0]
  BY MappedNext, EmptyMapped DEF Restart
<1>2. UNCHANGED <<clock, DOMAIN grants, DOMAIN accepted>>
  BY DEF Restart
<1>3. QED
  BY <1>1, <1>2 DEF Policy!Forget

LEMMA InitMapped == ASSUME Init PROVE Policy!Init
<1>1. IInv /\ TypeOK
  BY InvInit DEF IInv
<1>2. /\ OpenPermits = LivePermits(Empty, 0) /\ StrikesNow = LiveStrikes(Empty, 0)
      /\ LockedUntil = LiveLocks(Empty, 0)
  BY <1>1, PermitsMapped, StrikesMapped, LocksMapped DEF Init
<1>3. clock = 0 /\ DOMAIN grants = {} /\ DOMAIN accepted = {}
  BY DEF Init, Empty
<1>4. QED
  BY <1>2, <1>3, EmptyMapped DEF Policy!Init

LEMMA VerifyMapped ==
    ASSUME IInv, IInv', StandingsOK(owners, clock),
           NEW o \in Owner, NEW c \in Context, NEW id \in Id, Verify(o, c, id)
    PROVE  \/ UNCHANGED Policy!vars
           \/ Policy!Strike(o)
           \/ \E p \in OpenPermits : Policy!Accept(p)
<1> USE DEF history
<1>1. CASE VerifyUnknown(o, id)
  <2>1. CASE MayTry(o)
    BY <1>1, <2>1, StrikeMapped DEF VerifyUnknown
  <2>2. CASE ~MayTry(o)
    BY <1>1, <2>2, QuietMapped DEF VerifyUnknown
  <2>3. QED
    BY <2>1, <2>2
<1>2. CASE VerifyForeign(o, id)
  BY <1>2, StrikeMapped DEF VerifyForeign, CountFailure
<1>3. CASE VerifyUsed(o, id)
  BY <1>3, QuietMapped DEF VerifyUsed
<1>4. CASE VerifyBlocked(o, id)
  BY <1>4, QuietMapped DEF VerifyBlocked
<1>5. CASE VerifyMismatch(o, c, id)
  BY <1>5, StrikeMapped DEF VerifyMismatch, Admitted, CountFailure
<1>6. CASE VerifyExpired(o, c, id)
  BY <1>6, QuietMapped DEF VerifyExpired
<1>7. CASE VerifyFailed(o, c, id)
  BY <1>7, StrikeMapped DEF VerifyFailed, Admitted, CountFailure
<1>8. CASE VerifyIncorrect(o, c, id)
  BY <1>8, StrikeMapped DEF VerifyIncorrect, Admitted, CountFailure
<1>9. CASE VerifyAccepted(o, c, id)
  BY <1>9, AcceptMapped
<1>10. QED
  BY <1>1, <1>2, <1>3, <1>4, <1>5, <1>6, <1>7, <1>8, <1>9 DEF Verify

LEMMA IdleMapped ==
    ASSUME IInv, IInv', UNCHANGED <<clock, challenges, owners, grants, accepted>>
    PROVE  UNCHANGED Policy!vars
<1>1. TypeOK
  BY DEF IInv
<1>2. /\ OpenPermits' = OpenPermits /\ StrikesNow' = StrikesNow
      /\ LockedUntil' = LockedUntil
  BY <1>1, MappedNext, PermitsMapped, StrikesMapped, LocksMapped
<1>3. QED
  BY <1>2 DEF Policy!vars

LEMMA StepMapped ==
    ASSUME IInv, IInv', BoundsHold, StandingsOK(owners, clock), [Next]_vars
    PROVE  [Policy!Next]_(Policy!vars)
<1>1. ASSUME NEW o \in Owner, IssueRefused(o) PROVE UNCHANGED Policy!vars
  BY <1>1, IssueOwners, QuietMapped DEF IssueRefused, history
<1>2. ASSUME NEW o \in Owner, NEW c \in Context, NEW id \in Id, IssueGranted(o, c, id)
      PROVE  Policy!Next
  BY <1>2, GrantMapped DEF Policy!Next
<1>3. ASSUME NEW o \in Owner, NEW c \in Context, NEW id \in Id, Verify(o, c, id)
      PROVE  Policy!Next \/ UNCHANGED Policy!vars
  BY <1>3, VerifyMapped DEF Policy!Next
<1>4. CASE Tick
  BY <1>4, TickMapped DEF Policy!Next
<1>5. CASE Restart
  BY <1>5, RestartMapped DEF Policy!Next
<1>6. CASE UNCHANGED vars
  BY <1>6, IdleMapped DEF vars
<1>7. QED
  BY <1>1, <1>2, <1>3, <1>4, <1>5, <1>6 DEF Next

\* The manager implements the attempt policy: seen through what still counts,
\* its lazily cleaned tables behave as permits and strikes that lapse on time.
\* Every issue, verification, tick and restart is a step of the policy or none.
THEOREM ImplementsPolicy == Spec => PolicySpec
<1>1. Init => Policy!Init
  BY InitMapped
<1>2. IInv /\ IInv' /\ BoundsHold /\ StandingsOK(owners, clock) /\ [Next]_vars
        => [Policy!Next]_(Policy!vars)
  BY StepMapped
<1>3. QED
  BY <1>1, <1>2, Invariance, BoundsAlwaysHold, StandingsHold, PTL
     DEF Spec, PolicySpec, Policy!Spec

===============================================================================
