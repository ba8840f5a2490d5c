----------------------------- MODULE AttemptPolicy -----------------------------
(***************************************************************************)
(* What the challenge manager promises, without saying how: permits that   *)
(* are granted once and spent once, and strikes that lock an owner out.    *)
(* There are no tables, no cleanup and no capacity; a permit, a strike or  *)
(* a lock is gone in the very step the clock reaches its end.              *)
(***************************************************************************)
EXTENDS Integers, FiniteSets

CONSTANTS Owner, Context, Id, EXPIRES, FAIL_LIMIT, FAILURE_WINDOW, SUSPEND,
          MAX_PENDING, MAX_TOTAL_PENDING

VARIABLES
    now,
    open,     \* the permits that can still be spent
    granted,  \* every id ever granted
    spent,    \* every id ever accepted
    strikes,  \* strikes[o]: the failures of o that still count
    locked    \* locked[o]: when the suspension of o ends, 0 if there is none

vars == <<now, open, granted, spent, strikes, locked>>

Permit == [id: Id, owner: Owner, context: Context, until: Nat]
OpenOf(o) == {p \in open : p.owner = o}

Init ==
    /\ now = 0
    /\ open = {} /\ granted = {} /\ spent = {}
    /\ strikes = [o \in Owner |-> {}]
    /\ locked = [o \in Owner |-> 0]

Tick ==
    /\ now' = now + 1
    /\ open' = {p \in open : p.until > now'}
    /\ strikes' = [o \in Owner |->
                     {s \in strikes[o] : s[1] > now' - FAILURE_WINDOW}]
    /\ locked' = [o \in Owner |-> IF locked[o] > now' THEN locked[o] ELSE 0]
    /\ UNCHANGED <<granted, spent>>

GrantPermit(o, c, id) ==
    /\ id \notin granted
    /\ granted' = granted \cup {id}
    /\ locked[o] = 0
    /\ Cardinality(OpenOf(o)) < MAX_PENDING
    /\ Cardinality(open) < MAX_TOTAL_PENDING
    /\ open' = open \cup {[id |-> id, owner |-> o, context |-> c,
                           until |-> now + EXPIRES]}
    /\ UNCHANGED <<now, spent, strikes, locked>>

Accept(p) ==
    /\ spent' = spent \cup {p.id}
    /\ locked[p.owner] = 0
    /\ open' = open \ {p}
    /\ UNCHANGED <<now, granted, strikes, locked>>

\* A failed attempt may void one permit of the one who fails.  The
\* FAIL_LIMIT-th strike that still counts locks the owner out.
Strike(o) ==
    /\ UNCHANGED <<now, granted, spent>>
    /\ locked[o] = 0
    /\ open' \subseteq open
    /\ open \ open' \subseteq OpenOf(o) /\ Cardinality(open \ open') <= 1
    /\ \/ /\ Cardinality(strikes[o]) + 1 < FAIL_LIMIT
          /\ \E rank \in 0 .. FAIL_LIMIT :
                /\ <<now, rank>> \notin strikes[o]
                /\ strikes' = [strikes EXCEPT ![o] = @ \cup {<<now, rank>>}]
          /\ UNCHANGED locked
       \/ /\ Cardinality(strikes[o]) + 1 >= FAIL_LIMIT
          /\ strikes' = [strikes EXCEPT ![o] = {}]
          /\ locked' = [locked EXCEPT ![o] = now + SUSPEND]

\* A restart forgets everything but what was granted and what was spent.
Forget ==
    /\ UNCHANGED <<now, granted, spent>>
    /\ open' = {}
    /\ strikes' = [o \in Owner |-> {}]
    /\ locked' = [o \in Owner |-> 0]

Next ==
    \/ Tick
    \/ \E o \in Owner, c \in Context, id \in Id : GrantPermit(o, c, id)
    \/ \E p \in open : Accept(p)
    \/ \E o \in Owner : Strike(o)
    \/ Forget

Spec == Init /\ [][Next]_vars
===============================================================================
