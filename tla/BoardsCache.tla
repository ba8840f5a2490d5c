------------------------------ MODULE BoardsCache ------------------------------
(***************************************************************************)
(* The per-agent cache of board lists (cache.py), _load_boards of          *)
(* tools/activity.py that reads and fills it, and the places that          *)
(* invalidate it.  The cache functions are synchronous; _load_boards       *)
(* awaits the backend between begin_boards_load and set_boards_cache, and  *)
(* there other tasks of the same process run.                              *)
(*                                                                         *)
(* A board list is the moment at which the backend produced it.  The       *)
(* backend may change anything at each tick of the clock and nothing       *)
(* between two ticks, so a later moment is a newer list.                   *)
(***************************************************************************)
EXTENDS Integers, FiniteSets

CONSTANTS
    Agent,        \* cache keys: the digest of an agent's token
    Task,         \* request handlers of the event loop
    TTL,          \* BOARDS_CACHE_TTL_SECONDS
    MAX_ENTRIES,  \* _MAX_CACHE_ENTRIES
    DEADLINE,     \* the client's limit on the time a request takes
    MaxClock      \* bound: the clock stops here

\* The time to live is read with int(): nothing keeps it positive.
ASSUME CacheLimits ==
    TTL \in Int /\ MAX_ENTRIES \in Nat \ {0} /\ DEADLINE \in Nat /\ MaxClock \in Nat

VARIABLES
    clock,   \* time.monotonic(), in ticks
    cache,   \* _boards_cache: agent -> entry
    loads,   \* _pending_loads: agent -> tasks whose tickets are registered
    task,    \* what each task is at, and the ticket it holds
    result,  \* what _load_boards returned in the last step
    fence    \* history: when the agent's cache was last invalidated

vars == <<clock, cache, loads, task, result, fence>>

-------------------------------------------------------------------------------
(* A Python dict remembers the order of insertion: an entry knows the keys  *)
(* that were inserted before it.                                            *)

Entry == [created: Nat, read: Nat, before: SUBSET Agent]

Without(c, gone) ==
    [a \in DOMAIN c \ gone |-> [c[a] EXCEPT !.before = @ \ gone]]

\* Fault: the entry is overwritten where it stands instead of popped first.
InsertInPlace(c, a, now, read) ==
    [b \in DOMAIN c \cup {a} |->
        IF b = a THEN [created |-> now, read |-> read,
                       before |-> IF a \in DOMAIN c THEN c[a].before
                                  ELSE DOMAIN c]
        ELSE c[b]]

\* pop(key), then the assignment.
Insert(c, a, now, read) ==
    LET rest == Without(c, {a})
    IN  [b \in DOMAIN c \cup {a} |->
            IF b = a THEN [created |-> now, read |-> read,
                           before |-> DOMAIN rest]
            ELSE rest[b]]

\* next(iter(_boards_cache))
First(c) == {a \in DOMAIN c : c[a].before = {}}

\* The load a task is in.  "sent": the request is out; "served": the backend
\* has produced the list; "denied": it answered 401, 403 or 404.
Phase == {"sent", "served", "denied"}
Load == [phase: Phase, agent: Agent, valid: BOOLEAN, asked: Nat, read: Nat,
         floor: Nat]
Idle == [phase |-> "idle"]
Loading(t) == task[t] # Idle

Result == [read: Nat, floor: Nat, hit: BOOLEAN]
Nothing == [hit |-> "none"]

TypeOK ==
    /\ clock \in Nat
    /\ DOMAIN cache \subseteq Agent
    /\ cache \in [DOMAIN cache -> Entry]
    /\ DOMAIN loads \subseteq Agent
    /\ loads \in [DOMAIN loads -> (SUBSET Task) \ {{}}]   \* no key outlives its tickets
    /\ task \in [Task -> Load \cup {Idle}]
    /\ result \in Result \cup {Nothing}
    /\ fence \in [Agent -> Nat]

-------------------------------------------------------------------------------
(* cache.py *)

\* _expire_entries
Live == Without(cache, {a \in DOMAIN cache : clock - cache[a].created >= TTL})

TicketsOf(a) == IF a \in DOMAIN loads THEN loads[a] ELSE {}

\* The tasks after the tickets in S are marked invalid.
Invalidated(S) ==
    [t \in Task |-> IF t \in S THEN [task[t] EXCEPT !.valid = FALSE] ELSE task[t]]

\* Fault: the tickets are forgotten, but not marked invalid.
RevokedOnlyForgotten(a) == task
Revoked(a) == Invalidated(TicketsOf(a))

Cleared(a) == Without(cache, {a})

Unregistered(a) == [b \in DOMAIN loads \ {a} |-> loads[b]]

\* clear_boards_cache(agent_token)
Clear(a) ==
    /\ cache' = Cleared(a)
    /\ loads' = Unregistered(a)
    /\ task' = Revoked(a)
    /\ fence' = [fence EXCEPT ![a] = clock]

\* begin_boards_load, in a table ls
Registered(ls, a, t) ==
    [b \in DOMAIN ls \cup {a} |->
        IF b # a THEN ls[b]
        ELSE {t} \cup (IF a \in DOMAIN ls THEN ls[a] ELSE {})]

\* finish_boards_load
Finished(t) ==
    [a \in {b \in DOMAIN loads : loads[b] # {t} \/ task[t].agent # b} |->
        IF a = task[t].agent THEN loads[a] \ {t} ELSE loads[a]]

\* The agent's own entry is popped first; the oldest entry of another agent makes room.
RoomFor(c, a) ==
    IF Cardinality(DOMAIN Without(c, {a})) >= MAX_ENTRIES
    THEN Without(c, First(Without(c, {a}))) ELSE c

\* Fault: the ticket is not looked at.
StoredUnfenced(t) ==
    Insert(RoomFor(Live, task[t].agent), task[t].agent, clock, task[t].read)

\* set_boards_cache under the task's ticket
Stored(t) ==
    IF task[t].valid
    THEN Insert(RoomFor(Live, task[t].agent), task[t].agent, clock, task[t].read)
    ELSE cache

-------------------------------------------------------------------------------
(* _load_boards *)

Started(a, floor) ==
    [phase |-> "sent", agent |-> a, valid |-> TRUE, asked |-> clock, read |-> 0,
     floor |-> floor]

\* Fault: the lookup does not expire entries first.
ReadCachedUnexpired(a) ==
    /\ a \in DOMAIN cache
    /\ cache' = cache
    /\ result' = [read |-> cache[a].read, floor |-> fence[a], hit |-> TRUE]
    /\ UNCHANGED <<clock, loads, task, fence>>

ReadCached(a) ==
    /\ a \in DOMAIN Live
    /\ cache' = Live
    /\ result' = [read |-> Live[a].read, floor |-> fence[a], hit |-> TRUE]
    /\ UNCHANGED <<clock, loads, task, fence>>

BeginLoad(t, a) ==
    /\ ~Loading(t)
    /\ a \notin DOMAIN Live
    /\ cache' = Live
    /\ loads' = Registered(loads, a, t)
    /\ task' = [task EXCEPT ![t] = Started(a, fence[a])]
    /\ result' = Nothing
    /\ UNCHANGED <<clock, fence>>

\* Fault: a refresh loads without clearing first.
ForceLoadKeeps(t, a) ==
    /\ ~Loading(t)
    /\ cache' = Live
    /\ loads' = Registered(loads, a, t)
    /\ task' = [task EXCEPT ![t] = Started(a, clock)]
    /\ fence' = [fence EXCEPT ![a] = clock]
    /\ result' = Nothing
    /\ UNCHANGED clock

\* force_refresh: clear_boards_cache, then a load, for the lookup must miss.
ForceLoad(t, a) ==
    /\ ~Loading(t)
    /\ cache' = Without(Live, {a})
    /\ loads' = Registered(Unregistered(a), a, t)
    /\ task' = [Revoked(a) EXCEPT ![t] = Started(a, clock)]
    /\ fence' = [fence EXCEPT ![a] = clock]
    /\ result' = Nothing
    /\ UNCHANGED clock

\* The response arrives in time, complete and well-formed: it is cached if its
\* ticket still is valid, and returned to the caller in either case.
EndLoad(t) ==
    /\ Loading(t) /\ task[t].phase = "served"
    /\ clock - task[t].asked < DEADLINE
    /\ cache' = Stored(t)
    /\ loads' = Finished(t)
    /\ task' = [task EXCEPT ![t] = Idle]
    /\ result' = [read |-> task[t].read, floor |-> task[t].floor, hit |-> FALSE]
    /\ UNCHANGED <<clock, fence>>

\* Timeout, network error, error status, malformed list or cancellation: only
\* the finally clause runs.
AbortLoad(t) ==
    /\ Loading(t)
    /\ loads' = Finished(t)
    /\ task' = [task EXCEPT ![t] = Idle]
    /\ result' = Nothing
    /\ UNCHANGED <<clock, cache, fence>>

-------------------------------------------------------------------------------
(* What invalidates *)

\* The load's own response denies access: its cache is cleared as soon as the
\* status is known, the load fails when its body has been read.
DenyLoad(t) ==
    /\ Loading(t) /\ task[t].phase = "sent"
    /\ cache' = Cleared(task[t].agent)
    /\ loads' = Unregistered(task[t].agent)
    /\ task' = [Revoked(task[t].agent) EXCEPT ![t].phase = "denied"]
    /\ fence' = [fence EXCEPT ![task[t].agent] = clock]
    /\ result' = Nothing
    /\ UNCHANGED clock

\* A post was created or deleted, or any other request of the agent was
\* answered 401, 403 or 404.
Invalidate(a) ==
    /\ Clear(a)
    /\ result' = Nothing
    /\ UNCHANGED clock

-------------------------------------------------------------------------------
(* Environment *)

\* The backend produces the list.
Serve(t) ==
    /\ Loading(t) /\ task[t].phase = "sent"
    /\ task' = [task EXCEPT ![t].phase = "served", ![t].read = clock]
    /\ result' = Nothing
    /\ UNCHANGED <<clock, cache, loads, fence>>

\* No request outlives its deadline.
Tick ==
    /\ clock < MaxClock
    /\ \A t \in Task : Loading(t) => clock - task[t].asked < DEADLINE
    /\ clock' = clock + 1
    /\ result' = Nothing
    /\ UNCHANGED <<cache, loads, task, fence>>

Init ==
    /\ clock = 0
    /\ cache = [a \in {} |-> a]
    /\ loads = [a \in {} |-> a]
    /\ task = [t \in Task |-> Idle]
    /\ result = Nothing
    /\ fence = [a \in Agent |-> 0]

Next ==
    \/ \E a \in Agent : ReadCached(a) \/ Invalidate(a)
    \/ \E t \in Task, a \in Agent : BeginLoad(t, a) \/ ForceLoad(t, a)
    \/ \E t \in Task :
         EndLoad(t) \/ AbortLoad(t) \/ DenyLoad(t) \/ Serve(t)
    \/ Tick

Spec == Init /\ [][Next]_vars

-------------------------------------------------------------------------------
(* Properties *)

\* README.md, board cache: an invalidation fences off the loads in flight.
\* Nothing the backend produced before the agent's last invalidation is in the
\* cache, whatever loads were under way and in whatever order they end.
CacheFenced == \A a \in DOMAIN cache : cache[a].read >= fence[a]

\* A caller never gets a list older than the last invalidation before its call;
\* for a forced refresh, which every post resolves its board with, that is the
\* call itself.
FreshResult == result # Nothing => result.read >= result.floor
ResultFenced == [][FreshResult']_vars

\* The registered tickets are exactly the valid tickets of the loads in flight:
\* no outcome leaks a ticket, and clear_boards_cache reaches every load it has
\* to fence off.
Unfenced(a) == {t \in Task : Loading(t) /\ task[t].agent = a /\ task[t].valid}
TicketsExact == \A a \in Agent : TicketsOf(a) = Unfenced(a)

\* The cache stays within its bound, and what it evicts first is what was
\* loaded first: the insertion order of the dict is the order of the stamps.
OldestFirst ==
    /\ Cardinality(DOMAIN cache) <= MAX_ENTRIES
    /\ \A a, b \in DOMAIN cache :
         b \in cache[a].before => cache[b].created <= cache[a].created
    /\ \A a, b \in DOMAIN cache :
         a # b => (a \in cache[b].before <=> b \notin cache[a].before)

\* A hit is never older than the time to live plus one request: the stamp of an
\* entry is taken when the response arrives, not when the backend produced it.
RecentHit == result # Nothing /\ result.hit => clock - result.read < TTL + DEADLINE
HitsRecent == [][RecentHit']_vars

-------------------------------------------------------------------------------
(* The inductive invariant behind TicketsExact, CacheFenced and             *)
(* ResultFenced: a list that has been produced for a load is new enough for *)
(* the load's caller and, while its ticket is valid, for the cache.         *)

FencesPast == \A a \in Agent : fence[a] <= clock

LoadsFenced ==
    \A t \in Task :
        Loading(t) =>
          /\ task[t].floor <= clock
          /\ task[t].phase = "served" =>
               /\ task[t].read >= task[t].floor
               /\ task[t].valid => task[t].read >= fence[task[t].agent]

IInv ==
    /\ TypeOK
    /\ FencesPast
    /\ TicketsExact
    /\ LoadsFenced
    /\ CacheFenced
    /\ FreshResult
===============================================================================
