--------------------------- MODULE BoardsCacheProofs ---------------------------
(***************************************************************************)
(* Theorems about BoardsCache, for any agents and tasks, every time to     *)
(* live, capacity and deadline.                                            *)
(***************************************************************************)
EXTENDS BoardsCache, FiniteSetTheorems, WellFoundedInduction, TLAPS

-------------------------------------------------------------------------------
(* The parts of IInv as predicates of the tables, so that a lemma can speak *)
(* of a table before it becomes the next value of its variable.             *)

CacheOK(c, f) ==
    /\ DOMAIN c \subseteq Agent
    /\ c \in [DOMAIN c -> Entry]
    /\ \A a \in DOMAIN c : c[a].read >= f[a]

TicketsIn(ls, a) == IF a \in DOMAIN ls THEN ls[a] ELSE {}

LoadsOK(ls, ts) ==
    /\ DOMAIN ls \subseteq Agent
    /\ ls \in [DOMAIN ls -> (SUBSET Task) \ {{}}]
    /\ \A a \in Agent, t \in Task :
         t \in TicketsIn(ls, a) <=> ts[t] # Idle /\ ts[t].agent = a /\ ts[t].valid

TaskOK(l, f, now) ==
    l # Idle =>
      /\ l.floor <= now
      /\ l.phase = "served" =>
           /\ l.read >= l.floor
           /\ l.valid => l.read >= f[l.agent]

TasksOK(ts, f, now) ==
    /\ ts \in [Task -> Load \cup {Idle}]
    /\ \A t \in Task : TaskOK(ts[t], f, now)

ClockOK(f, now) == now \in Nat /\ f \in [Agent -> Nat] /\ \A a \in Agent : f[a] <= now

ResultOK(r) == r \in Result \cup {Nothing} /\ (r # Nothing => r.read >= r.floor)

LEMMA IInvParts ==
    IInv <=> /\ ClockOK(fence, clock)
             /\ CacheOK(cache, fence)
             /\ LoadsOK(loads, task)
             /\ TasksOK(task, fence, clock)
             /\ ResultOK(result)
<1>1. TypeOK => (TicketsExact <=> \A a \in Agent, t \in Task :
           t \in TicketsIn(loads, a) <=> Loading(t) /\ task[t].agent = a /\ task[t].valid)
  <2> SUFFICES ASSUME TypeOK, NEW a \in Agent
               PROVE  TicketsOf(a) = Unfenced(a) <=> \A t \in Task :
                        t \in TicketsIn(loads, a)
                          <=> Loading(t) /\ task[t].agent = a /\ task[t].valid
    BY Zenon DEF TicketsExact
  <2>1. TicketsOf(a) \subseteq Task
    BY DEF TicketsOf, TypeOK
  <2>2. TicketsOf(a) = TicketsIn(loads, a)
    BY DEF TicketsOf, TicketsIn
  <2>3. QED
    BY <2>1, <2>2 DEF Unfenced
<1>2. QED
  BY <1>1 DEF IInv, TypeOK, FencesPast, LoadsFenced, CacheFenced, FreshResult,
              ClockOK, CacheOK, LoadsOK, TasksOK, TaskOK, ResultOK, Loading

-------------------------------------------------------------------------------
(* The dict *)

LEMMA WithoutKeeps ==
    ASSUME NEW c, NEW f, CacheOK(c, f), NEW gone
    PROVE  CacheOK(Without(c, gone), f)
BY DEF CacheOK, Without, Entry

LEMMA InsertKeeps ==
    ASSUME NEW c, NEW f, CacheOK(c, f), NEW a \in Agent, NEW now \in Nat,
           NEW read \in Nat, read >= f[a]
    PROVE  CacheOK(Insert(c, a, now, read), f)
<1> DEFINE rest == Without(c, {a})
<1>1. CacheOK(rest, f) /\ DOMAIN rest = DOMAIN c \ {a}
  BY WithoutKeeps DEF Without
<1>2. QED
  BY <1>1 DEF Insert, CacheOK, Entry

LEMMA LiveKeeps == ASSUME NEW f, CacheOK(cache, f) PROVE CacheOK(Live, f)
BY WithoutKeeps DEF Live

LEMMA RoomForKeeps ==
    ASSUME NEW c, NEW f, CacheOK(c, f), NEW a
    PROVE  CacheOK(RoomFor(c, a), f)
BY WithoutKeeps DEF RoomFor

\* What the ticket is for: whatever is stored is new enough.
LEMMA StoredKeeps ==
    ASSUME NEW t \in Task, Loading(t), task[t].phase = "served",
           ClockOK(fence, clock), CacheOK(cache, fence), TasksOK(task, fence, clock)
    PROVE  CacheOK(Stored(t), fence)
<1>1. CASE ~task[t].valid
  BY <1>1 DEF Stored
<1>2. CASE task[t].valid
  <2>1. /\ task[t].agent \in Agent /\ task[t].read \in Nat
        /\ task[t].read >= fence[task[t].agent]
    BY <1>2 DEF TasksOK, TaskOK, Loading, Load
  <2>2. CacheOK(RoomFor(Live, task[t].agent), fence)
    BY LiveKeeps, RoomForKeeps
  <2>3. clock \in Nat
    BY DEF ClockOK
  <2>4. QED
    BY <1>2, <2>1, <2>2, <2>3, InsertKeeps DEF Stored
<1>3. QED
  BY <1>1, <1>2

-------------------------------------------------------------------------------
(* Tickets *)

LEMMA LoadNotIdle == \A l \in Load : l # Idle
<1>1. \A l \in Load : l.phase \in Phase
  BY DEF Load
<1>2. Idle.phase \notin Phase
  BY DEF Idle, Phase
<1>3. QED
  BY <1>1, <1>2

LEMMA RevokedShape ==
    ASSUME TasksOK(task, fence, clock), LoadsOK(loads, task), NEW a \in Agent,
           NEW t \in Task
    PROVE  IF task[t] # Idle /\ task[t].agent = a
           THEN Revoked(a)[t] = [task[t] EXCEPT !.valid = FALSE]
           ELSE Revoked(a)[t] = task[t]
<1>1. Revoked(a)[t] = IF t \in TicketsIn(loads, a)
                      THEN [task[t] EXCEPT !.valid = FALSE] ELSE task[t]
  BY DEF Revoked, Invalidated, TicketsOf, TicketsIn
<1>2. t \in TicketsIn(loads, a)
        <=> task[t] # Idle /\ task[t].agent = a /\ task[t].valid
  BY DEF LoadsOK
<1>3. CASE task[t] # Idle /\ task[t].agent = a /\ ~task[t].valid
  <2>1. task[t] \in Load
    BY <1>3 DEF TasksOK
  <2>2. task[t] = [task[t] EXCEPT !.valid = FALSE]
    BY <1>3, <2>1 DEF Load
  <2>3. QED
    BY <1>1, <1>3, <2>2
<1>4. QED
  BY <1>1, <1>2, <1>3

\* clear_boards_cache: afterwards no ticket of the agent is registered or valid,
\* so the fence can rise to the present.
LEMMA ClearKeeps ==
    ASSUME IInv, NEW a \in Agent
    PROVE  /\ LoadsOK(Unregistered(a), Revoked(a))
           /\ TasksOK(Revoked(a), [fence EXCEPT ![a] = clock], clock)
           /\ CacheOK(Cleared(a), [fence EXCEPT ![a] = clock])
           /\ ClockOK([fence EXCEPT ![a] = clock], clock)
           /\ Revoked(a) \in [Task -> Load \cup {Idle}]
           /\ \A t \in Task : Revoked(a)[t] = Idle <=> task[t] = Idle
<1> DEFINE f == [fence EXCEPT ![a] = clock]
<1>0. /\ ClockOK(fence, clock) /\ CacheOK(cache, fence) /\ LoadsOK(loads, task)
      /\ TasksOK(task, fence, clock)
  BY IInvParts
<1>1. ClockOK(f, clock)
  BY <1>0 DEF ClockOK
<1>2. CacheOK(Cleared(a), f)
  <2>1. CacheOK(Cleared(a), fence) /\ a \notin DOMAIN Cleared(a)
    BY <1>0, WithoutKeeps DEF Cleared, Without
  <2>2. QED
    BY <1>0, <2>1 DEF CacheOK, ClockOK
<1>3. ASSUME NEW t \in Task
      PROVE  /\ Revoked(a)[t] \in Load \cup {Idle}
             /\ Revoked(a)[t] = Idle <=> task[t] = Idle
             /\ Revoked(a)[t] # Idle =>
                  /\ Revoked(a)[t].agent = task[t].agent
                  /\ Revoked(a)[t].phase = task[t].phase
                  /\ Revoked(a)[t].floor = task[t].floor
                  /\ Revoked(a)[t].read = task[t].read
                  /\ Revoked(a)[t].valid <=> task[t].valid /\ task[t].agent # a
  <2>1. CASE task[t] # Idle /\ task[t].agent = a
    <3>1. Revoked(a)[t] = [task[t] EXCEPT !.valid = FALSE]
      BY <1>0, <2>1, RevokedShape
    <3>2. task[t] \in Load
      BY <1>0, <2>1 DEF TasksOK
    <3>3. Revoked(a)[t] \in Load
      BY <3>1, <3>2 DEF Load
    <3>4. QED
      BY <2>1, <3>1, <3>2, <3>3, LoadNotIdle DEF Load
  <2>2. CASE ~(task[t] # Idle /\ task[t].agent = a)
    <3>1. Revoked(a)[t] = task[t]
      BY <1>0, <2>2, RevokedShape
    <3>2. QED
      BY <1>0, <2>2, <3>1 DEF TasksOK
  <2>3. QED
    BY <2>1, <2>2
<1>4. Revoked(a) \in [Task -> Load \cup {Idle}]
  <2>1. Revoked(a) = [t \in Task |-> Revoked(a)[t]]
    BY DEF Revoked, Invalidated
  <2>2. QED
    BY <1>3, <2>1
<1>5. TasksOK(Revoked(a), f, clock)
  <2> SUFFICES ASSUME NEW t \in Task PROVE TaskOK(Revoked(a)[t], f, clock)
    BY <1>4 DEF TasksOK
  <2>1. TaskOK(task[t], fence, clock) /\ task[t] \in Load \cup {Idle}
    BY <1>0 DEF TasksOK
  <2>2. QED
    BY <1>0, <1>3, <2>1 DEF TaskOK, ClockOK, Load
<1>6. LoadsOK(Unregistered(a), Revoked(a))
  <2>1. /\ DOMAIN Unregistered(a) \subseteq Agent
        /\ Unregistered(a) \in [DOMAIN Unregistered(a) -> (SUBSET Task) \ {{}}]
    BY <1>0 DEF Unregistered, LoadsOK
  <2>2. ASSUME NEW b \in Agent, NEW t \in Task
        PROVE  t \in TicketsIn(Unregistered(a), b)
                 <=> /\ Revoked(a)[t] # Idle
                     /\ Revoked(a)[t].agent = b /\ Revoked(a)[t].valid
    <3>1. t \in TicketsIn(Unregistered(a), b) <=> b # a /\ t \in TicketsIn(loads, b)
      BY DEF TicketsIn, Unregistered
    <3>2. QED
      BY <1>0, <1>3, <3>1 DEF LoadsOK
  <2>3. QED
    BY <2>1, <2>2 DEF LoadsOK
<1>7. QED
  BY <1>1, <1>2, <1>3, <1>4, <1>5, <1>6

\* begin_boards_load for an idle task.
LEMMA BeginKeeps ==
    ASSUME NEW ls, NEW ts, NEW f, ClockOK(f, clock), LoadsOK(ls, ts),
           TasksOK(ts, f, clock), NEW t \in Task, ts[t] = Idle, NEW a \in Agent,
           NEW floor \in Nat, floor <= clock
    PROVE  /\ LoadsOK(Registered(ls, a, t), [ts EXCEPT ![t] = Started(a, floor)])
           /\ TasksOK([ts EXCEPT ![t] = Started(a, floor)], f, clock)
<1> DEFINE tn == [ts EXCEPT ![t] = Started(a, floor)]
<1>1. /\ Started(a, floor) \in Load
      /\ TaskOK(Started(a, floor), f, clock)
  BY DEF Started, Load, Phase, TaskOK, ClockOK
<1>2. Started(a, floor) # Idle /\ Started(a, floor).agent = a
        /\ Started(a, floor).valid
  BY <1>1, LoadNotIdle DEF Started
<1>3. TasksOK(tn, f, clock)
  BY <1>1 DEF TasksOK
<1>4. /\ DOMAIN Registered(ls, a, t) \subseteq Agent
      /\ Registered(ls, a, t) \in
           [DOMAIN Registered(ls, a, t) -> (SUBSET Task) \ {{}}]
  BY DEF Registered, LoadsOK
<1>5. ASSUME NEW b \in Agent, NEW u \in Task
      PROVE  u \in TicketsIn(Registered(ls, a, t), b)
               <=> tn[u] # Idle /\ tn[u].agent = b /\ tn[u].valid
  <2>1. u \in TicketsIn(Registered(ls, a, t), b)
          <=> u \in TicketsIn(ls, b) \/ (b = a /\ u = t)
    BY DEF TicketsIn, Registered
  <2>2. tn[u] = IF u = t THEN Started(a, floor) ELSE ts[u]
    BY DEF TasksOK
  <2>3. u \in TicketsIn(ls, b) <=> ts[u] # Idle /\ ts[u].agent = b /\ ts[u].valid
    BY DEF LoadsOK
  <2>4. QED
    BY <1>2, <2>1, <2>2, <2>3
<1>6. QED
  BY <1>3, <1>4, <1>5 DEF LoadsOK

\* finish_boards_load
LEMMA FinishKeeps ==
    ASSUME LoadsOK(loads, task), TasksOK(task, fence, clock),
           NEW t \in Task, Loading(t)
    PROVE  /\ LoadsOK(Finished(t), [task EXCEPT ![t] = Idle])
           /\ TasksOK([task EXCEPT ![t] = Idle], fence, clock)
<1> DEFINE tn == [task EXCEPT ![t] = Idle]
<1>1. TasksOK(tn, fence, clock)
  BY DEF TasksOK, TaskOK
<1>2. /\ DOMAIN Finished(t) \subseteq Agent
      /\ Finished(t) \in [DOMAIN Finished(t) -> (SUBSET Task) \ {{}}]
  BY DEF Finished, LoadsOK
<1>3. ASSUME NEW b \in Agent, NEW u \in Task
      PROVE  u \in TicketsIn(Finished(t), b)
               <=> tn[u] # Idle /\ tn[u].agent = b /\ tn[u].valid
  <2>1. u \in TicketsIn(loads, b)
          <=> task[u] # Idle /\ task[u].agent = b /\ task[u].valid
    BY DEF LoadsOK
  <2>2. tn[u] = IF u = t THEN Idle ELSE task[u]
    BY DEF TasksOK
  <2>3. u \in TicketsIn(Finished(t), b)
          <=> u \in TicketsIn(loads, b) /\ ~(u = t /\ b = task[t].agent)
    BY DEF TicketsIn, Finished
  <2>4. QED
    BY <2>1, <2>2, <2>3
<1>4. QED
  BY <1>1, <1>2, <1>3 DEF LoadsOK

-------------------------------------------------------------------------------
(* IInv is inductive *)

LEMMA InvInit == Init => IInv
<1> SUFFICES ASSUME Init PROVE IInv
  OBVIOUS
<1>1. ClockOK(fence, clock) /\ CacheOK(cache, fence)
  BY DEF Init, ClockOK, CacheOK
<1>2. TasksOK(task, fence, clock) /\ LoadsOK(loads, task)
  BY DEF Init, TasksOK, TaskOK, LoadsOK, TicketsIn
<1>3. ResultOK(result)
  BY DEF Init, ResultOK, Result, Nothing
<1>4. QED
  BY <1>1, <1>2, <1>3, IInvParts

\* IInv of the next state, part by part.
LEMMA IInvPartsNext ==
    ASSUME ClockOK(fence', clock'), CacheOK(cache', fence'), LoadsOK(loads', task'),
           TasksOK(task', fence', clock'), ResultOK(result')
    PROVE  IInv'
<1>1. IInv' <=> (/\ ClockOK(fence, clock)
                 /\ CacheOK(cache, fence)
                 /\ LoadsOK(loads, task)
                 /\ TasksOK(task, fence, clock)
                 /\ ResultOK(result))'
  BY IInvParts, PTL
<1>2. QED
  BY <1>1 DEF ClockOK, CacheOK, LoadsOK, TasksOK, ResultOK, TaskOK, TicketsIn

LEMMA InvStep == IInv /\ [Next]_vars => IInv'
<1> SUFFICES ASSUME IInv, [Next]_vars PROVE IInv'
  OBVIOUS
<1>0. /\ ClockOK(fence, clock) /\ CacheOK(cache, fence) /\ LoadsOK(loads, task)
      /\ TasksOK(task, fence, clock) /\ ResultOK(result)
      /\ clock \in Nat /\ ResultOK(Nothing)
  BY IInvParts DEF ClockOK, ResultOK
<1>1. ASSUME NEW a \in Agent, ReadCached(a) PROVE IInv'
  <2>1. CacheOK(Live, fence)
    BY <1>0, LiveKeeps
  <2>2. ResultOK(result')
    BY <1>0, <1>1, <2>1 DEF ReadCached, ResultOK, Result, CacheOK, ClockOK, Entry
  <2>3. QED
    BY <1>0, <1>1, <2>1, <2>2, IInvPartsNext DEF ReadCached
<1>2. ASSUME NEW a \in Agent, Invalidate(a) PROVE IInv'
  BY <1>0, <1>2, ClearKeeps, IInvPartsNext DEF Invalidate, Clear
<1>3. ASSUME NEW t \in Task, NEW a \in Agent, BeginLoad(t, a) PROVE IInv'
  <2>1. CacheOK(Live, fence)
    BY <1>0, LiveKeeps
  <2>2. fence[a] \in Nat /\ fence[a] <= clock /\ task[t] = Idle
    BY <1>0, <1>3 DEF ClockOK, BeginLoad, Loading
  <2>3. /\ LoadsOK(Registered(loads, a, t), [task EXCEPT ![t] = Started(a, fence[a])])
        /\ TasksOK([task EXCEPT ![t] = Started(a, fence[a])], fence, clock)
    BY <1>0, <2>2, BeginKeeps
  <2>4. QED
    BY <1>0, <1>3, <2>1, <2>3, IInvPartsNext DEF BeginLoad
<1>4. ASSUME NEW t \in Task, NEW a \in Agent, ForceLoad(t, a) PROVE IInv'
  <2> DEFINE f == [fence EXCEPT ![a] = clock]
  <2>1. CacheOK(Without(Live, {a}), f)
    <3>1. /\ CacheOK(Without(Live, {a}), fence)
          /\ a \notin DOMAIN Without(Live, {a})
      BY <1>0, LiveKeeps, WithoutKeeps DEF Without
    <3>2. QED
      BY <1>0, <3>1 DEF CacheOK, ClockOK
  <2>2. /\ LoadsOK(Unregistered(a), Revoked(a)) /\ TasksOK(Revoked(a), f, clock)
        /\ ClockOK(f, clock) /\ Revoked(a)[t] = Idle
    BY <1>4, ClearKeeps DEF ForceLoad, Loading
  <2>3. /\ LoadsOK(Registered(Unregistered(a), a, t),
                   [Revoked(a) EXCEPT ![t] = Started(a, clock)])
        /\ TasksOK([Revoked(a) EXCEPT ![t] = Started(a, clock)], f, clock)
    BY <1>0, <2>2, BeginKeeps
  <2>4. QED
    BY <1>0, <1>4, <2>1, <2>2, <2>3, IInvPartsNext DEF ForceLoad
<1>5. ASSUME NEW t \in Task, EndLoad(t) PROVE IInv'
  <2>1. CacheOK(Stored(t), fence)
    BY <1>0, <1>5, StoredKeeps DEF EndLoad
  <2>2. ResultOK(result')
    BY <1>0, <1>5 DEF EndLoad, ResultOK, Result, TasksOK, TaskOK, Load, Loading
  <2>3. /\ LoadsOK(Finished(t), [task EXCEPT ![t] = Idle])
        /\ TasksOK([task EXCEPT ![t] = Idle], fence, clock)
    BY <1>0, <1>5, FinishKeeps DEF EndLoad
  <2>4. QED
    BY <1>0, <1>5, <2>1, <2>2, <2>3, IInvPartsNext DEF EndLoad
<1>6. ASSUME NEW t \in Task, AbortLoad(t) PROVE IInv'
  BY <1>0, <1>6, FinishKeeps, IInvPartsNext DEF AbortLoad
<1>7. ASSUME NEW t \in Task, DenyLoad(t) PROVE IInv'
  <2> DEFINE a == task[t].agent
             f == [fence EXCEPT ![a] = clock]
             tn == [Revoked(a) EXCEPT ![t].phase = "denied"]
  <2>1. task[t] \in Load /\ a \in Agent
    BY <1>0, <1>7 DEF DenyLoad, Loading, TasksOK, Load
  <2>2. /\ LoadsOK(Unregistered(a), Revoked(a)) /\ TasksOK(Revoked(a), f, clock)
        /\ CacheOK(Cleared(a), f) /\ ClockOK(f, clock)
        /\ Revoked(a)[t] # Idle /\ Revoked(a)[t] \in Load
    BY <1>7, <2>1, ClearKeeps, LoadNotIdle DEF DenyLoad, Loading
  <2>3. /\ [Revoked(a)[t] EXCEPT !.phase = "denied"] \in Load
        /\ [Revoked(a)[t] EXCEPT !.phase = "denied"] # Idle
        /\ TaskOK([Revoked(a)[t] EXCEPT !.phase = "denied"], f, clock)
    BY <2>2, LoadNotIdle DEF Load, Phase, TasksOK, TaskOK
  <2>4. \A u \in Task : tn[u] = IF u = t
                                THEN [Revoked(a)[t] EXCEPT !.phase = "denied"]
                                ELSE Revoked(a)[u]
    BY <2>2 DEF TasksOK
  <2>5. tn \in [Task -> Load \cup {Idle}]
    BY <2>2, <2>3 DEF TasksOK
  <2>6. TasksOK(tn, f, clock)
    BY <2>2, <2>3, <2>4, <2>5 DEF TasksOK
  <2>7. LoadsOK(Unregistered(a), tn)
    <3>1. ASSUME NEW u \in Task
          PROVE  /\ tn[u] # Idle <=> Revoked(a)[u] # Idle
                 /\ tn[u] # Idle => /\ tn[u].agent = Revoked(a)[u].agent
                                    /\ tn[u].valid = Revoked(a)[u].valid
      BY <2>2, <2>3, <2>4 DEF Load
    <3>2. QED
      BY <2>2, <3>1 DEF LoadsOK
  <2>8. QED
    BY <1>0, <1>7, <2>2, <2>6, <2>7, IInvPartsNext DEF DenyLoad
<1>8. ASSUME NEW t \in Task, Serve(t) PROVE IInv'
  <2> DEFINE l == [task[t] EXCEPT !.phase = "served", !.read = clock]
             tn == [task EXCEPT ![t] = l]
  <2>1. task[t] \in Load /\ task[t] # Idle /\ task' = tn
    BY <1>0, <1>8 DEF Serve, Loading, TasksOK
  <2>2. l \in Load /\ l # Idle /\ l.agent = task[t].agent /\ l.valid = task[t].valid
    BY <1>0, <2>1, LoadNotIdle DEF Load, Phase
  <2>3. TaskOK(l, fence, clock)
    BY <1>0, <2>1, <2>2 DEF TaskOK, TasksOK, ClockOK, Load
  <2>4. \A u \in Task : tn[u] = IF u = t THEN l ELSE task[u]
    BY <1>0 DEF TasksOK
  <2>5. TasksOK(tn, fence, clock)
    BY <1>0, <2>2, <2>3, <2>4 DEF TasksOK
  <2>6. LoadsOK(loads, tn)
    BY <1>0, <2>1, <2>2, <2>4 DEF LoadsOK
  <2>7. QED
    BY <1>0, <1>8, <2>1, <2>5, <2>6, IInvPartsNext DEF Serve
<1>9. CASE Tick
  <2>1. ClockOK(fence, clock') /\ TasksOK(task, fence, clock')
    <3>1. clock' = clock + 1
      BY <1>9 DEF Tick
    <3>2. ClockOK(fence, clock + 1)
      BY <1>0 DEF ClockOK
    <3>3. ASSUME NEW t \in Task PROVE TaskOK(task[t], fence, clock + 1)
      BY <1>0 DEF TasksOK, TaskOK, Load
    <3>4. QED
      BY <1>0, <3>1, <3>2, <3>3 DEF TasksOK
  <2>2. QED
    BY <1>0, <1>9, <2>1, IInvPartsNext DEF Tick
<1>10. CASE UNCHANGED vars
  BY <1>0, <1>10, IInvPartsNext DEF vars
<1>11. QED
  BY <1>1, <1>2, <1>3, <1>4, <1>5, <1>6, <1>7, <1>8, <1>9, <1>10 DEF Next

-------------------------------------------------------------------------------
(* Theorems *)

\* The fencing invariant holds in every reachable state.
THEOREM Invariance == Spec => []IInv
BY InvInit, InvStep, PTL DEF Spec

\* Every variable of the cache keeps its type, and no key of _pending_loads
\* outlives its tickets.
THEOREM TypeCorrect == Spec => []TypeOK
<1>1. IInv => TypeOK
  BY DEF IInv
<1>2. QED
  BY <1>1, Invariance, PTL

\* For any number of agents and overlapping loads, the cache never holds a
\* list older than its agent's last invalidation.
THEOREM InvalidationFencesCache == Spec => []CacheFenced
<1>1. IInv => CacheFenced
  BY DEF IInv
<1>2. QED
  BY <1>1, Invariance, PTL

\* No caller of _load_boards gets a list older than the last invalidation
\* before its call; a forced refresh gets one as new as the call.
THEOREM CallersGetFreshLists == Spec => ResultFenced
<1>1. IInv' => FreshResult'
  BY DEF IInv
<1>2. Spec => [][IInv']_vars
  BY Invariance, PTL
<1>3. QED
  BY <1>1, <1>2, PTL DEF ResultFenced

\* The registered tickets are always the valid tickets of the loads in flight.
THEOREM TicketsNeverLeak == Spec => []TicketsExact
<1>1. IInv => TicketsExact
  BY DEF IInv
<1>2. QED
  BY <1>1, Invariance, PTL

-------------------------------------------------------------------------------
(* Age: a list is stamped less than a deadline after the backend made it    *)

AgesOK(c) == \A a \in DOMAIN c : c[a].created - c[a].read < DEADLINE

AskedOK(ts, now) ==
    \A t \in Task : ts[t] # Idle =>
       ts[t].asked <= now /\ (ts[t].phase = "served" => ts[t].read >= ts[t].asked)

AgeInv == AgesOK(cache) /\ AskedOK(task, clock)

LEMMA WithoutAges ==
    ASSUME NEW c, NEW f, CacheOK(c, f), AgesOK(c), NEW gone
    PROVE  AgesOK(Without(c, gone))
BY DEF CacheOK, AgesOK, Without, Entry

LEMMA StoredAges ==
    ASSUME IInv, AgeInv, NEW t \in Task, EndLoad(t)
    PROVE  AgesOK(Stored(t))
<1> DEFINE a == task[t].agent
           c == RoomFor(Live, a)
           rest == Without(c, {a})
<1>1. CASE ~task[t].valid
  BY <1>1 DEF Stored, AgeInv
<1>2. CASE task[t].valid
  <2>1. CacheOK(cache, fence) /\ task[t] \in Load /\ clock \in Nat
    BY IInvParts DEF TasksOK, EndLoad, Loading, ClockOK
  <2>2. CacheOK(Live, fence) /\ AgesOK(Live)
    BY <2>1, LiveKeeps, WithoutAges DEF Live, AgeInv
  <2>3. CacheOK(c, fence) /\ AgesOK(c)
    BY <2>2, RoomForKeeps, WithoutAges DEF RoomFor
  <2>4. AgesOK(rest)
    BY <2>3, WithoutAges
  <2>5. clock - task[t].read < DEADLINE
    BY <2>1, CacheLimits DEF EndLoad, AgeInv, AskedOK, Loading, Load
  <2>6. /\ Stored(t) = Insert(c, a, clock, task[t].read)
        /\ DOMAIN rest = DOMAIN c \ {a}
    BY <1>2 DEF Stored, Without
  <2> HIDE DEF c, rest
  <2>7. AgesOK(Insert(c, a, clock, task[t].read))
    BY <2>4, <2>5, <2>6 DEF Insert, AgesOK, rest
  <2>8. QED
    BY <2>6, <2>7
<1>3. QED
  BY <1>1, <1>2

LEMMA RevokedAsked ==
    ASSUME IInv, AgeInv, NEW a \in Agent
    PROVE  AskedOK(Revoked(a), clock)
<1> SUFFICES ASSUME NEW t \in Task, Revoked(a)[t] # Idle
             PROVE  /\ Revoked(a)[t].asked <= clock
                    /\ Revoked(a)[t].phase = "served" => Revoked(a)[t].read >= Revoked(a)[t].asked
  BY DEF AskedOK
<1>1. TasksOK(task, fence, clock) /\ LoadsOK(loads, task)
  BY IInvParts
<1>2. task[t] # Idle /\ task[t] \in Load
  BY <1>1, ClearKeeps DEF TasksOK
<1>3. /\ Revoked(a)[t].asked = task[t].asked /\ Revoked(a)[t].phase = task[t].phase
      /\ Revoked(a)[t].read = task[t].read
  <2>1. CASE task[t].agent = a
    <3>1. Revoked(a)[t] = [task[t] EXCEPT !.valid = FALSE]
      BY <1>1, <1>2, <2>1, RevokedShape
    <3>2. QED
      BY <1>2, <3>1 DEF Load
  <2>2. CASE task[t].agent # a
    <3>1. Revoked(a)[t] = task[t]
      BY <1>1, <2>2, RevokedShape
    <3>2. QED
      BY <3>1
  <2>3. QED
    BY <2>1, <2>2
<1>4. QED
  BY <1>2, <1>3 DEF AgeInv, AskedOK

LEMMA AgeStep == IInv /\ AgeInv /\ [Next]_vars => AgeInv'
<1> SUFFICES ASSUME IInv, AgeInv, [Next]_vars PROVE AgeInv'
  OBVIOUS
<1>0. /\ CacheOK(cache, fence) /\ TasksOK(task, fence, clock) /\ clock \in Nat
      /\ AgesOK(cache) /\ AskedOK(task, clock) /\ task \in [Task -> Load \cup {Idle}]
  BY IInvParts DEF ClockOK, AgeInv, TasksOK
<1>1. AgesOK(Live) /\ CacheOK(Live, fence)
  BY <1>0, WithoutAges, LiveKeeps DEF Live
<1>2. ASSUME NEW a \in Agent PROVE AgesOK(Cleared(a)) /\ AgesOK(Without(Live, {a}))
  BY <1>0, <1>1, WithoutAges DEF Cleared
<1>3. ASSUME NEW ts \in [Task -> Load \cup {Idle}], AskedOK(ts, clock),
             NEW t \in Task, NEW a, NEW floor
      PROVE  /\ AskedOK([ts EXCEPT ![t] = Started(a, floor)], clock)
             /\ AskedOK([ts EXCEPT ![t] = Idle], clock)
  <2>1. /\ Started(a, floor).asked = clock /\ Started(a, floor).phase = "sent"
    BY DEF Started
  <2>2. QED
    BY <1>0, <1>3, <2>1 DEF AskedOK
<1>4. ASSUME NEW a \in Agent, ReadCached(a) PROVE AgeInv'
  BY <1>0, <1>1, <1>4 DEF ReadCached, AgeInv
<1>5. ASSUME NEW a \in Agent, Invalidate(a) PROVE AgeInv'
  BY <1>2, <1>5, RevokedAsked DEF Invalidate, Clear, AgeInv
<1>6. ASSUME NEW t \in Task, NEW a \in Agent, BeginLoad(t, a) PROVE AgeInv'
  BY <1>0, <1>1, <1>3, <1>6 DEF BeginLoad, AgeInv
<1>7. ASSUME NEW t \in Task, NEW a \in Agent, ForceLoad(t, a) PROVE AgeInv'
  <2>1. AskedOK(Revoked(a), clock) /\ Revoked(a) \in [Task -> Load \cup {Idle}]
    BY RevokedAsked, ClearKeeps
  <2>2. QED
    BY <1>2, <1>3, <1>7, <2>1 DEF ForceLoad, AgeInv
<1>8. ASSUME NEW t \in Task, EndLoad(t) PROVE AgeInv'
  BY <1>0, <1>3, <1>8, StoredAges DEF EndLoad, AgeInv
<1>9. ASSUME NEW t \in Task, AbortLoad(t) PROVE AgeInv'
  BY <1>0, <1>3, <1>9 DEF AbortLoad, AgeInv
<1>10. ASSUME NEW t \in Task, DenyLoad(t) PROVE AgeInv'
  <2> DEFINE a == task[t].agent
  <2>1. a \in Agent
    BY <1>0, <1>10 DEF DenyLoad, Loading, Load
  <2>2. AskedOK(Revoked(a), clock) /\ Revoked(a) \in [Task -> Load \cup {Idle}]
        /\ Revoked(a)[t] # Idle
    BY <1>10, <2>1, RevokedAsked, ClearKeeps DEF DenyLoad, Loading
  <2>3. /\ task' = [Revoked(a) EXCEPT ![t].phase = "denied"]
        /\ cache' = Cleared(a) /\ clock' = clock
    BY <1>10 DEF DenyLoad
  <2> HIDE DEF a
  <2>4. AskedOK(task', clock)
    BY <2>2, <2>3 DEF AskedOK, Load
  <2>5. QED
    BY <1>2, <2>1, <2>3, <2>4 DEF AgeInv
<1>11. ASSUME NEW t \in Task, Serve(t) PROVE AgeInv'
  <2>1. /\ task[t] \in Load /\ task[t].asked <= clock /\ task[t] # Idle
        /\ task' = [task EXCEPT ![t].phase = "served", ![t].read = clock]
        /\ UNCHANGED <<clock, cache>>
    BY <1>0, <1>11 DEF Serve, Loading, AskedOK
  <2>2. /\ task'[t].asked = task[t].asked /\ task'[t].read = clock
        /\ \A u \in Task : u # t => task'[u] = task[u]
    BY <1>0, <2>1 DEF Load
  <2>3. AskedOK(task', clock)
    BY <1>0, <2>1, <2>2 DEF AskedOK, Load
  <2>4. QED
    BY <1>0, <2>1, <2>3 DEF AgeInv
<1>12. CASE Tick
  <2>1. clock' = clock + 1 /\ task' = task /\ cache' = cache
    BY <1>12 DEF Tick
  <2>2. AskedOK(task, clock + 1)
    BY <1>0 DEF AskedOK, Load
  <2>3. QED
    BY <1>0, <2>1, <2>2 DEF AgeInv
<1>13. CASE UNCHANGED vars
  BY <1>0, <1>13 DEF vars, AgeInv
<1>14. QED
  BY <1>4, <1>5, <1>6, <1>7, <1>8, <1>9, <1>10, <1>11, <1>12, <1>13 DEF Next

\* A hit is younger than the time to live and a deadline together.
THEOREM HitsStayRecent == Spec => HitsRecent
<1>1. ASSUME IInv, AgeInv, Next PROVE RecentHit'
  <2>1. SUFFICES ASSUME result' # Nothing, result'.hit
                 PROVE  clock' - result'.read < TTL + DEADLINE
    BY DEF RecentHit
  <2>2. PICK a \in Agent : ReadCached(a)
    <3>1. \A t \in Task : ~EndLoad(t)
      BY <2>1 DEF EndLoad
    <3>2. QED
      BY <1>1, <2>1, <3>1 DEF Next, Invalidate, BeginLoad, ForceLoad, AbortLoad, DenyLoad,
         Serve, Tick
  <2>3. /\ a \in DOMAIN cache /\ clock - cache[a].created < TTL
        /\ Live[a].read = cache[a].read /\ cache[a] \in Entry /\ clock \in Nat
    <3>1. CacheOK(cache, fence) /\ clock \in Nat
      BY <1>1, IInvParts DEF ClockOK
    <3>2. a \in DOMAIN cache /\ cache[a] \in Entry
      BY <2>2, <3>1 DEF ReadCached, Live, Without, CacheOK
    <3>3. ~(clock - cache[a].created >= TTL) /\ Live[a].read = cache[a].read
      BY <2>2, <3>2 DEF ReadCached, Live, Without, Entry
    <3>4. QED
      BY <3>1, <3>2, <3>3, CacheLimits DEF Entry
  <2>4. cache[a].created - cache[a].read < DEADLINE
    BY <1>1, <2>3 DEF AgeInv, AgesOK
  <2>5. clock' = clock /\ result'.read = cache[a].read
    BY <2>2, <2>3 DEF ReadCached
  <2>6. QED
    BY <2>3, <2>4, <2>5, CacheLimits DEF Entry
<1>2. Init => AgeInv
  BY DEF Init, AgeInv, AgesOK, AskedOK
<1>3. IInv /\ AgeInv /\ [Next]_vars => [RecentHit']_vars
  BY <1>1
<1>4. QED
  BY <1>2, <1>3, AgeStep, Invariance, PTL DEF Spec, HitsRecent

-------------------------------------------------------------------------------
(* Order: the keys inserted before an entry form a strict total order, which *)
(* the stamps follow                                                         *)

Ordered(c, now) ==
    /\ IsFiniteSet(DOMAIN c)
    /\ \A a \in DOMAIN c :
         /\ c[a].created \in Nat /\ c[a].created <= now
         /\ c[a].before \subseteq DOMAIN c /\ a \notin c[a].before
         /\ \A b \in c[a].before :
              c[b].created <= c[a].created /\ c[b].before \subseteq c[a].before
    /\ \A a, b \in DOMAIN c : a # b => (a \in c[b].before <=> b \notin c[a].before)

Typed(c) == c \in [DOMAIN c -> Entry]

LEMMA WithoutOrdered ==
    ASSUME NEW c, Typed(c), NEW now, Ordered(c, now), NEW gone
    PROVE  Typed(Without(c, gone)) /\ Ordered(Without(c, gone), now)
<1> DEFINE w == Without(c, gone)
<1>1. DOMAIN w = DOMAIN c \ gone
  BY DEF Without
<1>2. \A a \in DOMAIN w : /\ w[a].created = c[a].created
                          /\ w[a].before = c[a].before \ gone
                          /\ w[a] \in Entry
  BY <1>1 DEF Without, Typed, Entry
<1>3. w = [a \in DOMAIN w |-> w[a]]
  BY DEF Without
<1>4. IsFiniteSet(DOMAIN w)
  BY <1>1, FS_Subset DEF Ordered
<1> HIDE DEF w
<1>5. Typed(w)
  BY <1>2, <1>3 DEF Typed
<1>6. Ordered(w, now)
  BY <1>1, <1>2, <1>4 DEF Ordered
<1>7. QED
  BY <1>5, <1>6 DEF w

LEMMA InsertOrdered ==
    ASSUME NEW c, Typed(c), NEW now \in Nat, Ordered(c, now), NEW a \in Agent,
           NEW read \in Nat, DOMAIN c \subseteq Agent
    PROVE  Ordered(Insert(c, a, now, read), now)
<1> DEFINE rest == Without(c, {a})
           new == Insert(c, a, now, read)
<1>1. Ordered(rest, now) /\ DOMAIN rest = DOMAIN c \ {a}
  BY WithoutOrdered DEF Without
<1>2. /\ DOMAIN new = DOMAIN rest \cup {a}
      /\ new[a].created = now /\ new[a].before = DOMAIN rest
      /\ \A b \in DOMAIN rest : new[b] = rest[b]
  BY <1>1 DEF Insert
<1>3. IsFiniteSet(DOMAIN new)
  <2>1. IsFiniteSet(DOMAIN rest)
    BY <1>1 DEF Ordered
  <2> HIDE DEF rest, new
  <2>2. IsFiniteSet(DOMAIN rest \cup {a})
    BY <2>1, FS_AddElement
  <2>3. QED
    BY <1>2, <2>2
<1>4. a \notin DOMAIN rest
  BY <1>1
<1> HIDE DEF rest, new
<1>5. Ordered(new, now)
  BY <1>1, <1>2, <1>3, <1>4 DEF Ordered
<1>6. QED
  BY <1>5 DEF new

\* A dict with an entry has a first one: the one with the fewest before it.
LEMMA FirstExists ==
    ASSUME NEW c, NEW now, Ordered(c, now), DOMAIN c # {}
    PROVE  First(c) # {}
<1> DEFINE size(a) == Cardinality(c[a].before)
           sizes == {size(a) : a \in DOMAIN c}
<1>1. \A a \in DOMAIN c : IsFiniteSet(c[a].before) /\ size(a) \in Nat
  BY FS_Subset, FS_CardinalityType DEF Ordered
<1>2. sizes \subseteq Nat /\ sizes # {}
  BY <1>1
<1>3. PICK n \in sizes : \A m \in sizes : ~(<<m, n>> \in OpToRel(<, Nat))
  BY <1>2, NatLessThanWellFounded, WFMin
<1>4. PICK a \in DOMAIN c : n = size(a)
  BY <1>3
<1>5. c[a].before = {}
  <2>1. SUFFICES ASSUME NEW b \in c[a].before PROVE FALSE
    OBVIOUS
  <2>2. /\ b \in DOMAIN c /\ c[b].before \subseteq c[a].before
        /\ b \notin c[b].before
    BY <1>4, <2>1 DEF Ordered
  <2>3. size(b) < size(a)
    <3>1. c[b].before # c[a].before /\ IsFiniteSet(c[a].before)
      BY <1>1, <1>4, <2>1, <2>2
    <3>2. /\ Cardinality(c[b].before) <= Cardinality(c[a].before)
          /\ Cardinality(c[b].before) # Cardinality(c[a].before)
      BY <2>2, <3>1, FS_Subset
    <3>3. QED
      BY <1>1, <1>4, <2>2, <3>2
  <2>4. size(b) \in sizes /\ size(b) \in Nat /\ size(a) \in Nat
    BY <1>1, <1>4, <2>2
  <2> HIDE DEF size, sizes
  <2>5. <<size(b), n>> \in OpToRel(<, Nat)
    BY <1>4, <2>3, <2>4 DEF OpToRel
  <2>6. QED
    BY <1>3, <2>4, <2>5
<1>6. QED
  BY <1>4, <1>5 DEF First

\* With the room made, one more entry fits.
LEMMA RoomIsMade ==
    ASSUME NEW c, Typed(c), NEW now, Ordered(c, now), NEW a,
           Cardinality(DOMAIN c) <= MAX_ENTRIES
    PROVE  LET kept == DOMAIN RoomFor(c, a) \ {a}
           IN  IsFiniteSet(kept) /\ Cardinality(kept) < MAX_ENTRIES
<1> DEFINE rest == Without(c, {a})
           full == Cardinality(DOMAIN rest) >= MAX_ENTRIES
<1>1. Ordered(rest, now) /\ DOMAIN rest = DOMAIN c \ {a}
  BY WithoutOrdered DEF Without
<1>2. /\ IsFiniteSet(DOMAIN rest) /\ Cardinality(DOMAIN rest) \in Nat
      /\ IsFiniteSet(DOMAIN c) /\ Cardinality(DOMAIN c) \in Nat
      /\ Cardinality(DOMAIN rest) <= Cardinality(DOMAIN c)
  BY <1>1, FS_Subset, FS_CardinalityType DEF Ordered
<1>3. CASE ~full
  <2>1. DOMAIN RoomFor(c, a) \ {a} = DOMAIN rest
    BY <1>1, <1>3 DEF RoomFor
  <2>2. QED
    BY <1>2, <1>3, <2>1, CacheLimits
<1>4. CASE full
  <2>1. DOMAIN rest # {}
    BY <1>2, <1>4, FS_EmptySet, CacheLimits
  <2>2. First(rest) # {} /\ First(rest) \subseteq DOMAIN rest
    BY <1>1, <2>1, FirstExists DEF First
  <2>3. DOMAIN RoomFor(c, a) \ {a} = DOMAIN rest \ First(rest)
    BY <1>1, <1>4 DEF RoomFor, Without
  <2> DEFINE kept == DOMAIN rest \ First(rest)
  <2>4. kept \subseteq DOMAIN rest /\ kept # DOMAIN rest
    BY <2>2
  <2> HIDE DEF kept, rest
  <2>5. /\ IsFiniteSet(kept) /\ Cardinality(kept) <= Cardinality(DOMAIN rest)
        /\ Cardinality(kept) # Cardinality(DOMAIN rest)
    BY <1>2, <2>4, FS_Subset
  <2>6. Cardinality(kept) \in Nat
    BY <2>5, FS_CardinalityType
  <2> USE DEF kept, rest
  <2>7. QED
    BY <1>2, <2>3, <2>5, <2>6, CacheLimits
<1>5. QED
  BY <1>3, <1>4

OrderInv ==
    Ordered(cache, clock) /\ Cardinality(DOMAIN cache) <= MAX_ENTRIES

LEMMA DroppingKeeps ==
    ASSUME NEW c, Typed(c), NEW now, Ordered(c, now), Cardinality(DOMAIN c) <= MAX_ENTRIES,
           NEW gone
    PROVE  /\ Typed(Without(c, gone)) /\ Ordered(Without(c, gone), now)
           /\ Cardinality(DOMAIN Without(c, gone)) <= MAX_ENTRIES
<1>1. DOMAIN Without(c, gone) \subseteq DOMAIN c /\ IsFiniteSet(DOMAIN c)
  BY DEF Without, Ordered
<1>2. /\ Cardinality(DOMAIN Without(c, gone)) <= Cardinality(DOMAIN c)
      /\ Cardinality(DOMAIN Without(c, gone)) \in Nat /\ Cardinality(DOMAIN c) \in Nat
  BY <1>1, FS_Subset, FS_CardinalityType
<1>3. QED
  BY <1>2, WithoutOrdered, CacheLimits

LEMMA StoredOrdered ==
    ASSUME IInv, OrderInv, NEW t \in Task, EndLoad(t)
    PROVE  Ordered(Stored(t), clock) /\ Cardinality(DOMAIN Stored(t)) <= MAX_ENTRIES
<1> DEFINE a == task[t].agent
           room == RoomFor(Live, a)
<1>0. /\ CacheOK(cache, fence) /\ task[t] \in Load /\ clock \in Nat
      /\ a \in Agent /\ task[t].read \in Nat
  BY IInvParts DEF TasksOK, EndLoad, Loading, ClockOK, Load
<1>1. /\ Typed(Live) /\ Ordered(Live, clock) /\ Cardinality(DOMAIN Live) <= MAX_ENTRIES
  BY <1>0, DroppingKeeps DEF Live, CacheOK, Typed, OrderInv
<1>2. Typed(room) /\ Ordered(room, clock) /\ DOMAIN room \subseteq Agent
  <2>1. CacheOK(room, fence)
    BY <1>0, LiveKeeps, RoomForKeeps
  <2>2. QED
    BY <1>1, <2>1, WithoutOrdered DEF RoomFor, CacheOK
<1>3. IsFiniteSet(DOMAIN room \ {a}) /\ Cardinality(DOMAIN room \ {a}) < MAX_ENTRIES
  BY <1>1, RoomIsMade
<1> HIDE DEF a, room
<1>4. CASE task[t].valid
  <2>1. Stored(t) = Insert(room, a, clock, task[t].read)
    BY <1>4 DEF Stored, a, room
  <2>2. /\ Ordered(Stored(t), clock)
        /\ DOMAIN Stored(t) = (DOMAIN room \ {a}) \cup {a}
    <3>1. a \in Agent /\ clock \in Nat /\ task[t].read \in Nat
      BY <1>0 DEF a
    <3>2. Typed(room) /\ Ordered(room, clock) /\ DOMAIN room \subseteq Agent
      BY <1>2
    <3>3. Ordered(Insert(room, a, clock, task[t].read), clock)
      BY <3>1, <3>2, InsertOrdered
    <3>4. DOMAIN Insert(room, a, clock, task[t].read) = (DOMAIN room \ {a}) \cup {a}
      BY DEF Insert
    <3>5. QED
      BY <2>1, <3>3, <3>4
  <2>3. /\ Cardinality(DOMAIN Stored(t)) \in
             {Cardinality(DOMAIN room \ {a}), Cardinality(DOMAIN room \ {a}) + 1}
        /\ Cardinality(DOMAIN room \ {a}) \in Nat
    BY <1>3, <2>2, FS_AddElement, FS_CardinalityType
  <2>4. QED
    BY <1>3, <2>2, <2>3, CacheLimits
<1>5. CASE ~task[t].valid
  BY <1>5 DEF Stored, OrderInv
<1>6. QED
  BY <1>4, <1>5

LEMMA OrderStep == IInv /\ OrderInv /\ [Next]_vars => OrderInv'
<1> SUFFICES ASSUME IInv, OrderInv, [Next]_vars
             PROVE  Ordered(cache', clock') /\ Cardinality(DOMAIN cache') <= MAX_ENTRIES
  BY DEF OrderInv, Ordered
<1> DEFINE Fine(c) == Ordered(c, clock) /\ Cardinality(DOMAIN c) <= MAX_ENTRIES
<1>0. Typed(cache) /\ Fine(cache) /\ clock \in Nat
  BY IInvParts DEF CacheOK, Typed, OrderInv, ClockOK
<1>1. Fine(Live) /\ \A a : Fine(Cleared(a)) /\ Fine(Without(Live, {a}))
  BY <1>0, DroppingKeeps DEF Live, Cleared
<1>2. ASSUME clock' = clock, Fine(cache')
      PROVE  Ordered(cache', clock') /\ Cardinality(DOMAIN cache') <= MAX_ENTRIES
  BY <1>2
<1> HIDE DEF Fine
<1>3. ASSUME NEW a \in Agent, ReadCached(a) \/ Invalidate(a)
      PROVE  Ordered(cache', clock') /\ Cardinality(DOMAIN cache') <= MAX_ENTRIES
  BY <1>1, <1>2, <1>3 DEF ReadCached, Invalidate, Clear
<1>4. ASSUME NEW t \in Task, NEW a \in Agent, BeginLoad(t, a) \/ ForceLoad(t, a)
      PROVE  Ordered(cache', clock') /\ Cardinality(DOMAIN cache') <= MAX_ENTRIES
  BY <1>1, <1>2, <1>4 DEF BeginLoad, ForceLoad
<1>5. ASSUME NEW t \in Task, EndLoad(t)
      PROVE  Ordered(cache', clock') /\ Cardinality(DOMAIN cache') <= MAX_ENTRIES
  BY <1>5, StoredOrdered DEF EndLoad
<1>6. ASSUME NEW t \in Task, AbortLoad(t) \/ DenyLoad(t) \/ Serve(t)
      PROVE  Ordered(cache', clock') /\ Cardinality(DOMAIN cache') <= MAX_ENTRIES
  BY <1>0, <1>1, <1>2, <1>6 DEF AbortLoad, DenyLoad, Serve
<1>7. CASE Tick
  <2>1. cache' = cache /\ clock' = clock + 1
    BY <1>7 DEF Tick
  <2>2. Ordered(cache, clock + 1)
    BY <1>0 DEF Ordered, Fine
  <2>3. QED
    BY <1>0, <2>1, <2>2 DEF Fine
<1>8. CASE UNCHANGED vars
  BY <1>0, <1>2, <1>8 DEF vars
<1>9. QED
  BY <1>3, <1>4, <1>5, <1>6, <1>7, <1>8 DEF Next

\* The cache never holds more than its bound, and its first entry is always
\* one of the oldest, for every number of agents.
THEOREM EvictsOldestFirst == Spec => []OldestFirst
<1>1. OrderInv => OldestFirst
  BY DEF OrderInv, Ordered, OldestFirst
<1>2. Init => OrderInv
  BY FS_EmptySet, CacheLimits DEF Init, OrderInv, Ordered
<1>3. QED
  BY <1>1, <1>2, OrderStep, Invariance, PTL DEF Spec
===============================================================================
