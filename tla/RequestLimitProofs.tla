--------------------------- MODULE RequestLimitProofs ---------------------------
(***************************************************************************)
(* Slots, work and response heads of the HTTP edge, for any number of      *)
(* requests and any limits.  SlotsExact is not inductive: that a timeout   *)
(* sends no second head rests on the flag response_started, which has to   *)
(* be set whenever a head has been sent in the scope (HeadsFlagged).       *)
(*                                                                         *)
(* The rate rests on what the deque of admission times is: the end of the  *)
(* log, with everything before it already out of the window (DequeFor).    *)
(***************************************************************************)
EXTENDS RequestLimit, FiniteSetTheorems, SequenceTheorems, WellFoundedInduction, TLAPS

Unanswered == {"reading", "serving", "working"}

SlotsCounted == IsFiniteSet(Holding) /\ active = Cardinality(Holding)

WorkInScope == \A r \in Running : InScope(r)

HeadsFlagged ==
    \A r \in Request :
        /\ heads[r] <= 1
        /\ request[r] = Over => heads[r] = 0
        /\ InScope(r) /\ ~request[r].started => heads[r] = 0
        /\ request[r].phase \in Unanswered => ~request[r].started

IInv == TypeOK /\ SlotsCounted /\ WorkInScope /\ HeadsFlagged

-------------------------------------------------------------------------------
(* What the records say *)

\* A request that is over is known by its phase.
LEMMA OverPhase ==
    ASSUME TypeOK, NEW r \in Request
    PROVE  /\ request[r] = Over <=> request[r].phase = "over"
           /\ r \in Holding <=> request[r].phase # "over"
           /\ request[r].phase # "over" => request[r] \in RequestLifetime
    BY DEF TypeOK, Over, RequestLifetime, Phase, Holding

\* ... and a runtime that has none likewise.
LEMMA NonePhase ==
    ASSUME TypeOK, NEW r \in Request
    PROVE  /\ runtime[r] = None <=> runtime[r].phase = "none"
           /\ runtime[r].phase # "none" => runtime[r] \in Runtime
    BY DEF TypeOK, None, Runtime

\* Giving the head to the server keeps the type, and the request in its scope.
LEMMA HeadSent ==
    ASSUME TypeOK, NEW r \in Request, request[r].phase \in Unanswered, SendHead(r)
    PROVE  /\ request' \in [Request -> RequestLifetime \cup {Over}]
           /\ heads' \in [Request -> Nat]
           /\ request'[r] = [request[r] EXCEPT !.phase = "answering", !.started = TRUE]
           /\ request'[r].phase = "answering" /\ request'[r].started
           /\ heads'[r] = heads[r] + 1
           /\ \A q \in Request \ {r} : request'[q] = request[q] /\ heads'[q] = heads[q]
    <1>1. request[r] \in RequestLifetime
      BY OverPhase DEF Unanswered
    <1>2. request' = [request EXCEPT ![r] =
                        [request[r] EXCEPT !.phase = "answering", !.started = TRUE]]
      BY DEF SendHead, TypeOK
    <1>3. [request[r] EXCEPT !.phase = "answering", !.started = TRUE] \in RequestLifetime
      BY <1>1 DEF RequestLifetime, Phase
    <1>4. /\ [request[r] EXCEPT !.phase = "answering", !.started = TRUE].phase = "answering"
          /\ [request[r] EXCEPT !.phase = "answering", !.started = TRUE].started
      BY <1>1 DEF RequestLifetime
    <1>5. heads' = [heads EXCEPT ![r] = heads[r] + 1]
      BY DEF SendHead
    <1>6. QED
      BY <1>2, <1>3, <1>4, <1>5 DEF TypeOK

-------------------------------------------------------------------------------
(* The type *)

\* Cancelling a runtime only touches one that runs.
LEMMA CancelledType ==
    ASSUME TypeOK, NEW r \in Request
    PROVE  /\ Cancelled(r) \in [Request -> Runtime \cup {None}]
           /\ Cancelled(r)[r].phase # "running"
           /\ \A q \in Request \ {r} : Cancelled(r)[q] = runtime[q]
    <1>1. [phase |-> "closing", due |-> clock + CLOSING] \in Runtime
      BY LimitParameters DEF TypeOK, Runtime
    <1>2. r \notin Running => runtime[r].phase # "running"
      BY DEF Running
    <1>3. QED
      BY <1>1, <1>2 DEF Cancelled, TypeOK

LEMMA TypeStep == TypeOK /\ [Next]_vars => TypeOK'
    <1> SUFFICES ASSUME TypeOK, [Next]_vars
                 PROVE  TypeOK'
      OBVIOUS
    <1> USE LimitParameters
    <1>1. ASSUME NEW r \in Request, Admit(r)
          PROVE  TypeOK'
      <2>1. PICK phase \in {"reading", "serving"} :
              request' = [request EXCEPT ![r] =
                [phase |-> phase, due |-> clock + TIMEOUT, started |-> FALSE, read |-> 0]]
        BY <1>1 DEF Admit
      <2>2. [phase |-> phase, due |-> clock + TIMEOUT, started |-> FALSE, read |-> 0]
               \in RequestLifetime
        BY DEF TypeOK, RequestLifetime, Phase
      <2>3. QED
        BY <1>1, <2>1, <2>2 DEF Admit, TypeOK
    <1>2. CASE Refuse
      BY <1>2 DEF Refuse, TypeOK
    <1>3. ASSUME NEW r \in Request, NEW size \in 0..MAX_BODY + 1, NEW more \in BOOLEAN,
                 ReadBody(r, size, more)
          PROVE  TypeOK'
      <2>1. request[r] \in RequestLifetime /\ request[r].phase \in Unanswered
        BY <1>3, OverPhase DEF ReadBody, Unanswered
      <2>2. CASE request[r].read + size > MAX_BODY
        <3>1. SendHead(r)
          BY <1>3, <2>2 DEF ReadBody
        <3>2. QED
          BY <1>3, <2>1, <3>1, HeadSent DEF ReadBody, TypeOK
      <2>3. CASE ~(request[r].read + size > MAX_BODY)
        <3> DEFINE next == [request[r] EXCEPT !.phase = IF more THEN "reading" ELSE "serving",
                                              !.read = IF more THEN request[r].read + size ELSE 0]
        <3> DEFINE step == IF more THEN "reading" ELSE "serving"
                   part == IF more THEN request[r].read + size ELSE 0
        <3>0. step \in Phase /\ part \in 0..MAX_BODY
          BY <2>1, <2>3 DEF RequestLifetime, Phase
        <3>1. next \in RequestLifetime
          <4> HIDE DEF step, part
          <4>1. [request[r] EXCEPT !.phase = step, !.read = part] \in RequestLifetime
            BY <2>1, <3>0 DEF RequestLifetime
          <4>2. QED
            BY <4>1 DEF step, part
        <3>2. request' = [request EXCEPT ![r] = next]
          BY <1>3, <2>3 DEF ReadBody, TypeOK
        <3>3. QED
          BY <1>3, <2>3, <3>1, <3>2 DEF ReadBody, TypeOK
      <2>4. QED
        BY <2>2, <2>3
    <1>4. ASSUME NEW r \in Request, RejectLength(r) \/ Respond(r)
          PROVE  TypeOK'
      BY <1>4, HeadSent DEF RejectLength, Respond, Unanswered, TypeOK
    <1>5. ASSUME NEW r \in Request, OpenRuntime(r)
          PROVE  TypeOK'
      <2>1. request[r] \in RequestLifetime
        BY <1>5, OverPhase DEF OpenRuntime
      <2>2. [request[r] EXCEPT !.phase = "working"] \in RequestLifetime
        BY <2>1 DEF RequestLifetime, Phase
      <2>3. [phase |-> "running", due |-> request[r].due] \in Runtime
        BY <2>1 DEF RequestLifetime, Runtime
      <2>4. QED
        BY <1>5, <2>2, <2>3 DEF OpenRuntime, GoesTo, TypeOK
    <1>6. ASSUME NEW r \in Request, Complete(r)
          PROVE  TypeOK'
      <2>1. request[r] \in RequestLifetime
        BY <1>6, OverPhase DEF Complete
      <2>2. [request[r] EXCEPT !.phase = "answered"] \in RequestLifetime
        BY <2>1 DEF RequestLifetime, Phase
      <2>3. QED
        BY <1>6, <2>2 DEF Complete, GoesTo, TypeOK
    <1>7. ASSUME NEW r \in Request, Timeout(r)
          PROVE  TypeOK'
      <2>1. request[r] \in RequestLifetime
        BY <1>7, OverPhase DEF Timeout, InScope, Phase
      <2>2. [request[r] EXCEPT !.phase = "draining", !.due = clock + GRACE] \in RequestLifetime
        <3>1. clock + GRACE \in Nat
          BY DEF TypeOK
        <3>2. \A d \in Nat : [request[r] EXCEPT !.phase = "draining", !.due = d] \in RequestLifetime
          BY <2>1 DEF RequestLifetime, Phase
        <3>3. QED
          BY <3>1, <3>2
      <2>3. heads' \in [Request -> Nat]
        BY <1>7 DEF Timeout, TypeOK
      <2>4. request' \in [Request -> RequestLifetime \cup {Over}]
        BY <1>7, <2>2 DEF Timeout, TypeOK
      <2>5. QED
        BY <1>7, <2>3, <2>4, CancelledType DEF Timeout, TypeOK
    <1>8. ASSUME NEW r \in Request, End(r)
          PROVE  TypeOK'
      BY <1>8, CancelledType DEF End, Release, TypeOK
    <1>9. ASSUME NEW r \in Request, StopRuntime(r)
          PROVE  TypeOK'
      BY <1>9, CancelledType DEF StopRuntime, TypeOK
    <1>10. ASSUME NEW r \in Request, CloseClient(r)
           PROVE  TypeOK'
      BY <1>10 DEF CloseClient, TypeOK
    <1>11. CASE Tick
      BY <1>11 DEF Tick, TypeOK
    <1>12. CASE UNCHANGED vars
      BY <1>12 DEF vars, TypeOK
    <1>13. QED
      BY <1>1, <1>2, <1>3, <1>4, <1>5, <1>6, <1>7, <1>8, <1>9, <1>10, <1>11, <1>12 DEF Next

-------------------------------------------------------------------------------
(* Slots: a request takes one when it is admitted and gives it back at End *)

LEMMA SlotsStep == TypeOK /\ SlotsCounted /\ [Next]_vars => SlotsCounted'
    <1> SUFFICES ASSUME TypeOK, SlotsCounted, [Next]_vars
                 PROVE  SlotsCounted'
      OBVIOUS
    <1>0. TypeOK'
      BY TypeStep
    <1>1. ASSUME NEW r \in Request, Admit(r)
          PROVE  SlotsCounted'
      <2>1. request[r] = Over /\ request'[r] # Over
        BY <1>1 DEF Admit, TypeOK, Over
      <2>2. \A q \in Request \ {r} : request'[q] = request[q]
        BY <1>1 DEF Admit, TypeOK
      <2>3. Holding' = Holding \cup {r} /\ r \notin Holding
        BY <2>1, <2>2 DEF Holding
      <2>4. QED
        BY <1>1, <2>3, FS_AddElement DEF SlotsCounted, Admit
    <1>2. ASSUME NEW r \in Request, End(r)
          PROVE  SlotsCounted'
      <2>1. Holding' = Holding \ {r} /\ r \in Holding
        BY <1>2 DEF End, Release, Holding, TypeOK
      <2>2. QED
        BY <1>2, <2>1, FS_RemoveElement DEF SlotsCounted, End, Release
    <1>3. ASSUME UNCHANGED active, NEW r \in Request,
                 request[r] # Over, request'[r].phase # "over",
                 \A q \in Request \ {r} : request'[q] = request[q]
          PROVE  SlotsCounted'
      <2>1. request'[r] # Over
        BY <1>3 DEF Over
      <2>2. Holding' = Holding
        BY <1>3, <2>1 DEF Holding
      <2>3. QED
        BY <1>3, <2>2 DEF SlotsCounted
    <1>4. ASSUME UNCHANGED <<active, request>>
          PROVE  SlotsCounted'
      BY <1>4 DEF SlotsCounted, Holding
    <1>5. ASSUME NEW r \in Request, NEW size \in 0..MAX_BODY + 1, NEW more \in BOOLEAN,
                 ReadBody(r, size, more)
          PROVE  SlotsCounted'
      <2>1. request[r].phase = "reading" /\ request[r] # Over /\ request[r] \in RequestLifetime
        BY <1>5, OverPhase DEF ReadBody, Over
      <2>2. CASE request[r].read + size > MAX_BODY
        BY <1>5, <1>3, <2>1, <2>2, HeadSent DEF ReadBody, Unanswered
      <2>3. CASE ~(request[r].read + size > MAX_BODY)
        <3>1. request'[r].phase \in {"reading", "serving"}
          BY <1>5, <2>1, <2>3 DEF ReadBody, TypeOK, RequestLifetime
        <3>2. \A q \in Request \ {r} : request'[q] = request[q]
          BY <1>5, <2>3 DEF ReadBody, TypeOK
        <3>3. QED
          BY <1>5, <1>3, <2>1, <3>1, <3>2 DEF ReadBody
      <2>4. QED
        BY <2>2, <2>3
    <1>6. ASSUME NEW r \in Request, RejectLength(r) \/ Respond(r)
          PROVE  SlotsCounted'
      <2>1. request[r].phase \in Unanswered /\ SendHead(r) /\ UNCHANGED active
        BY <1>6 DEF RejectLength, Respond, Unanswered
      <2>2. request[r] # Over
        BY <2>1 DEF Unanswered, Over
      <2>3. QED
        BY <1>3, <2>1, <2>2, HeadSent
    <1>7. ASSUME NEW r \in Request, OpenRuntime(r) \/ Complete(r) \/ Timeout(r)
          PROVE  SlotsCounted'
      <2>1. request[r].phase # "over" /\ request[r] # Over
        BY <1>7 DEF OpenRuntime, Complete, Timeout, InScope, Phase, Over
      <2>2. request[r] \in RequestLifetime
        BY <2>1, OverPhase
      <2>3. request'[r].phase # "over" /\ \A q \in Request \ {r} : request'[q] = request[q]
        BY <1>7, <2>2 DEF OpenRuntime, Complete, Timeout, GoesTo, TypeOK, RequestLifetime
      <2>4. QED
        BY <1>3, <1>7, <2>1, <2>3 DEF OpenRuntime, Complete, Timeout
    <1>8. ASSUME Refuse \/ Tick \/ UNCHANGED vars
                   \/ \E r \in Request : StopRuntime(r) \/ CloseClient(r)
          PROVE  SlotsCounted'
      BY <1>4, <1>8 DEF Refuse, Tick, vars, StopRuntime, CloseClient
    <1>9. QED
      BY <1>1, <1>2, <1>5, <1>6, <1>7, <1>8 DEF Next

-------------------------------------------------------------------------------
(* Work: a runtime opens in its request's scope; what ends the scope, a      *)
(* timeout or the end of the request, cancels it                             *)

LEMMA WorkStep == TypeOK /\ WorkInScope /\ [Next]_vars => WorkInScope'
    <1> SUFFICES ASSUME TypeOK, WorkInScope, [Next]_vars,
                        NEW q \in Request, runtime'[q].phase = "running"
                 PROVE  request'[q].phase \in Phase \ {"draining"}
      BY DEF WorkInScope, Running, InScope
    <1>0. runtime[q].phase = "running" => request[q].phase \in Phase \ {"draining"}
      BY DEF WorkInScope, Running, InScope
    <1>1. ASSUME NEW r \in Request, Admit(r)
          PROVE  request'[q].phase \in Phase \ {"draining"}
      BY <1>0, <1>1 DEF Admit, TypeOK, None
    <1>2. ASSUME NEW r \in Request, NEW size \in 0..MAX_BODY + 1, NEW more \in BOOLEAN,
                 ReadBody(r, size, more)
          PROVE  request'[q].phase \in Phase \ {"draining"}
      <2>1. request[r] \in RequestLifetime /\ request[r].phase \in Unanswered
        BY <1>2, OverPhase DEF ReadBody, Unanswered
      <2>2. runtime' = runtime
        BY <1>2 DEF ReadBody
      <2>3. CASE request[r].read + size > MAX_BODY
        BY <1>0, <1>2, <2>1, <2>2, <2>3, HeadSent DEF ReadBody, Phase
      <2>4. CASE ~(request[r].read + size > MAX_BODY)
        <3>1. request'[r].phase \in {"reading", "serving"}
          BY <1>2, <2>1, <2>4 DEF ReadBody, TypeOK, RequestLifetime
        <3>2. \A p \in Request \ {r} : request'[p] = request[p]
          BY <1>2, <2>4 DEF ReadBody, TypeOK
        <3>3. QED
          BY <1>0, <2>2, <3>1, <3>2 DEF Phase
      <2>5. QED
        BY <2>3, <2>4
    <1>3. ASSUME NEW r \in Request, RejectLength(r) \/ Respond(r)
          PROVE  request'[q].phase \in Phase \ {"draining"}
      <2>1. request[r].phase \in Unanswered /\ SendHead(r) /\ UNCHANGED runtime
        BY <1>3 DEF RejectLength, Respond, Unanswered
      <2>2. QED
        BY <1>0, <2>1, HeadSent DEF Phase
    <1>4. ASSUME NEW r \in Request, OpenRuntime(r) \/ Complete(r)
          PROVE  request'[q].phase \in Phase \ {"draining"}
      <2>1. request[r] \in RequestLifetime
        BY <1>4, OverPhase DEF OpenRuntime, Complete
      <2>2. /\ request'[r].phase \in {"working", "answered"}
            /\ \A p \in Request \ {r} : request'[p] = request[p] /\ runtime'[p] = runtime[p]
        BY <1>4, <2>1 DEF OpenRuntime, Complete, GoesTo, TypeOK, RequestLifetime
      <2>3. QED
        BY <1>0, <2>2 DEF Phase
    <1>5. ASSUME NEW r \in Request, Timeout(r) \/ End(r)
          PROVE  request'[q].phase \in Phase \ {"draining"}
      <2>1. runtime' = Cancelled(r) /\ \A p \in Request \ {r} : request'[p] = request[p]
        BY <1>5 DEF Timeout, End, Release, TypeOK
      <2>2. QED
        BY <1>0, <2>1, CancelledType
    <1>6. ASSUME NEW r \in Request, StopRuntime(r) \/ CloseClient(r)
          PROVE  request'[q].phase \in Phase \ {"draining"}
      <2>1. CASE StopRuntime(r)
        BY <1>0, <2>1, CancelledType DEF StopRuntime
      <2>2. CASE CloseClient(r)
        BY <1>0, <2>2 DEF CloseClient, TypeOK, None
      <2>3. QED
        BY <1>6, <2>1, <2>2
    <1>7. CASE Refuse \/ Tick \/ UNCHANGED vars
      BY <1>0, <1>7 DEF Refuse, Tick, vars
    <1>8. QED
      BY <1>1, <1>2, <1>3, <1>4, <1>5, <1>6, <1>7 DEF Next

-------------------------------------------------------------------------------
(* Heads: the flag is set with the head, and a timeout asks for the flag *)

HeadOf(r) ==
    /\ heads[r] <= 1
    /\ request[r] = Over => heads[r] = 0
    /\ InScope(r) /\ ~request[r].started => heads[r] = 0
    /\ request[r].phase \in Unanswered => ~request[r].started

LEMMA HeadsStep == TypeOK /\ HeadsFlagged /\ [Next]_vars => HeadsFlagged'
    <1> SUFFICES ASSUME TypeOK, HeadsFlagged, [Next]_vars, NEW q \in Request
                 PROVE  HeadOf(q)'
      BY DEF HeadsFlagged, HeadOf
    <1>0. HeadOf(q) /\ heads[q] \in Nat
      BY DEF HeadsFlagged, HeadOf, TypeOK
    <1>1. ASSUME request'[q] = request[q], heads'[q] = heads[q]
          PROVE  HeadOf(q)'
      BY <1>0, <1>1 DEF HeadOf, InScope
    <1>2. ASSUME NEW r \in Request, Admit(r)
          PROVE  HeadOf(q)'
      <2>1. CASE q = r
        <3>1. heads'[q] = 0
          BY <1>0, <1>2, <2>1 DEF HeadOf, Admit
        <3>2. ~request'[q].started
          BY <1>2, <2>1 DEF Admit, TypeOK
        <3>3. QED
          BY <3>1, <3>2 DEF HeadOf
      <2>2. CASE q # r
        BY <1>1, <1>2, <2>2 DEF Admit, TypeOK
      <2>3. QED
        BY <2>1, <2>2
    <1>3. ASSUME NEW r \in Request, request[r].phase \in Unanswered, SendHead(r)
          PROVE  HeadOf(q)'
      <2>1. CASE q = r
        <3>1. heads[q] = 0
          BY <1>0, <1>3, <2>1 DEF HeadOf, InScope, Unanswered, Phase
        <3>2. heads'[q] = 1
          <4>1. heads'[r] = heads[r] + 1
            BY <1>3, HeadSent
          <4>2. QED
            BY <2>1, <3>1, <4>1
        <3>3. request'[q].phase = "answering" /\ request'[q].started
          BY <1>3, <2>1, HeadSent
        <3>4. request'[q] # Over
          BY <3>3 DEF Over
        <3>5. QED
          BY <3>2, <3>3, <3>4 DEF HeadOf, Unanswered
      <2>2. CASE q # r
        BY <1>1, <1>3, <2>2, HeadSent
      <2>3. QED
        BY <2>1, <2>2
    <1>4. ASSUME NEW r \in Request, NEW size \in 0..MAX_BODY + 1, NEW more \in BOOLEAN,
                 ReadBody(r, size, more)
          PROVE  HeadOf(q)'
      <2>1. request[r].phase = "reading" /\ request[r] \in RequestLifetime
        BY <1>4, OverPhase DEF ReadBody
      <2>2. CASE request[r].read + size > MAX_BODY
        BY <1>3, <1>4, <2>1, <2>2 DEF ReadBody, Unanswered
      <2>3. CASE ~(request[r].read + size > MAX_BODY) /\ q = r
        <3>1. request[q].phase \in Unanswered /\ heads[q] = 0 /\ ~request[q].started
          BY <1>0, <2>1, <2>3 DEF HeadOf, InScope, Phase, Unanswered
        <3>2. heads'[q] = 0 /\ ~request'[q].started
          BY <1>4, <2>1, <2>3, <3>1 DEF ReadBody, TypeOK, RequestLifetime
        <3>3. QED
          BY <3>2 DEF HeadOf
      <2>4. CASE ~(request[r].read + size > MAX_BODY) /\ q # r
        BY <1>1, <1>4, <2>4 DEF ReadBody, TypeOK
      <2>5. QED
        BY <2>2, <2>3, <2>4
    <1>5. ASSUME NEW r \in Request, RejectLength(r) \/ Respond(r)
          PROVE  HeadOf(q)'
      BY <1>3, <1>5 DEF RejectLength, Respond, Unanswered
    <1>6. ASSUME NEW r \in Request, OpenRuntime(r) \/ Complete(r)
          PROVE  HeadOf(q)'
      <2>1. request[r] \in RequestLifetime /\ request[r].phase \in {"serving", "answering"}
        BY <1>6, OverPhase DEF OpenRuntime, Complete
      <2>2. CASE q = r
        <3>1. /\ heads'[q] = heads[q] /\ request'[q].started = request[q].started
              /\ request[q].phase = "serving" => request'[q].phase = "working"
              /\ request[q].phase = "answering" => request'[q].phase = "answered"
          BY <1>6, <2>1, <2>2 DEF OpenRuntime, Complete, GoesTo, TypeOK, RequestLifetime
        <3>2. request'[q] # Over
          BY <2>1, <2>2, <3>1 DEF Over
        <3>3. InScope(q)
          BY <2>1, <2>2 DEF InScope, Phase
        <3>4. QED
          BY <1>0, <2>1, <2>2, <3>1, <3>2, <3>3 DEF HeadOf, Unanswered
      <2>3. CASE q # r
        BY <1>1, <1>6, <2>3 DEF OpenRuntime, Complete, GoesTo, TypeOK
      <2>4. QED
        BY <2>2, <2>3
    <1>7. ASSUME NEW r \in Request, Timeout(r)
          PROVE  HeadOf(q)'
      <2>1. request[r] \in RequestLifetime
        BY <1>7, OverPhase DEF Timeout, InScope, Phase
      <2>2. CASE q = r
        <3>1. heads'[q] <= 1
          BY <1>0, <1>7, <2>2 DEF Timeout, HeadOf, TypeOK
        <3>2. request'[q].phase = "draining"
          BY <1>7, <2>1, <2>2 DEF Timeout, TypeOK, RequestLifetime
        <3>3. request'[q] # Over
          BY <3>2 DEF Over
        <3>4. QED
          BY <3>1, <3>2, <3>3 DEF HeadOf, InScope, Unanswered
      <2>3. CASE q # r
        BY <1>1, <1>7, <2>3 DEF Timeout, TypeOK
      <2>4. QED
        BY <2>2, <2>3
    <1>8. ASSUME NEW r \in Request, End(r)
          PROVE  HeadOf(q)'
      <2>1. CASE q = r
        <3>1. heads'[q] = 0 /\ request'[q] = Over
          BY <1>8, <2>1 DEF End, Release, TypeOK
        <3>2. request'[q].phase = "over"
          BY <3>1 DEF Over
        <3>3. QED
          BY <3>1, <3>2 DEF HeadOf, InScope, Phase, Unanswered
      <2>2. CASE q # r
        BY <1>1, <1>8, <2>2 DEF End, Release, TypeOK
      <2>3. QED
        BY <2>1, <2>2
    <1>9. ASSUME Refuse \/ Tick \/ UNCHANGED vars
                   \/ \E r \in Request : StopRuntime(r) \/ CloseClient(r)
          PROVE  HeadOf(q)'
      BY <1>1, <1>9 DEF Refuse, Tick, vars, StopRuntime, CloseClient
    <1>10. QED
      BY <1>2, <1>4, <1>5, <1>6, <1>7, <1>8, <1>9 DEF Next

-------------------------------------------------------------------------------
(* The theorems *)

LEMMA InitInv == Init => IInv
    <1> SUFFICES ASSUME Init PROVE IInv
      OBVIOUS
    <1>1. TypeOK
      BY DEF Init, TypeOK
    <1>2. Holding = {}
      BY DEF Init, Holding
    <1>3. SlotsCounted
      BY <1>2, FS_EmptySet DEF Init, SlotsCounted
    <1>4. WorkInScope
      BY DEF Init, WorkInScope, Running, None
    <1>5. HeadsFlagged
      BY DEF Init, HeadsFlagged, Over, InScope, Phase, Unanswered
    <1>6. QED
      BY <1>1, <1>3, <1>4, <1>5 DEF IInv

\* The slots, the scopes and the flag, together (transport.py, track_send and
\* the finally clause).
THEOREM Invariance == Spec => []IInv
    <1>1. IInv /\ [Next]_vars => IInv'
      BY TypeStep, SlotsStep, WorkStep, HeadsStep DEF IInv
    <1>2. QED
      BY InitInv, <1>1, PTL DEF Spec

\* Each request gives back exactly the slot it took, no work goes on outside the
\* scope of its request and no request is answered twice, for any number of
\* requests and any limits.
THEOREM SlotsAreExact == Spec => []SlotsExact
    <1>1. IInv => SlotsExact
      BY DEF IInv, SlotsCounted, WorkInScope, HeadsFlagged, SlotsExact
    <1>2. QED
      BY Invariance, <1>1, PTL

-------------------------------------------------------------------------------
(* The rate: what the deque has dropped is too old to count                 *)

LEMMA FirstExists ==
    ASSUME NEW s \in Seq(Nat), NEW t \in Int
    PROVE  /\ FirstAfter(s, t) \in 1 .. Len(s) + 1
           /\ FirstAfter(s, t) <= Len(s) => s[FirstAfter(s, t)] > t
           /\ \A j \in 1 .. FirstAfter(s, t) - 1 : s[j] <= t
    <1> DEFINE K == {k \in 1 .. Len(s) + 1 : k <= Len(s) => s[k] > t}
    <1>1. Len(s) \in Nat /\ \A j \in 1 .. Len(s) : s[j] \in Nat
      BY LenProperties, ElementOfSeq
    <1>2. Len(s) + 1 \in K /\ K \subseteq Nat
      BY <1>1
    <1>3. PICK k \in K : \A j \in K : ~(<<j, k>> \in OpToRel(<, Nat))
      BY <1>2, NatLessThanWellFounded, WFMin
    <1>4. \A j \in K : ~(j < k)
      BY <1>2, <1>3, Zenon DEF OpToRel
    <1>5. \A j \in 1 .. k - 1 : s[j] <= t
      <2>1. ASSUME NEW j \in 1 .. k - 1, ~(s[j] <= t) PROVE FALSE
        <3>1. j \in 1 .. Len(s) + 1 /\ j < k /\ j <= Len(s)
          BY <1>1
        <3>2. s[j] > t
          BY <1>1, <2>1, <3>1
        <3>3. QED
          BY <1>4, <3>1, <3>2
      <2>2. QED
        BY <2>1
    <1>6. \E m \in 1 .. Len(s) + 1 :
            /\ m <= Len(s) => s[m] > t
            /\ \A j \in 1 .. m - 1 : s[j] <= t
      BY <1>5
    <1>7. QED
      BY <1>6 DEF FirstAfter

\* What is left is the end of the deque, and what is not is too old.
LEMMA RecentShape ==
    ASSUME NEW s \in Seq(Nat), NEW now \in Int
    PROVE  /\ Recent(s, now) \in Seq(Nat)
           /\ Len(Recent(s, now)) \in 0 .. Len(s)
           /\ \A j \in 1 .. Len(Recent(s, now)) :
                Recent(s, now)[j] = s[Len(s) - Len(Recent(s, now)) + j]
           /\ \A j \in 1 .. Len(s) - Len(Recent(s, now)) : s[j] <= now - WINDOW
           /\ Len(Recent(s, now)) > 0 => Recent(s, now)[1] > now - WINDOW
    <1> DEFINE k == FirstAfter(s, now - WINDOW)
    <1>1. now - WINDOW \in Int /\ Len(s) \in Nat
      BY LimitParameters, LenProperties
    <1>2. /\ k \in 1 .. Len(s) + 1
          /\ k <= Len(s) => s[k] > now - WINDOW
          /\ \A j \in 1 .. k - 1 : s[j] <= now - WINDOW
      BY <1>1, FirstExists
    <1> HIDE DEF k
    <1>3. /\ SubSeq(s, k, Len(s)) \in Seq(Nat)
          /\ Len(SubSeq(s, k, Len(s))) = Len(s) - k + 1
          /\ \A j \in 1 .. Len(s) - k + 1 : SubSeq(s, k, Len(s))[j] = s[k + j - 1]
      BY <1>1, <1>2, SubSeqProperties
    <1>4. Recent(s, now) = SubSeq(s, k, Len(s))
      BY DEF Recent, k
    <1>5. Len(Recent(s, now)) = Len(s) - k + 1 /\ Recent(s, now) \in Seq(Nat)
      BY <1>3, <1>4
    <1>6. Len(Recent(s, now)) \in 0 .. Len(s)
      BY <1>1, <1>2, <1>5
    <1>7. \A j \in 1 .. Len(Recent(s, now)) :
            Recent(s, now)[j] = s[Len(s) - Len(Recent(s, now)) + j]
      <2>1. TAKE j \in 1 .. Len(Recent(s, now))
      <2>2. Recent(s, now)[j] = s[k + j - 1]
        BY <1>3, <1>4, <1>5
      <2>3. k + j - 1 = Len(s) - Len(Recent(s, now)) + j
        BY <1>1, <1>2, <1>5
      <2>4. QED
        BY <2>2, <2>3
    <1>8. \A j \in 1 .. Len(s) - Len(Recent(s, now)) : s[j] <= now - WINDOW
      <2>1. Len(s) - Len(Recent(s, now)) = k - 1
        BY <1>1, <1>2, <1>5
      <2>2. QED
        BY <1>2, <2>1
    <1>9. Len(Recent(s, now)) > 0 => Recent(s, now)[1] > now - WINDOW
      <2>1. SUFFICES ASSUME Len(Recent(s, now)) > 0
                     PROVE  Recent(s, now)[1] > now - WINDOW
        OBVIOUS
      <2>2. 1 \in 1 .. Len(s) - k + 1 /\ k <= Len(s) /\ k + 1 - 1 = k
        BY <1>1, <1>2, <1>5, <2>1
      <2>3. Recent(s, now)[1] = s[k]
        BY <1>3, <1>4, <2>2
      <2>4. QED
        BY <1>2, <2>2, <2>3
    <1>10. QED
      BY <1>5, <1>6, <1>7, <1>8, <1>9

\* d is what a deque for the log may look like now.
DequeFor(d) ==
    /\ d \in Seq(Nat) /\ log \in Seq(Nat)
    /\ Len(d) \in 0 .. Len(log)
    /\ \A j \in 1 .. Len(d) : d[j] = log[Len(log) - Len(d) + j]
    /\ \A j \in 1 .. Len(log) - Len(d) : log[j] <= clock - WINDOW

LEMMA Pruned ==
    ASSUME clock \in Nat, DequeFor(started)
    PROVE  DequeFor(Recent(started, clock)) /\ Len(Recent(started, clock)) <= Len(started)
    <1> DEFINE d == Recent(started, clock)
               m == Len(log) - Len(started)
    <1>1. /\ started \in Seq(Nat) /\ log \in Seq(Nat)
          /\ Len(started) \in 0 .. Len(log) /\ clock \in Int
      BY DEF DequeFor
    <1>2. Len(log) \in Nat /\ Len(started) \in Nat /\ WINDOW \in Nat
      BY <1>1, LenProperties, LimitParameters
    <1>3. /\ d \in Seq(Nat) /\ Len(d) \in 0 .. Len(started)
          /\ \A j \in 1 .. Len(d) : d[j] = started[Len(started) - Len(d) + j]
          /\ \A j \in 1 .. Len(started) - Len(d) : started[j] <= clock - WINDOW
      BY <1>1, RecentShape, Zenon
    <1> HIDE DEF d
    <1>4. \A j \in 1 .. Len(d) : d[j] = log[Len(log) - Len(d) + j]
      <2>1. TAKE j \in 1 .. Len(d)
      <2>2. Len(started) - Len(d) + j \in 1 .. Len(started)
        BY <1>2, <1>3
      <2>3. started[Len(started) - Len(d) + j]
              = log[Len(log) - Len(started) + (Len(started) - Len(d) + j)]
        BY <2>2 DEF DequeFor
      <2>4. Len(log) - Len(started) + (Len(started) - Len(d) + j) = Len(log) - Len(d) + j
        BY <1>2, <1>3
      <2>5. QED
        BY <1>3, <2>3, <2>4
    <1>5. \A j \in 1 .. Len(log) - Len(d) : log[j] <= clock - WINDOW
      <2>1. TAKE j \in 1 .. Len(log) - Len(d)
      <2>2. CASE j <= m
        BY <1>2, <1>3, <2>2 DEF DequeFor
      <2>3. CASE j > m
        <3>1. j - m \in 1 .. Len(started) - Len(d) /\ j - m \in 1 .. Len(started)
          BY <1>2, <1>3, <2>3
        <3>2. started[j - m] = log[Len(log) - Len(started) + (j - m)]
          BY <3>1 DEF DequeFor
        <3>3. Len(log) - Len(started) + (j - m) = j
          BY <1>2
        <3>4. QED
          BY <1>3, <3>1, <3>2, <3>3
      <2>4. QED
        BY <1>2, <2>2, <2>3
    <1>6. QED
      BY <1>1, <1>2, <1>3, <1>4, <1>5 DEF DequeFor, d

\* One more is admitted: no window of the log holds more than the deque.
LEMMA Appended ==
    ASSUME clock \in Nat, NEW d, DequeFor(d), Len(d) < LIMIT, RateKept,
           started' = Append(d, clock), log' = Append(log, clock), clock' = clock
    PROVE  DequeFor(started)' /\ Len(started') <= LIMIT /\ RateKept'
    <1> DEFINE n == Len(log) + 1
    <1>1. /\ d \in Seq(Nat) /\ log \in Seq(Nat) /\ Len(d) \in 0 .. Len(log)
          /\ Len(log) \in Nat /\ Len(d) \in Nat /\ WINDOW \in Nat /\ LIMIT \in Nat
      BY LenProperties, LimitParameters DEF DequeFor
    <1>2. /\ log' \in Seq(Nat) /\ Len(log') = n /\ log'[n] = clock
          /\ \A j \in 1 .. Len(log) : log'[j] = log[j]
      BY <1>1, AppendProperties
    <1>3. /\ started' \in Seq(Nat) /\ Len(started') = Len(d) + 1
          /\ started'[Len(d) + 1] = clock
          /\ \A j \in 1 .. Len(d) : started'[j] = d[j]
      BY <1>1, AppendProperties
    <1>4. DequeFor(started)'
      <2>1. \A j \in 1 .. Len(d) + 1 : started'[j] = log'[n - (Len(d) + 1) + j]
        <3>1. TAKE j \in 1 .. Len(d) + 1
        <3>2. CASE j = Len(d) + 1
          BY <1>1, <1>2, <1>3, <3>2
        <3>3. CASE j # Len(d) + 1
          <4>1. j \in 1 .. Len(d) /\ Len(log) - Len(d) + j \in 1 .. Len(log)
                  /\ n - (Len(d) + 1) + j = Len(log) - Len(d) + j
            BY <1>1, <3>3
          <4>2. d[j] = log[Len(log) - Len(d) + j]
            BY <4>1 DEF DequeFor
          <4>3. QED
            BY <1>2, <1>3, <4>1, <4>2
        <3>4. QED
          BY <3>2, <3>3
      <2>2. \A j \in 1 .. n - (Len(d) + 1) : log'[j] <= clock - WINDOW
        BY <1>1, <1>2 DEF DequeFor
      <2>3. Len(started') \in 0 .. Len(log')
        BY <1>1, <1>2, <1>3
      <2>4. QED
        <3>1. started' \in Seq(Nat) /\ log' \in Seq(Nat)
          BY <1>2, <1>3
        <3>2. \A j \in 1 .. Len(started') : started'[j] = log'[Len(log') - Len(started') + j]
          BY <1>2, <1>3, <2>1
        <3>3. \A j \in 1 .. Len(log') - Len(started') : log'[j] <= clock' - WINDOW
          BY <1>2, <1>3, <2>2
        <3>4. QED
          BY <2>3, <3>1, <3>2, <3>3 DEF DequeFor
    <1>5. RateKept'
      <2>1. SUFFICES ASSUME NEW i \in 1 .. n
                     PROVE  Cardinality({j \in 1 .. i : log'[j] > log'[i] - WINDOW}) <= LIMIT
        BY <1>2, LenProperties DEF RateKept, WithinWindow
      <2>2. CASE i # n
        <3>1. i \in 1 .. Len(log) /\ i \in DOMAIN log
          BY <1>1, <2>2, LenProperties
        <3>2. {j \in 1 .. i : log'[j] > log'[i] - WINDOW} = WithinWindow(i)
          BY <1>1, <1>2, <3>1 DEF WithinWindow
        <3>3. QED
          BY <3>1, <3>2 DEF RateKept
      <2>3. CASE i = n
        <3> DEFINE W == {j \in 1 .. n : log'[j] > clock - WINDOW}
                   L == (n - Len(d)) .. n
        <3>1. W \subseteq L
          <4>1. ASSUME NEW j \in 1 .. n, log'[j] > clock - WINDOW, j < n - Len(d)
                PROVE  FALSE
            <5>1. j \in 1 .. Len(log) - Len(d) /\ j \in 1 .. Len(log)
              BY <1>1, <4>1
            <5>2. log'[j] = log[j] /\ log[j] <= clock - WINDOW /\ log[j] \in Nat
              BY <1>1, <1>2, <5>1, ElementOfSeq, LenProperties DEF DequeFor
            <5>3. QED
              BY <1>1, <4>1, <5>2
          <4>2. n - Len(d) \in Int /\ n \in Int
            BY <1>1
          <4>3. \A j \in 1 .. n : log'[j] > clock - WINDOW => j \in (n - Len(d)) .. n
            <5>1. TAKE j \in 1 .. n
            <5>2. HAVE log'[j] > clock - WINDOW
            <5>3. ~(j < n - Len(d))
              BY <4>1, <5>2
            <5>4. QED
              BY <4>2, <5>3
          <4>4. QED
            BY <4>3
        <3>2. IsFiniteSet(L) /\ Cardinality(L) = Len(d) + 1
          BY <1>1, FS_Interval
        <3>3. Cardinality(W) <= Len(d) + 1
          BY <3>1, <3>2, FS_Subset
        <3>4. Cardinality(W) \in Nat
          BY <3>1, <3>2, FS_Subset, FS_CardinalityType
        <3>5. Len(d) + 1 <= LIMIT
          BY <1>1
        <3>6. {j \in 1 .. i : log'[j] > log'[i] - WINDOW} = W
          BY <1>2, <2>3
        <3> HIDE DEF W
        <3>7. Cardinality(W) <= LIMIT
          BY <1>1, <3>3, <3>4, <3>5
        <3>8. QED
          BY <3>6, <3>7
      <2>4. QED
        BY <2>2, <2>3
    <1>6. QED
      BY <1>1, <1>3, <1>4, <1>5

RateInv == clock \in Nat /\ DequeFor(started) /\ Len(started) <= LIMIT /\ RateKept

LEMMA RateInit == Init => RateInv
    <1> SUFFICES ASSUME Init PROVE RateInv
      OBVIOUS
    <1>1. started = <<>> /\ log = <<>> /\ clock = 0
      BY DEF Init
    <1>2. Len(started) = 0 /\ Len(log) = 0 /\ DOMAIN log = {} /\ started \in Seq(Nat)
      BY <1>1
    <1>3. QED
      BY <1>1, <1>2, LimitParameters DEF RateInv, DequeFor, RateKept

LEMMA RateStep == RateInv /\ [Next]_vars => RateInv'
    <1> SUFFICES ASSUME RateInv, [Next]_vars PROVE RateInv'
      OBVIOUS
    <1> DEFINE d == Recent(started, clock)
    <1>1. DequeFor(d) /\ Len(d) <= Len(started)
      BY Pruned DEF RateInv
    <1>2. Len(d) \in Nat /\ Len(started) \in Nat /\ LIMIT \in Nat
      BY <1>1, LenProperties, LimitParameters DEF RateInv, DequeFor
    <1> HIDE DEF d
    <1>3. ASSUME NEW r \in Request, Admit(r)
          PROVE  RateInv'
      <2>1. /\ ~Full(d) /\ started' = Append(d, clock)
            /\ log' = Append(log, clock) /\ clock' = clock
        BY <1>3 DEF Admit, d
      <2>2. Len(d) < LIMIT
        BY <1>2, <2>1 DEF Full
      <2>3. DequeFor(started)' /\ Len(started') <= LIMIT /\ RateKept'
        BY <1>1, <2>1, <2>2, Appended DEF RateInv
      <2>4. QED
        BY <2>1, <2>3 DEF RateInv
    <1>4. CASE Refuse
      <2>1. started' = d /\ log' = log /\ clock' = clock
        BY <1>4 DEF Refuse, d
      <2>2. DequeFor(started)'
        BY <1>1, <2>1 DEF DequeFor
      <2>3. RateKept'
        BY <2>1 DEF RateInv, RateKept, WithinWindow
      <2>4. clock' \in Nat /\ Len(started') <= LIMIT
        BY <1>1, <1>2, <2>1 DEF RateInv
      <2>5. QED
        BY <2>2, <2>3, <2>4 DEF RateInv
    <1>5. CASE Tick
      <2>1. started' = started /\ log' = log /\ clock' = clock + 1
        BY <1>5 DEF Tick
      <2>2. \A j \in 1 .. Len(log) - Len(started) : log[j] <= clock + 1 - WINDOW
        <3>1. TAKE j \in 1 .. Len(log) - Len(started)
        <3>2. log[j] <= clock - WINDOW /\ log[j] \in Nat
          BY <1>2, LenProperties, ElementOfSeq DEF RateInv, DequeFor
        <3>3. QED
          BY <3>2, LimitParameters DEF RateInv
      <2>3. DequeFor(started)'
        <3>1. \A j \in 1 .. Len(log') - Len(started') : log'[j] <= clock' - WINDOW
          <4>1. clock \in Nat /\ WINDOW \in Nat
            BY LimitParameters DEF RateInv
          <4>2. clock' - WINDOW = clock + 1 - WINDOW
            BY <2>1, <4>1
          <4>3. QED
            BY <2>1, <2>2, <4>2
        <3>2. QED
          BY <2>1, <3>1 DEF RateInv, DequeFor
      <2>4. RateKept' /\ clock' \in Nat /\ Len(started') <= LIMIT
        BY <2>1 DEF RateInv, RateKept, WithinWindow
      <2>5. QED
        BY <2>3, <2>4 DEF RateInv
    <1>6. ASSUME UNCHANGED <<clock, started, log>> PROVE RateInv'
      BY <1>6 DEF RateInv, DequeFor, RateKept, WithinWindow
    <1>7. ASSUME NEW r \in Request, NEW size \in 0 .. MAX_BODY + 1, NEW more \in BOOLEAN,
                 \/ ReadBody(r, size, more) \/ RejectLength(r) \/ OpenRuntime(r)
                 \/ Respond(r) \/ Complete(r) \/ Timeout(r) \/ End(r)
                 \/ StopRuntime(r) \/ CloseClient(r)
          PROVE  RateInv'
      BY <1>6, <1>7 DEF ReadBody, RejectLength, OpenRuntime, Respond, Complete, Timeout,
         End, StopRuntime, CloseClient
    <1>8. CASE UNCHANGED vars
      BY <1>6, <1>8 DEF vars
    <1>9. QED
      <2>1. 0 \in 0 .. MAX_BODY + 1 /\ TRUE \in BOOLEAN
        BY LimitParameters
      <2>2. QED
        BY <1>3, <1>4, <1>5, <1>7, <1>8, <2>1 DEF Next

LEMMA RateInvariance == Spec => []RateInv
    BY RateInit, RateStep, PTL DEF Spec

\* No window of the log holds more than LIMIT admissions, for any limit, window and
\* number of requests, although stamps are dropped only when a request arrives.
THEOREM RateIsKept == Spec => []RateKept
    <1>1. RateInv => RateKept
      BY DEF RateInv
    <1>2. QED
      BY <1>1, RateInvariance, PTL

\* A refusal for the rate names the first moment with room again.
THEOREM RefusalsAreHonest == Spec => RetryHonest
    <1> DEFINE room(t) == Len(Recent(started', t)) < LIMIT
               again == clock + answer'.after
               Honest == answer'.kind = "refused" /\ Len(started') >= LIMIT =>
                           room(again) /\ \A t \in clock .. again - 1 : ~room(t)
    <1>1. ASSUME RateInv, Next PROVE Honest
      <2>1. SUFFICES ASSUME answer'.kind = "refused", Len(started') >= LIMIT
                     PROVE  room(again) /\ \A t \in clock .. again - 1 : ~room(t)
        OBVIOUS
      <2>2. Refuse
        <3>1. answer' # Quiet /\ answer' # Admitted
          BY <2>1 DEF Quiet, Admitted
        <3>2. QED
          BY <1>1, <3>1 DEF Next, Admit, ReadBody, RejectLength, OpenRuntime, Respond,
             Complete, Timeout, End, StopRuntime, CloseClient, Tick
      <2> DEFINE d == Recent(started, clock)
      <2>3. started' = d /\ answer' = Refusal(RetryAfter(d))
        BY <2>2 DEF Refuse
      <2>4. /\ d \in Seq(Nat) /\ Len(d) \in 0 .. Len(started)
            /\ Len(d) > 0 => d[1] > clock - WINDOW
        <3>1. started \in Seq(Nat) /\ clock \in Int
          BY <1>1 DEF RateInv, DequeFor
        <3>2. QED
          BY <3>1, RecentShape, Zenon
      <2> HIDE DEF d
      <2>5. /\ Len(d) = LIMIT /\ LIMIT > 0 /\ d[1] \in Nat
            /\ clock \in Nat /\ LIMIT \in Nat /\ WINDOW \in Nat
        <3>1. Len(started) \in Nat /\ Len(started) <= LIMIT /\ LIMIT \in Nat \ {0}
          BY <1>1, LenProperties, LimitParameters DEF RateInv, DequeFor
        <3>2. Len(d) = LIMIT
          BY <2>1, <2>3, <2>4, <3>1
        <3>3. d[1] \in Nat
          BY <2>4, <3>1, <3>2, ElementOfSeq
        <3>4. QED
          BY <1>1, <3>1, <3>2, <3>3, LimitParameters DEF RateInv
      <2>6. again = d[1] + WINDOW
        BY <2>3, <2>5 DEF RetryAfter, Refusal
      <2> HIDE DEF again
      <2>7. room(again)
        <3>1. again \in Int
          BY <2>5, <2>6
        <3>2. /\ Len(Recent(d, again)) \in 0 .. Len(d)
              /\ \A j \in 1 .. Len(Recent(d, again)) :
                   Recent(d, again)[j] = d[Len(d) - Len(Recent(d, again)) + j]
              /\ Len(Recent(d, again)) > 0 => Recent(d, again)[1] > again - WINDOW
          BY <2>4, <3>1, RecentShape
        <3>3. ASSUME Len(Recent(d, again)) = Len(d) PROVE FALSE
          <4>1. 1 \in 1 .. Len(Recent(d, again)) /\ Len(d) - Len(Recent(d, again)) + 1 = 1
            BY <2>5, <3>3
          <4>2. Recent(d, again)[1] = d[Len(d) - Len(Recent(d, again)) + 1]
            BY <3>2, <4>1
          <4>3. QED
            BY <2>5, <2>6, <3>2, <3>3, <4>1, <4>2
        <3>4. QED
          BY <2>3, <2>5, <3>2, <3>3
      <2>8. ASSUME NEW t \in clock .. again - 1 PROVE ~room(t)
        <3>1. t \in Int /\ t < d[1] + WINDOW
          BY <2>5, <2>6
        <3>2. /\ Len(Recent(d, t)) \in 0 .. Len(d)
              /\ \A j \in 1 .. Len(d) - Len(Recent(d, t)) : d[j] <= t - WINDOW
          BY <2>4, <3>1, RecentShape
        <3>3. Len(Recent(d, t)) = Len(d)
          BY <2>5, <3>1, <3>2
        <3>4. QED
          BY <2>3, <2>5, <3>3
      <2>9. QED
        BY <2>7, <2>8 DEF again
    <1>2. RateInv /\ [Next]_vars => [Honest]_vars
      BY <1>1
    <1>3. QED
      BY <1>2, RateInvariance, PTL DEF Spec, RetryHonest

===============================================================================
