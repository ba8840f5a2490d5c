------------------------------ MODULE RequestLimit ------------------------------
(***************************************************************************)
(* The HTTP edge of the server: RequestLimitMiddleware and                 *)
(* RequestSizeLimitMiddleware (transport.py), and the lifespan of main.py  *)
(* that gives every request a runtime with its own backend client.         *)
(*                                                                         *)
(* The runtime runs in the application's task group, outside the request's *)
(* cancel scope.  The request holds an admission slot; the runtime must    *)
(* not go on once that slot is given back.                                 *)
(*                                                                         *)
(* Time is in ticks.  Cancel scopes are taken to fire in the tick they are *)
(* due: the clock does not move past a deadline nobody has acted on.       *)
(***************************************************************************)
EXTENDS Integers, Sequences, FiniteSets

CONSTANTS
    Request,        \* HTTP requests; a name is used again when it is over
    MAX_CONCURRENT, \* MCP_MAX_CONCURRENT_REQUESTS
    LIMIT,          \* MCP_REQUEST_LIMIT
    WINDOW,         \* MCP_REQUEST_WINDOW_SECONDS
    TIMEOUT,        \* MCP_REQUEST_TIMEOUT_SECONDS
    MAX_BODY,       \* MCP_MAX_REQUEST_BYTES
    GRACE,          \* time to send the timeout answer
    CLOSING,        \* time to close the backend client
    MaxClock        \* bound: nothing is admitted that could outlast it

ASSUME LimitParameters ==
    /\ MAX_CONCURRENT \in Nat \ {0} /\ LIMIT \in Nat \ {0}
    /\ WINDOW \in Nat \ {0} /\ TIMEOUT \in Nat \ {0}
    /\ MAX_BODY \in Nat /\ GRACE \in Nat \ {0} /\ CLOSING \in Nat \ {0}
    /\ MaxClock \in Nat

VARIABLES
    clock,
    active,   \* slots taken
    started,  \* when the requests of the window were admitted, oldest first
    request,  \* where each request is
    runtime,  \* the SDK work of each request
    heads,    \* history: response heads given to the server for each request
    log,      \* history: when requests were admitted
    answer    \* what the last arrival was told

vars == <<clock, active, started, request, runtime, heads, log, answer>>

-------------------------------------------------------------------------------
(* State *)

Phase == {"reading", "serving", "working", "answering", "answered", "draining"}
Over == [phase |-> "over"]
\* due: the end of the cancel scope; started: RequestLimitMiddleware's
\* response_started; read: bytes of the body
\* while it is read.
RequestLifetime == [phase: Phase, due: Nat, started: BOOLEAN, read: 0..MAX_BODY]

None == [phase |-> "none"]
Runtime == [phase: {"running", "closing"}, due: Nat]

Holding == {r \in Request : request[r] # Over}
Running == {r \in Request : runtime[r].phase = "running"}

Admitted == [kind |-> "admitted"]
Refusal(after) == [kind |-> "refused", after |-> after]
Quiet == [kind |-> "none"]

TypeOK ==
    /\ clock \in Nat
    /\ request \in [Request -> RequestLifetime \cup {Over}]
    /\ runtime \in [Request -> Runtime \cup {None}]
    /\ heads \in [Request -> Nat]

-------------------------------------------------------------------------------
(* Admission: no await between the check and the reservation *)

\* The first stamp after the moment t: the deque is only popped from the left.
FirstAfter(s, t) ==
    CHOOSE k \in 1 .. Len(s) + 1 :
        /\ k <= Len(s) => s[k] > t
        /\ \A j \in 1 .. k - 1 : s[j] <= t

\* Fault: a stamp is dropped one tick too early.
RecentEarly(s, now) == SubSeq(s, FirstAfter(s, now - WINDOW + 1), Len(s))
\* The stamps that are left after the old ones are dropped.
Recent(s, now) == SubSeq(s, FirstAfter(s, now - WINDOW), Len(s))

Full(recent) == active >= MAX_CONCURRENT \/ Len(recent) >= LIMIT

\* Fault: the wait is counted from the newest stamp.
RetryAfterNewest(recent) ==
    IF Len(recent) < LIMIT THEN 1 ELSE recent[Len(recent)] + WINDOW - clock
RetryAfter(recent) ==
    IF Len(recent) < LIMIT THEN 1 ELSE recent[1] + WINDOW - clock

\* POST, PUT and PATCH have a body to read first.
Admit(r) ==
    LET recent == Recent(started, clock)
    IN  /\ request[r] = Over /\ runtime[r] = None
        /\ clock + TIMEOUT + GRACE + CLOSING <= MaxClock
        /\ ~Full(recent)
        /\ active' = active + 1
        /\ started' = Append(recent, clock)
        /\ log' = Append(log, clock)
        /\ \E phase \in {"reading", "serving"} :
             request' = [request EXCEPT ![r] =
               [phase |-> phase, due |-> clock + TIMEOUT, started |-> FALSE,
                read |-> 0]]
        /\ answer' = Admitted
        /\ UNCHANGED <<clock, runtime, heads>>

Refuse ==
    LET recent == Recent(started, clock)
    IN  /\ Full(recent)
        /\ started' = recent
        /\ answer' = Refusal(RetryAfter(recent))
        /\ UNCHANGED <<clock, active, request, runtime, heads, log>>

-------------------------------------------------------------------------------
(* A request in its cancel scope *)

InScope(r) == request[r].phase \in Phase \ {"draining"}

GoesTo(r, phase) == request' = [request EXCEPT ![r].phase = phase]

\* track_send: the flag is set before the server is given the head.
SendHead(r) ==
    /\ request' = [request EXCEPT ![r].phase = "answering", ![r].started = TRUE]
    /\ heads' = [heads EXCEPT ![r] = @ + 1]

\* The next part of the body.  What is larger than the limit is answered 413.
ReadBody(r, size, more) ==
    /\ request[r].phase = "reading"
    /\ IF request[r].read + size > MAX_BODY
       THEN SendHead(r)
       ELSE /\ request' = [request EXCEPT
                  ![r].phase = IF more THEN "reading" ELSE "serving",
                  ![r].read = IF more THEN @ + size ELSE 0]
            /\ heads' = heads
    /\ answer' = Quiet
    /\ UNCHANGED <<clock, active, started, runtime, log>>

\* A Content-Length that is not a size, or too large a one, is answered.
RejectLength(r) ==
    /\ request[r].phase = "reading" /\ request[r].read = 0
    /\ SendHead(r)
    /\ answer' = Quiet
    /\ UNCHANGED <<clock, active, started, runtime, log>>

\* mcp_lifespan: the runtime takes the request's deadline and registers cancel.
\* The SDK opens one for a request it can serve.
OpenRuntime(r) ==
    /\ request[r].phase = "serving"
    /\ GoesTo(r, "working")
    /\ runtime' = [runtime EXCEPT ![r] =
         [phase |-> "running", due |-> request[r].due]]
    /\ answer' = Quiet
    /\ UNCHANGED <<clock, active, started, heads, log>>

Respond(r) ==
    /\ request[r].phase \in {"serving", "working"}
    /\ SendHead(r)
    /\ answer' = Quiet
    /\ UNCHANGED <<clock, active, started, runtime, log>>

\* The last part of the response is sent.
Complete(r) ==
    /\ request[r].phase = "answering"
    /\ GoesTo(r, "answered")
    /\ answer' = Quiet
    /\ UNCHANGED <<clock, active, started, runtime, heads, log>>

\* lifetime.cancel(): closing the client is shielded, for a while.
\* Fault: closing the client has no limit of its own.
CancelledOpen(r) ==
    IF r \in Running
    THEN [runtime EXCEPT ![r] = [phase |-> "closing", due |-> MaxClock + 1]]
    ELSE runtime
Cancelled(r) ==
    IF r \in Running
    THEN [runtime EXCEPT ![r] = [phase |-> "closing", due |-> clock + CLOSING]]
    ELSE runtime

\* The scope has fired: 504 unless a response has begun, else its end.
Timeout(r) ==
    /\ InScope(r) /\ clock >= request[r].due
    /\ runtime' = Cancelled(r)
    /\ request' = [request EXCEPT ![r].phase = "draining", ![r].due = clock + GRACE]
    /\ heads' = IF request[r].started THEN heads ELSE [heads EXCEPT ![r] = @ + 1]
    /\ answer' = Quiet
    /\ UNCHANGED <<clock, active, started, log>>

\* Fault: a request that is cut off keeps its slot.
ReleaseAnswered(r) ==
    /\ runtime' = Cancelled(r)
    /\ request' = [request EXCEPT ![r] = Over]
    /\ active' = IF request[r].phase \in {"answered", "draining"}
                 THEN active - 1 ELSE active
\* The finally clause.
Release(r) ==
    /\ runtime' = Cancelled(r)
    /\ request' = [request EXCEPT ![r] = Over]
    /\ active' = active - 1

\* The handler returns, raises, or is cancelled by a disconnect at any await;
\* while draining, the answer is sent or the grace is over.
End(r) ==
    /\ request[r] # Over
    /\ Release(r)
    /\ heads' = [heads EXCEPT ![r] = 0]
    /\ answer' = Quiet
    /\ UNCHANGED <<clock, started, log>>

-------------------------------------------------------------------------------
(* The runtime on its own *)

\* The SDK is done with the request, or the scope of the lifespan fires.
StopRuntime(r) ==
    /\ r \in Running
    /\ runtime' = Cancelled(r)
    /\ answer' = Quiet
    /\ UNCHANGED <<clock, active, started, request, heads, log>>

\* The client is closed, or closing it is given up.
CloseClient(r) ==
    /\ runtime[r].phase = "closing"
    /\ runtime' = [runtime EXCEPT ![r] = None]
    /\ answer' = Quiet
    /\ UNCHANGED <<clock, active, started, request, heads, log>>

Prompt ==
    /\ \A r \in Holding : clock < request[r].due
    /\ \A r \in Request : runtime[r] # None => clock < runtime[r].due

Tick ==
    /\ clock < MaxClock /\ Prompt
    /\ clock' = clock + 1
    /\ answer' = Quiet
    /\ UNCHANGED <<active, started, request, runtime, heads, log>>

Init ==
    /\ clock = 0 /\ active = 0
    /\ started = <<>> /\ log = <<>>
    /\ request = [r \in Request |-> Over]
    /\ runtime = [r \in Request |-> None]
    /\ heads = [r \in Request |-> 0]
    /\ answer = Quiet

Next ==
    \/ \E r \in Request : Admit(r)
    \/ Refuse
    \/ \E r \in Request :
         \/ \E size \in 0..MAX_BODY + 1, more \in BOOLEAN : ReadBody(r, size, more)
         \/ RejectLength(r)
         \/ OpenRuntime(r)
         \/ Respond(r)
         \/ Complete(r)
         \/ Timeout(r)
         \/ End(r)
         \/ StopRuntime(r)
         \/ CloseClient(r)
    \/ Tick

Spec == Init /\ [][Next]_vars

\* A timer that has fired is acted on, and time passes; nothing else is owed:
\* the peer may never send, read or hang up, and the SDK may never answer.
GraceOver(r) ==
    End(r) /\ request[r].phase = "draining" /\ clock >= request[r].due
ScopeFires(r) == StopRuntime(r) /\ clock >= runtime[r].due
ClosingOver(r) == CloseClient(r) /\ clock >= runtime[r].due

FairSpec ==
    /\ Spec /\ WF_vars(Tick)
    /\ \A r \in Request :
         /\ WF_vars(Timeout(r)) /\ WF_vars(GraceOver(r))
         /\ WF_vars(ScopeFires(r)) /\ WF_vars(ClosingOver(r))

-------------------------------------------------------------------------------
(* Properties *)

\* However a request ends (answer, exception, disconnect, timeout, timeout in
\* the middle of an answer) it gives back exactly the slot it took, and work for
\* it (tools, backend calls, its client) runs only while it holds the slot and
\* has not been told of a timeout: the limit on requests limits the work.  No
\* request is given two heads, also when the timeout comes as an answer begins.
SlotsExact ==
    /\ active = Cardinality(Holding)
    /\ \A r \in Running : InScope(r)
    /\ \A r \in Request : heads[r] <= 1

\* README.md, request limits: at most LIMIT requests are accepted in any
\* rolling window, although the deque is pruned only when a request arrives.
WithinWindow(i) == {j \in 1..i : log[j] > log[i] - WINDOW}
RateKept == \A i \in DOMAIN log : Cardinality(WithinWindow(i)) <= LIMIT

\* A refusal for the rate names the first moment with room again, if nobody
\* else comes.
RetryHonest ==
    [][answer'.kind = "refused" /\ Len(started') >= LIMIT =>
          LET room(t) == Len(Recent(started', t)) < LIMIT
              again == clock + answer'.after
          IN  room(again) /\ \A t \in clock..(again - 1) : ~room(t)]_vars

\* Every slot is given back and every client is closed, whatever peer, SDK and
\* backend do or fail to do.
EverythingEnds ==
    \A r \in Request : ~(request[r] = Over /\ runtime[r] = None) ~>
                          (request[r] = Over /\ runtime[r] = None)
===============================================================================
