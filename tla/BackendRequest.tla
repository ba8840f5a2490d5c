----------------------------- MODULE BackendRequest -----------------------------
(***************************************************************************)
(* One call of NoviIsClient.request_json (client.py): the request budget,  *)
(* attempts, the single retry of a read after a server error, and what the *)
(* caller is told.  WriteFlow takes a write's POST as one step; here are   *)
(* its steps, and those of reads.                                          *)
(*                                                                         *)
(* Time is in seconds.  Cancel scopes fire in the second they are due, but *)
(* only at an await: parsing a response cannot be interrupted.             *)
(***************************************************************************)
EXTENDS Naturals

CONSTANTS
    BUDGET,   \* MCP_REQUEST_TIMEOUT_SECONDS
    WAIT,     \* SERVER_ERROR_WAIT
    PARSING,  \* bound: what parsing a response may take
    Enclosing \* what is left to the MCP request when the call begins

ASSUME RequestParameters ==
    /\ BUDGET \in Nat \ {0} /\ WAIT \in Nat /\ PARSING \in Nat
    /\ Enclosing \subseteq Nat

VARIABLES
    seconds,  \* since the call began
    stage,
    asked,    \* what the call is: fixed when it begins
    retried,  \* retried_500
    due,      \* end of the sleep
    sent,     \* HTTP requests sent
    flight,   \* those the backend has not handled
    response, \* the backend's answer to the last one
    applied,  \* effects the backend made
    result    \* what request_json returned or raised

clientVars == <<seconds, stage, asked, retried, due, sent, flight, response,
                applied, result>>

-------------------------------------------------------------------------------
(* State *)

Asked == [write: BOOLEAN, enclosing: Enclosing]

\* Status codes by what request_json does with them; the 3xx are "moved".
Class == {"ok", "moved", "401", "403", "404", "429", "4xx", "5xx"}
\* coded: with an error code; for "ok": an error inside a success.
Response == [class: Class, coded: BOOLEAN]
Nothing == [class |-> "none"]

\* "rejection": NoviIsAPIError with a 4xx status, the only exception that a
\* write tool turns into a structured answer; "server": ServerError; "denied":
\* Unauthorized, PermissionDenied, AgentSuspended; "status": HTTPStatusError and
\* errors with another status; "contract": BackendContractError.  told: it says
\* that the outcome of a write is unknown, which a contract error always does.
Kind == {"ok", "rejection", "denied", "status", "server", "contract", "cancelled"}
Result == [kind: Kind, told: BOOLEAN, at: Nat]
Pending == [kind |-> "none"]

Least(a, b) == IF a < b THEN a ELSE b
\* min(deadline, current_effective_deadline())
Limit == Least(BUDGET, asked.enclosing)

ClientTypeOK ==
    /\ seconds \in 0..Limit + PARSING
    /\ stage \in {"loop", "waiting", "reading", "sleeping", "ended"}
    /\ asked \in Asked
    /\ retried \in BOOLEAN /\ due \in 0..Limit
    /\ sent \in 0..2 /\ flight \in 0..1
    /\ response \in Response \cup {Nothing}
    /\ applied \in 0..1
    /\ result \in Result \cup {Pending}

External == <<flight, applied>>

End(kind, told) ==
    /\ stage' = "ended"
    /\ result' = [kind |-> kind, told |-> told, at |-> seconds']

-------------------------------------------------------------------------------
(* The call *)

\* The top of the loop: one attempt with what is left of the budget.
Send ==
    /\ stage = "loop" /\ seconds < Limit
    /\ stage' = "waiting"
    /\ sent' = sent + 1 /\ flight' = flight + 1
    /\ response' = Nothing
    /\ UNCHANGED <<seconds, asked, retried, due, applied, result>>

\* "no further request was sent"
Exhausted ==
    /\ stage = "loop" /\ seconds >= Limit
    /\ seconds' = seconds
    /\ End("server", FALSE)
    /\ UNCHANGED <<External, asked, retried, due, sent, response>>

\* _read_bounded_response: the status line and headers.  What a denial does to
\* the agent's cached boards here is DenyLoad and Invalidate of BoardsCache.
ReadHeaders ==
    /\ stage = "waiting" /\ response # Nothing
    /\ stage' = "reading"
    /\ UNCHANGED <<External, seconds, asked, retried, due, sent, response, result>>

\* Too long, wrong encoding, broken gzip, or a success that is not JSON.
BodyInvalid ==
    /\ stage = "reading"
    /\ seconds' = seconds
    /\ End("contract", TRUE)
    /\ UNCHANGED <<External, asked, retried, due, sent, response>>

\* What the answer means to the caller, when the call does not go on.
Meaning ==
    CASE response.class = "ok"   -> IF response.coded THEN {"contract"} ELSE {"ok"}
      [] response.class = "401"  -> {"denied"}
      \* suspended, header and secret errors come before the code
      [] response.class = "403"  -> IF response.coded THEN {"denied", "rejection"}
                                                    ELSE {"denied"}
      [] response.class = "429"  -> {"rejection"}
      [] response.class = "moved" -> {"status"}
      [] response.class \in {"404", "4xx"} ->
           IF response.coded THEN {"rejection"} ELSE {"status"}
      [] response.class = "5xx"  -> {"server"}

\* Fault: a write is retried like a read.
RetriesAny(now) == ~retried /\ Limit - now > WAIT + 1
\* Fault: the retry gets what the sleep leaves, however little.
RetriesLate(now) == ~asked.write /\ ~retried /\ Limit - now > WAIT
\* Only reads, only once, and only with more than a second left after the wait.
Retries(now) == ~asked.write /\ ~retried /\ Limit - now > WAIT + 1

TooLate(now) == now >= Limit

\* The body is parsed, which takes a while, and the answer is acted on.
Parse ==
    /\ stage = "reading"
    /\ seconds' \in seconds..seconds + PARSING
    /\ IF TooLate(seconds')
       THEN End("server", asked.write) /\ UNCHANGED <<retried, due>>
       ELSE IF response.class = "5xx" /\ Retries(seconds')
            THEN /\ stage' = "sleeping"
                 /\ retried' = TRUE /\ due' = seconds' + WAIT
                 /\ result' = result
            ELSE /\ \E kind \in Meaning :
                      End(kind, kind = "contract" \/ (kind = "server" /\ asked.write))
                 /\ UNCHANGED <<retried, due>>
    /\ UNCHANGED <<External, asked, sent, response>>

Wake ==
    /\ stage = "sleeping" /\ seconds >= due
    /\ stage' = "loop"
    /\ UNCHANGED <<External, seconds, asked, retried, due, sent, response, result>>

\* fail_after(remaining)
\* Fault: every attempt gets a budget of its own.
AttemptOverAnew == seconds >= IF retried THEN due + Limit ELSE Limit
AttemptOver == seconds >= Limit

\* The attempt's deadline, or a transport error, before or after the headers.
\* Nothing is known of the request: it may be handled later.
AttemptFails ==
    /\ stage \in {"waiting", "reading"}
    /\ seconds' = seconds
    /\ End("server", asked.write)
    /\ UNCHANGED <<External, asked, retried, due, sent, response>>

Timeout == AttemptOver /\ AttemptFails
TransportError == AttemptFails

\* The request around the call ends first: deadline, disconnect.
Cancel ==
    /\ stage \in {"waiting", "reading", "sleeping"}
    /\ seconds' = seconds
    /\ End("cancelled", FALSE)
    /\ UNCHANGED <<External, asked, retried, due, sent, response>>

-------------------------------------------------------------------------------
(* The backend (external) and time *)

\* A request is handled, whether or not somebody still waits.  Only 2xx and 5xx
\* answers, and answers that get lost, can go with an effect.
Handle ==
    /\ flight > 0 /\ flight' = flight - 1
    /\ \E class \in Class, coded \in BOOLEAN, effect \in BOOLEAN, lost \in BOOLEAN :
         /\ effect => asked.write /\ class \in {"ok", "5xx"}
         /\ asked.write /\ class = "ok" => effect
         /\ applied' = IF effect THEN applied + 1 ELSE applied
         /\ response' = IF lost \/ stage # "waiting" THEN response
                        ELSE [class |-> class, coded |-> coded]
    /\ UNCHANGED <<seconds, stage, asked, retried, due, sent, result>>

Prompt ==
    CASE stage = "loop"     -> FALSE     \* no await
      [] stage \in {"waiting", "reading"} -> ~AttemptOver
      [] stage = "sleeping" -> seconds < Least(due, asked.enclosing)
      [] stage = "ended"    -> FALSE

Elapse ==
    /\ Prompt
    /\ seconds' = seconds + 1
    /\ UNCHANGED <<External, stage, asked, retried, due, sent, response, result>>

ClientInit ==
    /\ seconds = 0 /\ stage = "loop"
    /\ asked \in Asked
    /\ retried = FALSE /\ due = 0
    /\ sent = 0 /\ flight = 0 /\ response = Nothing /\ applied = 0
    /\ result = Pending

ClientNext ==
    \/ Send \/ Exhausted \/ ReadHeaders \/ BodyInvalid \/ Parse \/ Wake
    \/ Timeout \/ TransportError \/ Cancel
    \/ Handle \/ Elapse

ClientSpec == ClientInit /\ [][ClientNext]_clientVars

\* The event loop runs what is ready, timers included, and time goes on.  The
\* backend may be silent for ever, and a body may never end.
ClientFairness ==
    /\ WF_clientVars(Send) /\ WF_clientVars(Exhausted)
    /\ WF_clientVars(Wake) /\ WF_clientVars(Timeout)
    /\ WF_clientVars(Elapse)

ClientFairSpec == ClientSpec /\ ClientFairness

-------------------------------------------------------------------------------
(* Properties *)

\* What the caller is told is true.  A result is returned within the budget of
\* the call and of the request around it, that of a write when the backend made
\* it; after the rejection of a write it is not made and cannot be made any
\* more, and every ServerError or BackendContractError of a write that was sent
\* says that its outcome is unknown.
OutcomeHonest ==
    /\ result.kind = "ok" => result.at < Limit /\ (asked.write => applied = 1)
    /\ asked.write =>
        /\ result.kind = "rejection" => applied = 0 /\ flight = 0
        /\ result.kind \in {"server", "contract"} /\ sent > 0 => result.told

\* client.py:235-236: a retry has more than a second left, also after the sleep.
RetryHasBudget ==
    [][sent' > sent /\ sent > 0 => Limit - seconds > 1]_clientVars

\* Every call ends, whatever the backend does, before headers, in the middle of
\* a body or by not answering a retry; and it ends within the budget, attempts
\* and sleep together, but for the parsing that began in time.
RequestEnds == <>(result # Pending /\ result.at <= Limit + PARSING)
===============================================================================
