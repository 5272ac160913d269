--------------------------- MODULE RequestPipeline ----------------------------
(***************************************************************************)
(* A request on its way through the middleware of features/main.py:        *)
(* AdmissionControlMiddleware (core/api/middleware/admission_control.py)   *)
(* around RequestTimeoutMiddleware (request_timeout.py) around the rest of *)
(* the application, which is called the handler here.                      *)
(*                                                                         *)
(* External: Starlette puts the middleware added last outermost; its       *)
(* BaseHTTPMiddleware runs what is inside in a task of its own, and        *)
(* call_next returns when that task has started its response.  A dispatch  *)
(* that returns before that leaves the task running.                       *)
(***************************************************************************)
EXTENDS Naturals, FiniteSets

CONSTANTS Requests,       \* requests that reach the server
          Exempt,         \* those for /health, /ready, /live, /metrics
          MaxConcurrent   \* MAX_CONCURRENT_REQUESTS

ASSUME RequestsAssumption == IsFiniteSet(Requests) /\ Exempt \subseteq Requests
ASSUME LimitAssumption == MaxConcurrent \in Nat \ {0}

VARIABLES slots,     \* _semaphore's value
          current,   \* _current_requests
          rejected,  \* _total_rejected
          admission, \* AdmissionControlMiddleware.dispatch of each request
          inner,     \* what RequestTimeoutMiddleware.dispatch has returned
          handler,   \* the handler's task
          started,   \* what the handler's task has sent or raised
          worked,    \* requests whose handler has done its work
          answer     \* what the client is answered

counters == <<slots, current, rejected>>
task == <<handler, started, worked>>
vars == <<counters, admission, inner, task, answer>>

TypeOK ==
  /\ slots \in 0..MaxConcurrent /\ current \in 0..MaxConcurrent
  /\ rejected \in 0..Cardinality(Requests)
  /\ admission \in [Requests -> {"new", "waiting", "returned"}]
  /\ inner \in [Requests -> {"nothing", "response", "error", "504"}]
  /\ handler \in [Requests -> {"none", "running", "ended"}]
  /\ started \in [Requests -> {"nothing", "response", "error", "TimeoutError"}]
  /\ worked \in SUBSET Requests
  /\ answer \in [Requests -> {"nothing", "response", "500", "503", "504", "dropped"}]

Init ==
  /\ slots = MaxConcurrent /\ current = 0 /\ rejected = 0
  /\ admission = [r \in Requests |-> "new"]
  /\ inner = [r \in Requests |-> "nothing"]
  /\ handler = [r \in Requests |-> "none"]
  /\ started = [r \in Requests |-> "nothing"]
  /\ worked = {}
  /\ answer = [r \in Requests |-> "nothing"]

-----------------------------------------------------------------------------
(* Helpers *)

Waiting(r) == admission[r] = "waiting"
Running(r) == handler[r] = "running"
Answer(r, a) == answer' = [answer EXCEPT ![r] = a]

\* Requests that hold a slot.
Admitted == {r \in Requests \ Exempt : Waiting(r)}

\* Mutant: the slot is given back only if call_next returned.
ReleaseIfReturned(r) ==
  IF r \in Exempt \/ inner[r] \in {"nothing", "error"}
    THEN UNCHANGED <<slots, current>>
    ELSE slots' = slots + 1 /\ current' = current - 1

\* The finally clause: the slot of a request that has one is given back.
Release(r) ==
  IF r \in Exempt THEN UNCHANGED <<slots, current>>
                  ELSE slots' = slots + 1 /\ current' = current - 1

-----------------------------------------------------------------------------
(* AdmissionControlMiddleware.dispatch *)

\* Mutant: the semaphore is not looked at before it is acquired.
AdmitAlways(r) ==
  /\ admission[r] = "new"
  /\ IF r \in Exempt THEN UNCHANGED <<slots, current>>
       ELSE slots' = (IF slots > 0 THEN slots - 1 ELSE 0) /\ current' = current + 1
  /\ admission' = [admission EXCEPT ![r] = "waiting"]
  /\ handler' = [handler EXCEPT ![r] = "running"]
  /\ UNCHANGED <<rejected, inner, started, worked, answer>>

\* A slot is free, or the path is exempt: the request goes on to the time-out
\* middleware and from there to the handler.  acquire() does not suspend when
\* the semaphore is not locked.
Admit(r) ==
  /\ admission[r] = "new"
  /\ \/ r \in Exempt /\ UNCHANGED <<slots, current>>
     \/ r \notin Exempt /\ slots > 0 /\ slots' = slots - 1 /\ current' = current + 1
  /\ admission' = [admission EXCEPT ![r] = "waiting"]
  /\ handler' = [handler EXCEPT ![r] = "running"]
  /\ UNCHANGED <<rejected, inner, started, worked, answer>>

\* At capacity: 503 with Retry-After.
Reject(r) ==
  /\ admission[r] = "new" /\ r \notin Exempt /\ slots = 0
  /\ rejected' = rejected + 1
  /\ admission' = [admission EXCEPT ![r] = "returned"]
  /\ Answer(r, "503")
  /\ UNCHANGED <<slots, current, inner, task>>

\* call_next returns or raises; an exception becomes a 500 outside all middleware.
AdmissionReturns(r) ==
  /\ Waiting(r) /\ inner[r] # "nothing"
  /\ Release(r)
  /\ admission' = [admission EXCEPT ![r] = "returned"]
  /\ Answer(r, IF inner[r] = "error" THEN "500" ELSE inner[r])
  /\ UNCHANGED <<rejected, inner, task>>

-----------------------------------------------------------------------------
(* RequestTimeoutMiddleware.dispatch *)

\* call_next returned the response the handler has started, or raised what the
\* handler raised.  A TimeoutError of the handler is taken for that of wait_for;
\* on an exempt path it is an error like any other.
TimeoutReturns(r) ==
  /\ Waiting(r) /\ inner[r] = "nothing" /\ started[r] # "nothing"
  /\ inner' = [inner EXCEPT ![r] =
       IF started[r] # "TimeoutError" THEN started[r]
       ELSE IF r \in Exempt THEN "error" ELSE "504"]
  /\ UNCHANGED <<counters, admission, task, answer>>

\* Mutant: wait_for waits for the handler it has cancelled.
TimerFiresPatiently(r) ==
  /\ Waiting(r) /\ inner[r] = "nothing" /\ r \notin Exempt /\ ~Running(r)
  /\ inner' = [inner EXCEPT ![r] = "504"]
  /\ UNCHANGED <<counters, admission, task, answer>>

\* wait_for cancels call_next, which has only been waiting for the handler's
\* task: the task goes on.
TimerFires(r) ==
  /\ Waiting(r) /\ inner[r] = "nothing" /\ r \notin Exempt
  /\ inner' = [inner EXCEPT ![r] = "504"]
  /\ UNCHANGED <<counters, admission, task, answer>>

-----------------------------------------------------------------------------
(* The handler's task *)

\* It does its work, e.g. commits a unit of work ...
HandlerWorks(r) ==
  /\ Running(r) /\ r \notin worked
  /\ worked' = worked \cup {r}
  /\ UNCHANGED <<counters, admission, inner, handler, started, answer>>

\* ... starts its response (nobody may be listening any more) ...
HandlerResponds(r) ==
  /\ Running(r) /\ started[r] = "nothing"
  /\ started' = [started EXCEPT ![r] = "response"]
  /\ UNCHANGED <<counters, admission, inner, handler, worked, answer>>

\* ... or raises something no exception handler inside the middleware takes ...
HandlerRaises(r) ==
  /\ Running(r) /\ started[r] = "nothing"
  /\ \E e \in {"error", "TimeoutError"} : started' = [started EXCEPT ![r] = e]
  /\ handler' = [handler EXCEPT ![r] = "ended"]
  /\ UNCHANGED <<counters, admission, inner, worked, answer>>

\* ... and ends, after what it streams and its background tasks.
HandlerEnds(r) ==
  /\ Running(r) /\ started[r] = "response"
  /\ handler' = [handler EXCEPT ![r] = "ended"]
  /\ UNCHANGED <<counters, admission, inner, started, worked, answer>>

\* The server cancels the request's task at shutdown, and with it all tasks of
\* the middleware.
Cancelled(r) ==
  /\ Waiting(r) \/ Running(r)
  /\ handler' = [handler EXCEPT ![r] = "ended"]
  /\ admission' = [admission EXCEPT ![r] = "returned"]
  /\ IF Waiting(r) THEN Release(r) /\ Answer(r, "dropped")
                   ELSE UNCHANGED <<slots, current, answer>>
  /\ UNCHANGED <<rejected, inner, started, worked>>

-----------------------------------------------------------------------------
Handler(r) == HandlerWorks(r) \/ HandlerResponds(r) \/ HandlerRaises(r) \/ HandlerEnds(r)

\* Every request has been dealt with.
AllDone ==
  /\ \A r \in Requests : admission[r] = "returned" /\ ~Running(r)
  /\ UNCHANGED vars

Next ==
  \/ \E r \in Requests :
       \/ Admit(r) \/ Reject(r) \/ AdmissionReturns(r)
       \/ TimeoutReturns(r) \/ TimerFires(r)
       \/ Handler(r) \/ Cancelled(r)
  \/ AllDone

Spec == Init /\ [][Next]_vars

\* Dispatches go on when they can and REQUEST_TIMEOUT passes.  Nothing is
\* assumed of a handler.
FairSpec ==
  /\ Spec
  /\ \A r \in Requests :
       /\ WF_vars(Admit(r) \/ Reject(r))
       /\ WF_vars(AdmissionReturns(r))
       /\ WF_vars(TimeoutReturns(r) \/ TimerFires(r))

-----------------------------------------------------------------------------
(* Properties *)

\* Every slot is free or held by an admitted request whose dispatch has not
\* returned, and both counters of the middleware agree with it, whether requests
\* are answered, time out, fail or are cancelled.
SlotsConserved ==
  /\ slots + Cardinality(Admitted) = MaxConcurrent
  /\ current = Cardinality(Admitted)

\* What admission control limits: the handlers somebody still waits for.  (Not the
\* handlers that run: one that outlives its 504 has lost its slot.)
UnansweredWithinLimit ==
  Cardinality({r \in Requests \ Exempt : Running(r) /\ answer[r] = "nothing"})
    <= MaxConcurrent

\* No failure, time-out or cancellation takes capacity for good, even if handlers
\* hang: in the end all slots are free.
CapacityReturns == <>[](slots = MaxConcurrent)

\* Every request with a time-out is answered, or dropped by a shutdown, even if no
\* handler ever ends.  (An exempt one depends on its handler.)
EveryRequestAnswered == \A r \in Requests \ Exempt : <>(answer[r] # "nothing")

\* "it will be cancelled and a 504 Gateway Timeout response will be returned"
\* (RequestTimeoutMiddleware): a request that was answered 504 does no work after it.
TimedOutIsCancelled ==
  [][\A r \in Requests : answer[r] = "504" /\ r \in worked' => r \in worked]_vars
=============================================================================
