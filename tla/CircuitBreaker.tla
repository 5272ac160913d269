---------------------------- MODULE CircuitBreaker ----------------------------
(***************************************************************************)
(* One circuit breaker, as core/security/circuit_breaker.py obtains it from *)
(* its factories: the steps of the breaker as operators on its state, for   *)
(* the modules whose calls go through one.                                  *)
(*                                                                         *)
(* External: purgatory.  Its context counts consecutive failures, refuses a *)
(* call by raising OpenedState on entry, and after the time to live lets    *)
(* calls through again to find out.                                         *)
(***************************************************************************)
EXTENDS Naturals

CONSTANT Threshold   \* default_threshold

ASSUME ThresholdAssumption == Threshold \in Nat \ {0}

\* expired: the time to live of an opened breaker has elapsed.
Breaker == [state : {"closed", "opened", "half-opened"}, failures : 0..Threshold, expired : BOOLEAN]

Closed == [state |-> "closed", failures |-> 0, expired |-> FALSE]
Opened == [state |-> "opened", failures |-> Threshold, expired |-> FALSE]

Refuses(b) == b.state = "opened" /\ ~b.expired

\* A call enters the context.
Entered(b) == IF b.state = "opened" THEN [b EXCEPT !.state = "half-opened"] ELSE b

\* The call ends.  An opened breaker ignores results that come late.
Succeeded(b) == IF b.state = "opened" THEN b ELSE Closed

\* Mutant: a breaker that counts and never opens.
FailedUncounted(b) == [b EXCEPT !.failures = @ + 1]

Failed(b) ==
  CASE b.state = "opened" -> b
    [] b.state = "closed" /\ b.failures + 1 < Threshold -> [b EXCEPT !.failures = @ + 1]
    [] OTHER -> Opened

Expired(b) == [b EXCEPT !.expired = TRUE]
===============================================================================
