------------------------------- MODULE OnceOnly -------------------------------
(***************************************************************************)
(* What the idempotency service promises, without markers, results, workers *)
(* and steps: the work for a key is permitted and done no more often than   *)
(* once, and once more for each time its protection was voided; and a       *)
(* sender is told that it was done only when it was.                        *)
(***************************************************************************)
EXTENDS Naturals

CONSTANT Keys

VARIABLES permitted,  \* how many are allowed to do the work, and have not yet
          done,       \* how often it was done
          told,       \* the sender has its answer
          voided      \* how often the key lost its protection

vars == <<permitted, done, told, voided>>

Init ==
  /\ permitted = [k \in Keys |-> 0]
  /\ done = [k \in Keys |-> 0]
  /\ told = [k \in Keys |-> FALSE]
  /\ voided = [k \in Keys |-> 0]

Permit(k) ==
  /\ permitted[k] + done[k] <= voided[k]
  /\ permitted' = [permitted EXCEPT ![k] = @ + 1]
  /\ UNCHANGED <<done, told>>

Do(k) ==
  /\ permitted[k] > 0
  /\ permitted' = [permitted EXCEPT ![k] = @ - 1]
  /\ done' = [done EXCEPT ![k] = @ + 1]
  /\ UNCHANGED told

GiveUp(k) ==
  /\ permitted[k] > 0
  /\ permitted' = [permitted EXCEPT ![k] = @ - 1]
  /\ UNCHANGED <<done, told>>

Tell(k) ==
  /\ done[k] > 0
  /\ told' = [told EXCEPT ![k] = TRUE]
  /\ UNCHANGED <<permitted, done>>

\* Somebody wants it done again.
Owe(k) ==
  /\ told' = [told EXCEPT ![k] = FALSE]
  /\ UNCHANGED <<permitted, done>>

Void(k) == voided' = [voided EXCEPT ![k] = @ + 1]

Step(k) ==
  /\ Permit(k) \/ Do(k) \/ GiveUp(k) \/ Tell(k) \/ Owe(k) \/ UNCHANGED <<permitted, done, told>>
  /\ Void(k) \/ UNCHANGED voided

\* All protection and all permission is lost together.
Outage ==
  /\ permitted' = [k \in Keys |-> 0]
  /\ voided' = [k \in Keys |-> voided[k] + 1]
  /\ UNCHANGED <<done, told>>

Next == Outage \/ \E k \in Keys : Step(k)

Spec == Init /\ [][Next]_vars
===============================================================================
