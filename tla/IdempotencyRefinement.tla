------------------------- MODULE IdempotencyRefinement -------------------------
(***************************************************************************)
(* The proof that Idempotency implements OnceOnly, for any number of       *)
(* workers and keys, any set of fault kinds and any bounds.                *)
(*                                                                         *)
(* A step concerns one key, or it is the restart that loses the memory.    *)
(* AtKey says, without the functions, what such a step may do to its key;  *)
(* KeyStepMaps turns it into a step of the abstract specification.         *)
(***************************************************************************)
EXTENDS IdempotencyProofs

\* What the refinement substitutes for permitted.
Permitted == [k \in Keys |-> Cardinality(Running(k))]

\* A step of key i as the abstract specification sees it: what it changes of i ...
AtKey(i) ==
  /\ \/ /\ Permitted[i] + effects[i] <= disturbed[i]
        /\ Permitted'[i] = Permitted[i] + 1
        /\ effects'[i] = effects[i] /\ acked'[i] = acked[i]
     \/ /\ Permitted[i] > 0 /\ Permitted'[i] = Permitted[i] - 1
        /\ effects'[i] \in {effects[i], effects[i] + 1} /\ acked'[i] = acked[i]
     \/ /\ effects[i] > 0 /\ acked'[i] = TRUE
        /\ Permitted'[i] = Permitted[i] /\ effects'[i] = effects[i]
     \/ /\ acked'[i] \in {acked[i], FALSE}
        /\ Permitted'[i] = Permitted[i] /\ effects'[i] = effects[i]
  /\ disturbed'[i] \in {disturbed[i], disturbed[i] + 1}

\* ... and that it leaves the others alone.
OthersKept(i) ==
  \A k \in Keys \ {i} :
    /\ Permitted'[k] = Permitted[k] /\ effects'[k] = effects[k]
    /\ acked'[k] = acked[k] /\ disturbed'[k] = disturbed[k]

\* A step of one key is a step of the abstract specification.
LEMMA KeyStepMaps ==
  ASSUME TypeOK, TypeOK', NEW i \in Keys, AtKey(i), OthersKept(i)
  PROVE  Once!Next
  <1>1. /\ effects = [k \in Keys |-> effects[k]] /\ effects' = [k \in Keys |-> effects'[k]]
        /\ acked = [k \in Keys |-> acked[k]] /\ acked' = [k \in Keys |-> acked'[k]]
        /\ disturbed = [k \in Keys |-> disturbed[k]]
        /\ disturbed' = [k \in Keys |-> disturbed'[k]]
    BY DEF TypeOK
  <1>2. /\ Permitted = [k \in Keys |-> Permitted[k]]
        /\ Permitted' = [k \in Keys |-> Permitted'[k]]
    BY DEF Permitted
  <1>3. Once!Void(i) \/ disturbed' = disturbed
    BY <1>1 DEF AtKey, OthersKept, Once!Void
  <1>4. \/ Once!Permit(i) \/ Once!Do(i) \/ Once!GiveUp(i) \/ Once!Tell(i) \/ Once!Owe(i)
        \/ Permitted' = Permitted /\ effects' = effects /\ acked' = acked
    <2>1. CASE /\ Permitted[i] + effects[i] <= disturbed[i]
               /\ Permitted'[i] = Permitted[i] + 1
               /\ effects'[i] = effects[i] /\ acked'[i] = acked[i]
      <3>1. Permitted' = [Permitted EXCEPT ![i] = @ + 1] /\ effects' = effects /\ acked' = acked
        BY <1>1, <1>2, <2>1 DEF OthersKept
      <3>2. Once!Permit(i)
        BY <2>1, <3>1 DEF Once!Permit, Permitted
      <3>3. QED
        BY <3>2
    <2>2. CASE /\ Permitted[i] > 0 /\ Permitted'[i] = Permitted[i] - 1
               /\ effects'[i] \in {effects[i], effects[i] + 1} /\ acked'[i] = acked[i]
      <3>1. /\ Permitted' = [Permitted EXCEPT ![i] = @ - 1] /\ acked' = acked
            /\ effects' = [effects EXCEPT ![i] = @ + 1] \/ effects' = effects
        BY <1>1, <1>2, <2>2 DEF OthersKept
      <3>2. Once!Do(i) \/ Once!GiveUp(i)
        BY <2>2, <3>1 DEF Once!Do, Once!GiveUp, Permitted
      <3>3. QED
        BY <3>2
    <2>3. CASE /\ effects[i] > 0 /\ acked'[i] = TRUE
               /\ Permitted'[i] = Permitted[i] /\ effects'[i] = effects[i]
      <3>1. Permitted' = Permitted /\ effects' = effects /\ acked' = [acked EXCEPT ![i] = TRUE]
        BY <1>1, <1>2, <2>3 DEF OthersKept
      <3>2. Once!Tell(i)
        BY <2>3, <3>1 DEF Once!Tell, Permitted
      <3>3. QED
        BY <3>2
    <2>4. CASE /\ acked'[i] \in {acked[i], FALSE}
               /\ Permitted'[i] = Permitted[i] /\ effects'[i] = effects[i]
      <3>1. /\ Permitted' = Permitted /\ effects' = effects
            /\ acked' = [acked EXCEPT ![i] = FALSE] \/ acked' = acked
        BY <1>1, <1>2, <2>4 DEF OthersKept
      <3>2. Once!Owe(i) \/ acked' = acked
        BY <3>1 DEF Once!Owe, Permitted
      <3>3. QED
        BY <3>1, <3>2
    <2>5. QED
      BY <2>1, <2>2, <2>3, <2>4 DEF AtKey
  <1>5. Once!Step(i)
    BY <1>3, <1>4 DEF Once!Step, Permitted
  <1>6. QED
    BY <1>5 DEF Once!Next

-----------------------------------------------------------------------------
(* Steps that move a worker *)

\* What a move of w to step s does to the workers permitted for each key, w's own
\* key apart: nothing, unless it leaves its key for another.
LEMMA MovePermits ==
  ASSUME TypeOK, NEW w \in Workers, NEW s \in Steps, NEW j \in Keys \cup {NoOne},
         Move(w, s, j), NEW i \in Keys,
         pc[w] = "running" => job[w] = i, s = "running" => j = i
  PROVE  /\ Permitted[i] \in Nat /\ Permitted'[i] \in Nat
         /\ Permitted'[i] = Permitted[i] - Indicator(pc[w] = "running")
                              + Indicator(s = "running")
         /\ \A k \in Keys \ {i} : Permitted'[k] = Permitted[k]
  <1>1. \A k \in Keys :
          /\ Permitted[k] \in Nat /\ Permitted'[k] \in Nat
          /\ Permitted'[k] = Permitted[k] - Indicator(pc[w] = "running" /\ job[w] = k)
                               + Indicator(s = "running" /\ j = k)
    BY Counts DEF Permitted
  <1>2. QED
    BY <1>1 DEF Indicator

\* The facts every worker's step is mapped with.
LEMMA WorkerFacts ==
  ASSUME IInv, NEW w \in Workers, pc[w] # "idle"
  PROVE  /\ TypeOK /\ job[w] \in Keys
         /\ effects[job[w]] \in Nat /\ disturbed[job[w]] \in Nat /\ acked[job[w]] \in BOOLEAN
         /\ Permitted[job[w]] \in Nat
         /\ pc[w] = "running" => Permitted[job[w]] > 0
         /\ pc[w] \in {"store", "unmark"} \/ completed[job[w]] # NoOne => effects[job[w]] > 0
  <1>1. /\ TypeOK /\ job[w] \in Keys
        /\ effects[job[w]] \in Nat /\ disturbed[job[w]] \in Nat /\ acked[job[w]] \in BOOLEAN
    BY DEF IInv, BusyWorkersHaveKeys, TypeOK, At
  <1>2. Running(job[w]) \subseteq Workers /\ Running(job[w]) \ {w} \subseteq Workers
    BY DEF Running
  <1>3. /\ Cardinality(Running(job[w])) \in Nat
        /\ Cardinality(Running(job[w]) \ {w}) \in Nat
        /\ w \in Running(job[w]) =>
             Cardinality(Running(job[w]) \ {w}) = Cardinality(Running(job[w])) - 1
    BY <1>2, OneWorker
  <1>4. pc[w] = "running" => w \in Running(job[w])
    BY DEF Running
  <1>5. pc[w] \in {"store", "unmark"} \/ completed[job[w]] # NoOne => effects[job[w]] > 0
    BY <1>1, DoneFacts
  <1>6. QED
    BY <1>1, <1>3, <1>4, <1>5 DEF Permitted

\* Whoever may be told NEW finds its work paid for: at the script because nothing
\* protects the key, at SETNX because the failed script was counted.
LEMMA NewIsPaidFor ==
  ASSUME IInv, NEW w \in Workers, marker[job[w]] = NoOne,
         pc[w] = "setnx" \/ (pc[w] = "check" /\ completed[job[w]] = NoOne)
  PROVE  Permitted[job[w]] + effects[job[w]] <= disturbed[job[w]]
  <1> DEFINE k == job[w]
  <1>1. TypeOK /\ k \in Keys
    BY WorkerFacts
  <1>2. /\ Cardinality(Running(k)) + Cardinality(Unshielded(k)) + effects[k]
             <= disturbed[k] + Shield(k)
        /\ Shield(k) \in 0..1
        /\ effects[k] \in Nat /\ disturbed[k] \in Nat
    BY <1>1 DEF IInv, WorkIsPaidFor, Shield, TypeOK
  <1>3. Running(k) \subseteq Workers /\ Unshielded(k) \subseteq Workers
        /\ Unshielded(k) \ {w} \subseteq Workers
    BY DEF Running, Unshielded
  <1>4. /\ Cardinality(Running(k)) \in Nat /\ Cardinality(Unshielded(k)) \in Nat
        /\ Cardinality(Unshielded(k) \ {w}) \in Nat
        /\ w \in Unshielded(k) =>
             Cardinality(Unshielded(k) \ {w}) = Cardinality(Unshielded(k)) - 1
    BY <1>3, OneWorker
  <1>5. CASE pc[w] = "setnx"
    <2>1. w \in Unshielded(k)
      BY <1>5 DEF Unshielded
    <2>2. QED
      BY <1>1, <1>2, <1>4, <2>1 DEF Permitted
  <1>6. CASE pc[w] = "check" /\ completed[k] = NoOne
    <2>1. Shield(k) = 0
      BY <1>1, <1>6, WorkersAssumption DEF Shield, Live
    <2>2. QED
      BY <1>1, <1>2, <1>4, <2>1 DEF Permitted
  <1>7. QED
    BY <1>5, <1>6

\* Steps of a worker that neither is nor becomes permitted change nothing the abstract
\* specification sees, but for what they count as a disturbance and whom they tell.
LEMMA UnpermittedMaps ==
  ASSUME IInv, TypeOK', NEW w \in Workers,
         \/ PingAnswers(w) \/ PingFails(w) \/ GetCompleted(w) \/ GetFails(w) \/ SetnxFails(w)
         \/ LuaFails(w) \/ StoreResult(w) \/ StoreSkipsResult(w) \/ StoreUnmarks(w)
         \/ StoreUnmarkFails(w) \/ StoreInMemory(w) \/ ClearInProgress(w)
         \/ ClearInProgressFails(w)
  PROVE  AtKey(job[w]) /\ OthersKept(job[w])
  <1> USE DEF At, Goto, Finish, Disturb, DisturbIf, Ack, AnswerDuplicate
  <1>1. pc[w] # "idle" /\ pc[w] # "running"
    BY DEF PingAnswers, PingFails, GetCompleted, GetFails, SetnxFails, LuaFails, StoreResult,
           StoreSkipsResult, StoreUnmarks, StoreUnmarkFails, StoreInMemory, ClearInProgress,
           ClearInProgressFails
  <1>2. /\ TypeOK /\ job[w] \in Keys
        /\ effects[job[w]] \in Nat /\ disturbed[job[w]] \in Nat /\ acked[job[w]] \in BOOLEAN
        /\ pc[w] \in {"store", "unmark"} \/ completed[job[w]] # NoOne => effects[job[w]] > 0
    BY <1>1, WorkerFacts
  <1>3. pc'[w] # "running" /\ \A v \in Workers \ {w} : pc'[v] = pc[v] /\ job'[v] = job[v]
    BY <1>2 DEF PingAnswers, PingFails, GetCompleted, GetFails, SetnxFails, LuaFails,
                StoreResult, StoreSkipsResult, StoreUnmarks, StoreUnmarkFails, StoreInMemory,
                ClearInProgress, ClearInProgressFails, TypeOK
  <1>4. \A k \in Keys : Running(k)' = Running(k)
    BY <1>1, <1>3 DEF Running
  <1>5. Permitted' = Permitted
    BY <1>4 DEF Permitted
  <1>6. effects' = effects
    BY DEF PingAnswers, PingFails, GetCompleted, GetFails, SetnxFails, LuaFails, StoreResult,
           StoreSkipsResult, StoreUnmarks, StoreUnmarkFails, StoreInMemory, ClearInProgress,
           ClearInProgressFails
  <1>7. \/ acked' = acked
        \/ acked' = [acked EXCEPT ![job[w]] = TRUE] /\ effects[job[w]] > 0
    BY <1>2 DEF PingAnswers, PingFails, GetCompleted, GetFails, SetnxFails, LuaFails,
                StoreResult, StoreSkipsResult, StoreUnmarks, StoreUnmarkFails, StoreInMemory,
                ClearInProgress, ClearInProgressFails
  <1>8. disturbed' = disturbed \/ disturbed' = [disturbed EXCEPT ![job[w]] = @ + 1]
    BY DEF PingAnswers, PingFails, GetCompleted, GetFails, SetnxFails, LuaFails, StoreResult,
           StoreSkipsResult, StoreUnmarks, StoreUnmarkFails, StoreInMemory, ClearInProgress,
           ClearInProgressFails
  <1>9. AtKey(job[w])
    BY <1>2, <1>5, <1>6, <1>7, <1>8 DEF AtKey, TypeOK
  <1>10. OthersKept(job[w])
    BY <1>2, <1>5, <1>6, <1>7, <1>8 DEF OthersKept, TypeOK
  <1>11. QED
    BY <1>9, <1>10

\* A check or a SETNX permits the work when it finds neither result nor marker, and
\* otherwise at most tells the sender of work that was done.
LEMMA VerdictMaps ==
  ASSUME IInv, TypeOK', NEW w \in Workers, CheckAtomically(w) \/ SetnxMarker(w)
  PROVE  AtKey(job[w]) /\ OthersKept(job[w])
  <1> USE DEF At, Goto, Finish, Ack, AnswerDuplicate, AcquireOrYield
  <1>1. /\ pc[w] \in {"check", "setnx"} /\ effects' = effects /\ disturbed' = disturbed
        /\ pc[w] = "setnx" \/ completed[job[w]] = NoOne \/ acked' = [acked EXCEPT ![job[w]] = TRUE]
    BY DEF CheckAtomically, SetnxMarker
  <1>2. /\ TypeOK /\ job[w] \in Keys
        /\ effects[job[w]] \in Nat /\ disturbed[job[w]] \in Nat /\ acked[job[w]] \in BOOLEAN
        /\ completed[job[w]] # NoOne => effects[job[w]] > 0
    BY <1>1, WorkerFacts
  <1>3. CASE Move(w, "idle", NoOne)
    <2>1. \A k \in Keys : Running(k)' = Running(k)
      BY <1>1, <1>2, <1>3 DEF Move, Running, TypeOK
    <2>2. Permitted' = Permitted
      BY <2>1 DEF Permitted
    <2>3. \/ acked' = acked
          \/ acked' = [acked EXCEPT ![job[w]] = TRUE] /\ effects[job[w]] > 0
      BY <1>2 DEF CheckAtomically, SetnxMarker
    <2>4. QED
      BY <1>1, <1>2, <2>2, <2>3 DEF AtKey, OthersKept, TypeOK
  <1>4. CASE /\ Move(w, "running", job[w]) /\ acked' = acked /\ marker[job[w]] = NoOne
             /\ pc[w] = "check" => completed[job[w]] = NoOne
    <2>1. Permitted[job[w]] + effects[job[w]] <= disturbed[job[w]]
      <3>1. pc[w] = "setnx" \/ (pc[w] = "check" /\ completed[job[w]] = NoOne)
        BY <1>1, <1>4
      <3>2. marker[job[w]] = NoOne
        BY <1>4
      <3>3. QED
        BY <3>1, <3>2, NewIsPaidFor
    <2>2. /\ Permitted[job[w]] \in Nat /\ Permitted'[job[w]] = Permitted[job[w]] + 1
          /\ \A k \in Keys \ {job[w]} : Permitted'[k] = Permitted[k]
      BY <1>1, <1>2, <1>4, MovePermits DEF Steps, Indicator
    <2>3. QED
      BY <1>1, <1>2, <1>4, <2>1, <2>2 DEF AtKey, OthersKept, TypeOK
  <1>5. QED
    BY <1>1, <1>2, <1>3, <1>4 DEF CheckAtomically, SetnxMarker, Move, TypeOK

\* Processing is the work; a failure or a crash gives the permission up.
LEMMA WorkMaps ==
  ASSUME IInv, TypeOK', NEW w \in Workers, Process(w) \/ ProcessFails(w) \/ Crash(w)
  PROVE  AtKey(job[w]) /\ OthersKept(job[w])
  <1> USE DEF At, Goto, Finish, Disturb, DisturbIf
  <1>1. pc[w] # "idle" /\ (Crash(w) \/ pc[w] = "running")
    BY DEF Process, ProcessFails, Crash
  <1>2. /\ TypeOK /\ job[w] \in Keys
        /\ effects[job[w]] \in Nat /\ disturbed[job[w]] \in Nat /\ acked[job[w]] \in BOOLEAN
        /\ Permitted[job[w]] \in Nat
        /\ pc[w] = "running" => Permitted[job[w]] > 0
    BY <1>1, WorkerFacts
  <1>3. PICK s \in Steps \ {"running"}, j \in Keys \cup {NoOne} : Move(w, s, j)
    BY <1>2 DEF Process, ProcessFails, Crash, Move, Steps, TypeOK
  <1>4. /\ Permitted'[job[w]] = Permitted[job[w]] - Indicator(pc[w] = "running")
        /\ \A k \in Keys \ {job[w]} : Permitted'[k] = Permitted[k]
    <2>1. Indicator(s = "running") = 0
      BY <1>3 DEF Indicator
    <2>2. Indicator(pc[w] = "running") \in Nat
      BY DEF Indicator
    <2>3. QED
      BY <1>2, <1>3, <2>1, <2>2, MovePermits
  <1>5. acked' = acked /\ (disturbed' = disturbed \/ disturbed' = [disturbed EXCEPT ![job[w]] = @ + 1])
    BY DEF Process, ProcessFails, Crash
  <1>6. \/ effects' = effects
        \/ pc[w] = "running" /\ effects' = [effects EXCEPT ![job[w]] = @ + 1]
    BY DEF Process, ProcessFails, Crash
  <1>7. AtKey(job[w])
    <2>1. CASE pc[w] = "running"
      <3>1. Permitted[job[w]] > 0 /\ Permitted'[job[w]] = Permitted[job[w]] - 1
        BY <1>2, <1>4, <2>1 DEF Indicator
      <3>2. QED
        BY <1>2, <1>5, <1>6, <3>1 DEF AtKey, TypeOK
    <2>2. CASE pc[w] # "running"
      <3>1. Permitted'[job[w]] = Permitted[job[w]]
        BY <1>2, <1>4, <2>2 DEF Indicator
      <3>2. QED
        BY <1>2, <1>5, <1>6, <2>2, <3>1 DEF AtKey, TypeOK
    <2>3. QED
      BY <2>1, <2>2
  <1>8. OthersKept(job[w])
    BY <1>2, <1>4, <1>5, <1>6 DEF OthersKept, TypeOK
  <1>9. QED
    BY <1>7, <1>8

-----------------------------------------------------------------------------
(* The other steps *)

\* Expiry, invalidation and cleanup concern their key's protection, and its answer.
LEMMA KeyStepsMap ==
  ASSUME IInv, TypeOK', NEW i \in Keys, KeyStep(i)
  PROVE  AtKey(i) /\ OthersKept(i)
  <1> USE DEF Disturb, DisturbIf
  <1>1. TypeOK
    BY DEF IInv
  <1>2. pc' = pc /\ job' = job /\ effects' = effects
    BY DEF KeyStep, MarkerExpires, MarkerExpiresEarly, ResultExpires, InvalidateResult,
           InvalidateMarker, CleanupDelete
  <1>3. acked' = acked \/ acked' = [acked EXCEPT ![i] = FALSE]
    BY DEF KeyStep, MarkerExpires, MarkerExpiresEarly, ResultExpires, InvalidateResult,
           InvalidateMarker, CleanupDelete
  <1>4. disturbed' = disturbed \/ disturbed' = [disturbed EXCEPT ![i] = @ + 1]
    BY DEF KeyStep, MarkerExpires, MarkerExpiresEarly, ResultExpires, InvalidateResult,
           InvalidateMarker, CleanupDelete
  <1>5. \A k \in Keys : Running(k)' = Running(k)
    BY <1>2 DEF Running
  <1>6. Permitted' = Permitted
    BY <1>5 DEF Permitted
  <1>7. AtKey(i)
    BY <1>1, <1>2, <1>3, <1>4, <1>6 DEF AtKey, TypeOK
  <1>8. OthersKept(i)
    BY <1>1, <1>2, <1>3, <1>4, <1>6 DEF OthersKept, TypeOK
  <1>9. QED
    BY <1>7, <1>8

\* A step that changes neither the workers nor the histories is a stutter.
LEMMA Stutters ==
  ASSUME UNCHANGED <<pc, job, effects, acked, disturbed>>
  PROVE  UNCHANGED Once!vars
  <1>1. \A k \in Keys : Running(k)' = Running(k)
    BY DEF Running
  <1>2. [k \in Keys |-> Cardinality(Running(k))]' = [k \in Keys |-> Cardinality(Running(k))]
    BY <1>1
  <1>3. QED
    BY <1>2 DEF Once!vars

\* A delivery occupies a worker and permits nothing.
LEMMA DeliverStutters ==
  ASSUME TypeOK, NEW w \in Workers, NEW i \in Keys, Deliver(w, i)
  PROVE  UNCHANGED Once!vars
  <1>1. \A k \in Keys : Running(k)' = Running(k)
    BY DEF Running, Deliver, At, TypeOK
  <1>2. [k \in Keys |-> Cardinality(Running(k))]' = [k \in Keys |-> Cardinality(Running(k))]
    BY <1>1
  <1>3. QED
    BY <1>2 DEF Once!vars, Deliver

\* The restart is the outage: every permission ends, every key is disturbed once.
LEMMA RestartMaps ==
  ASSUME TypeOK, RestartLosesMemory
  PROVE  Once!Outage
  <1>1. \A k \in Keys : Running(k)' = {}
    BY DEF Running, RestartLosesMemory
  <1>2. Cardinality({}) = 0
    BY FS_EmptySet
  <1>3. [k \in Keys |-> Cardinality(Running(k))]' = [k \in Keys |-> 0]
    BY <1>1, <1>2
  <1>4. QED
    BY <1>3 DEF Once!Outage, RestartLosesMemory

-----------------------------------------------------------------------------
(* The theorem *)

\* At first nobody is permitted, nothing done, told or voided.
LEMMA InitMaps == Init => Once!Init
  <1> SUFFICES ASSUME Init PROVE Once!Init
    OBVIOUS
  <1>1. \A k \in Keys : Running(k) = {}
    BY DEF Init, Running
  <1>2. Cardinality({}) = 0
    BY FS_EmptySet
  <1>3. QED
    BY <1>1, <1>2 DEF Init, Once!Init

\* Every step of the service is a step of OnceOnly or a stutter.
LEMMA StepMaps == IInv /\ TypeOK' /\ [Next]_vars => [Once!Next]_(Once!vars)
  <1> SUFFICES ASSUME IInv, TypeOK', [Next]_vars PROVE [Once!Next]_(Once!vars)
    OBVIOUS
  <1>1. TypeOK
    BY DEF IInv
  <1>2. ASSUME NEW i \in Keys, AtKey(i), OthersKept(i) PROVE Once!Next
    BY <1>1, <1>2, KeyStepMaps
  <1>3. CASE UNCHANGED vars \/ CleanupScan \/ CleanupFails
    <2>1. UNCHANGED <<pc, job, effects, acked, disturbed>>
      BY <1>3 DEF vars, CleanupScan, CleanupFails
    <2>2. QED
      BY <2>1, Stutters
  <1>4. ASSUME NEW w \in Workers, NEW k \in Keys, Deliver(w, k) PROVE UNCHANGED Once!vars
    BY <1>1, <1>4, DeliverStutters
  <1>5. ASSUME NEW w \in Workers, WorkerStep(w) \/ WorkerFault(w) PROVE Once!Next
    <2>1. pc[w] # "idle"
      BY <1>5 DEF WorkerStep, WorkerFault, CheckAtomically, PingAnswers, GetCompleted,
         SetnxMarker, Process, StoreResult, StoreUnmarks, StoreInMemory, ClearInProgress,
         LuaFails, PingFails, GetFails, SetnxFails, ProcessFails, StoreSkipsResult,
         StoreUnmarkFails, ClearInProgressFails, Crash, At
    <2>2. job[w] \in Keys
      BY <2>1, WorkerFacts
    <2>3. AtKey(job[w]) /\ OthersKept(job[w])
      BY <1>5, UnpermittedMaps, VerdictMaps, WorkMaps DEF WorkerStep, WorkerFault
    <2>4. QED
      BY <1>2, <2>2, <2>3
  <1>6. ASSUME NEW k \in Keys, KeyStep(k) PROVE Once!Next
    BY <1>2, <1>6, KeyStepsMap
  <1>7. CASE RestartLosesMemory
    BY <1>1, <1>7, RestartMaps DEF Once!Next
  <1>8. QED
    BY <1>3, <1>4, <1>5, <1>6, <1>7 DEF Next

\* The service implements OnceOnly: the work for a key is permitted and done once, and
\* once more for each event that voided the key's protection, and nobody is told of
\* work that was not done.
THEOREM KeepsItsPromise == Spec => ImplementsOnceOnly
  <1>1. IInv => TypeOK
    BY DEF IInv
  <1>2. QED
    BY <1>1, InitMaps, StepMaps, Accounting, PTL DEF Spec, ImplementsOnceOnly, Once!Spec

(* What the promise is worth *)

\* The invariant of the abstract specification: what is permitted and done is paid for.
PromiseKept ==
  /\ Permitted \in [Keys -> Nat] /\ effects \in [Keys -> Nat] /\ disturbed \in [Keys -> Nat]
  /\ acked \in [Keys -> BOOLEAN]
  /\ \A k \in Keys : Permitted[k] + effects[k] <= disturbed[k] + 1
  /\ \A k \in Keys : acked[k] => effects[k] >= 1

\* A step of one key keeps it.
LEMMA PromiseStep ==
  ASSUME PromiseKept, NEW k \in Keys, Once!Step(k)
  PROVE  PromiseKept'
  <1>1. \/ disturbed' = [disturbed EXCEPT ![k] = @ + 1]
        \/ disturbed' = disturbed
    BY DEF Once!Step, Once!Void
  <1>2. \/ /\ Permitted[k] + effects[k] <= disturbed[k]
           /\ Permitted' = [Permitted EXCEPT ![k] = @ + 1] /\ effects' = effects /\ acked' = acked
        \/ /\ Permitted[k] > 0 /\ Permitted' = [Permitted EXCEPT ![k] = @ - 1]
           /\ effects' = [effects EXCEPT ![k] = @ + 1] /\ acked' = acked
        \/ /\ Permitted[k] > 0 /\ Permitted' = [Permitted EXCEPT ![k] = @ - 1]
           /\ effects' = effects /\ acked' = acked
        \/ /\ effects[k] > 0 /\ acked' = [acked EXCEPT ![k] = TRUE]
           /\ Permitted' = Permitted /\ effects' = effects
        \/ /\ acked' = [acked EXCEPT ![k] = FALSE]
           /\ Permitted' = Permitted /\ effects' = effects
        \/ Permitted' = Permitted /\ effects' = effects /\ acked' = acked
    BY DEF Once!Step, Once!Permit, Once!Do, Once!GiveUp, Once!Tell, Once!Owe, Permitted
  <1> HIDE DEF Permitted
  <1>3. /\ disturbed' \in [Keys -> Nat] /\ disturbed'[k] >= disturbed[k]
        /\ \A j \in Keys \ {k} : disturbed'[j] = disturbed[j]
    BY <1>1 DEF PromiseKept
  <1>4. /\ Permitted' \in [Keys -> Nat] /\ effects' \in [Keys -> Nat] /\ acked' \in [Keys -> BOOLEAN]
        /\ \A j \in Keys \ {k} : Permitted'[j] = Permitted[j] /\ effects'[j] = effects[j] /\ acked'[j] = acked[j]
    <2>1. /\ Permitted' \in [Keys -> Nat]
          /\ \A j \in Keys \ {k} : Permitted'[j] = Permitted[j]
      <3>1. \/ Permitted' = Permitted \/ Permitted' = [Permitted EXCEPT ![k] = @ + 1]
            \/ Permitted[k] > 0 /\ Permitted' = [Permitted EXCEPT ![k] = @ - 1]
        BY <1>2
      <3> QED BY <3>1 DEF PromiseKept
    <2>2. /\ effects' \in [Keys -> Nat]
          /\ \A j \in Keys \ {k} : effects'[j] = effects[j]
      <3>1. effects' = effects \/ effects' = [effects EXCEPT ![k] = @ + 1]
        BY <1>2
      <3> QED BY <3>1 DEF PromiseKept
    <2>3. /\ acked' \in [Keys -> BOOLEAN]
          /\ \A j \in Keys \ {k} : acked'[j] = acked[j]
      <3>1. \/ acked' = acked \/ acked' = [acked EXCEPT ![k] = TRUE]
            \/ acked' = [acked EXCEPT ![k] = FALSE]
        BY <1>2
      <3> QED BY <3>1 DEF PromiseKept
    <2> QED BY <2>1, <2>2, <2>3
  <1>5. Permitted'[k] + effects'[k] <= disturbed[k] + 1
    BY <1>2 DEF PromiseKept
  <1>6. acked'[k] => effects'[k] >= 1
    BY <1>2 DEF PromiseKept
  <1>7. ASSUME NEW j \in Keys
        PROVE  /\ Permitted'[j] + effects'[j] <= disturbed'[j] + 1
               /\ acked'[j] => effects'[j] >= 1
    <2>1. /\ Permitted'[j] \in Nat /\ effects'[j] \in Nat /\ disturbed'[j] \in Nat /\ disturbed[k] \in Nat
      BY <1>3, <1>4 DEF PromiseKept
    <2> QED BY <1>3, <1>4, <1>5, <1>6, <2>1 DEF PromiseKept
  <1> QED BY <1>3, <1>4, <1>7 DEF PromiseKept

\* OnceOnly says enough: whatever implements it repeats the work for a key only for an event
\* that voided its protection, and tells nobody of work that was not done.
THEOREM PromiseSuffices == ImplementsOnceOnly => [](RepetitionsAccountedFor /\ AckedWorkWasDone)
  <1>1. Once!Init => PromiseKept
    BY DEF Once!Init, PromiseKept, Permitted
  <1>2. PromiseKept /\ [Once!Next]_(Once!vars) => PromiseKept'
    <2> SUFFICES ASSUME PromiseKept, [Once!Next]_(Once!vars) PROVE PromiseKept'
      OBVIOUS
    <2>1. CASE Once!Outage
      <3>1. Permitted' = [k \in Keys |-> 0] /\ disturbed' = [k \in Keys |-> disturbed[k] + 1]
            /\ effects' = effects /\ acked' = acked
        BY <2>1 DEF Once!Outage, Permitted
      <3> HIDE DEF Permitted
      <3>2. \A k \in Keys : effects[k] <= disturbed[k] + 1
        BY DEF PromiseKept
      <3> QED BY <3>1, <3>2 DEF PromiseKept
    <2>2. CASE UNCHANGED Once!vars
      <3>1. Permitted' = Permitted /\ disturbed' = disturbed /\ effects' = effects /\ acked' = acked
        BY <2>2 DEF Once!vars, Permitted
      <3> HIDE DEF Permitted
      <3> QED BY <3>1 DEF PromiseKept
    <2> QED BY <2>1, <2>2, PromiseStep DEF Once!Next
  <1>3. PromiseKept => RepetitionsAccountedFor /\ AckedWorkWasDone
    <2> SUFFICES ASSUME PromiseKept, NEW k \in Keys
                 PROVE  effects[k] <= 1 + disturbed[k] /\ (acked[k] => effects[k] >= 1)
      BY DEF RepetitionsAccountedFor, AckedWorkWasDone
    <2> HIDE DEF Permitted
    <2> QED BY DEF PromiseKept
  <1> QED BY <1>1, <1>2, <1>3, PTL DEF ImplementsOnceOnly, Once!Spec

\* "Processed exactly once": of a key whose protection nothing has voided, a sender that was
\* answered can rely on it.
THEOREM ExactlyOnceUndisturbed ==
  Spec => [](\A k \in Keys : acked[k] /\ disturbed[k] = 0 => effects[k] = 1)
  <1>1. IInv /\ RepetitionsAccountedFor
          => \A k \in Keys : acked[k] /\ disturbed[k] = 0 => effects[k] = 1
    BY DEF IInv, TypeOK, RepetitionsAccountedFor, AckedWorkWasDone
  <1> QED BY <1>1, Accounting, RepetitionsBounded, PTL

=============================================================================
