-------------------------- MODULE IdempotencyProofs --------------------------
(***************************************************************************)
(* Proofs about Idempotency for any number of workers and keys, any set of *)
(* fault kinds and any bounds.                                             *)
(*                                                                         *)
(* Every action moves at most one worker, so the proof counts: Counts says *)
(* how one move changes the three sets of workers the invariant counts,    *)
(* Sections how it changes who is in its section, and each action is then  *)
(* arithmetic.                                                             *)
(***************************************************************************)
EXTENDS Idempotency, FiniteSetTheorems, TLAPS

\* Worker w goes to step s, working for key j.
Move(w, s, j) ==
  /\ pc' = [pc EXCEPT ![w] = s]
  /\ job' = [job EXCEPT ![w] = j]

Indicator(cond) == IF cond THEN 1 ELSE 0

\* Adding or removing one worker changes the size of a set of workers by one.
LEMMA OneWorker ==
  ASSUME NEW S, S \subseteq Workers, NEW w \in Workers
  PROVE  /\ Cardinality(S) \in Nat
         /\ w \notin S => Cardinality(S \cup {w}) = Cardinality(S) + 1
         /\ w \in S => Cardinality(S \ {w}) = Cardinality(S) - 1
  <1>1. IsFiniteSet(S)
    BY WorkersAssumption, FS_Subset
  <1>2. QED
    BY <1>1, FS_CardinalityType, FS_AddElement, FS_RemoveElement

\* The sizes of two sets that differ at most in w.
LEMMA MovedWorker ==
  ASSUME NEW S, NEW T, S \subseteq Workers, T \subseteq Workers,
         NEW w \in Workers, S \ {w} = T \ {w}
  PROVE  /\ Cardinality(S) \in Nat /\ Cardinality(T) \in Nat
         /\ Cardinality(T) = Cardinality(S) - Indicator(w \in S) + Indicator(w \in T)
  <1>1. Cardinality(S) \in Nat /\ Cardinality(T) \in Nat
    BY OneWorker
  <1>2. CASE w \in S /\ w \in T
    <2>1. S = T
      BY <1>2
    <2>2. QED
      BY <1>1, <1>2, <2>1 DEF Indicator
  <1>3. CASE w \notin S /\ w \notin T
    <2>1. S = T
      BY <1>3
    <2>2. QED
      BY <1>1, <1>3, <2>1 DEF Indicator
  <1>4. CASE w \in S /\ w \notin T
    <2>1. T = S \ {w}
      BY <1>4
    <2>2. QED
      BY <1>1, <1>4, <2>1, OneWorker DEF Indicator
  <1>5. CASE w \notin S /\ w \in T
    <2>1. T = S \cup {w}
      BY <1>5
    <2>2. QED
      BY <1>1, <1>5, <2>1, OneWorker DEF Indicator
  <1>6. QED
    BY <1>2, <1>3, <1>4, <1>5

\* How a move of w changes the number of workers in each of the three stages.
LEMMA Counts ==
  ASSUME TypeOK, NEW w \in Workers, NEW s \in Steps, NEW j \in Keys \cup {NoOne},
         Move(w, s, j), NEW k \in Keys
  PROVE  /\ Cardinality(Running(k)) \in Nat
         /\ Cardinality(Running(k))' \in Nat
         /\ Cardinality(Running(k))' = Cardinality(Running(k))
              - Indicator(pc[w] = "running" /\ job[w] = k) + Indicator(s = "running" /\ j = k)
         /\ Cardinality(Unshielded(k)) \in Nat
         /\ Cardinality(Unshielded(k))' \in Nat
         /\ Cardinality(Unshielded(k))' = Cardinality(Unshielded(k))
              - Indicator(pc[w] \in {"ping", "get", "setnx"} /\ job[w] = k)
              + Indicator(s \in {"ping", "get", "setnx"} /\ j = k)
         /\ Cardinality(Storing(k)) \in Nat
         /\ Cardinality(Storing(k))' \in Nat
         /\ Cardinality(Storing(k))' = Cardinality(Storing(k))
              - Indicator(pc[w] = "store" /\ job[w] = k) + Indicator(s = "store" /\ j = k)
  <1> USE DEF TypeOK, Move
  <1>1. /\ Running(k) \subseteq Workers /\ Running(k)' \subseteq Workers
        /\ Unshielded(k) \subseteq Workers /\ Unshielded(k)' \subseteq Workers
        /\ Storing(k) \subseteq Workers /\ Storing(k)' \subseteq Workers
    BY DEF Running, Unshielded, Storing
  <1>2. /\ Running(k) \ {w} = Running(k)' \ {w}
        /\ (w \in Running(k)) = (pc[w] = "running" /\ job[w] = k)
        /\ (w \in Running(k)') = (s = "running" /\ j = k)
    BY DEF Running
  <1>3. /\ Unshielded(k) \ {w} = Unshielded(k)' \ {w}
        /\ (w \in Unshielded(k)) = (pc[w] \in {"ping", "get", "setnx"} /\ job[w] = k)
        /\ (w \in Unshielded(k)') = (s \in {"ping", "get", "setnx"} /\ j = k)
    BY DEF Unshielded
  <1>4. /\ Storing(k) \ {w} = Storing(k)' \ {w}
        /\ (w \in Storing(k)) = (pc[w] = "store" /\ job[w] = k)
        /\ (w \in Storing(k)') = (s = "store" /\ j = k)
    BY DEF Storing
  <1>5. QED
    BY <1>1, <1>2, <1>3, <1>4, MovedWorker DEF Indicator

-----------------------------------------------------------------------------
(* Types *)

TInv == TypeOK /\ BusyWorkersHaveKeys

\* The initial states are well typed.
LEMMA TypeInit == Init => TInv
  BY BoundsAssumption DEF Init, TInv, TypeOK, BusyWorkersHaveKeys, Steps, At

\* Every step keeps the types, and keeps a key with every busy worker.
LEMMA TypeStep == TInv /\ [Next]_vars => TInv'
  <1> USE BoundsAssumption DEF TInv, TypeOK, BusyWorkersHaveKeys, At, Goto, Finish, Mark, Unmark,
            Ack, Fault, Disturb, DisturbIf, store, admin, Steps
  <1> SUFFICES ASSUME TInv, [Next]_vars PROVE TInv'
    OBVIOUS
  <1>1. CASE UNCHANGED vars
    BY <1>1 DEF vars
  <1>2. ASSUME NEW w \in Workers, NEW k \in Keys, Deliver(w, k) PROVE TInv'
    BY <1>2 DEF Deliver
  <1>3. ASSUME NEW w \in Workers, WorkerStep(w) PROVE TInv'
    <2>1. CASE CheckAtomically(w)
      BY ZenonT(60), <1>3, <2>1 DEF CheckAtomically, AnswerDuplicate, AcquireOrYield
    <2>2. CASE PingAnswers(w)
      BY <1>3, <2>2 DEF PingAnswers
    <2>3. CASE GetCompleted(w)
      BY ZenonT(60), <1>3, <2>3 DEF GetCompleted, AnswerDuplicate
    <2>4. CASE SetnxMarker(w)
      BY <1>3, <2>4 DEF SetnxMarker, AcquireOrYield
    <2>5. CASE Process(w)
      BY <1>3, <2>5 DEF Process
    <2>6. CASE StoreResult(w)
      BY <1>3, <2>6 DEF StoreResult
    <2>7. CASE StoreUnmarks(w)
      BY <1>3, <2>7 DEF StoreUnmarks
    <2>8. CASE StoreInMemory(w)
      BY <1>3, <2>8 DEF StoreInMemory
    <2>9. CASE ClearInProgress(w)
      BY <1>3, <2>9 DEF ClearInProgress
    <2>10. QED
      BY <1>3, <2>1, <2>2, <2>3, <2>4, <2>5, <2>6, <2>7, <2>8, <2>9 DEF WorkerStep
  <1>4. ASSUME NEW w \in Workers, WorkerFault(w) PROVE TInv'
    <2>1. CASE LuaFails(w)
      BY <1>4, <2>1 DEF LuaFails
    <2>2. CASE PingFails(w)
      BY <1>4, <2>2 DEF PingFails
    <2>3. CASE GetFails(w)
      BY <1>4, <2>3 DEF GetFails
    <2>4. CASE SetnxFails(w)
      BY <1>4, <2>4 DEF SetnxFails
    <2>5. CASE ProcessFails(w)
      BY <1>4, <2>5 DEF ProcessFails
    <2>6. CASE StoreSkipsResult(w)
      BY <1>4, <2>6 DEF StoreSkipsResult
    <2>7. CASE StoreUnmarkFails(w)
      BY <1>4, <2>7 DEF StoreUnmarkFails
    <2>8. CASE ClearInProgressFails(w)
      BY <1>4, <2>8 DEF ClearInProgressFails
    <2>9. CASE Crash(w)
      BY <1>4, <2>9 DEF Crash
    <2>10. QED
      BY <1>4, <2>1, <2>2, <2>3, <2>4, <2>5, <2>6, <2>7, <2>8, <2>9 DEF WorkerFault
  <1>5. ASSUME NEW k \in Keys, KeyStep(k) PROVE TInv'
    <2>1. CASE MarkerExpires(k)
      BY <1>5, <2>1 DEF MarkerExpires
    <2>2. CASE MarkerExpiresEarly(k)
      BY <1>5, <2>2 DEF MarkerExpiresEarly
    <2>3. CASE ResultExpires(k)
      BY <1>5, <2>3 DEF ResultExpires
    <2>4. CASE InvalidateResult(k)
      BY <1>5, <2>4 DEF InvalidateResult
    <2>5. CASE InvalidateMarker(k)
      BY <1>5, <2>5 DEF InvalidateMarker
    <2>6. CASE CleanupDelete(k)
      BY <1>5, <2>6 DEF CleanupDelete
    <2>7. QED
      BY <1>5, <2>1, <2>2, <2>3, <2>4, <2>5, <2>6 DEF KeyStep
  <1>6. CASE CleanupScan
    BY <1>6 DEF CleanupScan
  <1>7. CASE CleanupFails
    BY <1>7 DEF CleanupFails
  <1>8. CASE RestartLosesMemory
    BY <1>8 DEF RestartLosesMemory
  <1>9. QED
    BY <1>1, <1>2, <1>3, <1>4, <1>5, <1>6, <1>7, <1>8 DEF Next

\* Every variable keeps its type, and a busy worker always has a key.
THEOREM TypeCorrect == Spec => []TypeOK
  <1>1. Spec => []TInv
    BY TypeInit, TypeStep, PTL DEF Spec
  <1>2. TInv => TypeOK
    BY DEF TInv
  <1>3. QED
    BY <1>1, <1>2, PTL

-----------------------------------------------------------------------------
(* The accounting *)

\* What IInv says of one key, without the quantifiers.
KeyInv(k) ==
  /\ Cardinality(Running(k)) + Cardinality(Unshielded(k)) + effects[k]
       <= disturbed[k] + Shield(k)
  /\ Cardinality(Storing(k)) + Cached(k) <= effects[k]
  /\ acked[k] => effects[k] >= 1

\* A goal about IInv after a step, reduced to one key and one worker.
LEMMA InvByKey ==
  IInv <=> /\ TInv
           /\ \A k \in Keys : KeyInv(k)
           /\ \A w \in Workers : At(w, "unmark") => effects[job[w]] >= 1
  BY DEF IInv, TInv, KeyInv, WorkIsPaidFor, ResultsComeFromWork, AckedWorkWasDone,
         UnmarkFollowsWork

\* The effect of a move of w on who is in its section: only w's changes.
SectionsMoved(w, s, j) ==
  \A v \in Workers, k \in Keys :
    InSection(v, k)' <=> IF v = w THEN s \in {"running", "store"} /\ j = k
                                  ELSE InSection(v, k)

\* A worker in a key's section is in exactly one of its three stages.
LEMMA Sections ==
  ASSUME TypeOK, NEW w \in Workers, NEW s \in Steps, NEW j \in Keys \cup {NoOne},
         Move(w, s, j)
  PROVE  SectionsMoved(w, s, j)
  BY DEF TypeOK, Move, InSection, SectionsMoved

\* The books of key k balance over a step that moves w to step s for key j: what w
\* takes on is paid for by what it leaves, by new disturbances or by protection.
Books(w, s, j, k) ==
  /\ Indicator(s = "running" /\ j = k) + Indicator(s \in {"ping", "get", "setnx"} /\ j = k)
       + effects'[k] + disturbed[k] + Shield(k)
     <= Indicator(pc[w] = "running" /\ job[w] = k)
       + Indicator(pc[w] \in {"ping", "get", "setnx"} /\ job[w] = k)
       + effects[k] + disturbed'[k] + Shield(k)'
  /\ Indicator(s = "store" /\ j = k) + Cached(k)' + effects[k]
     <= Indicator(pc[w] = "store" /\ job[w] = k) + Cached(k) + effects'[k]
  /\ acked'[k] => effects'[k] >= 1
  /\ effects'[k] >= effects[k]
  /\ s = "unmark" /\ j = k => effects'[k] >= 1

\* A step of one worker that balances the books of every key keeps the invariant.
LEMMA WorkerBooks ==
  ASSUME IInv, TInv', NEW w \in Workers, NEW s \in Steps, NEW j \in Keys \cup {NoOne},
         s # "idle" => j \in Keys,
         Move(w, s, j), \A k \in Keys : Books(w, s, j, k)
  PROVE  IInv'
  <1>1. /\ TypeOK /\ TypeOK'
        /\ \A k \in Keys : KeyInv(k)
        /\ \A v \in Workers : At(v, "unmark") => effects[job[v]] >= 1
    BY InvByKey DEF TInv
  <1>2. ASSUME NEW k \in Keys PROVE KeyInv(k)'
    <2>1. /\ effects[k] \in Nat /\ effects'[k] \in Nat
          /\ disturbed[k] \in Nat /\ disturbed'[k] \in Nat
          /\ Shield(k) \in Nat /\ Shield(k)' \in Nat
          /\ Cached(k) \in Nat /\ Cached(k)' \in Nat
      BY <1>1 DEF TypeOK, Shield, Cached
    <2>2. \A cond : Indicator(cond) \in Nat
      BY DEF Indicator
    <2>3. KeyInv(k) /\ Books(w, s, j, k)
      BY <1>1
    <2>4. QED
      BY <1>1, <2>1, <2>2, <2>3, Counts DEF KeyInv, Books
  <1>3. ASSUME NEW v \in Workers, At(v, "unmark")' PROVE effects'[job'[v]] >= 1
    <2>1. CASE v = w
      BY <1>1, <1>3, <2>1 DEF Move, TypeOK, At, Books
    <2>2. CASE v # w
      <3>1. At(v, "unmark") /\ job'[v] = job[v] /\ job[v] \in Keys
        BY <1>1, <1>3, <2>2 DEF Move, TypeOK, At, IInv, BusyWorkersHaveKeys
      <3>2. effects[job[v]] \in Nat /\ effects'[job[v]] \in Nat
        BY <1>1, <3>1 DEF TypeOK
      <3>3. effects'[job[v]] >= effects[job[v]]
        BY <3>1 DEF Books
      <3>4. QED
        BY <1>1, <3>1, <3>2, <3>3
    <2>3. QED
      BY <2>1, <2>2
  <1>4. QED
    BY <1>2, <1>3 DEF IInv, TInv, KeyInv, WorkIsPaidFor, ResultsComeFromWork,
                      AckedWorkWasDone, UnmarkFollowsWork, At

\* What IInv says about work done, for the keys the steps look at.
LEMMA DoneFacts ==
  ASSUME IInv
  PROVE  /\ \A k \in Keys : completed[k] # NoOne => effects[k] >= 1
         /\ \A k \in Keys : acked[k] => effects[k] >= 1
         /\ \A w \in Workers : pc[w] = "unmark" => effects[job[w]] >= 1
         /\ \A w \in Workers : pc[w] = "store" => effects[job[w]] >= 1
  <1> USE DEF IInv, TypeOK
  <1>1. \A k \in Keys : Storing(k) \subseteq Workers
    BY DEF Storing
  <1>2. \A k \in Keys : /\ Cardinality(Storing(k)) \in Nat
                        /\ Cardinality(Storing(k)) + Cached(k) <= effects[k]
    BY <1>1, OneWorker DEF ResultsComeFromWork
  <1>3. ASSUME NEW k \in Keys, completed[k] # NoOne PROVE effects[k] >= 1
    BY <1>2, <1>3 DEF Cached
  <1>4. ASSUME NEW w \in Workers, pc[w] = "store" PROVE effects[job[w]] >= 1
    <2>1. job[w] \in Keys /\ w \in Storing(job[w])
      BY <1>4 DEF BusyWorkersHaveKeys, At, Storing
    <2>2. Storing(job[w]) \ {w} \subseteq Workers
      BY <1>1, <2>1
    <2>3. Cardinality(Storing(job[w])) - 1 \in Nat
      BY <1>1, <2>1, <2>2, OneWorker
    <2>4. QED
      BY <1>2, <2>1, <2>3 DEF Cached
  <1>5. QED
    BY <1>3, <1>4 DEF AckedWorkWasDone, UnmarkFollowsWork, At

-----------------------------------------------------------------------------
(* One lemma per step of a worker *)

\* The Lua script: a NEW answer takes the key's protection, a DUPLICATE changes no book.
LEMMA CheckAtomicallyInv ==
  ASSUME IInv, TInv', NEW w \in Workers, CheckAtomically(w)
  PROVE  IInv'
  <1>1. TypeOK /\ pc[w] # "idle" /\ job[w] \in Keys
    BY DEF CheckAtomically, IInv, BusyWorkersHaveKeys, At
  <1>2. CASE completed[job[w]] # NoOne \/ marker[job[w]] # NoOne
    <2>1. Move(w, "idle", NoOne)
      BY <1>1, <1>2 DEF CheckAtomically, AnswerDuplicate, AcquireOrYield, Mark, Ack, TypeOK, Move, At, Goto, Finish
    <2>2. SectionsMoved(w, "idle", NoOne)
      BY <1>1, <1>2, <2>1, Sections DEF Steps
    <2>3. ASSUME NEW k \in Keys PROVE Books(w, "idle", NoOne, k)
      BY <1>1, <1>2, <2>2, DoneFacts, WorkersAssumption
         DEF CheckAtomically, AnswerDuplicate, AcquireOrYield, Mark, Ack, TypeOK, At,
             Books, SectionsMoved, Indicator, Shield, Live, Cached, InSection
    <2>4. QED
      BY <1>1, <1>2, <2>1, <2>3, WorkerBooks DEF Steps
  <1>3. CASE completed[job[w]] = NoOne /\ marker[job[w]] = NoOne
    <2>1. Move(w, "running", job[w])
      BY <1>1, <1>3 DEF CheckAtomically, AnswerDuplicate, AcquireOrYield, Mark, Ack, TypeOK, Move, At, Goto, Finish
    <2>2. SectionsMoved(w, "running", job[w])
      BY <1>1, <1>3, <2>1, Sections DEF Steps
    <2>3. ASSUME NEW k \in Keys PROVE Books(w, "running", job[w], k)
      BY <1>1, <1>3, <2>2, DoneFacts, WorkersAssumption
         DEF CheckAtomically, AnswerDuplicate, AcquireOrYield, Mark, Ack, TypeOK, At,
             Books, SectionsMoved, Indicator, Shield, Live, Cached, InSection
    <2>4. QED
      BY <1>1, <1>3, <2>1, <2>3, WorkerBooks DEF Steps
  <1>4. QED
    BY <1>1, <1>2, <1>3 DEF CheckAtomically, AnswerDuplicate, AcquireOrYield, Mark, Ack, Goto, Finish, At

\* A lost reply of the script: what it marked is counted as a disturbance.
LEMMA LuaFailsInv ==
  ASSUME IInv, TInv', NEW w \in Workers, LuaFails(w)
  PROVE  IInv'
  <1>1. TypeOK /\ pc[w] # "idle" /\ job[w] \in Keys
    BY DEF LuaFails, IInv, BusyWorkersHaveKeys, At
  <1>2. Move(w, "ping", job[w])
    BY <1>1 DEF LuaFails, TypeOK, Move, At, Goto, Finish
  <1>3. SectionsMoved(w, "ping", job[w])
    BY <1>1, <1>2, Sections DEF Steps
  <1>4. ASSUME NEW k \in Keys PROVE Books(w, "ping", job[w], k)
    BY <1>1, <1>3, DoneFacts, WorkersAssumption
       DEF LuaFails, Fault, Mark, Disturb, TypeOK, At,
           Books, SectionsMoved, Indicator, Shield, Live, Cached, InSection
  <1>5. QED
    BY <1>1, <1>2, <1>4, WorkerBooks DEF Steps

\* The ping that decides on the non-atomic path moves the worker only.
LEMMA PingAnswersInv ==
  ASSUME IInv, TInv', NEW w \in Workers, PingAnswers(w)
  PROVE  IInv'
  <1>1. TypeOK /\ pc[w] # "idle" /\ job[w] \in Keys
    BY DEF PingAnswers, IInv, BusyWorkersHaveKeys, At
  <1>2. Move(w, "get", job[w])
    BY <1>1 DEF PingAnswers, TypeOK, Move, At, Goto, Finish
  <1>3. SectionsMoved(w, "get", job[w])
    BY <1>1, <1>2, Sections DEF Steps
  <1>4. ASSUME NEW k \in Keys PROVE Books(w, "get", job[w], k)
    BY <1>1, <1>3, DoneFacts, WorkersAssumption
       DEF PingAnswers, store, TypeOK, At,
           Books, SectionsMoved, Indicator, Shield, Live, Cached, InSection
  <1>5. QED
    BY <1>1, <1>2, <1>4, WorkerBooks DEF Steps

\* A failed ping moves the worker only.
LEMMA PingFailsInv ==
  ASSUME IInv, TInv', NEW w \in Workers, PingFails(w)
  PROVE  IInv'
  <1>1. TypeOK /\ pc[w] # "idle" /\ job[w] \in Keys
    BY DEF PingFails, IInv, BusyWorkersHaveKeys, At
  <1>2. Move(w, "idle", NoOne)
    BY <1>1 DEF PingFails, TypeOK, Move, At, Goto, Finish
  <1>3. SectionsMoved(w, "idle", NoOne)
    BY <1>1, <1>2, Sections DEF Steps
  <1>4. ASSUME NEW k \in Keys PROVE Books(w, "idle", NoOne, k)
    BY <1>1, <1>3, DoneFacts, WorkersAssumption
       DEF PingFails, Fault, store, TypeOK, At,
           Books, SectionsMoved, Indicator, Shield, Live, Cached, InSection
  <1>5. QED
    BY <1>1, <1>2, <1>4, WorkerBooks DEF Steps

\* The non-atomic GET: a hit answers DUPLICATE, a miss goes on to SETNX.
LEMMA GetCompletedInv ==
  ASSUME IInv, TInv', NEW w \in Workers, GetCompleted(w)
  PROVE  IInv'
  <1>1. TypeOK /\ pc[w] # "idle" /\ job[w] \in Keys
    BY DEF GetCompleted, IInv, BusyWorkersHaveKeys, At
  <1>2. CASE completed[job[w]] # NoOne
    <2>1. Move(w, "idle", NoOne)
      BY <1>1, <1>2 DEF GetCompleted, AnswerDuplicate, Ack, TypeOK, Move, At, Goto, Finish
    <2>2. SectionsMoved(w, "idle", NoOne)
      BY <1>1, <1>2, <2>1, Sections DEF Steps
    <2>3. ASSUME NEW k \in Keys PROVE Books(w, "idle", NoOne, k)
      BY <1>1, <1>2, <2>2, DoneFacts, WorkersAssumption
         DEF GetCompleted, AnswerDuplicate, Ack, store, TypeOK, At,
             Books, SectionsMoved, Indicator, Shield, Live, Cached, InSection
    <2>4. QED
      BY <1>1, <1>2, <2>1, <2>3, WorkerBooks DEF Steps
  <1>3. CASE completed[job[w]] = NoOne
    <2>1. Move(w, "setnx", job[w])
      BY <1>1, <1>3 DEF GetCompleted, AnswerDuplicate, Ack, TypeOK, Move, At, Goto, Finish
    <2>2. SectionsMoved(w, "setnx", job[w])
      BY <1>1, <1>3, <2>1, Sections DEF Steps
    <2>3. ASSUME NEW k \in Keys PROVE Books(w, "setnx", job[w], k)
      BY <1>1, <1>3, <2>2, DoneFacts, WorkersAssumption
         DEF GetCompleted, AnswerDuplicate, Ack, store, TypeOK, At,
             Books, SectionsMoved, Indicator, Shield, Live, Cached, InSection
    <2>4. QED
      BY <1>1, <1>3, <2>1, <2>3, WorkerBooks DEF Steps
  <1>4. QED
    BY <1>1, <1>2, <1>3 DEF GetCompleted, AnswerDuplicate, Ack, Goto, Finish, At

\* A GET that fails is taken for a miss.
LEMMA GetFailsInv ==
  ASSUME IInv, TInv', NEW w \in Workers, GetFails(w)
  PROVE  IInv'
  <1>1. TypeOK /\ pc[w] # "idle" /\ job[w] \in Keys
    BY DEF GetFails, IInv, BusyWorkersHaveKeys, At
  <1>2. Move(w, "setnx", job[w])
    BY <1>1 DEF GetFails, TypeOK, Move, At, Goto, Finish
  <1>3. SectionsMoved(w, "setnx", job[w])
    BY <1>1, <1>2, Sections DEF Steps
  <1>4. ASSUME NEW k \in Keys PROVE Books(w, "setnx", job[w], k)
    BY <1>1, <1>3, DoneFacts, WorkersAssumption
       DEF GetFails, Fault, store, TypeOK, At,
           Books, SectionsMoved, Indicator, Shield, Live, Cached, InSection
  <1>5. QED
    BY <1>1, <1>2, <1>4, WorkerBooks DEF Steps

\* The non-atomic SETNX may mark a key completed since the GET.
LEMMA SetnxMarkerInv ==
  ASSUME IInv, TInv', NEW w \in Workers, SetnxMarker(w)
  PROVE  IInv'
  <1>1. TypeOK /\ pc[w] # "idle" /\ job[w] \in Keys
    BY DEF SetnxMarker, IInv, BusyWorkersHaveKeys, At
  <1>2. CASE marker[job[w]] # NoOne
    <2>1. Move(w, "idle", NoOne)
      BY <1>1, <1>2 DEF SetnxMarker, AcquireOrYield, Mark, TypeOK, Move, At, Goto, Finish
    <2>2. SectionsMoved(w, "idle", NoOne)
      BY <1>1, <1>2, <2>1, Sections DEF Steps
    <2>3. ASSUME NEW k \in Keys PROVE Books(w, "idle", NoOne, k)
      BY <1>1, <1>2, <2>2, DoneFacts, WorkersAssumption
         DEF SetnxMarker, AcquireOrYield, Mark, TypeOK, At,
             Books, SectionsMoved, Indicator, Shield, Live, Cached, InSection
    <2>4. QED
      BY <1>1, <1>2, <2>1, <2>3, WorkerBooks DEF Steps
  <1>3. CASE marker[job[w]] = NoOne
    <2>1. Move(w, "running", job[w])
      BY <1>1, <1>3 DEF SetnxMarker, AcquireOrYield, Mark, TypeOK, Move, At, Goto, Finish
    <2>2. SectionsMoved(w, "running", job[w])
      BY <1>1, <1>3, <2>1, Sections DEF Steps
    <2>3. ASSUME NEW k \in Keys PROVE Books(w, "running", job[w], k)
      BY <1>1, <1>3, <2>2, DoneFacts, WorkersAssumption
         DEF SetnxMarker, AcquireOrYield, Mark, TypeOK, At,
             Books, SectionsMoved, Indicator, Shield, Live, Cached, InSection
    <2>4. QED
      BY <1>1, <1>3, <2>1, <2>3, WorkerBooks DEF Steps
  <1>4. QED
    BY <1>1, <1>2, <1>3 DEF SetnxMarker, AcquireOrYield, Mark, Goto, Finish, At

\* A SETNX that fails, its marker placed or not.
LEMMA SetnxFailsInv ==
  ASSUME IInv, TInv', NEW w \in Workers, SetnxFails(w)
  PROVE  IInv'
  <1>1. TypeOK /\ pc[w] # "idle" /\ job[w] \in Keys
    BY DEF SetnxFails, IInv, BusyWorkersHaveKeys, At
  <1>2. Move(w, "idle", NoOne)
    BY <1>1 DEF SetnxFails, TypeOK, Move, At, Goto, Finish
  <1>3. SectionsMoved(w, "idle", NoOne)
    BY <1>1, <1>2, Sections DEF Steps
  <1>4. ASSUME NEW k \in Keys PROVE Books(w, "idle", NoOne, k)
    BY <1>1, <1>3, DoneFacts, WorkersAssumption
       DEF SetnxFails, Fault, Mark, TypeOK, At,
           Books, SectionsMoved, Indicator, Shield, Live, Cached, InSection
  <1>5. QED
    BY <1>1, <1>2, <1>4, WorkerBooks DEF Steps

\* Processing moves a worker from the first stage to the second.
LEMMA ProcessInv ==
  ASSUME IInv, TInv', NEW w \in Workers, Process(w)
  PROVE  IInv'
  <1>1. TypeOK /\ pc[w] # "idle" /\ job[w] \in Keys
    BY DEF Process, IInv, BusyWorkersHaveKeys, At
  <1>2. Move(w, "store", job[w])
    BY <1>1 DEF Process, TypeOK, Move, At, Goto, Finish
  <1>3. SectionsMoved(w, "store", job[w])
    BY <1>1, <1>2, Sections DEF Steps
  <1>4. ASSUME NEW k \in Keys PROVE Books(w, "store", job[w], k)
    BY <1>1, <1>3, DoneFacts, WorkersAssumption
       DEF Process, store, TypeOK, At,
           Books, SectionsMoved, Indicator, Shield, Live, Cached, InSection
  <1>5. QED
    BY <1>1, <1>2, <1>4, WorkerBooks DEF Steps

\* A failed processing leaves for clear_in_progress.
LEMMA ProcessFailsInv ==
  ASSUME IInv, TInv', NEW w \in Workers, ProcessFails(w)
  PROVE  IInv'
  <1>1. TypeOK /\ pc[w] # "idle" /\ job[w] \in Keys
    BY DEF ProcessFails, IInv, BusyWorkersHaveKeys, At
  <1>2. Move(w, "clear", job[w])
    BY <1>1 DEF ProcessFails, TypeOK, Move, At, Goto, Finish
  <1>3. SectionsMoved(w, "clear", job[w])
    BY <1>1, <1>2, Sections DEF Steps
  <1>4. ASSUME NEW k \in Keys PROVE Books(w, "clear", job[w], k)
    BY <1>1, <1>3, DoneFacts, WorkersAssumption
       DEF ProcessFails, Fault, store, TypeOK, At,
           Books, SectionsMoved, Indicator, Shield, Live, Cached, InSection
  <1>5. QED
    BY <1>1, <1>2, <1>4, WorkerBooks DEF Steps

\* The response is cached: the key's protection passes from the marker to it.
LEMMA StoreResultInv ==
  ASSUME IInv, TInv', NEW w \in Workers, StoreResult(w)
  PROVE  IInv'
  <1>1. TypeOK /\ pc[w] # "idle" /\ job[w] \in Keys
    BY DEF StoreResult, IInv, BusyWorkersHaveKeys, At
  <1>2. Move(w, "unmark", job[w])
    BY <1>1 DEF StoreResult, TypeOK, Move, At, Goto, Finish
  <1>3. SectionsMoved(w, "unmark", job[w])
    BY <1>1, <1>2, Sections DEF Steps
  <1>4. ASSUME NEW k \in Keys PROVE Books(w, "unmark", job[w], k)
    BY <1>1, <1>3, DoneFacts, WorkersAssumption
       DEF StoreResult, TypeOK, At,
           Books, SectionsMoved, Indicator, Shield, Live, Cached, InSection
  <1>5. QED
    BY <1>1, <1>2, <1>4, WorkerBooks DEF Steps

\* A response that is not cached is a disturbance of the key.
LEMMA StoreSkipsResultInv ==
  ASSUME IInv, TInv', NEW w \in Workers, StoreSkipsResult(w)
  PROVE  IInv'
  <1>1. TypeOK /\ pc[w] # "idle" /\ job[w] \in Keys
    BY DEF StoreSkipsResult, IInv, BusyWorkersHaveKeys, At
  <1>2. Move(w, "unmark", job[w])
    BY <1>1 DEF StoreSkipsResult, TypeOK, Move, At, Goto, Finish
  <1>3. SectionsMoved(w, "unmark", job[w])
    BY <1>1, <1>2, Sections DEF Steps
  <1>4. ASSUME NEW k \in Keys PROVE Books(w, "unmark", job[w], k)
    BY <1>1, <1>3, DoneFacts, WorkersAssumption
       DEF StoreSkipsResult, Fault, store, Disturb, TypeOK, At,
           Books, SectionsMoved, Indicator, Shield, Live, Cached, InSection
  <1>5. QED
    BY <1>1, <1>2, <1>4, WorkerBooks DEF Steps

\* Deleting the marker after the response is stored.
LEMMA StoreUnmarksInv ==
  ASSUME IInv, TInv', NEW w \in Workers, StoreUnmarks(w)
  PROVE  IInv'
  <1>1. TypeOK /\ pc[w] # "idle" /\ job[w] \in Keys
    BY DEF StoreUnmarks, IInv, BusyWorkersHaveKeys, At
  <1>2. Move(w, "idle", NoOne)
    BY <1>1 DEF StoreUnmarks, TypeOK, Move, At, Goto, Finish
  <1>3. SectionsMoved(w, "idle", NoOne)
    BY <1>1, <1>2, Sections DEF Steps
  <1>4. ASSUME NEW k \in Keys PROVE Books(w, "idle", NoOne, k)
    BY <1>1, <1>3, DoneFacts, WorkersAssumption
       DEF StoreUnmarks, Unmark, Ack, Disturb, DisturbIf, TypeOK, At,
           Books, SectionsMoved, Indicator, Shield, Live, Cached, InSection
  <1>5. QED
    BY <1>1, <1>2, <1>4, WorkerBooks DEF Steps

\* The marker's deletion failing after the response is stored.
LEMMA StoreUnmarkFailsInv ==
  ASSUME IInv, TInv', NEW w \in Workers, StoreUnmarkFails(w)
  PROVE  IInv'
  <1>1. TypeOK /\ pc[w] # "idle" /\ job[w] \in Keys
    BY DEF StoreUnmarkFails, IInv, BusyWorkersHaveKeys, At
  <1>2. Move(w, "idle", NoOne)
    BY <1>1 DEF StoreUnmarkFails, TypeOK, Move, At, Goto, Finish
  <1>3. SectionsMoved(w, "idle", NoOne)
    BY <1>1, <1>2, Sections DEF Steps
  <1>4. ASSUME NEW k \in Keys PROVE Books(w, "idle", NoOne, k)
    BY <1>1, <1>3, DoneFacts, WorkersAssumption
       DEF StoreUnmarkFails, Ack, store, TypeOK, At,
           Books, SectionsMoved, Indicator, Shield, Live, Cached, InSection
  <1>5. QED
    BY <1>1, <1>2, <1>4, WorkerBooks DEF Steps

\* store() in fallback mode, where both steps are one.
LEMMA StoreInMemoryInv ==
  ASSUME IInv, TInv', NEW w \in Workers, StoreInMemory(w)
  PROVE  IInv'
  <1>1. TypeOK /\ pc[w] # "idle" /\ job[w] \in Keys
    BY DEF StoreInMemory, IInv, BusyWorkersHaveKeys, At
  <1>2. Move(w, "idle", NoOne)
    BY <1>1 DEF StoreInMemory, TypeOK, Move, At, Goto, Finish
  <1>3. SectionsMoved(w, "idle", NoOne)
    BY <1>1, <1>2, Sections DEF Steps
  <1>4. ASSUME NEW k \in Keys PROVE Books(w, "idle", NoOne, k)
    BY <1>1, <1>3, DoneFacts, WorkersAssumption
       DEF StoreInMemory, Unmark, Ack, Disturb, DisturbIf, TypeOK, At,
           Books, SectionsMoved, Indicator, Shield, Live, Cached, InSection
  <1>5. QED
    BY <1>1, <1>2, <1>4, WorkerBooks DEF Steps

\* Clearing the marker after a failure.
LEMMA ClearInProgressInv ==
  ASSUME IInv, TInv', NEW w \in Workers, ClearInProgress(w)
  PROVE  IInv'
  <1>1. TypeOK /\ pc[w] # "idle" /\ job[w] \in Keys
    BY DEF ClearInProgress, IInv, BusyWorkersHaveKeys, At
  <1>2. Move(w, "idle", NoOne)
    BY <1>1 DEF ClearInProgress, TypeOK, Move, At, Goto, Finish
  <1>3. SectionsMoved(w, "idle", NoOne)
    BY <1>1, <1>2, Sections DEF Steps
  <1>4. ASSUME NEW k \in Keys PROVE Books(w, "idle", NoOne, k)
    BY <1>1, <1>3, DoneFacts, WorkersAssumption
       DEF ClearInProgress, Unmark, Disturb, DisturbIf, TypeOK, At,
           Books, SectionsMoved, Indicator, Shield, Live, Cached, InSection
  <1>5. QED
    BY <1>1, <1>2, <1>4, WorkerBooks DEF Steps

\* The marker outlives a clear_in_progress() that fails.
LEMMA ClearInProgressFailsInv ==
  ASSUME IInv, TInv', NEW w \in Workers, ClearInProgressFails(w)
  PROVE  IInv'
  <1>1. TypeOK /\ pc[w] # "idle" /\ job[w] \in Keys
    BY DEF ClearInProgressFails, IInv, BusyWorkersHaveKeys, At
  <1>2. Move(w, "idle", NoOne)
    BY <1>1 DEF ClearInProgressFails, TypeOK, Move, At, Goto, Finish
  <1>3. SectionsMoved(w, "idle", NoOne)
    BY <1>1, <1>2, Sections DEF Steps
  <1>4. ASSUME NEW k \in Keys PROVE Books(w, "idle", NoOne, k)
    BY <1>1, <1>3, DoneFacts, WorkersAssumption
       DEF ClearInProgressFails, store, TypeOK, At,
           Books, SectionsMoved, Indicator, Shield, Live, Cached, InSection
  <1>5. QED
    BY <1>1, <1>2, <1>4, WorkerBooks DEF Steps

\* A worker that dies gives up the protection of its key.
LEMMA CrashInv ==
  ASSUME IInv, TInv', NEW w \in Workers, Crash(w)
  PROVE  IInv'
  <1>1. TypeOK /\ pc[w] # "idle" /\ job[w] \in Keys
    BY DEF Crash, IInv, BusyWorkersHaveKeys, At
  <1>2. Move(w, "idle", NoOne)
    BY <1>1 DEF Crash, TypeOK, Move, At, Goto, Finish
  <1>3. SectionsMoved(w, "idle", NoOne)
    BY <1>1, <1>2, Sections DEF Steps
  <1>4. ASSUME NEW k \in Keys PROVE Books(w, "idle", NoOne, k)
    BY <1>1, <1>3, DoneFacts, WorkersAssumption
       DEF Crash, store, Disturb, DisturbIf, TypeOK, At,
           Books, SectionsMoved, Indicator, Shield, Live, Cached, InSection
  <1>5. QED
    BY <1>1, <1>2, <1>4, WorkerBooks DEF Steps

-----------------------------------------------------------------------------
(* Steps that move no worker *)

\* A delivery gives an idle worker a key and touches no book.
LEMMA DeliverInv ==
  ASSUME IInv, TInv', NEW w \in Workers, NEW i \in Keys, Deliver(w, i)
  PROVE  IInv'
  <1>1. TypeOK
    BY DEF IInv
  <1>2. Move(w, "check", i)
    BY <1>1 DEF Deliver, Move
  <1>3. SectionsMoved(w, "check", i)
    BY <1>1, <1>2, Sections DEF Steps
  <1>4. ASSUME NEW k \in Keys PROVE Books(w, "check", i, k)
    BY <1>1, <1>3, DoneFacts, WorkersAssumption
       DEF Deliver, store, TypeOK, At,
           Books, SectionsMoved, Indicator, Shield, Live, Cached, InSection
  <1>5. QED
    BY <1>1, <1>2, <1>4, WorkerBooks DEF Steps

\* A step that moves no worker and does no work keeps the invariant if no key loses
\* its protection without a disturbance, and nothing appears in the cache.
LEMMA QuietBooks ==
  ASSUME IInv, TInv', UNCHANGED <<pc, job, effects>>,
         \A k \in Keys : /\ disturbed[k] + Shield(k) <= disturbed'[k] + Shield(k)'
                         /\ Cached(k)' <= Cached(k)
                         /\ acked'[k] => acked[k]
  PROVE  IInv'
  <1>1. /\ TypeOK /\ TypeOK'
        /\ \A k \in Keys : KeyInv(k)
        /\ \A v \in Workers : At(v, "unmark") => effects[job[v]] >= 1
    BY InvByKey DEF TInv
  <1>2. ASSUME NEW k \in Keys PROVE KeyInv(k)'
    <2>1. /\ effects[k] \in Nat /\ effects'[k] = effects[k]
          /\ disturbed[k] \in Nat /\ disturbed'[k] \in Nat
          /\ Shield(k) \in Nat /\ Shield(k)' \in Nat
          /\ Cached(k) \in Nat /\ Cached(k)' \in Nat
      BY <1>1 DEF TypeOK, Shield, Cached
    <2>2. /\ Running(k)' = Running(k) /\ Unshielded(k)' = Unshielded(k)
          /\ Storing(k)' = Storing(k)
      BY DEF Running, Unshielded, Storing
    <2>3. /\ Cardinality(Running(k)) \in Nat /\ Cardinality(Unshielded(k)) \in Nat
          /\ Cardinality(Storing(k)) \in Nat
      BY OneWorker, WorkersAssumption, FS_Subset, FS_CardinalityType
         DEF Running, Unshielded, Storing
    <2>4. KeyInv(k)
      BY <1>1
    <2>5. QED
      BY <2>1, <2>2, <2>3, <2>4 DEF KeyInv
  <1>3. QED
    BY <1>1, <1>2 DEF IInv, TInv, KeyInv, WorkIsPaidFor, ResultsComeFromWork,
                      AckedWorkWasDone, UnmarkFollowsWork, At

\* Expiry and invalidation void a key's protection and are counted.
LEMMA KeyStepInv ==
  ASSUME IInv, TInv', NEW i \in Keys, KeyStep(i)
  PROVE  IInv'
  <1> USE DEF TypeOK, Shield, Live, Cached, InSection, Unmark, Disturb, DisturbIf, admin, store
  <1>1. TypeOK
    BY DEF IInv
  <1>2. CASE MarkerExpires(i)
    BY <1>1, <1>2, WorkersAssumption, QuietBooks DEF MarkerExpires
  <1>3. CASE MarkerExpiresEarly(i)
    BY <1>1, <1>3, WorkersAssumption, QuietBooks DEF MarkerExpiresEarly
  <1>4. CASE ResultExpires(i)
    BY <1>1, <1>4, WorkersAssumption, QuietBooks DEF ResultExpires
  <1>5. CASE InvalidateResult(i)
    <2>1. UNCHANGED <<pc, job, effects>>
      BY <1>5 DEF InvalidateResult
    <2>2. ASSUME NEW k \in Keys
          PROVE  /\ disturbed[k] + Shield(k) <= disturbed'[k] + Shield(k)'
                 /\ Cached(k)' <= Cached(k)
                 /\ acked'[k] => acked[k]
      <3>1. CASE k # i
        BY <1>1, <1>5, <3>1 DEF InvalidateResult
      <3>2. CASE k = i /\ fallback
        BY <1>1, <1>5, <3>2, WorkersAssumption DEF InvalidateResult, MayFail
      <3>3. CASE k = i /\ ~fallback
        BY <1>1, <1>5, <3>3, WorkersAssumption DEF InvalidateResult
      <3>4. QED
        BY <3>1, <3>2, <3>3
    <2>3. QED
      BY <2>1, <2>2, QuietBooks
  <1>6. CASE InvalidateMarker(i)
    BY <1>1, <1>6, WorkersAssumption, QuietBooks DEF InvalidateMarker
  <1>7. CASE CleanupDelete(i)
    BY <1>1, <1>7, WorkersAssumption, QuietBooks DEF CleanupDelete
  <1>8. QED
    BY <1>2, <1>3, <1>4, <1>5, <1>6, <1>7 DEF KeyStep

\* The cleanup of stuck markers counts each marker it deletes.
LEMMA CleanupInv ==
  ASSUME IInv, TInv', CleanupScan \/ CleanupFails
  PROVE  IInv'
  <1>1. /\ UNCHANGED <<pc, job, effects, marker, completed, disturbed, acked>>
        /\ \A k \in Keys : disturbed[k] \in Nat
    BY DEF CleanupScan, CleanupFails, store, IInv, TypeOK
  <1>2. \A k \in Keys : /\ Shield(k)' = Shield(k) /\ Cached(k)' = Cached(k)
                        /\ Shield(k) \in Nat /\ Cached(k) \in Nat
    BY <1>1 DEF Shield, Live, InSection, Cached
  <1>3. QED
    BY <1>1, <1>2, QuietBooks

\* A restart leaves no worker and no protection, and one more disturbance per key.
LEMMA RestartInv ==
  ASSUME IInv, TInv', RestartLosesMemory
  PROVE  IInv'
  <1>1. /\ TypeOK /\ TypeOK' /\ \A k \in Keys : KeyInv(k)
    BY InvByKey DEF TInv
  <1>2. ASSUME NEW k \in Keys PROVE KeyInv(k)'
    <2>1. /\ Running(k)' = {} /\ Unshielded(k)' = {} /\ Storing(k)' = {}
      BY DEF RestartLosesMemory, Running, Unshielded, Storing
    <2>2. Cardinality({}) = 0
      BY FS_EmptySet
    <2>3. /\ Cardinality(Running(k)) \in Nat /\ Cardinality(Unshielded(k)) \in Nat
          /\ Cardinality(Storing(k)) \in Nat
      BY WorkersAssumption, FS_Subset, FS_CardinalityType
         DEF Running, Unshielded, Storing
    <2>4. /\ Cached(k)' = 0 /\ Shield(k)' = 0
          /\ effects[k] \in Nat /\ effects'[k] = effects[k]
          /\ disturbed[k] \in Nat /\ disturbed'[k] = disturbed[k] + 1
          /\ acked' = acked /\ Shield(k) \in 0..1 /\ Cached(k) \in Nat
      BY <1>1, WorkersAssumption DEF RestartLosesMemory, Cached, Shield, Live, TypeOK
    <2>5. KeyInv(k)
      BY <1>1
    <2>6. QED
      BY <2>1, <2>2, <2>3, <2>4, <2>5 DEF KeyInv
  <1>3. \A w \in Workers : pc'[w] = "idle"
    BY DEF RestartLosesMemory
  <1>4. QED
    BY <1>2, <1>3 DEF IInv, TInv, KeyInv, WorkIsPaidFor, ResultsComeFromWork,
                      AckedWorkWasDone, UnmarkFollowsWork, At

-----------------------------------------------------------------------------
(* The theorems *)

\* The books balance at first: nothing is done, nothing protected.
LEMMA InitInv == Init => IInv
  <1> SUFFICES ASSUME Init PROVE IInv
    OBVIOUS
  <1>1. TInv
    BY TypeInit
  <1>2. \A k \in Keys : Running(k) = {} /\ Unshielded(k) = {} /\ Storing(k) = {}
    BY DEF Init, Running, Unshielded, Storing
  <1>3. Cardinality({}) = 0
    BY FS_EmptySet
  <1>4. \A k \in Keys : /\ effects[k] = 0 /\ disturbed[k] = 0 /\ ~acked[k]
                        /\ Cached(k) = 0 /\ Shield(k) = 0
    BY WorkersAssumption DEF Init, Cached, Shield, Live
  <1>5. \A k \in Keys : KeyInv(k)
    BY <1>2, <1>3, <1>4 DEF KeyInv
  <1>6. \A w \in Workers : ~At(w, "unmark")
    BY DEF Init, At
  <1>7. QED
    BY <1>1, <1>5, <1>6, InvByKey

\* Every step keeps the books balanced.
LEMMA StepInv == IInv /\ [Next]_vars => IInv'
  <1> SUFFICES ASSUME IInv, [Next]_vars PROVE IInv'
    OBVIOUS
  <1>1. TInv'
    BY TypeStep DEF IInv, TInv
  <1>2. CASE UNCHANGED vars
    <2>1. /\ UNCHANGED <<pc, job, effects, marker, completed, disturbed, acked>>
          /\ \A k \in Keys : disturbed[k] \in Nat
      BY <1>2 DEF vars, IInv, TypeOK
    <2>2. \A k \in Keys : /\ Shield(k)' = Shield(k) /\ Cached(k)' = Cached(k)
                          /\ Shield(k) \in Nat /\ Cached(k) \in Nat
      BY <2>1 DEF Shield, Live, InSection, Cached
    <2>3. QED
      BY <1>1, <2>1, <2>2, QuietBooks
  <1>3. ASSUME NEW w \in Workers, NEW k \in Keys, Deliver(w, k) PROVE IInv'
    BY <1>1, <1>3, DeliverInv
  <1>4. ASSUME NEW w \in Workers, WorkerStep(w) PROVE IInv'
    BY <1>1, <1>4, CheckAtomicallyInv, PingAnswersInv, GetCompletedInv, SetnxMarkerInv,
       ProcessInv, StoreResultInv, StoreUnmarksInv, StoreInMemoryInv, ClearInProgressInv
       DEF WorkerStep
  <1>5. ASSUME NEW w \in Workers, WorkerFault(w) PROVE IInv'
    BY <1>1, <1>5, LuaFailsInv, PingFailsInv, GetFailsInv, SetnxFailsInv, ProcessFailsInv,
       StoreSkipsResultInv, StoreUnmarkFailsInv, ClearInProgressFailsInv, CrashInv
       DEF WorkerFault
  <1>6. ASSUME NEW k \in Keys, KeyStep(k) PROVE IInv'
    BY <1>1, <1>6, KeyStepInv
  <1>7. CASE CleanupScan \/ CleanupFails
    BY <1>1, <1>7, CleanupInv
  <1>8. CASE RestartLosesMemory
    BY <1>1, <1>8, RestartInv
  <1>9. QED
    BY <1>2, <1>3, <1>4, <1>5, <1>6, <1>7, <1>8 DEF Next

\* The books always balance: whatever work was done, or is under way, for a key is
\* covered by one protection plus the disturbances the key has seen.
THEOREM Accounting == Spec => []IInv
  BY InitInv, StepInv, PTL DEF Spec

\* Every repetition of the processing of a key is paid for by an event that voided
\* its protection (expired marker, lost Lua reply, skipped result, operator, ...).
THEOREM RepetitionsBounded == Spec => []RepetitionsAccountedFor
  <1>1. IInv => RepetitionsAccountedFor
    <2> SUFFICES ASSUME IInv, NEW k \in Keys PROVE effects[k] <= 1 + disturbed[k]
      BY DEF RepetitionsAccountedFor
    <2>1. Running(k) \subseteq Workers /\ Unshielded(k) \subseteq Workers
      BY DEF Running, Unshielded
    <2>2. Cardinality(Running(k)) \in Nat /\ Cardinality(Unshielded(k)) \in Nat
      BY <2>1, WorkersAssumption, FS_Subset, FS_CardinalityType
    <2>3. effects[k] \in Nat /\ disturbed[k] \in Nat /\ Shield(k) \in 0..1
      BY DEF IInv, TypeOK, Shield
    <2>4. QED
      BY <2>2, <2>3 DEF IInv, WorkIsPaidFor
  <1>2. QED
    BY <1>1, Accounting, PTL

\* What an undisturbed key looks like: two workers cannot both be in its section,
\* nor can a worker be about to store while a result is cached.
LEMMA Undisturbed ==
  ASSUME IInv, NEW k \in Keys, disturbed[k] = 0
  PROVE  /\ \A v, w \in Workers : InSection(v, k) /\ InSection(w, k) => v = w
         /\ \A w \in Workers : pc[w] = "store" /\ job[w] = k => completed[k] = NoOne
  <1>1. /\ IsFiniteSet(Running(k)) /\ IsFiniteSet(Storing(k))
        /\ Cardinality(Running(k)) \in Nat /\ Cardinality(Storing(k)) \in Nat
        /\ Cardinality(Unshielded(k)) \in Nat
    BY WorkersAssumption, FS_Subset, FS_CardinalityType DEF Running, Storing, Unshielded
  <1>2. effects[k] \in Nat /\ Shield(k) \in 0..1 /\ Cached(k) \in 0..1
    BY DEF IInv, TypeOK, Shield, Cached
  <1>3. Cardinality(Running(k)) + Cardinality(Storing(k)) + Cached(k) <= 1
    BY <1>1, <1>2 DEF IInv, WorkIsPaidFor, ResultsComeFromWork
  <1>4. /\ IsFiniteSet(Running(k) \cup Storing(k))
        /\ Cardinality(Running(k) \cup Storing(k)) <= 1
    <2>1. Running(k) \cap Storing(k) = {}
      BY DEF Running, Storing
    <2>2. Cardinality({}) = 0
      BY FS_EmptySet
    <2>3. QED
      BY <1>1, <1>2, <1>3, <2>1, <2>2, FS_Union
  <1>5. ASSUME NEW v \in Workers, NEW w \in Workers, InSection(v, k), InSection(w, k)
        PROVE  v = w
    <2>1. {v, w} \subseteq Running(k) \cup Storing(k)
      BY <1>5 DEF InSection, Running, Storing
    <2>2. Cardinality({v, w}) <= 1
      <3>1. /\ Cardinality({v, w}) <= Cardinality(Running(k) \cup Storing(k))
            /\ Cardinality({v, w}) \in Nat
        BY <1>4, <2>1, FS_Subset, FS_CardinalityType
      <3>2. Cardinality(Running(k) \cup Storing(k)) \in Nat
        BY <1>4, FS_CardinalityType
      <3>3. QED
        BY <1>4, <3>1, <3>2
    <2>3. CASE v # w
      <3>1. Cardinality({w}) = 1 /\ IsFiniteSet({w})
        BY FS_Singleton
      <3>2. Cardinality({w} \cup {v}) = 2
        <4>1. v \notin {w}
          BY <2>3
        <4>2. Cardinality({w} \cup {v}) = Cardinality({w}) + 1
          BY ONLY <3>1, <4>1, FS_AddElement
        <4>3. QED
          BY ONLY <3>1, <4>2
      <3>3. {w} \cup {v} = {v, w}
        OBVIOUS
      <3>4. QED
        BY <2>2, <3>2, <3>3
    <2>4. QED
      BY <2>3
  <1>6. ASSUME NEW w \in Workers, pc[w] = "store", job[w] = k PROVE completed[k] = NoOne
    <2>1. w \in Storing(k)
      BY <1>6 DEF Storing
    <2>2. Cardinality(Storing(k)) # 0
      BY <1>1, <2>1, FS_EmptySet
    <2>3. QED
      BY <1>1, <1>2, <1>3, <2>2 DEF Cached
  <1>7. QED
    BY <1>5, <1>6

\* At most one worker is between its NEW and its stored response for a key whose
\* protection nothing has voided.
THEOREM OneHolder == Spec => []MutualExclusion
  <1>1. IInv => MutualExclusion
    BY Undisturbed DEF MutualExclusion
  <1>2. QED
    BY <1>1, Accounting, PTL

\* Nobody is told "done" about a key that was never processed.
THEOREM AcksFollowWork == Spec => []AckedWorkWasDone
  <1>1. IInv => AckedWorkWasDone
    BY DEF IInv
  <1>2. QED
    BY <1>1, Accounting, PTL

\* The cached response of an undisturbed key is never replaced or dropped.
THEOREM StableResponse == Spec => ResponseIsStable
  <1> DEFINE Stable == \A k \in Keys :
               completed[k] # NoOne /\ disturbed'[k] = 0 => completed'[k] = completed[k]
  <1>1. IInv /\ IInv' /\ [Next]_vars => [Stable]_vars
    <2> SUFFICES ASSUME IInv, IInv', Next, NEW k \in Keys,
                        completed[k] # NoOne, disturbed'[k] = 0
                 PROVE  completed'[k] = completed[k]
      BY DEF vars
    <2> USE DEF store, admin, TypeOK, At, Goto, Finish, Disturb, DisturbIf, Fault
    <2>1. TypeOK /\ TypeOK'
      BY DEF IInv
    <2>2. CASE completed' = completed
      BY <2>2
    <2>3. ASSUME NEW w \in Workers, StoreResult(w) \/ StoreInMemory(w)
          PROVE  completed'[k] = completed[k]
      <3>1. CASE job[w] # k
        BY <2>1, <2>3, <3>1 DEF StoreResult, StoreInMemory
      <3>2. CASE job[w] = k
        <4>1. disturbed[k] = 0
          BY <2>1, <2>3, <3>2 DEF StoreResult, StoreInMemory
        <4>2. pc[w] = "store"
          BY <2>3 DEF StoreResult, StoreInMemory
        <4>3. QED
          BY <3>2, <4>1, <4>2, Undisturbed
      <3>3. QED
        BY <3>1, <3>2
    <2>4. ASSUME NEW i \in Keys, ResultExpires(i) \/ InvalidateResult(i)
          PROVE  completed'[k] = completed[k]
      <3>1. CASE i # k
        BY <2>1, <2>4, <3>1 DEF ResultExpires, InvalidateResult
      <3>2. CASE i = k
        BY <2>1, <2>4, <3>2 DEF ResultExpires, InvalidateResult, MayFail
      <3>3. QED
        BY <3>1, <3>2
    <2>5. CASE RestartLosesMemory
      BY <2>1, <2>5 DEF RestartLosesMemory
    <2>6. QED
      BY <2>2, <2>3, <2>4, <2>5
         DEF Next, WorkerStep, WorkerFault, KeyStep, Deliver, CheckAtomically, PingAnswers,
             GetCompleted, SetnxMarker, Process, StoreUnmarks, ClearInProgress, LuaFails,
             PingFails, GetFails, SetnxFails, ProcessFails, StoreSkipsResult,
             StoreUnmarkFails, ClearInProgressFails, Crash, MarkerExpires,
             MarkerExpiresEarly, InvalidateMarker, CleanupDelete, CleanupScan, CleanupFails
  <1>2. QED
    BY <1>1, Accounting, PTL DEF Spec, ResponseIsStable

=============================================================================
