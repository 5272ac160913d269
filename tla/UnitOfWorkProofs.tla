--------------------------- MODULE UnitOfWorkProofs ---------------------------
(***************************************************************************)
(* What holds of UnitOfWork for any set of units, any pool and any number  *)
(* of cancellations.  The inductive invariant says, for each stage of a    *)
(* block, what can already have happened: nothing is committed before the  *)
(* body has ended or asked for it, a transaction is aborted only if the    *)
(* body was told, no outcome is fixed before the commit has ended, a unit  *)
(* sleeps only with its time-out flagged, and a shielded close outlives    *)
(* only blocks that are done.                                              *)
(***************************************************************************)
EXTENDS UnitOfWork, FiniteSetTheorems, TLAPS

Stages ==
  \A u \in Units :
    /\ pc[u] \in {"new", "body", "query", "early", "commit"}
         => tx[u] \in {"none", "open", "aborted", "invalid"}
    /\ pc[u] \in {"new", "body", "query", "early", "commit", "rollback"}
         => outcome[u] = "nothing" /\ raised[u] \in {"nothing", "caught"}
    /\ tx[u] \in {"aborted", "invalid"} => raised[u] # "nothing"
    /\ pc[u] \in {"commit", "rollback"} => autoCommit[u]
    /\ pc[u] = "new" => u \notin holding
    /\ pc[u] = "sleep" => flag[u]
    /\ u \in closing => pc[u] = "done"
    /\ pc[u] = "early" => guest[u] # "joins"

\* OkIsDurable from the moment the outcome is fixed.
OkIsDurableEarly ==
  \A u \in Units :
    outcome[u] = "ok" /\ autoCommit[u] /\ raised[u] = "nothing" => tx[u] \in {"none", "committed"}

Invariant ==
  TypeOK /\ Stages /\ OkIsDurableEarly /\ DurableOnlyIfEnded /\ UnclosedOnlyIfCancelledAsleep

-----------------------------------------------------------------------------

\* The pool's bound survives every change of the set of holders: a connection is
\* taken only while there is one, and giving one back only shrinks the set.
LEMMA PoolBound ==
  ASSUME holding \in SUBSET Units, Cardinality(holding) <= PoolSize
  PROVE  /\ Cardinality(holding) \in Nat
         /\ \A u \in Units : Cardinality(holding \ {u}) <= PoolSize
         /\ \A u \in Units : u \notin holding /\ Cardinality(holding) < PoolSize
                               => Cardinality(holding \cup {u}) <= PoolSize
<1>1. IsFiniteSet(holding)
  BY UnitsAssumption, FS_Subset
<1>2. Cardinality(holding) \in Nat
  BY <1>1, FS_CardinalityType
<1>3. ASSUME NEW u \in Units PROVE Cardinality(holding \ {u}) <= PoolSize
  <2>1. IsFiniteSet(holding \ {u}) /\ Cardinality(holding \ {u}) <= Cardinality(holding)
    BY <1>1, FS_Subset
  <2> QED BY <1>2, <2>1, FS_CardinalityType, PoolAssumption
<1>4. ASSUME NEW u \in Units, u \notin holding, Cardinality(holding) < PoolSize
      PROVE  Cardinality(holding \cup {u}) <= PoolSize
  <2>1. Cardinality(holding \cup {u}) = Cardinality(holding) + 1
    BY <1>1, <1>4, FS_AddElement
  <2> QED BY <1>2, <1>4, <2>1, PoolAssumption
<1> QED BY <1>2, <1>3, <1>4

\* Before any unit is entered nothing is held, raised or committed.
LEMMA InitInvariant == Init => Invariant
<1> SUFFICES ASSUME Init PROVE Invariant
  OBVIOUS
<1>1. Cardinality(holding) <= PoolSize
  BY FS_EmptySet, PoolAssumption DEF Init
<1>2. TypeOK
  BY <1>1, PoolAssumption DEF Init, TypeOK, Exceptions
<1>3. Stages /\ OkIsDurableEarly /\ DurableOnlyIfEnded /\ UnclosedOnlyIfCancelledAsleep
  BY DEF Init, Stages, OkIsDurableEarly, DurableOnlyIfEnded, UnclosedOnlyIfCancelledAsleep, At
<1> QED BY <1>2, <1>3 DEF Invariant

\* Every step of a unit preserves the invariant.
LEMMA StepInvariant == Invariant /\ [Next]_vars => Invariant'
<1> SUFFICES ASSUME Invariant, [Next]_vars PROVE Invariant'
  OBVIOUS
<1> USE DEF Invariant, TypeOK, Exceptions, Stages, OkIsDurableEarly, DurableOnlyIfEnded,
        UnclosedOnlyIfCancelledAsleep, At, Goto, Leave, SetFlag, Cancel, Cleanup,
        Undone, Release, Alone, RaisedIn, IsDurable, inBody
<1>1. ASSUME NEW u \in Units, Enter(u) PROVE Invariant'
  BY <1>1 DEF Enter
<1>2. ASSUME NEW u \in Units, QueryStarts(u) PROVE Invariant'
  BY <1>2 DEF QueryStarts
<1>3. ASSUME NEW u \in Units, QueryConnects(u) PROVE Invariant'
  BY <1>3, PoolBound DEF QueryConnects
<1>4. ASSUME NEW u \in Units, QueryEnds(u) PROVE Invariant'
  BY <1>4 DEF QueryEnds
<1>5. ASSUME NEW u \in Units, QueryRaises(u) PROVE Invariant'
  BY <1>5, PoolBound DEF QueryRaises, RaisesIntoBody, Invalidated, Interrupted
<1>6. ASSUME NEW u \in Units, FlushTimesOut(u) PROVE Invariant'
  BY <1>6, PoolBound DEF FlushTimesOut, RaisesIntoBody, Invalidated
<1>7. ASSUME NEW u \in Units, BodyFails(u) PROVE Invariant'
  BY <1>7 DEF BodyFails, ExitRaising
<1>8. ASSUME NEW u \in Units, BodyEnds(u) PROVE Invariant'
  BY <1>8 DEF BodyEnds
<1>9. ASSUME NEW u \in Units, CommitSucceeds(u) PROVE Invariant'
  <2>1. TypeOK'
    BY <1>9, PoolBound DEF CommitSucceeds
  <2>2. Stages'
    BY <1>9 DEF CommitSucceeds
  <2>3. OkIsDurableEarly'
    BY <1>9 DEF CommitSucceeds
  <2>4. (DurableOnlyIfEnded /\ UnclosedOnlyIfCancelledAsleep)'
    BY <1>9 DEF CommitSucceeds
  <2> QED BY <2>1, <2>2, <2>3, <2>4
<1>10. ASSUME NEW u \in Units, CommitFails(u) PROVE Invariant'
  BY <1>10 DEF CommitFails, MaybeCommitted
<1>11. ASSUME NEW u \in Units, CommitTimesOut(u) PROVE Invariant'
  BY <1>11 DEF CommitTimesOut, MaybeCommitted
<1>12. ASSUME NEW u \in Units, RollbackSucceeds(u) PROVE Invariant'
  BY <1>12, PoolBound DEF RollbackSucceeds
<1>13. ASSUME NEW u \in Units, RollbackFails(u) PROVE Invariant'
  <2>1. flag' \in [Units -> BOOLEAN] /\ flag'[u] \in BOOLEAN
    BY ZenonT(60), <1>13 DEF RollbackFails
  <2>2. \A v \in Units : v # u => flag'[v] = flag[v]
    BY <1>13 DEF RollbackFails
  <2>3. TypeOK'
    BY <1>13, <2>1 DEF RollbackFails
  <2>4. (Stages /\ OkIsDurableEarly)'
    BY <1>13, <2>1, <2>2 DEF RollbackFails
  <2>5. (DurableOnlyIfEnded /\ UnclosedOnlyIfCancelledAsleep)'
    BY <1>13, <2>1, <2>2 DEF RollbackFails
  <2> QED BY <2>3, <2>4, <2>5
<1>14. ASSUME NEW u \in Units, WakeUp(u) PROVE Invariant'
  BY <1>14 DEF WakeUp
<1>15. ASSUME NEW u \in Units, CloseSucceeds(u) PROVE Invariant'
  BY <1>15, PoolBound DEF CloseSucceeds
<1>16. ASSUME NEW u \in Units, CloseFails(u) PROVE Invariant'
  BY <1>16, PoolBound DEF CloseFails
<1>17. ASSUME NEW u \in Units, CloseTimesOut(u) PROVE Invariant'
  BY <1>17 DEF CloseTimesOut, LeaveClosing
<1>18. ASSUME NEW u \in Units, BodyCancelled(u) PROVE Invariant'
  BY <1>18, PoolAssumption DEF BodyCancelled, ExitRaising
<1>19. ASSUME NEW u \in Units, CommitCancelled(u) PROVE Invariant'
  BY <1>19, PoolAssumption DEF CommitCancelled, MaybeCommitted
<1>20. ASSUME NEW u \in Units, SleepCancelled(u) PROVE Invariant'
  BY <1>20, PoolAssumption DEF SleepCancelled
<1>21. ASSUME NEW u \in Units, CloseCancelled(u) PROVE Invariant'
  BY <1>21, PoolAssumption DEF CloseCancelled, LeaveClosing
<1>22. ASSUME NEW u \in Units, CloseCompletes(u) PROVE Invariant'
  BY <1>22, PoolBound DEF CloseCompletes
<1>23. ASSUME NEW u \in Units, Collected(u) PROVE Invariant'
  BY <1>23, PoolBound DEF Collected
<1>24. ASSUME NEW u \in Units, EnterFails(u) PROVE Invariant'
  BY <1>24 DEF EnterFails
<1>25. ASSUME NEW u \in Units, NEW kind \in {"joins", "commits"}, GuestEnters(u, kind) PROVE Invariant'
  BY <1>25 DEF GuestEnters
<1>26. ASSUME NEW u \in Units, GuestRaises(u) PROVE Invariant'
  BY <1>26, PoolAssumption DEF GuestRaises
<1>27. ASSUME NEW u \in Units, BodyCommits(u) PROVE Invariant'
  BY <1>27 DEF BodyCommits
<1>28. ASSUME NEW u \in Units, GuestEnds(u) PROVE Invariant'
  BY <1>28 DEF GuestEnds
<1>29. ASSUME NEW u \in Units, EarlyCommitSucceeds(u) PROVE Invariant'
  BY <1>29, PoolBound DEF EarlyCommitSucceeds, EarlyCommitEnds
<1>30. ASSUME NEW u \in Units, EarlyCommitFails(u) PROVE Invariant'
  <2>1. flag' \in [Units -> BOOLEAN] /\ \A v \in Units : v # u => flag'[v] = flag[v]
    BY <1>30 DEF EarlyCommitFails
  <2>2. holding' \in SUBSET Units /\ Cardinality(holding') <= PoolSize /\ holding \ {u} \subseteq holding'
    BY <1>30, PoolBound DEF EarlyCommitFails
  <2>3. /\ pc' = [pc EXCEPT ![u] = "body"] /\ guest' = [guest EXCEPT ![u] = "none"]
        /\ tx' = [tx EXCEPT ![u] = "none"] /\ raised' = [raised EXCEPT ![u] = "caught"]
        /\ holding' \subseteq holding /\ pc[u] = "early" /\ early' = early
        /\ UNCHANGED <<autoCommit, outcome, closing, cancels>>
    BY <1>30 DEF EarlyCommitFails, EarlyCommitEnds, RaisesIntoBody
  <2>4. TypeOK'
    BY <2>1, <2>2, <2>3
  <2>5. Stages'
    BY <2>1, <2>3
  <2>6. (OkIsDurableEarly /\ DurableOnlyIfEnded)'
    BY <2>3
  <2>7. UnclosedOnlyIfCancelledAsleep'
    BY <2>1, <2>3
  <2> QED BY <2>4, <2>5, <2>6, <2>7
<1>31. ASSUME NEW u \in Units, EarlyCommitCancelled(u) PROVE Invariant'
  BY <1>31, PoolAssumption DEF EarlyCommitCancelled
<1>32. ASSUME NEW u \in Units, GuestCancelled(u) PROVE Invariant'
  BY <1>32, PoolAssumption, PoolBound DEF GuestCancelled, RaisesIntoBody, Invalidated, Interrupted
<1>33. ASSUME NEW u \in Units, BodyRollsBack(u) PROVE Invariant'
  <2>1. flag' \in [Units -> BOOLEAN] /\ \A v \in Units : v # u => flag'[v] = flag[v]
    BY <1>33 DEF BodyRollsBack
  <2>2. holding' \in SUBSET Units /\ Cardinality(holding') <= PoolSize /\ holding \ {u} \subseteq holding'
    BY <1>33, PoolBound DEF BodyRollsBack
  <2>3. /\ tx' = [tx EXCEPT ![u] = "none"] /\ raised' = [raised EXCEPT ![u] = "nothing"]
        /\ holding' \subseteq holding /\ pc[u] = "body"
        /\ UNCHANGED <<autoCommit, pc, guest, outcome, early, closing, cancels>>
    BY <1>33 DEF BodyRollsBack
  <2>4. TypeOK'
    BY <2>1, <2>2, <2>3
  <2>5. Stages'
    BY <2>1, <2>3
  <2>6. (OkIsDurableEarly /\ DurableOnlyIfEnded)'
    BY <2>3
  <2>7. UnclosedOnlyIfCancelledAsleep'
    BY <2>1, <2>3
  <2> QED BY <2>4, <2>5, <2>6, <2>7
<1>34. ASSUME AllDone \/ UNCHANGED vars PROVE Invariant'
  BY <1>34 DEF AllDone, vars
<1> QED BY ZenonT(60), <1>1, <1>2, <1>3, <1>4, <1>5, <1>6, <1>7, <1>8, <1>9, <1>10, <1>11, <1>12,
         <1>13, <1>14, <1>15, <1>16, <1>17, <1>18, <1>19, <1>20, <1>21, <1>22, <1>23,
         <1>24, <1>25, <1>26, <1>27, <1>28, <1>29, <1>30, <1>31, <1>32,
         <1>33, <1>34
      DEF Next, Body, Guest, Early, Commit, Close, Cancelled

\* The invariant holds throughout every behaviour of the units.
THEOREM Inductive == Spec => []Invariant
BY InitInvariant, StepInvariant, PTL DEF Spec

\* Every variable keeps its type, the bound of the pool included: however units
\* fail, no more connections are held than the pool has.
THEOREM TypeCorrect == Spec => []TypeOK
<1>1. Invariant => TypeOK
  BY DEF Invariant
<1> QED BY <1>1, Inductive, PTL

\* All or nothing: a unit's writes are durable only if its body ended normally, and
\* before that only if it, or a guest made to commit, asked for it.
THEOREM AllOrNothing == Spec => []DurableOnlyIfEnded
<1>1. Invariant => DurableOnlyIfEnded
  BY DEF Invariant
<1> QED BY <1>1, Inductive, PTL

\* A block left without an exception has committed what it wrote, unless the database
\* raised into its body, which caught that and went on without a rollback().
THEOREM OkMeansDurable == Spec => []OkIsDurable
<1>1. Invariant => OkIsDurable
  BY DEF Invariant, OkIsDurableEarly, OkIsDurable
<1> QED BY <1>1, Inductive, PTL

\* Sessions are left unclosed by a cancellation in the cleanup delay only.
THEOREM SessionsAreClosed == Spec => []UnclosedOnlyIfCancelledAsleep
<1>1. Invariant => UnclosedOnlyIfCancelledAsleep
  BY DEF Invariant
<1> QED BY <1>1, Inductive, PTL
=============================================================================
