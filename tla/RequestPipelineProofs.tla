------------------------ MODULE RequestPipelineProofs -------------------------
(***************************************************************************)
(* What holds of RequestPipeline for any set of requests and any limit.    *)
(* The conservation of slots is inductive once it is known that a request  *)
(* is answered when, and only when, its dispatch returns: every step then  *)
(* moves at most one request into or out of Admitted.                      *)
(***************************************************************************)
EXTENDS RequestPipeline, FiniteSetTheorems, TLAPS

Rejected == {r \in Requests : answer[r] = "503"}

RejectionsCounted == rejected = Cardinality(Rejected)

\* Where a request is in its dispatch decides whether it has been answered.
Stages ==
  \A r \in Requests :
    /\ answer[r] = "nothing" <=> admission[r] # "returned"
    /\ admission[r] = "new" => ~Running(r)

Invariant == TypeOK /\ SlotsConserved /\ RejectionsCounted /\ Stages

-----------------------------------------------------------------------------

\* Adding or removing one request changes the size of a set of requests by one.
LEMMA OneRequest ==
  ASSUME NEW S \in SUBSET Requests, NEW r \in Requests
  PROVE  /\ Cardinality(S) \in Nat
         /\ Cardinality(S) <= Cardinality(Requests)
         /\ Cardinality(Requests) \in Nat
         /\ r \notin S => Cardinality(S \cup {r}) = Cardinality(S) + 1
         /\ r \in S => Cardinality(S) = Cardinality(S \ {r}) + 1
<1>1. IsFiniteSet(Requests) /\ IsFiniteSet(S) /\ IsFiniteSet(S \ {r})
  BY RequestsAssumption, FS_Subset
<1>2. Cardinality(S) <= Cardinality(Requests)
  BY <1>1, FS_Subset
<1>3. r \notin S => Cardinality(S \cup {r}) = Cardinality(S) + 1
  BY <1>1, FS_AddElement
<1>4. ASSUME r \in S PROVE Cardinality(S) = Cardinality(S \ {r}) + 1
  <2>1. (S \ {r}) \cup {r} = S /\ r \notin S \ {r}
    BY <1>4
  <2>2. Cardinality((S \ {r}) \cup {r}) = Cardinality(S \ {r}) + 1
    BY <1>1, <2>1, FS_AddElement
  <2> QED BY <2>1, <2>2
<1> QED BY <1>1, <1>2, <1>3, <1>4, FS_CardinalityType

\* A step that leaves every dispatch where it is, and every counter, keeps both sums.
LEMMA Undispatched ==
  ASSUME Invariant, UNCHANGED <<counters, admission, answer>>
  PROVE  (SlotsConserved /\ RejectionsCounted)'
<1>1. Admitted' = Admitted /\ Rejected' = Rejected
  BY DEF Admitted, Rejected, Waiting
<1> QED BY <1>1 DEF Invariant, SlotsConserved, RejectionsCounted, counters

\* A dispatch that returns with an answer other than 503, its slot given back,
\* keeps both sums.
LEMMA Returned ==
  ASSUME Invariant, NEW r \in Requests, Waiting(r), Release(r),
         admission' = [admission EXCEPT ![r] = "returned"],
         NEW a, a # "503", answer' = [answer EXCEPT ![r] = a], UNCHANGED rejected
  PROVE  /\ slots' \in 0..MaxConcurrent /\ current' \in 0..MaxConcurrent
         /\ (SlotsConserved /\ RejectionsCounted)'
<1>1. Admitted' = Admitted \ {r}
  BY DEF Invariant, TypeOK, Admitted, Waiting
<1>2. Rejected' = Rejected
  BY DEF Invariant, TypeOK, Stages, Rejected, Waiting
<1>3. Admitted \in SUBSET Requests /\ Admitted' \in SUBSET Requests
  BY DEF Admitted
<1>4. Cardinality(Admitted) \in Nat /\ Cardinality(Admitted') \in Nat
  BY <1>3, OneRequest
<1>5. CASE r \in Exempt
  <2>1. r \notin Admitted /\ Admitted' = Admitted
    BY <1>1, <1>5 DEF Admitted
  <2> QED BY <1>2, <1>5, <2>1 DEF Release, Invariant, TypeOK, SlotsConserved, RejectionsCounted
<1>6. CASE r \notin Exempt
  <2>1. r \in Admitted
    BY <1>6 DEF Admitted
  <2>2. Cardinality(Admitted) = Cardinality(Admitted') + 1
    BY <1>1, <1>3, <2>1, OneRequest
  <2>3. slots' = slots + 1 /\ current' = current - 1
    BY <1>6 DEF Release
  <2>4. slots' + Cardinality(Admitted') = MaxConcurrent /\ current' = Cardinality(Admitted')
    BY <1>4, <2>2, <2>3, LimitAssumption DEF Invariant, TypeOK, SlotsConserved
  <2> QED BY <1>2, <1>4, <2>3, <2>4, LimitAssumption
          DEF Invariant, TypeOK, SlotsConserved, RejectionsCounted
<1> QED BY <1>5, <1>6

\* No request has been dispatched: all slots are free.
LEMMA InitInvariant == Init => Invariant
<1> SUFFICES ASSUME Init PROVE Invariant
  OBVIOUS
<1>1. Admitted = {} /\ Rejected = {}
  BY DEF Init, Admitted, Rejected, Waiting
<1>2. Cardinality({}) = 0 /\ Cardinality(Requests) \in Nat
  BY RequestsAssumption, FS_EmptySet, FS_CardinalityType
<1>3. TypeOK
  BY <1>2, LimitAssumption DEF Init, TypeOK
<1> QED BY <1>1, <1>2, <1>3, LimitAssumption
        DEF Init, Invariant, SlotsConserved, RejectionsCounted, Stages, Running

\* Every step of a request preserves the invariant.
LEMMA StepInvariant == Invariant /\ [Next]_vars => Invariant'
<1> SUFFICES ASSUME Invariant, [Next]_vars PROVE Invariant'
  OBVIOUS
<1> USE DEF counters, task, Answer
<1>1. ASSUME NEW r \in Requests, Admit(r) PROVE Invariant'
  <2>1. Admitted \in SUBSET Requests /\ Cardinality(Admitted) \in Nat /\ r \notin Admitted
    BY <1>1, OneRequest DEF Admit, Admitted, Waiting
  <2>2. Admitted' = (IF r \in Exempt THEN Admitted ELSE Admitted \cup {r})
    BY <1>1 DEF Admit, Invariant, TypeOK, Admitted, Waiting
  <2>3. r \notin Exempt => Cardinality(Admitted') = Cardinality(Admitted) + 1
    BY <2>1, <2>2, OneRequest
  <2>4. SlotsConserved' /\ slots' \in 0..MaxConcurrent /\ current' \in 0..MaxConcurrent
    BY <1>1, <2>1, <2>2, <2>3, LimitAssumption DEF Admit, Invariant, TypeOK, SlotsConserved
  <2>5. TypeOK'
    BY <1>1, <2>4 DEF Admit, Invariant, TypeOK
  <2>6. RejectionsCounted'
    BY <1>1 DEF Admit, Invariant, RejectionsCounted, Rejected
  <2>7. Stages'
    BY <1>1 DEF Admit, Invariant, TypeOK, Stages, Running
  <2> QED BY <2>4, <2>5, <2>6, <2>7 DEF Invariant
<1>2. ASSUME NEW r \in Requests, Reject(r) PROVE Invariant'
  <2>1. r \notin Rejected /\ Rejected' = Rejected \cup {r} /\ Rejected' \in SUBSET Requests
    BY <1>2 DEF Reject, Invariant, TypeOK, Stages, Rejected
  <2>2. Rejected \in SUBSET Requests
    BY DEF Rejected
  <2>3. Cardinality(Rejected') = Cardinality(Rejected) + 1
    BY <2>1, <2>2, OneRequest
  <2>4. RejectionsCounted' /\ rejected' \in 0..Cardinality(Requests)
    <3>1. rejected' = Cardinality(Rejected')
      BY <1>2, <2>3 DEF Reject, Invariant, RejectionsCounted
    <3>2. /\ Cardinality(Rejected') \in Nat /\ Cardinality(Requests) \in Nat
          /\ Cardinality(Rejected') <= Cardinality(Requests)
      BY <1>2, <2>1, OneRequest
    <3> QED BY <3>1, <3>2 DEF RejectionsCounted
  <2>5. Admitted' = Admitted
    BY <1>2 DEF Reject, Invariant, TypeOK, Admitted, Waiting
  <2>6. SlotsConserved'
    BY <1>2, <2>5 DEF Reject, Invariant, SlotsConserved
  <2>7. TypeOK'
    BY <1>2, <2>4 DEF Reject, Invariant, TypeOK
  <2>8. Stages'
    BY <1>2 DEF Reject, Invariant, TypeOK, Stages, Running
  <2> QED BY <2>4, <2>6, <2>7, <2>8 DEF Invariant
<1>3. ASSUME NEW r \in Requests, AdmissionReturns(r) PROVE Invariant'
  <2> DEFINE a == IF inner[r] = "error" THEN "500" ELSE inner[r]
  <2>1. a \in {"response", "500", "504"}
    BY <1>3 DEF AdmissionReturns, Invariant, TypeOK
  <2>2. /\ slots' \in 0..MaxConcurrent /\ current' \in 0..MaxConcurrent
        /\ (SlotsConserved /\ RejectionsCounted)'
    BY <1>3, <2>1, Returned DEF AdmissionReturns
  <2>3. TypeOK'
    BY <1>3, <2>1, <2>2 DEF AdmissionReturns, Invariant, TypeOK
  <2>4. Stages'
    BY <1>3, <2>1 DEF AdmissionReturns, Invariant, TypeOK, Stages, Running
  <2> QED BY <2>2, <2>3, <2>4 DEF Invariant
<1>4. ASSUME NEW r \in Requests, Cancelled(r) PROVE Invariant'
  <2>1. CASE Waiting(r)
    <3>1. /\ slots' \in 0..MaxConcurrent /\ current' \in 0..MaxConcurrent
          /\ (SlotsConserved /\ RejectionsCounted)'
      BY <1>4, <2>1, Returned DEF Cancelled
    <3>2. (TypeOK /\ Stages)'
      BY <1>4, <2>1, <3>1 DEF Cancelled, Invariant, TypeOK, Stages, Running
    <3> QED BY <3>1, <3>2 DEF Invariant
  <2>2. CASE ~Waiting(r)
    <3>1. admission[r] = "returned" /\ UNCHANGED <<counters, answer>>
      BY <1>4, <2>2 DEF Cancelled, Waiting, Invariant, TypeOK, Stages
    <3>2. admission' = admission
      BY <1>4, <3>1 DEF Cancelled, Invariant, TypeOK
    <3>3. (SlotsConserved /\ RejectionsCounted)'
      BY <3>1, <3>2, Undispatched
    <3>4. (TypeOK /\ Stages)'
      BY <1>4, <3>1, <3>2 DEF Cancelled, Invariant, TypeOK, Stages, Running
    <3> QED BY <3>3, <3>4 DEF Invariant
  <2> QED BY <2>1, <2>2
<1>5. ASSUME NEW r \in Requests, TimeoutReturns(r) \/ TimerFires(r) PROVE Invariant'
  <2>1. (SlotsConserved /\ RejectionsCounted)'
    BY <1>5, Undispatched DEF TimeoutReturns, TimerFires
  <2>2. (TypeOK /\ Stages)'
    BY <1>5 DEF TimeoutReturns, TimerFires, Invariant, TypeOK, Stages, Running
  <2> QED BY <2>1, <2>2 DEF Invariant
<1>6. ASSUME NEW r \in Requests, Handler(r) PROVE Invariant'
  <2>1. (SlotsConserved /\ RejectionsCounted)'
    BY <1>6, Undispatched DEF Handler, HandlerWorks, HandlerResponds, HandlerRaises, HandlerEnds
  <2>2. (TypeOK /\ Stages)'
    BY <1>6 DEF Handler, HandlerWorks, HandlerResponds, HandlerRaises, HandlerEnds,
                Invariant, TypeOK, Stages, Running
  <2> QED BY <2>1, <2>2 DEF Invariant
<1>7. ASSUME AllDone \/ UNCHANGED vars PROVE Invariant'
  <2>1. UNCHANGED vars
    BY <1>7 DEF AllDone
  <2>2. (SlotsConserved /\ RejectionsCounted)'
    BY <2>1, Undispatched DEF vars
  <2>3. (TypeOK /\ Stages)'
    BY <2>1 DEF vars, Invariant, TypeOK, Stages, Running
  <2> QED BY <2>2, <2>3 DEF Invariant
<1> QED BY <1>1, <1>2, <1>3, <1>4, <1>5, <1>6, <1>7 DEF Next

\* The invariant holds throughout every behaviour of the pipeline.
THEOREM Inductive == Spec => []Invariant
BY InitInvariant, StepInvariant, PTL DEF Spec

\* Every variable keeps its type: neither counter leaves the range of the limit.
THEOREM TypeCorrect == Spec => []TypeOK
<1>1. Invariant => TypeOK
  BY DEF Invariant
<1> QED BY <1>1, Inductive, PTL

\* No slot is lost or given back twice, however a dispatch ends.
THEOREM SlotsAreConserved == Spec => []SlotsConserved
<1>1. Invariant => SlotsConserved
  BY DEF Invariant
<1> QED BY <1>1, Inductive, PTL

\* The limit bounds the handlers that a client still waits for.
THEOREM LimitHolds == Spec => []UnansweredWithinLimit
<1>1. ASSUME Invariant PROVE UnansweredWithinLimit
  <2> DEFINE U == {r \in Requests \ Exempt : Running(r) /\ answer[r] = "nothing"}
  <2>1. U \subseteq Admitted
    BY <1>1 DEF Invariant, TypeOK, Stages, Admitted, Waiting
  <2>2. IsFiniteSet(Admitted)
    BY RequestsAssumption, FS_Subset DEF Admitted
  <2>3. /\ Cardinality(U) <= Cardinality(Admitted)
        /\ Cardinality(U) \in Nat /\ Cardinality(Admitted) \in Nat
    BY <2>1, <2>2, FS_Subset, FS_CardinalityType
  <2>4. Cardinality(Admitted) <= MaxConcurrent
    BY <1>1, <2>3, LimitAssumption DEF Invariant, TypeOK, SlotsConserved
  <2>5. Cardinality(U) <= MaxConcurrent
    BY <2>3, <2>4, LimitAssumption
  <2> QED BY <2>5 DEF UnansweredWithinLimit
<1> QED BY <1>1, Inductive, PTL
=============================================================================
