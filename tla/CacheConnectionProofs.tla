------------------------ MODULE CacheConnectionProofs -------------------------
(***************************************************************************)
(* What holds of CacheConnection for any set of tasks, any delays and any  *)
(* number of closes.  The invariants of the runs are not inductive: that   *)
(* an outcome matches the client needs that, undisrupted, the only attempt *)
(* in flight owns the client; that a command keeps its client needs that a *)
(* service which was never closed stays initialized.                       *)
(***************************************************************************)
EXTENDS CacheConnection, WellFoundedInduction, TLAPS

\* Undisrupted, an attempt in flight is the only one and owns the client.
AttemptOwnsClient ==
  ~disrupted => \A t \in Tasks : pc[t] = "ping" => ~initialized /\ client = t

\* Before the first close() nothing undoes the initialization.
SettledUntilClosed ==
  closes = 0 => /\ failures > 0 => initialized
                /\ \A t \in Tasks : pc[t] # "closing"
                /\ ~disrupted => \A t \in Tasks :
                     pc[t] = "command" => initialized /\ client # Nothing

Invariant ==
  TypeOK /\ FallbackCoherent /\ AttemptOwnsClient /\ OutcomeMatchesClient
  /\ SettledUntilClosed /\ ClientHeldThroughout

-----------------------------------------------------------------------------

\* The two halves of TypeOK: no prover is at ease with both at once.
Flags ==
  /\ fallbackAllowed \in BOOLEAN /\ up \in BOOLEAN /\ initialized \in BOOLEAN
  /\ usingFallback \in BOOLEAN /\ disrupted \in BOOLEAN /\ nullUse \in BOOLEAN

Ranges ==
  /\ client \in Tasks \cup {Nothing} /\ memory \in Tasks \cup {Nothing}
  /\ failures \in Nat /\ delay \in InitialDelay..MaxDelay /\ age \in 0..MaxDelay
  /\ pc \in [Tasks -> {"idle", "ping", "command", "closing"}]
  /\ closes \in 0..MaxCloses

\* The two halves say what TypeOK says.
LEMMA TypeIsFlagsAndRanges == TypeOK <=> Flags /\ Ranges
BY DEF TypeOK, Flags, Ranges

\* A helper of the proofs: the backoff state keeps its type when an outcome is
\* recorded, the cap included.
LEMMA BackoffTypes ==
  ASSUME TypeOK, RecordSuccess \/ RecordFailure
  PROVE  failures' \in Nat /\ delay' \in InitialDelay..MaxDelay /\ age' \in 0..MaxDelay
<1>1. /\ InitialDelay \in Nat \ {0} /\ MaxDelay \in Nat /\ BackoffFactor \in Nat \ {0}
      /\ InitialDelay <= MaxDelay /\ failures \in Nat /\ delay \in InitialDelay..MaxDelay
  BY DelayAssumption DEF TypeOK
<1>2. delay * BackoffFactor \in Nat /\ delay * BackoffFactor >= delay
  <2>1. PICK k \in Nat : BackoffFactor = k + 1
    BY <1>1
  <2>2. delay * (k + 1) = delay * k + delay /\ delay * k \in Nat
    BY <1>1, <2>1
  <2> QED BY <1>1, <2>1, <2>2
<1> QED BY <1>1, <1>2 DEF RecordSuccess, RecordFailure

\* The initial state, in which nothing is connected, satisfies the invariant.
LEMMA InitInvariant == Init => Invariant
<1> SUFFICES ASSUME Init PROVE Invariant
  OBVIOUS
<1>1. TypeOK
  <2>1. Flags
    BY DEF Init, Flags
  <2>2. Ranges
    BY DelayAssumption, ClosesAssumption DEF Init, Ranges
  <2> QED BY <2>1, <2>2, TypeIsFlagsAndRanges
<1>2. FallbackCoherent
  BY DEF Init, FallbackCoherent
<1>3. AttemptOwnsClient /\ OutcomeMatchesClient /\ SettledUntilClosed
  BY DEF Init, AttemptOwnsClient, OutcomeMatchesClient, SettledUntilClosed
<1>4. ClientHeldThroughout
  BY DEF Init, ClientHeldThroughout
<1> QED BY <1>1, <1>2, <1>3, <1>4 DEF Invariant

\* Every step of the service and of its environment preserves the invariant.
LEMMA StepInvariant == Invariant /\ [Next]_vars => Invariant'
<1> SUFFICES ASSUME Invariant, [Next]_vars PROVE Invariant'
  OBVIOUS
<1> USE TasksAssumption DEF Invariant, TypeOK, FallbackCoherent, AttemptOwnsClient,
       OutcomeMatchesClient, SettledUntilClosed, ClientHeldThroughout, env, backends,
       backoff, history, At, Goto
<1>1. ASSUME NEW t \in Tasks, CallInitialized(t) PROVE Invariant'
  BY <1>1 DEF CallInitialized, Proceed
<1>2. ASSUME NEW t \in Tasks, CallBacksOff(t) PROVE Invariant'
  <2>1. Flags'
    BY <1>2 DEF CallBacksOff, UseFallback, Flags
  <2>2. Ranges'
    BY <1>2 DEF CallBacksOff, Proceed, UseFallback, ShouldAttempt, Ranges
  <2>3. FallbackCoherent'
    BY <1>2 DEF CallBacksOff, UseFallback
  <2>4. (AttemptOwnsClient /\ OutcomeMatchesClient)'
    BY <1>2 DEF CallBacksOff, Proceed, UseFallback, ShouldAttempt
  <2>5. (SettledUntilClosed /\ ClientHeldThroughout)'
    BY <1>2 DEF CallBacksOff, Proceed, UseFallback, ShouldAttempt
  <2> QED BY <2>1, <2>2, <2>3, <2>4, <2>5, Zenon DEF Flags, Ranges
<1>3. ASSUME NEW t \in Tasks, CallAttempts(t) PROVE Invariant'
  BY <1>3 DEF CallAttempts, ShouldAttempt, Attempting
<1>4. ASSUME NEW t \in Tasks, PingSucceeds(t) PROVE Invariant'
  BY <1>4, BackoffTypes DEF PingSucceeds, Proceed, RecordSuccess
<1>5. ASSUME NEW t \in Tasks, PingFails(t) PROVE Invariant'
  <2>1. Flags'
    BY <1>5 DEF PingFails, UseFallback, Flags
  <2>2. Ranges'
    BY <1>5, BackoffTypes DEF PingFails, Proceed, UseFallback, RecordFailure, Ranges
  <2>3. FallbackCoherent'
    BY <1>5 DEF PingFails, UseFallback
  <2>4. (AttemptOwnsClient /\ OutcomeMatchesClient)'
    BY <1>5 DEF PingFails, Proceed, UseFallback, RecordFailure
  <2>5. (SettledUntilClosed /\ ClientHeldThroughout)'
    BY <1>5, BackoffTypes DEF PingFails, Proceed, UseFallback, RecordFailure
  <2> QED BY <2>1, <2>2, <2>3, <2>4, <2>5, Zenon DEF Flags, Ranges
<1>6. ASSUME NEW t \in Tasks, PingRejected(t) PROVE Invariant'
  BY <1>6 DEF PingRejected
<1>7. ASSUME NEW t \in Tasks, CommandEnds(t) PROVE Invariant'
  BY <1>7 DEF CommandEnds
<1>8. ASSUME NEW t \in Tasks, NextCommand(t) PROVE Invariant'
  <2>1. Flags'
    BY <1>8 DEF NextCommand, Flags
  <2>2. Ranges'
    BY <1>8 DEF NextCommand, Ranges
  <2>3. FallbackCoherent'
    BY <1>8 DEF NextCommand
  <2>4. (AttemptOwnsClient /\ OutcomeMatchesClient)'
    BY <1>8 DEF NextCommand
  <2>5. (SettledUntilClosed /\ ClientHeldThroughout)'
    BY <1>8 DEF NextCommand
  <2> QED BY <2>1, <2>2, <2>3, <2>4, <2>5, Zenon DEF Flags, Ranges
<1>9. ASSUME NEW t \in Tasks, CloseStarts(t) PROVE Invariant'
  <2>1. Flags'
    BY <1>9 DEF CloseStarts, Flags
  <2>2. Ranges'
    BY <1>9, ClosesAssumption DEF CloseStarts, Attempting, Ranges
  <2>3. FallbackCoherent'
    BY <1>9 DEF CloseStarts
  <2>4. (AttemptOwnsClient /\ OutcomeMatchesClient)'
    BY <1>9 DEF CloseStarts, Attempting
  <2>5. (SettledUntilClosed /\ ClientHeldThroughout)'
    BY <1>9, ClosesAssumption DEF CloseStarts, Attempting
  <2> QED BY <2>1, <2>2, <2>3, <2>4, <2>5, Zenon DEF Flags, Ranges
<1>10. ASSUME NEW t \in Tasks, CloseEnds(t) PROVE Invariant'
  BY <1>10 DEF CloseEnds, Attempting
<1>11. ASSUME NEW t \in Tasks, CloseInterrupted(t) PROVE Invariant'
  BY <1>11 DEF CloseInterrupted
<1>12. ASSUME RedisGoesDown \/ RedisComesUp PROVE Invariant'
  <2>1. Flags'
    BY <1>12 DEF RedisGoesDown, RedisComesUp, Flags
  <2>2. Ranges'
    BY <1>12 DEF RedisGoesDown, RedisComesUp, Ranges
  <2>3. FallbackCoherent'
    BY <1>12 DEF RedisGoesDown, RedisComesUp
  <2>4. (AttemptOwnsClient /\ OutcomeMatchesClient)'
    BY <1>12 DEF RedisGoesDown, RedisComesUp
  <2>5. (SettledUntilClosed /\ ClientHeldThroughout)'
    BY <1>12 DEF RedisGoesDown, RedisComesUp
  <2> QED BY <2>1, <2>2, <2>3, <2>4, <2>5, Zenon DEF Flags, Ranges
<1>13. ASSUME Tick PROVE Invariant'
  BY <1>13, DelayAssumption DEF Tick
<1>14. ASSUME UNCHANGED vars PROVE Invariant'
  BY <1>14 DEF vars
<1> QED BY <1>1, <1>2, <1>3, <1>4, <1>5, <1>6, <1>7, <1>8, <1>9, <1>10, <1>11,
           <1>12, <1>13, <1>14 DEF Next

\* The invariant holds throughout every behaviour of the service.
THEOREM Inductive == Spec => []Invariant
BY InitInvariant, StepInvariant, PTL DEF Spec

\* Every variable keeps its type; in particular the delay never leaves the range
\* from the initial to the maximal one, however attempts overlap.
THEOREM TypeCorrect == Spec => []TypeOK
<1>1. Invariant => TypeOK
  BY DEF Invariant
<1> QED BY <1>1, Inductive, PTL

\* The fallback flag and the in-memory cache come and go together, and only in an
\* environment that allows them.
THEOREM FallbackIsCoherent == Spec => []FallbackCoherent
<1>1. Invariant => FallbackCoherent
  BY DEF Invariant
<1> QED BY <1>1, Inductive, PTL

\* Without overlapping attempts and closes, an initialized service has a client
\* exactly if its last attempt succeeded.
THEOREM OutcomesMatch == Spec => []OutcomeMatchesClient
<1>1. Invariant => OutcomeMatchesClient
  BY DEF Invariant
<1> QED BY <1>1, Inductive, PTL

\* Without closes and overlapping attempts no operation loses its client.
THEOREM ClientsAreHeld == Spec => []ClientHeldThroughout
<1>1. Invariant => ClientHeldThroughout
  BY DEF Invariant
<1> QED BY <1>1, Inductive, PTL

\* An initialized service with no attempt in flight changes its backend in close()
\* only, however its operations interleave.
THEOREM StableBackend == Spec => BackendIsStable
<1> DEFINE Stable == initialized /\ Attempting = {} /\ Closing = {}
                     => closes' > closes \/ UNCHANGED backends
<1>1. Invariant /\ [Next]_vars => [Stable]_vars
  <2> SUFFICES ASSUME Invariant, Next, initialized, Attempting = {}, Closing = {}
               PROVE closes' > closes \/ UNCHANGED backends
    OBVIOUS
  <2> USE DEF backends, env, At, Attempting, Closing
  <2>1. ASSUME NEW t \in Tasks, CloseStarts(t) PROVE closes' > closes
    BY <2>1, ClosesAssumption DEF CloseStarts, Invariant, TypeOK
  <2>2. ASSUME NEW t \in Tasks,
               CallInitialized(t) \/ CallBacksOff(t) \/ CallAttempts(t) \/ PingSucceeds(t)
               \/ PingFails(t) \/ PingRejected(t) \/ CommandEnds(t) \/ NextCommand(t)
               \/ CloseEnds(t) \/ CloseInterrupted(t)
        PROVE UNCHANGED backends
    BY <2>2 DEF CallInitialized, CallBacksOff, CallAttempts, PingSucceeds, PingFails,
                PingRejected, CommandEnds, NextCommand, CloseEnds, CloseInterrupted
  <2>3. ASSUME RedisGoesDown \/ RedisComesUp \/ Tick PROVE UNCHANGED backends
    BY <2>3 DEF RedisGoesDown, RedisComesUp, Tick
  <2> QED BY <2>1, <2>2, <2>3 DEF Next
<1> QED BY <1>1, Inductive, PTL DEF Spec, BackendIsStable

-----------------------------------------------------------------------------
(* The delay: an induction over the number of failures *)

\* Induction over the natural numbers, for a set: one that has 0, and the successor of
\* each of its elements, has them all.
LEMMA Induction ==
  ASSUME NEW S, 0 \in S, \A n \in Nat : n \in S => n + 1 \in S
  PROVE  Nat \subseteq S
<1> DEFINE Missing == {n \in Nat : n \notin S}
           Less == OpToRel(<, Nat)
<1>1. SUFFICES ASSUME Missing # {} PROVE FALSE
  OBVIOUS
<1>2. IsWellFoundedOn(Less, Nat)
  BY NatLessThanWellFounded
<1> HIDE DEF Less
<1>3. PICK m \in Missing : \A n \in Missing : <<n, m>> \notin Less
  BY <1>1, <1>2, WFMin
<1>4. \A n \in Missing : ~(n < m)
  BY <1>3 DEF Less, OpToRel
<1>5. m - 1 \in Nat /\ (m - 1) + 1 = m /\ m - 1 < m
  BY <1>3
<1> QED BY <1>3, <1>4, <1>5

\* A part of Growth: its values up to n.
GrowsUpTo(n, f) ==
  /\ f \in [0..n -> Nat] /\ f[0] = 1
  /\ \A i \in 0..n : i # 0 => f[i] = f[i - 1] * BackoffFactor

\* Growth is the function its recursive definition describes: every part of it exists,
\* and two parts agree where both are defined.
LEMMA GrowthDefined ==
  /\ Growth \in [Nat -> Nat] /\ Growth[0] = 1
  /\ \A n \in Nat : Growth[n + 1] = Growth[n] * BackoffFactor
<1>0. BackoffFactor \in Nat /\ \A a \in Nat : a * BackoffFactor \in Nat
  BY DelayAssumption
<1>1. ASSUME NEW n \in Nat PROVE \E f : GrowsUpTo(n, f)
  <2> DEFINE S == {m \in Nat : \E f : GrowsUpTo(m, f)}
  <2>1. 0 \in S
    <3>1. GrowsUpTo(0, [i \in 0..0 |-> 1])
      BY DEF GrowsUpTo
    <3> QED BY <3>1
  <2>2. ASSUME NEW m \in Nat, m \in S PROVE m + 1 \in S
    <3>1. PICK f : GrowsUpTo(m, f)
      BY <2>2
    <3> DEFINE g == [i \in 0..(m + 1) |-> IF i = m + 1 THEN f[m] * BackoffFactor ELSE f[i]]
    <3>2. /\ \A i \in 0..(m + 1) : i # m + 1 => i \in 0..m
          /\ f[m] \in Nat /\ \A i \in 0..m : f[i] \in Nat
      BY <3>1 DEF GrowsUpTo
    <3>3. g \in [0..(m + 1) -> Nat] /\ g[0] = 1
      BY <1>0, <3>1, <3>2 DEF GrowsUpTo
    <3>4. ASSUME NEW i \in 0..(m + 1), i # 0 PROVE g[i] = g[i - 1] * BackoffFactor
      BY <3>1, <3>2, <3>4 DEF GrowsUpTo
    <3>5. GrowsUpTo(m + 1, g)
      BY <3>3, <3>4 DEF GrowsUpTo
    <3> QED BY <3>5
  <2> HIDE DEF S
  <2>3. Nat \subseteq S
    BY <2>1, <2>2, Induction
  <2> QED BY <2>3 DEF S
<1>2. ASSUME NEW n \in Nat, NEW m \in Nat, NEW f, NEW g, GrowsUpTo(n, f), GrowsUpTo(m, g)
      PROVE  \A i \in Nat : i <= n /\ i <= m => f[i] = g[i]
  <2> DEFINE S == {i \in Nat : i <= n /\ i <= m => f[i] = g[i]}
  <2>1. 0 \in S
    BY <1>2 DEF GrowsUpTo
  <2>2. ASSUME NEW i \in Nat, i \in S PROVE i + 1 \in S
    <3>1. CASE i + 1 <= n /\ i + 1 <= m
      <4>1. i + 1 \in 0..n /\ i + 1 \in 0..m /\ i + 1 # 0 /\ (i + 1) - 1 = i /\ i <= n /\ i <= m
        BY <3>1
      <4>2. f[i + 1] = f[i] * BackoffFactor /\ g[i + 1] = g[i] * BackoffFactor
        BY <1>2, <4>1 DEF GrowsUpTo
      <4> QED BY <2>2, <4>1, <4>2
    <3> QED BY <3>1
  <2> HIDE DEF S
  <2>3. Nat \subseteq S
    BY <2>1, <2>2, Induction
  <2> QED BY <2>3 DEF S
<1> DEFINE part(n) == CHOOSE f : GrowsUpTo(n, f)
           whole == [n \in Nat |-> part(n)[n]]
<1>3. \A n \in Nat : GrowsUpTo(n, part(n))
  BY <1>1
<1> HIDE DEF part
<1>4. whole \in [Nat -> Nat] /\ whole[0] = 1
  BY <1>3 DEF GrowsUpTo
<1>5. ASSUME NEW n \in Nat, n # 0 PROVE whole[n] = whole[n - 1] * BackoffFactor
  <2>1. n - 1 \in Nat /\ n - 1 <= n /\ n - 1 <= n - 1 /\ n \in 0..n
    BY <1>5
  <2>2. part(n)[n] = part(n)[n - 1] * BackoffFactor
    BY <1>3, <1>5, <2>1 DEF GrowsUpTo
  <2>3. part(n)[n - 1] = part(n - 1)[n - 1]
    BY <1>2, <1>3, <2>1
  <2> QED BY <2>1, <2>2, <2>3
<1>6. whole = [n \in Nat |-> IF n = 0 THEN 1 ELSE whole[n - 1] * BackoffFactor]
  <2>1. \A n \in Nat : whole[n] = IF n = 0 THEN 1 ELSE whole[n - 1] * BackoffFactor
    BY <1>4, <1>5
  <2>2. whole = [n \in Nat |-> whole[n]]
    OBVIOUS
  <2> HIDE DEF whole
  <2> QED BY <2>1, <2>2
<1> HIDE DEF whole
<1>7. Growth = [n \in Nat |-> IF n = 0 THEN 1 ELSE Growth[n - 1] * BackoffFactor]
  BY <1>6 DEF Growth
<1>8. Growth[0] = 1 /\ \A n \in Nat : Growth[n + 1] = Growth[n] * BackoffFactor
  <2>1. \A n \in Nat : n + 1 \in Nat /\ n + 1 # 0 /\ (n + 1) - 1 = n
    OBVIOUS
  <2>2. \A n \in Nat : Growth[n] = IF n = 0 THEN 1 ELSE Growth[n - 1] * BackoffFactor
    BY <1>7
  <2> QED BY <2>1, <2>2
<1>9. \A n \in Nat : Growth[n] \in Nat
  <2> DEFINE S == {n \in Nat : Growth[n] \in Nat}
  <2>1. 0 \in S
    BY <1>8
  <2>2. \A n \in Nat : n \in S => n + 1 \in S
    BY <1>0, <1>8
  <2> HIDE DEF S
  <2>3. Nat \subseteq S
    BY <2>1, <2>2, Induction
  <2> QED BY <2>3 DEF S
<1> QED BY <1>7, <1>8, <1>9

\* What DelayFollowsFailures says of the state before a failure, it says of the state
\* after it: capping the delay and then multiplying and capping again is capping once.
LEMMA FailureDelays ==
  ASSUME Invariant, DelayFollowsFailures, RecordFailure
  PROVE  DelayFollowsFailures'
<1> DEFINE exact == InitialDelay * Growth[failures]
<1>1. /\ InitialDelay \in Nat /\ MaxDelay \in Nat /\ BackoffFactor \in Nat \ {0} /\ failures \in Nat
      /\ Growth[failures] \in Nat /\ Growth[failures + 1] = Growth[failures] * BackoffFactor
  BY DelayAssumption, GrowthDefined DEF Invariant, TypeOK
<1>2. exact \in Nat /\ delay = IF exact <= MaxDelay THEN exact ELSE MaxDelay
  BY <1>1 DEF DelayFollowsFailures
<1>3. InitialDelay * Growth[failures + 1] = exact * BackoffFactor
  <2>1. \A a, b, c \in Nat : a * (b * c) = (a * b) * c
    OBVIOUS
  <2> QED BY <1>1, <2>1
<1> HIDE DEF exact
<1>4. exact * BackoffFactor >= exact /\ MaxDelay * BackoffFactor >= MaxDelay
      /\ exact * BackoffFactor \in Nat /\ MaxDelay * BackoffFactor \in Nat
  <2>1. \A a \in Nat : a * BackoffFactor \in Nat /\ a * BackoffFactor >= a
    <3>1. PICK k \in Nat : BackoffFactor = k + 1
      BY <1>1
    <3>2. \A a \in Nat : a * (k + 1) = a * k + a /\ a * k \in Nat
      OBVIOUS
    <3> QED BY <3>1, <3>2
  <2> QED BY <1>1, <1>2, <2>1
<1>5. failures' = failures + 1
      /\ delay' = IF delay * BackoffFactor <= MaxDelay THEN delay * BackoffFactor ELSE MaxDelay
  BY DEF RecordFailure
<1>6. delay' = IF exact * BackoffFactor <= MaxDelay THEN exact * BackoffFactor ELSE MaxDelay
  <2>1. CASE exact <= MaxDelay
    BY <1>2, <1>5, <2>1
  <2>2. CASE exact > MaxDelay
    <3>1. exact * BackoffFactor > MaxDelay /\ delay = MaxDelay
      BY <1>1, <1>2, <1>4, <2>2
    <3>2. delay' = MaxDelay
      BY <1>1, <1>4, <1>5, <3>1
    <3> QED BY <1>1, <1>4, <3>1, <3>2
  <2> QED BY <1>1, <1>2, <2>1, <2>2
<1> QED BY <1>3, <1>5, <1>6 DEF DelayFollowsFailures

\* The delay is the one the failures in a row call for, whatever attempts overlap.
THEOREM DelaysFollowFailures == Spec => []DelayFollowsFailures
<1>1. Init => DelayFollowsFailures
  <2>1. InitialDelay \in Nat /\ InitialDelay * 1 = InitialDelay /\ InitialDelay <= MaxDelay
    BY DelayAssumption
  <2> QED BY <2>1, GrowthDefined DEF Init, DelayFollowsFailures
<1>2. Invariant /\ DelayFollowsFailures /\ [Next]_vars => DelayFollowsFailures'
  <2> SUFFICES ASSUME Invariant, DelayFollowsFailures, [Next]_vars PROVE DelayFollowsFailures'
    OBVIOUS
  <2>1. CASE UNCHANGED <<failures, delay>>
    BY <2>1 DEF DelayFollowsFailures
  <2>2. CASE RecordSuccess
    <3>1. InitialDelay \in Nat /\ InitialDelay * 1 = InitialDelay /\ InitialDelay <= MaxDelay
      BY DelayAssumption
    <3> QED BY <2>2, <3>1, GrowthDefined DEF RecordSuccess, DelayFollowsFailures
  <2>3. CASE RecordFailure
    BY <2>3, FailureDelays
  <2>4. ASSUME NEW t \in Tasks,
               CallInitialized(t) \/ CallBacksOff(t) \/ CallAttempts(t) \/ PingRejected(t)
               \/ CommandEnds(t) \/ NextCommand(t)
               \/ CloseStarts(t) \/ CloseEnds(t) \/ CloseInterrupted(t)
        PROVE  UNCHANGED <<failures, delay>>
    BY <2>4 DEF CallInitialized, CallBacksOff, CallAttempts, PingRejected, CommandEnds, NextCommand,
                CloseStarts, CloseEnds, CloseInterrupted, backoff
  <2>5. CASE RedisGoesDown \/ RedisComesUp \/ Tick \/ UNCHANGED vars
    BY <2>1, <2>5 DEF RedisGoesDown, RedisComesUp, Tick, vars, backoff
  <2>6. ASSUME NEW t \in Tasks, PingSucceeds(t) \/ PingFails(t) PROVE RecordSuccess \/ RecordFailure
    BY <2>6 DEF PingSucceeds, PingFails
  <2> QED BY <2>1, <2>2, <2>3, <2>4, <2>5, <2>6 DEF Next
<1> QED BY <1>1, <1>2, Inductive, PTL DEF Spec
=============================================================================
