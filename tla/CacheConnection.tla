--------------------------- MODULE CacheConnection ----------------------------
(***************************************************************************)
(* The connection of CacheService (core/infrastructure/cache/service.py):  *)
(* every public operation first awaits _ensure_connected(), which connects *)
(* lazily, backs off after failures and, in local/dev/test, installs the   *)
(* in-memory fallback.  A coroutine is suspended only in the PING of a     *)
(* connection attempt, in the Redis commands of an operation and in the    *)
(* await of close(); what runs between two of these is one step.           *)
(*                                                                         *)
(* Time is the age of the last attempt, in seconds and counted up to       *)
(* MaxDelay: the code compares it with nothing larger.                     *)
(***************************************************************************)
EXTENDS Naturals, FiniteSets

CONSTANTS Tasks,          \* coroutines that use the one CacheService
          Nothing,        \* no client, no in-memory cache
          InitialDelay,   \* INITIAL_RETRY_DELAY
          MaxDelay,       \* MAX_RETRY_DELAY
          BackoffFactor,  \* RETRY_BACKOFF_FACTOR
          MaxCloses       \* calls of close() per run (a bound of the model)

ASSUME TasksAssumption == IsFiniteSet(Tasks) /\ Nothing \notin Tasks
ASSUME DelayAssumption ==
  /\ InitialDelay \in Nat \ {0} /\ MaxDelay \in Nat /\ BackoffFactor \in Nat \ {0}
  /\ InitialDelay <= MaxDelay
ASSUME ClosesAssumption == MaxCloses \in Nat

VARIABLES fallbackAllowed, \* _should_use_fallback(): the environment's name
          up,              \* Redis answers
          initialized,     \* _initialized
          client,          \* _redis_client: the task that created it, or Nothing
          memory,          \* _in_memory_cache: the task that created it, or Nothing
          usingFallback,   \* _using_fallback
          failures,        \* _consecutive_failures
          delay,           \* _connection_retry_delay
          age,             \* time.time() - _last_connection_attempt
          pc,              \* per task: where its call is suspended
          closes,          \* calls of close() so far
          disrupted,       \* history: an attempt overlapped another one or a
                           \* close(), or a close() was interrupted
          nullUse          \* history: a command was sent through a missing client

env == <<fallbackAllowed, up>>
backends == <<client, memory, usingFallback>>
backoff == <<failures, delay, age>>
history == <<closes, disrupted, nullUse>>
vars == <<env, initialized, backends, backoff, pc, history>>

TypeOK ==
  /\ fallbackAllowed \in BOOLEAN /\ up \in BOOLEAN /\ initialized \in BOOLEAN
  /\ client \in Tasks \cup {Nothing} /\ memory \in Tasks \cup {Nothing}
  /\ usingFallback \in BOOLEAN
  /\ failures \in Nat /\ delay \in InitialDelay..MaxDelay /\ age \in 0..MaxDelay
  /\ pc \in [Tasks -> {"idle", "ping", "command", "closing"}]
  /\ closes \in 0..MaxCloses /\ disrupted \in BOOLEAN /\ nullUse \in BOOLEAN

Init ==
  /\ fallbackAllowed \in BOOLEAN /\ up \in BOOLEAN
  /\ initialized = FALSE /\ client = Nothing
  /\ memory = Nothing /\ usingFallback = FALSE
  /\ failures = 0 /\ delay = InitialDelay /\ age = MaxDelay
  /\ pc = [t \in Tasks |-> "idle"]
  /\ closes = 0 /\ disrupted = FALSE /\ nullUse = FALSE

-----------------------------------------------------------------------------
(* Helpers *)

At(t, step) == pc[t] = step
Goto(t, step) == pc' = [pc EXCEPT ![t] = step]

Attempting == {t \in Tasks : pc[t] = "ping"}
Closing == {t \in Tasks : pc[t] = "closing"}

\* _should_attempt_connection()
ShouldAttempt == failures = 0 \/ age >= delay

\* _record_connection_success()
RecordSuccess == failures' = 0 /\ delay' = InitialDelay /\ age' = 0

\* Mutant: the delay is doubled and never capped.
RecordFailureUncapped ==
  failures' = failures + 1 /\ delay' = delay * BackoffFactor /\ age' = 0

\* Mutant: the delay does not grow with the failures.
RecordFailureFixedDelay ==
  failures' = failures + 1 /\ delay' = InitialDelay /\ age' = 0

\* _record_connection_failure()
RecordFailure ==
  /\ failures' = failures + 1
  /\ delay' = IF delay * BackoffFactor <= MaxDelay THEN delay * BackoffFactor
                                                   ELSE MaxDelay
  /\ age' = 0

UseFallback(t) == memory' = t /\ usingFallback' = TRUE

\* How the operation goes on when _ensure_connected() has returned: on the
\* in-memory cache it ends at once, on Redis it awaits a command, and with
\* neither it returns its default.
Proceed(t) ==
  IF (usingFallback' /\ memory' # Nothing) \/ client' = Nothing
    THEN Goto(t, "idle") ELSE Goto(t, "command")

-----------------------------------------------------------------------------
(* _ensure_connected() and the operation behind it *)

\* Already initialized: the operation proceeds with what there is.
CallInitialized(t) ==
  /\ At(t, "idle") /\ initialized
  /\ UNCHANGED <<env, initialized, backends, backoff, history>>
  /\ Proceed(t)

\* Mutant: a skipped attempt counts as an attempt.
CallBacksOffAnew(t) ==
  /\ At(t, "idle") /\ ~initialized /\ ~ShouldAttempt
  /\ IF fallbackAllowed /\ memory = Nothing
       THEN UseFallback(t) ELSE UNCHANGED <<memory, usingFallback>>
  /\ age' = 0
  /\ UNCHANGED <<env, initialized, client, failures, delay, history>>
  /\ Proceed(t)

\* In the backoff period: no attempt; the fallback is installed if allowed.
CallBacksOff(t) ==
  /\ At(t, "idle") /\ ~initialized /\ ~ShouldAttempt
  /\ IF fallbackAllowed /\ memory = Nothing
       THEN UseFallback(t) ELSE UNCHANGED <<memory, usingFallback>>
  /\ UNCHANGED <<env, initialized, client, backoff, history>>
  /\ Proceed(t)

\* Mutant: the early return on _initialized is missing.
CallAttemptsAnyway(t) ==
  /\ At(t, "idle") /\ ShouldAttempt
  /\ client' = t
  /\ disrupted' = (disrupted \/ Attempting # {})
  /\ Goto(t, "ping")
  /\ UNCHANGED <<env, initialized, memory, usingFallback, backoff, closes, nullUse>>

\* Creates the client and awaits its PING.
CallAttempts(t) ==
  /\ At(t, "idle") /\ ~initialized /\ ShouldAttempt
  /\ client' = t
  /\ disrupted' = (disrupted \/ Attempting # {})
  /\ Goto(t, "ping")
  /\ UNCHANGED <<env, initialized, memory, usingFallback, backoff, closes, nullUse>>

Call(t) == CallInitialized(t) \/ CallBacksOff(t) \/ CallAttempts(t)

\* The PING is answered.  The attribute is not read again: another task may
\* have replaced or dropped the client meanwhile.
PingSucceeds(t) ==
  /\ At(t, "ping") /\ up
  /\ initialized' = TRUE
  /\ RecordSuccess
  /\ UNCHANGED <<env, backends, history>>
  /\ Proceed(t)

\* Mutant: a failed attempt leaves its client behind.
PingFailsKeepsClient(t) ==
  /\ At(t, "ping") /\ ~up
  /\ RecordFailure
  /\ IF fallbackAllowed THEN UseFallback(t) ELSE UNCHANGED <<memory, usingFallback>>
  /\ initialized' = TRUE
  /\ UNCHANGED <<env, client, history>>
  /\ Proceed(t)

\* ConnectionError or TimeoutError; a ValueError or TypeError of the
\* configuration takes the same assignments.
PingFails(t) ==
  /\ At(t, "ping") /\ ~up
  /\ client' = Nothing
  /\ RecordFailure
  /\ IF fallbackAllowed THEN UseFallback(t) ELSE UNCHANGED <<memory, usingFallback>>
  /\ initialized' = TRUE
  /\ UNCHANGED <<env, history>>
  /\ Proceed(t)

\* Redis answers with another error (e.g. MISCONF): no handler catches it, the
\* exception leaves the operation and nothing is recorded.
PingRejected(t) ==
  /\ At(t, "ping") /\ up
  /\ Goto(t, "idle")
  /\ UNCHANGED <<env, initialized, backends, backoff, history>>

\* A command returns (or fails, which _execute_redis_operation turns into the
\* default), and the operation ends.
CommandEnds(t) ==
  /\ At(t, "command")
  /\ Goto(t, "idle")
  /\ UNCHANGED <<env, initialized, backends, backoff, history>>

\* delete_pattern() sends its next SCAN or DEL through the client attribute,
\* which may be gone by now: AttributeError.
NextCommand(t) ==
  /\ At(t, "command")
  /\ IF client = Nothing THEN nullUse' = TRUE /\ Goto(t, "idle")
                         ELSE UNCHANGED <<nullUse, pc>>
  /\ UNCHANGED <<env, initialized, backends, backoff, closes, disrupted>>

-----------------------------------------------------------------------------
(* close() *)

\* Mutant: close() forgets to leave fallback mode.
CloseStartsInFallback(t) ==
  /\ At(t, "idle") /\ closes < MaxCloses
  /\ closes' = closes + 1
  /\ disrupted' = (disrupted \/ Attempting # {})
  /\ memory' = Nothing
  /\ IF client # Nothing THEN Goto(t, "closing") /\ UNCHANGED initialized
                         ELSE initialized' = FALSE /\ UNCHANGED pc
  /\ UNCHANGED <<env, client, usingFallback, backoff, nullUse>>

\* Clears the in-memory cache; without a client that is all.
CloseStarts(t) ==
  /\ At(t, "idle") /\ closes < MaxCloses
  /\ closes' = closes + 1
  /\ disrupted' = (disrupted \/ Attempting # {})
  /\ IF memory # Nothing THEN memory' = Nothing /\ usingFallback' = FALSE
                         ELSE UNCHANGED <<memory, usingFallback>>
  /\ IF client # Nothing THEN Goto(t, "closing") /\ UNCHANGED initialized
                         ELSE initialized' = FALSE /\ UNCHANGED pc
  /\ UNCHANGED <<env, client, backoff, nullUse>>

\* The client is closed (or closing it failed with a handled error).
CloseEnds(t) ==
  /\ At(t, "closing")
  /\ client' = Nothing /\ initialized' = FALSE
  /\ disrupted' = (disrupted \/ Attempting # {})
  /\ Goto(t, "idle")
  /\ UNCHANGED <<env, memory, usingFallback, backoff, closes, nullUse>>

\* An unhandled error or a cancellation: only the finally clause runs.
CloseInterrupted(t) ==
  /\ At(t, "closing")
  /\ client' = Nothing
  /\ disrupted' = TRUE
  /\ Goto(t, "idle")
  /\ UNCHANGED <<env, initialized, memory, usingFallback, backoff, closes, nullUse>>

-----------------------------------------------------------------------------
(* Environment *)

RedisGoesDown == up /\ up' = FALSE /\ UNCHANGED <<fallbackAllowed, initialized, backends, backoff, pc, history>>
RedisComesUp == ~up /\ up' = TRUE /\ UNCHANGED <<fallbackAllowed, initialized, backends, backoff, pc, history>>

Tick ==
  /\ age < MaxDelay /\ age' = age + 1
  /\ UNCHANGED <<env, initialized, backends, failures, delay, pc, history>>

Next ==
  \/ \E t \in Tasks :
       \/ CallInitialized(t) \/ CallBacksOff(t) \/ CallAttempts(t)
       \/ PingSucceeds(t) \/ PingFails(t) \/ PingRejected(t)
       \/ CommandEnds(t) \/ NextCommand(t)
       \/ CloseStarts(t) \/ CloseEnds(t) \/ CloseInterrupted(t)
  \/ RedisGoesDown \/ RedisComesUp \/ Tick

Spec == Init /\ [][Next]_vars

\* Tasks keep calling, sockets have time-outs of 5 s so every await ends, Redis
\* does not answer every PING with an error, and time passes.
FairSpec ==
  /\ Spec
  /\ \A t \in Tasks :
       /\ WF_vars(Call(t))
       /\ SF_vars(PingSucceeds(t) \/ PingFails(t))
       /\ SF_vars(CommandEnds(t))
       /\ WF_vars(CloseEnds(t))
  /\ WF_vars(Tick)

-----------------------------------------------------------------------------
(* Properties *)

\* BackoffFactor^n, as a recursive function, which lemmas can be stated about.
Growth[n \in Nat] == IF n = 0 THEN 1 ELSE Growth[n - 1] * BackoffFactor

\* The delay before the next attempt is the one the number of failures in a row
\* calls for, InitialDelay * BackoffFactor^failures capped at MaxDelay, also when
\* attempts overlap or the service was closed in between.
DelayFollowsFailures ==
  LET exact == InitialDelay * Growth[failures]
  IN delay = IF exact <= MaxDelay THEN exact ELSE MaxDelay

\* _using_fallback tells whether there is an in-memory cache, which the
\* environment must allow: execute_lua_script() tests the flag alone, the other
\* operations test both.
FallbackCoherent ==
  /\ usingFallback <=> memory # Nothing
  /\ usingFallback => fallbackAllowed

\* A service that has connected has a client, and one that has failed to has
\* none, unless attempts overlapped or a close() got in between: the task that
\* creates a client, the one that drops it and the one that records the
\* outcome need not be the same.
OutcomeMatchesClient ==
  initialized /\ ~disrupted => (client # Nothing <=> failures = 0)

\* No operation loses its client half-way unless the service was closed or
\* attempts overlapped (delete_pattern() reads the attribute for every command).
ClientHeldThroughout == nullUse => closes > 0 \/ disrupted

\* Once the service is initialized and no attempt is in flight, its backend is
\* fixed until close(): no operation switches between Redis, memory and nothing.
BackendIsStable ==
  [][ initialized /\ Attempting = {} /\ Closing = {}
      => closes' > closes \/ UNCHANGED backends ]_vars

\* A service that is not initialized becomes so: the backoff ends.
BackoffEnds == ~initialized ~> initialized

\* The backoff is there to retry: if Redis stays up and the service stays in
\* use, operations reach Redis again.
Reconnects == <>[]up => []<>(client # Nothing)
=============================================================================
