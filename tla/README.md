# TLA+ verification of backend-prod-ready

`src/backend` is a FastAPI application template: a Redis cache with an in-memory
fallback, idempotent processing of webhooks on top of it, units of work on an
asynchronous SQLAlchemy session, admission control and time-outs in front, and
feature modules that use these. Its logic is in how coroutines of one process,
several worker processes and two servers (Redis, PostgreSQL) interleave, fail and
time out. This directory models that logic, checks it with TLC and proves the main
safety results with TLAPS. Where the code says what it promises, the promise is a
specification of its own (`OnceOnly`) and the detailed model is shown to keep it.

Paths below are relative to `src/backend/`.

## 1. The system

### Components

| Component (source) | State it keeps | Operations | Modelled in |
|---|---|---|---|
| Idempotency service (`core/infrastructure/idempotency/service.py`) | in Redis: per key a completed response (7 days) and an in-progress marker (5 minutes) | `check`, `store`, `clear_in_progress`, `invalidate`, `cleanup_stuck_in_progress` | `Idempotency` |
| Cache service (`core/infrastructure/cache/service.py`) | client, in-memory fallback, `_initialized`, `_using_fallback`, retry state | `connect`, `get`/`set`/`setnx`/`delete`/`delete_pattern`/`ping`/`execute_lua_script`, `close` | `CacheConnection` (connection), `Idempotency` (data) |
| In-memory cache (same file) | dictionary with expiry times, in order of insertion | the same operations, eviction | `InMemoryCache` |
| Unit of work (`core/infrastructure/database/uow.py`) | session, `_timeout_occurred`, ownership, `auto_commit` | `async with`, sharing a session, `commit`, `rollback`, `flush`, `_cleanup` | `UnitOfWork`, `Repository` (its transaction) |
| Time-outs (`core/security/timeout.py`) | the flag of the unit of work | `timeout`, `timeout_uow_aware` | `UnitOfWork`, `Repository` |
| Database adapter and sessions (`core/infrastructure/database/connection.py`, `session.py`) | an engine with 15 + 10 connections | lazy creation, `dispose`, `create_session` | `Lifespan`, `UnitOfWork` (bound and wait) |
| Repositories (`.../repositories/base.py`, `utils.py`) | rows, in the transaction of a session | selects with and without locks, pages, inserts, updates, upserts, deletes, bulk, `update_from_domain` | `Repository`, `Pagination` |
| Errors (`.../error_handler.py`, `core/exceptions`, `core/domain/exceptions.py`) | none | translation of driver errors, HTTP status | `ErrorResponses` |
| Circuit breakers (`core/security/circuit_breaker.py`) | factories, the breaker of the repositories and that of the Redis cache | `get_factory`, the breaker's context | `CircuitBreaker` |
| Request middleware (`core/api/middleware`, `features/main.py`) | semaphore, counters | admission, request time-out, request id | `RequestPipeline` |
| Feature flags (`core/infrastructure/feature_flags.py`) | cache entries with or without TTL | `is_enabled`, `set_flag`, `clear_flag`, `get_all_flags` | `FeatureFlags` |
| Lifespan (`features/main.py`, `core/infrastructure/container.py`) | the started resources | startup with retries, shutdown with time-outs | `Lifespan` |
| Health (`features/system`) | none | the readiness probe | `Lifespan` |
| Settings (`core/conf/settings.py`) | what a deployment configures | the validators of production | `Settings` |
| Admin authentication (`core/infrastructure/admin`) | signed sessions in cookies | `login`, `authenticate`, `logout` | `AdminPanel` |
| Trusted proxies, rate limiting (`core/security/proxy_validation.py`, `rate_limiting.py`) | none | the address and the key of a request | `ClientAddress` |
| Identity kit, DBOS, AI generation | in external packages | steps of start and shutdown; exceptions | `Lifespan`, `ErrorResponses` (as far as the code here depends on them) |
| Logging, tracing, metrics, migrations, scripts, schemas, deployment files | none that the logic reads | - | not modelled |

### How they interact

A request passes admission control and the request time-out into a handler. The
handler may ask the idempotency service whether its key is new; that service calls
the cache service, which connects to Redis once, at start-up, and falls back to
its dictionary in development environments. The handler then enters a unit of
work, which creates a session that takes a pooled connection at its first query,
and commits when the block ends. Each of these steps is awaited: any other
coroutine may run in between, and each await may fail, time out or be cancelled.

### What is hard

- **Idempotency.** Workers are processes on one Redis. A marker that names no
  owner expires while its holder is at work, replies are lost, senders deliver
  again, operators delete what they take for stuck. *Correct:* work is repeated only
  for a reason that can be named, nobody is told "done" before it is done, a cached
  response does not change, and no marker blocks a key for good.
- **Connecting the cache.** Several tasks find the service not initialized and
  attempt to connect together; one fails late, one closes. *Correct:* every
  operation finds the backend that the recorded outcome says, and the backend is
  stable while in use; the backoff ends and leads to a retry.
- **Unit of work.** A block can be left at any await by an error, a time-out or a
  cancellation, and a body may catch what the database raises and go on in a transaction
  that is lost. *Correct:* all or nothing; success means durable, except for such a body;
  sessions are closed and connections come back; every block ends.
- **Requests.** The time-out answers for a handler that goes on; slots and
  connections are different pools. *Correct:* one answer per request, slots are
  conserved, the limit limits.
- **Rows.** Units read, lock, flush and write rows in any order, through one breaker
  and one time-out per call. *Correct:* an update is lost only by who did not read
  under a lock, a failed statement takes its unit with it, a client is told to come
  back only if that may help, no call waits for ever.
- **Flags.** Each worker has the store its first connection left it with; stores
  expire, evict, fail and come back. *Correct:* a kill switch answers what was asked
  for last as long as its store can be read, and reads recover.
- **A worker's life.** Retries, a kit that fails to start, shielded closes that
  outlive their time-outs, handlers that outlive everything. *Correct:* starting and
  stopping end, what stays open has a cause, a probe is answered and never says
  unready for no reason, and only who may passes the admin panel.

## 2. What is here

| Module | Models | Checked by | Proved in |
|---|---|---|---|
| `Idempotency` | the service, its callers, Redis, operators | `MCIdempotency` with three configurations | `IdempotencyProofs` |
| `OnceOnly` | the abstract service: permission, work, answer, voided protection | as a property of `Idempotency` | `IdempotencyRefinement` |
| `CacheConnection` | `_ensure_connected`, backoff, fallback, `close` | `MCCacheConnection` with two configurations | `CacheConnectionProofs` |
| `UnitOfWork` | a unit's block, nested units, commit, clean-up, the pool | `MCUnitOfWork` with two configurations | `UnitOfWorkProofs` |
| `RequestPipeline` | admission control, the request time-out, the handler's task | `MCRequestPipeline` with two configurations | `RequestPipelineProofs` |
| `Repository` with `CircuitBreaker`, `ErrorResponses`, `Pagination` | units that call repository methods on the same rows | `MCRepository` | `RepositoryProofs` |
| `FeatureFlags` with `InMemoryCache`, `CircuitBreaker` | flags of several workers and their stores | `MCFeatureFlags` | `FeatureFlagsProofs` |
| `Process` = `Lifespan` + `AdminPanel`, on `Settings`, `ClientAddress` | a worker from its settings to its end, its probe, the admin panel beside other workers | `MCProcess` | `ProcessProofs` |

`CircuitBreaker`, `InMemoryCache`, `ErrorResponses`, `Pagination`, `ClientAddress` and
`Settings` have no variables: they are operators over a state that the module which
extends them keeps, so that the breaker of the repositories and that of the cache
are the same definitions, with a state of their own. `InMemoryCache` selects the entries it
keeps by their places (`Kept`) and not with `SelectSeq`, and `CacheConnection` raises to a power by
a recursive function: the theorems of section 4 need definitions that lemmas can be stated about.

### Idempotency

State: `marker[k]` is the in-progress key (who set it is a history value, the code
stores `'1'`), `completed[k]` the cached response; `pc` and `job` say at which await a worker
is and for which key. `check()` is one step where the code is atomic (the Lua
script; the in-memory cache, whose operations never suspend) and one step per
Redis command where it is not. `store`, `invalidate` and
`cleanup_stuck_in_progress` are one step per `delete` or `set`. What a failed command
does is what the code makes of it: `get` answers a miss, `setnx` answers
"in progress", `set` is ignored, a lost Lua reply leads to `ping` and the
non-atomic path. Faults are drawn from the set `Faults` and their number is
bounded by `MaxFaults`. The history variables `effects`, `acked` and `disturbed`
count the work done, the answers given, and the events that void a key's
protection: a marker that expires under its holder or is deleted by someone else,
a result that is not stored, expires or is invalidated, a check that loses the
atomic path, a worker that dies between its work and its response.

| Property | What would break it |
|---|---|
| `RepetitionsAccountedFor` | work repeated without such an event, or more than once per event |
| `MutualExclusion` | two workers between NEW and stored response of an undisturbed key |
| `AckedWorkWasDone` | a duplicate or success answer for work never done |
| `ResponseIsStable` | a cached response replaced or dropped without an event |
| `EveryKeyAnswered` | a marker or a lost reply that blocks a key for good |
| `ImplementsOnceOnly` | a step that permits work not yet paid for, or tells of work never done |
| `ExactlyOnce` (violated) | - |

`ExactlyOnce` is what the docstring promises; TLC shows a worker that outlives
the 300 s TTL, which nothing renews. `RepetitionsAccountedFor` is the promise the
code keeps.

`OnceOnly` states that promise without markers, results, workers and awaits: per key,
how many may do the work now, how often it was done, whether the sender was told,
and how often its protection was voided. A permission is given only if what is
permitted and done does not exceed what was voided. `Idempotency` implements it
with `permitted` as the number of workers that were told NEW, `done` as `effects`,
`told` as `acked` and `voided` as `disturbed`. The check with its Lua script is a
`Permit`, a `Tell` or a stutter; a worker that dies may void the protection of its key
in the same step; a fallback dictionary that is lost with its process is an
`Outage` of all keys.

### CacheConnection

State: the service's attributes, with the task that created the client or the
dictionary in place of the object. A task is at most at one await: the PING of its
connection attempt, a command, or the awaits of `close()`. Everything between
two awaits is one step. `delay` and `age` count in units of `INITIAL_RETRY_DELAY`.

| Property | What would break it |
|---|---|
| `DelayFollowsFailures` | overlapping attempts or `close()` that lose or double a delay |
| `FallbackCoherent` | `_using_fallback` and the dictionary disagreeing (`execute_lua_script` tests one, the rest both) |
| `OutcomeMatchesClient` | a service marked connected without a client, or failed with one |
| `ClientHeldThroughout` | `delete_pattern` finding `None` where its client was |
| `BackendIsStable` | an operation switching between Redis, dictionary and nothing |
| `BackoffEnds` | callers in the backoff period pushing the next attempt away |
| `Reconnects` (violated) | - |

`OutcomeMatchesClient` and `ClientHeldThroughout` hold with a condition:
`disrupted`, which records that attempts overlapped or that a `close()` overlapped or was
interrupted. Without it they fail: a late failure drops the client another task
has just connected. `Reconnects` is what a backoff is for; a failed attempt
sets `_initialized`, so there is no second attempt.

### UnitOfWork

State: per unit, the await it is at, `_timeout_occurred`, what its body raised, what
it leaves the block with, and its transaction as the database has it; the unit nested
in its body, if there is one; the
connections held, and the shielded closes that outlive their block. A COMMIT
whose answer is lost may have been executed. External, from how the code uses
them: the session takes a connection at its first query, gives it back at the end
of a transaction, undoes what is not committed; `asyncio.shield` lets a close go on.

A guest is a unit on the session of the unit around it. One made by
`configure_for_shared_session` never ends the transaction; one constructed with the
session does not own it, but keeps `auto_commit` and commits the whole session when its block
ends, as does a body that calls `commit()`. `early` records units of which something was committed that neither asked for.

What the database raises (a failed statement, a time-out, a failed `flush` or early `commit`)
reaches the body, or that of its guest, which raises it again or goes on: `raised` is then
`"caught"`, and the transaction `"aborted"` (PostgreSQL refuses all but its end) or `"invalid"`
(the session refuses all but `rollback()`). A COMMIT of an aborted transaction is a rollback
that is no error (uow.py:201 and 265). `BodyRollsBack` is how a body can recover.

| Property | What would break it |
|---|---|
| `DurableOnlyIfEnded` | a block that raised having committed; a guest that shares by configuration committing half of its host's work |
| `OkIsDurable` | a block left without an exception whose writes are not committed, although the database raised nothing its body caught and passed over |
| `UnclosedOnlyIfCancelledAsleep` | a session left open other than by a cancellation in the clean-up delay |
| `EveryBlockEnds` | an await nothing bounds, e.g. for a connection that never comes back |
| `TimeoutIsMarked` (violated) | - |

`__aexit__` imports a name that does not exist, so an exception in the block
reaches neither the flag nor the rollback. All or nothing still holds, because
closing the session undoes the transaction. The flag is now set only by a time-out of
`commit`, `flush` or the rollback in `commit`. In a guest the same import turns every exception, a
cancellation included, into an `ImportError` that the body around it may catch.

### RequestPipeline

State: the semaphore and the two counters of `AdmissionControlMiddleware`; per
request, where its admission dispatch is, what the time-out dispatch inside it
has returned, and the task of the handler, which the middleware's `call_next` waits for but
does not own. External, Starlette 0.50 (`uv.lock`): the middleware added last is the
outermost, so admission control is around the time-out, contrary to the comment in
`_configure_middleware`; `BaseHTTPMiddleware` runs what is inside it in a task of a
task group, which is not cancelled when a dispatch returns without waiting for it.
`RequestIdMiddleware` and CORS pass everything on and are part of the handler. `Cancelled` is the
server's shutdown.

| Property | What would break it |
|---|---|
| `SlotsConserved` | a slot lost or given back twice on some way out of a dispatch |
| `UnansweredWithinLimit` | more clients waiting for handlers than the limit admits |
| `CapacityReturns` | a hanging, failing or cancelled handler that takes its slot for good |
| `EveryRequestAnswered` | a client that hangs with its handler |
| `TimedOutIsCancelled` (violated) | - |

The handlers that *run* are not limited: each one that outlives its 504 has given
its slot back. This is what `TimedOutIsCancelled` refutes, and why admission control
alone does not protect the connection pool.

### Repository

State: per row the committed version (named by the unit that wrote it) and the
holder of its lock; per unit the version its copy of each row was loaded from, what
its session is to do or has done to each row, the call it is in with the rows the
statement has still to visit, the state of its transaction; the breaker. A method is
one step that enters the breaker (`Call`), one step per row (`Reads`, `ReadsLocked`,
`Merges`, `Flushes`, `Executes`, ...), and its return or failure. Methods that do the same to rows
are one action: every unlocked select is `Select`, the statements of `run_update_stmt`,
`upsert_one_core` and their like are `Statement`. What a failed method raises goes through
`TimedOut` and `HandleException` as it goes through the decorators; what leaves the block is
answered by `Responses`. The body may also catch it and go on: then the transaction is
`aborted` (by the database) or `invalid` (by the session, after a failed flush).

| Property | What would break it |
|---|---|
| `LostOnlyIfReadUnlocked` | an overwritten change of a row that was read under its lock |
| `AllOrNothing` | a unit with a failed statement that commits; success answered for a unit that is not durable, other than to a body that caught an error |
| `AnswersMatchCauses` | 408 or 503 for what will fail again, another status for a COMMIT or a bare method without connection or time, 4xx for what is not the client's fault |
| `PagesCoverListing` | a page lost or repeated; the two ways to tell a next page disagreeing |
| `EveryCallReturns` | units that wait for each other's locks, or for a breaker, for ever |

What these show of the code: `update_from_domain` locks when it writes, which does not protect
an object that was read before, and a locking select does not refresh an entity that
the session has; PostgreSQL turns the COMMIT of an aborted transaction into a rollback
that nobody is told of. What leaves the *body* of a unit of work becomes an `ImportError`
(see `UnitOfWork`), answered 500. The COMMIT of its exit meets no pending exception and is decorated
with the error handler inside the time-out (uow.py:257): it is answered 408 for
`TRANSACTION_TIMEOUT` or a wait for the pool in vain, 503 if the server cannot be reached.
On a bare session it is the other way round: methods are translated, `commit()` is not.
An open breaker (purgatory's `OpenedState` is none of the classes the error handler
knows), too many connections, a busy lock and a connection lost with an `InterfaceError` are
answered 500 everywhere.

### FeatureFlags

State: Redis with a value and a life per flag; per worker its store (`mode`), its
dictionary as a sequence of entries in the order of insertion, its Redis breaker and the
call it is suspended in; `asked`, what was asked for last of each flag and the store
that owes it. `set_flag` and `clear_flag` on Redis are two steps with the breaker around
them; on the dictionary, which never suspends, one. A write that fails may have been
executed. `Restarts` connects anew, to what is there then.

| Property | What would break it |
|---|---|
| `KillSwitchHolds` | a critical flag that expires, a cleared one that stays, a set of another key that drops a flag nobody evicted |
| `GrowsOnlyByMarkers` | a set that does not keep the dictionary within `max_size` |
| `ReadsRecover` | a breaker that stays open after Redis is back |

`KillSwitchHolds` says no more than what is owed: a flag set at a worker without Redis is
not owed by other workers, a failed write is owed by nobody although `set_flag` logs it, and
an evicted flag reads as its default. These are the exceptions the property names.
`get_all_flags` and `is_maintenance_mode` have different defaults for the same flag:
`Defaults` keeps both.

### Process

`Lifespan` has `phase` (where `lifespan()` is), the attempt of the database retry, what
PostgreSQL and Redis do, the current engine and whether the adapter is initialized, the open
connections per engine, what each handler holds, the cache's client, the probe, and
the two shielded steps of `shutdown_infrastructure` (`rd`, `pg`), each of which may close,
fail, or be late and close after the process is said to be down. A handler that asks for
the engine after `dispose` creates a second one; the kit and the panel keep the
session factory of the first. A connection a handler uses at `dispose` is detached from its
engine: it leaves the count of open ones and is closed by its handler. `AdminPanel` has the browser's
cookie, by the worker that signed it, and as histories the workers of the last login and of the
last logout since. `Process` composes them: a restart of the worker is one of the panel's signer.
`Settings` decides which configurations get past `Loads`.

| Property | What would break it |
|---|---|
| `UnreadyHasExcuse` | 503 because of the cache, or for a database that answered all along |
| `LeftOpenHasCause` | a shutdown that forgets a resource, also after a start that failed half-way |
| `AdminsPass` | a session that passes after a logout at a worker that can read it, at a wrong address or by the password alone where MFA is enabled; one that stops passing; an address taken from a hop nobody vouches for |
| `PhasesEnd` | a retry, a start-up step or a close that nothing bounds |
| `ProbesEnd` | a wait for a connection without end |

`AdminsPass` leaves two things of the code as they are. No code ever verifies MFA
(auth_backend.py:220 calls it not implemented), so where it is enabled, as it must be in production, nobody
passes at all; the property asks that the password alone does not. Without a shared secret a logout that
reaches another worker than that of the login ends nothing; the property says where the session
may go on then. `ClientAddress` is checked against `VouchedFor`, which follows the hops from the peer and
says nothing of how the code walks. On a chain such as `<<office, stranger>>` from a
trusted peer the client is the stranger, the last hop nobody vouches for: so say the code, its tests, the comment at
proxy_validation.py:143 and line 111. rate_limiting.py:23 ("takes first IP") and
proxy_validation.py:112 ("the first IP is the client") say the opposite, and are wrong.

## 3. Runs

| Run | Instance | States | Result |
|---|---|---|---|
| `idempotency` | 3 workers (symmetric), 1 key, 3 faults | 55,146 | six properties hold, the refinement among them |
| `idempotency_live` | 2 workers, 2 keys, 2 faults, fairness | 218,000 | `EveryKeyAnswered` holds |
| `idempotency_once` | 2 workers, 1 key, one slow worker | - | `ExactlyOnce` violated |
| `cache_connection` | 3 tasks, delay 1 to 3, 2 closes | 61,522 | seven properties hold |
| `cache_reconnect` | 2 tasks, no close | - | `Reconnects` violated |
| `unit_of_work` | 2 units, one of which nests guests and commits early, 1 connection, 2 cancellations | 535,741 | five properties hold |
| `unit_of_work_timeout` | 1 unit | - | `TimeoutIsMarked` violated |
| `request_pipeline` | 2 requests and a health check, limit 1 | 150,757 | five properties hold |
| `request_timeout` | 1 request | - | `TimedOutIsCancelled` violated |
| `repository` | 2 units, one of them managed, 2 rows, 3 calls, breaker at 2 failures | 258,167 | six properties hold |
| `feature_flags` | 2 workers, a critical flag and another one, another key, 3 writes, room for 2 entries | 627,176 | four properties hold |
| `process` | 1 handler, 1 connection, 2 attempts, 5 configurations, 16 kinds of request | 305,586 | six properties hold |

**Bounds.** Keys meet only where one worker serves both and in a clean-up, which
the run with two keys has; the others need one. Two workers make every race of the service (one
holds, one intrudes) and a third one can profit from the second one's deletion.
Three faults give every combination of three events that each void a protection
or lose a command; without faults the service is deterministic enough that more
of them repeat the same patterns. For the connection, two tasks overlap and a third one
uses what they leave; delays 1, 2, 3 contain a doubling and a doubling cut by
the cap, as 1, 2, ..., 32, 60 do. Two units and one connection are a pool at its limit
with a waiter; two cancellations hit a commit and a clean-up. Two requests and
limit 1 are a server at its limit; the health check passes it. Three calls of two
units on two rows contain a read, a concurrent write and a write back; two locks taken in
opposite orders; a failure, a second one that opens the breaker, and a call it refuses. The
tables of `ErrorResponses` are complete, and pages are checked for listings of up
to five rows and pages of up to three. A dictionary for two entries is full with one flag and one
other key; three writes fill it, evict from it and overflow it by `setnx`. One handler and one connection are an
exhausted pool for the probe and a connection in use at `dispose`; two attempts are a
first one that is retried and a last one (the code has three); the chains of addresses have each kind of hop alone and the pairs whose order matters. The theorems of
section 4 need none of these bounds.

**Fairness.** A coroutine that can go on does (weak fairness of its steps): the
event loop is fair and every await has a time-out (5 s for Redis sockets;
`TIMEOUTS` in `core/conf/settings.py` for the database). `EveryKeyAnswered` also assumes
that markers reach their TTL and that senders deliver again what was not answered
(strong fairness of `Deliver`: webhook senders retry). `BackoffEnds` assumes that
tasks keep calling, that time passes and that Redis does not answer every PING
with an error (strong fairness of success or failure). `EveryBlockEnds` assumes that
what a block awaits ends or times out, and that a body makes a finite number of queries, guests and commits
(strong fairness of its end); nothing of shielded closes. `RequestPipeline` assumes that dispatches go on and that
`REQUEST_TIMEOUT` passes, and nothing of handlers. `EveryCallReturns` assumes that statements proceed, that `REPOSITORY_TIMEOUT`
passes and that bodies end. `ReadsRecover` assumes that requests keep asking for flags, that
a socket's time-out passes and that the time to live of a breaker elapses. `PhasesEnd` and
`ProbesEnd` assume fairness of the process's own steps and nothing of a database that
stalls: the SET statements of the start and the probe's SELECT have no time-out, which is
why both properties are about databases that do not stall for good. Nothing is assumed of crashes,
cancellations, closes by others, operators, handlers or the garbage collector.
Deadlock is checked in every run: where the system may finish, it stutters in `AllDone`.

## 4. Theorems

All theorems are for every value of the constants within the named assumptions
(finite sets of workers, keys, tasks, units, rows and handlers; natural bounds; pages of at
least one entry, as `PaginationParams` has it; a dictionary with room for the share it evicts;
proxies that are addresses). Every invariant and every action property of section 3 is stated by a
theorem.

**Idempotency.** `WorkIsPaidFor` is the heart of it: for each key, the workers that
are processing it, the workers that passed a failed Lua script, and the work done
are together at most the disturbances plus one if the key is protected (a live marker or a
cached response). `RepetitionsAccountedFor` alone is not inductive: it says nothing
of work under way. `ResultsComeFromWork` relates workers about to store and
stored responses to the work done; `UnmarkFollowsWork` says the same of the last
step. The proof counts: one lemma (`Counts`) says how moving one worker changes the
sizes of the three sets of workers, one (`WorkerBooks`) reduces a step to
an inequality per key, and each action proves that inequality. `OneHolder` and
`StableResponse` follow from the sums: two holders of a key with no disturbance would need two protections.
`ExactlyOnceUndisturbed` (in `IdempotencyRefinement`) is what remains of `ExactlyOnce`: a key whose sender was
answered and whose protection nothing voided was processed exactly once.

**Refinement** (`IdempotencyRefinement`). `KeepsItsPromise` shows `Spec => ImplementsOnceOnly`: initial
states map to initial states, and each step maps to `Once!Next` or a stutter. A step is about one
key: `AtKey` collects what the step does to that key's permission, work, answer and
voidings, and `KeyStepMaps` turns such facts into a step of `OnceOnly` with all other keys
unchanged. The guard of `Permit` is where the invariant is needed: `WorkIsPaidFor` says
that a worker which is told NEW is paid for. `PromiseSuffices` goes the other way: `OnceOnly`
by itself, without the worker, marker and cache of the detailed model, entails `RepetitionsAccountedFor` and
`AckedWorkWasDone`, so the abstract specification says no less than the properties do.

**CacheConnection.** The invariant adds `AttemptOwnsClient` (while a single
attempt is in flight, the client is its own) and `SettledUntilClosed` (initialized
stays so until a close) to the four state properties; types split into flags and ranges so that
the arithmetic of the delay is separate from the rest. `DelaysFollowFailures` is an induction of its
own: `Growth` exists as a recursive function (`GrowthDefined`: its parts up to
each number exist and agree), grows with its argument, and a delay once cut at `MaxDelay` stays
there.

**UnitOfWork.** The invariant adds `Stages` (what holds at each await: a unit at its commit
has met nothing its body did not catch and is to commit, a transaction is aborted or invalid only if the body was told, one
asleep is flagged, ...) and
`OkIsDurableEarly` (the outcome "ok" is right from the moment it is set and not
only at the end). The pool's bound is part of `TypeOK`; `PoolBound` says how taking and
giving back one connection changes their number.

**RequestPipeline.** The sums are inductive once `Stages` says that a request is answered
exactly when its dispatch has returned: each step moves at most one request into or
out of `Admitted` (`OneRequest`, `Returned`), and the others move none (`Undispatched`). The limit
follows because an unanswered running handler belongs to an admitted request.

**Repository.** `LockedReadsLoseNothing` needs that a row whose copy is safe is locked by its reader
and still is the version that was read, and that only a lock's owner commits a row.
`UnitsAreAllOrNothing` needs that a unit with a failed statement never reaches `commit`,
and that no exception is answered with 200 (`ErrorsAreErrors`). The tables of `ErrorResponses` are recursive
functions (`Ancestors`, `StatusOfService`), so a lemma shows for each that a function with its
equation exists, before the equation is used; then the status of each class is computed, and `AnswersOfMethods`
follows it from what a method meets to what the client is told. `AnswersHaveCauses` adds to that what the
calls before the failure did and what the COMMIT of a unit is answered with
(`AnswersOfCommits`, `CommitAnswers`). `LocksEndWithUnits` is the part of `EveryCallReturns` that is
no liveness: a lock's holder has an open transaction, so whoever waits for a row waits for a
unit that still has to end. `WritesNeedLocks` says that the version of a row changes only in
the commit of its holder. `PagesCover` is arithmetic: division by the page size (`Division`,
`LastPage`, `Windows`), counting of the entries (`NumbersCounted`), and joining the pages (`FlattenSeq`'s
recursive function, `Concatenation`), for a table and pages of any size.

**FeatureFlags.** `KillSwitchHolds` alone is not inductive: it is about stores that can be read now, and
says nothing of a Redis that is down, a breaker that is open or the life of an entry. `Debt` says
the same of the store itself: who owes a flag has it, or has nothing if it was cleared, and
has it with a time to live only if it was set with one. `Calls` says that a worker with a
dictionary is never suspended in a Redis call. A step of one worker leaves the debts of the
others alone (`DebtKept`), and each of its writes settles one debt. Below that, lemmas say what a
dictionary contains after each of its methods, from `PlacesAreCounted` (the places that are
kept have numbers without gaps). `CacheIsMap` collects these: each method finds what a map with times to live
would, except that `set()` evicts, and then only from the oldest share of a full
dictionary without expired entries.

**Process.** `LifeInv` is the type invariant, split into flags and pools (`TypesByKind`), with
`Order` (what is closed in which phase, what was opened again, which engine can have
connections) and `Excuses` (a probe that can only become 503 has its excuse already).
`LeftOpenHasCause` alone is not inductive: it says nothing of engines before the end.
Cardinalities of handlers that hold a connection change by one (`HandlerMoves`, `NothingHeld`).
`OnlyAdminsPass` joins two arguments: `SessionInv` about cookies, logins and logouts, and
`ClientIsVouchedFor`, which shows for chains of any length that the address the walk from right
to left finds is one the trusted proxies vouch for; the last untrusted hop exists because `<` on
the naturals is well-founded.

**Only model-checked:** the liveness properties (`EveryKeyAnswered`,
`BackoffEnds`, `EveryBlockEnds`, `CapacityReturns`, `EveryRequestAnswered`, `EveryCallReturns`,
`ReadsRecover`, `PhasesEnd`, `ProbesEnd`): the prover handles neither fairness nor ENABLED. The
four properties that are violated are refuted by the runs of section 3 and have no proof.

## 5. What is left out

- Redis and PostgreSQL beyond what the code relies on: no replication, no failover,
  no isolation level but READ COMMITTED.
- The data: keys, responses and the columns of rows are model values. `update_from_domain`
  skips values that are `None`; a model of rows by version does not see that.
- Bodies, headers and wording of responses: the middleware that is added last is the outermost,
  so rejected and timed-out requests carry no correlation ID, which is about a header.
- In `UnitOfWork`: guests that run concurrently with their host (the class hands the shared lock to its
  callers and never takes it); a body that catches its own cancellation.
- In `CacheConnection`: `__aexit__` of the cache service, which nobody uses.
- In `Repository`: `PagesCoverListing` does not compare the number of pages, which for an empty listing
  is 1 in base.py:279 and 0 in `PaginationMeta.create`. The count and the page of `paginated_select_with_metadata` are two statements at
  READ COMMITTED; `Pagination` is about one state of the table. Database time-outs set on one
  pooled connection at start-up are not followed.
- `observable_circuit_breaker`, which has no caller, and the registry's jitter, which only varies a time.
- The sync engine, migrations, scripts, logging, tracing, metrics and profiling: no state the
  logic reads. The AI generation feature simulates its latency and keeps its quotas in an external kit.
- Clocks: a TTL is an event that can happen, not a number; the backoff is the
  exception because its numbers are the property.

## 6. Plan

What remains, in the order of its worth.

1. `InMemoryCache` in place of the fallback dictionary of `Idempotency`. By `CacheIsMap` the dictionary is
   a map that forgets by eviction, and an eviction has the effect of an early expiry (`MarkerExpiresEarly`,
   `ResultExpires`), which `Idempotency` has; a composition would state this as a refinement.
2. `RequestPipeline` with clients that send again after a 503 or 504, composed with
   `Idempotency`: what a retry next to a handler that is still running can do.
3. `Repository` with a pool (`UnitOfWork`) in place of `NotConnected`, so that an exhausted pool and
   held row locks meet in one model.
4. `CacheConnection` under `FeatureFlags`, in place of `Connected`, which takes its outcome as given.
