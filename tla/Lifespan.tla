------------------------------- MODULE Lifespan -------------------------------
(***************************************************************************)
(* A worker process from its settings to its end: create_app() and lifespan *)
(* (features/main.py), the infrastructure it opens and closes               *)
(* (core/infrastructure/container.py, database/connection.py, the client of  *)
(* cache/service.py), and the readiness probe that asks after it            *)
(* (features/system).                                                       *)
(*                                                                         *)
(* External: PostgreSQL, Redis, the identity kit, SQLAlchemy's pool, which   *)
(* disposed starts over empty and leaves connections in use to their users,  *)
(* and the handlers, some of which outlive their requests (RequestPipeline). *)
(***************************************************************************)
EXTENDS Settings, Naturals, FiniteSets

CONSTANTS Deployments,  \* the configurations considered
          Handlers,
          Pool,      \* pool_size + max_overflow
          Attempts   \* stop_after_attempt

ASSUME LifespanAssumption ==
  /\ Deployments \subseteq Configurations
  /\ IsFiniteSet(Handlers)
  /\ Pool \in Nat \ {0} /\ Attempts \in Nat \ {0}

VARIABLES settings,
          phase,        \* where lifespan() is
          attempt,      \* of _initialize_database()
          db,           \* what PostgreSQL does with connections and statements
          redisUp,
          engine,       \* the current engine: the first or one created since
          initialized,  \* PgAsyncSQLAlchemyAdapter._initialized
          open,         \* connections of each engine's pool
          handler,      \* what each handler holds
          connected,    \* CacheService._initialized
          client,       \* the Redis client is open
          probe,        \* a request to /ready
          rd, pg,       \* the two tasks of shutdown_infrastructure()
          reopened,     \* history: what was opened after it had been closed
          interrupted   \* history: the shutdown was cancelled

world == <<settings, db, redisUp>>
lifecycle == <<phase, attempt, rd, pg>>
pools == <<engine, initialized, open, handler>>
cache == <<connected, client>>
history == <<reopened, interrupted>>
vars == <<world, lifecycle, pools, cache, probe, history>>

Engines == {"first", "second"}
Starting == {"connecting", "waiting", "caching", "identifying"}
Stopping == {"stopping", "closing"}
Weather == {"answers", "refuses", "stalls"}
NoProbe == [db |-> "none", cache |-> "none", answer |-> 0, excuse |-> FALSE]

\* What handlers and the probe have checked out.
InUse(e) ==
  Cardinality({h \in Handlers : handler[h] = e})
    + (IF probe.db = "executing" /\ e = engine THEN 1 ELSE 0)
Exhausted(e) == InUse(e) = Pool

LifespanTypeOK ==
  /\ settings \in Deployments
  /\ phase \in {"loading", "refused", "serving", "over"} \cup Starting \cup Stopping
  /\ attempt \in 0..Attempts
  /\ db \in Weather \cup {"misnamed", "denies"} /\ redisUp \in BOOLEAN
  /\ engine \in Engines /\ initialized \in BOOLEAN
  /\ open \in [Engines -> 0..Pool]
  /\ handler \in [Handlers -> {"none", "running", "detached"} \cup Engines]
  /\ \A e \in Engines : InUse(e) <= open[e]
  /\ connected \in BOOLEAN /\ client \in BOOLEAN
  /\ probe \in [db : {"none", "waiting", "executing", "healthy", "unhealthy"},
                cache : {"none", "asking", "healthy", "unhealthy"},
                answer : {0, 200, 503}, excuse : BOOLEAN]
  /\ {rd, pg} \subseteq {"unstarted", "closing", "closed", "late", "failed"}
  /\ reopened \subseteq {"database", "redis"} /\ interrupted \in BOOLEAN

LifespanInit ==
  /\ settings \in Deployments
  /\ phase = "loading" /\ attempt = 0
  /\ db \in {"answers", "misnamed", "denies"} /\ redisUp = TRUE
  /\ engine = "first" /\ initialized = FALSE /\ open = [e \in Engines |-> 0]
  /\ handler = [h \in Handlers |-> "none"]
  /\ connected = FALSE /\ client = FALSE /\ probe = NoProbe
  /\ rd = "unstarted" /\ pg = "unstarted"
  /\ reopened = {} /\ interrupted = FALSE

-----------------------------------------------------------------------------
(* Start *)

\* Importing the module validates the settings and creates the application, whose
\* containers ask the adapter for its engine.
Loads ==
  /\ phase = "loading"
  /\ IF Rejected(settings)
     THEN phase' = "refused" /\ UNCHANGED <<attempt, initialized>>
     ELSE phase' = "connecting" /\ attempt' = 1 /\ initialized' = TRUE
  /\ UNCHANGED <<world, rd, pg, engine, open, handler, cache, probe, history>>

StartupGoes(to) ==
  /\ phase' = to
  /\ UNCHANGED <<world, rd, pg, engine, initialized, handler, probe, history>>

\* The SET statements are executed, and the connection goes back to the pool.
Connects ==
  /\ phase = "connecting" /\ db = "answers"
  /\ open' = [open EXCEPT ![engine] = 1]
  /\ StartupGoes("caching")
  /\ UNCHANGED <<attempt, cache>>

\* is_dns_resolution_error() knows the number macOS gives a name that does not
\* exist, and takes the one of Linux for a passing error.
Retryable == db # "denies"
Final == db \in {"misnamed", "denies"}

\* Mutant: tenacity.retry without its stop.
ConnectFailsForever ==
  /\ phase = "connecting" /\ db # "answers"
  /\ attempt' = attempt + 1
  /\ StartupGoes("waiting")
  /\ UNCHANGED <<open, cache>>

\* _should_retry_db_error() and the last attempt.
ConnectFails ==
  /\ phase = "connecting" /\ db # "answers"
  /\ \/ /\ Retryable /\ attempt < Attempts
        /\ attempt' = attempt + 1
        /\ StartupGoes("waiting")
     \/ /\ Final \/ attempt = Attempts
        /\ StartupGoes("stopping")
        /\ UNCHANGED attempt
  /\ UNCHANGED <<open, cache>>

WakesUp ==
  /\ phase = "waiting"
  /\ StartupGoes("connecting")
  /\ UNCHANGED <<attempt, open, cache>>

\* CacheService._ensure_connected() (CacheConnection).
CacheConnects ==
  /\ phase = "caching"
  /\ connected' = TRUE /\ client' = redisUp
  /\ StartupGoes("identifying")
  /\ UNCHANGED <<attempt, open>>

\* require_redis in production; the kit's startup has a time-out of its own.
KitStarts ==
  /\ phase = "identifying"
  /\ settings.env = "prod" => redisUp
  /\ StartupGoes("serving")
  /\ UNCHANGED <<attempt, open, cache>>

KitFails ==
  /\ phase = "identifying"
  /\ db # "answers" \/ (settings.env = "prod" /\ ~redisUp)
  /\ StartupGoes("stopping")
  /\ UNCHANGED <<attempt, open, cache>>

-----------------------------------------------------------------------------
(* Handlers *)

AtLeast(m, n) == IF m < n THEN n ELSE m

\* A probe that meets an exhausted pool or a database that does not answer may fail.
Excused(p, excuse) == [p EXCEPT !.excuse = @ \/ (p.db \in {"waiting", "executing"} /\ excuse)]

HandlerStarts(h) ==
  /\ phase = "serving" /\ handler[h] = "none"
  /\ handler' = [handler EXCEPT ![h] = "running"]
  /\ UNCHANGED <<world, lifecycle, engine, initialized, open, cache, probe, history>>

\* _ensure_initialized(): an adapter that was disposed of creates another engine.
EngineAsked == IF initialized THEN engine ELSE "second"

\* A connection is checked out, an idle one or a new one.
CheckedOut(h, e) ==
  /\ ~Exhausted(e) /\ db = "answers"
  /\ handler' = [handler EXCEPT ![h] = e]
  /\ open' = [open EXCEPT ![e] = AtLeast(@, InUse(e) + 1)]
  /\ reopened' = IF pg = "closed" THEN reopened \cup {"database"} ELSE reopened
  /\ probe' = Excused(probe, InUse(e) + 1 = Pool)
  /\ UNCHANGED <<world, lifecycle, cache, interrupted>>

\* SessionFactory.create_session()
HandlerConnects(h) ==
  /\ handler[h] = "running"
  /\ engine' = EngineAsked /\ initialized' = TRUE
  /\ CheckedOut(h, EngineAsked)

\* The session factory the kit and the admin panel were given is of the first engine.
KitConnects(h) ==
  /\ handler[h] = "running"
  /\ CheckedOut(h, "first")
  /\ UNCHANGED <<engine, initialized>>

HandlerReturns(h) ==
  /\ handler[h] \in Engines \cup {"detached"}
  /\ handler' = [handler EXCEPT ![h] = "running"]
  /\ UNCHANGED <<world, lifecycle, engine, initialized, open, cache, probe, history>>

HandlerEnds(h) ==
  /\ handler[h] = "running"
  /\ handler' = [handler EXCEPT ![h] = "none"]
  /\ UNCHANGED <<world, lifecycle, engine, initialized, open, cache, probe, history>>

\* A cache that was closed connects again.
CacheReconnects ==
  /\ ~connected
  /\ connected' = TRUE /\ client' = redisUp
  /\ reopened' = IF redisUp THEN reopened \cup {"redis"} ELSE reopened

HandlerUsesCache(h) ==
  /\ handler[h] = "running" /\ rd # "unstarted"
  /\ CacheReconnects
  /\ UNCHANGED <<world, lifecycle, pools, probe, interrupted>>

-----------------------------------------------------------------------------
(* GET /ready *)

ProbeOnly == UNCHANGED <<world, lifecycle, handler, history>>

ProbeStarts ==
  /\ phase = "serving" /\ probe.db = "none"
  /\ probe' = [db |-> "waiting", cache |-> "asking", answer |-> 0,
               excuse |-> db # "answers" \/ Exhausted(engine)]
  /\ ProbeOnly /\ UNCHANGED <<engine, initialized, open, cache>>

\* check_database(): the session connects for its statement.
ProbeConnects ==
  /\ probe.db = "waiting" /\ initialized
  /\ ~Exhausted(engine) /\ db = "answers"
  /\ probe' = [probe EXCEPT !.db = "executing"]
  /\ open' = [open EXCEPT ![engine] = AtLeast(@, InUse(engine) + 1)]
  /\ ProbeOnly /\ UNCHANGED <<engine, initialized, cache>>

ProbeFinds(status) ==
  /\ probe' = [probe EXCEPT !.db = status]
  /\ ProbeOnly /\ UNCHANGED <<engine, initialized, open, cache>>

ProbeSucceeds == probe.db = "executing" /\ db = "answers" /\ ProbeFinds("healthy")

\* Mutant: pool_timeout is not set.
WaitsForPool == probe.db = "waiting" /\ db # "answers" /\ ProbeFinds("unhealthy")

\* pool_timeout, the connection's time-out, and a database that refuses.
ProbeCannotConnect ==
  /\ probe.db = "waiting" /\ (Exhausted(engine) \/ db # "answers")
  /\ ProbeFinds("unhealthy")

\* SELECT 1 has no time-out of its own: a database that stalls holds the probe.
ProbeBreaks == probe.db = "executing" /\ db = "refuses" /\ ProbeFinds("unhealthy")

\* CacheService.ping(): the in-memory cache answers at once, Redis within the socket's
\* time-out.
Pings == IF client THEN redisUp ELSE connected /\ FallsBack(settings)

ProbePings ==
  /\ probe.cache = "asking" /\ connected
  /\ probe' = [probe EXCEPT !.cache = IF Pings THEN "healthy" ELSE "unhealthy"]
  /\ ProbeOnly /\ UNCHANGED <<engine, initialized, open, cache>>

\* Mutant: a degraded worker is not ready.
IsHealthy(p) == p.db = "healthy" /\ p.cache = "healthy"

\* is_ready asks only for the database: without the cache a worker is degraded.
IsReady(p) == p.db = "healthy"

ProbeAnswers ==
  /\ {probe.db, probe.cache} \subseteq {"healthy", "unhealthy"}
  /\ probe' = [NoProbe EXCEPT !.answer = IF IsReady(probe) THEN 200 ELSE 503, !.excuse = probe.excuse]
  /\ ProbeOnly /\ UNCHANGED <<engine, initialized, open, cache>>

-----------------------------------------------------------------------------
(* End *)

StopRequested ==
  /\ phase = "serving"
  /\ phase' = "stopping"
  /\ probe' = NoProbe
  /\ UNCHANGED <<world, attempt, rd, pg, pools, cache, history>>

\* The kit's shutdown returns or raises: the infrastructure is next.
KitStops ==
  /\ phase = "stopping"
  /\ phase' = "closing" /\ rd' = "closing" /\ pg' = "closing"
  /\ UNCHANGED <<world, attempt, pools, cache, probe, history>>

\* The lifespan task is cancelled: anywhere before, that starts the shutdown; in the
\* kit's, it skips the infrastructure's; and in that one, it only stops waiting.
Interrupted ==
  /\ phase \in Starting \cup Stopping
  /\ phase' = IF phase \in Starting THEN "stopping" ELSE "over"
  /\ interrupted' = (phase \in Stopping)
  /\ UNCHANGED <<world, attempt, rd, pg, pools, cache, probe, reopened>>

RedisEnds(how) ==
  /\ rd \in {"closing", "late"} /\ rd' = how
  /\ UNCHANGED <<world, phase, attempt, pg, pools, probe, history>>

RedisCloses == RedisEnds("closed") /\ client' = FALSE /\ connected' = FALSE

\* Another error: close() leaves _initialized set.
RedisCloseFails == RedisEnds("failed") /\ UNCHANGED cache

PgEnds(how) ==
  /\ pg \in {"closing", "late"} /\ pg' = how
  /\ UNCHANGED <<world, phase, attempt, rd, cache, probe, history>>

\* Mutant: the engine is dropped without being disposed of.
PgForgets == PgEnds("closed") /\ initialized' = FALSE /\ UNCHANGED <<engine, open, handler>>

\* The current engine's idle connections are closed, those in use detached.
PgDisposes ==
  /\ PgEnds("closed")
  /\ open' = [open EXCEPT ![engine] = 0]
  /\ handler' = [h \in Handlers |-> IF handler[h] = engine THEN "detached" ELSE handler[h]]
  /\ initialized' = FALSE
  /\ UNCHANGED engine

\* dispose() fails, or meets its own time-out.
PgDisposeFails == PgEnds("failed") /\ UNCHANGED pools

\* Mutant: close() is awaited as long as it takes.
RedisNeverTimesOut == FALSE /\ UNCHANGED vars

\* The steps are shielded: a time-out only stops waiting.
RedisTimesOut ==
  /\ rd = "closing" /\ rd' = "late"
  /\ UNCHANGED <<world, phase, attempt, pg, pools, cache, probe, history>>

PgTimesOut ==
  /\ pg = "closing" /\ pg' = "late"
  /\ UNCHANGED <<world, phase, attempt, rd, pools, cache, probe, history>>

\* gather() waits for both.
ClosingEnds ==
  /\ phase = "closing" /\ "closing" \notin {rd, pg}
  /\ phase' = "over"
  /\ UNCHANGED <<world, attempt, rd, pg, pools, cache, probe, history>>

Outlives(step) == IF step = "closing" THEN "late" ELSE step

\* A SHUTDOWN_TIMEOUT shorter than theirs ends both waits, and neither step.
ShutdownTimesOut ==
  /\ phase = "closing" /\ settings.shortShutdown
  /\ phase' = "over" /\ rd' = Outlives(rd) /\ pg' = Outlives(pg)
  /\ UNCHANGED <<world, attempt, pools, cache, probe, history>>

-----------------------------------------------------------------------------
(* Around the process *)

\* It ends, at its end or killed while serving, and another one takes its place.
Restarts ==
  /\ phase \in {"serving", "over"}
  /\ phase' = "loading" /\ attempt' = 0
  /\ engine' = "first" /\ initialized' = FALSE /\ open' = [e \in Engines |-> 0]
  /\ handler' = [h \in Handlers |-> "none"]
  /\ connected' = FALSE /\ client' = FALSE /\ probe' = NoProbe
  /\ rd' = "unstarted" /\ pg' = "unstarted"
  /\ reopened' = {} /\ interrupted' = FALSE
  /\ UNCHANGED world

DatabaseChanges ==
  /\ db \in Weather
  /\ db' \in Weather \ {db}
  /\ probe' = Excused(probe, db' # "answers")
  /\ UNCHANGED <<settings, redisUp, lifecycle, pools, cache, history>>

RedisChanges ==
  /\ redisUp' = ~redisUp
  /\ UNCHANGED <<settings, db, lifecycle, pools, cache, probe, history>>

ConnectEnds == Connects \/ ConnectFails
KitStartEnds == KitStarts \/ KitFails
ProbeProceeds == ProbeConnects \/ ProbeSucceeds \/ ProbeCannotConnect \/ ProbeBreaks \/ ProbePings \/ ProbeAnswers

LifespanNext ==
  \/ Loads \/ ConnectEnds \/ WakesUp \/ CacheConnects \/ KitStartEnds
  \/ ProbeStarts \/ ProbeProceeds
  \/ StopRequested \/ KitStops \/ Interrupted \/ ClosingEnds \/ ShutdownTimesOut
  \/ RedisCloses \/ RedisCloseFails \/ RedisTimesOut
  \/ PgDisposes \/ PgDisposeFails \/ PgTimesOut
  \/ \E h \in Handlers :
       \/ HandlerStarts(h) \/ HandlerConnects(h) \/ KitConnects(h) \/ HandlerReturns(h)
       \/ HandlerEnds(h) \/ HandlerUsesCache(h)
  \/ DatabaseChanges \/ RedisChanges

-----------------------------------------------------------------------------
(* Properties *)

\* A worker is reported unready only if its database did not answer or its pool was
\* exhausted while it was asked: never because of its cache.
UnreadyHasExcuse == probe.answer = 503 => probe.excuse

\* What is open when lifespan() is over: nothing, unless its close failed or outlived
\* its time-out, a handler opened it again, or the shutdown was cancelled; and a
\* shutdown that was not cancelled has tried to close everything.  (A connection that a
\* handler uses at dispose() is the pool's no more, and the handler's to close: it is not
\* counted as open.)
LeftOpenHasCause ==
  phase = "over" /\ ~interrupted =>
    /\ "unstarted" \notin {rd, pg}
    /\ client => rd # "closed" \/ "redis" \in reopened
    /\ (\E e \in Engines : open[e] > 0) => pg # "closed" \/ "database" \in reopened

\* Unless the database stalls for good, starting and stopping end.
PhasesEnd ==
  <>[](db # "stalls") =>
    ((phase \in {"loading"} \cup Starting \cup Stopping) ~> (phase \in {"serving", "over", "refused"}))

\* Unless the database stalls for good, a probe is answered.
ProbesEnd ==
  <>[](db # "stalls") => (probe.db # "none" ~> probe.db = "none")
===============================================================================
