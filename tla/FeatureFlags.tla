----------------------------- MODULE FeatureFlags -----------------------------
(***************************************************************************)
(* FeatureFlagService (core/infrastructure/feature_flags.py) in the workers *)
(* of a deployment: flags are kept by each worker's CacheService, which is   *)
(* Redis, a dict of its own, or nothing at all, as its first connection      *)
(* attempt decided (CacheConnection).  Calls to Redis go through the         *)
(* worker's breaker "redis_cache_operations".                               *)
(*                                                                         *)
(* External: Redis, which evicts any key when its memory is full             *)
(* (allkeys-lru, redis/redis.conf).                                          *)
(***************************************************************************)
EXTENDS CircuitBreaker, InMemoryCache, FiniteSets

CONSTANTS Workers,
          Flags, CriticalFlags, Maintenance,
          Others,      \* other keys of the cache
          MaxWrites    \* writes to the cache (a bound of the model)

ASSUME FlagsAssumption ==
  /\ CriticalFlags \subseteq Flags /\ Maintenance \in CriticalFlags
  /\ Flags \cap Others = {} /\ MaxWrites \in Nat
  /\ Workers \cap {"redis", "nowhere"} = {}

VARIABLES fallback,  \* _should_use_fallback(): the environment's name
          up,        \* Redis answers in time
          mode,      \* where the cache of a worker is
          redis,     \* the value and the life of each flag in Redis
          memory,    \* the in-memory cache of each worker
          brk,       \* the Redis breaker of each worker
          doing,     \* the call a worker is suspended in
          about,     \* what that call writes
          asked,     \* history: what was asked for last of each flag, and the store
                     \* that still owes it
          writes     \* writes so far

conn == <<fallback, up, mode>>
vars == <<conn, redis, memory, brk, doing, about, asked, writes>>

Values == {"on", "off"}
Missing == [value |-> "unset", life |-> "expired"]
NoRequest == [flag |-> Maintenance, value |-> "unset", ttl |-> FALSE, mayExpire |-> FALSE]
Persistence == {"default", "persistent", "temporary"}   \* persistent = None, True, False
Owed == [value : Values \cup {"unset"}, mayExpire : BOOLEAN, at : Workers \cup {"redis", "nowhere"}]
NothingOwed == [value |-> "unset", mayExpire |-> FALSE, at |-> "nowhere"]

TypeOK ==
  /\ fallback \in BOOLEAN /\ up \in BOOLEAN
  /\ mode \in [Workers -> {"redis", "memory", "nowhere"}]
  /\ redis \in [Flags -> [value : Values \cup {"unset"}, life : Lives]]
  /\ \A w \in Workers :
       /\ \A i \in DOMAIN memory[w] :
            memory[w][i] \in [key : Flags \cup Others, value : Values, life : Lives]
       /\ Cardinality(KeysOf(memory[w])) = Len(memory[w])
       /\ mode[w] # "memory" => memory[w] = << >>
  /\ brk \in [Workers -> Breaker]
  /\ doing \in [Workers -> {"nothing", "check", "set", "clear"}]
  /\ about \in [Workers -> [flag : Flags, value : Values \cup {"unset"}, ttl : BOOLEAN, mayExpire : BOOLEAN]]
  /\ asked \in [Flags -> Owed]
  /\ writes \in 0..MaxWrites

\* Where the first attempt to connect leaves a worker, until it is restarted.
Connected == IF up THEN "redis" ELSE IF fallback THEN "memory" ELSE "nowhere"

Init ==
  /\ fallback \in BOOLEAN /\ up = TRUE
  /\ mode \in [Workers -> {"redis", IF fallback THEN "memory" ELSE "nowhere"}]
  /\ redis = [f \in Flags |-> Missing]
  /\ memory = [w \in Workers |-> << >>]
  /\ brk = [w \in Workers |-> Closed]
  /\ doing = [w \in Workers |-> "nothing"] /\ about = [w \in Workers |-> NoRequest]
  /\ asked = [f \in Flags |-> NothingOwed]
  /\ writes = 0

-----------------------------------------------------------------------------
(* Helpers *)

Free(w) == doing[w] = "nothing"
On(w, where) == mode[w] = where
Store(w) == IF mode[w] = "memory" THEN w ELSE mode[w]

Written == writes < MaxWrites /\ writes' = writes + 1

\* Mutant: every flag is kept for TEMPORARY_TTL.
TimeToLiveAlways(f, persistent) == persistent # "persistent"

\* Whether set_flag() gives the entry a time to live.
TimeToLive(f, persistent) ==
  CASE persistent = "default" -> f \notin CriticalFlags
    [] OTHER -> persistent = "temporary"

\* What the caller of set_flag() may expect: only a flag that is not critical, or
\* one asked for as temporary, goes away by itself.
MayExpire(f, persistent) ==
  persistent = "temporary" \/ (f \notin CriticalFlags /\ persistent # "persistent")

Asks(f, value, mayExpire, where) ==
  asked' = [asked EXCEPT ![f] = [value |-> value, mayExpire |-> mayExpire, at |-> where]]

\* A request that is answered as done although it reached no store.
Dropped(f) == asked' = [asked EXCEPT ![f] = NothingOwed]

\* A store evicts flags or loses its content: nothing is owed any more.
Evicts(where, gone) ==
  asked' = [f \in Flags |-> IF f \in gone /\ asked[f].at = where THEN NothingOwed ELSE asked[f]]

\* A flag expires: it is its default from now on only if it was to.
ExpiresAt(where, gone) ==
  Evicts(where, {f \in gone \cap Flags : asked[f].mayExpire})

\* What get() finds in the store of a worker.
ValueFor(w, f) ==
  CASE mode[w] = "redis" -> redis[f].value
    [] mode[w] = "memory" -> (LET found == Found(memory[w], f)
                              IN IF found = {} THEN "unset" ELSE (CHOOSE e \in found : TRUE).value)
    [] OTHER -> "unset"

\* is_enabled(): what is not set is the default of the caller.
IsEnabled(value, default) == IF value = "unset" THEN default ELSE value

\* The defaults is_enabled() is called with: is_maintenance_mode() has one of its
\* own, get_all_flags() asks for every flag with the usual one.
Defaults(f) == IF f = Maintenance THEN {"on", "off"} ELSE {"on"}

-----------------------------------------------------------------------------
(* Calls to Redis: _execute_redis_operation() *)

\* A breaker that refuses raises OpenedState, which is not the "CircuitBreakerFailed"
\* the handler looks for: the caller gets it, and nothing changes.
RedisCall(w, kind, request) ==
  /\ Free(w) /\ On(w, "redis") /\ ~Refuses(brk[w])
  /\ brk' = [brk EXCEPT ![w] = Entered(@)]
  /\ doing' = [doing EXCEPT ![w] = kind]
  /\ about' = [about EXCEPT ![w] = request]
  /\ UNCHANGED <<conn, redis, memory, asked>>

Ends(w, b) ==
  /\ brk' = [brk EXCEPT ![w] = b]
  /\ doing' = [doing EXCEPT ![w] = "nothing"]
  /\ about' = [about EXCEPT ![w] = NoRequest]
  /\ UNCHANGED <<conn, memory, writes>>

CheckOnRedis(w) == RedisCall(w, "check", NoRequest) /\ UNCHANGED writes

Checked(w) ==
  /\ doing[w] = "check" /\ up
  /\ Ends(w, Succeeded(brk[w]))
  /\ UNCHANGED <<redis, asked>>

\* RedisError: get() returns None, which is_enabled() takes for a flag not set.
CheckFails(w) ==
  /\ doing[w] = "check" /\ ~up
  /\ Ends(w, Failed(brk[w]))
  /\ UNCHANGED <<redis, asked>>

SetOnRedis(w, f, value, persistent) ==
  /\ RedisCall(w, "set", [flag |-> f, value |-> value, ttl |-> TimeToLive(f, persistent),
                            mayExpire |-> MayExpire(f, persistent)])
  /\ Written

ClearOnRedis(w, f) ==
  /\ RedisCall(w, "clear", [NoRequest EXCEPT !.flag = f])
  /\ Written

\* What Redis executes for set_flag() and clear_flag().
Executed(r) ==
  IF r.value = "unset" THEN Missing
  ELSE [value |-> r.value, life |-> Life(r.ttl)]

\* The request that reaches Redis last is the latest.
WriteSucceeds(w) ==
  LET r == about[w] IN
  /\ doing[w] \in {"set", "clear"} /\ up
  /\ redis' = [redis EXCEPT ![r.flag] = Executed(r)]
  /\ Asks(r.flag, r.value, r.mayExpire, "redis")
  /\ Ends(w, Succeeded(brk[w]))

\* The write fails, in Redis or on its way back.  set() and delete() return False,
\* which set_flag() and clear_flag() do not look at: they log an update.
WriteFails(w) ==
  LET r == about[w] IN
  /\ doing[w] \in {"set", "clear"} /\ ~up
  /\ redis' \in {redis, [redis EXCEPT ![r.flag] = Executed(r)]}
  /\ Dropped(r.flag)
  /\ Ends(w, Failed(brk[w]))

-----------------------------------------------------------------------------
(* Calls of a worker without Redis *)

InMemory(w) ==
  /\ Free(w) /\ On(w, "memory")
  /\ UNCHANGED <<conn, redis, brk, doing, about>>

CheckInMemory(w, f) ==
  /\ InMemory(w)
  /\ memory' = [memory EXCEPT ![w] = AfterGet(@, f)]
  /\ UNCHANGED <<asked, writes>>

\* set(): what makes room for the key may be a flag.
SetInMemory(w, f, value, persistent) ==
  LET after == AfterSet(memory[w],
                 [key |-> f, value |-> value, life |-> Life(TimeToLive(f, persistent))])
      gone == {g \in Flags \ KeysOf(after) : Found(memory[w], g) # {}}
  IN /\ InMemory(w) /\ Written
     /\ memory' = [memory EXCEPT ![w] = after]
     /\ asked' = [g \in Flags |->
          CASE g = f -> [value |-> value, mayExpire |-> MayExpire(f, persistent), at |-> w]
            [] g \in gone /\ asked[g].at = w -> NothingOwed
            [] OTHER -> asked[g]]

ClearInMemory(w, f) ==
  /\ InMemory(w) /\ Written
  /\ memory' = [memory EXCEPT ![w] = AfterDelete(@, f)]
  /\ Asks(f, "unset", FALSE, w)

\* Other values: set() and setnx().
CachesOther(w, k) ==
  LET after == AfterSet(memory[w], [key |-> k, value |-> "on", life |-> "live"])
  IN /\ InMemory(w) /\ Written
     /\ memory' = [memory EXCEPT ![w] = after]
     /\ Evicts(w, {g \in Flags \ KeysOf(after) : Found(memory[w], g) # {}})

MarksOther(w, k) ==
  /\ InMemory(w) /\ Written
  /\ memory' = [memory EXCEPT ![w] = AfterSetnx(@, [key |-> k, value |-> "on", life |-> "live"])]
  /\ UNCHANGED asked

DeletesOthers(w) ==
  /\ InMemory(w)
  /\ memory' = [memory EXCEPT ![w] = AfterDeletePattern(@, Others)]
  /\ UNCHANGED <<asked, writes>>

\* Without any cache set() and delete() return False, and get() returns None.
WriteNowhere(w, f) ==
  /\ Free(w) /\ On(w, "nowhere") /\ Written
  /\ Dropped(f)
  /\ UNCHANGED <<conn, redis, memory, brk, doing, about>>

-----------------------------------------------------------------------------
(* Time, Redis, and the end of a worker *)

\* Mutant: a breaker stays open.
NeverExpires(w) == FALSE /\ UNCHANGED vars

BreakerExpires(w) ==
  /\ Refuses(brk[w])
  /\ brk' = [brk EXCEPT ![w] = Expired(@)]
  /\ UNCHANGED <<conn, redis, memory, doing, about, asked, writes>>

ExpiresInRedis(f) ==
  /\ redis[f].life = "live"
  /\ redis' = [redis EXCEPT ![f] = Missing]
  /\ ExpiresAt("redis", {f})
  /\ UNCHANGED <<conn, memory, brk, doing, about, writes>>

\* allkeys-lru: also of a key without a time to live.
EvictedFromRedis(f) ==
  /\ redis[f] # Missing
  /\ redis' = [redis EXCEPT ![f] = Missing]
  /\ Evicts("redis", {f})
  /\ UNCHANGED <<conn, memory, brk, doing, about, writes>>

ExpiresInMemory(w) ==
  \E i \in DOMAIN memory[w] :
    /\ memory[w][i].life = "live"
    /\ memory' = [memory EXCEPT ![w][i].life = "expired"]
    /\ ExpiresAt(w, {memory[w][i].key})
    /\ UNCHANGED <<conn, redis, brk, doing, about, writes>>

\* A worker is restarted and connects anew.  Its dict is gone, and Redis may have
\* executed the write it was waiting for.
Restarts(w) ==
  /\ mode' = [mode EXCEPT ![w] = Connected]
  /\ memory' = [memory EXCEPT ![w] = << >>]
  /\ IF doing[w] \in {"set", "clear"}
     THEN redis' \in {redis, [redis EXCEPT ![about[w].flag] = Executed(about[w])]}
            /\ Dropped(about[w].flag)
     ELSE Evicts(w, Flags) /\ UNCHANGED redis
  /\ brk' = [brk EXCEPT ![w] = Closed]
  /\ doing' = [doing EXCEPT ![w] = "nothing"] /\ about' = [about EXCEPT ![w] = NoRequest]
  /\ UNCHANGED <<fallback, up, writes>>

RedisGoesDownOrUp ==
  /\ up' = ~up
  /\ UNCHANGED <<fallback, mode, redis, memory, brk, doing, about, asked, writes>>

-----------------------------------------------------------------------------

Check(w) == CheckOnRedis(w) \/ \E f \in Flags : CheckInMemory(w, f)

Write(w) ==
  \/ \E f \in Flags :
       \/ ClearOnRedis(w, f) \/ ClearInMemory(w, f) \/ WriteNowhere(w, f)
       \/ \E value \in Values, persistent \in Persistence :
            SetOnRedis(w, f, value, persistent) \/ SetInMemory(w, f, value, persistent)
  \/ \E k \in Others : CachesOther(w, k) \/ MarksOther(w, k)
  \/ DeletesOthers(w)

Returns(w) == Checked(w) \/ CheckFails(w) \/ WriteSucceeds(w) \/ WriteFails(w)

Next ==
  \/ \E w \in Workers :
       Check(w) \/ Write(w) \/ Returns(w) \/ BreakerExpires(w) \/ ExpiresInMemory(w) \/ Restarts(w)
  \/ \E f \in Flags : ExpiresInRedis(f) \/ EvictedFromRedis(f)
  \/ RedisGoesDownOrUp

Spec == Init /\ [][Next]_vars

\* Requests keep asking for flags, a call returns within the socket's time-out, and
\* the time to live of a breaker elapses.
FairSpec ==
  /\ Spec
  /\ \A w \in Workers : WF_vars(CheckOnRedis(w)) /\ WF_vars(Returns(w)) /\ WF_vars(BreakerExpires(w))

-----------------------------------------------------------------------------
(* Properties *)

\* While a worker can read its store, a flag answers what was asked for last: unless
\* the request went to another store or to none, the store evicted the flag, or the
\* flag was a temporary one and expired.  In particular a critical flag never
\* expires, and a flag that was cleared is what each caller takes for its default.
KillSwitchHolds ==
  \A w \in Workers, f \in Flags : \A default \in Defaults(f) :
    asked[f].at = Store(w) /\ (mode[w] = "redis" => up) =>
      IsEnabled(ValueFor(w, f), default) = IsEnabled(asked[f].value, default)

\* The in-memory cache outgrows its limit only by setnx(), which evicts nothing.
GrowsOnlyByMarkers ==
  [][\A w \in Workers :
       Len(memory'[w]) > MaxSize /\ Len(memory'[w]) > Len(memory[w]) =>
         \E k \in Others : MarksOther(w, k)]_vars

\* Once Redis answers for good, its breaker closes for good in every worker, and
\* flags are read again.
ReadsRecover ==
  <>[]up => \A w \in Workers : <>[](mode[w] = "redis" => brk[w].state # "opened")
===============================================================================
