----------------------------- MODULE ProcessProofs -----------------------------
(***************************************************************************)
(* Proofs about Process for any deployments, handlers, pool, number of      *)
(* attempts, addresses, trusted proxies and requests.                       *)
(***************************************************************************)
EXTENDS Process, FiniteSetTheorems, WellFoundedInduction, TLAPS

-----------------------------------------------------------------------------
(* Whose request it is *)

\* A set of natural numbers up to n that is not empty has a greatest element.
LEMMA GreatestElement ==
  ASSUME NEW n \in Nat, NEW S, S \subseteq 0..n, S # {}
  PROVE  Max(S) \in S /\ \A i \in S : Max(S) >= i
  <1> DEFINE T == {n - i : i \in S}
             Less == OpToRel(<, Nat)
  <1>1. T \subseteq Nat /\ T # {}
    <2>1. \A i \in S : n - i \in Nat
      OBVIOUS
    <2>2. QED
      BY <2>1
  <1>2. IsWellFoundedOn(Less, Nat)
    BY NatLessThanWellFounded
  <1> HIDE DEF Less
  <1>3. PICK t \in T : \A u \in T : <<u, t>> \notin Less
    BY <1>1, <1>2, WFMin
  <1>4. \A u \in T : ~(u < t)
    BY <1>1, <1>3 DEF Less, OpToRel
  <1>5. PICK i \in S : t = n - i
    BY <1>3
  <1>6. \A j \in S : i >= j
    BY SMTT(40), <1>4, <1>5
  <1>7. QED
    BY <1>6 DEF Max

\* The address the code finds is one that the trusted proxies vouch for: the peer's,
\* that of the nearest hop that is no trusted proxy, or the first hop's if all are.
LEMMA ClientIsVouchedFor ==
  ASSUME NEW chain \in Seq(Addresses \cup Unreadable), NEW direct \in Addresses
  PROVE  /\ ClientAddress(chain, direct) \in Addresses
         /\ VouchedFor(chain, direct, ClientAddress(chain, direct))
  <1> DEFINE n == Len(chain)
             hops == Append(chain, direct)
             Vouches(j) == hops[j] \in Addresses => IsTrustedProxy(hops[j])
             origin == ClientAddress(chain, direct)
  <1>1. /\ n \in Nat /\ DOMAIN chain = 1..n /\ DOMAIN hops = 1..(n + 1) /\ Len(hops) = n + 1
        /\ hops[n + 1] = direct /\ \A i \in 1..n : hops[i] = chain[i]
        /\ chain = << >> <=> n = 0
    OBVIOUS
  <1>2. SUFFICES \E i \in 1..(n + 1) :
                   /\ hops[i] = origin /\ origin \in Addresses
                   /\ \A j \in (i + 1)..(n + 1) : Vouches(j)
                   /\ IsTrustedProxy(origin) => \A j \in 1..(n + 1) : Vouches(j)
    BY <1>1 DEF VouchedFor
  <1>3. CASE chain = << >> \/ ~IsTrustedProxy(direct)
    <2>1. origin = direct
      BY <1>3 DEF ClientAddress
    <2>2. IsTrustedProxy(origin) => \A j \in 1..(n + 1) : Vouches(j)
      BY <1>1, <1>3, <2>1
    <2>3. QED
      BY <1>1, <2>1, <2>2
  <1>4. CASE ~(chain = << >> \/ ~IsTrustedProxy(direct)) /\ Untrusted(chain) # {}
    <2> DEFINE m == Max(Untrusted(chain))
    <2>1. m \in Untrusted(chain) /\ \A i \in Untrusted(chain) : m >= i
      <3>1. Untrusted(chain) \subseteq 0..n
        BY <1>1 DEF Untrusted
      <3>2. QED
        BY <1>1, <1>4, <3>1, GreatestElement
    <2> HIDE DEF m
    <2>2. origin = chain[m]
      BY <1>4 DEF ClientAddress, m
    <2>3. m \in 1..n /\ chain[m] \in Addresses /\ ~IsTrustedProxy(chain[m])
      BY <1>1, <2>1 DEF Untrusted
    <2>4. \A j \in (m + 1)..n : j \notin Untrusted(chain)
      BY <1>1, <2>1, <2>3
    <2>5. \A j \in (m + 1)..(n + 1) : Vouches(j)
      BY <1>1, <1>4, <2>3, <2>4 DEF Untrusted
    <2>6. QED
      BY <1>1, <2>2, <2>3, <2>5
  <1>5. CASE ~(chain = << >> \/ ~IsTrustedProxy(direct)) /\ Untrusted(chain) = {}
    <2>1. origin = IF chain[1] \in Addresses THEN chain[1] ELSE direct
      BY <1>5 DEF ClientAddress
    <2>2. \A j \in 1..(n + 1) : Vouches(j)
      BY <1>1, <1>5 DEF Untrusted
    <2>3. QED
      BY <1>1, <1>5, <2>1, <2>2
  <1>6. QED
    BY <1>3, <1>4, <1>5

-----------------------------------------------------------------------------
(* Who passes *)

\* The session: a cookie is of the last login, and a logout has left it only if no secret
\* is shared and the worker of the login, if it still runs, did not take it; and only an
\* end of the session takes the cookie away.
SessionInv ==
  /\ settings \in Deployments /\ PanelTypeOK
  /\ cookie # "none" =>
       /\ login = cookie
       /\ logout = "nobody" \/ (~settings.sessionSecret /\ (logout # cookie \/ cookie = "earlier"))
  /\ cookie = "none" => login = "nobody" \/ logout # "nobody"

\* No session is there at first.
LEMMA SessionInit == Init => SessionInv
  BY DEF Init, LifespanInit, PanelInit, SessionInv, PanelTypeOK

\* The steps of a process change no setting.
LEMMA SettingsKept == LifespanNext \/ Restarts => settings' = settings
  <1> USE DEF vars, world, StartupGoes, CheckedOut, ProbeOnly, ProbeFinds, RedisEnds, PgEnds
  <1>1. ASSUME NEW h \in Handlers,
               \/ HandlerStarts(h) \/ HandlerConnects(h) \/ KitConnects(h) \/ HandlerReturns(h)
               \/ HandlerEnds(h) \/ HandlerUsesCache(h)
        PROVE  settings' = settings
    BY <1>1 DEF HandlerStarts, HandlerConnects, KitConnects, HandlerReturns, HandlerEnds,
                HandlerUsesCache
  <1>2. Loads \/ ConnectEnds \/ WakesUp \/ CacheConnects \/ KitStartEnds => settings' = settings
    BY DEF Loads, ConnectEnds, Connects, ConnectFails, WakesUp, CacheConnects, KitStartEnds,
           KitStarts, KitFails
  <1>3. ProbeStarts \/ ProbeProceeds => settings' = settings
    BY DEF ProbeStarts, ProbeProceeds, ProbeConnects, ProbeSucceeds, ProbeCannotConnect,
           ProbeBreaks, ProbePings, ProbeAnswers
  <1>4. StopRequested \/ KitStops \/ Interrupted \/ ClosingEnds \/ ShutdownTimesOut \/ Restarts
          => settings' = settings
    BY DEF StopRequested, KitStops, Interrupted, ClosingEnds, ShutdownTimesOut, Restarts
  <1>5. RedisCloses \/ RedisCloseFails \/ RedisTimesOut \/ PgDisposes \/ PgDisposeFails \/ PgTimesOut
          => settings' = settings
    BY DEF RedisCloses, RedisCloseFails, RedisTimesOut, PgDisposes, PgDisposeFails, PgTimesOut
  <1>6. DatabaseChanges \/ RedisChanges => settings' = settings
    BY DEF DatabaseChanges, RedisChanges
  <1>7. QED
    BY <1>1, <1>2, <1>3, <1>4, <1>5, <1>6 DEF LifespanNext

\* Logins, logouts, expiry and replaced workers keep it.
LEMMA SessionStep == SessionInv /\ [Next]_processVars => SessionInv'
  <1> SUFFICES ASSUME SessionInv, [Next]_processVars PROVE SessionInv'
    OBVIOUS
  <1> USE DEF SessionInv, PanelTypeOK, Signers
  <1>1. CASE UNCHANGED processVars
    BY <1>1 DEF processVars, panelVars, vars, world
  <1>2. CASE LifespanNext /\ UNCHANGED panelVars
    BY <1>2, SettingsKept DEF panelVars
  <1>3. CASE Restarts /\ WorkerReplaced
    BY <1>3, SettingsKept DEF WorkerReplaced
  <1>4. CASE PanelStep /\ UNCHANGED vars
    <2>1. settings' = settings
      BY <1>4 DEF vars, world
    <2>2. ASSUME NEW w \in {"this", "other"}, NEW r \in Requests, Login(w, r) PROVE SessionInv'
      BY <2>1, <2>2 DEF Login
    <2>3. ASSUME NEW w \in {"this", "other"}, Logout(w, settings) PROVE SessionInv'
      BY <2>1, <2>3 DEF Logout, Verifies
    <2>4. CASE SessionExpires
      BY <2>1, <2>4 DEF SessionExpires
    <2>5. QED
      BY <1>4, <2>2, <2>3, <2>4 DEF PanelStep
  <1>5. QED
    BY <1>1, <1>2, <1>3, <1>4 DEF Next

\* Only who has logged in passes, from an address the trusted proxies vouch for and the
\* panel allows, with a session nobody ended where it can be read, and never on a password
\* alone where MFA is enabled; and a session nobody ended passes wherever it can be read.
THEOREM OnlyAdminsPass == Spec => []AdminsPass
  <1>1. SessionInv => AdminsPass
    <2> SUFFICES ASSUME SessionInv, NEW w \in {"this", "other"}, NEW r \in Requests
                 PROVE  LET Allowed(a) == AllowedIps = {} \/ a \in AllowedIps
                            Clients == {a \in Addresses : VouchedFor(r.chain, r.direct, a)}
                            Readers(v) == IF settings.sessionSecret THEN Signers ELSE {v}
                            passes == Serves(w) /\ Passes(w, r, settings)
                        IN /\ RateLimitKey(r.chain, r.direct) \in Clients
                           /\ passes =>
                                /\ ~settings.mfa
                                /\ \E a \in Clients : Allowed(a)
                                /\ login # "nobody" /\ login \in Readers(w)
                                /\ logout = "nobody" \/ logout \notin Readers(w)
                           /\ /\ Serves(w) /\ ~settings.mfa /\ \A a \in Clients : Allowed(a)
                              /\ login # "nobody" /\ login \in Readers(w) /\ logout = "nobody"
                              => passes
      BY DEF AdminsPass
    <2> DEFINE Allowed(a) == AllowedIps = {} \/ a \in AllowedIps
               Clients == {a \in Addresses : VouchedFor(r.chain, r.direct, a)}
               Readers(v) == IF settings.sessionSecret THEN Signers ELSE {v}
               origin == ClientAddress(r.chain, r.direct)
    <2>1. origin \in Clients
      BY PanelAssumption, ClientIsVouchedFor
    <2>2. RateLimitKey(r.chain, r.direct) \in Clients
      BY <2>1 DEF RateLimitKey
    <2>3. IpAllowed(r) <=> Allowed(origin)
      BY DEF IpAllowed
    <2>4. ASSUME Serves(w), Passes(w, r, settings)
          PROVE  /\ ~settings.mfa
                 /\ \E a \in Clients : Allowed(a)
                 /\ login # "nobody" /\ login \in Readers(w)
                 /\ logout = "nobody" \/ logout \notin Readers(w)
      <3>1. ~settings.mfa
        BY <2>4 DEF Passes, Verified
      <3>2. \E a \in Clients : Allowed(a)
        BY <2>1, <2>3, <2>4 DEF Passes
      <3>3. login = cookie /\ cookie \in Signers /\ (settings.sessionSecret \/ cookie = w)
        BY <2>4 DEF Passes, Verifies, SessionInv, PanelTypeOK
      <3>4. login # "nobody" /\ login \in Readers(w)
        BY <3>3 DEF Signers
      <3>5. logout = "nobody" \/ logout \notin Readers(w)
        BY <2>4, <3>3 DEF Passes, Verifies, SessionInv
      <3>6. QED
        BY <3>1, <3>2, <3>4, <3>5
    <2>5. ASSUME Serves(w), ~settings.mfa, \A a \in Clients : Allowed(a),
                 login # "nobody", login \in Readers(w), logout = "nobody"
          PROVE  Passes(w, r, settings)
      <3>1. cookie # "none" /\ cookie = login
        BY <2>5 DEF SessionInv
      <3>2. settings.sessionSecret \/ cookie = w
        BY <2>5, <3>1
      <3>3. QED
        BY <2>1, <2>3, <2>5, <3>1, <3>2 DEF Passes, Verifies, Verified
    <2>6. QED
      BY <2>2, <2>4, <2>5
  <1>2. QED
    BY <1>1, SessionInit, SessionStep, PTL DEF Spec

-----------------------------------------------------------------------------
(* The life of a worker: the invariant *)

\* What is closed only in the shutdown, and what was opened again after it.
Order ==
  /\ phase \notin {"closing", "over"} => rd = "unstarted" /\ pg = "unstarted"
  /\ phase = "closing" => rd # "unstarted" /\ pg # "unstarted"
  /\ phase = "over" /\ ~interrupted => rd # "unstarted" /\ pg # "unstarted"
  /\ client => rd # "closed" \/ "redis" \in reopened
  /\ pg = "closed" /\ "database" \notin reopened => \A e \in Engines : open[e] = 0
  /\ engine = "second" => pg = "closed" /\ "database" \in reopened
  /\ open["second"] # 0 => engine = "second"
  /\ ~initialized => phase \in {"loading", "refused"} \/ pg = "closed"
  /\ phase \in {"loading", "refused"} \cup Starting => \A h \in Handlers : handler[h] = "none"
  /\ probe.db # "none" => phase = "serving"

\* A probe on its way to 503, or one that can only get there, has its excuse.
Excuses ==
  /\ probe.answer = 503 \/ probe.db = "unhealthy" => probe.excuse
  /\ probe.db = "waiting" /\ (Exhausted(engine) \/ db # "answers") => probe.excuse
  /\ probe.db = "executing" /\ db # "answers" => probe.excuse

\* The types, those of the flags apart from those with numbers and records.
FlagTypes ==
  /\ settings \in Deployments
  /\ phase \in {"loading", "refused", "serving", "over"} \cup Starting \cup Stopping
  /\ db \in Weather \cup {"misnamed", "denies"} /\ redisUp \in BOOLEAN
  /\ initialized \in BOOLEAN /\ connected \in BOOLEAN /\ client \in BOOLEAN
  /\ rd \in {"unstarted", "closing", "closed", "late", "failed"}
  /\ pg \in {"unstarted", "closing", "closed", "late", "failed"}
  /\ reopened \subseteq {"database", "redis"} /\ interrupted \in BOOLEAN

\* What a probe can be.
Probes ==
  [db : {"none", "waiting", "executing", "healthy", "unhealthy"},
   cache : {"none", "asking", "healthy", "unhealthy"},
   answer : {0, 200, 503}, excuse : BOOLEAN]

\* The types of what has numbers, records or functions.
PoolTypes ==
  /\ attempt \in 0..Attempts
  /\ engine \in Engines
  /\ open \in [Engines -> 0..Pool]
  /\ handler \in [Handlers -> {"none", "running", "detached"} \cup Engines]
  /\ \A e \in Engines : InUse(e) <= open[e]
  /\ probe \in Probes

\* The two kinds are the type invariant of the life of a worker.
LEMMA TypesByKind == LifespanTypeOK <=> FlagTypes /\ PoolTypes
  <1>1. {rd, pg} \subseteq {"unstarted", "closing", "closed", "late", "failed"}
        <=> /\ rd \in {"unstarted", "closing", "closed", "late", "failed"}
            /\ pg \in {"unstarted", "closing", "closed", "late", "failed"}
    OBVIOUS
  <1>2. QED
    BY ZenonT(60), <1>1 DEF LifespanTypeOK, FlagTypes, PoolTypes, Probes

\* The inductive invariant of the life of a worker.
LifeInv == FlagTypes /\ PoolTypes /\ Order /\ Excuses

\* How many handlers hold connections of e.
Held(e) == Cardinality({h \in Handlers : handler[h] = e})

\* A handler that moves changes how many hold a connection by at most itself.
LEMMA HandlerMoves ==
  ASSUME handler \in [Handlers -> {"none", "running", "detached"} \cup Engines],
         NEW h \in Handlers, NEW v, handler' = [handler EXCEPT ![h] = v], NEW e
  PROVE  /\ Held(e) \in Nat /\ Held(e)' \in Nat
         /\ (v = e <=> handler[h] = e) => Held(e)' = Held(e)
         /\ v = e /\ handler[h] # e => Held(e)' = Held(e) + 1
         /\ v # e /\ handler[h] = e => Held(e)' = Held(e) - 1
  <1> DEFINE S == {g \in Handlers : handler[g] = e}
             T == {g \in Handlers : handler'[g] = e}
  <1>1. IsFiniteSet(S) /\ IsFiniteSet(T)
    BY LifespanAssumption, FS_Subset
  <1>2. Cardinality(S) \in Nat /\ Cardinality(T) \in Nat
    BY <1>1, FS_CardinalityType
  <1>3. CASE v = e <=> handler[h] = e
    <2>1. S = T
      BY <1>3
    <2>2. QED
      BY <1>2, <1>3, <2>1 DEF Held
  <1>4. CASE v = e /\ handler[h] # e
    <2>1. T = S \cup {h} /\ h \notin S
      BY <1>4
    <2>2. Cardinality(T) = Cardinality(S) + 1
      BY <1>1, <2>1, FS_AddElement
    <2>3. QED
      BY <1>2, <1>4, <2>2 DEF Held
  <1>5. CASE v # e /\ handler[h] = e
    <2>1. S = T \cup {h} /\ h \notin T
      BY <1>5
    <2>2. Cardinality(S) = Cardinality(T) + 1
      BY <1>1, <2>1, FS_AddElement
    <2>3. QED
      BY <1>2, <1>5, <2>2 DEF Held
  <1>6. QED
    BY <1>3, <1>4, <1>5

\* Nobody holds anything while no handler has started.
LEMMA NothingHeld ==
  ASSUME NEW e \in Engines, \A h \in Handlers : handler[h] \notin Engines
  PROVE  Held(e) = 0
  <1>1. {h \in Handlers : handler[h] = e} = {}
    OBVIOUS
  <1>2. QED
    BY <1>1, FS_EmptySet DEF Held

\* What is in use is a number.
LEMMA HeldType ==
  ASSUME NEW e
  PROVE  Held(e) \in Nat /\ InUse(e) = Held(e) + (IF probe.db = "executing" /\ e = engine THEN 1 ELSE 0)
  BY LifespanAssumption, FS_Subset, FS_CardinalityType DEF Held, InUse

\* A process starts with nothing open.
LEMMA LifeInit == Init => LifeInv
  <1> SUFFICES ASSUME Init PROVE LifeInv
    OBVIOUS
  <1> USE DEF Init, LifespanInit, NoProbe
  <1>1. \A e \in Engines : Held(e) = 0
    BY NothingHeld DEF Engines
  <1>2. \A e \in Engines : InUse(e) = 0
    BY <1>1, HeldType
  <1>3. FlagTypes /\ PoolTypes
    <2>1. FlagTypes
      BY DEF FlagTypes, Weather
    <2>2. PoolTypes
      BY <1>2, LifespanAssumption DEF PoolTypes, Probes, Engines
    <2>3. QED
      BY <2>1, <2>2
  <1>4. Order /\ Excuses
    BY DEF Order, Excuses, Engines, Starting
  <1>5. QED
    BY <1>3, <1>4 DEF LifeInv

-----------------------------------------------------------------------------
(* Steps that leave pools and probe alone *)

\* Redis is up or down.
LEMMA RedisChangesType == RedisChanges => redisUp' \in BOOLEAN
  BY DEF RedisChanges

\* A cancellation records whether it met the shutdown.
LEMMA InterruptedType == Interrupted => interrupted' \in BOOLEAN
  BY DEF Interrupted

\* The starting and the stopping of a worker.
LEMMA PhaseSteps ==
  ASSUME LifeInv,
         \/ Loads \/ ConnectFails \/ WakesUp \/ CacheConnects \/ KitStartEnds
         \/ KitStops \/ Interrupted \/ ClosingEnds \/ ShutdownTimesOut
         \/ RedisCloses \/ RedisCloseFails \/ RedisTimesOut \/ PgDisposeFails \/ PgTimesOut
         \/ RedisChanges
  PROVE  LifeInv'
  <1> USE DEF LifeInv, Starting, Stopping, StartupGoes, RedisEnds, PgEnds, Outlives,
              world, lifecycle, pools, cache, history
  <1>1. /\ handler' = handler /\ engine' = engine /\ probe' = probe /\ db' = db /\ open' = open
        /\ attempt' = attempt \/ Loads \/ ConnectFails
    BY DEF Loads, ConnectFails, WakesUp, CacheConnects, KitStartEnds, KitStarts, KitFails,
           KitStops, Interrupted, ClosingEnds, ShutdownTimesOut, RedisCloses, RedisCloseFails,
           RedisTimesOut, PgDisposeFails, PgTimesOut, RedisChanges
  <1>2. \A e \in Engines : InUse(e)' = InUse(e)
    BY <1>1 DEF InUse
  <1>3. Excuses'
    <2>1. Exhausted(engine)' = Exhausted(engine)
      BY <1>1, <1>2 DEF Exhausted, PoolTypes
    <2>2. QED
      BY <1>1, <2>1 DEF Excuses
  <1>4. PoolTypes'
    <2>1. attempt' \in 0..Attempts
      BY <1>1, LifespanAssumption DEF Loads, ConnectFails, PoolTypes
    <2>2. QED
      BY <1>1, <1>2, <2>1 DEF PoolTypes
  <1>5. CASE Loads \/ ConnectFails \/ WakesUp \/ CacheConnects \/ KitStartEnds
    <2>1. FlagTypes'
      <3>1. CASE Loads
        BY <3>1 DEF Loads, FlagTypes
      <3>2. CASE ConnectFails
        BY ZenonT(60), <3>2 DEF ConnectFails, FlagTypes
      <3>3. CASE WakesUp
        BY <3>3 DEF WakesUp, FlagTypes
      <3>4. CASE CacheConnects
        BY <3>4 DEF CacheConnects, FlagTypes
      <3>5. CASE KitStartEnds
        <4>1. CASE KitStarts
          BY <4>1 DEF KitStarts, FlagTypes
        <4>2. CASE KitFails
          BY <4>2 DEF KitFails, FlagTypes
        <4>3. QED
          BY <3>5, <4>1, <4>2 DEF KitStartEnds
      <3>6. QED
        BY <1>5, <3>1, <3>2, <3>3, <3>4, <3>5
    <2>2. Order'
      BY <1>1, <1>5 DEF Loads, ConnectFails, WakesUp, CacheConnects, KitStartEnds, KitStarts,
                        KitFails, Order
    <2>3. QED
      BY <1>3, <1>4, <2>1, <2>2
  <1>6. CASE KitStops \/ Interrupted \/ ClosingEnds \/ ShutdownTimesOut
    <2>1. FlagTypes'
      <3>1. CASE KitStops
        BY <3>1 DEF KitStops, FlagTypes
      <3>2. CASE Interrupted
        <4>1. interrupted' \in BOOLEAN
          BY <3>2, InterruptedType
        <4>2. QED
          BY <3>2, <4>1 DEF Interrupted, FlagTypes
      <3>3. CASE ClosingEnds
        BY <3>3 DEF ClosingEnds, FlagTypes
      <3>4. CASE ShutdownTimesOut
        BY <3>4 DEF ShutdownTimesOut, FlagTypes
      <3>5. QED
        BY <1>6, <3>1, <3>2, <3>3, <3>4
    <2>2. Order'
      <3>1. CASE KitStops
        BY <1>1, <3>1 DEF KitStops, Order
      <3>2. CASE Interrupted
        BY <1>1, <3>2 DEF Interrupted, Order
      <3>3. CASE ClosingEnds
        BY <1>1, <3>3 DEF ClosingEnds, Order
      <3>4. CASE ShutdownTimesOut
        BY <1>1, <3>4 DEF ShutdownTimesOut, Order
      <3>5. QED
        BY <1>6, <3>1, <3>2, <3>3, <3>4
    <2>3. QED
      BY <1>3, <1>4, <2>1, <2>2
  <1>7. CASE \/ RedisCloses \/ RedisCloseFails \/ RedisTimesOut \/ PgDisposeFails \/ PgTimesOut
             \/ RedisChanges
    <2>1. FlagTypes'
      <3>1. CASE RedisCloses
        BY <3>1 DEF RedisCloses, FlagTypes
      <3>2. CASE RedisCloseFails
        BY <3>2 DEF RedisCloseFails, FlagTypes
      <3>3. CASE RedisTimesOut
        BY <3>3 DEF RedisTimesOut, FlagTypes
      <3>4. CASE PgDisposeFails
        BY <3>4 DEF PgDisposeFails, FlagTypes
      <3>5. CASE PgTimesOut
        BY <3>5 DEF PgTimesOut, FlagTypes
      <3>6. CASE RedisChanges
        <4>1. redisUp' \in BOOLEAN
          BY <3>6, RedisChangesType
        <4>2. QED
          BY <3>6, <4>1 DEF RedisChanges, FlagTypes
      <3>7. QED
        BY <1>7, <3>1, <3>2, <3>3, <3>4, <3>5, <3>6
    <2>2. Order'
      BY <1>1, <1>7 DEF RedisCloses, RedisCloseFails, RedisTimesOut, PgDisposeFails, PgTimesOut,
                        RedisChanges, Order
    <2>3. QED
      BY <1>3, <1>4, <2>1, <2>2
  <1>8. QED
    BY <1>5, <1>6, <1>7

-----------------------------------------------------------------------------
(* Steps of handlers, of the probe and of the pools *)

\* A probe's excuse is only ever added.
LEMMA ExcusedProbe ==
  ASSUME NEW p \in Probes, NEW cause \in BOOLEAN
  PROVE  /\ Excused(p, cause) \in Probes
         /\ Excused(p, cause).db = p.db /\ Excused(p, cause).answer = p.answer
         /\ p.excuse => Excused(p, cause).excuse
         /\ p.db \in {"waiting", "executing"} /\ cause => Excused(p, cause).excuse
  <1> DEFINE excuse == p.excuse \/ (p.db \in {"waiting", "executing"} /\ cause)
  <1>1. excuse \in BOOLEAN
    OBVIOUS
  <1>2. Excused(p, cause) = [p EXCEPT !.excuse = excuse]
    BY DEF Excused
  <1> HIDE DEF excuse
  <1>3. /\ [p EXCEPT !.excuse = excuse] \in Probes
        /\ [p EXCEPT !.excuse = excuse].db = p.db
        /\ [p EXCEPT !.excuse = excuse].answer = p.answer
        /\ [p EXCEPT !.excuse = excuse].excuse = excuse
    BY <1>1 DEF Probes
  <1>4. QED
    BY <1>2, <1>3 DEF excuse

\* The first connection, of a worker that has none.
LEMMA ConnectsInv ==
  ASSUME LifeInv, Connects
  PROVE  LifeInv'
  <1> USE DEF LifeInv, Starting, StartupGoes, world, cache, history
  <1>1. /\ \A h \in Handlers : handler[h] = "none"
        /\ probe.db = "none" /\ engine = "first" /\ pg = "unstarted"
    BY DEF Connects, Order, PoolTypes, Engines
  <1>2. \A e \in Engines : InUse(e) = 0
    BY <1>1, NothingHeld, HeldType DEF Engines
  <1>3. \A e \in Engines : InUse(e)' = InUse(e)
    BY DEF Connects, InUse
  <1>4. FlagTypes'
    BY DEF Connects, FlagTypes
  <1>5. PoolTypes'
    BY <1>2, <1>3, LifespanAssumption DEF Connects, PoolTypes
  <1>6. Order'
    BY <1>1 DEF Connects, Order, PoolTypes, Engines
  <1>7. Excuses'
    BY <1>1 DEF Connects, Excuses
  <1>8. QED
    BY <1>4, <1>5, <1>6, <1>7

\* A connection that is taken is one more in use, of an engine that has room for it.
LEMMA CheckedOutInv ==
  ASSUME LifeInv, NEW h \in Handlers, HandlerConnects(h) \/ KitConnects(h)
  PROVE  LifeInv'
  <1> USE DEF LifeInv, Starting, world, lifecycle, cache
  <1>1. PICK e \in Engines :
          /\ CheckedOut(h, e) /\ handler[h] = "running"
          /\ \/ initialized /\ e = engine /\ engine' = engine /\ initialized' = initialized
             \/ pg = "closed" /\ e = "second" /\ engine' = "second" /\ initialized' = TRUE
             \/ e = "first" /\ engine' = engine /\ initialized' = initialized
    <2>1. CASE KitConnects(h)
      BY <2>1 DEF KitConnects, Engines
    <2>2. CASE HandlerConnects(h) /\ initialized
      BY <2>2 DEF HandlerConnects, EngineAsked, PoolTypes
    <2>3. CASE HandlerConnects(h) /\ ~initialized
      <3>1. pg = "closed"
        BY <2>3 DEF HandlerConnects, Order
      <3>2. QED
        BY <2>3, <3>1 DEF HandlerConnects, EngineAsked, Engines
    <2>4. QED
      BY <2>1, <2>2, <2>3
  <1>2. /\ \A f \in Engines : Held(f) \in Nat /\ Held(f)' \in Nat
        /\ \A f \in Engines \ {e} : Held(f)' = Held(f)
        /\ Held(e)' = Held(e) + 1
    <2>1. handler' = [handler EXCEPT ![h] = e] /\ handler[h] = "running"
      BY <1>1 DEF CheckedOut
    <2>2. \A f \in Engines :
            /\ Held(f) \in Nat /\ Held(f)' \in Nat
            /\ (e = f <=> handler[h] = f) => Held(f)' = Held(f)
            /\ e = f /\ handler[h] # f => Held(f)' = Held(f) + 1
      <3>1. handler \in [Handlers -> {"none", "running", "detached"} \cup Engines]
        BY DEF PoolTypes
      <3>2. QED
        BY <2>1, <3>1, HandlerMoves
    <2>3. \A f \in Engines : handler[h] # f
      BY <2>1 DEF Engines
    <2>4. QED
      BY <2>2, <2>3
  <1>3. /\ probe'.db = probe.db /\ probe'.answer = probe.answer
        /\ probe.excuse => probe'.excuse
        /\ probe.db \in {"waiting", "executing"} /\ InUse(e) + 1 = Pool => probe'.excuse
        /\ probe' \in Probes
    <2>1. probe' = Excused(probe, InUse(e) + 1 = Pool)
      BY <1>1 DEF CheckedOut
    <2>2. (InUse(e) + 1 = Pool) \in BOOLEAN
      OBVIOUS
    <2>3. probe \in Probes
      BY DEF PoolTypes
    <2>4. QED
      BY <2>1, <2>2, <2>3, ExcusedProbe
  <1>4. probe.db # "none" => engine' = engine /\ initialized
    BY <1>1 DEF Order
  <1>5. /\ \A f \in Engines \ {e} : InUse(f)' = InUse(f)
        /\ InUse(e)' = InUse(e) + 1 /\ InUse(e) \in Nat
    BY <1>2, <1>3, <1>4, HeldType DEF InUse, Held
  <1>6. /\ open' = [open EXCEPT ![e] = AtLeast(@, InUse(e) + 1)]
        /\ InUse(e) < Pool /\ InUse(e) + 1 <= open'[e] /\ open'[e] \in 0..Pool
        /\ \A f \in Engines \ {e} : open'[f] = open[f]
    BY <1>1, <1>5, LifespanAssumption DEF CheckedOut, PoolTypes, Exhausted, AtLeast
  <1>7. PoolTypes'
    <2>1. /\ open' \in [Engines -> 0..Pool]
          /\ \A f \in Engines : InUse(f)' <= open'[f]
      BY <1>5, <1>6 DEF PoolTypes
    <2>2. handler' \in [Handlers -> {"none", "running", "detached"} \cup Engines]
      BY <1>1 DEF CheckedOut, PoolTypes
    <2>3. engine' \in Engines /\ attempt' \in 0..Attempts
      BY <1>1 DEF CheckedOut, PoolTypes, Engines
    <2>4. QED
      BY <1>3, <2>1, <2>2, <2>3 DEF PoolTypes
  <1>8. FlagTypes'
    BY ZenonT(60), <1>1 DEF CheckedOut, FlagTypes
  <1>9. Order'
    <2>1. \A g \in Handlers : handler[g] = "none" => g # h
      BY <1>1
    <2>2. phase \notin {"loading", "refused"} \cup Starting
      BY <1>1 DEF Order
    <2>3. pg' = pg /\ rd' = rd /\ phase' = phase /\ client' = client /\ interrupted' = interrupted
      BY <1>1 DEF CheckedOut
    <2>4. /\ reopened \subseteq reopened'
          /\ pg = "closed" => "database" \in reopened'
      BY <1>1 DEF CheckedOut
    <2>5. open'["second"] # 0 => engine' = "second"
      BY <1>1, <1>6 DEF Order, Engines
    <2>6. engine' = "second" => pg = "closed"
      BY <1>1 DEF Order
    <2>7. QED
      BY <1>1, <1>3, <2>2, <2>3, <2>4, <2>5, <2>6 DEF Order
  <1>10. Excuses'
    <2>1. db' = db
      BY <1>1 DEF CheckedOut
    <2>2. CASE probe.db \in {"waiting", "executing"}
      <3>1. engine' = engine /\ engine \in Engines
        BY <1>4, <2>2 DEF PoolTypes
      <3>2. Exhausted(engine)' => Exhausted(engine) \/ InUse(e) + 1 = Pool
        BY <1>5, <3>1 DEF Exhausted
      <3>3. QED
        BY <1>3, <2>1, <2>2, <3>1, <3>2 DEF Excuses
    <2>3. CASE probe.db \notin {"waiting", "executing"}
      BY <1>3, <2>1, <2>3 DEF Excuses
    <2>4. QED
      BY <2>2, <2>3
  <1>11. QED
    BY <1>7, <1>8, <1>9, <1>10

\* Handlers that start, end or give their connection back take nothing.
LEMMA HandlerStepInv ==
  ASSUME LifeInv, NEW h \in Handlers, HandlerStarts(h) \/ HandlerReturns(h) \/ HandlerEnds(h)
  PROVE  LifeInv'
  <1> USE DEF LifeInv, Starting, Stopping, world, lifecycle, cache, history
  <1>1. PICK v \in {"none", "running"} :
          /\ handler' = [handler EXCEPT ![h] = v]
          /\ UNCHANGED <<world, lifecycle, engine, initialized, open, cache, probe, history>>
          /\ phase = "serving" \/ handler[h] # "none"
    BY DEF HandlerStarts, HandlerReturns, HandlerEnds, Engines
  <1>2. \A e \in Engines : Held(e) \in Nat /\ Held(e)' \in Nat /\ Held(e)' <= Held(e)
    <2>1. handler \in [Handlers -> {"none", "running", "detached"} \cup Engines]
      BY DEF PoolTypes
    <2>2. \A e \in Engines :
            /\ Held(e) \in Nat /\ Held(e)' \in Nat
            /\ (v = e <=> handler[h] = e) => Held(e)' = Held(e)
            /\ v # e /\ handler[h] = e => Held(e)' = Held(e) - 1
      BY <1>1, <2>1, HandlerMoves
    <2>3. \A e \in Engines : v # e
      BY <1>1 DEF Engines
    <2>4. QED
      BY <2>2, <2>3
  <1>3. \A e \in Engines : InUse(e) \in Nat /\ InUse(e)' \in Nat /\ InUse(e)' <= InUse(e)
    <2>1. \A e \in Engines :
            /\ InUse(e) = Held(e) + (IF probe.db = "executing" /\ e = engine THEN 1 ELSE 0)
            /\ InUse(e)' = Held(e)' + (IF probe.db = "executing" /\ e = engine THEN 1 ELSE 0)
      BY <1>1 DEF InUse, Held
    <2>2. QED
      BY <1>2, <2>1
  <1>4. FlagTypes'
    BY <1>1 DEF FlagTypes
  <1>5. PoolTypes'
    <2>1. handler' \in [Handlers -> {"none", "running", "detached"} \cup Engines]
      BY <1>1 DEF PoolTypes
    <2>2. \A e \in Engines : InUse(e)' <= open'[e]
      BY <1>1, <1>3 DEF PoolTypes
    <2>3. QED
      BY <1>1, <2>1, <2>2 DEF PoolTypes
  <1>6. Order'
    <2>1. phase \notin {"loading", "refused"} \cup Starting
      BY <1>1 DEF Order
    <2>2. QED
      BY <1>1, <2>1 DEF Order
  <1>7. Excuses'
    <2>1. Exhausted(engine)' => Exhausted(engine)
      BY <1>1, <1>3, LifespanAssumption DEF Exhausted, PoolTypes
    <2>2. QED
      BY <1>1, <2>1 DEF Excuses
  <1>8. QED
    BY <1>4, <1>5, <1>6, <1>7

\* A closed cache that is used again is one that was opened again.
LEMMA UsesCacheInv ==
  ASSUME LifeInv, NEW h \in Handlers, HandlerUsesCache(h)
  PROVE  LifeInv'
  <1> USE DEF LifeInv, Starting, Stopping, world, lifecycle, pools, HandlerUsesCache, CacheReconnects
  <1>1. \A e \in Engines : InUse(e)' = InUse(e)
    BY DEF InUse
  <1>2. FlagTypes'
    BY DEF FlagTypes
  <1>3. PoolTypes'
    BY <1>1 DEF PoolTypes
  <1>4. Order'
    BY DEF Order, FlagTypes
  <1>5. Excuses'
    BY <1>1 DEF Excuses, Exhausted, PoolTypes
  <1>6. QED
    BY <1>2, <1>3, <1>4, <1>5

\* What a probe does that takes no connection: only its state changes, and it is not
\* executing unless it was.
LEMMA ProbeOnlyInv ==
  ASSUME LifeInv, ProbeOnly, UNCHANGED <<engine, initialized, open, cache>>,
         probe' \in Probes, probe'.db = "executing" => probe.db = "executing",
         probe'.db # "none" => phase = "serving", Excuses'
  PROVE  LifeInv'
  <1> USE DEF LifeInv, Starting, Stopping, world, lifecycle, cache, history, ProbeOnly
  <1>1. \A e \in Engines : Held(e)' = Held(e) /\ Held(e) \in Nat
    BY HeldType DEF Held
  <1>2. \A e \in Engines : InUse(e)' <= InUse(e) /\ InUse(e) \in Nat /\ InUse(e)' \in Nat
    <2>1. \A e \in Engines :
            InUse(e)' = Held(e)' + (IF probe'.db = "executing" /\ e = engine THEN 1 ELSE 0)
      BY DEF InUse, Held
    <2>2. QED
      BY <1>1, <2>1, HeldType
  <1>3. FlagTypes'
    BY DEF FlagTypes
  <1>4. PoolTypes'
    <2>1. \A e \in Engines : InUse(e)' <= open'[e]
      BY <1>2 DEF PoolTypes
    <2>2. QED
      BY <2>1 DEF PoolTypes
  <1>5. Order'
    BY DEF Order
  <1>6. QED
    BY <1>3, <1>4, <1>5

\* A probe starts with the excuse that is there already.
LEMMA ProbeStartsInv ==
  ASSUME LifeInv, ProbeStarts
  PROVE  LifeInv'
  <1> DEFINE excuse == db # "answers" \/ Exhausted(engine)
  <1>1. excuse \in BOOLEAN
    OBVIOUS
  <1>2. /\ probe' = [db |-> "waiting", cache |-> "asking", answer |-> 0, excuse |-> excuse]
        /\ phase = "serving" /\ probe.db = "none"
        /\ UNCHANGED <<engine, initialized, open, cache, handler, db>> /\ ProbeOnly
    BY DEF ProbeStarts, ProbeOnly, world
  <1>3. Exhausted(engine)' <=> Exhausted(engine)
    <2>1. InUse(engine)' = InUse(engine)
      BY <1>2 DEF InUse
    <2>2. QED
      BY <2>1 DEF Exhausted
  <1> HIDE DEF excuse
  <1>4. /\ probe' \in Probes
        /\ probe'.db = "waiting" /\ probe'.answer = 0 /\ probe'.excuse = excuse
    BY <1>1, <1>2 DEF Probes
  <1>5. Excuses'
    <2>1. db # "answers" \/ Exhausted(engine) => excuse
      BY DEF excuse
    <2>2. QED
      BY <1>2, <1>3, <1>4, <2>1 DEF Excuses
  <1>6. QED
    BY <1>2, <1>4, <1>5, ProbeOnlyInv

\* The probe takes a connection of an engine that has one for it.
LEMMA ProbeConnectsInv ==
  ASSUME LifeInv, ProbeConnects
  PROVE  LifeInv'
  <1> USE DEF LifeInv, Starting, Stopping, world, lifecycle, cache, history, ProbeOnly, ProbeConnects
  <1>1. /\ probe' \in Probes
        /\ probe'.db = "executing" /\ probe'.answer = probe.answer /\ probe'.excuse = probe.excuse
    BY DEF PoolTypes, Probes
  <1>2. \A e \in Engines : Held(e)' = Held(e) /\ Held(e) \in Nat
    BY HeldType DEF Held
  <1>3. /\ \A e \in Engines \ {engine} : InUse(e)' = InUse(e)
        /\ InUse(engine)' = InUse(engine) + 1 /\ InUse(engine) \in Nat /\ engine \in Engines
    BY <1>1, <1>2, HeldType DEF InUse, Held, PoolTypes
  <1>4. /\ InUse(engine) + 1 <= open'[engine] /\ open'[engine] \in 0..Pool
        /\ \A e \in Engines \ {engine} : open'[e] = open[e]
    BY <1>3, LifespanAssumption DEF PoolTypes, Exhausted, AtLeast
  <1>5. FlagTypes'
    BY DEF FlagTypes
  <1>6. PoolTypes'
    <2>1. /\ open' \in [Engines -> 0..Pool]
          /\ \A e \in Engines : InUse(e)' <= open'[e]
      BY <1>3, <1>4 DEF PoolTypes
    <2>2. QED
      BY <1>1, <2>1 DEF PoolTypes
  <1>7. Order'
    <2>1. phase = "serving" /\ pg = "unstarted" /\ engine = "first"
      BY DEF Order, PoolTypes, Engines
    <2>2. QED
      BY <1>1, <1>4, <2>1 DEF Order, Engines
  <1>8. Excuses'
    BY <1>1 DEF Excuses
  <1>9. QED
    BY <1>5, <1>6, <1>7, <1>8

\* A check's result, and the answer they make.
LEMMA ProbeProceedsInv ==
  ASSUME LifeInv, ProbeProceeds
  PROVE  LifeInv'
  <1> USE DEF LifeInv
  <1>1. CASE ProbeConnects
    BY <1>1, ProbeConnectsInv
  <1>2. CASE ~ProbeConnects
    <2>1. /\ ProbeOnly /\ UNCHANGED <<engine, initialized, open, cache, handler, db>>
      BY <1>2 DEF ProbeProceeds, ProbeSucceeds, ProbeCannotConnect, ProbeBreaks, ProbePings,
                  ProbeAnswers, ProbeFinds, ProbeOnly, world
    <2>2. probe \in Probes
      BY DEF PoolTypes
    <2>3. CASE ProbePings
      <3>1. /\ probe' \in Probes /\ probe'.db = probe.db
            /\ probe'.answer = probe.answer /\ probe'.excuse = probe.excuse
        BY <2>2, <2>3 DEF ProbePings, Probes
      <3>2. Exhausted(engine)' <=> Exhausted(engine)
        BY <2>1, <3>1 DEF Exhausted, InUse
      <3>3. Excuses'
        BY <2>1, <3>1, <3>2 DEF Excuses
      <3>4. QED
        BY <2>1, <3>1, <3>3, ProbeOnlyInv DEF Order
    <2>4. CASE ProbeSucceeds \/ ProbeCannotConnect \/ ProbeBreaks
      <3>1. PICK status \in {"healthy", "unhealthy"} :
              /\ probe' = [probe EXCEPT !.db = status]
              /\ probe.db # "none" /\ status = "unhealthy" => probe.excuse
              /\ probe.db # "none"
        BY <2>4 DEF ProbeSucceeds, ProbeCannotConnect, ProbeBreaks, ProbeFinds, Excuses
      <3>2. /\ probe' \in Probes /\ probe'.db = status
            /\ probe'.answer = probe.answer /\ probe'.excuse = probe.excuse
        BY <2>2, <3>1 DEF Probes
      <3>3. Excuses'
        BY <3>1, <3>2 DEF Excuses
      <3>4. QED
        BY <2>1, <3>1, <3>2, <3>3, ProbeOnlyInv DEF Order
    <2>5. CASE ProbeAnswers
      <3>1. probe.db \in {"healthy", "unhealthy"}
        BY <2>5 DEF ProbeAnswers
      <3>2. PICK answer \in {200, 503} :
              /\ probe' = [NoProbe EXCEPT !.answer = answer, !.excuse = probe.excuse]
              /\ answer = 503 => probe.db = "unhealthy"
        <4>1. CASE probe.db = "healthy"
          BY <2>5, <4>1 DEF ProbeAnswers, IsReady
        <4>2. CASE probe.db = "unhealthy"
          BY <2>5, <4>2 DEF ProbeAnswers, IsReady
        <4>3. QED
          BY <3>1, <4>1, <4>2
      <3>3. probe' = [db |-> "none", cache |-> "none", answer |-> answer, excuse |-> probe.excuse]
        BY <3>2 DEF NoProbe
      <3>4. probe.excuse \in BOOLEAN
        BY <2>2 DEF Probes
      <3>5. /\ probe' \in Probes /\ probe'.db = "none"
            /\ probe'.answer = answer /\ probe'.excuse = probe.excuse
        BY <3>3, <3>4 DEF Probes
      <3>6. Excuses'
        BY <3>2, <3>5 DEF Excuses
      <3>7. QED
        BY <2>1, <3>5, <3>6, ProbeOnlyInv
    <2>6. QED
      BY <1>2, <2>3, <2>4, <2>5 DEF ProbeProceeds
  <1>3. QED
    BY <1>1, <1>2

\* A stop request drops the probe with its connection.
LEMMA StopRequestedInv ==
  ASSUME LifeInv, StopRequested
  PROVE  LifeInv'
  <1> USE DEF LifeInv, Starting, Stopping, world, pools, cache, history, StopRequested
  <1>1. probe' \in Probes /\ probe'.db = "none" /\ probe'.answer = 0
    BY DEF NoProbe, Probes
  <1>2. \A e \in Engines : InUse(e)' <= InUse(e) /\ InUse(e) \in Nat /\ InUse(e)' \in Nat
    <2>1. \A e \in Engines : InUse(e)' = Held(e)
      <3>1. \A e \in Engines : Held(e)' = Held(e)
        BY DEF Held
      <3>2. \A e \in Engines :
              InUse(e)' = Held(e)' + (IF probe'.db = "executing" /\ e = engine THEN 1 ELSE 0)
        BY DEF InUse, Held
      <3>3. QED
        BY <1>1, <3>1, <3>2, HeldType
    <2>2. QED
      BY <2>1, HeldType
  <1>3. FlagTypes'
    BY DEF FlagTypes
  <1>4. PoolTypes'
    <2>1. \A e \in Engines : InUse(e)' <= open'[e]
      BY <1>2 DEF PoolTypes
    <2>2. QED
      BY <1>1, <2>1 DEF PoolTypes
  <1>5. Order'
    BY <1>1 DEF Order
  <1>6. Excuses'
    BY <1>1 DEF Excuses
  <1>7. QED
    BY <1>3, <1>4, <1>5, <1>6

\* Disposing closes the current engine's connections, and detaches those in use.
LEMMA PgDisposesInv ==
  ASSUME LifeInv, PgDisposes
  PROVE  LifeInv'
  <1> USE DEF LifeInv, Starting, Stopping, world, cache, history, PgEnds, PgDisposes
  <1>1. /\ phase \in {"closing", "over"} /\ probe.db = "none"
        /\ engine = "first" /\ open["second"] = 0
    BY DEF Order, PoolTypes, Engines
  <1>2. /\ open' \in [Engines -> 0..Pool] /\ \A e \in Engines : open'[e] = 0
    BY <1>1, LifespanAssumption DEF PoolTypes, Engines
  <1>3. handler' \in [Handlers -> {"none", "running", "detached"} \cup Engines]
    BY DEF PoolTypes, Engines
  <1>4. \A e \in Engines : InUse(e)' = 0
    <2>1. Held("first")' = 0
      <3>1. \A h \in Handlers : handler'[h] # "first"
        BY <1>1
      <3>2. {h \in Handlers : handler'[h] = "first"} = {}
        BY <3>1
      <3>3. QED
        BY <3>2, FS_EmptySet DEF Held
    <2>2. Held("second")' = 0
      <3>1. Held("second") = 0
        BY <1>1, HeldType DEF PoolTypes, Engines
      <3>2. {h \in Handlers : handler'[h] = "second"} = {h \in Handlers : handler[h] = "second"}
        BY <1>1
      <3>3. QED
        BY <3>1, <3>2 DEF Held
    <2>3. \A e \in Engines :
            InUse(e)' = Held(e)' + (IF probe'.db = "executing" /\ e = engine' THEN 1 ELSE 0)
      BY DEF InUse, Held
    <2>4. QED
      BY <1>1, <2>1, <2>2, <2>3 DEF Engines
  <1>5. FlagTypes'
    BY DEF FlagTypes
  <1>6. PoolTypes'
    BY <1>2, <1>3, <1>4 DEF PoolTypes
  <1>7. Order'
    BY <1>1, <1>2 DEF Order, Engines
  <1>8. Excuses'
    BY <1>1 DEF Excuses
  <1>9. QED
    BY <1>5, <1>6, <1>7, <1>8

\* A database that stops answering is an excuse.
LEMMA DatabaseChangesInv ==
  ASSUME LifeInv, DatabaseChanges
  PROVE  LifeInv'
  <1> USE DEF LifeInv, Starting, Stopping, lifecycle, pools, cache, history, DatabaseChanges
  <1>1. (db' # "answers") \in BOOLEAN /\ probe \in Probes
    BY DEF PoolTypes
  <1>2. /\ probe' \in Probes /\ probe'.db = probe.db /\ probe'.answer = probe.answer
        /\ probe.excuse => probe'.excuse
        /\ probe.db \in {"waiting", "executing"} /\ db' # "answers" => probe'.excuse
    BY <1>1, ExcusedProbe
  <1>3. \A e \in Engines : InUse(e)' = InUse(e)
    BY <1>2 DEF InUse
  <1>4. FlagTypes'
    BY DEF FlagTypes
  <1>5. PoolTypes'
    BY <1>2, <1>3 DEF PoolTypes
  <1>6. Order'
    BY <1>2 DEF Order
  <1>7. Excuses'
    <2>1. Exhausted(engine)' <=> Exhausted(engine)
      BY <1>3 DEF Exhausted, PoolTypes
    <2>2. QED
      BY <1>2, <2>1 DEF Excuses
  <1>8. QED
    BY <1>4, <1>5, <1>6, <1>7

\* The next process starts as the first one did.
LEMMA RestartsInv ==
  ASSUME LifeInv, Restarts
  PROVE  LifeInv'
  <1> USE DEF LifeInv, Starting, Stopping, world, Restarts, NoProbe
  <1>1. \A e \in Engines : InUse(e)' = 0
    <2>1. \A e \in Engines : {h \in Handlers : handler'[h] = e} = {}
      BY DEF Engines
    <2>2. \A e \in Engines : Held(e)' = 0
      BY <2>1, FS_EmptySet DEF Held
    <2>3. \A e \in Engines :
            InUse(e)' = Held(e)' + (IF probe'.db = "executing" /\ e = engine' THEN 1 ELSE 0)
      BY DEF InUse, Held
    <2>4. QED
      BY <2>2, <2>3
  <1>2. FlagTypes'
    BY DEF FlagTypes
  <1>3. PoolTypes'
    BY <1>1, LifespanAssumption DEF PoolTypes, Probes, Engines
  <1>4. Order' /\ Excuses'
    BY DEF Order, Excuses, Engines
  <1>5. QED
    BY <1>2, <1>3, <1>4

-----------------------------------------------------------------------------
(* The theorems *)

\* Every step keeps the invariant.
LEMMA LifeStep == LifeInv /\ [Next]_processVars => LifeInv'
  <1> SUFFICES ASSUME LifeInv, [Next]_processVars PROVE LifeInv'
    OBVIOUS
  <1>1. CASE UNCHANGED vars
    <2>1. \A e : InUse(e)' = InUse(e)
      BY <1>1 DEF InUse, vars, pools
    <2>2. FlagTypes'
      BY <1>1 DEF LifeInv, FlagTypes, vars, world, lifecycle, pools, cache, history
    <2>3. PoolTypes'
      BY <1>1, <2>1 DEF LifeInv, PoolTypes, vars, lifecycle, pools
    <2>4. Order'
      BY <1>1 DEF LifeInv, Order, vars, lifecycle, pools, cache, history
    <2>5. Excuses'
      BY <1>1, <2>1 DEF LifeInv, Excuses, Exhausted, vars, world, pools
    <2>6. QED
      BY <2>2, <2>3, <2>4, <2>5 DEF LifeInv
  <1>2. ASSUME NEW h \in Handlers,
               \/ HandlerStarts(h) \/ HandlerConnects(h) \/ KitConnects(h) \/ HandlerReturns(h)
               \/ HandlerEnds(h) \/ HandlerUsesCache(h)
        PROVE  LifeInv'
    BY <1>2, HandlerStepInv, CheckedOutInv, UsesCacheInv
  <1>3. CASE LifespanNext
    BY <1>2, <1>3, PhaseSteps, ConnectsInv, ProbeStartsInv, ProbeProceedsInv, StopRequestedInv,
       PgDisposesInv, DatabaseChangesInv DEF LifespanNext, ConnectEnds
  <1>4. CASE Restarts
    BY <1>4, RestartsInv
  <1>5. QED
    BY <1>1, <1>3, <1>4 DEF Next, processVars

\* A worker's pools, probe, phases and flags in every reachable state.
THEOREM Inductive == Spec => []LifeInv
  BY LifeInit, LifeStep, PTL DEF Spec

\* Every variable keeps its type, and no engine has more connections in use than are
\* open, nor more open than its pool has.
THEOREM TypeCorrect == Spec => []TypeOK
  <1>1. LifeInv => LifespanTypeOK
    BY TypesByKind DEF LifeInv
  <1>2. SessionInv => PanelTypeOK
    BY DEF SessionInv
  <1>3. QED
    BY <1>1, <1>2, Inductive, SessionInit, SessionStep, PTL DEF Spec, TypeOK

\* A worker is reported unready only if its database did not answer or its pool was
\* exhausted while the probe asked, never for its cache.
THEOREM UnreadyIsExcused == Spec => []UnreadyHasExcuse
  <1>1. LifeInv => UnreadyHasExcuse
    BY DEF LifeInv, Excuses, UnreadyHasExcuse
  <1>2. QED
    BY <1>1, Inductive, PTL

\* What is open after the shutdown was opened again after it, or its close failed, is
\* late or was cancelled.
THEOREM NothingLeftOpen == Spec => []LeftOpenHasCause
  <1>1. LifeInv => LeftOpenHasCause
    <2> SUFFICES ASSUME LifeInv, phase = "over", ~interrupted
                 PROVE  /\ "unstarted" \notin {rd, pg}
                        /\ client => rd # "closed" \/ "redis" \in reopened
                        /\ (\E e \in Engines : open[e] > 0) => pg # "closed" \/ "database" \in reopened
      BY DEF LeftOpenHasCause
    <2>1. "unstarted" \notin {rd, pg} /\ (client => rd # "closed" \/ "redis" \in reopened)
      BY DEF LifeInv, Order
    <2>2. (\E e \in Engines : open[e] > 0) => pg # "closed" \/ "database" \in reopened
      BY DEF LifeInv, Order
    <2>3. QED
      BY <2>1, <2>2
  <1>2. QED
    BY <1>1, Inductive, PTL

=============================================================================
