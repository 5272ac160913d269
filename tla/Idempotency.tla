----------------------------- MODULE Idempotency -----------------------------
(***************************************************************************)
(* The idempotency service of core/infrastructure/idempotency/service.py:  *)
(* callers ("workers": a request handler or a webhook task) check a key,   *)
(* process it when the answer is NEW, store the result and drop the        *)
(* in-progress marker.  Every await on Redis is a step of its own; the Lua *)
(* script is one step because Redis runs it atomically.                    *)
(*                                                                         *)
(* With the in-memory fallback (local/dev/test) no cache operation         *)
(* suspends the coroutine, so a whole service call is one step there.      *)
(*                                                                         *)
(* What goes wrong is drawn from Faults and limited to MaxFaults per run:  *)
(*   "redis"   a command fails: Redis down, time-out, breaker open,        *)
(*             or its reply is lost after the server executed it           *)
(*   "crash"   the worker dies or is cancelled between two steps           *)
(*   "slow"    processing outlives the marker's TTL                        *)
(*   "fail"    processing raises: the caller clears the marker             *)
(*   "encode"  the response cannot be serialised                           *)
(*   "admin"   an operator invalidates a key or sweeps the markers         *)
(*   "retire"  a stored result reaches its TTL                             *)
(***************************************************************************)
EXTENDS Naturals, FiniteSets

CONSTANTS Workers,      \* callers of the service
          Keys,         \* idempotency keys, after namespacing and hashing
          NoOne,        \* no marker / no stored result
          Faults,       \* the kinds of fault this run admits
          MaxFaults,    \* how many of them (a bound of the model)
          MaxCleanup    \* max_cleanup of cleanup_stuck_in_progress

FaultKinds == {"redis", "crash", "slow", "fail", "encode", "admin", "retire"}

ASSUME WorkersAssumption == IsFiniteSet(Workers) /\ NoOne \notin Workers \cup Keys
ASSUME FaultsAssumption == Faults \subseteq FaultKinds
ASSUME BoundsAssumption == MaxFaults \in Nat /\ MaxCleanup \in Nat

VARIABLES fallback,     \* CacheService._using_fallback: in-memory cache, no Redis
          marker,       \* the in-progress key; the code stores '1', the model who set it
          completed,    \* the completed key: whose response is cached
          pc, job,      \* per worker: next step, and the key it is for
          invalidating, \* keys between the two deletes of invalidate()
          sweep,        \* markers a cleanup has scanned and not yet deleted
          cleaned,      \* markers the running cleanup has deleted
          effects,      \* history: how often each key was really processed
          acked,        \* history: the sender was given the key's response
          disturbed,    \* history: events that void the protection of a key
          budget        \* faults still to come

store == <<marker, completed>>
admin == <<invalidating, sweep, cleaned>>
vars == <<fallback, marker, completed, pc, job, invalidating, sweep, cleaned,
          effects, acked, disturbed, budget>>

Steps == {"idle", "check", "ping", "get", "setnx", "running", "store",
          "unmark", "clear"}

TypeOK ==
  /\ fallback \in BOOLEAN
  /\ marker \in [Keys -> Workers \cup {NoOne}]
  /\ completed \in [Keys -> Workers \cup {NoOne}]
  /\ pc \in [Workers -> Steps]
  /\ job \in [Workers -> Keys \cup {NoOne}]
  /\ invalidating \in SUBSET Keys
  /\ sweep \in SUBSET Keys
  /\ cleaned \in 0..MaxCleanup
  /\ effects \in [Keys -> Nat]
  /\ acked \in [Keys -> BOOLEAN]
  /\ disturbed \in [Keys -> Nat]
  /\ budget \in 0..MaxFaults

Init ==
  /\ fallback \in BOOLEAN
  /\ marker = [k \in Keys |-> NoOne]
  /\ completed = [k \in Keys |-> NoOne]
  /\ pc = [w \in Workers |-> "idle"]
  /\ job = [w \in Workers |-> NoOne]
  /\ invalidating = {} /\ sweep = {} /\ cleaned = 0
  /\ effects = [k \in Keys |-> 0]
  /\ acked = [k \in Keys |-> FALSE]
  /\ disturbed = [k \in Keys |-> 0]
  /\ budget = MaxFaults

-----------------------------------------------------------------------------
(* Helpers *)

\* One fault of the given kind happens in this step.
Fault(kind) == kind \in Faults /\ budget > 0 /\ budget' = budget - 1

At(w, step) == pc[w] = step
Goto(w, step) == pc' = [pc EXCEPT ![w] = step] /\ UNCHANGED job
Finish(w) ==
  /\ pc' = [pc EXCEPT ![w] = "idle"]
  /\ job' = [job EXCEPT ![w] = NoOne]

\* Workers that have been told NEW for k and have not processed it yet.
Running(k) == {w \in Workers : pc[w] = "running" /\ job[w] = k}

\* w has been told NEW for k and its response is not in the cache yet.
InSection(w, k) == pc[w] \in {"running", "store"} /\ job[w] = k

\* The marker of k stands for a worker that still relies on it.
Live(k) == marker[k] \in Workers /\ InSection(marker[k], k)

\* An event that voids the protection of k other than by its holder's doing.
Disturb(k) == disturbed' = [disturbed EXCEPT ![k] = @ + 1]
DisturbIf(cond, k) == IF cond THEN Disturb(k) ELSE UNCHANGED disturbed

Mark(w, k) == marker' = [marker EXCEPT ![k] = w]
\* Deletes the marker whoever has set it: its value ('1') names no owner.
Unmark(k) == marker' = [marker EXCEPT ![k] = NoOne]
Ack(k) == acked' = [acked EXCEPT ![k] = TRUE]

-----------------------------------------------------------------------------
(* check() *)

\* A sender delivers (or delivers again) key k and a worker calls check().
Deliver(w, k) ==
  /\ At(w, "idle")
  /\ pc' = [pc EXCEPT ![w] = "check"]
  /\ job' = [job EXCEPT ![w] = k]
  /\ UNCHANGED <<fallback, store, admin, effects, acked, disturbed, budget>>

\* DUPLICATE: the sender is given the cached response.
AnswerDuplicate(w) == Finish(w) /\ Ack(job[w])

\* Mutant: SET without NX, every check acquires the marker.
AcquireAlways(w) ==
  /\ Mark(w, job[w]) /\ Goto(w, "running") /\ UNCHANGED acked

\* Mutant: the caller answers IN_PROGRESS as if it were DUPLICATE.
AcquireOrAnswer(w) ==
  \/ marker[job[w]] = NoOne /\ Mark(w, job[w]) /\ Goto(w, "running") /\ UNCHANGED acked
  \/ marker[job[w]] # NoOne /\ UNCHANGED marker /\ AnswerDuplicate(w)

\* Acquire the marker if there is none (SET NX): NEW, else IN_PROGRESS.
AcquireOrYield(w) ==
  /\ \/ /\ marker[job[w]] = NoOne
        /\ Mark(w, job[w])
        /\ Goto(w, "running")
     \/ /\ marker[job[w]] # NoOne
        /\ UNCHANGED marker
        /\ Finish(w)
  /\ UNCHANGED acked

\* Mutant: the script acquires without looking for a completed result.
CheckMarkerOnly(w) ==
  /\ At(w, "check")
  /\ AcquireOrYield(w)
  /\ UNCHANGED <<fallback, completed, admin, effects, disturbed, budget>>

\* GET completed, then SET NX, with nothing in between: the Lua script on
\* Redis, and _check_non_atomic on the in-memory cache, which never suspends.
CheckAtomically(w) ==
  /\ At(w, "check")
  /\ \/ /\ completed[job[w]] # NoOne
        /\ AnswerDuplicate(w)
        /\ UNCHANGED marker
     \/ /\ completed[job[w]] = NoOne
        /\ AcquireOrYield(w)
  /\ UNCHANGED <<fallback, completed, admin, effects, disturbed, budget>>

\* execute_lua_script returns None: the script never ran, or it ran (and may
\* have set the marker) and its reply was lost.
LuaFails(w) ==
  /\ At(w, "check") /\ ~fallback /\ Fault("redis")
  /\ \/ UNCHANGED marker
     \/ /\ completed[job[w]] = NoOne /\ marker[job[w]] = NoOne
        /\ Mark(w, job[w])
  /\ Disturb(job[w])
  /\ Goto(w, "ping")
  /\ UNCHANGED <<fallback, completed, admin, effects, acked>>

PingAnswers(w) ==
  /\ At(w, "ping")
  /\ Goto(w, "get")
  /\ UNCHANGED <<fallback, store, admin, effects, acked, disturbed, budget>>

\* Fail closed: IdempotencyCacheError, the request is refused.
PingFails(w) ==
  /\ At(w, "ping") /\ Fault("redis")
  /\ Finish(w)
  /\ UNCHANGED <<fallback, store, admin, effects, acked, disturbed>>

\* _check_non_atomic on Redis, first await: look for a completed result.
GetCompleted(w) ==
  /\ At(w, "get")
  /\ \/ completed[job[w]] # NoOne /\ AnswerDuplicate(w)
     \/ completed[job[w]] = NoOne /\ Goto(w, "setnx") /\ UNCHANGED acked
  /\ UNCHANGED <<fallback, store, admin, effects, disturbed, budget>>

\* cache.get answers None for a failed read, as it does for a miss.
GetFails(w) ==
  /\ At(w, "get") /\ Fault("redis")
  /\ Goto(w, "setnx")
  /\ UNCHANGED <<fallback, store, admin, effects, acked, disturbed>>

\* _check_non_atomic on Redis, second await.
SetnxMarker(w) ==
  /\ At(w, "setnx")
  /\ AcquireOrYield(w)
  /\ UNCHANGED <<fallback, completed, admin, effects, disturbed, budget>>

\* cache.setnx answers False for a failed command: IN_PROGRESS, although the
\* command may have set the marker before its reply was lost.
SetnxFails(w) ==
  /\ At(w, "setnx") /\ Fault("redis")
  /\ \/ UNCHANGED marker
     \/ marker[job[w]] = NoOne /\ Mark(w, job[w])
  /\ Finish(w)
  /\ UNCHANGED <<fallback, completed, admin, effects, acked, disturbed>>

-----------------------------------------------------------------------------
(* The caller's processing, then store() or clear_in_progress() *)

Process(w) ==
  /\ At(w, "running")
  /\ effects' = [effects EXCEPT ![job[w]] = @ + 1]
  /\ Goto(w, "store")
  /\ UNCHANGED <<fallback, store, admin, acked, disturbed, budget>>

ProcessFails(w) ==
  /\ At(w, "running") /\ Fault("fail")
  /\ Goto(w, "clear")
  /\ UNCHANGED <<fallback, store, admin, effects, acked, disturbed>>

\* store() on Redis, first await: SETEX of the response.
StoreResult(w) ==
  /\ At(w, "store") /\ ~fallback
  /\ completed' = [completed EXCEPT ![job[w]] = w]
  /\ Goto(w, "unmark")
  /\ UNCHANGED <<fallback, marker, admin, effects, acked, disturbed, budget>>

\* The response cannot be encoded, or SETEX fails (its False is not looked at):
\* store() goes on to delete the marker, and nothing is cached.
StoreSkipsResult(w) ==
  /\ At(w, "store")
  /\ Fault("encode") \/ (~fallback /\ Fault("redis"))
  /\ Disturb(job[w])
  /\ Goto(w, "unmark")
  /\ UNCHANGED <<fallback, store, admin, effects, acked>>

\* store() on Redis, second await; then the caller returns its response.
StoreUnmarks(w) ==
  /\ At(w, "unmark")
  /\ Unmark(job[w])
  /\ DisturbIf(Live(job[w]), job[w])
  /\ Ack(job[w])
  /\ Finish(w)
  /\ UNCHANGED <<fallback, completed, admin, effects, budget>>

StoreUnmarkFails(w) ==
  /\ At(w, "unmark") /\ ~fallback /\ Fault("redis")
  /\ Ack(job[w])
  /\ Finish(w)
  /\ UNCHANGED <<fallback, store, admin, effects, disturbed>>

\* store() on the in-memory cache: both writes in one step.
StoreInMemory(w) ==
  /\ At(w, "store") /\ fallback
  /\ completed' = [completed EXCEPT ![job[w]] = w]
  /\ Unmark(job[w])
  /\ DisturbIf(Live(job[w]) /\ marker[job[w]] # w, job[w])
  /\ Ack(job[w])
  /\ Finish(w)
  /\ UNCHANGED <<fallback, admin, effects, budget>>

ClearInProgress(w) ==
  /\ At(w, "clear")
  /\ Unmark(job[w])
  /\ DisturbIf(Live(job[w]), job[w])
  /\ Finish(w)
  /\ UNCHANGED <<fallback, completed, admin, effects, acked, budget>>

ClearInProgressFails(w) ==
  /\ At(w, "clear") /\ ~fallback /\ Fault("redis")
  /\ Finish(w)
  /\ UNCHANGED <<fallback, store, admin, effects, acked, disturbed>>

-----------------------------------------------------------------------------
(* Crashes and time *)

\* A worker dies or is cancelled; what it wrote to the cache stays.
Crash(w) ==
  /\ ~At(w, "idle") /\ Fault("crash")
  /\ DisturbIf(At(w, "store"), job[w])
  /\ Finish(w)
  /\ UNCHANGED <<fallback, store, admin, effects, acked>>

\* The process dies and takes the in-memory cache with it.
RestartLosesMemory ==
  /\ fallback /\ Fault("crash")
  /\ marker' = [k \in Keys |-> NoOne]
  /\ completed' = [k \in Keys |-> NoOne]
  /\ pc' = [w \in Workers |-> "idle"]
  /\ job' = [w \in Workers |-> NoOne]
  /\ disturbed' = [k \in Keys |-> disturbed[k] + 1]
  /\ UNCHANGED <<fallback, admin, effects, acked>>

\* Mutant: the marker is set without EX and never expires.
MarkerStays(k) == marker[k] # NoOne /\ UNCHANGED vars

\* EX in_progress_ttl frees a marker nobody relies on any more ...
MarkerExpires(k) ==
  /\ marker[k] # NoOne /\ ~Live(k)
  /\ Unmark(k)
  /\ UNCHANGED <<fallback, completed, pc, job, admin, effects, acked, disturbed, budget>>

\* ... and also the marker of a worker that is still at it.
MarkerExpiresEarly(k) ==
  /\ Live(k) /\ Fault("slow")
  /\ Unmark(k)
  /\ Disturb(k)
  /\ UNCHANGED <<fallback, completed, pc, job, admin, effects, acked>>

ResultExpires(k) ==
  /\ completed[k] # NoOne /\ Fault("retire")
  /\ completed' = [completed EXCEPT ![k] = NoOne]
  /\ Disturb(k)
  /\ UNCHANGED <<fallback, marker, pc, job, admin, effects, acked>>

-----------------------------------------------------------------------------
(* Operators: invalidate() and cleanup_stuck_in_progress() *)

\* A delete an operator asked for may fail without a trace.
MayFail == ~fallback /\ "redis" \in Faults

\* invalidate(), first delete.  On the in-memory cache the second is part of it.
\* Whoever invalidates wants k processed again, so its response is owed anew.
InvalidateResult(k) ==
  /\ Fault("admin")
  /\ acked' = [acked EXCEPT ![k] = FALSE]
  /\ \/ /\ completed' = [completed EXCEPT ![k] = NoOne]
        /\ DisturbIf(completed[k] # NoOne \/ (fallback /\ Live(k)), k)
     \/ MayFail /\ UNCHANGED <<completed, disturbed>>
  /\ IF fallback
       THEN Unmark(k) /\ UNCHANGED invalidating
       ELSE invalidating' = invalidating \cup {k} /\ UNCHANGED marker
  /\ UNCHANGED <<fallback, pc, job, sweep, cleaned, effects>>

\* invalidate(), second delete: whatever marker is there by now.
InvalidateMarker(k) ==
  /\ k \in invalidating
  /\ invalidating' = invalidating \ {k}
  /\ \/ Unmark(k) /\ DisturbIf(Live(k), k)
     \/ MayFail /\ UNCHANGED <<marker, disturbed>>
  /\ UNCHANGED <<fallback, completed, pc, job, sweep, cleaned, effects, acked, budget>>

\* SCAN finds the markers present now (one page); the deletes come later.
CleanupScan ==
  /\ ~fallback /\ sweep = {} /\ MaxCleanup > 0 /\ Fault("admin")
  /\ sweep' = {k \in Keys : marker[k] # NoOne}
  /\ UNCHANGED <<fallback, store, pc, job, invalidating, cleaned, effects, acked, disturbed>>

\* Mutant: the count of deleted markers survives from one cleanup to the next.
CleanupKeepsCount(k) ==
  /\ k \in sweep
  /\ Unmark(k) /\ DisturbIf(Live(k), k)
  /\ sweep' = (IF cleaned + 1 >= MaxCleanup THEN {} ELSE sweep \ {k})
  /\ cleaned' = cleaned + 1
  /\ UNCHANGED <<fallback, completed, pc, job, invalidating, effects, acked, budget>>

CleanupDelete(k) ==
  /\ k \in sweep
  /\ Unmark(k)
  /\ DisturbIf(Live(k), k)
  /\ LET stop == cleaned + 1 >= MaxCleanup \/ sweep = {k}
     IN  /\ sweep' = IF stop THEN {} ELSE sweep \ {k}
         /\ cleaned' = IF stop THEN 0 ELSE cleaned + 1
  /\ UNCHANGED <<fallback, completed, pc, job, invalidating, effects, acked, budget>>

\* An exception ends the sweep where it is.
CleanupFails ==
  /\ sweep # {} /\ Fault("redis")
  /\ sweep' = {} /\ cleaned' = 0
  /\ UNCHANGED <<fallback, store, pc, job, invalidating, effects, acked, disturbed>>

-----------------------------------------------------------------------------
WorkerStep(w) ==
  \/ CheckAtomically(w) \/ PingAnswers(w) \/ GetCompleted(w) \/ SetnxMarker(w)
  \/ Process(w) \/ StoreResult(w) \/ StoreUnmarks(w) \/ StoreInMemory(w)
  \/ ClearInProgress(w)

WorkerFault(w) ==
  \/ LuaFails(w) \/ PingFails(w) \/ GetFails(w) \/ SetnxFails(w)
  \/ ProcessFails(w) \/ StoreSkipsResult(w) \/ StoreUnmarkFails(w)
  \/ ClearInProgressFails(w) \/ Crash(w)

KeyStep(k) ==
  \/ MarkerExpires(k) \/ MarkerExpiresEarly(k) \/ ResultExpires(k)
  \/ InvalidateResult(k) \/ InvalidateMarker(k) \/ CleanupDelete(k)

Next ==
  \/ \E w \in Workers, k \in Keys : Deliver(w, k)
  \/ \E w \in Workers : WorkerStep(w) \/ WorkerFault(w)
  \/ \E k \in Keys : KeyStep(k)
  \/ CleanupScan \/ CleanupFails \/ RestartLosesMemory

Spec == Init /\ [][Next]_vars

\* Coroutines that can go on do, markers do reach their TTL, and a sender whose
\* key has not been answered with its response delivers it again and again.
FairSpec ==
  /\ Spec
  /\ \A w \in Workers : WF_vars(WorkerStep(w))
  /\ \A k \in Keys :
       /\ WF_vars(MarkerExpires(k))
       /\ SF_vars(\E w \in Workers : Deliver(w, k))

-----------------------------------------------------------------------------
(* The accounting behind the properties *)

\* Workers whose check of k went past a failed Lua script and has no verdict yet.
Unshielded(k) == {w \in Workers : pc[w] \in {"ping", "get", "setnx"} /\ job[w] = k}

\* Workers that processed k and have not reached SETEX.
Storing(k) == {w \in Workers : pc[w] = "store" /\ job[w] = k}

Cached(k) == IF completed[k] # NoOne THEN 1 ELSE 0
Shield(k) == IF completed[k] # NoOne \/ Live(k) THEN 1 ELSE 0

\* What was done and what may still be done for k without a new NEW is paid for by
\* the disturbances so far and by the one protection (marker or result) k has.
WorkIsPaidFor ==
  \A k \in Keys : Cardinality(Running(k)) + Cardinality(Unshielded(k)) + effects[k]
                    <= disturbed[k] + Shield(k)

\* Whoever is about to store, and whatever is stored, comes from work done.
ResultsComeFromWork ==
  \A k \in Keys : Cardinality(Storing(k)) + Cached(k) <= effects[k]

\* A worker past SETEX has done its work.
UnmarkFollowsWork == \A w \in Workers : At(w, "unmark") => effects[job[w]] >= 1

\* A worker has a key exactly while it is busy.
BusyWorkersHaveKeys == \A w \in Workers : ~At(w, "idle") => job[w] \in Keys

\* A sender is told "done" (DUPLICATE, or its own response) only about a key that
\* was processed: no check, store or lost reply acknowledges work never done.
AckedWorkWasDone == \A k \in Keys : acked[k] => effects[k] >= 1

IInv ==
  /\ TypeOK /\ BusyWorkersHaveKeys
  /\ WorkIsPaidFor /\ ResultsComeFromWork /\ UnmarkFollowsWork
  /\ AckedWorkWasDone

-----------------------------------------------------------------------------
(* Properties *)

\* The abstract specification: whoever was told NEW is permitted to do the work.
Once == INSTANCE OnceOnly WITH
  permitted <- [k \in Keys |-> Cardinality(Running(k))],
  done <- effects, told <- acked, voided <- disturbed

\* The service keeps its promise step by step: no check tells NEW unless the work that
\* is done or permitted is already paid for, and nobody is told of work never done.
ImplementsOnceOnly == Once!Spec

\* Every repetition of the work for a key is accounted for by an event that voids
\* its protection: one such event never costs more than one repetition, and
\* without any the work is done at most once ("processed exactly once, even if
\* they are delivered multiple times", as far as the code can keep it).
RepetitionsAccountedFor == \A k \in Keys : effects[k] <= 1 + disturbed[k]

\* As long as nothing voids the protection of a key, at most one worker is between
\* its NEW and its stored response, whatever crashes, clears and lost deletes happen.
MutualExclusion ==
  \A k \in Keys : disturbed[k] = 0 =>
    \A v, w \in Workers : InSection(v, k) /\ InSection(w, k) => v = w

\* The service's docstring: events "are processed exactly once, even if they are
\* delivered multiple times".  The code cannot keep it (see the findings).
ExactlyOnce == \A k \in Keys : effects[k] <= 1

\* Every sender of an undisturbed key gets the same response: a cached response is
\* never replaced by another one.
ResponseIsStable ==
  [][\A k \in Keys :
       completed[k] # NoOne /\ disturbed'[k] = 0 => completed'[k] = completed[k]]_vars

\* A key that keeps being delivered is answered with its response in the end: no
\* crash, failed clear or lost reply leaves a marker that blocks it for good.
EveryKeyAnswered == \A k \in Keys : []<>acked[k]

=============================================================================
