------------------------------ MODULE Repository ------------------------------
(***************************************************************************)
(* PgBaseRepository (core/infrastructure/database/repositories/base.py):   *)
(* units of work, each a transaction, that call repository methods on the   *)
(* same rows.  Every method is decorated with the circuit breaker           *)
(* "db_operations", REPOSITORY_TIMEOUT and the error handler.               *)
(*                                                                         *)
(* A row is the name of the transaction that wrote its committed version.   *)
(* A call names the rows it is about and visits them one after another in   *)
(* any order, which is what a statement on several rows does.               *)
(*                                                                         *)
(* External: PostgreSQL at READ COMMITTED with its row locks, deadlock      *)
(* detection and aborted transactions; SQLAlchemy's session with its        *)
(* identity map, its flush of everything that is pending (autoflush is off, *)
(* connection.py), and its refusal to go on after a failed flush.           *)
(***************************************************************************)
EXTENDS CircuitBreaker, ErrorResponses, Pagination, FiniteSets

CONSTANTS Units, Rows,
          Existing,  \* the rows there are at the start
          Managed,   \* units inside BaseUnitOfWork; the others have a bare session
          Nobody, Initial, Absent, Unread,
          Targets,   \* the sets of rows a statement is about
          MaxCalls,  \* repository calls of a run (a bound of the model)
          OtherRows, \* how many other rows the table may have
          PageSizes  \* the sizes of pages a listing is read by

Tags == Units \cup {Initial, Absent}

ASSUME RepositoryAssumption ==
  /\ Managed \subseteq Units /\ Existing \subseteq Rows /\ Targets \subseteq SUBSET Rows /\ MaxCalls \in Nat
  /\ Nobody \notin Units /\ Unread \notin Tags /\ Initial \notin Units /\ Absent \notin Units

\* A table is finite, and no page is empty by its size.
ASSUME PagesAssumption ==
  IsFiniteSet(Rows) /\ OtherRows \subseteq Nat /\ PageSizes \subseteq Nat \ {0}

VARIABLES row,       \* the committed version of each row
          owner,     \* who has the lock of a row
          seen,      \* the version a unit's copy of a row was loaded from
          safe,      \* history: rows whose copy was loaded by a locking select
          work,      \* what the session is to do, or has done, to a row
          op,        \* the call a unit is in
          todo,      \* the rows the call has still to visit
          trans,     \* the state of the unit's transaction
          raised,    \* history: the kind of error that ended the block, "uncommitted" if
                     \* its COMMIT met no connection or no time
          swallowed, \* history: units whose body caught the error of a statement and went on
          reply,     \* the status the unit's request is answered with, 0 for none yet
          lost,      \* history: pairs of a unit and a row it wrote from a stale copy
          brk,       \* the circuit breaker
          calls      \* calls so far

data == <<row, owner, seen, safe, work, lost>>
vars == <<row, owner, seen, safe, work, op, todo, trans, raised, swallowed, reply, lost, brk, calls>>

Works == {"none", "insert", "update", "delete",   \* pending until a flush
          "written", "deleted"}                    \* in the database, not committed
Pending == {"insert", "update", "delete"}
Selects == {"select", "lock", "nowait", "skip"}
Ops == Selects \cup {"none", "flush", "statement", "merge", "from_domain", "commit"}

TypeOK ==
  /\ row \in [Rows -> Tags]
  /\ owner \in [Rows -> Units \cup {Nobody}]
  /\ seen \in [Units -> [Rows -> Units \cup {Initial, Unread}]]
  /\ safe \in [Units -> SUBSET Rows]
  /\ work \in [Units -> [Rows -> Works]]
  /\ op \in [Units -> Ops]
  /\ todo \in [Units -> SUBSET Rows]
  /\ trans \in [Units -> {"new", "active", "aborted", "invalid", "committed", "undone"}]
  /\ raised \in [Units -> {"nothing", "transient", "uncommitted", "rule", "other"}]
  /\ swallowed \in SUBSET Units
  /\ reply \in [Units -> {0, 200} \cup (400..599)]
  /\ lost \in SUBSET (Units \X Rows)
  /\ brk \in Breaker
  /\ calls \in 0..MaxCalls

Init ==
  /\ row = [r \in Rows |-> IF r \in Existing THEN Initial ELSE Absent]
  /\ owner = [r \in Rows |-> Nobody]
  /\ seen = [u \in Units |-> [r \in Rows |-> Unread]]
  /\ safe = [u \in Units |-> {}]
  /\ work = [u \in Units |-> [r \in Rows |-> "none"]]
  /\ op = [u \in Units |-> "none"]
  /\ todo = [u \in Units |-> {}]
  /\ trans = [u \in Units |-> "new"]
  /\ raised = [u \in Units |-> "nothing"]
  /\ swallowed = {}
  /\ reply = [u \in Units |-> 0]
  /\ lost = {}
  /\ brk = Closed
  /\ calls = 0

-----------------------------------------------------------------------------
(* Helpers *)

Running(u) == trans[u] \notin {"committed", "undone"}
InBody(u) == Running(u) /\ op[u] = "none"
InCall(u) == Running(u) /\ op[u] # "none"
PendingRows(u) == {r \in Rows : work[u][r] \in Pending}
Loaded(u, r) == seen[u][r] # Unread
Copy(r) == IF row[r] = Absent THEN Unread ELSE row[r]
Visiting(u, r) == InCall(u) /\ trans[u] \in {"new", "active"} /\ r \in todo[u]
Lockable(u, r) == owner[r] \in {Nobody, u}

\* Locks are released at the end of the transaction.
Unlocked(u) == [r \in Rows |-> IF owner[r] = u THEN Nobody ELSE owner[r]]

Visited(u, r) == todo' = [todo EXCEPT ![u] = @ \ {r}]
Begun(u) == trans' = [trans EXCEPT ![u] = "active"]
Locked(u, r) == owner' = [owner EXCEPT ![r] = u]

\* A method starts, unless the breaker refuses it: its session has work w, its
\* statement visits the rows S.
Call(u, o, S, w) ==
  /\ InBody(u) /\ calls < MaxCalls /\ ~Refuses(brk)
  /\ calls' = calls + 1
  /\ brk' = Entered(brk)
  /\ op' = [op EXCEPT ![u] = o]
  /\ todo' = [todo EXCEPT ![u] = S]
  /\ work' = [work EXCEPT ![u] = w]
  /\ UNCHANGED <<row, owner, safe, trans, raised, swallowed, reply, lost>>

\* session.add() or delete() of a row, and the flush the caller asked for, which
\* is of everything pending.
AddAndFlush(u, r, kind) ==
  LET w == [work[u] EXCEPT ![r] = kind]
  IN \E flush \in BOOLEAN :
       Call(u, "flush", IF flush THEN {r} \cup PendingRows(u) ELSE {}, w)

-----------------------------------------------------------------------------
(* The methods *)

\* bool_check, select_one_orm, select_many_orm, select_scalar_list,
\* select_as_domain and the pages; with o other than "select", select_one_for_update
\* and select_many_for_update.
Select(u, o, S) == Call(u, o, S, work[u]) /\ UNCHANGED seen

\* bulk_insert_orm, bulk_insert_core: an INSERT at once, of nothing else.
BulkInsert(u, r) ==
  /\ work[u][r] = "none" /\ ~Loaded(u, r)
  /\ Call(u, "flush", {r}, [work[u] EXCEPT ![r] = "insert"])
  /\ UNCHANGED seen

\* insert_one_orm, insert_many_orm.
Insert(u, r) ==
  /\ work[u][r] = "none" /\ ~Loaded(u, r)
  /\ AddAndFlush(u, r, "insert")
  /\ UNCHANGED seen

\* update_one_orm, update_many_orm: attributes of loaded entities are set to what
\* the caller derived from them.
Update(u, r) ==
  /\ Loaded(u, r) /\ work[u][r] \in {"none", "update", "written"}
  /\ AddAndFlush(u, r, "update")
  /\ UNCHANGED seen

\* upsert_one_orm: merge() loads the row, unless the session has it.
Upsert(u, r) ==
  /\ work[u][r] = "none"
  /\ IF Loaded(u, r) THEN AddAndFlush(u, r, "update") ELSE Call(u, "merge", {r}, work[u])
  /\ UNCHANGED seen

\* delete_one_orm.
Delete(u, r) ==
  /\ Loaded(u, r) /\ work[u][r] = "none"
  /\ AddAndFlush(u, r, "delete")
  /\ UNCHANGED seen

\* run_update_stmt, run_delete_stmt, execute_returning_as_domain, upsert_one_core,
\* bulk_upsert_core: one statement, computed from the row as it is when locked.
Statement(u, S) == Call(u, "statement", S, work[u]) /\ UNCHANGED seen

\* update_from_domain, of a domain object that was loaded before.
UpdateFromDomain(u, r) ==
  /\ Loaded(u, r) /\ work[u][r] \in {"none", "update", "written"}
  /\ Call(u, "from_domain", {r}, work[u])
  /\ UNCHANGED seen

Method(u) ==
  \/ \E S \in Targets : Statement(u, S) \/ \E o \in Selects : Select(u, o, S)
  \/ \E r \in Rows :
       \/ BulkInsert(u, r) \/ Insert(u, r) \/ Update(u, r) \/ Upsert(u, r) \/ Delete(u, r)
       \/ UpdateFromDomain(u, r)

-----------------------------------------------------------------------------
(* The statements reach their rows *)

\* A select without locks reads all its rows at once.  What the session has loaded
\* before stays as it is.
Reads(u) ==
  /\ op[u] = "select" /\ \E r \in Rows : Visiting(u, r)
  /\ seen' = [seen EXCEPT ![u] =
       [r \in Rows |-> IF r \in todo[u] /\ ~Loaded(u, r) THEN Copy(r) ELSE @[r]]]
  /\ todo' = [todo EXCEPT ![u] = {}] /\ Begun(u)
  /\ UNCHANGED <<row, owner, safe, work, op, raised, swallowed, reply, lost, brk, calls>>

\* Mutant: the SELECT is not FOR UPDATE.
ReadsUnlocked(u, r) ==
  /\ op[u] \in {"lock", "nowait", "skip"} /\ Visiting(u, r)
  /\ seen' = [seen EXCEPT ![u][r] = Copy(r)]
  /\ safe' = [safe EXCEPT ![u] = @ \cup {r}]
  /\ Visited(u, r) /\ Begun(u)
  /\ UNCHANGED <<row, owner, work, op, raised, swallowed, reply, lost, brk, calls>>

\* SELECT ... FOR UPDATE of a row that is free.  An entity the session has already
\* is returned as it was loaded, unless nobody has kept it.
ReadsLocked(u, r) ==
  /\ op[u] \in {"lock", "nowait", "skip"} /\ Visiting(u, r) /\ Lockable(u, r)
  /\ IF row[r] = Absent THEN UNCHANGED <<owner, seen, safe>>
     ELSE /\ Locked(u, r)
          /\ \/ /\ work[u][r] \notin {"update", "delete"}
                /\ seen' = [seen EXCEPT ![u][r] = row[r]]
                /\ safe' = [safe EXCEPT ![u] = IF work[u][r] = "none" THEN @ \cup {r} ELSE @]
             \/ /\ Loaded(u, r)
                /\ UNCHANGED <<seen, safe>>
  /\ Visited(u, r) /\ Begun(u)
  /\ UNCHANGED <<row, work, op, raised, swallowed, reply, lost, brk, calls>>

\* skip_locked.
SkipsLocked(u, r) ==
  /\ op[u] = "skip" /\ Visiting(u, r) /\ ~Lockable(u, r)
  /\ Visited(u, r) /\ Begun(u)
  /\ UNCHANGED <<row, owner, seen, safe, work, op, raised, swallowed, reply, lost, brk, calls>>

\* update_from_domain locks the row and sets every value the domain object has; a
\* row that is gone is left alone.
LocksForDomain(u, r) ==
  /\ op[u] = "from_domain" /\ Visiting(u, r) /\ Lockable(u, r)
  /\ Begun(u)
  /\ \E flush \in BOOLEAN :
       IF row[r] = Absent
       THEN op' = op /\ todo' = [todo EXCEPT ![u] = {}] /\ UNCHANGED <<owner, work>>
       ELSE /\ Locked(u, r)
            /\ work' = [work EXCEPT ![u][r] = "update"]
            /\ op' = [op EXCEPT ![u] = "flush"]
            /\ todo' = [todo EXCEPT ![u] = IF flush THEN {r} \cup PendingRows(u) ELSE {}]
  /\ UNCHANGED <<row, seen, safe, raised, swallowed, reply, lost, brk, calls>>

\* merge() copies the caller's values over what its select found; the flush inserts
\* or updates.
Merges(u, r) ==
  /\ op[u] = "merge" /\ Visiting(u, r) /\ ~Loaded(u, r)
  /\ Begun(u)
  /\ seen' = [seen EXCEPT ![u][r] = Copy(r)]
  /\ work' = [work EXCEPT ![u][r] = IF row[r] = Absent THEN "insert" ELSE "update"]
  /\ op' = [op EXCEPT ![u] = "flush"]
  /\ \E flush \in BOOLEAN :
       todo' = [todo EXCEPT ![u] = IF flush THEN {r} \cup PendingRows(u) ELSE {}]
  /\ UNCHANGED <<row, owner, safe, raised, swallowed, reply, lost, brk, calls>>

\* A write from a copy of the row that is not the row any more.
Overwrites(u, r) == seen[u][r] # row[r]

\* INSERT, UPDATE or DELETE of a flush.
Flushes(u, r) ==
  /\ op[u] \in {"flush", "commit"} /\ Visiting(u, r) /\ Lockable(u, r)
  /\ \/ work[u][r] = "insert" /\ row[r] = Absent
     \/ work[u][r] = "update" /\ row[r] # Absent
     \/ work[u][r] = "delete"
  /\ Locked(u, r)
  /\ lost' = IF work[u][r] = "update" /\ Overwrites(u, r) THEN lost \cup {<<u, r>>} ELSE lost
  /\ work' = [work EXCEPT ![u][r] = IF @ = "delete" THEN "deleted" ELSE "written"]
  /\ Visited(u, r) /\ Begun(u)
  /\ UNCHANGED <<row, seen, safe, op, raised, swallowed, reply, brk, calls>>

\* A row that is absent may be inserted by an upsert and is left alone by the
\* others.
Executes(u, r) ==
  /\ op[u] = "statement" /\ Visiting(u, r) /\ Lockable(u, r)
  /\ \/ /\ Locked(u, r)
        /\ \E w \in {"written", "deleted"} :
             (w = "deleted" => row[r] # Absent) /\ work' = [work EXCEPT ![u][r] = w]
     \/ row[r] = Absent /\ UNCHANGED <<owner, work>>
  /\ Visited(u, r) /\ Begun(u)
  /\ UNCHANGED <<row, seen, safe, op, raised, swallowed, reply, lost, brk, calls>>

\* The method returns: a success for the breaker.
Returns(u) ==
  /\ InCall(u) /\ op[u] # "commit" /\ todo[u] = {}
  /\ op' = [op EXCEPT ![u] = "none"]
  /\ brk' = Succeeded(brk)
  /\ UNCHANGED <<row, owner, seen, safe, work, todo, trans, raised, swallowed, reply, lost, calls>>

-----------------------------------------------------------------------------
(* What fails *)

\* What a request is answered with when its body is left with e: the exit of a
\* unit of work fails in its turn (see UnitOfWork).
Answer(u, e) == Responses[IF u \in Managed THEN "ImportError" ELSE e]

\* What the commit() of a unit of work raises is translated and passes its exit; what
\* a bare session's raises is answered as it is.
CommitAnswer(u, e) == Responses[IF u \in Managed THEN CommitTranslations[e] ELSE e]

\* No connection was to be had, or not in time; or it was lost.
ConnectErrors == {"OSError", "SQLAlchemyTimeoutError", "TooManyConnectionsError"}
LostErrors == {"InterfaceError", "OSError"}

\* The errors that say so to the error handler and the time-out.
Transient == {"OSError", "SQLAlchemyTimeoutError", "TimeoutError", "RequestTimeoutError"}
Kind(e) == IF e \in Transient THEN "transient" ELSE "other"

\* The transaction ends in state t and its session is closed: locks are released,
\* copies are forgotten.
Ends(u, t, status) ==
  /\ trans' = [trans EXCEPT ![u] = t]
  /\ owner' = Unlocked(u)
  /\ seen' = [seen EXCEPT ![u] = [r \in Rows |-> Unread]]
  /\ safe' = [safe EXCEPT ![u] = {}]
  /\ work' = [work EXCEPT ![u] = [r \in Rows |-> "none"]]
  /\ reply' = [reply EXCEPT ![u] = status]

\* The block is left with an error of a kind.
Leaves(u, kind, status) ==
  /\ Ends(u, "undone", status)
  /\ raised' = [raised EXCEPT ![u] = kind]

\* The method raises what becomes of e.  The body is left with it, or catches it
\* and goes on with the transaction in state t.
Raises(u, e, t) ==
  /\ op' = [op EXCEPT ![u] = "none"]
  /\ todo' = [todo EXCEPT ![u] = {}]
  /\ \/ /\ Leaves(u, Kind(e), Answer(u, Translations[e]))
        /\ UNCHANGED swallowed
     \/ /\ trans' = [trans EXCEPT ![u] = t]
        /\ owner' = IF t = "invalid" THEN Unlocked(u) ELSE owner
        /\ swallowed' = IF t \in {"new", "active"} THEN swallowed ELSE swallowed \cup {u}
        /\ UNCHANGED <<raised, reply, seen, safe, work>>
  /\ UNCHANGED <<row, lost, calls>>

\* The error passes through the breaker, which counts it.
Fails(u, e, t) == Raises(u, e, t) /\ brk' = Failed(brk)

\* An error of a statement: a failed flush has rolled the transaction back, any
\* other statement has aborted it in the database.
StatementFails(u, e) == Fails(u, e, IF op[u] = "flush" THEN "invalid" ELSE "aborted")

InMethod(u) == InCall(u) /\ op[u] # "commit" /\ todo[u] # {}

\* The breaker is open: OpenedState is raised on entry.
Refused(u) ==
  /\ InBody(u) /\ calls < MaxCalls /\ Refuses(brk)
  /\ op[u] = "none" /\ todo[u] = {}
  /\ calls' = calls + 1
  /\ \/ Leaves(u, Kind("OpenedState"), Answer(u, Translations["OpenedState"]))
     \/ UNCHANGED <<trans, owner, raised, reply, seen, safe, work>>
  /\ UNCHANGED <<row, op, todo, swallowed, lost, brk>>

\* No connection: the server cannot be reached or refuses, or the pool has none in time.
NotConnected(u) ==
  /\ InMethod(u) /\ trans[u] = "new"
  /\ \E e \in ConnectErrors : Fails(u, e, "new")

\* Mutant: REPOSITORY_TIMEOUT is only for the connection.
ConnectingTimesOut(u) ==
  /\ InMethod(u) /\ trans[u] = "new"
  /\ Raises(u, "TimeoutError", "new")
  /\ brk' \in {brk, Failed(brk)}

\* REPOSITORY_TIMEOUT cancels the call, and SQLAlchemy drops the connection of a
\* cancelled statement.  The breaker inside may or may not count the cancellation.
CallTimesOut(u) ==
  /\ InMethod(u)
  /\ Raises(u, "TimeoutError", IF trans[u] = "new" THEN "new" ELSE "invalid")
  /\ brk' \in {brk, Failed(brk)}

\* The connection is lost in a statement.
ConnectionLost(u) ==
  /\ InMethod(u) /\ trans[u] = "active"
  /\ \E e \in LostErrors : Fails(u, e, "invalid")

\* The transaction has failed before: no statement runs any more.
AlreadyFailed(u) ==
  /\ InMethod(u) /\ trans[u] \in {"aborted", "invalid"}
  /\ Fails(u, IF trans[u] = "aborted" THEN "DBAPIError" ELSE "PendingRollbackError", trans[u])

\* nowait.
LockNotAvailable(u) ==
  /\ op[u] = "nowait"
  /\ \E r \in Rows : Visiting(u, r) /\ ~Lockable(u, r)
  /\ StatementFails(u, "DBAPIError")

\* u waits for v on row r.
WaitsFor(u, v) ==
  /\ op[u] \notin {"none", "select", "merge", "nowait", "skip"}
  /\ \E r \in Rows : Visiting(u, r) /\ owner[r] = v /\ v # u

\* Two units wait for each other: the database chooses one of them.
Deadlocked(u) == \E v \in Units : WaitsFor(u, v) /\ WaitsFor(v, u)

DeadlockDetected(u) == InMethod(u) /\ Deadlocked(u) /\ StatementFails(u, "DBAPIError")

\* A key that exists, or a row that is gone.
Conflict(u, e) ==
  \E r \in Rows :
    /\ Visiting(u, r) /\ Lockable(u, r)
    /\ \/ work[u][r] = "insert" /\ row[r] # Absent /\ e = "IntegrityError"
       \/ work[u][r] = "update" /\ row[r] = Absent /\ e = "StaleDataError"

FlushConflicts(u) ==
  /\ op[u] = "flush"
  /\ \E e \in {"IntegrityError", "StaleDataError"} : Conflict(u, e) /\ StatementFails(u, e)

\* to_domain() raises an error of the domain.
ConversionFails(u) ==
  /\ InCall(u) /\ op[u] = "select" /\ todo[u] = {} /\ trans[u] = "active"
  /\ Fails(u, "DomainValidationError", "active")

CallFails(u) ==
  \/ Refused(u) \/ NotConnected(u) \/ CallTimesOut(u) \/ ConnectionLost(u) \/ AlreadyFailed(u)
  \/ LockNotAvailable(u) \/ DeadlockDetected(u) \/ FlushConflicts(u) \/ ConversionFails(u)

\* The time to live of the breaker elapses.
BreakerExpires ==
  /\ Refuses(brk)
  /\ brk' = Expired(brk)
  /\ UNCHANGED <<data, op, todo, trans, raised, swallowed, reply, calls>>

-----------------------------------------------------------------------------
(* The end of the block *)

\* A rule of the domain is violated.
BodyRaises(u) ==
  /\ InBody(u)
  /\ \E e \in {"EntityNotFoundError", "QuotaExhaustedError"} :
       Leaves(u, "rule", Answer(u, e))
  /\ UNCHANGED <<row, op, todo, swallowed, lost, brk, calls>>

\* commit() first flushes what is pending.  It has no breaker.
Commits(u) ==
  /\ InBody(u) /\ trans[u] \in {"new", "active"}
  /\ op' = [op EXCEPT ![u] = "commit"]
  /\ todo' = [todo EXCEPT ![u] = PendingRows(u)]
  /\ UNCHANGED <<data, trans, raised, swallowed, reply, brk, calls>>

\* COMMIT: what is in the database becomes the committed version.
Committed(u) ==
  /\ op[u] = "commit" /\ InCall(u) /\ todo[u] = {}
  /\ row' = [r \in Rows |-> CASE work[u][r] = "written" -> u
                              [] work[u][r] = "deleted" -> Absent
                              [] OTHER -> row[r]]
  /\ Ends(u, "committed", 200)
  /\ op' = [op EXCEPT ![u] = "none"]
  /\ UNCHANGED <<todo, raised, swallowed, lost, brk, calls>>

\* PostgreSQL answers a COMMIT of an aborted transaction by rolling it back, which
\* is no error for the driver.
CommitsAborted(u) ==
  /\ InBody(u) /\ trans[u] = "aborted" /\ PendingRows(u) = {}
  /\ Ends(u, "undone", 200)
  /\ UNCHANGED <<row, op, todo, raised, swallowed, lost, brk, calls>>

CommitErrors ==
  ConnectErrors \cup LostErrors \cup {"RequestTimeoutError", "DBAPIError", "PendingRollbackError",
                                     "IntegrityError", "StaleDataError"}

\* What commit() can fail with: TRANSACTION_TIMEOUT, if it awaits the database and the
\* session is a unit of work's; no connection for what is to be flushed, or a lost one;
\* a flush that fails; a transaction that has failed before.
CommitRaises(u, e) ==
  \/ InBody(u) /\ trans[u] = "invalid" /\ e = "PendingRollbackError"
  \/ /\ InBody(u) /\ trans[u] = "aborted"
     /\ \/ PendingRows(u) # {} /\ e = "DBAPIError"
        \/ e \in LostErrors
        \/ u \in Managed /\ e = "RequestTimeoutError"
  \/ /\ op[u] = "commit" /\ InCall(u)
     /\ \/ trans[u] = "new" /\ todo[u] # {} /\ e \in ConnectErrors
        \/ trans[u] = "active" /\ e \in LostErrors
        \/ (trans[u] = "active" \/ todo[u] # {}) /\ u \in Managed /\ e = "RequestTimeoutError"
        \/ e = "DBAPIError" /\ Deadlocked(u)
        \/ Conflict(u, e)

\* Mutant: a failing commit is not told.
CommitFailsQuietly(u) ==
  /\ \E e \in CommitErrors : CommitRaises(u, e) /\ Leaves(u, "other", 200)
  /\ op' = [op EXCEPT ![u] = "none"] /\ todo' = [todo EXCEPT ![u] = {}]
  /\ UNCHANGED <<row, swallowed, lost, brk, calls>>

\* commit() rolls back and raises what becomes of the error.  In __aexit__ no exception
\* is pending then, so that it is what the block is left with.  (A COMMIT of which only
\* the answer is lost is in UnitOfWork.)
CommitFails(u) ==
  /\ \E e \in CommitErrors :
       /\ CommitRaises(u, e)
       /\ Leaves(u, IF e \in Transient THEN "uncommitted" ELSE "other", CommitAnswer(u, e))
  /\ op' = [op EXCEPT ![u] = "none"] /\ todo' = [todo EXCEPT ![u] = {}]
  /\ UNCHANGED <<row, swallowed, lost, brk, calls>>

-----------------------------------------------------------------------------

Visit(u) ==
  \/ Reads(u)
  \/ \E r \in Rows :
       \/ ReadsLocked(u, r) \/ SkipsLocked(u, r)
       \/ LocksForDomain(u, r) \/ Merges(u, r) \/ Flushes(u, r) \/ Executes(u, r)

End(u) == Commits(u) \/ Committed(u) \/ CommitsAborted(u) \/ CommitFails(u) \/ BodyRaises(u)

AllDone == (\A u \in Units : ~Running(u)) /\ UNCHANGED vars

Next ==
  \/ \E u \in Units : Method(u) \/ Visit(u) \/ Returns(u) \/ CallFails(u) \/ End(u)
  \/ BreakerExpires
  \/ AllDone

Spec == Init /\ [][Next]_vars

\* The database answers, REPOSITORY_TIMEOUT ends a call that waits, and the body
\* ends.
FairSpec ==
  /\ Spec
  /\ \A u \in Units :
       WF_vars(Visit(u) \/ Returns(u) \/ CallTimesOut(u)) /\ WF_vars(AlreadyFailed(u)) /\ WF_vars(End(u))

-----------------------------------------------------------------------------
(* Properties *)

\* No update is lost by a unit that loaded its copy of the row under the lock.
\* (update_from_domain locks the row when it writes, which is too late for the
\* domain object it is given: base.py says that it prevents lost updates.  Nor
\* does a locking select refresh an entity that was loaded before.)
LostOnlyIfReadUnlocked == \A w \in lost : w[2] \notin safe[w[1]]

\* A statement that failed takes all writes of its unit with it, also when the body
\* caught the error; and a request is not answered with success for a unit that is
\* not durable, unless the body caught such an error, when PostgreSQL turns the
\* COMMIT into a rollback nobody is told of.
AllOrNothing ==
  \A u \in Units :
    /\ trans[u] = "committed" => u \notin swallowed
    /\ reply[u] = 200 => trans[u] = "committed" \/ u \in swallowed

\* A client is told to come back (408, 503) exactly if a repository method met no
\* connection or no time on a bare session, or the COMMIT of a unit of work did: the
\* other half is lost, since what leaves the body of a unit of work becomes an
\* ImportError, answered 500, and the commit() of a bare session is not translated.  A
\* server with too many connections, an open breaker, a busy lock, a conflict of keys and
\* a lost connection that the driver reports as InterfaceError answer 500 everywhere.
\* A client is blamed only by a rule of the domain.
AnswersMatchCauses ==
  \A u \in Units : reply[u] # 0 =>
    /\ reply[u] \in {408, 503} <=> raised[u] = IF u \in Managed THEN "uncommitted" ELSE "transient"
    /\ reply[u] \in (400..499) \ {408} => raised[u] = "rule"

\* What a unit selects page by page (paginated_select_with_metadata,
\* paginated_select_fast), as the table is when it selects, is the whole table and
\* nothing twice.
PagesCoverListing ==
  (\E u \in Units : op[u] = "select" /\ todo[u] # {}) =>
    \A others \in OtherRows, size \in PageSizes :
      CoversListing(others + Cardinality({r \in Rows : row[r] # Absent}), size)

\* Every call returns: no lock is waited for without end, whatever the order in
\* which units lock their rows.
EveryCallReturns == \A u \in Units : []<>~InCall(u)
===============================================================================
