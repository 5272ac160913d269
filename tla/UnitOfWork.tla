------------------------------ MODULE UnitOfWork ------------------------------
(***************************************************************************)
(* BaseUnitOfWork (core/infrastructure/database/uow.py) with the time-outs *)
(* of core/security/timeout.py: units of work that own their session and   *)
(* share one connection pool.  A unit's coroutine can fail, time out or be *)
(* cancelled at every await; each of these awaits is a value of pc.  Its   *)
(* body may nest the block of a guest: another unit, on the same session.  *)
(*                                                                         *)
(* External: SQLAlchemy's session takes a pooled connection at its first   *)
(* query, gives it back when a commit, rollback or close ends, and rolls   *)
(* an open transaction back when it is closed; the pool (connection.py)    *)
(* makes a query wait for a connection for at most pool_timeout.           *)
(***************************************************************************)
EXTENDS Naturals, FiniteSets

CONSTANTS Units,       \* units of work, each used for one async with block
          Hosts,       \* those whose bodies nest guests or call commit()
          PoolSize,    \* pool_size + max_overflow
          MaxCancels   \* cancellations per run (a bound of the model)

ASSUME UnitsAssumption == IsFiniteSet(Units) /\ Hosts \subseteq Units
ASSUME PoolAssumption == PoolSize \in Nat /\ MaxCancels \in Nat

VARIABLES autoCommit, \* _auto_commit
          pc,         \* the await a unit is at
          flag,       \* _timeout_occurred
          raised,     \* history: what the body of the block raised, or "caught" if the
                      \* database raised into it and it went on, without a rollback()
          outcome,    \* what __aexit__ will leave the block with
          tx,         \* the unit's writes, as the database has them: those since an
                      \* early commit or a rollback(), if there was one; "aborted" by the
                      \* database, which makes its COMMIT a rollback, or "invalid", which
                      \* the session refuses to use until it is rolled back
          guest,      \* the unit nested in the body, as it was made: "joins" by
                      \* configure_for_shared_session(), "commits" by being constructed
                      \* with the session, which leaves auto_commit on
          early,      \* history: units with writes committed before their block ended,
                      \* which neither they nor a guest that "commits" asked for
          holding,    \* units whose session holds a pooled connection
          closing,    \* units whose shielded close outlives their block
          cancels     \* cancellations so far

inBody == <<guest, early>>
vars == <<autoCommit, pc, flag, raised, outcome, tx, inBody, holding, closing, cancels>>

Exceptions == {"error", "timeout", "cancel"}

TypeOK ==
  /\ autoCommit \in [Units -> BOOLEAN]
  /\ pc \in [Units ->
             {"new", "body", "query", "early", "commit", "rollback", "sleep", "close", "done"}]
  /\ flag \in [Units -> BOOLEAN]
  /\ raised \in [Units -> Exceptions \cup {"nothing", "caught"}]
  /\ outcome \in [Units -> Exceptions \cup {"nothing", "ok", "import"}]
  /\ tx \in [Units -> {"none", "open", "aborted", "invalid", "committed", "rolledback"}]
  /\ guest \in [Units -> {"none", "joins", "commits"}]
  /\ early \in SUBSET Units
  /\ holding \in SUBSET Units /\ Cardinality(holding) <= PoolSize
  /\ closing \in SUBSET holding
  /\ cancels \in 0..MaxCancels

Init ==
  /\ autoCommit \in [Units -> BOOLEAN]
  /\ pc = [u \in Units |-> "new"]
  /\ flag = [u \in Units |-> FALSE]
  /\ raised = [u \in Units |-> "nothing"]
  /\ outcome = [u \in Units |-> "nothing"]
  /\ tx = [u \in Units |-> "none"]
  /\ guest = [u \in Units |-> "none"] /\ early = {}
  /\ holding = {} /\ closing = {} /\ cancels = 0

-----------------------------------------------------------------------------
(* Helpers *)

At(u, step) == pc[u] = step
Goto(u, step) == pc' = [pc EXCEPT ![u] = step]
Leave(u, how) == outcome' = [outcome EXCEPT ![u] = how]
SetFlag(u) == flag' = [flag EXCEPT ![u] = TRUE]
Alone(u) == guest[u] = "none"
Cancel == cancels < MaxCancels /\ cancels' = cancels + 1

\* Writes that are not committed are undone by the database.
Undone(u) ==
  IF tx[u] \in {"open", "aborted", "invalid"} THEN [tx EXCEPT ![u] = "rolledback"] ELSE tx

\* The session gives its connection back; what is not committed is undone.
Release(u) == holding' = holding \ {u} /\ tx' = Undone(u)

\* The finally clause of __aexit__ enters _cleanup(), which first sleeps if a
\* time-out was flagged.
Cleanup(u) == Goto(u, IF flag'[u] THEN "sleep" ELSE "close")

-----------------------------------------------------------------------------
(* __aenter__ and the body of the block *)

\* Registering the repositories raises, or there is no session factory: a session
\* without a connection is closed, and the block not entered.
EnterFails(u) ==
  /\ At(u, "new")
  /\ Leave(u, "error")
  /\ Goto(u, "done")
  /\ UNCHANGED <<autoCommit, inBody, flag, raised, tx, holding, closing, cancels>>

\* A session is created; it holds no connection yet.
Enter(u) ==
  /\ At(u, "new")
  /\ Goto(u, "body")
  /\ UNCHANGED <<autoCommit, inBody, flag, raised, outcome, tx, holding, closing, cancels>>

\* A repository operation is awaited.
QueryStarts(u) ==
  /\ At(u, "body")
  /\ Goto(u, "query")
  /\ UNCHANGED <<autoCommit, inBody, flag, raised, outcome, tx, holding, closing, cancels>>

\* Mutant: the pool is not bounded.
QueryConnectsUnbounded(u) ==
  /\ At(u, "query") /\ u \notin holding
  /\ holding' = holding \cup {u}
  /\ UNCHANGED <<autoCommit, inBody, pc, flag, raised, outcome, tx, closing, cancels>>

\* The session takes a connection, if the pool has one.
QueryConnects(u) ==
  /\ At(u, "query") /\ tx[u] # "invalid"
  /\ u \notin holding /\ Cardinality(holding) < PoolSize
  /\ holding' = holding \cup {u}
  /\ UNCHANGED <<autoCommit, inBody, pc, flag, raised, outcome, tx, closing, cancels>>

\* The operation has written and returns to the body.
QueryEnds(u) ==
  /\ At(u, "query") /\ u \in holding /\ tx[u] \in {"none", "open"}
  /\ tx' = [tx EXCEPT ![u] = "open"]
  /\ Goto(u, "body")
  /\ UNCHANGED <<autoCommit, inBody, flag, raised, outcome, holding, closing, cancels>>

\* Mutant: the wait for a connection has no time-out.
TimeIsUpConnected(u) == At(u, "query") /\ u \in holding

\* A repository operation exceeds its time-out, or its wait for a connection
\* exceeds pool_timeout.
TimeIsUp(u) == At(u, "query") /\ (u \in holding \/ Cardinality(holding) = PoolSize)

\* A failed flush, an interrupted statement and a lost connection leave a session
\* that raises at each use until it is rolled back; the connection may be gone.
Invalidated(u) ==
  /\ tx' = [tx EXCEPT ![u] = "invalid"]
  /\ holding' \in {holding, holding \ {u}}

\* So does an operation that is given up, unless it had not begun its transaction.
Interrupted(u) == Invalidated(u) \/ (u \notin holding /\ UNCHANGED <<tx, holding>>)

\* The body, or the guest's, catches what the database raises, or raises it again.
RaisesIntoBody(u) ==
  /\ raised' = [raised EXCEPT ![u] = "caught"]
  /\ Goto(u, "body")
  /\ UNCHANGED <<autoCommit, outcome, closing>>

\* A statement fails, which aborts the transaction; the operation times out; or it
\* is refused, by the database if the transaction is aborted and by the session if
\* it is invalid.
QueryRaises(u) ==
  /\ At(u, "query")
  /\ RaisesIntoBody(u)
  /\ \/ /\ u \in holding /\ tx[u] # "invalid"
        /\ tx' = [tx EXCEPT ![u] = "aborted"] /\ UNCHANGED holding
     \/ (TimeIsUp(u) \/ tx[u] = "invalid") /\ Interrupted(u)
  /\ UNCHANGED <<guest, flag, early, cancels>>

\* flush() is decorated with timeout_uow_aware: its time-out is flagged.
FlushTimesOut(u) ==
  /\ At(u, "body") /\ u \in holding /\ Alone(u)
  /\ SetFlag(u)
  /\ RaisesIntoBody(u)
  /\ Invalidated(u)
  /\ UNCHANGED <<guest, early, cancels>>

\* What a guest's block raises reaches the body as the ImportError of its __aexit__.
RaisedIn(u, e) ==
  /\ raised' = [raised EXCEPT ![u] = IF Alone(u) THEN e ELSE "error"]
  /\ guest' = [guest EXCEPT ![u] = "none"]

\* Mutant: __aexit__ leaves without its finally clause.
ExitRaisingAtOnce(u, e) ==
  /\ RaisedIn(u, e)
  /\ Leave(u, "import")
  /\ Goto(u, "done")
  /\ UNCHANGED <<autoCommit, early, tx, holding, closing>>

\* Mutant: __aexit__ commits whether or not there is an exception.
ExitRaisingCommits(u, e) ==
  /\ RaisedIn(u, e)
  /\ Goto(u, IF autoCommit[u] THEN "commit" ELSE "close")
  /\ UNCHANGED <<autoCommit, early, outcome, tx, holding, closing>>

\* __aexit__ with an exception: the import of TimeoutException, a name
\* http_exceptions does not define, raises ImportError before the time-out is
\* flagged and before _safe_rollback(); the finally clause follows.
ExitRaising(u, e) ==
  /\ RaisedIn(u, e)
  /\ Leave(u, "import")
  /\ Cleanup(u)
  /\ UNCHANGED <<autoCommit, early, tx, holding, closing>>

\* The body raises what it likes, or does not catch what was raised into it.
BodyFails(u) ==
  /\ At(u, "body")
  /\ UNCHANGED <<flag, cancels>>
  /\ ExitRaising(u, "error") \/ ExitRaising(u, "timeout")

BodyCancelled(u) ==
  /\ At(u, "body") \/ At(u, "query")
  /\ Cancel /\ UNCHANGED flag
  /\ ExitRaising(u, "cancel")

\* The body ends: commit(), or with auto_commit off nothing.
BodyEnds(u) ==
  /\ At(u, "body") /\ Alone(u)
  /\ IF autoCommit[u] THEN Goto(u, "commit") /\ UNCHANGED outcome
                      ELSE Goto(u, IF flag[u] THEN "sleep" ELSE "close") /\ Leave(u, "ok")
  /\ UNCHANGED <<autoCommit, inBody, flag, raised, tx, holding, closing, cancels>>

-----------------------------------------------------------------------------
(* Guests, and commits before the end *)

GuestEnters(u, kind) ==
  /\ At(u, "body") /\ Alone(u) /\ u \in Hosts
  /\ guest' = [guest EXCEPT ![u] = kind]
  /\ UNCHANGED <<autoCommit, pc, flag, raised, outcome, tx, early, holding,
                 closing, cancels>>

\* The body of a guest that does not own the session raises, or is cancelled there,
\* and the unit's own body catches what becomes of it.  The session stays as it is.
GuestRaises(u) ==
  /\ At(u, "body") /\ ~Alone(u)
  /\ guest' = [guest EXCEPT ![u] = "none"]
  /\ Cancel \/ UNCHANGED cancels
  /\ UNCHANGED <<autoCommit, pc, flag, raised, outcome, tx, early, holding,
                 closing>>

\* A guest is cancelled at a repository operation: the unit's body catches the
\* ImportError that becomes of it.
GuestCancelled(u) ==
  /\ At(u, "query") /\ ~Alone(u)
  /\ Cancel
  /\ RaisesIntoBody(u)
  /\ guest' = [guest EXCEPT ![u] = "none"]
  /\ Interrupted(u)
  /\ UNCHANGED <<flag, early>>

\* Mutant: configure_for_shared_session() leaves auto_commit on.
GuestEndsCommitting(u) ==
  /\ At(u, "body") /\ ~Alone(u)
  /\ Goto(u, "early")
  /\ UNCHANGED <<autoCommit, inBody, flag, raised, outcome, tx, holding, closing, cancels>>

\* __aexit__ of the guest: commit(), of everything the session has, or nothing.
GuestEnds(u) ==
  /\ At(u, "body") /\ ~Alone(u)
  /\ IF guest[u] = "commits" THEN Goto(u, "early") /\ UNCHANGED guest
                             ELSE guest' = [guest EXCEPT ![u] = "none"] /\ UNCHANGED pc
  /\ UNCHANGED <<autoCommit, flag, raised, outcome, tx, early, holding,
                 closing, cancels>>

\* The body calls commit().
BodyCommits(u) ==
  /\ At(u, "body") /\ Alone(u) /\ u \in Hosts
  /\ Goto(u, "early")
  /\ UNCHANGED <<autoCommit, guest, flag, raised, outcome, tx, early, holding,
                 closing, cancels>>

\* The body calls rollback(), which gives up what the transaction wrote and raises
\* nothing: a time-out is flagged, a failure logged.
BodyRollsBack(u) ==
  /\ At(u, "body") /\ Alone(u) /\ u \in Hosts
  /\ tx' = [tx EXCEPT ![u] = "none"]
  /\ raised' = [raised EXCEPT ![u] = "nothing"]
  /\ \/ holding' = holding \ {u} /\ UNCHANGED flag
     \/ /\ u \in holding
        /\ holding' \in {holding, holding \ {u}}
        /\ UNCHANGED flag \/ SetFlag(u)
  /\ UNCHANGED <<autoCommit, pc, guest, outcome, early, closing, cancels>>

\* COMMIT makes what is open durable; of an aborted transaction it is a rollback,
\* which is no error.
IsDurable(u) ==
  early' = IF tx[u] = "open" /\ guest[u] = "joins" THEN early \cup {u} ELSE early

\* Back in the body, with no transaction.
EarlyCommitEnds(u) ==
  /\ At(u, "early")
  /\ Goto(u, "body")
  /\ guest' = [guest EXCEPT ![u] = "none"]
  /\ tx' = [tx EXCEPT ![u] = "none"]
  /\ UNCHANGED <<autoCommit, outcome, closing, cancels>>

EarlyCommitSucceeds(u) ==
  /\ EarlyCommitEnds(u) /\ tx[u] # "invalid"
  /\ IsDurable(u)
  /\ holding' = holding \ {u}
  /\ UNCHANGED <<flag, raised>>

\* It fails or times out, which flags who called it, and raises into the body,
\* whether or not the rollback() that follows could return the connection.
EarlyCommitFails(u) ==
  /\ EarlyCommitEnds(u) /\ (u \in holding \/ tx[u] = "invalid")
  /\ RaisesIntoBody(u)
  /\ IsDurable(u) \/ UNCHANGED early
  /\ holding' \in {holding, holding \ {u}}
  /\ UNCHANGED flag \/ (Alone(u) /\ SetFlag(u))

\* Cancelled, it does not roll back, and nobody catches that.
EarlyCommitCancelled(u) ==
  /\ At(u, "early")
  /\ Cancel
  /\ raised' = [raised EXCEPT ![u] = "cancel"]
  /\ guest' = [guest EXCEPT ![u] = "none"]
  /\ \/ u \in holding /\ IsDurable(u) /\ tx' = [tx EXCEPT ![u] = "none"]
     \/ UNCHANGED <<early, tx>>
  /\ Leave(u, "import")
  /\ UNCHANGED <<autoCommit, flag, holding, closing>>
  /\ Cleanup(u)

-----------------------------------------------------------------------------
(* commit() within __aexit__ *)

\* A COMMIT of an aborted transaction rolls it back, and nobody is told.
CommitSucceeds(u) ==
  /\ At(u, "commit") /\ tx[u] # "invalid"
  /\ tx' = IF tx[u] = "open" THEN [tx EXCEPT ![u] = "committed"] ELSE Undone(u)
  /\ holding' = holding \ {u}
  /\ Leave(u, "ok")
  /\ UNCHANGED <<autoCommit, inBody, flag, raised, closing, cancels>>
  /\ Cleanup(u)

\* The database may have committed although its answer did not arrive.
MaybeCommitted(u) ==
  \/ UNCHANGED tx
  \/ At(u, "commit") /\ tx[u] = "open" /\ tx' = [tx EXCEPT ![u] = "committed"]

\* The session raises: rollback() is next.
CommitFails(u) ==
  /\ At(u, "commit") /\ (u \in holding \/ tx[u] = "invalid")
  /\ MaybeCommitted(u)
  /\ Goto(u, "rollback")
  /\ UNCHANGED <<autoCommit, inBody, flag, raised, outcome, holding, closing, cancels>>

\* TRANSACTION_TIMEOUT covers the rollback that follows a failed commit too.
CommitTimesOut(u) ==
  /\ At(u, "commit") \/ At(u, "rollback")
  /\ u \in holding
  /\ MaybeCommitted(u)
  /\ SetFlag(u)
  /\ Leave(u, "timeout")
  /\ UNCHANGED <<autoCommit, inBody, raised, holding, closing, cancels>>
  /\ Cleanup(u)

\* CancelledError is no Exception: commit() does not roll back.
CommitCancelled(u) ==
  /\ At(u, "commit") \/ At(u, "rollback")
  /\ Cancel
  /\ MaybeCommitted(u)
  /\ Leave(u, "cancel")
  /\ UNCHANGED <<autoCommit, inBody, flag, raised, holding, closing>>
  /\ Cleanup(u)

\* rollback() ends, times out or fails, none of which it raises; then commit()
\* raises what the session raised.
RollbackSucceeds(u) ==
  /\ At(u, "rollback")
  /\ Release(u)
  /\ Leave(u, "error")
  /\ UNCHANGED <<autoCommit, inBody, flag, raised, closing, cancels>>
  /\ Cleanup(u)

\* Mutant: commit() does not raise again.
RollbackFailsQuietly(u) ==
  /\ At(u, "rollback")
  /\ flag' \in {flag, [flag EXCEPT ![u] = TRUE]}
  /\ Leave(u, "ok")
  /\ UNCHANGED <<autoCommit, inBody, raised, tx, holding, closing, cancels>>
  /\ Cleanup(u)

RollbackFails(u) ==
  /\ At(u, "rollback")
  /\ flag' \in {flag, [flag EXCEPT ![u] = TRUE]}
  /\ Leave(u, "error")
  /\ UNCHANGED <<autoCommit, inBody, raised, tx, holding, closing, cancels>>
  /\ Cleanup(u)

-----------------------------------------------------------------------------
(* _cleanup() *)

WakeUp(u) ==
  /\ At(u, "sleep")
  /\ Goto(u, "close")
  /\ UNCHANGED <<autoCommit, inBody, flag, raised, outcome, tx, holding, closing, cancels>>

\* The delay is not in the try block: close() is skipped.
SleepCancelled(u) ==
  /\ At(u, "sleep")
  /\ Cancel
  /\ Leave(u, "cancel")
  /\ Goto(u, "done")
  /\ UNCHANGED <<autoCommit, inBody, flag, raised, tx, holding, closing>>

CloseSucceeds(u) ==
  /\ At(u, "close")
  /\ Release(u)
  /\ Goto(u, "done")
  /\ UNCHANGED <<autoCommit, inBody, flag, raised, outcome, closing, cancels>>

\* OSError and RuntimeError are logged, anything else leaves the block.  The
\* pool drops the connection.
CloseFails(u) ==
  /\ At(u, "close") /\ u \in holding
  /\ Release(u)
  /\ outcome' \in {outcome, [outcome EXCEPT ![u] = "error"]}
  /\ Goto(u, "done")
  /\ UNCHANGED <<autoCommit, inBody, flag, raised, closing, cancels>>

\* Mutant: close() is not shielded, its cancellation ends it.
LeaveUnclosed(u) ==
  /\ Goto(u, "done")
  /\ UNCHANGED <<autoCommit, inBody, flag, raised, tx, holding, closing>>

\* The shielded close goes on in a task of its own.
LeaveClosing(u) ==
  /\ closing' = closing \cup ({u} \cap holding)
  /\ Goto(u, "done")
  /\ UNCHANGED <<autoCommit, inBody, flag, raised, tx, holding>>

\* SESSION_CLOSE_TIMEOUT.  The forced sync_session.close() meets the session
\* being closed already, and may raise what _cleanup() does not catch.
CloseTimesOut(u) ==
  /\ At(u, "close") /\ u \in holding
  /\ outcome' \in {outcome, [outcome EXCEPT ![u] = "error"]}
  /\ UNCHANGED cancels
  /\ LeaveClosing(u)

\* The CancelledError is logged and swallowed.
CloseCancelled(u) ==
  /\ At(u, "close") /\ Cancel
  /\ UNCHANGED outcome
  /\ LeaveClosing(u)

CloseCompletes(u) ==
  /\ u \in closing
  /\ Release(u)
  /\ closing' = closing \ {u}
  /\ UNCHANGED <<autoCommit, inBody, pc, flag, raised, outcome, cancels>>

\* A session nobody closed is garbage-collected, and the pool with it terminates
\* the connection.
Collected(u) ==
  /\ At(u, "done") /\ u \in holding \ closing
  /\ Release(u)
  /\ UNCHANGED <<autoCommit, inBody, pc, flag, raised, outcome, closing, cancels>>

-----------------------------------------------------------------------------

Body(u) ==
  \/ QueryStarts(u) \/ QueryConnects(u) \/ QueryEnds(u) \/ QueryRaises(u)
  \/ FlushTimesOut(u) \/ BodyFails(u) \/ BodyEnds(u)

Guest(u) ==
  \/ \E kind \in {"joins", "commits"} : GuestEnters(u, kind)
  \/ GuestRaises(u) \/ BodyCommits(u) \/ BodyRollsBack(u)

Early(u) == GuestEnds(u) \/ EarlyCommitSucceeds(u) \/ EarlyCommitFails(u)

Commit(u) ==
  \/ CommitSucceeds(u) \/ CommitFails(u) \/ CommitTimesOut(u)
  \/ RollbackSucceeds(u) \/ RollbackFails(u)

Close(u) ==
  WakeUp(u) \/ CloseSucceeds(u) \/ CloseFails(u) \/ CloseTimesOut(u)

Cancelled(u) ==
  \/ BodyCancelled(u) \/ GuestCancelled(u) \/ EarlyCommitCancelled(u) \/ CommitCancelled(u)
  \/ SleepCancelled(u) \/ CloseCancelled(u)

\* Nothing is left to do.
AllDone ==
  /\ \A u \in Units : At(u, "done") /\ u \notin holding
  /\ UNCHANGED vars

Next ==
  \/ \E u \in Units :
       \/ Enter(u) \/ EnterFails(u) \/ Body(u) \/ Guest(u) \/ Early(u)
       \/ Commit(u) \/ Close(u) \/ Cancelled(u)
       \/ CloseCompletes(u) \/ Collected(u)
  \/ AllDone

Spec == Init /\ [][Next]_vars

\* What a block does when it is not cancelled.
Proceeds(u) ==
  Body(u) \/ EarlyCommitSucceeds(u) \/ EarlyCommitFails(u) \/ Commit(u) \/ Close(u)

\* Every await is bounded by a time-out, and a body runs a finite number of operations
\* and guests.  Nothing is assumed of cancellations, of the closes that go on in tasks
\* of their own and of the garbage collector.
FairSpec ==
  /\ Spec
  /\ \A u \in Units : WF_vars(Proceeds(u)) /\ SF_vars(BodyEnds(u) \/ BodyFails(u))

-----------------------------------------------------------------------------
(* Properties *)

\* All or nothing: what a unit wrote is durable only if its body has ended
\* normally, whatever fails, times out or is cancelled on the way, and before that
\* only if the body itself called commit() or nested a unit constructed with its
\* session.  (One configured to share the session never ends the transaction.)
DurableOnlyIfEnded ==
  /\ \A u \in Units : tx[u] = "committed" => autoCommit[u] /\ raised[u] \in {"nothing", "caught"}
  /\ early = {}

\* "On success with auto_commit: commit" (__aexit__), as far as it goes: a block left
\* without an exception has committed what it wrote, or else the database raised into
\* its body, which caught that and went on without a rollback().  (Then writes are lost
\* although nothing else fails: those of a commit() of the body's that failed, and,
\* because PostgreSQL answers the COMMIT of an aborted transaction with a rollback that
\* is no error, all that surrounds a statement that failed.)
OkIsDurable ==
  \A u \in Units :
    At(u, "done") /\ outcome[u] = "ok" /\ autoCommit[u] /\ raised[u] = "nothing"
      => tx[u] \in {"none", "committed"}

\* The one way to leave a session unclosed is to be cancelled in the cleanup
\* delay: every other end of a block has closed it or left the close running.
UnclosedOnlyIfCancelledAsleep ==
  \A u \in Units :
    At(u, "done") /\ u \in holding \ closing => outcome[u] = "cancel" /\ flag[u]

\* Every block that is entered is left (and stays so), even if connections are never
\* returned because nobody closed their sessions: no await is unbounded.
EveryBlockEnds == \A u \in Units : []<>(pc[u] \in {"new", "done"})

\* "On timeout: rollback and mark for cleanup delay" (__aexit__): a block that a
\* time-out has ended is marked by the time its session is closed.
TimeoutIsMarked ==
  \A u \in Units : raised[u] = "timeout" /\ pc[u] \in {"close", "done"} => flag[u]
=============================================================================
