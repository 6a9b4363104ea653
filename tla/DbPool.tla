------------------------------- MODULE DbPool -------------------------------
(***************************************************************************)
(* Database sessions, health probes and the connection pool they share     *)
(* (app/infrastructure/database.py).  A session is one entry into          *)
(* Database.session: it checks a connection out at its first statement,    *)
(* commits on a clean exit, and on an exception rolls back, classifies the *)
(* exception (_classify_db_error) and re-raises it.  A probe is one        *)
(* Database.health_check.  The pool itself is SQLAlchemy's QueuePool,      *)
(* modelled as far as this code configures it, relies on it and hooks its  *)
(* events; it is not part of the repository.                               *)
(*                                                                         *)
(* A step runs from one await to the next: the event loop may switch to    *)
(* another session or probe, or cancel this one, only between steps.       *)
(***************************************************************************)
EXTENDS Integers, FiniteSets

CONSTANTS
    Sessions,     \* the concurrent users of Database.session
    Probes,       \* the concurrent users of Database.health_check
    PoolSize,     \* DatabaseSettings.pool_size
    MaxOverflow   \* DatabaseSettings.max_overflow

ASSUME ActorsAssumption ==
    /\ IsFiniteSet(Sessions)
    /\ IsFiniteSet(Probes)
    /\ Sessions \cap Probes = {}

\* The bounds of the two Fields: ge=1 and ge=0.
ASSUME SizeAssumption == PoolSize \in Nat \ {0} /\ MaxOverflow \in Nat

Actors == Sessions \cup Probes

\* What goes wrong with a statement or a commit, as far as it is classified:
\* an OperationalError, a DBAPIError caused by QueryCanceled, one with
\* connection_invalidated set, or any other.
DbErrors == {"operational", "canceled", "invalidated", "other"}

\* Besides: the pool gave up, the driver could not connect (an OSError that
\* SQLAlchemy does not wrap), the caller's own code raised, the task was
\* cancelled.
Exceptions ==
    DbErrors \cup {"none", "pool_timeout", "connect", "app", "cancelled"}

\* After these, at the commit, nobody knows whether it happened.
InDoubt == {"operational", "invalidated", "cancelled"}

\* What reaches the caller of session(): nothing, an AppError of some class,
\* the caller's own exception, or an exception of the driver.
Results == {"none", "dependency_down", "transient", "timeout", "app", "driver",
            "cancelled"}

VARIABLES
    st,       \* where each actor is
    exc,      \* the exception in flight in each actor
    result,   \* what each session raised
    tx,       \* the fate of each actor's transaction on the server
    slot,     \* the actors that hold a connection record of the pool
    idle,     \* QueuePool: records in the queue
    ovf,      \* QueuePool._overflow: records beyond pool_size, from -pool_size
    gauge,    \* the last values set on db_pool_connections
    counted   \* the actors whose attempt incremented db_pool_exhausted_total

vars == <<st, exc, result, tx, slot, idle, ovf, gauge, counted>>

poolVars == <<slot, idle, ovf, gauge>>

\* An actor may own a connection record in exactly these states.
Owning == {"checking", "opening", "held", "committing", "except", "closing"}
States == {"idle", "open", "waiting", "done"} \cup Owning

\* _refresh_pool_gauges: QueuePool.checkedout, checkedin and overflow.
Reading(i, o) == [in_use |-> PoolSize - i + o, available |-> i, overflow |-> o]

Init ==
    /\ st = [a \in Actors |-> "idle"]
    /\ exc = [a \in Actors |-> "none"]
    /\ result = [a \in Actors |-> "none"]
    /\ tx = [a \in Actors |-> "none"]
    /\ slot = {}
    /\ idle = 0
    /\ ovf = -PoolSize
    /\ gauge = [in_use |-> 0, available |-> 0, overflow |-> 0]
    /\ counted = {}

Move(a, here, there) == st[a] = here /\ st' = [st EXCEPT ![a] = there]

\* An exception leaves the body: session() goes to its except clause, the
\* probe out of `async with engine.connect()'.
Raise(a, e) ==
    /\ exc' = [exc EXCEPT ![a] = e]
    /\ st' = [st EXCEPT ![a] = IF a \in Sessions THEN "except" ELSE "closing"]

-----------------------------------------------------------------------------
(* The pool.                                                               *)

\* A new use of session() or health_check(); nothing is checked out yet.
Begin(a) ==
    /\ st[a] \in {"idle", "done"}
    /\ st' = [st EXCEPT ![a] = "open"]
    /\ exc' = [exc EXCEPT ![a] = "none"]
    /\ result' = [result EXCEPT ![a] = "none"]
    /\ tx' = [tx EXCEPT ![a] = "none"]
    /\ counted' = counted \ {a}
    /\ UNCHANGED poolVars

\* An idle record is taken; pool_pre_ping checks its connection.
TakeIdle(a) ==
    /\ idle > 0
    /\ idle' = idle - 1
    /\ ovf' = ovf
    /\ slot' = slot \cup {a}
    /\ st' = [st EXCEPT ![a] = "checking"]

\* A variant: the limit is compared before the increment.
OpenNew_OffByOne(a) ==
    /\ ovf <= MaxOverflow
    /\ ovf' = ovf + 1
    /\ idle' = idle
    /\ slot' = slot \cup {a}
    /\ st' = [st EXCEPT ![a] = "opening"]

\* _inc_overflow: one more record, whose connection has to be opened.
OpenNew(a) ==
    /\ ovf < MaxOverflow
    /\ ovf' = ovf + 1
    /\ idle' = idle
    /\ slot' = slot \cup {a}
    /\ st' = [st EXCEPT ![a] = "opening"]

\* The first statement: QueuePool._do_get.
Acquire(a) ==
    /\ st[a] = "open"
    /\ \/ TakeIdle(a)
       \/ idle = 0 /\ OpenNew(a)
       \/ /\ idle = 0
          /\ ovf = MaxOverflow
          /\ st' = [st EXCEPT ![a] = "waiting"]
          /\ UNCHANGED <<slot, idle, ovf>>
    /\ UNCHANGED <<exc, result, tx, gauge, counted>>

\* A waiter gets a record that came back.
Granted(a) ==
    /\ st[a] = "waiting"
    /\ TakeIdle(a)
    /\ UNCHANGED <<exc, result, tx, gauge, counted>>

\* A variant: the waiter goes back to the end of the queue.
WaitTimesOut_WaitsAgain(a) ==
    /\ st[a] = "waiting"
    /\ \/ OpenNew(a)
       \/ /\ ovf = MaxOverflow
          /\ st' = [st EXCEPT ![a] = "open"]
          /\ UNCHANGED <<slot, idle, ovf>>
    /\ UNCHANGED exc
    /\ UNCHANGED <<result, tx, gauge, counted>>

\* pool_timeout expired: the pool opens a record if the limit leaves room
\* by now (somebody failed to connect meanwhile) and raises otherwise.
WaitTimesOut(a) ==
    /\ st[a] = "waiting"
    /\ \/ OpenNew(a) /\ UNCHANGED exc
       \/ /\ ovf = MaxOverflow
          /\ Raise(a, "pool_timeout")
          /\ UNCHANGED <<slot, idle, ovf>>
    /\ UNCHANGED <<result, tx, gauge, counted>>

\* The connection is there: the "checkout" event refreshes the gauges.
Connected(a) ==
    /\ st[a] \in {"checking", "opening"}
    /\ st' = [st EXCEPT ![a] = "held"]
    /\ tx' = [tx EXCEPT ![a] = "open"]
    /\ gauge' = Reading(idle, ovf)
    /\ UNCHANGED <<exc, result, slot, idle, ovf, counted>>

\* A variant: a record that does not fit is closed but still counted.
Return_StillCounted(a) ==
    /\ gauge' = Reading(idle, ovf)
    /\ slot' = slot \ {a}
    /\ idle' = IF idle < PoolSize THEN idle + 1 ELSE idle
    /\ ovf' = ovf

\* A record goes back.  The "checkin" event, and with it the refresh of the
\* gauges, comes before the record is back in the queue; a record that does
\* not fit is closed.
Return(a) ==
    /\ gauge' = Reading(idle, ovf)
    /\ slot' = slot \ {a}
    /\ \/ idle < PoolSize /\ idle' = idle + 1 /\ ovf' = ovf
       \/ idle = PoolSize /\ idle' = idle /\ ovf' = ovf - 1

Release(a) == IF a \in slot THEN Return(a) ELSE UNCHANGED poolVars

\* A variant: the overflow counter is not put back.
ConnectFails_Leaks(a) ==
    /\ \/ /\ st[a] = "opening"
          /\ slot' = slot \ {a}
          /\ UNCHANGED <<idle, ovf, gauge>>
       \/ st[a] = "checking" /\ Return(a)
    /\ Raise(a, "connect")
    /\ UNCHANGED <<result, tx, counted>>

\* The connection cannot be made (connect_timeout, or the server refuses):
\* a new record is forgotten, an old one goes back without a connection.
ConnectFails(a) ==
    /\ \/ /\ st[a] = "opening"
          /\ slot' = slot \ {a}
          /\ ovf' = ovf - 1
          /\ UNCHANGED <<idle, gauge>>
       \/ st[a] = "checking" /\ Return(a)
    /\ Raise(a, "connect")
    /\ UNCHANGED <<result, tx, counted>>

-----------------------------------------------------------------------------
(* Database.session.                                                       *)

\* The block under `async with database.session()' ends without an exception:
\* there is something to commit only if a connection was checked out.
ExitBlock(a) ==
    /\ a \in Sessions
    /\ Move(a, "held", "committing") \/ Move(a, "open", "closing")
    /\ UNCHANGED <<exc, result, tx, counted>> /\ UNCHANGED poolVars

\* session.commit() succeeds and gives the connection back.
CommitOk(a) ==
    /\ Move(a, "committing", "closing")
    /\ tx' = [tx EXCEPT ![a] = "committed"]
    /\ Return(a)
    /\ UNCHANGED <<exc, result, counted>>

\* session.commit() raises.  When the connection is lost the server may have
\* committed before; otherwise the transaction is still to be rolled back.
CommitFails(a) ==
    /\ st[a] = "committing"
    /\ \E e \in DbErrors, fate \in {"open", "committed", "rolled_back"} :
        /\ fate = "open" <=> e \notin InDoubt
        /\ Raise(a, e)
        /\ tx' = [tx EXCEPT ![a] = fate]
    /\ UNCHANGED <<result, counted>> /\ UNCHANGED poolVars

\* A statement of the block raises.
QueryFails(a) ==
    /\ st[a] = "held"
    /\ \E e \in DbErrors : Raise(a, e)
    /\ UNCHANGED <<result, tx, counted>> /\ UNCHANGED poolVars

\* The block raises for a reason of its own.
HandlerRaises(a) ==
    /\ a \in Sessions
    /\ st[a] \in {"open", "held"}
    /\ Raise(a, "app")
    /\ UNCHANGED <<result, tx, counted>> /\ UNCHANGED poolVars

\* _classify_db_error, reduced to the class of the result; what it does not
\* recognise comes back unchanged.
Classify(e) ==
    CASE e = "pool_timeout"                   -> "dependency_down"
      [] e \in {"operational", "invalidated"} -> "transient"
      [] e = "canceled"                       -> "timeout"
      [] e = "app"                            -> "app"
      [] OTHER                                -> "driver"

\* What is left open on the server is rolled back.
Undo(a) == tx' = [tx EXCEPT ![a] = IF @ = "open" THEN "rolled_back" ELSE @]

\* A variant: the except clause commits what was done so far.
Rollback_Commits(a) ==
    /\ Move(a, "except", "closing")
    /\ Release(a)
    /\ tx' = [tx EXCEPT ![a] = IF @ = "open" THEN "committed" ELSE @]
    /\ result' = [result EXCEPT ![a] = Classify(exc[a])]
    /\ counted' = IF exc[a] = "pool_timeout" THEN counted \cup {a} ELSE counted
    /\ UNCHANGED exc

\* The except clause: session.rollback() gives the connection back, if there
\* is one, then the exception is classified, and counted if the pool gave up.
Rollback(a) ==
    /\ Move(a, "except", "closing")
    /\ Release(a)
    /\ Undo(a)
    /\ result' = [result EXCEPT ![a] = Classify(exc[a])]
    /\ counted' = IF exc[a] = "pool_timeout" THEN counted \cup {a} ELSE counted
    /\ UNCHANGED exc

\* session.rollback() raises in its turn: its exception leaves session()
\* unclassified, and the connection is kept until session.close().
RollbackFails(a) ==
    /\ a \in slot
    /\ exc[a] # "invalidated"
    /\ Move(a, "except", "closing")
    /\ result' = [result EXCEPT ![a] = "driver"]
    /\ UNCHANGED <<exc, tx, counted>> /\ UNCHANGED poolVars

\* A variant: close() is not in a finally clause, so a cancelled session
\* skips it.
Close_NotFinally(a) ==
    /\ Move(a, "closing", "done")
    /\ IF exc[a] = "cancelled" THEN UNCHANGED poolVars ELSE Release(a)
    /\ Undo(a)
    /\ UNCHANGED <<exc, result, counted>>

\* The finally clause, session.close(), or the end of the probe's block: a
\* connection still held is reset and goes back.
Close(a) ==
    /\ Move(a, "closing", "done")
    /\ Release(a)
    /\ Undo(a)
    /\ UNCHANGED <<exc, result, counted>>

\* The task is cancelled at an await (client gone, readiness budget blown).
\* CancelledError is no Exception: session() skips its except clause.
Cancel(a) ==
    /\ \/ st[a] \in {"waiting", "checking", "opening", "held", "committing"}
       \/ st[a] = "except" /\ a \in slot
    /\ st' = [st EXCEPT ![a] = "closing"]
    /\ exc' = [exc EXCEPT ![a] = "cancelled"]
    /\ result' = [result EXCEPT ![a] = "cancelled"]
    /\ \/ /\ st[a] = "committing"
          /\ \E fate \in {"open", "committed"} : tx' = [tx EXCEPT ![a] = fate]
       \/ st[a] # "committing" /\ UNCHANGED tx
    /\ \/ st[a] = "checking" /\ Return(a)
       \/ /\ st[a] = "opening"
          /\ slot' = slot \ {a}
          /\ ovf' = ovf - 1
          /\ UNCHANGED <<idle, gauge>>
       \/ st[a] \notin {"checking", "opening"} /\ UNCHANGED poolVars
    /\ UNCHANGED counted

\* health_check: SELECT 1 answered.
ProbeOk(a) ==
    /\ a \in Probes
    /\ Move(a, "held", "closing")
    /\ UNCHANGED <<exc, result, tx, counted>> /\ UNCHANGED poolVars

-----------------------------------------------------------------------------

PoolStep(a) == Acquire(a) \/ Granted(a) \/ WaitTimesOut(a)
               \/ Connected(a) \/ ConnectFails(a)

BodyStep(a) == Begin(a) \/ QueryFails(a) \/ HandlerRaises(a) \/ ExitBlock(a)
               \/ ProbeOk(a) \/ Cancel(a)

EndStep(a) == CommitOk(a) \/ CommitFails(a) \/ Rollback(a) \/ RollbackFails(a)
              \/ Close(a)

Next == \E a \in Actors : PoolStep(a) \/ BodyStep(a) \/ EndStep(a)

Spec == Init /\ [][Next]_vars

\* Timers fire (pool_timeout, connect_timeout) and the except and finally
\* clauses run on.  Nothing is assumed of the blocks: a handler may hold its
\* connection for ever, and commit may never return.
Fairness ==
    \A a \in Actors :
        /\ WF_vars(WaitTimesOut(a))
        /\ WF_vars(Connected(a) \/ ConnectFails(a))
        /\ WF_vars(Rollback(a) \/ RollbackFails(a))
        /\ WF_vars(Close(a))

FairSpec == Spec /\ Fairness

-----------------------------------------------------------------------------
(* Properties.                                                             *)

TypeOK ==
    /\ st \in [Actors -> States]
    /\ exc \in [Actors -> Exceptions]
    /\ result \in [Actors -> Results]
    /\ tx \in [Actors -> {"none", "open", "committed", "rolled_back"}]
    /\ slot \subseteq Actors
    /\ idle \in 0 .. PoolSize
    /\ ovf \in -PoolSize .. MaxOverflow
    /\ gauge \in [in_use : Int, available : Int, overflow : Int]
    /\ counted \subseteq Actors

\* No connection is lost or counted twice: the records in the queue and the
\* actors holding one add up to what the overflow counter says exists,
\* through failed connects, timed out waits and cancellations alike.
PoolConservation == idle + Cardinality(slot) = ovf + PoolSize

\* An actor that is through owns nothing: every way out of session() and
\* health_check() gives the connection back.
ReturnedOnExit == \A a \in slot : st[a] \in Owning

\* The session is one unit of work: when the caller is told nothing went
\* wrong the transaction is committed (or there was none); when it failed for
\* any reason but a lost connection or a cancellation it is not committed;
\* and no session leaves a transaction open.
UnitOfWork ==
    \A s \in Sessions : st[s] = "done" =>
        /\ tx[s] # "open"
        /\ result[s] = "none" => tx[s] \in {"none", "committed"}
        /\ exc[s] \in Exceptions \ (InDoubt \cup {"none"}) => tx[s] # "committed"

\* A caller is refused only when every connection the settings allow is
\* open: capacity given up by failed connects is not lost.
RefusedOnlyWhenFull ==
    [][\A a \in Actors : exc[a] # "pool_timeout" /\ exc'[a] = "pool_timeout" =>
           idle + Cardinality(slot) = PoolSize + MaxOverflow]_vars

\* The process keeps within pool_size + max_overflow connections.
Budget == INSTANCE ConnectionBudget
              WITH Callers <- Actors, Limit <- PoolSize + MaxOverflow,
                   using <- slot, spare <- idle
ConnectionsWithinBudget == Budget!BudgetSpec

\* A waiter never hangs, even when every connection is held for ever: it gets
\* a connection or an answer.
NobodyWaitsForever ==
    \A a \in Actors : st[a] = "waiting" ~> st[a] \in {"held", "done"}

\* metrics.py:121: db_pool_connections is "Connections by state: in_use,
\* available, overflow"; with nobody using the pool, none is in use.
IdlePoolReadsIdle == slot = {} => gauge.in_use = 0

\* domain/errors.py:22-24, 76-79: an unknown outcome ("the write may have
\* landed") is retried only if the operation is idempotent; a session is any
\* unit of work, so an error marked retryable means it was not applied.
RetryableMeansNotApplied ==
    \A s \in Sessions :
        st[s] = "done" /\ result[s] \in {"transient", "timeout", "dependency_down"}
            => tx[s] # "committed"
=============================================================================
