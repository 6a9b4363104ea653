------------------------------ MODULE Service ------------------------------
(***************************************************************************)
(* The parts of one process put together: requests that the process        *)
(* accepts (Lifecycle) do their work in a database session each (DbPool,   *)
(* get_session in app/api/deps.py) and answer with what the error handlers *)
(* make of its outcome (ErrorTaxonomy), while the process may be told to   *)
(* exit, drains, and closes the pool under whoever is left.                *)
(*                                                                         *)
(* A step belongs to one part and leaves the variables of the others       *)
(* alone, except where the parts meet: a session needs the engine, a       *)
(* request ends only after its session, and disposing the engine closes    *)
(* the connections in the pool's queue.                                    *)
(***************************************************************************)
EXTENDS Integers, FiniteSets

CONSTANTS
    Requests,     \* the requests the process is asked to serve
    PoolSize,     \* DatabaseSettings.pool_size
    MaxOverflow,  \* DatabaseSettings.max_overflow
    Failures      \* bound: the exceptions that can befall a session

ASSUME RequestsAssumption == IsFiniteSet(Requests)
ASSUME SizeAssumption == PoolSize \in Nat \ {0} /\ MaxOverflow \in Nat

VARIABLES
    stage, open, raised, accepting, disposition, exit, req, rotation,
    st, exc, result, tx, slot, idle, ovf, gauge, counted,
    commitFirst,  \* does this build of FastAPI end dependencies before it
                  \* sends the response? (not in every release since 0.115)
    reply         \* what the client of each request was told

lifeVars == <<stage, open, raised, accepting, disposition, exit, req, rotation>>
dbVars   == <<st, exc, result, tx, slot, idle, ovf, gauge, counted>>
vars     == <<lifeVars, dbVars, commitFirst, reply>>

L == INSTANCE Lifecycle
P == INSTANCE DbPool WITH Sessions <- Requests, Probes <- {}
T == INSTANCE ErrorTaxonomy

ASSUME FailuresAssumption == Failures \subseteq P!Exceptions \ {"none"}

NoReply == [status |-> 0]
Success == [status |-> 200]

Init ==
    /\ L!Init
    /\ P!Init
    /\ commitFirst \in BOOLEAN
    /\ reply = [r \in Requests |-> NoReply]

-----------------------------------------------------------------------------
(* The process.  Readiness probes, and a SIGKILL, touch nothing here.       *)

\* What clients, operators and the system do to the process ...
Outside ==
    /\ \/ \E r \in Requests : L!Arrive(r)
       \/ \E s \in L!Signals : L!Signal(s)
       \/ L!ServerStops
    /\ UNCHANGED <<dbVars, commitFirst, reply>>

\* ... and its own steps, up to the last closer.
Proceed ==
    /\ \/ L!StartUp
       \/ L!StopListening
       \/ L!EnterTeardown
       \/ L!CloseClient
       \/ L!ClosePool
    /\ UNCHANGED <<dbVars, commitFirst, reply>>

\* A variant: the pool is dropped without being disposed.
CloseEngine_NotDisposed ==
    /\ L!CloseEngine
    /\ UNCHANGED <<idle, ovf>>
    /\ UNCHANGED <<st, exc, result, tx, slot, gauge, counted, commitFirst, reply>>

\* engine.dispose() closes the connections in the queue; when it raises, any
\* number of them may be left.
CloseEngine ==
    /\ L!CloseEngine
    /\ \E left \in 0 .. idle :
        /\ "engine" \notin open' => left = 0
        /\ idle' = left
        /\ ovf' = ovf - (idle - left)
    /\ UNCHANGED <<st, exc, result, tx, slot, gauge, counted, commitFirst, reply>>

-----------------------------------------------------------------------------
(* A request.                                                              *)

Working(r) == stage \notin L!Ended /\ req[r] = "active"

Tell(r, what) == reply' = [reply EXCEPT ![r] = what]

\* The route's get_session is entered ...
OpenSession(r) ==
    /\ Working(r)
    /\ st[r] = "idle"
    /\ reply[r] = NoReply
    /\ "engine" \in open
    /\ P!Begin(r)
    /\ UNCHANGED <<lifeVars, commitFirst, reply>>

\* ... or raises a RuntimeError, for the engine is gone; and a route without
\* a session just answers.
AnswerWithoutSession(r) ==
    /\ Working(r)
    /\ st[r] = "idle"
    /\ reply[r] = NoReply
    /\ Tell(r, IF "engine" \in open THEN Success ELSE T!RenderUnhandled)
    /\ UNCHANGED <<lifeVars, dbVars, commitFirst>>

\* The session goes on; with the older order of things, the client is told
\* of a success when the route returns, before the session commits.
SessionStep(r) ==
    /\ Working(r)
    /\ \/ P!PoolStep(r) \/ P!QueryFails(r) \/ P!HandlerRaises(r) \/ P!Cancel(r)
          \/ P!EndStep(r)
       \/ P!ExitBlock(r) /\ commitFirst
    /\ exc'[r] \in Failures \cup {"none"}
    /\ UNCHANGED <<lifeVars, commitFirst, reply>>

ReturnFirst(r) ==
    /\ Working(r)
    /\ ~commitFirst
    /\ P!ExitBlock(r)
    /\ Tell(r, Success)
    /\ UNCHANGED <<lifeVars, commitFirst>>

\* A variant: the answer is made by hand, with a status and nothing else.
Envelope_Bare(res) == IF res = "none" THEN Success ELSE [status |-> 503]

\* The envelope for what the session raised; an exception of the driver or of
\* the route is unclassified here.
Envelope(res) ==
    CASE res = "none" -> Success
      [] res \in {"dependency_down", "transient", "timeout"} ->
             T!RenderAppError(T!OnDbFailure(res))
      [] OTHER -> T!RenderUnhandled

\* A variant: the answer is made when the block is left, whatever commit did.
Answer_Early(r) ==
    /\ Working(r)
    /\ st[r] \in {"committing", "done"}
    /\ reply[r] = NoReply
    /\ Tell(r, Envelope(result[r]))
    /\ UNCHANGED <<lifeVars, dbVars, commitFirst>>

\* The session is over, and the client is told how it went, unless it was
\* its leaving that cancelled the task.
Answer(r) ==
    /\ Working(r)
    /\ st[r] = "done"
    /\ result[r] # "cancelled"
    /\ reply[r] = NoReply
    /\ Tell(r, Envelope(result[r]))
    /\ UNCHANGED <<lifeVars, dbVars, commitFirst>>

\* A request that is over leaves nothing of its session.
Forget(r) ==
    /\ st' = [st EXCEPT ![r] = "idle"]
    /\ exc' = [exc EXCEPT ![r] = "none"]
    /\ result' = [result EXCEPT ![r] = "none"]
    /\ tx' = [tx EXCEPT ![r] = "none"]
    /\ counted' = counted \ {r}
    /\ Tell(r, NoReply)
    /\ UNCHANGED <<slot, idle, ovf, gauge, commitFirst>>

\* A variant: for the server a request is over with its response.
Finish_AtReply(r) ==
    /\ reply[r] # NoReply
    /\ L!Finish(r)
    /\ UNCHANGED <<dbVars, commitFirst, reply>>

\* A variant: a request is over only when it was answered.
Finish_OnlyAnswered(r) ==
    /\ reply[r] # NoReply
    /\ st[r] \in {"idle", "done"}
    /\ L!Finish(r)
    /\ Forget(r)

\* The application has returned: for the server the request is over, be
\* its client still there or not.
Finish(r) ==
    /\ reply[r] # NoReply \/ result[r] = "cancelled"
    /\ st[r] \in {"idle", "done"}
    /\ L!Finish(r)
    /\ Forget(r)

-----------------------------------------------------------------------------

RequestStep(r) ==
    OpenSession(r) \/ AnswerWithoutSession(r) \/ SessionStep(r) \/ ReturnFirst(r)
    \/ Answer(r) \/ Finish(r)

Next ==
    \/ Outside
    \/ Proceed
    \/ CloseEngine
    \/ \E r \in Requests : RequestStep(r)

Spec == Init /\ [][Next]_vars

\* The coroutine of the process and every request go on: handlers end,
\* statements and commits are bounded by statement_timeout, and waiting for
\* a connection by pool_timeout.  No client, signal or operator has to act.
Fairness ==
    /\ WF_vars(Proceed)
    /\ WF_vars(CloseEngine)
    /\ \A r \in Requests : WF_vars(RequestStep(r))

FairSpec == Spec /\ Fairness

-----------------------------------------------------------------------------
(* Properties.                                                             *)

Replies == {NoReply, Success, T!RenderUnhandled}
           \cup {T!RenderAppError(T!OnDbFailure(c)) :
                    c \in {"dependency_down", "transient", "timeout"}}

TypeOK ==
    /\ L!TypeOK
    /\ P!TypeOK
    /\ commitFirst \in BOOLEAN
    /\ reply \in [Requests -> Replies]

\* A process that stopped of its own accord leaves no connection behind on
\* the server: none in the pool's queue, and none in the hands of a request.
\* (Forced, or with dispose failing, it may.)
NoConnectionLeftBehind ==
    stage = "stopped" /\ exit # "forced" /\ "engine" \notin raised =>
        idle = 0 /\ slot = {}

\* Teardown interrupts nobody's work: when the first closer runs, every
\* session is over, and every transaction decided, unless exit is forced.
WorkEndsBeforeTeardown ==
    stage \in L!Closing \cup {"stopped"} /\ exit # "forced" =>
        \A r \in Requests : st[r] = "idle" /\ tx[r] # "open"

\* Where the session ends before the response is sent, a client that is told
\* of success has its work committed, and what a client is told to retry was
\* not committed, unless the connection was lost while committing.
ToldAsCommitted ==
    commitFirst => \A r \in Requests :
        /\ reply[r] = Success => tx[r] \in {"none", "committed"}
        /\ reply[r] # NoReply /\ tx[r] = "committed" /\ exc[r] \notin P!InDoubt
               => reply[r] = Success

\* The requests of the composition are the requests Lifecycle is about: in
\* particular every accepted one ends, because whatever it waits for in the
\* pool is bounded.
ImplementsLifecycle == L!FairSpec
=============================================================================
