--------------------------- MODULE ServiceProofs ---------------------------
(***************************************************************************)
(* Proofs about Service, for any set of requests, any pool and any         *)
(* failures.                                                               *)
(***************************************************************************)
EXTENDS Service, FiniteSetTheorems, TLAPS

\* What the sessions do never steps outside of what Lifecycle lets the
\* process and its requests do: every step of the composition is one of
\* Lifecycle's, or leaves all its variables alone.
LEMMA StepIsLifecycleStep == [Next]_vars => [L!Next]_(L!vars)
<1>1. ASSUME Outside PROVE L!Next
  BY <1>1 DEF Outside, L!Next
<1>2. ASSUME Proceed PROVE L!Next
  BY <1>2 DEF Proceed, L!Next, L!TearDown
<1>3. ASSUME CloseEngine PROVE L!Next
  BY <1>3 DEF CloseEngine, L!Next, L!TearDown
<1>4. ASSUME NEW r \in Requests, Finish(r) PROVE L!Next
  BY <1>4 DEF Finish, L!Next
<1>5. ASSUME NEW r \in Requests,
             OpenSession(r) \/ AnswerWithoutSession(r) \/ SessionStep(r)
                 \/ ReturnFirst(r) \/ Answer(r)
      PROVE  UNCHANGED L!vars
  BY <1>5 DEF OpenSession, AnswerWithoutSession, SessionStep, ReturnFirst, Answer,
              lifeVars, L!vars
<1>6. ASSUME UNCHANGED vars PROVE UNCHANGED L!vars
  BY <1>6 DEF vars, lifeVars, L!vars
<1>7. QED
  BY <1>1, <1>2, <1>3, <1>4, <1>5, <1>6 DEF Next, RequestStep

\* Service implements Lifecycle (the safety part of ImplementsLifecycle): what
\* LifecycleProofs proves of every behaviour of the process is true of the
\* composition as well, whatever its sessions and its pool do.
THEOREM ImplementsLifecycleSafely == Spec => L!Spec
<1>1. Init => L!Init
  BY DEF Init
<1>2. QED
  BY <1>1, StepIsLifecycleStep, PTL DEF Spec, L!Spec
-----------------------------------------------------------------------------
(* Work ends before teardown.  That nobody is active when a closer may run *)
(* is a fact about the process, that a request that is not active owns     *)
(* nothing of the database one about requests; neither is enough alone.    *)

\* The functions of the model have the requests as their domain.
Shape == DOMAIN st = Requests /\ DOMAIN tx = Requests /\ DOMAIN req = Requests

\* A request the process does not serve (yet, or any more) has no session.
NoWorkWithoutRequest ==
    \A r \in Requests : req[r] # "active" => st[r] = "idle" /\ tx[r] = "none"

\* No request is served when a closer may run, unless the exit is forced.
NobodyActive ==
    stage \in L!Closing \cup {"stopped"} /\ exit # "forced" =>
        \A r \in Requests : req[r] # "active"

IInv == Shape /\ NoWorkWithoutRequest /\ NobodyActive

LEMMA InitOK == Init => IInv
  BY DEF Init, L!Init, P!Init, P!Actors, IInv, Shape, NoWorkWithoutRequest, NobodyActive,
         L!Closing

\* A session moves itself only.
LEMMA SessionMovesItself ==
    ASSUME Shape, NEW r \in Requests,
           P!Begin(r) \/ P!PoolStep(r) \/ P!BodyStep(r) \/ P!EndStep(r)
    PROVE  /\ DOMAIN st' = Requests /\ DOMAIN tx' = Requests
           /\ \A q \in Requests \ {r} : st'[q] = st[q] /\ tx'[q] = tx[q]
<1>1. ASSUME P!PoolStep(r)
      PROVE  /\ DOMAIN st' = Requests /\ DOMAIN tx' = Requests
             /\ \A q \in Requests \ {r} : st'[q] = st[q] /\ tx'[q] = tx[q]
  BY <1>1 DEF Shape, P!PoolStep, P!Acquire, P!TakeIdle, P!OpenNew, P!Granted,
              P!WaitTimesOut, P!Connected, P!ConnectFails, P!Raise
<1>2. ASSUME P!Begin(r) \/ P!BodyStep(r)
      PROVE  /\ DOMAIN st' = Requests /\ DOMAIN tx' = Requests
             /\ \A q \in Requests \ {r} : st'[q] = st[q] /\ tx'[q] = tx[q]
  BY <1>2 DEF Shape, P!BodyStep, P!Begin, P!QueryFails, P!HandlerRaises, P!ExitBlock,
              P!ProbeOk, P!Cancel, P!Move, P!Raise
<1>3. ASSUME P!EndStep(r)
      PROVE  /\ DOMAIN st' = Requests /\ DOMAIN tx' = Requests
             /\ \A q \in Requests \ {r} : st'[q] = st[q] /\ tx'[q] = tx[q]
  BY <1>3 DEF Shape, P!EndStep, P!CommitOk, P!CommitFails, P!Rollback, P!RollbackFails,
              P!Close, P!Move, P!Raise, P!Undo
<1>4. QED
  BY <1>1, <1>2, <1>3

LEMMA NextOK == IInv /\ [Next]_vars => IInv'
<1>1. SUFFICES ASSUME IInv, [Next]_vars PROVE IInv'
  OBVIOUS
<1>2. ASSUME Outside PROVE IInv'
  <2>1. st' = st /\ tx' = tx
    BY <1>2 DEF Outside, dbVars
  <2>2. CASE \E r \in Requests : L!Arrive(r)
    BY <1>1, <2>1, <2>2
       DEF L!Arrive, IInv, Shape, NoWorkWithoutRequest, NobodyActive, L!Closing
  <2>3. CASE \E s \in L!Signals : L!Signal(s)
    BY <1>1, <2>1, <2>3
       DEF L!Signal, IInv, Shape, NoWorkWithoutRequest, NobodyActive, L!Closing
  <2>4. CASE L!ServerStops
    BY <1>1, <2>1, <2>4
       DEF L!ServerStops, IInv, Shape, NoWorkWithoutRequest, NobodyActive, L!Closing
  <2>5. QED
    BY <1>2, <2>2, <2>3, <2>4 DEF Outside
<1>3. ASSUME Proceed PROVE IInv'
  <2>1. st' = st /\ tx' = tx
    BY <1>3 DEF Proceed, dbVars
  <2>2. CASE L!StartUp
    BY <1>1, <2>1, <2>2
       DEF L!StartUp, L!ValidateConfiguration, L!ConnectDatabase, L!ConnectRedis,
           L!InstallSignalHandlers, IInv, Shape, NoWorkWithoutRequest, NobodyActive,
           L!Closing
  <2>3. CASE L!EnterTeardown
    BY <1>1, <2>1, <2>3
       DEF L!EnterTeardown, L!Active, IInv, Shape, NoWorkWithoutRequest, NobodyActive,
           L!Closing
  <2>4. CASE L!StopListening \/ L!CloseClient \/ L!ClosePool
    BY <1>1, <2>1, <2>4
       DEF L!StopListening, L!CloseClient, L!ClosePool, L!CloseStep, IInv, Shape,
           NoWorkWithoutRequest, NobodyActive, L!Closing
  <2>5. QED
    BY <1>3, <2>2, <2>3, <2>4 DEF Proceed
<1>4. ASSUME CloseEngine PROVE IInv'
  BY <1>1, <1>4
     DEF CloseEngine, L!CloseEngine, L!CloseStep, IInv, Shape, NoWorkWithoutRequest,
         NobodyActive, L!Closing
<1>5. ASSUME NEW r \in Requests, AnswerWithoutSession(r) \/ Answer(r) PROVE IInv'
  BY <1>1, <1>5
     DEF AnswerWithoutSession, Answer, lifeVars, dbVars, IInv, Shape,
         NoWorkWithoutRequest, NobodyActive, L!Closing
<1>6. ASSUME NEW r \in Requests, OpenSession(r) \/ SessionStep(r) \/ ReturnFirst(r)
      PROVE  IInv'
  <2>1. req[r] = "active" /\ UNCHANGED lifeVars
    BY <1>6 DEF OpenSession, SessionStep, ReturnFirst, Working
  <2>2. P!Begin(r) \/ P!PoolStep(r) \/ P!BodyStep(r) \/ P!EndStep(r)
    BY <1>6 DEF OpenSession, SessionStep, ReturnFirst, P!BodyStep
  <2>3. /\ DOMAIN st' = Requests /\ DOMAIN tx' = Requests
        /\ \A q \in Requests \ {r} : st'[q] = st[q] /\ tx'[q] = tx[q]
    BY <1>1, <2>2, SessionMovesItself DEF IInv
  <2>4. QED
    BY <1>1, <2>1, <2>3
       DEF lifeVars, IInv, Shape, NoWorkWithoutRequest, NobodyActive, L!Closing
<1>7. ASSUME NEW r \in Requests, Finish(r) PROVE IInv'
  BY <1>1, <1>7
     DEF Finish, L!Finish, Forget, IInv, Shape, NoWorkWithoutRequest, NobodyActive,
         L!Closing
<1>8. ASSUME UNCHANGED vars PROVE IInv'
  BY <1>1, <1>8
     DEF vars, lifeVars, dbVars, IInv, Shape, NoWorkWithoutRequest, NobodyActive,
         L!Closing
<1>9. QED
  BY <1>1, <1>2, <1>3, <1>4, <1>5, <1>6, <1>7, <1>8 DEF Next, RequestStep

\* IInv is an invariant of the composition.
THEOREM Invariance == Spec => []IInv
  BY InitOK, NextOK, PTL DEF Spec

\* WorkEndsBeforeTeardown: when the first closer runs, and ever after, every
\* session is over and every transaction decided, unless exit is forced.
THEOREM TeardownInterruptsNobody == Spec => []WorkEndsBeforeTeardown
<1>1. IInv => WorkEndsBeforeTeardown
  BY DEF IInv, Shape, NoWorkWithoutRequest, NobodyActive, WorkEndsBeforeTeardown
<1>2. QED
  BY <1>1, Invariance, PTL
-----------------------------------------------------------------------------
(* The pool in the composition.  DbPoolProofs has the invariant of sessions *)
(* and pool; here it has to survive what only the composition does: the     *)
(* engine is disposed under the pool, and a request that is over is         *)
(* forgotten.                                                               *)

LL == INSTANCE LifecycleProofs
PP == INSTANCE DbPoolProofs WITH Sessions <- Requests, Probes <- {}

\* What DbPoolProofs assumes of its constants is true of these.
LEMMA PoolAssumptions == PP!ActorsAssumption!: /\ PP!SizeAssumption!:
<1>1. IsFiniteSet(Requests) /\ IsFiniteSet({}) /\ Requests \cap {} = {}
  BY RequestsAssumption, FS_EmptySet
<1>2. QED
  BY <1>1, SizeAssumption DEF IsFiniteSet, PP!IsFiniteSet

\* The two instances of DbPool say the same.
LEMMA SameTypes == PP!TypeOK <=> P!TypeOK
  BY DEF PP!TypeOK, PP!Actors, PP!States, PP!Owning, PP!Exceptions, PP!DbErrors,
         PP!Results, P!TypeOK, P!Actors, P!States, P!Owning, P!Exceptions, P!DbErrors,
         P!Results

LEMMA SameCardinality == P!Cardinality(slot) = PP!Cardinality(slot)
  BY DEF P!Cardinality, PP!Cardinality

LEMMA SamePoolStep ==
    ASSUME NEW r \in Requests, P!PoolStep(r) PROVE PP!PoolStep(r)
  BY DEF PP!PoolStep, PP!Acquire, PP!TakeIdle, PP!OpenNew, PP!Granted, PP!WaitTimesOut,
         PP!Connected, PP!ConnectFails, PP!Return, PP!Reading, PP!Raise,
         P!PoolStep, P!Acquire, P!TakeIdle, P!OpenNew, P!Granted, P!WaitTimesOut,
         P!Connected, P!ConnectFails, P!Return, P!Reading, P!Raise

LEMMA SameBodyStep ==
    ASSUME NEW r \in Requests, P!BodyStep(r) PROVE PP!BodyStep(r)
  BY DEF PP!BodyStep, PP!Begin, PP!QueryFails, PP!HandlerRaises, PP!ExitBlock,
         PP!ProbeOk, PP!Cancel, PP!Return, PP!Reading, PP!Raise, PP!Move, PP!DbErrors,
         PP!poolVars,
         P!BodyStep, P!Begin, P!QueryFails, P!HandlerRaises, P!ExitBlock,
         P!ProbeOk, P!Cancel, P!Return, P!Reading, P!Raise, P!Move, P!DbErrors,
         P!poolVars

LEMMA SameEndStep ==
    ASSUME NEW r \in Requests, P!EndStep(r) PROVE PP!EndStep(r)
  BY DEF PP!EndStep, PP!CommitOk, PP!CommitFails, PP!Rollback, PP!RollbackFails,
         PP!Close, PP!Release, PP!Return, PP!Reading, PP!Raise, PP!Move, PP!Undo,
         PP!Classify, PP!DbErrors, PP!InDoubt, PP!poolVars,
         P!EndStep, P!CommitOk, P!CommitFails, P!Rollback, P!RollbackFails,
         P!Close, P!Release, P!Return, P!Reading, P!Raise, P!Move, P!Undo,
         P!Classify, P!DbErrors, P!InDoubt, P!poolVars

\* A step of a session is a step of DbPool, which keeps the pool's invariant;
\* so does a step that leaves sessions and pool alone.
LEMMA PoolKept ==
    ASSUME PP!IInv,
           \/ \E r \in Requests : P!PoolStep(r) \/ P!BodyStep(r) \/ P!EndStep(r)
           \/ UNCHANGED dbVars
    PROVE  PP!IInv'
<1>1. CASE \E r \in Requests : P!PoolStep(r) \/ P!BodyStep(r) \/ P!EndStep(r)
  BY <1>1, SamePoolStep, SameBodyStep, SameEndStep, PP!NextIInv, PoolAssumptions
     DEF PP!Next, PP!Actors
<1>2. CASE UNCHANGED dbVars
  BY <1>2, PP!NextIInv, PoolAssumptions DEF dbVars, PP!vars
<1>3. QED
  BY <1>1, <1>2

\* Disposing the engine closes what is in the queue, and counts it.
LEMMA PoolClosed == ASSUME PP!IInv, CloseEngine PROVE PP!IInv'
<1>1. PICK left \in 0 .. idle : idle' = left /\ ovf' = ovf - (idle - left)
  BY DEF CloseEngine
<1>2. UNCHANGED <<st, exc, result, tx, slot, gauge, counted>>
  BY DEF CloseEngine
<1>3. PP!Cardinality(slot) \in Nat
  BY PP!SlotCardinality, PoolAssumptions DEF PP!IInv, PP!TypeOK
<1>4. PP!PoolConservation' /\ idle' \in 0 .. PoolSize /\ ovf' \in -PoolSize .. MaxOverflow
  BY <1>1, <1>2, <1>3, SizeAssumption
     DEF PP!IInv, PP!TypeOK, PP!PoolInv, PP!PoolConservation
<1>5. PP!TypeOK' /\ PP!PoolInv'
  BY <1>2, <1>4
     DEF PP!IInv, PP!TypeOK, PP!PoolInv, PP!ReturnedOnExit, PP!OwnersHold
<1>6. PP!SessionInv'
  BY <1>2 DEF PP!IInv, PP!SessionInv, PP!SessionFacts
<1>7. QED
  BY <1>5, <1>6 DEF PP!IInv

\* A request that is over owns no connection; forgetting its session leaves
\* the facts of one that has not begun.
LEMMA RequestForgotten ==
    ASSUME PP!IInv, NEW r \in Requests, Finish(r) PROVE PP!IInv'
<1>1. st[r] \in {"idle", "done"} /\ Forget(r)
  BY DEF Finish
<1>2. r \notin slot
  BY <1>1 DEF PP!IInv, PP!PoolInv, PP!ReturnedOnExit, PP!Owning
<1>3. UNCHANGED <<slot, idle, ovf, gauge>>
  BY <1>1 DEF Forget
<1>4. PP!TypeOK'
  BY <1>1, <1>3
     DEF PP!IInv, Forget, PP!TypeOK, PP!Actors, PP!States, PP!Exceptions, PP!Results
<1>5. PP!PoolInv'
  BY <1>1, <1>2, <1>3
     DEF PP!IInv, Forget, PP!TypeOK, PP!PoolInv, PP!PoolConservation,
         PP!ReturnedOnExit, PP!OwnersHold
<1>6. ASSUME NEW q \in Requests PROVE PP!SessionFacts(q)'
  <2>1. CASE q = r
    BY <1>1, <2>1
       DEF PP!IInv, Forget, PP!TypeOK, PP!Actors, PP!SessionFacts, PP!States, PP!Owning
  <2>2. CASE q # r
    <3>1. /\ st'[q] = st[q] /\ exc'[q] = exc[q]
          /\ result'[q] = result[q] /\ tx'[q] = tx[q]
          /\ q \in counted' <=> q \in counted
      BY <1>1, <2>2 DEF PP!IInv, Forget, PP!TypeOK, PP!Actors
    <3>2. PP!SessionFacts(q)
      BY DEF PP!IInv, PP!SessionInv
    <3>3. QED
      BY <3>1, <3>2 DEF PP!SessionFacts
  <2>3. QED
    BY <2>1, <2>2
<1>7. QED
  BY <1>4, <1>5, <1>6 DEF PP!IInv, PP!SessionInv

-----------------------------------------------------------------------------
(* What every request was told, and what is left when the process stops.   *)

\* A process that stopped, its engine disposed without an error, has an
\* empty queue.
QueueClosed == stage = "stopped" /\ "engine" \notin raised => idle = 0

\* The answer is the last thing a request does: it had no session, or its
\* session is over and the answer is the envelope of its outcome.
AnswerIsLast ==
    commitFirst => \A r \in Requests : reply[r] # NoReply =>
        \/ st[r] = "idle"
        \/ st[r] = "done" /\ reply[r] = Envelope(result[r])

\* Everything of the invariant that is about requests and the pool.
WorkInv == PP!IInv /\ reply \in [Requests -> Replies] /\ QueueClosed /\ AnswerIsLast

ServiceInv == LL!IInv /\ commitFirst \in BOOLEAN /\ WorkInv

LEMMA ServiceInit == Init => ServiceInv
<1>1. SUFFICES ASSUME Init PROVE ServiceInv
  OBVIOUS
<1>2. LL!IInv
  BY <1>1, LL!InitIInv DEF Init, L!Init, LL!Init
<1>3. PP!IInv
  <2>1. PP!Init
    BY <1>1 DEF Init, P!Init, P!Actors, PP!Init, PP!Actors
  <2>2. QED
    BY <2>1, PP!InitIInv, PoolAssumptions
<1>4. QED
  BY <1>1, <1>2, <1>3
     DEF Init, L!Init, ServiceInv, WorkInv, Replies, QueueClosed, AnswerIsLast

\* What LifecycleProofs proves of the process goes on holding: a step of the
\* composition is one of Lifecycle's, or leaves all its variables alone.
LEMMA LifeKept == LL!IInv /\ [Next]_vars => LL!IInv'
<1>1. SUFFICES ASSUME LL!IInv, L!Next \/ UNCHANGED L!vars PROVE LL!IInv'
  BY StepIsLifecycleStep
<1>2. CASE L!StartUp
  <2>1. LL!StartUp
    BY <1>2 DEF L!StartUp, L!ValidateConfiguration, L!ConnectDatabase, L!ConnectRedis,
                L!InstallSignalHandlers, L!RedisParts,
                LL!StartUp, LL!ValidateConfiguration, LL!ConnectDatabase,
                LL!ConnectRedis, LL!InstallSignalHandlers, LL!RedisParts
  <2>2. QED
    BY <1>1, <2>1, LL!StartUpIInv
<1>3. ASSUME NEW r \in Requests, L!Arrive(r) \/ L!Finish(r) PROVE LL!IInv'
  <2>1. LL!Arrive(r) \/ LL!Finish(r)
    BY <1>3 DEF L!Arrive, L!Finish, L!Ended, L!Resources,
                LL!Arrive, LL!Finish, LL!Ended, LL!Resources
  <2>2. QED
    BY <1>1, <2>1, LL!ServingIInv
<1>4. CASE \/ L!ProbeReadiness \/ L!ServerStops \/ L!StopListening \/ L!Kill
           \/ \E s \in L!Signals : L!Signal(s)
  <2>1. \/ LL!ProbeReadiness \/ LL!ServerStops \/ LL!StopListening \/ LL!Kill
        \/ \E s \in LL!Signals : LL!Signal(s)
    BY <1>4 DEF L!ProbeReadiness, L!ServerStops, L!StopListening, L!Kill, L!Signals,
                L!Signal, L!Ended, LL!ProbeReadiness, LL!ServerStops,
                LL!StopListening, LL!Kill, LL!Signals, LL!Signal, LL!Ended
  <2>2. QED
    BY <1>1, <2>1, LL!OutsideIInv
<1>5. CASE L!TearDown
  <2>1. LL!TearDown
    BY <1>5 DEF L!TearDown, L!EnterTeardown, L!CloseClient, L!ClosePool,
                L!CloseEngine, L!CloseStep, L!Active,
                LL!TearDown, LL!EnterTeardown, LL!CloseClient, LL!ClosePool,
                LL!CloseEngine, LL!CloseStep, LL!Active
  <2>2. QED
    BY <1>1, <2>1, LL!TearDownIInv
<1>6. CASE UNCHANGED L!vars
  BY <1>1, <1>6, LL!StutterIInv DEF L!vars, LL!vars
<1>7. QED
  BY <1>1, <1>2, <1>3, <1>4, <1>5, <1>6 DEF L!Next

\* Every outcome has an envelope.
LEMMA EnvelopeIsReply == ASSUME NEW res PROVE Envelope(res) \in Replies
<1>1. CASE res \in {"dependency_down", "transient", "timeout"}
  BY <1>1 DEF Envelope, Replies
<1>2. CASE res \notin {"dependency_down", "transient", "timeout"}
  BY <1>2 DEF Envelope, Replies
<1>3. QED
  BY <1>1, <1>2

\* A success is told apart from every envelope.
LEMMA OnlyNoneSucceeds == ASSUME NEW res, Envelope(res) = Success PROVE res = "none"
<1>1. "class" \notin DOMAIN Success
  BY DEF Success
<1>2. "class" \in DOMAIN T!RenderUnhandled
  BY DEF T!RenderUnhandled, T!Plain, T!Render
<1>3. \A e : "class" \in DOMAIN T!RenderAppError(e)
  BY DEF T!RenderAppError, T!Render
<1>4. QED
  BY <1>1, <1>2, <1>3 DEF Envelope

\* Only a session that has begun and is not over takes steps.
LEMMA MidSession ==
    ASSUME PP!TypeOK, NEW r \in Requests, SessionStep(r) \/ ReturnFirst(r)
    PROVE  st[r] \notin {"idle", "done"}
<1>1. CASE P!PoolStep(r)
  BY <1>1 DEF P!PoolStep, P!Acquire, P!Granted, P!WaitTimesOut, P!Connected,
              P!ConnectFails
<1>2. CASE P!QueryFails(r) \/ P!HandlerRaises(r) \/ P!Cancel(r) \/ P!ExitBlock(r)
  BY <1>2 DEF P!QueryFails, P!HandlerRaises, P!Cancel, P!ExitBlock, P!Move
<1>3. CASE P!EndStep(r)
  BY <1>3 DEF P!EndStep, P!CommitOk, P!CommitFails, P!Rollback, P!RollbackFails,
              P!Close, P!Move
<1>4. QED
  BY <1>1, <1>2, <1>3 DEF SessionStep, ReturnFirst

\* The steps of a session: they touch neither the process nor other requests,
\* and the request is not answered yet if answers come last.
LEMMA SessionStepInv ==
    ASSUME WorkInv, NEW r \in Requests,
           OpenSession(r) \/ SessionStep(r) \/ ReturnFirst(r)
    PROVE  WorkInv'
<1>1. P!PoolStep(r) \/ P!BodyStep(r) \/ P!EndStep(r)
  BY DEF OpenSession, SessionStep, ReturnFirst, P!BodyStep
<1>2. PP!IInv'
  BY <1>1, PoolKept DEF WorkInv
<1>3. (reply \in [Requests -> Replies])'
  BY DEF WorkInv, OpenSession, SessionStep, ReturnFirst, Tell, Replies
<1>4. QueueClosed'
  BY DEF OpenSession, SessionStep, ReturnFirst, Working, lifeVars, QueueClosed, L!Ended
<1>5. AnswerIsLast'
  <2>1. SUFFICES ASSUME commitFirst', NEW q \in Requests, reply'[q] # NoReply
                 PROVE  \/ st'[q] = "idle"
                        \/ st'[q] = "done" /\ reply'[q] = Envelope(result'[q])
    BY DEF AnswerIsLast
  <2>2. commitFirst /\ reply' = reply
    BY <2>1 DEF OpenSession, SessionStep, ReturnFirst
  <2>3. \/ st[q] = "idle"
        \/ st[q] = "done" /\ reply[q] = Envelope(result[q])
    BY <2>1, <2>2 DEF WorkInv, AnswerIsLast
  <2>4. q # r
    BY <2>1, <2>2, <2>3, MidSession DEF OpenSession, WorkInv, PP!IInv
  <2>5. st'[q] = st[q] /\ result'[q] = result[q]
    BY <1>1, <2>4, SamePoolStep, SameBodyStep, SameEndStep, PP!OthersUntouched,
       PoolAssumptions
       DEF WorkInv, PP!IInv, PP!Actors
  <2>6. QED
    BY <2>2, <2>3, <2>5
<1>6. QED
  BY <1>2, <1>3, <1>4, <1>5 DEF WorkInv

\* Telling one request something, while no session moves.
LEMMA TellInv ==
    ASSUME WorkInv, NEW r \in Requests, NEW what \in Replies,
           commitFirst => st[r] = "idle" \/ (st[r] = "done" /\ what = Envelope(result[r])),
           Tell(r, what), UNCHANGED <<lifeVars, dbVars, commitFirst>>
    PROVE  WorkInv'
<1>1. PP!IInv'
  BY PoolKept DEF WorkInv
<1>2. (reply \in [Requests -> Replies])'
  BY DEF WorkInv, Tell
<1>3. QueueClosed'
  BY DEF WorkInv, QueueClosed, lifeVars, dbVars
<1>4. AnswerIsLast'
  BY DEF WorkInv, AnswerIsLast, Tell, dbVars
<1>5. QED
  BY <1>1, <1>2, <1>3, <1>4 DEF WorkInv

\* A request that is over: it was told nothing yet, in its next life.
LEMMA FinishInv == ASSUME WorkInv, NEW r \in Requests, Finish(r) PROVE WorkInv'
<1>1. PP!IInv'
  BY RequestForgotten DEF WorkInv
<1>2. (reply \in [Requests -> Replies])'
  BY DEF WorkInv, Finish, Forget, Tell, Replies
<1>3. QueueClosed'
  BY DEF WorkInv, QueueClosed, Finish, Forget, L!Finish
<1>4. AnswerIsLast'
  BY DEF WorkInv, AnswerIsLast, Finish, Forget, Tell, PP!IInv, PP!TypeOK, PP!Actors
<1>5. QED
  BY <1>1, <1>2, <1>3, <1>4 DEF WorkInv

\* The process's own steps other than disposing the engine do not stop it.
LEMMA ProcessInv == ASSUME WorkInv, Outside \/ Proceed PROVE WorkInv'
<1>1. UNCHANGED <<dbVars, commitFirst, reply>>
  BY DEF Outside, Proceed
<1>2. PP!IInv'
  BY <1>1, PoolKept DEF WorkInv
<1>3. stage' = "stopped" => stage = "stopped" /\ raised' = raised
  BY DEF Outside, Proceed, L!Arrive, L!Signal, L!ServerStops, L!StartUp,
         L!ValidateConfiguration, L!ConnectDatabase, L!ConnectRedis,
         L!InstallSignalHandlers, L!StopListening, L!EnterTeardown, L!CloseClient,
         L!ClosePool, L!CloseStep
<1>4. QED
  BY <1>1, <1>2, <1>3 DEF WorkInv, QueueClosed, AnswerIsLast, dbVars

\* Disposing the engine empties the queue, or raises.
LEMMA DisposeInv == ASSUME WorkInv, CloseEngine PROVE WorkInv'
<1>1. PP!IInv'
  BY PoolClosed DEF WorkInv
<1>2. QueueClosed'
  BY DEF CloseEngine, L!CloseEngine, L!CloseStep, QueueClosed
<1>3. QED
  BY <1>1, <1>2 DEF CloseEngine, WorkInv, AnswerIsLast

LEMMA ServiceNext == ServiceInv /\ [Next]_vars => ServiceInv'
<1>1. SUFFICES ASSUME ServiceInv, WorkInv, [Next]_vars PROVE ServiceInv'
  BY DEF ServiceInv
<1>2. LL!IInv'
  BY <1>1, LifeKept DEF ServiceInv
<1>3. ASSUME NEW r \in Requests, RequestStep(r) PROVE WorkInv'
  <2>1. CASE OpenSession(r) \/ SessionStep(r) \/ ReturnFirst(r)
    BY <1>1, <2>1, SessionStepInv
  <2>2. CASE AnswerWithoutSession(r)
    <3>1. PICK what \in {Success, T!RenderUnhandled} : Tell(r, what)
      BY <2>2 DEF AnswerWithoutSession
    <3>2. what \in Replies
      BY DEF Replies
    <3>3. QED
      BY <1>1, <2>2, <3>1, <3>2, TellInv DEF AnswerWithoutSession
  <2>3. CASE Answer(r)
    BY <1>1, <2>3, EnvelopeIsReply, TellInv DEF Answer
  <2>4. CASE Finish(r)
    BY <1>1, <2>4, FinishInv
  <2>5. QED
    BY <1>3, <2>1, <2>2, <2>3, <2>4 DEF RequestStep
<1>4. ASSUME UNCHANGED vars PROVE WorkInv'
  <2>1. PP!IInv'
    BY <1>1, <1>4, PoolKept DEF WorkInv, vars
  <2>2. QED
    BY <1>1, <1>4, <2>1
       DEF WorkInv, QueueClosed, AnswerIsLast, vars, lifeVars, dbVars
<1>5. WorkInv'
  BY <1>1, <1>3, <1>4, ProcessInv, DisposeInv DEF Next
<1>6. commitFirst' \in BOOLEAN
  <2>1. commitFirst' = commitFirst
    BY <1>1
       DEF Next, Outside, Proceed, CloseEngine, RequestStep, OpenSession,
           AnswerWithoutSession, SessionStep, ReturnFirst, Answer, Finish, Forget, vars
  <2>2. QED
    BY <1>1, <2>1, Zenon DEF ServiceInv
<1>7. QED
  BY <1>2, <1>5, <1>6 DEF ServiceInv, WorkInv

\* ServiceInv is an invariant of the composition.
THEOREM ServiceInvariant == Spec => []ServiceInv
  BY ServiceInit, ServiceNext, PTL DEF Spec

\* TypeOK: every variable of process, sessions, pool and answers keeps its
\* type; the pool's counters keep within its sizes even when the engine is
\* disposed with connections in use.
THEOREM TypeInvariant == Spec => []TypeOK
<1>1. LL!TypeOK <=> L!TypeOK
  BY DEF L!TypeOK, L!Stages, L!Starting, L!Closing, L!Ended, L!Resources,
         LL!TypeOK, LL!Stages, LL!Starting, LL!Closing, LL!Ended, LL!Resources
<1>2. ServiceInv => TypeOK
  BY <1>1, SameTypes DEF ServiceInv, LL!IInv, WorkInv, PP!IInv, TypeOK
<1>3. QED
  BY <1>2, ServiceInvariant, PTL

\* NoConnectionLeftBehind: a process that stopped of its own accord, with no
\* error from dispose, has no connection in the queue and none in use.
THEOREM StoppedLeavesNothing == Spec => []NoConnectionLeftBehind
<1>1. ServiceInv /\ WorkEndsBeforeTeardown => NoConnectionLeftBehind
  <2>1. SUFFICES ASSUME ServiceInv, WorkEndsBeforeTeardown, stage = "stopped",
                        exit # "forced", "engine" \notin raised
                 PROVE  idle = 0 /\ slot = {}
    BY DEF NoConnectionLeftBehind
  <2>2. \A r \in Requests : st[r] = "idle"
    BY <2>1 DEF WorkEndsBeforeTeardown
  <2>3. \A r \in slot : r \in Requests /\ st[r] # "idle"
    BY <2>1 DEF ServiceInv, WorkInv, PP!IInv, PP!TypeOK, PP!Actors, PP!PoolInv,
                PP!ReturnedOnExit, PP!Owning
  <2>4. QED
    BY <2>1, <2>2, <2>3 DEF ServiceInv, WorkInv, QueueClosed
<1>2. QED
  BY <1>1, ServiceInvariant, TeardownInterruptsNobody, PTL

\* ToldAsCommitted: where the session ends before the response is sent, a
\* success means the work is committed, and an error that it is not, unless
\* the connection was lost while committing.
THEOREM AnswersMatchCommits == Spec => []ToldAsCommitted
<1>1. ServiceInv => ToldAsCommitted
  <2>1. SUFFICES ASSUME ServiceInv, commitFirst, NEW r \in Requests, reply[r] # NoReply
                 PROVE  /\ reply[r] = Success => tx[r] \in {"none", "committed"}
                        /\ tx[r] = "committed" /\ exc[r] \notin P!InDoubt
                               => reply[r] = Success
    BY DEF ToldAsCommitted, Success, NoReply
  <2>2. PP!SessionFacts(r)
    BY <2>1 DEF ServiceInv, WorkInv, PP!IInv, PP!SessionInv
  <2>3. CASE st[r] = "idle"
    BY <2>2, <2>3 DEF PP!SessionFacts
  <2>4. CASE st[r] = "done" /\ reply[r] = Envelope(result[r])
    <3>1. reply[r] = Success => result[r] = "none"
      BY <2>4, OnlyNoneSucceeds
    <3>2. result[r] = "none" => reply[r] = Success
      BY <2>4 DEF Envelope
    <3>3. result[r] = "none" <=> exc[r] = "none"
      BY <2>2, <2>4 DEF PP!SessionFacts
    <3>4. /\ exc[r] = "none" => tx[r] \in {"none", "committed"}
          /\ tx[r] = "committed" => exc[r] \in P!InDoubt \cup {"none"}
      BY <2>2, <2>4 DEF PP!SessionFacts, PP!InDoubt, P!InDoubt
    <3>5. QED
      BY <3>1, <3>2, <3>3, <3>4
  <2>5. QED
    BY <2>1, <2>3, <2>4 DEF ServiceInv, WorkInv, AnswerIsLast
<1>2. QED
  BY <1>1, ServiceInvariant, PTL
-----------------------------------------------------------------------------
(* What the parts promise, of the whole.                                   *)

\* The process keeps its promises with sessions at work in it: nobody meets a
\* closed resource, every closer is tried, and Redis is up without Postgres only
\* after a Redis closer raised.
THEOREM ProcessPromisesKept ==
    Spec => [](/\ L!NoRequestCut
               /\ L!TeardownComplete
               /\ L!RedisNeverOutlivesDatabase)
<1>1. LL!IInv => /\ L!NoRequestCut
                 /\ L!TeardownComplete
                 /\ L!RedisNeverOutlivesDatabase
  BY DEF LL!IInv, LL!NoRequestCut, LL!TeardownComplete, LL!RedisNeverOutlivesDatabase,
         LL!RedisParts, LL!Closing,
         L!NoRequestCut, L!TeardownComplete, L!RedisNeverOutlivesDatabase,
         L!RedisParts, L!Closing
<1>2. ServiceInv => LL!IInv
  BY DEF ServiceInv
<1>3. QED
  BY <1>1, <1>2, ServiceInvariant, PTL

\* The pool keeps its promises while the process is torn down around it: no
\* connection is lost or counted twice, every session gives its own back and
\* is one unit of work.
THEOREM PoolPromisesKept ==
    Spec => [](/\ P!PoolConservation
               /\ P!ReturnedOnExit
               /\ P!UnitOfWork)
<1>1. PP!IInv => P!PoolConservation /\ P!ReturnedOnExit
  BY SameCardinality DEF PP!IInv, PP!PoolInv, PP!PoolConservation, PP!ReturnedOnExit, PP!Owning,
         P!PoolConservation, P!ReturnedOnExit, P!Owning
<1>2. PP!IInv => P!UnitOfWork
  BY DEF PP!IInv, PP!SessionInv, PP!SessionFacts, PP!TypeOK, PP!Actors, PP!InDoubt,
         P!UnitOfWork, P!Exceptions, P!DbErrors, P!InDoubt
<1>3. ServiceInv => PP!IInv
  BY DEF ServiceInv, WorkInv
<1>4. QED
  BY <1>1, <1>2, <1>3, ServiceInvariant, PTL

\* A request is refused only when every connection the settings allow is open,
\* in use or idle in the queue, before, during and after the teardown.
THEOREM RefusalsStayJustified == Spec => P!RefusedOnlyWhenFull
<1> DEFINE RefusedWhenFull ==
        \A a \in P!Actors : exc[a] # "pool_timeout" /\ exc'[a] = "pool_timeout" =>
            idle + P!Cardinality(slot) = PoolSize + MaxOverflow
<1>1. ASSUME ServiceInv, Next PROVE [RefusedWhenFull]_(P!vars)
  <2>1. SUFFICES ASSUME NEW r \in Requests, exc[r] # "pool_timeout",
                        exc'[r] = "pool_timeout"
                 PROVE  idle + PP!Cardinality(slot) = PoolSize + MaxOverflow
    BY SameCardinality DEF P!Actors
  <2>2. CASE \E q \in Requests : P!PoolStep(q) \/ P!BodyStep(q) \/ P!EndStep(q)
    <3>1. PICK q \in Requests : P!PoolStep(q) \/ P!BodyStep(q) \/ P!EndStep(q)
      BY <2>2
    <3>2. PP!PoolStep(q) \/ PP!BodyStep(q) \/ PP!EndStep(q)
      BY <3>1, SamePoolStep, SameBodyStep, SameEndStep
    <3>3. QED
      BY <1>1, <2>1, <3>2, PP!RefusalMeansFull, PoolAssumptions
         DEF ServiceInv, WorkInv, PP!Actors
  <2>3. CASE \E q \in Requests : OpenSession(q) \/ SessionStep(q) \/ ReturnFirst(q)
    BY <2>2, <2>3 DEF OpenSession, SessionStep, ReturnFirst, P!BodyStep
  <2>4. CASE \E q \in Requests : Finish(q)
    BY <1>1, <2>1, <2>4
       DEF Finish, Forget, ServiceInv, WorkInv, PP!IInv, PP!TypeOK, PP!Actors
  <2>5. CASE \/ Outside \/ Proceed \/ CloseEngine
             \/ \E q \in Requests : AnswerWithoutSession(q) \/ Answer(q)
    BY <2>1, <2>5
       DEF Outside, Proceed, CloseEngine, AnswerWithoutSession, Answer, dbVars
  <2>6. QED
    BY <1>1, <2>3, <2>4, <2>5 DEF Next, RequestStep
<1>2. ASSUME UNCHANGED vars PROVE UNCHANGED P!vars
  BY <1>2 DEF vars, dbVars, P!vars
<1>3. ServiceInv /\ [Next]_vars => [RefusedWhenFull]_(P!vars)
  BY <1>1, <1>2
<1>4. Spec => [][RefusedWhenFull]_(P!vars)
  <2> HIDE DEF RefusedWhenFull
  <2>1. QED
    BY <1>3, ServiceInvariant, PTL DEF Spec
<1>5. QED
  BY <1>4 DEF P!RefusedOnlyWhenFull
=============================================================================
