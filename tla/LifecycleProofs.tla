--------------------------- MODULE LifecycleProofs ---------------------------
(***************************************************************************)
(* Proofs about Lifecycle, for every set of requests.  The four safety     *)
(* properties are not inductive: what is open depends on how far start-up  *)
(* or teardown has come, and a request may only meet a closed handle       *)
(* because of the guard of EnterTeardown.  IInv adds both facts.           *)
(***************************************************************************)
EXTENDS Lifecycle, TLAPS

\* What is open at each stage at which it is known exactly.
HandlesMatchStage ==
    /\ stage \in {"created", "configured", "refused"} => open = {}
    /\ stage = "db_open" => open = {"engine"}
    /\ stage \in {"redis_open", "serving", "draining", "close_client"} =>
           open = Resources
    /\ stage = "close_pool" => open = {"engine", "pool"}
    /\ stage = "close_engine" =>
           /\ "engine" \in open
           /\ open \cap RedisParts # {} => raised \cap RedisParts # {}

\* No request is active before serving starts, nor once a closer may run,
\* unless the exit is forced.
NobodyActive ==
    stage \in Starting \cup Closing /\ exit # "forced" =>
        \A r \in Requests : req[r] # "active"

IInv ==
    /\ TypeOK
    /\ HandlesMatchStage
    /\ NobodyActive
    /\ NoRequestCut
    /\ TeardownComplete
    /\ RedisNeverOutlivesDatabase

LEMMA InitIInv == Init => IInv
  BY DEF Init, IInv, TypeOK, HandlesMatchStage, NobodyActive, NoRequestCut,
         TeardownComplete, RedisNeverOutlivesDatabase,
         Stages, Starting, Closing, Ended, Resources, RedisParts

USE DEF Stages, Starting, Closing, Ended, Resources, RedisParts

LEMMA StartUpIInv == IInv /\ StartUp => IInv'
<1> SUFFICES ASSUME IInv, StartUp PROVE IInv'
  OBVIOUS
<1>1. CASE ValidateConfiguration
  BY <1>1 DEF ValidateConfiguration, IInv, TypeOK, HandlesMatchStage,
     NobodyActive, NoRequestCut, TeardownComplete,
     RedisNeverOutlivesDatabase
<1>2. CASE ConnectDatabase
  BY <1>2 DEF ConnectDatabase, IInv, TypeOK, HandlesMatchStage,
     NobodyActive, NoRequestCut, TeardownComplete,
     RedisNeverOutlivesDatabase
<1>3. CASE ConnectRedis
  BY <1>3 DEF ConnectRedis, IInv, TypeOK, HandlesMatchStage,
     NobodyActive, NoRequestCut, TeardownComplete,
     RedisNeverOutlivesDatabase
<1>4. CASE InstallSignalHandlers
  BY <1>4 DEF InstallSignalHandlers, IInv, TypeOK, HandlesMatchStage,
     NobodyActive, NoRequestCut, TeardownComplete,
     RedisNeverOutlivesDatabase
<1> QED
  BY <1>1, <1>2, <1>3, <1>4 DEF StartUp

LEMMA ServingIInv ==
    ASSUME IInv, NEW r \in Requests, Arrive(r) \/ Finish(r)
    PROVE  IInv'
<1>1. TypeOK'
  BY DEF Arrive, Finish, IInv, TypeOK
<1>2. UNCHANGED <<stage, open, raised, accepting, disposition, exit>>
  BY DEF Arrive, Finish
<1>3. NobodyActive'
  BY <1>2 DEF Arrive, Finish, IInv, NobodyActive, TypeOK
<1>4. NoRequestCut'
  <2>1. CASE Arrive(r)
    BY <2>1 DEF Arrive, IInv, NoRequestCut, TypeOK
  <2>2. CASE Finish(r)
    <3>1. open = Resources \/ exit = "forced" \/ stage \in Starting \cup Closing
      BY <2>2 DEF Finish, IInv, TypeOK, HandlesMatchStage
    <3>2. open = Resources \/ exit = "forced"
      BY <2>2, <3>1 DEF Finish, IInv, NobodyActive
    <3> QED
      BY <1>2, <2>2, <3>2 DEF Finish, IInv, NoRequestCut, TypeOK
  <2> QED
    BY <2>1, <2>2
<1> QED
  BY <1>1, <1>2, <1>3, <1>4 DEF IInv, HandlesMatchStage, TeardownComplete,
     RedisNeverOutlivesDatabase

\* The steps of kubelet, operator, server and operating system: they open
\* and close nothing.
LEMMA OutsideIInv ==
    ASSUME IInv,
           \/ ProbeReadiness
           \/ \E s \in Signals : Signal(s)
           \/ ServerStops
           \/ StopListening
           \/ Kill
    PROVE  IInv'
<1>1. CASE ProbeReadiness
  BY <1>1 DEF ProbeReadiness, IInv, TypeOK, HandlesMatchStage,
     NobodyActive, NoRequestCut, TeardownComplete,
     RedisNeverOutlivesDatabase
<1>2. ASSUME NEW s \in Signals, Signal(s) PROVE IInv'
  <2>1. UNCHANGED <<stage, open, raised, disposition, req, rotation>>
    BY <1>2 DEF Signal
  <2>2. exit' \in {"no", "graceful", "forced"}
    BY <1>2 DEF Signal, IInv, TypeOK
  <2>3. accepting' = accepting \/ accepting' = FALSE
    BY <1>2 DEF Signal
  <2>4. exit = "forced" => exit' = "forced"
    BY <1>2 DEF Signal
  <2>5. TypeOK'
    BY <2>1, <2>2, <2>3 DEF IInv, TypeOK
  <2>6. NobodyActive' /\ NoRequestCut'
    BY <2>1, <2>4 DEF IInv, NobodyActive, NoRequestCut
  <2> QED
    BY <2>1, <2>5, <2>6 DEF IInv, HandlesMatchStage, TeardownComplete,
       RedisNeverOutlivesDatabase
<1>3. CASE ServerStops
  BY <1>3 DEF ServerStops, IInv, TypeOK, HandlesMatchStage,
     NobodyActive, NoRequestCut, TeardownComplete,
     RedisNeverOutlivesDatabase
<1>4. CASE StopListening
  BY <1>4 DEF StopListening, IInv, TypeOK, HandlesMatchStage,
     NobodyActive, NoRequestCut, TeardownComplete,
     RedisNeverOutlivesDatabase
<1>5. CASE Kill
  BY <1>5 DEF Kill, IInv, TypeOK, HandlesMatchStage,
     NobodyActive, NoRequestCut, TeardownComplete,
     RedisNeverOutlivesDatabase
<1> QED
  BY <1>1, <1>2, <1>3, <1>4, <1>5

LEMMA TearDownIInv == IInv /\ TearDown => IInv'
<1> SUFFICES ASSUME IInv, TearDown PROVE IInv'
  OBVIOUS
<1>1. CASE EnterTeardown
  BY <1>1 DEF EnterTeardown, Active, IInv, TypeOK, HandlesMatchStage,
     NobodyActive, NoRequestCut, TeardownComplete,
     RedisNeverOutlivesDatabase
<1>2. CASE CloseClient
  BY <1>2 DEF CloseClient, CloseStep, IInv, TypeOK, HandlesMatchStage,
     NobodyActive, NoRequestCut, TeardownComplete,
     RedisNeverOutlivesDatabase
<1>3. CASE ClosePool
  BY <1>3 DEF ClosePool, CloseStep, IInv, TypeOK, HandlesMatchStage,
     NobodyActive, NoRequestCut, TeardownComplete,
     RedisNeverOutlivesDatabase
<1>4. CASE CloseEngine
  BY <1>4 DEF CloseEngine, CloseStep, IInv, TypeOK, HandlesMatchStage,
     NobodyActive, NoRequestCut, TeardownComplete,
     RedisNeverOutlivesDatabase
<1> QED
  BY <1>1, <1>2, <1>3, <1>4 DEF TearDown

LEMMA StutterIInv == IInv /\ UNCHANGED vars => IInv'
  BY DEF vars, IInv, TypeOK, HandlesMatchStage, NobodyActive, NoRequestCut,
     TeardownComplete, RedisNeverOutlivesDatabase

\* IInv is an inductive invariant of the process's life.
THEOREM Invariance == Spec => []IInv
<1>1. IInv /\ [Next]_vars => IInv'
  BY StartUpIInv, ServingIInv, OutsideIInv, TearDownIInv, StutterIInv DEF Next
<1> QED
  BY InitIInv, <1>1, PTL DEF Spec

\* Every variable keeps its type.
THEOREM TypeCorrect == Spec => []TypeOK
  BY Invariance, PTL DEF IInv

\* No accepted request meets a closed handle unless the exit is forced.
THEOREM NoRequestIsCut == Spec => []NoRequestCut
  BY Invariance, PTL DEF IInv

\* A teardown that ran to its end tried every closer.
THEOREM TeardownIsComplete == Spec => []TeardownComplete
  BY Invariance, PTL DEF IInv

\* Redis is up without Postgres only after a Redis closer raised.
THEOREM RedisGoesFirst == Spec => []RedisNeverOutlivesDatabase
  BY Invariance, PTL DEF IInv
=============================================================================
