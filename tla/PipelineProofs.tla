--------------------------- MODULE PipelineProofs ---------------------------
(***************************************************************************)
(* Proofs about Pipeline, for any finite set of requests.  RequestInv says *)
(* of each request, by the layer it is in, which IDs are bound and written *)
(* (IdFacts) and how its answer, its tally, its error count and its log    *)
(* line belong together (CountFacts); no request disturbs another's facts, *)
(* so every step is proved for its own request only.  The shared gauge is  *)
(* proved apart: two actions change the set of requests it counts.         *)
(***************************************************************************)
EXTENDS Pipeline, FiniteSetTheorems, TLAPS

\* The layers at which the context of the request is bound, ...
Bound == {"metrics", "out_correlation", "raise_correlation"} \cup Inside
\* ... at which it has a response, ...
Answered == {"out_access", "out_metrics", "out_correlation", "streaming", "done", "broken"}
\* ... and which MetricsMiddleware has counted.
Counted == {"out_correlation", "raise_correlation", "server_error", "streaming", "done", "broken"}

IdFacts(r) ==
    /\ IF pc[r] \in {"new", "correlation"} THEN bodyId[r] = None ELSE given[r] # None
    /\ pc[r] \in Bound => ctx[r] = given[r]
    /\ pc[r] \notin Bound => ctx[r] = None
    /\ pc[r] \in Inside => inner[r] = given[r]
    /\ pc[r] \notin {"streaming", "done", "broken"} => headerId[r] = None
    /\ pc[r] \in {"streaming", "broken"} => headerId[r] # None
    /\ headerId[r] \in {None, given[r]}
    /\ bodyId[r] \in {None, given[r]}

CountFacts(r) ==
    /\ status[r] # None <=> pc[r] \in Answered
    /\ tally[r] = IF pc[r] \in Counted THEN 1 ELSE 0
    /\ pc[r] \in Counted =>
           label[r] = IF status[r] = None THEN "500" ELSE status[r]
    /\ status[r] \in {None, "200"} => r \notin httpCoded
    /\ errors[r] = IF \/ status[r] = None
                      \/ r \in httpCoded
                      \/ status[r] = "200" /\ pc[r] # "broken"
                     THEN 0 ELSE 1
    /\ logged[r] = IF /\ pc[r] \in {"out_metrics", "out_correlation"} \/ headerId[r] # None
                      /\ r \notin quiet
                     THEN 1 ELSE 0

Facts(r) == IdFacts(r) /\ CountFacts(r)

RequestInv == \A r \in Requests : Facts(r)

IInv == TypeOK /\ RequestInv /\ InFlightExact

\* Nothing of a request changes.
SameFor(q) ==
    /\ pc'[q] = pc[q]
    /\ q \in quiet' <=> q \in quiet
    /\ given'[q] = given[q]
    /\ ctx'[q] = ctx[q]
    /\ inner'[q] = inner[q]
    /\ status'[q] = status[q]
    /\ bodyId'[q] = bodyId[q]
    /\ q \in httpCoded' <=> q \in httpCoded
    /\ headerId'[q] = headerId[q]
    /\ tally'[q] = tally[q]
    /\ label'[q] = label[q]
    /\ errors'[q] = errors[q]
    /\ logged'[q] = logged[q]

LEMMA Elsewhere ==
    ASSUME RequestInv, NEW q \in Requests, SameFor(q)
    PROVE  Facts(q)'
  BY DEF RequestInv, Facts, IdFacts, CountFacts, SameFor

-----------------------------------------------------------------------------
(* One lemma per action: types, and the facts of the request that moves.   *)

USE DEF Move, CountError, Render, RenderCounted, RenderHttp, Inside, Bound, Answered, Counted, Statuses, None,
        answerVars, idVars, countVars

LEMMA ArriveStep ==
    ASSUME TypeOK, RequestInv, NEW r \in Requests, Arrive(r)
    PROVE  TypeOK' /\ RequestInv'
<1>1. TypeOK'
  BY DEF RequestInv, Facts, IdFacts, CountFacts, TypeOK, Arrive, Ids, Layers
<1>2. IdFacts(r)'
  BY DEF RequestInv, Facts, IdFacts, CountFacts, TypeOK, Arrive
<1>3. CountFacts(r)'
  BY DEF RequestInv, Facts, IdFacts, CountFacts, TypeOK, Arrive
<1>4. \A q \in Requests \ {r} : SameFor(q)
  BY DEF TypeOK, SameFor, Arrive
<1> QED
  BY <1>1, <1>2, <1>3, <1>4, Elsewhere DEF RequestInv, Facts

LEMMA BindContextStep ==
    ASSUME TypeOK, RequestInv, NEW r \in Requests, BindContext(r)
    PROVE  TypeOK' /\ RequestInv'
<1>1. TypeOK'
  BY DEF RequestInv, Facts, IdFacts, CountFacts, TypeOK, BindContext, Ids, Layers
<1>2. IdFacts(r)'
  BY RequestsAssumption DEF RequestInv, Facts, IdFacts, CountFacts, TypeOK, BindContext
<1>3. CountFacts(r)'
  BY DEF RequestInv, Facts, IdFacts, CountFacts, TypeOK, BindContext
<1>4. \A q \in Requests \ {r} : SameFor(q)
  BY DEF TypeOK, SameFor, BindContext
<1> QED
  BY <1>1, <1>2, <1>3, <1>4, Elsewhere DEF RequestInv, Facts

LEMMA EnterMetricsStep ==
    ASSUME TypeOK, RequestInv, NEW r \in Requests, EnterMetrics(r)
    PROVE  TypeOK' /\ RequestInv'
<1>1. TypeOK'
  BY DEF RequestInv, Facts, IdFacts, CountFacts, TypeOK, EnterMetrics, Ids, Layers
<1>2. IdFacts(r)'
  BY DEF RequestInv, Facts, IdFacts, CountFacts, TypeOK, EnterMetrics
<1>3. CountFacts(r)'
  BY DEF RequestInv, Facts, IdFacts, CountFacts, TypeOK, EnterMetrics
<1>4. \A q \in Requests \ {r} : SameFor(q)
  BY DEF TypeOK, SameFor, EnterMetrics
<1> QED
  BY <1>1, <1>2, <1>3, <1>4, Elsewhere DEF RequestInv, Facts

LEMMA EnterAccessLogStep ==
    ASSUME TypeOK, RequestInv, NEW r \in Requests, EnterAccessLog(r)
    PROVE  TypeOK' /\ RequestInv'
<1>1. TypeOK'
  BY DEF RequestInv, Facts, IdFacts, CountFacts, TypeOK, EnterAccessLog, Ids, Layers
<1>2. IdFacts(r)'
  BY DEF RequestInv, Facts, IdFacts, CountFacts, TypeOK, EnterAccessLog
<1>3. CountFacts(r)'
  BY DEF RequestInv, Facts, IdFacts, CountFacts, TypeOK, EnterAccessLog
<1>4. \A q \in Requests \ {r} : SameFor(q)
  BY DEF TypeOK, SameFor, EnterAccessLog
<1> QED
  BY <1>1, <1>2, <1>3, <1>4, Elsewhere DEF RequestInv, Facts

LEMMA CheckSizeStep ==
    ASSUME TypeOK, RequestInv, NEW r \in Requests, CheckSize(r)
    PROVE  TypeOK' /\ RequestInv'
<1>1. TypeOK'
  BY DEF RequestInv, Facts, IdFacts, CountFacts, TypeOK, CheckSize, Ids, Layers
<1>2. IdFacts(r)'
  BY DEF RequestInv, Facts, IdFacts, CountFacts, TypeOK, CheckSize
<1>3. CountFacts(r)'
  BY DEF RequestInv, Facts, IdFacts, CountFacts, TypeOK, CheckSize
<1>4. \A q \in Requests \ {r} : SameFor(q)
  BY DEF TypeOK, SameFor, CheckSize
<1> QED
  BY <1>1, <1>2, <1>3, <1>4, Elsewhere DEF RequestInv, Facts

LEMMA RouteSucceedsStep ==
    ASSUME TypeOK, RequestInv, NEW r \in Requests, RouteSucceeds(r)
    PROVE  TypeOK' /\ RequestInv'
<1>1. TypeOK'
  BY DEF RequestInv, Facts, IdFacts, CountFacts, TypeOK, RouteSucceeds, Ids, Layers
<1>2. IdFacts(r)'
  BY DEF RequestInv, Facts, IdFacts, CountFacts, TypeOK, RouteSucceeds
<1>3. CountFacts(r)'
  BY DEF RequestInv, Facts, IdFacts, CountFacts, TypeOK, RouteSucceeds
<1>4. \A q \in Requests \ {r} : SameFor(q)
  BY DEF TypeOK, SameFor, RouteSucceeds
<1> QED
  BY <1>1, <1>2, <1>3, <1>4, Elsewhere DEF RequestInv, Facts

LEMMA RouteRaisesStep ==
    ASSUME TypeOK, RequestInv, NEW r \in Requests, RouteRaises(r)
    PROVE  TypeOK' /\ RequestInv'
<1>1. TypeOK'
  BY DEF RequestInv, Facts, IdFacts, CountFacts, TypeOK, RouteRaises, Ids, Layers
<1>2. IdFacts(r)'
  BY DEF RequestInv, Facts, IdFacts, CountFacts, TypeOK, RouteRaises
<1>3. CountFacts(r)'
  BY DEF RequestInv, Facts, IdFacts, CountFacts, TypeOK, RouteRaises
<1>4. \A q \in Requests \ {r} : SameFor(q)
  BY DEF TypeOK, SameFor, RouteRaises
<1> QED
  BY <1>1, <1>2, <1>3, <1>4, Elsewhere DEF RequestInv, Facts

LEMMA BodyTooLargeStep ==
    ASSUME TypeOK, RequestInv, NEW r \in Requests, BodyTooLarge(r)
    PROVE  TypeOK' /\ RequestInv'
<1>1. TypeOK'
  BY DEF RequestInv, Facts, IdFacts, CountFacts, TypeOK, BodyTooLarge, Ids, Layers
<1>2. IdFacts(r)'
  BY DEF RequestInv, Facts, IdFacts, CountFacts, TypeOK, BodyTooLarge
<1>3. CountFacts(r)'
  BY DEF RequestInv, Facts, IdFacts, CountFacts, TypeOK, BodyTooLarge
<1>4. \A q \in Requests \ {r} : SameFor(q)
  BY DEF TypeOK, SameFor, BodyTooLarge
<1> QED
  BY <1>1, <1>2, <1>3, <1>4, Elsewhere DEF RequestInv, Facts

LEMMA AnswerTooLargeStep ==
    ASSUME TypeOK, RequestInv, NEW r \in Requests, AnswerTooLarge(r)
    PROVE  TypeOK' /\ RequestInv'
<1>1. TypeOK'
  BY DEF RequestInv, Facts, IdFacts, CountFacts, TypeOK, AnswerTooLarge, Ids, Layers
<1>2. IdFacts(r)'
  BY DEF RequestInv, Facts, IdFacts, CountFacts, TypeOK, AnswerTooLarge
<1>3. CountFacts(r)'
  BY DEF RequestInv, Facts, IdFacts, CountFacts, TypeOK, AnswerTooLarge
<1>4. \A q \in Requests \ {r} : SameFor(q)
  BY DEF TypeOK, SameFor, AnswerTooLarge
<1> QED
  BY <1>1, <1>2, <1>3, <1>4, Elsewhere DEF RequestInv, Facts

LEMMA RouteFailsStep ==
    ASSUME TypeOK, RequestInv, NEW r \in Requests, RouteFails(r)
    PROVE  TypeOK' /\ RequestInv'
<1>1. TypeOK'
  BY DEF RequestInv, Facts, IdFacts, CountFacts, TypeOK, RouteFails, Ids, Layers
<1>2. IdFacts(r)'
  BY DEF RequestInv, Facts, IdFacts, CountFacts, TypeOK, RouteFails
<1>3. CountFacts(r)'
  BY DEF RequestInv, Facts, IdFacts, CountFacts, TypeOK, RouteFails
<1>4. \A q \in Requests \ {r} : SameFor(q)
  BY DEF TypeOK, SameFor, RouteFails
<1> QED
  BY <1>1, <1>2, <1>3, <1>4, Elsewhere DEF RequestInv, Facts

LEMMA LogAccessStep ==
    ASSUME TypeOK, RequestInv, NEW r \in Requests, LogAccess(r)
    PROVE  TypeOK' /\ RequestInv'
<1>1. TypeOK'
  BY DEF RequestInv, Facts, IdFacts, CountFacts, TypeOK, LogAccess, Ids, Layers
<1>2. IdFacts(r)'
  BY DEF RequestInv, Facts, IdFacts, CountFacts, TypeOK, LogAccess
<1>3. CountFacts(r)'
  BY DEF RequestInv, Facts, IdFacts, CountFacts, TypeOK, LogAccess
<1>4. \A q \in Requests \ {r} : SameFor(q)
  BY DEF TypeOK, SameFor, LogAccess
<1> QED
  BY <1>1, <1>2, <1>3, <1>4, Elsewhere DEF RequestInv, Facts

LEMMA LeaveMetricsStep ==
    ASSUME TypeOK, RequestInv, NEW r \in Requests, LeaveMetrics(r)
    PROVE  TypeOK' /\ RequestInv'
<1>1. TypeOK'
  BY DEF RequestInv, Facts, IdFacts, CountFacts, TypeOK, LeaveMetrics, Ids, Layers
<1>2. IdFacts(r)'
  BY DEF RequestInv, Facts, IdFacts, CountFacts, TypeOK, LeaveMetrics
<1>3. CountFacts(r)'
  BY DEF RequestInv, Facts, IdFacts, CountFacts, TypeOK, LeaveMetrics
<1>4. \A q \in Requests \ {r} : SameFor(q)
  BY DEF TypeOK, SameFor, LeaveMetrics
<1> QED
  BY <1>1, <1>2, <1>3, <1>4, Elsewhere DEF RequestInv, Facts

LEMMA RestoreContextStep ==
    ASSUME TypeOK, RequestInv, NEW r \in Requests, RestoreContext(r)
    PROVE  TypeOK' /\ RequestInv'
<1>1. TypeOK'
  BY DEF RequestInv, Facts, IdFacts, CountFacts, TypeOK, RestoreContext, Ids, Layers
<1>2. IdFacts(r)'
  BY DEF RequestInv, Facts, IdFacts, CountFacts, TypeOK, RestoreContext
<1>3. CountFacts(r)'
  BY DEF RequestInv, Facts, IdFacts, CountFacts, TypeOK, RestoreContext
<1>4. \A q \in Requests \ {r} : SameFor(q)
  BY DEF TypeOK, SameFor, RestoreContext
<1> QED
  BY <1>1, <1>2, <1>3, <1>4, Elsewhere DEF RequestInv, Facts

LEMMA FinishBodyStep ==
    ASSUME TypeOK, RequestInv, NEW r \in Requests, FinishBody(r)
    PROVE  TypeOK' /\ RequestInv'
<1>1. TypeOK'
  BY DEF RequestInv, Facts, IdFacts, CountFacts, TypeOK, FinishBody, Ids, Layers
<1>2. IdFacts(r)'
  BY DEF RequestInv, Facts, IdFacts, CountFacts, TypeOK, FinishBody
<1>3. CountFacts(r)'
  BY DEF RequestInv, Facts, IdFacts, CountFacts, TypeOK, FinishBody
<1>4. \A q \in Requests \ {r} : SameFor(q)
  BY DEF TypeOK, SameFor, FinishBody
<1> QED
  BY <1>1, <1>2, <1>3, <1>4, Elsewhere DEF RequestInv, Facts

LEMMA BreakOffStep ==
    ASSUME TypeOK, RequestInv, NEW r \in Requests, BreakOff(r)
    PROVE  TypeOK' /\ RequestInv'
<1>1. TypeOK'
  BY DEF RequestInv, Facts, IdFacts, CountFacts, TypeOK, BreakOff, Ids, Layers
<1>2. IdFacts(r)'
  BY DEF RequestInv, Facts, IdFacts, CountFacts, TypeOK, BreakOff
<1>3. CountFacts(r)'
  BY DEF RequestInv, Facts, IdFacts, CountFacts, TypeOK, BreakOff
<1>4. \A q \in Requests \ {r} : SameFor(q)
  BY DEF TypeOK, SameFor, BreakOff
<1> QED
  BY <1>1, <1>2, <1>3, <1>4, Elsewhere DEF RequestInv, Facts

LEMMA ServerErrorStep ==
    ASSUME TypeOK, RequestInv, NEW r \in Requests, ServerError(r)
    PROVE  TypeOK' /\ RequestInv'
<1>1. TypeOK'
  BY DEF RequestInv, Facts, IdFacts, CountFacts, TypeOK, ServerError, Ids, Layers
<1>2. IdFacts(r)'
  BY DEF RequestInv, Facts, IdFacts, CountFacts, TypeOK, ServerError
<1>3. CountFacts(r)'
  BY DEF RequestInv, Facts, IdFacts, CountFacts, TypeOK, ServerError
<1>4. \A q \in Requests \ {r} : SameFor(q)
  BY DEF TypeOK, SameFor, ServerError
<1> QED
  BY <1>1, <1>2, <1>3, <1>4, Elsewhere DEF RequestInv, Facts

LEMMA RequestStep ==
    ASSUME TypeOK, RequestInv, NEW r \in Requests, GoIn(r) \/ Route(r) \/ ComeBack(r)
    PROVE  TypeOK' /\ RequestInv'
<1>1. CASE GoIn(r)
  BY <1>1, ArriveStep, BindContextStep, EnterMetricsStep, EnterAccessLogStep,
     CheckSizeStep DEF GoIn
<1>2. CASE Route(r)
  BY <1>2, RouteSucceedsStep, RouteRaisesStep, BodyTooLargeStep, AnswerTooLargeStep,
     RouteFailsStep DEF Route
<1>3. CASE ComeBack(r)
  BY <1>3, LogAccessStep, LeaveMetricsStep, RestoreContextStep, FinishBodyStep,
     BreakOffStep, ServerErrorStep DEF ComeBack
<1> QED
  BY <1>1, <1>2, <1>3

-----------------------------------------------------------------------------
(* The in-flight gauge.                                                    *)

\* The requests it counts.
Flying == {r \in Requests : pc[r] \in Inside}

\* One request more, one less, or the same ones.
LEMMA FlyingCardinality ==
    /\ Cardinality(Flying) \in Nat
    /\ \A r \in Requests \ Flying : Cardinality(Flying \cup {r}) = Cardinality(Flying) + 1
    /\ \A r \in Flying : Cardinality(Flying \ {r}) = Cardinality(Flying) - 1
<1>1. IsFiniteSet(Flying)
  BY RequestsAssumption, FS_Subset DEF Flying
<1> QED
  BY <1>1, FS_CardinalityType, FS_AddElement, FS_RemoveElement

LEMMA GaugeStep ==
    ASSUME TypeOK, InFlightExact, NEW r \in Requests, GoIn(r) \/ Route(r) \/ ComeBack(r)
    PROVE  InFlightExact'
<1>1. InFlightExact <=> inFlight = Cardinality(Flying)
  BY DEF InFlightExact, Flying
<1>2. InFlightExact' <=> inFlight' = Cardinality(Flying')
  BY DEF InFlightExact, Flying
<1>3. CASE EnterMetrics(r)
  <2>1. r \notin Flying /\ Flying' = Flying \cup {r} /\ inFlight' = inFlight + 1
    BY <1>3 DEF TypeOK, EnterMetrics, Flying
  <2> QED
    BY <1>1, <1>2, <2>1, FlyingCardinality
<1>4. CASE LeaveMetrics(r)
  <2>1. r \in Flying /\ Flying' = Flying \ {r} /\ inFlight' = inFlight - 1
    BY <1>4 DEF TypeOK, LeaveMetrics, Flying
  <2> QED
    BY <1>1, <1>2, <2>1, FlyingCardinality
<1>5. CASE ~EnterMetrics(r) /\ ~LeaveMetrics(r)
  <2>1. Flying' = Flying /\ inFlight' = inFlight
    <3>1. CASE GoIn(r)
      BY <1>5, <3>1 DEF TypeOK, Flying, GoIn, Arrive, BindContext, EnterAccessLog, CheckSize
    <3>2. CASE Route(r)
      BY <3>2 DEF TypeOK, Flying, Route, RouteSucceeds, RouteRaises, BodyTooLarge,
         AnswerTooLarge, RouteFails
    <3>3. CASE ComeBack(r)
      BY <1>5, <3>3 DEF TypeOK, Flying, ComeBack, LogAccess, RestoreContext, FinishBody,
         BreakOff, ServerError
    <3> QED
      BY <3>1, <3>2, <3>3
  <2> QED
    BY <1>1, <1>2, <2>1
<1> QED
  BY <1>3, <1>4, <1>5

-----------------------------------------------------------------------------

LEMMA InitInv == Init => IInv
<1> SUFFICES ASSUME Init PROVE IInv
  OBVIOUS
<1>1. TypeOK
  BY DEF Init, TypeOK, Ids, Layers
<1>2. RequestInv
  BY DEF Init, RequestInv, Facts, IdFacts, CountFacts
<1>3. InFlightExact
  <2>1. {r \in Requests : pc[r] \in Inside} = {}
    BY DEF Init
  <2> QED
    BY <2>1, FS_EmptySet DEF Init, InFlightExact
<1> QED
  BY <1>1, <1>2, <1>3 DEF IInv

LEMMA NextInv == ASSUME IInv, [Next]_vars PROVE IInv'
<1>1. ASSUME NEW r \in Requests, GoIn(r) \/ Route(r) \/ ComeBack(r)
      PROVE  IInv'
  BY <1>1, RequestStep, GaugeStep DEF IInv
<1>2. CASE UNCHANGED vars
  BY <1>2 DEF vars, IInv, TypeOK, RequestInv, Facts, IdFacts, CountFacts, InFlightExact
<1> QED
  BY <1>1, <1>2 DEF Next, AllServed

THEOREM Invariance == Spec => []IInv
<1>1. IInv /\ [Next]_vars => IInv'
  BY NextInv
<1> QED
  BY <1>1, InitInv, PTL DEF Spec

\* Every variable keeps its type; in particular no request is counted, or logged,
\* twice (middleware.py, MetricsMiddleware and AccessLogMiddleware).
THEOREM TypeCorrect == Spec => []TypeOK
<1>1. IInv => TypeOK
  BY DEF IInv
<1> QED
  BY <1>1, Invariance, PTL

\* http_requests_in_flight is the number of requests inside MetricsMiddleware,
\* whether they come back with a response or an exception (middleware.py, dispatch).
THEOREM GaugeIsExact == Spec => []InFlightExact
<1>1. IInv => InFlightExact
  BY DEF IInv
<1> QED
  BY <1>1, Invariance, PTL

\* A request that was served is in http_requests_total once, under the status its
\* client got (middleware.py, MetricsMiddleware; errors.py, unhandled_exception_handler).
THEOREM TalliesMatchAnswers == Spec => []TalliedAsAnswered
<1>1. IInv => TalliedAsAnswered
  BY DEF IInv, TypeOK, RequestInv, Facts, CountFacts, TalliedAsAnswered, Layers
<1> QED
  BY <1>1, Invariance, PTL

\* errors_total counts every request that was not simply served once, and none that
\* was; what http_exception_handler answers, a 5xx too, is left out (errors.py, the
\* handlers; middleware.py, _reject).
THEOREM FailuresAreCounted == Spec => []FailuresCounted
<1>1. IInv => FailuresCounted
  BY DEF IInv, RequestInv, Facts, CountFacts, FailuresCounted
<1> QED
  BY <1>1, Invariance, PTL

\* The IDs of an answer are those of its own request, and nothing stays bound after
\* it (middleware.py, CorrelationMiddleware; context.py, ContextTokens.restore).
THEOREM IdsNeverCross == Spec => []IdsAgree
<1>1. IInv => IdsAgree
  BY DEF IInv, RequestInv, Facts, IdFacts, IdsAgree
<1> QED
  BY <1>1, Invariance, PTL

\* An answer with an X-Request-ID has one access log line, or none if its path is
\* excluded, and an answer without it has none (middleware.py, AccessLogMiddleware
\* and CorrelationMiddleware).
THEOREM LoggedExactlyOnce == Spec => []LoggedOnce
<1>1. IInv => LoggedOnce
  BY DEF IInv, RequestInv, Facts, IdFacts, CountFacts, LoggedOnce
<1> QED
  BY <1>1, Invariance, PTL
-----------------------------------------------------------------------------
(* The accounts of the metrics.                                            *)

\* The arguments of the refinement mapping.
CountedAs == [r \in Requests |-> IF tally[r] = 0 THEN None ELSE label[r]]
ToldAs == [r \in Requests |->
              IF pc[r] \in {"streaming", "done", "broken"} THEN status[r] ELSE None]

\* A layer that leaves the metrics and the state of the answer alone.
LEMMA NotAccounted ==
    ASSUME TypeOK, NEW r \in Requests,
           pc'[r] \notin {"streaming", "done", "broken"},
           pc[r] \notin {"streaming", "done", "broken"},
           pc' = [pc EXCEPT ![r] = pc'[r]],
           pc'[r] \in Inside <=> pc[r] \in Inside,
           \A q \in Requests \ {r} : status'[q] = status[q],
           UNCHANGED <<inFlight, tally, label>>
    PROVE  UNCHANGED <<Flying, inFlight, CountedAs, ToldAs>>
<1>1. Flying' = Flying
  BY DEF TypeOK, Flying
<1>2. CountedAs' = CountedAs
  BY DEF CountedAs
<1>3. ToldAs' = ToldAs
  BY DEF TypeOK, ToldAs
<1> QED
  BY <1>1, <1>2, <1>3

LEMMA EnterIsAccounted ==
    ASSUME IInv, NEW r \in Requests, EnterMetrics(r)
    PROVE  Accounting!Enter(r)
<1>1. r \notin Flying /\ Flying' = Flying \cup {r} /\ inFlight' = inFlight + 1
  BY DEF IInv, TypeOK, EnterMetrics, Flying
<1>2. CountedAs[r] = None
  BY DEF IInv, RequestInv, Facts, CountFacts, EnterMetrics, CountedAs
<1>3. CountedAs' = CountedAs
  BY DEF EnterMetrics, CountedAs
<1>4. ToldAs' = ToldAs
  BY DEF IInv, TypeOK, EnterMetrics, ToldAs
<1> QED
  BY <1>1, <1>2, <1>3, <1>4 DEF Accounting!Enter, Flying, CountedAs, ToldAs

LEMMA LeaveIsAccounted ==
    ASSUME IInv, NEW r \in Requests, LeaveMetrics(r)
    PROVE  Accounting!Count(r)
<1>1. r \in Flying /\ Flying' = Flying \ {r} /\ inFlight' = inFlight - 1
  BY DEF IInv, TypeOK, LeaveMetrics, Flying
<1>2. tally[r] = 0
  BY DEF IInv, RequestInv, Facts, CountFacts, LeaveMetrics
<1>3. PICK code : code = IF status[r] = None THEN "500" ELSE status[r]
  OBVIOUS
<1>4. code \in Statuses \ {None}
  BY <1>3 DEF IInv, TypeOK, Statuses, None
<1>5. /\ label' = [label EXCEPT ![r] = code]
      /\ tally' = [tally EXCEPT ![r] = tally[r] + 1]
  BY <1>3 DEF LeaveMetrics
<1>6. CountedAs' = [CountedAs EXCEPT ![r] = code]
  <2>1. \A q \in Requests :
            (IF tally'[q] = 0 THEN None ELSE label'[q])
                = IF q = r THEN code ELSE IF tally[q] = 0 THEN None ELSE label[q]
    BY <1>2, <1>5 DEF IInv, TypeOK
  <2> QED
    BY <2>1 DEF CountedAs
<1>7. ToldAs' = ToldAs
  BY DEF IInv, TypeOK, LeaveMetrics, ToldAs
<1> QED
  BY <1>1, <1>4, <1>6, <1>7 DEF Accounting!Count, Flying, CountedAs, ToldAs

\* The head of a response, and the answer of unhandled_exception_handler, are
\* what the client is told.
LEMMA AnswerIsAccounted ==
    ASSUME IInv, NEW r \in Requests,
           ServerError(r) \/ (RestoreContext(r) /\ pc'[r] = "streaming")
    PROVE  Accounting!Tell(r)
<1>1. Flying' = Flying /\ inFlight' = inFlight /\ CountedAs' = CountedAs
  BY DEF IInv, TypeOK, ServerError, RestoreContext, Flying, CountedAs
<1>2. ToldAs[r] = None
  BY DEF IInv, TypeOK, ServerError, RestoreContext, ToldAs
<1>3. CountedAs[r] # None /\ ToldAs' = [ToldAs EXCEPT ![r] = CountedAs[r]]
  <2>1. CASE ServerError(r)
    <3>1. CountedAs[r] = "500"
      BY <2>1 DEF IInv, RequestInv, Facts, CountFacts, ServerError, CountedAs
    <3>2. ToldAs' = [ToldAs EXCEPT ![r] = "500"]
      BY <2>1 DEF IInv, TypeOK, ServerError, ToldAs
    <3> QED
      BY <3>1, <3>2
  <2>2. CASE RestoreContext(r) /\ pc'[r] = "streaming"
    <3>1. pc[r] = "out_correlation"
      BY <2>2 DEF IInv, TypeOK, RestoreContext
    <3>2. CountedAs[r] = status[r] /\ status[r] # None
      BY <3>1 DEF IInv, RequestInv, Facts, CountFacts, CountedAs
    <3>3. ToldAs' = [ToldAs EXCEPT ![r] = status[r]]
      BY <2>2 DEF IInv, TypeOK, RestoreContext, ToldAs
    <3> QED
      BY <3>2, <3>3
  <2> QED
    BY <2>1, <2>2
<1> QED
  BY <1>1, <1>2, <1>3 DEF Accounting!Tell, Flying, CountedAs, ToldAs

\* Every step of a request is one of the accounts, or leaves them alone.
LEMMA StepIsAccounted ==
    ASSUME IInv, NEW r \in Requests, GoIn(r) \/ Route(r) \/ ComeBack(r)
    PROVE  \/ Accounting!Enter(r) \/ Accounting!Count(r) \/ Accounting!Tell(r)
           \/ UNCHANGED <<Flying, inFlight, CountedAs, ToldAs>>
<1> USE DEF IInv
<1>1. CASE Arrive(r) \/ BindContext(r) \/ EnterAccessLog(r) \/ CheckSize(r)
  BY <1>1, NotAccounted DEF TypeOK, Arrive, BindContext, EnterAccessLog, CheckSize
<1>2. CASE Route(r)
  BY <1>2, NotAccounted
     DEF TypeOK, Route, RouteSucceeds, RouteRaises, BodyTooLarge, AnswerTooLarge, RouteFails
<1>3. CASE LogAccess(r)
  BY <1>3, NotAccounted DEF TypeOK, LogAccess
<1>4. CASE RestoreContext(r)
  <2>1. CASE pc'[r] = "streaming"
    BY <1>4, <2>1, AnswerIsAccounted
  <2>2. CASE pc'[r] # "streaming"
    BY <1>4, <2>2, NotAccounted DEF TypeOK, RestoreContext
  <2> QED
    BY <2>1, <2>2
<1>5. CASE FinishBody(r) \/ BreakOff(r)
  <2>1. Flying' = Flying /\ inFlight' = inFlight /\ CountedAs' = CountedAs
    BY <1>5 DEF TypeOK, FinishBody, BreakOff, Flying, CountedAs
  <2>2. ToldAs' = ToldAs
    BY <1>5 DEF TypeOK, FinishBody, BreakOff, ToldAs
  <2> QED
    BY <2>1, <2>2
<1> QED
  BY <1>1, <1>2, <1>3, <1>4, <1>5, EnterIsAccounted, LeaveIsAccounted, AnswerIsAccounted
     DEF GoIn, ComeBack

\* The pipeline implements the accounts of the metrics: whatever a request runs into,
\* it is counted once, as it leaves the gauge, before its client gets an answer, and
\* under the status of that answer (middleware.py, MetricsMiddleware;
\* errors.py, unhandled_exception_handler).
THEOREM AccountsKept == Spec => CountedBeforeTold
<1>1. Init => Accounting!AccountInit
  BY DEF Init, Accounting!AccountInit
<1>2. IInv /\ [Next]_vars => [Accounting!AccountNext]_(Accounting!accountVars)
  <2>1. SUFFICES ASSUME IInv, [Next]_vars
                 PROVE  \/ Accounting!AccountNext
                        \/ UNCHANGED <<Flying, inFlight, CountedAs, ToldAs>>
    BY DEF Accounting!accountVars, Flying, CountedAs, ToldAs
  <2>2. CASE UNCHANGED vars
    BY <2>2 DEF vars, Flying, CountedAs, ToldAs
  <2>3. ASSUME NEW r \in Requests, GoIn(r) \/ Route(r) \/ ComeBack(r)
        PROVE  \/ Accounting!AccountNext
               \/ UNCHANGED <<Flying, inFlight, CountedAs, ToldAs>>
    BY <2>1, <2>3, StepIsAccounted DEF Accounting!AccountNext
  <2> QED
    BY <2>1, <2>2, <2>3 DEF Next, AllServed
<1> QED
  BY <1>1, <1>2, Invariance, PTL DEF Spec, CountedBeforeTold, Accounting!AccountSpec
=============================================================================
