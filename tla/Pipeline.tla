------------------------------ MODULE Pipeline ------------------------------
(***************************************************************************)
(* One HTTP request on its way through the application: the middleware     *)
(* stack in the order create_app registers it (app/main.py,                *)
(* app/api/middleware.py), the exception handlers (app/api/errors.py), and *)
(* the correlation context they share (app/observability/context.py).      *)
(* Around it Starlette, as far as the code relies on it: the handler for   *)
(* Exception runs outside every middleware, the other handlers inside all  *)
(* of them; BaseHTTPMiddleware hands a response on when its head is there, *)
(* and runs what is below it in a task with a copy of the context.  What   *)
(* the routes do is left open.                                             *)
(*                                                                         *)
(* Requests interleave at every layer.  What one request adds to a counter *)
(* or to the log is kept per request, so that a property can relate it to  *)
(* the answer; the in-flight gauge is shared.                              *)
(***************************************************************************)
EXTENDS Integers, FiniteSets

CONSTANTS
    Requests,   \* the requests; each stands for its own new_id() as well
    Supplied    \* an ID sent by several clients in X-Request-ID

None == "none"

ASSUME RequestsAssumption ==
    /\ IsFiniteSet(Requests)
    /\ Supplied \notin Requests
    /\ None \notin Requests \cup {Supplied}

Ids == Requests \cup {Supplied, None}

VARIABLES
    pc,         \* the layer each request has reached
    quiet,      \* the requests to paths the access log excludes
    given,      \* the ID CorrelationMiddleware gave each request
    ctx,        \* request_id as the outermost code of the task sees it
    inner,      \* request_id as the code below CorrelationMiddleware sees it
    status,     \* the status of the response
    bodyId,     \* request_id in the error envelope
    httpCoded,  \* the requests whose envelope has the code http_<status>
    headerId,   \* the X-Request-ID header of the response
    inFlight,   \* the gauge http_requests_in_flight
    tally,      \* times each request was added to http_requests_total
    label,      \* ... and under which status
    errors,     \* times it was added to errors_total
    logged      \* access log lines it produced

vars == <<pc, quiet, given, ctx, inner, status, bodyId, httpCoded, headerId,
          inFlight, tally, label, errors, logged>>

answerVars == <<status, bodyId, httpCoded, headerId>>
idVars     == <<quiet, given, ctx, inner>>
countVars  == <<inFlight, tally, label, errors, logged>>

Statuses == {None, "200", "400", "404", "413", "422", "500", "503"}

\* Below MetricsMiddleware, and on the way back up to it.
Inside == {"access", "size", "route", "streamed_too_large", "out_access",
           "out_metrics", "raise_metrics"}
Layers == {"new", "correlation", "metrics", "out_correlation",
           "raise_correlation", "server_error", "streaming", "done", "broken"}
          \cup Inside

Init ==
    /\ pc = [r \in Requests |-> "new"]
    /\ quiet = {}
    /\ given = [r \in Requests |-> None]
    /\ ctx = [r \in Requests |-> None]
    /\ inner = [r \in Requests |-> None]
    /\ status = [r \in Requests |-> None]
    /\ bodyId = [r \in Requests |-> None]
    /\ httpCoded = {}
    /\ headerId = [r \in Requests |-> None]
    /\ inFlight = 0
    /\ tally = [r \in Requests |-> 0]
    /\ label = [r \in Requests |-> None]
    /\ errors = [r \in Requests |-> 0]
    /\ logged = [r \in Requests |-> 0]

Move(r, from, to) == pc[r] = from /\ pc' = [pc EXCEPT ![r] = to]

CountError(r) == errors' = [errors EXCEPT ![r] = @ + 1]

-----------------------------------------------------------------------------
(* Going in.                                                               *)

\* A task of its own is started for the request, with nothing bound.
Arrive(r) ==
    /\ Move(r, "new", "correlation")
    /\ quiet' \in {quiet, quiet \cup {r}}
    /\ UNCHANGED <<given, ctx, inner>> /\ UNCHANGED answerVars /\ UNCHANGED countVars

\* CorrelationMiddleware: a usable client ID is honoured, else new_id().
BindContext(r) ==
    /\ Move(r, "correlation", "metrics")
    /\ \E id \in {r, Supplied} :
        /\ given' = [given EXCEPT ![r] = id]
        /\ ctx' = [ctx EXCEPT ![r] = id]
    /\ UNCHANGED <<quiet, inner>> /\ UNCHANGED answerVars /\ UNCHANGED countVars

\* A variant: the IDs are in a module global that the next request overwrites.
EnterMetrics_SharedContext(r) ==
    /\ Move(r, "metrics", "access")
    /\ \E q \in Requests :
        /\ ctx[q] # None
        /\ inner' = [inner EXCEPT ![r] = ctx[q]]
    /\ inFlight' = inFlight + 1
    /\ UNCHANGED <<quiet, given, ctx, tally, label, errors, logged>>
    /\ UNCHANGED answerVars

\* call_next copies the context; MetricsMiddleware counts the request in.
EnterMetrics(r) ==
    /\ Move(r, "metrics", "access")
    /\ inner' = [inner EXCEPT ![r] = ctx[r]]
    /\ inFlight' = inFlight + 1
    /\ UNCHANGED <<quiet, given, ctx, tally, label, errors, logged>>
    /\ UNCHANGED answerVars

EnterAccessLog(r) ==
    /\ Move(r, "access", "size")
    /\ UNCHANGED idVars /\ UNCHANGED answerVars /\ UNCHANGED countVars

\* RequestSizeLimitMiddleware: a declared length in bounds or none passes; a
\* bad or excessive one is rejected here, below the other middlewares.
CheckSize(r) ==
    /\ \/ Move(r, "size", "route") /\ UNCHANGED <<status, bodyId, errors>>
       \/ /\ Move(r, "size", "out_access")
          /\ \E code \in {"400", "413"} : status' = [status EXCEPT ![r] = code]
          /\ bodyId' = [bodyId EXCEPT ![r] = inner[r]]
          /\ CountError(r)
    /\ UNCHANGED <<httpCoded, headerId, inFlight, tally, label, logged>>
    /\ UNCHANGED idVars

-----------------------------------------------------------------------------
(* The route and the handlers below the middlewares.                       *)

RouteSucceeds(r) ==
    /\ Move(r, "route", "out_access")
    /\ status' = [status EXCEPT ![r] = "200"]
    /\ UNCHANGED <<bodyId, httpCoded, headerId>> /\ UNCHANGED idVars /\ UNCHANGED countVars

\* _render.
Render(r, code) ==
    /\ status' = [status EXCEPT ![r] = code]
    /\ bodyId' = [bodyId EXCEPT ![r] = inner[r]]

\* app_error_handler and validation_error_handler count what they render, ...
RenderCounted(r, code) ==
    Render(r, code) /\ CountError(r) /\ UNCHANGED httpCoded

\* ... http_exception_handler does not, whatever its status.
RenderHttp(r, code) ==
    Render(r, code) /\ httpCoded' = httpCoded \cup {r} /\ UNCHANGED errors

\* The route ends in an AppError, in arguments that do not validate, or in an
\* HTTPException.
RouteRaises(r) ==
    /\ Move(r, "route", "out_access")
    /\ \/ \E code \in {"404", "500", "503"} : RenderCounted(r, code)
       \/ RenderCounted(r, "422")
       \/ \E code \in {"400", "404", "500", "503"} : RenderHttp(r, code)
    /\ UNCHANGED <<headerId, inFlight, tally, label, logged>> /\ UNCHANGED idVars

\* _metered_receive counts more bytes than allowed and raises
\* PayloadTooLargeError into whoever is reading the body.
BodyTooLarge(r) ==
    /\ Move(r, "route", "streamed_too_large")
    /\ UNCHANGED idVars /\ UNCHANGED answerVars /\ UNCHANGED countVars

\* Read by the route itself the error reaches app_error_handler; read by
\* FastAPI for a body parameter it becomes an HTTPException(400).
AnswerTooLarge(r) ==
    /\ Move(r, "streamed_too_large", "out_access")
    /\ RenderCounted(r, "413") \/ RenderHttp(r, "400")
    /\ UNCHANGED <<headerId, inFlight, tally, label, logged>> /\ UNCHANGED idVars

\* An exception no inner handler is registered for: it passes through the
\* size limit and AccessLogMiddleware, which has no except or finally.
RouteFails(r) ==
    /\ Move(r, "route", "raise_metrics")
    /\ UNCHANGED idVars /\ UNCHANGED answerVars /\ UNCHANGED countVars

-----------------------------------------------------------------------------
(* Coming back.                                                            *)

\* A variant: the line is written before the request is handed on as well.
LogAccess_Twice(r) ==
    /\ Move(r, "out_access", "out_metrics")
    /\ logged' = [logged EXCEPT ![r] = @ + 2]
    /\ UNCHANGED <<inFlight, tally, label, errors>>
    /\ UNCHANGED idVars /\ UNCHANGED answerVars

\* A variant: no prefix is excluded.
LogAccess_NoExclusion(r) ==
    /\ Move(r, "out_access", "out_metrics")
    /\ logged' = [logged EXCEPT ![r] = @ + 1]
    /\ UNCHANGED <<inFlight, tally, label, errors>>
    /\ UNCHANGED idVars /\ UNCHANGED answerVars

\* AccessLogMiddleware writes its line once the head of the response is there.
LogAccess(r) ==
    /\ Move(r, "out_access", "out_metrics")
    /\ logged' = IF r \in quiet THEN logged ELSE [logged EXCEPT ![r] = @ + 1]
    /\ UNCHANGED <<inFlight, tally, label, errors>>
    /\ UNCHANGED idVars /\ UNCHANGED answerVars

\* A variant: the bookkeeping is not in a finally clause.
LeaveMetrics_OnSuccess(r) ==
    /\ \/ /\ Move(r, "out_metrics", "out_correlation")
          /\ inFlight' = inFlight - 1
          /\ tally' = [tally EXCEPT ![r] = @ + 1]
          /\ label' = [label EXCEPT ![r] = status[r]]
       \/ /\ Move(r, "raise_metrics", "raise_correlation")
          /\ UNCHANGED <<inFlight, tally, label>>
    /\ UNCHANGED <<errors, logged>> /\ UNCHANGED idVars /\ UNCHANGED answerVars

\* A variant: status_code is initialised with the expected answer.
LeaveMetrics_AssumesSuccess(r) ==
    /\ \/ Move(r, "out_metrics", "out_correlation")
       \/ Move(r, "raise_metrics", "raise_correlation")
    /\ inFlight' = inFlight - 1
    /\ tally' = [tally EXCEPT ![r] = @ + 1]
    /\ label' = [label EXCEPT ![r] = IF status[r] = None THEN "200" ELSE status[r]]
    /\ UNCHANGED <<errors, logged>> /\ UNCHANGED idVars /\ UNCHANGED answerVars

\* MetricsMiddleware's finally clause, status_code being 500 if call_next
\* raised.
LeaveMetrics(r) ==
    /\ \/ Move(r, "out_metrics", "out_correlation")
       \/ Move(r, "raise_metrics", "raise_correlation")
    /\ inFlight' = inFlight - 1
    /\ tally' = [tally EXCEPT ![r] = @ + 1]
    /\ label' = [label EXCEPT ![r] = IF status[r] = None THEN "500" ELSE status[r]]
    /\ UNCHANGED <<errors, logged>> /\ UNCHANGED idVars /\ UNCHANGED answerVars

\* CorrelationMiddleware echoes the ID on a response and restores the
\* context in any case.  The head of the response is sent; its body follows.
RestoreContext(r) ==
    /\ \/ /\ Move(r, "out_correlation", "streaming")
          /\ headerId' = [headerId EXCEPT ![r] = given[r]]
       \/ Move(r, "raise_correlation", "server_error") /\ UNCHANGED headerId
    /\ ctx' = [ctx EXCEPT ![r] = None]
    /\ UNCHANGED <<quiet, given, inner, status, bodyId, httpCoded>> /\ UNCHANGED countVars

FinishBody(r) ==
    /\ Move(r, "streaming", "done")
    /\ UNCHANGED idVars /\ UNCHANGED answerVars /\ UNCHANGED countVars

\* The body breaks off with an exception: ServerErrorMiddleware calls
\* unhandled_exception_handler, but can no longer send its response.
BreakOff(r) ==
    /\ status[r] = "200"
    /\ Move(r, "streaming", "broken")
    /\ CountError(r)
    /\ UNCHANGED <<inFlight, tally, label, logged>>
    /\ UNCHANGED idVars /\ UNCHANGED answerVars

\* A variant: the handler only logs.
ServerError_NotCounted(r) ==
    /\ Move(r, "server_error", "done")
    /\ status' = [status EXCEPT ![r] = "500"]
    /\ bodyId' = [bodyId EXCEPT ![r] = ctx[r]]
    /\ UNCHANGED <<httpCoded, headerId, inFlight, tally, label, errors, logged>>
    /\ UNCHANGED idVars

\* ServerErrorMiddleware calls unhandled_exception_handler in the outermost
\* context and sends what it renders.
ServerError(r) ==
    /\ Move(r, "server_error", "done")
    /\ status' = [status EXCEPT ![r] = "500"]
    /\ bodyId' = [bodyId EXCEPT ![r] = ctx[r]]
    /\ CountError(r)
    /\ UNCHANGED <<httpCoded, headerId, inFlight, tally, label, logged>>
    /\ UNCHANGED idVars

-----------------------------------------------------------------------------

GoIn(r) == Arrive(r) \/ BindContext(r) \/ EnterMetrics(r) \/ EnterAccessLog(r)
           \/ CheckSize(r)

Route(r) == RouteSucceeds(r) \/ RouteRaises(r) \/ BodyTooLarge(r)
            \/ AnswerTooLarge(r) \/ RouteFails(r)

ComeBack(r) == LogAccess(r) \/ LeaveMetrics(r) \/ RestoreContext(r)
               \/ FinishBody(r) \/ BreakOff(r) \/ ServerError(r)

\* Every request was served: nothing is left to do.
AllServed ==
    /\ \A r \in Requests : pc[r] \in {"done", "broken"}
    /\ UNCHANGED vars

Next ==
    \/ \E r \in Requests : GoIn(r) \/ Route(r) \/ ComeBack(r)
    \/ AllServed

Spec == Init /\ [][Next]_vars

\* Every task is scheduled and every route ends; no request has to arrive.
Fairness == \A r \in Requests :
                WF_vars(pc[r] # "new" /\ (GoIn(r) \/ Route(r) \/ ComeBack(r)))

FairSpec == Spec /\ Fairness

-----------------------------------------------------------------------------
(* Properties.                                                             *)

TypeOK ==
    /\ pc \in [Requests -> Layers]
    /\ quiet \subseteq Requests
    /\ given \in [Requests -> Ids]
    /\ ctx \in [Requests -> Ids]
    /\ inner \in [Requests -> Ids]
    /\ status \in [Requests -> Statuses]
    /\ bodyId \in [Requests -> Ids]
    /\ httpCoded \subseteq Requests
    /\ headerId \in [Requests -> Ids]
    /\ inFlight \in Int
    /\ tally \in [Requests -> 0 .. 1]
    /\ label \in [Requests -> Statuses]
    /\ errors \in [Requests -> 0 .. 1]
    /\ logged \in [Requests -> 0 .. 1]

\* The in-flight gauge is exact on every path, the raising ones included: it
\* is the number of requests between the two halves of MetricsMiddleware.
InFlightExact == inFlight = Cardinality({r \in Requests : pc[r] \in Inside})

\* Whatever happened to a request, it was counted once, and under the status
\* its client got.
TalliedAsAnswered ==
    \A r \in Requests : pc[r] \in {"done", "broken"} =>
        tally[r] = 1 /\ label[r] = status[r]

\* A request that was not simply served is in errors_total, once, be it
\* answered or broken off after its 200, and one that was served never is.
\* The exception, which a reader of the metrics has to know: an answer with
\* the code http_<status>, a 5xx too, is not counted.
FailuresCounted ==
    \A r \in Requests : pc[r] \in {"done", "broken"} =>
        errors[r] = IF r \in httpCoded \/ (status[r] = "200" /\ pc[r] = "done")
                      THEN 0 ELSE 1

\* IDs never cross between concurrent requests: the header and the envelope
\* of an answer carry the ID given to that very request, and a task that is
\* through has nothing bound.
IdsAgree ==
    \A r \in Requests :
        /\ headerId[r] \in {None, given[r]}
        /\ bodyId[r] \in {None, given[r]}
        /\ pc[r] \in {"server_error", "streaming", "done", "broken"} => ctx[r] = None

\* An answer that carries an X-Request-ID was logged once, unless its path is
\* excluded; without the header (an exception that passed by the middlewares)
\* it was not logged, so that the log never has an answer its client cannot
\* refer to.
LoggedOnce ==
    \A r \in Requests : pc[r] \in {"streaming", "done", "broken"} =>
        logged[r] = IF r \in quiet \/ headerId[r] = None THEN 0 ELSE 1

\* The metrics keep their accounts: a request leaves the gauge and enters the
\* total in one step, once, before its client gets an answer, and the answer
\* is the one counted, also when it is an exception that passes by.
Accounting == INSTANCE RequestAccounting
    WITH Clients <- Requests, Codes <- Statuses \ {None}, NoCode <- None,
         inside <- {r \in Requests : pc[r] \in Inside},
         gauge <- inFlight,
         counted <- [r \in Requests |-> IF tally[r] = 0 THEN None ELSE label[r]],
         told <- [r \in Requests |->
                     IF pc[r] \in {"streaming", "done", "broken"} THEN status[r] ELSE None]
CountedBeforeTold == Accounting!AccountSpec

\* Once no new request arrives the in-flight gauge returns to zero for good.
InFlightDrains == <>[](inFlight = 0)

\* main.py:152-154: "every inner layer - metrics, access logging, and the
\* exception handlers - already has request_id bound", so every error
\* envelope carries the request's ID.
EveryErrorCarriesId ==
    \A r \in Requests :
        pc[r] = "done" /\ status[r] \notin {None, "200"} => bodyId[r] = given[r]
=============================================================================
