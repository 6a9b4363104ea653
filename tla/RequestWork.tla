---------------------------- MODULE RequestWork ----------------------------
(***************************************************************************)
(* What happens to a request below the middlewares that Pipeline is about: *)
(* its body is received under the size limit (BodyLimit) by code that      *)
(* opens and leaves context scopes (CorrelationContext), until it returns  *)
(* or an exception unwinds the scopes and an exception handler renders it  *)
(* (ErrorTaxonomy).                                                        *)
(*                                                                         *)
(* The business routes do not exist yet: a handler here does, in any       *)
(* order, whatever these three modules let it do.                          *)
(***************************************************************************)
EXTENDS BodyLimit, CorrelationContext, ErrorTaxonomy

CONSTANTS
    Raised,         \* the AppErrors a handler raises by itself
    HttpStatuses    \* the statuses of the HTTPExceptions it raises

ASSUME TasksAssumption ==
    /\ Tasks = Requests
    /\ Requests \subseteq Values

ASSUME FieldsAssumption == "request_id" \in Fields

\* Nobody but the size limit says that a body is too large.
ASSUME RaisedAssumption ==
    /\ Raised \subseteq {e \in AppErrors : e.kind # "PayloadTooLargeError"}
    /\ HttpStatuses \subseteq 400 .. 599 \ {413}

VARIABLES
    pc,      \* where each request is
    err,     \* the exception in flight, or the last one
    answer   \* what the client reads: an envelope with an ID

workVars == <<pc, err, answer>>
vars == <<bodyVars, ctxVars, workVars>>

\* Exceptions: an AppError, a FastAPI validation error, an HTTPException, or
\* one no handler is registered for.
App(e) == [type |-> "app", app |-> e]
Http(status) == [type |-> "http", status |-> status]
Invalid == [type |-> "invalid"]
Unhandled == [type |-> "unhandled"]
NoError == [type |-> "none"]

TooLarge == NewError("PayloadTooLargeError", FALSE)

NoAnswer == [id |-> Unset, body |-> NoError]

Init ==
    /\ BodyInit
    /\ CtxInit
    /\ pc = [r \in Requests |-> "new"]
    /\ err = [r \in Requests |-> NoError]
    /\ answer = [r \in Requests |-> NoAnswer]

\* A new request gets IDs of its own from CorrelationMiddleware and a copy of
\* the context with them from call_next.
Arrive(r) ==
    /\ pc[r] = "new"
    /\ StartTask(r, [f \in Fields |-> IF f = "request_id" THEN r ELSE Unset])
    /\ pc' = [pc EXCEPT ![r] = "size"]
    /\ UNCHANGED bodyVars /\ UNCHANGED <<err, answer>>

Reply(r, id, body) == answer' = [answer EXCEPT ![r] = [id |-> id, body |-> body]]

\* The size limit lets the request in, or answers it by itself.
CheckSize(r) ==
    /\ pc[r] = "size"
    /\ \/ /\ Trust(r) \/ Meter(r)
          /\ pc' = [pc EXCEPT ![r] = "handler"]
          /\ UNCHANGED answer
       \/ /\ Refuse(r)
          /\ Reply(r, ctx[r]["request_id"],
                   RenderRejected(IF declared[r] = Malformed THEN 400 ELSE 413))
          /\ pc' = [pc EXCEPT ![r] = "answered"]
    /\ UNCHANGED ctxVars /\ UNCHANGED err

Raise(r, e) ==
    /\ pc' = [pc EXCEPT ![r] = "raising"]
    /\ err' = [err EXCEPT ![r] = e]
    /\ UNCHANGED answer

\* The handler, or FastAPI for it, reads a message of the body.
Read(r) ==
    /\ pc[r] = "handler"
    /\ Receive(r) \/ Disconnect(r)
    /\ UNCHANGED ctxVars /\ UNCHANGED workVars

\* The message that is too much: the error leaves the handler, reaches it as
\* an HTTPException(400) of FastAPI's body parser, or is caught by it.
ReadTooMuch(r) ==
    /\ pc[r] = "handler"
    /\ Overrun(r)
    /\ \/ Raise(r, App(TooLarge))
       \/ Depth(r) = 1 /\ Raise(r, Http(400))
       \/ UNCHANGED workVars
    /\ UNCHANGED ctxVars

\* The handler opens or leaves a scope; a bind that fails raises a KeyError
\* into it, which it may catch.
UseScope(r) ==
    /\ pc[r] = "handler"
    /\ \/ EnterScope(r) /\ UNCHANGED workVars
       \/ ExitScope(r) /\ UNCHANGED workVars
       \/ BindFails(r) /\ (Raise(r, Unhandled) \/ UNCHANGED workVars)
    /\ UNCHANGED bodyVars

\* A handler fails: for a reason of its own, or because Redis did, and then
\* RedisClient.execute says what it says of every command.
HandlerRaises(r) ==
    /\ pc[r] = "handler"
    /\ \/ \E e \in Raised : Raise(r, App(e))
       \/ \E x \in RedisFailures : Raise(r, App(OnRedisFailure(x)))
       \/ \E s \in HttpStatuses : Raise(r, Http(s))
       \/ Raise(r, Invalid)
       \/ Raise(r, Unhandled)
    /\ UNCHANGED bodyVars /\ UNCHANGED ctxVars

\* A handler that returns is out of all its scopes.
HandlerReturns(r) ==
    /\ pc[r] = "handler"
    /\ Depth(r) = 1
    /\ pc' = [pc EXCEPT ![r] = "answered"]
    /\ UNCHANGED <<err, answer>> /\ UNCHANGED bodyVars /\ UNCHANGED ctxVars

\* A variant: an exception leaves a scope without restoring anything.
Unwind_NotFinally(r) ==
    /\ pc[r] = "raising"
    /\ Depth(r) > 1
    /\ scopes' = [scopes EXCEPT ![r] = Leave(@)]
    /\ UNCHANGED ctx
    /\ UNCHANGED bodyVars /\ UNCHANGED workVars

\* The exception leaves a scope: its finally clause restores the fields.
Unwind(r) ==
    /\ pc[r] = "raising"
    /\ ExitScope(r)
    /\ UNCHANGED bodyVars /\ UNCHANGED workVars

\* The exception has left the handler and meets the handler registered for
\* it; the one for Exception runs outside, where nothing is bound any more.
Respond(r) ==
    /\ pc[r] = "raising"
    /\ Depth(r) = 1
    /\ LET e == err[r]
           id == ctx[r]["request_id"]
       IN  \/ e.type = "app" /\ Reply(r, id, RenderAppError(e.app))
           \/ e.type = "http" /\ Reply(r, id, RenderHttpException(e.status))
           \/ e.type = "invalid" /\ Reply(r, id, RenderInvalid)
           \/ e.type = "unhandled" /\ Reply(r, Unset, RenderUnhandled)
    /\ pc' = [pc EXCEPT ![r] = "answered"]
    /\ UNCHANGED err /\ UNCHANGED bodyVars /\ UNCHANGED ctxVars

\* Every request was answered and every helper is through.
AllDone ==
    /\ \A r \in Requests : pc[r] = "answered"
    /\ UNCHANGED vars

Next ==
    \/ \E r \in Requests :
           \/ Arrive(r) \/ CheckSize(r) \/ Read(r) \/ ReadTooMuch(r)
           \/ UseScope(r) \/ HandlerRaises(r) \/ HandlerReturns(r)
           \/ Unwind(r) \/ Respond(r)
    \/ AllDone

Spec == Init /\ [][Next]_vars
-----------------------------------------------------------------------------
(* Properties.                                                             *)

Envelopes == [status : Int, class : Classes, retryable : BOOLEAN, retryAfter : Int]

TypeOK ==
    /\ BodyTypeOK
    /\ CtxTypeOK
    /\ pc \in [Requests -> {"new", "size", "handler", "raising", "answered"}]
    /\ \A r \in Requests :
        /\ answer[r].id \in Values \cup {Unset}
        /\ answer[r].body \in Envelopes \cup {NoError}

IsError(r) == answer[r].body # NoError

\* Whatever scopes an exception came out of, and whatever they bound, the
\* envelope made from it carries the ID of its own request (the handler for
\* Exception has none to carry) - unless a bind that failed half-way
\* overwrote the ID outside of every scope.
EnvelopeKeepsId ==
    \A r \in Requests : IsError(r) /\ "request_id" \notin scopes[r][1].lost =>
        answer[r].id = IF err[r] = Unhandled THEN Unset ELSE r

\* A client is told by a 413 that its body was too large only if that very
\* body was, and never to try the same again.
TooLargeMeansExcess ==
    \A r \in Requests : IsError(r) /\ answer[r].body.status = 413 =>
        /\ declared[r] > Limit \/ sent[r] > Limit
        /\ ~answer[r].body.retryable

\* Retry-After never sends a client back at once, nor earlier than the error
\* asked for - except by less than the millisecond that adding 0.999 instead
\* of rounding up loses.
RetryNotTooEarly ==
    \A r \in Requests :
        IsError(r) /\ err[r].type = "app" /\ answer[r].body.retryAfter # NoRetryAfter =>
            /\ answer[r].body.retryAfter >= 1
            /\ answer[r].body.retryAfter * 1000000 > err[r].app.retryAfter - 1000
=============================================================================
