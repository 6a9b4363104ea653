--------------------------- MODULE ErrorTaxonomy ---------------------------
(***************************************************************************)
(* The error taxonomy (app/domain/errors.py) and the error envelope made   *)
(* from it (app/api/errors.py), with the exceptions that the adapters      *)
(* classify: Database.session and RedisClient.execute.                     *)
(*                                                                         *)
(* Everything here is a pure function of the error; the modules that have  *)
(* steps (RequestWork, Service) use it to say what a client reads.         *)
(***************************************************************************)
EXTENDS Integers

\* ErrorClass.
Classes == {"transient", "rate_limited", "timeout", "dependency_down",
            "authentication", "invalid_request", "model_failure",
            "resource_exhausted", "application_failure"}

\* _RETRYABLE_CLASSES: an error of such a class could be retried at all ...
RetryableClasses == {"transient", "rate_limited", "timeout", "dependency_down",
                     "model_failure"}

\* ... and ErrorClass.requires_idempotency: of such a class, only an
\* idempotent operation.
OutcomeUnknown == {"timeout", "model_failure"}

\* _HTTP_STATUS_BY_CLASS.
StatusOfClass ==
    [transient |-> 503, rate_limited |-> 429, timeout |-> 504,
     dependency_down |-> 503, authentication |-> 401, invalid_request |-> 400,
     model_failure |-> 502, resource_exhausted |-> 429, application_failure |-> 500]

\* The subclasses of AppError and their error_class.
ClassOf ==
    [TransientError |-> "transient", RateLimitedError |-> "rate_limited",
     TimeoutError_ |-> "timeout", DependencyDownError |-> "dependency_down",
     ModelOutputError |-> "model_failure", AuthenticationError |-> "authentication",
     AuthorizationError |-> "authentication", ValidationError_ |-> "invalid_request",
     NotFoundError |-> "invalid_request", ConflictError |-> "invalid_request",
     ModelRefusalError |-> "invalid_request", PayloadTooLargeError |-> "invalid_request",
     BudgetExceededError |-> "resource_exhausted",
     BackpressureError |-> "resource_exhausted",
     ConfigurationError |-> "application_failure",
     UnexpectedError |-> "application_failure"]

Kinds == DOMAIN ClassOf

\* http_status_override, in the subclasses that have one.
StatusOverride ==
    [AuthorizationError |-> 403, NotFoundError |-> 404, ConflictError |-> 409,
     BackpressureError |-> 503, PayloadTooLargeError |-> 413]

\* An AppError, as far as anything is decided by it.  retry_after_seconds is
\* in microseconds, or NoRetryAfter for None.
NoRetryAfter == -1
AppErrors == [kind : Kinds, idempotent : BOOLEAN, retryAfter : Nat \cup {NoRetryAfter}]

NewError(kind, idempotent) ==
    [kind |-> kind, idempotent |-> idempotent, retryAfter |-> NoRetryAfter]

\* AppError.is_retryable.
IsRetryable(e) ==
    /\ ClassOf[e.kind] \in RetryableClasses
    /\ ClassOf[e.kind] \in OutcomeUnknown => e.idempotent

\* http_status_for.
HttpStatus(kind) ==
    IF kind \in DOMAIN StatusOverride THEN StatusOverride[kind]
    ELSE StatusOfClass[ClassOf[kind]]

-----------------------------------------------------------------------------
(* Classification at the adapters.                                         *)

\* classify_exception, for an exception that is no AppError: a TimeoutError,
\* another OSError (ConnectionError is one), anything else.
ClassifyException(exc, idempotent) ==
    CASE exc = "timeout" -> NewError("TimeoutError_", idempotent)
      [] exc = "os"      -> NewError("TransientError", idempotent)
      [] OTHER           -> NewError("UnexpectedError", FALSE)

\* What RedisClient.execute raises, for the three families of RedisError.
RedisFailures == {"timeout", "connection", "other"}
OnRedisFailure(exc) ==
    CASE exc = "timeout"    -> NewError("TimeoutError_", TRUE)
      [] exc = "connection" -> NewError("DependencyDownError", TRUE)
      [] exc = "other"      -> NewError("DependencyDownError", FALSE)

\* The errors _classify_db_error builds, by the class DbPool gives.
OnDbFailure(class) ==
    CASE class = "dependency_down" -> NewError("DependencyDownError", FALSE)
      [] class = "transient"       -> NewError("TransientError", TRUE)
      [] class = "timeout"         -> NewError("TimeoutError_", TRUE)

-----------------------------------------------------------------------------
(* The envelope.                                                           *)

\* A variant: rounded to the nearest second.
RetryAfterHeader_Nearest(micros) == (micros + 500000) \div 1000000

\* str(max(1, int(seconds + 0.999))): int() of a float cuts towards zero, and
\* everything it cuts differently from \div is below the maximum.
RetryAfterHeader(micros) ==
    LET whole == (micros + 999000) \div 1000000
    IN  IF whole < 1 THEN 1 ELSE whole

\* _render: the parts of the answer a client may act on.
Render(status, class, retryable, retryAfter) ==
    [status |-> status, class |-> class, retryable |-> retryable,
     retryAfter |-> IF retryAfter = NoRetryAfter THEN NoRetryAfter
                    ELSE RetryAfterHeader(retryAfter)]

Plain(status, class, retryable) == Render(status, class, retryable, NoRetryAfter)

\* app_error_handler.
RenderAppError(e) ==
    Render(HttpStatus(e.kind), ClassOf[e.kind], IsRetryable(e), e.retryAfter)

\* validation_error_handler.
RenderInvalid == Plain(422, "invalid_request", FALSE)

\* http_exception_handler.
RenderHttpException(status) ==
    Plain(status, IF status < 500 THEN "invalid_request" ELSE "application_failure",
          status \in {502, 503, 504})

\* unhandled_exception_handler.
RenderUnhandled == Plain(500, ClassOf["UnexpectedError"], FALSE)

\* RequestSizeLimitMiddleware._reject with _error_payload, written by hand.
RenderRejected(status) == Plain(status, "invalid_request", FALSE)
=============================================================================
