# AIC API service in TLA+

TLA+ models of the service under `src/app`, TLC configurations that check them
on small instances, and TLAPS proofs of the safety properties for every value of
the constants. At this commit the repository holds the platform of the service:
process lifecycle, database and Redis access, health probes, HTTP middleware,
error handling, settings, logging and metrics. The packages `agents`,
`workflows`, `workers`, `llm`, `rag`, `tools`, `services`, `repositories`,
`resilience`, `models` and `schemas` are empty, and there are no tests or
documents beside the code: its docstrings and comments are the documentation.

    tlc -config MCDbPool.cfg MCDbPool      # check a model
    tlapm DbPoolProofs.tla                 # check the proofs about it

## The system

| Part | State | Operations | Hard behaviour |
|---|---|---|---|
| Process: `main.py` `lifespan`, `state.py` `AppState` | `accepting_traffic`; which signal handler is installed; the container's handles | `_validate_configuration`, `startup`, `_install_signal_handlers`, `begin_shutdown`, `shutdown` | signals at any moment, a start-up that fails half-way, closers that raise, requests still running |
| `infrastructure/database.py` `Database`, `api/deps.py` `get_session` | engine, session factory; the pool's queue and overflow counter; pool gauges | `connect`, `disconnect`, `session`, `health_check`, `_classify_db_error`, pool event hooks | sessions sharing a bounded pool, timeouts, cancellation at any await, a commit whose outcome is unknown |
| `infrastructure/redis.py` `RedisClient` | pool, client | `connect`, `disconnect`, `health_check`, `execute` | two awaits in `disconnect`, socket timeouts |
| `api/v1/health.py` | gauge `dependency_up` | liveness, readiness, startup | overlapping probes, two checks under one budget, cancellation |
| `api/middleware.py`, registered in `main.py` `create_app` | in-flight gauge, request counter, access log | correlation, metrics, access log, size limit | concurrent requests, exceptions crossing the layers, streamed bodies |
| `api/errors.py` | counter `errors_total` | four exception handlers, `_render` | which handler runs in which layer and with which context |
| `observability/context.py` | five context variables | `bind_context`, `restore`, `context_scope` | a copy per task, nesting, a bind that fails half-way |
| `domain/errors.py` | none | the taxonomy, `is_retryable`, `classify_exception`, `http_status_for` | which failures may be retried |
| `config/settings.py` | none | field bounds, `validate_for_environment` | timeouts that must fit into each other |
| `observability/metrics.py`, `logging.py` | counters and gauges; log configuration | exposition, redaction | (only through the parts above) |

How they interact: `lifespan` builds one `AppState` (settings, `Database`,
`RedisClient`), which every request reaches through `app.state`. A request
passes the middlewares, its route opens sessions on the shared pool, and its
failure passes the exception handlers and the middlewares on the way out. Probes
use the same pool and Redis client. Signals reach `AppState` through the event
loop. Metrics are global. Everything runs on one event loop, so a step of a
model is the code between two awaits.

What makes each part correct:

- process: a request is never served on closed handles; every closer is tried;
  a process told to exit does;
- pool: no connection lost, none above the limit, none kept by somebody who is
  through; a session is one unit of work; a waiter is answered;
- probes: the answer follows the required dependency and comes when the budget is
  up at the latest; a check that is cut off ends, and takes no connection with it;
- pipeline: gauge, counters, access log and IDs agree with what the client got,
  on the exceptional paths too.

## Modules

| Module | Models | Proofs |
|---|---|---|
| `Lifecycle` | `main.py` `lifespan` and signal handlers, `state.py`, `connect`/`disconnect` of both clients | `LifecycleProofs` |
| `ConnectionBudget` | abstract: what `pool_size` and `max_overflow` promise | |
| `DbPool` | `Database.session`, `health_check`, `_classify_db_error`, pool events, over QueuePool; implements `ConnectionBudget` | `DbPoolProofs` |
| `Readiness` | `readiness`, `startup`, both dependency checks, the budget, `dependency_up` | `ReadinessProofs` |
| `RequestAccounting` | abstract: what the HTTP metrics promise about requests | |
| `Pipeline` | middleware stack, exception handlers, correlation context of concurrent requests; implements `RequestAccounting` | `PipelineProofs` |
| `ErrorTaxonomy` | `domain/errors.py`, the classification in `Database` and `RedisClient.execute`, the envelopes of `api/errors.py`; pure | (in `RequestWorkProofs`) |
| `BodyLimit` | `RequestSizeLimitMiddleware`, message by message | (in `RequestWorkProofs`) |
| `CorrelationContext` | `observability/context.py`: nested scopes in several tasks | `ContextProofs` |
| `RequestWork` | composes the last three: what a request does below the other middlewares, and what its client reads | `RequestWorkProofs` |
| `Service` | composes `Lifecycle`, `DbPool` and `ErrorTaxonomy`: requests with a session each in a process that may have to exit; implements `Lifecycle` | `ServiceProofs` |
| `MC*` | symmetry and constants for TLC | |

In each module the operators named `X_Something` with the comment "A variant"
are plausible mistakes in the code that `X` models (a dropped guard, a missing
`finally`, an off-by-one). They are in no specification; putting one in the
place of `X` makes a property fail, which shows that the property constrains the
code.

### Lifecycle

`stage` is the place `lifespan`, and the server that drives it, has reached; one
action per await: `ValidateConfiguration`, `ConnectDatabase`, `ConnectRedis`,
`InstallSignalHandlers`, then serving, then `EnterTeardown`, `CloseClient`,
`ClosePool`, `CloseEngine`. `open` is the set of handles that are not `None`:
`Database._engine`, `RedisClient._client` and `._pool`. `raised` remembers which
closer raised, `accepting` is `AppState.accepting_traffic`, and `disposition`
says whose handler a signal reaches, because `loop.add_signal_handler` replaces
the one the server installed before. A closer that raises leaves its handle set
(the assignment of `None` comes after the await), and when `client.aclose()`
raises `disconnect` never gets to the pool. Start-up failures after
`ConnectDatabase` leave the engine open, since `state.startup()` is awaited
before the `try`.

### DbPool

Sessions (`Database.session`) and probes (`health_check`) share one pool.
`st[a]` is where an actor is: waiting for a record, connecting, in its block,
committing, in the `except` or `finally` clause. `exc` is the exception in
flight, `result` what reached the caller, `tx` what became of the transaction on
the server. `idle`, `ovf` and `slot` are the queue, the overflow counter
(starting at `-pool_size`) and the owners of records. The class of an error is
what `_classify_db_error` yields; errors it does not recognise come back
unchanged ("driver"). Cancellation is possible at every await; `CancelledError`
is not an `Exception`, so it skips the `except` clause and reaches `finally`.
A commit that loses its connection, or is cancelled, may or may not have taken
effect; the model has both outcomes. The gauges are read when the code reads
them: at checkout after, and at checkin *before*, the pool's own counters change.

`ConnectionBudget` is the abstract promise (`using`, `spare`, a limit); `DbPool`
implements it with `using <- slot`, `spare <- idle`,
`Limit <- PoolSize + MaxOverflow`.

### Readiness

Every slot of `Probers` runs probes one after another, several at a time. `pg` and
`redis` are the two tasks of the `gather`. A Redis check waits on its socket up to
`MaxWaits` times, each time with a timeout of its own: connecting, then the
handshake of a fresh connection, a PING of the library's on one idle for
`health_check_interval_seconds`, and the check's own PING (`RedisGoesOn`). Time is
discrete: `Tick` advances every running probe and may not pass a timeout that is
due, and an answer and a timeout due at the same tick come in either order.

When the budget expires (`BudgetExpires`) both checks are cancelled, which does not
end them: a cancelled check unwinds, closing its connection, in a step of its own
(`PostgresUnwinds`, `RedisUnwinds`), and leaves the gauge as it was, unless closing
raises, which `health_check` takes for an unhealthy database. `gather` is called without
`return_exceptions`, so it is over with the first check whose cancellation is through
(`GatherEnds`), and the 503 may be sent while the other check still unwinds with its
connection in its hands. A slot takes the next probe when that check is through as
well; probes that come sooner are other slots. The Postgres check has no timeout of
its own shorter than the budget: the parameter `timeout_seconds` of `health_check` is
not used.

### Pipeline

`pc` is the layer a request has reached, on the way in (correlation, metrics,
access log, size limit, route) and on the way out, with a response or with an
exception. `ctx` and `inner` are `request_id` outside and below
`CorrelationMiddleware`: `call_next` runs what is below it in a copy of the
context. `tally`, `label`, `errors` and `logged` are what one request added to
`http_requests_total`, `errors_total` and the log; `inFlight` is shared. The
handler for `Exception` runs outside all middlewares (`ServerError`); the other
handlers inside (`RouteRaises`, `AnswerTooLarge`). Of these `http_exception_handler`
counts nothing, whatever its status: `httpCoded` are the requests it answered. The
route itself is left open.

`RequestAccounting` is what a reader of the metrics may rely on: a request is in
flight (`Enter`), stops being so in the very step in which it is added to the
total (`Count`), once, and only then hears its status, which is the one it was
counted under (`Tell`). In `Pipeline` the first is `EnterMetrics`, the second
`LeaveMetrics`, the third the head of the response leaving `CorrelationMiddleware`
or the answer of `unhandled_exception_handler`; every other step changes none of
it. A body that breaks off later changes neither: its client was told already.

### ErrorTaxonomy

Tables and functions only: classes, subclasses and their overrides of the
status, `IsRetryable`, `HttpStatus`, `ClassifyException`, the exceptions
`RedisClient.execute` and `_classify_db_error` build, and one `Render...` per
exception handler for what a client may act on (status, class, `retryable`,
`Retry-After`; codes and messages are text). `retry_after_seconds` is counted in
microseconds, so that the loss of the rounding (`int(x + 0.999)` cuts a value
less than a millisecond above an integer down to it) is in the model.

### BodyLimit

`declared` is the Content-Length header, `stream` what became of the body,
`total` the counter in the closure of `_metered_receive`; `sent` and `handed` are
the bytes the server received and the application got, `sizes` what the request
added to the size histogram. `Trust`, `Refuse` and `Meter` are the three ways
through `__call__`; `ReceiveMetered` and `Overrun` the two through `wrapped()`.
An application may catch the error and read on: the counter is past the limit
for good, so every further message raises again. That a body is as long as its
header says is the server's to enforce.

### CorrelationContext

`ctx[t]` is the copy of the context variables that task `t` runs in, `scopes[t]`
its stack of open scopes with the tokens `bind_context` returned. A bind that
meets an unknown field raises after it has set the earlier ones and loses their
tokens (`BindFails`); `lost` remembers which fields, because the properties hold
only for the others. The first element of a stack stands for the copy a task is
started with.

### RequestWork

The order is that of `create_app`: the IDs are bound (`Arrive`), the size limit
decides (`CheckSize`), then the handler reads, opens and leaves scopes and fails
in any order. An exception leaves the scopes one by one (`Unwind`) and is
rendered by the handler registered for its type (`Respond`), inside the context
of the request except for the handler of `Exception`. An oversized message comes
out of the handler as it is, as FastAPI's `HTTPException(400)`, or not at all.

### Service

`Service` has the variables of `Lifecycle` and of `DbPool` and uses the actions
of both by `INSTANCE`, without the probes. A request that `Lifecycle` lets in
opens a session (`OpenSession`), or finds the engine gone, takes `DbPool`'s steps,
is answered with the envelope of the outcome and ends (`Finish`). `CloseEngine`
also closes the connections in the pool's queue. `commitFirst` is chosen once: a
FastAPI release ends its dependencies, and with them the session, before or after
it sends the response, and the range allowed in `pyproject.toml` has both kinds.
With the other order a client is told of a success that then fails to commit;
`ToldAsCommitted` is about the first order only.

### What is assumed of code outside the repository

- uvicorn installs its signal handlers before it runs start-up, stops listening
  when `should_exit` is set, then waits for active requests unless a second
  SIGINT forces the exit, then resumes the lifespan;
- SQLAlchemy's QueuePool: `_do_get`, `_inc_overflow`, `_dec_overflow`, `checkin`
  before the record is back in the queue; closing a session gives its connection
  back. A cancellation that strikes during `session.close()` itself is handled
  inside the library and not modelled, nor is a second cancellation;
- Starlette: the handler for `Exception` is ServerErrorMiddleware's; the context
  copy and the early hand-over of the response head in `BaseHTTPMiddleware`.
  CORS handling and client disconnects are not modelled;
- FastAPI turns an exception raised while it reads a body parameter into
  `HTTPException(400)`;
- asyncio: a timeout cancels the task, the task its gather, the gather each child
  that has not ended; without `return_exceptions` the first child that ends cancelled
  ends the gather. A cancelled check is through with its connection some time later:
  the libraries close or terminate it;
- redis-py: each wait on the socket has the socket's timeout, and a command may have
  several;
- the server's HTTP parser refuses a negative Content-Length before the application
  sees it, so `BodyLimit` has none.

## Runs

| Run | Instance | Checks |
|---|---|---|
| `lifecycle` | 3 requests | `NoRequestCut`, `TeardownComplete`, `RedisNeverOutlivesDatabase`; `ShutdownCompletes` |
| `dbpool` | 2 sessions, 1 probe, pool 1 + 1 | `PoolConservation`, `ReturnedOnExit`, `UnitOfWork`, `RefusedOnlyWhenFull`, refinement of `ConnectionBudget`; `NobodyWaitsForever` |
| `readiness` | 2 probes at a time, default timeouts in seconds | `OnlyUnwindingOutlives`, `AnswerFollowsPostgres`; `EveryProbeAnswered`, `EveryCheckEnds` |
| `pipeline` | 2 requests | `InFlightExact`, `TalliedAsAnswered`, `FailuresCounted`, `IdsAgree`, `LoggedOnce`, refinement of `RequestAccounting` (`CountedBeforeTold`); `InFlightDrains` |
| `request` | 2 requests, limit 1 byte, bodies of up to 2 | `NeverMoreThanLimit`, `OnlyExcessIsRefused`, `SizesAreTrue`, `InnermostWins`, `EnvelopeKeepsId`, `TooLargeMeansExcess`, `RetryNotTooEarly` |
| `service` | 2 requests, a pool of one connection | `NoConnectionLeftBehind`, `WorkEndsBeforeTeardown`, `ToldAsCommitted`; `ImplementsLifecycle` |

Each also checks the `TypeOK` of its module. What these properties leave out is said
where they are defined: `InFlightExact` takes "in flight" for what `MetricsMiddleware`
does, `FailuresCounted` excepts the answers of `http_exception_handler`,
`TooLargeMeansExcess` says nothing of a breach that is answered otherwise than by 413,
`InnermostWins` and `EnvelopeKeepsId` nothing of the fields a failed bind has set,
`ToldAsCommitted` nothing of a response sent before the commit,
`NoConnectionLeftBehind` nothing of a forced exit.

Six more runs expect a violation: each states what a docstring, a comment or the
description of a metric says and TLC shows that the code does otherwise.

| Run | What the code says | What it does |
|---|---|---|
| `lifecycle_draining` | state.py:86 "Readiness then reports not-ready" | `readiness` never reads `accepting_traffic` |
| `lifecycle_signal` | main.py:104 "uvicorn's shutdown then waits for active requests to finish" | the handler replaced uvicorn's own, so SIGTERM starts no shutdown |
| `dbpool_gauge` | metrics.py:121 "Connections by state" | `in_use` is read before the record is back and stays too high |
| `dbpool_retryable` | domain/errors.py:22, :76 an unknown outcome is not blindly retried | a connection lost in commit is classified retryable |
| `readiness_optional` | health.py:112 optional dependencies "do not fail the probe" | a slow Redis uses up the shared budget |
| `pipeline_id` | main.py:152 exception handlers have `request_id` bound | not the handler for `Exception` |

Other places where text and code differ, seen while modelling and left without a
run; the models follow the code in each:

- main.py:93 says the `finally` block is reached on start-up failure: an exception of
  `startup()` is raised before the `try`;
- database.py:177 promises typed errors: unrecognised ones pass unchanged;
- database.py:199 says the health check is "bounded by its own timeout, shorter than
  the readiness probe's budget": the parameter is unused, and only the budget ends it;
- metrics.py:133 counts "checkout attempts that timed out with no connection
  available": those of health probes are not counted;
- metrics.py:121: the overflow gauge is negative until the pool is full;
- metrics.py:82 "currently being served": a request whose body is being sent is not
  in the gauge any more;
- metrics.py:104: `dependency_up` keeps its value when a check is cut off by the
  budget, so a dependency that hangs goes on reading healthy;
- middleware.py:200 says a breach is converted into a 413: it is a 400 when FastAPI
  reads the body, and anything when the handler catches it;
- middleware.py:248 says one access log line per request: none when `call_next` raises;
- api/errors.py:82 says `Retry-After` is rounded up: not if it is less than a
  millisecond above a full second;
- api/errors.py:164 tells the client of an `HTTPException` 502 to 504 to retry, under
  a class (`application_failure`) that domain/errors.py never retries, and counts it
  nowhere;
- redis.py:108 calls every command that timed out idempotent, whatever the command,
  where domain/errors.py:76 warns of repeating those that are not;
- context.py:124 "Always restores": not what a bind that fails half-way has set;
- deps.py:35 "the unit of work is the request": where FastAPI ends dependencies after
  the response, a commit may fail after a 200;
- domain/errors.py:298 promises `Retry-After` with a 503 for backpressure: only if
  the caller passes one;
- the default `llm_timeout_seconds` equals the default request timeout, which
  `validate_for_environment` refuses.

### Bounds, and why they are enough

- `dbpool`: with three actors on two connections one of them waits, times out,
  or is overtaken; one overflow connection is closed on return while the pooled
  one is kept. A fourth actor would repeat the roles. The proofs have no bound.
- `readiness`: two slots, so that probes overlap and one may finish between
  the start and the end of the other; the default timeouts of 2 s, 2 s and 3 s
  are such that one of the Redis timeouts fits into the budget and two do not, so
  that two waits (`MaxWaits`) reach both outcomes and a third would add none.
- `lifecycle`: a request can finish before, during or after each step of the
  shutdown, for three requests independently. Signals are unbounded.
- `pipeline`: two requests, in every pair of layers. Every request is served
  once, so the system comes to rest (`AllServed`, in `RequestWork` `AllDone`);
  only a process really ends, so only in `lifecycle` and `service` deadlock is
  not checked.
- `request`: messages of 0, 1 or 2 bytes and at most 2 bytes in all (`MaxSent`)
  stay below, meet and pass a limit of 1, in one message or several. One request may nest two
  scopes in the copy it was started with (`MaxDepth` 3), the other none, so that
  one unwinds while the other is in any state. One field stands for all, since
  no action compares fields, and scopes bind it to the *other* request's ID
  (`Bound`), which makes a leak visible. `MCRaised` has a timeout that is not
  idempotent and two `Retry-After` values at the edges of the rounding.
- `service`: two requests on one connection: one has it while the other waits,
  is refused or cancelled. `Failures` has one exception for each way a session
  can end that the envelope or the pool tells apart; all four database errors
  at once only multiply the states that `dbpool` has already.
- Counters are bounded by the actors, without artificial caps. `wait` and `age`
  are bounded by the timeouts.

Symmetry is used only in the runs that check no liveness.

### Fairness

- `Lifecycle`: the lifespan coroutine and the server go on (`StartUp`,
  `StopListening`, `TearDown`), so a closer returns or raises, although the code sets
  it no timeout, and an accepted request ends: its waits are
  bounded by `pool_timeout`, `statement_timeout` and the socket timeouts. No
  signal, request or probe has to come.
- `DbPool`: timers fire (`pool_timeout`, `connect_timeout`) and `except` and
  `finally` clauses run on. A block may hold its connection for ever and a
  commit may never return; `NobodyWaitsForever` holds all the same.
- `Readiness`: time passes, a due timeout fires, a coroutine whose awaitable is done
  is resumed, and a cancelled check is through with its connection in the end, which
  the library closes or terminates. Neither dependency has to answer, and nothing is
  assumed of a check that nobody cancels.
- `Pipeline`: a request that arrived is carried on; routes end.
- `Service`: the process goes on (`Proceed`, `CloseEngine`) and so does every
  request (`RequestStep`): its block ends, statements and commits are bounded by
  `statement_timeout`, waiting for a connection by `pool_timeout`. From this
  `ImplementsLifecycle` derives what `Lifecycle` assumes, that every accepted
  request ends.

All of it is weak fairness.

## Proofs

All safety properties of the passing runs, and the safety half of the three
refinements, are proved with TLAPS, for any (finite) set of requests, sessions and probes, any pool
size and overflow, any timeouts and limits: the only assumptions are the `ASSUME`s of the modules, which
say what the settings' field bounds say. Each proof has one lemma or step per action.

- `LifecycleProofs`: the properties are not inductive alone. `HandlesMatchStage`
  says what is open at each stage and `NobodyActive` that no request is active
  once a closer may run, which holds because of the guard of `EnterTeardown`.
- `DbPoolProofs`: `PoolInv` (who owns a record in which state, and the balance
  `idle + |slot| = ovf + pool_size`) and `SessionInv` (which exception and which
  transaction a session can carry in which state). A counter step keeps the
  balance only because whoever takes a record owns none before: that is
  `ReturnedOnExit`, needed although it looks unrelated. `BudgetKept` is the
  refinement of `ConnectionBudget`, `ConnectionsBounded` the limit itself.
  `SessionFacts` also says that a session at its end has a result exactly if it
  has an exception; `Service` needs it, where the result becomes the answer.
- `ReadinessProofs`: that the answer agrees with the Postgres check, and goes on
  agreeing while a check that outlived the probe unwinds, rests on two facts: such a
  check is the only one left after the answer (`OnlyUnwindingOutlives`), and a check
  is cut off only by the budget of its own probe (`CutOnlyByBudget`), so that a probe
  answers in time from two outcomes the dependencies really gave. No theorem says
  that Redis alone does not use up the budget: with a PING of the library's and a
  handshake before the check's own, each with the socket timeout, the settings do not
  bound it, which is the run `readiness_optional`.
- `PipelineProofs`: `RequestInv` gives, layer by layer, the IDs that are bound
  and written and how status, tally, error count and log line belong together. A
  step moves one request and leaves the facts of the others alone
  (`Elsewhere`). The shared gauge is counted by cardinality: two actions change
  the set, by one element each. `AccountsKept` maps every step to one of
  `RequestAccounting` or to none. It needs `RequestInv`: that
  `ServerError` tells a client 500 agrees with the total only because the label of
  a request that raised was 500 already in `MetricsMiddleware` (`CountFacts`).
- `ContextProofs`: what `CorrelationContext` promises (`InnermostWins`) says only
  what is bound now; it is not inductive, because leaving a scope binds what its
  tokens hold. `Lexical` says it of every prefix of the stack: the tokens of a
  scope hold what the scopes *below* it bind, unless a bind that failed has
  overwritten it since. One lemma for each way to change a stack keeps it, and
  `LexicalBinding` concludes, for any depth. The delicate step is to leave a scope in which
  a bind had failed: what it lost passes to the scope below, except for the fields
  that its own tokens restore.
- `RequestWorkProofs`: `BodyInv` ties the counters of a body together in each
  state of it; an oversized body cannot come back under the limit because `total`
  counts the message that was refused too. `AnswerInv` says that an envelope is
  the rendering of the exception in flight or one of the two rejections, and that
  only a body past the limit made a `PayloadTooLargeError`; what clients are told
  of `Retry-After` then follows from a lemma about the taxonomy (`HeaderBounds`).
  `IdInv` adds `CtxInv` and, per request,
  `OwnId`: the copy a handler was started with binds the request's own ID, so an
  envelope rendered when all scopes are unwound carries it.
- `ServiceProofs`: `ImplementsLifecycleSafely` maps every step of the composition
  to one of `Lifecycle`, or to none. `TeardownInterruptsNobody` needs both halves
  of `IInv`: nobody is active once a closer may run, and who is not active has no
  session. The rest reuses the proofs of the parts: `LL` and `PP` are instances of
  `LifecycleProofs` and `DbPoolProofs` (`PoolAssumptions` proves what the second
  assumes), whose step lemmas leave only what the composition adds:
  `CloseEngine` closes connections under the pool's feet (`PoolClosed`), and
  `Finish` forgets a session (`RequestForgotten`). `ServiceInv` is the invariants
  of both, `QueueClosed` (a disposed engine has an empty queue, and nothing
  refills it) and `AnswerIsLast` (an answered request has no step left that could
  change its outcome). From it follow `StoppedLeavesNothing`,
  `AnswersMatchCommits` and `TypeInvariant`, and that the safety properties of the
  parts hold of the whole (`ProcessPromisesKept`, `PoolPromisesKept`,
  `RefusalsStayJustified`): they are stated once, checked by TLC in the parts and
  carried over by proof.

Only model-checked: the liveness properties (`ShutdownCompletes`,
`NobodyWaitsForever`, `EveryProbeAnswered`, `EveryCheckEnds`, `InFlightDrains`, the fairness half of
`ImplementsLifecycle`), which need fairness and ENABLED and are out of the
prover's reach, and the six properties that TLC finds violated. The strengthened
invariants were checked by TLC on the instances of the runs before they were
proved.

## Not modelled

Log formatting and redaction (`logging.py`), histograms of durations, build info
and the exposition endpoint (`metrics.py`), router wiring: no state that another
part reads. The empty packages: there is no code. `RedisClient.execute` is modelled
by what it raises; the metrics it records, and that it has no caller yet, are not
in the model. `clear_context` is for tests; the accessors of the context only
read. `validate_for_environment` compares settings with each other once, before
anything runs: a table without steps, better served by a unit test; its refusal is
an outcome of `ValidateConfiguration`. Sanitising of IDs and route templates is
text. CORS is Starlette's.

`Service` leaves out the readiness probes, which in `DbPool` and `Readiness` compete
for the same connections, and a SIGKILL, after which nothing is claimed.

## Plan

Done, in the order of importance: `Lifecycle`, `ConnectionBudget` and `DbPool`,
`Readiness`, `Pipeline`, then `ErrorTaxonomy`, `BodyLimit`, `CorrelationContext`,
`RequestWork` and `Service`, with the proofs named above, and the refinement of
`RequestAccounting` by `Pipeline`. Next:

1. An abstract specification of a readiness probe (what an answer may say, given
   what the dependencies did while it ran), implemented by `Readiness`, and the
   proof.
2. Probes of `Readiness` on the pool of `Service`.
