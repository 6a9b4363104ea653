----------------------------- MODULE Lifecycle -----------------------------
(***************************************************************************)
(* The life of one API process: the lifespan coroutine (app/main.py), the  *)
(* AppState container it owns (app/state.py) and the connect/disconnect    *)
(* pairs of Database and RedisClient.  Around them, as far as the code     *)
(* relies on it, the server that runs the coroutine (uvicorn), the         *)
(* operating system that delivers signals and the kubelet that probes      *)
(* readiness; these three are not part of the repository.                  *)
(*                                                                         *)
(* `stage' is the place the lifespan coroutine (and the server driving it) *)
(* has reached.  Each await of a teardown that can fail is a step of its   *)
(* own, so requests, probes and signals interleave with it.                *)
(***************************************************************************)
EXTENDS FiniteSets

CONSTANT Requests    \* the requests the process is asked to serve

\* The handles AppState owns: Database._engine, RedisClient._client, ._pool.
Resources == {"engine", "client", "pool"}
RedisParts == {"client", "pool"}

\* The signals main.py:119 registers for.
Signals == {"SIGTERM", "SIGINT"}

Starting == {"created", "configured", "db_open", "redis_open"}
Closing  == {"close_client", "close_pool", "close_engine"}
Ended    == {"refused", "failed", "stopped", "killed"}
Stages   == Starting \cup {"serving", "draining"} \cup Closing \cup Ended

VARIABLES
    stage,        \* progress of the lifespan coroutine
    open,         \* the handles that are not None
    raised,       \* the handles whose closer raised during shutdown
    accepting,    \* AppState.accepting_traffic
    disposition,  \* who is called on a signal: "server" (uvicorn) or "app"
    exit,         \* uvicorn's should_exit / force_exit: no, graceful, forced
    req,          \* state of every request
    rotation      \* the load balancer's view: the last readiness answer

vars == <<stage, open, raised, accepting, disposition, exit, req, rotation>>

Active == {r \in Requests : req[r] = "active"}

Init ==
    /\ stage = "created"
    /\ open = {}
    /\ raised = {}
    /\ accepting = TRUE
    /\ disposition = "server"
    /\ exit = "no"
    /\ req = [r \in Requests |-> "new"]
    /\ rotation = FALSE

-----------------------------------------------------------------------------
(* Start-up: the body of lifespan() before its try block.                  *)

\* _validate_configuration raises on any problem; otherwise AppState.create
\* builds the container, which opens nothing.
ValidateConfiguration ==
    /\ stage = "created"
    /\ stage' \in {"configured", "refused"}
    /\ UNCHANGED <<open, raised, accepting, disposition, exit, req, rotation>>

\* A variant: the two connects of AppState.startup in the other order.
ConnectDatabase_RedisFirst ==
    /\ stage = "configured"
    /\ open' = open \cup RedisParts
    /\ stage' = "db_open"
    /\ UNCHANGED <<raised, accepting, disposition, exit, req, rotation>>

\* AppState.startup, first half: Database.connect builds the engine, or
\* create_engine raises and nothing was assigned.
ConnectDatabase ==
    /\ stage = "configured"
    /\ \/ open' = open \cup {"engine"} /\ stage' = "db_open"
       \/ open' = open /\ stage' = "failed"
    /\ UNCHANGED <<raised, accepting, disposition, exit, req, rotation>>

\* AppState.startup, second half: RedisClient.connect builds pool and client,
\* or the pool's constructor raises on a malformed DSN option.  The exception
\* leaves lifespan() before its try block: no teardown runs.
ConnectRedis ==
    /\ stage = "db_open"
    /\ \/ open' = open \cup RedisParts /\ stage' = "redis_open"
       \/ open' = open /\ stage' = "failed"
    /\ UNCHANGED <<raised, accepting, disposition, exit, req, rotation>>

\* _install_signal_handlers: loop.add_signal_handler either takes the
\* signals over from uvicorn's own handlers or is unavailable, which is only
\* logged.  Then lifespan() yields and the server starts serving.
InstallSignalHandlers ==
    /\ stage = "redis_open"
    /\ disposition' \in {"app", "server"}
    /\ stage' = "serving"
    /\ UNCHANGED <<open, raised, accepting, exit, req, rotation>>

-----------------------------------------------------------------------------
(* Serving.                                                                *)

\* A request is accepted while the server listens (routing of the load
\* balancer is eventually consistent, so rotation is no guard).
Arrive(r) ==
    /\ stage = "serving"
    /\ req[r] = "new"
    /\ req' = [req EXCEPT ![r] = "active"]
    /\ UNCHANGED <<stage, open, raised, accepting, disposition, exit, rotation>>

\* A variant: a request that finds a resource closed gets no answer at all.
Finish_Unanswered(r) ==
    /\ stage \notin Ended
    /\ req[r] = "active"
    /\ req' = [req EXCEPT ![r] = IF open = Resources THEN "served" ELSE "lost"]
    /\ UNCHANGED <<stage, open, raised, accepting, disposition, exit, rotation>>

\* A request completes; it is cut off when it finds a resource closed
\* (Database.engine, Database.session and RedisClient.client raise).
Finish(r) ==
    /\ stage \notin Ended
    /\ req[r] = "active"
    /\ req' = [req EXCEPT ![r] = IF open = Resources THEN "served" ELSE "cut"]
    /\ UNCHANGED <<stage, open, raised, accepting, disposition, exit, rotation>>

\* The kubelet probes /health/ready.  The answer depends on Postgres alone
\* (module Readiness has the details); accepting_traffic is not consulted.
ProbeReadiness ==
    /\ stage = "serving"
    /\ \E postgresHealthy \in BOOLEAN : rotation' = postgresHealthy
    /\ UNCHANGED <<stage, open, raised, accepting, disposition, exit, req>>

\* A signal reaches whichever handler was installed last: the application's
\* _on_signal calls begin_shutdown; uvicorn's handle_exit sets should_exit,
\* and force_exit on a second SIGINT.
Signal(s) ==
    /\ stage \notin Ended
    /\ \/ /\ disposition = "app"
          /\ accepting' = FALSE
          /\ exit' = exit
       \/ /\ disposition = "server"
          /\ accepting' = accepting
          /\ exit' = IF exit # "no" /\ s = "SIGINT" THEN "forced"
                     ELSE IF exit = "no" THEN "graceful" ELSE exit
    /\ UNCHANGED <<stage, open, raised, disposition, req, rotation>>

\* The server is told to exit other than by a signal (reload, test teardown).
ServerStops ==
    /\ stage = "serving"
    /\ exit = "no"
    /\ exit' = "graceful"
    /\ UNCHANGED <<stage, open, raised, accepting, disposition, req, rotation>>

\* The server leaves its main loop and stops listening.
StopListening ==
    /\ stage = "serving"
    /\ exit # "no"
    /\ stage' = "draining"
    /\ UNCHANGED <<open, raised, accepting, disposition, exit, req, rotation>>

\* SIGKILL, at the end of the termination grace period or for any reason.
Kill ==
    /\ stage \notin Ended
    /\ stage' = "killed"
    /\ UNCHANGED <<open, raised, accepting, disposition, exit, req, rotation>>

-----------------------------------------------------------------------------
(* Teardown: the finally block of lifespan() and AppState.shutdown.        *)

\* A variant: the block waits for nobody.
EnterTeardown_NoDrain ==
    /\ stage = "draining"
    /\ accepting' = FALSE
    /\ stage' = "close_client"
    /\ UNCHANGED <<open, raised, disposition, exit, req, rotation>>

\* uvicorn resumes the coroutine once no request is active, or at once when
\* forced; the finally block starts draining if nothing did before.
EnterTeardown ==
    /\ stage = "draining"
    /\ Active = {} \/ exit = "forced"
    /\ accepting' = FALSE
    /\ stage' = "close_client"
    /\ UNCHANGED <<open, raised, disposition, exit, req, rotation>>

\* One guarded closer: on success the handle becomes None and teardown goes
\* on to `next'; on an exception the handle stays and it goes on to `skip'.
CloseStep(here, h, next, skip) ==
    /\ stage = here
    /\ \/ /\ open' = open \ {h}
          /\ raised' = raised
          /\ stage' = next
       \/ /\ open' = open
          /\ raised' = raised \cup {h}
          /\ stage' = skip
    /\ UNCHANGED <<accepting, disposition, exit, req, rotation>>

\* A variant: the exception of the Redis closer is not caught by the loop.
CloseClient_Unguarded == CloseStep("close_client", "client", "close_pool", "stopped")

\* RedisClient.disconnect, first await: when it raises the pool is skipped.
CloseClient == CloseStep("close_client", "client", "close_pool", "close_engine")

\* RedisClient.disconnect, second await.
ClosePool == CloseStep("close_pool", "pool", "close_engine", "close_engine")

\* A variant: the closers are retried until all of them succeed.
CloseEngine_Retried == CloseStep("close_engine", "engine", "stopped", "close_client")

\* Database.disconnect.
CloseEngine == CloseStep("close_engine", "engine", "stopped", "stopped")

-----------------------------------------------------------------------------

StartUp == ValidateConfiguration \/ ConnectDatabase \/ ConnectRedis
           \/ InstallSignalHandlers

TearDown == EnterTeardown \/ CloseClient \/ ClosePool \/ CloseEngine

Next ==
    \/ StartUp
    \/ \E r \in Requests : Arrive(r) \/ Finish(r)
    \/ ProbeReadiness
    \/ \E s \in Signals : Signal(s)
    \/ ServerStops
    \/ StopListening
    \/ Kill
    \/ TearDown

Spec == Init /\ [][Next]_vars

\* The event loop runs a ready coroutine, the server polls should_exit, and
\* an accepted request ends (its waits are bounded by pool_timeout,
\* statement_timeout and socket_timeout).  Nothing obliges clients, kubelet
\* or operator to act.
Fairness ==
    /\ WF_vars(StartUp)
    /\ WF_vars(StopListening)
    /\ WF_vars(TearDown)
    /\ \A r \in Requests : WF_vars(Finish(r))

FairSpec == Spec /\ Fairness

-----------------------------------------------------------------------------
(* Properties.                                                             *)

TypeOK ==
    /\ stage \in Stages
    /\ open \subseteq Resources
    /\ raised \subseteq Resources
    /\ accepting \in BOOLEAN
    /\ disposition \in {"app", "server"}
    /\ exit \in {"no", "graceful", "forced"}
    /\ req \in [Requests -> {"new", "active", "served", "cut"}]
    /\ rotation \in BOOLEAN

\* No accepted request ever finds the engine or the Redis client gone,
\* unless the operator forced the exit: whatever order signals, requests and
\* closers come in, teardown starts after the last active request.
NoRequestCut ==
    (\E r \in Requests : req[r] = "cut") => exit = "forced"

\* A shutdown that ran to its end tried every closer: the engine is still
\* open only if its own dispose raised, and a Redis handle only if a Redis
\* closer raised.  A failing Redis never keeps the database pool alive.
TeardownComplete ==
    stage = "stopped" =>
        /\ "engine" \in open => "engine" \in raised
        /\ open \cap RedisParts # {} => raised \cap RedisParts # {}

\* Postgres is opened first and closed last: Redis is up without it only
\* after a Redis closer raised.
RedisNeverOutlivesDatabase ==
    open \cap RedisParts # {} /\ "engine" \notin open
        => raised \cap RedisParts # {}

\* Once the server was told to exit the process ends, and by its own closers
\* unless it is killed: no closer failure or active request blocks it.
ShutdownCompletes == exit # "no" ~> stage \in Ended

\* state.py:86-88: "Readiness then reports not-ready while the process is
\* still serving".
DrainingReportsNotReady == [][ProbeReadiness /\ ~accepting => ~rotation']_vars

\* main.py:104-105: the handler only marks the process not-ready; "uvicorn's
\* shutdown then waits for active requests to finish": a signal that started
\* draining leads to the end of the process.
SignalLeadsToExit == ~accepting ~> stage \in Ended
=============================================================================
