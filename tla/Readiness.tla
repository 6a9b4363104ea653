----------------------------- MODULE Readiness -----------------------------
(***************************************************************************)
(* The readiness and startup probes (app/api/v1/health.py): two dependency *)
(* checks run concurrently under one budget, each ends healthy, unhealthy  *)
(* or cancelled by the budget, and each leaves its outcome in the gauge    *)
(* dependency_up.  Probes overlap: /health/ready and /health/startup are   *)
(* asked independently and by more than one prober.                        *)
(*                                                                         *)
(* The budget cancels the checks, it does not end them: a cancelled check  *)
(* still closes its connection ("unwinding"), and the gather, which does   *)
(* not collect exceptions, is over with the first check whose cancellation *)
(* is through.  So a probe may be answered while one check still unwinds.  *)
(*                                                                         *)
(* Time advances in ticks, and may not pass a timeout that is due: the     *)
(* budget of a probe and the socket timeout of its Redis check.  An answer *)
(* and a timeout due at the same tick come in either order.                *)
(***************************************************************************)
EXTENDS Naturals

CONSTANTS
    Probers,          \* slots for probes: at most so many overlap
    Budget,           \* READINESS_BUDGET_SECONDS, in ticks
    ConnectTimeout,   \* RedisSettings.socket_connect_timeout_seconds
    SocketTimeout,    \* RedisSettings.socket_timeout_seconds
    MaxWaits          \* waits on the socket, one after another, of a Redis check

ASSUME TimeoutsAssumption ==
    /\ Budget \in Nat \ {0}
    /\ ConnectTimeout \in Nat \ {0}
    /\ SocketTimeout \in Nat \ {0}
    /\ MaxWaits \in Nat \ {0}

Dependencies == {"postgres", "redis"}

VARIABLES
    answer,   \* what each probe answered; "none" while it runs, "expired" once
              \* its budget has fired and the gather is being cancelled
    age,      \* ticks since the probe started, up to the budget
    pg,       \* its Postgres check
    redis,    \* its Redis check, by what it waits for
    waits,    \* how many times the Redis check has waited on its socket before
    wait,     \* ticks its current wait has taken; both 0 when it does not wait
    up        \* the gauge dependency_up

vars == <<answer, age, pg, redis, waits, wait, up>>

Outcomes == {"healthy", "unhealthy"}
Settled  == Outcomes \cup {"cancelled"}

Waiting  == {"connecting", "reading"}

Answers == {"idle", "none", "expired", "ready", "not_ready", "timed_out"}

Running == {p \in Probers : answer[p] = "none"}

\* Probes whose handler has returned.
Answered == {p \in Probers : answer[p] \in {"ready", "not_ready", "timed_out"}}

Init ==
    /\ answer = [p \in Probers |-> "idle"]
    /\ age = [p \in Probers |-> 0]
    /\ pg = [p \in Probers |-> "cancelled"]
    /\ redis = [p \in Probers |-> "cancelled"]
    /\ waits = [p \in Probers |-> 0]
    /\ wait = [p \in Probers |-> 0]
    /\ up = [d \in Dependencies |-> "unset"]

\* readiness() starts both checks.  Redis is pinged on a pooled connection,
\* or connected to first.  A slot takes a new probe when all of the last one
\* is over, the check that outlived it too.
Start(p) ==
    /\ answer[p] \notin {"none", "expired"}
    /\ pg[p] \in Settled /\ redis[p] \in Settled
    /\ answer' = [answer EXCEPT ![p] = "none"]
    /\ age' = [age EXCEPT ![p] = 0]
    /\ pg' = [pg EXCEPT ![p] = "running"]
    /\ \E stage \in Waiting : redis' = [redis EXCEPT ![p] = stage]
    /\ UNCHANGED <<waits, wait, up>>

\* A check ends by itself: health_check sets the gauge and catches whatever
\* went wrong.
Observe(d, outcome) ==
    up' = [up EXCEPT ![d] = outcome]

\* Database.health_check.  Its waits (pool, connect, statement) are none of
\* them shorter than the budget, and its parameter timeout_seconds is not
\* used, so it may end at any time or not at all.
PostgresAnswers(p) ==
    /\ pg[p] = "running"
    /\ \E outcome \in Outcomes :
        /\ pg' = [pg EXCEPT ![p] = outcome]
        /\ Observe("postgres", outcome)
    /\ UNCHANGED <<answer, age, redis, waits, wait>>

\* A Redis check that has ended waits no more.
StopsWaiting(p) ==
    /\ waits' = [waits EXCEPT ![p] = 0]
    /\ wait' = [wait EXCEPT ![p] = 0]

\* RedisClient.health_check goes on to its next wait, which has a timeout of
\* its own: a connection that is made has its handshake read, a connection
\* idle for health_check_interval_seconds answers a PING of the library's
\* before the check's own, and the library may connect again.
RedisGoesOn(p) ==
    /\ redis[p] \in Waiting
    /\ waits[p] + 1 < MaxWaits
    /\ \E stage \in Waiting : redis' = [redis EXCEPT ![p] = stage]
    /\ waits' = [waits EXCEPT ![p] = @ + 1]
    /\ wait' = [wait EXCEPT ![p] = 0]
    /\ UNCHANGED <<answer, age, pg, up>>

\* The check's own PING is answered.
RedisAnswers(p) ==
    /\ redis[p] = "reading"
    /\ redis' = [redis EXCEPT ![p] = "healthy"]
    /\ StopsWaiting(p)
    /\ Observe("redis", "healthy")
    /\ UNCHANGED <<answer, age, pg>>

\* A variant: the check lets the exception through, which ends the gather
\* but not the other check.
RedisFails_Uncaught(p) ==
    /\ redis[p] \in Waiting
    /\ redis' = [redis EXCEPT ![p] = "unhealthy"]
    /\ answer' = [answer EXCEPT ![p] = "not_ready"]
    /\ StopsWaiting(p)
    /\ Observe("redis", "unhealthy")
    /\ UNCHANGED <<age, pg>>

\* A wait fails, at the latest when its timeout is due.
RedisFails(p) ==
    /\ redis[p] \in Waiting
    /\ redis' = [redis EXCEPT ![p] = "unhealthy"]
    /\ StopsWaiting(p)
    /\ Observe("redis", "unhealthy")
    /\ UNCHANGED <<answer, age, pg>>

\* A variant: any healthy dependency will do.
Answer_AnyHealthy(p) ==
    /\ p \in Running
    /\ pg[p] \in Settled /\ redis[p] \in Settled
    /\ answer' = [answer EXCEPT ![p] =
           IF "healthy" \in {pg[p], redis[p]} THEN "ready" ELSE "not_ready"]
    /\ UNCHANGED <<age, pg, redis, waits, wait, up>>

\* Both checks are in: ready when the required one, Postgres, is healthy.
Answer(p) ==
    /\ p \in Running
    /\ pg[p] \in Settled /\ redis[p] \in Settled
    /\ answer' = [answer EXCEPT ![p] = IF pg[p] = "healthy" THEN "ready" ELSE "not_ready"]
    /\ UNCHANGED <<age, pg, redis, waits, wait, up>>

\* CancelledError is thrown into a check that has not ended.
Cancelled(check) == IF check \in Settled THEN check ELSE "unwinding"

\* A variant: asyncio.wait_for around the Redis check instead of one timeout
\* around both.
BudgetExpires_OnlyRedis(p) ==
    /\ p \in Running
    /\ age[p] = Budget
    /\ redis[p] \notin Settled
    /\ answer' = [answer EXCEPT ![p] = "expired"]
    /\ pg' = [pg EXCEPT ![p] = Cancelled(@)]
    /\ redis' = [redis EXCEPT ![p] = Cancelled(@)]
    /\ StopsWaiting(p)
    /\ UNCHANGED <<age, up>>

\* A variant: asyncio.wait, which gives up waiting and cancels nothing.
BudgetExpires_NoCancel(p) ==
    /\ p \in Running
    /\ age[p] = Budget
    /\ answer' = [answer EXCEPT ![p] = "timed_out"]
    /\ UNCHANGED <<age, pg, redis, waits, wait, up>>

\* asyncio.timeout fires: it cancels the gather, and the gather each check
\* that has not ended.
BudgetExpires(p) ==
    /\ p \in Running
    /\ age[p] = Budget
    /\ answer' = [answer EXCEPT ![p] = "expired"]
    /\ pg' = [pg EXCEPT ![p] = Cancelled(@)]
    /\ redis' = [redis EXCEPT ![p] = Cancelled(@)]
    /\ StopsWaiting(p)
    /\ UNCHANGED <<age, up>>

\* The Postgres check leaves `async with engine.connect()`, which takes as
\* long as closing or terminating the connection.  It ends cancelled, with
\* the gauge as it was; or closing raises, which health_check takes for an
\* unhealthy database.
PostgresUnwinds(p) ==
    /\ pg[p] = "unwinding"
    /\ \/ /\ pg' = [pg EXCEPT ![p] = "cancelled"]
          /\ UNCHANGED up
       \/ /\ pg' = [pg EXCEPT ![p] = "unhealthy"]
          /\ Observe("postgres", "unhealthy")
    /\ UNCHANGED <<answer, age, redis, waits, wait>>

\* The Redis check drops its connection; health_check does not catch
\* CancelledError.
RedisUnwinds(p) ==
    /\ redis[p] = "unwinding"
    /\ redis' = [redis EXCEPT ![p] = "cancelled"]
    /\ UNCHANGED <<answer, age, pg, waits, wait, up>>

\* The cancelled gather is over with its first cancelled check, or with both
\* when neither ends cancelled, and the probe answers 503.
GatherEnds(p) ==
    /\ answer[p] = "expired"
    /\ \/ "cancelled" \in {pg[p], redis[p]}
       \/ pg[p] \in Settled /\ redis[p] \in Settled
    /\ answer' = [answer EXCEPT ![p] = "timed_out"]
    /\ UNCHANGED <<age, pg, redis, waits, wait, up>>

\* No timeout of a running probe is due.
NothingDue ==
    \A p \in Running :
        /\ age[p] < Budget
        /\ redis[p] = "connecting" => wait[p] < ConnectTimeout
        /\ redis[p] = "reading" => wait[p] < SocketTimeout

\* A variant: no timeout bounds the checks.
Tick_Unbounded ==
    /\ Running # {}
    /\ \A p \in Running : age[p] <= Budget
    /\ age' = [p \in Probers |-> IF p \in Running THEN age[p] + 1 ELSE age[p]]
    /\ UNCHANGED <<answer, pg, redis, waits, wait, up>>

Tick ==
    /\ Running # {}
    /\ NothingDue
    /\ age' = [p \in Probers |-> IF p \in Running THEN age[p] + 1 ELSE age[p]]
    /\ wait' = [p \in Probers |->
           IF p \in Running /\ redis[p] \in Waiting THEN wait[p] + 1 ELSE wait[p]]
    /\ UNCHANGED <<answer, pg, redis, waits, up>>

RedisStep(p) == RedisGoesOn(p) \/ RedisAnswers(p) \/ RedisFails(p) \/ RedisUnwinds(p)

Next ==
    \/ Tick
    \/ \E p \in Probers :
        \/ Start(p)
        \/ PostgresAnswers(p)
        \/ PostgresUnwinds(p)
        \/ RedisStep(p)
        \/ Answer(p)
        \/ BudgetExpires(p)
        \/ GatherEnds(p)

Spec == Init /\ [][Next]_vars

\* Time passes, a due timeout fires, a coroutine whose awaitable is done
\* resumes and a cancelled check is through with its connection, which its
\* library closes or terminates; neither dependency has to answer.
Fairness ==
    /\ WF_vars(Tick)
    /\ \A p \in Probers :
        /\ WF_vars(RedisFails(p))
        /\ WF_vars(Answer(p))
        /\ WF_vars(BudgetExpires(p))
        /\ WF_vars(GatherEnds(p))
        /\ WF_vars(PostgresUnwinds(p))
        /\ WF_vars(RedisUnwinds(p))

FairSpec == Spec /\ Fairness

-----------------------------------------------------------------------------
(* Properties.                                                             *)

TypeOK ==
    /\ answer \in [Probers -> Answers]
    /\ age \in [Probers -> 0 .. Budget]
    /\ pg \in [Probers -> {"running", "unwinding"} \cup Settled]
    /\ redis \in [Probers -> Waiting \cup {"unwinding"} \cup Settled]
    /\ waits \in [Probers -> 0 .. MaxWaits - 1]
    /\ wait \in [Probers -> Nat]
    /\ up \in [Dependencies -> Outcomes \cup {"unset"}]

\* What may outlive a probe: nothing when the checks came in, and after the
\* budget at most one check, cancelled already and closing its connection.  No
\* check works on in the background, waiting for a dependency nobody asks about
\* any more and holding a connection for it.
OnlyUnwindingOutlives ==
    \A p \in Answered :
        \/ pg[p] \in Settled /\ redis[p] \in Settled
        \/ /\ answer[p] = "timed_out"
           /\ <<pg[p], redis[p]>> \in {<<"unwinding", "cancelled">>, <<"cancelled", "unwinding">>}

\* A pod is ready only on the word of Postgres, and refused only because
\* Postgres failed or the whole budget went by: an unhealthy Redis alone,
\* answered in time, changes nothing.
AnswerFollowsPostgres ==
    \A p \in Probers :
        /\ answer[p] = "ready" => pg[p] = "healthy"
        /\ answer[p] = "not_ready" => pg[p] = "unhealthy"
        /\ answer[p] = "timed_out" => age[p] = Budget

\* Every probe is answered, even when both dependencies hang.
EveryProbeAnswered == \A p \in Probers : answer[p] = "none" ~> p \in Answered

\* Every check ends, even when its dependency hangs and its probe has been
\* answered: probes do not pile up connections.
EveryCheckEnds ==
    \A p \in Probers : answer[p] = "none" ~> pg[p] \in Settled /\ redis[p] \in Settled

\* health.py:112-114: "Optional dependencies are reported but do not fail the
\* probe": a probe whose Postgres check came back healthy answers ready.
OptionalNeverFailsProbe ==
    \A p \in Probers :
        answer[p] \in {"not_ready", "timed_out"} => pg[p] # "healthy"
=============================================================================
