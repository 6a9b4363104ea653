-------------------------- MODULE ReadinessProofs --------------------------
(***************************************************************************)
(* Proofs about Readiness, for any set of probers and any timeouts.  That  *)
(* an answer agrees with its Postgres check, and goes on agreeing while a  *)
(* check that outlived the probe unwinds, rests on two facts: only such a  *)
(* check is left after the answer (OnlyUnwindingOutlives), and a check is  *)
(* cut off only by the budget of its probe (CutOnlyByBudget), so that a    *)
(* probe answers from two outcomes that the dependencies really gave.      *)
(***************************************************************************)
EXTENDS Readiness, TLAPS

\* Where the checks of a probe may be before it is answered.
CutOnlyByBudget ==
    \A p \in Probers :
        /\ answer[p] = "idle" => pg[p] \in Settled /\ redis[p] \in Settled
        /\ answer[p] = "none" =>
               pg[p] \in {"running"} \cup Outcomes /\ redis[p] \in Waiting \cup Outcomes
        /\ answer[p] = "expired" =>
               age[p] = Budget /\ pg[p] # "running" /\ redis[p] \notin Waiting

IInv == TypeOK /\ OnlyUnwindingOutlives /\ AnswerFollowsPostgres /\ CutOnlyByBudget

LEMMA InitInv == Init => IInv
  BY TimeoutsAssumption
  DEF Init, IInv, TypeOK, OnlyUnwindingOutlives, AnswerFollowsPostgres, CutOnlyByBudget,
      Answers, Settled, Outcomes, Dependencies, Answered

\* Whoever has a check at work has not been answered, nor has its budget fired.
LEMMA WorkingIsRunning ==
    ASSUME IInv, NEW p \in Probers, pg[p] = "running" \/ redis[p] \in Waiting
    PROVE  answer[p] = "none"
  BY DEF IInv, TypeOK, OnlyUnwindingOutlives, CutOnlyByBudget, Answers, Answered, Settled,
      Outcomes, Waiting

\* A check that unwinds belongs to a probe whose budget went by.
LEMMA UnwindingIsOver ==
    ASSUME IInv, NEW p \in Probers, pg[p] = "unwinding" \/ redis[p] = "unwinding"
    PROVE  answer[p] \in {"expired", "timed_out"}
  BY DEF IInv, TypeOK, OnlyUnwindingOutlives, CutOnlyByBudget, Answers, Answered, Settled,
      Outcomes, Waiting

\* A check that ends records a health, and nothing but its own gauge changes.
LEMMA ObserveType ==
    ASSUME TypeOK, NEW d \in Dependencies, NEW outcome \in Outcomes, Observe(d, outcome)
    PROVE  up' \in [Dependencies -> Outcomes \cup {"unset"}]
  BY DEF TypeOK, Observe

LEMMA StopsWaitingType ==
    ASSUME TypeOK, NEW p \in Probers, StopsWaiting(p)
    PROVE  waits' \in [Probers -> 0 .. MaxWaits - 1] /\ wait' \in [Probers -> Nat]
  BY TimeoutsAssumption DEF TypeOK, StopsWaiting

LEMMA TickInv == ASSUME IInv, Tick PROVE IInv'
<1>1. TypeOK'
  <2>1. age' \in [Probers -> 0 .. Budget]
    BY TimeoutsAssumption DEF IInv, TypeOK, Tick, NothingDue, Running
  <2>2. wait' \in [Probers -> Nat]
    BY DEF IInv, TypeOK, Tick
  <2> QED
    BY <2>1, <2>2 DEF IInv, TypeOK, Tick
<1>2. OnlyUnwindingOutlives'
  BY DEF IInv, OnlyUnwindingOutlives, Tick, Answered
<1>3. AnswerFollowsPostgres'
  BY DEF IInv, TypeOK, AnswerFollowsPostgres, Tick, Running
<1>4. CutOnlyByBudget'
  BY DEF IInv, TypeOK, CutOnlyByBudget, Tick, Running
<1> QED
  BY <1>1, <1>2, <1>3, <1>4 DEF IInv

LEMMA StartInv == ASSUME IInv, NEW p \in Probers, Start(p) PROVE IInv'
<1>1. TypeOK'
  BY TimeoutsAssumption DEF IInv, TypeOK, Start, Answers
<1>2. OnlyUnwindingOutlives'
  BY DEF IInv, TypeOK, OnlyUnwindingOutlives, Start, Answered
<1>3. AnswerFollowsPostgres'
  BY DEF IInv, TypeOK, AnswerFollowsPostgres, Start
<1>4. CutOnlyByBudget'
  BY DEF IInv, TypeOK, CutOnlyByBudget, Start
<1> QED
  BY <1>1, <1>2, <1>3, <1>4 DEF IInv

\* A check that ends by itself belongs to a probe that is not answered yet.
LEMMA PostgresInv == ASSUME IInv, NEW p \in Probers, PostgresAnswers(p) PROVE IInv'
<1>1. answer[p] = "none"
  BY WorkingIsRunning DEF PostgresAnswers
<1>2. PICK outcome \in Outcomes :
          pg' = [pg EXCEPT ![p] = outcome] /\ Observe("postgres", outcome)
  BY DEF PostgresAnswers
<1>3. TypeOK'
  <2>1. "postgres" \in Dependencies
    BY DEF Dependencies
  <2>2. up' \in [Dependencies -> Outcomes \cup {"unset"}]
    BY <1>2, <2>1, ObserveType DEF IInv
  <2> QED
    BY <1>2, <2>2 DEF IInv, TypeOK, PostgresAnswers, Settled
<1>4. OnlyUnwindingOutlives'
  BY <1>1, <1>2 DEF IInv, TypeOK, OnlyUnwindingOutlives, PostgresAnswers, Answered
<1>5. AnswerFollowsPostgres'
  BY <1>1, <1>2 DEF IInv, TypeOK, AnswerFollowsPostgres, PostgresAnswers
<1>6. CutOnlyByBudget'
  BY <1>1, <1>2 DEF IInv, TypeOK, CutOnlyByBudget, PostgresAnswers
<1> QED
  BY <1>3, <1>4, <1>5, <1>6 DEF IInv

\* A check that unwinds may end unhealthy after the answer, which was 503.
LEMMA PostgresUnwindsInv == ASSUME IInv, NEW p \in Probers, PostgresUnwinds(p) PROVE IInv'
<1>1. answer[p] \in {"expired", "timed_out"}
  BY UnwindingIsOver DEF PostgresUnwinds
<1>2. PICK end \in {"cancelled", "unhealthy"} : pg' = [pg EXCEPT ![p] = end]
  BY DEF PostgresUnwinds
<1>3. TypeOK'
  <2>1. "postgres" \in Dependencies /\ "unhealthy" \in Outcomes
    BY DEF Dependencies, Outcomes
  <2>2. up' \in [Dependencies -> Outcomes \cup {"unset"}]
    <3>1. CASE UNCHANGED up
      BY <3>1 DEF IInv, TypeOK
    <3>2. CASE Observe("postgres", "unhealthy")
      BY <2>1, <3>2, ObserveType DEF IInv
    <3> QED
      BY <3>1, <3>2 DEF PostgresUnwinds
  <2> QED
    BY <1>2, <2>2 DEF IInv, TypeOK, PostgresUnwinds, Settled, Outcomes
<1>4. OnlyUnwindingOutlives'
  BY <1>2 DEF IInv, TypeOK, OnlyUnwindingOutlives, PostgresUnwinds, Answered, Settled,
      Outcomes
<1>5. AnswerFollowsPostgres'
  BY <1>1, <1>2 DEF IInv, TypeOK, AnswerFollowsPostgres, PostgresUnwinds
<1>6. CutOnlyByBudget'
  BY <1>1, <1>2 DEF IInv, TypeOK, CutOnlyByBudget, PostgresUnwinds
<1> QED
  BY <1>3, <1>4, <1>5, <1>6 DEF IInv

\* The Redis check at work, of a probe that is not answered yet.
LEMMA RedisWorksInv ==
    ASSUME IInv, NEW p \in Probers, RedisGoesOn(p) \/ RedisAnswers(p) \/ RedisFails(p)
    PROVE  IInv'
<1>1. answer[p] = "none"
  BY WorkingIsRunning DEF RedisGoesOn, RedisAnswers, RedisFails, Waiting
<1>2. PICK stage \in Waiting \cup Outcomes : redis' = [redis EXCEPT ![p] = stage]
  BY DEF RedisGoesOn, RedisAnswers, RedisFails, Outcomes
<1>3. UNCHANGED <<answer, age, pg>>
  BY DEF RedisGoesOn, RedisAnswers, RedisFails
<1>4. TypeOK'
  <2>1. up' \in [Dependencies -> Outcomes \cup {"unset"}]
    <3>1. CASE RedisGoesOn(p)
      BY <3>1 DEF IInv, TypeOK, RedisGoesOn
    <3>2. CASE RedisAnswers(p) \/ RedisFails(p)
      BY <3>2, ObserveType DEF IInv, RedisAnswers, RedisFails, Outcomes, Dependencies
    <3> QED
      BY <3>1, <3>2
  <2>2. waits' \in [Probers -> 0 .. MaxWaits - 1] /\ wait' \in [Probers -> Nat]
    <3>1. CASE RedisGoesOn(p)
      BY <3>1, TimeoutsAssumption DEF IInv, TypeOK, RedisGoesOn
    <3>2. CASE RedisAnswers(p) \/ RedisFails(p)
      BY <3>2, StopsWaitingType DEF IInv, RedisAnswers, RedisFails
    <3> QED
      BY <3>1, <3>2
  <2> QED
    BY <1>2, <1>3, <2>1, <2>2 DEF IInv, TypeOK, Settled
<1>5. OnlyUnwindingOutlives'
  BY <1>1, <1>2, <1>3 DEF IInv, TypeOK, OnlyUnwindingOutlives, Answered
<1>6. AnswerFollowsPostgres'
  BY <1>3 DEF IInv, AnswerFollowsPostgres
<1>7. CutOnlyByBudget'
  BY <1>1, <1>2, <1>3 DEF IInv, TypeOK, CutOnlyByBudget
<1> QED
  BY <1>4, <1>5, <1>6, <1>7 DEF IInv

LEMMA RedisUnwindsInv == ASSUME IInv, NEW p \in Probers, RedisUnwinds(p) PROVE IInv'
<1>1. answer[p] \in {"expired", "timed_out"}
  BY UnwindingIsOver DEF RedisUnwinds
<1>2. TypeOK'
  BY DEF IInv, TypeOK, RedisUnwinds, Settled
<1>3. OnlyUnwindingOutlives'
  BY DEF IInv, TypeOK, OnlyUnwindingOutlives, RedisUnwinds, Answered, Settled, Outcomes
<1>4. AnswerFollowsPostgres'
  BY DEF IInv, AnswerFollowsPostgres, RedisUnwinds
<1>5. CutOnlyByBudget'
  BY <1>1 DEF IInv, TypeOK, CutOnlyByBudget, RedisUnwinds, Waiting
<1> QED
  BY <1>2, <1>3, <1>4, <1>5 DEF IInv

\* A probe that answers in time has the word of Postgres.
LEMMA AnswerInv == ASSUME IInv, NEW p \in Probers, Answer(p) PROVE IInv'
<1>1. TypeOK'
  BY DEF IInv, TypeOK, Answer, Answers
<1>2. OnlyUnwindingOutlives'
  BY DEF IInv, TypeOK, OnlyUnwindingOutlives, Answer, Answered
<1>3. AnswerFollowsPostgres'
  <2>1. pg[p] \in Outcomes
    BY DEF IInv, CutOnlyByBudget, Answer, Settled, Running
  <2> QED
    BY <2>1 DEF IInv, TypeOK, AnswerFollowsPostgres, Answer, Outcomes
<1>4. CutOnlyByBudget'
  BY DEF IInv, TypeOK, CutOnlyByBudget, Answer
<1> QED
  BY <1>1, <1>2, <1>3, <1>4 DEF IInv

\* The budget throws into both checks of the probe it ends.
LEMMA BudgetInv == ASSUME IInv, NEW p \in Probers, BudgetExpires(p) PROVE IInv'
<1>1. \A check : Cancelled(check) \in Settled \cup {"unwinding"}
  BY DEF Cancelled
<1>2. TypeOK'
  BY <1>1, StopsWaitingType DEF IInv, TypeOK, BudgetExpires, Answers
<1>3. OnlyUnwindingOutlives'
  BY DEF IInv, TypeOK, OnlyUnwindingOutlives, BudgetExpires, Answered
<1>4. AnswerFollowsPostgres'
  BY DEF IInv, TypeOK, AnswerFollowsPostgres, BudgetExpires
<1>5. CutOnlyByBudget'
  BY <1>1 DEF IInv, TypeOK, CutOnlyByBudget, BudgetExpires, Settled, Outcomes, Waiting
<1> QED
  BY <1>2, <1>3, <1>4, <1>5 DEF IInv

\* When the gather is over, one check has, and the other is at most unwinding.
LEMMA GatherInv == ASSUME IInv, NEW p \in Probers, GatherEnds(p) PROVE IInv'
<1>1. /\ pg[p] \in Settled \cup {"unwinding"}
      /\ redis[p] \in Settled \cup {"unwinding"}
      /\ age[p] = Budget
  BY DEF IInv, TypeOK, CutOnlyByBudget, GatherEnds
<1>2. TypeOK'
  BY DEF IInv, TypeOK, GatherEnds, Answers
<1>3. OnlyUnwindingOutlives'
  BY <1>1 DEF IInv, TypeOK, OnlyUnwindingOutlives, GatherEnds, Answered, Settled
<1>4. AnswerFollowsPostgres'
  BY <1>1 DEF IInv, TypeOK, AnswerFollowsPostgres, GatherEnds
<1>5. CutOnlyByBudget'
  BY DEF IInv, TypeOK, CutOnlyByBudget, GatherEnds
<1> QED
  BY <1>2, <1>3, <1>4, <1>5 DEF IInv

LEMMA NextInv == ASSUME IInv, [Next]_vars PROVE IInv'
<1>1. CASE Tick
  BY <1>1, TickInv
<1>2. ASSUME NEW p \in Probers,
             \/ Start(p) \/ PostgresAnswers(p) \/ PostgresUnwinds(p) \/ RedisStep(p)
             \/ Answer(p) \/ BudgetExpires(p) \/ GatherEnds(p)
      PROVE  IInv'
  BY <1>2, StartInv, PostgresInv, PostgresUnwindsInv, RedisWorksInv, RedisUnwindsInv,
     AnswerInv, BudgetInv, GatherInv DEF RedisStep
<1>3. CASE UNCHANGED vars
  BY <1>3 DEF vars, IInv, TypeOK, OnlyUnwindingOutlives, AnswerFollowsPostgres,
      CutOnlyByBudget, Answered
<1> QED
  BY <1>1, <1>2, <1>3 DEF Next

THEOREM Invariance == Spec => []IInv
<1>1. Init => IInv
  BY InitInv
<1>2. IInv /\ [Next]_vars => IInv'
  BY NextInv
<1> QED
  BY <1>1, <1>2, PTL DEF Spec

\* Every variable keeps its type; in particular no probe runs past the budget
\* (health.py, readiness under asyncio.timeout).
THEOREM TypeCorrect == Spec => []TypeOK
<1>1. IInv => TypeOK
  BY DEF IInv
<1> QED
  BY <1>1, Invariance, PTL

\* Only a check that the budget cancelled and that is closing its connection
\* outlives the probe that started it, and at most one (health.py, readiness:
\* the gather and its cancellation; database.py, health_check).
THEOREM OnlyCancelledChecksOutlive == Spec => []OnlyUnwindingOutlives
<1>1. IInv => OnlyUnwindingOutlives
  BY DEF IInv
<1> QED
  BY <1>1, Invariance, PTL

\* A probe is answered ready only when Postgres answered healthy, and refused only
\* when it did not or the budget went by (health.py, readiness).
THEOREM AnswersFollowPostgres == Spec => []AnswerFollowsPostgres
<1>1. IInv => AnswerFollowsPostgres
  BY DEF IInv
<1> QED
  BY <1>1, Invariance, PTL
=============================================================================
