---------------------------- MODULE DbPoolProofs ----------------------------
(***************************************************************************)
(* Proofs about DbPool, for every finite set of sessions and probes and    *)
(* every pool size and overflow.  The inductive invariant has two parts.   *)
(* PoolInv: who owns a record, state by state, and the balance of the      *)
(* pool's counters; a counter step is only balanced because the actor      *)
(* taking a record owns none.  SessionInv: what exception and transaction  *)
(* each state of a session can carry, which the end of the session relies  *)
(* on.                                                                     *)
(***************************************************************************)
EXTENDS DbPool, FiniteSetTheorems, TLAPS

\* Whoever is connecting, connected or committing owns a record.
OwnersHold ==
    \A a \in Actors :
        st[a] \in {"checking", "opening", "held", "committing"} => a \in slot

PoolInv ==
    /\ PoolConservation
    /\ ReturnedOnExit
    /\ OwnersHold

\* What one session carries with it in each of its states.
SessionFacts(s) ==
    /\ s \in counted <=> result[s] = "dependency_down"
    /\ st[s] \in States \ {"closing", "done"} => result[s] = "none"
    /\ st[s] \in {"idle", "open", "waiting", "checking", "opening"} =>
           exc[s] = "none" /\ tx[s] = "none"
    /\ st[s] \in {"held", "committing"} => exc[s] = "none" /\ tx[s] = "open"
    /\ st[s] = "except" =>
           /\ exc[s] # "none"
           /\ tx[s] = "committed" => exc[s] \in InDoubt
    /\ st[s] \in {"closing", "done"} =>
           /\ result[s] = "none" <=> exc[s] = "none"
           /\ exc[s] = "none" => tx[s] \in {"none", "committed"}
           /\ tx[s] = "committed" => exc[s] \in InDoubt \cup {"none"}
    /\ st[s] = "done" => tx[s] # "open"

SessionInv == \A s \in Sessions : SessionFacts(s)

IInv == TypeOK /\ PoolInv /\ SessionInv

-----------------------------------------------------------------------------
(* Cardinalities.                                                          *)

LEMMA ActorsFinite == IsFiniteSet(Actors)
  BY ActorsAssumption, FS_Union DEF Actors

\* The set of owners is finite and grows and shrinks by one.
LEMMA SlotCardinality ==
    ASSUME slot \subseteq Actors
    PROVE  /\ IsFiniteSet(slot)
           /\ Cardinality(slot) \in Nat
           /\ \A a \in Actors : a \notin slot =>
                  Cardinality(slot \cup {a}) = Cardinality(slot) + 1
           /\ \A a \in slot : Cardinality(slot \ {a}) = Cardinality(slot) - 1
<1>1. IsFiniteSet(slot)
  BY ActorsFinite, FS_Subset
<1>2. Cardinality(slot) \in Nat
  BY <1>1, FS_CardinalityType
<1>3. ASSUME NEW a \in Actors, a \notin slot
      PROVE  Cardinality(slot \cup {a}) = Cardinality(slot) + 1
  BY <1>1, <1>3, FS_AddElement
<1>4. ASSUME NEW a \in slot
      PROVE  Cardinality(slot \ {a}) = Cardinality(slot) - 1
  BY <1>1, FS_RemoveElement
<1> QED
  BY <1>1, <1>2, <1>3, <1>4

-----------------------------------------------------------------------------
(* The pool's own steps, apart from the actors' states.                    *)

\* Taking a record, from the queue or by opening one, keeps the balance.
LEMMA TakeKeepsBalance ==
    ASSUME TypeOK, PoolConservation,
           NEW a \in Actors, a \notin slot,
           TakeIdle(a) \/ OpenNew(a)
    PROVE  /\ PoolConservation'
           /\ idle' \in 0 .. PoolSize
           /\ ovf' \in -PoolSize .. MaxOverflow
           /\ slot' = slot \cup {a}
<1>1. Cardinality(slot \cup {a}) = Cardinality(slot) + 1 /\ Cardinality(slot) \in Nat
  BY SlotCardinality DEF TypeOK
<1>2. CASE TakeIdle(a)
  BY <1>1, <1>2, SizeAssumption DEF TakeIdle, TypeOK, PoolConservation
<1>3. CASE OpenNew(a)
  BY <1>1, <1>3, SizeAssumption DEF OpenNew, TypeOK, PoolConservation
<1> QED
  BY <1>2, <1>3

\* Giving a record back keeps the balance; when it does not fit in the queue
\* the overflow counter is above its floor.
LEMMA ReturnKeepsBalance ==
    ASSUME TypeOK, PoolConservation, NEW a \in slot, Return(a)
    PROVE  /\ PoolConservation'
           /\ idle' \in 0 .. PoolSize
           /\ ovf' \in -PoolSize .. MaxOverflow
           /\ gauge' \in [in_use : Int, available : Int, overflow : Int]
           /\ slot' = slot \ {a}
<1>1. Cardinality(slot \ {a}) = Cardinality(slot) - 1 /\ Cardinality(slot) \in Nat
  BY SlotCardinality DEF TypeOK
<1>2. Cardinality(slot \ {a}) \in Nat
  BY ActorsFinite, FS_Subset, FS_CardinalityType DEF TypeOK
<1>3. slot' = slot \ {a} /\ gauge' = Reading(idle, ovf)
  BY DEF Return
<1>4. gauge' \in [in_use : Int, available : Int, overflow : Int]
  BY <1>3, SizeAssumption DEF Reading, TypeOK
<1>5. CASE idle < PoolSize /\ idle' = idle + 1 /\ ovf' = ovf
  BY <1>1, <1>3, <1>4, <1>5, SizeAssumption DEF TypeOK, PoolConservation
<1>6. CASE idle = PoolSize /\ idle' = idle /\ ovf' = ovf - 1
  BY <1>1, <1>2, <1>3, <1>4, <1>6, SizeAssumption DEF TypeOK, PoolConservation
<1> QED
  BY <1>5, <1>6 DEF Return

\* A record that could not be opened is forgotten.
LEMMA ForgetKeepsBalance ==
    ASSUME TypeOK, PoolConservation, NEW a \in slot,
           slot' = slot \ {a}, ovf' = ovf - 1, UNCHANGED <<idle, gauge>>
    PROVE  /\ PoolConservation'
           /\ ovf' \in -PoolSize .. MaxOverflow
<1>1. Cardinality(slot \ {a}) = Cardinality(slot) - 1 /\ Cardinality(slot) \in Nat
  BY SlotCardinality DEF TypeOK
<1>2. Cardinality(slot \ {a}) \in Nat
  BY ActorsFinite, FS_Subset, FS_CardinalityType DEF TypeOK
<1> QED
  BY <1>1, <1>2, SizeAssumption DEF TypeOK, PoolConservation

\* What Release does to the pool's variables in either case.
LEMMA ReleaseKeepsBalance ==
    ASSUME TypeOK, PoolConservation, NEW a \in Actors, Release(a)
    PROVE  /\ PoolConservation'
           /\ idle' \in 0 .. PoolSize
           /\ ovf' \in -PoolSize .. MaxOverflow
           /\ gauge' \in [in_use : Int, available : Int, overflow : Int]
           /\ slot' = slot \ {a}
<1>1. CASE a \in slot
  BY <1>1, ReturnKeepsBalance DEF Release
<1>2. CASE a \notin slot
  BY <1>2 DEF Release, poolVars, TypeOK, PoolConservation
<1> QED
  BY <1>1, <1>2

-----------------------------------------------------------------------------
(* TypeOK and PoolInv, action by action.                                   *)

\* The actor that takes a record held none, since it is open or waiting.
LEMMA TakeStepInv ==
    ASSUME TypeOK, PoolInv, NEW a \in Actors, st[a] \in {"open", "waiting"},
           TakeIdle(a) \/ OpenNew(a),
           UNCHANGED <<exc, result, tx, gauge, counted>>
    PROVE  TypeOK' /\ PoolInv'
<1>1. a \notin slot
  BY DEF PoolInv, ReturnedOnExit, Owning
<1>2. /\ PoolConservation'
      /\ idle' \in 0 .. PoolSize
      /\ ovf' \in -PoolSize .. MaxOverflow
      /\ slot' = slot \cup {a}
  BY <1>1, TakeKeepsBalance DEF PoolInv
<1>3. PICK s \in {"checking", "opening"} : st' = [st EXCEPT ![a] = s]
  BY DEF TakeIdle, OpenNew
<1>4. TypeOK'
  BY <1>2, <1>3 DEF TypeOK, States, Owning
<1>5. ReturnedOnExit' /\ OwnersHold'
  BY <1>2, <1>3 DEF TypeOK, PoolInv, ReturnedOnExit, OwnersHold, Owning
<1> QED
  BY <1>2, <1>4, <1>5 DEF PoolInv

\* Steps that leave the pool alone and move an actor between two states that
\* both own, or both do not own, a record.
LEMMA QuietStepInv ==
    ASSUME TypeOK, PoolInv, NEW a \in Actors, NEW s \in States,
           st' = [st EXCEPT ![a] = s],
           exc' \in [Actors -> Exceptions],
           result' \in [Actors -> Results],
           tx' \in [Actors -> {"none", "open", "committed", "rolled_back"}],
           counted' \subseteq Actors,
           UNCHANGED poolVars,
           a \in slot => s \in Owning,
           s \in {"checking", "opening", "held", "committing"} => a \in slot
    PROVE  TypeOK' /\ PoolInv'
<1>1. TypeOK'
  BY DEF TypeOK, poolVars
<1>2. PoolConservation'
  BY DEF PoolInv, PoolConservation, poolVars
<1>3. ReturnedOnExit' /\ OwnersHold'
  BY DEF TypeOK, PoolInv, ReturnedOnExit, OwnersHold, poolVars
<1> QED
  BY <1>1, <1>2, <1>3 DEF PoolInv

\* Steps in which an actor gives back what it holds, if anything.
LEMMA ReleaseStepInv ==
    ASSUME TypeOK, PoolInv, NEW a \in Actors,
           NEW s \in {"done", "except", "closing"},
           st' = [st EXCEPT ![a] = s],
           exc' \in [Actors -> Exceptions],
           result' \in [Actors -> Results],
           tx' \in [Actors -> {"none", "open", "committed", "rolled_back"}],
           counted' \subseteq Actors,
           \/ Release(a)
           \/ a \in slot /\ slot' = slot \ {a} /\ ovf' = ovf - 1
              /\ UNCHANGED <<idle, gauge>>
    PROVE  TypeOK' /\ PoolInv'
<1>1. /\ PoolConservation'
      /\ idle' \in 0 .. PoolSize
      /\ ovf' \in -PoolSize .. MaxOverflow
      /\ gauge' \in [in_use : Int, available : Int, overflow : Int]
      /\ slot' = slot \ {a}
  <2>1. CASE Release(a)
    BY <2>1, ReleaseKeepsBalance DEF PoolInv
  <2>2. CASE /\ a \in slot /\ slot' = slot \ {a} /\ ovf' = ovf - 1
             /\ UNCHANGED <<idle, gauge>>
    BY <2>2, ForgetKeepsBalance DEF PoolInv, TypeOK
  <2> QED
    BY <2>1, <2>2
<1>2. TypeOK'
  BY <1>1 DEF TypeOK, States, Owning
<1>3. ReturnedOnExit' /\ OwnersHold'
  BY <1>1 DEF TypeOK, PoolInv, ReturnedOnExit, OwnersHold, Owning
<1> QED
  BY <1>1, <1>2, <1>3 DEF PoolInv

\* The exception clauses of both kinds of actors.
LEMMA RaiseTypes ==
    ASSUME TypeOK, NEW a \in Actors, NEW e \in Exceptions, Raise(a, e)
    PROVE  /\ exc' \in [Actors -> Exceptions]
           /\ \E s \in {"except", "closing"} : st' = [st EXCEPT ![a] = s]
  BY DEF Raise, TypeOK

LEMMA PoolStepInv ==
    ASSUME TypeOK, PoolInv, NEW a \in Actors, PoolStep(a)
    PROVE  TypeOK' /\ PoolInv'
<1>1. CASE Acquire(a)
  <2>1. CASE TakeIdle(a) \/ OpenNew(a)
    BY <1>1, <2>1, TakeStepInv DEF Acquire
  <2>2. CASE st' = [st EXCEPT ![a] = "waiting"] /\ UNCHANGED <<slot, idle, ovf>>
    <3>1. a \notin slot
      BY <1>1 DEF Acquire, PoolInv, ReturnedOnExit, Owning
    <3> QED
      BY <1>1, <2>2, <3>1, QuietStepInv
      DEF Acquire, TypeOK, States, Owning, poolVars
  <2> QED
    BY <1>1, <2>1, <2>2 DEF Acquire
<1>2. CASE Granted(a)
  BY <1>2, TakeStepInv DEF Granted
<1>3. CASE WaitTimesOut(a)
  <2>1. CASE OpenNew(a) /\ UNCHANGED exc
    BY <1>3, <2>1, TakeStepInv DEF WaitTimesOut
  <2>2. CASE Raise(a, "pool_timeout") /\ UNCHANGED <<slot, idle, ovf>>
    <3>1. a \notin slot
      BY <1>3 DEF WaitTimesOut, PoolInv, ReturnedOnExit, Owning
    <3>2. PICK s \in {"except", "closing"} : st' = [st EXCEPT ![a] = s]
      BY <2>2 DEF Raise
    <3>3. exc' \in [Actors -> Exceptions]
      BY <2>2, RaiseTypes DEF Exceptions
    <3> QED
      BY <1>3, <2>2, <3>1, <3>2, <3>3, QuietStepInv
      DEF WaitTimesOut, TypeOK, States, Owning, poolVars
  <2> QED
    BY <1>3, <2>1, <2>2 DEF WaitTimesOut
<1>4. CASE Connected(a)
  <2>1. a \in slot
    BY <1>4 DEF Connected, PoolInv, OwnersHold
  <2>2. gauge' \in [in_use : Int, available : Int, overflow : Int]
    BY <1>4, SizeAssumption DEF Connected, Reading, TypeOK
  <2>3. TypeOK'
    BY <1>4, <2>2 DEF Connected, TypeOK, States, Owning
  <2>4. PoolConservation'
    BY <1>4 DEF Connected, PoolInv, PoolConservation
  <2>5. ReturnedOnExit' /\ OwnersHold'
    BY <1>4, <2>1 DEF Connected, TypeOK, PoolInv, ReturnedOnExit, OwnersHold,
       Owning
  <2> QED
    BY <2>3, <2>4, <2>5 DEF PoolInv
<1>5. CASE ConnectFails(a)
  <2>1. a \in slot
    BY <1>5 DEF ConnectFails, PoolInv, OwnersHold
  <2>2. PICK s \in {"except", "closing"} : st' = [st EXCEPT ![a] = s]
    BY <1>5 DEF ConnectFails, Raise
  <2>3. exc' \in [Actors -> Exceptions]
    BY <1>5, RaiseTypes DEF ConnectFails, Exceptions
  <2>4. \/ Release(a)
        \/ slot' = slot \ {a} /\ ovf' = ovf - 1 /\ UNCHANGED <<idle, gauge>>
    BY <1>5, <2>1 DEF ConnectFails, Release
  <2>5. /\ result' \in [Actors -> Results]
        /\ tx' \in [Actors -> {"none", "open", "committed", "rolled_back"}]
        /\ counted' \subseteq Actors
    BY <1>5 DEF ConnectFails, TypeOK
  <2> QED
    BY <2>1, <2>2, <2>3, <2>4, <2>5, ReleaseStepInv
<1> QED
  BY <1>1, <1>2, <1>3, <1>4, <1>5 DEF PoolStep

LEMMA BodyStepInv ==
    ASSUME TypeOK, PoolInv, NEW a \in Actors, BodyStep(a)
    PROVE  TypeOK' /\ PoolInv'
<1>1. CASE Begin(a)
  <2>1. a \notin slot
    BY <1>1 DEF Begin, PoolInv, ReturnedOnExit, Owning
  <2>2. /\ exc' \in [Actors -> Exceptions]
        /\ result' \in [Actors -> Results]
        /\ tx' \in [Actors -> {"none", "open", "committed", "rolled_back"}]
        /\ counted' \subseteq Actors
    BY <1>1 DEF Begin, TypeOK, Exceptions, Results
  <2> QED
    BY <1>1, <2>1, <2>2, QuietStepInv DEF Begin, States
<1>2. CASE QueryFails(a) \/ HandlerRaises(a)
  <2>1. PICK e \in Exceptions : Raise(a, e)
    BY <1>2 DEF QueryFails, HandlerRaises, Exceptions
  <2>2. PICK s \in {"except", "closing"} : st' = [st EXCEPT ![a] = s]
    BY <2>1 DEF Raise
  <2>3. exc' \in [Actors -> Exceptions]
    BY <2>1, RaiseTypes
  <2> QED
    BY <1>2, <2>2, <2>3, QuietStepInv
    DEF QueryFails, HandlerRaises, TypeOK, States, Owning
<1>3. CASE ExitBlock(a)
  <2>1. CASE Move(a, "held", "committing")
    <3>1. a \in slot
      BY <2>1 DEF Move, PoolInv, OwnersHold
    <3> QED
      BY <1>3, <2>1, <3>1, QuietStepInv
      DEF ExitBlock, Move, TypeOK, States, Owning
  <2>2. CASE Move(a, "open", "closing")
    BY <1>3, <2>2, QuietStepInv DEF ExitBlock, Move, TypeOK, States, Owning
  <2> QED
    BY <1>3, <2>1, <2>2 DEF ExitBlock
<1>4. CASE ProbeOk(a)
  BY <1>4, QuietStepInv DEF ProbeOk, Move, TypeOK, States, Owning
<1>5. CASE Cancel(a)
  <2>1. /\ exc' \in [Actors -> Exceptions]
        /\ result' \in [Actors -> Results]
        /\ counted' \subseteq Actors
        /\ st' = [st EXCEPT ![a] = "closing"]
    BY <1>5 DEF Cancel, TypeOK, Exceptions, Results
  <2>2. tx' \in [Actors -> {"none", "open", "committed", "rolled_back"}]
    BY <1>5 DEF Cancel, TypeOK
  <2>3. CASE st[a] \in {"checking", "opening"}
    <3>1. a \in slot
      BY <2>3 DEF PoolInv, OwnersHold
    <3>2. \/ Release(a)
          \/ slot' = slot \ {a} /\ ovf' = ovf - 1 /\ UNCHANGED <<idle, gauge>>
      BY <1>5, <2>3, <3>1 DEF Cancel, Release
    <3> QED
      BY <2>1, <2>2, <3>1, <3>2, ReleaseStepInv
  <2>4. CASE st[a] \notin {"checking", "opening"}
    <3>1. UNCHANGED poolVars
      BY <1>5, <2>4 DEF Cancel
    <3> QED
      BY <2>1, <2>2, <3>1, QuietStepInv DEF States, Owning
  <2> QED
    BY <2>3, <2>4
<1> QED
  BY <1>1, <1>2, <1>3, <1>4, <1>5 DEF BodyStep

LEMMA EndStepInv ==
    ASSUME TypeOK, PoolInv, NEW a \in Actors, EndStep(a)
    PROVE  TypeOK' /\ PoolInv'
<1>1. CASE CommitOk(a)
  <2>1. a \in slot
    BY <1>1 DEF CommitOk, Move, PoolInv, OwnersHold
  <2> QED
    BY <1>1, <2>1, ReleaseStepInv DEF CommitOk, Move, Release, TypeOK
<1>2. CASE CommitFails(a)
  <2>1. PICK e \in DbErrors, fate \in {"open", "committed", "rolled_back"} :
            Raise(a, e) /\ tx' = [tx EXCEPT ![a] = fate]
    BY <1>2 DEF CommitFails
  <2>2. PICK s \in {"except", "closing"} : st' = [st EXCEPT ![a] = s]
    BY <2>1 DEF Raise
  <2>3. exc' \in [Actors -> Exceptions]
    BY <2>1, RaiseTypes DEF Exceptions
  <2> QED
    BY <1>2, <2>1, <2>2, <2>3, QuietStepInv
    DEF CommitFails, TypeOK, States, Owning
<1>3. CASE Rollback(a)
  <2>1. result' \in [Actors -> Results]
    BY <1>3 DEF Rollback, Classify, TypeOK, Results
  <2>2. tx' \in [Actors -> {"none", "open", "committed", "rolled_back"}]
    BY <1>3 DEF Rollback, Undo, TypeOK
  <2> QED
    BY <1>3, <2>1, <2>2, ReleaseStepInv DEF Rollback, Move, TypeOK
<1>4. CASE RollbackFails(a)
  BY <1>4, QuietStepInv DEF RollbackFails, Move, TypeOK, States, Owning, Results
<1>5. CASE Close(a)
  <2>1. tx' \in [Actors -> {"none", "open", "committed", "rolled_back"}]
    BY <1>5 DEF Close, Undo, TypeOK
  <2> QED
    BY <1>5, <2>1, ReleaseStepInv DEF Close, Move, TypeOK
<1> QED
  BY <1>1, <1>2, <1>3, <1>4, <1>5 DEF EndStep

LEMMA InitPoolInv == Init => TypeOK /\ PoolInv
<1> SUFFICES ASSUME Init PROVE TypeOK /\ PoolInv
  OBVIOUS
<1>1. TypeOK
  BY SizeAssumption DEF Init, TypeOK, States, Exceptions, Results
<1>2. PoolInv
  BY FS_EmptySet, SizeAssumption
  DEF Init, PoolInv, PoolConservation, ReturnedOnExit, OwnersHold
<1> QED
  BY <1>1, <1>2

-----------------------------------------------------------------------------
(* SessionInv, action by action.                                           *)

\* An action of one actor changes nothing another actor carries.
LEMMA OthersUntouched ==
    ASSUME TypeOK, NEW a \in Actors, NEW b \in Actors, a # b,
           PoolStep(a) \/ BodyStep(a) \/ EndStep(a)
    PROVE  /\ st'[b] = st[b] /\ exc'[b] = exc[b]
           /\ result'[b] = result[b] /\ tx'[b] = tx[b]
           /\ b \in counted' <=> b \in counted
<1>1. CASE PoolStep(a)
  BY <1>1 DEF PoolStep, Acquire, Granted, WaitTimesOut, Connected,
     ConnectFails, TakeIdle, OpenNew, Raise, TypeOK
<1>2. CASE BodyStep(a)
  BY <1>2 DEF BodyStep, Begin, QueryFails, HandlerRaises, ExitBlock, ProbeOk,
     Cancel, Move, Raise, TypeOK
<1>3. CASE EndStep(a)
  BY <1>3 DEF EndStep, CommitOk, CommitFails, Rollback, RollbackFails, Close,
     Undo, Move, Raise, TypeOK
<1> QED
  BY <1>1, <1>2, <1>3

LEMMA PoolStepSession ==
    ASSUME TypeOK, NEW s \in Sessions, SessionFacts(s), PoolStep(s)
    PROVE  SessionFacts(s)'
<1> s \in Actors
  BY DEF Actors
<1>1. CASE Acquire(s)
  BY <1>1 DEF Acquire, TakeIdle, OpenNew, SessionFacts, TypeOK, States, Owning
<1>2. CASE Granted(s)
  BY <1>2 DEF Granted, TakeIdle, SessionFacts, TypeOK, States, Owning
<1>3. CASE WaitTimesOut(s)
  BY <1>3 DEF WaitTimesOut, OpenNew, Raise, SessionFacts, TypeOK, States, Owning
<1>4. CASE Connected(s)
  BY <1>4 DEF Connected, SessionFacts, TypeOK, States, Owning
<1>5. CASE ConnectFails(s)
  BY <1>5 DEF ConnectFails, Raise, SessionFacts, TypeOK, States, Owning
<1> QED
  BY <1>1, <1>2, <1>3, <1>4, <1>5 DEF PoolStep

LEMMA BodyStepSession ==
    ASSUME TypeOK, NEW s \in Sessions, SessionFacts(s), BodyStep(s)
    PROVE  SessionFacts(s)'
<1> s \in Actors
  BY DEF Actors
<1>1. CASE Begin(s)
  BY <1>1 DEF Begin, SessionFacts, TypeOK, States, Owning
<1>2. CASE QueryFails(s)
  BY <1>2 DEF QueryFails, Raise, DbErrors, SessionFacts, TypeOK, States, Owning
<1>3. CASE HandlerRaises(s)
  BY <1>3 DEF HandlerRaises, Raise, SessionFacts, TypeOK, States, Owning
<1>4. CASE ExitBlock(s)
  BY <1>4 DEF ExitBlock, Move, SessionFacts, TypeOK, States, Owning
<1>5. CASE ProbeOk(s)
  BY <1>5, ActorsAssumption DEF ProbeOk
<1>6. CASE Cancel(s)
  BY <1>6 DEF Cancel, SessionFacts, TypeOK, States, Owning, InDoubt
<1> QED
  BY <1>1, <1>2, <1>3, <1>4, <1>5, <1>6 DEF BodyStep

LEMMA EndStepSession ==
    ASSUME TypeOK, NEW s \in Sessions, SessionFacts(s), EndStep(s)
    PROVE  SessionFacts(s)'
<1> s \in Actors
  BY DEF Actors
<1>1. CASE CommitOk(s)
  BY <1>1 DEF CommitOk, Move, SessionFacts, TypeOK, States, Owning
<1>2. CASE CommitFails(s)
  BY <1>2 DEF CommitFails, Raise, DbErrors, InDoubt, SessionFacts, TypeOK,
     States, Owning
<1>3. CASE Rollback(s)
  <2>1. exc[s] \in Exceptions \ {"none"} /\ result'[s] = Classify(exc[s])
    BY <1>3 DEF Rollback, Move, SessionFacts, TypeOK
  <2>2. /\ Classify(exc[s]) # "none"
        /\ Classify(exc[s]) = "dependency_down" <=> exc[s] = "pool_timeout"
    BY <2>1 DEF Classify, Exceptions, DbErrors
  <2>3. s \in counted' <=> exc[s] = "pool_timeout"
    BY <1>3 DEF Rollback, Move, SessionFacts, States, Owning
  <2>4. st'[s] = "closing" /\ exc'[s] = exc[s]
    BY <1>3 DEF Rollback, Move, TypeOK
  <2>5. tx'[s] = "committed" => tx[s] = "committed"
    BY <1>3 DEF Rollback, Undo, TypeOK
  <2> QED
    BY <1>3, <2>1, <2>2, <2>3, <2>4, <2>5
    DEF Rollback, Move, SessionFacts, States, Owning
<1>4. CASE RollbackFails(s)
  BY <1>4 DEF RollbackFails, Move, SessionFacts, TypeOK, States, Owning
<1>5. CASE Close(s)
  BY <1>5 DEF Close, Move, Undo, SessionFacts, TypeOK, States, Owning
<1> QED
  BY <1>1, <1>2, <1>3, <1>4, <1>5 DEF EndStep

\* An actor is refused by its own step, which is taken when pool_timeout
\* expires and nothing can be opened.
LEMMA RefusalMeansFull ==
    ASSUME IInv, NEW b \in Actors, PoolStep(b) \/ BodyStep(b) \/ EndStep(b),
           NEW a \in Actors, exc[a] # "pool_timeout", exc'[a] = "pool_timeout"
    PROVE  idle + Cardinality(slot) = PoolSize + MaxOverflow
<1>1. TypeOK
  BY DEF IInv
<1>2. a = b
  BY <1>1, OthersUntouched
<1>3. WaitTimesOut(a)
  <2>1. CASE PoolStep(a)
    BY <1>1, <2>1 DEF PoolStep, Acquire, Granted, Connected, ConnectFails, Raise, TypeOK
  <2>2. CASE BodyStep(a)
    BY <1>1, <2>2 DEF BodyStep, Begin, QueryFails, HandlerRaises, ExitBlock, ProbeOk,
       Cancel, Raise, DbErrors, TypeOK
  <2>3. CASE EndStep(a)
    BY <1>1, <2>3 DEF EndStep, CommitOk, CommitFails, Rollback, RollbackFails, Close,
       Raise, DbErrors, TypeOK
  <2> QED
    BY <1>2, <2>1, <2>2, <2>3
<1>4. ovf = MaxOverflow
  BY <1>3 DEF WaitTimesOut, OpenNew
<1>5. Cardinality(slot) \in Nat
  BY <1>1, SlotCardinality DEF TypeOK
<1> QED
  BY <1>1, <1>4, <1>5, SizeAssumption DEF IInv, TypeOK, PoolInv, PoolConservation

LEMMA NextIInv == IInv /\ [Next]_vars => IInv'
<1> SUFFICES ASSUME IInv, [Next]_vars PROVE IInv'
  OBVIOUS
<1>1. ASSUME NEW a \in Actors, PoolStep(a) \/ BodyStep(a) \/ EndStep(a)
      PROVE  IInv'
  <2>1. TypeOK' /\ PoolInv'
    BY <1>1, PoolStepInv, BodyStepInv, EndStepInv DEF IInv
  <2>2. ASSUME NEW s \in Sessions PROVE SessionFacts(s)'
    <3>1. CASE s = a
      BY <1>1, <3>1, PoolStepSession, BodyStepSession, EndStepSession
      DEF IInv, SessionInv
    <3>2. CASE s # a
      <4>1. SessionFacts(s)
        BY DEF IInv, SessionInv
      <4>2. /\ st'[s] = st[s] /\ exc'[s] = exc[s]
            /\ result'[s] = result[s] /\ tx'[s] = tx[s]
            /\ s \in counted' <=> s \in counted
        BY <1>1, <3>2, OthersUntouched DEF IInv, Actors
      <4> QED
        BY <4>1, <4>2 DEF SessionFacts
    <3> QED
      BY <3>1, <3>2
  <2> QED
    BY <2>1, <2>2 DEF IInv, SessionInv
<1>2. CASE UNCHANGED vars
  BY <1>2 DEF vars, IInv, TypeOK, PoolInv, PoolConservation, ReturnedOnExit,
     OwnersHold, SessionInv, SessionFacts
<1> QED
  BY <1>1, <1>2 DEF Next

LEMMA InitIInv == Init => IInv
<1> SUFFICES ASSUME Init PROVE SessionInv
  BY InitPoolInv DEF IInv
<1> QED
  BY DEF Init, SessionInv, SessionFacts, Actors, States, Owning

-----------------------------------------------------------------------------
(* The theorems.                                                           *)

\* The instance's copy of the library operator is the operator itself.
LEMMA SameCardinality == Budget!Cardinality(slot) = Cardinality(slot)
  BY DEF Cardinality, Budget!Cardinality

\* IInv is an inductive invariant of sessions, probes and pool.
THEOREM Invariance == Spec => []IInv
  BY InitIInv, NextIInv, PTL DEF Spec

\* Every variable keeps its type; in particular the pool's counters keep
\* within the sizes the settings give.
THEOREM TypeCorrect == Spec => []TypeOK
  BY Invariance, PTL DEF IInv

\* No connection of the pool is lost or counted twice.
THEOREM PoolConserved == Spec => []PoolConservation
  BY Invariance, PTL DEF IInv, PoolInv

\* Whoever is through with session() or health_check() owns no connection.
THEOREM AllReturned == Spec => []ReturnedOnExit
  BY Invariance, PTL DEF IInv, PoolInv

\* A session is one unit of work.
THEOREM UnitOfWorkHolds == Spec => []UnitOfWork
<1>1. IInv => UnitOfWork
  BY DEF IInv, SessionInv, SessionFacts, UnitOfWork, TypeOK
<1> QED
  BY Invariance, <1>1, PTL

\* A session or probe is refused only when every connection the settings
\* allow is open.
THEOREM RefusalsAreJustified == Spec => RefusedOnlyWhenFull
<1> DEFINE RefusedWhenFull ==
        \A a \in Actors : exc[a] # "pool_timeout" /\ exc'[a] = "pool_timeout" =>
            idle + Cardinality(slot) = PoolSize + MaxOverflow
<1>1. ASSUME IInv, [Next]_vars
      PROVE  [RefusedWhenFull]_vars
  <2>1. ASSUME NEW b \in Actors, PoolStep(b) \/ BodyStep(b) \/ EndStep(b)
        PROVE  RefusedWhenFull
    BY <1>1, <2>1, RefusalMeansFull
  <2> QED
    BY <1>1, <2>1 DEF Next
<1> QED
  BY Invariance, <1>1, PTL DEF Spec, RefusedOnlyWhenFull

\* The pool implements the connection budget: each of its steps takes, opens
\* or gives back one connection within the limit, or touches none.
THEOREM BudgetKept == Spec => ConnectionsWithinBudget
<1>1. Init => Budget!BudgetInit
  BY DEF Init, Budget!BudgetInit
<1>2. ASSUME IInv, NEW a \in Actors, a \notin slot, TakeIdle(a) \/ OpenNew(a)
      PROVE  Budget!BudgetNext
  <2>1. Cardinality(slot) \in Nat
    BY <1>2, SlotCardinality DEF IInv, TypeOK
  <2>2. CASE TakeIdle(a)
    BY <1>2, <2>2 DEF TakeIdle, Budget!BudgetNext, Budget!Reuse
  <2>3. CASE OpenNew(a)
    <3>1. Cardinality(slot) + idle < PoolSize + MaxOverflow
      BY <1>2, <2>1, <2>3, SizeAssumption
      DEF OpenNew, IInv, TypeOK, PoolInv, PoolConservation
    <3> QED
      BY <1>2, <2>3, <3>1, SameCardinality
      DEF OpenNew, Budget!BudgetNext, Budget!Open
  <2> QED
    BY <1>2, <2>2, <2>3
<1>3. ASSUME NEW a \in Actors,
             \/ Release(a)
             \/ a \in slot /\ slot' = slot \ {a} /\ UNCHANGED idle
      PROVE  Budget!BudgetNext \/ UNCHANGED <<slot, idle>>
  BY <1>3 DEF Release, Return, poolVars, Budget!BudgetNext, Budget!GiveBack
<1>4. ASSUME IInv, NEW a \in Actors, PoolStep(a)
      PROVE  Budget!BudgetNext \/ UNCHANGED <<slot, idle>>
  <2>1. a \in slot => st[a] \notin {"open", "waiting"}
    BY <1>4 DEF IInv, PoolInv, ReturnedOnExit, Owning
  <2>2. st[a] \in {"checking", "opening"} => a \in slot
    BY <1>4 DEF IInv, PoolInv, OwnersHold
  <2>3. CASE Acquire(a) \/ Granted(a) \/ WaitTimesOut(a)
    BY <1>2, <1>4, <2>1, <2>3 DEF Acquire, Granted, WaitTimesOut
  <2>4. CASE Connected(a)
    BY <2>4 DEF Connected
  <2>5. CASE ConnectFails(a)
    BY <1>3, <2>2, <2>5 DEF ConnectFails, Release
  <2> QED
    BY <1>4, <2>3, <2>4, <2>5 DEF PoolStep
<1>5. ASSUME IInv, NEW a \in Actors, BodyStep(a)
      PROVE  Budget!BudgetNext \/ UNCHANGED <<slot, idle>>
  <2>1. st[a] \in {"checking", "opening"} => a \in slot
    BY <1>5 DEF IInv, PoolInv, OwnersHold
  <2>2. CASE Cancel(a)
    BY <1>3, <2>1, <2>2 DEF Cancel, Release, poolVars
  <2>3. CASE ~Cancel(a)
    BY <1>5, <2>3 DEF BodyStep, Begin, QueryFails, HandlerRaises, ExitBlock,
       ProbeOk, poolVars
  <2> QED
    BY <2>2, <2>3
<1>6. ASSUME IInv, NEW a \in Actors, EndStep(a)
      PROVE  Budget!BudgetNext \/ UNCHANGED <<slot, idle>>
  <2>1. st[a] = "committing" => a \in slot
    BY <1>6 DEF IInv, PoolInv, OwnersHold
  <2>2. CASE CommitOk(a)
    BY <1>3, <2>1, <2>2 DEF CommitOk, Move, Release
  <2>3. CASE CommitFails(a) \/ RollbackFails(a)
    BY <2>3 DEF CommitFails, RollbackFails, poolVars
  <2>4. CASE Rollback(a) \/ Close(a)
    BY <1>3, <2>4 DEF Rollback, Close
  <2> QED
    BY <1>6, <2>2, <2>3, <2>4 DEF EndStep
<1>7. IInv /\ [Next]_vars => [Budget!BudgetNext]_(Budget!budgetVars)
  <2> SUFFICES ASSUME IInv, [Next]_vars
               PROVE  Budget!BudgetNext \/ UNCHANGED <<slot, idle>>
    BY DEF Budget!budgetVars
  <2>1. CASE UNCHANGED vars
    BY <2>1 DEF vars
  <2> QED
    BY <1>4, <1>5, <1>6, <2>1 DEF Next
<1> QED
  BY <1>1, <1>7, Invariance, PTL
  DEF Spec, ConnectionsWithinBudget, Budget!BudgetSpec

\* At no time are more than pool_size + max_overflow connections open.
THEOREM ConnectionsBounded == Spec => []Budget!WithinBudget
<1>1. IInv => Budget!WithinBudget
  <2> SUFFICES ASSUME IInv PROVE Cardinality(slot) + idle <= PoolSize + MaxOverflow
    BY SameCardinality DEF Budget!WithinBudget
  <2>1. Cardinality(slot) \in Nat
    BY SlotCardinality DEF IInv, TypeOK
  <2> QED
    BY <2>1, SizeAssumption DEF IInv, TypeOK, PoolInv, PoolConservation
<1> QED
  BY Invariance, <1>1, PTL
=============================================================================
