------------------------ MODULE TensionRunnerProofs ------------------------
(***************************************************************************)
(* Proofs about TensionRunner: a life implements the Packet specification, *)
(* its budget ledger balances, no organ runs on an exhausted Packet, its   *)
(* stop reason is true, no route rests on an old derivation, every route   *)
(* has its account, and every tick has one frame in the film.              *)
(***************************************************************************)
EXTENDS TensionRunner, PacketProofs, FiniteSetTheorems

\* What the refinement needs of the runner's own state: only a tree router
\* derives, only another one predicts, and the decision of another one names
\* no derivation.
RefInv ==
  /\ RouterMode # "tree" => pc # "derive" /\ decision.ref = 0
  /\ RouterMode = "tree" => pc # "predict"

\* The trace of a Packet is never empty: it starts with the birth event.
LEMMA TraceNonEmpty ==
  ASSUME IInv
  PROVE  Len(trace) \in 1..Len(trace)
  <1>1. Len(trace) \in Nat
    BY DEF IInv, TypeOK
  <1>2. \E i \in 1..Len(trace) : TRUE
    BY DEF IInv, RouteContinuity, WellRouted, PositionAt
  <1> QED
    BY <1>1, <1>2

\* An organ event of an admissible type, evidence kept, is a Packet step.
LEMMA OrganEventIsNext ==
  ASSUME NEW type \in OrganTypes, AppendActorEvent(type), UNCHANGED evidence
  PROVE  Next
  <1>1. AppendOrganEvent
    BY DEF AppendOrganEvent
  <1> QED
    BY <1>1 DEF Next

\* A frame of the camera is a Packet step.
LEMMA CaptureIsNext ==
  ASSUME Capture
  PROVE  Next
  <1>1. "runtime_frame" \in OrganTypes
    BY RunnerAssumption DEF RunnerTypes
  <1> QED
    BY <1>1, OrganEventIsNext DEF Capture

\* A death of one of the runner's causes is a Packet step.
LEMMA DieOfIsNext ==
  ASSUME NEW cause \in RunnerCauses, DieOf(cause)
  PROVE  Next
  <1>1. cause \in Causes
    BY RunnerAssumption
  <1> QED
    BY <1>1 DEF DieOf, Next

\* Every stage of the runner is a Packet step or leaves the Packet alone.
LEMMA RunnerStepRefines ==
  ASSUME IInv, RefInv, [RunnerNext]_lifeVars
  PROVE  [Next]_vars
  <1>0. CASE UNCHANGED lifeVars
    BY <1>0 DEF lifeVars, vars
  <1>1. CASE Loud
    BY <1>1 DEF Loud, vars
  <1>2. CASE PhysicsLoud
    BY <1>2 DEF PhysicsLoud, vars
  <1>3. CASE RunFlow
    BY <1>3 DEF RunFlow, Next
  <1>4. CASE OpenTick
    BY <1>4 DEF OpenTick, Next
  <1>5. CASE OrganWork
    BY <1>5, OrganEventIsNext DEF OrganWork
  <1>6. ASSUME NEW through \in 1..head, Reconcile(through)
        PROVE  Next
    <2>1. "runtime_reconciliation" \in OrganTypes
      BY RunnerAssumption DEF RunnerTypes
    <2> QED
      BY <1>6, <2>1, OrganEventIsNext DEF Reconcile
  <1>7. CASE OrganQuiet
    BY <1>7 DEF OrganQuiet, vars
  <1>8. CASE EffectFails
    <2>1. "operator_failure" \in OrganTypes
      BY RunnerAssumption DEF RunnerTypes
    <2> QED
      BY <1>8, <2>1, OrganEventIsNext DEF EffectFails
  <1>9. CASE SettleTick
    BY <1>9, CaptureIsNext DEF SettleTick
  <1>10. CASE SettleFailure
    BY <1>10, CaptureIsNext DEF SettleFailure
  <1>11. CASE Perish
    BY <1>11, DieOfIsNext DEF Perish, RunnerCauses
  <1>12. ASSUME NEW cause \in Causes, ManifestLife(cause)
         PROVE  Next
    BY <1>12 DEF ManifestLife, Next
  <1>13. CASE DieFromMortality
    <2>1. Mortality \in RunnerCauses
      BY <1>13 DEF DieFromMortality, Mortality, RunnerCauses
    <2> QED
      BY <1>13, <2>1, DieOfIsNext DEF DieFromMortality
  <1>14. CASE Survive
    BY <1>14 DEF Survive, vars
  <1>15. CASE MeasurePressure
    BY <1>15 DEF MeasurePressure, Next
  <1>16. ASSUME NEW to \in Operators \cup {"none"}, Derive(to)
         PROVE  Next
    <2>1. DeriveRoute(to, Len(trace), to # "none")
      BY <1>16 DEF Derive
    <2>2. (to # "none") \in BOOLEAN
      OBVIOUS
    <2> QED
      BY <2>1, <2>2, TraceNonEmpty DEF Next
  <1>17. CASE LegacyRoute \/ LegacyUnsupported
    BY <1>17 DEF LegacyRoute, LegacyUnsupported, vars
  <1>18. CASE PredictShadow
    BY <1>18 DEF PredictShadow, Next, vars
  <1>19. CASE RecordShadow
    BY <1>19 DEF RecordShadow, Next
  <1>20. ASSUME NEW cause \in Causes, NoViable(cause)
         PROVE  Next
    BY <1>20 DEF NoViable, DieOf, Next
  <1>21. CASE CommitRoute
    <2>1. CommitTransition(decision.to, RouterMode = "tree", decision.ref)
      BY <1>21 DEF CommitRoute
    <2>2. decision.to \in Operators
      <3>1. decision.to \in Successors(operator) /\ operator \in Operators
        BY <2>1 DEF CommitTransition, IInv, TypeOK
      <3> QED
        BY <3>1 DEF Successors, Adjacent, Operators
    <2>3. CASE RouterMode = "tree"
      <3>1. CommitTransition(decision.to, TRUE, decision.ref)
        BY <2>1, <2>3
      <3>2. decision.ref \in 1..Len(trace)
        BY <3>1 DEF CommitTransition, DerivationMatches
      <3> QED
        BY <2>2, <3>1, <3>2 DEF Next
    <2>4. CASE RouterMode # "tree"
      <3>1. CommitTransition(decision.to, FALSE, 0)
        BY <2>1, <2>4 DEF RefInv
      <3> QED
        BY <2>2, <3>1 DEF Next
    <2> QED
      BY <2>3, <2>4
  <1>22. CASE TickLimit
    BY <1>22 DEF TickLimit, vars
  <1>23. CASE Finish
    BY <1>23 DEF Finish, vars
  <1> QED
    BY <1>0, <1>1, <1>2, <1>3, <1>4, <1>5, <1>6, <1>7, <1>8, <1>9, <1>10, <1>11,
       <1>12, <1>13, <1>14, <1>15, <1>16, <1>17, <1>18, <1>19, <1>20, <1>21, <1>22,
       <1>23 DEF RunnerNext, Progress

\* The runner keeps RefInv.
LEMMA RefInvInductive ==
  ASSUME RefInv, [RunnerNext]_lifeVars
  PROVE  RefInv'
  <1>1. CASE UNCHANGED <<decision, pc>>
    BY <1>1 DEF RefInv
  <1>2. CASE UNCHANGED decision /\ pc' \notin {"derive", "predict"}
    BY <1>2 DEF RefInv
  <1>3. CASE RunFlow
    BY <1>3 DEF RunFlow, RefInv
  <1>4. CASE MeasurePressure
    BY <1>4 DEF MeasurePressure, RefInv
  <1>5. ASSUME NEW to \in Operators \cup {"none"}, Derive(to)
        PROVE  RefInv'
    BY <1>5 DEF Derive, RefInv, Decided
  <1>6. CASE LegacyRoute
    BY <1>6 DEF LegacyRoute, RefInv
  <1>7. CASE RecordShadow
    BY <1>7, <1>2 DEF RecordShadow, outcome, Decided
  <1>8. CASE \/ Loud \/ PhysicsLoud \/ OpenTick \/ OrganWork \/ OrganQuiet
             \/ EffectFails \/ SettleTick \/ SettleFailure \/ Perish
             \/ DieFromMortality \/ Survive \/ LegacyUnsupported \/ PredictShadow
             \/ CommitRoute \/ TickLimit \/ Finish
    BY <1>8, <1>2 DEF Loud, PhysicsLoud, OpenTick, OrganWork, OrganQuiet, EffectFails,
       SettleTick, SettleFailure, Perish, DieFromMortality, DieOf, Survive,
       LegacyUnsupported, PredictShadow, CommitRoute, TickLimit, Finish, outcome
  <1>9. CASE \/ \E through \in 1..head : Reconcile(through)
             \/ \E cause \in Causes : ManifestLife(cause)
             \/ \E cause \in Causes : NoViable(cause)
    BY <1>9, <1>2 DEF Reconcile, ManifestLife, NoViable, DieOf, outcome
  <1> QED
    BY <1>1, <1>3, <1>4, <1>5, <1>6, <1>7, <1>8, <1>9
       DEF RunnerNext, Progress, lifeVars, runnerVars, outcome

\* Every Packet life driven by tension_runner.run is a behaviour of the
\* Packet specification, for every router mode, budget and topology walk.
THEOREM LifeImplementsPacket == LifeSpec => Spec
  <1>1. RunnerInit => Init /\ IInv /\ RefInv
    BY InitIInv DEF RunnerInit, RefInv, NoDecision
  <1>2. IInv /\ RefInv /\ [RunnerNext]_lifeVars => [Next]_vars /\ IInv' /\ RefInv'
    BY RunnerStepRefines, NextIInv, RefInvInductive
  <1> QED
    BY <1>1, <1>2, PTL DEF LifeSpec, Spec

-----------------------------------------------------------------------------
\* Budget.

\* The ledger is typed and balanced.
BudgetInv ==
  /\ clock \in Nat
  /\ spent \in [Axes -> Nat]
  /\ remaining \in [DOMAIN Limit -> Int]
  /\ BudgetConserved

\* Charging a step and a cost in the same tick as the clock keeps BudgetInv.
LEMMA ChargeBalances ==
  ASSUME BudgetInv, NEW cost \in [Axes -> Nat],
         Charge(Plus(OneStep, cost)), clock' = clock + 1
  PROVE  BudgetInv'
  <1>1. /\ "steps" \in Axes /\ DOMAIN Limit \subseteq Axes
        /\ \A a \in DOMAIN Limit : Limit[a] \in Nat
    BY RunnerAssumption
  <1>2. /\ spent' = [a \in Axes |-> spent[a] + Plus(OneStep, cost)[a]]
        /\ remaining' = [a \in DOMAIN Limit |-> remaining[a] - Plus(OneStep, cost)[a]]
    BY DEF Charge, Plus
  <1>3. \A a \in Axes : Plus(OneStep, cost)[a] = OneStep[a] + cost[a]
    BY DEF Plus
  <1>4. /\ \A a \in Axes : OneStep[a] \in Nat
        /\ OneStep["steps"] = 1
    BY <1>1 DEF OneStep
  <1>5. \A a \in Axes : Plus(OneStep, cost)[a] \in Nat
    BY <1>3, <1>4
  <1>6. Plus(OneStep, cost)["steps"] >= 1
    BY <1>1, <1>3, <1>4
  <1>7. spent' \in [Axes -> Nat] /\ remaining' \in [DOMAIN Limit -> Int]
    BY <1>1, <1>2, <1>5 DEF BudgetInv
  <1>8. \A a \in DOMAIN Limit : spent'[a] + remaining'[a] = Limit[a]
    BY <1>1, <1>2, <1>5 DEF BudgetInv, BudgetConserved
  <1>9. spent'["steps"] >= clock'
    BY <1>1, <1>2, <1>5, <1>6 DEF BudgetInv, BudgetConserved
  <1>10. clock' \in Nat
    BY DEF BudgetInv
  <1> QED
    BY <1>7, <1>8, <1>9, <1>10 DEF BudgetInv, BudgetConserved

\* The runner keeps BudgetInv.
LEMMA BudgetInvInductive ==
  ASSUME BudgetInv, [RunnerNext]_lifeVars
  PROVE  BudgetInv'
  <1>0. NoCost \in [Axes -> Nat] /\ AllCosts \subseteq [Axes -> Nat]
    BY RunnerAssumption DEF NoCost, AllCosts
  <1>1. CASE UNCHANGED <<clock, spent, remaining>>
    BY <1>1 DEF BudgetInv, BudgetConserved
  <1>2. CASE SettleTick \/ SettleFailure
    BY <1>2, <1>0, ChargeBalances DEF ChargeTick, SettleTick, SettleFailure
  <1>3. CASE PhysicsLoud
    <2>1. \E cost \in Costs \cup {NoCost} : Charge(Plus(OneStep, cost))
      BY <1>3 DEF PhysicsLoud, ChargeTick
    <2> QED
      BY <2>1, <1>3, <1>0, ChargeBalances, RunnerAssumption DEF PhysicsLoud, ChargeTick
  <1>4. CASE \/ Loud \/ RunFlow \/ OpenTick \/ OrganWork \/ OrganQuiet \/ EffectFails
             \/ Perish \/ DieFromMortality \/ Survive \/ MeasurePressure
             \/ LegacyRoute \/ LegacyUnsupported \/ PredictShadow \/ RecordShadow
             \/ CommitRoute \/ TickLimit \/ Finish
    BY <1>4, <1>1 DEF Loud, RunFlow, OpenTick, OrganWork, OrganQuiet, EffectFails,
       Perish, DieFromMortality, DieOf, Survive, MeasurePressure, LegacyRoute,
       LegacyUnsupported, PredictShadow, RecordShadow, CommitRoute, TickLimit, Finish,
       economy
  <1>5. CASE \/ \E through \in 1..head : Reconcile(through)
             \/ \E cause \in Causes : ManifestLife(cause)
             \/ \E to \in Operators \cup {"none"} : Derive(to)
             \/ \E cause \in Causes : NoViable(cause)
    BY <1>5, <1>1 DEF Reconcile, ManifestLife, Derive, NoViable, DieOf, economy
  <1> QED
    BY <1>1, <1>2, <1>3, <1>4, <1>5
       DEF RunnerNext, Progress, lifeVars, runnerVars, economy

\* The ledger of every life balances: on every limited axis what is spent and
\* what remains add up to the limit, and every tick was paid for.
THEOREM LifeBudgetConserved == LifeSpec => []BudgetConserved
  <1>1. RunnerInit => BudgetInv
    BY RunnerAssumption DEF RunnerInit, BudgetInv, BudgetConserved, NoCost
  <1>2. BudgetInv /\ [RunnerNext]_lifeVars => BudgetInv'
    BY BudgetInvInductive
  <1>3. BudgetInv => BudgetConserved
    BY DEF BudgetInv
  <1> QED
    BY <1>1, <1>2, <1>3, PTL DEF LifeSpec

-----------------------------------------------------------------------------
\* Mortality.

\* The stages between a judged tick and the next one's effect.
Judged == {"route", "derive", "predict", "observe", "noviable", "commit", "arrive",
           "execute"}

\* Once a tick is settled, a Packet past its judgement is not exhausted.
JudgedInv ==
  /\ clock \in Nat
  /\ pc = "flow" => clock = 0
  /\ pc \in Judged /\ clock > 0 => Mortality = "none"

\* The runner keeps JudgedInv.
LEMMA JudgedInvInductive ==
  ASSUME JudgedInv, [RunnerNext]_lifeVars
  PROVE  JudgedInv'
  <1>1. CASE UNCHANGED <<economy, pc>>
    BY <1>1 DEF JudgedInv, economy, Mortality, LossExhausted, BudgetExhausted
  <1>2. CASE clock' \in Nat /\ pc' \notin Judged /\ pc' # "flow"
    BY <1>2 DEF JudgedInv
  <1>3. CASE /\ UNCHANGED economy /\ pc' # "flow"
             /\ pc \in Judged \/ Mortality = "none" \/ pc = "flow"
    BY <1>3 DEF JudgedInv, economy, Mortality, LossExhausted, BudgetExhausted
  <1>4. CASE SettleTick \/ SettleFailure \/ PhysicsLoud
    BY <1>4, <1>2 DEF ChargeTick, SettleTick, SettleFailure, PhysicsLoud, JudgedInv, Judged
  <1>5. CASE \/ Loud \/ OrganWork \/ OrganQuiet \/ EffectFails \/ Perish
             \/ DieFromMortality \/ LegacyUnsupported \/ TickLimit \/ Finish
    BY <1>5, <1>2 DEF Loud, OrganWork, OrganQuiet, EffectFails, Perish,
       DieFromMortality, DieOf, LegacyUnsupported, TickLimit, Finish, economy, Judged,
       JudgedInv
  <1>6. CASE \/ \E through \in 1..head : Reconcile(through)
             \/ \E cause \in Causes : ManifestLife(cause)
             \/ \E cause \in Causes : NoViable(cause)
    BY <1>6, <1>2 DEF Reconcile, ManifestLife, NoViable, DieOf, economy, Judged,
       JudgedInv
  <1>7. CASE \/ RunFlow \/ OpenTick \/ Survive \/ MeasurePressure \/ LegacyRoute
             \/ PredictShadow \/ RecordShadow \/ CommitRoute
    BY <1>7, <1>3 DEF RunFlow, OpenTick, Survive, MeasurePressure, LegacyRoute,
       PredictShadow, RecordShadow, CommitRoute, Judged, Decided
  <1>8. CASE \E to \in Operators \cup {"none"} : Derive(to)
    BY <1>8, <1>3 DEF Derive, Judged, Decided
  <1> QED
    BY <1>1, <1>4, <1>5, <1>6, <1>7, <1>8
       DEF RunnerNext, Progress, lifeVars, runnerVars

\* No organ ever runs on a Packet whose budget or identity was exhausted by an
\* earlier tick.
THEOREM LifeNoPosthumousTick == LifeSpec => []NoPosthumousTick
  <1>1. RunnerInit => JudgedInv
    BY DEF RunnerInit, JudgedInv, Judged
  <1>2. JudgedInv /\ [RunnerNext]_lifeVars => JudgedInv'
    BY JudgedInvInductive
  <1>3. JudgedInv => NoPosthumousTick
    BY DEF JudgedInv, NoPosthumousTick, Judged
  <1> QED
    BY <1>1, <1>2, <1>3, PTL DEF LifeSpec

-----------------------------------------------------------------------------
\* Ticks and steps.

\* Before a tick is settled the step axis still has something to pay it
\* with, unless it is the first one.
StepsLeft ==
  pc \in Judged \cup {"applied", "failed"} /\ clock > 0 => remaining["steps"] > 0

TicksInv ==
  /\ BudgetInv
  /\ "steps" \in DOMAIN Limit => StepsLeft /\ TicksWithinSteps

\* Settling a tick keeps TicksInv.
LEMMA SettleKeepsTicks ==
  ASSUME TicksInv, BudgetInv', pc \in {"applied", "failed"}, clock' = clock + 1,
         pc' \notin Judged \cup {"applied", "failed"}
  PROVE  TicksInv'
  <1> SUFFICES ASSUME "steps" \in DOMAIN Limit
               PROVE  TicksWithinSteps'
    BY DEF TicksInv, StepsLeft
  <1>1. Limit["steps"] \in Nat /\ clock \in Nat
    BY RunnerAssumption DEF TicksInv, BudgetInv
  <1>2. CASE clock = 0
    BY <1>1, <1>2 DEF TicksWithinSteps
  <1>3. CASE clock > 0
    <2>1. remaining["steps"] > 0
      BY <1>3 DEF TicksInv, StepsLeft
    <2>2. spent["steps"] + remaining["steps"] = Limit["steps"] /\ spent["steps"] >= clock
      BY DEF TicksInv, BudgetInv, BudgetConserved
    <2>3. spent["steps"] \in Nat /\ remaining["steps"] \in Int
      BY RunnerAssumption DEF TicksInv, BudgetInv
    <2>4. clock + 1 <= Limit["steps"]
      BY <1>1, <2>1, <2>2, <2>3
    <2> QED
      BY <1>1, <2>4 DEF TicksWithinSteps
  <1> QED
    BY <1>1, <1>2, <1>3

\* The runner keeps TicksInv.
LEMMA TicksInvInductive ==
  ASSUME TicksInv, JudgedInv, [RunnerNext]_lifeVars
  PROVE  TicksInv'
  <1>0. BudgetInv'
    BY BudgetInvInductive DEF TicksInv
  <1>1. CASE SettleTick \/ SettleFailure \/ PhysicsLoud
    BY <1>0, <1>1, SettleKeepsTicks DEF ChargeTick, SettleTick, SettleFailure, PhysicsLoud, Judged
  <1>2. CASE /\ UNCHANGED economy
             /\ \/ pc' \notin Judged \cup {"applied", "failed"}
                \/ pc \in Judged \cup {"applied", "failed"}
                \/ pc = "flow"
                \/ Mortality = "none"
    <2>1. "steps" \in DOMAIN Limit => TicksWithinSteps'
      BY <1>2 DEF TicksInv, TicksWithinSteps, economy
    <2>2. ASSUME "steps" \in DOMAIN Limit, Mortality = "none"
          PROVE  remaining["steps"] > 0
      <3>1. remaining["steps"] \in Int
        BY <2>2 DEF TicksInv, BudgetInv
      <3> QED
        BY <3>1, <2>2 DEF Mortality, BudgetExhausted
    <2>3. "steps" \in DOMAIN Limit => StepsLeft'
      BY <1>2, <2>2 DEF TicksInv, StepsLeft, JudgedInv, economy
    <2> QED
      BY <1>0, <2>1, <2>3 DEF TicksInv
  <1>3. CASE UNCHANGED lifeVars
    <2>1. UNCHANGED <<pc, economy>>
      BY <1>3 DEF lifeVars, runnerVars
    <2> QED
      BY <1>2, <2>1
  <1>4. CASE \/ Loud \/ OrganWork \/ OrganQuiet \/ EffectFails \/ Perish
             \/ DieFromMortality \/ LegacyUnsupported \/ TickLimit \/ Finish
    BY <1>4, <1>2 DEF Loud, OrganWork, OrganQuiet, EffectFails, Perish,
       DieFromMortality, DieOf, LegacyUnsupported, TickLimit, Finish, Judged
  <1>5. CASE \/ \E through \in 1..head : Reconcile(through)
             \/ \E cause \in Causes : ManifestLife(cause)
             \/ \E cause \in Causes : NoViable(cause)
             \/ \E to \in Operators \cup {"none"} : Derive(to)
    BY <1>5, <1>2 DEF Reconcile, ManifestLife, NoViable, Derive, DieOf, Judged
  <1>6. CASE \/ RunFlow \/ OpenTick \/ Survive \/ MeasurePressure \/ LegacyRoute
             \/ PredictShadow \/ RecordShadow \/ CommitRoute
    BY <1>6, <1>2 DEF RunFlow, OpenTick, Survive, MeasurePressure, LegacyRoute,
       PredictShadow, RecordShadow, CommitRoute, Judged
  <1> QED
    BY <1>1, <1>3, <1>4, <1>5, <1>6 DEF RunnerNext, Progress

\* No life takes more ticks than its steps, except the one tick of a Packet
\* born without any.
THEOREM LifeTicksWithinSteps == LifeSpec => []TicksWithinSteps
  <1>1. RunnerInit => JudgedInv /\ TicksInv
    <2> SUFFICES ASSUME RunnerInit
                 PROVE  JudgedInv /\ TicksInv
      OBVIOUS
    <2>1. BudgetInv
      BY RunnerAssumption DEF RunnerInit, BudgetInv, BudgetConserved, NoCost
    <2>2. "steps" \in DOMAIN Limit => Limit["steps"] \in Nat
      BY RunnerAssumption
    <2>3. JudgedInv /\ StepsLeft /\ TicksWithinSteps
      BY <2>2 DEF RunnerInit, JudgedInv, StepsLeft, TicksWithinSteps, Judged
    <2> QED
      BY <2>1, <2>3 DEF TicksInv
  <1>2. JudgedInv /\ TicksInv /\ [RunnerNext]_lifeVars => JudgedInv' /\ TicksInv'
    BY JudgedInvInductive, TicksInvInductive
  <1>3. TicksInv => TicksWithinSteps
    BY DEF TicksInv, TicksWithinSteps
  <1> QED
    BY <1>1, <1>2, <1>3, PTL DEF LifeSpec

-----------------------------------------------------------------------------
\* The outcome of a life.

Ended == {"finish", "done", "loud"}

\* The stop reason, the Packet's terminal state and the economics agree in
\* every stage, not only when run() returns.
OutcomeInv ==
  /\ pc \notin Ended => stop = "none"
  /\ pc \in {"finish", "done"} => stop # "none"
  /\ stop \in {"none", "tick_limit"} <=> Alive
  /\ stop = "manifested" <=> terminal.kind = "manifest"
  /\ terminal.kind = "internal_death" => death = stop
  /\ stop = "identity_loss" => LossExhausted
  /\ stop = "budget_exhausted" => BudgetExhausted /\ ~LossExhausted
  /\ stop \in {"stalled", "unsafe_scope"} => ~BudgetExhausted /\ ~LossExhausted

\* What the economics say of a cause of death.
Justified(cause) ==
  /\ cause = "identity_loss" => LossExhausted
  /\ cause = "budget_exhausted" => BudgetExhausted /\ ~LossExhausted
  /\ cause \in {"stalled", "unsafe_scope"} => ~BudgetExhausted /\ ~LossExhausted

\* A justified death establishes OutcomeInv.
LEMMA DieOfTruthful ==
  ASSUME NEW cause \in RunnerCauses, DieOf(cause), Justified(cause)
  PROVE  OutcomeInv'
  <1>1. /\ terminal' = [kind |-> "internal_death", cause |-> cause]
        /\ death' = cause /\ status' = "dead" /\ stop' = cause /\ pc' = "finish"
    BY DEF DieOf, Die, EndLife
  <1>2. terminal'.kind = "internal_death"
    BY <1>1
  <1>3. UNCHANGED <<loss, remaining>>
    BY DEF DieOf, economy
  <1>4. (LossExhausted <=> LossExhausted') /\ (BudgetExhausted <=> BudgetExhausted')
    BY <1>3 DEF LossExhausted, BudgetExhausted
  <1>5. ~Alive' /\ stop' \notin {"none", "tick_limit", "manifested"}
    BY <1>1 DEF Alive, RunnerCauses
  <1> QED
    BY <1>1, <1>2, <1>4, <1>5 DEF OutcomeInv, Justified, Ended

\* A stage before the end that leaves stop, terminal and death alone and
\* keeps the Packet alive keeps OutcomeInv.
LEMMA LivingStepTruthful ==
  ASSUME OutcomeInv, pc \notin Ended, pc' \notin {"finish", "done"},
         UNCHANGED <<stop, terminal, death>>, Alive'
  PROVE  OutcomeInv'
  BY DEF OutcomeInv, Ended

\* The runner keeps OutcomeInv.
LEMMA OutcomeInvInductive ==
  ASSUME OutcomeInv, IInv, [RunnerNext]_lifeVars
  PROVE  OutcomeInv'
  <1>0. Mortality # "none" => Justified(Mortality) /\ Mortality \in RunnerCauses
    BY DEF Mortality, Justified, RunnerCauses
  <1>1. CASE /\ UNCHANGED <<status, terminal, death, economy, stop>>
             /\ pc' = pc \/ pc' = "loud" \/ (pc = "finish" /\ pc' = "done")
    BY <1>1 DEF OutcomeInv, economy, LossExhausted, BudgetExhausted, Alive, Ended
  <1>2. CASE UNCHANGED lifeVars \/ Loud \/ LegacyUnsupported \/ Finish
    BY <1>2, <1>1 DEF lifeVars, runnerVars, Loud, LegacyUnsupported, Finish, vars,
       outcome
  <1>3. CASE \/ RunFlow \/ OpenTick \/ OrganWork \/ OrganQuiet \/ EffectFails
             \/ SettleTick \/ PhysicsLoud \/ SettleFailure \/ Survive
             \/ MeasurePressure \/ LegacyRoute \/ PredictShadow \/ RecordShadow
             \/ CommitRoute
    <2>1. pc \notin Ended /\ pc' \notin {"finish", "done"} /\ UNCHANGED stop
      BY <1>3 DEF RunFlow, OpenTick, OrganWork, OrganQuiet, EffectFails, SettleTick,
         PhysicsLoud, SettleFailure, Survive, MeasurePressure, LegacyRoute,
         PredictShadow, RecordShadow, CommitRoute, Ended, outcome, Decided
    <2>2. Alive
      BY <2>1 DEF OutcomeInv
    <2>3. UNCHANGED <<terminal, death>> /\ status' \in {status, "running"}
      BY <1>3 DEF RunFlow, OpenTick, OrganWork, OrganQuiet, EffectFails, SettleTick,
         PhysicsLoud, SettleFailure, Survive, MeasurePressure, LegacyRoute,
         PredictShadow, RecordShadow, CommitRoute, Capture, AppendActorEvent,
         AppendChaos, BeginTick, MeasureTension, CommitTransition, vars
    <2> QED
      BY <2>1, <2>2, <2>3, LivingStepTruthful DEF Alive
  <1>4. ASSUME NEW through \in 1..head, Reconcile(through)
        PROVE  OutcomeInv'
    <2>1. pc \notin Ended /\ pc' \notin {"finish", "done"}
          /\ UNCHANGED <<stop, terminal, death, status>>
      BY <1>4 DEF Reconcile, Ended, outcome, AppendActorEvent
    <2> QED
      BY <2>1, LivingStepTruthful DEF Alive, OutcomeInv
  <1>5. ASSUME NEW to \in Operators \cup {"none"}, Derive(to)
        PROVE  OutcomeInv'
    <2>1. pc \notin Ended /\ pc' \notin {"finish", "done"}
          /\ UNCHANGED <<stop, terminal, death, status>>
      BY <1>5 DEF Derive, Ended, DeriveRoute, Decided
    <2> QED
      BY <2>1, LivingStepTruthful DEF Alive, OutcomeInv
  <1>6. CASE Perish
    BY <1>6, DieOfTruthful DEF Perish, Justified, RunnerCauses
  <1>7. CASE DieFromMortality
    BY <1>7, <1>0, DieOfTruthful DEF DieFromMortality
  <1>8. ASSUME NEW cause \in Causes, NoViable(cause)
        PROVE  OutcomeInv'
    <2>1. cause \in RunnerCauses /\ Justified(cause)
      <3>1. CASE Mortality # "none"
        BY <1>8, <1>0, <3>1 DEF NoViable
      <3>2. CASE Mortality = "none"
        <4>1. cause \in {"stalled", "unsafe_scope"}
          BY <1>8, <3>2 DEF NoViable
        <4>2. ~LossExhausted /\ ~BudgetExhausted
          BY <3>2 DEF Mortality
        <4> QED
          BY <4>1, <4>2 DEF Justified, RunnerCauses
      <3> QED
        BY <3>1, <3>2
    <2> QED
      BY <1>8, <2>1, DieOfTruthful DEF NoViable
  <1>9. ASSUME NEW cause \in Causes, ManifestLife(cause)
        PROVE  OutcomeInv'
    <2>1. /\ terminal' = [kind |-> "manifest", cause |-> cause]
          /\ status' = "dead" /\ stop' = "manifested" /\ pc' = "finish"
      BY <1>9 DEF ManifestLife, ManifestPacket, EndLife
    <2>2. terminal'.kind = "manifest"
      BY <2>1
    <2> QED
      BY <2>1, <2>2 DEF OutcomeInv, Alive, Ended
  <1>10. CASE TickLimit
    <2>1. /\ pc = "arrive" /\ stop' = "tick_limit" /\ pc' = "finish"
          /\ UNCHANGED <<status, terminal, death>>
      BY <1>10 DEF TickLimit, vars
    <2>2. Alive /\ stop = "none"
      BY <2>1 DEF OutcomeInv, Ended
    <2>3. terminal.kind = "none"
      <3>1. terminal = NoTerminal
        BY <2>2 DEF Alive, IInv, TerminalSealed
      <3> QED
        BY <3>1 DEF NoTerminal
    <2> QED
      BY <2>1, <2>2, <2>3 DEF OutcomeInv, Alive, Ended
  <1> QED
    BY <1>2, <1>3, <1>4, <1>5, <1>6, <1>7, <1>8, <1>9, <1>10 DEF RunnerNext, Progress

\* What run() returns is true of the Packet it returns, and no cause of death
\* is given that the economics do not support.
THEOREM LifeOutcomeTruthful == LifeSpec => []OutcomeTruthful
  <1>1. RunnerInit => OutcomeInv
    BY DEF RunnerInit, Init, OutcomeInv, Ended, Alive, NoTerminal
  <1>2. OutcomeInv /\ IInv /\ [RunnerNext]_lifeVars => OutcomeInv'
    BY OutcomeInvInductive
  <1>3. OutcomeInv => OutcomeTruthful
    BY DEF OutcomeInv, OutcomeTruthful
  <1> QED
    BY <1>1, <1>2, <1>3, LifeImplementsPacket, PacketInvariant, PTL DEF LifeSpec

-----------------------------------------------------------------------------
\* What a stage writes on the trace.

\* The events that open or leave a visit, and the frames of the film.
Landmarks == Anchors \cup {"runtime_frame"}

\* The trace is kept, or grows by events that are no landmark.
PlainGrowth ==
  /\ Len(trace) \in Nat /\ Len(trace') \in Nat /\ Len(trace) <= Len(trace')
  /\ \A i \in 1..Len(trace) : trace'[i] = trace[i]
  /\ \A i \in (Len(trace) + 1)..Len(trace') : trace'[i].type \notin Landmarks

\* The trace grows by one event of the type.
GrowsBy(type) ==
  /\ Len(trace) \in Nat /\ Len(trace') = Len(trace) + 1
  /\ \A i \in 1..Len(trace) : trace'[i] = trace[i]
  /\ trace'[Len(trace) + 1].type = type

\* The stages that open no visit, leave none and film nothing.
PlainStage ==
  \/ UNCHANGED lifeVars
  \/ Loud \/ PhysicsLoud \/ RunFlow \/ OrganWork \/ OrganQuiet \/ EffectFails
  \/ \E through \in 1..head : Reconcile(through)
  \/ Perish \/ DieFromMortality \/ Survive
  \/ \E cause \in Causes : ManifestLife(cause)
  \/ MeasurePressure \/ LegacyRoute \/ LegacyUnsupported
  \/ \E to \in Operators \cup {"none"} : Derive(to)
  \/ PredictShadow \/ RecordShadow
  \/ \E cause \in Causes : NoViable(cause)
  \/ TickLimit \/ Finish

\* Any other step opens a visit, films or leaves a visit.
LEMMA StageKinds ==
  ASSUME [RunnerNext]_lifeVars
  PROVE  PlainStage \/ OpenTick \/ SettleTick \/ SettleFailure \/ CommitRoute
  BY DEF PlainStage, RunnerNext, Progress

\* One plain event is plain growth.
LEMMA OnePlain ==
  ASSUME trace \in Seq(EventRecord), NEW e \in EventRecord,
         trace' = Append(trace, e), e.type \notin Landmarks
  PROVE  PlainGrowth
  <1>1. /\ Len(trace) \in Nat /\ Len(trace') = Len(trace) + 1
        /\ \A i \in 1..Len(trace) : trace'[i] = trace[i]
        /\ trace'[Len(trace) + 1] = e
    BY AppendFacts
  <1> QED
    BY <1>1 DEF PlainGrowth

LEMMA NoPlain ==
  ASSUME trace \in Seq(EventRecord), trace' = trace
  PROVE  PlainGrowth
  BY DEF PlainGrowth

\* The last words and the terminal event of a death are plain growth.
LEMMA DeathPlain ==
  ASSUME TypeOK, NEW kind, NEW cause, NEW words \in {"manifest", "death"},
         EndLife(kind, cause, words)
  PROVE  PlainGrowth
  <1> DEFINE w == Event(words, operator)
             e == Event("terminal", operator)
  <1>1. /\ w \in EventRecord /\ w.type = words
        /\ e \in EventRecord /\ e.type = "terminal"
    <2>1. words \in EventTypes /\ "terminal" \in EventTypes
      BY DEF EventTypes, LifecycleTypes
    <2> QED
      BY <2>1, PlainEvent DEF TypeOK
  <1> HIDE DEF w, e
  <1>2. trace' = trace \o <<w, e>>
    BY DEF EndLife, w, e
  <1>3. trace \in Seq(EventRecord)
    BY DEF TypeOK
  <1>4. trace' = Append(Append(trace, w), e)
    BY <1>1, <1>2, <1>3, AppendTwo
  <1> DEFINE mid == Append(trace, w)
  <1>5. /\ mid \in Seq(EventRecord) /\ Len(trace) \in Nat /\ Len(mid) = Len(trace) + 1
        /\ \A i \in 1..Len(trace) : mid[i] = trace[i]
        /\ mid[Len(trace) + 1] = w
    BY <1>1, <1>3, AppendFacts
  <1> HIDE DEF mid
  <1>6. /\ Len(trace') = Len(mid) + 1
        /\ \A i \in 1..Len(mid) : trace'[i] = mid[i]
        /\ trace'[Len(mid) + 1] = e
    BY <1>1, <1>4, <1>5, AppendFacts DEF mid
  <1>7. w.type \notin Landmarks /\ e.type \notin Landmarks
    BY <1>1 DEF Landmarks, Anchors
  <1> QED
    BY <1>5, <1>6, <1>7 DEF PlainGrowth

\* An organ event that is no frame is plain growth.
LEMMA OrganPlain ==
  ASSUME TypeOK, NEW type \in EventTypes \ Landmarks, AppendActorEvent(type)
  PROVE  PlainGrowth
  <1>1. Event(type, operator) \in EventRecord /\ Event(type, operator).type = type
    BY PlainEvent DEF TypeOK
  <1> QED
    BY <1>1, OnePlain DEF AppendActorEvent, TypeOK

\* A tension measure is plain growth.
LEMMA MeasurePlain ==
  ASSUME TypeOK, NEW snapshot \in BOOLEAN, MeasureTension(snapshot)
  PROVE  PlainGrowth
  <1> DEFINE e == [Event("tension_measure", operator) EXCEPT !.ready = snapshot]
  <1>1. e \in EventRecord /\ e.type = "tension_measure"
    BY DEF TypeOK, Event, EventRecord, EventTypes, GenericTypes
  <1>2. trace' = Append(trace, e)
    BY DEF MeasureTension
  <1> HIDE DEF e
  <1> QED
    BY <1>1, <1>2, OnePlain DEF TypeOK, Landmarks, Anchors

\* What a derivation writes.
LEMMA DeriveWrites ==
  ASSUME TypeOK, NEW to \in Operators \cup {"none"}, NEW ref \in Nat,
         NEW ready \in BOOLEAN, DeriveRoute(to, ref, ready)
  PROVE  \E e \in EventRecord :
           /\ trace' = Append(trace, e)
           /\ e.type = "route_derivation" /\ e.ref = ref
  <1> DEFINE e == [Event("route_derivation", operator) EXCEPT
                     !.from = operator, !.to = to, !.ref = ref, !.ready = ready]
  <1>1. e \in EventRecord /\ e.type = "route_derivation" /\ e.ref = ref
    BY DEF TypeOK, Event, EventRecord, EventTypes, GenericTypes
  <1>2. trace' = Append(trace, e)
    BY DEF DeriveRoute
  <1> HIDE DEF e
  <1> QED
    BY <1>1, <1>2

\* Plain stages are plain growth.
LEMMA PlainStageGrowth ==
  ASSUME IInv, PlainStage
  PROVE  PlainGrowth
  <1>0. TypeOK /\ trace \in Seq(EventRecord)
    BY DEF IInv, TypeOK
  <1>1. CASE UNCHANGED lifeVars
    BY <1>0, <1>1, NoPlain DEF lifeVars, vars
  <1>2. CASE \/ Loud \/ PhysicsLoud \/ OrganQuiet \/ Survive \/ LegacyRoute
             \/ LegacyUnsupported \/ TickLimit \/ Finish
    BY <1>0, <1>2, NoPlain DEF Loud, PhysicsLoud, OrganQuiet, Survive, LegacyRoute,
       LegacyUnsupported, TickLimit, Finish, vars
  <1>3. CASE RunFlow
    <2>1. "chaos_append" \in EventTypes \ Landmarks
      BY DEF EventTypes, Landmarks, Anchors
    <2> QED
      BY <1>0, <1>3, <2>1, OrganPlain DEF RunFlow, AppendChaos
  <1>4. CASE OrganWork
    <2>1. PICK type \in OrganTypes \ RunnerTypes : AppendActorEvent(type)
      BY <1>4 DEF OrganWork
    <2>2. type \in EventTypes \ Landmarks
      BY PacketAssumption DEF EventTypes, GenericTypes, Landmarks, Anchors, RunnerTypes
    <2> QED
      BY <1>0, <2>1, <2>2, OrganPlain
  <1>5. CASE EffectFails \/ \E through \in 1..head : Reconcile(through)
    <2>1. {"operator_failure", "runtime_reconciliation"} \subseteq EventTypes \ Landmarks
      BY DEF EventTypes, GenericTypes, Landmarks, Anchors
    <2> QED
      BY <1>0, <1>5, <2>1, OrganPlain DEF EffectFails, Reconcile
  <1>6. CASE \/ Perish \/ DieFromMortality
             \/ \E cause \in Causes : ManifestLife(cause)
             \/ \E cause \in Causes : NoViable(cause)
    BY <1>0, <1>6, DeathPlain DEF Perish, DieFromMortality, ManifestLife, NoViable,
       DieOf, Die, ManifestPacket
  <1>7. CASE MeasurePressure \/ RecordShadow \/ PredictShadow
    BY <1>0, <1>7, MeasurePlain, NoPlain DEF MeasurePressure, RecordShadow,
       PredictShadow, vars
  <1>8. ASSUME NEW to \in Operators \cup {"none"}, Derive(to)
        PROVE  PlainGrowth
    <2>1. Len(trace) \in Nat /\ (to # "none") \in BOOLEAN
      BY <1>0
    <2>2. PICK e \in EventRecord :
            trace' = Append(trace, e) /\ e.type = "route_derivation"
      BY <1>0, <1>8, <2>1, DeriveWrites DEF Derive
    <2> QED
      BY <1>0, <2>2, OnePlain DEF Landmarks, Anchors
  <1> QED
    BY <1>1, <1>2, <1>3, <1>4, <1>5, <1>6, <1>7, <1>8 DEF PlainStage

\* What a committed route writes.
LEMMA CommitWrites ==
  ASSUME TypeOK, RefInv, CommitRoute
  PROVE  \E e \in EventRecord :
           /\ trace' = Append(trace, e)
           /\ e.type = "route" /\ e.ref = decision.ref
           /\ e.tree = (RouterMode = "tree")
  <1> DEFINE tree == RouterMode = "tree"
             e == [Event("route", decision.to) EXCEPT !.from = operator,
                     !.to = decision.to, !.ref = decision.ref, !.tree = tree]
  <1>1. /\ trace' = Append(trace, e) /\ decision.to \in Successors(operator)
        /\ tree => DerivationMatches(decision.ref, decision.to)
    BY DEF CommitRoute, CommitTransition
  <1>2. decision.to \in Operators /\ operator \in Operators
    BY <1>1 DEF TypeOK, Successors, Adjacent, Operators
  <1>3. Len(trace) \in Nat
    BY DEF TypeOK
  <1>4. decision.ref \in Nat
    BY <1>1, <1>3 DEF RefInv, DerivationMatches
  <1>5. tree \in BOOLEAN
    OBVIOUS
  <1>6. /\ e \in EventRecord /\ e.type = "route" /\ e.ref = decision.ref
        /\ e.tree = tree
    BY <1>2, <1>4, <1>5 DEF Event, EventRecord, EventTypes, LifecycleTypes
  <1> HIDE DEF e
  <1> QED
    BY <1>1, <1>6

\* What the other stages write.
LEMMA LandmarkGrowth ==
  ASSUME IInv, RefInv
  PROVE  /\ OpenTick => GrowsBy("operator_tick")
         /\ Capture => GrowsBy("runtime_frame")
         /\ SettleTick \/ SettleFailure => Capture
         /\ CommitRoute => GrowsBy("route")
  <1>0. TypeOK /\ trace \in Seq(EventRecord)
    BY DEF IInv, TypeOK
  <1>1. ASSUME NEW e \in EventRecord, trace' = Append(trace, e)
        PROVE  GrowsBy(e.type)
    BY <1>0, <1>1, AppendFacts DEF GrowsBy
  <1>2. ASSUME NEW type \in EventTypes
        PROVE  Event(type, operator) \in EventRecord /\ Event(type, operator).type = type
    BY <1>0, PlainEvent DEF TypeOK
  <1>3. {"operator_tick", "runtime_frame"} \subseteq EventTypes
    BY DEF EventTypes, GenericTypes, LifecycleTypes
  <1>4. OpenTick => GrowsBy("operator_tick")
    BY <1>1, <1>2, <1>3 DEF OpenTick, BeginTick
  <1>5. Capture => GrowsBy("runtime_frame")
    BY <1>1, <1>2, <1>3 DEF Capture, AppendActorEvent
  <1>6. CommitRoute => GrowsBy("route")
    BY <1>0, <1>1, CommitWrites
  <1> QED
    BY <1>4, <1>5, <1>6 DEF SettleTick, SettleFailure

-----------------------------------------------------------------------------
\* Fresh derivations.

\* A trace each of whose tree routes was decided in the visit it leaves.
FreshTrace(tr) ==
  \A i \in 1..Len(tr) :
    tr[i].type = "route" /\ tr[i].tree =>
      \A j \in tr[tr[i].ref].ref..(i - 1) : tr[j].type \notin Anchors

\* Since the derivation d and its snapshot were recorded nothing opened or
\* left a visit.
StillFresh(d) ==
  /\ d \in 1..Len(trace)
  /\ trace[d].ref \in 1..(d - 1)
  /\ \A j \in trace[d].ref..Len(trace) : trace[j].type \notin Anchors

\* A tree decision waiting to be committed is still fresh.
FreshInv ==
  /\ FreshTrace(trace)
  /\ RouterMode = "tree" /\ pc \in {"observe", "commit"} => StillFresh(decision.ref)

\* Growth by anything but a tree route keeps the old routes fresh.
LEMMA GrowthKeepsFresh ==
  ASSUME IInv, FreshTrace(trace), Len(trace) \in Nat, Len(trace') \in Nat,
         Len(trace) <= Len(trace'),
         \A i \in 1..Len(trace) : trace'[i] = trace[i],
         \A i \in (Len(trace) + 1)..Len(trace') :
           trace'[i].type = "route" /\ trace'[i].tree =>
             \A j \in trace'[trace'[i].ref].ref..(i - 1) : trace'[j].type \notin Anchors
  PROVE  FreshTrace(trace')
  <1> SUFFICES ASSUME NEW i \in 1..Len(trace'), trace'[i].type = "route", trace'[i].tree,
                      NEW j \in trace'[trace'[i].ref].ref..(i - 1)
               PROVE  trace'[j].type \notin Anchors
    BY DEF FreshTrace
  <1>1. CASE i \in (Len(trace) + 1)..Len(trace')
    BY <1>1
  <1>2. CASE i \in 1..Len(trace)
    <2>1. trace[i].type = "route" /\ trace[i].tree
      BY <1>2
    <2>a. WellDerived(trace)
      BY DEF IInv, TreeRouteDerived
    <2>2. PICK d \in 1..(i - 1) : \E p \in 1..(d - 1) : d = trace[i].ref /\ p = trace[d].ref
      BY <1>2, <2>1, <2>a DEF WellDerived
    <2>3. PICK p \in 1..(d - 1) : d = trace[i].ref /\ p = trace[d].ref
      BY <2>2
    <2>b. d \in 1..Len(trace)
      BY <1>2
    <2>4. trace'[i] = trace[i] /\ trace'[d] = trace[d]
      BY <1>2, <2>b
    <2>5. j \in p..(i - 1)
      BY <2>3, <2>4
    <2>c. j \in 1..Len(trace)
      BY <1>2, <2>5
    <2>6. trace'[j] = trace[j]
      BY <2>c
    <2>7. trace[j].type \notin Anchors
      BY <1>2, <2>1, <2>3, <2>5 DEF FreshTrace
    <2> QED
      BY <2>6, <2>7
  <1> QED
    BY <1>1, <1>2

\* Plain growth keeps a derivation fresh.
LEMMA PlainKeepsFresh ==
  ASSUME PlainGrowth, NEW d, StillFresh(d)
  PROVE  StillFresh(d)'
  <1>1. d \in 1..Len(trace) /\ d \in 1..Len(trace') /\ trace'[d] = trace[d]
    BY DEF PlainGrowth, StillFresh
  <1>2. trace[d].ref \in 1..(d - 1)
    BY DEF StillFresh
  <1>3. ASSUME NEW j \in trace[d].ref..Len(trace')
        PROVE  trace'[j].type \notin Anchors
    <2>1. CASE j \in 1..Len(trace)
      BY <2>1, <1>2 DEF PlainGrowth, StillFresh
    <2>2. CASE j \in (Len(trace) + 1)..Len(trace')
      BY <2>2 DEF PlainGrowth, Landmarks
    <2> QED
      BY <2>1, <2>2, <1>1, <1>2 DEF PlainGrowth
  <1> QED
    BY <1>1, <1>2, <1>3 DEF StillFresh

\* A derivation just recorded is fresh: its snapshot is the event before it.
LEMMA DerivedFresh ==
  ASSUME IInv, NEW to \in Operators \cup {"none"}, Derive(to)
  PROVE  StillFresh(decision.ref)'
  <1>0. TypeOK /\ trace \in Seq(EventRecord) /\ Len(trace) \in Nat
        /\ (to # "none") \in BOOLEAN
    BY DEF IInv, TypeOK
  <1>1. PICK e \in EventRecord :
          trace' = Append(trace, e) /\ e.type = "route_derivation" /\ e.ref = Len(trace)
    BY <1>0, DeriveWrites DEF Derive
  <1>2. trace[Len(trace)].type = "tension_measure" /\ decision'.ref = Len(trace) + 1
    BY DEF Derive, DeriveRoute
  <1>3. Len(trace) \in 1..Len(trace)
    BY TraceNonEmpty
  <1>4. /\ Len(trace') = Len(trace) + 1
        /\ \A i \in 1..Len(trace) : trace'[i] = trace[i]
        /\ trace'[Len(trace) + 1] = e
    BY <1>0, <1>1, AppendFacts
  <1>5. \A j \in Len(trace)..(Len(trace) + 1) : j = Len(trace) \/ j = Len(trace) + 1
    BY <1>0
  <1>6. trace'[Len(trace)].type \notin Anchors /\ trace'[Len(trace) + 1].type \notin Anchors
    BY <1>1, <1>2, <1>3, <1>4 DEF Anchors
  <1> QED
    BY <1>0, <1>1, <1>2, <1>3, <1>4, <1>5, <1>6 DEF StillFresh

\* The runner keeps FreshInv.
LEMMA FreshInvInductive ==
  ASSUME FreshInv, IInv, RefInv, [RunnerNext]_lifeVars
  PROVE  FreshInv'
  <1>0. FreshTrace(trace)
    BY DEF FreshInv
  <1>1. CASE PlainStage
    <2>1. PlainGrowth
      BY <1>1, PlainStageGrowth
    <2>2. FreshTrace(trace')
      BY <1>0, <2>1, GrowthKeepsFresh DEF PlainGrowth, Landmarks, Anchors
    <2>3. CASE \E to \in Operators \cup {"none"} : Derive(to)
      BY <2>2, <2>3, DerivedFresh DEF FreshInv
    <2>4. CASE UNCHANGED decision /\ (pc' \in {"observe", "commit"} => pc \in {"observe", "commit"})
      BY <2>1, <2>2, <2>4, PlainKeepsFresh DEF FreshInv, StillFresh
    <2>5. CASE RouterMode # "tree" \/ pc' \notin {"observe", "commit"}
      BY <2>2, <2>5 DEF FreshInv
    <2>6. CASE UNCHANGED lifeVars \/ RecordShadow
      BY <2>6, <2>4 DEF lifeVars, runnerVars, outcome, RecordShadow
    <2>7. CASE \/ Loud \/ PhysicsLoud \/ OrganWork \/ OrganQuiet \/ EffectFails
               \/ Perish \/ DieFromMortality \/ Survive \/ MeasurePressure
               \/ LegacyUnsupported \/ TickLimit \/ Finish
      BY <2>7, <2>5 DEF Loud, PhysicsLoud, OrganWork, OrganQuiet, EffectFails, Perish,
         DieFromMortality, DieOf, Survive, MeasurePressure, LegacyUnsupported,
         TickLimit, Finish
    <2>8. CASE \/ \E through \in 1..head : Reconcile(through)
               \/ \E cause \in Causes : ManifestLife(cause)
               \/ \E cause \in Causes : NoViable(cause)
      BY <2>8, <2>5 DEF Reconcile, ManifestLife, NoViable, DieOf
    <2>9. CASE RunFlow \/ LegacyRoute
      BY <2>9, <2>5 DEF RunFlow, LegacyRoute
    <2>10. CASE PredictShadow
      <3>1. RouterMode # "tree"
        BY <2>10 DEF PredictShadow, RefInv
      <3> QED
        BY <3>1, <2>5
    <2> QED
      BY <1>1, <2>3, <2>6, <2>7, <2>8, <2>9, <2>10 DEF PlainStage
  <1>2. CASE OpenTick \/ SettleTick \/ SettleFailure
    <2>1. /\ Len(trace) \in Nat /\ Len(trace') = Len(trace) + 1
          /\ \A i \in 1..Len(trace) : trace'[i] = trace[i]
          /\ trace'[Len(trace) + 1].type # "route"
      BY <1>2, LandmarkGrowth DEF GrowsBy
    <2>2. FreshTrace(trace')
      BY <1>0, <2>1, GrowthKeepsFresh
    <2>3. pc' \notin {"observe", "commit"}
      BY <1>2 DEF OpenTick, SettleTick, SettleFailure
    <2> QED
      BY <2>2, <2>3 DEF FreshInv
  <1>3. CASE CommitRoute
    <2>1. GrowsBy("route")
      BY <1>3, LandmarkGrowth
    <2>2. PICK e \in EventRecord :
            /\ trace' = Append(trace, e)
            /\ e.type = "route" /\ e.ref = decision.ref
            /\ e.tree = (RouterMode = "tree")
      BY <1>3, CommitWrites DEF IInv
    <2>3. trace'[Len(trace) + 1] = e
      BY <2>2, AppendFacts DEF IInv, TypeOK
    <2>4. ASSUME trace'[Len(trace) + 1].tree,
                 NEW j \in trace'[trace'[Len(trace) + 1].ref].ref..Len(trace)
          PROVE  trace'[j].type \notin Anchors
      <3>1. StillFresh(decision.ref)
        BY <1>3, <2>2, <2>3, <2>4 DEF FreshInv, CommitRoute
      <3>2. /\ decision.ref \in 1..Len(trace) /\ trace[decision.ref].ref \in 1..(decision.ref - 1)
            /\ trace'[decision.ref] = trace[decision.ref]
        BY <3>1, <2>1 DEF StillFresh, GrowsBy
      <3>3. j \in trace[decision.ref].ref..Len(trace) /\ j \in 1..Len(trace)
        BY <2>2, <2>3, <2>4, <3>2
      <3> QED
        BY <3>1, <3>3, <2>1 DEF StillFresh, GrowsBy
    <2>5. FreshTrace(trace')
      BY <1>0, <2>1, <2>4, GrowthKeepsFresh DEF GrowsBy
    <2>6. pc' \notin {"observe", "commit"}
      BY <1>3 DEF CommitRoute
    <2> QED
      BY <2>5, <2>6 DEF FreshInv
  <1> QED
    BY <1>1, <1>2, <1>3, StageKinds

\* No life ever commits a tree route on a derivation of an earlier visit: from
\* the pressure snapshot to the route there is no tick and no other route.
THEOREM LifeFreshDerivation == LifeSpec => []FreshDerivation
  <1>1. RunnerInit => FreshInv /\ RefInv
    BY DEF RunnerInit, Init, FreshInv, FreshTrace, RefInv, NoDecision, Event
  <1>2. FreshInv /\ IInv /\ RefInv /\ [RunnerNext]_lifeVars => FreshInv' /\ RefInv'
    BY FreshInvInductive, RefInvInductive
  <1>3. FreshInv => FreshDerivation
    BY DEF FreshInv, FreshTrace, FreshDerivation
  <1> QED
    BY <1>1, <1>2, <1>3, LifeImplementsPacket, PacketInvariant, PTL DEF LifeSpec

-----------------------------------------------------------------------------
\* The measurement of routes.

\* The stages in which a committed route awaits its outcome, and those after
\* which nothing is committed any more.
Awaiting == {"arrive", "execute", "applied", "failed"}
Closing == {"perish", "finish", "done", "loud"}

\* The outcomes recorded are of routes on the trace, one each; a route that
\* awaits its outcome is the last one and has none yet; outside the waiting
\* stages no credit is open, and every other route has its outcome or its
\* note; an outcome that is no arrival closes the life.
CreditInv ==
  /\ credit \in Nat
  /\ credits \in SUBSET ((1..Len(trace)) \X {"arrival", "failure", "pending"})
  /\ \A c, d \in credits : c[1] = d[1] => c = d
  /\ credit # 0 /\ pc \in Awaiting =>
       /\ \A c \in credits : c[1] # credit
       /\ \A j \in (credit + 1)..Len(trace) : trace[j].type # "route"
       /\ credit \in 1..Len(trace)
  /\ pc \notin Awaiting \cup Closing => credit = 0
  /\ \A i \in 1..Len(trace) :
       trace[i].type = "route" =>
         \/ \E c \in credits : c[1] = i
         \/ i \in faults
         \/ i = credit /\ pc \in Awaiting \cup {"loud"}
  /\ \A c \in credits :
       c[2] # "arrival" =>
         /\ pc \in Closing
         /\ \A j \in (c[1] + 1)..Len(trace) : trace[j].type # "route"

\* Growth by events that are no route.
StillUnrouted ==
  /\ Len(trace) \in Nat /\ Len(trace') \in Nat /\ Len(trace) <= Len(trace')
  /\ \A i \in 1..Len(trace) : trace'[i] = trace[i]
  /\ \A i \in (Len(trace) + 1)..Len(trace') : trace'[i].type # "route"

LEMMA GrowthUnrouted ==
  /\ PlainGrowth => StillUnrouted
  /\ GrowsBy("operator_tick") => StillUnrouted
  /\ GrowsBy("runtime_frame") => StillUnrouted
  <1>1. PlainGrowth => StillUnrouted
    BY DEF PlainGrowth, StillUnrouted, Landmarks, Anchors
  <1>2. ASSUME NEW type \in {"operator_tick", "runtime_frame"}, GrowsBy(type)
        PROVE  StillUnrouted
    BY <1>2 DEF GrowsBy, StillUnrouted
  <1> QED
    BY <1>1, <1>2

\* What growth without a route keeps: no route follows an index that none
\* followed, and every route on the trace was there.
LEMMA UnroutedFacts ==
  ASSUME StillUnrouted
  PROVE  /\ \A i \in Nat :
              (\A j \in (i + 1)..Len(trace) : trace[j].type # "route") =>
                (\A j \in (i + 1)..Len(trace') : trace'[j].type # "route")
         /\ \A i \in 1..Len(trace') :
              trace'[i].type = "route" => i \in 1..Len(trace) /\ trace[i].type = "route"
         /\ 1..Len(trace) \subseteq 1..Len(trace')
  <1>1. \A i \in 1..Len(trace') : i \in 1..Len(trace) \/ i \in (Len(trace) + 1)..Len(trace')
    BY DEF StillUnrouted
  <1>2. ASSUME NEW i \in Nat, \A j \in (i + 1)..Len(trace) : trace[j].type # "route",
               NEW j \in (i + 1)..Len(trace')
        PROVE  trace'[j].type # "route"
    <2>1. CASE j \in 1..Len(trace)
      BY <1>2, <2>1 DEF StillUnrouted
    <2>2. CASE j \in (Len(trace) + 1)..Len(trace')
      BY <2>2 DEF StillUnrouted
    <2> QED
      BY <1>2, <2>1, <2>2 DEF StillUnrouted
  <1>3. ASSUME NEW i \in 1..Len(trace'), trace'[i].type = "route"
        PROVE  i \in 1..Len(trace) /\ trace[i].type = "route"
    BY <1>1, <1>3 DEF StillUnrouted
  <1>4. 1..Len(trace) \subseteq 1..Len(trace')
    BY DEF StillUnrouted
  <1> QED
    BY <1>2, <1>3, <1>4

\* A stage that measures nothing and keeps to the order of the stages keeps
\* CreditInv.
LEMMA UnmeasuredStep ==
  ASSUME CreditInv, StillUnrouted, UNCHANGED measures,
         pc' \in Awaiting => pc \in Awaiting,
         pc' \notin Awaiting \cup Closing => pc \notin Awaiting \cup Closing,
         pc \in Awaiting => pc' \in Awaiting \cup {"loud"},
         pc = "loud" => pc' = "loud",
         pc \in Closing => pc' \in Closing
  PROVE  CreditInv'
  <1>0. UNCHANGED <<credit, credits, faults>>
    BY DEF measures
  <1>1. credit' \in Nat
        /\ credits' \in SUBSET ((1..Len(trace')) \X {"arrival", "failure", "pending"})
    BY <1>0, UnroutedFacts DEF CreditInv
  <1>2. \A c, d \in credits' : c[1] = d[1] => c = d
    BY <1>0 DEF CreditInv
  <1>3. credit' # 0 /\ pc' \in Awaiting =>
          /\ \A c \in credits' : c[1] # credit'
          /\ \A j \in (credit' + 1)..Len(trace') : trace'[j].type # "route"
          /\ credit' \in 1..Len(trace')
    BY <1>0, UnroutedFacts DEF CreditInv
  <1>4. pc' \notin Awaiting \cup Closing => credit' = 0
    BY <1>0 DEF CreditInv
  <1>5. \A i \in 1..Len(trace') :
          trace'[i].type = "route" =>
            \/ \E c \in credits' : c[1] = i
            \/ i \in faults'
            \/ i = credit' /\ pc' \in Awaiting \cup {"loud"}
    BY <1>0, UnroutedFacts DEF CreditInv
  <1>6. ASSUME NEW c \in credits', c[2] # "arrival"
        PROVE  /\ pc' \in Closing
               /\ \A j \in (c[1] + 1)..Len(trace') : trace'[j].type # "route"
    <2>1. c \in credits /\ c[1] \in 1..Len(trace)
      BY <1>0 DEF CreditInv
    <2> QED
      BY <1>6, <2>1, UnroutedFacts DEF CreditInv
  <1> QED
    BY <1>1, <1>2, <1>3, <1>4, <1>5, <1>6 DEF CreditInv

\* The stage that records the outcome of the awaited route keeps CreditInv.
LEMMA OutcomeStep ==
  ASSUME CreditInv, StillUnrouted, pc \in Awaiting,
         NEW result \in {"arrival", "failure", "pending"}, CreditOutcome(result),
         pc' \notin Awaiting, credit' \in {0, credit},
         credit' = 0 \/ pc' \in Closing,
         result # "arrival" => pc' \in Closing
  PROVE  CreditInv'
  <1>0. /\ faults \subseteq faults'
        /\ credits' \in {credits, credits \cup {<<credit, result>>}}
        /\ credit # 0 => credit \in faults' \/ <<credit, result>> \in credits'
        /\ credit = 0 => credits' = credits
    BY DEF CreditOutcome, Note
  <1>1. credit # 0 =>
          /\ credit \in 1..Len(trace)
          /\ \A c \in credits : c[1] # credit
          /\ \A j \in (credit + 1)..Len(trace') : trace'[j].type # "route"
    BY UnroutedFacts DEF CreditInv
  <1>2. credits' \in SUBSET ((1..Len(trace')) \X {"arrival", "failure", "pending"})
    BY <1>0, <1>1, UnroutedFacts DEF CreditInv
  <1>3. credit' \in Nat
    BY DEF CreditInv
  <1>4. \A c \in credits' : c \in credits \/ (credit # 0 /\ c = <<credit, result>>)
    BY <1>0
  <1>5. \A c, d \in credits' : c[1] = d[1] => c = d
    BY <1>1, <1>4 DEF CreditInv
  <1>6. pc' \notin Awaiting \cup Closing => credit' = 0
    OBVIOUS
  <1>7. ASSUME NEW i \in 1..Len(trace'), trace'[i].type = "route"
        PROVE  (\E c \in credits' : c[1] = i) \/ i \in faults'
    <2>1. i \in 1..Len(trace) /\ trace[i].type = "route"
      BY <1>7, UnroutedFacts
    <2>2. \/ \E c \in credits : c[1] = i
          \/ i \in faults
          \/ i = credit /\ credit # 0
      BY <2>1 DEF CreditInv
    <2>3. CASE i = credit /\ credit # 0
      BY <1>0, <2>3
    <2> QED
      BY <1>0, <2>2, <2>3
  <1>8. ASSUME NEW c \in credits', c[2] # "arrival"
        PROVE  /\ pc' \in Closing
               /\ \A j \in (c[1] + 1)..Len(trace') : trace'[j].type # "route"
    <2>1. CASE c \in credits
      BY <1>8, <2>1 DEF CreditInv, Closing, Awaiting
    <2>2. CASE credit # 0 /\ c = <<credit, result>>
      BY <1>1, <1>8, <2>2
    <2> QED
      BY <1>4, <2>1, <2>2
  <1> QED
    BY <1>2, <1>3, <1>5, <1>6, <1>7, <1>8 DEF CreditInv

\* Committing a route opens its credit or notes that it has none.
LEMMA CommitStep ==
  ASSUME CreditInv, IInv, RefInv, CommitRoute
  PROVE  CreditInv'
  <1> DEFINE n == Len(trace) + 1
  <1>0. /\ Len(trace) \in Nat /\ Len(trace') = n
        /\ \A i \in 1..Len(trace) : trace'[i] = trace[i]
    BY LandmarkGrowth DEF GrowsBy
  <1>1. /\ pc = "commit" /\ pc' = "arrive" /\ credits' = credits
        /\ faults \subseteq faults'
        /\ credit' = n \/ (credit' = 0 /\ n \in faults')
    BY DEF CommitRoute, OpenCredit, Note
  <1>2. credit = 0 /\ \A c \in credits : c[2] = "arrival"
    BY <1>1 DEF CreditInv, Awaiting, Closing
  <1>3. credits \in SUBSET ((1..Len(trace)) \X {"arrival", "failure", "pending"})
    BY DEF CreditInv
  <1>4. credits' \in SUBSET ((1..Len(trace')) \X {"arrival", "failure", "pending"})
    BY <1>0, <1>1, <1>3
  <1>5. credit' # 0 =>
          /\ \A c \in credits' : c[1] # credit'
          /\ \A j \in (credit' + 1)..Len(trace') : trace'[j].type # "route"
          /\ credit' \in 1..Len(trace')
    BY <1>0, <1>1, <1>3
  <1>6. ASSUME NEW i \in 1..Len(trace'), trace'[i].type = "route"
        PROVE  (\E c \in credits' : c[1] = i) \/ i \in faults' \/ i = credit'
    <2>1. CASE i = n
      BY <1>1, <2>1
    <2>2. CASE i \in 1..Len(trace)
      <3>1. (\E c \in credits : c[1] = i) \/ i \in faults
        BY <1>0, <1>2, <1>6, <2>2 DEF CreditInv
      <3> QED
        BY <1>1, <3>1
    <2> QED
      BY <1>0, <2>1, <2>2
  <1>7. credit' \in Nat
    BY <1>0, <1>1
  <1> HIDE DEF n
  <1> QED
    BY <1>1, <1>2, <1>4, <1>5, <1>6, <1>7 DEF CreditInv, Awaiting, Closing

\* The runner keeps CreditInv.
LEMMA CreditInvInductive ==
  ASSUME CreditInv, IInv, RefInv, [RunnerNext]_lifeVars
  PROVE  CreditInv'
  <1>1. CASE PlainStage
    <2>1. StillUnrouted
      BY <1>1, PlainStageGrowth, GrowthUnrouted
    <2>2. CASE PhysicsLoud
      BY <2>1, <2>2, OutcomeStep DEF PhysicsLoud, Awaiting, Closing
    <2>3. CASE TickLimit
      BY <2>1, <2>3, OutcomeStep DEF TickLimit, Awaiting, Closing
    <2>4. CASE UNCHANGED lifeVars
      BY <2>1, <2>4, UnmeasuredStep DEF lifeVars, runnerVars, Awaiting, Closing
    <2>5. CASE \/ Loud \/ RunFlow \/ OrganWork \/ OrganQuiet \/ EffectFails \/ Perish
               \/ DieFromMortality \/ Survive \/ MeasurePressure \/ LegacyRoute
               \/ LegacyUnsupported \/ PredictShadow \/ RecordShadow \/ Finish
      BY <2>1, <2>5, UnmeasuredStep DEF Loud, RunFlow, OrganWork, OrganQuiet,
         EffectFails, Perish, DieFromMortality, DieOf, Survive, MeasurePressure,
         LegacyRoute, LegacyUnsupported, PredictShadow, RecordShadow, Finish,
         Decided, Awaiting, Closing
    <2>6. CASE \/ \E through \in 1..head : Reconcile(through)
               \/ \E cause \in Causes : ManifestLife(cause)
               \/ \E cause \in Causes : NoViable(cause)
               \/ \E to \in Operators \cup {"none"} : Derive(to)
      BY <2>1, <2>6, UnmeasuredStep DEF Reconcile, ManifestLife, NoViable, DieOf,
         Derive, Decided, Awaiting, Closing
    <2> QED
      BY <1>1, <2>2, <2>3, <2>4, <2>5, <2>6 DEF PlainStage
  <1>2. CASE OpenTick
    <2>1. StillUnrouted
      BY <1>2, LandmarkGrowth, GrowthUnrouted
    <2> QED
      BY <1>2, <2>1, UnmeasuredStep DEF OpenTick, Awaiting, Closing
  <1>3. CASE SettleTick \/ SettleFailure
    <2>1. StillUnrouted
      BY <1>3, LandmarkGrowth, GrowthUnrouted
    <2> QED
      BY <1>3, <2>1, OutcomeStep DEF SettleTick, SettleFailure, Awaiting, Closing
  <1>4. CASE CommitRoute
    BY <1>4, CommitStep
  <1> QED
    BY <1>1, <1>2, <1>3, <1>4, StageKinds

\* CreditInv gives RoutesAccounted: one outcome each is a set of at most one.
LEMMA CreditInvAccounts ==
  ASSUME CreditInv
  PROVE  RoutesAccounted
  <1> SUFFICES ASSUME NEW i \in 1..Len(trace), trace[i].type = "route"
               PROVE  LET outcomes == {c \in credits : c[1] = i} IN
                        /\ Cardinality(outcomes) <= 1
                        /\ outcomes # {} \/ i \in faults \/ i = credit
                        /\ pc \in {"finish", "done"} => outcomes # {} \/ i \in faults
                        /\ (\E c \in outcomes : c[2] # "arrival") =>
                             \A j \in (i + 1)..Len(trace) : trace[j].type # "route"
    BY DEF RoutesAccounted
  <1> DEFINE outcomes == {c \in credits : c[1] = i}
  <1>1. Cardinality(outcomes) <= 1
    <2>1. CASE outcomes = {}
      <3>1. Cardinality({}) = 0
        BY FS_EmptySet
      <3> HIDE DEF outcomes
      <3> QED
        BY <2>1, <3>1
    <2>2. CASE outcomes # {}
      <3>1. PICK c \in outcomes : TRUE
        BY <2>2
      <3>2. outcomes = {c}
        BY <3>1 DEF CreditInv
      <3>3. Cardinality({c}) = 1
        BY FS_Singleton
      <3> QED
        BY <3>2, <3>3
    <2> QED
      BY <2>1, <2>2
  <1>2. outcomes # {} \/ i \in faults \/ (i = credit /\ pc \in Awaiting \cup {"loud"})
    <2>1. \/ \E c \in credits : c[1] = i
          \/ i \in faults
          \/ i = credit /\ pc \in Awaiting \cup {"loud"}
      BY DEF CreditInv
    <2> QED
      BY <2>1
  <1>3. (\E c \in outcomes : c[2] # "arrival") =>
          \A j \in (i + 1)..Len(trace) : trace[j].type # "route"
    BY DEF CreditInv
  <1> QED
    BY <1>1, <1>2, <1>3 DEF Awaiting

\* Every route of every life is measured exactly once or its failed
\* measurement is noted, whatever the recorders refuse, and none is left open
\* when run() ends.
THEOREM LifeRoutesAccounted == LifeSpec => []RoutesAccounted
  <1>1. RunnerInit => CreditInv /\ RefInv
    BY DEF RunnerInit, Init, CreditInv, RefInv, NoDecision, Event, Awaiting, Closing
  <1>2. CreditInv /\ IInv /\ RefInv /\ [RunnerNext]_lifeVars => CreditInv' /\ RefInv'
    BY CreditInvInductive, RefInvInductive
  <1>3. CreditInv => RoutesAccounted
    BY CreditInvAccounts
  <1> QED
    BY <1>1, <1>2, <1>3, LifeImplementsPacket, PacketInvariant, PTL DEF LifeSpec

-----------------------------------------------------------------------------
\* The film.

Frames(tr, i, j) == Cardinality({k \in i..j : tr[k].type = "runtime_frame"})

\* The ticks of the visit that no route has left yet.
OpenVisit(i) ==
  /\ i \in 1..Len(trace) /\ trace[i].type = "operator_tick"
  /\ \A k \in (i + 1)..Len(trace) : trace[k].type # "route"

\* The stages before and after the frame of a tick.
Unfilmed == {"execute", "applied", "failed"}
Filmed == {"perish", "judge", "route", "derive", "predict", "observe", "noviable",
           "commit"}

\* The film is complete, and the open visit has no frame before its tick is
\* settled and exactly one after; between visits none is open.
FilmInv ==
  /\ head \in Nat /\ clock \in Nat
  /\ head = Frames(trace, 1, Len(trace))
  /\ pc # "loud" => head = clock
  /\ \A i, j \in 1..Len(trace) :
       /\ trace[i].type = "operator_tick" /\ trace[j].type = "route" /\ i < j
       /\ \A k \in (i + 1)..(j - 1) : trace[k].type # "route"
       => Frames(trace, i, j) = 1
  /\ pc \in {"flow", "arrive"} => \A i \in 1..Len(trace) : ~OpenVisit(i)
  /\ pc \in Unfilmed => \A i \in 1..Len(trace) : OpenVisit(i) => Frames(trace, i, Len(trace)) = 0
  /\ pc \in Filmed => \A i \in 1..Len(trace) : OpenVisit(i) => Frames(trace, i, Len(trace)) = 1

\* Growth by events that are no frame.
StillUnfilmed ==
  /\ Len(trace) \in Nat /\ Len(trace') \in Nat /\ Len(trace) <= Len(trace')
  /\ \A i \in 1..Len(trace) : trace'[i] = trace[i]
  /\ \A i \in (Len(trace) + 1)..Len(trace') : trace'[i].type # "runtime_frame"

LEMMA GrowthUnfilmed ==
  /\ PlainGrowth => StillUnfilmed
  /\ GrowsBy("operator_tick") => StillUnfilmed
  /\ GrowsBy("route") => StillUnfilmed
  <1>1. PlainGrowth => StillUnfilmed
    BY DEF PlainGrowth, StillUnfilmed, Landmarks
  <1>2. ASSUME NEW type \in {"operator_tick", "route"}, GrowsBy(type)
        PROVE  StillUnfilmed
    BY <1>2 DEF GrowsBy, StillUnfilmed
  <1> QED
    BY <1>1, <1>2

\* The frames between two old indices stay, and those up to the end of the
\* trace too when no frame is added.
LEMMA FramesKept ==
  ASSUME StillUnfilmed
  PROVE  /\ \A i, j \in 1..Len(trace) : Frames(trace', i, j) = Frames(trace, i, j)
         /\ \A i \in 1..Len(trace) :
              Frames(trace', i, Len(trace')) = Frames(trace, i, Len(trace))
  <1>1. ASSUME NEW i \in 1..Len(trace), NEW j \in 1..Len(trace)
        PROVE  Frames(trace', i, j) = Frames(trace, i, j)
    <2>1. \A k \in i..j : trace'[k] = trace[k]
      BY DEF StillUnfilmed
    <2>2. {k \in i..j : trace'[k].type = "runtime_frame"}
          = {k \in i..j : trace[k].type = "runtime_frame"}
      BY <2>1
    <2> QED
      BY <2>2 DEF Frames
  <1>2. ASSUME NEW i \in 1..Len(trace)
        PROVE  Frames(trace', i, Len(trace')) = Frames(trace, i, Len(trace))
    <2>1. \A k \in i..Len(trace') :
            \/ k \in i..Len(trace) /\ trace'[k] = trace[k]
            \/ k \notin i..Len(trace) /\ trace'[k].type # "runtime_frame"
      BY DEF StillUnfilmed
    <2>2. i..Len(trace) \subseteq i..Len(trace')
      BY DEF StillUnfilmed
    <2>3. {k \in i..Len(trace') : trace'[k].type = "runtime_frame"}
          = {k \in i..Len(trace) : trace[k].type = "runtime_frame"}
      BY <2>1, <2>2
    <2> QED
      BY <2>3 DEF Frames
  <1> QED
    BY <1>1, <1>2

\* A new frame adds one to every count that reaches the end of the trace.
LEMMA FrameAdded ==
  ASSUME GrowsBy("runtime_frame")
  PROVE  /\ \A i, j \in 1..Len(trace) : Frames(trace', i, j) = Frames(trace, i, j)
         /\ \A i \in 1..Len(trace) :
              Frames(trace', i, Len(trace')) = Frames(trace, i, Len(trace)) + 1
  <1>1. ASSUME NEW i \in 1..Len(trace), NEW j \in 1..Len(trace)
        PROVE  Frames(trace', i, j) = Frames(trace, i, j)
    <2>1. \A k \in i..j : trace'[k] = trace[k]
      BY DEF GrowsBy
    <2>2. {k \in i..j : trace'[k].type = "runtime_frame"}
          = {k \in i..j : trace[k].type = "runtime_frame"}
      BY <2>1
    <2> QED
      BY <2>2 DEF Frames
  <1>2. ASSUME NEW i \in 1..Len(trace)
        PROVE  Frames(trace', i, Len(trace')) = Frames(trace, i, Len(trace)) + 1
    <2> DEFINE S == {k \in i..Len(trace) : trace[k].type = "runtime_frame"}
               T == {k \in i..Len(trace') : trace'[k].type = "runtime_frame"}
    <2>1. \A k \in i..Len(trace') :
            \/ k \in i..Len(trace) /\ trace'[k] = trace[k]
            \/ k = Len(trace) + 1
      BY DEF GrowsBy
    <2>2. i..Len(trace) \subseteq i..Len(trace') /\ Len(trace) + 1 \in i..Len(trace')
      BY DEF GrowsBy
    <2>3. T = S \cup {Len(trace) + 1}
      BY <2>1, <2>2 DEF GrowsBy
    <2>4. Len(trace) + 1 \notin S
      BY DEF GrowsBy
    <2>5. IsFiniteSet(S)
      <3>1. IsFiniteSet(i..Len(trace))
        BY FS_Interval DEF GrowsBy
      <3> QED
        BY <3>1, FS_Subset
    <2> HIDE DEF S, T
    <2>6. Cardinality(T) = Cardinality(S) + 1
      BY <2>3, <2>4, <2>5, FS_AddElement
    <2> QED
      BY <2>6 DEF Frames, S, T
  <1> QED
    BY <1>1, <1>2

\* Growth without a route leaves the visits of the old ticks open or left as
\* they were.
LEMMA OpenVisitKept ==
  ASSUME StillUnrouted, NEW i \in 1..Len(trace)
  PROVE  OpenVisit(i)' => OpenVisit(i)
  BY DEF StillUnrouted, OpenVisit

\* The visits that were left keep their frames when no route is added.
LEMMA LeftVisitsKept ==
  ASSUME FilmInv, StillUnrouted,
         \A i, j \in 1..Len(trace) : Frames(trace', i, j) = Frames(trace, i, j),
         NEW i \in 1..Len(trace'), NEW j \in 1..Len(trace'),
         trace'[i].type = "operator_tick", trace'[j].type = "route", i < j,
         \A k \in (i + 1)..(j - 1) : trace'[k].type # "route"
  PROVE  Frames(trace', i, j) = 1
  <1>1. j \in 1..Len(trace) /\ trace[j].type = "route"
    BY UnroutedFacts
  <1>2. i \in 1..Len(trace) /\ trace[i].type = "operator_tick"
    BY <1>1 DEF StillUnrouted
  <1>3. \A k \in (i + 1)..(j - 1) : trace[k].type # "route"
    BY <1>1, <1>2 DEF StillUnrouted
  <1> QED
    BY <1>1, <1>2, <1>3 DEF FilmInv

\* A stage that films nothing and opens no visit keeps FilmInv.
LEMMA UnfilmedStep ==
  ASSUME FilmInv, IInv, PlainGrowth, head' = head, clock' \in Nat,
         pc' # "loud" => clock' = clock /\ pc # "loud",
         pc' \in {"flow", "arrive"} => pc \in {"flow", "arrive"},
         pc' \in Unfilmed => pc \in Unfilmed,
         pc' \in Filmed => pc \in Filmed \cup {"flow"}
  PROVE  FilmInv'
  <1>0. StillUnrouted /\ StillUnfilmed /\ 1 \in 1..Len(trace)
    BY GrowthUnrouted, GrowthUnfilmed, TraceNonEmpty DEF PlainGrowth
  <1>1. head' = Frames(trace', 1, Len(trace'))
    BY <1>0, FramesKept DEF FilmInv
  <1>2. ASSUME NEW i \in 1..Len(trace'), OpenVisit(i)'
        PROVE  /\ i \in 1..Len(trace) /\ OpenVisit(i)
               /\ Frames(trace', i, Len(trace')) = Frames(trace, i, Len(trace))
    <2>1. i \in 1..Len(trace)
      BY <1>2 DEF PlainGrowth, OpenVisit, Landmarks, Anchors
    <2> QED
      BY <1>0, <1>2, <2>1, OpenVisitKept, FramesKept
  <1>3. ASSUME NEW i \in 1..Len(trace'), NEW j \in 1..Len(trace'),
               trace'[i].type = "operator_tick", trace'[j].type = "route", i < j,
               \A k \in (i + 1)..(j - 1) : trace'[k].type # "route"
        PROVE  Frames(trace', i, j) = 1
    BY <1>0, <1>3, FramesKept, LeftVisitsKept
  <1>4. /\ pc' \in {"flow", "arrive"} => \A i \in 1..Len(trace') : ~OpenVisit(i)'
        /\ pc' \in Unfilmed =>
             \A i \in 1..Len(trace') : OpenVisit(i)' => Frames(trace', i, Len(trace')) = 0
        /\ pc' \in Filmed =>
             \A i \in 1..Len(trace') : OpenVisit(i)' => Frames(trace', i, Len(trace')) = 1
    BY <1>2 DEF FilmInv
  <1> QED
    BY <1>1, <1>3, <1>4 DEF FilmInv

\* Opening a visit keeps FilmInv: no other is open, and it has no frame yet.
LEMMA OpenTickFilm ==
  ASSUME FilmInv, IInv, RefInv, OpenTick
  PROVE  FilmInv'
  <1>0. GrowsBy("operator_tick") /\ 1 \in 1..Len(trace) /\ Len(trace) \in Nat
    BY LandmarkGrowth, TraceNonEmpty DEF GrowsBy
  <1>1. StillUnrouted /\ StillUnfilmed
    BY <1>0, GrowthUnrouted, GrowthUnfilmed
  <1>2. pc = "arrive" /\ pc' = "execute" /\ UNCHANGED <<head, clock>>
    BY DEF OpenTick, film, economy
  <1>3. head' = Frames(trace', 1, Len(trace'))
    BY <1>0, <1>1, <1>2, FramesKept DEF FilmInv
  <1>4. ASSUME NEW i \in 1..Len(trace'), OpenVisit(i)'
        PROVE  Frames(trace', i, Len(trace')) = 0
    <2>1. i = Len(trace) + 1
      BY <1>0, <1>1, <1>2, <1>4, OpenVisitKept DEF FilmInv, GrowsBy
    <2>2. \A k \in i..Len(trace') : trace'[k].type = "operator_tick"
      BY <1>0, <2>1 DEF GrowsBy
    <2>3. {k \in i..Len(trace') : trace'[k].type = "runtime_frame"} = {}
      BY <2>2
    <2>4. Cardinality({}) = 0
      BY FS_EmptySet
    <2> QED
      BY <2>3, <2>4 DEF Frames
  <1>5. ASSUME NEW i \in 1..Len(trace'), NEW j \in 1..Len(trace'),
               trace'[i].type = "operator_tick", trace'[j].type = "route", i < j,
               \A k \in (i + 1)..(j - 1) : trace'[k].type # "route"
        PROVE  Frames(trace', i, j) = 1
    BY <1>1, <1>5, FramesKept, LeftVisitsKept
  <1> QED
    BY <1>2, <1>3, <1>4, <1>5 DEF FilmInv, Unfilmed, Filmed

\* Settling a tick with a frame keeps FilmInv.
LEMMA FilmedStep ==
  ASSUME FilmInv, IInv, GrowsBy("runtime_frame"), pc \in Unfilmed, pc' \in Filmed,
         head' = head + 1, clock' = clock + 1
  PROVE  FilmInv'
  <1>0. 1 \in 1..Len(trace) /\ Len(trace) \in Nat /\ StillUnrouted
    BY GrowthUnrouted, TraceNonEmpty DEF GrowsBy
  <1>1. head' = Frames(trace', 1, Len(trace'))
    BY <1>0, FrameAdded DEF FilmInv
  <1>2. ASSUME NEW i \in 1..Len(trace'), OpenVisit(i)'
        PROVE  Frames(trace', i, Len(trace')) = 1
    <2>1. i \in 1..Len(trace)
      BY <1>2 DEF GrowsBy, OpenVisit
    <2>2. Frames(trace, i, Len(trace)) = 0
      BY <1>0, <1>2, <2>1, OpenVisitKept DEF FilmInv
    <2> QED
      BY <2>1, <2>2, FrameAdded
  <1>3. ASSUME NEW i \in 1..Len(trace'), NEW j \in 1..Len(trace'),
               trace'[i].type = "operator_tick", trace'[j].type = "route", i < j,
               \A k \in (i + 1)..(j - 1) : trace'[k].type # "route"
        PROVE  Frames(trace', i, j) = 1
    BY <1>0, <1>3, FrameAdded, LeftVisitsKept
  <1>4. head' \in Nat /\ clock' \in Nat /\ head' = clock'
    BY DEF FilmInv, Unfilmed
  <1> QED
    BY <1>1, <1>2, <1>3, <1>4 DEF FilmInv, Unfilmed, Filmed

\* Leaving a visit keeps FilmInv: its one frame was taken.
LEMMA CommitFilm ==
  ASSUME FilmInv, IInv, RefInv, CommitRoute
  PROVE  FilmInv'
  <1>0. GrowsBy("route") /\ 1 \in 1..Len(trace) /\ Len(trace) \in Nat
    BY LandmarkGrowth, TraceNonEmpty DEF GrowsBy
  <1>1. StillUnfilmed
    BY <1>0, GrowthUnfilmed
  <1>2. pc = "commit" /\ pc' = "arrive" /\ UNCHANGED <<head, clock>>
    BY DEF CommitRoute, film, economy
  <1>3. head' = Frames(trace', 1, Len(trace'))
    BY <1>0, <1>1, <1>2, FramesKept DEF FilmInv
  <1>4. \A i \in 1..Len(trace') : ~OpenVisit(i)'
    BY <1>0 DEF GrowsBy, OpenVisit
  <1>5. ASSUME NEW i \in 1..Len(trace'), NEW j \in 1..Len(trace'),
               trace'[i].type = "operator_tick", trace'[j].type = "route", i < j,
               \A k \in (i + 1)..(j - 1) : trace'[k].type # "route"
        PROVE  Frames(trace', i, j) = 1
    <2>1. i \in 1..Len(trace) /\ trace[i].type = "operator_tick"
      BY <1>0, <1>5 DEF GrowsBy
    <2>2. CASE j = Len(trace')
      <3>1. OpenVisit(i)
        BY <1>0, <1>5, <2>1, <2>2 DEF OpenVisit, GrowsBy
      <3>2. Frames(trace, i, Len(trace)) = 1
        BY <1>2, <2>1, <3>1 DEF FilmInv, Filmed
      <3> QED
        BY <1>1, <2>1, <2>2, <3>2, FramesKept
    <2>3. CASE j \in 1..Len(trace)
      <3>1. trace[j].type = "route" /\ \A k \in (i + 1)..(j - 1) : trace[k].type # "route"
        BY <1>0, <1>5, <2>1, <2>3 DEF GrowsBy
      <3>2. Frames(trace, i, j) = 1
        BY <1>5, <2>1, <2>3, <3>1 DEF FilmInv
      <3> QED
        BY <1>1, <2>1, <2>3, <3>2, FramesKept
    <2> QED
      BY <1>0, <2>2, <2>3 DEF GrowsBy
  <1> QED
    BY <1>2, <1>3, <1>4, <1>5 DEF FilmInv, Unfilmed, Filmed

\* The runner keeps FilmInv.
LEMMA FilmInvInductive ==
  ASSUME FilmInv, IInv, RefInv, [RunnerNext]_lifeVars
  PROVE  FilmInv'
  <1>0. clock \in Nat
    BY DEF FilmInv
  <1>1. CASE PlainStage
    <2>1. PlainGrowth
      BY <1>1, PlainStageGrowth
    <2>2. CASE PhysicsLoud
      BY <1>0, <2>1, <2>2, UnfilmedStep DEF PhysicsLoud, ChargeTick, film, Unfilmed, Filmed
    <2>3. CASE UNCHANGED lifeVars
      BY <1>0, <2>1, <2>3, UnfilmedStep DEF lifeVars, runnerVars, film, economy,
         Unfilmed, Filmed
    <2>4. CASE \/ Loud \/ RunFlow \/ OrganWork \/ OrganQuiet \/ EffectFails \/ Perish
               \/ DieFromMortality \/ Survive \/ MeasurePressure \/ LegacyRoute
               \/ LegacyUnsupported \/ PredictShadow \/ RecordShadow \/ TickLimit
               \/ Finish
      BY <1>0, <2>1, <2>4, UnfilmedStep DEF Loud, RunFlow, OrganWork, OrganQuiet,
         EffectFails, Perish, DieFromMortality, DieOf, Survive, MeasurePressure,
         LegacyRoute, LegacyUnsupported, PredictShadow, RecordShadow, TickLimit, Finish,
         Decided, film, economy, Unfilmed, Filmed
    <2>5. CASE \/ \E through \in 1..head : Reconcile(through)
               \/ \E cause \in Causes : ManifestLife(cause)
               \/ \E cause \in Causes : NoViable(cause)
               \/ \E to \in Operators \cup {"none"} : Derive(to)
      BY <1>0, <2>1, <2>5, UnfilmedStep DEF Reconcile, ManifestLife, NoViable, DieOf,
         Derive, Decided, film, economy, Unfilmed, Filmed
    <2> QED
      BY <1>1, <2>2, <2>3, <2>4, <2>5 DEF PlainStage
  <1>2. CASE OpenTick
    BY <1>2, OpenTickFilm
  <1>3. CASE SettleTick \/ SettleFailure
    <2>1. GrowsBy("runtime_frame") /\ head' = head + 1
      BY <1>3, LandmarkGrowth DEF Capture
    <2> QED
      BY <1>3, <2>1, FilmedStep DEF SettleTick, SettleFailure, ChargeTick, Unfilmed, Filmed
  <1>4. CASE CommitRoute
    BY <1>4, CommitFilm
  <1> QED
    BY <1>1, <1>2, <1>3, <1>4, StageKinds

\* The film of every life is complete: one frame per settled tick, and exactly
\* one for each visit that was left again.
THEOREM LifeFilmComplete == LifeSpec => []FilmComplete
  <1>1. RunnerInit => FilmInv /\ RefInv
    <2> SUFFICES ASSUME RunnerInit
                 PROVE  FilmInv /\ RefInv
      OBVIOUS
    <2>1. /\ Len(trace) = 1 /\ trace[1].type = "birth"
          /\ pc = "flow" /\ head = 0 /\ clock = 0
      BY DEF RunnerInit, Init, Event
    <2>2. {k \in 1..Len(trace) : trace[k].type = "runtime_frame"} = {}
      BY <2>1
    <2>3. Frames(trace, 1, Len(trace)) = 0
      BY <2>2, FS_EmptySet DEF Frames
    <2>4. RefInv
      BY DEF RunnerInit, RefInv, NoDecision
    <2> QED
      BY <2>1, <2>3, <2>4 DEF FilmInv, OpenVisit, Unfilmed, Filmed
  <1>2. FilmInv /\ IInv /\ RefInv /\ [RunnerNext]_lifeVars => FilmInv' /\ RefInv'
    BY FilmInvInductive, RefInvInductive
  <1>3. FilmInv => FilmComplete
    BY DEF FilmInv, FilmComplete, Frames
  <1> QED
    BY <1>1, <1>2, <1>3, LifeImplementsPacket, PacketInvariant, PTL DEF LifeSpec

=============================================================================
