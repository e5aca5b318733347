--------------------------- MODULE TensionRunner ---------------------------
(***************************************************************************)
(* runtime/tension_runner.lua: one Packet life from birth to its stop      *)
(* reason, with the mortal economics (runtime/budget.lua,                  *)
(* runtime/loss.lua), the camera (runtime/camera.lua), the route           *)
(* derivation of runtime/router.lua and the edge-credit record of every    *)
(* committed route.                                                        *)
(*                                                                         *)
(* The runner is sequential: pc is the stage run() is in.  Each stage      *)
(* makes one call of a Packet writer, so a life is a behaviour of Packet.  *)
(* The choices left open are what the organs, the substrate and the        *)
(* pressure policy return.  A stage that returns nil (a loud failure)      *)
(* leaves the Packet as it is and ends the call with pc = "loud".          *)
(***************************************************************************)
EXTENDS Packet, Integers

CONSTANTS
  Axes,         \* budget axes, "steps" among them
  Limit,        \* limits of the limited axes
  Costs,        \* costs of a substrate call or a repository effect
  LossMax,      \* tension.loss_max, in loss units
  LossAmounts,  \* losses one ENCODE or CHOOSE may report
  MaxTicks,     \* options.max_ticks
  RouterMode,   \* "tree", "shadow" or "legacy"
  LegacyShadow, \* options.legacy_shadow ~= false
  MaxFaults,    \* bound on the instrument errors noted in one life
  QaIds,        \* QA evidence ids LOGIC may return
  QaCost        \* what each of them cost

\* Event types the runner itself records through the generic writer.
RunnerTypes == {"operator_failure", "runtime_frame", "runtime_reconciliation"}

\* The causes the runner itself may give to a death.
RunnerCauses ==
  {"budget_exhausted", "identity_loss", "effect_failure", "stalled", "unsafe_scope"}

ASSUME RunnerAssumption ==
  /\ RunnerCauses \subseteq Causes
  /\ RunnerTypes \subseteq OrganTypes
  /\ "steps" \in Axes
  /\ DOMAIN Limit \subseteq Axes
  /\ Limit \in [DOMAIN Limit -> Nat]
  /\ Costs \subseteq [Axes -> Nat]
  /\ QaCost \in [QaIds -> [Axes -> Nat]]
  /\ LossMax \in Nat /\ LossAmounts \subseteq Nat
  /\ MaxTicks \in Nat /\ MaxFaults \in Nat
  /\ RouterMode \in {"tree", "shadow", "legacy"} /\ LegacyShadow \in BOOLEAN

VARIABLES
  pc,          \* the stage of run()
  clock,       \* physis.clock.ticks
  spent,       \* runtime.budget.spent
  remaining,   \* runtime.budget.remaining
  loss,        \* tension.loss
  head,        \* runtime.camera.head_seq
  reconciled,  \* runtime.camera.reconciled_through
  arrival,     \* trace index of the route whose arrival is pending, or 0
  credit,      \* the credit commit of that route, or 0
  credits,     \* edge-credit outcomes recorded, <<route, outcome>>
  faults,      \* routes whose measurement failed and was noted
  qaPaid,      \* QA evidence ids with a qa_execution charge
  charged,     \* trace indices of the ticks with a body_tick charge
  decision,    \* what the router returned: a target and its derivation
  stop         \* result.stop_reason

economy == <<clock, spent, remaining, loss, qaPaid, charged>>
film == <<head, reconciled>>
measures == <<arrival, credit, credits, faults>>
outcome == <<decision, stop>>
runnerVars == <<pc, economy, film, measures, outcome>>
lifeVars == <<vars, runnerVars>>

NoDecision == [to |-> "none", ref |-> 0]

-----------------------------------------------------------------------------
\* budget.lua, loss.lua

OneStep == [a \in Axes |-> IF a = "steps" THEN 1 ELSE 0]
NoCost == [a \in Axes |-> 0]
AllCosts == Costs \cup {NoCost} \cup {QaCost[id] : id \in QaIds}
Plus(c, d) == [a \in Axes |-> c[a] + d[a]]

\* Mutation: the charge of an axis that would go below zero is dropped.
ChargeWithinLimit(cost) ==
  /\ spent' = Plus(spent, cost)
  /\ remaining' = [a \in DOMAIN Limit |->
                     IF remaining[a] >= cost[a] THEN remaining[a] - cost[a]
                     ELSE remaining[a]]

\* budget.charge adds to spent and subtracts from remaining on every axis of
\* the cost; nothing keeps a charge within the limit.
Charge(cost) ==
  /\ spent' = Plus(spent, cost)
  /\ remaining' = [a \in DOMAIN Limit |-> remaining[a] - cost[a]]

BudgetExhausted == \E a \in DOMAIN Limit : remaining[a] <= 0

\* loss.apply clamps one amount to loss_max; the total may exceed it.
ApplyLoss(amount) == loss' = loss + (IF amount > LossMax THEN LossMax ELSE amount)

LossExhausted == LossMax - loss <= 0

\* Mutation: the budget is read first.
MortalityBudgetFirst ==
  IF BudgetExhausted THEN "budget_exhausted"
  ELSE IF LossExhausted THEN "identity_loss" ELSE "none"

\* die_from_mortality: the cause the runner sees now, identity loss first.
Mortality ==
  IF LossExhausted THEN "identity_loss"
  ELSE IF BudgetExhausted THEN "budget_exhausted" ELSE "none"

\* The tick the Packet is in or has left last.
Tick ==
  CHOOSE i \in 1..Len(trace) :
    /\ trace[i].type = "operator_tick"
    /\ \A j \in (i + 1)..Len(trace) : trace[j].type # "operator_tick"

\* The charge of one tick: the clock, one step, and what else it cost.
ChargeTick(cost) ==
  /\ clock' = clock + 1
  /\ Charge(Plus(OneStep, cost))
  /\ charged' = charged \cup {Tick}

-----------------------------------------------------------------------------
RunnerInit ==
  /\ Init
  /\ pc = "flow"
  /\ clock = 0
  /\ spent = NoCost
  /\ remaining = Limit
  /\ loss = 0
  /\ head = 0 /\ reconciled = 0
  /\ arrival = 0 /\ credit = 0 /\ credits = {} /\ faults = {}
  /\ qaPaid = {}
  /\ charged = {}
  /\ decision = NoDecision
  /\ stop = "none"

\* A stage that returns nil leaves the Packet as it is.  Only the deaths,
\* the judgement and the shadow observer of a legacy route cannot fail.
Loud ==
  /\ pc \in {"flow", "arrive", "execute", "applied", "failed", "judge", "route",
             "derive", "observe", "noviable", "commit", "finish"}
  /\ pc = "observe" => RouterMode = "tree"
  /\ pc = "judge" => operator = "MANIFEST"
  /\ pc' = "loud"
  /\ UNCHANGED <<vars, economy, film, measures, outcome>>

\* The FLOW organ runs under the birth lease, outside any tick: no clock, no
\* charge, no frame.  The entry is derived in tree mode, else it is the
\* start_operator option.
RunFlow ==
  /\ pc = "flow"
  /\ AppendChaos
  /\ IF RouterMode = "tree"
       THEN pc' = "route" /\ UNCHANGED decision
       ELSE /\ \E to \in Successors("FLOW") : decision' = [to |-> to, ref |-> 0]
            /\ pc' = "commit"
  /\ UNCHANGED <<economy, film, measures, stop>>

\* Loop head: begin_tick for the current operator.
OpenTick ==
  /\ pc = "arrive"
  /\ clock < MaxTicks
  /\ BeginTick
  /\ pc' = "execute"
  /\ UNCHANGED <<economy, film, measures, outcome>>

\* The organ records one event.
OrganWork ==
  /\ pc = "execute"
  /\ \E type \in OrganTypes \ RunnerTypes : AppendActorEvent(type)
  /\ pc' = "applied"
  /\ UNCHANGED <<evidence, economy, film, measures, outcome>>

\* RUNTIME reconciles the frames up to a watermark it chose
\* (camera.reconcile); with no pending frame nothing is recorded.
Reconcile(through) ==
  /\ pc = "execute"
  /\ operator = "RUNTIME"
  /\ through \in reconciled..head
  /\ reconciled < through
  /\ AppendActorEvent("runtime_reconciliation")
  /\ reconciled' = through
  /\ pc' = "applied"
  /\ UNCHANGED <<evidence, head, economy, measures, outcome>>

\* The organ applied its effect without recording an event.
OrganQuiet ==
  /\ pc = "execute"
  /\ pc' = "applied"
  /\ UNCHANGED <<vars, economy, film, measures, outcome>>

\* The external effect failed: operator_failure is recorded.
EffectFails ==
  /\ pc = "execute"
  /\ AppendActorEvent("operator_failure")
  /\ pc' = "failed"
  /\ UNCHANGED <<evidence, economy, film, measures, outcome>>

\* note_instrument_error: the failed measurement of a route is noted.
Note(route) ==
  /\ Cardinality(faults) < MaxFaults
  /\ faults' = faults \cup {route}

\* Mutation: the outcome is recorded under the arrived visit, not the route.
CreditOutcomeOfVisit(result) ==
  /\ credits' = credits \cup {<<Len(trace), result>>}
  /\ UNCHANGED faults

\* The outcome of a pending route: the credit recorder takes it and the
\* statistics recorder takes or refuses it, or the credit recorder refuses.
CreditOutcome(result) ==
  \/ /\ credit # 0
     /\ credits' = credits \cup {<<credit, result>>}
     /\ Note(credit) \/ UNCHANGED faults
  \/ /\ credit # 0
     /\ Note(credit)
     /\ UNCHANGED credits
  \/ /\ credit = 0
     /\ UNCHANGED <<credits, faults>>

\* camera.capture: the next frame of the film.
Capture ==
  /\ AppendActorEvent("runtime_frame")
  /\ head' = head + 1
  /\ UNCHANGED <<evidence, reconciled>>

\* Mutation: a replayed QA execution is charged again.
PayQaAgain(cost) ==
  \E id \in QaIds : cost = QaCost[id] /\ qaPaid' = qaPaid \cup {id}

\* A QA execution is charged once per evidence id.
PayQa(cost) ==
  \E id \in QaIds :
    /\ cost = (IF id \in qaPaid THEN NoCost ELSE QaCost[id])
    /\ qaPaid' = qaPaid \cup {id}

\* What apply_operator_physics may charge or lose at an operator: OBSERVE
\* pays its substrate call, ENCODE and CHOOSE lose identity, LOGIC pays a
\* repository effect or a QA execution.
Physics(cost) ==
  \/ /\ operator = "OBSERVE"
     /\ cost \in Costs
     /\ UNCHANGED <<loss, qaPaid>>
  \/ /\ operator \in {"ENCODE", "CHOOSE"}
     /\ cost = NoCost
     /\ \E amount \in LossAmounts : ApplyLoss(amount)
     /\ UNCHANGED qaPaid
  \/ /\ operator = "LOGIC"
     /\ cost \in Costs
     /\ UNCHANGED <<loss, qaPaid>>
  \/ /\ operator = "LOGIC"
     /\ PayQa(cost)
     /\ UNCHANGED loss
  \/ /\ cost = NoCost
     /\ UNCHANGED <<loss, qaPaid>>

\* Mutation: the frame is filmed before the tick is charged and lost when
\* the tick exhausts the Packet.
SettleTickUnfilmed ==
  /\ pc = "applied"
  /\ CreditOutcome("arrival")
  /\ arrival' = 0 /\ credit' = 0
  /\ \E cost \in AllCosts : Physics(cost) /\ ChargeTick(cost)
  /\ IF \E a \in DOMAIN Limit : remaining'[a] <= 0
       THEN UNCHANGED <<vars, film>> ELSE Capture
  /\ pc' = "judge"
  /\ UNCHANGED outcome

\* An applied tick: arrival evidence, clock, step charge, operator physics,
\* frame.
SettleTick ==
  /\ pc = "applied"
  /\ CreditOutcome("arrival")
  /\ arrival' = 0 /\ credit' = 0
  /\ \E cost \in AllCosts : Physics(cost) /\ ChargeTick(cost)
  /\ Capture
  /\ pc' = "judge"
  /\ UNCHANGED outcome

\* Operator physics rejects its input: the tick is charged, and with it an
\* OBSERVE call whose reported usage is invalid; nothing is filmed.
PhysicsLoud ==
  /\ pc = "applied"
  /\ CreditOutcome("arrival")
  /\ arrival' = 0 /\ credit' = 0
  /\ \E cost \in IF operator = "OBSERVE" THEN Costs \cup {NoCost} ELSE {NoCost} :
       ChargeTick(cost)
  /\ pc' = "loud"
  /\ UNCHANGED <<vars, loss, qaPaid, film, outcome>>

\* A failed tick: failure evidence, clock, step charge, the failure's own
\* cost, frame.  The pending arrival is not cleared.
SettleFailure ==
  /\ pc = "failed"
  /\ CreditOutcome("failure")
  /\ \E cost \in AllCosts : ChargeTick(cost)
  /\ Capture
  /\ pc' = "perish"
  /\ UNCHANGED <<loss, qaPaid, arrival, credit, outcome>>

\* Mutation: a death does not leave the tick loop; the dead Packet is to
\* die again.
DieOfAndGoOn(cause) ==
  /\ Die(cause)
  /\ stop' = cause
  /\ pc' = "perish"
  /\ UNCHANGED <<economy, film, measures, decision>>

\* packet.die and the stop reason of the same name.
DieOf(cause) ==
  /\ Die(cause)
  /\ stop' = cause
  /\ pc' = "finish"
  /\ UNCHANGED <<economy, film, measures, decision>>

Perish == pc = "perish" /\ DieOf("effect_failure")

\* A MANIFEST tick ends the life before mortality is read.
ManifestLife(cause) ==
  /\ pc = "judge"
  /\ operator = "MANIFEST"
  /\ ManifestPacket(cause)
  /\ stop' = "manifested"
  /\ pc' = "finish"
  /\ UNCHANGED <<economy, film, measures, decision>>

DieFromMortality ==
  /\ pc = "judge"
  /\ operator # "MANIFEST"
  /\ Mortality # "none"
  /\ DieOf(Mortality)

Survive ==
  /\ pc = "judge"
  /\ operator # "MANIFEST"
  /\ Mortality = "none"
  /\ pc' = "route"
  /\ UNCHANGED <<vars, economy, film, measures, outcome>>

\* derive_tree_authority records the pressure snapshot of the operator just
\* ticked, then the derivation naming it, then (legacy_shadow_from_tree)
\* what the legacy router would have done.
MeasurePressure ==
  /\ pc = "route"
  /\ RouterMode = "tree"
  /\ MeasureTension(TRUE)
  /\ pc' = "derive"
  /\ UNCHANGED <<economy, film, measures, outcome>>

Decided(to) == IF to = "none" THEN "noviable" ELSE "commit"

Derive(to) ==
  /\ pc = "derive"
  /\ DeriveRoute(to, Len(trace), to # "none")
  /\ decision' = [to |-> to, ref |-> Len(trace) + 1]
  /\ pc' = IF LegacyShadow THEN "observe" ELSE Decided(to)
  /\ UNCHANGED <<economy, film, measures, stop>>

\* Where legacy_after_tick may route from an operator: the mandatory eye
\* ticks, and what route_observe and route_runtime can return.
LegacyTargets(from) ==
  CASE from = "OBSERVE" -> {"RUNTIME", "CHOOSE", "ENCODE"}
    [] from = "RUNTIME" -> {"OBSERVE", "MANIFEST", "LOGIC", "CYCLE"}
    [] from \in {"ENCODE", "CHOOSE"} -> {"OBSERVE"}
    [] from \in {"CYCLE", "LOGIC"} -> {"RUNTIME"}
    [] OTHER -> {}

LegacyRoute ==
  /\ pc = "route"
  /\ RouterMode # "tree"
  /\ \E to \in LegacyTargets(operator) : decision' = [to |-> to, ref |-> 0]
  /\ pc' = IF RouterMode = "shadow" THEN "predict" ELSE "commit"
  /\ UNCHANGED <<vars, economy, film, measures, stop>>

\* unsupported_route_source: CONNECT and DISSOLVE have no legacy route.
LegacyUnsupported ==
  /\ pc = "route"
  /\ RouterMode # "tree"
  /\ LegacyTargets(operator) = {}
  /\ pc' = "loud"
  /\ UNCHANGED <<vars, economy, film, measures, outcome>>

\* derive_shadow: the observer's own pressure snapshot, unless the pressure
\* derivation fails.
PredictShadow ==
  /\ pc = "predict"
  /\ MeasureTension(TRUE) \/ UNCHANGED vars
  /\ pc' = "observe"
  /\ UNCHANGED <<economy, film, measures, outcome>>

\* record_shadow: the observer's account of the decision.
RecordShadow ==
  /\ pc = "observe"
  /\ MeasureTension(FALSE)
  /\ pc' = Decided(decision.to)
  /\ UNCHANGED <<economy, film, measures, outcome>>

\* No viable edge: mortality is read again, else the Packet stalls or is
\* out of its scope.
NoViable(cause) ==
  /\ pc = "noviable"
  /\ cause \in IF Mortality # "none" THEN {Mortality} ELSE {"stalled", "unsafe_scope"}
  /\ DieOf(cause)

\* The credit commit of a route just recorded; preparing or recording it
\* may fail (no credit is open then), and so may its statistics.
OpenCredit ==
  \/ /\ credit' = Len(trace) + 1
     /\ Note(Len(trace) + 1) \/ UNCHANGED faults
  \/ /\ credit' = 0
     /\ Note(Len(trace) + 1)

\* Mutation: the route names any derivation of its movement on record.
CommitRouteAnyDerivation ==
  /\ pc = "commit"
  /\ RouterMode = "tree"
  /\ \E to \in Operators, ref \in 1..Len(trace) : CommitTransition(to, TRUE, ref)
  /\ OpenCredit
  /\ arrival' = Len(trace) + 1
  /\ pc' = "arrive"
  /\ UNCHANGED <<economy, film, credits, outcome>>

\* commit_route: a tree decision names the derivation that made it.
CommitRoute ==
  /\ pc = "commit"
  /\ CommitTransition(decision.to, RouterMode = "tree", decision.ref)
  /\ OpenCredit
  /\ arrival' = Len(trace) + 1
  /\ pc' = "arrive"
  /\ UNCHANGED <<economy, film, credits, outcome>>

\* The loop bound: the Packet is left alive, its last route pending.
TickLimit ==
  /\ pc = "arrive"
  /\ clock >= MaxTicks
  /\ CreditOutcome("pending")
  /\ stop' = "tick_limit"
  /\ pc' = "finish"
  /\ UNCHANGED <<vars, economy, film, arrival, credit, decision>>

\* finish_measurements closes the credit and statistics ledgers.
Finish ==
  /\ pc = "finish"
  /\ pc' = "done"
  /\ UNCHANGED <<vars, economy, film, measures, outcome>>

Progress ==
  \/ RunFlow
  \/ OpenTick
  \/ OrganWork
  \/ \E through \in 1..head : Reconcile(through)
  \/ OrganQuiet
  \/ EffectFails
  \/ SettleTick
  \/ SettleFailure
  \/ Perish
  \/ \E cause \in Causes : ManifestLife(cause)
  \/ DieFromMortality
  \/ Survive
  \/ MeasurePressure
  \/ \E to \in Operators \cup {"none"} : Derive(to)
  \/ LegacyRoute
  \/ LegacyUnsupported
  \/ PredictShadow
  \/ RecordShadow
  \/ \E cause \in Causes : NoViable(cause)
  \/ CommitRoute
  \/ TickLimit
  \/ Finish

RunnerNext == Progress \/ Loud \/ PhysicsLoud

\* run() is one synchronous call, so a stage that can proceed does; nothing
\* obliges an error to happen.
LifeSpec == RunnerInit /\ [][RunnerNext]_lifeVars /\ WF_lifeVars(Progress)

-----------------------------------------------------------------------------
(***************************************************************************)
(* Properties.                                                             *)
(***************************************************************************)

Alive == status \in {"born", "running"}

\* The two sides of the budget ledger never drift apart, and the life's
\* clock is exactly the steps paid for (budget.charge in every branch).
BudgetConserved ==
  /\ \A a \in DOMAIN Limit : spent[a] + remaining[a] = Limit[a]
  /\ spent["steps"] >= clock

\* No organ is ever run on an exhausted Packet: mortality is read after every
\* tick, so only the first tick may find the budget or the identity spent
\* (die_from_mortality before router and begin_tick).
NoPosthumousTick ==
  pc \in {"arrive", "execute"} /\ clock > 0 => Mortality = "none"

\* A life never takes more ticks than it has steps; a Packet born with no
\* step left still takes one.
TicksWithinSteps ==
  "steps" \in DOMAIN Limit =>
    clock <= IF Limit["steps"] = 0 THEN 1 ELSE Limit["steps"]

\* The film is complete: the frames on the trace are numbered 1..head, one
\* per settled tick, and each visit that was left again was filmed exactly
\* once.
FilmComplete ==
  LET frames(i, j) == Cardinality({k \in i..j : trace[k].type = "runtime_frame"}) IN
    /\ head = frames(1, Len(trace))
    /\ pc # "loud" => head = clock
    /\ \A i, j \in 1..Len(trace) :
         /\ trace[i].type = "operator_tick" /\ trace[j].type = "route" /\ i < j
         /\ \A k \in (i + 1)..(j - 1) : trace[k].type # "route"
         => frames(i, j) = 1

\* What run() returns agrees with the Packet: a finished life is dead of its
\* stop reason, or alive at the tick limit; each cause of death is true of
\* the economics that justified it, the first cause winning.
OutcomeTruthful ==
  /\ pc = "done" =>
       /\ stop = "manifested" <=> terminal.kind = "manifest"
       /\ stop = "tick_limit" <=> Alive
       /\ terminal.kind = "internal_death" => death = stop
  /\ pc = "loud" /\ stop = "none" => Alive
  /\ stop = "identity_loss" => LossExhausted
  /\ stop = "budget_exhausted" => BudgetExhausted /\ ~LossExhausted
  /\ stop \in {"stalled", "unsafe_scope"} => ~BudgetExhausted /\ ~LossExhausted

\* Every committed route is measured: it is the open credit, or it has
\* exactly one outcome, or its failed measurement was noted; a finished life
\* leaves no route open, and only the last route may be pending or failed
\* (commit_route, record_arrival_evidence, record_failure_evidence and
\* record_pending_evidence).
RoutesAccounted ==
  \A i \in 1..Len(trace) :
    trace[i].type = "route" =>
      LET outcomes == {c \in credits : c[1] = i} IN
        /\ Cardinality(outcomes) <= 1
        /\ outcomes # {} \/ i \in faults \/ i = credit
        /\ pc \in {"finish", "done"} => outcomes # {} \/ i \in faults
        /\ (\E c \in outcomes : c[2] # "arrival") =>
             \A j \in (i + 1)..Len(trace) : trace[j].type # "route"

\* A tree route is decided in the visit it leaves: between its pressure
\* snapshot and the route there is no other tick and no other route.
FreshDerivation ==
  \A i \in 1..Len(trace) :
    trace[i].type = "route" /\ trace[i].tree =>
      \A j \in trace[trace[i].ref].ref..(i - 1) : trace[j].type \notin Anchors

\* Every call of run() ends, with a result or with a loud error: the
\* budget, the tick limit or a cause of death ends the loop of
\* tension_runner.run.
LifeEnds == <>(pc \in {"done", "loud"})

=============================================================================
