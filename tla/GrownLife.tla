------------------------------ MODULE GrownLife ------------------------------
(***************************************************************************)
(* The manual entrances of runtime/tension_runner.lua: execute_qa_tick and *)
(* execute_qa_verdict_tick.  Their caller takes over a Packet that run()   *)
(* left alive at its tick limit, moves it and begins its ticks through the *)
(* Packet's own writers, and may call either entrance as often as it likes,*)
(* again after a loud error too.                                           *)
(*                                                                         *)
(* There is one sealed candidate and one contract, so each kind of QA      *)
(* evidence is recorded once and found again later (record_request,        *)
(* commit_execution and the verdict's commit return what is on record).    *)
(***************************************************************************)
EXTENDS TensionRunner

CONSTANTS
  Stations,  \* the operators the caller moves the Packet to
  MaxHand    \* bound on the events since run() ended, when a call is made

ASSUME GrownAssumption == Stations \subseteq Operators /\ MaxHand \in Nat

\* Only a QA execution costs test runs, and at most one: a substrate call is
\* charged in calls and tokens (budget.from_usage), a repository effect in
\* tool calls, file writes and time (valid_effect_cost in runtime/body.lua),
\* and qa_executions is 0 or 1 (runtime/qa_process.lua).
ASSUME TestRunsAssumption ==
  "test_runs" \in Axes =>
    /\ \A cost \in Costs : cost["test_runs"] = 0
    /\ \A id \in QaIds : QaCost[id]["test_runs"] \in {0, 1}

OnRecord(type) == \E i \in 1..Len(trace) : trace[i].type = type

\* The caller has the Packet: run() has ended, its last route pending, and
\* no manual tick is running.
Caller ==
  /\ pc = "done"
  /\ Len(trace) - arrival < MaxHand
  /\ UNCHANGED <<economy, film, measures, outcome>>

Route(to) ==
  /\ Caller
  /\ CommitTransition(to, FALSE, 0)
  /\ UNCHANGED pc

Begin ==
  /\ Caller
  /\ BeginTick
  /\ UNCHANGED pc

\* Mutation: a settled tick is executed again.
ExecuteTickAgain(actor) ==
  /\ Caller
  /\ AssertActorTick(actor)
  /\ pc' = "hand_organ"
  /\ UNCHANGED vars

\* Either entrance: its actor must hold the current tick, and a tick that
\* was charged is refused (current_tick_already_settled).
ExecuteTick(actor) ==
  /\ Caller
  /\ AssertActorTick(actor)
  /\ Tick \notin charged
  /\ pc' = "hand_organ"
  /\ UNCHANGED vars

InHand(stage) == pc = stage /\ UNCHANGED <<measures, outcome>>

\* What the organ may record next: LOGIC the request, then one outcome of
\* it, RUNTIME the verdict.  Evidence that was paid for is on record.
Recordable(type) ==
  /\ ~OnRecord(type)
  /\ type # "qa_check_request" => OnRecord("qa_check_request")
  /\ type \in {"qa_check", "qa_execution_failure"} =>
       /\ qaPaid = {}
       /\ ~OnRecord("qa_check") /\ ~OnRecord("qa_execution_failure")

OrganRecords ==
  /\ InHand("hand_organ")
  /\ \E type \in BodyTypes \cap QaTypes : Recordable(type) /\ AppendActorEvent(type)
  /\ evidence' = evidence + 1
  /\ UNCHANGED <<pc, economy, film>>

\* RUNTIME reconciles all frames (reconciliation.inspect names the head).
OrganReconciles ==
  /\ InHand("hand_organ")
  /\ OnRecord("qa_candidate_verdict")
  /\ reconciled < head
  /\ AppendActorEvent("runtime_reconciliation")
  /\ reconciled' = head
  /\ UNCHANGED <<pc, evidence, head, economy>>

\* The organ is not ready, fails or raises: nothing is settled.
OrganLoud ==
  /\ InHand("hand_organ")
  /\ pc' = "done"
  /\ UNCHANGED <<vars, economy, film>>

\* LOGIC has a check, RUNTIME a verdict with nothing left to reconcile.
Applied ==
  CASE operator = "LOGIC" -> OnRecord("qa_check") \/ qaPaid # {}
    [] OTHER -> OnRecord("qa_candidate_verdict") /\ reconciled = head

SettleApplied ==
  /\ InHand("hand_organ")
  /\ Applied
  /\ \E cost \in AllCosts :
       /\ IF operator = "LOGIC" THEN PayQa(cost) ELSE cost = NoCost /\ UNCHANGED qaPaid
       /\ ChargeTick(cost)
  /\ Capture
  /\ pc' = "hand_judge"
  /\ UNCHANGED loss

\* Physics or the camera refuses: the tick is charged and not filmed.
SettleLoud ==
  /\ InHand("hand_organ")
  /\ Applied
  /\ \/ ChargeTick(NoCost) /\ UNCHANGED qaPaid
     \/ \E cost \in AllCosts : operator = "LOGIC" /\ PayQa(cost) /\ ChargeTick(cost)
  /\ pc' = "done"
  /\ UNCHANGED <<vars, loss, film>>

\* die_from_mortality of an applied tick.
Judge ==
  /\ InHand("hand_judge")
  /\ IF Mortality = "none" THEN UNCHANGED vars ELSE Die(Mortality)
  /\ pc' = "done"
  /\ UNCHANGED <<economy, film>>

\* The execution ended in an effect failure, on record as evidence.
OrganFails ==
  /\ InHand("hand_organ")
  /\ operator = "LOGIC"
  /\ OnRecord("qa_execution_failure")
  /\ AppendActorEvent("operator_failure")
  /\ pc' = "hand_failed"
  /\ UNCHANGED <<evidence, economy, film>>

\* The failed tick is charged with the failure's cost, filmed, and the
\* Packet is to die of it; a frame that cannot be taken leaves it alive.
SettleFailed ==
  /\ InHand("hand_failed")
  /\ \E cost \in AllCosts : ChargeTick(cost)
  /\ \/ Capture /\ pc' = "hand_perish"
     \/ UNCHANGED <<vars, film>> /\ pc' = "done"
  /\ UNCHANGED <<loss, qaPaid>>

PerishByHand ==
  /\ InHand("hand_perish")
  /\ Die("effect_failure")
  /\ pc' = "done"
  /\ UNCHANGED <<economy, film>>

GrownNext ==
  \/ RunnerNext
  \/ \E to \in Stations : Route(to)
  \/ Begin
  \/ \E actor \in {"LOGIC", "RUNTIME"} : ExecuteTick(actor)
  \/ OrganRecords
  \/ OrganReconciles
  \/ OrganLoud
  \/ SettleApplied
  \/ SettleLoud
  \/ Judge
  \/ OrganFails
  \/ SettleFailed
  \/ PerishByHand

GrownSpec == RunnerInit /\ [][GrownNext]_lifeVars

-----------------------------------------------------------------------------
(***************************************************************************)
(* Properties.                                                             *)
(***************************************************************************)

\* Nothing is settled twice, in run() or by hand, however often a tick is
\* executed again after a loud end: the clock and the film count no tick
\* twice (current_tick_was_charged), and a QA evidence is paid for once
\* (the qa_execution branch of apply_operator_physics); besides, only the
\* cost of a failed effect may have been charged, one for each failure.
SettledOnce ==
  LET count(type) == Cardinality({i \in 1..Len(trace) : trace[i].type = type})
      paid == Cardinality({id \in qaPaid : QaCost[id]["test_runs"] = 1})
  IN  /\ clock <= count("operator_tick")
      /\ head <= clock
      /\ "test_runs" \in Axes =>
           spent["test_runs"] \in paid..(paid + count("operator_failure"))

=============================================================================
