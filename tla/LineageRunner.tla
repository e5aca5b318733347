---------------------------- MODULE LineageRunner ----------------------------
(***************************************************************************)
(* runtime/lineage_runner.lua: one call of run(), which carries a task     *)
(* through generations of Packets until the lineage is terminal, with the  *)
(* flow domain that gives birth to the Packets (runtime/flow_domain.lua,   *)
(* runtime/packet_birth.lua), the judgement of a corpse                    *)
(* (runtime/completion.lua), the ingress of the next generation            *)
(* (runtime/network_ingress.lua) and the session the ledger is copied into *)
(* (runtime/session_memory.lua).                                           *)
(*                                                                         *)
(* The runner is sequential: pc is the stage run() is in.  The Packet's    *)
(* life (TensionRunner) is here a choice of its possible results.  A stage *)
(* that returns terminate_loud goes to pc = "abort"; a returned report is  *)
(* pc = "done", a returned error pc = "failed".                            *)
(***************************************************************************)
EXTENDS Lineage, FiniteSets, SequencesExt

CONSTANTS
  Policies,  \* the contracts and recovery policies a run may be given
  Ceiling,   \* {options.emergency_max_generations}, or {} when absent
  Corpses    \* what corpse.capture may make of a dead Packet

\* A corpse's cause of death, whether it carries an exact delivered plan,
\* its exact QA terminal, and what its Packet spent.  A plan and an accepted
\* candidate die complete, a rejected one dies blocked: corpse.verify and
\* completion refuse anything else.
CorpseRecords ==
  {c \in [cause : STRING, plan : BOOLEAN,
          qa : {"absent", "accepted", "rejected", "broken"}, spend : Spends] :
     /\ c.plan \/ c.qa = "accepted" => c.cause = "complete"
     /\ c.qa = "rejected" => c.cause = "blocked"}

ASSUME LineageRunnerAssumption ==
  /\ Corpses \subseteq CorpseRecords
  /\ Ceiling \subseteq Nat
  /\ Policies \subseteq [contract : STRING, recovery : BOOLEAN]

VARIABLES
  policy,   \* the completion contract and policy.allow_recovery
  pc,       \* the stage of run()
  births,   \* domain.birth_seq
  ingress,  \* the identity in ingress.packet_options
  remains,  \* the corpse of this generation's Packet
  verdict,  \* the assessment of that corpse
  owned,    \* session.current_lineage_id is this lineage
  cursor,   \* ledger_cursor
  stored,   \* session.lineage_ledger
  indexed,  \* session.packet_ids
  graves    \* source Packets of the graves added to the session

sessionVars == <<cursor, stored, indexed, graves>>
runnerVars ==
  <<lineageVars, policy, pc, births, ingress, remains, verdict, owned, sessionVars>>

NoCorpse == [cause |-> "none", plan |-> FALSE, qa |-> "absent", spend |-> ZeroCost]

NoVerdict == [task |-> "none", recoverable |-> FALSE, basis |-> "none"]

RunnerInit ==
  /\ LineageInit
  /\ policy \in Policies
  /\ pc = "start"
  /\ births = 0
  /\ ingress = [NoTransaction EXCEPT !.generation = 1]
  /\ remains = NoCorpse
  /\ verdict = NoVerdict
  /\ owned = TRUE
  /\ cursor = 0
  /\ stored = <<>>
  /\ indexed = <<>>
  /\ graves = <<>>

-----------------------------------------------------------------------------
\* The session

\* append_lineage_event keeps one event of an id and refuses the events of a
\* lineage that is not the session's current one.  In a sync of the events
\* after from, the i-th is new to the session.
NewToSession(from, i) ==
  /\ \A k \in 1..Len(stored) : stored[k].id # ledger[i].id
  /\ \A k \in (from + 1)..(i - 1) : ledger[k].id # ledger[i].id

\* Mutation: the event just after the cursor is skipped.
SyncedFromNext(from) ==
  LET copied[i \in from..Len(ledger)] ==
        IF i \in {from, from + 1} THEN stored
        ELSE IF NewToSession(from, i) THEN Append(copied[i - 1], ledger[i])
        ELSE copied[i - 1]
  IN  copied[Len(ledger)]

SyncedFrom(from) ==
  LET copied[i \in from..Len(ledger)] ==
        IF i = from THEN stored
        ELSE IF NewToSession(from, i) THEN Append(copied[i - 1], ledger[i])
        ELSE copied[i - 1]
  IN  copied[Len(ledger)]

SyncLedger ==
  /\ owned
  /\ stored' = SyncedFrom(cursor)
  /\ cursor' = Len(ledger)

\* A stage that fails: terminate_loud is called with what is there.
Fail ==
  /\ pc' = "abort"
  /\ UNCHANGED <<policy, lineageVars, births, ingress, remains, verdict, owned, sessionVars>>

\* lineage.finish, then finish_report.
End(final) ==
  /\ Finish(final)
  /\ pc' = "report"
  /\ UNCHANGED <<policy, births, ingress, remains, verdict, owned, sessionVars>>

\* A sync in the middle of run(): on failure the run is terminated loudly.
SyncStage(from, to) ==
  /\ pc = from
  /\ IF owned
     THEN /\ SyncLedger
          /\ pc' = to
          /\ UNCHANGED <<policy, lineageVars, births, ingress, remains, verdict, owned,
                         indexed, graves>>
     ELSE Fail

StartSync == SyncStage("start", "head")

-----------------------------------------------------------------------------
\* A generation is allocated

CeilingReached ==
  /\ pc = "head"
  /\ \E n \in Ceiling : Generation + 1 > n
  /\ End("suspended")

\* The packet budget policy, a callback, fails or returns no budget.
PacketBudgetFails ==
  /\ pc = "head"
  /\ \A n \in Ceiling : Generation + 1 <= n
  /\ Fail

CannotAllocate(allocation) ==
  /\ pc = "head"
  /\ \A n \in Ceiling : Generation + 1 <= n
  /\ ~CanAllocate(allocation)
  /\ End("exhausted")

Allocate(allocation) ==
  /\ pc = "head"
  /\ \A n \in Ceiling : Generation + 1 <= n
  /\ BeginGeneration(allocation)
  /\ pc' = "launch"
  /\ UNCHANGED <<policy, births, ingress, remains, verdict, owned, sessionVars>>

-----------------------------------------------------------------------------
\* The Packet runner: birth in the flow domain, birth hook, life

\* Inherited graves, the runner's options or the birth itself are refused.
LaunchFails == pc = "launch" /\ Fail

\* advance_birth commits the tick of L1 and the birth number, which PacketIds
\* bounds.
AdvanceBirth ==
  /\ pc = "launch"
  /\ births + 1 \in PacketIds
  /\ births' = births + 1
  /\ pc' = "hook"
  /\ UNCHANGED <<policy, lineageVars, ingress, remains, verdict, owned, sessionVars>>

\* The body or the Packet's loss state fails to initialise after the birth.
NewbornFails == pc = "hook" /\ Fail

BirthHook ==
  /\ pc = "hook"
  /\ CommitBirth(births, ingress)
  /\ pc' = "life"
  /\ UNCHANGED <<policy, births, ingress, remains, verdict, owned, sessionVars>>

\* A callback (the packet budget policy, the Packet runner, the id source)
\* starts another lineage in the same session, which becomes its current one.
SessionTaken ==
  /\ pc \in {"head", "launch", "life", "decide"}
  /\ owned
  /\ owned' = FALSE
  /\ UNCHANGED <<policy, lineageVars, pc, births, ingress, remains, verdict, sessionVars>>

\* The life ends loudly, or alive at the tick limit, or its corpse cannot be
\* captured or verified.
LifeFails == pc = "life" /\ Fail

LifeEndsDead(corpse) ==
  /\ pc = "life"
  /\ remains' = corpse
  /\ RegisterCorpse(births)
  /\ pc' = "bury"
  /\ UNCHANGED <<policy, births, ingress, verdict, owned, sessionVars>>

-----------------------------------------------------------------------------
\* The corpse is buried, paid for and judged

\* append_packet succeeds, add_grave does not.
GraveFails ==
  /\ pc = "bury"
  /\ indexed' = Append(indexed, births)
  /\ pc' = "abort"
  /\ UNCHANGED <<policy, lineageVars, births, ingress, remains, verdict, owned, cursor,
                 stored, graves>>

\* Mutation: the grave is the parent's.
BuryParent ==
  /\ pc = "bury"
  /\ indexed' = Append(indexed, births)
  /\ graves' = Append(graves, ingress.packet)
  /\ RecordFact("grave_classified")
  /\ pc' = "reconcile"
  /\ UNCHANGED <<policy, births, ingress, remains, verdict, owned, cursor, stored>>

Bury ==
  /\ pc = "bury"
  /\ indexed' = Append(indexed, births)
  /\ graves' = Append(graves, births)
  /\ RecordFact("grave_classified")
  /\ pc' = "reconcile"
  /\ UNCHANGED <<policy, births, ingress, remains, verdict, owned, cursor, stored>>

ReconcileFails == pc = "reconcile" /\ Fail

Reconcile ==
  /\ pc = "reconcile"
  /\ ReconcilePacket(births, remains.spend)
  /\ pc' = "assess"
  /\ UNCHANGED <<policy, births, ingress, remains, verdict, owned, sessionVars>>

Recoverable == {"budget_exhausted", "identity_loss", "stalled"}

Assessment(task, basis) ==
  [task |-> task, recoverable |-> basis # "none", basis |-> basis]

Unsafe(corpse) == corpse.cause \in {"unsafe_scope", "cancelled"}

\* The QA terminal of the corpse is incomplete or contradicts it.
BrokenEvidence(corpse) ==
  /\ ~Unsafe(corpse)
  /\ policy.contract = "software.create.v0"
  /\ corpse.qa = "broken"

\* Mutation: an accepted candidate completes the task.
EvaluateAcceptedComplete(corpse) ==
  CASE Unsafe(corpse) -> Assessment("unsafe", "none")
    [] ~Unsafe(corpse) /\ policy.contract = "plan.v0" /\ corpse.plan
         -> Assessment("complete", "none")
    [] ~Unsafe(corpse) /\ policy.contract = "software.create.v0" /\ corpse.qa = "rejected"
         -> Assessment("unfinished", "qa_rejected")
    [] ~Unsafe(corpse) /\ policy.contract = "software.create.v0" /\ corpse.qa = "accepted"
         -> Assessment("complete", "none")
    [] ~Unsafe(corpse) /\ policy.contract \notin {"plan.v0", "software.create.v0"}
         -> Assessment("unknown", "none")
    [] OTHER -> IF corpse.cause \in Recoverable
                THEN Assessment("unfinished", corpse.cause)
                ELSE Assessment("blocked", "none")

\* completion.evaluate: the state of the task after this corpse, and what a
\* recovery would start from.
Evaluate(corpse) ==
  CASE Unsafe(corpse) -> Assessment("unsafe", "none")
    [] ~Unsafe(corpse) /\ policy.contract = "plan.v0" /\ corpse.plan
         -> Assessment("complete", "none")
    [] ~Unsafe(corpse) /\ policy.contract = "software.create.v0" /\ corpse.qa = "rejected"
         -> Assessment("unfinished", "qa_rejected")
    [] ~Unsafe(corpse) /\ policy.contract = "software.create.v0" /\ corpse.qa = "accepted"
         -> Assessment("unknown", "none")
    [] ~Unsafe(corpse) /\ policy.contract \notin {"plan.v0", "software.create.v0"}
         -> Assessment("unknown", "none")
    [] OTHER -> IF corpse.cause \in Recoverable
                THEN Assessment("unfinished", corpse.cause)
                ELSE Assessment("blocked", "none")

\* completion.evaluate returns an error.
AssessFails == pc = "assess" /\ BrokenEvidence(remains) /\ Fail

Assess ==
  /\ pc = "assess"
  /\ ~BrokenEvidence(remains)
  /\ verdict' = Evaluate(remains)
  /\ RecordFact("completion_evaluated")
  /\ pc' = "sync"
  /\ UNCHANGED <<policy, births, ingress, remains, owned, sessionVars>>

AssessmentSync == SyncStage("sync", "decide")

-----------------------------------------------------------------------------
\* The lineage ends, or a carrier takes it to the next generation

Continues == verdict.task = "unfinished" /\ verdict.recoverable

\* The outcome of a lineage that ends on this corpse.
Outcome ==
  CASE verdict.task = "complete" -> "complete"
    [] verdict.task = "unsafe"   -> "terminated"
    [] Continues /\ Exhausted    -> "exhausted"
    [] OTHER                     -> "suspended"

DecideEnd ==
  /\ pc = "decide"
  /\ ~Continues \/ Exhausted \/ ~policy.recovery
  /\ End(Outcome)

Recover == pc = "decide" /\ Continues /\ ~Exhausted /\ policy.recovery

\* carrier.build_recovery fails: carrier_too_large, for one.
CarrierTooLarge == Recover /\ End("suspended")

\* The carrier fails its verification, or a projection of a rejected form
\* cannot be derived.
CarrierFails == Recover /\ Fail

CannotPayCarrier(size) ==
  /\ Recover
  /\ ~CanAllocate(CarrierCost(size))
  /\ End("exhausted")

BuildCarrier(size) ==
  /\ Recover
  /\ PayCarrier(births, size)
  /\ pc' = "continue"
  /\ UNCHANGED <<policy, births, ingress, remains, verdict, owned, sessionVars>>

\* A rejected candidate has a repository, which is never reused: its lineage
\* waits for a fresh one.
RetireRepository ==
  /\ pc = "continue"
  /\ verdict.basis = "qa_rejected"
  /\ End("suspended")

\* Mutation: the continuation is not recorded.
ContinueUnrecorded ==
  /\ pc = "continue"
  /\ verdict.basis # "qa_rejected"
  /\ continued' = continued \cup {births}
  /\ carrierId' = births
  /\ status' = "continuing"
  /\ pc' = "ingress"
  /\ UNCHANGED <<policy, gens, pending, corpseId, charges, spent, ledger, births,
                 ingress, remains, verdict, owned, sessionVars>>

Continue ==
  /\ pc = "continue"
  /\ verdict.basis # "qa_rejected"
  /\ MarkContinued(births, births)
  /\ pc' = "ingress"
  /\ UNCHANGED <<policy, births, ingress, remains, verdict, owned, sessionVars>>

\* network_ingress.prepare: the child is told what the carrier says.
PrepareIngress ==
  /\ pc = "ingress"
  /\ ingress' = [generation |-> Generation + 1, packet |-> Current.packet,
                 corpse |-> corpseId, carrier |-> carrierId]
  /\ pc' = "resync"
  /\ UNCHANGED <<policy, lineageVars, births, remains, verdict, owned, sessionVars>>

IngressFails == pc = "ingress" /\ Fail

\* Mutation: the runner prepares the same ingress again.
ContinuationSyncAgain == SyncStage("resync", "ingress")

ContinuationSync == SyncStage("resync", "head")

-----------------------------------------------------------------------------
\* The call returns

\* finish_report syncs what is left and returns the report.
FinishReport == SyncStage("report", "done")

\* Mutation: a lineage that is terminal already is terminated again.
TerminateLoudAgain ==
  /\ pc = "abort"
  /\ Append1(StatusEvent["terminated"], Generation, ZeroCost)
  /\ status' = "terminated"
  /\ pc' = "flush"
  /\ UNCHANGED <<policy, gens, pending, corpseId, carrierId, continued, charges, spent,
                 births, ingress, remains, verdict, owned, sessionVars>>

\* Mutation: the pending generation is forgotten.
TerminateLoudForgetting ==
  /\ pc = "abort"
  /\ pending' = NoTransaction
  /\ IF status \in TerminalStatuses
     THEN UNCHANGED <<status, ledger>>
     ELSE /\ Append1(StatusEvent["terminated"], Generation, ZeroCost)
          /\ status' = "terminated"
  /\ pc' = "flush"
  /\ UNCHANGED <<policy, gens, corpseId, carrierId, continued, charges, spent,
                 births, ingress, remains, verdict, owned, sessionVars>>

\* terminate_loud finishes a lineage that is not terminal, and syncs again
\* from the cursor it was given, whatever that returns.
TerminateLoud ==
  /\ pc = "abort"
  /\ IF status \in TerminalStatuses
     THEN UNCHANGED lineageVars
     ELSE Finish("terminated")
  /\ pc' = "flush"
  /\ UNCHANGED <<policy, births, ingress, remains, verdict, owned, sessionVars>>

Flush ==
  /\ pc = "flush"
  /\ IF owned THEN SyncLedger ELSE UNCHANGED <<cursor, stored>>
  /\ pc' = "failed"
  /\ UNCHANGED <<policy, lineageVars, births, ingress, remains, verdict, owned, indexed, graves>>

Returned == pc \in {"done", "failed"} /\ UNCHANGED runnerVars

Progress ==
  \/ StartSync
  \/ CeilingReached
  \/ PacketBudgetFails
  \/ \E allocation \in Allocations : CannotAllocate(allocation) \/ Allocate(allocation)
  \/ LaunchFails \/ AdvanceBirth \/ NewbornFails \/ BirthHook
  \/ LifeFails
  \/ \E corpse \in Corpses : LifeEndsDead(corpse)
  \/ GraveFails \/ Bury \/ ReconcileFails \/ Reconcile \/ AssessFails \/ Assess
  \/ AssessmentSync
  \/ DecideEnd \/ CarrierTooLarge \/ CarrierFails
  \/ \E size \in CarrierSizes : CannotPayCarrier(size) \/ BuildCarrier(size)
  \/ RetireRepository \/ Continue \/ PrepareIngress \/ IngressFails
  \/ ContinuationSync
  \/ FinishReport \/ TerminateLoud \/ Flush

RunnerNext == Progress \/ SessionTaken \/ Returned

\* run() is one sequential call: it keeps going while it has a stage to take.
RunnerSpec == RunnerInit /\ [][RunnerNext]_runnerVars /\ WF_runnerVars(Progress)

-----------------------------------------------------------------------------
\* Properties

\* The birth hook never refuses a newborn Packet: between the allocation of
\* a generation and its birth nothing makes commit_birth fail, although the
\* runner never asks for the "generations" axis before the Packet is born.
BirthHookAccepts ==
  pc = "hook" =>
    /\ Ready
    /\ ingress = pending
    /\ <<"generation", pending.generation>> \notin DOMAIN charges
    /\ CanAllocate(OneGeneration)

\* Overdraft is bounded by one Packet: on a limited axis a lineage has spent
\* at most its limit and what the last Packet spent beyond it, and it never
\* overdraws before that Packet is reconciled (reconcile_packet overdraws,
\* the exhaustion check keeps the next generation from being born).
OverdrawBounded ==
  \A a \in DOMAIN Limits :
    spent[a] <= Limits[a] + (IF <<"packet", births>> \in DOMAIN charges
                             THEN remains.spend[a] ELSE 0)

\* L1 and the lineage agree on the births: the flow domain is ahead by one
\* only while the hook runs, or when the newborn was refused and the lineage
\* was terminated with that generation still pending.
BirthsAccounted ==
  /\ births \in {Len(gens), Len(gens) + 1}
  /\ births # Len(gens) =>
       /\ pending.generation = births
       /\ pc \in {"hook", "abort", "flush", "failed"}

\* The session's copy of the ledger is a prefix of it, complete when run()
\* returns a report, and also when it fails unless the session was taken by
\* another lineage; every generation starts with the copy up to date.
SessionMirror ==
  /\ IsPrefix(stored, ledger)
  /\ pc \in {"head", "done"} => stored = ledger
  /\ pc = "failed" /\ owned => stored = ledger

\* The status each ledger event that moves a lineage leaves it in.
StatusAfter ==
  [lineage_created |-> "created", generation_born |-> "running",
   corpse_registered |-> "evaluating_terminal", continuation_decided |-> "continuing",
   lineage_suspended |-> "suspended", lineage_completed |-> "complete",
   lineage_exhausted |-> "exhausted", lineage_terminated |-> "terminated"]

\* What the events of the ledger cost on an axis, added up in order.
Replayed(a) ==
  LET total[n \in 0..Len(ledger)] ==
        IF n = 0 THEN 0 ELSE total[n - 1] + ledger[n].cost[a]
  IN  total[Len(ledger)]

\* The ledger alone tells the state: the last event that moves the lineage
\* gives its status, and the budget events add up to what it has spent.
LedgerReplays ==
  LET moves == {i \in 1..Len(ledger) : ledger[i].kind \in DOMAIN StatusAfter} IN
    /\ status = StatusAfter[ledger[Max(moves)].kind]
    /\ \A a \in LineageAxes : spent[a] = Replayed(a)

\* A generation begins only when the one before is settled: its Packet is in
\* the session's index and in its graves, once each and in order, its
\* spending and its carrier are paid, and it was continued.
PredecessorsSettled ==
  \A k \in 1..(Len(gens) - 1) :
    LET id == gens[k].packet IN
      /\ {<<"packet", id>>, <<"carrier", id>>} \subseteq DOMAIN charges
      /\ id \in continued
      /\ indexed[k] = id
      /\ graves[k] = id

\* What run() returns is true of the lineage: it is terminal, complete only
\* on a plan delivered under the plan contract, exhausted only when a limit
\* is reached or a cost does not fit in what is left, and a report is never
\* a report of an invariant failure.
LineageOutcomeTruthful ==
  /\ pc \in {"done", "failed"} => status \in TerminalStatuses
  /\ status = "complete" => policy.contract = "plan.v0" /\ remains.plan
  /\ status = "exhausted" =>
       \/ Exhausted
       \/ \E cost \in Allocations \cup {CarrierCost(n) : n \in CarrierSizes} :
            ~CanAllocate(cost)
  /\ status = "terminated" /\ pc \in {"report", "done"} => Unsafe(remains)

\* A generation is allocated only within what is left of every configured
\* limit, a limit of 0 among them: "each configured limit is finite
\* non-negative" and "local Packet allocation cannot exceed lineage remaining"
\* (lineage_in_memory_slice.v0.md); lineage_budget.normalize drops the limit.
AllocationWithinRemaining ==
  [][pending = NoTransaction /\ pending' # NoTransaction =>
       \E cost \in Allocations :
         \A a \in DOMAIN Configured : cost[a] <= Configured[a] - spent[a]]_runnerVars

\* run() returns, when the generations are limited by the budget or by the
\* emergency ceiling.
LineageEnds == <>(pc \in {"done", "failed"})

=============================================================================
