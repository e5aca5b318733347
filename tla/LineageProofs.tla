---------------------------- MODULE LineageProofs ----------------------------
(***************************************************************************)
(* Proofs about Lineage and LineageRunner.  LineageInv is inductive for    *)
(* the operations of a lineage and gives its ancestry; the runner          *)
(* implements those operations.  BoundInv and StageInv, inductive for the  *)
(* runner, give the bound on its overdraft and show that its birth hook    *)
(* never refuses; EndInv gives the outcome, SettleInv the settlement of    *)
(* the predecessors, MirrorInv the session's copy of the ledger, and       *)
(* ReplayInv with KeysInv that the ledger alone tells budget and status.   *)
(***************************************************************************)
EXTENDS LineageRunner, WellFoundedInduction, TLAPS

Statuses ==
  TerminalStatuses \cup {"created", "running", "evaluating_terminal", "continuing"}

Transactions == [generation : Nat, packet : Nat, corpse : Nat, carrier : Nat]

GenerationRecords ==
  [generation : Nat, packet : PacketIds, parent : Transactions, corpse : Nat]

LineageTyped ==
  /\ status \in Statuses
  /\ gens \in Seq(GenerationRecords)
  /\ pending \in Transactions
  /\ corpseId \in Nat
  /\ carrierId \in Nat
  /\ spent \in [LineageAxes -> Nat]

\* What the next generation is to be told of its ancestors.
Heir ==
  [generation |-> Generation + 1,
   packet     |-> IF Generation = 0 THEN 0 ELSE Current.packet,
   corpse     |-> IF Generation = 0 THEN 0 ELSE corpseId,
   carrier    |-> IF Generation = 0 THEN 0 ELSE carrierId]

\* Where the chain stands in each status.
ChainEnd ==
  /\ status = "created" => gens = <<>>
  /\ status \in {"evaluating_terminal", "continuing"} =>
       /\ gens # <<>>
       /\ Current.corpse = Current.packet
       /\ corpseId = Current.packet
  /\ status = "continuing" => carrierId = corpseId
  /\ Ready /\ pending # NoTransaction => pending = Heir
  /\ status \in {"running", "evaluating_terminal"} => pending = NoTransaction

LineageInv == LineageTyped /\ ChainEnd /\ AncestryChain

-----------------------------------------------------------------------------
\* The budget

\* A charge adds its key to the charged ones.
LEMMA ChargeDomain ==
  ASSUME NEW key, NEW cost, NEW overdraw, Charge(key, cost, overdraw)
  PROVE  DOMAIN charges' = DOMAIN charges \cup {key}
  BY DEF Charge

\* Charge keys name what they pay for.
LEMMA KeysDiffer ==
  /\ \A m, n : <<"generation", m>> = <<"generation", n>> => m = n
  /\ \A m, n : <<"packet", m>> # <<"generation", n>>
  /\ \A m, n : <<"carrier", m>> # <<"generation", n>>
<1>1. \A x, y : <<x, y>>[1] = x /\ <<x, y>>[2] = y
  OBVIOUS
<1>2. "packet" # "generation" /\ "carrier" # "generation"
  OBVIOUS
<1> QED  BY <1>1, <1>2, Zenon

\* The limits kept by normalize are positive.
LEMMA LimitsPositive ==
  \A a \in DOMAIN Limits : a \in LineageAxes /\ Limits[a] \in Nat /\ Limits[a] > 0
  BY LineageAssumption DEF Limits

\* The costs the runner charges are costs.
LEMMA CostsTyped ==
  /\ ZeroCost \in [LineageAxes -> Nat]
  /\ OneGeneration \in [LineageAxes -> Nat]
  /\ \A n \in Nat : CarrierCost(n) \in [LineageAxes -> Nat]
  BY LineageAssumption DEF ZeroCost, OneGeneration, CarrierCost

\* A charge keeps what is spent a cost.
LEMMA ChargeTyped ==
  ASSUME spent \in [LineageAxes -> Nat], NEW cost \in [LineageAxes -> Nat],
         NEW key, NEW overdraw, Charge(key, cost, overdraw)
  PROVE  spent' \in [LineageAxes -> Nat]
  BY DEF Charge

-----------------------------------------------------------------------------
\* The lineage

LEMMA LineageInitInv == LineageInit => LineageInv
  BY CostsTyped
  DEF LineageInit, LineageInv, LineageTyped, ChainEnd, AncestryChain, Statuses,
      TerminalStatuses, Transactions, GenerationRecords, NoTransaction, Ready, Generation

LEMMA BeginKeeps ==
  ASSUME LineageInv, NEW allocation \in Allocations, BeginGeneration(allocation)
  PROVE  LineageInv'
<1>1. Heir \in Transactions
  <2>1. Generation \in Nat /\ (Generation # 0 => Current \in GenerationRecords)
    BY DEF LineageInv, LineageTyped, Generation, Current
  <2>2. Generation # 0 => Current.packet \in Nat
    BY <2>1, LineageAssumption DEF GenerationRecords
  <2> QED  BY <2>1, <2>2 DEF LineageInv, LineageTyped, Heir, Transactions
<1>2. pending' = Heir
  BY DEF BeginGeneration, Heir
<1>3. Ready /\ UNCHANGED <<status, gens, corpseId, carrierId, spent>>
  BY DEF BeginGeneration
<1>4. LineageTyped'
  BY <1>1, <1>2, <1>3 DEF LineageInv, LineageTyped
<1>5. ChainEnd'
  BY <1>2, <1>3 DEF LineageInv, ChainEnd, Heir, Generation, Current, Ready
<1>6. AncestryChain'
  BY <1>3 DEF LineageInv, AncestryChain
<1> QED  BY <1>4, <1>5, <1>6 DEF LineageInv

LEMMA BirthKeeps ==
  ASSUME LineageInv, NEW id \in PacketIds, CommitBirth(id, pending)
  PROVE  LineageInv'
<1> DEFINE child == [generation |-> pending.generation, packet |-> id,
                     parent |-> pending, corpse |-> 0]
<1>1. /\ child \in GenerationRecords
      /\ gens' = Append(gens, child)
      /\ gens \in Seq(GenerationRecords)
  BY DEF LineageInv, LineageTyped, CommitBirth, GenerationRecords, Transactions
<1>2. /\ gens' \in Seq(GenerationRecords)
      /\ Len(gens') = Len(gens) + 1
      /\ Len(gens) \in Nat
      /\ \A k \in 1..Len(gens) : gens'[k] = gens[k]
      /\ gens'[Len(gens) + 1] = child
  BY <1>1
<1>3. pending = Heir
  BY DEF LineageInv, ChainEnd, CommitBirth
<1>4. spent' \in [LineageAxes -> Nat]
  BY ChargeTyped, CostsTyped DEF CommitBirth, LineageInv, LineageTyped
<1>5. LineageTyped'
  BY <1>2, <1>4
  DEF LineageInv, LineageTyped, CommitBirth, Statuses, NoTransaction, Transactions
<1>6. ChainEnd'
  BY DEF ChainEnd, CommitBirth, Ready
<1>7. child.generation = Len(gens) + 1
  BY <1>3 DEF Heir, Generation
<1>8. ASSUME Len(gens) # 0
      PROVE  /\ child.parent.packet = gens[Len(gens)].packet
             /\ gens[Len(gens)].corpse = gens[Len(gens)].packet
             /\ child.parent.corpse = gens[Len(gens)].corpse
             /\ child.parent.carrier = gens[Len(gens)].corpse
  <2>1. status = "continuing"
    BY <1>8 DEF CommitBirth, Ready, LineageInv, ChainEnd
  <2> QED  BY <1>3, <1>8, <2>1 DEF Heir, Generation, Current, LineageInv, ChainEnd
<1>9. AncestryChain'
  <2> SUFFICES ASSUME NEW k \in 1..Len(gens')
               PROVE  /\ gens'[k].generation = k
                      /\ k > 1 => /\ gens'[k].parent.packet = gens'[k - 1].packet
                                  /\ gens'[k - 1].corpse = gens'[k - 1].packet
                                  /\ gens'[k].parent.corpse = gens'[k - 1].corpse
                                  /\ gens'[k].parent.carrier = gens'[k - 1].corpse
    BY DEF AncestryChain
  <2>1. CASE k \in 1..Len(gens)
    <3>1. k > 1 => k - 1 \in 1..Len(gens)
      BY <2>1, <1>2
    <3> QED  BY <1>2, <2>1, <3>1 DEF LineageInv, AncestryChain
  <2>2. CASE k = Len(gens) + 1
    <3>1. k > 1 => Len(gens) # 0 /\ k - 1 = Len(gens) /\ gens'[k - 1] = gens[Len(gens)]
      BY <1>2, <2>2
    <3> QED  BY <1>2, <1>7, <1>8, <2>2, <3>1
  <2> QED  BY <1>2, <2>1, <2>2
<1> QED  BY <1>5, <1>6, <1>9 DEF LineageInv

LEMMA CorpseKeeps ==
  ASSUME LineageInv, NEW id \in PacketIds, RegisterCorpse(id)
  PROVE  LineageInv'
<1>1. /\ gens \in Seq(GenerationRecords)
      /\ Generation \in Nat /\ Generation > 0
      /\ gens' = [gens EXCEPT ![Generation].corpse = id]
      /\ id \in Nat
  BY LineageAssumption DEF LineageInv, LineageTyped, RegisterCorpse, Generation
<1>2. gens[Generation] \in GenerationRecords
  BY <1>1 DEF Generation
<1>3. /\ gens' \in Seq(GenerationRecords)
      /\ Len(gens') = Len(gens)
      /\ gens'[Generation] = [gens[Generation] EXCEPT !.corpse = id]
      /\ \A k \in 1..Len(gens) : k # Generation => gens'[k] = gens[k]
  <2>1. [gens[Generation] EXCEPT !.corpse = id] \in GenerationRecords
    BY <1>1, <1>2 DEF GenerationRecords
  <2> QED  BY <1>1, <2>1 DEF Generation
<1>4. LineageTyped'
  BY <1>1, <1>3 DEF LineageInv, LineageTyped, RegisterCorpse, Statuses
<1>5. ChainEnd'
  BY <1>1, <1>2, <1>3
  DEF LineageInv, ChainEnd, RegisterCorpse, Ready, Generation, Current, GenerationRecords
<1>6. AncestryChain'
  <2> SUFFICES ASSUME NEW k \in 1..Len(gens')
               PROVE  /\ gens'[k].generation = k
                      /\ k > 1 => /\ gens'[k].parent.packet = gens'[k - 1].packet
                                  /\ gens'[k - 1].corpse = gens'[k - 1].packet
                                  /\ gens'[k].parent.corpse = gens'[k - 1].corpse
                                  /\ gens'[k].parent.carrier = gens'[k - 1].corpse
    BY DEF AncestryChain
  <2>1. gens'[k].generation = gens[k].generation /\ gens'[k].parent = gens[k].parent
    BY <1>2, <1>3 DEF GenerationRecords
  <2>2. k > 1 => k - 1 \in 1..Len(gens) /\ gens'[k - 1] = gens[k - 1]
    BY <1>1, <1>3 DEF Generation
  <2> QED  BY <1>3, <2>1, <2>2 DEF LineageInv, AncestryChain
<1> QED  BY <1>4, <1>5, <1>6 DEF LineageInv

LEMMA MarkKeeps ==
  ASSUME LineageInv, NEW id \in PacketIds, MarkContinued(id, id)
  PROVE  LineageInv'
<1>1. status = "evaluating_terminal" /\ id = corpseId
  BY DEF MarkContinued
<1>2. UNCHANGED <<gens, pending, corpseId, spent>> /\ status' = "continuing" /\ carrierId' = id
  BY DEF MarkContinued
<1>3. LineageTyped'
  BY <1>1, <1>2 DEF LineageInv, LineageTyped, Statuses
<1>4. ChainEnd'
  BY <1>1, <1>2 DEF LineageInv, ChainEnd, Current, Generation, Ready
<1>5. AncestryChain'
  BY <1>2 DEF LineageInv, AncestryChain
<1> QED  BY <1>3, <1>4, <1>5 DEF LineageInv

\* The other operations leave the chain alone.
LEMMA ChargesKeep ==
  ASSUME LineageInv, UNCHANGED <<gens, pending, corpseId, carrierId>>,
         spent' \in [LineageAxes -> Nat], status' = status \/ status' \in TerminalStatuses
  PROVE  LineageInv'
<1>1. LineageTyped'
  BY DEF LineageInv, LineageTyped, Statuses
<1>2. ChainEnd'
  BY DEF LineageInv, ChainEnd, Current, Generation, Ready, Heir, TerminalStatuses
<1>3. AncestryChain'
  BY DEF LineageInv, AncestryChain
<1> QED  BY <1>1, <1>2, <1>3 DEF LineageInv

LEMMA LineageStep == LineageInv /\ [LineageNext]_lineageVars => LineageInv'
<1> SUFFICES ASSUME LineageInv, [LineageNext]_lineageVars
             PROVE  LineageInv'
  OBVIOUS
<1>0. spent \in [LineageAxes -> Nat]
  BY DEF LineageInv, LineageTyped
<1>1. ASSUME NEW allocation \in Allocations, BeginGeneration(allocation)
      PROVE  LineageInv'
  BY <1>1, BeginKeeps
<1>2. ASSUME NEW id \in PacketIds, CommitBirth(id, pending)
      PROVE  LineageInv'
  BY <1>2, BirthKeeps
<1>3. ASSUME NEW id \in PacketIds, RegisterCorpse(id)
      PROVE  LineageInv'
  BY <1>3, CorpseKeeps
<1>4. ASSUME NEW kind \in FactKinds, RecordFact(kind)
      PROVE  LineageInv'
  BY <1>0, <1>4, ChargesKeep DEF RecordFact
<1>5. ASSUME NEW id \in PacketIds, NEW cost \in Spends, ReconcilePacket(id, cost)
      PROVE  LineageInv'
  <2>1. spent' \in [LineageAxes -> Nat]
    BY <1>0, <1>5, ChargeTyped, LineageAssumption DEF ReconcilePacket
  <2> QED  BY <1>5, <2>1, ChargesKeep DEF ReconcilePacket
<1>6. ASSUME NEW id \in PacketIds, NEW size \in CarrierSizes, PayCarrier(id, size)
      PROVE  LineageInv'
  <2>1. spent' \in [LineageAxes -> Nat]
    BY <1>0, <1>6, ChargeTyped, CostsTyped, LineageAssumption DEF PayCarrier
  <2> QED  BY <1>6, <2>1, ChargesKeep DEF PayCarrier
<1>7. ASSUME NEW id \in PacketIds, MarkContinued(id, id)
      PROVE  LineageInv'
  BY <1>7, MarkKeeps
<1>8. ASSUME NEW final \in TerminalStatuses, Finish(final)
      PROVE  LineageInv'
  BY <1>0, <1>8, ChargesKeep DEF Finish
<1>9. CASE UNCHANGED lineageVars
  BY <1>0, <1>9, ChargesKeep DEF lineageVars
<1> QED
  BY <1>1, <1>2, <1>3, <1>4, <1>5, <1>6, <1>7, <1>8, <1>9 DEF LineageNext

\* Every lineage is a chain: each generation descends from the corpse of the
\* one before it (lineage.lua, begin_generation to mark_continued).
THEOREM LineageAncestry == LineageSpec => []AncestryChain
<1>1. LineageInv => AncestryChain
  BY DEF LineageInv
<1> QED  BY <1>1, LineageInitInv, LineageStep, PTL DEF LineageSpec

\* A finished lineage keeps its outcome and its generations (finish, and the
\* status guards of the other operations).
THEOREM LineageFinishedForGood == LineageSpec => FinishedForGood
<1>1. [LineageNext]_lineageVars
        => [(status \in TerminalStatuses) => (status' = status /\ gens' = gens)]_lineageVars
  BY DEF LineageNext, BeginGeneration, CommitBirth, RegisterCorpse, RecordFact,
         ReconcilePacket, PayCarrier, MarkContinued, Finish, Ready, TerminalStatuses
<1> QED  BY <1>1, PTL DEF LineageSpec, FinishedForGood

-----------------------------------------------------------------------------
\* The runner implements the lineage

\* What the lineage operations of a step are given.
StepInv ==
  /\ births \in Nat
  /\ pc \notin {"start", "head", "launch", "report", "done", "abort", "flush", "failed"}
       => births \in PacketIds
  /\ pc \in {"bury", "reconcile"} => remains \in Corpses

LEMMA StepInvInit == RunnerInit => StepInv
  BY DEF RunnerInit, StepInv

LEMMA StepInvStep == StepInv /\ [RunnerNext]_runnerVars => StepInv'
<1> SUFFICES ASSUME StepInv, [RunnerNext]_runnerVars
             PROVE  StepInv'
  OBVIOUS
<1> USE DEF StepInv
<1>1. CASE UNCHANGED runnerVars
  BY <1>1 DEF runnerVars
<1>2. CASE StartSync \/ AssessmentSync \/ ContinuationSync \/ FinishReport
  BY <1>2 DEF StartSync, AssessmentSync, ContinuationSync, FinishReport, SyncStage, Fail
<1>3. CASE \/ PacketBudgetFails \/ LaunchFails \/ NewbornFails \/ LifeFails
           \/ ReconcileFails \/ AssessFails \/ CarrierFails \/ IngressFails
  BY <1>3 DEF PacketBudgetFails, LaunchFails, NewbornFails, LifeFails, ReconcileFails,
              AssessFails, CarrierFails, IngressFails, Fail
<1>4. CASE \/ CeilingReached \/ DecideEnd \/ CarrierTooLarge \/ RetireRepository
           \/ \E allocation \in Allocations : CannotAllocate(allocation)
           \/ \E size \in CarrierSizes : CannotPayCarrier(size)
  BY <1>4 DEF CeilingReached, DecideEnd, CarrierTooLarge, RetireRepository,
              CannotAllocate, CannotPayCarrier, End
<1>5. CASE \E allocation \in Allocations : Allocate(allocation)
  BY <1>5 DEF Allocate
<1>6. CASE AdvanceBirth
  BY <1>6 DEF AdvanceBirth
<1>7. CASE BirthHook \/ SessionTaken
  BY <1>7 DEF BirthHook, SessionTaken
<1>8. CASE \E corpse \in Corpses : LifeEndsDead(corpse)
  BY <1>8 DEF LifeEndsDead
<1>9. CASE GraveFails \/ Bury \/ Reconcile \/ Assess
  BY <1>9 DEF GraveFails, Bury, Reconcile, Assess
<1>10. CASE \/ Continue \/ PrepareIngress
            \/ \E size \in CarrierSizes : BuildCarrier(size)
  BY <1>10 DEF Continue, PrepareIngress, BuildCarrier, Recover
<1>11. CASE TerminateLoud \/ Flush \/ Returned
  BY <1>11 DEF TerminateLoud, Flush, Returned, runnerVars
<1> QED
  BY <1>1, <1>2, <1>3, <1>4, <1>5, <1>6, <1>7, <1>8, <1>9, <1>10, <1>11
  DEF RunnerNext, Progress

\* Every step of the runner is a step of the lineage or leaves it alone.
LEMMA RunnerStepRefines ==
  StepInv /\ [RunnerNext]_runnerVars => [LineageNext]_lineageVars
<1> SUFFICES ASSUME StepInv, [RunnerNext]_runnerVars
             PROVE  [LineageNext]_lineageVars
  OBVIOUS
<1>1. CASE UNCHANGED runnerVars
  BY <1>1 DEF runnerVars
<1>2. CASE StartSync \/ AssessmentSync \/ ContinuationSync \/ FinishReport
  BY <1>2 DEF StartSync, AssessmentSync, ContinuationSync, FinishReport, SyncStage, Fail
<1>3. CASE \/ PacketBudgetFails \/ LaunchFails \/ NewbornFails \/ LifeFails
           \/ ReconcileFails \/ AssessFails \/ CarrierFails \/ IngressFails
  BY <1>3 DEF PacketBudgetFails, LaunchFails, NewbornFails, LifeFails, ReconcileFails,
              AssessFails, CarrierFails, IngressFails, Fail
<1>4. CASE \/ CeilingReached \/ DecideEnd \/ CarrierTooLarge \/ RetireRepository
           \/ \E allocation \in Allocations : CannotAllocate(allocation)
           \/ \E size \in CarrierSizes : CannotPayCarrier(size)
  <2>1. \E final \in TerminalStatuses : Finish(final)
    <3>1. CASE DecideEnd
      <4>1. Finish(Outcome)
        BY <3>1 DEF DecideEnd, End
      <4>2. Outcome \in TerminalStatuses
        BY DEF Outcome, TerminalStatuses
      <4> QED  BY <4>1, <4>2
    <3> QED
      BY <1>4, <3>1 DEF CeilingReached, CarrierTooLarge, RetireRepository,
         CannotAllocate, CannotPayCarrier, End, TerminalStatuses
  <2> QED  BY <2>1 DEF LineageNext
<1>5. CASE \E allocation \in Allocations : Allocate(allocation)
  BY <1>5 DEF Allocate, LineageNext
<1>6. CASE AdvanceBirth \/ SessionTaken \/ PrepareIngress \/ Returned \/ Flush \/ GraveFails
  BY <1>6 DEF AdvanceBirth, SessionTaken, PrepareIngress, Returned, runnerVars, Flush, GraveFails
<1>7. CASE BirthHook
  <2>1. CommitBirth(births, pending) /\ births \in PacketIds
    BY <1>7 DEF BirthHook, CommitBirth, StepInv
  <2> QED  BY <2>1 DEF LineageNext
<1>8. CASE \E corpse \in Corpses : LifeEndsDead(corpse)
  BY <1>8 DEF LifeEndsDead, LineageNext, StepInv
<1>9. CASE Bury \/ Assess
  BY <1>9 DEF Bury, Assess, LineageNext, FactKinds
<1>10. CASE Reconcile
  <2>1. births \in PacketIds /\ remains.spend \in Spends
    BY <1>10, LineageRunnerAssumption DEF Reconcile, StepInv, CorpseRecords
  <2> QED  BY <1>10, <2>1 DEF Reconcile, LineageNext
<1>11. CASE Continue \/ \E size \in CarrierSizes : BuildCarrier(size)
  BY <1>11 DEF Continue, BuildCarrier, Recover, LineageNext, StepInv
<1>12. CASE TerminateLoud
  BY <1>12 DEF TerminateLoud, LineageNext, TerminalStatuses
<1> QED
  BY <1>1, <1>2, <1>3, <1>4, <1>5, <1>6, <1>7, <1>8, <1>9, <1>10, <1>11, <1>12
  DEF RunnerNext, Progress

\* Whatever the Packets, the policies and the limits, the runner uses the
\* lineage only as its operations allow (lineage_runner.run).
THEOREM RunnerImplementsLineage == RunnerSpec => LineageSpec
<1>1. RunnerInit => LineageInit
  BY DEF RunnerInit
<1> QED
  BY <1>1, StepInvInit, StepInvStep, RunnerStepRefines, PTL DEF RunnerSpec, LineageSpec

-----------------------------------------------------------------------------
\* The overdraft of a lineage

\* The stages in which nothing is overdrawn.
Solvent ==
  {"start", "head", "launch", "hook", "life", "bury", "reconcile", "continue",
   "ingress", "resync"}

BoundInv ==
  /\ spent \in [LineageAxes -> Nat]
  /\ remains.spend \in [LineageAxes -> Nat]
  /\ pc \in Solvent => \A a \in DOMAIN Limits : spent[a] <= Limits[a]
  /\ OverdrawBounded

LEMMA BoundInvInit == RunnerInit => BoundInv
  BY CostsTyped, LimitsPositive
  DEF RunnerInit, LineageInit, BoundInv, NoCorpse, ZeroCost, Solvent, OverdrawBounded

\* Steps that charge nothing and leave the corpse alone, from a solvent
\* stage or not to one.
LEMMA BoundKept ==
  ASSUME BoundInv, UNCHANGED <<spent, remains>>,
         \/ UNCHANGED <<births, charges>> /\ (pc' \in Solvent => pc \in Solvent)
         \/ pc \in Solvent
  PROVE  BoundInv'
<1>1. pc' \in Solvent => pc \in Solvent
  OBVIOUS
<1>2. CASE UNCHANGED <<births, charges>>
  BY <1>1, <1>2 DEF BoundInv, OverdrawBounded, Limits
<1>3. CASE pc \in Solvent
  BY <1>1, <1>3, LimitsPositive DEF BoundInv, OverdrawBounded, Limits
<1> QED  BY <1>2, <1>3

\* A charge that may not overdraw keeps a solvent lineage solvent.
LEMMA ChargeSolvent ==
  ASSUME spent \in [LineageAxes -> Nat], NEW cost \in [LineageAxes -> Nat], NEW key,
         \A a \in DOMAIN Limits : spent[a] <= Limits[a],
         Charge(key, cost, FALSE)
  PROVE  \A a \in DOMAIN Limits : spent'[a] <= Limits[a]
  BY LimitsPositive DEF Charge, CanAllocate, Remaining

LEMMA BoundInvStep == StepInv /\ BoundInv /\ [RunnerNext]_runnerVars => BoundInv'
<1> SUFFICES ASSUME StepInv, BoundInv, [RunnerNext]_runnerVars
             PROVE  BoundInv'
  OBVIOUS
<1>1. CASE UNCHANGED runnerVars
  BY <1>1, BoundKept DEF runnerVars, lineageVars
<1>2. CASE StartSync \/ AssessmentSync \/ ContinuationSync \/ FinishReport
  BY <1>2, BoundKept
  DEF StartSync, AssessmentSync, ContinuationSync, FinishReport, SyncStage, Fail,
      lineageVars, Solvent
<1>3. CASE \/ PacketBudgetFails \/ LaunchFails \/ NewbornFails \/ LifeFails
           \/ ReconcileFails \/ AssessFails \/ CarrierFails \/ IngressFails
  BY <1>3, BoundKept
  DEF PacketBudgetFails, LaunchFails, NewbornFails, LifeFails, ReconcileFails,
      AssessFails, CarrierFails, IngressFails, Fail, lineageVars, Solvent
<1>4. CASE \/ CeilingReached \/ DecideEnd \/ CarrierTooLarge \/ RetireRepository
           \/ \E allocation \in Allocations : CannotAllocate(allocation)
           \/ \E size \in CarrierSizes : CannotPayCarrier(size)
  BY <1>4, BoundKept
  DEF CeilingReached, DecideEnd, CarrierTooLarge, RetireRepository, CannotAllocate,
      CannotPayCarrier, End, Finish, Solvent
<1>5. CASE \E allocation \in Allocations : Allocate(allocation)
  BY <1>5, BoundKept DEF Allocate, BeginGeneration, Solvent
<1>6. CASE AdvanceBirth
  BY <1>6, BoundKept DEF AdvanceBirth, lineageVars, Solvent
<1>7. CASE SessionTaken \/ PrepareIngress \/ Returned
  BY <1>7, BoundKept
  DEF SessionTaken, PrepareIngress, Returned, runnerVars, lineageVars, Solvent
<1>8. CASE Bury \/ GraveFails \/ Assess \/ Continue
  BY <1>8, BoundKept
  DEF Bury, GraveFails, Assess, RecordFact, Continue, MarkContinued, lineageVars, Solvent
<1>9. CASE TerminateLoud \/ Flush
  BY <1>9, BoundKept DEF TerminateLoud, Finish, Flush, lineageVars, Solvent
<1>10. CASE BirthHook
  <2>1. /\ Charge(<<"generation", pending.generation>>, OneGeneration, FALSE)
        /\ pc \in Solvent /\ pc' \in Solvent
        /\ UNCHANGED remains
    BY <1>10 DEF BirthHook, CommitBirth, Solvent
  <2>2. spent' \in [LineageAxes -> Nat]
    BY <2>1, ChargeTyped, CostsTyped DEF BoundInv
  <2>3. \A a \in DOMAIN Limits : spent'[a] <= Limits[a]
    BY <2>1, ChargeSolvent, CostsTyped DEF BoundInv
  <2> QED  BY <2>1, <2>2, <2>3, LimitsPositive DEF BoundInv, OverdrawBounded, Limits
<1>11. CASE \E corpse \in Corpses : LifeEndsDead(corpse)
  <2>1. /\ remains' \in Corpses
        /\ pc \in Solvent
        /\ UNCHANGED spent
    BY <1>11 DEF LifeEndsDead, RegisterCorpse, Solvent
  <2>2. remains'.spend \in [LineageAxes -> Nat]
    BY <2>1, LineageAssumption, LineageRunnerAssumption DEF CorpseRecords
  <2> QED  BY <2>1, <2>2, LimitsPositive DEF BoundInv, OverdrawBounded, Limits
<1>12. CASE Reconcile
  <2>1. /\ Charge(<<"packet", births>>, remains.spend, TRUE)
        /\ pc \in Solvent /\ pc' = "assess"
        /\ UNCHANGED <<remains, births>>
    BY <1>12 DEF Reconcile, ReconcilePacket, Solvent
  <2>2. spent' \in [LineageAxes -> Nat]
    BY <2>1, ChargeTyped DEF BoundInv
  <2>3. <<"packet", births>> \in DOMAIN charges'
    BY <2>1, ChargeDomain
  <2>4. \A a \in DOMAIN Limits : spent'[a] <= Limits[a] + remains.spend[a]
    BY <2>1, LimitsPositive DEF BoundInv, Charge
  <2> QED  BY <2>1, <2>2, <2>3, <2>4 DEF BoundInv, OverdrawBounded, Solvent, Limits
<1>13. CASE \E size \in CarrierSizes : BuildCarrier(size)
  <2> PICK size \in CarrierSizes : BuildCarrier(size)
    BY <1>13
  <2>1. /\ Charge(<<"carrier", births>>, CarrierCost(size), FALSE)
        /\ ~Exhausted
        /\ pc' = "continue"
        /\ UNCHANGED <<remains, births>>
        /\ size \in Nat
    BY LineageAssumption DEF BuildCarrier, Recover, PayCarrier
  <2>2. \A a \in DOMAIN Limits : spent[a] <= Limits[a]
    BY <2>1, LimitsPositive DEF Exhausted, Remaining, BoundInv
  <2>3. spent' \in [LineageAxes -> Nat]
    BY <2>1, ChargeTyped, CostsTyped DEF BoundInv
  <2>4. \A a \in DOMAIN Limits : spent'[a] <= Limits[a]
    BY <2>1, <2>2, ChargeSolvent, CostsTyped DEF BoundInv
  <2> QED  BY <2>1, <2>3, <2>4, LimitsPositive DEF BoundInv, OverdrawBounded, Limits
<1> QED
  BY <1>1, <1>2, <1>3, <1>4, <1>5, <1>6, <1>7, <1>8, <1>9, <1>10, <1>11, <1>12, <1>13
  DEF RunnerNext, Progress

\* A lineage overdraws a limit by at most what its last Packet spent, for
\* every set of limits and whatever the Packets spend (reconcile_packet and
\* the exhaustion check of lineage_runner.run).
THEOREM RunnerOverdrawBounded == RunnerSpec => []OverdrawBounded
<1>1. BoundInv => OverdrawBounded
  BY DEF BoundInv
<1> QED
  BY <1>1, StepInvInit, StepInvStep, BoundInvInit, BoundInvStep, PTL DEF RunnerSpec

-----------------------------------------------------------------------------
\* The birth hook

\* Stages in which a generation is on its way to be born.
Expecting == {"start", "head", "launch", "hook"}
Reentering == {"continue", "ingress", "resync"}
Failing == {"abort", "flush", "failed"}

StageInv ==
  /\ pc \in Expecting => Ready
  /\ pc \in {"ingress", "resync"} => status = "continuing"
  /\ pc \notin {"launch", "hook", "report", "done"} \cup Failing => pending = NoTransaction
  /\ pc \in {"launch", "hook"} => pending = Heir
  /\ pc \in Expecting \cup {"resync"} => ingress = Heir
  /\ \A n \in Nat : <<"generation", n>> \in DOMAIN charges => n <= Len(gens)
  /\ pc = "hook" => births = Len(gens) + 1
  /\ pc \notin {"hook"} \cup Failing => births = Len(gens)
  /\ pc \in Failing /\ births # Len(gens) =>
       births = Len(gens) + 1 /\ pending.generation = births
  /\ pc \in Expecting \cup Reentering /\ "generations" \in DOMAIN Limits =>
       spent["generations"] < Limits["generations"]

LEMMA StageInvInit == RunnerInit => StageInv
  BY LimitsPositive, LineageAssumption
  DEF RunnerInit, LineageInit, StageInv, Expecting, Reentering, Failing, Ready, Heir,
      NoTransaction, Generation, ZeroCost

\* Steps that only move from stage to stage.
LEMMA StageKept ==
  ASSUME StageInv,
         UNCHANGED <<gens, pending, corpseId, carrierId, charges, spent, births, ingress>>,
         \/ /\ UNCHANGED status
            /\ \/ pc' = pc
               \/ pc = "start" /\ pc' = "head"
               \/ pc = "resync" /\ pc' = "head"
               \/ pc \in {"bury", "reconcile", "assess", "sync"}
                    /\ pc' \in {"reconcile", "assess", "sync", "decide"}
         \/ /\ pc' \in {"report", "done"}
            /\ pc \in {"head", "decide", "continue", "report"}
         \/ pc' \in Failing
  PROVE  StageInv'
<1>1. Heir' = Heir
  BY DEF Heir, Generation, Current
<1>2. CASE pc' \in Failing
  BY <1>1, <1>2 DEF StageInv, Expecting, Reentering, Failing, Heir, Generation
<1>3. CASE pc' \in {"report", "done"} /\ pc \in {"head", "decide", "continue", "report"}
  BY <1>3 DEF StageInv, Expecting, Reentering, Failing
<1>4. CASE UNCHANGED status /\ pc' = pc
  BY <1>1, <1>4 DEF StageInv, Ready
<1>5. CASE UNCHANGED status /\ pc \in {"start", "resync"} /\ pc' = "head"
  BY <1>1, <1>5 DEF StageInv, Expecting, Reentering, Failing, Ready
<1>6. CASE /\ pc \in {"bury", "reconcile", "assess", "sync"}
           /\ pc' \in {"reconcile", "assess", "sync", "decide"}
  BY <1>6 DEF StageInv, Expecting, Reentering, Failing
<1> QED  BY <1>2, <1>3, <1>4, <1>5, <1>6

LEMMA StageInvStep ==
  StepInv /\ StageInv /\ LineageInv /\ [RunnerNext]_runnerVars => StageInv'
<1> SUFFICES ASSUME StepInv, StageInv, LineageInv, [RunnerNext]_runnerVars
             PROVE  StageInv'
  OBVIOUS
<1>0. gens \in Seq(GenerationRecords) /\ Len(gens) \in Nat
  BY DEF LineageInv, LineageTyped
<1>1. CASE UNCHANGED runnerVars \/ SessionTaken \/ Returned
  BY <1>1, StageKept DEF runnerVars, lineageVars, SessionTaken, Returned
<1>2. CASE StartSync \/ AssessmentSync \/ ContinuationSync \/ FinishReport
  BY <1>2, StageKept
  DEF StartSync, AssessmentSync, ContinuationSync, FinishReport, SyncStage, Fail,
      lineageVars, Failing
<1>3. CASE \/ PacketBudgetFails \/ LaunchFails \/ NewbornFails \/ LifeFails
           \/ ReconcileFails \/ AssessFails \/ CarrierFails \/ IngressFails
  BY <1>3, StageKept
  DEF PacketBudgetFails, LaunchFails, NewbornFails, LifeFails, ReconcileFails,
      AssessFails, CarrierFails, IngressFails, Fail, lineageVars, Failing
<1>4. CASE \/ CeilingReached \/ DecideEnd \/ CarrierTooLarge \/ RetireRepository
           \/ \E allocation \in Allocations : CannotAllocate(allocation)
           \/ \E size \in CarrierSizes : CannotPayCarrier(size)
  BY <1>4, StageKept
  DEF CeilingReached, DecideEnd, CarrierTooLarge, RetireRepository, CannotAllocate,
      CannotPayCarrier, End, Finish, Recover
<1>5. CASE TerminateLoud \/ Flush \/ GraveFails
  BY <1>5, StageKept DEF TerminateLoud, Flush, GraveFails, Finish, lineageVars, Failing
<1>6. CASE Bury \/ Assess
  BY <1>6, StageKept DEF Bury, Assess, RecordFact
<1>7. CASE \E allocation \in Allocations : Allocate(allocation)
  <2>1. /\ pc = "head" /\ pc' = "launch"
        /\ pending' = Heir
        /\ UNCHANGED <<status, gens, corpseId, carrierId, charges, spent, births, ingress>>
    BY <1>7 DEF Allocate, BeginGeneration, Heir
  <2>2. Heir' = Heir
    BY <2>1 DEF Heir, Generation, Current
  <2> QED  BY <2>1, <2>2 DEF StageInv, Expecting, Reentering, Failing, Ready
<1>8. CASE AdvanceBirth
  <2>1. Heir' = Heir
    BY <1>8 DEF AdvanceBirth, lineageVars, Heir, Generation, Current
  <2> QED
    BY <1>8, <2>1 DEF AdvanceBirth, lineageVars, StageInv, Expecting, Reentering, Failing, Ready
<1>9. CASE BirthHook
  <2>1. /\ pc = "hook" /\ pc' = "life"
        /\ pending' = NoTransaction
        /\ births' = births
        /\ Len(gens') = Len(gens) + 1
        /\ Charge(<<"generation", pending.generation>>, OneGeneration, FALSE)
    <3>1. [generation |-> pending.generation, packet |-> births, parent |-> pending,
           corpse |-> 0] \in GenerationRecords
      BY <1>9 DEF BirthHook, StepInv, GenerationRecords, LineageInv, LineageTyped, Transactions
    <3>2. gens' = Append(gens, [generation |-> pending.generation, packet |-> births,
                                parent |-> pending, corpse |-> 0])
      BY <1>9 DEF BirthHook, CommitBirth
    <3>3. Len(gens') = Len(gens) + 1
      BY <1>0, <3>1, <3>2
    <3> QED  BY <1>9, <3>3 DEF BirthHook, CommitBirth
  <2>2. pending.generation = Len(gens) + 1
    BY <2>1 DEF StageInv, Heir, Generation
  <2>3. \A n \in Nat : <<"generation", n>> \in DOMAIN charges' => n <= Len(gens')
    <3>1. DOMAIN charges' = DOMAIN charges \cup {<<"generation", pending.generation>>}
      BY <2>1, ChargeDomain
    <3>2. \A n \in Nat : <<"generation", n>> \in DOMAIN charges' =>
            <<"generation", n>> \in DOMAIN charges \/ n = pending.generation
      BY <3>1, KeysDiffer, Zenon
    <3> QED  BY <1>0, <2>1, <2>2, <3>2 DEF StageInv
  <2> QED  BY <2>1, <2>3 DEF StageInv, Expecting, Reentering, Failing
<1>10. CASE \E corpse \in Corpses : LifeEndsDead(corpse)
  <2>1. /\ pc = "life" /\ pc' = "bury"
        /\ UNCHANGED <<pending, charges, spent, births>>
        /\ Len(gens') = Len(gens)
    BY <1>0, <1>10 DEF LifeEndsDead, RegisterCorpse
  <2> QED  BY <2>1 DEF StageInv, Expecting, Reentering, Failing
<1>11. CASE Reconcile
  <2>1. /\ pc = "reconcile" /\ pc' = "assess"
        /\ Charge(<<"packet", births>>, remains.spend, TRUE)
        /\ UNCHANGED <<gens, pending, births>>
    BY <1>11 DEF Reconcile, ReconcilePacket
  <2>2. \A n \in Nat : <<"generation", n>> \in DOMAIN charges' => n <= Len(gens')
    <3>1. DOMAIN charges' = DOMAIN charges \cup {<<"packet", births>>}
      BY <2>1, ChargeDomain
    <3>2. \A n \in Nat : <<"generation", n>> \in DOMAIN charges' =>
            <<"generation", n>> \in DOMAIN charges
      BY <3>1, KeysDiffer, Zenon
    <3> QED  BY <2>1, <3>2 DEF StageInv
  <2> QED  BY <2>1, <2>2 DEF StageInv, Expecting, Reentering, Failing
<1>12. CASE \E size \in CarrierSizes : BuildCarrier(size)
  <2> PICK size \in CarrierSizes : BuildCarrier(size)
    BY <1>12
  <2>1. /\ pc = "decide" /\ pc' = "continue"
        /\ Charge(<<"carrier", births>>, CarrierCost(size), FALSE)
        /\ ~Exhausted
        /\ UNCHANGED <<gens, pending, births>>
        /\ size \in Nat
    BY LineageAssumption DEF BuildCarrier, Recover, PayCarrier
  <2>2. \A n \in Nat : <<"generation", n>> \in DOMAIN charges' => n <= Len(gens')
    <3>1. DOMAIN charges' = DOMAIN charges \cup {<<"carrier", births>>}
      BY <2>1, ChargeDomain
    <3>2. \A n \in Nat : <<"generation", n>> \in DOMAIN charges' =>
            <<"generation", n>> \in DOMAIN charges
      BY <3>1, KeysDiffer, Zenon
    <3> QED  BY <2>1, <3>2 DEF StageInv
  <2>3. CarrierCost(size)["generations"] = 0 /\ spent \in [LineageAxes -> Nat]
    BY LineageAssumption DEF CarrierCost, ZeroCost, LineageInv, LineageTyped
  <2>4. spent'["generations"] = spent["generations"]
    BY <2>1, <2>3, LineageAssumption DEF Charge
  <2>5. "generations" \in DOMAIN Limits => spent["generations"] < Limits["generations"]
    BY <2>1, <2>3, LimitsPositive DEF Exhausted, Remaining
  <2> QED
    BY <2>1, <2>2, <2>4, <2>5 DEF StageInv, Expecting, Reentering, Failing, Limits
<1>13. CASE Continue
  BY <1>13 DEF Continue, MarkContinued, StageInv, Expecting, Reentering, Failing
<1>14. CASE PrepareIngress
  <2>1. gens # <<>> /\ Generation # 0
    BY <1>0, <1>14 DEF PrepareIngress, StageInv, LineageInv, ChainEnd, Generation
  <2>2. ingress' = Heir /\ Heir' = Heir
    BY <1>14, <2>1 DEF PrepareIngress, Heir, lineageVars, Generation, Current
  <2> QED
    BY <1>14, <2>2
    DEF PrepareIngress, lineageVars, StageInv, Expecting, Reentering, Failing, Ready
<1> QED
  BY <1>1, <1>2, <1>3, <1>4, <1>5, <1>6, <1>7, <1>8, <1>9, <1>10, <1>11, <1>12, <1>13,
     <1>14
  DEF RunnerNext, Progress

\* Every newborn Packet is accepted: commit_birth finds the transaction it
\* expects, an uncharged generation and an affordable one.
THEOREM RunnerBirthHookAccepts == RunnerSpec => []BirthHookAccepts
<1>1. StageInv /\ LineageInv => BirthHookAccepts
  <2> SUFFICES ASSUME StageInv, LineageInv, pc = "hook"
               PROVE  /\ Ready
                      /\ ingress = pending
                      /\ <<"generation", pending.generation>> \notin DOMAIN charges
                      /\ CanAllocate(OneGeneration)
    BY DEF BirthHookAccepts
  <2>1. Ready /\ ingress = Heir /\ pending = Heir
    BY DEF StageInv, Expecting
  <2>2. pending.generation = Len(gens) + 1 /\ Len(gens) \in Nat
    BY <2>1 DEF Heir, Generation, LineageInv, LineageTyped
  <2>3. <<"generation", pending.generation>> \notin DOMAIN charges
    BY <2>2 DEF StageInv
  <2>4. \A a \in LineageAxes :
          OneGeneration[a] = IF a = "generations" THEN 1 ELSE 0
    BY LineageAssumption DEF OneGeneration, ZeroCost
  <2>5. "generations" \in DOMAIN Limits => spent["generations"] < Limits["generations"]
    BY DEF StageInv, Expecting
  <2>6. spent \in [LineageAxes -> Nat]
    BY DEF LineageInv, LineageTyped
  <2>7. CanAllocate(OneGeneration)
    BY <2>4, <2>5, <2>6, LimitsPositive DEF CanAllocate, Remaining
  <2> QED  BY <2>1, <2>3, <2>7
<1>2. RunnerInit => LineageInv
  BY LineageInitInv DEF RunnerInit
<1> QED
  BY <1>1, <1>2, StepInvInit, StepInvStep, StageInvInit, StageInvStep, RunnerStepRefines,
     LineageStep, PTL
  DEF RunnerSpec

\* L1 and the lineage agree on the births of every run, but for a newborn
\* that failed before its hook and left its generation pending.
THEOREM RunnerBirthsAccounted == RunnerSpec => []BirthsAccounted
<1>1. StageInv /\ LineageInv => BirthsAccounted
  BY DEF StageInv, LineageInv, LineageTyped, BirthsAccounted, Failing, Heir, Generation
<1>2. RunnerInit => LineageInv
  BY LineageInitInv DEF RunnerInit
<1> QED
  BY <1>1, <1>2, StepInvInit, StepInvStep, StageInvInit, StageInvStep, RunnerStepRefines,
     LineageStep, PTL
  DEF RunnerSpec

-----------------------------------------------------------------------------
\* What run() returns

\* The judgement of a corpse calls a task complete only on a plan delivered
\* under the plan contract, and unsafe only on an unsafe death.
LEMMA EvaluateTask ==
  ASSUME NEW corpse
  PROVE  /\ Evaluate(corpse).task = "complete" => policy.contract = "plan.v0" /\ corpse.plan
         /\ Evaluate(corpse).task = "unsafe" => Unsafe(corpse)
<1>1. \A task, basis : Assessment(task, basis).task = task
  BY DEF Assessment
<1>2. CASE Unsafe(corpse)
  BY <1>1, <1>2 DEF Evaluate
<1>3. CASE ~Unsafe(corpse) /\ policy.contract = "plan.v0" /\ corpse.plan
  BY <1>1, <1>3 DEF Evaluate
<1>4. CASE ~Unsafe(corpse) /\ ~(policy.contract = "plan.v0" /\ corpse.plan)
  <2>1. Evaluate(corpse) \in
          {Assessment("unfinished", "qa_rejected"), Assessment("unknown", "none"),
           Assessment("unfinished", corpse.cause), Assessment("blocked", "none")}
    BY <1>4 DEF Evaluate
  <2>2. Evaluate(corpse).task \in {"unfinished", "unknown", "blocked"}
    BY <1>1, <2>1
  <2> QED  BY <2>2
<1> QED  BY <1>2, <1>3, <1>4

\* Stages in which run() has its outcome.
Returning == {"report", "done", "flush", "failed"}

EndInv ==
  /\ pc \in Returning => status \in TerminalStatuses
  /\ status \in TerminalStatuses => pc \in Returning \cup {"abort"}
  /\ pc \in {"sync", "decide", "continue"} =>
       /\ verdict.task = "complete" => policy.contract = "plan.v0" /\ remains.plan
       /\ verdict.task = "unsafe" => Unsafe(remains)
  /\ LineageOutcomeTruthful

LEMMA EndInvInit == RunnerInit => EndInv
  BY DEF RunnerInit, LineageInit, EndInv, LineageOutcomeTruthful, TerminalStatuses, Returning

\* Stages of an unfinished lineage: a step that neither ends it nor judges.
LEMMA EndKeptOpen ==
  ASSUME EndInv, pc \notin Returning \cup {"abort"},
         pc' \notin Returning \cup {"sync"}, status' \notin TerminalStatuses,
         pc' \in {"decide", "continue"} =>
           pc \in {"sync", "decide", "continue"} /\ UNCHANGED <<verdict, remains, policy>>
  PROVE  EndInv'
  BY DEF EndInv, LineageOutcomeTruthful, TerminalStatuses, Returning, Unsafe

\* A failing stage, and a stage after the lineage has ended.
LEMMA EndKeptClosed ==
  ASSUME EndInv, UNCHANGED <<status, policy, remains, spent>>,
         \/ pc' = "abort"
         \/ pc = "report" /\ pc' = "done"
         \/ pc = "flush" /\ pc' = "failed"
         \/ pc' = pc /\ UNCHANGED verdict
  PROVE  EndInv'
<1>1. Exhausted' = Exhausted /\ \A cost : CanAllocate(cost)' = CanAllocate(cost)
  BY DEF Exhausted, CanAllocate, Remaining
<1> QED
  BY <1>1 DEF EndInv, LineageOutcomeTruthful, TerminalStatuses, Returning, Unsafe

\* A stage that ends the lineage with an outcome it can justify.
LEMMA EndJustified ==
  ASSUME EndInv, NEW final \in TerminalStatuses, End(final),
         final = "complete" => policy.contract = "plan.v0" /\ remains.plan,
         final = "terminated" => Unsafe(remains),
         final = "exhausted" =>
           \/ Exhausted
           \/ \E cost \in Allocations \cup {CarrierCost(n) : n \in CarrierSizes} :
                ~CanAllocate(cost)
  PROVE  EndInv'
<1>1. pc' = "report" /\ status' = final /\ UNCHANGED <<policy, remains, spent>>
  BY DEF End, Finish
<1>2. Exhausted' = Exhausted /\ \A cost : CanAllocate(cost)' = CanAllocate(cost)
  BY <1>1 DEF Exhausted, CanAllocate, Remaining
<1> QED
  BY <1>1, <1>2 DEF EndInv, LineageOutcomeTruthful, Returning, Unsafe

LEMMA EndInvStep == EndInv /\ [RunnerNext]_runnerVars => EndInv'
<1> SUFFICES ASSUME EndInv, [RunnerNext]_runnerVars
             PROVE  EndInv'
  OBVIOUS
<1> USE DEF Returning
<1>1. CASE UNCHANGED runnerVars \/ SessionTaken \/ Returned
  BY <1>1, EndKeptClosed DEF runnerVars, lineageVars, SessionTaken, Returned
<1>2. CASE StartSync \/ AssessmentSync \/ ContinuationSync \/ FinishReport
  <2>1. CASE ~owned
    BY <1>2, <2>1, EndKeptClosed
    DEF StartSync, AssessmentSync, ContinuationSync, FinishReport, SyncStage, Fail, lineageVars
  <2>2. CASE owned /\ (StartSync \/ AssessmentSync \/ ContinuationSync)
    BY <2>2, EndKeptOpen
    DEF StartSync, AssessmentSync, ContinuationSync, SyncStage, lineageVars, EndInv
  <2>3. CASE owned /\ FinishReport
    BY <2>3, EndKeptClosed DEF FinishReport, SyncStage, lineageVars
  <2> QED  BY <1>2, <2>1, <2>2, <2>3
<1>3. CASE \/ PacketBudgetFails \/ LaunchFails \/ NewbornFails \/ LifeFails
           \/ ReconcileFails \/ AssessFails \/ CarrierFails \/ IngressFails \/ GraveFails
  BY <1>3, EndKeptClosed
  DEF PacketBudgetFails, LaunchFails, NewbornFails, LifeFails, ReconcileFails,
      AssessFails, CarrierFails, IngressFails, GraveFails, Fail, lineageVars
<1>4. CASE CeilingReached \/ CarrierTooLarge \/ RetireRepository
  BY <1>4, EndJustified
  DEF CeilingReached, CarrierTooLarge, RetireRepository, TerminalStatuses
<1>5. CASE \E allocation \in Allocations : CannotAllocate(allocation)
  BY <1>5, EndJustified DEF CannotAllocate, TerminalStatuses
<1>6. CASE \E size \in CarrierSizes : CannotPayCarrier(size)
  BY <1>6, EndJustified DEF CannotPayCarrier, TerminalStatuses
<1>7. CASE DecideEnd
  <2>1. pc = "decide" /\ End(Outcome)
    BY <1>7 DEF DecideEnd
  <2>2. Outcome \in TerminalStatuses
    BY DEF Outcome, TerminalStatuses
  <2>3. /\ Outcome = "complete" => verdict.task = "complete"
        /\ Outcome = "terminated" => verdict.task = "unsafe"
        /\ Outcome = "exhausted" => Exhausted
    BY DEF Outcome
  <2> QED  BY <2>1, <2>2, <2>3, EndJustified DEF EndInv
<1>8. CASE \/ AdvanceBirth \/ BirthHook \/ Bury \/ Reconcile \/ Continue \/ PrepareIngress
           \/ \E allocation \in Allocations : Allocate(allocation)
           \/ \E corpse \in Corpses : LifeEndsDead(corpse)
           \/ \E size \in CarrierSizes : BuildCarrier(size)
  BY <1>8, EndKeptOpen
  DEF AdvanceBirth, BirthHook, CommitBirth, Bury, RecordFact, Reconcile, ReconcilePacket,
      Continue, MarkContinued, PrepareIngress, Allocate, BeginGeneration, LifeEndsDead,
      RegisterCorpse, BuildCarrier, PayCarrier, Recover, lineageVars, EndInv, TerminalStatuses
<1>9. CASE Assess
  <2>1. /\ pc = "assess" /\ pc' = "sync"
        /\ verdict' = Evaluate(remains)
        /\ UNCHANGED <<status, policy, remains>>
    BY <1>9 DEF Assess, RecordFact
  <2> QED
    BY <2>1, EvaluateTask DEF EndInv, LineageOutcomeTruthful, TerminalStatuses, Unsafe
<1>10. CASE TerminateLoud
  <2>1. /\ pc = "abort" /\ pc' = "flush" /\ UNCHANGED <<policy, remains, spent, verdict>>
        /\ status' \in TerminalStatuses
        /\ status' = status \/ status' = "terminated"
    BY <1>10 DEF TerminateLoud, Finish, lineageVars, TerminalStatuses
  <2>2. Exhausted' = Exhausted /\ \A cost : CanAllocate(cost)' = CanAllocate(cost)
    BY <2>1 DEF Exhausted, CanAllocate, Remaining
  <2> QED  BY <2>1, <2>2 DEF EndInv, LineageOutcomeTruthful
<1>11. CASE Flush
  BY <1>11, EndKeptClosed DEF Flush, lineageVars
<1> QED
  BY <1>1, <1>2, <1>3, <1>4, <1>5, <1>6, <1>7, <1>8, <1>9, <1>10, <1>11
  DEF RunnerNext, Progress

\* What run() returns is true of the lineage, for every policy, ceiling and
\* corpse (completion.evaluate, the outcomes of lineage_runner.run and
\* terminate_loud).
THEOREM RunnerOutcomeTruthful == RunnerSpec => []LineageOutcomeTruthful
<1>1. EndInv => LineageOutcomeTruthful
  BY DEF EndInv
<1> QED  BY <1>1, EndInvInit, EndInvStep, PTL DEF RunnerSpec

-----------------------------------------------------------------------------
\* The generations before the current one are settled

\* Packet k has died for good: its spending and its carrier are paid, and
\* its corpse was continued.
Settled(k) ==
  {<<"packet", k>>, <<"carrier", k>>} \subseteq DOMAIN charges /\ k \in continued

\* Stages in which every Packet born so far is in its grave.
Buried == Expecting \cup Reentering \cup {"reconcile", "assess", "sync", "decide"}

\* Packets are numbered as their generations, and buried in that order.
Numbered ==
  /\ \A k \in 1..Len(gens) : gens[k].packet = k
  /\ indexed \in Seq(Nat) /\ \A k \in 1..Len(indexed) : indexed[k] = k
  /\ graves \in Seq(Nat) /\ \A k \in 1..Len(graves) : graves[k] = k

GravesFilled ==
  /\ Len(indexed) >= Len(gens) - 1 /\ Len(graves) >= Len(gens) - 1
  /\ pc \in Buried => Len(indexed) = Len(gens) /\ Len(graves) = Len(gens)
  /\ pc \in {"life", "bury"} =>
       Len(indexed) = Len(gens) - 1 /\ Len(graves) = Len(gens) - 1

AllSettled ==
  /\ \A k \in 1..(Len(gens) - 1) : Settled(k)
  /\ pc \in Expecting \cup {"ingress", "resync"} => \A k \in 1..Len(gens) : Settled(k)
  /\ pc \in {"assess", "sync", "decide", "continue"} =>
       <<"packet", Len(gens)>> \in DOMAIN charges
  /\ pc = "continue" => <<"carrier", Len(gens)>> \in DOMAIN charges

SettleInv == Numbered /\ GravesFilled /\ AllSettled

LEMMA SettleInvInit == RunnerInit => SettleInv
  BY DEF RunnerInit, LineageInit, SettleInv, Numbered, GravesFilled, AllSettled

\* Steps that leave the generations, the graves and the charges alone.
LEMMA SettleKept ==
  ASSUME SettleInv, UNCHANGED <<gens, indexed, graves, charges, continued>>,
         \/ pc' = pc
         \/ pc' \in {"report", "done", "abort", "flush", "failed"}
         \/ pc \in Expecting \cup {"ingress", "resync"}
              /\ pc' \in Expecting \cup {"ingress", "resync"}
         \/ pc \in {"assess", "sync"} /\ pc' \in {"sync", "decide"}
  PROVE  SettleInv'
<1>1. Numbered'
  BY DEF SettleInv, Numbered
<1>2. GravesFilled'
  BY DEF SettleInv, GravesFilled, Buried, Expecting, Reentering
<1>3. AllSettled'
  BY DEF SettleInv, AllSettled, Settled, Expecting
<1> QED  BY <1>1, <1>2, <1>3 DEF SettleInv

LEMMA SettleInvStep ==
  /\ StepInv /\ StageInv /\ LineageInv /\ SettleInv /\ [RunnerNext]_runnerVars
  => SettleInv'
<1> SUFFICES ASSUME StepInv, StageInv, LineageInv, SettleInv, [RunnerNext]_runnerVars
             PROVE  SettleInv'
  OBVIOUS
<1>0. /\ gens \in Seq(GenerationRecords) /\ Len(gens) \in Nat /\ births \in Nat
      /\ indexed \in Seq(Nat) /\ Len(indexed) \in Nat
      /\ graves \in Seq(Nat) /\ Len(graves) \in Nat
  BY DEF LineageInv, LineageTyped, StepInv, SettleInv, Numbered
<1>1. CASE UNCHANGED runnerVars \/ SessionTaken \/ Returned
  BY <1>1, SettleKept DEF runnerVars, lineageVars, sessionVars, SessionTaken, Returned
<1>2. CASE StartSync \/ AssessmentSync \/ ContinuationSync \/ FinishReport
  BY <1>2, SettleKept
  DEF StartSync, AssessmentSync, ContinuationSync, FinishReport, SyncStage, Fail,
      lineageVars, sessionVars, Expecting
<1>3. CASE \/ PacketBudgetFails \/ LaunchFails \/ NewbornFails \/ LifeFails
           \/ ReconcileFails \/ AssessFails \/ CarrierFails \/ IngressFails
  BY <1>3, SettleKept
  DEF PacketBudgetFails, LaunchFails, NewbornFails, LifeFails, ReconcileFails,
      AssessFails, CarrierFails, IngressFails, Fail, lineageVars, sessionVars
<1>4. CASE \/ CeilingReached \/ DecideEnd \/ CarrierTooLarge \/ RetireRepository
           \/ \E allocation \in Allocations : CannotAllocate(allocation)
           \/ \E size \in CarrierSizes : CannotPayCarrier(size)
  BY <1>4, SettleKept
  DEF CeilingReached, DecideEnd, CarrierTooLarge, RetireRepository, CannotAllocate,
      CannotPayCarrier, End, Finish, sessionVars
<1>5. CASE TerminateLoud \/ Flush
  BY <1>5, SettleKept DEF TerminateLoud, Flush, Finish, lineageVars, sessionVars
<1>6. CASE Assess \/ AdvanceBirth \/ PrepareIngress
           \/ \E allocation \in Allocations : Allocate(allocation)
  BY <1>6, SettleKept
  DEF Assess, RecordFact, AdvanceBirth, PrepareIngress, Allocate, BeginGeneration,
      lineageVars, sessionVars, Expecting
<1>7. CASE BirthHook
  <2> DEFINE child == [generation |-> pending.generation, packet |-> births,
                       parent |-> pending, corpse |-> 0]
  <2>1. /\ pc = "hook" /\ pc' = "life"
        /\ gens' = Append(gens, child)
        /\ UNCHANGED <<indexed, graves, continued>>
        /\ births = Len(gens) + 1
        /\ births \in PacketIds
    BY <1>7 DEF BirthHook, CommitBirth, sessionVars, StageInv, StepInv
  <2>2. child \in GenerationRecords
    BY <2>1 DEF GenerationRecords, LineageInv, LineageTyped, Transactions
  <2>3. /\ Len(gens') = Len(gens) + 1
        /\ \A k \in 1..Len(gens) : gens'[k] = gens[k]
        /\ gens'[Len(gens) + 1].packet = births
    BY <1>0, <2>1, <2>2
  <2>4. DOMAIN charges \subseteq DOMAIN charges'
    BY <1>7, ChargeDomain DEF BirthHook, CommitBirth
  <2>5. Numbered'
    BY <1>0, <2>1, <2>3 DEF SettleInv, Numbered
  <2>6. GravesFilled'
    BY <1>0, <2>1, <2>3 DEF SettleInv, GravesFilled, Buried, Expecting, Reentering
  <2>7. \A k \in 1..Len(gens) : Settled(k)'
    BY <2>1, <2>4 DEF SettleInv, AllSettled, Settled, Expecting
  <2>8. AllSettled'
    BY <1>0, <2>1, <2>3, <2>7 DEF AllSettled, Expecting
  <2> QED  BY <2>5, <2>6, <2>8 DEF SettleInv
<1>8. CASE \E corpse \in Corpses : LifeEndsDead(corpse)
  <2>1. /\ pc = "life" /\ pc' = "bury"
        /\ gens' = [gens EXCEPT ![Generation].corpse = births]
        /\ UNCHANGED <<indexed, graves, charges, continued>>
    BY <1>8 DEF LifeEndsDead, RegisterCorpse, sessionVars
  <2>2. Len(gens') = Len(gens) /\ \A k \in 1..Len(gens) : gens'[k].packet = gens[k].packet
    BY <1>0, <2>1 DEF GenerationRecords
  <2>3. Numbered'
    BY <2>1, <2>2 DEF SettleInv, Numbered
  <2>4. GravesFilled'
    BY <2>1, <2>2 DEF SettleInv, GravesFilled, Buried, Expecting, Reentering
  <2>5. AllSettled'
    BY <2>1, <2>2 DEF SettleInv, AllSettled, Settled, Expecting
  <2> QED  BY <2>3, <2>4, <2>5 DEF SettleInv
<1>9. CASE GraveFails \/ Bury
  <2>1. /\ pc = "bury" /\ pc' \in {"abort", "reconcile"}
        /\ indexed' = Append(indexed, births)
        /\ \/ pc' = "abort" /\ graves' = graves
           \/ graves' = Append(graves, births)
        /\ UNCHANGED <<gens, charges, continued>>
        /\ births = Len(gens)
    BY <1>9 DEF GraveFails, Bury, RecordFact, lineageVars, StageInv, Failing
  <2>2. /\ indexed' \in Seq(Nat) /\ Len(indexed') = Len(gens)
        /\ \A k \in 1..Len(indexed') : indexed'[k] = k
    BY <1>0, <2>1 DEF SettleInv, Numbered, GravesFilled
  <2>3. graves' = Append(graves, births) =>
          /\ graves' \in Seq(Nat) /\ Len(graves') = Len(gens)
          /\ \A k \in 1..Len(graves') : graves'[k] = k
    BY <1>0, <2>1 DEF SettleInv, Numbered, GravesFilled
  <2>4. Numbered'
    BY <2>1, <2>2, <2>3 DEF SettleInv, Numbered
  <2>5. GravesFilled'
    BY <1>0, <2>1, <2>2, <2>3 DEF SettleInv, GravesFilled, Buried, Expecting, Reentering
  <2>6. AllSettled'
    BY <2>1 DEF SettleInv, AllSettled, Settled, Expecting
  <2> QED  BY <2>4, <2>5, <2>6 DEF SettleInv
<1>10. CASE Reconcile
  <2>1. /\ pc = "reconcile" /\ pc' = "assess"
        /\ UNCHANGED <<gens, indexed, graves, continued>>
        /\ births = Len(gens)
    BY <1>10 DEF Reconcile, ReconcilePacket, sessionVars, StageInv, Failing
  <2>2. DOMAIN charges' = DOMAIN charges \cup {<<"packet", Len(gens)>>}
    BY <1>10, <2>1, ChargeDomain DEF Reconcile, ReconcilePacket
  <2>3. Numbered' /\ GravesFilled'
    BY <2>1 DEF SettleInv, Numbered, GravesFilled, Buried, Expecting, Reentering
  <2>4. AllSettled'
    BY <2>1, <2>2 DEF SettleInv, AllSettled, Settled, Expecting
  <2> QED  BY <2>3, <2>4 DEF SettleInv
<1>11. CASE \E size \in CarrierSizes : BuildCarrier(size)
  <2> PICK size \in CarrierSizes : BuildCarrier(size)
    BY <1>11
  <2>1. /\ pc = "decide" /\ pc' = "continue"
        /\ UNCHANGED <<gens, indexed, graves, continued>>
        /\ births = Len(gens)
    BY DEF BuildCarrier, PayCarrier, Recover, sessionVars, StageInv, Failing
  <2>2. DOMAIN charges' = DOMAIN charges \cup {<<"carrier", Len(gens)>>}
    BY <2>1, ChargeDomain DEF BuildCarrier, PayCarrier
  <2>3. Numbered' /\ GravesFilled'
    BY <2>1 DEF SettleInv, Numbered, GravesFilled, Buried, Expecting, Reentering
  <2>4. AllSettled'
    BY <2>1, <2>2 DEF SettleInv, AllSettled, Settled, Expecting
  <2> QED  BY <2>3, <2>4 DEF SettleInv
<1>12. CASE Continue
  <2>1. /\ pc = "continue" /\ pc' = "ingress"
        /\ UNCHANGED <<gens, indexed, graves, charges>>
        /\ births = Len(gens)
        /\ continued' = continued \cup {births}
    BY <1>12 DEF Continue, MarkContinued, sessionVars, StageInv, Failing
  <2>2. Numbered' /\ GravesFilled'
    BY <2>1 DEF SettleInv, Numbered, GravesFilled, Buried, Expecting, Reentering
  <2>3. \A k \in 1..Len(gens) : Settled(k)'
    <3>1. \A k \in 1..(Len(gens) - 1) : Settled(k)'
      BY <2>1 DEF SettleInv, AllSettled, Settled
    <3>2. /\ <<"packet", Len(gens)>> \in DOMAIN charges'
          /\ <<"carrier", Len(gens)>> \in DOMAIN charges'
          /\ Len(gens) \in continued'
      BY <2>1 DEF SettleInv, AllSettled
    <3>3. \A k \in 1..Len(gens) : k \in 1..(Len(gens) - 1) \/ k = Len(gens)
      BY <1>0
    <3> QED  BY <3>1, <3>2, <3>3 DEF Settled
  <2>4. AllSettled'
    BY <1>0, <2>1, <2>3 DEF AllSettled, Expecting
  <2> QED  BY <2>2, <2>4 DEF SettleInv
<1> QED
  BY <1>1, <1>2, <1>3, <1>4, <1>5, <1>6, <1>7, <1>8, <1>9, <1>10, <1>11, <1>12
  DEF RunnerNext, Progress

\* No generation is born before its predecessor is settled: buried, paid for
\* and continued, in a session that holds the dead in their order (the steps
\* of lineage_runner.run between two births).
THEOREM RunnerPredecessorsSettled == RunnerSpec => []PredecessorsSettled
<1>1. SettleInv /\ LineageInv => PredecessorsSettled
  <2> SUFFICES ASSUME SettleInv, LineageInv, NEW k \in 1..(Len(gens) - 1)
               PROVE  LET id == gens[k].packet IN
                        /\ {<<"packet", id>>, <<"carrier", id>>} \subseteq DOMAIN charges
                        /\ id \in continued
                        /\ indexed[k] = id
                        /\ graves[k] = id
    BY DEF PredecessorsSettled
  <2>1. Len(gens) \in Nat /\ Len(indexed) \in Nat /\ Len(graves) \in Nat
    BY DEF LineageInv, LineageTyped, SettleInv, Numbered
  <2>2. k \in 1..Len(gens) /\ k \in 1..Len(indexed) /\ k \in 1..Len(graves)
    BY <2>1 DEF SettleInv, GravesFilled
  <2> QED  BY <2>2 DEF SettleInv, Numbered, AllSettled, Settled
<1>2. RunnerInit => LineageInv
  BY LineageInitInv DEF RunnerInit
<1> QED
  BY <1>1, <1>2, StepInvInit, StepInvStep, StageInvInit, StageInvStep, RunnerStepRefines,
     LineageStep, SettleInvInit, SettleInvStep, PTL
  DEF RunnerSpec

-----------------------------------------------------------------------------
\* Induction over the natural numbers, for sets

LEMMA LeastElement ==
  ASSUME NEW T, T \subseteq Nat, T # {}
  PROVE  \E x \in T : \A y \in T : x <= y
<1>1. PICK x \in T : \A y \in T : ~(<<y, x>> \in OpToRel(<, Nat))
  BY WFMin, NatLessThanWellFounded
<1>2. \A y \in T : <<y, x>> \in OpToRel(<, Nat) <=> y < x
  BY DEF OpToRel
<1>3. \A y \in T : ~(y < x)
  BY <1>1, <1>2, Zenon
<1>4. \A y \in T : x <= y
  BY <1>3
<1> QED  BY <1>4

LEMMA Induction ==
  ASSUME NEW S, 0 \in S, \A n \in Nat : n \in S => n + 1 \in S
  PROVE  Nat \subseteq S
<1> DEFINE T == Nat \ S
<1> SUFFICES ASSUME T # {} PROVE FALSE
  OBVIOUS
<1>1. PICK x \in T : \A y \in T : x <= y
  BY LeastElement
<1>2. x # 0 /\ x - 1 \in Nat
  BY <1>1
<1>3. x - 1 \in S
  BY <1>1, <1>2
<1> QED  BY <1>2, <1>3

\* Two functions that start alike and go on alike are alike.
GoAlike(f, g, m, n) ==
  /\ f[m] = g[m]
  /\ \A i \in (m + 1)..n : f[i - 1] = g[i - 1] => f[i] = g[i]

Alike(f, g, m, n) == \A i \in m..n : f[i] = g[i]

LEMMA SameCourse ==
  ASSUME NEW m \in Nat, NEW n \in Nat, NEW f, NEW g, GoAlike(f, g, m, n)
  PROVE  Alike(f, g, m, n)
<1> USE DEF GoAlike, Alike
<1> DEFINE S == {j \in Nat : m + j <= n => f[m + j] = g[m + j]}
<1>1. 0 \in S
  OBVIOUS
<1>2. ASSUME NEW j \in Nat, j \in S PROVE j + 1 \in S
  <2> SUFFICES ASSUME m + (j + 1) <= n PROVE f[m + (j + 1)] = g[m + (j + 1)]
    OBVIOUS
  <2>1. m + (j + 1) \in (m + 1)..n /\ (m + (j + 1)) - 1 = m + j /\ m + j <= n
    OBVIOUS
  <2>2. f[m + j] = g[m + j]
    BY <1>2, <2>1
  <2> QED  BY <2>1, <2>2
<1>3. Nat \subseteq S
  <2> HIDE DEF S
  <2> QED  BY <1>1, <1>2, Induction
<1> SUFFICES ASSUME NEW i \in m..n PROVE f[i] = g[i]
  OBVIOUS
<1>4. i - m \in Nat /\ m + (i - m) = i /\ i <= n
  OBVIOUS
<1>5. i - m \in S
  BY <1>3, <1>4
<1> QED  BY <1>4, <1>5

-----------------------------------------------------------------------------
\* The ledger and the session's copy of it

LedgerKinds ==
  {"lineage_created", "generation_allocated", "lineage_budget_spent", "generation_born",
   "packet_terminal", "corpse_registered", "grave_classified", "completion_evaluated",
   "carrier_built", "continuation_decided", "lineage_suspended", "lineage_completed",
   "lineage_exhausted", "lineage_terminated"}

LedgerEvents ==
  [id : Nat, kind : LedgerKinds, generation : Nat, cost : [LineageAxes -> Nat]]

\* append_event numbers the events by their place.
LedgerTyped ==
  ledger \in Seq(LedgerEvents) /\ \A i \in 1..Len(ledger) : ledger[i].id = i

\* The ledger only grows.
LedgerGrows ==
  /\ Len(ledger) <= Len(ledger')
  /\ \A i \in 1..Len(ledger) : ledger'[i] = ledger[i]

LEMMA Append1Grows ==
  ASSUME LedgerTyped, NEW kind \in LedgerKinds, NEW generation \in Nat,
         NEW cost \in [LineageAxes -> Nat], Append1(kind, generation, cost)
  PROVE  LedgerTyped' /\ LedgerGrows
<1>1. Event(Len(ledger) + 1, kind, generation, cost) \in LedgerEvents
  BY DEF LedgerTyped, Event, LedgerEvents
<1>2. Event(Len(ledger) + 1, kind, generation, cost).id = Len(ledger) + 1
  BY DEF Event
<1> QED  BY <1>1, <1>2 DEF LedgerTyped, LedgerGrows, Append1

\* Two events at once are one after the other.
LEMMA Append2IsTwice ==
  ASSUME LedgerTyped, NEW kind1 \in LedgerKinds, NEW kind2 \in LedgerKinds,
         NEW generation \in Nat, NEW cost1 \in [LineageAxes -> Nat],
         NEW cost2 \in [LineageAxes -> Nat],
         Append2(kind1, kind2, generation, cost1, cost2)
  PROVE  ledger' = Append(Append(ledger, Event(Len(ledger) + 1, kind1, generation, cost1)),
                          Event(Len(ledger) + 2, kind2, generation, cost2))
<1> DEFINE e1 == Event(Len(ledger) + 1, kind1, generation, cost1)
           e2 == Event(Len(ledger) + 2, kind2, generation, cost2)
<1>1. e1 \in LedgerEvents /\ e2 \in LedgerEvents
  BY DEF LedgerTyped, Event, LedgerEvents
<1>2. ledger' = ledger \o <<e1, e2>> /\ ledger \in Seq(LedgerEvents)
  BY DEF Append2, LedgerTyped
<1> HIDE DEF e1, e2
<1>3. ledger \o <<e1, e2>> = Append(Append(ledger, e1), e2)
  BY <1>1, <1>2
<1> QED  BY <1>2, <1>3 DEF e1, e2

LEMMA Append2Grows ==
  ASSUME LedgerTyped, NEW kind1 \in LedgerKinds, NEW kind2 \in LedgerKinds,
         NEW generation \in Nat, NEW cost1 \in [LineageAxes -> Nat],
         NEW cost2 \in [LineageAxes -> Nat],
         Append2(kind1, kind2, generation, cost1, cost2)
  PROVE  LedgerTyped' /\ LedgerGrows
<1> DEFINE e1 == Event(Len(ledger) + 1, kind1, generation, cost1)
           e2 == Event(Len(ledger) + 2, kind2, generation, cost2)
<1>1. e1 \in LedgerEvents /\ e2 \in LedgerEvents
  BY DEF LedgerTyped, Event, LedgerEvents
<1>2. e1.id = Len(ledger) + 1 /\ e2.id = Len(ledger) + 2
  BY DEF Event
<1>3. ledger' = Append(Append(ledger, e1), e2)
  BY Append2IsTwice
<1> HIDE DEF e1, e2
<1> QED  BY <1>1, <1>2, <1>3 DEF LedgerTyped, LedgerGrows

LEMMA LedgerStep ==
  LineageInv /\ LedgerTyped /\ [LineageNext]_lineageVars => LedgerTyped' /\ LedgerGrows
<1> SUFFICES ASSUME LineageInv, LedgerTyped, [LineageNext]_lineageVars
             PROVE  LedgerTyped' /\ LedgerGrows
  OBVIOUS
<1>0. Generation \in Nat /\ Generation + 1 \in Nat /\ pending.generation \in Nat
  BY DEF LineageInv, LineageTyped, Generation, Transactions
<1> USE CostsTyped DEF LedgerKinds
<1>1. CASE \E allocation \in Allocations : BeginGeneration(allocation)
  <2>1. Append1("generation_allocated", Generation + 1, ZeroCost)
    BY <1>1 DEF BeginGeneration
  <2> QED  BY <1>0, <2>1, Append1Grows
<1>2. CASE \E id \in PacketIds : CommitBirth(id, pending)
  <2>1. Append2("lineage_budget_spent", "generation_born", pending.generation,
                OneGeneration, ZeroCost)
    BY <1>2 DEF CommitBirth
  <2> QED  BY <1>0, <2>1, Append2Grows
<1>3. CASE \E id \in PacketIds : RegisterCorpse(id)
  <2>1. Append2("packet_terminal", "corpse_registered", Generation, ZeroCost, ZeroCost)
    BY <1>3 DEF RegisterCorpse
  <2> QED  BY <1>0, <2>1, Append2Grows
<1>4. CASE \E kind \in FactKinds : RecordFact(kind)
  <2> PICK kind \in FactKinds : Append1(kind, Generation, ZeroCost)
    BY <1>4 DEF RecordFact
  <2> QED  BY <1>0, Append1Grows DEF FactKinds
<1>5. CASE \E id \in PacketIds, cost \in Spends : ReconcilePacket(id, cost)
  <2> PICK cost \in Spends : Append1("lineage_budget_spent", Generation, cost)
    BY <1>5 DEF ReconcilePacket
  <2> QED  BY <1>0, Append1Grows, LineageAssumption
<1>6. CASE \E id \in PacketIds, size \in CarrierSizes : PayCarrier(id, size)
  <2> PICK size \in CarrierSizes : Append2("lineage_budget_spent", "carrier_built",
                                          Generation, CarrierCost(size), ZeroCost)
    BY <1>6 DEF PayCarrier
  <2>1. CarrierCost(size) \in [LineageAxes -> Nat]
    BY LineageAssumption
  <2> QED  BY <1>0, <2>1, Append2Grows
<1>7. CASE \E id \in PacketIds : MarkContinued(id, id)
  <2>1. Append1("continuation_decided", Generation, ZeroCost)
    BY <1>7 DEF MarkContinued
  <2> QED  BY <1>0, <2>1, Append1Grows
<1>8. CASE \E final \in TerminalStatuses : Finish(final)
  <2> PICK final \in TerminalStatuses : Append1(StatusEvent[final], Generation, ZeroCost)
    BY <1>8 DEF Finish
  <2>1. StatusEvent[final] \in LedgerKinds
    BY DEF TerminalStatuses, StatusEvent
  <2> QED  BY <1>0, <2>1, Append1Grows
<1>9. CASE UNCHANGED lineageVars
  BY <1>9 DEF lineageVars, LedgerTyped, LedgerGrows
<1> QED
  BY <1>1, <1>2, <1>3, <1>4, <1>5, <1>6, <1>7, <1>8, <1>9 DEF LineageNext

\* A sync from an up-to-date cursor copies the rest of the ledger.
LEMMA SyncCopies ==
  ASSUME LedgerTyped, cursor \in 0..Len(ledger), stored = SubSeq(ledger, 1, cursor)
  PROVE  SyncedFrom(cursor) = ledger
<1> DEFINE n == Len(ledger)
           step(f, i) == IF i = cursor THEN stored
                         ELSE IF NewToSession(cursor, i) THEN Append(f[i - 1], ledger[i])
                         ELSE f[i - 1]
           prefix == [i \in cursor..n |-> SubSeq(ledger, 1, i)]
           copied == CHOOSE f : f = [i \in cursor..n |-> step(f, i)]
<1>1. n \in Nat /\ cursor \in Nat /\ cursor <= n /\ ledger \in Seq(LedgerEvents)
  BY DEF LedgerTyped
<1>2. \A i \in (cursor + 1)..n :
        /\ NewToSession(cursor, i)
        /\ Append(SubSeq(ledger, 1, i - 1), ledger[i]) = SubSeq(ledger, 1, i)
  <2> SUFFICES ASSUME NEW i \in (cursor + 1)..n
               PROVE  /\ NewToSession(cursor, i)
                      /\ Append(SubSeq(ledger, 1, i - 1), ledger[i]) = SubSeq(ledger, 1, i)
    OBVIOUS
  <2> DEFINE before == SubSeq(ledger, 1, i - 1)
  <2>1. before \in Seq(LedgerEvents) /\ Len(before) = i - 1
        /\ \A k \in 1..(i - 1) : before[k] = ledger[k]
    BY <1>1
  <2>2. /\ Len(stored) = cursor
        /\ \A k \in 1..cursor : stored[k] = ledger[k]
    BY <1>1
  <2>3. NewToSession(cursor, i)
    BY <1>1, <2>2 DEF NewToSession, LedgerTyped
  <2>4. Append(before, ledger[i]) = SubSeq(ledger, 1, i)
    <3>1. SubSeq(ledger, 1, i) \in Seq(LedgerEvents) /\ Len(SubSeq(ledger, 1, i)) = i
          /\ \A k \in 1..i : SubSeq(ledger, 1, i)[k] = ledger[k]
      BY <1>1
    <3>2. Append(before, ledger[i]) \in Seq(LedgerEvents)
          /\ Len(Append(before, ledger[i])) = i
          /\ \A k \in 1..i : Append(before, ledger[i])[k] = ledger[k]
      <4> HIDE DEF before
      <4>1. ledger[i] \in LedgerEvents
        BY <1>1
      <4> QED  BY <1>1, <2>1, <4>1
    <3> HIDE DEF before
    <3> QED  BY <3>1, <3>2
  <2> QED  BY <2>3, <2>4
<1>3. prefix = [i \in cursor..n |-> step(prefix, i)]
  <2>1. \A i \in cursor..n : step(prefix, i) = SubSeq(ledger, 1, i)
    <3> SUFFICES ASSUME NEW i \in cursor..n PROVE step(prefix, i) = SubSeq(ledger, 1, i)
      OBVIOUS
    <3>1. CASE i = cursor
      BY <3>1
    <3>2. CASE i # cursor
      <4>1. i \in (cursor + 1)..n /\ i - 1 \in cursor..n
        BY <1>1, <3>2
      <4> QED  BY <1>2, <3>2, <4>1
    <3> QED  BY <3>1, <3>2
  <2> QED  BY <2>1
<1>4. copied = [i \in cursor..n |-> step(copied, i)]
  <2> HIDE DEF prefix, step
  <2> QED  BY <1>3
<1>5. \A i \in cursor..n : copied[i] = prefix[i]
  <2> HIDE DEF copied
  <2>1. copied[cursor] = prefix[cursor]
    BY <1>1, <1>4
  <2>2. \A i \in (cursor + 1)..n : copied[i - 1] = prefix[i - 1] => copied[i] = prefix[i]
    <3> SUFFICES ASSUME NEW i \in (cursor + 1)..n, copied[i - 1] = prefix[i - 1]
                 PROVE  copied[i] = prefix[i]
      OBVIOUS
    <3>1. i \in cursor..n /\ i # cursor /\ i - 1 \in cursor..n
      BY <1>1
    <3>2. copied[i] = Append(prefix[i - 1], ledger[i])
      BY <1>2, <1>4, <3>1
    <3> QED  BY <1>2, <3>1, <3>2
  <2> HIDE DEF prefix, n
  <2>3. GoAlike(copied, prefix, cursor, n)
    BY <2>1, <2>2 DEF GoAlike
  <2>4. Alike(copied, prefix, cursor, n)
    BY <1>1, <2>3, SameCourse
  <2> QED  BY <2>4 DEF Alike
<1>6. SyncedFrom(cursor) = copied[n]
  BY DEF SyncedFrom
<1>7. prefix[n] = ledger
  BY <1>1
<1> HIDE DEF prefix, copied
<1> QED  BY <1>1, <1>5, <1>6, <1>7

MirrorInv ==
  /\ LedgerTyped
  /\ cursor \in 0..Len(ledger)
  /\ stored = SubSeq(ledger, 1, cursor)
  /\ pc \in {"head", "done"} => cursor = Len(ledger)
  /\ pc = "failed" /\ owned => cursor = Len(ledger)

LEMMA LedgerInit == LineageInit => LedgerTyped /\ Len(ledger) = 1
  BY CostsTyped DEF LineageInit, LedgerTyped, Event, LedgerEvents, LedgerKinds

LEMMA MirrorInvInit == RunnerInit => MirrorInv
<1> SUFFICES ASSUME RunnerInit PROVE MirrorInv
  OBVIOUS
<1>1. LedgerTyped /\ Len(ledger) = 1 /\ cursor = 0 /\ stored = <<>> /\ pc = "start"
  BY LedgerInit DEF RunnerInit
<1>2. SubSeq(ledger, 1, 0) = <<>>
  BY <1>1 DEF LedgerTyped
<1> QED  BY <1>1, <1>2 DEF MirrorInv

\* What the session holds stays a prefix of the ledger while that grows.
LEMMA MirrorKept ==
  ASSUME MirrorInv, LedgerTyped', LedgerGrows, UNCHANGED <<cursor, stored>>,
         \/ pc' \notin {"head", "done", "failed"}
         \/ UNCHANGED <<pc, ledger>> /\ (owned' => owned)
         \/ pc' = "failed" /\ ~owned'
  PROVE  MirrorInv'
<1>1. cursor \in 0..Len(ledger) /\ cursor' \in 0..Len(ledger')
  BY DEF MirrorInv, LedgerGrows, LedgerTyped
<1>2. SubSeq(ledger', 1, cursor) = SubSeq(ledger, 1, cursor)
  BY <1>1 DEF MirrorInv, LedgerGrows, LedgerTyped
<1> QED  BY <1>1, <1>2 DEF MirrorInv

\* A sync brings it up to date.
LEMMA MirrorSynced ==
  ASSUME MirrorInv, SyncLedger, UNCHANGED ledger
  PROVE  MirrorInv'
<1>1. stored' = ledger /\ cursor' = Len(ledger)
  BY SyncCopies DEF MirrorInv, SyncLedger
<1>2. SubSeq(ledger, 1, Len(ledger)) = ledger /\ Len(ledger) \in 0..Len(ledger)
  BY DEF MirrorInv, LedgerTyped
<1> QED  BY <1>1, <1>2 DEF MirrorInv, LedgerTyped

LEMMA MirrorInvStep ==
  LineageInv /\ MirrorInv /\ StepInv /\ [RunnerNext]_runnerVars => MirrorInv'
<1> SUFFICES ASSUME LineageInv, MirrorInv, StepInv, [RunnerNext]_runnerVars
             PROVE  MirrorInv'
  OBVIOUS
<1>0. LedgerTyped' /\ LedgerGrows
  BY LedgerStep, RunnerStepRefines DEF MirrorInv
<1>1. CASE UNCHANGED runnerVars \/ SessionTaken \/ Returned
  BY <1>0, <1>1, MirrorKept DEF runnerVars, lineageVars, sessionVars, SessionTaken, Returned
<1>2. CASE StartSync \/ AssessmentSync \/ ContinuationSync \/ FinishReport
  <2>1. CASE owned
    BY <1>2, <2>1, MirrorSynced
    DEF StartSync, AssessmentSync, ContinuationSync, FinishReport, SyncStage, lineageVars
  <2>2. CASE ~owned
    BY <1>0, <1>2, <2>2, MirrorKept
    DEF StartSync, AssessmentSync, ContinuationSync, FinishReport, SyncStage, Fail, sessionVars
  <2> QED  BY <2>1, <2>2
<1>3. CASE \/ PacketBudgetFails \/ LaunchFails \/ NewbornFails \/ LifeFails
           \/ ReconcileFails \/ AssessFails \/ CarrierFails \/ IngressFails \/ GraveFails
  BY <1>0, <1>3, MirrorKept
  DEF PacketBudgetFails, LaunchFails, NewbornFails, LifeFails, ReconcileFails,
      AssessFails, CarrierFails, IngressFails, GraveFails, Fail, sessionVars
<1>4. CASE \/ CeilingReached \/ DecideEnd \/ CarrierTooLarge \/ RetireRepository
           \/ \E allocation \in Allocations : CannotAllocate(allocation)
           \/ \E size \in CarrierSizes : CannotPayCarrier(size)
  BY <1>0, <1>4, MirrorKept
  DEF CeilingReached, DecideEnd, CarrierTooLarge, RetireRepository, CannotAllocate,
      CannotPayCarrier, End, sessionVars
<1>5. CASE \/ AdvanceBirth \/ BirthHook \/ Bury \/ Reconcile \/ Assess \/ Continue
           \/ PrepareIngress \/ TerminateLoud
           \/ \E allocation \in Allocations : Allocate(allocation)
           \/ \E corpse \in Corpses : LifeEndsDead(corpse)
           \/ \E size \in CarrierSizes : BuildCarrier(size)
  BY <1>0, <1>5, MirrorKept
  DEF AdvanceBirth, BirthHook, Bury, Reconcile, Assess, Continue, PrepareIngress,
      TerminateLoud, Allocate, LifeEndsDead, BuildCarrier, sessionVars
<1>6. CASE Flush
  <2>1. CASE owned
    BY <1>6, <2>1, MirrorSynced DEF Flush, lineageVars
  <2>2. CASE ~owned
    BY <1>0, <1>6, <2>2, MirrorKept DEF Flush, sessionVars
  <2> QED  BY <2>1, <2>2
<1> QED
  BY <1>1, <1>2, <1>3, <1>4, <1>5, <1>6 DEF RunnerNext, Progress

\* The session never holds anything but a prefix of the ledger, and all of it
\* whenever a generation begins and when run() returns, unless another
\* lineage has taken the session (sync_ledger and append_lineage_event).
THEOREM RunnerSessionMirror == RunnerSpec => []SessionMirror
<1>1. MirrorInv => SessionMirror
  <2> SUFFICES ASSUME MirrorInv PROVE SessionMirror
    OBVIOUS
  <2>1. ledger \in Seq(LedgerEvents) /\ Len(ledger) \in Nat /\ cursor \in 0..Len(ledger)
    BY DEF MirrorInv, LedgerTyped
  <2>2. stored = SubSeq(ledger, 1, cursor)
    BY DEF MirrorInv
  <2>3. Len(stored) = cursor /\ SubSeq(stored, 1, cursor) = stored
    BY <2>1, <2>2
  <2>4. IsPrefix(stored, ledger)
    BY <2>1, <2>2, <2>3 DEF IsPrefix
  <2>5. cursor = Len(ledger) => stored = ledger
    BY <2>1, <2>2
  <2> QED  BY <2>4, <2>5 DEF MirrorInv, SessionMirror
<1>2. RunnerInit => LineageInv
  BY LineageInitInv DEF RunnerInit
<1> QED
  BY <1>1, <1>2, StepInvInit, StepInvStep, RunnerStepRefines, LineageStep,
     MirrorInvInit, MirrorInvStep, PTL
  DEF RunnerSpec

-----------------------------------------------------------------------------
\* The ledger tells the state

\* The events of a sequence add up to total on an axis.
AddsTo(events, a, total) ==
  \E f \in [0..Len(events) -> Nat] :
    /\ f[0] = 0
    /\ \A i \in 1..Len(events) : f[i] = f[i - 1] + events[i].cost[a]
    /\ f[Len(events)] = total

\* The last of its events that moves a lineage leaves it in status st.
MovesTo(events, st) ==
  \E m \in 1..Len(events) :
    /\ events[m].kind \in DOMAIN StatusAfter
    /\ StatusAfter[events[m].kind] = st
    /\ \A i \in (m + 1)..Len(events) : events[i].kind \notin DOMAIN StatusAfter

Accounted(events, st, costs) ==
  /\ MovesTo(events, st)
  /\ \A a \in LineageAxes : AddsTo(events, a, costs[a])

LEMMA AddsAppend ==
  ASSUME NEW events \in Seq(LedgerEvents), NEW e \in LedgerEvents, NEW a \in LineageAxes,
         NEW total, AddsTo(events, a, total)
  PROVE  AddsTo(Append(events, e), a, total + e.cost[a])
<1> DEFINE n == Len(events)
<1>1. PICK f \in [0..n -> Nat] : /\ f[0] = 0
                                 /\ \A i \in 1..n : f[i] = f[i - 1] + events[i].cost[a]
                                 /\ f[n] = total
  BY DEF AddsTo
<1>2. n \in Nat /\ e.cost[a] \in Nat
  BY DEF LedgerEvents
<1>3. /\ Len(Append(events, e)) = n + 1
      /\ \A i \in 1..n : Append(events, e)[i] = events[i]
      /\ Append(events, e)[n + 1] = e
  OBVIOUS
<1> DEFINE g == [i \in 0..(n + 1) |-> IF i = n + 1 THEN f[n] + e.cost[a] ELSE f[i]]
<1>4. g \in [0..(n + 1) -> Nat]
  BY <1>1, <1>2
<1>5. g[0] = 0 /\ g[n + 1] = total + e.cost[a]
  BY <1>1, <1>2
<1>6. \A i \in 1..(n + 1) : g[i] = g[i - 1] + Append(events, e)[i].cost[a]
  <2> SUFFICES ASSUME NEW i \in 1..(n + 1)
               PROVE  g[i] = g[i - 1] + Append(events, e)[i].cost[a]
    OBVIOUS
  <2>1. CASE i = n + 1
    BY <1>2, <1>3, <2>1
  <2>2. CASE i # n + 1
    <3>1. i \in 1..n /\ i - 1 \in 0..n /\ i - 1 # n + 1
      BY <1>2, <2>2
    <3> QED  BY <1>1, <1>3, <3>1
  <2> QED  BY <2>1, <2>2
<1> HIDE DEF g, n
<1> QED  BY <1>3, <1>4, <1>5, <1>6 DEF AddsTo

LEMMA MovesAppend ==
  ASSUME NEW events \in Seq(LedgerEvents), NEW e \in LedgerEvents
  PROVE  /\ e.kind \in DOMAIN StatusAfter => MovesTo(Append(events, e), StatusAfter[e.kind])
         /\ \A st : e.kind \notin DOMAIN StatusAfter /\ MovesTo(events, st)
                      => MovesTo(Append(events, e), st)
<1> DEFINE n == Len(events)
           longer == Append(events, e)
<1>1. n \in Nat /\ Len(longer) = n + 1 /\ longer[n + 1] = e
      /\ \A i \in 1..n : longer[i] = events[i]
  OBVIOUS
<1> HIDE DEF longer
<1>2. e.kind \in DOMAIN StatusAfter => MovesTo(longer, StatusAfter[e.kind])
  <2>1. n + 1 \in 1..Len(longer) /\ \A i \in ((n + 1) + 1)..Len(longer) : FALSE
    BY <1>1
  <2> QED  BY <1>1, <2>1 DEF MovesTo
<1>3. ASSUME NEW st, e.kind \notin DOMAIN StatusAfter, MovesTo(events, st)
      PROVE  MovesTo(longer, st)
  <2>1. PICK m \in 1..n : /\ events[m].kind \in DOMAIN StatusAfter
                          /\ StatusAfter[events[m].kind] = st
                          /\ \A i \in (m + 1)..n : events[i].kind \notin DOMAIN StatusAfter
    BY <1>3 DEF MovesTo
  <2>2. m \in 1..Len(longer) /\ longer[m] = events[m]
    BY <1>1
  <2>3. \A i \in (m + 1)..Len(longer) : longer[i].kind \notin DOMAIN StatusAfter
    <3> SUFFICES ASSUME NEW i \in (m + 1)..Len(longer)
                 PROVE  longer[i].kind \notin DOMAIN StatusAfter
      OBVIOUS
    <3>1. CASE i = n + 1
      BY <1>1, <1>3, <3>1
    <3>2. CASE i # n + 1
      <4>1. i \in (m + 1)..n /\ i \in 1..n
        BY <1>1, <3>2
      <4> QED  BY <1>1, <2>1, <4>1
    <3> QED  BY <3>1, <3>2
  <2> QED  BY <2>1, <2>2, <2>3 DEF MovesTo
<1> QED  BY <1>2, <1>3 DEF longer

\* An event that moves the lineage, and one that does not.
LEMMA AccountMove ==
  ASSUME NEW events \in Seq(LedgerEvents), NEW e \in LedgerEvents,
         NEW st, NEW costs \in [LineageAxes -> Nat], Accounted(events, st, costs),
         e.kind \in DOMAIN StatusAfter, e.cost = ZeroCost
  PROVE  Accounted(Append(events, e), StatusAfter[e.kind], costs)
<1>1. \A a \in LineageAxes : costs[a] + e.cost[a] = costs[a]
  <2> SUFFICES ASSUME NEW a \in LineageAxes PROVE costs[a] + e.cost[a] = costs[a]
    OBVIOUS
  <2>1. e.cost[a] = 0 /\ costs[a] \in Nat
    BY DEF ZeroCost
  <2> QED  BY <2>1
<1>2. \A a \in LineageAxes : AddsTo(Append(events, e), a, costs[a] + e.cost[a])
  BY AddsAppend DEF Accounted
<1>3. \A a \in LineageAxes : AddsTo(Append(events, e), a, costs[a])
  BY <1>1, <1>2
<1> QED  BY <1>3, MovesAppend DEF Accounted

LEMMA AccountCost ==
  ASSUME NEW events \in Seq(LedgerEvents), NEW e \in LedgerEvents,
         NEW st, NEW costs \in [LineageAxes -> Nat], Accounted(events, st, costs),
         e.kind \notin DOMAIN StatusAfter,
         NEW sum, \A a \in LineageAxes : sum[a] = costs[a] + e.cost[a]
  PROVE  Accounted(Append(events, e), st, sum)
<1>1. \A a \in LineageAxes : AddsTo(Append(events, e), a, costs[a] + e.cost[a])
  BY AddsAppend DEF Accounted
<1>2. \A a \in LineageAxes : AddsTo(Append(events, e), a, sum[a])
  BY <1>1
<1> QED  BY <1>2, MovesAppend DEF Accounted

\* The kinds that move a lineage.
LEMMA Movers ==
  DOMAIN StatusAfter =
    {"lineage_created", "generation_born", "corpse_registered", "continuation_decided",
     "lineage_suspended", "lineage_completed", "lineage_exhausted", "lineage_terminated"}
  BY DEF StatusAfter

LEMMA EventTyped ==
  ASSUME NEW id \in Nat, NEW kind \in LedgerKinds, NEW generation \in Nat,
         NEW cost \in [LineageAxes -> Nat]
  PROVE  /\ Event(id, kind, generation, cost) \in LedgerEvents
         /\ Event(id, kind, generation, cost).kind = kind
         /\ Event(id, kind, generation, cost).cost = cost
  BY DEF Event, LedgerEvents

ReplayInv ==
  /\ LedgerTyped
  /\ Accounted(ledger, status, spent)

\* One event that costs nothing, and moves the lineage as its status says.
LEMMA ReplayFact ==
  ASSUME ReplayInv, spent \in [LineageAxes -> Nat], UNCHANGED spent,
         NEW kind \in LedgerKinds, NEW generation \in Nat,
         Append1(kind, generation, ZeroCost),
         IF kind \in DOMAIN StatusAfter THEN status' = StatusAfter[kind]
                                        ELSE status' = status
  PROVE  ReplayInv'
<1> DEFINE e == Event(Len(ledger) + 1, kind, generation, ZeroCost)
<1>1. e \in LedgerEvents /\ e.kind = kind /\ e.cost = ZeroCost
  BY EventTyped, CostsTyped DEF ReplayInv, LedgerTyped
<1>2. ledger' = Append(ledger, e) /\ ledger \in Seq(LedgerEvents)
  BY DEF Append1, ReplayInv, LedgerTyped
<1>3. LedgerTyped'
  BY Append1Grows, CostsTyped DEF ReplayInv
<1> HIDE DEF e
<1>4. \A a \in LineageAxes : spent[a] = spent[a] + e.cost[a]
  BY <1>1 DEF ZeroCost
<1>5. Accounted(Append(ledger, e), status', spent)
  <2>1. CASE kind \in DOMAIN StatusAfter
    BY <1>1, <1>2, <2>1, AccountMove DEF ReplayInv
  <2>2. CASE kind \notin DOMAIN StatusAfter
    BY <1>1, <1>2, <1>4, <2>2, AccountCost DEF ReplayInv
  <2> QED  BY <2>1, <2>2
<1> QED  BY <1>2, <1>3, <1>5 DEF ReplayInv

\* One event that costs what is spent.
LEMMA ReplayCost ==
  ASSUME ReplayInv, spent \in [LineageAxes -> Nat], UNCHANGED status,
         NEW generation \in Nat, NEW cost \in [LineageAxes -> Nat],
         Append1("lineage_budget_spent", generation, cost),
         spent' = [a \in LineageAxes |-> spent[a] + cost[a]]
  PROVE  ReplayInv'
<1> DEFINE e == Event(Len(ledger) + 1, "lineage_budget_spent", generation, cost)
<1>0. "lineage_budget_spent" \in LedgerKinds
  BY DEF LedgerKinds
<1>1. e \in LedgerEvents /\ e.kind = "lineage_budget_spent" /\ e.cost = cost
  BY <1>0, EventTyped DEF ReplayInv, LedgerTyped
<1>2. ledger' = Append(ledger, e) /\ ledger \in Seq(LedgerEvents)
  BY DEF Append1, ReplayInv, LedgerTyped
<1>3. LedgerTyped'
  BY <1>0, Append1Grows DEF ReplayInv
<1> HIDE DEF e
<1>4. \A a \in LineageAxes : spent'[a] = spent[a] + e.cost[a]
  BY <1>1
<1>5. Accounted(Append(ledger, e), status, spent')
  BY <1>1, <1>2, <1>4, AccountCost, Movers DEF ReplayInv
<1> QED  BY <1>2, <1>3, <1>5 DEF ReplayInv

\* A cost and a fact in one step.
LEMMA ReplayTwo ==
  ASSUME ReplayInv, spent \in [LineageAxes -> Nat], NEW generation \in Nat,
         NEW kind1 \in LedgerKinds, kind1 \notin DOMAIN StatusAfter,
         NEW kind2 \in LedgerKinds, NEW cost \in [LineageAxes -> Nat],
         Append2(kind1, kind2, generation, cost, ZeroCost),
         spent' = [a \in LineageAxes |-> spent[a] + cost[a]],
         IF kind2 \in DOMAIN StatusAfter THEN status' = StatusAfter[kind2]
                                         ELSE status' = status
  PROVE  ReplayInv'
<1> DEFINE e1 == Event(Len(ledger) + 1, kind1, generation, cost)
           e2 == Event(Len(ledger) + 2, kind2, generation, ZeroCost)
           middle == Append(ledger, e1)
<1>1. /\ e1 \in LedgerEvents /\ e1.kind = kind1 /\ e1.cost = cost
      /\ e2 \in LedgerEvents /\ e2.kind = kind2 /\ e2.cost = ZeroCost
  BY EventTyped, CostsTyped DEF ReplayInv, LedgerTyped
<1>2. ledger' = Append(middle, e2) /\ ledger \in Seq(LedgerEvents)
  <2>1. LedgerTyped /\ ledger \in Seq(LedgerEvents)
    BY DEF ReplayInv, LedgerTyped
  <2>2. ZeroCost \in [LineageAxes -> Nat]
    BY CostsTyped
  <2>3. ledger' = Append(middle, e2)
    BY <2>1, <2>2, Append2IsTwice
  <2> QED  BY <2>1, <2>3
<1>3. LedgerTyped'
  BY Append2Grows, CostsTyped DEF ReplayInv
<1> HIDE DEF e1, e2
<1>4. Accounted(middle, status, spent')
  <2>1. \A a \in LineageAxes : spent'[a] = spent[a] + e1.cost[a]
    BY <1>1
  <2> QED  BY <1>1, <1>2, <2>1, AccountCost DEF ReplayInv
<1>5. middle \in Seq(LedgerEvents) /\ spent' \in [LineageAxes -> Nat]
  BY <1>1, <1>2
<1> HIDE DEF middle
<1>6. \A a \in LineageAxes : spent'[a] = spent'[a] + e2.cost[a]
  BY <1>1, <1>5 DEF ZeroCost
<1>7. Accounted(Append(middle, e2), status', spent')
  <2>1. CASE kind2 \in DOMAIN StatusAfter
    BY <1>1, <1>4, <1>5, <2>1, AccountMove
  <2>2. CASE kind2 \notin DOMAIN StatusAfter
    BY <1>1, <1>4, <1>5, <1>6, <2>2, AccountCost, ZenonT(30)
  <2> QED  BY <2>1, <2>2
<1> QED  BY <1>2, <1>3, <1>7 DEF ReplayInv

-----------------------------------------------------------------------------
\* Every charge of a lineage is a first one

\* Stages before the charge of the current Packet and of its carrier.
Unpaid == {"life", "bury", "reconcile"}
Uncarried == Unpaid \cup {"assess", "sync", "decide"}

KeysInv ==
  \A n \in Nat :
    /\ <<"packet", n>> \in DOMAIN charges =>
         n <= Len(gens) /\ (pc \in Unpaid => n # Len(gens))
    /\ <<"carrier", n>> \in DOMAIN charges =>
         n <= Len(gens) /\ (pc \in Uncarried => n # Len(gens))

LEMMA MoreKeysDiffer ==
  /\ \A m, n : <<"packet", m>> = <<"packet", n>> => m = n
  /\ \A m, n : <<"carrier", m>> = <<"carrier", n>> => m = n
  /\ \A m, n : <<"packet", m>> # <<"carrier", n>>
<1>1. \A x, y : <<x, y>>[1] = x /\ <<x, y>>[2] = y
  OBVIOUS
<1>2. "packet" # "carrier"
  OBVIOUS
<1> QED  BY <1>1, <1>2, Zenon

LEMMA KeysInvInit == RunnerInit => KeysInv
  BY DEF RunnerInit, LineageInit, KeysInv

LEMMA KeysKept ==
  ASSUME KeysInv, UNCHANGED charges, Len(gens') = Len(gens),
         \/ pc' \notin Uncarried
         \/ pc' = pc
         \/ pc \in Unpaid /\ pc' \in Unpaid
         \/ pc \in {"assess", "sync"} /\ pc' \in {"sync", "decide"}
  PROVE  KeysInv'
  BY DEF KeysInv, Unpaid, Uncarried

LEMMA KeysInvStep ==
  LineageInv /\ StepInv /\ StageInv /\ KeysInv /\ [RunnerNext]_runnerVars => KeysInv'
<1> SUFFICES ASSUME LineageInv, StepInv, StageInv, KeysInv, [RunnerNext]_runnerVars
             PROVE  KeysInv'
  OBVIOUS
<1>0. gens \in Seq(GenerationRecords) /\ Len(gens) \in Nat
  BY DEF LineageInv, LineageTyped
<1>1. CASE UNCHANGED runnerVars \/ SessionTaken \/ Returned
  BY <1>1, KeysKept DEF runnerVars, lineageVars, SessionTaken, Returned
<1>2. CASE StartSync \/ AssessmentSync \/ ContinuationSync \/ FinishReport
  BY <1>2, KeysKept
  DEF StartSync, AssessmentSync, ContinuationSync, FinishReport, SyncStage, Fail,
      lineageVars, Unpaid, Uncarried
<1>3. CASE \/ PacketBudgetFails \/ LaunchFails \/ NewbornFails \/ LifeFails
           \/ ReconcileFails \/ AssessFails \/ CarrierFails \/ IngressFails \/ GraveFails
  BY <1>3, KeysKept
  DEF PacketBudgetFails, LaunchFails, NewbornFails, LifeFails, ReconcileFails,
      AssessFails, CarrierFails, IngressFails, GraveFails, Fail, lineageVars, Unpaid, Uncarried
<1>4. CASE \/ CeilingReached \/ DecideEnd \/ CarrierTooLarge \/ RetireRepository
           \/ \E allocation \in Allocations : CannotAllocate(allocation)
           \/ \E size \in CarrierSizes : CannotPayCarrier(size)
  BY <1>4, KeysKept
  DEF CeilingReached, DecideEnd, CarrierTooLarge, RetireRepository, CannotAllocate,
      CannotPayCarrier, End, Finish, Unpaid, Uncarried
<1>5. CASE \/ AdvanceBirth \/ Bury \/ Assess \/ Continue \/ PrepareIngress
           \/ TerminateLoud \/ Flush
           \/ \E allocation \in Allocations : Allocate(allocation)
  BY <1>5, KeysKept
  DEF AdvanceBirth, Bury, Assess, RecordFact, Continue, MarkContinued, PrepareIngress,
      TerminateLoud, Flush, Finish, Allocate, BeginGeneration, lineageVars, Unpaid, Uncarried
<1>6. CASE BirthHook
  <2>1. /\ births \in PacketIds
        /\ gens' = Append(gens, [generation |-> pending.generation, packet |-> births,
                                 parent |-> pending, corpse |-> 0])
    BY <1>6 DEF BirthHook, CommitBirth, StepInv
  <2>2. [generation |-> pending.generation, packet |-> births, parent |-> pending,
         corpse |-> 0] \in GenerationRecords
    BY <2>1 DEF GenerationRecords, LineageInv, LineageTyped, Transactions
  <2>3. Len(gens') = Len(gens) + 1
    BY <1>0, <2>1, <2>2
  <2>4. DOMAIN charges' = DOMAIN charges \cup {<<"generation", pending.generation>>}
    BY <1>6, ChargeDomain DEF BirthHook, CommitBirth
  <2>5. \A n \in Nat : /\ <<"packet", n>> \in DOMAIN charges' => <<"packet", n>> \in DOMAIN charges
                       /\ <<"carrier", n>> \in DOMAIN charges' => <<"carrier", n>> \in DOMAIN charges
    BY <2>4, KeysDiffer, Zenon
  <2> SUFFICES ASSUME NEW n \in Nat
               PROVE  /\ <<"packet", n>> \in DOMAIN charges' =>
                           n <= Len(gens') /\ (pc' \in Unpaid => n # Len(gens'))
                      /\ <<"carrier", n>> \in DOMAIN charges' =>
                           n <= Len(gens') /\ (pc' \in Uncarried => n # Len(gens'))
    BY DEF KeysInv
  <2>6. /\ <<"packet", n>> \in DOMAIN charges' => n <= Len(gens)
        /\ <<"carrier", n>> \in DOMAIN charges' => n <= Len(gens)
    BY <2>5 DEF KeysInv
  <2> QED  BY <1>0, <2>3, <2>6
<1>7. CASE \E corpse \in Corpses : LifeEndsDead(corpse)
  <2>1. Len(gens') = Len(gens)
    BY <1>0, <1>7 DEF LifeEndsDead, RegisterCorpse
  <2> QED  BY <1>7, <2>1, KeysKept DEF LifeEndsDead, RegisterCorpse, Unpaid
<1>8. CASE Reconcile
  <2>1. /\ pc = "reconcile" /\ pc' = "assess" /\ UNCHANGED gens
        /\ births = Len(gens)
    BY <1>8 DEF Reconcile, ReconcilePacket, StageInv, Failing
  <2>2. DOMAIN charges' = DOMAIN charges \cup {<<"packet", births>>}
    BY <1>8, ChargeDomain DEF Reconcile, ReconcilePacket
  <2>3. \A n \in Nat :
          /\ <<"packet", n>> \in DOMAIN charges' => <<"packet", n>> \in DOMAIN charges \/ n = births
          /\ <<"carrier", n>> \in DOMAIN charges' => <<"carrier", n>> \in DOMAIN charges
    BY <2>2, MoreKeysDiffer, Zenon
  <2> SUFFICES ASSUME NEW n \in Nat
               PROVE  /\ <<"packet", n>> \in DOMAIN charges' =>
                           n <= Len(gens') /\ (pc' \in Unpaid => n # Len(gens'))
                      /\ <<"carrier", n>> \in DOMAIN charges' =>
                           n <= Len(gens') /\ (pc' \in Uncarried => n # Len(gens'))
    BY DEF KeysInv
  <2>4. /\ <<"packet", n>> \in DOMAIN charges' => n <= Len(gens)
        /\ <<"carrier", n>> \in DOMAIN charges' => n <= Len(gens)
    BY <1>0, <2>1, <2>3 DEF KeysInv
  <2>5. <<"carrier", n>> \in DOMAIN charges' => n # Len(gens)
    BY <2>1, <2>3 DEF KeysInv, Unpaid, Uncarried
  <2> QED  BY <2>1, <2>4, <2>5 DEF Unpaid
<1>9. CASE \E size \in CarrierSizes : BuildCarrier(size)
  <2> PICK size \in CarrierSizes : BuildCarrier(size)
    BY <1>9
  <2>1. /\ pc = "decide" /\ pc' = "continue" /\ UNCHANGED gens
        /\ births = Len(gens)
    BY DEF BuildCarrier, PayCarrier, Recover, StageInv, Failing
  <2>2. DOMAIN charges' = DOMAIN charges \cup {<<"carrier", births>>}
    BY ChargeDomain DEF BuildCarrier, PayCarrier
  <2>3. \A n \in Nat :
          /\ <<"packet", n>> \in DOMAIN charges' => <<"packet", n>> \in DOMAIN charges
          /\ <<"carrier", n>> \in DOMAIN charges' => <<"carrier", n>> \in DOMAIN charges \/ n = births
    BY <2>2, MoreKeysDiffer, Zenon
  <2> SUFFICES ASSUME NEW n \in Nat
               PROVE  /\ <<"packet", n>> \in DOMAIN charges' =>
                           n <= Len(gens') /\ (pc' \in Unpaid => n # Len(gens'))
                      /\ <<"carrier", n>> \in DOMAIN charges' =>
                           n <= Len(gens') /\ (pc' \in Uncarried => n # Len(gens'))
    BY DEF KeysInv
  <2>4. /\ <<"packet", n>> \in DOMAIN charges' => n <= Len(gens)
        /\ <<"carrier", n>> \in DOMAIN charges' => n <= Len(gens)
    BY <1>0, <2>1, <2>3 DEF KeysInv
  <2> QED  BY <2>1, <2>4 DEF Unpaid, Uncarried
<1> QED
  BY <1>1, <1>2, <1>3, <1>4, <1>5, <1>6, <1>7, <1>8, <1>9 DEF RunnerNext, Progress

\* A first charge is spent.
LEMMA FirstCharge ==
  ASSUME NEW key, key \notin DOMAIN charges, NEW cost, NEW overdraw,
         Charge(key, cost, overdraw)
  PROVE  spent' = [a \in LineageAxes |-> spent[a] + cost[a]]
  BY DEF Charge

LEMMA ReplayInvInit == RunnerInit => ReplayInv
<1> SUFFICES ASSUME RunnerInit PROVE ReplayInv
  OBVIOUS
<1> DEFINE e == Event(1, "lineage_created", 0, ZeroCost)
<1>1. LedgerTyped /\ ledger = <<e>> /\ status = "created" /\ spent = ZeroCost
  BY LedgerInit DEF RunnerInit, LineageInit
<1>2. e.kind = "lineage_created" /\ e.cost = ZeroCost
  BY DEF Event
<1> HIDE DEF e
<1>3. Len(ledger) = 1 /\ ledger[1] = e
  BY <1>1
<1>4. MovesTo(ledger, status)
  BY <1>1, <1>2, <1>3 DEF MovesTo, StatusAfter
<1>5. ASSUME NEW a \in LineageAxes PROVE AddsTo(ledger, a, spent[a])
  <2> DEFINE f == [i \in 0..1 |-> 0]
  <2>1. spent[a] = 0 /\ e.cost[a] = 0
    BY <1>1, <1>2 DEF ZeroCost
  <2>2. f \in [0..Len(ledger) -> Nat] /\ f[0] = 0 /\ f[Len(ledger)] = spent[a]
    BY <1>3, <2>1
  <2>3. \A i \in 1..Len(ledger) : f[i] = f[i - 1] + ledger[i].cost[a]
    BY <1>3, <2>1
  <2> HIDE DEF f
  <2> QED  BY <2>2, <2>3 DEF AddsTo
<1> QED  BY <1>1, <1>4, <1>5 DEF ReplayInv, Accounted

LEMMA ReplayInvStep ==
  /\ LineageInv /\ StepInv /\ StageInv /\ KeysInv /\ ReplayInv /\ [RunnerNext]_runnerVars
  => ReplayInv'
<1> SUFFICES ASSUME LineageInv, StepInv, StageInv, KeysInv, ReplayInv,
                    [RunnerNext]_runnerVars
             PROVE  ReplayInv'
  OBVIOUS
<1>0. /\ Generation \in Nat /\ Generation + 1 \in Nat /\ pending.generation \in Nat
      /\ spent \in [LineageAxes -> Nat] /\ births \in Nat
  BY DEF LineageInv, LineageTyped, Generation, Transactions, StepInv
<1>1. CASE UNCHANGED <<ledger, status, spent>>
  BY <1>1 DEF ReplayInv, LedgerTyped, Accounted
<1>2. CASE \/ UNCHANGED runnerVars \/ SessionTaken \/ Returned
           \/ StartSync \/ AssessmentSync \/ ContinuationSync \/ FinishReport
           \/ PacketBudgetFails \/ LaunchFails \/ NewbornFails \/ LifeFails
           \/ ReconcileFails \/ AssessFails \/ CarrierFails \/ IngressFails \/ GraveFails
           \/ AdvanceBirth \/ PrepareIngress \/ Flush
  BY <1>1, <1>2
  DEF runnerVars, lineageVars, SessionTaken, Returned, StartSync, AssessmentSync,
      ContinuationSync, FinishReport, SyncStage, PacketBudgetFails, LaunchFails,
      NewbornFails, LifeFails, ReconcileFails, AssessFails, CarrierFails, IngressFails,
      GraveFails, Fail, AdvanceBirth, PrepareIngress, Flush
<1>3. ASSUME NEW final \in TerminalStatuses, Finish(final)
      PROVE  ReplayInv'
  <2>1. StatusEvent[final] \in LedgerKinds /\ StatusEvent[final] \in DOMAIN StatusAfter
        /\ StatusAfter[StatusEvent[final]] = final
    BY DEF TerminalStatuses, StatusEvent, StatusAfter, LedgerKinds
  <2> QED  BY <1>0, <1>3, <2>1, ReplayFact DEF Finish
<1>4. CASE \/ CeilingReached \/ DecideEnd \/ CarrierTooLarge \/ RetireRepository
           \/ \E allocation \in Allocations : CannotAllocate(allocation)
           \/ \E size \in CarrierSizes : CannotPayCarrier(size)
  <2>1. \E final \in TerminalStatuses : Finish(final)
    BY <1>4
    DEF CeilingReached, DecideEnd, CarrierTooLarge, RetireRepository, CannotAllocate,
        CannotPayCarrier, End, Outcome, TerminalStatuses
  <2> QED  BY <1>3, <2>1
<1>5. CASE TerminateLoud
  <2>1. UNCHANGED lineageVars \/ \E final \in TerminalStatuses : Finish(final)
    BY <1>5 DEF TerminateLoud, TerminalStatuses
  <2> QED  BY <1>1, <1>3, <2>1 DEF lineageVars
<1>6. CASE \E allocation \in Allocations : Allocate(allocation)
  <2>1. Append1("generation_allocated", Generation + 1, ZeroCost) /\ UNCHANGED <<status, spent>>
    BY <1>6 DEF Allocate, BeginGeneration
  <2> QED  BY <1>0, <2>1, ReplayFact, Movers DEF LedgerKinds
<1>7. CASE Bury \/ Assess
  <2>1. PICK kind \in FactKinds :
          Append1(kind, Generation, ZeroCost) /\ UNCHANGED <<status, spent>>
    BY <1>7 DEF Bury, Assess, RecordFact, FactKinds
  <2> QED  BY <1>0, <2>1, ReplayFact, Movers DEF LedgerKinds, FactKinds
<1>8. CASE Continue
  <2>1. /\ Append1("continuation_decided", Generation, ZeroCost) /\ UNCHANGED spent
        /\ status' = "continuing"
    BY <1>8 DEF Continue, MarkContinued
  <2>2. "continuation_decided" \in DOMAIN StatusAfter
        /\ StatusAfter["continuation_decided"] = "continuing"
    BY DEF StatusAfter
  <2> QED  BY <1>0, <2>1, <2>2, ReplayFact DEF LedgerKinds
<1>9. CASE \E corpse \in Corpses : LifeEndsDead(corpse)
  <2>1. /\ Append2("packet_terminal", "corpse_registered", Generation, ZeroCost, ZeroCost)
        /\ status' = "evaluating_terminal" /\ UNCHANGED spent
    BY <1>9 DEF LifeEndsDead, RegisterCorpse
  <2>2. spent' = [a \in LineageAxes |-> spent[a] + ZeroCost[a]]
    BY <1>0, <2>1 DEF ZeroCost
  <2>3. "corpse_registered" \in DOMAIN StatusAfter
        /\ StatusAfter["corpse_registered"] = "evaluating_terminal"
    BY DEF StatusAfter
  <2>4. /\ "packet_terminal" \in LedgerKinds /\ "corpse_registered" \in LedgerKinds
        /\ "packet_terminal" \notin DOMAIN StatusAfter
    BY Movers DEF LedgerKinds
  <2> QED  BY <1>0, <2>1, <2>2, <2>3, <2>4, ReplayTwo, CostsTyped
<1>10. CASE BirthHook
  <2>1. /\ Append2("lineage_budget_spent", "generation_born", pending.generation,
                   OneGeneration, ZeroCost)
        /\ status' = "running"
        /\ Charge(<<"generation", pending.generation>>, OneGeneration, FALSE)
        /\ pc = "hook"
    BY <1>10 DEF BirthHook, CommitBirth
  <2>2. <<"generation", pending.generation>> \notin DOMAIN charges
    BY <1>0, <2>1 DEF StageInv, Heir, Generation
  <2>3. spent' = [a \in LineageAxes |-> spent[a] + OneGeneration[a]]
    BY <2>1, <2>2, FirstCharge
  <2>4. "generation_born" \in DOMAIN StatusAfter /\ StatusAfter["generation_born"] = "running"
    BY DEF StatusAfter
  <2> QED  BY <1>0, <2>1, <2>3, <2>4, ReplayTwo, Movers, CostsTyped, ZenonT(30) DEF LedgerKinds
<1>11. CASE Reconcile
  <2>1. /\ Append1("lineage_budget_spent", Generation, remains.spend)
        /\ Charge(<<"packet", births>>, remains.spend, TRUE)
        /\ UNCHANGED status
        /\ pc = "reconcile" /\ births = Len(gens)
    BY <1>11 DEF Reconcile, ReconcilePacket, StageInv, Failing
  <2>2. <<"packet", births>> \notin DOMAIN charges
    BY <1>0, <2>1 DEF KeysInv, Unpaid
  <2>3. spent' = [a \in LineageAxes |-> spent[a] + remains.spend[a]]
    BY <2>1, <2>2, FirstCharge
  <2>4. remains.spend \in [LineageAxes -> Nat]
    BY <2>1, LineageAssumption, LineageRunnerAssumption DEF StepInv, CorpseRecords
  <2> QED  BY <1>0, <2>1, <2>3, <2>4, ReplayCost
<1>12. CASE \E size \in CarrierSizes : BuildCarrier(size)
  <2> PICK size \in CarrierSizes : BuildCarrier(size)
    BY <1>12
  <2>1. /\ Append2("lineage_budget_spent", "carrier_built", Generation,
                   CarrierCost(size), ZeroCost)
        /\ Charge(<<"carrier", births>>, CarrierCost(size), FALSE)
        /\ UNCHANGED status
        /\ pc = "decide" /\ births = Len(gens)
    BY DEF BuildCarrier, PayCarrier, Recover, StageInv, Failing
  <2>2. <<"carrier", births>> \notin DOMAIN charges
    BY <1>0, <2>1 DEF KeysInv, Unpaid, Uncarried
  <2>3. spent' = [a \in LineageAxes |-> spent[a] + CarrierCost(size)[a]]
    BY <2>1, <2>2, FirstCharge
  <2>4. CarrierCost(size) \in [LineageAxes -> Nat]
    BY CostsTyped, LineageAssumption
  <2>5. /\ "lineage_budget_spent" \in LedgerKinds /\ "carrier_built" \in LedgerKinds
        /\ "lineage_budget_spent" \notin DOMAIN StatusAfter
        /\ "carrier_built" \notin DOMAIN StatusAfter
    BY Movers DEF LedgerKinds
  <2> QED  BY <1>0, <2>1, <2>3, <2>4, <2>5, ReplayTwo
<1> QED
  BY <1>2, <1>4, <1>5, <1>6, <1>7, <1>8, <1>9, <1>10, <1>11, <1>12
  DEF RunnerNext, Progress

\* Adding up the ledger in order gives what the events add up to.
LEMMA ReplayedIs ==
  ASSUME LedgerTyped, NEW a \in LineageAxes, NEW sum, AddsTo(ledger, a, sum)
  PROVE  Replayed(a) = sum
<1> DEFINE n == Len(ledger)
           step(f, i) == IF i = 0 THEN 0 ELSE f[i - 1] + ledger[i].cost[a]
           total == CHOOSE f : f = [i \in 0..n |-> step(f, i)]
<1>1. n \in Nat
  BY DEF LedgerTyped
<1>2. PICK g : /\ g \in [0..n -> Nat]
               /\ g[0] = 0
               /\ \A i \in 1..n : g[i] = g[i - 1] + ledger[i].cost[a]
               /\ g[n] = sum
  BY DEF AddsTo
<1>3. g = [i \in 0..n |-> step(g, i)]
  <2>1. \A i \in 0..n : g[i] = step(g, i)
    BY <1>1, <1>2
  <2> HIDE DEF step
  <2> QED  BY <1>2, <2>1
<1>4. total = [i \in 0..n |-> step(total, i)]
  <2> HIDE DEF step
  <2> QED  BY <1>3
<1>5. Alike(total, g, 0, n)
  <2> HIDE DEF total
  <2>1. total[0] = g[0]
    BY <1>1, <1>2, <1>4
  <2>2. \A i \in (0 + 1)..n : total[i - 1] = g[i - 1] => total[i] = g[i]
    BY <1>1, <1>2, <1>4
  <2> HIDE DEF n
  <2>3. GoAlike(total, g, 0, n)
    BY <2>1, <2>2 DEF GoAlike
  <2> QED  BY <1>1, <2>3, SameCourse
<1>6. Replayed(a) = total[n]
  BY DEF Replayed
<1> HIDE DEF total, n
<1> QED  BY <1>1, <1>2, <1>5, <1>6 DEF Alike

\* The ledger alone tells the state of every lineage, whatever its limits and
\* the costs of its Packets: nothing is charged without its event, and no
\* event is written for a charge that was made before (append_event in
\* lineage.lua and lineage_budget.charge).
THEOREM RunnerLedgerReplays == RunnerSpec => []LedgerReplays
<1>1. ReplayInv => LedgerReplays
  <2> SUFFICES ASSUME ReplayInv PROVE LedgerReplays
    OBVIOUS
  <2> DEFINE moves == {i \in 1..Len(ledger) : ledger[i].kind \in DOMAIN StatusAfter}
  <2>1. Len(ledger) \in Nat
    BY DEF ReplayInv, LedgerTyped
  <2>2. PICK m \in 1..Len(ledger) :
          /\ ledger[m].kind \in DOMAIN StatusAfter
          /\ StatusAfter[ledger[m].kind] = status
          /\ \A i \in (m + 1)..Len(ledger) : ledger[i].kind \notin DOMAIN StatusAfter
    BY DEF ReplayInv, Accounted, MovesTo
  <2>3. m \in moves /\ \A i \in moves : i \in Nat /\ i <= m
    BY <2>1, <2>2
  <2>4. Max(moves) = m
    <3> HIDE DEF moves
    <3>1. \A x \in moves : (\A y \in moves : x >= y) => x = m
      BY <2>3
    <3> QED  BY <2>3, <3>1 DEF Max
  <2>5. \A a \in LineageAxes : spent[a] = Replayed(a)
    BY ReplayedIs DEF ReplayInv, Accounted
  <2> QED  BY <2>2, <2>4, <2>5 DEF LedgerReplays
<1>2. RunnerInit => LineageInv
  BY LineageInitInv DEF RunnerInit
<1> QED
  BY <1>1, <1>2, StepInvInit, StepInvStep, StageInvInit, StageInvStep, RunnerStepRefines,
     LineageStep, KeysInvInit, KeysInvStep, ReplayInvInit, ReplayInvStep, PTL
  DEF RunnerSpec

=============================================================================
