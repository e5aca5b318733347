-------------------------- MODULE GrownLifeProofs --------------------------
(***************************************************************************)
(* Proofs about GrownLife: a life continued by hand still implements the   *)
(* Packet specification, and nothing in it is settled twice.               *)
(***************************************************************************)
EXTENDS GrownLife, TensionRunnerProofs

\* The manual stages that write plain events, or nothing, on the trace.
PlainHand ==
  \/ \E actor \in {"LOGIC", "RUNTIME"} : ExecuteTick(actor)
  \/ OrganRecords \/ OrganReconciles \/ OrganLoud \/ SettleLoud \/ Judge
  \/ OrganFails \/ PerishByHand

\* Every manual stage is a Packet step or leaves the Packet alone.
LEMMA HandStepRefines ==
  ASSUME GrownNext, ~RunnerNext
  PROVE  [Next]_vars
  <1>1. CASE \E to \in Stations : Route(to)
    BY <1>1, GrownAssumption DEF Route, Next
  <1>2. CASE Begin
    BY <1>2 DEF Begin, Next
  <1>3. CASE \/ \E actor \in {"LOGIC", "RUNTIME"} : ExecuteTick(actor)
             \/ OrganLoud \/ SettleLoud
    BY <1>3 DEF ExecuteTick, OrganLoud, SettleLoud, vars
  <1>4. CASE OrganRecords
    <2>1. AppendQaEvent
      BY <1>4 DEF OrganRecords, AppendQaEvent
    <2> QED
      BY <2>1 DEF Next
  <1>5. CASE OrganReconciles
    <2>1. "runtime_reconciliation" \in OrganTypes
      BY RunnerAssumption DEF RunnerTypes
    <2> QED
      BY <1>5, <2>1, OrganEventIsNext DEF OrganReconciles
  <1>6. CASE OrganFails
    <2>1. "operator_failure" \in OrganTypes
      BY RunnerAssumption DEF RunnerTypes
    <2> QED
      BY <1>6, <2>1, OrganEventIsNext DEF OrganFails
  <1>7. CASE SettleApplied \/ SettleFailed
    BY <1>7, CaptureIsNext DEF SettleApplied, SettleFailed, vars
  <1>8. CASE Judge \/ PerishByHand
    <2>1. {"identity_loss", "budget_exhausted", "effect_failure"} \subseteq Causes
      BY RunnerAssumption DEF RunnerCauses
    <2>2. Mortality \in {"none", "identity_loss", "budget_exhausted"}
      BY DEF Mortality
    <2> QED
      BY <1>8, <2>1, <2>2 DEF Judge, PerishByHand, Next, vars
  <1> QED
    BY <1>1, <1>2, <1>3, <1>4, <1>5, <1>6, <1>7, <1>8 DEF GrownNext

\* The manual stages leave the decision alone and never route.
LEMMA HandRefInv ==
  ASSUME RefInv, GrownNext, ~RunnerNext
  PROVE  RefInv'
  <1>1. UNCHANGED decision /\ pc' \notin {"derive", "predict"}
    BY DEF GrownNext, Route, Begin, ExecuteTick, Caller, OrganRecords, OrganReconciles,
       OrganLoud, SettleApplied, SettleLoud, Judge, OrganFails, SettleFailed,
       PerishByHand, InHand, outcome
  <1> QED
    BY <1>1 DEF RefInv

LEMMA GrownStep ==
  ASSUME IInv, RefInv, [GrownNext]_lifeVars
  PROVE  [Next]_vars /\ IInv' /\ RefInv'
  <1>1. CASE [RunnerNext]_lifeVars
    BY <1>1, RunnerStepRefines, NextIInv, RefInvInductive
  <1>2. CASE GrownNext /\ ~RunnerNext
    BY <1>2, HandStepRefines, NextIInv, HandRefInv
  <1> QED
    BY <1>1, <1>2

\* A Packet that its caller takes over from run() and drives through the
\* manual entrances is still a behaviour of the Packet specification, however
\* often an entrance is called.
THEOREM GrownImplementsPacket == GrownSpec => Spec
  <1>1. RunnerInit => Init /\ IInv /\ RefInv
    BY InitIInv DEF RunnerInit, RefInv, NoDecision
  <1>2. IInv /\ RefInv /\ [GrownNext]_lifeVars => [Next]_vars /\ IInv' /\ RefInv'
    BY GrownStep
  <1> QED
    BY <1>1, <1>2, PTL DEF GrownSpec, Spec

-----------------------------------------------------------------------------
\* Ticks are settled once.

\* The stages in which the tick that is running is not charged yet.
Unsettled == {"execute", "applied", "failed", "hand_organ", "hand_failed"}

LastTick(i) ==
  /\ i \in 1..Len(trace) /\ trace[i].type = "operator_tick"
  /\ \A j \in (i + 1)..Len(trace) : trace[j].type # "operator_tick"

\* As many ticks are charged as the clock counts, each of them a tick on the
\* trace, and the one that is running is not among them.
TickInv ==
  /\ clock \in Nat /\ head \in Nat /\ head <= clock
  /\ IsFiniteSet(charged) /\ Cardinality(charged) = clock
  /\ \A i \in charged : i \in 1..Len(trace) /\ trace[i].type = "operator_tick"
  /\ \A i \in 1..Len(trace) : trace[i].type = "birth" => trace[i].operator = "FLOW"
  /\ pc \in Unsettled => \E i \in 1..Len(trace) : LastTick(i) /\ i \notin charged

\* The lease is the last tick of the trace.
LEMMA TickIsLast ==
  ASSUME NEW i, LastTick(i), Len(trace) \in Nat
  PROVE  Tick = i
  <1>1. ASSUME NEW k \in 1..Len(trace), trace[k].type = "operator_tick",
               \A j \in (k + 1)..Len(trace) : trace[j].type # "operator_tick"
        PROVE  k = i
    <2>1. ~(k < i) /\ ~(i < k)
      BY <1>1 DEF LastTick
    <2> QED
      BY <2>1, <1>1 DEF LastTick
  <1>2. /\ i \in 1..Len(trace) /\ trace[i].type = "operator_tick"
        /\ \A j \in (i + 1)..Len(trace) : trace[j].type # "operator_tick"
    BY DEF LastTick
  <1> QED
    BY <1>1, <1>2 DEF Tick

\* The trace grows, and not by a birth.
Grown ==
  /\ Len(trace) \in Nat /\ Len(trace') \in Nat /\ Len(trace) <= Len(trace')
  /\ \A i \in 1..Len(trace) : trace'[i] = trace[i]
  /\ \A i \in (Len(trace) + 1)..Len(trace') : trace'[i].type # "birth"

LEMMA GrowthGrown ==
  /\ PlainGrowth => Grown
  /\ \A type \in {"operator_tick", "runtime_frame", "route"} : GrowsBy(type) => Grown
  <1>1. PlainGrowth => Grown
    BY DEF PlainGrowth, Grown, Landmarks, Anchors
  <1>2. ASSUME NEW type \in {"operator_tick", "runtime_frame", "route"}, GrowsBy(type)
        PROVE  Grown
    BY <1>2 DEF GrowsBy, Grown
  <1> QED
    BY <1>1, <1>2

\* What growth keeps of TickInv.
LEMMA GrownFacts ==
  ASSUME TickInv, Grown
  PROVE  /\ \A i \in charged : i \in 1..Len(trace') /\ trace'[i].type = "operator_tick"
         /\ \A i \in 1..Len(trace') : trace'[i].type = "birth" => trace'[i].operator = "FLOW"
  <1>1. ASSUME NEW i \in charged
        PROVE  i \in 1..Len(trace') /\ trace'[i].type = "operator_tick"
    BY DEF TickInv, Grown
  <1>2. ASSUME NEW i \in 1..Len(trace'), trace'[i].type = "birth"
        PROVE  trace'[i].operator = "FLOW"
    <2>1. i \in 1..Len(trace)
      BY <1>2 DEF Grown
    <2> QED
      BY <1>2, <2>1 DEF TickInv, Grown
  <1> QED
    BY <1>1, <1>2

\* A stage that settles nothing keeps TickInv.
LEMMA UnsettledStep ==
  ASSUME TickInv, Grown, UNCHANGED <<clock, head, charged>>,
         pc' \in Unsettled => pc \in Unsettled /\ PlainGrowth
  PROVE  TickInv'
  <1>1. ASSUME pc' \in Unsettled
        PROVE  \E i \in 1..Len(trace') : LastTick(i)' /\ i \notin charged'
    <2>1. PICK i \in 1..Len(trace) : LastTick(i) /\ i \notin charged
      BY <1>1 DEF TickInv
    <2>2. LastTick(i)'
      <3>1. i \in 1..Len(trace') /\ trace'[i].type = "operator_tick"
        BY <2>1 DEF Grown, LastTick
      <3>2. ASSUME NEW j \in (i + 1)..Len(trace')
            PROVE  trace'[j].type # "operator_tick"
        <4>1. CASE j \in 1..Len(trace)
          BY <2>1, <3>2, <4>1 DEF Grown, LastTick
        <4>2. CASE j \in (Len(trace) + 1)..Len(trace')
          BY <1>1, <4>2 DEF PlainGrowth, Landmarks, Anchors
        <4> QED
          BY <2>1, <3>2, <4>1, <4>2 DEF Grown
      <3> QED
        BY <3>1, <3>2 DEF LastTick
    <2> QED
      BY <2>1, <2>2 DEF LastTick
  <1> QED
    BY <1>1, GrownFacts DEF TickInv

\* Charging the tick that is running keeps TickInv.
LEMMA SettledStep ==
  ASSUME TickInv, Grown, pc \in Unsettled, pc' \notin Unsettled, NEW cost,
         ChargeTick(cost), head' \in {head, head + 1}
  PROVE  TickInv'
  <1>1. PICK i \in 1..Len(trace) : LastTick(i) /\ i \notin charged
    BY DEF TickInv
  <1>2. Tick = i
    BY <1>1, TickIsLast DEF Grown
  <1>3. charged' = charged \cup {i} /\ clock' = clock + 1
    BY <1>2 DEF ChargeTick
  <1>4. IsFiniteSet(charged') /\ Cardinality(charged') = clock'
    BY <1>1, <1>3, FS_AddElement DEF TickInv
  <1>5. \A k \in charged' : k \in 1..Len(trace') /\ trace'[k].type = "operator_tick"
    BY <1>1, <1>3, GrownFacts DEF Grown, LastTick
  <1>6. clock' \in Nat /\ head' \in Nat /\ head' <= clock'
    BY <1>3 DEF TickInv
  <1> QED
    BY <1>4, <1>5, <1>6, GrownFacts DEF TickInv

\* A tick just begun is not charged.
LEMMA BegunStep ==
  ASSUME TickInv, GrowsBy("operator_tick"), UNCHANGED <<clock, head, charged>>
  PROVE  TickInv'
  <1>1. Grown
    BY GrowthGrown
  <1>2. PICK n \in Nat : n = Len(trace) + 1
    BY DEF GrowsBy
  <1>3. LastTick(n)' /\ n \notin charged' /\ n \in 1..Len(trace')
    BY <1>2 DEF GrowsBy, LastTick, TickInv
  <1> QED
    BY <1>1, <1>3, GrownFacts DEF TickInv

\* Executing a tick by hand: the lease of LOGIC or RUNTIME is a tick.
LEMMA ExecutedStep ==
  ASSUME TickInv, IInv, NEW actor \in {"LOGIC", "RUNTIME"}, ExecuteTick(actor)
  PROVE  TickInv'
  <1>0. /\ trace' = trace /\ UNCHANGED <<clock, head, charged>> /\ Tick \notin charged
        /\ LeaseAt(trace, Len(trace), actor) /\ Len(trace) \in Nat
    BY DEF ExecuteTick, Caller, vars, economy, film, AssertActorTick, CurrentVisitLease,
       IInv, TypeOK
  <1>1. PICK i \in 1..Len(trace) :
          /\ trace[i].type \in {"birth", "operator_tick"} /\ trace[i].operator = actor
          /\ \A j \in (i + 1)..Len(trace) : trace[j].type \notin Anchors
    BY <1>0 DEF LeaseAt
  <1>2. LastTick(i)
    BY <1>1 DEF TickInv, LastTick, Anchors
  <1>3. i \notin charged
    BY <1>0, <1>2, TickIsLast
  <1>4. LastTick(i)'
    BY <1>0, <1>2 DEF LastTick
  <1> QED
    BY <1>0, <1>3, <1>4 DEF TickInv, LastTick

-----------------------------------------------------------------------------
\* The trace in the manual stages.

LEMMA HandGrowth ==
  ASSUME IInv, PlainHand
  PROVE  PlainGrowth
  <1>0. TypeOK /\ trace \in Seq(EventRecord)
    BY DEF IInv, TypeOK
  <1>1. CASE \/ \E actor \in {"LOGIC", "RUNTIME"} : ExecuteTick(actor)
             \/ OrganLoud \/ SettleLoud
    BY <1>0, <1>1, NoPlain DEF ExecuteTick, OrganLoud, SettleLoud, vars
  <1>2. CASE OrganRecords
    <2>1. PICK type \in BodyTypes \cap QaTypes : AppendActorEvent(type)
      BY <1>2 DEF OrganRecords
    <2>2. type \in EventTypes \ Landmarks
      BY DEF EventTypes, QaTypes, Landmarks, Anchors
    <2> QED
      BY <1>0, <2>1, <2>2, OrganPlain
  <1>3. CASE OrganReconciles \/ OrganFails
    <2>1. {"operator_failure", "runtime_reconciliation"} \subseteq EventTypes \ Landmarks
      BY DEF EventTypes, GenericTypes, Landmarks, Anchors
    <2> QED
      BY <1>0, <1>3, <2>1, OrganPlain DEF OrganReconciles, OrganFails
  <1>4. CASE Judge \/ PerishByHand
    BY <1>0, <1>4, NoPlain, DeathPlain DEF Judge, PerishByHand, Die, vars
  <1> QED
    BY <1>1, <1>2, <1>3, <1>4 DEF PlainHand

LEMMA HandLandmarks ==
  ASSUME IInv
  PROVE  /\ Begin => GrowsBy("operator_tick")
         /\ \A to \in Stations : Route(to) => GrowsBy("route")
         /\ Capture => GrowsBy("runtime_frame")
  <1>0. TypeOK /\ trace \in Seq(EventRecord)
    BY DEF IInv, TypeOK
  <1>1. ASSUME NEW e \in EventRecord, trace' = Append(trace, e)
        PROVE  GrowsBy(e.type)
    BY <1>0, <1>1, AppendFacts DEF GrowsBy
  <1>2. ASSUME NEW type \in EventTypes
        PROVE  Event(type, operator) \in EventRecord /\ Event(type, operator).type = type
    BY <1>0, PlainEvent DEF TypeOK
  <1>3. {"operator_tick", "runtime_frame"} \subseteq EventTypes
    BY DEF EventTypes, GenericTypes, LifecycleTypes
  <1>4. Begin => GrowsBy("operator_tick")
    BY <1>1, <1>2, <1>3 DEF Begin, BeginTick
  <1>5. Capture => GrowsBy("runtime_frame")
    BY <1>1, <1>2, <1>3 DEF Capture, AppendActorEvent
  <1>6. ASSUME NEW to \in Stations, Route(to)
        PROVE  GrowsBy("route")
    <2> DEFINE e == [Event("route", to) EXCEPT !.from = operator, !.to = to,
                       !.ref = 0, !.tree = FALSE]
    <2>1. trace' = Append(trace, e)
      BY <1>6 DEF Route, CommitTransition
    <2>2. to \in Operators /\ operator \in Operators
      BY <1>0, GrownAssumption DEF TypeOK
    <2>3. e \in EventRecord /\ e.type = "route"
      BY <2>2 DEF Event, EventRecord, EventTypes, LifecycleTypes
    <2> HIDE DEF e
    <2> QED
      BY <1>1, <2>1, <2>3
  <1> QED
    BY <1>4, <1>5, <1>6

\* Every step of a grown life, by what it does to the trace.
LEMMA GrownKinds ==
  ASSUME [GrownNext]_lifeVars
  PROVE  \/ PlainStage \/ PlainHand
         \/ OpenTick \/ Begin
         \/ SettleTick \/ SettleFailure \/ SettleApplied \/ SettleFailed
         \/ CommitRoute \/ \E to \in Stations : Route(to)
  <1>1. CASE [RunnerNext]_lifeVars
    BY <1>1, StageKinds
  <1>2. CASE GrownNext
    BY <1>1, <1>2 DEF GrownNext, PlainHand
  <1> QED
    BY <1>1, <1>2

\* Every life, by run() or by hand, keeps TickInv.
LEMMA TickInvInductive ==
  ASSUME TickInv, IInv, RefInv, [GrownNext]_lifeVars
  PROVE  TickInv'
  <1>1. CASE PlainStage
    <2>1. PlainGrowth /\ Grown
      BY <1>1, PlainStageGrowth, GrowthGrown
    <2>2. CASE PhysicsLoud
      BY <2>1, <2>2, SettledStep DEF PhysicsLoud, film, Unsettled
    <2>3. CASE UNCHANGED lifeVars
      BY <2>1, <2>3, UnsettledStep DEF lifeVars, runnerVars, economy, film
    <2>4. CASE \/ Loud \/ RunFlow \/ OrganWork \/ OrganQuiet \/ EffectFails \/ Perish
               \/ DieFromMortality \/ Survive \/ MeasurePressure \/ LegacyRoute
               \/ LegacyUnsupported \/ PredictShadow \/ RecordShadow \/ TickLimit
               \/ Finish
      BY <2>1, <2>4, UnsettledStep DEF Loud, RunFlow, OrganWork, OrganQuiet,
         EffectFails, Perish, DieFromMortality, DieOf, Survive, MeasurePressure,
         LegacyRoute, LegacyUnsupported, PredictShadow, RecordShadow, TickLimit, Finish,
         Decided, film, economy, Unsettled
    <2>5. CASE \/ \E through \in 1..head : Reconcile(through)
               \/ \E cause \in Causes : ManifestLife(cause)
               \/ \E cause \in Causes : NoViable(cause)
               \/ \E to \in Operators \cup {"none"} : Derive(to)
      BY <2>1, <2>5, UnsettledStep DEF Reconcile, ManifestLife, NoViable, DieOf,
         Derive, Decided, film, economy, Unsettled
    <2> QED
      BY <1>1, <2>2, <2>3, <2>4, <2>5 DEF PlainStage
  <1>2. CASE PlainHand
    <2>1. PlainGrowth /\ Grown
      BY <1>2, HandGrowth, GrowthGrown
    <2>2. CASE \E actor \in {"LOGIC", "RUNTIME"} : ExecuteTick(actor)
      BY <2>2, ExecutedStep
    <2>3. CASE SettleLoud
      <3>1. pc \in Unsettled /\ pc' \notin Unsettled /\ head' = head
        BY <2>3 DEF SettleLoud, InHand, film, Unsettled
      <3>2. \E cost : ChargeTick(cost)
        BY <2>3 DEF SettleLoud
      <3> QED
        BY <2>1, <3>1, <3>2, SettledStep
    <2>4. CASE \/ OrganRecords \/ OrganReconciles \/ OrganLoud \/ Judge \/ OrganFails
               \/ PerishByHand
      BY <2>1, <2>4, UnsettledStep DEF OrganRecords, OrganReconciles, OrganLoud, Judge,
         OrganFails, PerishByHand, InHand, film, economy, Unsettled
    <2> QED
      BY <1>2, <2>2, <2>3, <2>4 DEF PlainHand
  <1>3. CASE OpenTick \/ Begin
    <2>1. GrowsBy("operator_tick")
      BY <1>3, LandmarkGrowth, HandLandmarks
    <2> QED
      BY <1>3, <2>1, BegunStep DEF OpenTick, Begin, Caller, film, economy
  <1>4. CASE SettleTick \/ SettleFailure \/ SettleApplied \/ SettleFailed
    <2>1. \/ Capture /\ Grown /\ head' = head + 1
          \/ Grown /\ head' = head
      <3>1. CASE Capture
        BY <3>1, HandLandmarks, GrowthGrown DEF Capture
      <3>2. CASE UNCHANGED <<vars, film>>
        <4>1. PlainGrowth
          BY <3>2, NoPlain DEF IInv, TypeOK, vars
        <4> QED
          BY <3>2, <4>1, GrowthGrown DEF film
      <3> QED
        BY <1>4, <3>1, <3>2 DEF SettleTick, SettleFailure, SettleApplied, SettleFailed
    <2>2. pc \in Unsettled /\ pc' \notin Unsettled
      BY <1>4 DEF SettleTick, SettleFailure, SettleApplied, SettleFailed, InHand, Unsettled
    <2>3. \E cost : ChargeTick(cost)
      BY <1>4 DEF SettleTick, SettleFailure, SettleApplied, SettleFailed
    <2> QED
      BY <2>1, <2>2, <2>3, SettledStep
  <1>5. CASE CommitRoute \/ \E to \in Stations : Route(to)
    <2>1. Grown
      BY <1>5, LandmarkGrowth, HandLandmarks, GrowthGrown
    <2> QED
      BY <1>5, <2>1, UnsettledStep DEF CommitRoute, Route, Caller, film, economy, Unsettled
  <1> QED
    BY <1>1, <1>2, <1>3, <1>4, <1>5, GrownKinds

-----------------------------------------------------------------------------
\* Test runs are paid for once.

Count(tr, type) == Cardinality({i \in 1..Len(tr) : tr[i].type = type})
Paid == Cardinality({id \in qaPaid : QaCost[id]["test_runs"] = 1})

\* A failure on record whose cost is not charged yet.
Owed == IF pc \in {"failed", "hand_failed"} THEN 1 ELSE 0

PaidInv ==
  /\ spent \in [Axes -> Nat]
  /\ IsFiniteSet(qaPaid) /\ qaPaid \subseteq QaIds
  /\ "test_runs" \in Axes =>
       /\ Paid <= spent["test_runs"]
       /\ spent["test_runs"] + Owed <= Paid + Count(trace, "operator_failure")

LEMMA CountGrows ==
  ASSUME Grown, NEW type
  PROVE  /\ Count(trace, type) \in Nat /\ Count(trace', type) \in Nat
         /\ Count(trace, type) <= Count(trace', type)
         /\ GrowsBy(type) => Count(trace', type) = Count(trace, type) + 1
  <1> DEFINE S == {i \in 1..Len(trace) : trace[i].type = type}
             T == {i \in 1..Len(trace') : trace'[i].type = type}
  <1>1. IsFiniteSet(1..Len(trace)) /\ IsFiniteSet(1..Len(trace'))
    BY FS_Interval DEF Grown
  <1>2. IsFiniteSet(S) /\ IsFiniteSet(T)
    BY <1>1, FS_Subset
  <1>3. S \subseteq T
    BY DEF Grown
  <1>4. GrowsBy(type) => T = S \cup {Len(trace) + 1} /\ Len(trace) + 1 \notin S
    BY DEF Grown, GrowsBy
  <1> HIDE DEF S, T
  <1>5. Cardinality(S) \in Nat /\ Cardinality(T) \in Nat /\ Cardinality(S) <= Cardinality(T)
    BY <1>2, <1>3, FS_CardinalityType, FS_Subset
  <1>6. GrowsBy(type) => Cardinality(T) = Cardinality(S) + 1
    BY <1>2, <1>4, FS_AddElement
  <1> QED
    BY <1>5, <1>6 DEF Count, S, T

\* What paying QA evidence does to the count of paid test runs.
LEMMA PaidCount ==
  ASSUME PaidInv, NEW cost, PayQa(cost), "test_runs" \in Axes
  PROVE  Paid' = Paid + cost["test_runs"]
  <1>1. PICK id \in QaIds :
          /\ cost = (IF id \in qaPaid THEN NoCost ELSE QaCost[id])
          /\ qaPaid' = qaPaid \cup {id}
    BY DEF PayQa
  <1> DEFINE S == {x \in qaPaid : QaCost[x]["test_runs"] = 1}
             T == {x \in qaPaid' : QaCost[x]["test_runs"] = 1}
  <1>3. IsFiniteSet(S)
    BY FS_Subset DEF PaidInv
  <1>4. Cardinality(S) \in Nat
    BY <1>3, FS_CardinalityType
  <1>5. NoCost["test_runs"] = 0
    BY DEF NoCost
  <1>6. QaCost[id]["test_runs"] \in {0, 1}
    BY TestRunsAssumption
  <1>7. CASE id \in qaPaid
    <2>1. S = T
      BY <1>1, <1>7
    <2> HIDE DEF S, T
    <2>2. Cardinality(T) = Cardinality(S) + 0
      BY <1>4, <2>1
    <2>3. Paid' = Paid + cost["test_runs"]
      BY <1>1, <1>5, <1>7, <2>2 DEF Paid, S, T
    <2> QED
      BY <2>3
  <1>8. CASE id \notin qaPaid /\ QaCost[id]["test_runs"] = 0
    <2>1. S = T
      BY <1>1, <1>8
    <2> HIDE DEF S, T
    <2>2. Cardinality(T) = Cardinality(S) + 0
      BY <1>4, <2>1
    <2>3. Paid' = Paid + cost["test_runs"]
      BY <1>1, <1>8, <2>2 DEF Paid, S, T
    <2> QED
      BY <2>3
  <1>9. CASE id \notin qaPaid /\ QaCost[id]["test_runs"] = 1
    <2>1. T = S \cup {id} /\ id \notin S
      BY <1>1, <1>9
    <2> HIDE DEF S, T
    <2>2. Cardinality(T) = Cardinality(S) + 1
      BY <1>3, <2>1, FS_AddElement
    <2>3. Paid' = Paid + cost["test_runs"]
      BY <1>1, <1>9, <2>2 DEF Paid, S, T
    <2> QED
      BY <2>3
  <1> QED
    BY <1>6, <1>7, <1>8, <1>9

\* Paying QA evidence keeps the set of paid evidence typed.
LEMMA PaidTyped ==
  ASSUME IsFiniteSet(qaPaid), qaPaid \subseteq QaIds, NEW cost, PayQa(cost)
  PROVE  IsFiniteSet(qaPaid') /\ qaPaid' \subseteq QaIds /\ cost \in [Axes -> Nat]
  <1>1. PICK id \in QaIds :
          /\ cost = (IF id \in qaPaid THEN NoCost ELSE QaCost[id])
          /\ qaPaid' = qaPaid \cup {id}
    BY DEF PayQa
  <1>2. NoCost \in [Axes -> Nat] /\ QaCost[id] \in [Axes -> Nat]
    BY RunnerAssumption DEF NoCost
  <1> QED
    BY <1>1, <1>2, FS_AddElement

\* The charge of a tick on the axis of the test runs.
LEMMA TestRunsCharged ==
  ASSUME spent \in [Axes -> Nat], NEW cost \in [Axes -> Nat], ChargeTick(cost)
  PROVE  /\ spent' \in [Axes -> Nat]
         /\ "test_runs" \in Axes =>
              spent'["test_runs"] = spent["test_runs"] + cost["test_runs"]
  <1>1. spent' = [a \in Axes |-> spent[a] + Plus(OneStep, cost)[a]]
    BY DEF ChargeTick, Charge, Plus
  <1>2. \A a \in Axes : Plus(OneStep, cost)[a] = OneStep[a] + cost[a]
    BY DEF Plus
  <1>3. \A a \in Axes : OneStep[a] = IF a = "steps" THEN 1 ELSE 0
    BY DEF OneStep
  <1>4. \A a \in Axes : OneStep[a] \in Nat /\ Plus(OneStep, cost)[a] \in Nat
    BY <1>2, <1>3
  <1>5. "test_runs" \in Axes => Plus(OneStep, cost)["test_runs"] = cost["test_runs"]
    BY <1>2, <1>3
  <1> QED
    BY <1>1, <1>4, <1>5

\* The paid evidence that cost a test run can be counted.
LEMMA PaidNumber ==
  ASSUME PaidInv
  PROVE  Paid \in Nat
  <1>1. IsFiniteSet({id \in qaPaid : QaCost[id]["test_runs"] = 1})
    BY FS_Subset DEF PaidInv
  <1> QED
    BY <1>1, FS_CardinalityType DEF Paid

\* A stage that charges nothing keeps PaidInv, the failure it may record
\* being owed.
LEMMA UnchargedStep ==
  ASSUME PaidInv, Grown, UNCHANGED <<spent, qaPaid>>,
         pc' \in {"failed", "hand_failed"} =>
           pc \in {"failed", "hand_failed"} \/ GrowsBy("operator_failure")
  PROVE  PaidInv'
  <1>1. Paid' = Paid /\ Paid \in Nat
    BY PaidNumber DEF Paid
  <1>2. /\ Count(trace, "operator_failure") \in Nat
        /\ Count(trace', "operator_failure") \in Nat
        /\ Count(trace, "operator_failure") <= Count(trace', "operator_failure")
        /\ GrowsBy("operator_failure") =>
             Count(trace', "operator_failure") = Count(trace, "operator_failure") + 1
    BY CountGrows
  <1>3. Owed \in {0, 1} /\ Owed' \in {0, 1} /\ (Owed' > Owed => GrowsBy("operator_failure"))
    BY DEF Owed
  <1>4. ASSUME "test_runs" \in Axes
        PROVE  /\ Paid' <= spent'["test_runs"]
               /\ spent'["test_runs"] + Owed' <= Paid' + Count(trace', "operator_failure")
    <2>1. /\ spent["test_runs"] \in Nat /\ Paid <= spent["test_runs"]
          /\ spent["test_runs"] + Owed <= Paid + Count(trace, "operator_failure")
      BY <1>4 DEF PaidInv
    <2> QED
      BY <1>1, <1>2, <1>3, <2>1
  <1> QED
    BY <1>4 DEF PaidInv

\* Charging an applied tick keeps PaidInv: its test runs are those of the QA
\* evidence it pays for.
LEMMA ChargedStep ==
  ASSUME PaidInv, Grown, NEW cost \in [Axes -> Nat], ChargeTick(cost),
         \/ PayQa(cost)
         \/ UNCHANGED qaPaid /\ ("test_runs" \in Axes => cost["test_runs"] = 0),
         pc' \notin {"failed", "hand_failed"}
  PROVE  PaidInv'
  <1>1. /\ spent' \in [Axes -> Nat]
        /\ "test_runs" \in Axes =>
             spent'["test_runs"] = spent["test_runs"] + cost["test_runs"]
    BY TestRunsCharged DEF PaidInv
  <1>2. IsFiniteSet(qaPaid') /\ qaPaid' \subseteq QaIds
    BY PaidTyped DEF PaidInv
  <1>3. ASSUME "test_runs" \in Axes
        PROVE  /\ Paid' <= spent'["test_runs"]
               /\ spent'["test_runs"] + Owed' <= Paid' + Count(trace', "operator_failure")
    <2>1. Paid \in Nat /\ cost["test_runs"] \in Nat /\ spent["test_runs"] \in Nat
      BY <1>3, PaidNumber DEF PaidInv
    <2>2. Paid' = Paid + cost["test_runs"]
      <3>1. CASE PayQa(cost)
        BY <1>3, <3>1, PaidCount
      <3>2. CASE UNCHANGED qaPaid /\ cost["test_runs"] = 0
        <4>1. Paid' = Paid
          BY <3>2 DEF Paid
        <4> QED
          BY <2>1, <3>2, <4>1
      <3> QED
        BY <1>3, <3>1, <3>2
    <2>3. Owed \in {0, 1} /\ Owed' = 0
      BY DEF Owed
    <2>4. /\ Count(trace, "operator_failure") \in Nat
          /\ Count(trace', "operator_failure") \in Nat
          /\ Count(trace, "operator_failure") <= Count(trace', "operator_failure")
      BY CountGrows
    <2>5. /\ Paid <= spent["test_runs"]
          /\ spent["test_runs"] + Owed <= Paid + Count(trace, "operator_failure")
      BY <1>3 DEF PaidInv
    <2> QED
      BY <1>1, <1>3, <2>1, <2>2, <2>3, <2>4, <2>5
  <1> QED
    BY <1>1, <1>2, <1>3 DEF PaidInv

\* Charging a failed tick keeps PaidInv: its failure was owed.
LEMMA FailedStep ==
  ASSUME PaidInv, Grown, NEW cost \in AllCosts, ChargeTick(cost), UNCHANGED qaPaid,
         pc \in {"failed", "hand_failed"}, pc' \notin {"failed", "hand_failed"}
  PROVE  PaidInv'
  <1>0. cost \in [Axes -> Nat]
    BY RunnerAssumption DEF AllCosts, NoCost
  <1>1. /\ spent' \in [Axes -> Nat]
        /\ "test_runs" \in Axes =>
             spent'["test_runs"] = spent["test_runs"] + cost["test_runs"]
    BY <1>0, TestRunsCharged DEF PaidInv
  <1>2. ASSUME "test_runs" \in Axes
        PROVE  /\ Paid' <= spent'["test_runs"]
               /\ spent'["test_runs"] + Owed' <= Paid' + Count(trace', "operator_failure")
    <2>1. Paid \in Nat /\ spent["test_runs"] \in Nat /\ Paid' = Paid
      BY <1>2, PaidNumber DEF PaidInv, Paid
    <2>2. cost["test_runs"] \in {0, 1}
      BY <1>2, TestRunsAssumption DEF AllCosts, NoCost
    <2>3. Owed = 1 /\ Owed' = 0
      BY DEF Owed
    <2>4. /\ Count(trace, "operator_failure") \in Nat
          /\ Count(trace', "operator_failure") \in Nat
          /\ Count(trace, "operator_failure") <= Count(trace', "operator_failure")
      BY CountGrows
    <2>5. /\ Paid <= spent["test_runs"]
          /\ spent["test_runs"] + Owed <= Paid + Count(trace, "operator_failure")
      BY <1>2 DEF PaidInv
    <2> QED
      BY <1>1, <1>2, <2>1, <2>2, <2>3, <2>4, <2>5
  <1> QED
    BY <1>1, <1>2 DEF PaidInv

\* Recording a failure adds one to the failures on the trace.
LEMMA FailureGrows ==
  ASSUME IInv, AppendActorEvent("operator_failure")
  PROVE  GrowsBy("operator_failure")
  <1>1. "operator_failure" \in EventTypes
    BY DEF EventTypes, GenericTypes
  <1>2. /\ Event("operator_failure", operator) \in EventRecord
        /\ Event("operator_failure", operator).type = "operator_failure"
    BY <1>1, PlainEvent DEF IInv, TypeOK
  <1> QED
    BY <1>2, AppendFacts DEF AppendActorEvent, IInv, TypeOK, GrowsBy

\* Every step of a grown life only lets the trace grow.
LEMMA GrownAlways ==
  ASSUME IInv, RefInv, [GrownNext]_lifeVars
  PROVE  Grown
  <1>1. CASE PlainStage \/ PlainHand
    BY <1>1, PlainStageGrowth, HandGrowth, GrowthGrown
  <1>2. CASE OpenTick \/ Begin \/ CommitRoute \/ \E to \in Stations : Route(to)
    BY <1>2, LandmarkGrowth, HandLandmarks, GrowthGrown
  <1>3. CASE SettleTick \/ SettleFailure \/ SettleApplied \/ SettleFailed
    <2>1. CASE Capture
      BY <2>1, HandLandmarks, GrowthGrown
    <2>2. CASE UNCHANGED vars
      BY <2>2, NoPlain, GrowthGrown DEF IInv, TypeOK, vars
    <2> QED
      BY <1>3, <2>1, <2>2 DEF SettleTick, SettleFailure, SettleApplied, SettleFailed
  <1> QED
    BY <1>1, <1>2, <1>3, GrownKinds

\* Every life, by run() or by hand, keeps PaidInv.
LEMMA PaidInvInductive ==
  ASSUME PaidInv, IInv, RefInv, [GrownNext]_lifeVars
  PROVE  PaidInv'
  <1>0. /\ Grown
        /\ NoCost \in [Axes -> Nat] /\ AllCosts \subseteq [Axes -> Nat]
        /\ Costs \subseteq [Axes -> Nat]
        /\ "test_runs" \in Axes =>
             NoCost["test_runs"] = 0 /\ \A cost \in Costs : cost["test_runs"] = 0
    BY GrownAlways, RunnerAssumption, TestRunsAssumption DEF NoCost, AllCosts
  <1>1. CASE PlainStage
    <2>1. CASE PhysicsLoud
      <3>1. PICK cost \in Costs \cup {NoCost} : ChargeTick(cost)
        BY <2>1 DEF PhysicsLoud
      <3> QED
        BY <1>0, <2>1, <3>1, ChargedStep DEF PhysicsLoud
    <2>2. CASE UNCHANGED lifeVars
      BY <1>0, <2>2, UnchargedStep DEF lifeVars, runnerVars, economy
    <2>3. CASE EffectFails
      BY <1>0, <2>3, FailureGrows, UnchargedStep DEF EffectFails, economy
    <2>4. CASE \/ Loud \/ RunFlow \/ OrganWork \/ OrganQuiet \/ Perish
               \/ DieFromMortality \/ Survive \/ MeasurePressure \/ LegacyRoute
               \/ LegacyUnsupported \/ PredictShadow \/ RecordShadow \/ TickLimit
               \/ Finish
      BY <1>0, <2>4, UnchargedStep DEF Loud, RunFlow, OrganWork, OrganQuiet,
         Perish, DieFromMortality, DieOf, Survive, MeasurePressure,
         LegacyRoute, LegacyUnsupported, PredictShadow, RecordShadow, TickLimit, Finish,
         Decided, economy
    <2>5. CASE \/ \E through \in 1..head : Reconcile(through)
               \/ \E cause \in Causes : ManifestLife(cause)
               \/ \E cause \in Causes : NoViable(cause)
               \/ \E to \in Operators \cup {"none"} : Derive(to)
      BY <1>0, <2>5, UnchargedStep DEF Reconcile, ManifestLife, NoViable, DieOf,
         Derive, Decided, economy
    <2> QED
      BY <1>1, <2>1, <2>2, <2>3, <2>4, <2>5 DEF PlainStage
  <1>2. CASE PlainHand
    <2>1. CASE \/ \E actor \in {"LOGIC", "RUNTIME"} : ExecuteTick(actor)
               \/ OrganRecords \/ OrganReconciles \/ OrganLoud \/ Judge \/ PerishByHand
      BY <1>0, <2>1, UnchargedStep DEF ExecuteTick, Caller, OrganRecords,
         OrganReconciles, OrganLoud, Judge, PerishByHand, InHand, economy
    <2>2. CASE OrganFails
      BY <1>0, <2>2, FailureGrows, UnchargedStep DEF OrganFails, economy
    <2>3. CASE SettleLoud
      <3>1. pc' \notin {"failed", "hand_failed"}
        BY <2>3 DEF SettleLoud
      <3>2. CASE ChargeTick(NoCost) /\ UNCHANGED qaPaid
        BY <1>0, <3>1, <3>2, ChargedStep
      <3>3. ASSUME NEW cost \in AllCosts, PayQa(cost), ChargeTick(cost)
            PROVE  PaidInv'
        BY <1>0, <3>1, <3>3, ChargedStep
      <3> QED
        BY <2>3, <3>2, <3>3 DEF SettleLoud
    <2> QED
      BY <1>2, <2>1, <2>2, <2>3 DEF PlainHand
  <1>3. CASE OpenTick \/ Begin \/ CommitRoute \/ \E to \in Stations : Route(to)
    BY <1>0, <1>3, UnchargedStep DEF OpenTick, Begin, CommitRoute, Route, Caller, economy
  <1>4. CASE SettleTick
    <2>1. PICK cost \in AllCosts : Physics(cost) /\ ChargeTick(cost)
      BY <1>4 DEF SettleTick
    <2>2. \/ PayQa(cost)
          \/ UNCHANGED qaPaid /\ ("test_runs" \in Axes => cost["test_runs"] = 0)
      BY <1>0, <2>1 DEF Physics
    <2> QED
      BY <1>0, <1>4, <2>1, <2>2, ChargedStep DEF SettleTick
  <1>5. CASE SettleApplied
    <2>1. PICK cost \in AllCosts :
            /\ IF operator = "LOGIC" THEN PayQa(cost) ELSE cost = NoCost /\ UNCHANGED qaPaid
            /\ ChargeTick(cost)
      BY <1>5 DEF SettleApplied
    <2>2. \/ PayQa(cost)
          \/ UNCHANGED qaPaid /\ ("test_runs" \in Axes => cost["test_runs"] = 0)
      BY <1>0, <2>1
    <2> QED
      BY <1>0, <1>5, <2>1, <2>2, ChargedStep DEF SettleApplied
  <1>6. CASE SettleFailure \/ SettleFailed
    <2>1. \E cost \in AllCosts : ChargeTick(cost)
      BY <1>6 DEF SettleFailure, SettleFailed
    <2>2. /\ pc \in {"failed", "hand_failed"} /\ pc' \notin {"failed", "hand_failed"}
          /\ UNCHANGED qaPaid
      BY <1>6 DEF SettleFailure, SettleFailed, InHand
    <2> QED
      BY <1>0, <2>1, <2>2, FailedStep
  <1> QED
    BY <1>1, <1>2, <1>3, <1>4, <1>5, <1>6, GrownKinds

\* The two invariants give SettledOnce.
LEMMA InvariantsSettleOnce ==
  ASSUME TickInv, PaidInv, TypeOK
  PROVE  SettledOnce
  <1> DEFINE ticks == {i \in 1..Len(trace) : trace[i].type = "operator_tick"}
             failures == {i \in 1..Len(trace) : trace[i].type = "operator_failure"}
             paid == {id \in qaPaid : QaCost[id]["test_runs"] = 1}
  <1>1. IsFiniteSet(1..Len(trace))
    BY FS_Interval DEF TypeOK
  <1>2. IsFiniteSet(ticks) /\ IsFiniteSet(failures)
    BY <1>1, FS_Subset
  <1>3. charged \subseteq ticks
    BY DEF TickInv
  <1>4. clock <= Cardinality(ticks)
    <2> HIDE DEF ticks
    <2> QED
      BY <1>2, <1>3, FS_Subset DEF TickInv
  <1>5. Cardinality(failures) \in Nat
    BY <1>2, FS_CardinalityType
  <1>6. Cardinality(paid) \in Nat
    BY PaidNumber DEF Paid
  <1>7. "test_runs" \in Axes =>
          spent["test_runs"] \in Cardinality(paid)..(Cardinality(paid) + Cardinality(failures))
    <2> SUFFICES ASSUME "test_runs" \in Axes
                 PROVE  spent["test_runs"] \in
                          Cardinality(paid)..(Cardinality(paid) + Cardinality(failures))
      OBVIOUS
    <2>1. /\ spent["test_runs"] \in Nat
          /\ Cardinality(paid) <= spent["test_runs"]
          /\ spent["test_runs"] + Owed <= Cardinality(paid) + Cardinality(failures)
      BY DEF PaidInv, Paid, Count
    <2>2. Owed \in {0, 1}
      BY DEF Owed
    <2> HIDE DEF paid, failures
    <2> QED
      BY <1>5, <1>6, <2>1, <2>2
  <1> HIDE DEF ticks, failures, paid
  <1>8. head <= clock
    BY DEF TickInv
  <1> QED
    BY <1>4, <1>7, <1>8 DEF SettledOnce, ticks, failures, paid

\* However often a manual entrance is called again after a loud end, no tick
\* is charged or filmed twice and no QA evidence is paid for twice.
THEOREM GrownSettledOnce == GrownSpec => []SettledOnce
  <1>1. RunnerInit => TickInv /\ PaidInv /\ IInv /\ RefInv
    <2> SUFFICES ASSUME RunnerInit
                 PROVE  TickInv /\ PaidInv /\ IInv /\ RefInv
      OBVIOUS
    <2>1. IInv /\ RefInv
      BY InitIInv DEF RunnerInit, RefInv, NoDecision
    <2>2. /\ clock = 0 /\ head = 0 /\ charged = {} /\ qaPaid = {} /\ pc = "flow"
          /\ spent = NoCost /\ trace = <<Event("birth", "FLOW")>>
      BY DEF RunnerInit, Init
    <2>3. IsFiniteSet({}) /\ Cardinality({}) = 0
      BY FS_EmptySet
    <2>4. TickInv
      BY <2>2, <2>3 DEF TickInv, Event, Unsettled
    <2>5. Paid = 0 /\ Count(trace, "operator_failure") = 0
      <3>1. {id \in qaPaid : QaCost[id]["test_runs"] = 1} = {}
        BY <2>2
      <3>2. {i \in 1..Len(trace) : trace[i].type = "operator_failure"} = {}
        BY <2>2 DEF Event
      <3> QED
        BY <2>3, <3>1, <3>2 DEF Paid, Count
    <2>6. spent \in [Axes -> Nat] /\ ("test_runs" \in Axes => spent["test_runs"] = 0)
      BY <2>2 DEF NoCost
    <2>7. PaidInv
      BY <2>2, <2>3, <2>5, <2>6 DEF PaidInv, Owed
    <2> QED
      BY <2>1, <2>4, <2>7
  <1>2. TickInv /\ PaidInv /\ IInv /\ RefInv /\ [GrownNext]_lifeVars
          => TickInv' /\ PaidInv' /\ IInv' /\ RefInv'
    BY TickInvInductive, PaidInvInductive, GrownStep
  <1>3. TickInv /\ PaidInv /\ IInv => SettledOnce
    BY InvariantsSettleOnce DEF IInv
  <1> QED
    BY <1>1, <1>2, <1>3, PTL DEF GrownSpec

=============================================================================
