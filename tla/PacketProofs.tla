---------------------------- MODULE PacketProofs ----------------------------
(***************************************************************************)
(* TLAPS proofs about Packet, for every set of event types and causes and  *)
(* for every bound on the trace.                                           *)
(***************************************************************************)
EXTENDS Packet, TLAPS

\* What appending one event does to a trace.
LEMMA AppendFacts ==
  ASSUME NEW S, NEW s \in Seq(S), NEW e \in S
  PROVE  /\ Append(s, e) \in Seq(S)
         /\ Len(s) \in Nat
         /\ Len(Append(s, e)) = Len(s) + 1
         /\ \A i \in 1..Len(s) : Append(s, e)[i] = s[i]
         /\ Append(s, e)[Len(s) + 1] = e
  OBVIOUS

\* Two events appended at once are appended one after the other.
LEMMA AppendTwo ==
  ASSUME NEW S, NEW s \in Seq(S), NEW a \in S, NEW b \in S
  PROVE  s \o <<a, b>> = Append(Append(s, a), b)
  OBVIOUS

\* The position reached and the lease held after n events depend on these n
\* events only.
LEMMA PrefixDetermines ==
  ASSUME NEW tr, NEW tr2, NEW n \in Nat, NEW o,
         \A i \in 1..n : tr[i] = tr2[i]
  PROVE  /\ PositionAt(tr, n, o) <=> PositionAt(tr2, n, o)
         /\ LeaseAt(tr, n, o) <=> LeaseAt(tr2, n, o)
  <1>1. \A i \in 1..n : \A j \in (i + 1)..n : tr[j] = tr2[j]
    OBVIOUS
  <1> QED
    BY <1>1 DEF PositionAt, LeaseAt

\* An event that is no route, written at the current position, keeps the
\* trace well routed.
LEMMA AppendAtPosition ==
  ASSUME NEW tr \in Seq(EventRecord), NEW o \in Operators,
         NEW e \in EventRecord,
         WellRouted(tr, o), e.operator = o, e.type # "route"
  PROVE  WellRouted(Append(tr, e), o)
  <1> DEFINE tr2 == Append(tr, e)
             n == Len(tr)
  <1>1. /\ tr2 \in Seq(EventRecord) /\ n \in Nat /\ Len(tr2) = n + 1
        /\ tr2[n + 1] = e
        /\ \A i \in 1..n : tr2[i] = tr[i]
    BY AppendFacts
  <1> HIDE DEF tr2, n
  <1>2. PositionAt(tr, n, o)
    BY DEF WellRouted, n
  <1>3. PositionAt(tr2, n, o)
    BY <1>1, <1>2, PrefixDetermines
  <1>4. PositionAt(tr2, n + 1, o)
    BY <1>1, <1>3 DEF PositionAt
  <1>5. ASSUME NEW i \in 1..(n + 1)
        PROVE  /\ PositionAt(tr2, i, tr2[i].operator)
               /\ tr2[i].type = "route" =>
                    /\ PositionAt(tr2, i - 1, tr2[i].from)
                    /\ tr2[i].to = tr2[i].operator
                    /\ LegalMove(tr2[i].from, tr2[i].to)
    <2>1. CASE i = n + 1
      BY <2>1, <1>1, <1>4
    <2>2. CASE i \in 1..n
      <3>1. /\ PositionAt(tr, i, tr[i].operator)
            /\ tr[i].type = "route" =>
                    /\ PositionAt(tr, i - 1, tr[i].from)
                    /\ tr[i].to = tr[i].operator
                    /\ LegalMove(tr[i].from, tr[i].to)
        BY <2>2 DEF WellRouted, n
      <3>2. i \in Nat /\ i - 1 \in Nat /\ tr2[i] = tr[i]
            /\ (\A j \in 1..i : tr2[j] = tr[j])
            /\ (\A j \in 1..(i - 1) : tr2[j] = tr[j])
        BY <2>2, <1>1
      <3>3. /\ PositionAt(tr2, i, tr[i].operator)
            /\ PositionAt(tr, i - 1, tr[i].from) <=> PositionAt(tr2, i - 1, tr[i].from)
        BY <3>1, <3>2, PrefixDetermines
      <3> QED
        BY <3>1, <3>2, <3>3
    <2> QED
      BY <2>1, <2>2, <1>1
  <1> QED
    BY <1>1, <1>4, <1>5 DEF WellRouted, tr2

\* A route to a successor moves a well routed trace to its target.
LEMMA AppendRoute ==
  ASSUME NEW tr \in Seq(EventRecord), NEW o \in Operators,
         NEW e \in EventRecord,
         WellRouted(tr, o), e.type = "route", e.from = o,
         e.to = e.operator, e.to \in Successors(o)
  PROVE  WellRouted(Append(tr, e), e.to)
  <1> DEFINE tr2 == Append(tr, e)
             n == Len(tr)
  <1>1. /\ tr2 \in Seq(EventRecord) /\ n \in Nat /\ Len(tr2) = n + 1
        /\ tr2[n + 1] = e
        /\ \A i \in 1..n : tr2[i] = tr[i]
    BY AppendFacts
  <1> HIDE DEF tr2, n
  <1>2. PositionAt(tr, n, o)
    BY DEF WellRouted, n
  <1>3. PositionAt(tr2, n, o)
    BY <1>1, <1>2, PrefixDetermines
  <1>4. PositionAt(tr2, n + 1, e.to)
    BY <1>1 DEF PositionAt
  <1>5. ASSUME NEW i \in 1..(n + 1)
        PROVE  /\ PositionAt(tr2, i, tr2[i].operator)
               /\ tr2[i].type = "route" =>
                    /\ PositionAt(tr2, i - 1, tr2[i].from)
                    /\ tr2[i].to = tr2[i].operator
                    /\ LegalMove(tr2[i].from, tr2[i].to)
    <2>1. CASE i = n + 1
      <3>1. i - 1 = n
        BY <2>1, <1>1
      <3> QED
        BY <2>1, <3>1, <1>1, <1>3, <1>4 DEF Successors, LegalMove
    <2>2. CASE i \in 1..n
      <3>1. /\ PositionAt(tr, i, tr[i].operator)
            /\ tr[i].type = "route" =>
                    /\ PositionAt(tr, i - 1, tr[i].from)
                    /\ tr[i].to = tr[i].operator
                    /\ LegalMove(tr[i].from, tr[i].to)
        BY <2>2 DEF WellRouted, n
      <3>2. i \in Nat /\ i - 1 \in Nat /\ tr2[i] = tr[i]
            /\ (\A j \in 1..i : tr2[j] = tr[j])
            /\ (\A j \in 1..(i - 1) : tr2[j] = tr[j])
        BY <2>2, <1>1
      <3>3. /\ PositionAt(tr2, i, tr[i].operator)
            /\ PositionAt(tr, i - 1, tr[i].from) <=> PositionAt(tr2, i - 1, tr[i].from)
        BY <3>1, <3>2, PrefixDetermines
      <3> QED
        BY <3>1, <3>2, <3>3
    <2> QED
      BY <2>1, <2>2, <1>1
  <1> QED
    BY <1>1, <1>4, <1>5 DEF WellRouted, tr2

\* An event that is lifecycle bookkeeping, or organ work under a lease and
\* within the operator's rights, keeps the trace well leased.
LEMMA AppendLeased ==
  ASSUME NEW tr \in Seq(EventRecord), NEW e \in EventRecord,
         WellLeased(tr),
         e.type \notin LifecycleTypes =>
           LeaseAt(tr, Len(tr), e.operator) /\ e.operator \in Rights(e.type)
  PROVE  WellLeased(Append(tr, e))
  <1> DEFINE tr2 == Append(tr, e)
             n == Len(tr)
  <1>1. /\ tr2 \in Seq(EventRecord) /\ n \in Nat /\ Len(tr2) = n + 1
        /\ tr2[n + 1] = e
        /\ \A i \in 1..n : tr2[i] = tr[i]
    BY AppendFacts
  <1> HIDE DEF tr2, n
  <1>2. ASSUME NEW i \in 1..(n + 1), tr2[i].type \notin LifecycleTypes
        PROVE  /\ LeaseAt(tr2, i - 1, tr2[i].operator)
               /\ tr2[i].operator \in Rights(tr2[i].type)
    <2>1. CASE i = n + 1
      <3>1. LeaseAt(tr, n, e.operator) /\ e.operator \in Rights(e.type)
        BY <1>1, <1>2, <2>1 DEF n
      <3>2. LeaseAt(tr2, n, e.operator)
        BY <3>1, <1>1, PrefixDetermines
      <3>3. i - 1 = n
        BY <2>1, <1>1
      <3> QED
        BY <2>1, <3>1, <3>2, <3>3, <1>1
    <2>2. CASE i \in 1..n
      <3>1. i - 1 \in Nat /\ tr2[i] = tr[i] /\ (\A j \in 1..(i - 1) : tr2[j] = tr[j])
        BY <2>2, <1>1
      <3>2. LeaseAt(tr, i - 1, tr[i].operator) /\ tr[i].operator \in Rights(tr[i].type)
        BY <1>2, <2>2, <3>1 DEF WellLeased, n
      <3>3. LeaseAt(tr2, i - 1, tr[i].operator)
        BY <3>1, <3>2, PrefixDetermines
      <3> QED
        BY <3>1, <3>2, <3>3
    <2> QED
      BY <2>1, <2>2, <1>1
  <1> QED
    BY <1>1, <1>2 DEF WellLeased, tr2

\* A derivation that names an earlier event, or a tree route that names a
\* matching derivation, keeps the trace well derived; other events cannot
\* disturb it.
LEMMA AppendDerived ==
  ASSUME NEW tr \in Seq(EventRecord), NEW e \in EventRecord,
         WellDerived(tr),
         e.type = "route_derivation" => e.ref \in 1..Len(tr),
         e.type = "route" /\ e.tree =>
           /\ e.ref \in 1..Len(tr)
           /\ tr[e.ref].type = "route_derivation" /\ tr[e.ref].ready
           /\ tr[e.ref].from = e.from /\ tr[e.ref].to = e.to
           /\ tr[tr[e.ref].ref].type = "tension_measure"
           /\ tr[tr[e.ref].ref].ready
           /\ tr[tr[e.ref].ref].operator = e.from
  PROVE  WellDerived(Append(tr, e))
  <1> DEFINE tr2 == Append(tr, e)
             n == Len(tr)
  <1>1. /\ tr2 \in Seq(EventRecord) /\ n \in Nat /\ Len(tr2) = n + 1
        /\ tr2[n + 1] = e
        /\ \A i \in 1..n : tr2[i] = tr[i]
    BY AppendFacts
  <1> HIDE DEF tr2
  <1>2. ASSUME NEW d \in 1..(n + 1), tr2[d].type = "route_derivation"
        PROVE  tr2[d].ref \in 1..(d - 1)
    BY <1>1, <1>2 DEF WellDerived
  <1>3. ASSUME NEW i \in 1..(n + 1), tr2[i].type = "route", tr2[i].tree
        PROVE  \E d \in 1..(i - 1) : \E p \in 1..(d - 1) :
                 /\ d = tr2[i].ref /\ p = tr2[d].ref
                 /\ tr2[d].type = "route_derivation" /\ tr2[d].ready
                 /\ tr2[d].from = tr2[i].from /\ tr2[d].to = tr2[i].to
                 /\ tr2[p].type = "tension_measure" /\ tr2[p].ready
                 /\ tr2[p].operator = tr2[i].from
    <2>1. CASE i = n + 1
      <3> DEFINE d == e.ref
                 p == tr[d].ref
      <3>1. d \in 1..n /\ p \in 1..(d - 1) /\ p \in 1..n
        BY <1>1, <1>3, <2>1 DEF WellDerived
      <3>2. tr2[d] = tr[d] /\ tr2[p] = tr[p] /\ tr2[i] = e
        BY <1>1, <2>1, <3>1
      <3> HIDE DEF d, p
      <3>3. /\ d = tr2[i].ref /\ p = tr2[d].ref
            /\ tr2[d].type = "route_derivation" /\ tr2[d].ready
            /\ tr2[d].from = tr2[i].from /\ tr2[d].to = tr2[i].to
            /\ tr2[p].type = "tension_measure" /\ tr2[p].ready
            /\ tr2[p].operator = tr2[i].from
        BY <1>3, <3>1, <3>2 DEF d, p
      <3>4. d \in 1..(i - 1)
        BY <1>1, <2>1, <3>1
      <3> QED
        BY <3>1, <3>3, <3>4
    <2>2. CASE i \in 1..n
      <3>1. tr2[i] = tr[i] /\ i \in Nat
        BY <1>1, <2>2
      <3>2. PICK d \in 1..(i - 1) : \E p \in 1..(d - 1) :
                 /\ d = tr[i].ref /\ p = tr[d].ref
                 /\ tr[d].type = "route_derivation" /\ tr[d].ready
                 /\ tr[d].from = tr[i].from /\ tr[d].to = tr[i].to
                 /\ tr[p].type = "tension_measure" /\ tr[p].ready
                 /\ tr[p].operator = tr[i].from
        BY <1>3, <2>2, <3>1 DEF WellDerived
      <3>3. PICK p \in 1..(d - 1) :
                 /\ d = tr[i].ref /\ p = tr[d].ref
                 /\ tr[d].type = "route_derivation" /\ tr[d].ready
                 /\ tr[d].from = tr[i].from /\ tr[d].to = tr[i].to
                 /\ tr[p].type = "tension_measure" /\ tr[p].ready
                 /\ tr[p].operator = tr[i].from
        BY <3>2
      <3>4. d \in 1..n /\ p \in 1..n
        BY <1>1, <2>2
      <3>5. tr2[d] = tr[d] /\ tr2[p] = tr[p]
        BY <1>1, <3>4
      <3>6. /\ d = tr2[i].ref /\ p = tr2[d].ref
            /\ tr2[d].type = "route_derivation" /\ tr2[d].ready
            /\ tr2[d].from = tr2[i].from /\ tr2[d].to = tr2[i].to
            /\ tr2[p].type = "tension_measure" /\ tr2[p].ready
            /\ tr2[p].operator = tr2[i].from
        BY <3>1, <3>3, <3>5
      <3> QED
        BY <3>6
    <2> QED
      BY <2>1, <2>2, <1>1
  <1> QED
    BY <1>1, <1>2, <1>3 DEF WellDerived, tr2

-----------------------------------------------------------------------------
(***************************************************************************)
(* Every step of the Packet has one of five shapes.                        *)
(***************************************************************************)

\* A tick or organ event at the current position.
WorkStep ==
  \E e \in EventRecord :
    /\ AssertMutable
    /\ e.operator = operator
    /\ e.type \notin {"birth", "route", "terminal"}
    /\ e.type \notin LifecycleTypes =>
         LeaseAt(trace, Len(trace), operator) /\ operator \in Rights(e.type)
    /\ e.type = "route_derivation" => e.ref \in 1..Len(trace)
    /\ trace' = Append(trace, e)
    /\ status' \in {"born", "running"}
    /\ UNCHANGED <<operator, terminal, death>>

\* A committed route.
MoveStep ==
  \E e \in EventRecord :
    /\ AssertMutable
    /\ e.type = "route" /\ e.from = operator /\ e.to = e.operator
    /\ e.to \in Successors(operator)
    /\ e.tree => DerivationMatches(e.ref, e.to)
    /\ trace' = Append(trace, e)
    /\ operator' = e.to
    /\ status' = "running"
    /\ UNCHANGED <<terminal, death>>

\* begin_terminal called by itself.
SealStep ==
  \E e \in EventRecord :
    /\ AssertMutable
    /\ e.type = "terminal" /\ e.operator = operator
    /\ trace' = Append(trace, e)
    /\ status' = "dying"
    /\ terminal' \in TerminalRecord \ {NoTerminal}
    /\ terminal'.kind = "manifest" => operator = "MANIFEST"
    /\ UNCHANGED <<operator, death>>

\* Last words, terminal and freeze in one call.
EndStep ==
  \E w \in EventRecord, e \in EventRecord :
    /\ AssertMutable
    /\ w.type \in {"manifest", "death"} /\ w.operator = operator
    /\ e.type = "terminal" /\ e.operator = operator
    /\ trace' = Append(Append(trace, w), e)
    /\ status' = "dead"
    /\ terminal' \in TerminalRecord \ {NoTerminal}
    /\ terminal'.kind = "manifest" => operator = "MANIFEST"
    /\ death' = terminal'.cause
    /\ UNCHANGED operator

FreezeStep ==
  /\ status = "dying" /\ status' = "dead" /\ terminal # NoTerminal
  /\ death' = terminal.cause
  /\ UNCHANGED <<operator, trace, terminal>>

\* A plain event of a known type written by an operator is an event record.
LEMMA PlainEvent ==
  ASSUME NEW type \in EventTypes, NEW op \in Operators
  PROVE  /\ Event(type, op) \in EventRecord
         /\ Event(type, op).type = type
         /\ Event(type, op).operator = op
         /\ Event(type, op).tree = FALSE
  BY DEF Event, EventRecord

\* An organ event written under the lease is a WorkStep.
LEMMA ActorEventIsWork ==
  ASSUME TypeOK, NEW type \in EventTypes \ LifecycleTypes,
         type # "route_derivation", AppendActorEvent(type)
  PROVE  WorkStep
  <1>1. /\ Event(type, operator) \in EventRecord
        /\ Event(type, operator).type = type
        /\ Event(type, operator).operator = operator
    BY PlainEvent DEF TypeOK
  <1>2. /\ AssertMutable /\ LeaseAt(trace, Len(trace), operator)
        /\ operator \in Rights(type)
        /\ trace' = Append(trace, Event(type, operator))
        /\ UNCHANGED <<status, operator, terminal, death>>
    BY DEF AppendActorEvent, AssertActorTick, CurrentVisitLease
  <1>3. type \notin {"birth", "route", "terminal"}
    BY DEF LifecycleTypes
  <1> QED
    BY <1>1, <1>2, <1>3 DEF WorkStep, AssertMutable

\* Every step of Next has one of the five shapes.
LEMMA StepShape ==
  ASSUME TypeOK, Next
  PROVE  WorkStep \/ MoveStep \/ SealStep \/ EndStep \/ FreezeStep
  <1>1. CASE BeginTick
    <2> DEFINE e == Event("operator_tick", operator)
    <2>1. e \in EventRecord /\ e.type = "operator_tick" /\ e.operator = operator
      BY PlainEvent DEF TypeOK, EventTypes, LifecycleTypes
    <2> HIDE DEF e
    <2>2. /\ AssertMutable /\ trace' = Append(trace, e) /\ status' = "running"
          /\ UNCHANGED <<operator, terminal, death>>
      BY <1>1 DEF BeginTick, e
    <2> QED
      BY <2>1, <2>2 DEF WorkStep, LifecycleTypes
  <1>2. CASE AppendOrganEvent \/ AppendQaEvent
    <2>1. PICK type \in OrganTypes \cup BodyTypes : AppendActorEvent(type)
      BY <1>2 DEF AppendOrganEvent, AppendQaEvent
    <2>2. type \in EventTypes \ LifecycleTypes /\ type # "route_derivation"
      BY PacketAssumption
         DEF EventTypes, LifecycleTypes, GenericTypes, RepositoryTypes, QaTypes
    <2> QED
      BY <2>1, <2>2, ActorEventIsWork
  <1>3. CASE AppendChaos \/ AppendUnitDissolution
    <2>1. PICK type \in {"chaos_append", "unit_dissolution"} : AppendActorEvent(type)
      BY <1>3 DEF AppendChaos, AppendUnitDissolution
    <2>2. type \in EventTypes \ LifecycleTypes /\ type # "route_derivation"
      BY DEF EventTypes, LifecycleTypes
    <2> QED
      BY <2>1, <2>2, ActorEventIsWork
  <1>4. CASE Crystallize
    <2> DEFINE e == Event("crystallization", "ENCODE")
    <2>1. e \in EventRecord /\ e.type = "crystallization" /\ e.operator = "ENCODE"
      <3>1. "crystallization" \in EventTypes
        BY DEF EventTypes
      <3>2. "ENCODE" \in Operators
        BY DEF Operators
      <3> QED
        BY <3>1, <3>2, PlainEvent
    <2> HIDE DEF e
    <2>2. /\ AssertMutable /\ operator = "ENCODE"
          /\ LeaseAt(trace, Len(trace), operator)
          /\ trace' = Append(trace, e)
          /\ UNCHANGED <<status, operator, terminal, death>>
      BY <1>4 DEF Crystallize, AssertActorTick, CurrentVisitLease, e
    <2>3. operator \in Rights(e.type)
      BY <2>1, <2>2 DEF Rights
    <2> QED
      BY <2>1, <2>2, <2>3 DEF WorkStep, LifecycleTypes, AssertMutable
  <1>5. ASSUME NEW snapshot \in BOOLEAN, MeasureTension(snapshot)
        PROVE  WorkStep
    <2> DEFINE e == [Event("tension_measure", operator) EXCEPT !.ready = snapshot]
    <2>1. e \in EventRecord /\ e.type = "tension_measure" /\ e.operator = operator
      BY DEF TypeOK, Event, EventRecord, EventTypes, GenericTypes
    <2> HIDE DEF e
    <2>2. /\ AssertMutable /\ LeaseAt(trace, Len(trace), operator)
          /\ trace' = Append(trace, e)
          /\ UNCHANGED <<status, operator, terminal, death>>
      BY <1>5 DEF MeasureTension, AssertActorTick, CurrentVisitLease, e
    <2>3. operator \in Rights(e.type)
      BY <2>1 DEF Rights, TypeOK
    <2> QED
      BY <2>1, <2>2, <2>3 DEF WorkStep, LifecycleTypes, AssertMutable
  <1>6. ASSUME NEW to \in Operators \cup {"none"}, NEW ref \in 1..Len(trace),
               NEW ready \in BOOLEAN, DeriveRoute(to, ref, ready)
        PROVE  WorkStep
    <2> DEFINE e == [Event("route_derivation", operator) EXCEPT
                       !.from = operator, !.to = to, !.ref = ref, !.ready = ready]
    <2>1. /\ e \in EventRecord /\ e.type = "route_derivation"
          /\ e.operator = operator /\ e.ref = ref
      <3>1. "route_derivation" \in EventTypes
        BY DEF EventTypes, GenericTypes
      <3>2. ref \in Nat /\ operator \in Operators
        BY DEF TypeOK
      <3> QED
        BY <3>1, <3>2 DEF Event, EventRecord
    <2> HIDE DEF e
    <2>2. /\ AssertMutable /\ LeaseAt(trace, Len(trace), operator)
          /\ trace' = Append(trace, e)
          /\ UNCHANGED <<status, operator, terminal, death>>
      BY <1>6 DEF DeriveRoute, AssertActorTick, CurrentVisitLease, e
    <2>3. operator \in Rights(e.type)
      BY <2>1 DEF Rights, TypeOK
    <2> QED
      BY <2>1, <2>2, <2>3 DEF WorkStep, LifecycleTypes, AssertMutable
  <1>7. ASSUME NEW to \in Operators, NEW tree \in BOOLEAN,
               NEW ref \in Nat, CommitTransition(to, tree, ref)
        PROVE  MoveStep
    <2> DEFINE e == [Event("route", to) EXCEPT
                       !.from = operator, !.to = to, !.ref = ref, !.tree = tree]
    <2>1. /\ e \in EventRecord /\ e.type = "route" /\ e.operator = to
          /\ e.from = operator /\ e.to = to /\ e.ref = ref /\ e.tree = tree
      BY DEF TypeOK, Event, EventRecord, EventTypes, LifecycleTypes
    <2> HIDE DEF e
    <2>2. /\ AssertMutable /\ to \in Successors(operator)
          /\ tree => DerivationMatches(ref, to)
          /\ trace' = Append(trace, e) /\ operator' = to /\ status' = "running"
          /\ UNCHANGED <<terminal, death>>
      BY <1>7 DEF CommitTransition, e
    <2> QED
      BY <2>1, <2>2 DEF MoveStep
  <1>8. ASSUME NEW kind \in {"manifest", "internal_death"}, NEW cause \in Causes,
               BeginTerminal(kind, cause)
        PROVE  SealStep
    <2> DEFINE e == Event("terminal", operator)
    <2>1. e \in EventRecord /\ e.type = "terminal" /\ e.operator = operator
      BY PlainEvent DEF TypeOK, EventTypes, LifecycleTypes
    <2> HIDE DEF e
    <2>2. /\ AssertMutable /\ trace' = Append(trace, e) /\ status' = "dying"
          /\ terminal' = [kind |-> kind, cause |-> cause]
          /\ kind = "manifest" => operator = "MANIFEST"
          /\ UNCHANGED <<operator, death>>
      BY <1>8 DEF BeginTerminal, TerminalAllowed, e
    <2>3. terminal' \in TerminalRecord \ {NoTerminal} /\ terminal'.kind = kind
      BY <2>2 DEF TerminalRecord, NoTerminal
    <2> QED
      BY <2>1, <2>2, <2>3 DEF SealStep
  <1>9. ASSUME NEW cause \in Causes, Freeze(cause)
        PROVE  FreezeStep
    BY <1>9 DEF Freeze, FreezeStep
  <1>10. ASSUME NEW kind \in {"manifest", "internal_death"}, NEW cause \in Causes,
                NEW words \in {"manifest", "death"}, EndLife(kind, cause, words)
         PROVE  EndStep
    <2> DEFINE w == Event(words, operator)
               e == Event("terminal", operator)
    <2>1. /\ w \in EventRecord /\ w.type = words /\ w.operator = operator
          /\ e \in EventRecord /\ e.type = "terminal" /\ e.operator = operator
      BY PlainEvent DEF TypeOK, EventTypes, LifecycleTypes
    <2> HIDE DEF e, w
    <2>2. /\ AssertMutable /\ trace' = trace \o <<w, e>> /\ status' = "dead"
          /\ terminal' = [kind |-> kind, cause |-> cause] /\ death' = cause
          /\ kind = "manifest" => operator = "MANIFEST"
          /\ UNCHANGED operator
      BY <1>10 DEF EndLife, TerminalAllowed, e, w
    <2>3. trace' = Append(Append(trace, w), e)
      BY <2>1, <2>2, AppendTwo DEF TypeOK
    <2>4. /\ terminal' \in TerminalRecord \ {NoTerminal}
          /\ terminal'.kind = kind /\ terminal'.cause = cause
      BY <2>2 DEF TerminalRecord, NoTerminal
    <2> QED
      BY <2>1, <2>2, <2>3, <2>4 DEF EndStep
  <1>11. ASSUME NEW cause \in Causes, ManifestPacket(cause) \/ Die(cause)
         PROVE  EndStep
    BY <1>10, <1>11 DEF ManifestPacket, Die
  <1>12. 0 \in Nat /\ \A ref \in 1..Len(trace) : ref \in Nat
    OBVIOUS
  <1> QED
    BY <1>1, <1>2, <1>3, <1>4, <1>5, <1>6, <1>7, <1>8, <1>9, <1>11, <1>12 DEF Next

-----------------------------------------------------------------------------
(***************************************************************************)
(* The inductive invariant and the theorems.                               *)
(***************************************************************************)

\* The conjunction is inductive; no conjunct but the type is needed by
\* another, they share the step shapes.
IInv == TypeOK /\ RouteContinuity /\ LeaseDiscipline /\ TerminalSealed
          /\ TreeRouteDerived

LEMMA InitIInv ==
  ASSUME Init
  PROVE  IInv
  <1> DEFINE b == Event("birth", "FLOW")
  <1>1. b \in EventRecord /\ b.type = "birth" /\ b.operator = "FLOW"
    <2>1. "birth" \in EventTypes
      BY DEF EventTypes, LifecycleTypes
    <2>2. "FLOW" \in Operators
      BY DEF Operators
    <2> QED
      BY <2>1, <2>2, PlainEvent
  <1> HIDE DEF b
  <1>2. /\ trace = <<b>> /\ operator = "FLOW" /\ status = "born"
        /\ terminal = NoTerminal /\ death = "none" /\ evidence = 0 /\ calm = 0
    BY DEF Init, b
  <1>3. Len(trace) = 1 /\ trace[1] = b /\ trace \in Seq(EventRecord)
    BY <1>1, <1>2
  <1>4. TypeOK
    BY <1>2, <1>3 DEF TypeOK, Operators, TerminalRecord
  <1>5. PositionAt(trace, 1, "FLOW")
    BY <1>1, <1>3 DEF PositionAt
  <1>6. RouteContinuity
    BY <1>1, <1>2, <1>3, <1>5 DEF RouteContinuity, WellRouted
  <1>7. LeaseDiscipline
    BY <1>1, <1>3 DEF LeaseDiscipline, WellLeased, LifecycleTypes
  <1>8. TerminalSealed
    BY <1>1, <1>2, <1>3 DEF TerminalSealed, NoTerminal
  <1>9. TreeRouteDerived
    BY <1>1, <1>3 DEF TreeRouteDerived, WellDerived
  <1> QED
    BY <1>4, <1>6, <1>7, <1>8, <1>9 DEF IInv

\* evidence and calm stay natural numbers.
LEMMA CountersTyped ==
  ASSUME TypeOK, Next
  PROVE  evidence' \in Nat /\ calm' \in Nat
  <1>0. evidence \in Nat /\ calm \in Nat
    BY DEF TypeOK
  <1>1. CASE AppendOrganEvent \/ AppendQaEvent \/ AppendChaos \/ AppendUnitDissolution
    BY <1>0, <1>1 DEF AppendOrganEvent, AppendQaEvent, AppendChaos,
                      AppendUnitDissolution, AppendActorEvent
  <1>2. CASE Crystallize \/ BeginTick
    BY <1>0, <1>2 DEF Crystallize, BeginTick
  <1>3. ASSUME NEW snapshot, MeasureTension(snapshot)
        PROVE  evidence' = evidence /\ calm' = calm
    BY <1>3 DEF MeasureTension
  <1>4. ASSUME NEW to, NEW ref, NEW ready, DeriveRoute(to, ref, ready)
        PROVE  evidence' = evidence /\ calm' = calm
    BY <1>4 DEF DeriveRoute
  <1>5. ASSUME NEW to, NEW tree, NEW ref, CommitTransition(to, tree, ref)
        PROVE  evidence' = evidence /\ calm' = calm
    BY <1>5 DEF CommitTransition
  <1>6. ASSUME NEW kind, NEW cause,
               BeginTerminal(kind, cause) \/ Freeze(cause)
                 \/ ManifestPacket(cause) \/ Die(cause)
        PROVE  evidence' = evidence /\ calm' = calm
    BY <1>6 DEF BeginTerminal, Freeze, ManifestPacket, Die, EndLife
  <1> QED
    BY <1>0, <1>1, <1>2, <1>3, <1>4, <1>5, <1>6 DEF Next

LEMMA NextIInv ==
  ASSUME IInv, [Next]_vars
  PROVE  IInv'
  <1> USE DEF IInv
  <1>1. CASE UNCHANGED vars
    BY <1>1 DEF vars, TypeOK, RouteContinuity, LeaseDiscipline, TerminalSealed,
                TreeRouteDerived
  <1>2. CASE Next
    <2>0. TypeOK /\ evidence' \in Nat /\ calm' \in Nat /\ trace \in Seq(EventRecord)
      BY <1>2, CountersTyped DEF TypeOK
    <2>1. CASE WorkStep
      <3>1. PICK e \in EventRecord :
              /\ AssertMutable
              /\ e.operator = operator
              /\ e.type \notin {"birth", "route", "terminal"}
              /\ e.type \notin LifecycleTypes =>
                   LeaseAt(trace, Len(trace), operator) /\ operator \in Rights(e.type)
              /\ e.type = "route_derivation" => e.ref \in 1..Len(trace)
              /\ trace' = Append(trace, e)
              /\ status' \in {"born", "running"}
              /\ UNCHANGED <<operator, terminal, death>>
        BY <2>1 DEF WorkStep
      <3>2. TypeOK'
        BY <2>0, <3>1, AppendFacts DEF TypeOK
      <3>3. RouteContinuity'
        BY <2>0, <3>1, AppendAtPosition DEF RouteContinuity, TypeOK
      <3>4. LeaseDiscipline'
        BY <2>0, <3>1, AppendLeased DEF LeaseDiscipline
      <3>5. TerminalSealed'
        BY <2>0, <3>1, AppendFacts DEF TerminalSealed, AssertMutable
      <3>6. TreeRouteDerived'
        BY <2>0, <3>1, AppendDerived DEF TreeRouteDerived
      <3> QED
        BY <3>2, <3>3, <3>4, <3>5, <3>6
    <2>2. CASE MoveStep
      <3>1. PICK e \in EventRecord :
              /\ AssertMutable
              /\ e.type = "route" /\ e.from = operator /\ e.to = e.operator
              /\ e.to \in Successors(operator)
              /\ e.tree => DerivationMatches(e.ref, e.to)
              /\ trace' = Append(trace, e)
              /\ operator' = e.to
              /\ status' = "running"
              /\ UNCHANGED <<terminal, death>>
        BY <2>2 DEF MoveStep
      <3>2. TypeOK'
        BY <2>0, <3>1, AppendFacts DEF TypeOK, EventRecord
      <3>3. RouteContinuity'
        BY <2>0, <3>1, AppendRoute DEF RouteContinuity, TypeOK
      <3>4. LeaseDiscipline'
        BY <2>0, <3>1, AppendLeased DEF LeaseDiscipline, LifecycleTypes
      <3>5. TerminalSealed'
        BY <2>0, <3>1, AppendFacts DEF TerminalSealed, AssertMutable, NoTerminal
      <3>6. TreeRouteDerived'
        <4>1. e.tree =>
                /\ e.ref \in 1..Len(trace)
                /\ trace[e.ref].type = "route_derivation" /\ trace[e.ref].ready
                /\ trace[e.ref].from = e.from /\ trace[e.ref].to = e.to
                /\ trace[trace[e.ref].ref].type = "tension_measure"
                /\ trace[trace[e.ref].ref].ready
                /\ trace[trace[e.ref].ref].operator = e.from
          BY <3>1 DEF DerivationMatches
        <4> QED
          BY <2>0, <3>1, <4>1, AppendDerived DEF TreeRouteDerived
      <3> QED
        BY <3>2, <3>3, <3>4, <3>5, <3>6
    <2>3. CASE SealStep
      <3>1. PICK e \in EventRecord :
              /\ AssertMutable
              /\ e.type = "terminal" /\ e.operator = operator
              /\ trace' = Append(trace, e)
              /\ status' = "dying"
              /\ terminal' \in TerminalRecord \ {NoTerminal}
              /\ terminal'.kind = "manifest" => operator = "MANIFEST"
              /\ UNCHANGED <<operator, death>>
        BY <2>3 DEF SealStep
      <3>2. TypeOK'
        BY <2>0, <3>1, AppendFacts DEF TypeOK
      <3>3. RouteContinuity'
        BY <2>0, <3>1, AppendAtPosition DEF RouteContinuity, TypeOK
      <3>4. LeaseDiscipline'
        BY <2>0, <3>1, AppendLeased DEF LeaseDiscipline, LifecycleTypes
      <3>5. TerminalSealed'
        BY <2>0, <3>1, AppendFacts DEF TerminalSealed, AssertMutable
      <3>6. TreeRouteDerived'
        BY <2>0, <3>1, AppendDerived DEF TreeRouteDerived
      <3> QED
        BY <3>2, <3>3, <3>4, <3>5, <3>6
    <2>4. CASE EndStep
      <3>1. PICK w \in EventRecord, e \in EventRecord :
              /\ AssertMutable
              /\ w.type \in {"manifest", "death"} /\ w.operator = operator
              /\ e.type = "terminal" /\ e.operator = operator
              /\ trace' = Append(Append(trace, w), e)
              /\ status' = "dead"
              /\ terminal' \in TerminalRecord \ {NoTerminal}
              /\ terminal'.kind = "manifest" => operator = "MANIFEST"
              /\ death' = terminal'.cause
              /\ UNCHANGED operator
        BY <2>4 DEF EndStep
      <3> DEFINE mid == Append(trace, w)
      <3>2. /\ mid \in Seq(EventRecord) /\ Len(mid) = Len(trace) + 1
            /\ Len(trace) \in Nat
            /\ \A i \in 1..Len(trace) : mid[i] = trace[i]
            /\ mid[Len(trace) + 1] = w
        BY <2>0, AppendFacts
      <3>3. /\ WellRouted(mid, operator) /\ WellLeased(mid) /\ WellDerived(mid)
        <4>1. WellRouted(mid, operator)
          BY <2>0, <3>1, AppendAtPosition DEF RouteContinuity, TypeOK
        <4>2. WellLeased(mid)
          BY <2>0, <3>1, AppendLeased DEF LeaseDiscipline, LifecycleTypes
        <4>3. WellDerived(mid)
          BY <2>0, <3>1, AppendDerived DEF TreeRouteDerived
        <4> QED
          BY <4>1, <4>2, <4>3
      <3>4. trace' = Append(mid, e)
        BY <3>1
      <3> HIDE DEF mid
      <3>5. TypeOK'
        <4>1. trace' \in Seq(EventRecord)
          BY <3>2, <3>4, AppendFacts
        <4>2. death' \in Causes \cup {"none"} /\ terminal' \in TerminalRecord
          BY <3>1 DEF TerminalRecord, NoTerminal
        <4> QED
          BY <2>0, <3>1, <4>1, <4>2 DEF TypeOK
      <3>6. RouteContinuity'
        BY <2>0, <3>1, <3>2, <3>3, <3>4, AppendAtPosition DEF RouteContinuity, TypeOK
      <3>7. LeaseDiscipline'
        BY <3>1, <3>2, <3>3, <3>4, AppendLeased DEF LeaseDiscipline, LifecycleTypes
      <3>8. TerminalSealed'
        <4>1. /\ Len(trace') = Len(trace) + 2 /\ trace'[Len(trace) + 2] = e
              /\ trace'[Len(trace) + 1] = w
              /\ \A i \in 1..Len(trace) : trace'[i] = trace[i]
          BY <3>1, <3>2, <3>4, AppendFacts
        <4>2. \A i \in 1..Len(trace) : trace[i].type # "terminal"
          BY <3>1 DEF TerminalSealed, AssertMutable
        <4>3. \A i \in 1..(Len(trace) + 2) :
                trace'[i].type = "terminal" <=> i = Len(trace) + 2
          BY <3>1, <3>2, <4>1, <4>2
        <4> QED
          BY <3>1, <4>1, <4>3 DEF TerminalSealed
      <3>9. TreeRouteDerived'
        BY <3>1, <3>2, <3>3, <3>4, AppendDerived DEF TreeRouteDerived
      <3> QED
        BY <3>5, <3>6, <3>7, <3>8, <3>9
    <2>5. CASE FreezeStep
      <3>1. TypeOK'
        BY <2>0, <2>5 DEF FreezeStep, TypeOK, TerminalRecord, NoTerminal
      <3>2. RouteContinuity' /\ LeaseDiscipline' /\ TreeRouteDerived'
        BY <2>5 DEF FreezeStep, RouteContinuity, LeaseDiscipline, TreeRouteDerived
      <3>3. TerminalSealed'
        BY <2>5 DEF FreezeStep, TerminalSealed
      <3> QED
        BY <3>1, <3>2, <3>3
    <2> QED
      BY <1>2, <2>0, <2>1, <2>2, <2>3, <2>4, <2>5, StepShape
  <1> QED
    BY <1>1, <1>2

\* The inductive invariant holds in every reachable state.
THEOREM PacketInvariant == Spec => []IInv
  BY InitIInv, NextIInv, PTL DEF Spec

\* The Packet table keeps its type.
THEOREM PacketTyped == Spec => []TypeOK
  <1>1. IInv => TypeOK
    BY DEF IInv
  <1> QED
    BY <1>1, PacketInvariant, PTL

\* A life's trace replays to its position along the topology, whatever the
\* organs, the router and the runner call.
THEOREM PacketRouteContinuity == Spec => []RouteContinuity
  <1>1. IInv => RouteContinuity
    BY DEF IInv
  <1> QED
    BY <1>1, PacketInvariant, PTL

\* No organ event is ever recorded outside a visit of its operator.
THEOREM PacketLeaseDiscipline == Spec => []LeaseDiscipline
  <1>1. IInv => LeaseDiscipline
    BY DEF IInv
  <1> QED
    BY <1>1, PacketInvariant, PTL

\* A life ends once, with the terminal event last and one cause throughout.
THEOREM PacketTerminalSealed == Spec => []TerminalSealed
  <1>1. IInv => TerminalSealed
    BY DEF IInv
  <1> QED
    BY <1>1, PacketInvariant, PTL

\* No tree route is committed without its derivation and pressure snapshot.
THEOREM PacketTreeRouteDerived == Spec => []TreeRouteDerived
  <1>1. IInv => TreeRouteDerived
    BY DEF IInv
  <1> QED
    BY <1>1, PacketInvariant, PTL

\* History is append-only and a corpse never changes.
THEOREM PacketHistoryAppendOnly == Spec => HistoryAppendOnly
  <1>1. ASSUME TypeOK, Next
        PROVE  AppendOnlyStep
    <2>0. trace \in Seq(EventRecord)
      BY <1>1 DEF TypeOK
    <2>1. CASE WorkStep \/ MoveStep \/ SealStep
      <3>1. PICK e \in EventRecord : AssertMutable /\ trace' = Append(trace, e)
        BY <2>1 DEF WorkStep, MoveStep, SealStep
      <3> QED
        BY <2>0, <3>1, AppendFacts DEF AppendOnlyStep, AssertMutable
    <2>2. CASE EndStep
      <3>1. PICK w \in EventRecord, e \in EventRecord :
              AssertMutable /\ trace' = Append(Append(trace, w), e)
        BY <2>2 DEF EndStep
      <3> DEFINE mid == Append(trace, w)
      <3>2. /\ mid \in Seq(EventRecord) /\ Len(mid) = Len(trace) + 1
            /\ Len(trace) \in Nat
            /\ \A i \in 1..Len(trace) : mid[i] = trace[i]
        BY <2>0, AppendFacts
      <3> HIDE DEF mid
      <3>3. trace' = Append(mid, e)
        BY <3>1 DEF mid
      <3>4. Len(trace') = Len(trace) + 2
            /\ \A i \in 1..Len(trace) : trace'[i] = trace[i]
        BY <3>2, <3>3, AppendFacts
      <3> QED
        BY <3>1, <3>2, <3>4 DEF AppendOnlyStep, AssertMutable
    <2>3. CASE FreezeStep
      BY <2>0, <2>3 DEF FreezeStep, AppendOnlyStep
    <2> QED
      BY <1>1, <2>1, <2>2, <2>3, StepShape
  <1>2. TypeOK /\ [Next]_vars => [AppendOnlyStep]_vars
    BY <1>1
  <1> QED
    BY <1>2, PacketTyped, PTL DEF Spec, HistoryAppendOnly

=============================================================================
