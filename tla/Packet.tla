-------------------------------- MODULE Packet --------------------------------
(***************************************************************************)
(* core/packet.lua: one mortal Packet seen through its public writers.     *)
(*                                                                         *)
(* Every public operation is one action; the callers (organs, router,      *)
(* runner) are free to call them in any order with any admissible          *)
(* argument, and a call whose guards fail returns nil and changes nothing, *)
(* so it is a stuttering step.  Event payloads are abstracted to the       *)
(* coordinates that other operations read back: the operator, the movement *)
(* a derivation or a route names, and the events they refer to.  Event     *)
(* ids are unique, so an event is named by its position in the trace.      *)
(***************************************************************************)
EXTENDS Naturals, Sequences, FiniteSets, Topology

CONSTANTS
  OrganTypes,  \* event types organs may record through the generic writer
  BodyTypes,   \* event types of the repository and QA writers
  Causes,      \* death causes used
  MaxTrace     \* bound on the length of the trace

GenericTypes ==
  {"operator_failure", "route_derivation", "identity_map",
   "relation_snapshot", "relation_mutation", "relation_formation",
   "structure_formation", "observation", "choice", "validation", "cycle",
   "runtime_frame", "runtime_reconciliation", "plan_completion_assessment",
   "tension_measure"}

RepositoryTypes ==
  {"repository_action_review", "repository_effect_attempt",
   "repository_effect_receipt", "repository_verification",
   "work_completion", "candidate_seal"}

QaTypes ==
  {"qa_check_request", "qa_check", "qa_execution_failure",
   "qa_candidate_verdict"}

DeathCauses ==
  {"complete", "blocked", "budget_exhausted", "identity_loss",
   "invalid_topology", "unsafe_scope", "stalled", "effect_failure",
   "cancelled"}

ASSUME PacketAssumption ==
  /\ OrganTypes \subseteq GenericTypes \ {"route_derivation", "tension_measure"}
  /\ BodyTypes \subseteq RepositoryTypes \cup QaTypes
  /\ Causes \subseteq DeathCauses
  /\ MaxTrace \in Nat

VARIABLES
  status,     \* instance.status
  operator,   \* instance.operator, the Packet's position
  trace,      \* instance.trace
  terminal,   \* the terminal record: kind and cause, or NoTerminal
  death,      \* instance.death.cause, or "none"
  evidence,   \* instance.revisions.evidence
  calm        \* instance.revisions.calm

vars == <<status, operator, trace, terminal, death, evidence, calm>>

NoTerminal == [kind |-> "none", cause |-> "none"]

\* The operators that may write an event type; other types are open to all.
Rights(type) ==
  CASE type \in {"identity_map", "relation_formation", "structure_formation",
                 "crystallization"} -> {"ENCODE"}
    [] type = "relation_snapshot" -> {"CONNECT"}
    [] type = "relation_mutation" -> {"DISSOLVE", "LOGIC", "RUNTIME"}
    [] type = "observation" -> {"OBSERVE", "RUNTIME"}
    [] type = "choice" -> {"CHOOSE"}
    [] type = "unit_dissolution" -> {"DISSOLVE"}
    [] type = "cycle" -> {"CYCLE"}
    [] type \in {"validation", "repository_effect_attempt",
                 "repository_effect_receipt", "repository_verification",
                 "candidate_seal", "qa_check_request", "qa_check",
                 "qa_execution_failure"} -> {"LOGIC"}
    [] type \in {"repository_action_review", "work_completion",
                 "qa_candidate_verdict", "runtime_reconciliation",
                 "plan_completion_assessment"} -> {"RUNTIME"}
    [] OTHER -> Operators

\* A stored trace event.  from/to are the movement of a route or of a route
\* derivation, ref the event it refers to, ready the recorded readiness of
\* a derivation's selected candidate (and, on a tension_measure, that it is
\* a pressure snapshot).
Event(type, op) ==
  [type |-> type, operator |-> op, from |-> "none", to |-> "none",
   ref |-> 0, ready |-> FALSE, tree |-> FALSE]

Anchors == {"birth", "operator_tick", "route"}

\* current_visit_lease: scanning the trace backwards, the first anchor met
\* is a tick of this actor, or the birth event when the actor is FLOW.
LeaseAt(tr, n, actor) ==
  \E i \in 1..n :
    /\ tr[i].type \in {"birth", "operator_tick"}
    /\ tr[i].operator = actor
    /\ \A j \in (i + 1)..n : tr[j].type \notin Anchors

\* Mutation: any earlier tick of the actor counts as its lease.
CurrentVisitLeaseAnyTick(actor) ==
  \E i \in 1..Len(trace) : trace[i].type = "operator_tick" /\ trace[i].operator = actor

CurrentVisitLease(actor) == LeaseAt(trace, Len(trace), actor)

\* Mutation: the dying state is forgotten.
AssertMutableUnlessDead == status # "dead"

AssertMutable == status \in {"born", "running"}

AssertActorTick(actor) ==
  /\ AssertMutable
  /\ actor = operator
  /\ CurrentVisitLease(actor)

Room(n) == Len(trace) + n <= MaxTrace

\* packet.new
Init ==
  /\ status = "born"
  /\ operator = "FLOW"
  /\ trace = <<Event("birth", "FLOW")>>
  /\ terminal = NoTerminal
  /\ death = "none"
  /\ evidence = 0
  /\ calm = 0

BeginTick ==
  /\ AssertMutable
  /\ Room(1)
  /\ status' = "running"
  /\ trace' = Append(trace, Event("operator_tick", operator))
  /\ UNCHANGED <<operator, terminal, death, evidence, calm>>

\* packet.append_trace and packet.append_repository_event share
\* append_actor_event: rights first, then the current visit lease.
AppendActorEvent(type) ==
  /\ Room(1)
  /\ operator \in Rights(type)
  /\ AssertActorTick(operator)
  /\ trace' = Append(trace, Event(type, operator))
  /\ UNCHANGED <<status, operator, terminal, death, calm>>

AppendOrganEvent ==
  /\ \E type \in OrganTypes \cup (BodyTypes \cap RepositoryTypes) :
       AppendActorEvent(type)
  /\ UNCHANGED evidence

\* packet.append_qa_event also advances the evidence revision.
AppendQaEvent ==
  /\ \E type \in BodyTypes \cap QaTypes : AppendActorEvent(type)
  /\ evidence' = evidence + 1

\* packet.append_chaos, packet.append_unit_dissolution
AppendChaos ==
  /\ AppendActorEvent("chaos_append")
  /\ UNCHANGED evidence

AppendUnitDissolution ==
  /\ AppendActorEvent("unit_dissolution")
  /\ UNCHANGED evidence

Crystallize ==
  /\ Room(1)
  /\ operator = "ENCODE"
  /\ AssertActorTick("ENCODE")
  /\ trace' = Append(trace, Event("crystallization", "ENCODE"))
  /\ calm' = calm + 1
  /\ UNCHANGED <<status, operator, terminal, death, evidence>>

\* packet.measure_tension, and the pressure snapshot the router records.
MeasureTension(snapshot) ==
  /\ Room(1)
  /\ AssertActorTick(operator)
  /\ trace' = Append(trace,
                     [Event("tension_measure", operator) EXCEPT !.ready = snapshot])
  /\ UNCHANGED <<status, operator, terminal, death, evidence, calm>>

\* A route derivation written through packet.append_trace: the movement it
\* selected ("none" when no edge was viable), the pressure snapshot it names
\* and the readiness of the selected candidate.
DeriveRoute(to, ref, ready) ==
  /\ Room(1)
  /\ AssertActorTick(operator)
  /\ to \in Successors(operator) \cup {"none"}
  /\ ready => to # "none"
  /\ trace[ref].type = "tension_measure"
  /\ trace' = Append(trace,
                     [Event("route_derivation", operator) EXCEPT
                        !.from = operator, !.to = to, !.ref = ref, !.ready = ready])
  /\ UNCHANGED <<status, operator, terminal, death, evidence, calm>>

\* The checks commit_transition makes on a tree decision against the trace.
DerivationMatches(ref, to) ==
  /\ ref \in 1..Len(trace)
  /\ trace[ref].type = "route_derivation"
  /\ trace[ref].from = operator
  /\ trace[ref].to = to
  /\ trace[ref].ready
  /\ trace[ref].ref \in 1..Len(trace)
  /\ LET snapshot == trace[trace[ref].ref] IN
       snapshot.type = "tension_measure" /\ snapshot.ready
         /\ snapshot.operator = operator

CommitTransition(to, tree, ref) ==
  /\ AssertMutable
  /\ Room(1)
  /\ to \in Successors(operator)
  /\ tree => DerivationMatches(ref, to)
  /\ trace' = Append(trace,
                     [Event("route", to) EXCEPT
                        !.from = operator, !.to = to, !.ref = ref, !.tree = tree])
  /\ operator' = to
  /\ status' = "running"
  /\ UNCHANGED <<terminal, death, evidence, calm>>

\* normalize_terminal: a manifest terminal needs the MANIFEST position.
TerminalAllowed(kind) == kind = "manifest" => operator = "MANIFEST"

\* Mutation: the cause is lost while the terminal record is built.
BeginTerminalNoCause(kind, cause) ==
  /\ AssertMutable
  /\ Room(1)
  /\ TerminalAllowed(kind)
  /\ trace' = Append(trace, Event("terminal", operator))
  /\ terminal' = [kind |-> kind, cause |-> "none"]
  /\ status' = "dying"
  /\ UNCHANGED <<operator, death, evidence, calm>>

\* packet.begin_terminal: the trace is sealed, the Packet is dying.
BeginTerminal(kind, cause) ==
  /\ AssertMutable
  /\ Room(1)
  /\ TerminalAllowed(kind)
  /\ trace' = Append(trace, Event("terminal", operator))
  /\ terminal' = [kind |-> kind, cause |-> cause]
  /\ status' = "dying"
  /\ UNCHANGED <<operator, death, evidence, calm>>

\* packet.freeze: only a dying Packet, only with its own terminal cause.
Freeze(cause) ==
  /\ status = "dying"
  /\ terminal # NoTerminal
  /\ cause = terminal.cause
  /\ death' = cause
  /\ status' = "dead"
  /\ UNCHANGED <<operator, trace, terminal, evidence, calm>>

\* Mutation: the assert_mutable call is missing.
EndLifeAgain(kind, cause, lastWords) ==
  /\ Room(2)
  /\ TerminalAllowed(kind)
  /\ trace' = trace \o <<Event(lastWords, operator), Event("terminal", operator)>>
  /\ terminal' = [kind |-> kind, cause |-> cause]
  /\ death' = cause
  /\ status' = "dead"
  /\ UNCHANGED <<operator, evidence, calm>>

\* packet.manifest_packet and packet.die: last words, terminal and freeze
\* in one call.
EndLife(kind, cause, lastWords) ==
  /\ AssertMutable
  /\ Room(2)
  /\ TerminalAllowed(kind)
  /\ trace' = trace \o <<Event(lastWords, operator), Event("terminal", operator)>>
  /\ terminal' = [kind |-> kind, cause |-> cause]
  /\ death' = cause
  /\ status' = "dead"
  /\ UNCHANGED <<operator, evidence, calm>>

ManifestPacket(cause) == EndLife("manifest", cause, "manifest")
Die(cause) == EndLife("internal_death", cause, "death")

Next ==
  \/ BeginTick
  \/ AppendOrganEvent
  \/ AppendQaEvent
  \/ AppendChaos
  \/ AppendUnitDissolution
  \/ Crystallize
  \/ \E snapshot \in BOOLEAN : MeasureTension(snapshot)
  \/ \E to \in Operators \cup {"none"}, ref \in 1..Len(trace), ready \in BOOLEAN :
       DeriveRoute(to, ref, ready)
  \/ \E to \in Operators : CommitTransition(to, FALSE, 0)
  \/ \E to \in Operators, ref \in 1..Len(trace) : CommitTransition(to, TRUE, ref)
  \/ \E kind \in {"manifest", "internal_death"}, cause \in Causes :
       BeginTerminal(kind, cause)
  \/ \E cause \in Causes : Freeze(cause)
  \/ \E cause \in Causes : ManifestPacket(cause)
  \/ \E cause \in Causes : Die(cause)

Spec == Init /\ [][Next]_vars

-----------------------------------------------------------------------------
(***************************************************************************)
(* Properties.                                                             *)
(***************************************************************************)

\* Event types only the lifecycle writers produce; every other type is
\* organ work.
LifecycleTypes ==
  {"birth", "operator_tick", "route", "manifest", "death", "terminal"}

EventTypes ==
  GenericTypes \cup RepositoryTypes \cup QaTypes \cup LifecycleTypes
    \cup {"chaos_append", "unit_dissolution", "crystallization"}

EventRecord ==
  [type : EventTypes, operator : Operators,
   from : Operators \cup {"none"}, to : Operators \cup {"none"},
   ref : Nat, ready : BOOLEAN, tree : BOOLEAN]

TerminalRecord ==
  [kind : {"manifest", "internal_death"}, cause : Causes] \cup {NoTerminal}

\* Type invariant of the Packet table.
TypeOK ==
  /\ status \in {"born", "running", "dying", "dead"}
  /\ operator \in Operators
  /\ trace \in Seq(EventRecord)
  /\ terminal \in TerminalRecord
  /\ death \in Causes \cup {"none"}
  /\ evidence \in Nat
  /\ calm \in Nat

\* The Packet's position after the first n events of the trace: the target
\* of the last route, or the operator of the birth event.
PositionAt(tr, n, o) ==
  \E i \in 1..n :
    /\ tr[i].type \in {"birth", "route"}
    /\ tr[i].operator = o
    /\ \A j \in (i + 1)..n : tr[j].type # "route"

\* A same-life movement: adjacent, never back to FLOW, never out of MANIFEST.
LegalMove(from, to) ==
  /\ to \in Adjacent[from]
  /\ to # "FLOW"
  /\ from # "MANIFEST"

\* A trace that leads to position o: every route starts where the previous
\* one ended and follows the topology, and every event is written at the
\* position it carries.
WellRouted(tr, o) ==
  /\ PositionAt(tr, Len(tr), o)
  /\ \A i \in 1..Len(tr) :
       /\ PositionAt(tr, i, tr[i].operator)
       /\ tr[i].type = "route" =>
            /\ PositionAt(tr, i - 1, tr[i].from)
            /\ tr[i].to = tr[i].operator
            /\ LegalMove(tr[i].from, tr[i].to)

\* A trace whose organ events all lie in a visit of their own operator.
WellLeased(tr) ==
  \A i \in 1..Len(tr) :
    tr[i].type \notin LifecycleTypes =>
      /\ LeaseAt(tr, i - 1, tr[i].operator)
      /\ tr[i].operator \in Rights(tr[i].type)

\* Replaying the routes of the trace reproduces instance.operator, and every
\* event, of whatever writer, carries the position it was written at
\* (packet.commit_transition, begin_tick, assert_actor_tick).
RouteContinuity == WellRouted(trace, operator)

\* No organ writes outside its visit: between an organ event and the tick
\* (or the birth, for FLOW) that opened the visit of its own operator there
\* is no other tick and no route, and its operator had the right to it
\* (packet.assert_actor_tick and the actor rights).
LeaseDiscipline == WellLeased(trace)

\* The trace has a terminal event exactly when the Packet is dying or dead,
\* nothing follows it, it agrees with the terminal record, and a corpse's
\* cause is the terminal's; a manifest terminal happens only at MANIFEST.
TerminalSealed ==
  /\ \A i \in 1..Len(trace) :
       trace[i].type = "terminal" <=> i = Len(trace) /\ status \in {"dying", "dead"}
  /\ terminal # NoTerminal <=> status \in {"dying", "dead"}
  /\ terminal.kind = "manifest" => operator = "MANIFEST"
  /\ death = IF status = "dead" THEN terminal.cause ELSE "none"

\* A trace whose derivations rest on an earlier tension measure and whose
\* tree routes rest on an earlier derivation of the same movement.
WellDerived(tr) ==
  /\ \A d \in 1..Len(tr) :
       tr[d].type = "route_derivation" => tr[d].ref \in 1..(d - 1)
  /\ \A i \in 1..Len(tr) :
       tr[i].type = "route" /\ tr[i].tree =>
         \E d \in 1..(i - 1) : \E p \in 1..(d - 1) :
           /\ d = tr[i].ref /\ p = tr[d].ref
           /\ tr[d].type = "route_derivation" /\ tr[d].ready
           /\ tr[d].from = tr[i].from /\ tr[d].to = tr[i].to
           /\ tr[p].type = "tension_measure" /\ tr[p].ready
           /\ tr[p].operator = tr[i].from

\* Every committed tree route is justified by an earlier derivation of the
\* same movement with a ready candidate, itself resting on an earlier
\* pressure snapshot measured by the operator the route leaves
\* (the tree branch of packet.commit_transition).
TreeRouteDerived == WellDerived(trace)

\* The history of a life is append-only, a dying Packet can only be frozen,
\* and a corpse never changes again.
AppendOnlyStep ==
  /\ Len(trace) <= Len(trace')
  /\ \A i \in 1..Len(trace) : trace'[i] = trace[i]
  /\ status = "dying" => trace' = trace /\ status' = "dead" /\ terminal' = terminal
  /\ status # "dead"
HistoryAppendOnly == [][AppendOnlyStep]_vars

=============================================================================
