------------------------------- MODULE Lineage -------------------------------
(***************************************************************************)
(* runtime/lineage.lua and runtime/lineage_budget.lua: a lineage, a chain  *)
(* of generations in which each Packet descends from the corpse of the one *)
(* before it, seen through the operations that write its state.            *)
(*                                                                         *)
(* An operation whose guards fail returns nil and changes nothing.  Packet *)
(* ids are positive numbers; a corpse is named by its Packet ("corpse:" .. *)
(* packet id) and a carrier by the corpse it was built from, 0 stands for  *)
(* Lua's nil.  A cost is a function on all the axes: an axis that          *)
(* normalize drops costs 0.                                                *)
(***************************************************************************)
EXTENDS Integers, Sequences

CONSTANTS
  LineageAxes,  \* budget axes, "generations" and "carrier_bytes" among them
  Configured,   \* the configured limits, a function on some of the axes
  Allocations,  \* the local budgets a generation may ask for
  Spends,       \* what a Packet may have spent when it dies
  CarrierSizes, \* sizes of a carrier's payload, in bytes
  PacketIds     \* ids of the Packets that may be born

\* "generations" and "carrier_bytes" are not among PACKET_BUDGET_AXES of the
\* runner nor among the axes of a Packet's budget.
ASSUME LineageAssumption ==
  /\ {"generations", "carrier_bytes"} \subseteq LineageAxes
  /\ DOMAIN Configured \subseteq LineageAxes
  /\ Configured \in [DOMAIN Configured -> Nat]
  /\ Allocations \subseteq [LineageAxes -> Nat]
  /\ Spends \subseteq [LineageAxes -> Nat]
  /\ \A cost \in Allocations \cup Spends :
       cost["generations"] = 0 /\ cost["carrier_bytes"] = 0
  /\ CarrierSizes \subseteq Nat
  /\ PacketIds \subseteq Nat \ {0}

VARIABLES
  status,     \* state.status
  gens,       \* state.generations
  pending,    \* state.pending_generation with its transaction
  corpseId,   \* state.current_corpse_id
  carrierId,  \* state.current_carrier_id
  continued,  \* the keys of state.continued_corpses
  charges,    \* state.budget.events: cost by charged key
  spent,      \* state.budget.spent
  ledger      \* state.ledger

lineageVars ==
  <<status, gens, pending, corpseId, carrierId, continued, charges, spent, ledger>>

TerminalStatuses == {"suspended", "complete", "exhausted", "terminated"}

StatusEvent == [suspended |-> "lineage_suspended", complete |-> "lineage_completed",
                exhausted |-> "lineage_exhausted", terminated |-> "lineage_terminated"]

-----------------------------------------------------------------------------
\* lineage_budget.lua

ZeroCost == [a \in LineageAxes |-> 0]

OneGeneration == [ZeroCost EXCEPT !["generations"] = 1]

CarrierCost(size) == [ZeroCost EXCEPT !["carrier_bytes"] = size]

\* normalize drops zero values, so an axis configured with limit 0 has no
\* limit.
Limits == [a \in {x \in DOMAIN Configured : Configured[x] # 0} |-> Configured[a]]

Remaining(a) == Limits[a] - spent[a]

\* Mutation: an axis is exhausted only when it is overdrawn.
ExhaustedOverdrawn == \E a \in DOMAIN Limits : Remaining(a) < 0

Exhausted == \E a \in DOMAIN Limits : Remaining(a) <= 0

CanAllocate(cost) ==
  \A a \in DOMAIN Limits : cost[a] # 0 => cost[a] <= Remaining(a)

\* Mutation: every charge may overdraw.
ChargeAlways(key, cost, overdraw) ==
  /\ key \notin DOMAIN charges
  /\ charges' = [k \in DOMAIN charges \cup {key} |-> IF k = key THEN cost ELSE charges[k]]
  /\ spent' = [a \in LineageAxes |-> spent[a] + cost[a]]

\* A charge of a key that was charged already returns the first event; with
\* another cost it fails.
Charge(key, cost, overdraw) ==
  IF key \in DOMAIN charges
  THEN charges[key] = cost /\ UNCHANGED <<charges, spent>>
  ELSE /\ overdraw \/ CanAllocate(cost)
       /\ charges' = [k \in DOMAIN charges \cup {key} |-> IF k = key THEN cost ELSE charges[k]]
       /\ spent' = [a \in LineageAxes |-> spent[a] + cost[a]]

-----------------------------------------------------------------------------
\* lineage.lua

\* append_event numbers the events of a lineage in order.
Event(id, kind, generation, cost) ==
  [id |-> id, kind |-> kind, generation |-> generation, cost |-> cost]

Append1(kind, generation, cost) ==
  ledger' = Append(ledger, Event(Len(ledger) + 1, kind, generation, cost))

Append2(kind1, kind2, generation, cost1, cost2) ==
  ledger' = ledger \o <<Event(Len(ledger) + 1, kind1, generation, cost1),
                        Event(Len(ledger) + 2, kind2, generation, cost2)>>

Generation == Len(gens)

Current == gens[Generation]

NoTransaction == [generation |-> 0, packet |-> 0, corpse |-> 0, carrier |-> 0]

LineageInit ==
  /\ status = "created"
  /\ gens = <<>>
  /\ pending = NoTransaction
  /\ corpseId = 0
  /\ carrierId = 0
  /\ continued = {}
  /\ charges = [k \in {} |-> ZeroCost]
  /\ spent = ZeroCost
  /\ ledger = <<Event(1, "lineage_created", 0, ZeroCost)>>

Ready == status \in {"created", "continuing"}

BeginGeneration(allocation) ==
  /\ Ready
  /\ pending = NoTransaction
  /\ CanAllocate(allocation)
  /\ pending' =
       [generation |-> Generation + 1,
        packet     |-> IF Generation = 0 THEN 0 ELSE Current.packet,
        corpse     |-> IF Generation = 0 THEN 0 ELSE corpseId,
        carrier    |-> IF Generation = 0 THEN 0 ELSE carrierId]
  /\ Append1("generation_allocated", Generation + 1, ZeroCost)
  /\ UNCHANGED <<status, gens, corpseId, carrierId, continued, charges, spent>>

\* identity is what the newborn Packet says of its generation and ancestors.
CommitBirth(id, identity) ==
  /\ Ready
  /\ pending # NoTransaction
  /\ identity = pending
  /\ Charge(<<"generation", pending.generation>>, OneGeneration, FALSE)
  /\ gens' = Append(gens, [generation |-> pending.generation, packet |-> id,
                           parent |-> pending, corpse |-> 0])
  /\ corpseId' = 0
  /\ status' = "running"
  /\ pending' = NoTransaction
  /\ Append2("lineage_budget_spent", "generation_born", pending.generation,
             OneGeneration, ZeroCost)
  /\ UNCHANGED <<carrierId, continued>>

RegisterCorpse(id) ==
  /\ status = "running"
  /\ gens # <<>>
  /\ Current.packet = id
  /\ Current.corpse = 0
  /\ gens' = [gens EXCEPT ![Generation].corpse = id]
  /\ corpseId' = id
  /\ status' = "evaluating_terminal"
  /\ Append2("packet_terminal", "corpse_registered", Generation, ZeroCost, ZeroCost)
  /\ UNCHANGED <<pending, carrierId, continued, charges, spent>>

\* The events the runner records with append_event alone.
FactKinds == {"grave_classified", "completion_evaluated"}

RecordFact(kind) ==
  /\ Append1(kind, Generation, ZeroCost)
  /\ UNCHANGED <<status, gens, pending, corpseId, carrierId, continued, charges, spent>>

\* reconcile_packet, and the ledger event of its charge: the one charge that
\* may overdraw.
ReconcilePacket(id, cost) ==
  /\ status = "evaluating_terminal"
  /\ Charge(<<"packet", id>>, cost, TRUE)
  /\ Append1("lineage_budget_spent", Generation, cost)
  /\ UNCHANGED <<status, gens, pending, corpseId, carrierId, continued>>

\* Mutation: the charge of the carrier is not recorded.
PayCarrierSilently(id, size) ==
  /\ status = "evaluating_terminal"
  /\ Charge(<<"carrier", id>>, CarrierCost(size), FALSE)
  /\ Append1("carrier_built", Generation, ZeroCost)
  /\ UNCHANGED <<status, gens, pending, corpseId, carrierId, continued>>

\* The carrier's bytes are charged once by carrier id, and recorded with the
\* carrier.
PayCarrier(id, size) ==
  /\ status = "evaluating_terminal"
  /\ Charge(<<"carrier", id>>, CarrierCost(size), FALSE)
  /\ Append2("lineage_budget_spent", "carrier_built", Generation,
             CarrierCost(size), ZeroCost)
  /\ UNCHANGED <<status, gens, pending, corpseId, carrierId, continued>>

MarkContinued(corpse, carrier) ==
  /\ status = "evaluating_terminal"
  /\ corpse = corpseId
  /\ carrier = corpse
  /\ corpse \notin continued
  /\ Append1("continuation_decided", Generation, ZeroCost)
  /\ continued' = continued \cup {corpse}
  /\ carrierId' = carrier
  /\ status' = "continuing"
  /\ UNCHANGED <<gens, pending, corpseId, charges, spent>>

Finish(final) ==
  /\ status \notin TerminalStatuses
  /\ Append1(StatusEvent[final], Generation, ZeroCost)
  /\ status' = final
  /\ UNCHANGED <<gens, pending, corpseId, carrierId, continued, charges, spent>>

LineageNext ==
  \/ \E allocation \in Allocations : BeginGeneration(allocation)
  \/ \E id \in PacketIds : CommitBirth(id, pending)
  \/ \E id \in PacketIds : RegisterCorpse(id)
  \/ \E kind \in FactKinds : RecordFact(kind)
  \/ \E id \in PacketIds, cost \in Spends : ReconcilePacket(id, cost)
  \/ \E id \in PacketIds, size \in CarrierSizes : PayCarrier(id, size)
  \/ \E id \in PacketIds : MarkContinued(id, id)
  \/ \E final \in TerminalStatuses : Finish(final)

LineageSpec == LineageInit /\ [][LineageNext]_lineageVars

-----------------------------------------------------------------------------
\* Properties

\* Every generation but the first descends from the one just before it: its
\* parent Packet, its corpse, which was registered, and the carrier built
\* from that corpse (what lineage.validate asks of a state, and more).
AncestryChain ==
  \A k \in 1..Len(gens) :
    /\ gens[k].generation = k
    /\ k > 1 => /\ gens[k].parent.packet = gens[k - 1].packet
                /\ gens[k - 1].corpse = gens[k - 1].packet
                /\ gens[k].parent.corpse = gens[k - 1].corpse
                /\ gens[k].parent.carrier = gens[k - 1].corpse

\* A lineage that has finished stays finished with the same outcome, and no
\* operation gives it another generation.
FinishedForGood ==
  [][(status \in TerminalStatuses) => (status' = status /\ gens' = gens)]_lineageVars

=============================================================================
