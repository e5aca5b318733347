------------------------ MODULE RepositoryCapability ------------------------
(***************************************************************************)
(* runtime/repository_capability.lua: the private registry of authority    *)
(* over repository roots.  A root authority is claimed by the generation   *)
(* that first writes to it, sealed once as a candidate or quarantined; a   *)
(* grant holds a provider handle on a root; three kinds of single-use      *)
(* lease are given out: an effect lease writes and reads back one file, a  *)
(* seal lease turns the root into a candidate, a QA source lease lets one  *)
(* transaction use the handle of the sealed candidate.                     *)
(*                                                                         *)
(* One action per operation.  A provider call is two actions, so that      *)
(* other calls may come between its start and its end; the holder of a     *)
(* lease waits for its own call.  An operation whose guards fail returns a *)
(* diagnostic and changes nothing.  An effect lease is named by its        *)
(* action.  A root's revision counts its own changes: the code draws from  *)
(* one counter, but compares revisions of the same root only.  A grant's   *)
(* revision changes exactly when it stops being active.                    *)
(***************************************************************************)
EXTENDS Integers, FiniteSets

CONSTANTS
  Roots,        \* physical repository roots
  Owners,       \* pairs of lineage and repository ids
  Generations,  \* generations of a lineage
  Grants,       \* grant ids
  Actions,      \* authorised repository actions
  Seals,        \* candidate seal leases
  Transactions, \* QA source transactions
  MaxEffects,   \* bounds.max_effects_per_generation
  None          \* Lua's nil

ASSUME RegistryAssumption ==
  /\ None \notin Roots \cup Owners \cup Grants \cup Seals \cup Transactions
  /\ Actions \cap Seals = {}
  /\ Generations \subseteq Nat \ {0}
  /\ MaxEffects \in Nat \ {0}

VARIABLES
  root,       \* state.root_authorities
  grant,      \* state.grants
  used,       \* grant.effect_counts
  dispatched, \* grant.action_dispatches
  action,     \* grant and generation named by an authorised action
  effect,     \* effect leases
  inflight,   \* root.in_flight_dispatches
  seal,       \* seal leases
  source,     \* root.qa_source
  qa          \* QA source leases

registryVars ==
  <<root, grant, used, dispatched, action, effect, inflight, seal, source, qa>>

NoRoot == [state |-> "none", owner |-> None, claim |-> 0, rev |-> 0, seal |-> None]
NoGrant == [state |-> "none", root |-> None, open |-> FALSE]
NoAction == [grant |-> None, gen |-> 0]
NoEffect == [stage |-> "none", rev |-> 0]
NoSeal == [stage |-> "none", root |-> None, grant |-> None, rev |-> 0]
NoSource == [state |-> "none", tx |-> None, open |-> FALSE]
NoLease == [stage |-> "none", root |-> None, rev |-> 0, end |-> "none"]

RegistryInit ==
  /\ root = [r \in Roots |-> NoRoot]
  /\ grant = [g \in Grants |-> NoGrant]
  /\ used = [g \in Grants |-> [n \in Generations |-> 0]]
  /\ dispatched = [g \in Grants |-> {}]
  /\ action = [a \in Actions |-> NoAction]
  /\ effect = [a \in Actions |-> NoEffect]
  /\ inflight = [r \in Roots |-> {}]
  /\ seal = [s \in Seals |-> NoSeal]
  /\ source = [r \in Roots |-> NoSource]
  /\ qa = [t \in Transactions |-> NoLease]

GrantsOf(r) == {g \in Grants : grant[g].root = r}

ActiveGrants(r) == {g \in GrantsOf(r) : grant[g].state = "active"}

-----------------------------------------------------------------------------
\* Grants

\* The provider opens the root; the handle is closed again when the root
\* belongs to another owner or takes no more grants.
Mint(g, r, o) ==
  /\ grant[g].state = "none"
  /\ \/ root[r].state = "none"
     \/ root[r].owner = o /\ root[r].state \in {"unclaimed", "materializing"}
  /\ root' = [root EXCEPT ![r] =
       IF @.state = "none"
       THEN [state |-> "unclaimed", owner |-> o, claim |-> 0, rev |-> 1, seal |-> None]
       ELSE @]
  /\ grant' = [grant EXCEPT ![g] = [state |-> "active", root |-> r, open |-> TRUE]]
  /\ UNCHANGED <<used, dispatched, action, effect, inflight, seal, source, qa>>

Revoke(g) ==
  /\ grant[g].state \in {"active", "quarantined"}
  /\ grant' = [grant EXCEPT ![g].state = "revoked", ![g].open = FALSE]
  /\ UNCHANGED <<root, used, dispatched, action, effect, inflight, seal, source, qa>>

\* The grants a generation of an owner may use.
Matches(o, n) ==
  {g \in Grants :
     /\ grant[g].state = "active"
     /\ LET r == root[grant[g].root] IN
          /\ r.owner = o
          /\ \/ r.state = "unclaimed"
             \/ r.state = "materializing" /\ r.claim = n}

\* An action is authorised under the one grant resolve finds; several are
\* ambiguous and none is chosen.
Resolve(a, o, n) ==
  /\ action[a] = NoAction
  /\ \E g \in Matches(o, n) :
       /\ Matches(o, n) = {g}
       /\ action' = [action EXCEPT ![a] = [grant |-> g, gen |-> n]]
  /\ UNCHANGED <<root, grant, used, dispatched, effect, inflight, seal, source, qa>>

-----------------------------------------------------------------------------
\* Quarantine of a root: every grant stops and every handle is closed.  A
\* sealed root is never reclassified, a quarantined one stays as it is.

Quarantinable(r) == root[r].state \notin {"sealed", "quarantined"}

QuarantineRoot(r) ==
  /\ root' = [root EXCEPT ![r].state = "quarantined", ![r].rev = @ + 1]
  /\ grant' = [g \in Grants |->
       IF grant[g].root # r THEN grant[g]
       ELSE [grant[g] EXCEPT !.open = FALSE,
                             !.state = IF @ = "active" THEN "quarantined" ELSE @]]

\* with_provider_dispatch: the end of a provider call that raises an error.
Panic(r, d) ==
  IF Quarantinable(r)
  THEN QuarantineRoot(r) /\ inflight' = [inflight EXCEPT ![r] = {}]
  ELSE inflight' = [inflight EXCEPT ![r] = @ \ {d}] /\ UNCHANGED <<root, grant>>

-----------------------------------------------------------------------------
\* Effects

\* Mutation: the generation that claimed the root is not asked for.
ActionAllowedAnyGeneration(a) ==
  /\ action[a] # NoAction
  /\ grant[action[a].grant].state = "active"
  /\ root[grant[action[a].grant].root].state \in {"unclaimed", "materializing"}

\* exact_action_grant: the root must be free for this generation.
ActionAllowed(a) ==
  /\ action[a] # NoAction
  /\ grant[action[a].grant].state = "active"
  /\ LET r == root[grant[action[a].grant].root] IN
       \/ r.state = "unclaimed"
       \/ r.state = "materializing" /\ r.claim = action[a].gen

\* The first effect on a root claims it for its generation; the claim and
\* the consumed authority are never given back.
Consume(a) ==
  LET g == action[a].grant
      n == action[a].gen
      r == grant[g].root
      claimed == IF root[r].state = "unclaimed"
                 THEN [root[r] EXCEPT !.state = "materializing", !.claim = n, !.rev = @ + 1]
                 ELSE root[r] IN
    /\ root' = [root EXCEPT ![r] = claimed]
    /\ used' = [used EXCEPT ![g][n] = @ + 1]
    /\ dispatched' = [dispatched EXCEPT ![g] = @ \cup {a}]
    /\ effect' = [effect EXCEPT ![a] = [stage |-> "begun", rev |-> claimed.rev]]
    /\ UNCHANGED <<grant, action, inflight, seal, source, qa>>

BeginEffect(a) ==
  /\ ActionAllowed(a)
  /\ a \notin dispatched[action[a].grant]
  /\ used[action[a].grant][action[a].gen] < MaxEffects
  /\ Consume(a)

\* lease_state: the grant is active, and the root has not changed since.
EffectLease(a) ==
  LET g == grant[action[a].grant] IN
    /\ g.state = "active"
    /\ g.open
    /\ root[g.root].state = "materializing"
    /\ root[g.root].rev = effect[a].rev
    /\ root[g.root].claim = action[a].gen

EffectRoot(a) == grant[action[a].grant].root

\* Entry of a provider call through an effect lease.
Dispatch(a, from, phase) ==
  /\ effect[a].stage = from
  /\ EffectLease(a)
  /\ effect' = [effect EXCEPT ![a].stage = phase]
  /\ inflight' = [inflight EXCEPT ![EffectRoot(a)] = @ \cup {<<a, phase>>}]
  /\ UNCHANGED <<root, grant, used, dispatched, action, seal, source, qa>>

\* Return from it: with a result, with an error, or by a panic.
Return(a, phase, to) ==
  /\ effect[a].stage = phase
  /\ effect' = [effect EXCEPT ![a].stage = to]
  /\ inflight' = [inflight EXCEPT ![EffectRoot(a)] = @ \ {<<a, phase>>}]
  /\ UNCHANGED <<root, grant, used, dispatched, action, seal, source, qa>>

EffectPanic(a, phase) ==
  /\ effect[a].stage = phase
  /\ effect' = [effect EXCEPT ![a].stage = "failed"]
  /\ Panic(EffectRoot(a), <<a, phase>>)
  /\ UNCHANGED <<used, dispatched, action, seal, source, qa>>

EffectCreate(a) == Dispatch(a, "begun", "creating")
EffectCreated(a) == Return(a, "creating", "created") \/ Return(a, "creating", "failed")
CreatePanics(a) == EffectPanic(a, "creating")
EffectReadBack(a) == Dispatch(a, "created", "reading")
EffectRead(a) == Return(a, "reading", "read") \/ Return(a, "reading", "failed")
ReadPanics(a) == EffectPanic(a, "reading")

\* The holder of an effect lease closes the root.
QuarantineEffect(a) ==
  /\ effect[a].stage \in {"begun", "created", "failed", "read"}
  /\ Quarantinable(EffectRoot(a))
  /\ QuarantineRoot(EffectRoot(a))
  /\ inflight' = [inflight EXCEPT ![EffectRoot(a)] = {}]
  /\ UNCHANGED <<used, dispatched, action, effect, seal, source, qa>>

-----------------------------------------------------------------------------
\* The candidate seal

\* A root moves on: with a new revision, held by a seal lease or by none.
Moved(x, to, s) == [x EXCEPT !.state = to, !.rev = x.rev + 1, !.seal = s]

TakeSeal(s, r, g) ==
  /\ root' = [root EXCEPT ![r] = Moved(root[r], "seal_pending", s)]
  /\ seal' = [seal EXCEPT ![s] = [stage |-> "begun", root |-> r, grant |-> g,
                                  rev |-> root[r].rev + 1]]
  /\ UNCHANGED <<grant, used, dispatched, action, effect, inflight, source, qa>>

\* Mutation: provider calls in flight do not hold the seal back.
BeginCandidateSealInFlight(s, r, g) ==
  /\ seal[s].stage = "none"
  /\ root[r].state = "materializing"
  /\ root[r].seal = None
  /\ ActiveGrants(r) = {g}
  /\ grant[g].open
  /\ TakeSeal(s, r, g)

\* The root is taken for sealing by its only active grant when no provider
\* call is in flight.
BeginCandidateSeal(s, r, g) ==
  /\ seal[s].stage = "none"
  /\ root[r].state = "materializing"
  /\ inflight[r] = {}
  /\ root[r].seal = None
  /\ ActiveGrants(r) = {g}
  /\ grant[g].open
  /\ TakeSeal(s, r, g)

\* seal_lease_state: nothing has happened to the root or the grant since.
SealLease(s) ==
  /\ root[seal[s].root].state = "seal_pending"
  /\ root[seal[s].root].rev = seal[s].rev
  /\ root[seal[s].root].seal = s
  /\ grant[seal[s].grant].state = "active"
  /\ grant[seal[s].grant].open

InventoryCandidate(s) ==
  /\ seal[s].stage = "begun"
  /\ SealLease(s)
  /\ seal' = [seal EXCEPT ![s].stage = "inventorying"]
  /\ inflight' = [inflight EXCEPT ![seal[s].root] = @ \cup {<<s, "inventorying">>}]
  /\ UNCHANGED <<root, grant, used, dispatched, action, effect, source, qa>>

CandidateInventoried(s) ==
  /\ seal[s].stage = "inventorying"
  /\ seal' = [seal EXCEPT ![s].stage = "inventoried"]
  /\ inflight' = [inflight EXCEPT ![seal[s].root] = @ \ {<<s, "inventorying">>}]
  /\ UNCHANGED <<root, grant, used, dispatched, action, effect, source, qa>>

InventoryPanics(s) ==
  /\ seal[s].stage = "inventorying"
  /\ seal' = [seal EXCEPT ![s].stage = "inventoried"]
  /\ Panic(seal[s].root, <<s, "inventorying">>)
  /\ UNCHANGED <<used, dispatched, action, effect, source, qa>>

\* Mutation: the lease survives the abort.
AbortCandidateSealReusable(s) ==
  /\ seal[s].stage = "inventoried"
  /\ SealLease(s)
  /\ inflight[seal[s].root] = {}
  /\ root' = [root EXCEPT ![seal[s].root] = Moved(@, "materializing", None)]
  /\ UNCHANGED <<grant, used, dispatched, action, effect, inflight, seal, source, qa>>

\* A proof of no closure lets the root materialize again.
AbortCandidateSeal(s) ==
  /\ seal[s].stage = "inventoried"
  /\ SealLease(s)
  /\ inflight[seal[s].root] = {}
  /\ root' = [root EXCEPT ![seal[s].root] = Moved(@, "materializing", None)]
  /\ seal' = [seal EXCEPT ![s].stage = "consumed"]
  /\ UNCHANGED <<grant, used, dispatched, action, effect, inflight, source, qa>>

\* Mutation: the grant keeps the handle it hands to the QA source.
CommitCandidateSealKeeping(s) ==
  /\ seal[s].stage = "inventoried"
  /\ SealLease(s)
  /\ LET r == seal[s].root IN
       /\ root' = [root EXCEPT ![r].state = "sealed", ![r].rev = @ + 1]
       /\ source' = [source EXCEPT ![r] = [state |-> "available", tx |-> None, open |-> TRUE]]
       /\ grant' = [g \in Grants |->
            IF grant[g].root # r THEN grant[g]
            ELSE [grant[g] EXCEPT !.state = IF @ = "active" THEN "sealed" ELSE @]]
  /\ seal' = [seal EXCEPT ![s].stage = "consumed"]
  /\ UNCHANGED <<used, dispatched, action, effect, inflight, qa>>

\* The root is sealed for good, its handle goes from the grant to the QA
\* source, and every grant of the root is closed.
CommitCandidateSeal(s) ==
  /\ seal[s].stage = "inventoried"
  /\ SealLease(s)
  /\ LET r == seal[s].root IN
       /\ root' = [root EXCEPT ![r].state = "sealed", ![r].rev = @ + 1]
       /\ source' = [source EXCEPT ![r] = [state |-> "available", tx |-> None, open |-> TRUE]]
       /\ grant' = [g \in Grants |->
            IF grant[g].root # r THEN grant[g]
            ELSE [grant[g] EXCEPT !.open = FALSE,
                                  !.state = IF @ = "active" THEN "sealed" ELSE @]]
  /\ seal' = [seal EXCEPT ![s].stage = "consumed"]
  /\ UNCHANGED <<used, dispatched, action, effect, inflight, qa>>

QuarantineCandidateSeal(s) ==
  /\ seal[s].stage \in {"begun", "inventoried"}
  /\ Quarantinable(seal[s].root)
  /\ QuarantineRoot(seal[s].root)
  /\ inflight' = [inflight EXCEPT ![seal[s].root] = {}]
  /\ seal' = [seal EXCEPT ![s].stage = "consumed"]
  /\ UNCHANGED <<used, dispatched, action, effect, source, qa>>

-----------------------------------------------------------------------------
\* The QA source of a sealed candidate

\* The source is reserved once: any later transaction gets a denial.
ReserveQaSource(t, r) ==
  /\ qa[t].stage = "none"
  /\ root[r].state = "sealed"
  /\ source[r].state = "available"
  /\ source[r].tx = None
  /\ source[r].open
  /\ source' = [source EXCEPT ![r].state = "reserved", ![r].tx = t]
  /\ qa' = [qa EXCEPT ![t] = [stage |-> "reserved", root |-> r, rev |-> root[r].rev,
                              end |-> "none"]]
  /\ UNCHANGED <<root, grant, used, dispatched, action, effect, inflight, seal>>

\* qa_source_lease_state.
QaSourceLease(t) ==
  /\ root[qa[t].root].state = "sealed"
  /\ root[qa[t].root].rev = qa[t].rev
  /\ source[qa[t].root].open
  /\ source[qa[t].root].tx = t

WithQaSource(t) ==
  /\ qa[t].stage = "reserved"
  /\ QaSourceLease(t)
  /\ source' = [source EXCEPT ![qa[t].root].state = "in_use"]
  /\ qa' = [qa EXCEPT ![t].stage = "in_use"]
  /\ UNCHANGED <<root, grant, used, dispatched, action, effect, inflight, seal>>

\* The consumer returned or failed.
QaSourceUsed(t) ==
  /\ qa[t].stage = "in_use"
  /\ source' = [source EXCEPT ![qa[t].root].state = "used"]
  /\ qa' = [qa EXCEPT ![t].stage = "used"]
  /\ UNCHANGED <<root, grant, used, dispatched, action, effect, inflight, seal>>

\* Mutation: a finished source may be given another disposition.
FinishQaSourceAgain(t, end) ==
  /\ qa[t].stage \in {"used", "finished"}
  /\ source' = [source EXCEPT ![qa[t].root].state = end, ![qa[t].root].open = FALSE]
  /\ qa' = [qa EXCEPT ![t].stage = "finished", ![t].end = end]
  /\ UNCHANGED <<root, grant, used, dispatched, action, effect, inflight, seal>>

\* A used source is consumed or quarantined and its handle closed; a lease
\* that was never used cannot be finished.
FinishQaSource(t, end) ==
  /\ qa[t].stage = "used"
  /\ QaSourceLease(t)
  /\ source' = [source EXCEPT ![qa[t].root].state = end, ![qa[t].root].open = FALSE]
  /\ qa' = [qa EXCEPT ![t].stage = "finished", ![t].end = end]
  /\ UNCHANGED <<root, grant, used, dispatched, action, effect, inflight, seal>>

-----------------------------------------------------------------------------
GrantStep ==
  \/ \E g \in Grants, r \in Roots, o \in Owners : Mint(g, r, o)
  \/ \E g \in Grants : Revoke(g)
  \/ \E a \in Actions, o \in Owners, n \in Generations : Resolve(a, o, n)

EffectStep ==
  \E a \in Actions :
    \/ BeginEffect(a)
    \/ EffectCreate(a) \/ EffectCreated(a) \/ CreatePanics(a)
    \/ EffectReadBack(a) \/ EffectRead(a) \/ ReadPanics(a)
    \/ QuarantineEffect(a)

SealStep ==
  \E s \in Seals :
    \/ \E r \in Roots, g \in Grants : BeginCandidateSeal(s, r, g)
    \/ InventoryCandidate(s) \/ CandidateInventoried(s) \/ InventoryPanics(s)
    \/ AbortCandidateSeal(s) \/ CommitCandidateSeal(s) \/ QuarantineCandidateSeal(s)

SourceStep ==
  \E t \in Transactions :
    \/ \E r \in Roots : ReserveQaSource(t, r)
    \/ WithQaSource(t) \/ QaSourceUsed(t)
    \/ \E end \in {"consumed", "quarantined"} : FinishQaSource(t, end)

RegistryNext == GrantStep \/ EffectStep \/ SealStep \/ SourceStep

RegistrySpec == RegistryInit /\ [][RegistryNext]_registryVars

-----------------------------------------------------------------------------
\* Properties

RootStates == {"none", "unclaimed", "materializing", "seal_pending", "sealed", "quarantined"}

RootRecords ==
  [state : RootStates, owner : Owners \cup {None}, claim : Generations \cup {0},
   rev : Nat, seal : Seals \cup {None}]
GrantRecords ==
  [state : {"none", "active", "sealed", "quarantined", "revoked"},
   root : Roots \cup {None}, open : BOOLEAN]
ActionRecords == [grant : Grants \cup {None}, gen : Generations \cup {0}]
EffectRecords ==
  [stage : {"none", "begun", "creating", "created", "reading", "read", "failed"}, rev : Nat]
Dispatches == (Actions \cup Seals) \X {"creating", "reading", "inventorying"}
SealRecords ==
  [stage : {"none", "begun", "inventorying", "inventoried", "consumed"},
   root : Roots \cup {None}, grant : Grants \cup {None}, rev : Nat]
SourceRecords ==
  [state : {"none", "available", "reserved", "in_use", "used", "consumed", "quarantined"},
   tx : Transactions \cup {None}, open : BOOLEAN]
LeaseRecords ==
  [stage : {"none", "reserved", "in_use", "used", "finished"}, root : Roots \cup {None},
   rev : Nat, end : {"none", "consumed", "quarantined"}]

\* The registry's tables keep their shape, and no grant counts more effects
\* of a generation than its bound.
RegistryTypeOK ==
  /\ root \in [Roots -> RootRecords]
  /\ grant \in [Grants -> GrantRecords]
  /\ used \in [Grants -> [Generations -> 0..MaxEffects]]
  /\ dispatched \in [Grants -> SUBSET Actions]
  /\ action \in [Actions -> ActionRecords]
  /\ effect \in [Actions -> EffectRecords]
  /\ inflight \in [Roots -> SUBSET Dispatches]
  /\ seal \in [Seals -> SealRecords]
  /\ source \in [Roots -> SourceRecords]
  /\ qa \in [Transactions -> LeaseRecords]

\* No provider write or read-back runs on a root that is being sealed or is
\* sealed: between begin_candidate_seal's look at the calls in flight and the
\* closure nothing can touch the inventoried candidate.
NoEffectUnderSeal ==
  \A a \in Actions :
    effect[a].stage \in {"creating", "reading"} =>
      root[EffectRoot(a)].state \in {"materializing", "quarantined"}

\* A provider handle has one owner: an active grant, or the QA source of a
\* sealed root until it is finished; a sealed root has no other open handle
\* and a quarantined one none at all.
HandlesOwned ==
  /\ \A g \in Grants : grant[g].open <=> grant[g].state = "active"
  /\ \A r \in Roots :
       /\ source[r].open <=> source[r].state \in {"available", "reserved", "in_use", "used"}
       /\ source[r].open => root[r].state = "sealed"
       /\ root[r].state \in {"sealed", "quarantined"} => ActiveGrants(r) = {}

LiveSeals(r) ==
  {s \in Seals : seal[s].root = r /\ seal[s].stage \in {"begun", "inventorying", "inventoried"}}

\* One seal at a time: a root waiting for a seal is held by exactly one lease,
\* the one it names, which is not older than the root's last change and so
\* can still seal, abort or quarantine it; no other root but a quarantined
\* one has a lease left over.
OneSealAtATime ==
  \A r \in Roots :
    /\ root[r].state = "seal_pending" =>
         LiveSeals(r) = {root[r].seal} /\ seal[root[r].seal].rev = root[r].rev
    /\ LiveSeals(r) # {} => root[r].state \in {"seal_pending", "quarantined"}

\* A sealed candidate is used by at most one QA transaction, ever: the one
\* that reserved its source.
SourceUsedOnce ==
  \A t, u \in Transactions :
    qa[t].stage # "none" /\ qa[u].stage # "none" /\ qa[t].root = qa[u].root => t = u

\* Every provider write on a root is of the generation that claimed it, and
\* its grant has never written more than its bound in that generation.
WritesOfOneGeneration ==
  \A a \in Actions :
    effect[a].stage # "none" =>
      /\ root[EffectRoot(a)].claim = action[a].gen
      /\ Cardinality({b \in Actions : effect[b].stage # "none"
                                      /\ action[b] = action[a]}) <= MaxEffects

\* The claim of a root and its end are for good; a finished QA source keeps
\* its disposition.
FinalForGood ==
  [][/\ \A r \in Roots :
          /\ root[r].claim # 0 => root'[r].claim = root[r].claim
          /\ root[r].state \in {"sealed", "quarantined"} => root'[r] = root[r]
     /\ \A t \in Transactions : qa[t].stage = "finished" => qa'[t] = qa[t]]_registryVars

=============================================================================
