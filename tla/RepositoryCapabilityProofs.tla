--------------------- MODULE RepositoryCapabilityProofs ---------------------
(***************************************************************************)
(* Proofs about RepositoryCapability.  RegistryInv says for every lease    *)
(* what its root, its grant and its handle are while it is good for        *)
(* anything; it is inductive, and gives the properties of the registry for *)
(* any number of roots, grants, actions, seals and transactions.           *)
(***************************************************************************)
EXTENDS RepositoryCapability, FiniteSetTheorems, TLAPS

\* A grant exists with its root, and holds its handle while it is active.
GrantInv ==
  \A g \in Grants :
    /\ grant[g].state = "none" => grant[g] = NoGrant
    /\ grant[g].state # "none" => grant[g].root \in Roots
    /\ grant[g].open <=> grant[g].state = "active"

\* A root is claimed when it leaves "unclaimed"; a closed root has no active
\* grant.
RootInv ==
  \A r \in Roots :
    /\ root[r].state \in {"none", "unclaimed"} => root[r].claim = 0
    /\ root[r].state \in {"sealed", "quarantined"} =>
         \A g \in Grants : grant[g].root = r => grant[g].state # "active"

\* The QA source exists in a sealed root only and names its transaction.
SourceInv ==
  \A r \in Roots :
    /\ source[r].open <=> source[r].state \in {"available", "reserved", "in_use", "used"}
    /\ source[r].state # "none" => root[r].state = "sealed"

\* An authorised action names a grant that was made.
ActionInv ==
  \A a \in Actions :
    \/ action[a] = NoAction
    \/ /\ action[a].grant \in Grants
       /\ action[a].gen \in Generations
       /\ grant[action[a].grant].state # "none"

\* An effect is of the claiming generation; its provider call is counted in
\* flight as long as the root materializes.
EffectInv ==
  \A a \in Actions :
    effect[a].stage # "none" =>
      /\ action[a] # NoAction
      /\ a \in dispatched[action[a].grant]
      /\ root[EffectRoot(a)].claim = action[a].gen
      /\ effect[a].stage \in {"creating", "reading"} =>
           \/ root[EffectRoot(a)].state = "quarantined"
           \/ /\ root[EffectRoot(a)].state = "materializing"
              /\ <<a, effect[a].stage>> \in inflight[EffectRoot(a)]

\* The effects begun under a grant in a generation.
Begun(g, n) ==
  {a \in Actions : effect[a].stage # "none" /\ action[a] = [grant |-> g, gen |-> n]}

\* The counter of a grant is the number of effects begun under it.
UsedInv ==
  \A g \in Grants, n \in Generations :
    IsFiniteSet(Begun(g, n)) /\ Cardinality(Begun(g, n)) = used[g][n]

LiveStages == {"begun", "inventorying", "inventoried"}

\* A live seal is the one its root names and waits for, unless the root was
\* quarantined under it.
SealInv ==
  /\ \A s \in Seals :
       /\ seal[s].stage # "none" => seal[s].root \in Roots /\ seal[s].grant \in Grants
       /\ seal[s].stage \in LiveStages =>
            \/ root[seal[s].root].state = "quarantined"
            \/ /\ root[seal[s].root].state = "seal_pending"
               /\ root[seal[s].root].seal = s
               /\ root[seal[s].root].rev = seal[s].rev
  /\ \A r \in Roots :
       root[r].state = "seal_pending" =>
         /\ root[r].seal \in Seals
         /\ seal[root[r].seal].root = r
         /\ seal[root[r].seal].stage \in LiveStages

\* A QA lease is the one its source names, and the source is where it is.
QaInv ==
  \A t \in Transactions :
    qa[t].stage # "none" =>
      /\ qa[t].root \in Roots
      /\ source[qa[t].root].tx = t
      /\ IF qa[t].stage = "finished"
         THEN source[qa[t].root].state \in {"consumed", "quarantined"}
         ELSE source[qa[t].root].state = qa[t].stage

RegistryInv ==
  /\ RegistryTypeOK
  /\ GrantInv /\ RootInv /\ SourceInv /\ ActionInv
  /\ EffectInv /\ UsedInv /\ SealInv /\ QaInv

-----------------------------------------------------------------------------
\* Facts used for several actions

\* The counters hold as long as no effect begins.
LEMMA UsedKept ==
  ASSUME UsedInv, UNCHANGED <<action, used>>,
         \A a \in Actions : effect'[a].stage = "none" <=> effect[a].stage = "none"
  PROVE  UsedInv'
<1>1. ASSUME NEW g \in Grants, NEW n \in Generations
      PROVE  Begun(g, n)' = Begun(g, n)
  BY DEF Begun
<1> QED  BY <1>1 DEF UsedInv

\* The root of an effect is a root.
LEMMA EffectRoots ==
  ASSUME RegistryInv, NEW a \in Actions, action[a] # NoAction
  PROVE  /\ action[a].grant \in Grants
         /\ action[a].gen \in Generations
         /\ EffectRoot(a) \in Roots
  BY DEF RegistryInv, ActionInv, GrantInv, EffectRoot

\* What a quarantine does to roots and grants.
LEMMA QuarantineFacts ==
  ASSUME RegistryTypeOK, NEW q \in Roots, QuarantineRoot(q)
  PROVE  /\ root' \in [Roots -> RootRecords]
         /\ grant' \in [Grants -> GrantRecords]
         /\ root'[q].state = "quarantined"
         /\ \A r \in Roots : root'[r].claim = root[r].claim /\ (r # q => root'[r] = root[r])
         /\ \A g \in Grants :
              /\ grant'[g].root = grant[g].root
              /\ grant'[g].state = "none" <=> grant[g].state = "none"
              /\ grant[g].root = q => ~grant'[g].open /\ grant'[g].state # "active"
              /\ grant[g].root # q => grant'[g] = grant[g]
<1>1. root' \in [Roots -> RootRecords] /\ root'[q].state = "quarantined"
      /\ \A r \in Roots : root'[r].claim = root[r].claim /\ (r # q => root'[r] = root[r])
  <2>1. root'[q] = [root[q] EXCEPT !.state = "quarantined", !.rev = @ + 1]
        /\ \A r \in Roots \ {q} : root'[r] = root[r]
    BY DEF QuarantineRoot, RegistryTypeOK
  <2>2. root[q] \in RootRecords
    BY DEF RegistryTypeOK
  <2>3. root'[q] \in RootRecords /\ root'[q].state = "quarantined"
        /\ root'[q].claim = root[q].claim
    <3>1. root[q].rev + 1 \in Nat /\ "quarantined" \in RootStates
      BY <2>2 DEF RootRecords, RootStates
    <3> QED  BY <2>1, <2>2, <3>1 DEF RootRecords
  <2>4. \A r \in Roots : root'[r] \in RootRecords
    BY <2>1, <2>3 DEF RegistryTypeOK
  <2> QED  BY <2>1, <2>3, <2>4 DEF QuarantineRoot, RegistryTypeOK
<1>2. ASSUME NEW g \in Grants
      PROVE  /\ grant'[g] \in GrantRecords
             /\ grant'[g].root = grant[g].root
             /\ grant'[g].state = "none" <=> grant[g].state = "none"
             /\ grant[g].root = q => ~grant'[g].open /\ grant'[g].state # "active"
             /\ grant[g].root # q => grant'[g] = grant[g]
  BY DEF QuarantineRoot, RegistryTypeOK, GrantRecords
<1>3. grant' = [g \in Grants |-> grant'[g]]
  BY DEF QuarantineRoot
<1> QED  BY <1>1, <1>2, <1>3

\* A quarantine keeps what is said of roots, grants, sources and actions.
LEMMA QuarantineKeeps ==
  ASSUME RegistryInv, NEW q \in Roots, Quarantinable(q), QuarantineRoot(q),
         UNCHANGED <<action, source, qa>>
  PROVE  GrantInv' /\ RootInv' /\ SourceInv' /\ ActionInv' /\ QaInv'
<1> USE DEF RegistryInv
<1>0. /\ \A r \in Roots : root'[r].claim = root[r].claim /\ (r # q => root'[r] = root[r])
      /\ root'[q].state = "quarantined"
      /\ \A g \in Grants :
              /\ grant'[g].root = grant[g].root
              /\ grant'[g].state = "none" <=> grant[g].state = "none"
              /\ grant[g].root = q => ~grant'[g].open /\ grant'[g].state # "active"
              /\ grant[g].root # q => grant'[g] = grant[g]
  BY QuarantineFacts
<1>1. GrantInv'
  <2>1. ASSUME NEW g \in Grants
        PROVE  /\ grant'[g].state = "none" => grant'[g] = NoGrant
               /\ grant'[g].state # "none" => grant'[g].root \in Roots
               /\ grant'[g].open <=> grant'[g].state = "active"
    <3>1. /\ grant[g].state = "none" => grant[g] = NoGrant
          /\ grant[g].state # "none" => grant[g].root \in Roots
          /\ grant[g].open <=> grant[g].state = "active"
      BY DEF GrantInv
    <3>2. grant[g].state = "none" => grant[g].root # q
      BY <3>1, RegistryAssumption DEF NoGrant
    <3>3. CASE grant[g].root = q
      BY <3>3, <3>1, <3>2, <1>0
    <3>4. CASE grant[g].root # q
      BY <3>4, <3>1, <1>0
    <3> QED  BY <3>3, <3>4
  <2> QED  BY <2>1 DEF GrantInv
<1>2. RootInv'
  <2>1. ASSUME NEW r \in Roots
        PROVE  /\ root'[r].state \in {"none", "unclaimed"} => root'[r].claim = 0
               /\ root'[r].state \in {"sealed", "quarantined"} =>
                    \A g \in Grants : grant'[g].root = r => grant'[g].state # "active"
    BY <1>0 DEF RootInv
  <2> QED  BY <2>1 DEF RootInv
<1>3. SourceInv'
  BY <1>0 DEF SourceInv, Quarantinable
<1>4. ActionInv'
  BY <1>0 DEF ActionInv
<1>5. QaInv'
  BY <1>0 DEF QaInv
<1> QED  BY <1>1, <1>2, <1>3, <1>4, <1>5

\* A quarantine keeps the other effects and seals where they are.
LEMMA QuarantineEffects ==
  ASSUME RegistryInv, NEW q \in Roots, QuarantineRoot(q),
         inflight' = [inflight EXCEPT ![q] = {}], UNCHANGED <<action, dispatched>>,
         \A a \in Actions :
           effect'[a] = effect[a] \/ (effect[a].stage # "none" /\ effect'[a].stage = "failed")
  PROVE  EffectInv'
<1> SUFFICES ASSUME NEW a \in Actions, effect'[a].stage # "none"
             PROVE  /\ action[a] # NoAction
                    /\ a \in dispatched[action[a].grant]
                    /\ root'[EffectRoot(a)'].claim = action[a].gen
                    /\ effect'[a].stage \in {"creating", "reading"} =>
                         \/ root'[EffectRoot(a)'].state = "quarantined"
                         \/ /\ root'[EffectRoot(a)'].state = "materializing"
                            /\ <<a, effect'[a].stage>> \in inflight'[EffectRoot(a)']
  BY DEF EffectInv
<1>1. effect[a].stage # "none"
  OBVIOUS
<1>2. /\ action[a] # NoAction
      /\ a \in dispatched[action[a].grant]
      /\ root[EffectRoot(a)].claim = action[a].gen
  BY <1>1 DEF RegistryInv, EffectInv
<1>3. action[a].grant \in Grants /\ EffectRoot(a) \in Roots
  BY <1>2, EffectRoots
<1>4. EffectRoot(a)' = EffectRoot(a)
  BY <1>3, QuarantineFacts DEF EffectRoot, RegistryInv
<1>5. root'[EffectRoot(a)].claim = root[EffectRoot(a)].claim
  BY <1>3, QuarantineFacts DEF RegistryInv
<1>6. ASSUME effect'[a].stage \in {"creating", "reading"}
      PROVE  \/ root'[EffectRoot(a)].state = "quarantined"
             \/ /\ root'[EffectRoot(a)].state = "materializing"
                /\ <<a, effect'[a].stage>> \in inflight'[EffectRoot(a)]
  <2>1. effect'[a] = effect[a]
    BY <1>6
  <2>2. CASE EffectRoot(a) = q
    BY <2>2, QuarantineFacts DEF RegistryInv
  <2>3. CASE EffectRoot(a) # q
    <3>1. root'[EffectRoot(a)] = root[EffectRoot(a)]
      BY <2>3, <1>3, QuarantineFacts DEF RegistryInv
    <3>2. inflight'[EffectRoot(a)] = inflight[EffectRoot(a)]
      BY <2>3, <1>3 DEF RegistryInv, RegistryTypeOK
    <3> QED  BY <3>1, <3>2, <2>1, <1>6, <1>1 DEF RegistryInv, EffectInv
  <2> QED  BY <2>2, <2>3
<1> QED  BY <1>2, <1>4, <1>5, <1>6

LEMMA QuarantineSeals ==
  ASSUME RegistryInv, NEW q \in Roots, QuarantineRoot(q),
         seal' \in [Seals -> SealRecords],
         \A s \in Seals :
           \/ seal'[s] = seal[s]
           \/ /\ seal[s].root = q /\ seal[s].stage # "none"
              /\ seal'[s].root = q /\ seal'[s].grant = seal[s].grant
  PROVE  SealInv'
<1> USE QuarantineFacts DEF RegistryInv, SealInv
<1>1. ASSUME NEW s \in Seals
      PROVE  /\ seal'[s].stage # "none" => seal'[s].root \in Roots /\ seal'[s].grant \in Grants
             /\ seal'[s].stage \in LiveStages =>
                  \/ root'[seal'[s].root].state = "quarantined"
                  \/ /\ root'[seal'[s].root].state = "seal_pending"
                     /\ root'[seal'[s].root].seal = s
                     /\ root'[seal'[s].root].rev = seal'[s].rev
  BY DEF LiveStages
<1>2. ASSUME NEW r \in Roots, root'[r].state = "seal_pending"
      PROVE  /\ root'[r].seal \in Seals
             /\ seal'[root'[r].seal].root = r
             /\ seal'[root'[r].seal].stage \in LiveStages
  BY <1>2
<1> QED  BY <1>1, <1>2

-----------------------------------------------------------------------------
\* Grants and actions

LEMMA MintKeeps ==
  ASSUME RegistryInv, NEW g \in Grants, NEW r \in Roots, NEW o \in Owners, Mint(g, r, o)
  PROVE  RegistryInv'
<1> USE DEF RegistryInv
<1>1. /\ grant' = [grant EXCEPT ![g] = [state |-> "active", root |-> r, open |-> TRUE]]
      /\ grant[g].state = "none"
      /\ grant[g] = NoGrant
      /\ UNCHANGED <<used, dispatched, action, effect, inflight, seal, source, qa>>
  BY DEF Mint, GrantInv
<1>2. /\ root' \in [Roots -> RootRecords]
      /\ \A x \in Roots : x # r => root'[x] = root[x]
      /\ root'[r].claim = root[r].claim
      /\ root[r].state # "none" => root'[r] = root[r]
      /\ root'[r].state \in {"unclaimed", "materializing"}
  <2>1. CASE root[r].state = "none"
    <3>1. root' = [root EXCEPT ![r] = [state |-> "unclaimed", owner |-> o, claim |-> 0,
                                       rev |-> 1, seal |-> None]]
      BY <2>1 DEF Mint, RegistryTypeOK
    <3>2. root[r].claim = 0
      BY <2>1 DEF RootInv
    <3> QED  BY <3>1, <3>2, <2>1 DEF RegistryTypeOK, RootRecords, RootStates
  <2>2. CASE root[r].state # "none"
    BY <2>2 DEF Mint, RegistryTypeOK
  <2> QED  BY <2>1, <2>2
<1>3. RegistryTypeOK'
  BY <1>1, <1>2 DEF RegistryTypeOK, GrantRecords
<1>4. GrantInv'
  BY <1>1 DEF GrantInv, RegistryTypeOK
<1>5. RootInv'
  BY <1>1, <1>2 DEF RootInv, RegistryTypeOK
<1>6. SourceInv'
  BY <1>1, <1>2 DEF SourceInv
<1>7. ActionInv'
  BY <1>1 DEF ActionInv, RegistryTypeOK
<1>8. EffectInv'
  <2>1. ASSUME NEW a \in Actions, effect[a].stage # "none"
        PROVE  EffectRoot(a)' = EffectRoot(a) /\ EffectRoot(a) \in Roots
               /\ root[EffectRoot(a)].state # "none"
    <3>1. action[a] # NoAction /\ root[EffectRoot(a)].claim = action[a].gen
      BY <2>1 DEF EffectInv
    <3>2. action[a].gen # 0 /\ EffectRoot(a) \in Roots /\ action[a].grant \in Grants
      BY <3>1, EffectRoots, RegistryAssumption
    <3>3. grant[action[a].grant].state # "none"
      BY <3>1 DEF ActionInv
    <3> QED  BY <3>1, <3>2, <3>3, <1>1 DEF RootInv, EffectRoot, RegistryTypeOK
  <2> QED  BY <2>1, <1>1, <1>2 DEF EffectInv
<1>9. UsedInv'
  BY <1>1, UsedKept
<1>10. SealInv'
  BY <1>1, <1>2 DEF SealInv, LiveStages
<1>11. QaInv'
  BY <1>1 DEF QaInv
<1> QED  BY <1>3, <1>4, <1>5, <1>6, <1>7, <1>8, <1>9, <1>10, <1>11

LEMMA RevokeKeeps ==
  ASSUME RegistryInv, NEW g \in Grants, Revoke(g)
  PROVE  RegistryInv'
<1> USE DEF RegistryInv
<1>1. /\ grant' = [grant EXCEPT ![g] = [@ EXCEPT !.state = "revoked", !.open = FALSE]]
      /\ grant[g].state # "none"
      /\ UNCHANGED <<root, used, dispatched, action, effect, inflight, seal, source, qa>>
  BY DEF Revoke, RegistryTypeOK
<1>2. /\ grant' \in [Grants -> GrantRecords]
      /\ grant'[g].state = "revoked" /\ ~grant'[g].open /\ grant'[g].root = grant[g].root
      /\ \A h \in Grants : h # g => grant'[h] = grant[h]
  BY <1>1 DEF RegistryTypeOK, GrantRecords
<1>3. RegistryTypeOK'
  BY <1>1, <1>2 DEF RegistryTypeOK
<1>4. GrantInv'
  BY <1>1, <1>2 DEF GrantInv
<1>5. RootInv'
  BY <1>1, <1>2 DEF RootInv
<1>6. SourceInv' /\ SealInv' /\ QaInv'
  BY <1>1 DEF SourceInv, SealInv, QaInv
<1>7. ActionInv'
  BY <1>1, <1>2 DEF ActionInv
<1>8. EffectInv'
  <2>1. ASSUME NEW a \in Actions, action[a] # NoAction
        PROVE  EffectRoot(a)' = EffectRoot(a)
    BY <2>1, EffectRoots, <1>1, <1>2 DEF EffectRoot
  <2> QED  BY <2>1, <1>1 DEF EffectInv
<1>9. UsedInv'
  BY <1>1, UsedKept
<1> QED  BY <1>3, <1>4, <1>5, <1>6, <1>7, <1>8, <1>9

LEMMA ResolveKeeps ==
  ASSUME RegistryInv, NEW a \in Actions, NEW o \in Owners, NEW n \in Generations,
         Resolve(a, o, n)
  PROVE  RegistryInv'
<1> USE DEF RegistryInv
<1>1. PICK g \in Grants : /\ grant[g].state = "active"
                          /\ action' = [action EXCEPT ![a] = [grant |-> g, gen |-> n]]
  BY DEF Resolve, Matches
<1>2. /\ UNCHANGED <<root, grant, used, dispatched, effect, inflight, seal, source, qa>>
      /\ action[a] = NoAction
  BY DEF Resolve
<1>3. effect[a].stage = "none"
  BY <1>2 DEF EffectInv
<1>4. RegistryTypeOK'
  BY <1>1, <1>2 DEF RegistryTypeOK, ActionRecords
<1>5. GrantInv' /\ RootInv' /\ SourceInv' /\ SealInv' /\ QaInv'
  BY <1>2 DEF GrantInv, RootInv, SourceInv, SealInv, QaInv
<1>6. ActionInv'
  BY <1>1, <1>2 DEF ActionInv, RegistryTypeOK
<1>7. EffectInv'
  <2>1. \A b \in Actions : b # a => action'[b] = action[b] /\ EffectRoot(b)' = EffectRoot(b)
    BY <1>1, <1>2 DEF EffectRoot, RegistryTypeOK
  <2> QED  BY <2>1, <1>2, <1>3 DEF EffectInv
<1>8. UsedInv'
  <2>1. \A b \in Actions : effect[b].stage # "none" => action'[b] = action[b]
    BY <1>1, <1>3 DEF RegistryTypeOK
  <2>2. ASSUME NEW h \in Grants, NEW m \in Generations
        PROVE  Begun(h, m)' = Begun(h, m)
    BY <2>1, <1>2 DEF Begun
  <2> QED  BY <2>2, <1>2 DEF UsedInv
<1> QED  BY <1>4, <1>5, <1>6, <1>7, <1>8

-----------------------------------------------------------------------------
\* Effects

LEMMA BeginEffectKeeps ==
  ASSUME RegistryInv, NEW a \in Actions, BeginEffect(a)
  PROVE  RegistryInv'
<1> DEFINE r == EffectRoot(a)
<1> USE DEF RegistryInv
<1>0. PICK g \in Grants, n \in Generations : action[a] = [grant |-> g, gen |-> n]
  <2>1. action[a] # NoAction
    BY DEF BeginEffect, ActionAllowed
  <2> QED  BY <2>1, EffectRoots DEF RegistryTypeOK, ActionRecords
<1>1. action[a] # NoAction /\ a \notin dispatched[g] /\ used[g][n] < MaxEffects
  BY <1>0 DEF BeginEffect, ActionAllowed
<1>2. n # 0 /\ r \in Roots /\ r = grant[g].root /\ action[a].grant = g /\ action[a].gen = n
  BY <1>0, <1>1, EffectRoots, RegistryAssumption DEF EffectRoot
<1>3. /\ used' = [used EXCEPT ![g][n] = @ + 1]
      /\ dispatched' = [dispatched EXCEPT ![g] = @ \cup {a}]
      /\ \E rev \in Nat : effect' = [effect EXCEPT ![a] = [stage |-> "begun", rev |-> rev]]
      /\ root' \in [Roots -> RootRecords]
      /\ \A x \in Roots : x # r => root'[x] = root[x]
      /\ root'[r].state = "materializing" /\ root'[r].claim = n
      /\ \/ root[r].state = "unclaimed"
         \/ root[r].state = "materializing" /\ root'[r] = root[r]
      /\ UNCHANGED <<grant, action, inflight, seal, source, qa>>
  <2>1. CASE root[r].state = "unclaimed"
    <3> DEFINE claimed == [root[r] EXCEPT !.state = "materializing", !.claim = n, !.rev = @ + 1]
    <3>1. /\ root' = [root EXCEPT ![r] = claimed]
          /\ effect' = [effect EXCEPT ![a] = [stage |-> "begun", rev |-> claimed.rev]]
      BY <2>1, <1>2 DEF BeginEffect, Consume
    <3>2. root[r] \in RootRecords /\ root[r].rev + 1 \in Nat /\ "materializing" \in RootStates
      BY <1>2 DEF RegistryTypeOK, RootRecords, RootStates
    <3>3. claimed \in RootRecords /\ claimed.state = "materializing" /\ claimed.claim = n
          /\ claimed.rev \in Nat
      BY <3>2, <1>2 DEF RootRecords
    <3> HIDE DEF claimed
    <3>4. /\ root' \in [Roots -> RootRecords]
          /\ \A x \in Roots : x # r => root'[x] = root[x]
          /\ root'[r] = claimed
      BY <3>1, <3>3, <1>2 DEF RegistryTypeOK
    <3> QED  BY <3>1, <3>3, <3>4, <2>1, <1>2 DEF BeginEffect, Consume
  <2>2. CASE root[r].state # "unclaimed"
    <3>1. root[r].state = "materializing" /\ root[r].claim = n
      BY <2>2, <1>2 DEF BeginEffect, ActionAllowed
    <3>2. root' = root /\ effect' = [effect EXCEPT ![a] = [stage |-> "begun", rev |-> root[r].rev]]
      BY <2>2, <1>2 DEF BeginEffect, Consume, RegistryTypeOK
    <3>3. root[r].rev \in Nat /\ root \in [Roots -> RootRecords]
      BY <1>2 DEF RegistryTypeOK, RootRecords
    <3> QED  BY <3>1, <3>2, <3>3, <1>2 DEF BeginEffect, Consume
  <2> QED  BY <2>1, <2>2
<1> HIDE DEF r
<1>4. effect[a].stage = "none"
  BY <1>1, <1>2 DEF EffectInv
<1>5. /\ effect' \in [Actions -> EffectRecords]
      /\ effect'[a].stage = "begun"
      /\ \A b \in Actions : b # a => effect'[b] = effect[b]
  BY <1>3 DEF RegistryTypeOK, EffectRecords
<1>6. used' \in [Grants -> [Generations -> 0..MaxEffects]]
  <2>1. used[g] \in [Generations -> 0..MaxEffects] /\ used[g][n] + 1 \in 0..MaxEffects
    <3>1. used[g] \in [Generations -> 0..MaxEffects] /\ used[g][n] \in 0..MaxEffects
      BY <1>2 DEF RegistryTypeOK
    <3> QED  BY <3>1, <1>1, RegistryAssumption
  <2> QED  BY <2>1, <1>2, <1>3 DEF RegistryTypeOK
<1>7. dispatched' \in [Grants -> SUBSET Actions]
      /\ dispatched'[g] = dispatched[g] \cup {a}
      /\ \A h \in Grants : dispatched[h] \subseteq dispatched'[h]
  BY <1>2, <1>3 DEF RegistryTypeOK
<1>8. RegistryTypeOK'
  BY <1>3, <1>5, <1>6, <1>7 DEF RegistryTypeOK
<1>9. GrantInv' /\ ActionInv'
  BY <1>3 DEF GrantInv, ActionInv
<1>10. RootInv'
  BY <1>2, <1>3 DEF RootInv
<1>11. SourceInv' /\ QaInv'
  BY <1>3 DEF SourceInv, QaInv
<1>12. EffectInv'
  <2>1. \A b \in Actions : EffectRoot(b)' = EffectRoot(b)
    BY <1>3 DEF EffectRoot
  <2>2. ASSUME NEW b \in Actions, b # a, effect[b].stage # "none"
        PROVE  /\ b \in dispatched'[action[b].grant]
               /\ EffectRoot(b) \in Roots
               /\ root'[EffectRoot(b)] = root[EffectRoot(b)]
    <3>1. action[b] # NoAction /\ b \in dispatched[action[b].grant]
          /\ root[EffectRoot(b)].claim = action[b].gen
      BY <2>2 DEF EffectInv
    <3>2. action[b].grant \in Grants /\ EffectRoot(b) \in Roots /\ action[b].gen # 0
      BY <3>1, EffectRoots, RegistryAssumption
    <3>3. root[EffectRoot(b)].state # "unclaimed"
      BY <3>1, <3>2 DEF RootInv
    <3> QED  BY <3>1, <3>2, <3>3, <1>3, <1>7
  <2>3. a \in dispatched'[g]
    BY <1>7
  <2> QED  BY <2>1, <2>2, <2>3, <1>1, <1>2, <1>3, <1>5 DEF EffectInv, r
<1>13. UsedInv'
  <2>1. ASSUME NEW h \in Grants, NEW m \in Generations, h # g \/ m # n
        PROVE  Begun(h, m)' = Begun(h, m) /\ used'[h][m] = used[h][m]
    <3>1. action[a] # [grant |-> h, gen |-> m]
      BY <2>1, <1>2
    <3>2. used'[h][m] = used[h][m]
      BY <2>1, <1>2, <1>3 DEF RegistryTypeOK
    <3> QED  BY <3>1, <3>2, <1>3, <1>5 DEF Begun
  <2>3. Begun(g, n)' = Begun(g, n) \cup {a} /\ a \notin Begun(g, n)
    BY <1>0, <1>3, <1>4, <1>5 DEF Begun
  <2>4. used'[g][n] = used[g][n] + 1
    BY <1>2, <1>3 DEF RegistryTypeOK
  <2>5. IsFiniteSet(Begun(g, n)) /\ Cardinality(Begun(g, n)) = used[g][n]
    BY <1>2 DEF UsedInv
  <2>6. IsFiniteSet(Begun(g, n) \cup {a})
        /\ Cardinality(Begun(g, n) \cup {a}) = Cardinality(Begun(g, n)) + 1
    BY <2>3, <2>5, FS_AddElement
  <2>7. IsFiniteSet(Begun(g, n)') /\ Cardinality(Begun(g, n)') = used'[g][n]
    BY <2>3, <2>4, <2>5, <2>6
  <2>8. ASSUME NEW h \in Grants, NEW m \in Generations
        PROVE  IsFiniteSet(Begun(h, m)') /\ Cardinality(Begun(h, m)') = used'[h][m]
    <3>1. IsFiniteSet(Begun(h, m)) /\ Cardinality(Begun(h, m)) = used[h][m]
      BY DEF UsedInv
    <3>2. CASE h = g /\ m = n
      BY <3>2, <2>7
    <3>3. CASE h # g \/ m # n
      BY <3>1, <3>3, <2>1
    <3> QED  BY <3>2, <3>3
  <2> QED  BY <2>8 DEF UsedInv
<1>14. SealInv'
  <2>1. \A x \in Roots : root[x].state \in {"seal_pending", "quarantined"} => root'[x] = root[x]
    BY <1>3
  <2>2. \A x \in Roots : root'[x].state = "seal_pending" => root'[x] = root[x]
    BY <1>3
  <2>3. \A s \in Seals : seal[s].stage \in LiveStages => root'[seal[s].root] = root[seal[s].root]
    BY <2>1 DEF SealInv, LiveStages
  <2> QED  BY <2>2, <2>3, <1>3 DEF SealInv
<1> QED  BY <1>8, <1>9, <1>10, <1>11, <1>12, <1>13, <1>14

LEMMA DispatchKeeps ==
  ASSUME RegistryInv, NEW a \in Actions, NEW from \in {"begun", "created"},
         NEW phase \in {"creating", "reading"}, Dispatch(a, from, phase)
  PROVE  RegistryInv'
<1> USE DEF RegistryInv
<1>1. /\ effect[a].stage # "none"
      /\ root[EffectRoot(a)].state = "materializing"
      /\ effect' = [effect EXCEPT ![a].stage = phase]
      /\ inflight' = [inflight EXCEPT ![EffectRoot(a)] = @ \cup {<<a, phase>>}]
      /\ UNCHANGED <<root, grant, used, dispatched, action, seal, source, qa>>
  BY DEF Dispatch, EffectLease, EffectRoot
<1>2. action[a] # NoAction
  BY <1>1 DEF EffectInv
<1>3. EffectRoot(a) \in Roots
  BY <1>2, EffectRoots
<1>4. /\ effect' \in [Actions -> EffectRecords]
      /\ effect'[a].stage = phase
      /\ \A b \in Actions : b # a => effect'[b] = effect[b]
  BY <1>1 DEF RegistryTypeOK, EffectRecords
<1>5. /\ inflight' \in [Roots -> SUBSET Dispatches]
      /\ <<a, phase>> \in inflight'[EffectRoot(a)]
      /\ \A x \in Roots : inflight[x] \subseteq inflight'[x]
  <2>1. <<a, phase>> \in Dispatches
    BY DEF Dispatches
  <2> QED  BY <2>1, <1>1, <1>3 DEF RegistryTypeOK
<1>6. RegistryTypeOK'
  BY <1>1, <1>4, <1>5 DEF RegistryTypeOK
<1>7. GrantInv' /\ RootInv' /\ SourceInv' /\ ActionInv' /\ SealInv' /\ QaInv'
  BY <1>1 DEF GrantInv, RootInv, SourceInv, ActionInv, SealInv, QaInv
<1>8. EffectInv'
  <2>1. \A b \in Actions : EffectRoot(b)' = EffectRoot(b)
    BY <1>1 DEF EffectRoot
  <2>2. \A b \in Actions : action[b] # NoAction => EffectRoot(b) \in Roots
    BY EffectRoots
  <2> SUFFICES ASSUME NEW b \in Actions, effect'[b].stage # "none"
               PROVE  /\ action[b] # NoAction
                      /\ b \in dispatched[action[b].grant]
                      /\ root[EffectRoot(b)].claim = action[b].gen
                      /\ effect'[b].stage \in {"creating", "reading"} =>
                           \/ root[EffectRoot(b)].state = "quarantined"
                           \/ /\ root[EffectRoot(b)].state = "materializing"
                              /\ <<b, effect'[b].stage>> \in inflight'[EffectRoot(b)]
    BY <2>1, <1>1 DEF EffectInv
  <2>3. CASE b = a
    BY <2>3, <1>1, <1>2, <1>4, <1>5 DEF EffectInv
  <2>4. CASE b # a
    BY <2>2, <2>4, <1>4, <1>5 DEF EffectInv
  <2> QED  BY <2>3, <2>4
<1>9. UsedInv'
  BY <1>1, <1>4, UsedKept
<1> QED  BY <1>6, <1>7, <1>8, <1>9

LEMMA ReturnKeeps ==
  ASSUME RegistryInv, NEW a \in Actions, NEW phase \in {"creating", "reading"},
         NEW to \in {"created", "read", "failed"}, Return(a, phase, to)
  PROVE  RegistryInv'
<1> USE DEF RegistryInv
<1>1. /\ effect[a].stage = phase
      /\ effect' = [effect EXCEPT ![a].stage = to]
      /\ inflight' = [inflight EXCEPT ![EffectRoot(a)] = @ \ {<<a, phase>>}]
      /\ UNCHANGED <<root, grant, used, dispatched, action, seal, source, qa>>
  BY DEF Return
<1>2. action[a] # NoAction
  BY <1>1 DEF EffectInv
<1>3. EffectRoot(a) \in Roots
  BY <1>2, EffectRoots
<1>4. /\ effect' \in [Actions -> EffectRecords]
      /\ effect'[a].stage = to
      /\ \A b \in Actions : b # a => effect'[b] = effect[b]
  BY <1>1 DEF RegistryTypeOK, EffectRecords
<1>5. /\ inflight' \in [Roots -> SUBSET Dispatches]
      /\ \A x \in Roots : \A b, p : b # a /\ <<b, p>> \in inflight[x] => <<b, p>> \in inflight'[x]
  BY <1>1, <1>3 DEF RegistryTypeOK
<1>6. RegistryTypeOK'
  BY <1>1, <1>4, <1>5 DEF RegistryTypeOK
<1>7. GrantInv' /\ RootInv' /\ SourceInv' /\ ActionInv' /\ SealInv' /\ QaInv'
  BY <1>1 DEF GrantInv, RootInv, SourceInv, ActionInv, SealInv, QaInv
<1>8. EffectInv'
  <2>1. \A b \in Actions : EffectRoot(b)' = EffectRoot(b)
    BY <1>1 DEF EffectRoot
  <2>2. \A b \in Actions : action[b] # NoAction => EffectRoot(b) \in Roots
    BY EffectRoots
  <2> QED  BY <2>1, <2>2, <1>1, <1>2, <1>4, <1>5, ZenonT(30) DEF EffectInv
<1>9. UsedInv'
  BY <1>1, <1>4, UsedKept
<1> QED  BY <1>6, <1>7, <1>8, <1>9

LEMMA EffectPanicKeeps ==
  ASSUME RegistryInv, NEW a \in Actions, NEW phase \in {"creating", "reading"},
         EffectPanic(a, phase)
  PROVE  RegistryInv'
<1> DEFINE r == EffectRoot(a)
<1> USE DEF RegistryInv
<1>1. /\ effect[a].stage = phase
      /\ effect' = [effect EXCEPT ![a].stage = "failed"]
      /\ UNCHANGED <<used, dispatched, action, seal, source, qa>>
      /\ Panic(r, <<a, phase>>)
  BY DEF EffectPanic
<1>2. action[a] # NoAction /\ root[r].state \in {"materializing", "quarantined"}
  BY <1>1 DEF EffectInv
<1>3. r \in Roots
  BY <1>2, EffectRoots
<1> HIDE DEF r
<1>4. /\ effect' \in [Actions -> EffectRecords]
      /\ effect'[a].stage = "failed"
      /\ \A b \in Actions : b # a => effect'[b] = effect[b]
  BY <1>1 DEF RegistryTypeOK, EffectRecords
<1>5. UsedInv'
  BY <1>1, <1>4, UsedKept
<1>6. CASE Quarantinable(r)
  <2>1. QuarantineRoot(r) /\ inflight' = [inflight EXCEPT ![r] = {}]
    BY <1>1, <1>6 DEF Panic
  <2>2. root' \in [Roots -> RootRecords] /\ grant' \in [Grants -> GrantRecords]
    BY <1>3, <2>1, QuarantineFacts
  <2>3. inflight' \in [Roots -> SUBSET Dispatches]
    BY <2>1 DEF RegistryTypeOK
  <2>4. RegistryTypeOK'
    BY <1>1, <1>4, <2>2, <2>3 DEF RegistryTypeOK
  <2>5. GrantInv' /\ RootInv' /\ SourceInv' /\ ActionInv' /\ QaInv'
    BY <1>1, <1>3, <1>6, <2>1, QuarantineKeeps
  <2>6. EffectInv'
    <3>1. \A b \in Actions :
            effect'[b] = effect[b] \/ (effect[b].stage # "none" /\ effect'[b].stage = "failed")
      BY <1>1, <1>4
    <3>2. UNCHANGED <<action, dispatched>>
      BY <1>1
    <3> QED  BY <3>1, <3>2, <1>3, <2>1, QuarantineEffects
  <2>7. SealInv'
    BY <1>1, <1>3, <2>1, QuarantineSeals DEF RegistryTypeOK
  <2> QED  BY <1>5, <2>4, <2>5, <2>6, <2>7
<1>7. CASE ~Quarantinable(r)
  <2>1. inflight' = [inflight EXCEPT ![r] = @ \ {<<a, phase>>}] /\ UNCHANGED <<root, grant>>
    BY <1>1, <1>7 DEF Panic
  <2>2. root[r].state = "quarantined"
    BY <1>2, <1>7 DEF Quarantinable
  <2>3. /\ inflight' \in [Roots -> SUBSET Dispatches]
        /\ \A x \in Roots : x # r => inflight'[x] = inflight[x]
    BY <2>1, <1>3 DEF RegistryTypeOK
  <2>4. RegistryTypeOK'
    BY <1>1, <1>4, <2>1, <2>3 DEF RegistryTypeOK
  <2>5. GrantInv' /\ RootInv' /\ SourceInv' /\ ActionInv' /\ SealInv' /\ QaInv'
    BY <1>1, <2>1 DEF GrantInv, RootInv, SourceInv, ActionInv, SealInv, QaInv
  <2>6. EffectInv'
    <3>1. \A b \in Actions : EffectRoot(b)' = EffectRoot(b)
      BY <1>1, <2>1 DEF EffectRoot
    <3>2. \A b \in Actions : action[b] # NoAction => EffectRoot(b) \in Roots
      BY EffectRoots
    <3> QED  BY <3>1, <3>2, <1>1, <1>2, <1>4, <2>1, <2>2, <2>3 DEF EffectInv, r
  <2> QED  BY <1>5, <2>4, <2>5, <2>6
<1> QED  BY <1>6, <1>7

LEMMA QuarantineEffectKeeps ==
  ASSUME RegistryInv, NEW a \in Actions, QuarantineEffect(a)
  PROVE  RegistryInv'
<1> DEFINE r == EffectRoot(a)
<1> USE DEF RegistryInv
<1>1. /\ effect[a].stage # "none"
      /\ Quarantinable(r) /\ QuarantineRoot(r)
      /\ inflight' = [inflight EXCEPT ![r] = {}]
      /\ UNCHANGED <<used, dispatched, action, effect, seal, source, qa>>
  BY DEF QuarantineEffect
<1>2. r \in Roots
  BY <1>1, EffectRoots DEF EffectInv
<1> HIDE DEF r
<1>3. root' \in [Roots -> RootRecords] /\ grant' \in [Grants -> GrantRecords]
  BY <1>1, <1>2, QuarantineFacts
<1>4. inflight' \in [Roots -> SUBSET Dispatches]
  BY <1>1 DEF RegistryTypeOK
<1>5. RegistryTypeOK'
  BY <1>1, <1>3, <1>4 DEF RegistryTypeOK
<1>6. GrantInv' /\ RootInv' /\ SourceInv' /\ ActionInv' /\ QaInv'
  BY <1>1, <1>2, QuarantineKeeps
<1>7. EffectInv'
  <2>1. UNCHANGED <<action, dispatched>> /\ \A b \in Actions : effect'[b] = effect[b]
    BY <1>1
  <2> QED  BY <2>1, <1>1, <1>2, QuarantineEffects
<1>8. SealInv'
  BY <1>1, <1>2, QuarantineSeals DEF RegistryTypeOK
<1>9. UsedInv'
  BY <1>1, UsedKept
<1> QED  BY <1>5, <1>6, <1>7, <1>8, <1>9

-----------------------------------------------------------------------------
\* The candidate seal

\* Effects do not notice a step that leaves them, their roots' claims and the
\* calls in flight alone, and changes no state but that of a root without one.
LEMMA EffectsKept ==
  ASSUME RegistryInv, UNCHANGED <<action, dispatched, effect>>,
         \A g \in Grants : grant'[g].root = grant[g].root,
         \A r \in Roots : root'[r].claim = root[r].claim,
         \A r \in Roots :
           \/ root'[r].state = root[r].state
                /\ \A a \in Actions, p \in {"creating", "reading"} :
                     <<a, p>> \in inflight[r] => <<a, p>> \in inflight'[r]
           \/ root[r].state = "seal_pending"
           \/ root[r].state = "materializing" /\ inflight[r] = {}
  PROVE  EffectInv'
<1>1. ASSUME NEW a \in Actions, effect[a].stage # "none"
      PROVE  /\ EffectRoot(a)' = EffectRoot(a) /\ EffectRoot(a) \in Roots
             /\ action[a] # NoAction
    <2>1. action[a] # NoAction
      BY <1>1 DEF RegistryInv, EffectInv
    <2>2. action[a].grant \in Grants /\ EffectRoot(a) \in Roots
      BY <2>1, EffectRoots
    <2> QED  BY <2>1, <2>2 DEF EffectRoot
<1>2. ASSUME NEW a \in Actions, effect[a].stage \in {"creating", "reading"}
      PROVE  \/ root'[EffectRoot(a)].state = "quarantined"
             \/ /\ root'[EffectRoot(a)].state = "materializing"
                /\ <<a, effect[a].stage>> \in inflight'[EffectRoot(a)]
  <2>1. EffectRoot(a) \in Roots
    BY <1>1, <1>2
  <2>2. \/ root[EffectRoot(a)].state = "quarantined"
        \/ /\ root[EffectRoot(a)].state = "materializing"
           /\ <<a, effect[a].stage>> \in inflight[EffectRoot(a)]
    BY <1>2 DEF RegistryInv, EffectInv
  <2> QED  BY <1>2, <2>1, <2>2
<1>3. ASSUME NEW a \in Actions, effect[a].stage # "none"
      PROVE  root'[EffectRoot(a)].claim = action[a].gen /\ a \in dispatched[action[a].grant]
  BY <1>3, <1>1 DEF RegistryInv, EffectInv
<1> QED  BY <1>1, <1>2, <1>3 DEF EffectInv

\* A root taken for sealing or given back.
LEMMA RootMoves ==
  ASSUME NEW x \in RootRecords, NEW to \in RootStates, NEW s \in Seals \cup {None}
  PROVE  /\ Moved(x, to, s) \in RootRecords
         /\ Moved(x, to, s).state = to
         /\ Moved(x, to, s).claim = x.claim
         /\ Moved(x, to, s).rev = x.rev + 1
         /\ Moved(x, to, s).seal = s
<1>1. x.rev + 1 \in Nat
  BY DEF RootRecords
<1> QED  BY <1>1 DEF Moved, RootRecords

LEMMA BeginSealKeeps ==
  ASSUME RegistryInv, NEW s \in Seals, NEW r \in Roots, NEW g \in Grants,
         BeginCandidateSeal(s, r, g)
  PROVE  RegistryInv'
<1> USE DEF RegistryInv
<1>1. /\ seal[s].stage = "none" /\ root[r].state = "materializing" /\ inflight[r] = {}
      /\ root' = [root EXCEPT ![r] = Moved(root[r], "seal_pending", s)]
      /\ seal' = [seal EXCEPT ![s] = [stage |-> "begun", root |-> r, grant |-> g,
                                      rev |-> root[r].rev + 1]]
      /\ UNCHANGED <<grant, used, dispatched, action, effect, inflight, source, qa>>
  BY DEF BeginCandidateSeal, TakeSeal
<1>2. root[r] \in RootRecords /\ root[r].rev + 1 \in Nat /\ "seal_pending" \in RootStates
  BY DEF RegistryTypeOK, RootRecords, RootStates
<1>3. /\ root' \in [Roots -> RootRecords]
      /\ \A x \in Roots : x # r => root'[x] = root[x]
      /\ root'[r].state = "seal_pending" /\ root'[r].claim = root[r].claim
      /\ root'[r].rev = root[r].rev + 1 /\ root'[r].seal = s
  <2>1. root'[r] = Moved(root[r], "seal_pending", s)
        /\ \A x \in Roots : x # r => root'[x] = root[x]
    BY <1>1 DEF RegistryTypeOK
  <2>2. /\ root'[r] \in RootRecords
        /\ root'[r].state = "seal_pending" /\ root'[r].claim = root[r].claim
        /\ root'[r].rev = root[r].rev + 1 /\ root'[r].seal = s
    BY <2>1, <1>2, RootMoves
  <2> QED  BY <2>1, <2>2, <1>1 DEF RegistryTypeOK
<1>4. seal' \in [Seals -> SealRecords]
      /\ seal'[s] = [stage |-> "begun", root |-> r, grant |-> g, rev |-> root[r].rev + 1]
      /\ \A z \in Seals : z # s => seal'[z] = seal[z]
  BY <1>1, <1>2 DEF RegistryTypeOK, SealRecords
<1>5. RegistryTypeOK'
  BY <1>1, <1>3, <1>4 DEF RegistryTypeOK
<1>6. GrantInv' /\ ActionInv'
  BY <1>1 DEF GrantInv, ActionInv
<1>7. RootInv' /\ SourceInv' /\ QaInv'
  BY <1>1, <1>3 DEF RootInv, SourceInv, QaInv
<1>8. EffectInv'
  BY <1>1, <1>3, EffectsKept
<1>9. UsedInv'
  BY <1>1, UsedKept
<1>10. SealInv'
  <2>1. \A z \in Seals : seal[z].stage \in LiveStages => seal[z].root # r
    BY <1>1 DEF SealInv, LiveStages
  <2>2. \A x \in Roots : root[x].state = "seal_pending" => root[x].seal # s
    BY <1>1 DEF SealInv, LiveStages
  <2> QED  BY <2>1, <2>2, <1>1, <1>3, <1>4 DEF SealInv, LiveStages
<1> QED  BY <1>5, <1>6, <1>7, <1>8, <1>9, <1>10

\* A seal between two live stages.
LEMMA SealMoves ==
  ASSUME RegistryInv, NEW s \in Seals, NEW to \in LiveStages,
         seal[s].stage \in LiveStages,
         seal' = [seal EXCEPT ![s].stage = to]
  PROVE  /\ seal' \in [Seals -> SealRecords]
         /\ \A z \in Seals :
              /\ seal'[z].root = seal[z].root /\ seal'[z].grant = seal[z].grant
              /\ seal'[z].rev = seal[z].rev
              /\ z # s => seal'[z] = seal[z]
         /\ seal'[s].stage = to
         /\ seal[s].root \in Roots
<1>1. seal' \in [Seals -> SealRecords]
  BY DEF RegistryInv, RegistryTypeOK, SealRecords, LiveStages
<1>2. \A z \in Seals :
              /\ seal'[z].root = seal[z].root /\ seal'[z].grant = seal[z].grant
              /\ seal'[z].rev = seal[z].rev
              /\ z # s => seal'[z] = seal[z]
  BY DEF RegistryInv, RegistryTypeOK, SealRecords
<1>3. seal'[s].stage = to /\ seal[s].root \in Roots
  BY DEF RegistryInv, RegistryTypeOK, SealRecords, SealInv, LiveStages
<1> QED  BY <1>1, <1>2, <1>3

LEMMA InventoryKeeps ==
  ASSUME RegistryInv, NEW s \in Seals, InventoryCandidate(s) \/ CandidateInventoried(s)
  PROVE  RegistryInv'
<1> DEFINE r == seal[s].root
<1> USE DEF RegistryInv
<1>1. PICK to \in LiveStages : seal' = [seal EXCEPT ![s].stage = to]
  BY DEF InventoryCandidate, CandidateInventoried, LiveStages
<1>2. /\ seal[s].stage \in LiveStages
      /\ \/ inflight' = [inflight EXCEPT ![r] = @ \cup {<<s, "inventorying">>}]
         \/ inflight' = [inflight EXCEPT ![r] = @ \ {<<s, "inventorying">>}]
      /\ UNCHANGED <<root, grant, used, dispatched, action, effect, source, qa>>
  BY DEF InventoryCandidate, CandidateInventoried, LiveStages
<1>3. /\ seal' \in [Seals -> SealRecords]
      /\ \A z \in Seals :
           /\ seal'[z].root = seal[z].root /\ seal'[z].grant = seal[z].grant
           /\ seal'[z].rev = seal[z].rev
           /\ z # s => seal'[z] = seal[z]
      /\ seal'[s].stage = to
      /\ r \in Roots
  BY <1>1, <1>2, SealMoves
<1> HIDE DEF r
<1>4. /\ inflight' \in [Roots -> SUBSET Dispatches]
      /\ \A x \in Roots : \A a \in Actions, p \in {"creating", "reading"} :
           <<a, p>> \in inflight[x] => <<a, p>> \in inflight'[x]
  <2>1. <<s, "inventorying">> \in Dispatches
    BY DEF Dispatches
  <2>2. \A a, p : p \in {"creating", "reading"} => <<a, p>> # <<s, "inventorying">>
    OBVIOUS
  <2>3. CASE inflight' = [inflight EXCEPT ![r] = @ \cup {<<s, "inventorying">>}]
    BY <2>1, <2>3, <1>3 DEF RegistryTypeOK
  <2>4. CASE inflight' = [inflight EXCEPT ![r] = @ \ {<<s, "inventorying">>}]
    BY <2>2, <2>4, <1>3 DEF RegistryTypeOK
  <2> QED  BY <2>3, <2>4, <1>2
<1>5. RegistryTypeOK'
  BY <1>2, <1>3, <1>4 DEF RegistryTypeOK
<1>6. GrantInv' /\ RootInv' /\ SourceInv' /\ ActionInv' /\ QaInv'
  BY <1>2 DEF GrantInv, RootInv, SourceInv, ActionInv, QaInv
<1>7. EffectInv'
  BY <1>2, <1>4, EffectsKept
<1>8. UsedInv'
  BY <1>2, UsedKept
<1>9. SealInv'
  BY <1>2, <1>3 DEF SealInv, LiveStages
<1> QED  BY <1>5, <1>6, <1>7, <1>8, <1>9

LEMMA InventoryPanicKeeps ==
  ASSUME RegistryInv, NEW s \in Seals, InventoryPanics(s)
  PROVE  RegistryInv'
<1> DEFINE r == seal[s].root
<1> USE DEF RegistryInv
<1>1. /\ seal[s].stage \in LiveStages
      /\ seal' = [seal EXCEPT ![s].stage = "inventoried"] /\ "inventoried" \in LiveStages
      /\ Panic(r, <<s, "inventorying">>)
      /\ UNCHANGED <<used, dispatched, action, effect, source, qa>>
  BY DEF InventoryPanics, LiveStages
<1>2. /\ seal' \in [Seals -> SealRecords]
      /\ \A z \in Seals :
           /\ seal'[z].root = seal[z].root /\ seal'[z].grant = seal[z].grant
           /\ seal'[z].rev = seal[z].rev
           /\ z # s => seal'[z] = seal[z]
      /\ seal'[s].stage = "inventoried"
      /\ r \in Roots
  BY <1>1, SealMoves
<1> HIDE DEF r
<1>3. UsedInv'
  BY <1>1, UsedKept
<1>4. CASE Quarantinable(r)
  <2>1. QuarantineRoot(r) /\ inflight' = [inflight EXCEPT ![r] = {}]
    BY <1>1, <1>4 DEF Panic
  <2>2. root' \in [Roots -> RootRecords] /\ grant' \in [Grants -> GrantRecords]
    BY <1>2, <2>1, QuarantineFacts
  <2>3. inflight' \in [Roots -> SUBSET Dispatches]
    BY <2>1 DEF RegistryTypeOK
  <2>4. RegistryTypeOK'
    BY <1>1, <1>2, <2>2, <2>3 DEF RegistryTypeOK
  <2>5. GrantInv' /\ RootInv' /\ SourceInv' /\ ActionInv' /\ QaInv'
    BY <1>1, <1>2, <1>4, <2>1, QuarantineKeeps
  <2>6. EffectInv'
    <3>1. UNCHANGED <<action, dispatched>> /\ \A b \in Actions : effect'[b] = effect[b]
      BY <1>1
    <3> QED  BY <3>1, <1>2, <2>1, QuarantineEffects
  <2>7. SealInv'
    <3>1. \A z \in Seals :
            \/ seal'[z] = seal[z]
            \/ /\ seal[z].root = r /\ seal[z].stage # "none"
               /\ seal'[z].root = r /\ seal'[z].grant = seal[z].grant
      BY <1>1, <1>2 DEF LiveStages, r
    <3> QED  BY <3>1, <1>2, <2>1, QuarantineSeals
  <2> QED  BY <1>3, <2>4, <2>5, <2>6, <2>7
<1>5. CASE ~Quarantinable(r)
  <2>1. inflight' = [inflight EXCEPT ![r] = @ \ {<<s, "inventorying">>}]
        /\ UNCHANGED <<root, grant>>
    BY <1>1, <1>5 DEF Panic
  <2>2. /\ inflight' \in [Roots -> SUBSET Dispatches]
        /\ \A x \in Roots : \A a \in Actions, p \in {"creating", "reading"} :
             <<a, p>> \in inflight[x] => <<a, p>> \in inflight'[x]
    BY <2>1, <1>2 DEF RegistryTypeOK
  <2>3. RegistryTypeOK'
    BY <1>1, <1>2, <2>1, <2>2 DEF RegistryTypeOK
  <2>4. GrantInv' /\ RootInv' /\ SourceInv' /\ ActionInv' /\ QaInv'
    BY <1>1, <2>1 DEF GrantInv, RootInv, SourceInv, ActionInv, QaInv
  <2>5. EffectInv'
    BY <1>1, <2>1, <2>2, EffectsKept
  <2>6. SealInv'
    BY <1>1, <1>2, <2>1 DEF SealInv, LiveStages
  <2> QED  BY <1>3, <2>3, <2>4, <2>5, <2>6
<1> QED  BY <1>4, <1>5

\* A lease that still holds its root ends: the root, named by it alone, waits
\* no longer.
LEMMA SealEnds ==
  ASSUME RegistryInv, NEW s \in Seals, seal[s].stage = "inventoried",
         seal' = [seal EXCEPT ![s].stage = "consumed"],
         root[seal[s].root].state = "seal_pending", root[seal[s].root].seal = s,
         \A r \in Roots : r # seal[s].root => root'[r] = root[r],
         root'[seal[s].root].state # "seal_pending"
  PROVE  seal' \in [Seals -> SealRecords] /\ SealInv' /\ seal[s].root \in Roots
<1> DEFINE q == seal[s].root
<1> USE DEF RegistryInv
<1>1. /\ seal' \in [Seals -> SealRecords]
      /\ \A z \in Seals : z # s => seal'[z] = seal[z]
      /\ seal'[s].root = q /\ seal'[s].grant = seal[s].grant /\ seal'[s].stage = "consumed"
  BY DEF RegistryTypeOK, SealRecords
<1>2. q \in Roots /\ seal[s].grant \in Grants
  BY DEF SealInv
<1>3. ASSUME NEW z \in Seals
      PROVE  /\ seal'[z].stage # "none" => seal'[z].root \in Roots /\ seal'[z].grant \in Grants
             /\ seal'[z].stage \in LiveStages =>
                  \/ root'[seal'[z].root].state = "quarantined"
                  \/ /\ root'[seal'[z].root].state = "seal_pending"
                     /\ root'[seal'[z].root].seal = z
                     /\ root'[seal'[z].root].rev = seal'[z].rev
  <2>1. CASE z = s
    BY <2>1, <1>1, <1>2 DEF LiveStages
  <2>2. CASE z # s
    BY <2>2, <1>1 DEF SealInv, LiveStages
  <2> QED  BY <2>1, <2>2
<1>4. ASSUME NEW r \in Roots, root'[r].state = "seal_pending"
      PROVE  /\ root'[r].seal \in Seals
             /\ seal'[root'[r].seal].root = r
             /\ seal'[root'[r].seal].stage \in LiveStages
  <2>1. r # q
    BY <1>4
  <2>2. root'[r] = root[r] /\ root[r].seal # s
    BY <1>4, <2>1 DEF SealInv
  <2> QED  BY <2>2, <1>1, <1>4 DEF SealInv
<1> QED  BY <1>1, <1>2, <1>3, <1>4 DEF SealInv

LEMMA AbortKeeps ==
  ASSUME RegistryInv, NEW s \in Seals, AbortCandidateSeal(s)
  PROVE  RegistryInv'
<1> DEFINE r == seal[s].root
<1> USE DEF RegistryInv
<1>1. /\ seal[s].stage = "inventoried" /\ root[r].state = "seal_pending" /\ root[r].seal = s
      /\ root' = [root EXCEPT ![r] = Moved(root[r], "materializing", None)]
      /\ seal' = [seal EXCEPT ![s].stage = "consumed"]
      /\ UNCHANGED <<grant, used, dispatched, action, effect, inflight, source, qa>>
  BY DEF AbortCandidateSeal, SealLease
<1>2. r \in Roots
  BY <1>1 DEF SealInv
<1>3. root[r] \in RootRecords /\ root[r].rev + 1 \in Nat /\ "materializing" \in RootStates
  BY <1>2 DEF RegistryTypeOK, RootRecords, RootStates
<1>4. /\ root' \in [Roots -> RootRecords]
      /\ \A x \in Roots : x # r => root'[x] = root[x]
      /\ root'[r].state = "materializing" /\ root'[r].claim = root[r].claim
  <2>1. root'[r] = Moved(root[r], "materializing", None)
        /\ \A x \in Roots : x # r => root'[x] = root[x]
    BY <1>1, <1>2 DEF RegistryTypeOK
  <2>2. /\ root'[r] \in RootRecords
        /\ root'[r].state = "materializing" /\ root'[r].claim = root[r].claim
    BY <2>1, <1>3, RootMoves
  <2> QED  BY <2>1, <2>2, <1>1 DEF RegistryTypeOK
<1>5. seal' \in [Seals -> SealRecords] /\ SealInv'
  BY <1>1, <1>4, SealEnds
<1>6. RegistryTypeOK'
  BY <1>1, <1>4, <1>5 DEF RegistryTypeOK
<1>7. GrantInv' /\ ActionInv'
  BY <1>1 DEF GrantInv, ActionInv
<1> HIDE DEF r
<1>8. RootInv' /\ SourceInv' /\ QaInv'
  BY <1>1, <1>2, <1>4 DEF RootInv, SourceInv, QaInv
<1>9. EffectInv'
  BY <1>1, <1>4, EffectsKept
<1>10. UsedInv'
  BY <1>1, UsedKept
<1> QED  BY <1>5, <1>6, <1>7, <1>8, <1>9, <1>10

LEMMA CommitKeeps ==
  ASSUME RegistryInv, NEW s \in Seals, CommitCandidateSeal(s)
  PROVE  RegistryInv'
<1> DEFINE r == seal[s].root
<1> USE DEF RegistryInv
<1>1. /\ seal[s].stage = "inventoried" /\ root[r].state = "seal_pending" /\ root[r].seal = s
      /\ root' = [root EXCEPT ![r].state = "sealed", ![r].rev = @ + 1]
      /\ source' = [source EXCEPT ![r] = [state |-> "available", tx |-> None, open |-> TRUE]]
      /\ grant' = [g \in Grants |->
           IF grant[g].root # r THEN grant[g]
           ELSE [grant[g] EXCEPT !.open = FALSE,
                                 !.state = IF @ = "active" THEN "sealed" ELSE @]]
      /\ seal' = [seal EXCEPT ![s].stage = "consumed"]
      /\ UNCHANGED <<used, dispatched, action, effect, inflight, qa>>
  BY DEF CommitCandidateSeal, SealLease
<1>2. r \in Roots
  BY <1>1 DEF SealInv
<1>3. /\ root' \in [Roots -> RootRecords]
      /\ \A x \in Roots : x # r => root'[x] = root[x]
      /\ root'[r].state = "sealed" /\ root'[r].claim = root[r].claim
  <2>1. root[r] \in RootRecords
    BY <1>2 DEF RegistryTypeOK
  <2>2. root[r].rev + 1 \in Nat /\ "sealed" \in RootStates
    BY <2>1 DEF RootRecords, RootStates
  <2>3. /\ root'[r] = [root[r] EXCEPT !.state = "sealed", !.rev = @ + 1]
        /\ \A x \in Roots : x # r => root'[x] = root[x]
    BY <1>1, <1>2 DEF RegistryTypeOK
  <2>4. root'[r] \in RootRecords /\ root'[r].state = "sealed" /\ root'[r].claim = root[r].claim
    BY <2>1, <2>2, <2>3 DEF RootRecords
  <2> QED  BY <2>3, <2>4, <1>1 DEF RegistryTypeOK
<1>4. seal' \in [Seals -> SealRecords] /\ SealInv'
  BY <1>1, <1>3, SealEnds
<1> HIDE DEF r
<1>5. ASSUME NEW g \in Grants
      PROVE  /\ grant'[g] \in GrantRecords
             /\ grant'[g].root = grant[g].root
             /\ grant'[g].state = "none" <=> grant[g].state = "none"
             /\ grant[g].root = r => ~grant'[g].open /\ grant'[g].state # "active"
             /\ grant[g].root # r => grant'[g] = grant[g]
  BY <1>1, ZenonT(30) DEF RegistryTypeOK, GrantRecords
<1>6. grant' \in [Grants -> GrantRecords]
  BY <1>1, <1>5
<1>7. /\ source' \in [Roots -> SourceRecords]
      /\ source'[r] = [state |-> "available", tx |-> None, open |-> TRUE]
      /\ \A x \in Roots : x # r => source'[x] = source[x]
  BY <1>1, <1>2 DEF RegistryTypeOK, SourceRecords
<1>8. RegistryTypeOK'
  BY <1>1, <1>3, <1>4, <1>6, <1>7 DEF RegistryTypeOK
<1>9. GrantInv'
  <2>1. ASSUME NEW g \in Grants
        PROVE  /\ grant'[g].state = "none" => grant'[g] = NoGrant
               /\ grant'[g].state # "none" => grant'[g].root \in Roots
               /\ grant'[g].open <=> grant'[g].state = "active"
    <3>1. /\ grant[g].state = "none" => grant[g] = NoGrant
          /\ grant[g].state # "none" => grant[g].root \in Roots
          /\ grant[g].open <=> grant[g].state = "active"
      BY DEF GrantInv
    <3>2. grant[g].state = "none" => grant[g].root # r
      BY <3>1, <1>2, RegistryAssumption DEF NoGrant
    <3>3. CASE grant[g].root = r
      BY <3>1, <3>2, <3>3, <1>5
    <3>4. CASE grant[g].root # r
      BY <3>1, <3>4, <1>5
    <3> QED  BY <3>3, <3>4
  <2> QED  BY <2>1 DEF GrantInv
<1>10. RootInv'
  <2>1. ASSUME NEW x \in Roots
        PROVE  /\ root'[x].state \in {"none", "unclaimed"} => root'[x].claim = 0
               /\ root'[x].state \in {"sealed", "quarantined"} =>
                    \A g \in Grants : grant'[g].root = x => grant'[g].state # "active"
    BY <1>3, <1>5 DEF RootInv
  <2> QED  BY <2>1 DEF RootInv
<1>11. SourceInv'
  BY <1>3, <1>7 DEF SourceInv
<1>12. ActionInv'
  BY <1>1, <1>5 DEF ActionInv
<1>13. EffectInv'
  BY <1>1, <1>3, <1>5, EffectsKept
<1>14. UsedInv'
  BY <1>1, UsedKept
<1>15. QaInv'
  <2>1. \A t \in Transactions : qa[t].stage # "none" => qa[t].root # r
    <3>1. source[r].state = "none"
      BY <1>1, <1>2 DEF SourceInv
    <3> QED  BY <3>1 DEF QaInv
  <2> QED  BY <2>1, <1>1, <1>7 DEF QaInv
<1> QED  BY <1>4, <1>8, <1>9, <1>10, <1>11, <1>12, <1>13, <1>14, <1>15

LEMMA QuarantineSealKeeps ==
  ASSUME RegistryInv, NEW s \in Seals, QuarantineCandidateSeal(s)
  PROVE  RegistryInv'
<1> DEFINE r == seal[s].root
<1> USE DEF RegistryInv
<1>1. /\ seal[s].stage # "none"
      /\ Quarantinable(r) /\ QuarantineRoot(r)
      /\ inflight' = [inflight EXCEPT ![r] = {}]
      /\ seal' = [seal EXCEPT ![s].stage = "consumed"]
      /\ UNCHANGED <<used, dispatched, action, effect, source, qa>>
  BY DEF QuarantineCandidateSeal
<1>2. r \in Roots
  BY <1>1 DEF SealInv
<1>3. /\ seal' \in [Seals -> SealRecords]
      /\ \A z \in Seals : z # s => seal'[z] = seal[z]
      /\ seal'[s].root = r /\ seal'[s].grant = seal[s].grant
  BY <1>1 DEF RegistryTypeOK, SealRecords
<1>4. SealInv'
  <2>1. \A z \in Seals :
            \/ seal'[z] = seal[z]
            \/ /\ seal[z].root = r /\ seal[z].stage # "none"
               /\ seal'[z].root = r /\ seal'[z].grant = seal[z].grant
    BY <1>1, <1>3
  <2> QED  BY <2>1, <1>1, <1>2, <1>3, QuarantineSeals
<1> HIDE DEF r
<1>5. root' \in [Roots -> RootRecords] /\ grant' \in [Grants -> GrantRecords]
  BY <1>1, <1>2, QuarantineFacts
<1>6. inflight' \in [Roots -> SUBSET Dispatches]
  BY <1>1 DEF RegistryTypeOK
<1>7. RegistryTypeOK'
  BY <1>1, <1>3, <1>5, <1>6 DEF RegistryTypeOK
<1>8. GrantInv' /\ RootInv' /\ SourceInv' /\ ActionInv' /\ QaInv'
  BY <1>1, <1>2, QuarantineKeeps
<1>9. EffectInv'
  <2>1. UNCHANGED <<action, dispatched>> /\ \A b \in Actions : effect'[b] = effect[b]
    BY <1>1
  <2> QED  BY <2>1, <1>1, <1>2, QuarantineEffects
<1>10. UsedInv'
  BY <1>1, UsedKept
<1> QED  BY <1>4, <1>7, <1>8, <1>9, <1>10

-----------------------------------------------------------------------------
\* The QA source

\* What a step of the source leaves alone.
LEMMA SourceStepKeeps ==
  ASSUME RegistryInv,
         UNCHANGED <<root, grant, used, dispatched, action, effect, inflight, seal>>
  PROVE  GrantInv' /\ RootInv' /\ ActionInv' /\ EffectInv' /\ UsedInv' /\ SealInv'
<1>1. GrantInv' /\ RootInv' /\ ActionInv' /\ SealInv'
  BY DEF RegistryInv, GrantInv, RootInv, ActionInv, SealInv
<1>2. EffectInv'
  BY DEF RegistryInv, EffectInv, EffectRoot
<1>3. UsedInv'
  BY UsedKept DEF RegistryInv
<1> QED  BY <1>1, <1>2, <1>3

LEMMA ReserveKeeps ==
  ASSUME RegistryInv, NEW t \in Transactions, NEW r \in Roots, ReserveQaSource(t, r)
  PROVE  RegistryInv'
<1> USE DEF RegistryInv
<1>1. /\ qa[t].stage = "none" /\ root[r].state = "sealed" /\ source[r].tx = None
      /\ source[r].open
      /\ source' = [source EXCEPT ![r].state = "reserved", ![r].tx = t]
      /\ qa' = [qa EXCEPT ![t] = [stage |-> "reserved", root |-> r, rev |-> root[r].rev,
                                  end |-> "none"]]
      /\ UNCHANGED <<root, grant, used, dispatched, action, effect, inflight, seal>>
  BY DEF ReserveQaSource
<1>2. /\ source' \in [Roots -> SourceRecords]
      /\ source'[r].state = "reserved" /\ source'[r].tx = t /\ source'[r].open
      /\ \A x \in Roots : x # r => source'[x] = source[x]
  BY <1>1 DEF RegistryTypeOK, SourceRecords
<1>3. /\ qa' \in [Transactions -> LeaseRecords]
      /\ qa'[t].stage = "reserved" /\ qa'[t].root = r
      /\ \A u \in Transactions : u # t => qa'[u] = qa[u]
  <2>1. root[r].rev \in Nat
    BY DEF RegistryTypeOK, RootRecords
  <2> QED  BY <1>1, <2>1 DEF RegistryTypeOK, LeaseRecords
<1>4. RegistryTypeOK'
  BY <1>1, <1>2, <1>3 DEF RegistryTypeOK
<1>5. SourceInv'
  BY <1>1, <1>2 DEF SourceInv
<1>6. QaInv'
  <2>1. \A u \in Transactions : qa[u].stage # "none" => qa[u].root # r
    BY <1>1, RegistryAssumption DEF QaInv
  <2> QED  BY <2>1, <1>2, <1>3 DEF QaInv
<1> QED  BY <1>1, <1>4, <1>5, <1>6, SourceStepKeeps

\* A lease goes on with its source.
LEMMA LeaseMoves ==
  ASSUME RegistryInv, NEW t \in Transactions, qa[t].stage \in {"reserved", "in_use", "used"},
         NEW to \in {"in_use", "used", "consumed", "quarantined"},
         source' \in [Roots -> SourceRecords], qa' \in [Transactions -> LeaseRecords],
         source'[qa[t].root].state = to, source'[qa[t].root].tx = t,
         source'[qa[t].root].open <=> to \in {"in_use", "used"},
         \A x \in Roots : x # qa[t].root => source'[x] = source[x],
         qa'[t].root = qa[t].root,
         qa'[t].stage = IF to \in {"in_use", "used"} THEN to ELSE "finished",
         \A u \in Transactions : u # t => qa'[u] = qa[u],
         UNCHANGED <<root, grant, used, dispatched, action, effect, inflight, seal>>
  PROVE  RegistryInv'
<1> USE DEF RegistryInv
<1>1. RegistryTypeOK'
  BY DEF RegistryTypeOK
<1>2. qa[t].root \in Roots /\ source[qa[t].root].tx = t /\ source[qa[t].root].state # "none"
  BY DEF QaInv
<1>3. root[qa[t].root].state = "sealed"
  BY <1>2 DEF SourceInv
<1>4. SourceInv'
  BY <1>2, <1>3 DEF SourceInv
<1>5. QaInv'
  <2>1. \A u \in Transactions : u # t /\ qa[u].stage # "none" => qa[u].root # qa[t].root
    BY <1>2 DEF QaInv
  <2> QED  BY <1>2, <2>1 DEF QaInv
<1> QED  BY <1>1, <1>4, <1>5, SourceStepKeeps

LEMMA UseKeeps ==
  ASSUME RegistryInv, NEW t \in Transactions,
         \/ WithQaSource(t)
         \/ QaSourceUsed(t)
         \/ \E end \in {"consumed", "quarantined"} : FinishQaSource(t, end)
  PROVE  RegistryInv'
<1> USE DEF RegistryInv
<1>1. qa[t].stage \in {"reserved", "in_use", "used"}
  BY DEF WithQaSource, QaSourceUsed, FinishQaSource
<1>2. qa[t].root \in Roots /\ source[qa[t].root].tx = t /\ source[qa[t].root].state = qa[t].stage
  BY <1>1 DEF QaInv
<1>3. source[qa[t].root].open
  BY <1>1, <1>2 DEF SourceInv
<1>4. source[qa[t].root] \in SourceRecords /\ qa[t] \in LeaseRecords
  BY <1>2 DEF RegistryTypeOK
<1>5. CASE WithQaSource(t)
  <2>1. /\ source' = [source EXCEPT ![qa[t].root].state = "in_use"]
        /\ qa' = [qa EXCEPT ![t].stage = "in_use"]
        /\ UNCHANGED <<root, grant, used, dispatched, action, effect, inflight, seal>>
    BY <1>5 DEF WithQaSource
  <2>2. /\ source' \in [Roots -> SourceRecords]
        /\ source'[qa[t].root].state = "in_use" /\ source'[qa[t].root].tx = t
        /\ source'[qa[t].root].open
        /\ \A x \in Roots : x # qa[t].root => source'[x] = source[x]
    BY <2>1, <1>2, <1>3, <1>4 DEF RegistryTypeOK, SourceRecords
  <2>3. /\ qa' \in [Transactions -> LeaseRecords]
        /\ qa'[t].root = qa[t].root /\ qa'[t].stage = "in_use"
        /\ \A u \in Transactions : u # t => qa'[u] = qa[u]
    BY <2>1, <1>4 DEF RegistryTypeOK, LeaseRecords
  <2> QED  BY <2>1, <2>2, <2>3, <1>1, LeaseMoves
<1>6. CASE QaSourceUsed(t)
  <2>1. /\ source' = [source EXCEPT ![qa[t].root].state = "used"]
        /\ qa' = [qa EXCEPT ![t].stage = "used"]
        /\ UNCHANGED <<root, grant, used, dispatched, action, effect, inflight, seal>>
    BY <1>6 DEF QaSourceUsed
  <2>2. /\ source' \in [Roots -> SourceRecords]
        /\ source'[qa[t].root].state = "used" /\ source'[qa[t].root].tx = t
        /\ source'[qa[t].root].open
        /\ \A x \in Roots : x # qa[t].root => source'[x] = source[x]
    BY <2>1, <1>2, <1>3, <1>4 DEF RegistryTypeOK, SourceRecords
  <2>3. /\ qa' \in [Transactions -> LeaseRecords]
        /\ qa'[t].root = qa[t].root /\ qa'[t].stage = "used"
        /\ \A u \in Transactions : u # t => qa'[u] = qa[u]
    BY <2>1, <1>4 DEF RegistryTypeOK, LeaseRecords
  <2> QED  BY <2>1, <2>2, <2>3, <1>1, LeaseMoves
<1>7. CASE \E end \in {"consumed", "quarantined"} : FinishQaSource(t, end)
  <2>1. PICK end \in {"consumed", "quarantined"} : FinishQaSource(t, end)
    BY <1>7
  <2>2. /\ source' = [source EXCEPT ![qa[t].root].state = end, ![qa[t].root].open = FALSE]
        /\ qa' = [qa EXCEPT ![t].stage = "finished", ![t].end = end]
        /\ UNCHANGED <<root, grant, used, dispatched, action, effect, inflight, seal>>
    BY <2>1 DEF FinishQaSource
  <2>3. /\ source' \in [Roots -> SourceRecords]
        /\ source'[qa[t].root].state = end /\ source'[qa[t].root].tx = t
        /\ ~source'[qa[t].root].open
        /\ \A x \in Roots : x # qa[t].root => source'[x] = source[x]
    BY <2>2, <1>2, <1>4 DEF RegistryTypeOK, SourceRecords
  <2>4. /\ qa' \in [Transactions -> LeaseRecords]
        /\ qa'[t].root = qa[t].root /\ qa'[t].stage = "finished"
        /\ \A u \in Transactions : u # t => qa'[u] = qa[u]
    BY <2>2, <1>4 DEF RegistryTypeOK, LeaseRecords
  <2> QED  BY <2>2, <2>3, <2>4, <1>1, LeaseMoves, ZenonT(30)
<1> QED  BY <1>5, <1>6, <1>7

-----------------------------------------------------------------------------
\* The theorems

LEMMA RegistryInitInv == RegistryInit => RegistryInv
<1> SUFFICES ASSUME RegistryInit PROVE RegistryInv
  OBVIOUS
<1>1. RegistryTypeOK
  <2>1. /\ NoRoot \in RootRecords /\ NoGrant \in GrantRecords /\ NoAction \in ActionRecords
        /\ NoEffect \in EffectRecords /\ NoSeal \in SealRecords
        /\ NoSource \in SourceRecords /\ NoLease \in LeaseRecords
    BY DEF NoRoot, NoGrant, NoAction, NoEffect, NoSeal, NoSource, NoLease, RootRecords,
           GrantRecords, ActionRecords, EffectRecords, SealRecords, SourceRecords,
           LeaseRecords, RootStates
  <2>2. 0 \in 0..MaxEffects
    BY RegistryAssumption
  <2> QED  BY <2>1, <2>2 DEF RegistryInit, RegistryTypeOK
<1>2. GrantInv /\ RootInv /\ SourceInv /\ ActionInv /\ EffectInv /\ SealInv /\ QaInv
  BY DEF RegistryInit, GrantInv, RootInv, SourceInv, ActionInv, EffectInv, SealInv, QaInv,
         NoRoot, NoGrant, NoAction, NoEffect, NoSeal, NoSource, NoLease, LiveStages
<1>3. UsedInv
  <2>1. \A g \in Grants, n \in Generations : Begun(g, n) = {} /\ used[g][n] = 0
    BY DEF RegistryInit, Begun, NoEffect
  <2> QED  BY <2>1, FS_EmptySet DEF UsedInv
<1> QED  BY <1>1, <1>2, <1>3 DEF RegistryInv

LEMMA RegistryStep == RegistryInv /\ [RegistryNext]_registryVars => RegistryInv'
<1> SUFFICES ASSUME RegistryInv, [RegistryNext]_registryVars PROVE RegistryInv'
  OBVIOUS
<1>1. CASE GrantStep
  BY <1>1, MintKeeps, RevokeKeeps, ResolveKeeps DEF GrantStep
<1>2. CASE EffectStep
  <2>1. PICK a \in Actions :
          \/ BeginEffect(a)
          \/ EffectCreate(a) \/ EffectCreated(a) \/ CreatePanics(a)
          \/ EffectReadBack(a) \/ EffectRead(a) \/ ReadPanics(a)
          \/ QuarantineEffect(a)
    BY <1>2 DEF EffectStep
  <2>2. CASE BeginEffect(a) \/ QuarantineEffect(a)
    BY <2>2, BeginEffectKeeps, QuarantineEffectKeeps
  <2>3. CASE EffectCreate(a) \/ EffectReadBack(a)
    BY <2>3, DispatchKeeps DEF EffectCreate, EffectReadBack
  <2>4. CASE EffectCreated(a) \/ EffectRead(a)
    BY <2>4, ReturnKeeps DEF EffectCreated, EffectRead
  <2>5. CASE CreatePanics(a) \/ ReadPanics(a)
    BY <2>5, EffectPanicKeeps DEF CreatePanics, ReadPanics
  <2> QED  BY <2>1, <2>2, <2>3, <2>4, <2>5
<1>3. CASE SealStep
  BY <1>3, BeginSealKeeps, InventoryKeeps, InventoryPanicKeeps, AbortKeeps, CommitKeeps,
     QuarantineSealKeeps DEF SealStep
<1>4. CASE SourceStep
  BY <1>4, ReserveKeeps, UseKeeps DEF SourceStep
<1>5. CASE UNCHANGED registryVars
  <2>1. RegistryTypeOK' /\ GrantInv' /\ RootInv' /\ SourceInv' /\ ActionInv'
    BY <1>5 DEF registryVars, RegistryInv, RegistryTypeOK, GrantInv, RootInv, SourceInv, ActionInv
  <2>2. EffectInv' /\ UsedInv'
    BY <1>5 DEF registryVars, RegistryInv, EffectInv, UsedInv, EffectRoot, Begun
  <2>3. SealInv' /\ QaInv'
    BY <1>5 DEF registryVars, RegistryInv, SealInv, QaInv
  <2> QED  BY <2>1, <2>2, <2>3 DEF RegistryInv
<1> QED  BY <1>1, <1>2, <1>3, <1>4, <1>5 DEF RegistryNext

\* The registry keeps its invariant whatever is called in whatever order.
THEOREM RegistryInvariant == RegistrySpec => []RegistryInv
  BY RegistryInitInv, RegistryStep, PTL DEF RegistrySpec

\* No write or read-back of a provider runs on a root that is being sealed or
\* is sealed (begin_candidate_seal and with_provider_dispatch).
THEOREM RegistryNoEffectUnderSeal == RegistrySpec => []NoEffectUnderSeal
<1>1. RegistryInv => NoEffectUnderSeal
  BY DEF RegistryInv, EffectInv, NoEffectUnderSeal
<1> QED  BY <1>1, RegistryInvariant, PTL

\* A provider handle has one owner at any time (mint, revoke, quarantine_root,
\* commit_candidate_seal and finish_qa_source).
THEOREM RegistryHandlesOwned == RegistrySpec => []HandlesOwned
<1>1. RegistryInv => HandlesOwned
  <2> SUFFICES ASSUME RegistryInv PROVE HandlesOwned
    OBVIOUS
  <2>1. \A g \in Grants : grant[g].open <=> grant[g].state = "active"
    BY DEF RegistryInv, GrantInv
  <2>2. ASSUME NEW r \in Roots
        PROVE  /\ source[r].open <=> source[r].state \in {"available", "reserved", "in_use", "used"}
               /\ source[r].open => root[r].state = "sealed"
    BY DEF RegistryInv, SourceInv
  <2>3. ASSUME NEW r \in Roots, root[r].state \in {"sealed", "quarantined"}
        PROVE  ActiveGrants(r) = {}
    BY <2>3 DEF RegistryInv, RootInv, ActiveGrants, GrantsOf
  <2> QED  BY <2>1, <2>2, <2>3 DEF HandlesOwned
<1> QED  BY <1>1, RegistryInvariant, PTL

\* A root waiting for a seal is held by exactly one lease, which can still
\* end the wait (begin_candidate_seal and seal_lease_state).
THEOREM RegistryOneSealAtATime == RegistrySpec => []OneSealAtATime
<1>1. RegistryInv => OneSealAtATime
  <2> SUFFICES ASSUME RegistryInv, NEW r \in Roots
               PROVE  /\ root[r].state = "seal_pending" =>
                           LiveSeals(r) = {root[r].seal} /\ seal[root[r].seal].rev = root[r].rev
                      /\ LiveSeals(r) # {} => root[r].state \in {"seal_pending", "quarantined"}
    BY DEF OneSealAtATime
  <2>1. ASSUME root[r].state = "seal_pending"
        PROVE  LiveSeals(r) = {root[r].seal} /\ seal[root[r].seal].rev = root[r].rev
    BY <2>1 DEF RegistryInv, SealInv, LiveSeals, LiveStages
  <2>2. ASSUME LiveSeals(r) # {}
        PROVE  root[r].state \in {"seal_pending", "quarantined"}
    BY <2>2 DEF RegistryInv, SealInv, LiveSeals, LiveStages
  <2> QED  BY <2>1, <2>2
<1> QED  BY <1>1, RegistryInvariant, PTL

\* A sealed candidate is used by at most one QA transaction, ever
\* (reserve_qa_source).
THEOREM RegistrySourceUsedOnce == RegistrySpec => []SourceUsedOnce
<1>1. RegistryInv => SourceUsedOnce
  BY DEF RegistryInv, QaInv, SourceUsedOnce
<1> QED  BY <1>1, RegistryInvariant, PTL

\* Every write on a root is of the generation that claimed it, within the
\* bound of its grant (begin_effect and exact_action_grant).
THEOREM RegistryWritesOfOneGeneration == RegistrySpec => []WritesOfOneGeneration
<1>1. RegistryInv => WritesOfOneGeneration
  <2> SUFFICES ASSUME RegistryInv, NEW a \in Actions, effect[a].stage # "none"
               PROVE  /\ root[EffectRoot(a)].claim = action[a].gen
                      /\ Cardinality({b \in Actions : effect[b].stage # "none"
                                                      /\ action[b] = action[a]}) <= MaxEffects
    BY DEF WritesOfOneGeneration
  <2>1. root[EffectRoot(a)].claim = action[a].gen /\ action[a] # NoAction
    BY DEF RegistryInv, EffectInv
  <2>2. PICK g \in Grants, n \in Generations : action[a] = [grant |-> g, gen |-> n]
    BY <2>1, EffectRoots DEF RegistryInv, RegistryTypeOK, ActionRecords
  <2>3. Begun(g, n) = {b \in Actions : effect[b].stage # "none" /\ action[b] = action[a]}
    BY <2>2 DEF Begun
  <2>4. Cardinality(Begun(g, n)) = used[g][n] /\ used[g][n] \in 0..MaxEffects
    BY DEF RegistryInv, UsedInv, RegistryTypeOK
  <2> QED  BY <2>1, <2>3, <2>4, RegistryAssumption
<1> QED  BY <1>1, RegistryInvariant, PTL

\* What is for good in a step.
Final ==
  /\ \A r \in Roots :
       /\ root[r].claim # 0 => root'[r].claim = root[r].claim
       /\ root[r].state \in {"sealed", "quarantined"} => root'[r] = root[r]
  /\ \A t \in Transactions : qa[t].stage = "finished" => qa'[t] = qa[t]

\* A root changes by a claim or while it is open, and keeps its claim.
LEMMA RootsFinal ==
  ASSUME RegistryTypeOK, NEW r \in Roots, root[r].state \notin {"sealed", "quarantined"},
         \A x \in Roots : x # r => root'[x] = root[x],
         root[r].claim # 0 => root'[r].claim = root[r].claim,
         UNCHANGED qa
  PROVE  Final
  BY DEF Final

LEMMA QuarantineFinal ==
  ASSUME RegistryTypeOK, NEW r \in Roots, Quarantinable(r), QuarantineRoot(r), UNCHANGED qa
  PROVE  Final
  BY QuarantineFacts, RootsFinal DEF Quarantinable

LEMMA GrantFinal == RegistryInv /\ GrantStep => Final
<1> SUFFICES ASSUME RegistryInv, GrantStep PROVE Final
  OBVIOUS
<1>1. ASSUME NEW g \in Grants, NEW r \in Roots, NEW o \in Owners, Mint(g, r, o)
      PROVE  Final
  <2>1. CASE root[r].state = "none"
    <3>1. root[r].claim = 0 /\ UNCHANGED qa /\ \A x \in Roots : x # r => root'[x] = root[x]
      BY <1>1, <2>1 DEF Mint, RegistryInv, RootInv, RegistryTypeOK
    <3> QED  BY <3>1, <2>1, RootsFinal DEF RegistryInv
  <2>2. CASE root[r].state # "none"
    BY <1>1, <2>2 DEF Mint, Final, RegistryInv, RegistryTypeOK
  <2> QED  BY <2>1, <2>2
<1>2. ASSUME NEW g \in Grants, Revoke(g) PROVE Final
  BY <1>2 DEF Revoke, Final
<1>3. ASSUME NEW a \in Actions, NEW o \in Owners, NEW n \in Generations, Resolve(a, o, n)
      PROVE  Final
  BY <1>3 DEF Resolve, Final
<1> QED  BY <1>1, <1>2, <1>3 DEF GrantStep

LEMMA EffectFinal == RegistryInv /\ EffectStep => Final
<1> SUFFICES ASSUME RegistryInv, EffectStep PROVE Final
  OBVIOUS
<1>1. PICK a \in Actions :
        \/ BeginEffect(a)
        \/ EffectCreate(a) \/ EffectCreated(a) \/ CreatePanics(a)
        \/ EffectReadBack(a) \/ EffectRead(a) \/ ReadPanics(a)
        \/ QuarantineEffect(a)
  BY DEF EffectStep
<1>2. CASE BeginEffect(a)
  <2>1. action[a] # NoAction
    BY <1>2 DEF BeginEffect, ActionAllowed
  <2>2. EffectRoot(a) \in Roots /\ EffectRoot(a) = grant[action[a].grant].root
    BY <2>1, EffectRoots DEF EffectRoot
  <2>3. root[EffectRoot(a)].state \in {"unclaimed", "materializing"}
    BY <1>2, <2>2 DEF BeginEffect, ActionAllowed
  <2>4. \A x \in Roots : x # EffectRoot(a) => root'[x] = root[x]
    BY <1>2, <2>2 DEF BeginEffect, Consume, RegistryInv, RegistryTypeOK
  <2>5. root[EffectRoot(a)].claim # 0 => root'[EffectRoot(a)].claim = root[EffectRoot(a)].claim
    <3>1. CASE root[EffectRoot(a)].state = "unclaimed"
      BY <3>1, <2>2 DEF RegistryInv, RootInv
    <3>2. CASE root[EffectRoot(a)].state # "unclaimed"
      BY <3>2, <1>2, <2>2 DEF BeginEffect, Consume, RegistryInv, RegistryTypeOK
    <3> QED  BY <3>1, <3>2
  <2>6. UNCHANGED qa
    BY <1>2 DEF BeginEffect, Consume
  <2> QED  BY <2>2, <2>3, <2>4, <2>5, <2>6, RootsFinal DEF RegistryInv
<1>3. CASE EffectCreate(a) \/ EffectCreated(a) \/ EffectReadBack(a) \/ EffectRead(a)
  <2>1. UNCHANGED <<root, qa>>
    BY <1>3 DEF EffectCreate, EffectCreated, EffectReadBack, EffectRead, Dispatch, Return
  <2> QED  BY <2>1 DEF Final
<1>4. CASE CreatePanics(a) \/ ReadPanics(a)
  <2>1. PICK p \in {"creating", "reading"} : EffectPanic(a, p)
    BY <1>4 DEF CreatePanics, ReadPanics
  <2>2. effect[a].stage # "none" /\ Panic(EffectRoot(a), <<a, p>>) /\ UNCHANGED qa
    BY <2>1 DEF EffectPanic
  <2>3. EffectRoot(a) \in Roots
    BY <2>2, EffectRoots DEF RegistryInv, EffectInv
  <2>4. CASE Quarantinable(EffectRoot(a))
    BY <2>2, <2>3, <2>4, QuarantineFinal DEF Panic, RegistryInv
  <2>5. CASE ~Quarantinable(EffectRoot(a))
    BY <2>2, <2>5 DEF Panic, Final
  <2> QED  BY <2>4, <2>5
<1>5. CASE QuarantineEffect(a)
  <2>1. effect[a].stage # "none" /\ Quarantinable(EffectRoot(a)) /\ QuarantineRoot(EffectRoot(a))
        /\ UNCHANGED qa
    BY <1>5 DEF QuarantineEffect
  <2>2. EffectRoot(a) \in Roots
    BY <2>1, EffectRoots DEF RegistryInv, EffectInv
  <2> QED  BY <2>1, <2>2, QuarantineFinal DEF RegistryInv
<1> QED  BY <1>1, <1>2, <1>3, <1>4, <1>5

LEMMA SealFinal == RegistryInv /\ SealStep => Final
<1> SUFFICES ASSUME RegistryInv, SealStep PROVE Final
  OBVIOUS
<1>1. PICK s \in Seals :
        \/ \E r \in Roots, g \in Grants : BeginCandidateSeal(s, r, g)
        \/ InventoryCandidate(s) \/ CandidateInventoried(s) \/ InventoryPanics(s)
        \/ AbortCandidateSeal(s) \/ CommitCandidateSeal(s) \/ QuarantineCandidateSeal(s)
  BY DEF SealStep
<1>2. seal[s].stage # "none" => seal[s].root \in Roots
  BY DEF RegistryInv, SealInv
<1>3. CASE \E r \in Roots, g \in Grants : BeginCandidateSeal(s, r, g)
  <2>1. PICK r \in Roots : root[r].state = "materializing" /\ UNCHANGED qa
                           /\ root' = [root EXCEPT ![r] = Moved(root[r], "seal_pending", s)]
    BY <1>3 DEF BeginCandidateSeal, TakeSeal
  <2>2. root[r] \in RootRecords /\ "seal_pending" \in RootStates
    BY DEF RegistryInv, RegistryTypeOK, RootStates
  <2>3. root'[r].claim = root[r].claim /\ \A x \in Roots : x # r => root'[x] = root[x]
    BY <2>1, <2>2, RootMoves DEF RegistryInv, RegistryTypeOK
  <2> QED  BY <2>1, <2>3, RootsFinal DEF RegistryInv
<1>4. CASE InventoryCandidate(s) \/ CandidateInventoried(s)
  BY <1>4 DEF InventoryCandidate, CandidateInventoried, Final
<1>5. CASE InventoryPanics(s)
  <2>1. seal[s].root \in Roots /\ Panic(seal[s].root, <<s, "inventorying">>) /\ UNCHANGED qa
    BY <1>2, <1>5 DEF InventoryPanics
  <2>2. CASE Quarantinable(seal[s].root)
    BY <2>1, <2>2, QuarantineFinal DEF Panic, RegistryInv
  <2>3. CASE ~Quarantinable(seal[s].root)
    BY <2>1, <2>3 DEF Panic, Final
  <2> QED  BY <2>2, <2>3
<1>6. CASE AbortCandidateSeal(s)
  <2>1. /\ seal[s].root \in Roots /\ root[seal[s].root].state = "seal_pending" /\ UNCHANGED qa
        /\ root' = [root EXCEPT ![seal[s].root] = Moved(root[seal[s].root], "materializing", None)]
    BY <1>2, <1>6 DEF AbortCandidateSeal, SealLease
  <2>2. root[seal[s].root] \in RootRecords /\ "materializing" \in RootStates
    BY <2>1 DEF RegistryInv, RegistryTypeOK, RootStates
  <2>3. /\ root'[seal[s].root].claim = root[seal[s].root].claim
        /\ \A x \in Roots : x # seal[s].root => root'[x] = root[x]
    BY <2>1, <2>2, RootMoves DEF RegistryInv, RegistryTypeOK
  <2> QED  BY <2>1, <2>3, RootsFinal DEF RegistryInv
<1>7. CASE CommitCandidateSeal(s)
  <2>1. /\ seal[s].root \in Roots /\ root[seal[s].root].state = "seal_pending" /\ UNCHANGED qa
        /\ root' = [root EXCEPT ![seal[s].root].state = "sealed", ![seal[s].root].rev = @ + 1]
    BY <1>2, <1>7 DEF CommitCandidateSeal, SealLease
  <2>2. /\ root'[seal[s].root].claim = root[seal[s].root].claim
        /\ \A x \in Roots : x # seal[s].root => root'[x] = root[x]
    BY <2>1 DEF RegistryInv, RegistryTypeOK, RootRecords
  <2> QED  BY <2>1, <2>2, RootsFinal DEF RegistryInv
<1>8. CASE QuarantineCandidateSeal(s)
  <2>1. /\ seal[s].root \in Roots /\ Quarantinable(seal[s].root)
        /\ QuarantineRoot(seal[s].root) /\ UNCHANGED qa
    BY <1>2, <1>8 DEF QuarantineCandidateSeal
  <2> QED  BY <2>1, QuarantineFinal DEF RegistryInv
<1> QED  BY <1>1, <1>3, <1>4, <1>5, <1>6, <1>7, <1>8

LEMMA SourceFinal == RegistryInv /\ SourceStep => Final
<1> SUFFICES ASSUME RegistryInv, SourceStep PROVE Final
  OBVIOUS
<1>1. UNCHANGED root
  BY DEF SourceStep, ReserveQaSource, WithQaSource, QaSourceUsed, FinishQaSource
<1>2. PICK t \in Transactions : /\ qa[t].stage # "finished"
                                /\ \A u \in Transactions : u # t => qa'[u] = qa[u]
  BY DEF SourceStep, ReserveQaSource, WithQaSource, QaSourceUsed, FinishQaSource, RegistryInv,
         RegistryTypeOK
<1> QED  BY <1>1, <1>2 DEF Final

\* The claim of a root, its closure and the disposition of a finished QA source
\* are for good (begin_effect, quarantine_root, commit_candidate_seal and
\* finish_qa_source).
THEOREM RegistryFinalForGood == RegistrySpec => FinalForGood
<1>1. RegistryInv /\ [RegistryNext]_registryVars => [Final]_registryVars
  BY GrantFinal, EffectFinal, SealFinal, SourceFinal DEF RegistryNext
<1>2. [][Final]_registryVars <=> FinalForGood
  BY PTL DEF Final, FinalForGood
<1> QED  BY <1>1, <1>2, RegistryInvariant, PTL DEF RegistrySpec

=============================================================================
