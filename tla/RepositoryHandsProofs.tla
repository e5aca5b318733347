----------------------- MODULE RepositoryHandsProofs -----------------------
(***************************************************************************)
(* Proofs about RepositoryHands.  Every step of a build Packet is a step   *)
(* of the registry or leaves it alone, so the registry's theorems hold of  *)
(* the Packet's work.  On top of them HandsInv follows one candidate from  *)
(* its artifacts to its verdict: which operation is in progress, what the  *)
(* source of the sealed root is worth then, and what the private grant and *)
(* the body may already say about it.                                      *)
(***************************************************************************)
EXTENDS RepositoryHands, RepositoryCapabilityProofs

\* The places an operation can be in.  A QA transaction holds the source from
\* its reservation to its disposition.
EffectPlaces == {"create", "creating", "read", "reading", "ambiguous", "malformed"}
SealPlaces == {"inventory", "inventorying", "compare", "unbounded", "unproven", "record"}
Holding == {"open", "preflight", "run", "postflight", "used", "finish"}

Jobs ==
  {NoJob} \cup [kind : {"effect"}, id : Actions, at : EffectPlaces]
          \cup [kind : {"seal"}, id : Seals, at : SealPlaces]
          \cup [kind : {"qa"}, id : {Body}, at : Holding \cup {"reserve", "settle", "record"}]
          \cup [kind : {"qa"}, id : {Witness}, at : Holding]

Trees ==
  [files : [Actions -> {"absent", "exact", "foreign", "unknown"}], extra : BOOLEAN]

PacketRecords == [living : BOOLEAN, drift : BOOLEAN]
Evidence == {"none", "attempted", "received", "accepted", "rejected", "broken", "complete"}
ClosingRecords ==
  [root : Roots \cup {None}, rev : Nat, tree : Trees, event : Roots \cup {None}]
CheckRecords ==
  [requested : BOOLEAN,
   grant : {"none", "running", "completed", "quarantined", "consumed_failed"},
   receipt : {"none", "accepted", "rejected", "failure"},
   outcome : {"none", "accepted", "rejected", "failure"},
   verdict : {"none", "accepted", "rejected"}]
TrialRecords ==
  [kind : {"none", "accepted", "rejected", "failure"},
   end : {"none", "consumed", "quarantined", "not_acquired"},
   loud : BOOLEAN, pre : Trees, post : Trees]

HandsTypeOK ==
  /\ disk \in [Roots -> Trees]
  /\ job \in Jobs
  /\ packet \in PacketRecords
  /\ work \in [Actions -> Evidence]
  /\ closing \in ClosingRecords
  /\ check \in CheckRecords
  /\ trial \in TrialRecords
  /\ runs \in Nat

\* A seal in progress has no event yet.  The event names a root that is
\* sealed for good, with exactly the artifacts in it, and ends the writing
\* and the sealing; without one nothing is tested.
ClosingInv ==
  /\ closing.event # None =>
       /\ root[closing.event].state = "sealed"
       /\ closing.tree = ExactTree
       /\ job.kind \notin {"seal", "effect"}
  /\ closing.event = None => check.grant = "none" /\ runs = 0 /\ job.kind # "qa"
  /\ (job.kind = "seal" /\ job.at = "record") =>
       /\ seal[job.id].root \in Roots
       /\ root[seal[job.id].root].state = "sealed"
       /\ source[seal[job.id].root].state = "available"
       /\ closing.tree = ExactTree

\* Accepted evidence is of a file that was read back; from the beginning of
\* a seal on, every artifact is complete for a living Packet.
WorkInv ==
  /\ \A a \in Actions : work[a] \in {"accepted", "complete"} => effect[a].stage = "read"
  /\ (job.kind = "seal" \/ closing.event # None) =>
       \A a \in Actions : effect[a].stage = "read" /\ (packet.living => work[a] = "complete")

\* The transaction a source names has reserved it.
TxInv ==
  \A r \in Roots, t \in Transactions :
    source[r].tx = t => qa[t].stage # "none" /\ qa[t].root = r

\* The result a transaction may conclude with.
TrialDone ==
  \/ /\ trial.kind \in {"accepted", "rejected"} /\ trial.end = "consumed"
     /\ trial.pre = ExactTree /\ trial.post = ExactTree /\ runs = 1
  \/ trial.kind = "failure" /\ trial.end \in {"consumed", "quarantined"}

\* What each place of a QA transaction knows.
StageInv ==
  job.kind = "qa" =>
    /\ job.at \in Holding => qa[job.id].root = closing.event
    /\ job.at = "reserve" => qa[Body].stage = "none"
    /\ job.at = "open" => qa[job.id].stage = "reserved" /\ runs = 0
    /\ job.at \in {"preflight", "run", "postflight", "used"} => qa[job.id].stage = "in_use"
    /\ job.at = "preflight" => runs = 0 /\ trial.end = "none"
    /\ job.at = "run" => runs = 0 /\ trial.pre = ExactTree /\ trial.end = "none"
    /\ job.at = "postflight" =>
         /\ trial.pre = ExactTree
         /\ \/ trial.kind \in {"accepted", "rejected"} /\ trial.end = "none" /\ runs = 1
            \/ trial.kind = "failure" /\ trial.end \in {"consumed", "quarantined"}
    /\ job.at \in {"used", "finish"} => TrialDone
    /\ job.at = "finish" => qa[job.id].stage = "used"
    /\ job.at = "settle" =>
         \/ TrialDone /\ source[closing.event].tx = Body /\ source[closing.event].state = trial.end
         \/ trial.kind = "failure" /\ trial.end = "not_acquired" /\ source[closing.event].tx # Body

\* The source of the sealed candidate: one run at most, and none while it is
\* to be had; outside a transaction it is to be had or closed.
CandidateInv ==
  /\ runs \in {0, 1}
  /\ closing.event # None /\ ~(job.kind = "qa" /\ job.at \in Holding) =>
       source[closing.event].state \in {"available", "consumed", "quarantined"}
  /\ closing.event # None /\ source[closing.event].state = "available" =>
       runs = 0 /\ (check.grant = "none" \/ (job.kind = "qa" /\ job.at = "reserve"))

\* The grant runs while the Body's transaction does; its receipt comes with
\* its end and tells the disposition of the source.
CheckInv ==
  /\ (check.grant = "running") <=> (job.kind = "qa" /\ job.id = Body /\ job.at # "record")
  /\ check.grant = "none" => qa[Body].stage = "none" /\ ~(job.kind = "qa" /\ job.id = Body)
  /\ check.grant \in {"none", "running"} => check.receipt = "none"
  /\ (check.grant \notin {"none", "running"} /\ job.kind = "qa") =>
       (job.id = Body /\ job.at = "record")
  /\ check.outcome \in {"none", check.receipt}
  /\ check.verdict \in {"none", check.outcome}
  /\ check.receipt # "none" =>
       /\ check.grant = "completed" <=> check.receipt # "failure"
       /\ check.grant = "quarantined" <=>
            source[closing.event].tx = Body /\ source[closing.event].state = "quarantined"
       /\ check.grant = "completed" =>
            /\ source[closing.event].tx = Body /\ source[closing.event].state = "consumed"
            /\ trial.pre = ExactTree /\ trial.post = ExactTree /\ runs = 1

HandsInv ==
  /\ HandsTypeOK /\ ClosingInv /\ WorkInv /\ TxInv /\ StageInv /\ CandidateInv /\ CheckInv

-----------------------------------------------------------------------------
\* Facts about operations and the registry

\* The places an action puts an operation in are places of an operation.
LEMMA JobPlaces ==
  /\ NoJob \in Jobs
  /\ \A a \in Actions, p \in EffectPlaces : [kind |-> "effect", id |-> a, at |-> p] \in Jobs
  /\ \A s \in Seals, p \in SealPlaces : [kind |-> "seal", id |-> s, at |-> p] \in Jobs
  /\ \A t \in {Body, Witness}, p \in Holding : [kind |-> "qa", id |-> t, at |-> p] \in Jobs
  /\ \A p \in {"reserve", "settle", "record"} : [kind |-> "qa", id |-> Body, at |-> p] \in Jobs
  BY DEF Jobs

\* An operation of QA is one of the two transactions.
LEMMA JobKinds ==
  ASSUME job \in Jobs
  PROVE  /\ job.kind = "qa" => job.id \in {Body, Witness} /\ job.id \in Transactions
         /\ (job.kind = "qa" /\ job.at \notin Holding) => job.id = Body
         /\ job.kind \in {"none", "effect", "seal", "qa"}
         /\ job.kind = "none" => job = NoJob
         /\ job.kind = "seal" => job.id \in Seals
  BY HandsAssumption DEF Jobs, NoJob, Holding

\* A file that was read back stays so: its action was dispatched and is not
\* dispatched again.
LEMMA ReadKept ==
  ASSUME RegistryInv, [RegistryNext]_registryVars, NEW a \in Actions, effect[a].stage = "read"
  PROVE  effect'[a].stage = "read"
<1>1. a \in dispatched[action[a].grant]
  BY DEF RegistryInv, EffectInv
<1>2. ASSUME NEW b \in Actions, BeginEffect(b)
      PROVE  effect'[a] = effect[a]
  BY <1>1, <1>2 DEF BeginEffect, Consume, RegistryInv, RegistryTypeOK
<1>3. ASSUME NEW b \in Actions,
             \/ EffectCreate(b) \/ EffectCreated(b) \/ CreatePanics(b)
             \/ EffectReadBack(b) \/ EffectRead(b) \/ ReadPanics(b)
             \/ QuarantineEffect(b)
      PROVE  effect'[a] = effect[a]
  BY <1>3 DEF EffectCreate, EffectCreated, CreatePanics, EffectReadBack, EffectRead, ReadPanics,
              QuarantineEffect, Dispatch, Return, EffectPanic, RegistryInv, RegistryTypeOK
<1>4. CASE EffectStep
  BY <1>2, <1>3, <1>4 DEF EffectStep
<1>5. CASE GrantStep
  BY <1>5 DEF GrantStep, Mint, Revoke, Resolve
<1>6. CASE SealStep
  BY <1>6 DEF SealStep, BeginCandidateSeal, TakeSeal, InventoryCandidate, CandidateInventoried,
              InventoryPanics, AbortCandidateSeal, CommitCandidateSeal, QuarantineCandidateSeal
<1>7. CASE SourceStep
  BY <1>7 DEF SourceStep, ReserveQaSource, WithQaSource, QaSourceUsed, FinishQaSource
<1>8. CASE UNCHANGED registryVars
  BY <1>8 DEF registryVars
<1> QED  BY <1>4, <1>5, <1>6, <1>7, <1>8 DEF RegistryNext

\* Without a step of a QA source, leases and the sources of sealed roots
\* keep as they are, and the only new source names no transaction.
QuietSources ==
  /\ UNCHANGED qa
  /\ \A r \in Roots : source'[r] = source[r] \/ source'[r].tx = None
  /\ \A r \in Roots : root[r].state = "sealed" => source'[r] = source[r]

LEMMA SourcesQuiet ==
  ASSUME RegistryInv, GrantStep \/ EffectStep \/ SealStep \/ UNCHANGED registryVars
  PROVE  QuietSources
<1>1. CASE GrantStep
  BY <1>1 DEF GrantStep, Mint, Revoke, Resolve, QuietSources
<1>2. CASE EffectStep
  <2>1. UNCHANGED <<source, qa>>
    BY <1>2 DEF EffectStep, BeginEffect, Consume, EffectCreate, EffectCreated, CreatePanics,
                EffectReadBack, EffectRead, ReadPanics, QuarantineEffect, Dispatch, Return,
                EffectPanic
  <2> QED  BY <2>1 DEF QuietSources
<1>3. CASE SealStep
  <2>1. PICK s \in Seals :
          \/ \E r \in Roots, g \in Grants : BeginCandidateSeal(s, r, g)
          \/ InventoryCandidate(s) \/ CandidateInventoried(s) \/ InventoryPanics(s)
          \/ AbortCandidateSeal(s) \/ CommitCandidateSeal(s) \/ QuarantineCandidateSeal(s)
    BY <1>3 DEF SealStep
  <2>2. CASE CommitCandidateSeal(s)
    <3>1. /\ seal[s].root \in Roots /\ root[seal[s].root].state = "seal_pending" /\ UNCHANGED qa
          /\ source' = [source EXCEPT ![seal[s].root] =
                          [state |-> "available", tx |-> None, open |-> TRUE]]
      BY <2>2 DEF CommitCandidateSeal, SealLease, RegistryInv, SealInv
    <3> QED  BY <3>1 DEF QuietSources, RegistryInv, RegistryTypeOK
  <2>3. CASE ~CommitCandidateSeal(s)
    <3>1. UNCHANGED <<source, qa>>
      BY <2>1, <2>3 DEF BeginCandidateSeal, TakeSeal, InventoryCandidate, CandidateInventoried,
                        InventoryPanics, AbortCandidateSeal, QuarantineCandidateSeal
    <3> QED  BY <3>1 DEF QuietSources
  <2> QED  BY <2>2, <2>3
<1>4. CASE UNCHANGED registryVars
  BY <1>4 DEF registryVars, QuietSources
<1> QED  BY <1>1, <1>2, <1>3, <1>4

\* A step of a QA source is a step of one lease on its root, and keeps the
\* names of sources and leases together.
LEMMA TxKept ==
  ASSUME RegistryInv, TxInv, [RegistryNext]_registryVars
  PROVE  TxInv'
<1>1. CASE QuietSources
  BY <1>1, RegistryAssumption DEF QuietSources, TxInv
<1>2. ASSUME NEW u \in Transactions, NEW q \in Roots, ReserveQaSource(u, q)
      PROVE  TxInv'
  <2> SUFFICES ASSUME NEW r \in Roots, NEW t \in Transactions, source'[r].tx = t
               PROVE  qa'[t].stage # "none" /\ qa'[t].root = r
    BY DEF TxInv
  <2>1. source[q].tx = None /\ qa[u].stage = "none"
    BY <1>2 DEF ReserveQaSource
  <2>2. qa'[u].stage = "reserved" /\ qa'[u].root = q /\ source'[q].tx = u
    BY <1>2 DEF ReserveQaSource, RegistryInv, RegistryTypeOK, SourceRecords
  <2>3. CASE r = q
    BY <2>2, <2>3
  <2>4. CASE r # q
    <3>1. source'[r] = source[r]
      BY <1>2, <2>4 DEF ReserveQaSource, RegistryInv, RegistryTypeOK
    <3>2. qa[t].stage # "none" /\ qa[t].root = r
      BY <3>1 DEF TxInv
    <3>3. t # u
      BY <3>2, <2>1
    <3>4. qa'[t] = qa[t]
      BY <1>2, <3>3 DEF ReserveQaSource, RegistryInv, RegistryTypeOK
    <3> QED  BY <3>2, <3>4
  <2> QED  BY <2>3, <2>4
<1>3. ASSUME NEW u \in Transactions,
             \/ WithQaSource(u) \/ QaSourceUsed(u)
             \/ \E end \in {"consumed", "quarantined"} : FinishQaSource(u, end)
      PROVE  TxInv'
  <2>1. PICK q \in {"in_use", "used", "consumed", "quarantined"} :
          \/ source' = [source EXCEPT ![qa[u].root].state = q]
          \/ source' = [source EXCEPT ![qa[u].root].state = q, ![qa[u].root].open = FALSE]
    BY <1>3 DEF WithQaSource, QaSourceUsed, FinishQaSource
  <2>2. ASSUME NEW r \in Roots PROVE source'[r].tx = source[r].tx
    <3>1. source \in [Roots -> SourceRecords] /\ source[r] \in SourceRecords
      BY DEF RegistryInv, RegistryTypeOK
    <3>2. CASE r = qa[u].root
      BY <2>1, <3>1, <3>2 DEF SourceRecords
    <3>3. CASE r # qa[u].root
      BY <2>1, <3>1, <3>3
    <3> QED  BY <3>2, <3>3
  <2>3. PICK p \in {"in_use", "used", "finished"}, e \in {"consumed", "quarantined"} :
          \/ qa' = [qa EXCEPT ![u].stage = p]
          \/ qa' = [qa EXCEPT ![u].stage = p, ![u].end = e]
    BY <1>3 DEF WithQaSource, QaSourceUsed, FinishQaSource
  <2>4. ASSUME NEW t \in Transactions
        PROVE  qa'[t].root = qa[t].root /\ (qa[t].stage # "none" => qa'[t].stage # "none")
    <3>1. qa \in [Transactions -> LeaseRecords] /\ qa[t] \in LeaseRecords
      BY DEF RegistryInv, RegistryTypeOK
    <3>2. CASE t = u
      BY <2>3, <3>1, <3>2 DEF LeaseRecords
    <3>3. CASE t # u
      BY <2>3, <3>1, <3>3
    <3> QED  BY <3>2, <3>3
  <2> QED  BY <2>2, <2>4 DEF TxInv
<1>4. CASE SourceStep
  BY <1>2, <1>3, <1>4 DEF SourceStep
<1> QED  BY <1>1, <1>4, SourcesQuiet DEF RegistryNext

-----------------------------------------------------------------------------
\* The registry under the Packet

\* Work on artifacts and on the seal touches the registry by its own steps.
LEMMA EffectRefines ==
  ASSUME NEW a \in Actions, EffectWork(a)
  PROVE  GrantStep \/ EffectStep \/ UNCHANGED registryVars
<1>1. CASE Authorize(a)
  BY <1>1 DEF Authorize, GrantStep
<1>2. CASE ExecuteEffect(a)
  BY <1>2 DEF ExecuteEffect, EffectStep
<1>3. CASE EffectRefused(a) \/ CompleteWork(a)
  BY <1>3 DEF EffectRefused, CompleteWork
<1>4. CASE CallProvider(a)
  BY <1>4 DEF CallProvider, EffectStep
<1>5. CASE Created(a) \/ ReadBack(a)
  BY <1>5 DEF Created, ReadBack, EffectStep, EffectCreated, EffectRead
<1>6. CASE CloseRoot(a)
  BY <1>6 DEF CloseRoot, EffectStep
<1>7. ASSUME NEW phase \in {"creating", "reading"},
             \/ ProviderFails(a, phase) \/ ProviderAmbiguous(a, phase)
             \/ ProviderMalformed(a, phase) \/ ProviderContract(a, phase)
      PROVE  EffectStep
  BY <1>7 DEF ProviderFails, ProviderAmbiguous, ProviderMalformed, ProviderContract, EffectStep,
              EffectCreated, EffectRead
<1>8. ASSUME NEW phase \in {"creating", "reading"}, ProviderPanics(a, phase)
      PROVE  EffectStep
  BY <1>8 DEF ProviderPanics, EffectStep, CreatePanics, ReadPanics
<1> QED  BY <1>1, <1>2, <1>3, <1>4, <1>5, <1>6, <1>7, <1>8 DEF EffectWork

LEMMA SealRefines ==
  ASSUME HandsTypeOK, SealWork
  PROVE  SealStep \/ UNCHANGED registryVars
<1>1. CASE PrepareSeal
  BY <1>1 DEF PrepareSeal
<1>2. ASSUME NEW s \in Seals, ExecuteSeal(s) PROVE SealStep
  <2>1. closing.root \in Roots
    BY <1>2 DEF ExecuteSeal, HandsTypeOK, ClosingRecords
  <2> QED  BY <1>2, <2>1 DEF ExecuteSeal, SealStep
<1>3. ASSUME NEW s \in Seals, RecordSeal(s) PROVE UNCHANGED registryVars
  BY <1>3 DEF RecordSeal
<1>4. ASSUME NEW s \in Seals,
             \/ CallInventory(s) \/ TreeObserved(s) \/ TreeNotObserved(s)
             \/ SealPanics(s) \/ SealAborts(s) \/ SealQuarantines(s) \/ SealCommits(s)
      PROVE  SealStep
  BY <1>4 DEF CallInventory, TreeObserved, TreeNotObserved, SealPanics, SealAborts,
              SealQuarantines, SealCommits, SealStep
<1> QED  BY <1>1, <1>2, <1>3, <1>4 DEF SealWork

LEMMA QaRefines ==
  ASSUME HandsInv, QaWork
  PROVE  SourceStep \/ UNCHANGED registryVars
<1>1. CASE ReserveSource \/ ExecuteWitness
  <2>1. closing.event \in Roots
    <3>1. closing.event # None
      BY <1>1 DEF ReserveSource, ExecuteWitness, Aligned, At, HandsInv, ClosingInv
    <3> QED  BY <3>1 DEF HandsInv, HandsTypeOK, ClosingRecords
  <2> QED  BY <1>1, <2>1, HandsAssumption DEF ReserveSource, ExecuteWitness, SourceStep
<1>2. ASSUME NEW t \in {Body, Witness}, OpenSource(t) \/ SourceUsed(t)
      PROVE  SourceStep
  BY <1>2, HandsAssumption DEF OpenSource, SourceUsed, SourceStep
<1>3. ASSUME NEW t \in {Body, Witness}, FinishSource(t)
      PROVE  SourceStep
  <2>1. trial.end \in {"consumed", "quarantined"}
    BY <1>3 DEF FinishSource, At, HandsInv, StageInv, TrialDone
  <2> QED  BY <1>3, <2>1, HandsAssumption DEF FinishSource, SourceStep
<1>4. ASSUME NEW t \in {Body, Witness}, Preflight(t) \/ RunCandidate(t) \/ Postflight(t)
      PROVE  UNCHANGED registryVars
  BY <1>4 DEF Preflight, RunCandidate, Postflight
<1>5. ASSUME \/ ExecuteQa \/ ExecuteQaLater \/ SourceDenied \/ Settle \/ SettleRefused
             \/ RecordOutcome \/ CommitVerdict
      PROVE  UNCHANGED registryVars
  BY <1>5 DEF ExecuteQa, ExecuteQaLater, SourceDenied, Settle, SettleRefused, RecordOutcome,
              CommitVerdict
<1> QED  BY <1>1, <1>2, <1>3, <1>4, <1>5 DEF QaWork

LEMMA HandsStepRefines ==
  ASSUME HandsInv, [HandsNext]_allVars
  PROVE  [RegistryNext]_registryVars
<1>1. CASE Host
  BY <1>1 DEF Host, RegistryNext, GrantStep
<1>2. CASE Tamper \/ Drift \/ QuarantineEnvironment
  BY <1>2 DEF Tamper, Drift, QuarantineEnvironment
<1>3. CASE \E a \in Actions : EffectWork(a)
  BY <1>3, EffectRefines DEF RegistryNext
<1>4. CASE SealWork
  BY <1>4, SealRefines DEF RegistryNext, HandsInv
<1>5. CASE QaWork
  BY <1>5, QaRefines DEF RegistryNext
<1>6. CASE UNCHANGED allVars
  BY <1>6 DEF allVars
<1> QED  BY <1>1, <1>2, <1>3, <1>4, <1>5, <1>6 DEF HandsNext

-----------------------------------------------------------------------------
\* Types

\* One entry of a tree changes.
LEMMA DiskKept ==
  ASSUME disk \in [Roots -> Trees], NEW r \in Roots,
         \/ UNCHANGED disk
         \/ disk' = [disk EXCEPT ![r].extra = ~@]
         \/ \E a \in Actions, c \in {"absent", "exact", "foreign"} :
              disk' = [disk EXCEPT ![r].files[a] = c]
  PROVE  disk' \in [Roots -> Trees]
<1>1. disk[r] \in Trees
  OBVIOUS
<1>2. CASE disk' = [disk EXCEPT ![r].extra = ~@]
  <2>1. [disk[r] EXCEPT !.extra = ~@] \in Trees
    BY <1>1 DEF Trees
  <2> QED  BY <1>2, <2>1
<1>3. ASSUME NEW a \in Actions, NEW c \in {"absent", "exact", "foreign"},
             disk' = [disk EXCEPT ![r].files[a] = c]
      PROVE  disk' \in [Roots -> Trees]
  <2>1. [disk[r] EXCEPT !.files[a] = c] \in Trees
    BY <1>1 DEF Trees
  <2> QED  BY <1>3, <2>1
<1> QED  BY <1>2, <1>3

\* The root of an artifact whose effect has begun is a root.
LEMMA EffectOnRoot ==
  ASSUME RegistryInv, NEW a \in Actions, effect[a].stage # "none"
  PROVE  EffectRoot(a) \in Roots
  BY EffectRoots DEF RegistryInv, EffectInv

LEMMA EffectTypes ==
  ASSUME RegistryInv, HandsTypeOK, NEW a \in Actions, EffectWork(a)
  PROVE  HandsTypeOK'
<1>0. \A x \in {"attempted", "received", "accepted", "rejected", "broken", "complete"} :
        [work EXCEPT ![a] = x] \in [Actions -> Evidence]
  BY DEF HandsTypeOK, Evidence
<1>01. [packet EXCEPT !.living = FALSE] \in PacketRecords
  BY DEF HandsTypeOK, PacketRecords
<1>02. /\ NoJob \in Jobs
       /\ \A p \in EffectPlaces : [kind |-> "effect", id |-> a, at |-> p] \in Jobs
  BY JobPlaces
<1>1. CASE Authorize(a)
  BY <1>1 DEF Authorize, handsVars, HandsTypeOK
<1>2. CASE ExecuteEffect(a)
  BY <1>0, <1>02, <1>2 DEF ExecuteEffect, GoTo, HandsTypeOK, EffectPlaces
<1>3. CASE EffectRefused(a)
  BY <1>0, <1>01, <1>02, <1>3 DEF EffectRefused, Fails, HandsTypeOK
<1>4. CASE CompleteWork(a)
  BY <1>0, <1>4 DEF CompleteWork, HandsTypeOK
<1>5. CASE CallProvider(a)
  BY <1>02, <1>5 DEF CallProvider, GoTo, HandsTypeOK, EffectPlaces
<1>6. CASE CloseRoot(a)
  BY <1>01, <1>02, <1>6 DEF CloseRoot, Fails, Loud, HandsTypeOK
<1>7. CASE ReadBack(a)
  BY <1>0, <1>02, <1>7 DEF ReadBack, Done, Loud, HandsTypeOK
<1>8. CASE Created(a)
  <2>1. EffectRoot(a) \in Roots
    BY <1>8, EffectOnRoot DEF Created, Return
  <2>2. disk' \in [Roots -> Trees]
    BY <1>8, <2>1, DiskKept DEF Created, Published, HandsTypeOK
  <2> QED  BY <1>0, <1>02, <1>8, <2>2 DEF Created, GoTo, Loud, HandsTypeOK, EffectPlaces
<1>9. ASSUME NEW phase \in {"creating", "reading"},
             \/ ProviderFails(a, phase) \/ ProviderAmbiguous(a, phase)
             \/ ProviderMalformed(a, phase) \/ ProviderContract(a, phase)
             \/ ProviderPanics(a, phase)
      PROVE  HandsTypeOK'
  <2>1. EffectRoot(a) \in Roots
    BY <1>9, EffectOnRoot DEF ProviderFails, ProviderAmbiguous, ProviderMalformed,
                              ProviderContract, ProviderPanics, Return, EffectPanic
  <2>2. disk' \in [Roots -> Trees]
    BY <1>9, <2>1, DiskKept DEF ProviderFails, ProviderAmbiguous, ProviderMalformed,
       ProviderContract, ProviderPanics, MaybePublished, Published, HandsTypeOK
  <2>3. CASE ProviderFails(a, phase)
    BY <1>01, <1>02, <2>2, <2>3 DEF ProviderFails, Fails, HandsTypeOK
  <2>4. CASE ProviderAmbiguous(a, phase)
    BY <1>02, <2>2, <2>4 DEF ProviderAmbiguous, GoTo, HandsTypeOK, EffectPlaces
  <2>5. CASE ProviderMalformed(a, phase)
    BY <1>0, <1>02, <2>2, <2>5 DEF ProviderMalformed, GoTo, HandsTypeOK, EffectPlaces
  <2>6. CASE ProviderContract(a, phase) \/ ProviderPanics(a, phase)
    BY <1>0, <1>02, <2>2, <2>6 DEF ProviderContract, ProviderPanics, Loud, HandsTypeOK
  <2> QED  BY <1>9, <2>3, <2>4, <2>5, <2>6
<1> QED  BY <1>1, <1>2, <1>3, <1>4, <1>5, <1>6, <1>7, <1>8, <1>9 DEF EffectWork

LEMMA SealTypes ==
  ASSUME RegistryInv, HandsTypeOK, SealWork
  PROVE  HandsTypeOK'
<1>02. ASSUME NEW s \in Seals
       PROVE  NoJob \in Jobs /\ \A p \in SealPlaces : [kind |-> "seal", id |-> s, at |-> p] \in Jobs
  BY JobPlaces
<1>1. CASE PrepareSeal
  <2>1. \A r \in Roots : root[r].rev \in Nat
    BY DEF RegistryInv, RegistryTypeOK, RootRecords
  <2>2. PICK r \in Roots : closing' = [closing EXCEPT !.root = r, !.rev = root[r].rev]
    BY <1>1 DEF PrepareSeal
  <2>3. closing' \in ClosingRecords
    BY <2>1, <2>2 DEF HandsTypeOK, ClosingRecords
  <2> QED  BY <1>1, <2>3 DEF PrepareSeal, HandsTypeOK
<1>2. ASSUME NEW s \in Seals, ExecuteSeal(s) \/ CallInventory(s) \/ SealCommits(s)
      PROVE  HandsTypeOK'
  BY <1>02, <1>2 DEF ExecuteSeal, CallInventory, SealCommits, GoTo, HandsTypeOK, SealPlaces
<1>3. ASSUME NEW s \in Seals, TreeObserved(s)
      PROVE  HandsTypeOK'
  <2>1. seal[s].root \in Roots
    BY <1>3 DEF TreeObserved, CandidateInventoried, RegistryInv, SealInv
  <2>2. closing' \in ClosingRecords
    BY <1>3, <2>1 DEF TreeObserved, HandsTypeOK, ClosingRecords
  <2> QED  BY <1>02, <1>3, <2>2 DEF TreeObserved, GoTo, HandsTypeOK, SealPlaces
<1>4. ASSUME NEW s \in Seals, TreeNotObserved(s)
      PROVE  HandsTypeOK'
  BY <1>02, <1>4 DEF TreeNotObserved, GoTo, HandsTypeOK, SealPlaces
<1>5. ASSUME NEW s \in Seals, SealPanics(s) \/ SealAborts(s) \/ SealQuarantines(s)
      PROVE  HandsTypeOK'
  BY <1>02, <1>5 DEF SealPanics, SealAborts, SealQuarantines, Done, Loud, HandsTypeOK
<1>6. ASSUME NEW s \in Seals, RecordSeal(s)
      PROVE  HandsTypeOK'
  <2>1. seal[s].root \in Roots \cup {None}
    BY DEF RegistryInv, RegistryTypeOK, SealRecords
  <2>2. [closing EXCEPT !.event = seal[s].root] \in ClosingRecords
    BY <2>1 DEF HandsTypeOK, ClosingRecords
  <2> QED  BY <1>02, <1>6, <2>2 DEF RecordSeal, Done, Loud, HandsTypeOK
<1> QED  BY <1>1, <1>2, <1>3, <1>4, <1>5, <1>6 DEF SealWork

\* The event names a root while QA works.
LEMMA EventRoot ==
  ASSUME HandsInv, closing.event # None \/ job.kind = "qa"
  PROVE  closing.event \in Roots
  BY DEF HandsInv, ClosingInv, HandsTypeOK, ClosingRecords

\* The changes of a check and of a trial are typed.
LEMMA QaRecords ==
  ASSUME HandsTypeOK
  PROVE  /\ NoTrial \in TrialRecords
         /\ [NoTrial EXCEPT !.kind = "failure", !.end = "not_acquired"] \in TrialRecords
         /\ \A k \in {"accepted", "rejected"} : [trial EXCEPT !.kind = k] \in TrialRecords
         /\ \A e \in {"consumed", "quarantined"} :
              [trial EXCEPT !.kind = "failure", !.end = e] \in TrialRecords
         /\ \A e \in {"consumed", "quarantined"}, l \in BOOLEAN :
              [trial EXCEPT !.kind = "failure", !.end = e, !.loud = l] \in TrialRecords
         /\ \A x \in Trees : [trial EXCEPT !.pre = x] \in TrialRecords
         /\ \A x \in Trees :
              [trial EXCEPT !.post = x, !.end = IF @ = "none" THEN "consumed" ELSE @]
                \in TrialRecords
         /\ [packet EXCEPT !.living = FALSE] \in PacketRecords
<1>1. NoTrial \in TrialRecords
  BY DEF NoTrial, NoTree, Trees, TrialRecords
<1>2. trial \in TrialRecords /\ packet \in PacketRecords
  BY DEF HandsTypeOK
<1> QED  BY <1>1, <1>2 DEF TrialRecords, PacketRecords

LEMMA QaTypes ==
  ASSUME HandsInv, QaWork
  PROVE  HandsTypeOK'
<1>0. HandsTypeOK
  BY DEF HandsInv
<1>02. /\ NoJob \in Jobs
       /\ \A t \in {Body, Witness}, p \in Holding : [kind |-> "qa", id |-> t, at |-> p] \in Jobs
       /\ [kind |-> "qa", id |-> Body, at |-> "reserve"] \in Jobs
       /\ [kind |-> "qa", id |-> Body, at |-> "settle"] \in Jobs
       /\ [kind |-> "qa", id |-> Body, at |-> "record"] \in Jobs
  BY JobPlaces
<1>2. CASE ExecuteQa
  <2>1. check' \in CheckRecords
    BY <1>0, <1>2 DEF ExecuteQa, HandsTypeOK, CheckRecords
  <2> QED  BY <1>0, <1>02, <1>2, <2>1 DEF ExecuteQa, GoTo, HandsTypeOK
<1>3. CASE ExecuteQaLater
  BY <1>0, <1>02, <1>3, QaRecords DEF ExecuteQaLater, Fails, Done, HandsTypeOK, CheckRecords
<1>4. CASE ReserveSource \/ ExecuteWitness
  BY <1>0, <1>02, <1>4 DEF ReserveSource, ExecuteWitness, GoTo, HandsTypeOK, Holding
<1>5. CASE SourceDenied
  <2>1. trial' \in TrialRecords
    BY <1>0, <1>5, QaRecords DEF SourceDenied
  <2> QED  BY <1>0, <1>02, <1>5, <2>1 DEF SourceDenied, GoTo, HandsTypeOK
<1>6. ASSUME NEW t \in {Body, Witness}, OpenSource(t)
      PROVE  HandsTypeOK'
  BY <1>0, <1>02, <1>6, QaRecords DEF OpenSource, GoTo, HandsTypeOK, Holding
<1>7. ASSUME NEW t \in {Body, Witness}, Preflight(t) \/ Postflight(t)
      PROVE  HandsTypeOK'
  <2>0. At("qa", t, "preflight") \/ At("qa", t, "postflight")
    BY <1>7 DEF Preflight, Postflight
  <2>1. closing.event \in Roots
    BY <2>0, EventRoot DEF At
  <2>2. disk[closing.event] \in Trees
    BY <1>0, <2>1 DEF HandsTypeOK
  <2>3. trial' \in TrialRecords
    BY <1>0, <1>7, <2>2, QaRecords DEF Preflight, Postflight, Concludes
  <2>4. job' \in Jobs
    BY <1>02, <1>7 DEF Preflight, Postflight, Concludes, GoTo, Holding
  <2> QED  BY <1>0, <1>7, <2>3, <2>4 DEF Preflight, Postflight, HandsTypeOK
<1>8. ASSUME NEW t \in {Body, Witness}, RunCandidate(t)
      PROVE  HandsTypeOK'
  <2>1. trial' \in TrialRecords
    BY <1>0, <1>8, QaRecords DEF RunCandidate, Concludes
  <2>2. job' \in Jobs /\ runs' \in {runs, runs + 1}
    BY <1>02, <1>8 DEF RunCandidate, Concludes, GoTo, Holding
  <2>3. runs' \in Nat
    BY <1>0, <2>2 DEF HandsTypeOK
  <2> QED  BY <1>0, <1>8, <2>1, <2>2, <2>3 DEF RunCandidate, HandsTypeOK
<1>9. ASSUME NEW t \in {Body, Witness}, SourceUsed(t)
      PROVE  HandsTypeOK'
  BY <1>0, <1>02, <1>9 DEF SourceUsed, GoTo, HandsTypeOK, Holding
<1>10. ASSUME NEW t \in {Body, Witness}, FinishSource(t)
       PROVE  HandsTypeOK'
  <2>1. check' \in CheckRecords
    BY <1>0, <1>10 DEF FinishSource, HandsTypeOK, CheckRecords
  <2>2. job' \in Jobs /\ packet' \in PacketRecords
    BY <1>0, <1>02, <1>10 DEF FinishSource, GoTo, Done, Loud, HandsTypeOK
  <2> QED  BY <1>0, <1>10, <2>1, <2>2 DEF FinishSource, HandsTypeOK
<1>11. CASE Settle
  <2>1. trial.kind \in {"accepted", "rejected", "failure"}
    BY <1>11 DEF Settle, At, HandsInv, StageInv, TrialDone
  <2>2. check' \in CheckRecords
    BY <1>0, <1>11, <2>1 DEF Settle, HandsTypeOK, CheckRecords
  <2> QED  BY <1>0, <1>02, <1>11, <2>2 DEF Settle, GoTo, HandsTypeOK
<1>12. CASE SettleRefused
  BY <1>0, <1>02, <1>12 DEF SettleRefused, Loud, HandsTypeOK, CheckRecords
<1>13. CASE RecordOutcome
  BY <1>0, <1>02, <1>13, QaRecords DEF RecordOutcome, Fails, Done, Loud, HandsTypeOK, CheckRecords
<1>14. CASE CommitVerdict
  BY <1>0, <1>14 DEF CommitVerdict, HandsTypeOK, CheckRecords
<1> QED  BY <1>2, <1>3, <1>4, <1>5, <1>6, <1>7, <1>8, <1>9, <1>10, <1>11, <1>12, <1>13, <1>14
         DEF QaWork

-----------------------------------------------------------------------------
\* Steps that leave the candidate's test alone

\* A sealed root is sealed for good.
LEMMA SealedKept ==
  ASSUME RegistryInv, [RegistryNext]_registryVars, NEW r \in Roots, root[r].state = "sealed"
  PROVE  root'[r] = root[r]
<1>1. CASE RegistryNext
  BY <1>1, GrantFinal, EffectFinal, SealFinal, SourceFinal DEF RegistryNext, Final
<1>2. CASE UNCHANGED registryVars
  BY <1>2 DEF registryVars
<1> QED  BY <1>1, <1>2

\* The evidence holds as long as nobody writes to it and no seal begins.
LEMMA EvidenceKept ==
  ASSUME RegistryInv, WorkInv, [RegistryNext]_registryVars, UNCHANGED work,
         packet'.living => packet.living,
         (job'.kind = "seal" \/ closing'.event # None) =>
           (job.kind = "seal" \/ closing.event # None)
  PROVE  WorkInv'
  BY ReadKept DEF WorkInv

\* Between QA transactions only the seal's own record needs a look.
LEMMA QuietKeeps ==
  ASSUME RegistryInv, HandsInv, [RegistryNext]_registryVars, QuietSources,
         HandsTypeOK', WorkInv',
         job.kind # "qa", job'.kind # "qa",
         closing'.event = closing.event,
         closing.event # None => closing'.tree = closing.tree /\ job'.kind \notin {"seal", "effect"},
         (job'.kind = "seal" /\ job'.at = "record") =>
           /\ seal'[job'.id].root \in Roots
           /\ root'[seal'[job'.id].root].state = "sealed"
           /\ source'[seal'[job'.id].root].state = "available"
           /\ closing'.tree = ExactTree,
         UNCHANGED <<check, trial, runs>>
  PROVE  HandsInv'
<1>1. closing.event # None =>
        /\ closing.event \in Roots
        /\ root'[closing.event] = root[closing.event]
        /\ source'[closing.event] = source[closing.event]
  <2>1. SUFFICES ASSUME closing.event # None
                 PROVE  /\ closing.event \in Roots
                        /\ root'[closing.event] = root[closing.event]
                        /\ source'[closing.event] = source[closing.event]
    OBVIOUS
  <2>2. closing.event \in Roots /\ root[closing.event].state = "sealed"
    BY <2>1, EventRoot DEF HandsInv, ClosingInv
  <2> QED  BY <2>2, SealedKept DEF QuietSources
<1>2. ClosingInv'
  BY <1>1 DEF ClosingInv, HandsInv
<1>3. TxInv'
  BY TxKept DEF HandsInv
<1>4. StageInv'
  BY DEF StageInv
<1>5. CandidateInv'
  BY <1>1 DEF CandidateInv, HandsInv
<1>6. CheckInv'
  <2>1. qa' = qa
    BY DEF QuietSources
  <2>2. closing.event = None => check.receipt = "none"
    BY DEF HandsInv, ClosingInv, CheckInv
  <2> QED  BY <1>1, <2>1, <2>2 DEF CheckInv, HandsInv
<1> QED  BY <1>2, <1>3, <1>4, <1>5, <1>6 DEF HandsInv

LEMMA WorldKeeps ==
  ASSUME RegistryInv, HandsInv, Host \/ Tamper \/ Drift \/ QuarantineEnvironment
  PROVE  HandsInv'
<1>1. [RegistryNext]_registryVars
  BY HandsStepRefines DEF HandsNext
<1>2. CASE Tamper
  <2>1. PICK r \in Roots :
          \/ \E a \in Actions, c \in {"absent", "exact", "foreign"} :
               disk' = [disk EXCEPT ![r].files[a] = c]
          \/ disk' = [disk EXCEPT ![r].extra = ~@]
    BY <1>2 DEF Tamper
  <2>2. disk' \in [Roots -> Trees]
    BY <2>1, DiskKept DEF HandsInv, HandsTypeOK
  <2>3. UNCHANGED <<job, packet, work, closing, check, trial, runs>>
        /\ UNCHANGED <<root, effect, seal, source, qa>>
    BY <1>2 DEF Tamper, registryVars
  <2>4. HandsTypeOK'
    BY <2>2, <2>3 DEF HandsInv, HandsTypeOK
  <2>5. ClosingInv' /\ WorkInv' /\ TxInv'
    BY <2>3 DEF HandsInv, ClosingInv, WorkInv, TxInv
  <2>6. StageInv' /\ CandidateInv' /\ CheckInv'
    BY <2>3 DEF HandsInv, StageInv, TrialDone, CandidateInv, CheckInv
  <2> QED  BY <2>4, <2>5, <2>6 DEF HandsInv
<1>3. CASE Host \/ Drift \/ QuarantineEnvironment
  <2>1. job.kind = "none" /\ UNCHANGED <<disk, job, work, closing, check, trial, runs>>
    BY <1>3 DEF Host, Drift, QuarantineEnvironment, Ready, NoJob, handsVars
  <2>2. packet' \in PacketRecords /\ packet'.living = packet.living
    BY <1>3 DEF Host, Drift, QuarantineEnvironment, handsVars, HandsInv, HandsTypeOK, PacketRecords
  <2>3. GrantStep \/ UNCHANGED registryVars
    BY <1>3 DEF Host, Drift, QuarantineEnvironment, GrantStep
  <2>4. QuietSources
    BY <2>3, SourcesQuiet
  <2>5. HandsTypeOK'
    BY <2>1, <2>2 DEF HandsInv, HandsTypeOK
  <2>6. WorkInv'
    BY <1>1, <2>1, <2>2, EvidenceKept DEF HandsInv
  <2> QED  BY <1>1, <2>1, <2>4, <2>5, <2>6, QuietKeeps
<1> QED  BY <1>2, <1>3

\* New evidence is about a file that has been read back.
LEMMA EvidenceGrows ==
  ASSUME RegistryInv, WorkInv, [RegistryNext]_registryVars,
         \A b \in Actions :
           work'[b] \in {"accepted", "complete"} =>
             work[b] \in {"accepted", "complete"} \/ effect'[b].stage = "read",
         job'.kind # "seal" /\ closing'.event = None
  PROVE  WorkInv'
  BY ReadKept DEF WorkInv

\* The writing of artifacts.  Once the seal is in the body every artifact has
\* been dispatched, and no effect can begin.
LEMMA EffectKeeps ==
  ASSUME RegistryInv, HandsInv, NEW a \in Actions, EffectWork(a)
  PROVE  HandsInv'
<1>1. [RegistryNext]_registryVars /\ QuietSources /\ HandsTypeOK'
  <2>1. GrantStep \/ EffectStep \/ UNCHANGED registryVars
    BY EffectRefines
  <2>2. HandsTypeOK'
    BY EffectTypes DEF HandsInv
  <2> QED  BY <2>1, <2>2, SourcesQuiet DEF RegistryNext
<1>2. job \in Jobs /\ work \in [Actions -> Evidence] /\ WorkInv
  BY DEF HandsInv, HandsTypeOK
<1>3. CASE Authorize(a)
  <2>1. job.kind = "none" /\ UNCHANGED <<job, work, packet, closing, check, trial, runs>>
    BY <1>3 DEF Authorize, Ready, NoJob, handsVars
  <2>2. WorkInv'
    BY <1>1, <1>2, <2>1, EvidenceKept
  <2> QED  BY <1>1, <2>1, <2>2, QuietKeeps
<1>4. CASE ExecuteEffect(a)
  <2>1. a \notin dispatched[action[a].grant]
    BY <1>4 DEF ExecuteEffect, BeginEffect
  <2>2. effect[a].stage = "none"
    BY <2>1 DEF RegistryInv, EffectInv
  <2>3. closing.event = None
    BY <2>2, <1>2 DEF WorkInv
  <2>4. /\ job.kind = "none" /\ job'.kind = "effect" /\ UNCHANGED <<closing, check, trial, runs>>
        /\ work' = [work EXCEPT ![a] = "attempted"]
    BY <1>4 DEF ExecuteEffect, Ready, NoJob, GoTo
  <2>5. \A b \in Actions :
          work'[b] \in {"accepted", "complete"} => work[b] \in {"accepted", "complete"}
    BY <1>2, <2>4
  <2>6. WorkInv'
    BY <1>1, <1>2, <2>3, <2>4, <2>5, EvidenceGrows
  <2> QED  BY <1>1, <2>3, <2>4, <2>6, QuietKeeps
<1>5. CASE EffectRefused(a)
  <2>1. /\ job.kind = "none" /\ job'.kind = "none" /\ UNCHANGED <<closing, check, trial, runs>>
        /\ UNCHANGED registryVars
        /\ packet' = [packet EXCEPT !.living = FALSE]
        /\ work' = work \/ work' = [work EXCEPT ![a] = "attempted"]
    BY <1>5 DEF EffectRefused, Ready, NoJob, Fails
  <2>2. ~packet'.living
    BY <2>1 DEF HandsInv, HandsTypeOK, PacketRecords
  <2>3. \A b \in Actions :
          work'[b] \in {"accepted", "complete"} => work[b] \in {"accepted", "complete"}
    BY <1>2, <2>1
  <2>4. WorkInv'
    BY <1>2, <2>1, <2>2, <2>3 DEF WorkInv, registryVars
  <2> QED  BY <1>1, <2>1, <2>4, QuietKeeps
<1>6. CASE CompleteWork(a)
  <2>1. /\ job.kind = "none" /\ UNCHANGED <<job, packet, closing, check, trial, runs>>
        /\ UNCHANGED effect
        /\ work[a] = "accepted" /\ work' = [work EXCEPT ![a] = "complete"]
    BY <1>6 DEF CompleteWork, Ready, NoJob, registryVars
  <2>2. \A b \in Actions : b # a => work'[b] = work[b]
    BY <1>2, <2>1
  <2>3. work'[a] = "complete"
    BY <1>2, <2>1
  <2>4. WorkInv'
    BY <1>2, <2>1, <2>2, <2>3 DEF WorkInv
  <2> QED  BY <1>1, <2>1, <2>4, QuietKeeps
<1>7. ASSUME job.kind = "effect", job'.kind \in {"none", "effect"},
             UNCHANGED <<closing, check, trial, runs>>,
             \/ \E e \in {"received", "rejected", "broken"} : work' = [work EXCEPT ![a] = e]
             \/ work' = [work EXCEPT ![a] = "accepted"] /\ effect'[a].stage = "read"
             \/ work' = work
      PROVE  HandsInv'
  <2>1. closing.event = None
    BY <1>7 DEF HandsInv, ClosingInv
  <2>2. \A b \in Actions :
          work'[b] \in {"accepted", "complete"} =>
            work[b] \in {"accepted", "complete"} \/ effect'[b].stage = "read"
    BY <1>2, <1>7
  <2>3. WorkInv'
    BY <1>1, <1>2, <1>7, <2>1, <2>2, EvidenceGrows
  <2> QED  BY <1>1, <1>7, <2>1, <2>3, QuietKeeps
<1>8. CASE CallProvider(a)
  BY <1>7, <1>8 DEF CallProvider, At, GoTo
<1>9. CASE Created(a)
  BY <1>7, <1>9 DEF Created, At, GoTo, Loud, NoJob
<1>10. CASE ReadBack(a)
  <2>1. effect'[a].stage = "read"
    BY <1>10 DEF ReadBack, Return, RegistryInv, RegistryTypeOK, EffectRecords
  <2> QED  BY <1>7, <1>10, <2>1 DEF ReadBack, At, Done, Loud, NoJob
<1>11. CASE CloseRoot(a)
  BY <1>7, <1>11 DEF CloseRoot, At, Fails, Loud, NoJob
<1>12. ASSUME NEW phase \in {"creating", "reading"},
              \/ ProviderFails(a, phase) \/ ProviderAmbiguous(a, phase)
              \/ ProviderMalformed(a, phase) \/ ProviderContract(a, phase)
              \/ ProviderPanics(a, phase)
       PROVE  HandsInv'
  <2>1. CASE ProviderFails(a, phase) \/ ProviderAmbiguous(a, phase)
    BY <1>7, <2>1 DEF ProviderFails, ProviderAmbiguous, At, GoTo, Fails, NoJob
  <2>2. CASE ProviderMalformed(a, phase) \/ ProviderContract(a, phase) \/ ProviderPanics(a, phase)
    BY <1>7, <2>2 DEF ProviderMalformed, ProviderContract, ProviderPanics, At, GoTo, Loud, NoJob
  <2> QED  BY <1>12, <2>1, <2>2
<1> QED  BY <1>3, <1>4, <1>5, <1>6, <1>8, <1>9, <1>10, <1>11, <1>12 DEF EffectWork

\* The sealing of the candidate, up to the event in the body.
LEMMA SealKeeps ==
  ASSUME RegistryInv, HandsInv, SealWork
  PROVE  HandsInv'
<1>1. [RegistryNext]_registryVars /\ QuietSources /\ HandsTypeOK'
  <2>1. SealStep \/ UNCHANGED registryVars
    BY SealRefines DEF HandsInv
  <2>2. HandsTypeOK'
    BY SealTypes DEF HandsInv
  <2> QED  BY <2>1, <2>2, SourcesQuiet DEF RegistryNext
<1>2. closing \in ClosingRecords /\ WorkInv
  BY DEF HandsInv, HandsTypeOK
<1>3. CASE PrepareSeal
  <2>1. job.kind = "none" /\ UNCHANGED <<job, work, packet, check, trial, runs>>
    BY <1>3 DEF PrepareSeal, Ready, NoJob
  <2>2. PICK r \in Roots : closing' = [closing EXCEPT !.root = r, !.rev = root[r].rev]
    BY <1>3 DEF PrepareSeal
  <2>3. closing'.event = closing.event /\ closing'.tree = closing.tree
    BY <1>2, <2>2 DEF ClosingRecords
  <2>4. WorkInv'
    BY <1>1, <1>2, <2>1, <2>3, EvidenceKept
  <2> QED  BY <1>1, <2>1, <2>3, <2>4, QuietKeeps
<1>4. ASSUME NEW s \in Seals, ExecuteSeal(s)
      PROVE  HandsInv'
  <2>1. /\ job.kind = "none" /\ job'.kind = "seal" /\ job'.at = "inventory" /\ closing.event = None
        /\ UNCHANGED <<work, packet, closing, check, trial, runs>>
    BY <1>4 DEF ExecuteSeal, Ready, NoJob, GoTo
  <2>2. UNCHANGED effect /\ \A a \in Actions : work[a] = "complete"
    BY <1>4 DEF ExecuteSeal, BodyEvidence, BeginCandidateSeal, TakeSeal
  <2>3. WorkInv'
    BY <1>2, <2>1, <2>2 DEF WorkInv
  <2> QED  BY <1>1, <2>1, <2>3, QuietKeeps
<1>5. ASSUME job.kind = "seal", job'.kind \in {"none", "seal"},
             UNCHANGED <<work, packet, check, trial, runs>>, closing'.event = closing.event,
             (job'.kind = "seal" /\ job'.at = "record") =>
               /\ seal'[job'.id].root \in Roots
               /\ root'[seal'[job'.id].root].state = "sealed"
               /\ source'[seal'[job'.id].root].state = "available"
               /\ closing'.tree = ExactTree
      PROVE  HandsInv'
  <2>1. closing.event = None
    BY <1>5 DEF HandsInv, ClosingInv
  <2>2. WorkInv'
    BY <1>1, <1>2, <1>5, EvidenceKept
  <2> QED  BY <1>1, <1>5, <2>1, <2>2, QuietKeeps
<1>6. ASSUME NEW s \in Seals, CallInventory(s) \/ TreeNotObserved(s)
      PROVE  HandsInv'
  BY <1>5, <1>6 DEF CallInventory, TreeNotObserved, At, GoTo
<1>7. ASSUME NEW s \in Seals, TreeObserved(s)
      PROVE  HandsInv'
  <2>1. closing'.event = closing.event
    BY <1>2, <1>7 DEF TreeObserved, ClosingRecords
  <2> QED  BY <1>5, <1>7, <2>1 DEF TreeObserved, At, GoTo
<1>8. ASSUME NEW s \in Seals, SealPanics(s) \/ SealAborts(s) \/ SealQuarantines(s)
      PROVE  HandsInv'
  <2>1. job.kind = "seal" /\ job'.kind = "none" /\ UNCHANGED <<work, packet, closing, check, trial, runs>>
    BY <1>8 DEF SealPanics, SealAborts, SealQuarantines, At, Done, Loud, NoJob
  <2> QED  BY <1>5, <2>1
<1>9. ASSUME NEW s \in Seals, SealCommits(s)
      PROVE  HandsInv'
  <2>1. /\ job.kind = "seal" /\ job'.kind = "seal" /\ job'.id = s /\ closing.tree = ExactTree
        /\ UNCHANGED <<work, packet, closing, check, trial, runs>>
    BY <1>9 DEF SealCommits, At, GoTo, ExactInventory
  <2>2. /\ seal[s].stage = "inventoried"
        /\ root' = [root EXCEPT ![seal[s].root].state = "sealed", ![seal[s].root].rev = @ + 1]
        /\ source' = [source EXCEPT ![seal[s].root] =
                        [state |-> "available", tx |-> None, open |-> TRUE]]
        /\ seal' = [seal EXCEPT ![s].stage = "consumed"]
    BY <1>9 DEF SealCommits, CommitCandidateSeal
  <2>3. seal[s].root \in Roots /\ seal'[s].root = seal[s].root
    BY <2>2 DEF RegistryInv, RegistryTypeOK, SealInv, SealRecords
  <2>4. root'[seal[s].root].state = "sealed" /\ source'[seal[s].root].state = "available"
    BY <2>2, <2>3 DEF RegistryInv, RegistryTypeOK, RootRecords
  <2> QED  BY <1>5, <2>1, <2>3, <2>4
<1>10. ASSUME NEW s \in Seals, RecordSeal(s)
       PROVE  HandsInv'
  <2>1. /\ job.kind = "seal" /\ job.at = "record" /\ job.id = s /\ job'.kind = "none"
        /\ UNCHANGED <<work, packet, check, trial, runs>> /\ UNCHANGED registryVars
    BY <1>10 DEF RecordSeal, At, Done, Loud, NoJob
  <2>2. CASE UNCHANGED closing
    BY <1>5, <2>1, <2>2
  <2>3. CASE closing' = [closing EXCEPT !.event = seal[s].root]
    <3>1. closing'.event = seal[s].root /\ closing'.tree = closing.tree
      BY <1>2, <2>3 DEF ClosingRecords
    <3>2. /\ closing.event = None /\ closing.tree = ExactTree
          /\ seal[s].root \in Roots /\ root[seal[s].root].state = "sealed"
          /\ source[seal[s].root].state = "available"
      BY <2>1 DEF HandsInv, ClosingInv
    <3>3. check.grant = "none" /\ runs = 0 /\ check.receipt = "none"
      BY <3>2 DEF HandsInv, ClosingInv, CheckInv
    <3>4. UNCHANGED <<root, effect, source, qa>>
      BY <2>1 DEF registryVars
    <3>5. ClosingInv'
      BY <2>1, <3>1, <3>2, <3>4, RegistryAssumption DEF ClosingInv
    <3>6. WorkInv'
      BY <1>1, <1>2, <2>1, EvidenceKept
    <3>7. TxInv'
      BY <1>1, TxKept DEF HandsInv
    <3>8. StageInv' /\ CandidateInv'
      BY <2>1, <3>1, <3>2, <3>3, <3>4 DEF StageInv, CandidateInv
    <3>9. CheckInv'
      BY <2>1, <3>3, <3>4 DEF CheckInv, HandsInv
    <3> QED  BY <1>1, <3>5, <3>6, <3>7, <3>8, <3>9 DEF HandsInv
  <2> QED  BY <1>10, <2>2, <2>3 DEF RecordSeal
<1> QED  BY <1>3, <1>4, <1>6, <1>7, <1>8, <1>9, <1>10 DEF SealWork

-----------------------------------------------------------------------------
\* Testing the candidate

\* A step of QA touches neither the evidence nor the seal.
LEMMA QaFrame ==
  ASSUME RegistryInv, HandsInv, [RegistryNext]_registryVars, HandsTypeOK',
         UNCHANGED <<work, closing>>, packet'.living => packet.living, closing.event # None,
         job'.kind \in {"none", "qa"},
         StageInv', CandidateInv', CheckInv'
  PROVE  HandsInv'
<1>1. root'[closing.event] = root[closing.event]
  BY EventRoot, SealedKept DEF HandsInv, ClosingInv
<1>2. ClosingInv'
  BY <1>1 DEF HandsInv, ClosingInv
<1>3. WorkInv'
  BY EvidenceKept DEF HandsInv
<1>4. TxInv'
  BY TxKept DEF HandsInv
<1> QED  BY <1>2, <1>3, <1>4 DEF HandsInv

\* A transaction that holds the source: the source is where the lease is, and
\* no receipt exists yet.
LEMMA InTransaction ==
  ASSUME RegistryInv, HandsInv, job.kind = "qa", job.at \in Holding
  PROVE  /\ closing.event \in Roots
         /\ job.id \in Transactions /\ job.id \in {Body, Witness}
         /\ qa[job.id].root = closing.event
         /\ qa[job.id].stage \in {"reserved", "in_use", "used"}
         /\ source[closing.event].state = qa[job.id].stage
         /\ source[closing.event].tx = job.id
         /\ check.receipt = "none"
         /\ check.outcome = "none" /\ check.verdict = "none"
         /\ check.grant = (IF job.id = Body THEN "running" ELSE "none")
<1>1. closing.event \in Roots
  BY EventRoot
<1>2. job.id \in Transactions /\ job.id \in {Body, Witness}
  BY JobKinds DEF HandsInv, HandsTypeOK
<1>3. qa[job.id].root = closing.event /\ qa[job.id].stage \in {"reserved", "in_use", "used"}
  BY DEF HandsInv, StageInv, Holding
<1>4. source[closing.event].state = qa[job.id].stage /\ source[closing.event].tx = job.id
  BY <1>2, <1>3 DEF RegistryInv, QaInv
<1>5. check.grant \in {"none", "running", "completed", "quarantined", "consumed_failed"}
  BY DEF HandsInv, HandsTypeOK, CheckRecords
<1>6. check.grant = (IF job.id = Body THEN "running" ELSE "none")
  BY <1>2, <1>5, HandsAssumption DEF HandsInv, CheckInv, Holding
<1> QED  BY <1>1, <1>2, <1>3, <1>4, <1>6 DEF HandsInv, CheckInv

\* A step from one held place to another: the grant and the receipt stay.
LEMMA HoldingKeeps ==
  ASSUME RegistryInv, HandsInv, [RegistryNext]_registryVars, HandsTypeOK',
         job.kind = "qa", job.at \in Holding,
         job'.kind = "qa", job'.id = job.id, job'.at \in Holding,
         UNCHANGED <<work, closing, check, packet>>,
         \A u \in Transactions : u # job.id => qa'[u] = qa[u],
         source'[closing.event].state # "available",
         runs' \in {0, 1},
         StageInv'
  PROVE  HandsInv'
<1>1. closing.event # None
  BY InTransaction, RegistryAssumption
<1>2. CandidateInv'
  BY DEF CandidateInv
<1>3. CheckInv'
  <2>1. check.grant = "none" => qa'[Body] = qa[Body]
    BY InTransaction, HandsAssumption
  <2> QED  BY <2>1, InTransaction, HandsAssumption DEF HandsInv, CheckInv, Holding
<1> QED  BY <1>1, <1>2, <1>3, QaFrame

LEMMA ExecuteQaKeeps ==
  ASSUME RegistryInv, HandsInv, [RegistryNext]_registryVars, HandsTypeOK', ExecuteQa
  PROVE  HandsInv'
<1>1. /\ job.kind = "none" /\ job' = [kind |-> "qa", id |-> Body, at |-> "reserve"]
      /\ closing.event # None /\ check.grant = "none"
      /\ check' = [check EXCEPT !.requested = TRUE, !.grant = "running"]
      /\ UNCHANGED <<work, closing, packet, trial, runs, qa, source>>
  BY DEF ExecuteQa, Ready, NoJob, Aligned, GoTo, registryVars
<1>2. /\ check'.grant = "running" /\ check'.receipt = check.receipt
      /\ check'.outcome = check.outcome /\ check'.verdict = check.verdict
  BY <1>1 DEF HandsInv, HandsTypeOK, CheckRecords
<1>3. check.receipt = "none" /\ qa[Body].stage = "none"
  BY <1>1 DEF HandsInv, CheckInv
<1>4. StageInv'
  BY <1>1, <1>3 DEF StageInv, Holding
<1>5. CandidateInv'
  BY <1>1 DEF HandsInv, CandidateInv, Holding
<1>6. CheckInv'
  BY <1>1, <1>2, <1>3 DEF HandsInv, CheckInv
<1> QED  BY <1>1, <1>4, <1>5, <1>6, QaFrame

\* A repeated execution and the verdict change no grant, receipt or outcome.
LEMMA LaterKeeps ==
  ASSUME RegistryInv, HandsInv, [RegistryNext]_registryVars, HandsTypeOK',
         ExecuteQaLater \/ CommitVerdict
  PROVE  HandsInv'
<1>1. /\ job.kind = "none" /\ job'.kind = "none" /\ closing.event # None
      /\ UNCHANGED <<work, closing, trial, runs, qa, source>>
  BY DEF ExecuteQaLater, CommitVerdict, Ready, NoJob, Aligned, Fails, Done, registryVars
<1>2. packet'.living => packet.living
  BY DEF ExecuteQaLater, CommitVerdict, Ready
<1>3. /\ check'.grant = check.grant /\ check'.receipt = check.receipt
      /\ check'.outcome = check.outcome /\ check'.verdict \in {check.verdict, check.outcome}
  BY DEF ExecuteQaLater, CommitVerdict, HandsInv, HandsTypeOK, CheckRecords
<1>4. StageInv' /\ CandidateInv'
  BY <1>1, <1>3 DEF HandsInv, StageInv, CandidateInv
<1>5. CheckInv'
  BY <1>1, <1>3 DEF HandsInv, CheckInv
<1> QED  BY <1>1, <1>2, <1>4, <1>5, QaFrame

\* What a reservation does.
LEMMA Reserved ==
  ASSUME RegistryInv, NEW t \in Transactions, NEW r \in Roots, ReserveQaSource(t, r)
  PROVE  /\ source[r].state = "available"
         /\ source'[r].state = "reserved"
         /\ qa'[t].stage = "reserved" /\ qa'[t].root = r
         /\ \A u \in Transactions : u # t => qa'[u] = qa[u]
  BY DEF ReserveQaSource, RegistryInv, RegistryTypeOK, SourceRecords

LEMMA ReserveSourceKeeps ==
  ASSUME RegistryInv, HandsInv, [RegistryNext]_registryVars, HandsTypeOK',
         ReserveSource \/ ExecuteWitness
  PROVE  HandsInv'
<1>1. PICK t \in {Body, Witness} :
        /\ \/ t = Body /\ job = [kind |-> "qa", id |-> Body, at |-> "reserve"]
           \/ t = Witness /\ job.kind = "none" /\ closing.event # None
        /\ job' = [kind |-> "qa", id |-> t, at |-> "open"]
        /\ ReserveQaSource(t, closing.event)
        /\ UNCHANGED <<work, closing, packet, check, trial, runs>>
  BY DEF ReserveSource, ExecuteWitness, At, Ready, NoJob, Aligned, GoTo
<1>2. closing.event \in Roots /\ t \in Transactions
  BY <1>1, EventRoot, HandsAssumption
<1>3. /\ source[closing.event].state = "available" /\ source'[closing.event].state = "reserved"
      /\ qa'[t].stage = "reserved" /\ qa'[t].root = closing.event
      /\ \A u \in Transactions : u # t => qa'[u] = qa[u]
  BY <1>1, <1>2, Reserved
<1>4. runs = 0 /\ closing.event # None
  BY <1>2, <1>3, RegistryAssumption DEF HandsInv, CandidateInv
<1>5. check.grant = IF t = Body THEN "running" ELSE "none"
  BY <1>1, <1>3, <1>4, HandsAssumption DEF HandsInv, CandidateInv, CheckInv
<1>6. check.receipt = "none"
  BY <1>5 DEF HandsInv, CheckInv
<1>7. StageInv'
  BY <1>1, <1>3, <1>4 DEF StageInv, Holding
<1>8. CandidateInv'
  BY <1>1, <1>3, <1>4 DEF CandidateInv, Holding
<1>9. CheckInv'
  <2>1. check.grant = "none" => qa'[Body] = qa[Body]
    BY <1>3, <1>5, HandsAssumption
  <2> QED  BY <1>1, <1>5, <1>6, <2>1, HandsAssumption DEF HandsInv, CheckInv
<1> QED  BY <1>1, <1>4, <1>7, <1>8, <1>9, QaFrame

\* A denied transaction has nothing of the source, which someone else closed.
LEMMA SourceDeniedKeeps ==
  ASSUME RegistryInv, HandsInv, [RegistryNext]_registryVars, HandsTypeOK', SourceDenied
  PROVE  HandsInv'
<1>1. /\ job = [kind |-> "qa", id |-> Body, at |-> "reserve"]
      /\ job' = [kind |-> "qa", id |-> Body, at |-> "settle"]
      /\ source[closing.event].state # "available"
      /\ trial' = [NoTrial EXCEPT !.kind = "failure", !.end = "not_acquired"]
      /\ UNCHANGED <<work, closing, packet, check, runs, qa, source>>
  BY DEF SourceDenied, At, GoTo, registryVars
<1>2. trial'.kind = "failure" /\ trial'.end = "not_acquired"
  BY <1>1 DEF NoTrial
<1>3. closing.event \in Roots /\ closing.event # None
  BY <1>1, EventRoot, RegistryAssumption
<1>4. source[closing.event].tx # Body
  BY <1>1, <1>3, HandsAssumption DEF HandsInv, TxInv, StageInv
<1>5. check.grant = "running" /\ check.receipt = "none"
  BY <1>1 DEF HandsInv, CheckInv
<1>6. StageInv'
  BY <1>1, <1>2, <1>4 DEF StageInv, Holding
<1>7. CandidateInv'
  BY <1>1 DEF HandsInv, CandidateInv, Holding
<1>8. CheckInv'
  BY <1>1, <1>5 DEF HandsInv, CheckInv
<1> QED  BY <1>1, <1>3, <1>6, <1>7, <1>8, QaFrame

\* What moving a lease does to its source.
LEMMA LeaseMoved ==
  ASSUME RegistryInv, NEW t \in Transactions, qa[t].root \in Roots,
         WithQaSource(t) \/ QaSourceUsed(t)
  PROVE  /\ source'[qa[t].root].state = qa'[t].stage
         /\ qa'[t].stage = (IF qa[t].stage = "reserved" THEN "in_use" ELSE "used")
         /\ qa'[t].root = qa[t].root
         /\ \A u \in Transactions : u # t => qa'[u] = qa[u]
<1>1. source[qa[t].root] \in SourceRecords /\ qa[t] \in LeaseRecords
  BY DEF RegistryInv, RegistryTypeOK
<1>2. CASE WithQaSource(t)
  BY <1>1, <1>2 DEF WithQaSource, RegistryInv, RegistryTypeOK, SourceRecords, LeaseRecords
<1>3. CASE QaSourceUsed(t)
  BY <1>1, <1>3 DEF QaSourceUsed, RegistryInv, RegistryTypeOK, SourceRecords, LeaseRecords
<1> QED  BY <1>2, <1>3

LEMMA OpenSourceKeeps ==
  ASSUME RegistryInv, HandsInv, [RegistryNext]_registryVars, HandsTypeOK',
         NEW t \in {Body, Witness}, OpenSource(t)
  PROVE  HandsInv'
<1>1. /\ job = [kind |-> "qa", id |-> t, at |-> "open"]
      /\ job' = [kind |-> "qa", id |-> t, at |-> "preflight"]
      /\ WithQaSource(t) /\ trial' = NoTrial
      /\ UNCHANGED <<work, closing, packet, check, runs>>
  BY DEF OpenSource, At, GoTo
<1>2. /\ t \in Transactions /\ qa[t].root = closing.event /\ closing.event \in Roots
      /\ qa[t].stage = "reserved" /\ runs = 0
  BY <1>1, InTransaction DEF HandsInv, StageInv, Holding
<1>3. /\ source'[closing.event].state = "in_use"
      /\ qa'[t].stage = "in_use" /\ qa'[t].root = closing.event
      /\ \A u \in Transactions : u # t => qa'[u] = qa[u]
  BY <1>1, <1>2, LeaseMoved
<1>4. StageInv'
  BY <1>1, <1>2, <1>3 DEF StageInv, Holding, NoTrial
<1> QED  BY <1>1, <1>2, <1>3, <1>4, HoldingKeeps DEF Holding

LEMMA PreflightKeeps ==
  ASSUME RegistryInv, HandsInv, [RegistryNext]_registryVars, HandsTypeOK',
         NEW t \in {Body, Witness}, Preflight(t)
  PROVE  HandsInv'
<1>1. /\ job = [kind |-> "qa", id |-> t, at |-> "preflight"]
      /\ UNCHANGED <<work, closing, packet, check, runs, qa, source>>
  BY DEF Preflight, At, registryVars
<1>2. /\ closing.event \in Roots /\ closing.event # None
      /\ source[closing.event].state # "available"
      /\ qa[t].root = closing.event /\ qa[t].stage = "in_use" /\ runs = 0
      /\ trial.end = "none"
  BY <1>1, InTransaction, RegistryAssumption DEF HandsInv, StageInv, Holding
<1>3. trial \in TrialRecords /\ closing.tree = ExactTree
  BY <1>2 DEF HandsInv, HandsTypeOK, ClosingInv
<1>4. \/ /\ job' = [kind |-> "qa", id |-> t, at |-> "run"]
         /\ trial' = [trial EXCEPT !.pre = ExactTree]
      \/ /\ job' = [kind |-> "qa", id |-> t, at |-> "used"]
         /\ \E e \in {"consumed", "quarantined"}, l \in BOOLEAN :
              trial' = [trial EXCEPT !.kind = "failure", !.end = e, !.loud = l]
  BY <1>3 DEF Preflight, Concludes, GoTo
<1>5. CASE job' = [kind |-> "qa", id |-> t, at |-> "run"] /\ trial' = [trial EXCEPT !.pre = ExactTree]
  <2>1. trial'.pre = ExactTree /\ trial'.end = "none"
    BY <1>2, <1>3, <1>5 DEF TrialRecords
  <2>2. StageInv'
    BY <1>1, <1>2, <1>5, <2>1 DEF StageInv, Holding
  <2> QED  BY <1>1, <1>2, <1>5, <2>2, HoldingKeeps DEF Holding
<1>6. CASE /\ job' = [kind |-> "qa", id |-> t, at |-> "used"]
           /\ \E e \in {"consumed", "quarantined"}, l \in BOOLEAN :
                trial' = [trial EXCEPT !.kind = "failure", !.end = e, !.loud = l]
  <2>1. trial'.kind = "failure" /\ trial'.end \in {"consumed", "quarantined"}
    BY <1>3, <1>6 DEF TrialRecords
  <2>2. StageInv'
    BY <1>1, <1>2, <1>6, <2>1 DEF StageInv, TrialDone, Holding
  <2> QED  BY <1>1, <1>2, <1>6, <2>2, HoldingKeeps DEF Holding
<1> QED  BY <1>4, <1>5, <1>6

LEMMA RunCandidateKeeps ==
  ASSUME RegistryInv, HandsInv, [RegistryNext]_registryVars, HandsTypeOK',
         NEW t \in {Body, Witness}, RunCandidate(t)
  PROVE  HandsInv'
<1>1. /\ job = [kind |-> "qa", id |-> t, at |-> "run"]
      /\ UNCHANGED <<work, closing, packet, check, qa, source>>
  BY DEF RunCandidate, At, registryVars
<1>2. /\ closing.event \in Roots /\ source[closing.event].state # "available"
      /\ qa[t].root = closing.event /\ qa[t].stage = "in_use"
      /\ runs = 0 /\ trial.pre = ExactTree /\ trial.end = "none"
  BY <1>1, InTransaction DEF HandsInv, StageInv, Holding
<1>3. trial \in TrialRecords
  BY DEF HandsInv, HandsTypeOK
<1>4. \/ /\ job' = [kind |-> "qa", id |-> t, at |-> "postflight"] /\ runs' = runs + 1
         /\ \E k \in {"accepted", "rejected"} : trial' = [trial EXCEPT !.kind = k]
      \/ /\ job' = [kind |-> "qa", id |-> t, at |-> "postflight"] /\ runs' \in {runs, runs + 1}
         /\ \E e \in {"consumed", "quarantined"} :
              trial' = [trial EXCEPT !.kind = "failure", !.end = e]
      \/ /\ job' = [kind |-> "qa", id |-> t, at |-> "used"] /\ runs' \in {runs, runs + 1}
         /\ trial' = [trial EXCEPT !.kind = "failure", !.end = "quarantined", !.loud = TRUE]
  BY DEF RunCandidate, Concludes, GoTo
<1>5. \/ /\ job' = [kind |-> "qa", id |-> t, at |-> "postflight"] /\ trial'.pre = ExactTree
         /\ \/ trial'.kind \in {"accepted", "rejected"} /\ trial'.end = "none" /\ runs' = 1
            \/ trial'.kind = "failure" /\ trial'.end \in {"consumed", "quarantined"}
      \/ /\ job' = [kind |-> "qa", id |-> t, at |-> "used"]
         /\ trial'.kind = "failure" /\ trial'.end \in {"consumed", "quarantined"}
  <2>1. ASSUME NEW k \in {"accepted", "rejected"}, trial' = [trial EXCEPT !.kind = k]
        PROVE  trial'.kind = k /\ trial'.pre = ExactTree /\ trial'.end = "none"
    BY <1>2, <1>3, <2>1 DEF TrialRecords
  <2>2. ASSUME NEW e \in {"consumed", "quarantined"},
               trial' = [trial EXCEPT !.kind = "failure", !.end = e]
        PROVE  trial'.kind = "failure" /\ trial'.pre = ExactTree /\ trial'.end = e
    BY <1>2, <1>3, <2>2 DEF TrialRecords
  <2>3. ASSUME trial' = [trial EXCEPT !.kind = "failure", !.end = "quarantined", !.loud = TRUE]
        PROVE  trial'.kind = "failure" /\ trial'.end = "quarantined"
    BY <1>3, <2>3 DEF TrialRecords
  <2> QED  BY <1>2, <1>4, <2>1, <2>2, <2>3
<1>6. runs' \in {0, 1}
  BY <1>2, <1>4
<1>7. StageInv'
  BY <1>1, <1>2, <1>5 DEF StageInv, TrialDone, Holding
<1> QED  BY <1>1, <1>2, <1>5, <1>6, <1>7, HoldingKeeps DEF Holding

LEMMA PostflightKeeps ==
  ASSUME RegistryInv, HandsInv, [RegistryNext]_registryVars, HandsTypeOK',
         NEW t \in {Body, Witness}, Postflight(t)
  PROVE  HandsInv'
<1>1. /\ job = [kind |-> "qa", id |-> t, at |-> "postflight"]
      /\ job' = [kind |-> "qa", id |-> t, at |-> "used"]
      /\ UNCHANGED <<work, closing, packet, check, runs, qa, source>>
  BY DEF Postflight, Concludes, At, GoTo, registryVars
<1>2. /\ closing.event \in Roots /\ source[closing.event].state # "available"
      /\ qa[t].root = closing.event /\ qa[t].stage = "in_use"
  BY <1>1, InTransaction DEF HandsInv, StageInv, Holding
<1>3. /\ trial.pre = ExactTree
      /\ \/ trial.kind \in {"accepted", "rejected"} /\ trial.end = "none" /\ runs = 1
         \/ trial.kind = "failure" /\ trial.end \in {"consumed", "quarantined"}
  BY <1>1 DEF HandsInv, StageInv
<1>4. trial \in TrialRecords /\ runs \in {0, 1}
  BY DEF HandsInv, HandsTypeOK, CandidateInv
<1>5. \/ trial' = [trial EXCEPT !.post = ExactTree, !.end = IF @ = "none" THEN "consumed" ELSE @]
      \/ \E l \in BOOLEAN :
           trial' = [trial EXCEPT !.kind = "failure", !.end = "quarantined", !.loud = l]
  BY <1>3 DEF Postflight, Concludes
<1>6. \/ /\ trial'.kind \in {"accepted", "rejected"} /\ trial'.end = "consumed"
         /\ trial'.pre = ExactTree /\ trial'.post = ExactTree /\ runs = 1
      \/ trial'.kind = "failure" /\ trial'.end \in {"consumed", "quarantined"}
  BY <1>3, <1>4, <1>5 DEF TrialRecords
<1>7. StageInv'
  BY <1>1, <1>2, <1>6 DEF StageInv, TrialDone, Holding
<1> QED  BY <1>1, <1>2, <1>4, <1>7, HoldingKeeps DEF Holding

LEMMA SourceUsedKeeps ==
  ASSUME RegistryInv, HandsInv, [RegistryNext]_registryVars, HandsTypeOK',
         NEW t \in {Body, Witness}, SourceUsed(t)
  PROVE  HandsInv'
<1>1. /\ job = [kind |-> "qa", id |-> t, at |-> "used"]
      /\ job' = [kind |-> "qa", id |-> t, at |-> "finish"]
      /\ QaSourceUsed(t) /\ UNCHANGED <<work, closing, packet, check, trial, runs>>
  BY DEF SourceUsed, At, GoTo
<1>2. /\ t \in Transactions /\ qa[t].root = closing.event /\ closing.event \in Roots
      /\ qa[t].stage = "in_use" /\ TrialDone /\ runs \in {0, 1}
  BY <1>1, InTransaction DEF HandsInv, StageInv, CandidateInv, Holding
<1>3. /\ source'[closing.event].state = "used"
      /\ qa'[t].stage = "used" /\ qa'[t].root = closing.event
      /\ \A u \in Transactions : u # t => qa'[u] = qa[u]
  BY <1>1, <1>2, LeaseMoved
<1>4. StageInv'
  BY <1>1, <1>2, <1>3 DEF StageInv, TrialDone, Holding
<1> QED  BY <1>1, <1>2, <1>3, <1>4, HoldingKeeps DEF Holding

\* The disposition of the source comes before anything is reported or loud.
LEMMA FinishSourceKeeps ==
  ASSUME RegistryInv, HandsInv, [RegistryNext]_registryVars, HandsTypeOK',
         NEW t \in {Body, Witness}, FinishSource(t)
  PROVE  HandsInv'
<1>1. /\ job = [kind |-> "qa", id |-> t, at |-> "finish"]
      /\ FinishQaSource(t, trial.end) /\ UNCHANGED <<work, closing, packet, trial, runs>>
      /\ \/ t = Witness /\ job'.kind = "none" /\ UNCHANGED check
         \/ /\ t = Body /\ job'.kind = "none"
            /\ check' = [check EXCEPT !.grant = "quarantined"]
         \/ /\ t = Body /\ job' = [kind |-> "qa", id |-> Body, at |-> "settle"]
            /\ UNCHANGED check
  BY DEF FinishSource, At, GoTo, Done, Loud, NoJob
<1>2. /\ t \in Transactions /\ qa[t].root = closing.event /\ closing.event \in Roots
      /\ source[closing.event].tx = t /\ TrialDone /\ runs \in {0, 1}
      /\ check.receipt = "none" /\ check.grant = (IF t = Body THEN "running" ELSE "none")
      /\ check.outcome = "none" /\ check.verdict = "none"
  BY <1>1, InTransaction DEF HandsInv, StageInv, CandidateInv, Holding
<1>3. /\ source'[closing.event].state = trial.end /\ source'[closing.event].tx = t
      /\ \A u \in Transactions : u # t => qa'[u] = qa[u]
  BY <1>1, <1>2 DEF FinishQaSource, RegistryInv, RegistryTypeOK, SourceRecords
<1>4. trial.end \in {"consumed", "quarantined"} /\ closing.event # None
  BY <1>2, RegistryAssumption DEF TrialDone
<1>5. /\ check'.receipt = "none" /\ check'.outcome = "none" /\ check'.verdict = "none"
      /\ \/ t = Witness /\ job'.kind = "none" /\ check'.grant = "none"
         \/ t = Body /\ job'.kind = "none" /\ check'.grant = "quarantined"
         \/ /\ t = Body /\ job' = [kind |-> "qa", id |-> Body, at |-> "settle"]
            /\ check'.grant = "running"
  BY <1>1, <1>2, HandsAssumption DEF HandsInv, HandsTypeOK, CheckRecords
<1>6. StageInv'
  BY <1>1, <1>2, <1>3, <1>5 DEF StageInv, TrialDone, Holding
<1>7. CandidateInv'
  BY <1>1, <1>2, <1>3, <1>4 DEF CandidateInv
<1>8. CheckInv'
  <2>1. check'.grant = "none" => qa'[Body].stage = "none"
    BY <1>2, <1>3, <1>5, HandsAssumption DEF HandsInv, CheckInv
  <2> QED  BY <1>5, <2>1, HandsAssumption DEF CheckInv
<1>9. job'.kind \in {"none", "qa"}
  BY <1>5
<1> QED  BY <1>1, <1>4, <1>6, <1>7, <1>8, <1>9, QaFrame

\* The receipt tells what became of the source.
LEMMA SettleKeeps ==
  ASSUME RegistryInv, HandsInv, [RegistryNext]_registryVars, HandsTypeOK', Settle
  PROVE  HandsInv'
<1>1. /\ job = [kind |-> "qa", id |-> Body, at |-> "settle"]
      /\ job' = [kind |-> "qa", id |-> Body, at |-> "record"]
      /\ check' = [check EXCEPT !.receipt = trial.kind,
                                !.grant = IF trial.kind # "failure" THEN "completed"
                                          ELSE IF trial.end = "quarantined" THEN "quarantined"
                                          ELSE "consumed_failed"]
      /\ UNCHANGED <<work, closing, packet, trial, runs, qa, source>>
  BY DEF Settle, At, GoTo, registryVars
<1>2. closing.event \in Roots /\ closing.event # None
  BY <1>1, EventRoot, RegistryAssumption
<1>3. check.grant = "running" /\ check.receipt = "none" /\ check.outcome = "none"
      /\ check.verdict = "none"
  BY <1>1 DEF HandsInv, CheckInv
<1>4. /\ check'.receipt = trial.kind /\ check'.outcome = "none" /\ check'.verdict = "none"
      /\ check'.grant = IF trial.kind # "failure" THEN "completed"
                        ELSE IF trial.end = "quarantined" THEN "quarantined"
                        ELSE "consumed_failed"
  BY <1>1, <1>3 DEF HandsInv, HandsTypeOK, CheckRecords
<1>5. \/ TrialDone /\ source[closing.event].tx = Body /\ source[closing.event].state = trial.end
      \/ trial.kind = "failure" /\ trial.end = "not_acquired" /\ source[closing.event].tx # Body
  BY <1>1 DEF HandsInv, StageInv
<1>6. source[closing.event].state \in {"consumed", "quarantined"}
  BY <1>1, <1>2, <1>3 DEF HandsInv, CandidateInv, Holding
<1>7. StageInv'
  BY <1>1 DEF StageInv, Holding
<1>8. CandidateInv'
  BY <1>1, <1>6 DEF HandsInv, CandidateInv
<1>9. CheckInv'
  BY <1>1, <1>4, <1>5 DEF CheckInv, TrialDone
<1> QED  BY <1>1, <1>2, <1>7, <1>8, <1>9, QaFrame

\* A grant ends without a receipt, or the receipt is recorded or lost.
LEMMA RecordKeeps ==
  ASSUME RegistryInv, HandsInv, [RegistryNext]_registryVars, HandsTypeOK',
         SettleRefused \/ RecordOutcome
  PROVE  HandsInv'
<1>1. /\ job.kind = "qa" /\ job.id = Body /\ job.at \in {"settle", "record"} /\ job'.kind = "none"
      /\ UNCHANGED <<work, closing, trial, runs, qa, source>>
  BY DEF SettleRefused, RecordOutcome, At, Done, Fails, Loud, NoJob, registryVars
<1>2. closing.event \in Roots /\ closing.event # None
  BY <1>1, EventRoot, RegistryAssumption
<1>3. packet'.living => packet.living
  BY DEF SettleRefused, RecordOutcome, Done, Fails, Loud, HandsInv, HandsTypeOK, PacketRecords
<1>4. \/ /\ check.grant = "running" /\ check'.grant = "quarantined" /\ check'.receipt = check.receipt
         /\ check'.outcome = check.outcome /\ check'.verdict = check.verdict
      \/ /\ check.grant \notin {"none", "running"} /\ check'.grant = check.grant
         /\ check'.receipt = check.receipt /\ check'.outcome \in {check.outcome, check.receipt}
         /\ check'.verdict = check.verdict
  <2>1. CASE SettleRefused
    BY <2>1 DEF SettleRefused, At, HandsInv, HandsTypeOK, CheckRecords, CheckInv
  <2>2. CASE RecordOutcome
    <3>1. job.kind = "qa" /\ job.id = Body /\ job.at = "record"
      BY <2>2 DEF RecordOutcome, At
    <3>2. check.grant # "running"
      BY <3>1 DEF HandsInv, CheckInv
    <3>3. check.grant # "none"
      BY <3>1 DEF HandsInv, CheckInv
    <3> QED  BY <2>2, <3>2, <3>3 DEF RecordOutcome, HandsInv, HandsTypeOK, CheckRecords
  <2> QED  BY <2>1, <2>2
<1>5. source[closing.event].state \in {"consumed", "quarantined"}
  BY <1>1, <1>2, <1>4 DEF HandsInv, CandidateInv, Holding
<1>6. StageInv' /\ CandidateInv'
  BY <1>1, <1>5 DEF HandsInv, StageInv, CandidateInv
<1>7. CheckInv'
  BY <1>1, <1>4 DEF HandsInv, CheckInv
<1> QED  BY <1>1, <1>2, <1>3, <1>6, <1>7, QaFrame

-----------------------------------------------------------------------------
\* The theorems

LEMMA HandsInitInv == HandsInit => HandsInv
<1> SUFFICES ASSUME HandsInit PROVE HandsInv
  OBVIOUS
<1>1. HandsTypeOK
  <2>1. NoTree \in Trees /\ disk \in [Roots -> Trees]
    BY DEF HandsInit, NoTree, Trees
  <2>2. NoTrial \in TrialRecords
    BY <2>1 DEF NoTrial, TrialRecords
  <2>3. closing \in ClosingRecords
    BY <2>1 DEF HandsInit, ClosingRecords
  <2>4. check \in CheckRecords /\ packet \in PacketRecords /\ work \in [Actions -> Evidence]
    BY DEF HandsInit, CheckRecords, PacketRecords, Evidence
  <2> QED  BY <2>1, <2>2, <2>3, <2>4, JobPlaces DEF HandsInit, HandsTypeOK
<1>2. closing.event = None /\ job.kind = "none" /\ runs = 0
      /\ check.grant = "none" /\ check.receipt = "none" /\ check.outcome = "none"
      /\ check.verdict = "none"
  BY DEF HandsInit, NoJob
<1>3. qa[Body].stage = "none"
  BY HandsAssumption DEF HandsInit, RegistryInit, NoLease
<1>4. ClosingInv /\ WorkInv
  BY <1>2 DEF ClosingInv, WorkInv, HandsInit
<1>5. TxInv
  BY RegistryAssumption DEF TxInv, HandsInit, RegistryInit, NoSource
<1>6. StageInv /\ CandidateInv /\ CheckInv
  BY <1>2, <1>3 DEF StageInv, CandidateInv, CheckInv
<1> QED  BY <1>1, <1>4, <1>5, <1>6 DEF HandsInv

LEMMA HandsStep == RegistryInv /\ HandsInv /\ [HandsNext]_allVars => HandsInv'
<1> SUFFICES ASSUME RegistryInv, HandsInv, [HandsNext]_allVars PROVE HandsInv'
  OBVIOUS
<1>1. [RegistryNext]_registryVars
  BY HandsStepRefines
<1>2. CASE Host \/ Tamper \/ Drift \/ QuarantineEnvironment
  BY <1>2, WorldKeeps
<1>3. CASE \E a \in Actions : EffectWork(a)
  BY <1>3, EffectKeeps
<1>4. CASE SealWork
  BY <1>4, SealKeeps
<1>5. CASE QaWork
  <2>1. HandsTypeOK'
    BY <1>5, QaTypes
  <2> QED  BY <1>1, <1>5, <2>1, ExecuteQaKeeps, LaterKeeps, ReserveSourceKeeps, SourceDeniedKeeps,
              OpenSourceKeeps, PreflightKeeps, RunCandidateKeeps, PostflightKeeps,
              SourceUsedKeeps, FinishSourceKeeps, SettleKeeps, RecordKeeps DEF QaWork
<1>6. CASE UNCHANGED allVars
  <2>1. UNCHANGED <<disk, job, packet, work, closing, check, trial, runs>>
        /\ UNCHANGED <<root, effect, seal, source, qa>>
    BY <1>6 DEF allVars, handsVars, registryVars
  <2> QED  BY <2>1 DEF HandsInv, HandsTypeOK, ClosingInv, WorkInv, TxInv, StageInv, TrialDone,
                       CandidateInv, CheckInv
<1> QED  BY <1>2, <1>3, <1>4, <1>5, <1>6 DEF HandsNext

\* The registry's invariant and that of the Packet's work hold together
\* (repository_effect.lua, candidate_seal.lua and qa_execution.lua over
\* repository_capability.lua).
THEOREM HandsInvariant == HandsSpec => [](RegistryInv /\ HandsInv)
<1>1. HandsInit => RegistryInv /\ HandsInv
  BY HandsInitInv, RegistryInitInv DEF HandsInit
<1>2. RegistryInv /\ HandsInv /\ [HandsNext]_allVars => (RegistryInv /\ HandsInv)'
  BY HandsStep, HandsStepRefines, RegistryStep
<1> QED  BY <1>1, <1>2, PTL DEF HandsSpec

\* Whatever a build Packet does with its repository is a behaviour of the
\* registry: every operation goes through repository_capability.lua with
\* arguments it accepts.
THEOREM HandsImplementsRegistry == HandsSpec => RegistrySpec
<1>1. HandsInit => RegistryInit
  BY DEF HandsInit
<1>2. HandsInv /\ [HandsNext]_allVars => [RegistryNext]_registryVars
  BY HandsStepRefines
<1> QED  BY <1>1, <1>2, HandsInvariant, PTL DEF HandsSpec, RegistrySpec

\* A check in the body is the truth about the sealed candidate, for any
\* number of artifacts, roots and changes of the tree by the world
\* (qa_candidate_transaction.lua and qa_evidence.commit_execution).
THEOREM HandsCheckTruth == HandsSpec => []CheckTruth
<1>1. RegistryInv /\ HandsInv => CheckTruth
  <2> SUFFICES ASSUME HandsInv, check.outcome \in {"accepted", "rejected"}
               PROVE  CheckTruth
    BY DEF CheckTruth
  <2>1. check.receipt = check.outcome /\ check.verdict \in {"none", check.outcome}
    BY DEF HandsInv, CheckInv
  <2>2. check.grant = "completed"
    BY <2>1 DEF HandsInv, CheckInv
  <2>3. closing.event # None
    BY <2>2 DEF HandsInv, ClosingInv
  <2> QED  BY <2>1, <2>2, <2>3 DEF CheckTruth, HandsInv, ClosingInv, WorkInv, CheckInv
<1> QED  BY <1>1, HandsInvariant, PTL

\* The candidate process is started at most once, by the Body's execution or
\* by the provider witness, and only on the exact tree
\* (qa_candidate_transaction.lua).
THEOREM HandsCandidateRunsOnce == HandsSpec => []CandidateRunsOnce
<1>1. RegistryInv /\ HandsInv => CandidateRunsOnce
  <2> SUFFICES ASSUME HandsInv PROVE CandidateRunsOnce
    OBVIOUS
  <2>1. runs <= 1
    BY DEF HandsInv, CandidateInv
  <2>2. job.at \in {"run", "postflight"} => job.kind = "qa"
    BY DEF HandsInv, HandsTypeOK, Jobs, NoJob, EffectPlaces, SealPlaces
  <2>3. job.at \in {"run", "postflight"} => trial.pre = ExactTree
    BY <2>2 DEF HandsInv, StageInv
  <2>4. runs > 0 => closing.event # None
    BY DEF HandsInv, ClosingInv
  <2> QED  BY <2>1, <2>3, <2>4 DEF CandidateRunsOnce
<1> QED  BY <1>1, HandsInvariant, PTL

\* The outcome in the body, the private receipt, the grant and the source
\* agree (qa_capability.commit and qa_evidence.commit_execution).
THEOREM HandsOutcomeJoined == HandsSpec => []OutcomeJoined
<1>1. RegistryInv /\ HandsInv => OutcomeJoined
  <2> SUFFICES ASSUME RegistryInv, HandsInv PROVE OutcomeJoined
    OBVIOUS
  <2>1. ASSUME check.grant \notin {"none", "running"}
        PROVE  ~source[closing.event].open
    <3>1. closing.event # None /\ closing.event \in Roots
      BY <2>1, EventRoot DEF HandsInv, ClosingInv
    <3>2. ~(job.kind = "qa" /\ job.at \in Holding)
      BY <2>1 DEF HandsInv, CheckInv, Holding
    <3>3. ~(job.kind = "qa" /\ job.at = "reserve")
      BY <2>1 DEF HandsInv, CheckInv
    <3>4. source[closing.event].state \in {"consumed", "quarantined"}
      BY <2>1, <3>1, <3>2, <3>3 DEF HandsInv, CandidateInv
    <3> QED  BY <3>1, <3>4 DEF RegistryInv, SourceInv
  <2> QED  BY <2>1 DEF OutcomeJoined, HandsInv, CheckInv
<1> QED  BY <1>1, HandsInvariant, PTL

\* What a step may do once the grant has ended and no operation runs.
StaysLoud ==
  check.grant \notin {"none", "running"} /\ job = NoJob =>
    runs' = runs /\ check'.grant = check.grant /\ check'.receipt = check.receipt
    /\ check'.outcome = check.outcome

\* After the end of a QA grant a session that calls again starts no candidate
\* and makes up no outcome (qa_execution.lua).
THEOREM HandsLoudStaysLoud == HandsSpec => LoudStaysLoud
<1>1. HandsInv /\ [HandsNext]_allVars => [StaysLoud]_allVars
  <2> SUFFICES ASSUME HandsInv, HandsNext, check.grant \notin {"none", "running"}, job = NoJob
               PROVE  /\ runs' = runs /\ check'.grant = check.grant
                      /\ check'.receipt = check.receipt /\ check'.outcome = check.outcome
    BY DEF StaysLoud
  <2>1. job.kind = "none"
    BY DEF NoJob
  <2>2. CASE Host \/ Tamper \/ Drift \/ QuarantineEnvironment
    BY <2>2 DEF Host, Tamper, Drift, QuarantineEnvironment, handsVars
  <2>3. ASSUME NEW a \in Actions, EffectWork(a)
        PROVE  UNCHANGED <<runs, check>>
    BY <2>3 DEF EffectWork, Authorize, ExecuteEffect, EffectRefused, CallProvider, Created, ReadBack,
       CloseRoot, CompleteWork, ProviderFails, ProviderAmbiguous, ProviderMalformed,
       ProviderContract, ProviderPanics, handsVars
  <2>4. CASE SealWork
    BY <2>4 DEF SealWork, PrepareSeal, ExecuteSeal, CallInventory, TreeObserved, TreeNotObserved,
       SealPanics, SealAborts, SealQuarantines, SealCommits, RecordSeal
  <2>5. CASE ExecuteQaLater \/ CommitVerdict
    BY <2>5 DEF ExecuteQaLater, CommitVerdict, HandsInv, HandsTypeOK, CheckRecords
  <2>6. CASE ExecuteQa \/ ExecuteWitness
    BY <2>6 DEF ExecuteQa, ExecuteWitness
  <2>7. ~(ReserveSource \/ SourceDenied \/ Settle \/ SettleRefused \/ RecordOutcome)
    BY <2>1 DEF ReserveSource, SourceDenied, Settle, SettleRefused, RecordOutcome, At
  <2>8. ASSUME NEW t \in {Body, Witness}
        PROVE  ~(\/ OpenSource(t) \/ Preflight(t) \/ RunCandidate(t) \/ Postflight(t)
                 \/ SourceUsed(t) \/ FinishSource(t))
    <3>1. \A at \in Holding : ~At("qa", t, at)
      BY <2>1 DEF At
    <3> QED  BY <3>1 DEF OpenSource, Preflight, RunCandidate, Postflight, SourceUsed, FinishSource,
                         Holding
  <2> QED  BY <2>2, <2>3, <2>4, <2>5, <2>6, <2>7, <2>8 DEF HandsNext, QaWork
<1>2. [][StaysLoud]_allVars <=> LoudStaysLoud
  BY PTL DEF StaysLoud, LoudStaysLoud
<1> QED  BY <1>1, <1>2, HandsInvariant, PTL DEF HandsSpec

=============================================================================
