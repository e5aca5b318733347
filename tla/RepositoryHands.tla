-------------------------- MODULE RepositoryHands --------------------------
(***************************************************************************)
(* One build Packet working on its repository: it writes its artifacts     *)
(* (runtime/repository_effect.lua), seals the written tree as a candidate  *)
(* (runtime/candidate_seal.lua) and has the sealed candidate tested once   *)
(* (runtime/qa_execution.lua, qa_candidate_transaction.lua), every step    *)
(* through the registry of RepositoryCapability.                           *)
(*                                                                         *)
(* The session runs one operation at a time (job), but each provider call  *)
(* is two steps and the world may change the tree between any two steps.   *)
(* An operation ends in one of three ways: with a result; with a typed     *)
(* effect failure, which kills the Packet in the same tick; or loudly,     *)
(* with a runtime error the caller sees, after which the session may call  *)
(* again.  An artifact is its action: one work unit, one path, one         *)
(* content.                                                                *)
(***************************************************************************)
EXTENDS RepositoryCapability

CONSTANTS
  Body,       \* the transaction of the Packet's QA execution
  Witness,    \* the transaction of the provider witness
  MaxTampers  \* bound: changes of the tree by the world

ASSUME HandsAssumption ==
  {Body, Witness} \subseteq Transactions /\ Body # Witness /\ MaxTampers \in Nat

VARIABLES
  disk,     \* the tree of each root: what is at the path of each artifact, other entries
  tampers,  \* changes the world has made
  job,      \* the operation in progress
  packet,   \* living; drift: the formed artifacts are no longer the declared
  work,     \* evidence in the body about each artifact
  closing,  \* root and revision named by the prepared seal request, the inventory,
            \* and the root named by the seal event in the body
  check,    \* private QA grant and receipt; request, outcome and verdict in the body
  trial,    \* the running QA transaction
  runs,     \* candidate processes started
  env       \* the measured QA environment

handsVars == <<disk, tampers, job, packet, work, closing, check, trial, runs, env>>
allVars == <<registryVars, handsVars>>

NoJob == [kind |-> "none", id |-> None, at |-> "none"]
NoTree == [files |-> [a \in Actions |-> "unknown"], extra |-> FALSE]
NoTrial == [kind |-> "none", end |-> "none", loud |-> FALSE, pre |-> NoTree, post |-> NoTree]

\* The tree that holds exactly the artifacts.
ExactTree == [files |-> [a \in Actions |-> "exact"], extra |-> FALSE]

HandsInit ==
  /\ RegistryInit
  /\ disk = [r \in Roots |-> [files |-> [a \in Actions |-> "absent"], extra |-> FALSE]]
  /\ tampers = 0
  /\ job = NoJob
  /\ packet = [living |-> TRUE, drift |-> FALSE]
  /\ work = [a \in Actions |-> "none"]
  /\ closing = [root |-> None, rev |-> 0, tree |-> NoTree, event |-> None]
  /\ check = [requested |-> FALSE, grant |-> "none", receipt |-> "none",
              outcome |-> "none", verdict |-> "none"]
  /\ trial = NoTrial
  /\ runs = 0
  /\ env = "available"

\* The Packet may start an operation.
Ready == job = NoJob /\ packet.living

At(kind, id, at) == job = [kind |-> kind, id |-> id, at |-> at]
GoTo(kind, id, at) == job' = [kind |-> kind, id |-> id, at |-> at]

\* The three ends of an operation.
Done == job' = NoJob /\ UNCHANGED packet
Fails == job' = NoJob /\ packet' = [packet EXCEPT !.living = FALSE]
Loud == job' = NoJob /\ UNCHANGED packet

-----------------------------------------------------------------------------
\* The host and the world

\* Grants are made and withdrawn between operations.
Host ==
  /\ job = NoJob
  /\ \/ \E g \in Grants, r \in Roots, o \in Owners : Mint(g, r, o)
     \/ \E g \in Grants : Revoke(g)
  /\ UNCHANGED handsVars

\* The world changes one entry of a tree, at any moment.
Tamper ==
  /\ tampers < MaxTampers
  /\ \E r \in Roots :
       \/ \E a \in Actions, c \in {"absent", "exact", "foreign"} :
            disk' = [disk EXCEPT ![r].files[a] = c]
       \/ disk' = [disk EXCEPT ![r].extra = ~@]
  /\ tampers' = tampers + 1
  /\ UNCHANGED <<registryVars, job, packet, work, closing, check, trial, runs, env>>

\* The field forms other repository units, or drops them again.
Drift ==
  /\ Ready
  /\ packet' = [packet EXCEPT !.drift = ~@]
  /\ UNCHANGED <<registryVars, disk, tampers, job, work, closing, check, trial, runs, env>>

\* The environment is withdrawn for good.
QuarantineEnvironment ==
  /\ job = NoJob /\ env = "available"
  /\ env' = "quarantined"
  /\ UNCHANGED <<registryVars, disk, tampers, job, packet, work, closing, check, trial, runs>>

-----------------------------------------------------------------------------
\* Writing an artifact

Authorize(a) ==
  /\ Ready
  /\ \E o \in Owners, n \in Generations : Resolve(a, o, n)
  /\ UNCHANGED handsVars

\* repository_action.materialize: the grant of the action is still the one.
Materializes(a) ==
  Matches(root[EffectRoot(a)].owner, action[a].gen) = {action[a].grant}

\* The attempt is recorded in the body before the authority is consumed.
ExecuteEffect(a) ==
  /\ Ready
  /\ action[a] # NoAction
  /\ Materializes(a)
  /\ BeginEffect(a)
  /\ work' = [work EXCEPT ![a] = "attempted"]
  /\ GoTo("effect", a, "create")
  /\ UNCHANGED <<disk, tampers, packet, closing, check, trial, runs, env>>

\* No current grant, an action dispatched before, or no effects left.
EffectRefused(a) ==
  /\ Ready
  /\ action[a] # NoAction
  /\ \/ ~Materializes(a) /\ UNCHANGED work
     \/ /\ Materializes(a)
        /\ \/ a \in dispatched[action[a].grant]
           \/ used[action[a].grant][action[a].gen] >= MaxEffects
        /\ work' = [work EXCEPT ![a] = "attempted"]
  /\ Fails
  /\ UNCHANGED <<registryVars, disk, tampers, closing, check, trial, runs, env>>

CallProvider(a) ==
  /\ \/ At("effect", a, "create") /\ EffectCreate(a) /\ GoTo("effect", a, "creating")
     \/ At("effect", a, "read") /\ EffectReadBack(a) /\ GoTo("effect", a, "reading")
  /\ UNCHANGED <<disk, tampers, packet, work, closing, check, trial, runs, env>>

\* A create publishes the file only where nothing is.
Published(a) ==
  /\ disk[EffectRoot(a)].files[a] = "absent"
  /\ disk' = [disk EXCEPT ![EffectRoot(a)].files[a] = "exact"]

MaybePublished(a, phase) ==
  \/ UNCHANGED disk
  \/ phase = "creating" /\ Published(a)

\* The receipt is recorded before the read-back; a body that does not accept
\* it leaves a file nobody has evidence of.
Created(a) ==
  /\ At("effect", a, "creating")
  /\ Published(a)
  /\ Return(a, "creating", "created")
  /\ \/ /\ work' = [work EXCEPT ![a] = "received"]
        /\ GoTo("effect", a, "read")
        /\ UNCHANGED packet
     \/ UNCHANGED work /\ Loud
  /\ UNCHANGED <<tampers, closing, check, trial, runs, env>>

\* The read-back decides: only the exact content is accepted.
ReadBack(a) ==
  /\ At("effect", a, "reading")
  /\ Return(a, "reading", "read")
  /\ \/ /\ work' = [work EXCEPT ![a] =
             IF disk[EffectRoot(a)].files[a] = "exact" THEN "accepted" ELSE "rejected"]
        /\ Done
     \/ UNCHANGED work /\ Loud
  /\ UNCHANGED <<disk, tampers, closing, check, trial, runs, env>>

\* A typed world error: the effect failure is the Packet's death.
ProviderFails(a, phase) ==
  /\ At("effect", a, phase)
  /\ Return(a, phase, "failed")
  /\ MaybePublished(a, phase)
  /\ Fails
  /\ UNCHANGED <<tampers, work, closing, check, trial, runs, env>>

\* An ambiguous error leaves open whether the file is there: the root is
\* closed before the effect failure is returned.
ProviderAmbiguous(a, phase) ==
  /\ At("effect", a, phase)
  /\ Return(a, phase, "failed")
  /\ MaybePublished(a, phase)
  /\ GoTo("effect", a, "ambiguous")
  /\ UNCHANGED <<tampers, packet, work, closing, check, trial, runs, env>>

\* A malformed result closes the root too, but is loud.
ProviderMalformed(a, phase) ==
  /\ At("effect", a, phase)
  /\ Return(a, phase, IF phase = "creating" THEN "created" ELSE "read")
  /\ MaybePublished(a, phase)
  /\ work' = [work EXCEPT ![a] = "broken"]
  /\ GoTo("effect", a, "malformed")
  /\ UNCHANGED <<tampers, packet, closing, check, trial, runs, env>>

\* A malformed error, or an error of class contract, is only loud.
ProviderContract(a, phase) ==
  /\ At("effect", a, phase)
  /\ Return(a, phase, "failed")
  /\ MaybePublished(a, phase)
  /\ work' = [work EXCEPT ![a] = "broken"]
  /\ Loud
  /\ UNCHANGED <<tampers, closing, check, trial, runs, env>>

ProviderPanics(a, phase) ==
  /\ At("effect", a, phase)
  /\ EffectPanic(a, phase)
  /\ MaybePublished(a, phase)
  /\ work' = [work EXCEPT ![a] = "broken"]
  /\ Loud
  /\ UNCHANGED <<tampers, closing, check, trial, runs, env>>

CloseRoot(a) ==
  /\ QuarantineEffect(a)
  /\ \/ At("effect", a, "ambiguous") /\ Fails
     \/ At("effect", a, "malformed") /\ Loud
  /\ UNCHANGED <<disk, tampers, work, closing, check, trial, runs, env>>

\* work_completion: a later tick turns an accepted chain into a completion.
CompleteWork(a) ==
  /\ Ready
  /\ work[a] = "accepted"
  /\ work' = [work EXCEPT ![a] = "complete"]
  /\ UNCHANGED <<registryVars, disk, tampers, job, packet, closing, check, trial, runs, env>>

EffectWork(a) ==
  \/ Authorize(a) \/ ExecuteEffect(a) \/ EffectRefused(a) \/ CallProvider(a)
  \/ Created(a) \/ ReadBack(a) \/ CloseRoot(a) \/ CompleteWork(a)
  \/ \E phase \in {"creating", "reading"} :
       \/ ProviderFails(a, phase) \/ ProviderAmbiguous(a, phase)
       \/ ProviderMalformed(a, phase) \/ ProviderContract(a, phase)
       \/ ProviderPanics(a, phase)

-----------------------------------------------------------------------------
\* Sealing the candidate

\* derive_body_evidence: the declared artifacts are the formed ones, and each
\* is complete on accepted exact evidence.
BodyEvidence == ~packet.drift /\ \A a \in Actions : work[a] = "complete"

\* The root the Packet works on and the grant it has there.
Workplace(r, g) ==
  \E n \in Generations : Matches(root[r].owner, n) = {g} /\ grant[g].root = r

PrepareSeal ==
  /\ Ready
  /\ BodyEvidence
  /\ \E r \in Roots, g \in Grants :
       /\ Workplace(r, g)
       /\ root[r].state = "materializing"
       /\ ActiveGrants(r) = {g}
       /\ inflight[r] = {}
       /\ closing' = [closing EXCEPT !.root = r, !.rev = root[r].rev]
  /\ UNCHANGED <<registryVars, disk, tampers, job, packet, work, check, trial, runs, env>>

\* A request that is stale, by the body or by the root, is refused.
ExecuteSeal(s) ==
  /\ Ready
  /\ BodyEvidence
  /\ closing.event = None /\ closing.root # None
  /\ closing.rev = root[closing.root].rev
  /\ \E g \in Grants : BeginCandidateSeal(s, closing.root, g)
  /\ GoTo("seal", s, "inventory")
  /\ UNCHANGED <<disk, tampers, packet, work, closing, check, trial, runs, env>>

CallInventory(s) ==
  /\ At("seal", s, "inventory")
  /\ InventoryCandidate(s)
  /\ GoTo("seal", s, "inventorying")
  /\ UNCHANGED <<disk, tampers, packet, work, closing, check, trial, runs, env>>

\* A stable observation of the tree.
TreeObserved(s) ==
  /\ At("seal", s, "inventorying")
  /\ CandidateInventoried(s)
  /\ closing' = [closing EXCEPT !.tree = disk[seal[s].root]]
  /\ GoTo("seal", s, "compare")
  /\ UNCHANGED <<disk, tampers, packet, work, check, trial, runs, env>>

\* A tree beyond the bounds proves that there is no closure; an error, an
\* unstable tree, a malformed result or another root prove nothing.
TreeNotObserved(s) ==
  /\ At("seal", s, "inventorying")
  /\ CandidateInventoried(s)
  /\ \E at \in {"unbounded", "unproven"} : GoTo("seal", s, at)
  /\ UNCHANGED <<disk, tampers, packet, work, closing, check, trial, runs, env>>

SealPanics(s) ==
  /\ At("seal", s, "inventorying")
  /\ InventoryPanics(s)
  /\ Loud
  /\ UNCHANGED <<disk, tampers, work, closing, check, trial, runs, env>>

\* compare_inventory: nothing missing, nothing changed, nothing extra.
ExactInventory(tree) == tree = ExactTree

SealAborts(s) ==
  /\ \/ At("seal", s, "unbounded")
     \/ At("seal", s, "compare") /\ ~ExactInventory(closing.tree)
  /\ AbortCandidateSeal(s)
  /\ Done
  /\ UNCHANGED <<disk, tampers, work, closing, check, trial, runs, env>>

SealQuarantines(s) ==
  /\ At("seal", s, "unproven")
  /\ QuarantineCandidateSeal(s)
  /\ Done
  /\ UNCHANGED <<disk, tampers, work, closing, check, trial, runs, env>>

SealCommits(s) ==
  /\ At("seal", s, "compare")
  /\ ExactInventory(closing.tree)
  /\ CommitCandidateSeal(s)
  /\ GoTo("seal", s, "record")
  /\ UNCHANGED <<disk, tampers, packet, work, closing, check, trial, runs, env>>

\* The closure is private and for good; the body's event follows it.  When
\* the event is not accepted every later call finds a closure without one.
RecordSeal(s) ==
  /\ At("seal", s, "record")
  /\ \/ closing' = [closing EXCEPT !.event = seal[s].root] /\ Done
     \/ UNCHANGED closing /\ Loud
  /\ UNCHANGED <<registryVars, disk, tampers, work, check, trial, runs, env>>

SealWork ==
  \/ PrepareSeal
  \/ \E s \in Seals :
       \/ ExecuteSeal(s) \/ CallInventory(s) \/ TreeObserved(s) \/ TreeNotObserved(s)
       \/ SealPanics(s) \/ SealAborts(s) \/ SealQuarantines(s) \/ SealCommits(s)
       \/ RecordSeal(s)

-----------------------------------------------------------------------------
\* Testing the sealed candidate

\* The seal in the body still agrees with the artifacts of the body.
Aligned == closing.event # None /\ BodyEvidence

\* Mutation: a grant that was used before may run again.
ExecuteQaAgain ==
  /\ Ready
  /\ Aligned
  /\ check.outcome = "none"
  /\ env = "available"
  /\ check' = [check EXCEPT !.requested = TRUE, !.grant = "running"]
  /\ GoTo("qa", Body, "reserve")
  /\ UNCHANGED <<registryVars, disk, tampers, packet, work, closing, trial, runs, env>>

\* A first execution records its request, and mints and begins the grant.
ExecuteQa ==
  /\ Ready
  /\ Aligned
  /\ check.grant = "none"
  /\ env = "available"
  /\ check' = [check EXCEPT !.requested = TRUE, !.grant = "running"]
  /\ GoTo("qa", Body, "reserve")
  /\ UNCHANGED <<registryVars, disk, tampers, packet, work, closing, trial, runs, env>>

\* A later one replays the outcome (a failure is the Packet's death again),
\* or is loud when the grant left none; without an environment only the
\* request is recorded.
ExecuteQaLater ==
  /\ Ready
  /\ Aligned
  /\ check.grant # "none" \/ env # "available"
  /\ check' = [check EXCEPT !.requested = TRUE]
  /\ IF check.outcome = "failure" THEN Fails ELSE Done
  /\ UNCHANGED <<registryVars, disk, tampers, work, closing, trial, runs, env>>

ReserveSource ==
  /\ At("qa", Body, "reserve")
  /\ ReserveQaSource(Body, closing.event)
  /\ GoTo("qa", Body, "open")
  /\ UNCHANGED <<disk, tampers, packet, work, closing, check, trial, runs, env>>

\* Someone used the source before: the denial is the result.
SourceDenied ==
  /\ At("qa", Body, "reserve")
  /\ root[closing.event].state = "sealed" /\ source[closing.event].state # "available"
  /\ trial' = [NoTrial EXCEPT !.kind = "failure", !.end = "not_acquired"]
  /\ GoTo("qa", Body, "settle")
  /\ UNCHANGED <<registryVars, disk, tampers, packet, work, closing, check, runs, env>>

\* The provider witness uses the source of a sealed candidate outside the body.
ExecuteWitness ==
  /\ Ready
  /\ Aligned
  /\ ReserveQaSource(Witness, closing.event)
  /\ GoTo("qa", Witness, "open")
  /\ UNCHANGED <<disk, tampers, packet, work, closing, check, trial, runs, env>>

OpenSource(t) ==
  /\ At("qa", t, "open")
  /\ WithQaSource(t)
  /\ trial' = NoTrial
  /\ GoTo("qa", t, "preflight")
  /\ UNCHANGED <<disk, tampers, packet, work, closing, check, runs, env>>

\* The transaction has its result.
Concludes(t, kind, end, isLoud) ==
  /\ trial' = [trial EXCEPT !.kind = kind, !.end = end, !.loud = isLoud]
  /\ GoTo("qa", t, "used")

\* Mutation: the tree is not compared with the sealed one.
PreflightUnchecked(t) ==
  /\ At("qa", t, "preflight")
  /\ trial' = [trial EXCEPT !.pre = disk[closing.event]]
  /\ GoTo("qa", t, "run")
  /\ UNCHANGED <<registryVars, disk, tampers, packet, work, closing, check, runs, env>>

\* The tree must be the sealed one before the candidate is started.
Preflight(t) ==
  /\ At("qa", t, "preflight")
  /\ \/ /\ disk[closing.event] = closing.tree
        /\ trial' = [trial EXCEPT !.pre = disk[closing.event]]
        /\ GoTo("qa", t, "run")
     \/ disk[closing.event] # closing.tree /\ Concludes(t, "failure", "consumed", FALSE)
     \/ Concludes(t, "failure", "consumed", FALSE)      \* no exact observation
     \/ Concludes(t, "failure", "quarantined", TRUE)    \* contradicts the root
  /\ UNCHANGED <<registryVars, disk, tampers, packet, work, closing, check, runs, env>>

\* The provider runs the candidate: a report, a clean error before the start,
\* an error that may come after it, or no usable answer at all.
RunCandidate(t) ==
  /\ At("qa", t, "run")
  /\ \/ /\ \E verdict \in {"accepted", "rejected"} : trial' = [trial EXCEPT !.kind = verdict]
        /\ runs' = runs + 1
        /\ GoTo("qa", t, "postflight")
     \/ /\ trial' = [trial EXCEPT !.kind = "failure", !.end = "consumed"]
        /\ UNCHANGED runs
        /\ GoTo("qa", t, "postflight")
     \/ /\ trial' = [trial EXCEPT !.kind = "failure", !.end = "quarantined"]
        /\ runs' \in {runs, runs + 1}
        /\ GoTo("qa", t, "postflight")
     \/ /\ Concludes(t, "failure", "quarantined", TRUE)
        /\ runs' \in {runs, runs + 1}
  /\ UNCHANGED <<registryVars, disk, tampers, packet, work, closing, check, env>>

\* Mutation: what the run left behind is not compared.
PostflightUnchecked(t) ==
  /\ At("qa", t, "postflight")
  /\ trial' = [trial EXCEPT !.post = disk[closing.event],
                                !.end = IF @ = "none" THEN "consumed" ELSE @]
  /\ GoTo("qa", t, "used")
  /\ UNCHANGED <<registryVars, disk, tampers, packet, work, closing, check, runs, env>>

\* The tree must be the same after the run: a report on a source that
\* drifted is no report.
Postflight(t) ==
  /\ At("qa", t, "postflight")
  /\ \/ /\ disk[closing.event] = trial.pre
        /\ trial' = [trial EXCEPT !.post = disk[closing.event],
                                !.end = IF @ = "none" THEN "consumed" ELSE @]
        /\ GoTo("qa", t, "used")
     \/ disk[closing.event] # trial.pre /\ Concludes(t, "failure", "quarantined", FALSE)
     \/ \E isLoud \in BOOLEAN : Concludes(t, "failure", "quarantined", isLoud)
  /\ UNCHANGED <<registryVars, disk, tampers, packet, work, closing, check, runs, env>>

SourceUsed(t) ==
  /\ At("qa", t, "used")
  /\ QaSourceUsed(t)
  /\ GoTo("qa", t, "finish")
  /\ UNCHANGED <<disk, tampers, packet, work, closing, check, trial, runs, env>>

\* The source gets its disposition before anything is loud or reported.
FinishSource(t) ==
  /\ At("qa", t, "finish")
  /\ FinishQaSource(t, trial.end)
  /\ \/ t = Witness /\ Done /\ UNCHANGED check
     \/ t = Body /\ trial.loud /\ Loud /\ check' = [check EXCEPT !.grant = "quarantined"]
     \/ t = Body /\ ~trial.loud /\ GoTo("qa", t, "settle") /\ UNCHANGED <<packet, check>>
  /\ UNCHANGED <<disk, tampers, work, closing, trial, runs, env>>

\* qa_capability.commit: the receipt is made with the end of the grant.
Settle ==
  /\ At("qa", Body, "settle")
  /\ check' = [check EXCEPT !.receipt = trial.kind,
                            !.grant = IF trial.kind # "failure" THEN "completed"
                                      ELSE IF trial.end = "quarantined" THEN "quarantined"
                                      ELSE "consumed_failed"]
  /\ GoTo("qa", Body, "record")
  /\ UNCHANGED <<registryVars, disk, tampers, packet, work, closing, trial, runs, env>>

\* A result that does not normalize ends the grant without a receipt.
SettleRefused ==
  /\ At("qa", Body, "settle")
  /\ check' = [check EXCEPT !.grant = "quarantined"]
  /\ Loud
  /\ UNCHANGED <<registryVars, disk, tampers, work, closing, trial, runs, env>>

\* Mutation: whatever was run is recorded as a check.
RecordOutcomeAsCheck ==
  /\ At("qa", Body, "record")
  /\ check' = [check EXCEPT !.outcome = IF runs > 0 THEN "accepted" ELSE check.receipt]
  /\ Done
  /\ UNCHANGED <<registryVars, disk, tampers, work, closing, trial, runs, env>>

\* qa_evidence.commit_execution: the receipt becomes the outcome in the body,
\* a failure kills the Packet; a body that does not accept it is loud.
RecordOutcome ==
  /\ At("qa", Body, "record")
  /\ \/ /\ check' = [check EXCEPT !.outcome = check.receipt]
        /\ IF check.receipt = "failure" THEN Fails ELSE Done
     \/ UNCHANGED check /\ Loud
  /\ UNCHANGED <<registryVars, disk, tampers, work, closing, trial, runs, env>>

\* qa_verdict: a later tick turns a current check into the verdict.
CommitVerdict ==
  /\ Ready
  /\ Aligned
  /\ check.outcome \in {"accepted", "rejected"}
  /\ check.verdict = "none"
  /\ check' = [check EXCEPT !.verdict = check.outcome]
  /\ UNCHANGED <<registryVars, disk, tampers, job, packet, work, closing, trial, runs, env>>

QaWork ==
  \/ ExecuteQa \/ ExecuteQaLater \/ ReserveSource \/ SourceDenied \/ ExecuteWitness
  \/ \E t \in {Body, Witness} :
       \/ OpenSource(t) \/ Preflight(t) \/ RunCandidate(t) \/ Postflight(t)
       \/ SourceUsed(t) \/ FinishSource(t)
  \/ Settle \/ SettleRefused \/ RecordOutcome \/ CommitVerdict

HandsNext ==
  \/ Host \/ Tamper \/ Drift \/ QuarantineEnvironment
  \/ \E a \in Actions : EffectWork(a)
  \/ SealWork
  \/ QaWork

HandsSpec == HandsInit /\ [][HandsNext]_allVars

-----------------------------------------------------------------------------
\* Properties

\* A check in the body is the truth about the sealed candidate: every
\* artifact was written and read back, and a living Packet still has its
\* evidence; the root is sealed, the candidate process was started, and the
\* tree seen by the seal, before the run and after it is exactly the declared
\* artifacts; the verdict is that check's.
CheckTruth ==
  check.outcome \in {"accepted", "rejected"} =>
    /\ \A a \in Actions : effect[a].stage = "read" /\ (packet.living => work[a] = "complete")
    /\ root[closing.event].state = "sealed"
    /\ source[closing.event].tx = Body /\ source[closing.event].state = "consumed"
    /\ trial.pre = ExactTree /\ trial.post = ExactTree /\ closing.tree = ExactTree
    /\ runs = 1
    /\ check.verdict \in {"none", check.outcome}

\* The candidate process is started at most once, whoever starts it and
\* however often an execution is repeated, and only after the tree was seen to
\* be exactly the declared artifacts; a candidate whose seal was committed
\* in the registry but did not reach the body is never started.
CandidateRunsOnce ==
  /\ runs <= 1
  /\ job.at \in {"run", "postflight"} => trial.pre = ExactTree
  /\ runs > 0 => closing.event # None

\* The body's outcome, the private receipt, the grant and the source agree:
\* an outcome has its receipt, a receipt has the disposition of the source it
\* reports, and what left no receipt leaves the source closed.
OutcomeJoined ==
  /\ check.outcome \in {"none", check.receipt}
  /\ check.receipt # "none" =>
       /\ check.grant = "completed" <=> check.receipt # "failure"
       /\ check.grant = "quarantined" <=>
            source[closing.event].tx = Body /\ source[closing.event].state = "quarantined"
       /\ check.grant = "completed" =>
            source[closing.event].tx = Body /\ source[closing.event].state = "consumed"
  /\ check.grant \notin {"none", "running"} => ~source[closing.event].open

\* What ended loudly stays without an answer: after a QA grant has ended, a
\* session that calls again can start no candidate, and an outcome that was
\* not recorded then is never made up.
LoudStaysLoud ==
  [][check.grant \notin {"none", "running"} /\ job = NoJob =>
       runs' = runs /\ check'.grant = check.grant /\ check'.receipt = check.receipt
       /\ check'.outcome = check.outcome]_allVars

\* Provider output that breaks its contract closes the root.
MalformedClosesRoot ==
  \A a \in Actions :
    work[a] = "broken" /\ job = NoJob => root[EffectRoot(a)].state = "quarantined"

=============================================================================
