----------------------------- MODULE QaRunProofs -----------------------------
(***************************************************************************)
(* Proofs about QaRun.  RunInv relates the four processes of a run: what   *)
(* the controller has observed of the candidate, what its report may then  *)
(* say, which frames can be in the public pipe, and what the launcher may  *)
(* conclude from the end of the pipe and the death of the supervisor.  It  *)
(* gives the safety of the outcome for any limit, any output and any       *)
(* number of failing system calls.                                         *)
(***************************************************************************)
EXTENDS QaRun, SequenceTheorems, FiniteSetTheorems, TLAPS

\* Where the candidate is when it has sent its STARTED frame.
Begun == {"started", "waiting", "running", "telling", "closing"}
CandPlaces == Begun \cup {"unborn", "setup", "dead", "reaped"}
Exits == {"none", "zero", "nonzero", "xcpu", "sys", "kill", "segv"}

CandRecords == [at : CandPlaces, exit : Exits, late : BOOLEAN]

\* Causes read from the wait status, and those observed by the controller.
TerminalCauses ==
  {"expected_exit", "unexpected_exit", "cpu_limit", "sandbox_policy_violation", "signal"}
LimitCauses == {"output_limit", "memory_limit", "wall_timeout"}

CtlPlaces ==
  {"unborn", "sync", "prepare", "await", "scan", "epoch", "measure", "write", "abort",
   "exit0", "exit124", "killed"}
SupPlaces ==
  {"unborn", "preflight", "spawn", "map", "collect", "finalize", "close", "exit0", "exit127",
   "killed"}
Watched == {"stdout", "stderr", "pidfd", "timer", "status"}

CtlRecords ==
  [at : CtlPlaces, scan : 1..5, ready : SUBSET Watched, eof : SUBSET Watched,
   cause : TerminalCauses \cup LimitCauses \cup {"none"},
   error : {"none", "stdout", "stderr", "scratch"}, heard : BOOLEAN, killed : BOOLEAN]

Reports ==
  [kind : {"result", "error"},
   what : TerminalCauses \cup LimitCauses \cup {"none", "stdout", "stderr", "scratch"}]

FrameErrors ==
  {"supervisor_unavailable", "scratch_observation_incomplete", "output_observation_incomplete",
   "namespace_cleanup_incomplete"}
Frames ==
  [kind : {"started"}, what : {"none"}]
  \cup [kind : {"result"}, what : TerminalCauses \cup LimitCauses \cup {"none"}]
  \cup [kind : {"error"}, what : FrameErrors]

LchRecords ==
  [at : {"launch", "collect", "done", "crashed"}, started : BOOLEAN,
   terminal : Frames \cup {NoReport}, broken : BOOLEAN,
   infra : {"none", "result_pipe_lost", "reap_ambiguous"}, watchdog : BOOLEAN, eof : BOOLEAN,
   reap : {"none", "clean", "dirty", "unknown"}]

RunTypeOK ==
  /\ cand \in CandRecords
  /\ written \in [Streams -> Nat]
  /\ seen \in [Streams -> Nat]
  /\ timer \in {"off", "armed", "expired", "consumed"}
  /\ ctl \in CtlRecords
  /\ report \in {NoReport} \cup Reports
  /\ wire \in Seq(Frames)
  /\ sup \in SupPlaces
  /\ lch \in LchRecords

\* The candidate lives between its fork and its reaping by the controller or
\* the end of the namespace; it is late only when it died with the timer out.
CandInv ==
  /\ ctl.at \in {"unborn", "sync", "prepare"} => cand.at = "unborn"
  /\ ctl.at \in {"await", "scan", "epoch"} => cand.at # "unborn"
  /\ ctl.at \in {"measure", "write", "exit0"} => cand.at = "reaped"
  /\ ctl.at \in {"exit124", "killed"} => cand.at \in {"unborn", "reaped"}
  /\ cand.at = "unborn" => timer = "off" /\ "ready" \notin status
  /\ cand.late => cand.at \in {"dead", "reaped"} /\ timer \in {"expired", "consumed"}

\* What the controller knows.  It looks at the candidate before it looks at
\* the timer, so a candidate that died late is seen with its timer.
WatchInv ==
  /\ ctl.at \in {"scan", "epoch"} => timer # "off"
  /\ ctl.at \in {"unborn", "sync", "prepare", "await"} => ctl.cause = "none" /\ ctl.ready = {}
  /\ timer = "consumed" => ctl.cause # "none"
  /\ ctl.cause = "wall_timeout" => timer = "consumed"
  /\ ctl.cause \in TerminalCauses => cand.at = "reaped" /\ ~cand.late
  /\ (ctl.at \in {"scan", "epoch"} /\ "pidfd" \in ctl.ready) => cand.at = "dead"
  /\ (/\ ctl.at = "epoch" \/ (ctl.at = "scan" /\ ctl.scan = 5)
      /\ "pidfd" \in ctl.ready /\ cand.late /\ ctl.cause = "none") => "timer" \in ctl.ready
  /\ \A s \in Streams :
       /\ seen[s] <= written[s]
       /\ s \in ctl.eof => cand.at \in {"dead", "reaped"} /\ seen[s] = written[s]

\* A report without an error is a valid one, over streams read to their end.
Settled == ReportValid /\ Streams \subseteq ctl.eof

ReportInv ==
  /\ (ctl.at = "measure" /\ ctl.error = "none") => Streams \subseteq ctl.eof
  /\ (ctl.at = "write" /\ ctl.error = "none") => Settled
  /\ report # NoReport => ctl.at \in {"exit0", "exit124"} /\ cand.at = "reaped"
  /\ report.kind = "result" => report.what = ctl.cause /\ Settled

\* A result frame is the report of a controller that ended cleanly; the
\* supervisor's own error frame means that there never was a controller.
Sound(f, rep, controller, supervisor) ==
  /\ f.kind = "result" => f = rep /\ controller = "exit0"
  /\ f.what = "supervisor_unavailable" => supervisor = "exit0" /\ controller = "unborn"

FrameInv ==
  /\ Sound(lch.terminal, report, ctl.at, sup)
  /\ \A i \in 1..Len(wire) : Sound(wire[i], report, ctl.at, sup)

\* The launcher has read the STARTED frame, will read it, or gave up.
Told == lch.started \/ lch.broken \/ \E i \in 1..Len(wire) : wire[i].kind = "started"

ToldInv == (cand.at \in Begun \/ "ready" \in status \/ timer # "off") => Told

\* The supervisor and its controller, and what the launcher may conclude.
OrderInv ==
  /\ lch.at = "launch" => sup = "unborn"
  /\ lch.at = "collect" => sup # "unborn"
  /\ sup \in {"unborn", "preflight", "spawn"} => ctl.at = "unborn"
  /\ sup = "map" => ctl.at = "sync"
  /\ sup = "finalize" => report # NoReport
  /\ lch.eof => wire = <<>> /\ ~WriterLeft /\ lch.at # "launch"
  /\ lch.reap # "none" => ~SupervisorAlive /\ lch.at # "launch"

OutcomeInv ==
  /\ outcome # NoOutcome => lch.at = "done"
  /\ outcome.kind = "result" =>
       report.kind = "result" /\ outcome.what = report.what
  /\ (outcome.cleanup = "complete" /\ outcome.what # "source_staging_failed") =>
       ~SupervisorAlive /\ ctl.at \in {"unborn", "exit0"}
  /\ (/\ outcome.start = "not_started" /\ outcome.what # "source_staging_failed"
      /\ outcome.what = "result_pipe_lost" => outcome.cleanup = "complete") =>
       \/ ctl.at = "unborn" /\ ~SupervisorAlive
       \/ lch.eof /\ ~lch.started /\ ~lch.broken

RunInv ==
  /\ RunTypeOK /\ CandInv /\ WatchInv /\ ReportInv /\ FrameInv /\ ToldInv /\ OrderInv
  /\ OutcomeInv

-----------------------------------------------------------------------------
\* Facts used for several actions

StartedFrame == [kind |-> "started", what |-> "none"]

\* A frame is added to the public pipe.
LEMMA FrameAdded ==
  ASSUME wire \in Seq(Frames), UNCHANGED lch, NEW f \in Frames, wire' = Append(wire, f)
  PROVE  /\ wire' \in Seq(Frames)
         /\ \A i \in 1..Len(wire') : wire'[i] = f \/ \E j \in 1..Len(wire) : wire'[i] = wire[j]
         /\ Told => Told'
         /\ f.kind = "started" => Told'
<1>1. wire' \in Seq(Frames) /\ Len(wire') = Len(wire) + 1 /\ Len(wire) \in Nat
  BY AppendProperties, LenProperties
<1>2. wire'[Len(wire) + 1] = f /\ \A j \in 1..Len(wire) : wire'[j] = wire[j]
  BY AppendProperties
<1>3. \A i \in 1..Len(wire') : i = Len(wire) + 1 \/ i \in 1..Len(wire)
  BY <1>1
<1>4. \A i \in 1..Len(wire') : wire'[i] = f \/ \E j \in 1..Len(wire) : wire'[i] = wire[j]
  BY <1>2, <1>3
<1>5. ASSUME NEW j \in 1..Len(wire), wire[j].kind = "started" PROVE Told'
  <2>1. j \in 1..Len(wire') /\ wire'[j].kind = "started"
    BY <1>1, <1>2, <1>5
  <2> QED  BY <2>1 DEF Told
<1>6. Told => Told'
  BY <1>5 DEF Told
<1>7. ASSUME f.kind = "started" PROVE Told'
  <2>1. Len(wire) + 1 \in 1..Len(wire')
    BY <1>1
  <2> QED  BY <1>2, <1>7, <2>1 DEF Told
<1> QED  BY <1>1, <1>4, <1>6, <1>7

\* The controller goes to another place and keeps what it knows.
LEMMA ControllerMoves ==
  ASSUME ctl \in CtlRecords, NEW p \in CtlPlaces, ControllerAt(p)
  PROVE  /\ ctl' \in CtlRecords
         /\ ctl'.at = p
         /\ ctl'.scan = ctl.scan /\ ctl'.ready = ctl.ready /\ ctl'.eof = ctl.eof
         /\ ctl'.cause = ctl.cause /\ ctl'.error = ctl.error /\ ctl'.heard = ctl.heard
  BY DEF ControllerAt, CtlRecords

-----------------------------------------------------------------------------
\* The candidate

CandidateFacts(reader) ==
  /\ cand' \in CandRecords
  /\ written' \in [Streams -> Nat]
  /\ \A s \in Streams : written[s] <= written'[s]
  /\ Alive /\ cand'.at \in Begun \cup {"dead"}
  /\ cand'.late => cand.late \/ (cand'.at = "dead" /\ timer = "expired")
  /\ \/ UNCHANGED wire
     \/ reader /\ cand.at = "setup" /\ wire' = Append(wire, StartedFrame)
  /\ cand'.at \in Begun => cand.at \in Begun \/ wire' = Append(wire, StartedFrame)
  /\ "ready" \in status' => "ready" \in status \/ cand.at \in Begun
  /\ UNCHANGED <<seen, timer, ctl, report>>

LEMMA CandidateSteps ==
  ASSUME RunTypeOK, NEW reader \in BOOLEAN, Candidate(reader)
  PROVE  CandidateFacts(reader)
<1>0. /\ cand \in CandRecords /\ written \in [Streams -> Nat]
      /\ \A s \in Streams : written[s] \in Nat /\ written[s] <= written[s]
  BY DEF RunTypeOK
<1>1. ASSUME NEW p \in Begun, CandidateAt(p)
      PROVE  cand' \in CandRecords /\ cand'.at = p /\ cand'.late = cand.late
  BY <1>0, <1>1 DEF CandidateAt, CandRecords, CandPlaces
<1>2. ASSUME NEW how \in Exits, CandidateDies(how)
      PROVE  /\ cand' \in CandRecords /\ cand'.at = "dead" /\ (cand'.late => timer = "expired")
  BY <1>2 DEF CandidateDies, CandRecords, CandPlaces
<1>3. CASE EmitStarted(reader)
  <2>1. /\ cand.at = "setup" /\ UNCHANGED <<heap, written, seen, status, timer, ctl, report>>
        /\ \/ reader /\ wire' = Append(wire, StartedFrame) /\ CandidateAt("started")
           \/ reader /\ wire' = Append(wire, StartedFrame) /\ CandidateDies("nonzero")
           \/ UNCHANGED wire /\ CandidateDies("nonzero")
    BY <1>3 DEF EmitStarted, StartedFrame
  <2> QED  BY <1>0, <1>1, <1>2, <2>1 DEF CandidateFacts, Alive, Begun, Exits
<1>4. CASE SendReady
  BY <1>0, <1>1, <1>2, <1>4 DEF SendReady, CandidateFacts, Alive, Begun, Exits
<1>5. CASE ReceiveRelease
  BY <1>0, <1>1, <1>2, <1>5 DEF ReceiveRelease, CandidateFacts, Alive, Begun, Exits
<1>6. CASE NotifyHeapDenied
  BY <1>0, <1>1, <1>6 DEF NotifyHeapDenied, CandidateFacts, Alive, Begun
<1>7. CASE Exit
  <2>1. cand.exit \in Exits
    BY <1>0 DEF CandRecords
  <2> QED  BY <1>0, <1>2, <1>7, <2>1 DEF Exit, CandidateFacts, Alive, Begun
<1>8. ASSUME NEW s \in Streams, WriteOutput(s) PROVE CandidateFacts(reader)
  <2>1. /\ written' \in [Streams -> Nat] /\ \A x \in Streams : written[x] <= written'[x]
    BY <1>0, <1>8 DEF WriteOutput
  <2> QED  BY <1>0, <1>8, <2>1 DEF WriteOutput, CandidateFacts, Alive, Begun
<1>9. CASE MarkCeilingDenied
  BY <1>0, <1>1, <1>9 DEF MarkCeilingDenied, CandidateFacts, Alive, Begun
<1>10. CASE SystemAllocationFails
  BY <1>0, <1>10 DEF SystemAllocationFails, CandidateFacts, Alive, Begun
<1>11. CASE LuaReturns
  <2>1. cand' \in CandRecords /\ cand'.at = "closing" /\ cand'.late = cand.late
    BY <1>0, <1>11 DEF LuaReturns, CandRecords, CandPlaces, Begun, Exits
  <2> QED  BY <1>0, <1>11, <2>1 DEF LuaReturns, CandidateFacts, Alive, Begun
<1>12. CASE EndsAbruptly
  <2>1. PICK how \in Exits : CandidateDies(how)
    BY <1>12 DEF EndsAbruptly, Exits
  <2> QED  BY <1>0, <1>2, <1>12, <2>1 DEF EndsAbruptly, CandidateFacts, Alive, Begun
<1> QED  BY <1>3, <1>4, <1>5, <1>6, <1>7, <1>8, <1>9, <1>10, <1>11, <1>12
         DEF Candidate, CandidateSystem

LEMMA CandidateKeeps ==
  ASSUME RunInv, Inside(Candidate(ResultRead))
  PROVE  RunInv'
<1>1. CandidateFacts(ResultRead) /\ UNCHANGED <<sup, lch, outcome>>
  <2>1. ResultRead \in BOOLEAN /\ Candidate(ResultRead) /\ UNCHANGED <<sup, lch, outcome>>
    BY DEF Inside, ResultRead
  <2> QED  BY <2>1, CandidateSteps DEF RunInv
<1>2. cand.at \in Begun \cup {"setup"} /\ cand.at \notin {"unborn", "dead", "reaped"}
  BY <1>1 DEF CandidateFacts, Alive, Begun
<1>3. ctl.at \in {"await", "scan", "epoch", "abort"} /\ ctl \in CtlRecords
  BY <1>2 DEF RunInv, RunTypeOK, CandInv, CtlRecords, CtlPlaces
<1>4. report = NoReport
  BY <1>2 DEF RunInv, ReportInv
<1>5. /\ StartedFrame \in Frames /\ StartedFrame.kind = "started"
      /\ StartedFrame.what # "supervisor_unavailable" /\ wire \in Seq(Frames)
  BY DEF StartedFrame, Frames, RunInv, RunTypeOK
<1>6. RunTypeOK'
  <2>1. wire' \in Seq(Frames)
    BY <1>1, <1>5, FrameAdded DEF CandidateFacts
  <2> QED  BY <1>1, <2>1 DEF CandidateFacts, RunInv, RunTypeOK
<1>7. CandInv'
  BY <1>1, <1>2, <1>3 DEF CandidateFacts, RunInv, CandInv, Begun
<1>8. WatchInv'
  <2>1. \A s \in Streams : s \notin ctl.eof /\ seen[s] <= written'[s]
    <3>1. \A s \in Streams : seen[s] \in Nat /\ written[s] \in Nat /\ written'[s] \in Nat
      BY <1>1 DEF CandidateFacts, RunInv, RunTypeOK
    <3> QED  BY <1>1, <1>2, <3>1 DEF CandidateFacts, RunInv, WatchInv
  <2> QED  BY <1>1, <1>2, <2>1 DEF CandidateFacts, RunInv, WatchInv
<1>9. ReportInv'
  BY <1>1, <1>3, <1>4 DEF CandidateFacts, ReportInv, NoReport
<1>10. FrameInv'
  <2>1. \A i \in 1..Len(wire') : wire'[i] = StartedFrame \/ \E j \in 1..Len(wire) : wire'[i] = wire[j]
    BY <1>1, <1>5, FrameAdded DEF CandidateFacts
  <2>2. Sound(StartedFrame, report, ctl.at, sup)
    BY <1>5 DEF Sound
  <2> QED  BY <1>1, <2>1, <2>2 DEF CandidateFacts, RunInv, FrameInv
<1>11. ToldInv'
  <2>1. Told => Told'
    BY <1>1, <1>5, FrameAdded DEF CandidateFacts, Told
  <2>2. wire' = Append(wire, StartedFrame) => Told'
    BY <1>1, <1>5, FrameAdded
  <2> QED  BY <1>1, <2>1, <2>2 DEF CandidateFacts, RunInv, ToldInv
<1>12. OrderInv'
  BY <1>1, <1>2 DEF CandidateFacts, RunInv, OrderInv, WriterLeft, SupervisorAlive, Begun
<1>13. OutcomeInv'
  BY <1>1 DEF CandidateFacts, RunInv, OutcomeInv, SupervisorAlive
<1> QED  BY <1>6, <1>7, <1>8, <1>9, <1>10, <1>11, <1>12, <1>13 DEF RunInv

-----------------------------------------------------------------------------
\* The controller

\* The end of a candidate that is killed and reaped, if there was one.
LEMMA Slaying ==
  ASSUME cand \in CandRecords,
         cand' = IF cand.at = "unborn" THEN cand ELSE [Slain EXCEPT !.at = "reaped"]
  PROVE  /\ cand' \in CandRecords
         /\ cand'.at = (IF cand.at = "unborn" THEN "unborn" ELSE "reaped")
         /\ cand'.late = cand.late
         /\ cand.at = "reaped" => cand' = cand
  BY DEF CandRecords, CandPlaces, Begun, Exits, Slain, Alive

\* A step of the controller while it is at work: no frame of the supervisor's
\* end can be there yet, and no outcome that depends on it.
AtWork == {"prepare", "await", "scan", "epoch", "measure", "write", "abort"}

LEMMA ControllerFrame ==
  ASSUME RunInv, UNCHANGED <<wire, sup, lch, outcome>>,
         ctl.at \in AtWork, ctl'.at \notin {"unborn", "sync", "prepare"},
         cand'.at = "setup" => cand.at = "setup" \/ ctl.at = "prepare",
         (ctl'.at = "abort" /\ cand'.at = "unborn") => (ctl.at = "prepare"),
         cand'.at \in Begun => cand.at \in Begun,
         "ready" \in status' => "ready" \in status,
         timer' # "off" => timer # "off" \/ "ready" \in status,
         RunTypeOK', CandInv', WatchInv', ReportInv'
  PROVE  RunInv'
<1>1. ctl.at \notin {"unborn", "sync", "exit0", "exit124"}
  BY DEF AtWork
<1>2. report.kind # "result"
  BY <1>1 DEF RunInv, ReportInv, NoReport
<1>3. \A f : Sound(f, report, ctl.at, sup) => Sound(f, report', ctl'.at, sup')
  BY <1>1 DEF Sound
<1>4. FrameInv'
  BY <1>3 DEF RunInv, FrameInv
<1>5. ToldInv'
  BY DEF RunInv, ToldInv, Told
<1>6. OrderInv'
  BY <1>1 DEF RunInv, ReportInv, OrderInv, WriterLeft, SupervisorAlive, AtWork
<1>7. OutcomeInv'
  BY <1>1, <1>2 DEF RunInv, OutcomeInv, SupervisorAlive
<1> QED  BY <1>4, <1>5, <1>6, <1>7 DEF RunInv

\* Only the place of the controller changes.
LEMMA ControllerGoes ==
  ASSUME RunInv, NEW p \in CtlPlaces, ControllerAt(p),
         UNCHANGED <<cand, heap, written, seen, timer, report, wire, sup, lch, outcome>>,
         ctl.at \in AtWork, p \in {"abort", "write"},
         p = "abort" => cand.at # "unborn",
         p = "write" => ctl.at = "measure" /\ (ctl.error # "none" \/ ReportValid),
         "ready" \in status' => "ready" \in status
  PROVE  RunInv'
<1>1. /\ ctl' \in CtlRecords /\ ctl'.at = p /\ ctl'.scan = ctl.scan /\ ctl'.ready = ctl.ready
      /\ ctl'.eof = ctl.eof /\ ctl'.cause = ctl.cause /\ ctl'.error = ctl.error
      /\ ctl'.heard = ctl.heard
  BY ControllerMoves DEF RunInv, RunTypeOK
<1>2. RunTypeOK'
  BY <1>1 DEF RunInv, RunTypeOK
<1>3. CandInv'
  BY <1>1 DEF RunInv, CandInv, AtWork
<1>4. WatchInv'
  BY <1>1 DEF RunInv, WatchInv
<1>5. ReportInv'
  <2>1. report = NoReport
    BY DEF RunInv, ReportInv, AtWork
  <2>2. (p = "write" /\ ctl.error = "none") => Settled'
    BY <1>1 DEF RunInv, ReportInv, Settled, ReportValid, AllocatorShapeValid, OutputCrossed
  <2> QED  BY <1>1, <2>1, <2>2 DEF ReportInv, NoReport
<1>6. ctl'.at \notin {"unborn", "sync", "prepare"}
  BY <1>1
<1> QED  BY <1>1, <1>2, <1>3, <1>4, <1>5, <1>6, ControllerFrame

LEMMA PrepareKeeps ==
  ASSUME RunInv, PrepareAndFork, UNCHANGED <<sup, lch, outcome>>
  PROVE  RunInv'
<1>1. PICK p \in {"await", "abort"} :
        /\ ControllerAt(p)
        /\ cand' = IF p = "await" THEN [cand EXCEPT !.at = "setup"] ELSE cand
  BY DEF PrepareAndFork
<1>2. ctl.at = "prepare" /\ UNCHANGED <<heap, written, seen, status, timer, report, wire>>
  BY DEF PrepareAndFork
<1>3. /\ ctl' \in CtlRecords /\ ctl'.at = p /\ ctl'.scan = ctl.scan /\ ctl'.ready = ctl.ready
      /\ ctl'.eof = ctl.eof /\ ctl'.cause = ctl.cause /\ ctl'.error = ctl.error
  <2>1. p \in CtlPlaces
    BY DEF CtlPlaces
  <2> QED  BY <1>1, <2>1, ControllerMoves DEF RunInv, RunTypeOK
<1>4. /\ cand' \in CandRecords /\ cand'.at = (IF p = "await" THEN "setup" ELSE "unborn")
      /\ cand'.late = cand.late
  <2>1. cand \in CandRecords /\ cand.at = "unborn"
    BY <1>2 DEF RunInv, RunTypeOK, CandInv
  <2> QED  BY <1>1, <2>1 DEF CandRecords, CandPlaces
<1>5. /\ cand.at = "unborn" /\ timer = "off" /\ ~cand.late /\ "ready" \notin status
      /\ ctl.cause = "none" /\ ctl.ready = {} /\ report = NoReport
      /\ \A s \in Streams : s \notin ctl.eof
  BY <1>2 DEF RunInv, CandInv, WatchInv, ReportInv
<1>6. RunTypeOK'
  BY <1>2, <1>3, <1>4 DEF RunInv, RunTypeOK
<1>7. CandInv'
  BY <1>2, <1>3, <1>4, <1>5 DEF CandInv
<1>8. WatchInv'
  BY <1>2, <1>3, <1>4, <1>5 DEF RunInv, WatchInv, TerminalCauses
<1>9. ReportInv'
  BY <1>2, <1>3, <1>5 DEF ReportInv, NoReport
<1>10. cand'.at \notin Begun /\ ctl.at \in AtWork
  BY <1>2, <1>4 DEF Begun, AtWork
<1> QED  BY <1>2, <1>3, <1>4, <1>5, <1>6, <1>7, <1>8, <1>9, <1>10, ControllerFrame

LEMMA ReleaseKeeps ==
  ASSUME RunInv, ReleaseCandidate, UNCHANGED <<sup, lch, outcome>>
  PROVE  RunInv'
<1>1. /\ ctl.at = "await" /\ "ready" \in status /\ Alive /\ status' = {"release"}
      /\ timer' = "armed" /\ ControllerAt("scan")
      /\ UNCHANGED <<cand, heap, written, seen, report, wire>>
  BY DEF ReleaseCandidate
<1>2. /\ ctl' \in CtlRecords /\ ctl'.at = "scan" /\ ctl'.ready = ctl.ready
      /\ ctl'.eof = ctl.eof /\ ctl'.cause = ctl.cause
  <2>1. "scan" \in CtlPlaces
    BY DEF CtlPlaces
  <2> QED  BY <1>1, <2>1, ControllerMoves DEF RunInv, RunTypeOK
<1>3. /\ cand.at \notin {"unborn", "dead", "reaped"} /\ ~cand.late
      /\ ctl.cause = "none" /\ ctl.ready = {} /\ report = NoReport
  BY <1>1 DEF RunInv, CandInv, WatchInv, ReportInv, Alive
<1>4. RunTypeOK'
  BY <1>1, <1>2 DEF RunInv, RunTypeOK
<1>5. CandInv'
  BY <1>1, <1>2, <1>3 DEF CandInv
<1>6. WatchInv'
  BY <1>1, <1>2, <1>3 DEF RunInv, WatchInv, TerminalCauses
<1>7. ReportInv'
  BY <1>1, <1>2, <1>3 DEF ReportInv, NoReport
<1>8. ctl.at \in AtWork /\ ctl'.at \notin {"unborn", "sync", "prepare", "abort"}
      /\ "ready" \notin status'
  BY <1>1, <1>2 DEF AtWork
<1> QED  BY <1>1, <1>4, <1>5, <1>6, <1>7, <1>8, ControllerFrame

LEMMA PollKeeps ==
  ASSUME RunInv, Poll, UNCHANGED <<sup, lch, outcome>>
  PROVE  RunInv'
<1>1. ctl.at = "scan" /\ UNCHANGED <<cand, heap, written, seen, status, timer, report, wire>>
  BY DEF Poll
<1>2. ctl \in CtlRecords /\ cand.at # "unborn" /\ report = NoReport
  BY <1>1 DEF RunInv, RunTypeOK, CandInv, ReportInv
<1>3. PICK d \in Watched :
        /\ d = "pidfd" <=> ctl.scan = 3
        /\ d = "timer" <=> ctl.scan = 4
        /\ ctl' = [ctl EXCEPT !.ready = @ \cup (IF Readable(d) THEN {d} ELSE {}),
                              !.scan = IF ctl.scan = 5 THEN 1 ELSE @ + 1,
                              !.at = IF ctl.scan = 5 THEN "epoch" ELSE @]
  <2>1. ctl.scan \in 1..5
    BY <1>2 DEF CtlRecords
  <2>2. Len(Descriptors) = 5 /\ Descriptors[ctl.scan] \in Watched
        /\ (Descriptors[ctl.scan] = "pidfd" <=> ctl.scan = 3)
        /\ (Descriptors[ctl.scan] = "timer" <=> ctl.scan = 4)
    BY <2>1 DEF Descriptors, Watched
  <2> QED  BY <2>2 DEF Poll
<1>4. /\ ctl' \in CtlRecords
      /\ ctl'.at = (IF ctl.scan = 5 THEN "epoch" ELSE "scan")
      /\ ctl'.scan = (IF ctl.scan = 5 THEN 1 ELSE ctl.scan + 1)
      /\ ctl'.ready = ctl.ready \cup (IF Readable(d) THEN {d} ELSE {})
      /\ ctl'.eof = ctl.eof /\ ctl'.cause = ctl.cause
  <2> DEFINE more == IF Readable(d) THEN {d} ELSE {}
             place == IF ctl.scan = 5 THEN "epoch" ELSE ctl.at
             next == IF ctl.scan = 5 THEN 1 ELSE ctl.scan + 1
  <2>1. more \in SUBSET Watched
    OBVIOUS
  <2>2. next \in 1..5
    <3>1. ctl.scan \in 1..5
      BY <1>2 DEF CtlRecords
    <3> QED  BY <3>1
  <2>3. place \in CtlPlaces /\ place = (IF ctl.scan = 5 THEN "epoch" ELSE "scan")
    BY <1>1 DEF CtlPlaces
  <2>4. ctl' = [ctl EXCEPT !.ready = ctl.ready \cup more, !.scan = next, !.at = place]
    BY <1>3
  <2> HIDE DEF more, place, next
  <2>5. ctl.ready \cup more \in SUBSET Watched
    BY <1>2, <2>1 DEF CtlRecords
  <2>6. /\ ctl' \in CtlRecords /\ ctl'.at = place /\ ctl'.scan = next
        /\ ctl'.ready = ctl.ready \cup more /\ ctl'.eof = ctl.eof /\ ctl'.cause = ctl.cause
    BY <1>2, <2>2, <2>3, <2>4, <2>5 DEF CtlRecords
  <2> QED  BY <2>3, <2>6 DEF more, next
<1>5. RunTypeOK'
  BY <1>1, <1>4 DEF RunInv, RunTypeOK
<1>6. CandInv'
  BY <1>1, <1>4 DEF RunInv, CandInv
<1>7. WatchInv'
  <2>1. "pidfd" \in ctl'.ready => cand.at = "dead"
    <3>1. (d = "pidfd" /\ Readable(d)) => cand.at = "dead"
      BY DEF Readable, Streams
    <3> QED  BY <1>1, <1>4, <3>1 DEF RunInv, WatchInv
  <2>2. ASSUME ctl'.at = "epoch" \/ (ctl'.at = "scan" /\ ctl'.scan = 5),
               "pidfd" \in ctl'.ready, cand.late, ctl.cause = "none"
        PROVE  "timer" \in ctl'.ready
    <3>1. ctl.scan \in {4, 5}
      <4>1. ctl.scan \in 1..5
        BY <1>2 DEF CtlRecords
      <4> QED  BY <1>4, <2>2, <4>1
    <3>2. CASE ctl.scan = 4
      <4>1. cand.at = "dead" /\ timer = "expired"
        BY <2>1, <2>2 DEF RunInv, CandInv, WatchInv
      <4>2. Readable("timer")
        BY <4>1 DEF Readable, Streams
      <4> QED  BY <1>3, <1>4, <3>2, <4>2
    <3>3. CASE ctl.scan = 5
      <4>1. "pidfd" \in ctl.ready
        BY <1>3, <1>4, <2>2, <3>3
      <4>2. "timer" \in ctl.ready
        BY <1>1, <2>2, <3>3, <4>1 DEF RunInv, WatchInv
      <4> QED  BY <1>4, <4>2
    <3> QED  BY <3>1, <3>2, <3>3
  <2>3. \A s \in Streams :
          /\ seen[s] <= written[s]
          /\ s \in ctl.eof => cand.at \in {"dead", "reaped"} /\ seen[s] = written[s]
    BY DEF RunInv, WatchInv
  <2>4. /\ timer # "off" /\ (timer = "consumed" => ctl.cause # "none")
        /\ ctl.cause = "wall_timeout" => timer = "consumed"
        /\ ctl.cause \in TerminalCauses => cand.at = "reaped" /\ ~cand.late
    BY <1>1 DEF RunInv, WatchInv
  <2>5. ctl'.at \in {"scan", "epoch"}
    BY <1>4
  <2> QED  BY <1>1, <1>4, <2>1, <2>2, <2>3, <2>4, <2>5 DEF WatchInv
<1>8. ReportInv'
  BY <1>1, <1>2, <1>4 DEF ReportInv, NoReport
<1>9. ctl.at \in AtWork /\ ctl'.at \notin {"unborn", "sync", "prepare", "abort"}
  BY <1>1, <1>4 DEF AtWork
<1> QED  BY <1>1, <1>5, <1>6, <1>7, <1>8, <1>9, ControllerFrame

LEMMA TimerKeeps ==
  ASSUME RunInv, Inside(WallTimerExpires)
  PROVE  RunInv'
<1>1. /\ timer = "armed" /\ timer' = "expired"
      /\ UNCHANGED <<cand, heap, written, seen, status, ctl, report, wire, sup, lch, outcome>>
  BY DEF Inside, WallTimerExpires
<1>2. RunTypeOK'
  BY <1>1 DEF RunInv, RunTypeOK
<1>3. CandInv' /\ WatchInv'
  BY <1>1 DEF RunInv, CandInv, WatchInv
<1>4. ReportInv'
  BY <1>1 DEF RunInv, ReportInv, Settled, ReportValid, AllocatorShapeValid, OutputCrossed
<1>5. FrameInv' /\ ToldInv'
  BY <1>1 DEF RunInv, FrameInv, ToldInv, Told
<1>6. OrderInv' /\ OutcomeInv'
  BY <1>1 DEF RunInv, OrderInv, OutcomeInv, WriterLeft, SupervisorAlive
<1> QED  BY <1>2, <1>3, <1>4, <1>5, <1>6 DEF RunInv

\* A cause can only be claimed when it is the only one of its epoch.
LEMMA OneCause ==
  ASSUME NEW drain, NEW c \in ResolveEpoch(drain), ctl.cause = "none", NEW a \in Causes(drain)
  PROVE  c = a
<1>1. Causes(drain) # {} /\ Cardinality(Causes(drain)) = 1 /\ c \in Causes(drain)
  BY DEF ResolveEpoch
<1>2. IsFiniteSet(Causes(drain))
  <2> DEFINE t == TerminalCause(cand.exit)
             four == {"output_limit", "memory_limit", "wall_timeout", t}
  <2>1. IsFiniteSet({} \cup {"output_limit"} \cup {"memory_limit"} \cup {"wall_timeout"} \cup {t})
    BY FS_EmptySet, FS_AddElement
  <2>2. four = {} \cup {"output_limit"} \cup {"memory_limit"} \cup {"wall_timeout"} \cup {t}
    OBVIOUS
  <2>3. Causes(drain) \subseteq four
    BY DEF Causes
  <2> HIDE DEF four
  <2> QED  BY <2>1, <2>2, <2>3, FS_Subset
<1>3. \E x : Causes(drain) = {x}
  BY <1>1, <1>2, FS_Singleton
<1> QED  BY <1>1, <1>3

\* What one drain of the streams does to what is seen of them.
LEMMA Draining ==
  ASSUME RunInv, NEW drain, \A s \in Streams : drain[s] \in Drains(s), Observed(drain)
  PROVE  /\ seen' \in [Streams -> Nat]
         /\ \A s \in Streams :
              /\ seen'[s] <= written[s]
              /\ drain[s].eof => ~Alive /\ seen'[s] = written[s]
              /\ s \in ctl.eof => seen'[s] = written[s]
<1>1. \A s \in Streams : seen[s] \in Nat /\ written[s] \in Nat /\ seen[s] <= written[s]
  BY DEF RunInv, RunTypeOK, WatchInv
<1>2. ASSUME NEW s \in Streams
      PROVE  /\ drain[s].n \in 0..Pending(s)
             /\ drain[s].eof => ~Alive /\ drain[s].n = Pending(s)
  <2>1. Pending(s) \in Nat
    BY <1>1 DEF Pending
  <2>2. CASE s \notin ctl.ready
    <3>1. drain[s] = [n |-> 0, eof |-> FALSE]
      BY <2>2 DEF Drains
    <3> QED  BY <2>1, <3>1
  <2>3. CASE s \in ctl.ready
    BY <2>1, <2>3 DEF Drains
  <2> QED  BY <2>2, <2>3
<1>3. \A s \in Streams : seen'[s] = seen[s] + drain[s].n
  BY DEF Observed
<1>4. ASSUME NEW s \in Streams
      PROVE  /\ seen'[s] \in Nat /\ seen'[s] <= written[s]
             /\ drain[s].n = Pending(s) => seen'[s] = written[s]
  BY <1>1, <1>2, <1>3 DEF Pending
<1>5. ASSUME NEW s \in Streams, s \in ctl.eof PROVE seen'[s] = written[s]
  <2>1. seen[s] = written[s]
    BY <1>5 DEF RunInv, WatchInv
  <2> QED  BY <1>1, <1>2, <1>3, <2>1 DEF Pending
<1>6. seen' \in [Streams -> Nat]
  BY <1>3, <1>4 DEF Observed
<1> QED  BY <1>2, <1>4, <1>5, <1>6

\* Which cause an epoch may settle on.
LEMMA EpochCause ==
  ASSUME RunInv, ctl.at = "epoch", NEW drain, NEW cause \in ResolveEpoch(drain), Observed(drain)
  PROVE  /\ cause \in TerminalCauses \cup LimitCauses \cup {"none"}
         /\ timer' \in {"off", "armed", "expired", "consumed"}
         /\ timer' # "off"
         /\ timer \in {"expired", "consumed"} => timer' \in {"expired", "consumed"}
         /\ timer' = "consumed" => cause # "none"
         /\ cause = "wall_timeout" => timer' = "consumed"
         /\ cause \in TerminalCauses => Reaped /\ ~cand.late
<1> DEFINE t == TerminalCause(cand.exit)
<1>1. t \in TerminalCauses /\ t \notin LimitCauses \cup {"none"}
  BY DEF TerminalCause, TerminalCauses, LimitCauses
<1>2. timer' = IF "timer" \in ctl.ready THEN "consumed" ELSE timer
  BY DEF Observed
<1>3. timer # "off" /\ timer \in {"off", "armed", "expired", "consumed"}
  BY DEF RunInv, RunTypeOK, WatchInv
<1>4. \A c \in Causes(drain) :
        /\ c \in {"output_limit", "memory_limit", "wall_timeout", t}
        /\ c = "wall_timeout" => "timer" \in ctl.ready
        /\ c = t => "pidfd" \in ctl.ready
  BY <1>1 DEF Causes, LimitCauses
<1>5. "timer" \in ctl.ready => "wall_timeout" \in Causes(drain)
  BY DEF Causes
<1> HIDE DEF t
<1>6. CASE ctl.cause # "none"
  <2>1. cause = ctl.cause
    BY <1>6 DEF ResolveEpoch
  <2>2. cause \in TerminalCauses \cup LimitCauses \cup {"none"}
    BY <2>1 DEF RunInv, RunTypeOK, CtlRecords
  <2>3. cause = "wall_timeout" => timer = "consumed"
    BY <2>1 DEF RunInv, WatchInv
  <2>4. cause \in TerminalCauses => cand.at = "reaped" /\ ~cand.late
    BY <2>1 DEF RunInv, WatchInv
  <2> QED  BY <1>2, <1>3, <1>6, <2>1, <2>2, <2>3, <2>4 DEF Reaped
<1>7. CASE ctl.cause = "none" /\ Causes(drain) = {}
  <2>1. cause = "none"
    BY <1>7 DEF ResolveEpoch
  <2>2. "timer" \notin ctl.ready /\ timer # "consumed"
    BY <1>5, <1>7 DEF RunInv, WatchInv
  <2> QED  BY <1>2, <1>3, <2>1, <2>2 DEF TerminalCauses
<1>8. CASE ctl.cause = "none" /\ Causes(drain) # {}
  <2>1. cause \in Causes(drain)
    BY <1>8 DEF ResolveEpoch
  <2>2. /\ cause \in {"output_limit", "memory_limit", "wall_timeout", t}
        /\ cause = "wall_timeout" => "timer" \in ctl.ready
        /\ cause = t => "pidfd" \in ctl.ready
    BY <1>4, <2>1
  <2>3. cause \in TerminalCauses \cup LimitCauses /\ cause # "none"
    BY <1>1, <2>2 DEF LimitCauses
  <2>4. ASSUME cause \in TerminalCauses PROVE Reaped /\ ~cand.late
    <3>1. cause = t /\ "pidfd" \in ctl.ready /\ cause # "wall_timeout"
      BY <2>2, <2>4 DEF TerminalCauses
    <3>2. "timer" \notin ctl.ready
      BY <1>5, <1>8, <3>1, OneCause
    <3>3. ~cand.late
      BY <1>8, <3>1, <3>2 DEF RunInv, WatchInv
    <3> QED  BY <3>1, <3>3 DEF Reaped
  <2> QED  BY <1>2, <1>3, <2>2, <2>3, <2>4
<1> QED  BY <1>6, <1>7, <1>8

\* What an epoch does to the candidate.
LEMMA EpochCandidate ==
  ASSUME RunInv, ctl.at = "epoch", NEW kill \in BOOLEAN,
         cand' = IF Reaped THEN [cand EXCEPT !.at = "reaped"] ELSE IF kill THEN Slain ELSE cand
  PROVE  /\ cand' \in CandRecords /\ cand'.at # "unborn" /\ cand'.late = cand.late
         /\ Reaped => cand'.at = "reaped"
         /\ cand'.at \in {cand.at, "dead", "reaped"}
         /\ ~Alive => cand'.at \in {"dead", "reaped"}
<1>1. cand \in CandRecords /\ cand.at \in CandPlaces /\ cand.at # "unborn"
  BY DEF RunInv, RunTypeOK, CandInv, CandRecords
<1>2. "pidfd" \in ctl.ready => cand.at = "dead"
  BY DEF RunInv, WatchInv
<1>3. ~Alive => cand.at \in {"dead", "reaped"}
  BY <1>1 DEF Alive, CandPlaces, Begun
<1>4. CASE Reaped
  <2>1. cand' \in CandRecords /\ cand'.at = "reaped" /\ cand'.late = cand.late
    BY <1>1, <1>4 DEF CandRecords, CandPlaces
  <2> QED  BY <2>1
<1>5. CASE ~Reaped /\ kill /\ Alive
  <2>1. cand' \in CandRecords /\ cand'.at = "dead" /\ cand'.late = cand.late
    BY <1>1, <1>5 DEF CandRecords, CandPlaces, Slain, Exits
  <2> QED  BY <1>5, <2>1
<1>6. CASE ~Reaped /\ ~(kill /\ Alive)
  <2>1. cand' = cand
    BY <1>6 DEF Slain
  <2> QED  BY <1>1, <1>3, <1>6, <2>1
<1> QED  BY <1>4, <1>5, <1>6

LEMMA EpochStep ==
  ASSUME RunInv, ctl.at = "epoch", NEW drain, \A s \in Streams : drain[s] \in Drains(s),
         NEW cause \in ResolveEpoch(drain), NEW error \in {ctl.error} \cup Streams,
         Continue(drain, cause, error), Observed(drain),
         UNCHANGED <<heap, written, report, wire, sup, lch, outcome>>
  PROVE  RunInv'
<1> DEFINE ended == {s \in Streams : drain[s].eof}
                    \cup (IF "status" \in ctl.ready /\ ~StatusOpen THEN {"status"} ELSE {})
           eof == ctl.eof \cup ended
           kill == ~Reaped /\ ~ctl.killed /\ (cause # "none" \/ error # "none")
           done == Reaped /\ "status" \in eof /\ Streams \ {error} \subseteq eof
           heard == ctl.heard \/ ("status" \in ctl.ready /\ "heap" \in status)
           place == IF done THEN "measure" ELSE "scan"
<1>1. /\ ctl' = [ctl EXCEPT !.at = place, !.ready = {}, !.eof = eof, !.cause = cause,
                            !.error = error, !.heard = heard, !.killed = ctl.killed \/ kill]
      /\ cand' = IF Reaped THEN [cand EXCEPT !.at = "reaped"] ELSE IF kill THEN Slain ELSE cand
  BY DEF Continue
<1>2. ctl \in CtlRecords /\ report = NoReport
  BY DEF RunInv, RunTypeOK, ReportInv
<1>3. kill \in BOOLEAN /\ heard \in BOOLEAN /\ place \in CtlPlaces
  BY <1>2 DEF CtlRecords, CtlPlaces
<1>4. /\ cause \in TerminalCauses \cup LimitCauses \cup {"none"}
      /\ timer' \in {"off", "armed", "expired", "consumed"}
      /\ timer' # "off"
      /\ timer \in {"expired", "consumed"} => timer' \in {"expired", "consumed"}
      /\ timer' = "consumed" => cause # "none"
      /\ cause = "wall_timeout" => timer' = "consumed"
      /\ cause \in TerminalCauses => Reaped /\ ~cand.late
  BY EpochCause
<1>5. eof \in SUBSET Watched /\ error \in {"none", "stdout", "stderr", "scratch"}
  BY <1>2 DEF CtlRecords, Watched, Streams
<1>6. /\ cand' \in CandRecords /\ cand'.at # "unborn" /\ cand'.late = cand.late
      /\ Reaped => cand'.at = "reaped"
      /\ cand'.at \in {cand.at, "dead", "reaped"}
      /\ ~Alive => cand'.at \in {"dead", "reaped"}
  BY <1>1, <1>3, EpochCandidate
<1>7. \A s \in Streams : s \in eof => s \in ctl.eof \/ drain[s].eof
  BY DEF Streams
<1>8. /\ place \in {"measure", "scan"}
      /\ place = "measure" => Reaped
      /\ (place = "measure" /\ error = "none") => Streams \subseteq eof
  BY DEF Streams
<1> HIDE DEF ended, eof, kill, done, heard, place
<1>9. /\ ctl' \in CtlRecords /\ ctl'.at = place /\ ctl'.ready = {} /\ ctl'.eof = eof
      /\ ctl'.cause = cause /\ ctl'.error = error
  <2>1. (ctl.killed \/ kill) \in BOOLEAN
    BY <1>2, <1>3 DEF CtlRecords
  <2> QED  BY <1>1, <1>2, <1>3, <1>4, <1>5, <2>1, ZenonT(30) DEF CtlRecords
<1>10. /\ seen' \in [Streams -> Nat]
       /\ \A s \in Streams :
            /\ seen'[s] <= written[s]
            /\ drain[s].eof => ~Alive /\ seen'[s] = written[s]
            /\ s \in ctl.eof => seen'[s] = written[s]
  BY Draining
<1>11. RunTypeOK'
  BY <1>4, <1>6, <1>9, <1>10 DEF RunInv, RunTypeOK
<1>12. cand.late => cand.at \in {"dead", "reaped"} /\ timer \in {"expired", "consumed"}
  BY DEF RunInv, CandInv
<1>13. CandInv'
  BY <1>4, <1>6, <1>8, <1>9, <1>12 DEF CandInv
<1>14. WatchInv'
  <2>1. ASSUME NEW s \in Streams
        PROVE  /\ seen'[s] <= written'[s]
               /\ s \in ctl'.eof => cand'.at \in {"dead", "reaped"} /\ seen'[s] = written'[s]
    <3>1. s \in ctl.eof => cand.at \in {"dead", "reaped"}
      BY DEF RunInv, WatchInv
    <3> QED  BY <1>6, <1>7, <1>9, <1>10, <3>1
  <2> QED  BY <1>4, <1>6, <1>8, <1>9, <2>1 DEF WatchInv
<1>15. ReportInv'
  BY <1>2, <1>8, <1>9 DEF ReportInv, NoReport
<1>16. /\ ctl.at \in AtWork /\ ctl'.at \notin {"unborn", "sync", "prepare", "abort"}
       /\ cand'.at = "setup" => cand.at = "setup"
       /\ cand'.at \in Begun => cand.at \in Begun
  BY <1>6, <1>8, <1>9 DEF AtWork, Begun
<1>17. /\ "ready" \in status' => "ready" \in status
       /\ timer # "off"
  BY DEF Observed, RunInv, WatchInv
<1> QED  BY <1>11, <1>13, <1>14, <1>15, <1>16, <1>17, ControllerFrame

LEMMA EpochKeeps ==
  ASSUME RunInv, Epoch \/ EpochStreamFails, UNCHANGED <<sup, lch, outcome>>
  PROVE  RunInv'
<1> DEFINE D == [Streams -> UNION {Drains(s) : s \in Streams}]
<1>1. ctl.at = "epoch" /\ UNCHANGED <<heap, written, report, wire>>
  BY DEF Epoch, EpochStreamFails
<1>2. CASE Epoch
  <2>1. \E drain \in D :
          /\ \A s \in Streams : drain[s] \in Drains(s)
          /\ \E cause \in ResolveEpoch(drain) : Continue(drain, cause, ctl.error)
          /\ Observed(drain)
    BY <1>2, Zenon DEF Epoch
  <2> HIDE DEF D
  <2> QED  BY <1>1, <2>1, EpochStep
<1>3. CASE EpochStreamFails
  <2>1. \E drain \in D, lost \in Streams \cap ctl.ready :
          /\ \A s \in Streams : drain[s] \in Drains(s)
          /\ \E cause \in ResolveEpoch(drain) : Continue(drain, cause, lost)
          /\ Observed(drain)
    BY <1>3, Zenon DEF EpochStreamFails
  <2> HIDE DEF D
  <2> QED  BY <1>1, <2>1, EpochStep
<1> QED  BY <1>2, <1>3

LEMMA AbortsKeep ==
  ASSUME RunInv, ReleaseRefused \/ EpochAborts, UNCHANGED <<sup, lch, outcome>>
  PROVE  RunInv'
<1>1. /\ ctl.at \in {"await", "epoch"} /\ ControllerAt("abort")
      /\ UNCHANGED <<cand, heap, written, seen, status, timer, report, wire>>
  BY Zenon DEF ReleaseRefused, EpochAborts
<1>2. cand.at # "unborn"
  BY <1>1 DEF RunInv, CandInv
<1>3. ctl.at \in AtWork /\ "abort" \in CtlPlaces
  BY <1>1 DEF AtWork, CtlPlaces
<1> QED  BY <1>1, <1>2, <1>3, ControllerGoes

LEMMA MeasureKeeps ==
  ASSUME RunInv, Measure, UNCHANGED <<sup, lch, outcome>>
  PROVE  RunInv'
<1>1. /\ ctl.at = "measure"
      /\ UNCHANGED <<cand, heap, written, seen, status, timer, report, wire>>
  BY DEF Measure
<1>2. ctl \in CtlRecords /\ cand.at = "reaped" /\ report = NoReport
  BY <1>1 DEF RunInv, RunTypeOK, CandInv, ReportInv
<1>3. ctl.at \in AtWork /\ "abort" \in CtlPlaces /\ "write" \in CtlPlaces
  BY <1>1 DEF AtWork, CtlPlaces
<1>4. CASE ControllerAt("abort")
  BY <1>1, <1>2, <1>3, <1>4, ControllerGoes
<1>5. CASE (ctl.error # "none" \/ ReportValid) /\ ControllerAt("write")
  BY <1>1, <1>2, <1>3, <1>5, ControllerGoes
<1>6. CASE ctl' = [ctl EXCEPT !.at = "write", !.error = "scratch"]
  <2>1. /\ ctl' \in CtlRecords /\ ctl'.at = "write" /\ ctl'.error = "scratch"
        /\ ctl'.ready = ctl.ready /\ ctl'.eof = ctl.eof /\ ctl'.cause = ctl.cause
    BY <1>2, <1>3, <1>6 DEF CtlRecords
  <2>2. RunTypeOK'
    BY <1>1, <2>1 DEF RunInv, RunTypeOK
  <2>3. CandInv' /\ WatchInv'
    BY <1>1, <1>2, <2>1 DEF RunInv, CandInv, WatchInv
  <2>4. ReportInv'
    BY <1>1, <1>2, <2>1 DEF ReportInv, NoReport
  <2>5. ctl'.at \notin {"unborn", "sync", "prepare", "abort"}
    BY <2>1
  <2> QED  BY <1>1, <1>3, <2>2, <2>3, <2>4, <2>5, ControllerFrame
<1> QED  BY <1>4, <1>5, <1>6 DEF Measure

LEMMA ReportKeeps ==
  ASSUME RunInv, NEW reader, WriteReport(reader), UNCHANGED <<sup, lch, outcome>>
  PROVE  RunInv'
<1>1. /\ ctl.at = "write"
      /\ UNCHANGED <<cand, heap, written, seen, status, timer, wire>>
  BY DEF WriteReport
<1>2. ctl \in CtlRecords /\ cand.at = "reaped"
  BY <1>1 DEF RunInv, RunTypeOK, CandInv
<1>3. ctl.at \in AtWork /\ {"abort", "exit0", "exit124"} \subseteq CtlPlaces
  BY <1>1 DEF AtWork, CtlPlaces
<1>4. CASE ControllerAt("abort") /\ UNCHANGED report
  BY <1>1, <1>2, <1>3, <1>4, ControllerGoes
<1>5. ASSUME NEW p \in {"exit0", "exit124"}, ControllerAt(p),
             report' = IF ctl.error # "none" THEN [kind |-> "error", what |-> ctl.error]
                       ELSE [kind |-> "result", what |-> ctl.cause]
      PROVE  RunInv'
  <2>1. /\ ctl' \in CtlRecords /\ ctl'.at = p /\ ctl'.scan = ctl.scan /\ ctl'.ready = ctl.ready
        /\ ctl'.eof = ctl.eof /\ ctl'.cause = ctl.cause /\ ctl'.error = ctl.error
        /\ ctl'.heard = ctl.heard
    BY <1>2, <1>3, <1>5, ControllerMoves
  <2>2. report' \in Reports
    BY <1>2, <1>5 DEF CtlRecords, Reports
  <2>3. RunTypeOK'
    BY <1>1, <2>1, <2>2 DEF RunInv, RunTypeOK
  <2>4. CandInv' /\ WatchInv'
    BY <1>1, <1>2, <2>1 DEF RunInv, CandInv, WatchInv
  <2>5. ReportInv'
    <3>1. ASSUME report'.kind = "result" PROVE report'.what = ctl'.cause /\ Settled'
      <4>1. ctl.error = "none" /\ report'.what = ctl.cause
        BY <1>5, <3>1
      <4>2. Settled
        BY <1>1, <4>1 DEF RunInv, ReportInv
      <4> QED  BY <1>1, <2>1, <4>1, <4>2
               DEF Settled, ReportValid, AllocatorShapeValid, OutputCrossed
    <3> QED  BY <1>1, <1>2, <2>1, <3>1 DEF ReportInv
  <2>6. ctl'.at \notin {"unborn", "sync", "prepare", "abort"}
    BY <2>1
  <2> QED  BY <1>1, <1>3, <2>3, <2>4, <2>5, <2>6, ControllerFrame
<1> QED  BY <1>4, <1>5 DEF WriteReport

\* A controller that is not at its end is stopped, and its candidate with it.
LEMMA Stopping ==
  ASSUME RunInv, NEW p \in {"exit124", "killed"}, ControllerAt(p), ~ControllerGone,
         cand' = IF cand.at = "unborn" THEN cand ELSE [Slain EXCEPT !.at = "reaped"],
         UNCHANGED <<heap, written, seen, timer, report>>,
         "ready" \in status' => "ready" \in status
  PROVE  /\ CandInv' /\ WatchInv' /\ ReportInv' /\ cand' \in CandRecords /\ ctl' \in CtlRecords
         /\ ctl'.at = p /\ report = NoReport /\ cand'.at \in {"unborn", "reaped"}
<1>1. cand \in CandRecords /\ ctl \in CtlRecords
  BY DEF RunInv, RunTypeOK
<1>2. report = NoReport
  BY DEF RunInv, ReportInv, ControllerGone
<1>3. /\ ctl' \in CtlRecords /\ ctl'.at = p /\ ctl'.scan = ctl.scan /\ ctl'.ready = ctl.ready
      /\ ctl'.eof = ctl.eof /\ ctl'.cause = ctl.cause /\ ctl'.error = ctl.error
  <2>1. p \in CtlPlaces
    BY DEF CtlPlaces
  <2> QED  BY <1>1, <2>1, ControllerMoves
<1>4. /\ cand' \in CandRecords
      /\ cand'.at = (IF cand.at = "unborn" THEN "unborn" ELSE "reaped")
      /\ cand'.late = cand.late
      /\ cand.at = "reaped" => cand' = cand
  BY <1>1, Slaying
<1>5. CandInv'
  BY <1>3, <1>4 DEF RunInv, CandInv
<1>6. WatchInv'
  BY <1>3, <1>4 DEF RunInv, WatchInv
<1>7. ReportInv'
  BY <1>2, <1>3 DEF ReportInv, NoReport
<1> QED  BY <1>2, <1>3, <1>4, <1>5, <1>6, <1>7

LEMMA AbortKeeps ==
  ASSUME RunInv, Abort, UNCHANGED <<sup, lch, outcome>>
  PROVE  RunInv'
<1>1. /\ ctl.at = "abort" /\ ControllerAt("exit124")
      /\ cand' = IF cand.at = "unborn" THEN cand ELSE [Slain EXCEPT !.at = "reaped"]
      /\ UNCHANGED <<heap, written, seen, status, timer, report, wire>>
  BY DEF Abort
<1>2. /\ CandInv' /\ WatchInv' /\ ReportInv' /\ cand' \in CandRecords /\ ctl' \in CtlRecords
      /\ ctl'.at = "exit124" /\ report = NoReport /\ cand'.at \in {"unborn", "reaped"}
  BY <1>1, Stopping DEF ControllerGone
<1>3. RunTypeOK'
  BY <1>1, <1>2 DEF RunInv, RunTypeOK
<1>4. /\ ctl.at \in AtWork /\ ctl'.at \notin {"unborn", "sync", "prepare", "abort"}
      /\ cand'.at # "setup" /\ cand'.at \notin Begun
  BY <1>1, <1>2 DEF AtWork, Begun
<1> QED  BY <1>1, <1>2, <1>3, <1>4, ControllerFrame

LEMMA ControllerKeeps ==
  ASSUME RunInv, Inside(Controller(ReportRead))
  PROVE  RunInv'
<1>1. Controller(ReportRead) /\ UNCHANGED <<sup, lch, outcome>>
  BY DEF Inside
<1> QED  BY <1>1, PrepareKeeps, ReleaseKeeps, AbortsKeep, PollKeeps, EpochKeeps, MeasureKeeps,
            ReportKeeps, AbortKeeps DEF Controller

-----------------------------------------------------------------------------
\* The supervisor

LEMMA InsideUnchanged ==
  ASSUME RunInv, UNCHANGED <<cand, heap, written, seen, status, timer, ctl, report>>
  PROVE  CandInv' /\ WatchInv' /\ ReportInv' /\ cand' \in CandRecords /\ ctl' \in CtlRecords
<1>1. CandInv' /\ WatchInv'
  BY DEF RunInv, CandInv, WatchInv
<1>2. ReportInv'
  BY DEF RunInv, ReportInv, Settled, ReportValid, AllocatorShapeValid, OutputCrossed
<1> QED  BY <1>1, <1>2 DEF RunInv, RunTypeOK

\* A step of the living supervisor: the launcher has not reaped it and has not
\* seen the end of its pipe, so it has not come to any conclusion.
LEMMA SupervisorFrame ==
  ASSUME RunInv, SupervisorAlive, UNCHANGED <<written, seen, timer, report, lch, outcome>>,
         cand' \in CandRecords, ctl' \in CtlRecords, CandInv', WatchInv', ReportInv',
         sup' \in SupPlaces \ {"unborn", "preflight"},
         sup' = "spawn" => ctl'.at = "unborn",
         sup' = "map" => ctl'.at = "sync",
         sup' = "finalize" => report # NoReport,
         ctl.at = "exit0" => ctl'.at = "exit0",
         cand'.at \in Begun => cand.at \in Begun,
         "ready" \in status' => "ready" \in status,
         \/ UNCHANGED wire
         \/ \E f \in Frames : Sound(f, report, ctl'.at, sup') /\ wire' = Append(wire, f)
  PROVE  RunInv'
<1>1. wire \in Seq(Frames) /\ lch.at # "launch" /\ ~lch.eof /\ lch.reap = "none"
  BY DEF RunInv, RunTypeOK, OrderInv, WriterLeft, SupervisorAlive
<1>2. \A f : Sound(f, report, ctl.at, sup) => Sound(f, report, ctl'.at, sup')
  BY DEF Sound, SupervisorAlive
<1>3. /\ wire' \in Seq(Frames)
      /\ Told => Told'
      /\ \A i \in 1..Len(wire') : Sound(wire'[i], report, ctl'.at, sup')
  <2>1. CASE UNCHANGED wire
    BY <1>1, <1>2, <2>1 DEF Told, RunInv, FrameInv
  <2>2. ASSUME NEW f \in Frames, Sound(f, report, ctl'.at, sup'), wire' = Append(wire, f)
        PROVE  /\ wire' \in Seq(Frames)
               /\ Told => Told'
               /\ \A i \in 1..Len(wire') : Sound(wire'[i], report, ctl'.at, sup')
    <3>1. /\ wire' \in Seq(Frames) /\ (Told => Told')
          /\ \A i \in 1..Len(wire') : wire'[i] = f \/ \E j \in 1..Len(wire) : wire'[i] = wire[j]
      BY <1>1, <2>2, FrameAdded
    <3> QED  BY <1>2, <2>2, <3>1 DEF RunInv, FrameInv
  <2> QED  BY <2>1, <2>2
<1>4. RunTypeOK'
  BY <1>3 DEF RunInv, RunTypeOK
<1>5. FrameInv'
  BY <1>2, <1>3 DEF RunInv, FrameInv
<1>6. ToldInv'
  BY <1>3 DEF RunInv, ToldInv
<1>7. OrderInv'
  BY <1>1 DEF OrderInv
<1>8. OutcomeInv'
  BY <1>1 DEF RunInv, OutcomeInv
<1> QED  BY <1>4, <1>5, <1>6, <1>7, <1>8 DEF RunInv

LEMMA PreflightKeeps ==
  ASSUME RunInv, Preflight
  PROVE  RunInv'
<1> DEFINE unavailable == [kind |-> "error", what |-> "supervisor_unavailable"]
<1>1. /\ sup = "preflight" /\ sup' \in {"spawn", "exit127", "exit0"}
      /\ UNCHANGED wire \/ (sup' = "exit0" /\ wire' = Append(wire, unavailable))
      /\ UNCHANGED <<cand, heap, written, seen, status, timer, ctl, report, lch, outcome>>
  BY DEF Preflight, Emit
<1>2. ctl.at = "unborn" /\ SupervisorAlive
  BY <1>1 DEF RunInv, OrderInv, SupervisorAlive
<1>3. unavailable \in Frames
  BY DEF Frames, FrameErrors
<1>4. sup' = "exit0" => Sound(unavailable, report, ctl'.at, sup')
  BY <1>1, <1>2 DEF Sound
<1>5. sup' \in SupPlaces \ {"unborn", "preflight"}
  BY <1>1 DEF SupPlaces
<1> HIDE DEF unavailable
<1>6. CandInv' /\ WatchInv' /\ ReportInv' /\ cand' \in CandRecords /\ ctl' \in CtlRecords
  BY <1>1, InsideUnchanged
<1> QED  BY <1>1, <1>2, <1>3, <1>4, <1>5, <1>6, SupervisorFrame

LEMMA SpawnKeeps ==
  ASSUME RunInv, Spawn
  PROVE  RunInv'
<1>1. /\ sup = "spawn"
      /\ \/ sup' = "map" /\ ControllerAt("sync")
         \/ sup' = "exit127" /\ UNCHANGED ctl
      /\ UNCHANGED <<cand, heap, written, seen, status, timer, report, wire, lch, outcome>>
  BY DEF Spawn
<1>2. ctl.at = "unborn" /\ SupervisorAlive
  BY <1>1 DEF RunInv, OrderInv, SupervisorAlive
<1>3. sup' \in SupPlaces \ {"unborn", "preflight"}
  BY <1>1 DEF SupPlaces
<1>4. CASE sup' = "exit127" /\ UNCHANGED ctl
  <2>1. CandInv' /\ WatchInv' /\ ReportInv' /\ cand' \in CandRecords /\ ctl' \in CtlRecords
    BY <1>1, <1>4, InsideUnchanged
  <2> QED  BY <1>1, <1>2, <1>3, <1>4, <2>1, SupervisorFrame
<1>5. CASE sup' = "map" /\ ControllerAt("sync")
  <2>1. /\ ctl' \in CtlRecords /\ ctl'.at = "sync" /\ ctl'.scan = ctl.scan
        /\ ctl'.ready = ctl.ready /\ ctl'.eof = ctl.eof /\ ctl'.cause = ctl.cause
    <3>1. "sync" \in CtlPlaces
      BY DEF CtlPlaces
    <3> QED  BY <1>5, <3>1, ControllerMoves DEF RunInv, RunTypeOK
  <2>2. CandInv' /\ WatchInv'
    BY <1>1, <1>2, <2>1 DEF RunInv, CandInv, WatchInv
  <2>3. ReportInv'
    BY <1>1, <1>2, <2>1 DEF RunInv, ReportInv, NoReport
  <2>4. cand' \in CandRecords
    BY <1>1 DEF RunInv, RunTypeOK
  <2> QED  BY <1>1, <1>2, <1>3, <1>5, <2>1, <2>2, <2>3, <2>4, SupervisorFrame
<1> QED  BY <1>1, <1>4, <1>5

\* The supervisor kills the namespace and ends.
LEMMA KillKeeps ==
  ASSUME RunInv, SupervisorAlive, sup' = "exit127", NamespaceKilled,
         UNCHANGED <<heap, written, seen, status, timer, report, wire, lch, outcome>>
  PROVE  RunInv'
<1>1. sup' \in SupPlaces \ {"unborn", "preflight"} /\ sup' \notin {"spawn", "map", "finalize"}
  BY DEF SupPlaces
<1>2. CASE ControllerGone
  <2>1. UNCHANGED <<ctl, cand>>
    BY <1>2 DEF NamespaceKilled
  <2>2. CandInv' /\ WatchInv' /\ ReportInv' /\ cand' \in CandRecords /\ ctl' \in CtlRecords
    BY <2>1, InsideUnchanged
  <2> QED  BY <1>1, <2>1, <2>2, SupervisorFrame
<1>3. CASE ~ControllerGone
  <2>1. /\ ControllerAt("killed")
        /\ cand' = IF cand.at = "unborn" THEN cand ELSE [Slain EXCEPT !.at = "reaped"]
    BY <1>3 DEF NamespaceKilled
  <2>2. /\ CandInv' /\ WatchInv' /\ ReportInv' /\ cand' \in CandRecords /\ ctl' \in CtlRecords
        /\ cand'.at \in {"unborn", "reaped"}
    BY <1>3, <2>1, Stopping
  <2>3. cand'.at \notin Begun /\ ctl.at # "exit0"
    BY <1>3, <2>2 DEF Begun, ControllerGone
  <2> QED  BY <1>1, <2>2, <2>3, SupervisorFrame
<1> QED  BY <1>2, <1>3

LEMMA MapKeeps ==
  ASSUME RunInv, MapIdentity
  PROVE  RunInv'
<1>1. /\ sup = "map"
      /\ \/ sup' = "collect" /\ ControllerAt("prepare") /\ UNCHANGED cand
         \/ sup' = "exit127" /\ NamespaceKilled
      /\ UNCHANGED <<heap, written, seen, status, timer, report, wire, lch, outcome>>
  BY DEF MapIdentity
<1>2. ctl.at = "sync" /\ SupervisorAlive
  BY <1>1 DEF RunInv, OrderInv, SupervisorAlive
<1>3. CASE sup' = "exit127" /\ NamespaceKilled
  BY <1>1, <1>2, <1>3, KillKeeps
<1>4. CASE sup' = "collect" /\ ControllerAt("prepare") /\ UNCHANGED cand
  <2>1. /\ ctl' \in CtlRecords /\ ctl'.at = "prepare" /\ ctl'.scan = ctl.scan
        /\ ctl'.ready = ctl.ready /\ ctl'.eof = ctl.eof /\ ctl'.cause = ctl.cause
    <3>1. "prepare" \in CtlPlaces
      BY DEF CtlPlaces
    <3> QED  BY <1>4, <3>1, ControllerMoves DEF RunInv, RunTypeOK
  <2>2. CandInv' /\ WatchInv'
    BY <1>1, <1>2, <1>4, <2>1 DEF RunInv, CandInv, WatchInv
  <2>3. ReportInv'
    BY <1>1, <1>2, <2>1 DEF RunInv, ReportInv, NoReport
  <2>4. cand' \in CandRecords
    BY <1>4 DEF RunInv, RunTypeOK
  <2>5. sup' \in SupPlaces \ {"unborn", "preflight"}
    BY <1>4 DEF SupPlaces
  <2> QED  BY <1>1, <1>2, <1>4, <2>1, <2>2, <2>3, <2>4, <2>5, SupervisorFrame
<1> QED  BY <1>1, <1>3, <1>4

\* The gate of the controller closes when the supervisor is gone.
LEMMA GateKeeps ==
  ASSUME RunInv, GateLost
  PROVE  RunInv'
<1>1. /\ ctl.at = "sync" /\ ~SupervisorAlive /\ ControllerAt("exit124")
      /\ UNCHANGED <<cand, heap, written, seen, status, timer, report, wire, sup, lch, outcome>>
  BY DEF GateLost
<1>2. cand.at = "unborn"
  BY <1>1 DEF RunInv, CandInv
<1>3. /\ CandInv' /\ WatchInv' /\ ReportInv' /\ ctl' \in CtlRecords
      /\ ctl'.at = "exit124" /\ report = NoReport
  BY <1>1, <1>2, Stopping DEF ControllerGone
<1>4. RunTypeOK'
  BY <1>1, <1>3 DEF RunInv, RunTypeOK
<1>5. FrameInv' /\ ToldInv'
  BY <1>1, <1>3 DEF RunInv, FrameInv, Sound, ToldInv, Told
<1>6. OrderInv'
  BY <1>1, <1>3 DEF RunInv, OrderInv, SupervisorAlive, WriterLeft
<1>7. OutcomeInv'
  BY <1>1 DEF RunInv, OutcomeInv, SupervisorAlive
<1> QED  BY <1>3, <1>4, <1>5, <1>6, <1>7 DEF RunInv

LEMMA CollectKeeps ==
  ASSUME RunInv, CollectReport \/ CloseResult
  PROVE  RunInv'
<1>1. /\ sup \in {"collect", "close"} /\ sup' \in {"exit127", "exit0", "finalize"}
      /\ sup' = "finalize" => report.kind # "none"
      /\ UNCHANGED <<cand, heap, written, seen, status, timer, ctl, report, wire, lch, outcome>>
  BY DEF CollectReport, CloseResult, insideVars
<1>2. SupervisorAlive /\ sup' \in SupPlaces \ {"unborn", "preflight"}
      /\ sup' \notin {"spawn", "map"} /\ (sup' = "finalize" => report # NoReport)
  BY <1>1 DEF SupervisorAlive, SupPlaces, NoReport
<1>3. CandInv' /\ WatchInv' /\ ReportInv' /\ cand' \in CandRecords /\ ctl' \in CtlRecords
  BY <1>1, InsideUnchanged
<1> QED  BY <1>1, <1>2, <1>3, SupervisorFrame

\* The frames the supervisor may end with.
LEMMA FinalSound ==
  ASSUME RunInv, report # NoReport, NEW closed \in BOOLEAN, NEW f \in FinalFrames(closed)
  PROVE  f \in Frames /\ \A s : Sound(f, report, ctl.at, s)
<1>1. ctl.at = "exit0"
  BY DEF FinalFrames
<1>2. report \in Reports /\ (report.kind = "result" => report.what = ctl.cause)
  BY DEF RunInv, RunTypeOK, ReportInv
<1>3. CASE f = report /\ report.kind = "result"
  <2>1. /\ report.what \in TerminalCauses \cup LimitCauses \cup {"none"}
        /\ report.what # "supervisor_unavailable"
    BY <1>2, <1>3 DEF RunInv, RunTypeOK, CtlRecords, TerminalCauses, LimitCauses
  <2>2. f \in [kind : {"result"}, what : TerminalCauses \cup LimitCauses \cup {"none"}]
    BY <1>2, <1>3, <2>1 DEF Reports
  <2> QED  BY <1>1, <1>3, <2>1, <2>2 DEF Frames, Sound
<1>4. ASSUME NEW code \in FrameErrors \ {"supervisor_unavailable"},
             f = [kind |-> "error", what |-> code]
      PROVE  f \in Frames /\ \A s : Sound(f, report, ctl.at, s)
  BY <1>4 DEF Frames, Sound
<1>5. report.kind \in {"result", "error"}
  BY <1>2 DEF Reports
<1>6. \/ f = report /\ report.kind = "result"
      \/ f = [kind |-> "error", what |-> "scratch_observation_incomplete"]
      \/ f = [kind |-> "error", what |-> "output_observation_incomplete"]
      \/ f = [kind |-> "error", what |-> "namespace_cleanup_incomplete"]
  BY <1>1, <1>5 DEF FinalFrames
<1>7. {"scratch_observation_incomplete", "output_observation_incomplete",
       "namespace_cleanup_incomplete"} \subseteq FrameErrors \ {"supervisor_unavailable"}
  BY DEF FrameErrors
<1> QED  BY <1>3, <1>4, <1>6, <1>7

LEMMA FinalizeKeeps ==
  ASSUME RunInv, Finalize
  PROVE  RunInv'
<1>1. /\ sup = "finalize" /\ sup' \in {"close", "exit127"}
      /\ \/ UNCHANGED wire
         \/ \E closed \in BOOLEAN : \E f \in FinalFrames(closed) : wire' = Append(wire, f)
      /\ UNCHANGED <<cand, heap, written, seen, status, timer, ctl, report, lch, outcome>>
  BY DEF Finalize, Emit
<1>2. SupervisorAlive /\ sup' \in SupPlaces \ {"unborn", "preflight"}
      /\ sup' \notin {"spawn", "map", "finalize"}
  BY <1>1 DEF SupervisorAlive, SupPlaces
<1>3. report # NoReport
  BY <1>1 DEF RunInv, OrderInv
<1>4. CandInv' /\ WatchInv' /\ ReportInv' /\ cand' \in CandRecords /\ ctl' \in CtlRecords
  BY <1>1, InsideUnchanged
<1>5. \/ UNCHANGED wire
      \/ \E f \in Frames : Sound(f, report, ctl'.at, sup') /\ wire' = Append(wire, f)
  BY <1>1, <1>3, FinalSound
<1> QED  BY <1>1, <1>2, <1>4, <1>5, SupervisorFrame

LEMMA SupervisorKeeps ==
  ASSUME RunInv, Supervisor
  PROVE  RunInv'
<1>1. CASE SupervisorWatchdog
  <2>1. /\ SupervisorAlive /\ sup' = "exit127" /\ NamespaceKilled
        /\ UNCHANGED <<heap, written, seen, status, timer, report, wire, lch, outcome>>
    BY <1>1 DEF SupervisorWatchdog, SupervisorAlive
  <2> QED  BY <2>1, KillKeeps
<1> QED  BY <1>1, PreflightKeeps, SpawnKeeps, MapKeeps, CollectKeeps, FinalizeKeeps
         DEF Supervisor

-----------------------------------------------------------------------------
\* The launcher

\* A step of the launcher: the processes inside are as they were, and the
\* supervisor is at most killed, or born with the launch.
LEMMA LauncherFrame ==
  ASSUME RunInv, UNCHANGED <<cand, heap, written, seen, status, timer, ctl, report>>,
         \/ KillSupervisor \/ UNCHANGED sup
         \/ lch.at = "launch" /\ sup' = "preflight",
         lch' \in LchRecords, wire' \in Seq(Frames),
         lch'.at # "launch", lch'.at = "collect" => sup' # "unborn",
         Sound(lch'.terminal, report, ctl.at, sup),
         \A i \in 1..Len(wire') : Sound(wire'[i], report, ctl.at, sup),
         Told => Told',
         lch'.eof => wire' = <<>> /\ ~WriterLeft /\ lch.at # "launch",
         lch'.reap # "none" => ~SupervisorAlive /\ lch.at # "launch",
         OutcomeInv'
  PROVE  RunInv'
<1>1. \/ sup' = sup \/ (SupervisorAlive /\ sup' = "killed")
      \/ lch.at = "launch" /\ sup = "unborn" /\ ctl.at = "unborn" /\ sup' = "preflight"
  BY DEF KillSupervisor, RunInv, OrderInv
<1>2. sup' \in SupPlaces
  BY <1>1 DEF SupPlaces, RunInv, RunTypeOK
<1>3. \A f : Sound(f, report, ctl.at, sup) => Sound(f, report', ctl'.at, sup')
  BY <1>1 DEF Sound, SupervisorAlive
<1>4. RunTypeOK'
  BY <1>2 DEF RunInv, RunTypeOK
<1>5. CandInv' /\ WatchInv' /\ ReportInv'
  BY InsideUnchanged
<1>6. FrameInv'
  BY <1>3 DEF FrameInv
<1>7. ToldInv'
  BY DEF RunInv, ToldInv
<1>8. OrderInv'
  <2>1. /\ sup' \in {"unborn", "preflight", "spawn"} => ctl'.at = "unborn"
        /\ sup' = "map" => ctl'.at = "sync"
        /\ sup' = "finalize" => report' # NoReport
    BY <1>1 DEF RunInv, OrderInv
  <2>2. lch.at # "launch" => (SupervisorAlive' => SupervisorAlive)
    BY <1>1 DEF SupervisorAlive
  <2>3. lch.at # "launch" => (WriterLeft' => WriterLeft)
    BY <2>2 DEF WriterLeft
  <2> QED  BY <2>1, <2>2, <2>3 DEF OrderInv
<1> QED  BY <1>4, <1>5, <1>6, <1>7, <1>8 DEF RunInv

\* While the launcher is at work the host has been told nothing.
LEMMA NothingTold ==
  ASSUME RunInv, lch.at # "done"
  PROVE  /\ outcome = NoOutcome /\ lch \in LchRecords /\ wire \in Seq(Frames)
         /\ UNCHANGED outcome => OutcomeInv'
<1>1. outcome = NoOutcome
  BY DEF RunInv, OutcomeInv
<1>2. ASSUME UNCHANGED outcome PROVE OutcomeInv'
  BY <1>1, <1>2 DEF OutcomeInv, NoOutcome
<1> QED  BY <1>1, <1>2 DEF RunInv, RunTypeOK

\* The launcher changes nothing but its own place and its marks.
LEMMA LauncherMarks ==
  ASSUME RunInv, UNCHANGED <<cand, heap, written, seen, status, timer, ctl, report, wire>>,
         KillSupervisor \/ UNCHANGED sup,
         lch.at \in {"launch", "collect"}, lch' \in LchRecords,
         lch'.at \in {"collect", "done", "crashed"}, lch'.at = "collect" => lch.at = "collect",
         lch'.terminal = lch.terminal, lch'.started = lch.started, lch'.broken = lch.broken,
         lch'.eof => lch.eof \/ (wire = <<>> /\ ~WriterLeft /\ lch.at # "launch"),
         lch'.reap # "none" => lch.reap # "none" \/ (~SupervisorAlive /\ lch.at # "launch"),
         OutcomeInv'
  PROVE  RunInv'
<1>1. /\ Sound(lch'.terminal, report, ctl.at, sup) /\ wire' \in Seq(Frames)
      /\ \A i \in 1..Len(wire') : Sound(wire'[i], report, ctl.at, sup)
  BY DEF RunInv, RunTypeOK, FrameInv
<1>2. Told => Told'
  BY DEF Told
<1>3. /\ lch'.eof => wire' = <<>> /\ ~WriterLeft /\ lch.at # "launch"
      /\ lch'.reap # "none" => ~SupervisorAlive /\ lch.at # "launch"
      /\ lch'.at = "collect" => sup' # "unborn"
  BY DEF RunInv, OrderInv, KillSupervisor
<1> QED  BY <1>1, <1>2, <1>3, LauncherFrame

LEMMA LaunchKeeps ==
  ASSUME RunInv, Launch
  PROVE  RunInv'
<1>1. /\ lch.at = "launch"
      /\ UNCHANGED <<cand, heap, written, seen, status, timer, ctl, report, wire>>
  BY DEF Launch
<1>2. /\ lch \in LchRecords /\ outcome = NoOutcome /\ wire \in Seq(Frames)
      /\ UNCHANGED outcome => OutcomeInv'
  BY <1>1, NothingTold
<1>3. sup = "unborn" /\ ctl.at = "unborn" /\ ~lch.eof /\ lch.reap = "none"
  BY <1>1 DEF RunInv, OrderInv
<1>4. CASE sup' = "preflight" /\ lch' = [lch EXCEPT !.at = "collect"] /\ UNCHANGED outcome
  <2>1. /\ lch' \in LchRecords /\ lch'.at = "collect" /\ lch'.terminal = lch.terminal
        /\ lch'.started = lch.started /\ lch'.broken = lch.broken /\ lch'.eof = lch.eof
        /\ lch'.reap = lch.reap
    BY <1>2, <1>4 DEF LchRecords
  <2>2. /\ Sound(lch'.terminal, report, ctl.at, sup)
        /\ \A i \in 1..Len(wire') : Sound(wire'[i], report, ctl.at, sup)
    BY <1>1, <2>1 DEF RunInv, FrameInv
  <2>3. Told => Told'
    BY <1>1, <2>1 DEF Told
  <2> QED  BY <1>1, <1>2, <1>3, <1>4, <2>1, <2>2, <2>3, LauncherFrame
<1>5. ASSUME NEW code, outcome' = CleanPrestart(code), lch' = [lch EXCEPT !.at = "done"],
             UNCHANGED sup
      PROVE  RunInv'
  <2>1. /\ lch' \in LchRecords /\ lch'.at = "done" /\ lch'.terminal = lch.terminal
        /\ lch'.started = lch.started /\ lch'.broken = lch.broken /\ lch'.eof = lch.eof
        /\ lch'.reap = lch.reap
    BY <1>2, <1>5 DEF LchRecords
  <2>2. OutcomeInv'
    BY <1>1, <1>3, <1>5, <2>1 DEF OutcomeInv, CleanPrestart, Claim, SupervisorAlive
  <2> QED  BY <1>1, <1>5, <2>1, <2>2, LauncherMarks
<1> QED  BY <1>4, <1>5 DEF Launch

LEMMA ReadFrameKeeps ==
  ASSUME RunInv, ReadFrame
  PROVE  RunInv'
<1> DEFINE f == Head(wire)
<1>1. /\ lch.at = "collect" /\ ~lch.eof /\ wire # <<>> /\ wire' = Tail(wire)
      /\ UNCHANGED <<cand, heap, written, seen, status, timer, ctl, report, outcome>>
  BY DEF ReadFrame, Reading
<1>2. lch \in LchRecords /\ wire \in Seq(Frames) /\ OutcomeInv'
  BY <1>1, NothingTold
<1>3. /\ wire' \in Seq(Frames) /\ f \in Frames /\ f = wire[1] /\ 1 \in 1..Len(wire)
      /\ Len(wire') = Len(wire) - 1 /\ Len(wire) \in Nat
      /\ \A i \in 1..Len(wire') : i + 1 \in 1..Len(wire) /\ wire'[i] = wire[i + 1]
  BY <1>1, <1>2
<1> HIDE DEF f
<1>4. /\ Sound(f, report, ctl.at, sup) /\ Sound(lch.terminal, report, ctl.at, sup)
      /\ \A i \in 1..Len(wire') : Sound(wire'[i], report, ctl.at, sup)
  BY <1>3 DEF RunInv, FrameInv
<1>5. \/ lch' = [lch EXCEPT !.broken = TRUE] /\ KillSupervisor
      \/ f.kind = "started" /\ lch' = [lch EXCEPT !.started = TRUE] /\ UNCHANGED sup
      \/ f.kind # "started" /\ lch' = [lch EXCEPT !.terminal = f] /\ UNCHANGED sup
  BY DEF ReadFrame, f
<1>6. /\ lch' \in LchRecords /\ lch'.at = "collect" /\ lch'.eof = lch.eof
      /\ lch'.reap = lch.reap
      /\ lch'.terminal \in {lch.terminal, f}
      /\ lch.started => lch'.started
      /\ lch.broken => lch'.broken
      /\ f.kind = "started" => lch'.started \/ lch'.broken
  BY <1>1, <1>2, <1>3, <1>5 DEF LchRecords
<1>7. Told => Told'
  <2>1. ASSUME NEW i \in 1..Len(wire), wire[i].kind = "started" PROVE Told'
    <3>1. CASE i = 1
      BY <1>3, <1>6, <2>1, <3>1 DEF Told
    <3>2. CASE i # 1
      <4>1. i - 1 \in 1..Len(wire') /\ (i - 1) + 1 = i
        BY <1>3, <3>2
      <4>2. wire'[i - 1].kind = "started"
        BY <1>3, <2>1, <4>1
      <4> QED  BY <4>1, <4>2 DEF Told
    <3> QED  BY <3>1, <3>2
  <2> QED  BY <1>6, <2>1 DEF Told
<1>8. /\ sup' # "unborn" /\ (lch'.reap # "none" => ~SupervisorAlive)
      /\ KillSupervisor \/ UNCHANGED sup
  BY <1>1, <1>5, <1>6 DEF RunInv, OrderInv, KillSupervisor
<1> QED  BY <1>1, <1>2, <1>3, <1>4, <1>6, <1>7, <1>8, LauncherFrame

\* The steps that only set a mark, and those that give up.
LEMMA MarksKeep ==
  ASSUME RunInv, ReadEof \/ ReadFails \/ LauncherWatchdog \/ Reap \/ CollectFails \/ HostDies
  PROVE  RunInv'
<1>1. /\ lch.at \in {"launch", "collect"}
      /\ UNCHANGED <<cand, heap, written, seen, status, timer, ctl, report, wire>>
      /\ KillSupervisor \/ UNCHANGED sup
  BY DEF ReadEof, ReadFails, LauncherWatchdog, Reap, CollectFails, HostDies, Reading, insideVars
<1>2. /\ lch \in LchRecords /\ outcome = NoOutcome
      /\ UNCHANGED outcome => OutcomeInv'
  BY <1>1, NothingTold
<1>3. CASE ReadEof
  <2>1. /\ lch' = [lch EXCEPT !.eof = TRUE] /\ lch.at = "collect" /\ wire = <<>> /\ ~WriterLeft
        /\ UNCHANGED outcome
    BY <1>3 DEF ReadEof, Reading
  <2>2. /\ lch' \in LchRecords /\ lch'.at = lch.at /\ lch'.terminal = lch.terminal
        /\ lch'.started = lch.started /\ lch'.broken = lch.broken /\ lch'.reap = lch.reap
    BY <1>2, <2>1 DEF LchRecords
  <2> QED  BY <1>1, <1>2, <2>1, <2>2, LauncherMarks
<1>4. CASE ReadFails
  <2>1. lch' = [lch EXCEPT !.infra = "result_pipe_lost"] /\ lch.at = "collect"
        /\ UNCHANGED outcome
    BY <1>4 DEF ReadFails, Reading
  <2>2. /\ lch' \in LchRecords /\ lch'.at = lch.at /\ lch'.terminal = lch.terminal
        /\ lch'.started = lch.started /\ lch'.broken = lch.broken /\ lch'.reap = lch.reap
        /\ lch'.eof = lch.eof
    BY <1>2, <2>1 DEF LchRecords
  <2> QED  BY <1>1, <1>2, <2>1, <2>2, LauncherMarks
<1>5. CASE LauncherWatchdog
  <2>1. lch' = [lch EXCEPT !.watchdog = TRUE] /\ lch.at = "collect" /\ UNCHANGED outcome
    BY <1>5 DEF LauncherWatchdog
  <2>2. /\ lch' \in LchRecords /\ lch'.at = lch.at /\ lch'.terminal = lch.terminal
        /\ lch'.started = lch.started /\ lch'.broken = lch.broken /\ lch'.reap = lch.reap
        /\ lch'.eof = lch.eof
    BY <1>2, <2>1 DEF LchRecords
  <2> QED  BY <1>1, <1>2, <2>1, <2>2, LauncherMarks
<1>6. CASE Reap
  <2>1. /\ lch.at = "collect" /\ ~SupervisorAlive /\ UNCHANGED outcome
        /\ \/ lch' = [lch EXCEPT !.reap = IF sup = "exit0" THEN "clean" ELSE "dirty"]
           \/ lch' = [lch EXCEPT !.reap = "unknown",
                                 !.infra = IF @ = "none" THEN "reap_ambiguous" ELSE @]
    BY <1>6 DEF Reap
  <2>2. /\ lch' \in LchRecords /\ lch'.at = lch.at /\ lch'.terminal = lch.terminal
        /\ lch'.started = lch.started /\ lch'.broken = lch.broken /\ lch'.eof = lch.eof
    BY <1>2, <2>1 DEF LchRecords
  <2> QED  BY <1>1, <1>2, <2>1, <2>2, LauncherMarks
<1>7. CASE CollectFails \/ HostDies
  <2>1. /\ \E p \in {"done", "crashed"} : lch' = [lch EXCEPT !.at = p]
        /\ UNCHANGED outcome \/ (lch' = [lch EXCEPT !.at = "done"] /\ outcome' = Loud)
    BY <1>7 DEF CollectFails, HostDies
  <2>2. /\ lch' \in LchRecords /\ lch'.at \in {"done", "crashed"}
        /\ lch'.terminal = lch.terminal
        /\ lch'.started = lch.started /\ lch'.broken = lch.broken /\ lch'.reap = lch.reap
        /\ lch'.eof = lch.eof
        /\ lch' = [lch EXCEPT !.at = "done"] => lch'.at = "done"
    BY <1>2, <2>1 DEF LchRecords
  <2>3. OutcomeInv'
    BY <1>2, <2>1, <2>2 DEF OutcomeInv, Loud
  <2> QED  BY <1>1, <2>2, <2>3, LauncherMarks
<1> QED  BY <1>3, <1>4, <1>5, <1>6, <1>7

\* What the launcher may tell the host when it has collected everything.
LEMMA FinishKeeps ==
  ASSUME RunInv, Finish
  PROVE  RunInv'
<1>1. /\ lch.at = "collect" /\ lch.reap # "none"
      /\ lch.eof \/ lch.infra = "result_pipe_lost"
      /\ lch' = [lch EXCEPT !.at = "done"]
      /\ UNCHANGED <<cand, heap, written, seen, status, timer, ctl, report, wire, sup>>
  BY DEF Finish
<1>2. lch \in LchRecords
  BY DEF RunInv, RunTypeOK
<1>3. /\ lch' \in LchRecords /\ lch'.at = "done" /\ lch'.terminal = lch.terminal
      /\ lch'.started = lch.started /\ lch'.broken = lch.broken /\ lch'.reap = lch.reap
      /\ lch'.eof = lch.eof
  BY <1>1, <1>2 DEF LchRecords
<1>4. ~SupervisorAlive /\ (SupervisorAlive' <=> SupervisorAlive)
  BY <1>1 DEF RunInv, OrderInv, SupervisorAlive
<1>5. \/ outcome' = Loud
      \/ outcome' = CleanPrestart("source_staging_failed")
      \/ outcome' = Collected /\ Normalized(Collected) = Collected
  BY DEF Finish, Normalized
<1>6. CASE outcome' = Loud \/ outcome' = CleanPrestart("source_staging_failed")
  <2>1. OutcomeInv'
    BY <1>3, <1>6 DEF OutcomeInv, Loud, CleanPrestart, Claim
  <2> QED  BY <1>1, <1>3, <2>1, LauncherMarks
<1>7. CASE outcome' = Collected /\ Normalized(Collected) = Collected
  <2>1. CASE lch.broken
    BY <1>6, <1>7, <2>1 DEF Collected
  <2>2. CASE ~lch.broken /\ lch.infra # "none"
    <3>1. /\ Collected = Claim(lch.infra, Start, "unknown")
          /\ lch.infra \in {"result_pipe_lost", "reap_ambiguous"}
      BY <1>2, <2>2 DEF Collected, LchRecords
    <3>2. lch.infra = "reap_ambiguous" => Collected = Loud \/ lch.started
      BY <1>7, <3>1 DEF Normalized, Claim
    <3>3. CASE Collected = Loud
      BY <1>6, <1>7, <3>3
    <3>4. CASE Collected # Loud
      <4>1. OutcomeInv'
        BY <1>3, <1>7, <3>1, <3>2, <3>4 DEF OutcomeInv, Claim, Start
      <4> QED  BY <1>1, <1>3, <4>1, LauncherMarks
    <3> QED  BY <3>3, <3>4
  <2>3. CASE ~lch.broken /\ lch.infra = "none" /\ lch.terminal # NoReport /\ lch.reap # "clean"
    BY <1>6, <1>7, <2>3 DEF Collected
  <2>4. CASE /\ ~lch.broken /\ lch.infra = "none" /\ lch.terminal # NoReport
             /\ lch.reap = "clean"
    <3>1. Sound(lch.terminal, report, ctl.at, sup)
      BY DEF RunInv, FrameInv
    <3>2. CASE lch.terminal.kind = "result"
      <4>1. outcome' = [kind |-> "result", what |-> lch.terminal.what,
                        start |-> "started", cleanup |-> "complete"]
        BY <1>7, <2>4, <3>2 DEF Collected
      <4>2. lch.terminal = report /\ ctl.at = "exit0"
        BY <3>1, <3>2 DEF Sound
      <4>3. OutcomeInv'
        BY <1>1, <1>3, <1>4, <3>2, <4>1, <4>2 DEF OutcomeInv
      <4> QED  BY <1>1, <1>3, <4>3, LauncherMarks
    <3>3. CASE /\ lch.terminal.kind # "result"
               /\ lch.terminal.what = "supervisor_unavailable"
      <4>1. outcome' = CleanPrestart("supervisor_unavailable")
        BY <1>7, <2>4, <3>3 DEF Collected
      <4>2. ctl.at = "unborn"
        BY <3>1, <3>3 DEF Sound
      <4>3. OutcomeInv'
        BY <1>1, <1>3, <1>4, <4>1, <4>2 DEF OutcomeInv, CleanPrestart, Claim
      <4> QED  BY <1>1, <1>3, <4>3, LauncherMarks
    <3>4. CASE /\ lch.terminal.kind # "result"
               /\ lch.terminal.what # "supervisor_unavailable"
      <4>1. outcome' = Claim(lch.terminal.what, "started", "incomplete")
        BY <1>7, <2>4, <3>4 DEF Collected
      <4>2. OutcomeInv'
        BY <1>3, <4>1 DEF OutcomeInv, Claim
      <4> QED  BY <1>1, <1>3, <4>2, LauncherMarks
    <3> QED  BY <3>2, <3>3, <3>4
  <2>5. CASE ~lch.broken /\ lch.infra = "none" /\ lch.terminal = NoReport
    <3>1. \E code : outcome' = Claim(code, Start, "unknown")
      BY <1>7, <2>5 DEF Collected
    <3>2. lch.eof
      BY <1>1, <2>5
    <3>3. OutcomeInv'
      BY <1>3, <2>5, <3>1, <3>2 DEF OutcomeInv, Claim, Start
    <3> QED  BY <1>1, <1>3, <3>3, LauncherMarks
  <2> QED  BY <2>1, <2>2, <2>3, <2>4, <2>5
<1> QED  BY <1>5, <1>6, <1>7

-----------------------------------------------------------------------------
\* The theorems

LEMMA RunStarts ==
  ASSUME QaRunInit
  PROVE  RunInv
<1>1. RunTypeOK
  BY DEF QaRunInit, QaControllerInit, RunTypeOK, CandRecords, CandPlaces, Exits, CtlRecords,
         CtlPlaces, SupPlaces, LchRecords
<1>2. CandInv /\ WatchInv
  BY DEF QaRunInit, QaControllerInit, CandInv, WatchInv, TerminalCauses
<1>3. ReportInv
  BY DEF QaRunInit, QaControllerInit, ReportInv, NoReport
<1>4. FrameInv /\ ToldInv
  BY DEF QaRunInit, QaControllerInit, FrameInv, ToldInv, Sound, NoReport, Begun
<1>5. OrderInv /\ OutcomeInv
  BY DEF QaRunInit, QaControllerInit, OrderInv, OutcomeInv, NoOutcome
<1> QED  BY <1>1, <1>2, <1>3, <1>4, <1>5 DEF RunInv

LEMMA RunStutters ==
  ASSUME RunInv, UNCHANGED qaVars
  PROVE  RunInv'
<1>1. UNCHANGED <<cand, heap, written, seen, status, timer, ctl, report, wire, sup, lch, outcome>>
  BY DEF qaVars, insideVars
<1>2. CandInv' /\ WatchInv' /\ ReportInv'
  BY <1>1, InsideUnchanged
<1>3. RunTypeOK' /\ FrameInv' /\ ToldInv'
  BY <1>1 DEF RunInv, RunTypeOK, FrameInv, ToldInv, Told
<1>4. OrderInv' /\ OutcomeInv'
  BY <1>1 DEF RunInv, OrderInv, OutcomeInv, WriterLeft, SupervisorAlive
<1> QED  BY <1>2, <1>3, <1>4 DEF RunInv

\* RunInv holds of every run, whatever the candidate does, whichever calls
\* fail and in whatever order launcher, supervisor, controller and candidate
\* take their steps.
THEOREM RunInvariant == QaRunSpec => []RunInv
<1>1. QaRunInit => RunInv
  BY RunStarts
<1>2. RunInv /\ [QaRunNext]_qaVars => RunInv'
  <2> SUFFICES ASSUME RunInv, [QaRunNext]_qaVars PROVE RunInv'
    OBVIOUS
  <2>1. CASE Inside(Candidate(ResultRead))
    BY <2>1, CandidateKeeps
  <2>2. CASE Inside(WallTimerExpires)
    BY <2>2, TimerKeeps
  <2>3. CASE Inside(Controller(ReportRead))
    BY <2>3, ControllerKeeps
  <2>4. CASE GateLost
    BY <2>4, GateKeeps
  <2>5. CASE Supervisor
    BY <2>5, SupervisorKeeps
  <2>6. CASE Launcher
    BY <2>6, LaunchKeeps, ReadFrameKeeps, FinishKeeps, MarksKeep DEF Launcher
  <2>7. CASE ReadFails \/ CollectFails \/ HostDies
    BY <2>7, MarksKeep
  <2>8. CASE Ended \/ UNCHANGED qaVars
    BY <2>8, RunStutters DEF Ended
  <2> QED  BY <2>1, <2>2, <2>3, <2>4, <2>5, <2>6, <2>7, <2>8 DEF QaRunNext
<1>3. QaRunSpec => QaRunInit /\ [][QaRunNext]_qaVars
  BY PTL DEF QaRunSpec
<1> QED  BY <1>1, <1>2, <1>3, PTL

\* A result the host is told names what happened to the candidate: the wait
\* status, the whole output, the allocator's page and the wall clock agree
\* with the reason given (proc17_qa_controller_resolve_epoch,
\* proc17_qa_controller_report_build), for any limit and any faults.
THEOREM QaRunReasonTrue == QaRunSpec => []ReasonTrue
<1>1. RunInv => ReasonTrue
  <2> SUFFICES ASSUME RunInv, outcome.kind = "result"
               PROVE  LET crossed == \E s \in Streams : written[s] > OutputLimit
                          why == outcome.what IN
                      /\ cand.exit \in Terminations(why)
                      /\ why = "output_limit" <=> crossed
                      /\ why = "memory_limit" <=> heap = {"denied"}
                      /\ why = "wall_timeout" => timer = "consumed"
                      /\ why \notin {"wall_timeout", "output_limit", "memory_limit"}
                           => ~cand.late
    BY DEF ReasonTrue
  <2>1. outcome.what = ctl.cause /\ ReportValid /\ Streams \subseteq ctl.eof
    BY DEF RunInv, OutcomeInv, ReportInv, Settled
  <2>2. cand.exit \in Terminations(outcome.what)
    BY <2>1 DEF ReportValid
  <2>3. outcome.what = "output_limit" <=> \E s \in Streams : written[s] > OutputLimit
    <3>1. \A s \in Streams : seen[s] = written[s]
      BY <2>1 DEF RunInv, WatchInv
    <3> QED  BY <2>1, <3>1 DEF ReportValid, OutputCrossed
  <2>4. outcome.what = "memory_limit" <=> heap = {"denied"}
    BY <2>1 DEF ReportValid, AllocatorShapeValid
  <2>5. outcome.what = "wall_timeout" => timer = "consumed"
    BY <2>1 DEF RunInv, WatchInv
  <2>6. ASSUME outcome.what \notin {"wall_timeout", "output_limit", "memory_limit"}
        PROVE  ~cand.late
    <3>1. ctl.cause # "none"
      BY <2>1, <2>2 DEF Terminations
    <3>2. ctl.cause \in TerminalCauses
      BY <2>1, <2>6, <3>1 DEF RunInv, RunTypeOK, CtlRecords, LimitCauses
    <3> QED  BY <3>2 DEF RunInv, WatchInv
  <2> QED  BY <2>2, <2>3, <2>4, <2>5, <2>6
<1> QED  BY <1>1, RunInvariant, PTL

\* A result, or an error that claims complete cleanup, is only given when no
\* process of the run is left: a killed supervisor is never taken for the end
\* of the controller it leaves behind (proc17_qa_namespace_cleanup_observe,
\* set_derived_launcher_error).
THEOREM QaRunNothingLeftAlive == QaRunSpec => []NothingLeftAlive
<1>1. RunInv => NothingLeftAlive
  BY DEF RunInv, OutcomeInv, CandInv, NothingLeftAlive, ProcessesGone, ControllerGone
<1> QED  BY <1>1, RunInvariant, PTL

\* An error that says the candidate did not start, from a launcher that read
\* its pipe to the end, is right: the STARTED frame is in the pipe before
\* READY is sent, and the end of the pipe is only seen when nobody can write
\* to it any more (accept_complete_frame, finish_machine).
THEOREM QaRunNotStartedTrue == QaRunSpec => []NotStartedTrue
<1>1. RunInv => NotStartedTrue
  <2> SUFFICES ASSUME RunInv, outcome.start = "not_started",
                      outcome.what # "source_staging_failed",
                      outcome.what = "result_pipe_lost" => outcome.cleanup = "complete"
               PROVE  ~Alive /\ timer = "off"
    BY DEF NotStartedTrue
  <2>1. CASE ctl.at = "unborn"
    BY <2>1 DEF RunInv, CandInv, Alive
  <2>2. CASE lch.eof /\ ~lch.started /\ ~lch.broken
    <3>1. wire = <<>> /\ ~WriterLeft
      BY <2>2 DEF RunInv, OrderInv
    <3>2. ~Told
      BY <2>2, <3>1 DEF Told
    <3>3. cand.at \notin Begun /\ timer = "off" /\ cand.at # "setup"
      BY <3>1, <3>2 DEF RunInv, ToldInv, WriterLeft
    <3> QED  BY <3>3 DEF Alive, Begun
  <2> QED  BY <2>1, <2>2 DEF RunInv, OutcomeInv
<1> QED  BY <1>1, RunInvariant, PTL

=============================================================================
