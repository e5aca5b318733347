---------------------------- MODULE QaController ----------------------------
(***************************************************************************)
(* The inside of one native QA run: the candidate process and the          *)
(* namespace controller that releases it, watches it, kills it when it     *)
(* crosses a limit and reports on it (native/proc17_qa_supervisor.c,       *)
(* run_candidate_v1 and proc17_qa_run_namespace_controller_v1, with        *)
(* proc17_qa_phase.c, proc17_qa_controller.c, proc17_qa_stream.c,          *)
(* proc17_qa_status.c, proc17_qa_allocator.c and proc17_qa_report.c).      *)
(*                                                                         *)
(* The two processes run concurrently and share two output pipes, the      *)
(* status socket and the allocator telemetry page.  The controller's poll  *)
(* is not atomic: it looks at its five descriptors one after the other, so *)
(* the candidate may write, be denied memory or die between two looks.     *)
(* Output is counted in units.  Timers may expire at any moment.           *)
(***************************************************************************)
EXTENDS Naturals, Sequences, FiniteSets

CONSTANTS
  OutputLimit,  \* limit of each output stream, in units
  MaxOutput,    \* bound: units the candidate writes to both streams
  MaxFaults     \* bound: system calls that fail in one run

ASSUME QaControllerAssumption ==
  OutputLimit \in Nat /\ MaxOutput \in Nat /\ MaxFaults \in Nat

Streams == {"stdout", "stderr"}

VARIABLES
  cand,     \* the candidate: where it is, how it ends and (history) whether it
            \* ended after its wall timer had expired
  heap,     \* flags of the telemetry page: "denied", "untold", "broken"
  written,  \* units written to each stream
  seen,     \* units the controller has read of each stream
  status,   \* messages in the status socket
  timer,    \* the candidate's wall timer
  ctl,      \* the controller
  report,   \* the record in the private report pipe
  wire,     \* frames in the public result pipe
  faults    \* system calls that have failed

insideVars == <<cand, heap, written, seen, status, timer, ctl, report, wire, faults>>

NoReport == [kind |-> "none", what |-> "none"]

QaControllerInit ==
  /\ cand = [at |-> "unborn", exit |-> "none", late |-> FALSE]
  /\ heap = {}
  /\ written = [s \in Streams |-> 0]
  /\ seen = [s \in Streams |-> 0]
  /\ status = {}
  /\ timer = "off"
  /\ ctl = [at |-> "unborn", scan |-> 1, ready |-> {}, eof |-> {}, cause |-> "none",
            error |-> "none", heard |-> FALSE, killed |-> FALSE]
  /\ report = NoReport
  /\ wire = <<>>
  /\ faults = 0

\* A system call fails.
Fault == faults < MaxFaults /\ faults' = faults + 1
NoFault == UNCHANGED faults

-----------------------------------------------------------------------------
\* The candidate

Alive == cand.at \in {"setup", "started", "waiting", "running", "telling", "closing"}

\* The status socket is closed by the candidate before it exits.
StatusOpen == Alive /\ cand.at # "closing"

CandidateDies(how) == cand' = [at |-> "dead", exit |-> how, late |-> timer = "expired"]
CandidateAt(place) == cand' = [cand EXCEPT !.at = place]

\* Setup, then the STARTED frame; a failed call ends the candidate before
\* any of its own code runs.  reader: somebody reads the public pipe.
EmitStarted(reader) ==
  /\ cand.at = "setup"
  /\ \/ /\ reader /\ NoFault
        /\ wire' = Append(wire, [kind |-> "started", what |-> "none"])
        /\ CandidateAt("started")
     \/ /\ reader /\ Fault
        /\ wire' = Append(wire, [kind |-> "started", what |-> "none"])
        /\ CandidateDies("nonzero")
     \/ /\ (~reader /\ NoFault) \/ Fault
        /\ CandidateDies("nonzero")
        /\ UNCHANGED wire
  /\ UNCHANGED <<heap, written, seen, status, timer, ctl, report>>

SendReady ==
  /\ cand.at = "started"
  /\ \/ NoFault /\ status' = status \cup {"ready"} /\ CandidateAt("waiting")
     \/ Fault /\ CandidateDies("nonzero") /\ UNCHANGED status
  /\ UNCHANGED <<heap, written, seen, timer, ctl, report, wire>>

\* RELEASE is received: the candidate's code runs from here on.
ReceiveRelease ==
  /\ cand.at = "waiting"
  /\ "release" \in status
  /\ status' = status \ {"release"}
  /\ \/ NoFault /\ CandidateAt("running")
     \/ Fault /\ CandidateDies("nonzero")
  /\ UNCHANGED <<heap, written, seen, timer, ctl, report, wire>>

WriteOutput(s) ==
  /\ cand.at = "running"
  /\ written["stdout"] + written["stderr"] < MaxOutput
  /\ written' = [written EXCEPT ![s] = @ + 1]
  /\ UNCHANGED <<cand, heap, seen, status, timer, ctl, report, wire, faults>>

\* The allocator refuses an allocation above the ceiling: the first time it
\* raises the flag, then notifies the controller.
MarkCeilingDenied ==
  /\ cand.at = "running"
  /\ "denied" \notin heap
  /\ heap' = heap \cup {"denied"}
  /\ CandidateAt("telling")
  /\ UNCHANGED <<written, seen, status, timer, ctl, report, wire, faults>>

NotifyHeapDenied ==
  /\ cand.at = "telling"
  /\ CandidateAt("running")
  /\ \/ NoFault /\ status' = status \cup {"heap"} /\ UNCHANGED heap
     \/ Fault /\ heap' = heap \cup {"untold"} /\ UNCHANGED status
  /\ UNCHANGED <<written, seen, timer, ctl, report, wire>>

\* malloc itself fails.
SystemAllocationFails ==
  /\ cand.at = "running"
  /\ Fault
  /\ heap' = heap \cup {"broken"}
  /\ UNCHANGED <<cand, written, seen, status, timer, ctl, report, wire>>

\* The entrypoint returns or raises; the Lua state and the socket are closed
\* before the process exits.
LuaReturns ==
  /\ cand.at = "running"
  /\ \E code \in {"zero", "nonzero"} : cand' = [cand EXCEPT !.at = "closing", !.exit = code]
  /\ UNCHANGED <<heap, written, seen, status, timer, ctl, report, wire, faults>>

Exit ==
  /\ cand.at = "closing"
  /\ CandidateDies(cand.exit)
  /\ UNCHANGED <<heap, written, seen, status, timer, ctl, report, wire, faults>>

\* os.exit, the CPU limit, the seccomp filter, the kernel or a crash.
EndsAbruptly ==
  /\ cand.at \in {"running", "telling"}
  /\ \E how \in {"zero", "nonzero", "xcpu", "sys", "kill", "segv"} :
       /\ cand.at = "telling" => how = "kill"
       /\ CandidateDies(how)
  /\ UNCHANGED <<heap, written, seen, status, timer, ctl, report, wire, faults>>

\* Steps the candidate's process takes without its own code's consent.
CandidateSystem(reader) ==
  \/ EmitStarted(reader) \/ SendReady \/ ReceiveRelease \/ NotifyHeapDenied \/ Exit

Candidate(reader) ==
  \/ CandidateSystem(reader)
  \/ \E s \in Streams : WriteOutput(s)
  \/ MarkCeilingDenied \/ SystemAllocationFails \/ LuaReturns \/ EndsAbruptly

WallTimerExpires ==
  /\ timer = "armed"
  /\ timer' = "expired"
  /\ UNCHANGED <<cand, heap, written, seen, status, ctl, report, wire, faults>>

-----------------------------------------------------------------------------
\* The controller up to the release

ControllerAt(place) == ctl' = [ctl EXCEPT !.at = place]

\* The isolated world is mounted and the candidate forked.
PrepareAndFork ==
  /\ ctl.at = "prepare"
  /\ \/ NoFault /\ ControllerAt("await") /\ cand' = [cand EXCEPT !.at = "setup"]
     \/ Fault /\ ControllerAt("abort") /\ UNCHANGED cand
  /\ UNCHANGED <<heap, written, seen, status, timer, report, wire>>

\* Mutation: the wall clock is not armed.
ReleaseUntimed ==
  /\ ctl.at = "await"
  /\ "ready" \in status
  /\ Alive
  /\ status' = {"release"}
  /\ ControllerAt("scan")
  /\ UNCHANGED <<cand, heap, written, seen, timer, report, wire, faults>>

\* READY arrives from a living candidate: the wall clock is armed and RELEASE
\* is sent.
ReleaseCandidate ==
  /\ ctl.at = "await"
  /\ "ready" \in status
  /\ Alive
  /\ status' = {"release"}
  /\ timer' = "armed"
  /\ ControllerAt("scan")
  /\ UNCHANGED <<cand, heap, written, seen, report, wire, faults>>

\* The setup grace runs out, the candidate dies first or a call fails.
ReleaseRefused ==
  /\ ctl.at = "await"
  /\ ControllerAt("abort")
  /\ UNCHANGED <<cand, heap, written, seen, status, timer, report, wire, faults>>

-----------------------------------------------------------------------------
\* One observation epoch

\* The order in which poll looks at the descriptors.
Descriptors == <<"stdout", "stderr", "pidfd", "timer", "status">>

Pending(s) == written[s] - seen[s]

\* What poll would report of a descriptor now.  A stream or a socket whose
\* end was read stays readable, but gives nothing new.
Readable(d) ==
  CASE d \in Streams -> ctl.error # d /\ d \notin ctl.eof /\ (Pending(d) > 0 \/ ~Alive)
    [] d = "pidfd" -> cand.at = "dead"
    [] d = "timer" -> timer = "expired" /\ cand.at # "reaped"
    [] d = "status" -> "status" \notin ctl.eof /\ ("heap" \in status \/ ~StatusOpen)

Poll ==
  /\ ctl.at = "scan"
  /\ ctl.scan = 1 => \E d \in {Descriptors[i] : i \in 1..Len(Descriptors)} : Readable(d)
  /\ LET d == Descriptors[ctl.scan]
         last == ctl.scan = Len(Descriptors) IN
       ctl' = [ctl EXCEPT !.ready = @ \cup (IF Readable(d) THEN {d} ELSE {}),
                          !.scan = IF last THEN 1 ELSE @ + 1,
                          !.at = IF last THEN "epoch" ELSE @]
  /\ UNCHANGED <<cand, heap, written, seen, status, timer, report, wire, faults>>

\* What draining a reported stream may do: read some of what is there, all of
\* it with the end of file, or stop at the unit that crosses the limit.
Crosses(s, n) == seen[s] <= OutputLimit /\ seen[s] + n > OutputLimit

Drains(s) ==
  IF s \notin ctl.ready THEN {[n |-> 0, eof |-> FALSE]}
  ELSE {r \in [n : 0..Pending(s), eof : BOOLEAN] :
          /\ r.eof => ~Alive /\ r.n = Pending(s) /\ ~Crosses(s, r.n)
          /\ r.n = 0 => r.eof}

TerminalCause(exit) ==
  CASE exit = "zero" -> "expected_exit"
    [] exit = "nonzero" -> "unexpected_exit"
    [] exit = "xcpu" -> "cpu_limit"
    [] exit = "sys" -> "sandbox_policy_violation"
    [] OTHER -> "signal"

\* The causes newly observed in this epoch.
Causes(drain) ==
  {c \in {"output_limit", "memory_limit", "wall_timeout", TerminalCause(cand.exit)} :
     \/ c = "output_limit" /\ \E s \in Streams : Crosses(s, drain[s].n)
     \/ c = "memory_limit" /\ "status" \in ctl.ready /\ "heap" \in status
     \/ c = "wall_timeout" /\ "timer" \in ctl.ready
     \/ c = TerminalCause(cand.exit) /\ "pidfd" \in ctl.ready}

\* Mutation: with two causes in one epoch any of them is taken.
ResolveAnyCause(drain) ==
  IF ctl.cause # "none" THEN {ctl.cause}
  ELSE IF Causes(drain) = {} THEN {"none"} ELSE Causes(drain)

\* proc17_qa_controller_resolve_epoch: the first cause stays; two different
\* causes in one epoch are ambiguous, and none can be claimed.
ResolveEpoch(drain) ==
  IF ctl.cause # "none" THEN {ctl.cause}
  ELSE IF Causes(drain) = {} THEN {"none"}
  ELSE IF Cardinality(Causes(drain)) = 1 THEN Causes(drain) ELSE {}

\* The candidate is killed by pidfd when there is a cause or an error and it
\* was not reaped.
Reaped == cand.at = "reaped" \/ "pidfd" \in ctl.ready
Slain == IF Alive THEN [cand EXCEPT !.at = "dead", !.exit = "kill"] ELSE cand

Observed(drain) ==
  /\ seen' = [s \in Streams |-> seen[s] + drain[s].n]
  /\ timer' = IF "timer" \in ctl.ready THEN "consumed" ELSE timer
  /\ status' = IF "status" \in ctl.ready THEN status \ {"heap"} ELSE status

\* The end of an epoch whose cause, error and streams are settled.
Continue(drain, cause, error) ==
  LET ended == {s \in Streams : drain[s].eof}
              \cup (IF "status" \in ctl.ready /\ ~StatusOpen THEN {"status"} ELSE {})
      eof == ctl.eof \cup ended
      kill == ~Reaped /\ ~ctl.killed /\ (cause # "none" \/ error # "none")
      done == Reaped /\ "status" \in eof /\ Streams \ {error} \subseteq eof IN
  /\ ctl' = [ctl EXCEPT !.at = IF done THEN "measure" ELSE "scan",
                        !.ready = {}, !.eof = eof, !.cause = cause, !.error = error,
                        !.heard = @ \/ ("status" \in ctl.ready /\ "heap" \in status),
                        !.killed = @ \/ kill]
  /\ cand' = IF Reaped THEN [cand EXCEPT !.at = "reaped"] ELSE IF kill THEN Slain ELSE cand

\* The telemetry page contradicts the notification.
HeapContradicts ==
  "status" \in ctl.ready /\ "heap" \in status /\ "broken" \in heap

Epoch ==
  /\ ctl.at = "epoch"
  /\ \E drain \in [Streams -> UNION {Drains(s) : s \in Streams}] :
       /\ \A s \in Streams : drain[s] \in Drains(s)
       /\ ~HeapContradicts
       /\ \E cause \in ResolveEpoch(drain) : Continue(drain, cause, ctl.error)
       /\ Observed(drain)
  /\ UNCHANGED <<heap, written, report, wire, faults>>

\* Reading a stream fails: its observation is given up for good.
EpochStreamFails ==
  /\ ctl.at = "epoch"
  /\ ctl.error = "none"
  /\ ~HeapContradicts
  /\ \E drain \in [Streams -> UNION {Drains(s) : s \in Streams}], lost \in Streams \cap ctl.ready :
       /\ \A s \in Streams : drain[s] \in Drains(s)
       /\ drain[lost].n = 0 \/ ~Crosses(lost, drain[lost].n)
       /\ \E cause \in ResolveEpoch(drain) : Continue(drain, cause, lost)
       /\ Observed(drain)
  /\ Fault
  /\ UNCHANGED <<heap, written, report, wire>>

\* Ambiguous causes, a contradicted notification, a second stream failure or
\* any other failing call end the epoch without a report.
EpochAborts ==
  /\ ctl.at = "epoch"
  /\ \/ /\ HeapContradicts \/ \E drain \in [Streams -> UNION {Drains(s) : s \in Streams}] :
                                /\ \A s \in Streams : drain[s] \in Drains(s)
                                /\ ResolveEpoch(drain) = {}
        /\ NoFault
     \/ Fault
  /\ ControllerAt("abort")
  /\ UNCHANGED <<cand, heap, written, seen, status, timer, report, wire>>

-----------------------------------------------------------------------------
\* The report

\* termination_from_wait and reason_evidence_valid: what the wait status must
\* be for a cause to be reported.
Terminations(cause) ==
  CASE cause = "expected_exit" -> {"zero"}
    [] cause = "unexpected_exit" -> {"nonzero"}
    [] cause = "signal" -> {"kill", "segv"}
    [] cause = "cpu_limit" -> {"xcpu"}
    [] cause = "sandbox_policy_violation" -> {"sys"}
    [] cause = "memory_limit" -> {"kill", "nonzero"}
    [] cause \in {"wall_timeout", "output_limit"} -> {"kill"}
    [] OTHER -> {}

AllocatorShapeValid ==
  /\ heap \subseteq {"denied"}
  /\ ctl.heard <=> "denied" \in heap
  /\ ctl.cause = "memory_limit" <=> "denied" \in heap

OutputCrossed == \E s \in Streams : seen[s] > OutputLimit

\* proc17_qa_controller_report_build
ReportValid ==
  /\ AllocatorShapeValid
  /\ ctl.cause = "output_limit" <=> OutputCrossed
  /\ cand.exit \in Terminations(ctl.cause)

\* The scratch directory is measured; an ambiguous scratch is an error of its
\* own, unless a stream is already lost.
Measure ==
  /\ ctl.at = "measure"
  /\ \/ /\ ctl.error # "none" \/ ReportValid
        /\ ControllerAt("write")
     \/ /\ ctl.error = "none"
        /\ ctl' = [ctl EXCEPT !.at = "write", !.error = "scratch"]
     \/ ControllerAt("abort")
  /\ UNCHANGED <<cand, heap, written, seen, status, timer, report, wire, faults>>

\* reader: the supervisor still reads the report pipe.
WriteReport(reader) ==
  /\ ctl.at = "write"
  /\ \/ /\ reader
        /\ report' = IF ctl.error # "none" THEN [kind |-> "error", what |-> ctl.error]
                     ELSE [kind |-> "result", what |-> ctl.cause]
        /\ \/ NoFault /\ ControllerAt("exit0")
           \/ Fault /\ ControllerAt("exit124")
     \/ /\ (~reader /\ NoFault) \/ Fault
        /\ ControllerAt("abort")
        /\ UNCHANGED report
  /\ UNCHANGED <<cand, heap, written, seen, status, timer, wire>>

\* The cleanup path: a candidate that was not reaped is killed and reaped.
Abort ==
  /\ ctl.at = "abort"
  /\ cand' = IF cand.at = "unborn" THEN cand ELSE [Slain EXCEPT !.at = "reaped"]
  /\ ControllerAt("exit124")
  /\ UNCHANGED <<heap, written, seen, status, timer, report, wire, faults>>

Controller(reader) ==
  \/ PrepareAndFork \/ ReleaseCandidate \/ ReleaseRefused
  \/ Poll \/ Epoch \/ EpochStreamFails \/ EpochAborts
  \/ Measure \/ WriteReport(reader) \/ Abort

\* The controller has ended; nothing of its namespace outlives it.
ControllerGone == ctl.at \in {"exit0", "exit124", "killed"}

\* SIGKILL to the controller: as init of its PID namespace it takes the
\* candidate with it.
NamespaceKilled ==
  IF ControllerGone THEN UNCHANGED <<ctl, cand>>
  ELSE /\ ControllerAt("killed")
       /\ cand' = IF cand.at = "unborn" THEN cand ELSE [Slain EXCEPT !.at = "reaped"]

=============================================================================
