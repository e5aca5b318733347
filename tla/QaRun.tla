------------------------------- MODULE QaRun -------------------------------
(***************************************************************************)
(* One native QA run from the outside in: the launcher inside the Lua host *)
(* (native/proc17_qa_launcher.c, proc17_qa_launcher_v1.c), the supervisor  *)
(* it forks (native/proc17_qa_supervisor.c, run_execution_protocol_v1) and *)
(* the namespace of QaController.  What the launcher returns is normalised *)
(* by runtime/qa_process.lua, which raises on an error outside its table   *)
(* of topologies.                                                          *)
(*                                                                         *)
(* The launcher, the supervisor, the controller and the candidate are four *)
(* concurrent processes.  The watchdogs (40 s in the launcher, 35 s in the *)
(* supervisor, 30 s around the candidate) are separate clocks; each may    *)
(* fire at any moment.  A kill of the supervisor does not reach the        *)
(* controller: its namespace lives on as an orphan.                        *)
(***************************************************************************)
EXTENDS QaController

VARIABLES
  sup,     \* the supervisor
  lch,     \* the launcher
  outcome  \* what the host is told

qaVars == <<insideVars, sup, lch, outcome>>

NoOutcome == [kind |-> "none", what |-> "none", start |-> "unknown", cleanup |-> "unknown"]

QaRunInit ==
  /\ QaControllerInit
  /\ sup = "unborn"
  /\ lch = [at |-> "launch", started |-> FALSE, terminal |-> NoReport, broken |-> FALSE,
            infra |-> "none", watchdog |-> FALSE, eof |-> FALSE, reap |-> "none"]
  /\ outcome = NoOutcome

\* The launcher holds the reading end of the public pipe.
ResultRead == lch.at = "collect"
\* The supervisor holds the reading end of the report pipe.
ReportRead == sup \in {"map", "collect"}

SupervisorAlive == sup \in {"preflight", "spawn", "map", "collect", "finalize", "close"}

-----------------------------------------------------------------------------
\* The supervisor

Emit(frame) == wire' = Append(wire, frame)

\* The request is read and checked.  Without a process token the supervisor
\* says so itself; any other failure just ends it.
Preflight ==
  /\ sup = "preflight"
  /\ \/ NoFault /\ sup' = "spawn" /\ UNCHANGED wire
     \/ Fault /\ sup' = "exit127" /\ UNCHANGED wire
     \/ /\ ResultRead /\ Fault /\ sup' = "exit0"
        /\ Emit([kind |-> "error", what |-> "supervisor_unavailable"])
  /\ UNCHANGED <<cand, heap, written, seen, status, timer, ctl, report, lch, outcome>>

\* clone3 makes the controller; it waits at its gate.
Spawn ==
  /\ sup = "spawn"
  /\ \/ NoFault /\ sup' = "map" /\ ControllerAt("sync")
     \/ Fault /\ sup' = "exit127" /\ UNCHANGED ctl
  /\ UNCHANGED <<cand, heap, written, seen, status, timer, report, wire, lch, outcome>>

\* The user namespace is mapped and the gate opened.
MapIdentity ==
  /\ sup = "map"
  /\ \/ /\ NoFault /\ sup' = "collect"
        /\ ControllerAt("prepare")
        /\ UNCHANGED cand
     \/ Fault /\ sup' = "exit127" /\ NamespaceKilled
  /\ UNCHANGED <<heap, written, seen, status, timer, report, wire, lch, outcome>>

\* The gate's other end is closed by the death of the supervisor.
GateLost ==
  /\ ctl.at = "sync"
  /\ ~SupervisorAlive
  /\ ControllerAt("exit124")
  /\ UNCHANGED <<cand, heap, written, seen, status, timer, report, wire, faults, sup, lch, outcome>>

\* The controller has ended and its report pipe is at its end.
CollectReport ==
  /\ sup = "collect"
  /\ ControllerGone
  /\ sup' = IF report.kind = "none" THEN "exit127" ELSE "finalize"
  /\ UNCHANGED <<insideVars, lch, outcome>>

\* The watchdog fires, or a call fails: the namespace is killed and reaped.
SupervisorWatchdog ==
  /\ sup = "collect"
  /\ sup' = "exit127"
  /\ NamespaceKilled
  /\ UNCHANGED <<heap, written, seen, status, timer, report, wire, faults, lch, outcome>>

\* proc17_qa_controller_report_finalize: a result needs the clean end of the
\* controller and every descriptor closed.  closed: the closes succeeded.
FinalFrames(closed) ==
  IF ctl.at # "exit0" THEN {}
  ELSE IF report.kind = "error"
       THEN {f \in {[kind |-> "error", what |-> IF report.what = "scratch"
                                                THEN "scratch_observation_incomplete"
                                                ELSE "output_observation_incomplete"]} : closed}
  ELSE IF closed THEN {report}
  ELSE {[kind |-> "error", what |-> "namespace_cleanup_incomplete"]}

Finalize ==
  /\ sup = "finalize"
  /\ \/ /\ ResultRead
        /\ \/ /\ NoFault /\ \E f \in FinalFrames(TRUE) : Emit(f)
           \/ /\ Fault /\ \E f \in FinalFrames(FALSE) : Emit(f)
        /\ sup' = "close"
     \/ /\ \/ NoFault /\ (~ResultRead \/ FinalFrames(TRUE) = {})
           \/ Fault
        /\ sup' = "exit127"
        /\ UNCHANGED wire
  /\ UNCHANGED <<cand, heap, written, seen, status, timer, ctl, report, lch, outcome>>

CloseResult ==
  /\ sup = "close"
  /\ \/ NoFault /\ sup' = "exit0"
     \/ Fault /\ sup' = "exit127"
  /\ UNCHANGED <<cand, heap, written, seen, status, timer, ctl, report, wire, lch, outcome>>

Supervisor ==
  \/ Preflight \/ Spawn \/ MapIdentity \/ CollectReport \/ SupervisorWatchdog
  \/ Finalize \/ CloseResult

-----------------------------------------------------------------------------
\* The launcher

Claim(code, start, cleanup) ==
  [kind |-> "error", what |-> code, start |-> start, cleanup |-> cleanup]
Loud == [kind |-> "loud", what |-> "none", start |-> "unknown", cleanup |-> "unknown"]

CleanPrestart(code) == Claim(code, "not_started", "complete")

KillSupervisor == sup' = IF SupervisorAlive THEN "killed" ELSE sup

Launch ==
  /\ lch.at = "launch"
  /\ \/ /\ NoFault
        /\ sup' = "preflight"
        /\ lch' = [lch EXCEPT !.at = "collect"]
        /\ UNCHANGED outcome
     \/ /\ Fault
        /\ \E code \in {"supervisor_unavailable", "source_staging_failed"} :
             outcome' = CleanPrestart(code)
        /\ lch' = [lch EXCEPT !.at = "done"]
        /\ UNCHANGED sup
  /\ UNCHANGED <<cand, heap, written, seen, status, timer, ctl, report, wire>>

Reading == lch.at = "collect" /\ ~lch.eof /\ lch.infra # "result_pipe_lost"

\* accept_complete_frame: the order in which frames may come.
Acceptable(f) ==
  /\ lch.terminal = NoReport
  /\ ~lch.broken
  /\ CASE f.kind = "started" -> ~lch.started
       [] f.kind = "result" -> lch.started
       [] f.kind = "error" -> lch.started <=> f.what # "supervisor_unavailable"

ReadFrame ==
  /\ Reading
  /\ wire # <<>>
  /\ wire' = Tail(wire)
  /\ LET f == Head(wire) IN
       IF ~Acceptable(f) THEN lch' = [lch EXCEPT !.broken = TRUE] /\ KillSupervisor
       ELSE /\ lch' = IF f.kind = "started" THEN [lch EXCEPT !.started = TRUE]
                      ELSE [lch EXCEPT !.terminal = f]
            /\ UNCHANGED sup
  /\ UNCHANGED <<cand, heap, written, seen, status, timer, ctl, report, faults, outcome>>

\* Who still holds a writing end of the public pipe: the controller gives its
\* own up once the candidate is forked, the candidate with the STARTED frame.
WriterLeft ==
  \/ SupervisorAlive
  \/ ctl.at \in {"sync", "prepare"}
  \/ ctl.at = "abort" /\ cand.at = "unborn"
  \/ cand.at = "setup"

\* Mutation: the end of the pipe is assumed once the supervisor is gone.
ReadEofEarly ==
  /\ Reading
  /\ wire = <<>>
  /\ ~SupervisorAlive
  /\ lch' = [lch EXCEPT !.eof = TRUE]
  /\ UNCHANGED <<insideVars, sup, outcome>>

ReadEof ==
  /\ Reading
  /\ wire = <<>>
  /\ ~WriterLeft
  /\ lch' = [lch EXCEPT !.eof = TRUE]
  /\ UNCHANGED <<insideVars, sup, outcome>>

ReadFails ==
  /\ Reading
  /\ lch.infra = "none"
  /\ Fault
  /\ lch' = [lch EXCEPT !.infra = "result_pipe_lost"]
  /\ KillSupervisor
  /\ UNCHANGED <<cand, heap, written, seen, status, timer, ctl, report, wire, outcome>>

LauncherWatchdog ==
  /\ lch.at = "collect"
  /\ ~lch.watchdog
  /\ lch' = [lch EXCEPT !.watchdog = TRUE]
  /\ KillSupervisor
  /\ UNCHANGED <<insideVars, outcome>>

Reap ==
  /\ lch.at = "collect"
  /\ lch.reap = "none"
  /\ ~SupervisorAlive
  /\ \/ /\ NoFault
        /\ lch' = [lch EXCEPT !.reap = IF sup = "exit0" THEN "clean" ELSE "dirty"]
     \/ /\ Fault
        /\ lch' = [lch EXCEPT !.reap = "unknown",
                              !.infra = IF @ = "none" THEN "reap_ambiguous" ELSE @]
  /\ UNCHANGED <<cand, heap, written, seen, status, timer, ctl, report, wire, sup, outcome>>

Start == IF lch.started THEN "started" ELSE "not_started"

\* Mutation: with the supervisor reaped and the pipe at its end, cleanup is
\* taken to be complete.
CollectedClean ==
  IF lch.broken THEN Loud ELSE Claim("supervisor_crashed", Start, "complete")

\* finish_machine and set_infrastructure_error
Collected ==
  CASE lch.broken -> Loud
    [] ~lch.broken /\ lch.infra # "none" -> Claim(lch.infra, Start, "unknown")
    [] ~lch.broken /\ lch.infra = "none" /\ lch.terminal # NoReport ->
         IF lch.reap # "clean" THEN Loud
         ELSE IF lch.terminal.kind = "result"
              THEN [kind |-> "result", what |-> lch.terminal.what,
                    start |-> "started", cleanup |-> "complete"]
         ELSE IF lch.terminal.what = "supervisor_unavailable"
              THEN CleanPrestart(lch.terminal.what)
         ELSE Claim(lch.terminal.what, "started", "incomplete")
    [] OTHER -> Claim(IF lch.watchdog \/ lch.reap = "dirty" THEN "supervisor_crashed"
                      ELSE "terminal_frame_missing", Start, "unknown")

\* qa_process.normalize_error_v1: errors outside the table are loud.
Normalized(o) ==
  IF \/ o.what = "reap_ambiguous" /\ ~(lch.started /\ lch.eof)
     \/ o.what = "result_pipe_lost" /\ lch.reap = "unknown"
  THEN Loud ELSE o

\* The collection ends; closing the source descriptor may fail, and then
\* replaces what was collected, unless that was loud.
Finish ==
  /\ lch.at = "collect"
  /\ lch.reap # "none"
  /\ lch.eof \/ lch.infra = "result_pipe_lost"
  /\ lch' = [lch EXCEPT !.at = "done"]
  /\ \/ NoFault /\ outcome' = Normalized(Collected)
     \/ /\ Fault
        /\ outcome' = IF Collected.kind = "loud" THEN Loud
                      ELSE CleanPrestart("source_staging_failed")
  /\ UNCHANGED <<cand, heap, written, seen, status, timer, ctl, report, wire, sup>>

\* Any other failing call: the supervisor is killed and the run is loud.
CollectFails ==
  /\ lch.at = "collect"
  /\ Fault
  /\ lch' = [lch EXCEPT !.at = "done"]
  /\ KillSupervisor
  /\ outcome' = Loud
  /\ UNCHANGED <<cand, heap, written, seen, status, timer, ctl, report, wire>>

\* The host process dies: the supervisor follows it, unless it has not asked
\* for the signal yet.
HostDies ==
  /\ lch.at \in {"launch", "collect"}
  /\ Fault
  /\ lch' = [lch EXCEPT !.at = "crashed"]
  /\ \/ KillSupervisor
     \/ sup = "preflight" /\ UNCHANGED sup
  /\ UNCHANGED <<cand, heap, written, seen, status, timer, ctl, report, wire, outcome>>

\* The steps the launcher takes of itself, and its clock.
Launcher == Launch \/ ReadFrame \/ ReadEof \/ Reap \/ Finish \/ LauncherWatchdog

-----------------------------------------------------------------------------
Inside(A) == A /\ UNCHANGED <<sup, lch, outcome>>

ProcessesGone ==
  /\ cand.at \in {"unborn", "reaped"}
  /\ ctl.at = "unborn" \/ ControllerGone
  /\ ~SupervisorAlive

\* Everything has ended.
Ended == lch.at \in {"done", "crashed"} /\ ProcessesGone /\ UNCHANGED qaVars

QaRunNext ==
  \/ Inside(Candidate(ResultRead))
  \/ Inside(WallTimerExpires)
  \/ Inside(Controller(ReportRead))
  \/ GateLost \/ Supervisor
  \/ Launcher \/ ReadFails \/ CollectFails \/ HostDies
  \/ Ended

\* The kernel schedules every process and runs every clock; the candidate's
\* own code may do nothing for ever.
QaRunSpec ==
  /\ QaRunInit /\ [][QaRunNext]_qaVars
  /\ WF_qaVars(Inside(CandidateSystem(ResultRead)))
  /\ WF_qaVars(Inside(WallTimerExpires))
  /\ WF_qaVars(Inside(Controller(ReportRead)))
  /\ WF_qaVars(GateLost)
  /\ WF_qaVars(Supervisor)
  /\ WF_qaVars(Launcher)

-----------------------------------------------------------------------------
\* Properties

\* A result the host is told names what happened to the candidate: it exited
\* in time, within its output and its memory, or it did not for the reason
\* given (proc17_qa_controller_resolve_epoch, proc17_qa_controller_report_build).
ReasonTrue ==
  outcome.kind = "result" =>
    LET crossed == \E s \in Streams : written[s] > OutputLimit
        why == outcome.what IN
    /\ cand.exit \in Terminations(why)
    /\ why = "output_limit" <=> crossed
    /\ why = "memory_limit" <=> heap = {"denied"}
    /\ why = "wall_timeout" => timer = "consumed"
    /\ why \notin {"wall_timeout", "output_limit", "memory_limit"} => ~cand.late

\* A result, or an error that claims complete cleanup, is only given when no
\* process of the run is left (proc17_qa_namespace_cleanup_observe,
\* set_derived_launcher_error).
NothingLeftAlive ==
  (outcome.cleanup = "complete" /\ outcome.what # "source_staging_failed") => ProcessesGone

\* An error that says the candidate did not start, from a launcher that read
\* its pipe to the end, is right: the candidate was never released.  The
\* STARTED frame is in the pipe before READY is sent.  After a read error the
\* claim may be wrong, and then it does not come with complete cleanup, so
\* that it is never taken for a clean state before the start.
NotStartedTrue ==
  /\ outcome.start = "not_started"
  /\ outcome.what # "source_staging_failed"
  /\ outcome.what = "result_pipe_lost" => outcome.cleanup = "complete"
  => ~Alive /\ timer = "off"

\* The run comes to an end and leaves no process behind, whatever the
\* candidate does and whoever is killed: the watchdogs cover each other.
RunEnds == <>(lch.at \in {"done", "crashed"} /\ ProcessesGone)

\* A claim of a clean state before the start is only made of a candidate that
\* did not start.
CleanPrestartTrue ==
  outcome.start = "not_started" /\ outcome.cleanup = "complete" => timer = "off"

=============================================================================
