------------------------------ MODULE MCQaRun ------------------------------
(* The native QA run for TLC: a limit of one unit, candidates that cross it *)
(* on either stream, and one failing system call anywhere in the run.       *)
EXTENDS QaRun
=============================================================================
