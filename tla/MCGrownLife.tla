---------------------------- MODULE MCGrownLife ----------------------------
(***************************************************************************)
(* A short life under the shadow router, taken over by hand.               *)
(***************************************************************************)
EXTENDS GrownLife, MCTensionRunner

=============================================================================
