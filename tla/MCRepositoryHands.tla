-------------------------- MODULE MCRepositoryHands --------------------------
(***************************************************************************)
(* Model values of RepositoryHands for TLC.                                *)
(***************************************************************************)
EXTENDS RepositoryHands, TLC

Symmetry == Permutations(Actions) \cup Permutations(Seals) \cup Permutations(Grants)

=============================================================================
