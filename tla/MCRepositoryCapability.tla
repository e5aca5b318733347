----------------------- MODULE MCRepositoryCapability -----------------------
(***************************************************************************)
(* Model values of RepositoryCapability for TLC.                           *)
(***************************************************************************)
EXTENDS RepositoryCapability, TLC

Symmetry == Permutations(Grants) \cup Permutations(Actions) \cup Permutations(Seals)
            \cup Permutations(Transactions)

=============================================================================
