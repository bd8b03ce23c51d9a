-------------------------- MODULE MCOwnerMutations --------------------------
(***************************************************************************)
(* Instances of OwnerMutations for TLC.  Mutation ids are interchangeable. *)
(***************************************************************************)
EXTENDS OwnerMutations, TLC

CONSTANTS u1, u2

Symmetry == Permutations({u1, u2})
=============================================================================
