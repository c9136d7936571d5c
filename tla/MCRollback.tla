---------------------------- MODULE MCRollback -----------------------------
(* Instances of Rollback for TLC. *)
EXTENDS Rollback, TLC

Symmetry == Permutations(Requests) \cup Permutations(Plans)
=============================================================================
