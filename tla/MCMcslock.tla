------------------------------ MODULE MCMcslock -----------------------------
(* Symmetry of Mcslock for TLC. *)
EXTENDS Mcslock, TLC

Symmetry == Permutations(Cpus)
=============================================================================
