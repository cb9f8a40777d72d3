------------------------------- MODULE MCPage -------------------------------
(* Symmetries of Page for TLC. *)
EXTENDS Page

Symmetry ==
    Permutations(Procs) \union Permutations(Pages)
        \union Permutations(Files) \union Permutations(Images)
=============================================================================
