---------------------------- MODULE MCScheduler -----------------------------
(* Small instances of Scheduler for TLC, with every colouring of the       *)
(* processors.  A bound of the runs: at most MaxWired processes are wired  *)
(* at a time.                                                              *)
EXTENDS Scheduler, TLC

CONSTANT MaxWired

Bounded == Cardinality({p \in Procs : wired[p] # Nil}) <= MaxWired

MCSpec == Init /\ [][Next /\ Bounded']_vars

Symmetry == Permutations(Procs) \union Permutations(Scheds)
=============================================================================
