------------------------------ MODULE FifoLock ------------------------------
(***************************************************************************)
(* What a QLock promises: one owner at a time, and those who wait for it   *)
(* become its owner in the order in which they asked.                      *)
(***************************************************************************)
EXTENDS Sequences

CONSTANTS Procs, Nil

VARIABLES owner,  \* the process the lock belongs to, or Nil
          line    \* the processes waiting for it, in order of arrival

Init == owner = Nil /\ line = << >>

Acquire(p) ==
    /\ owner = Nil
    /\ owner' = p
    /\ UNCHANGED line

Wait(p) ==
    /\ owner \notin {Nil, p} /\ \A i \in DOMAIN line : line[i] # p
    /\ line' = Append(line, p)
    /\ UNCHANGED owner

Release(p) ==
    /\ owner = p
    /\ \/ /\ line = << >>
          /\ owner' = Nil
          /\ UNCHANGED line
       \/ /\ line # << >>
          /\ owner' = Head(line)
          /\ line' = Tail(line)

Next == \E p \in Procs : Acquire(p) \/ Wait(p) \/ Release(p)

Spec == Init /\ [][Next]_<<owner, line>>
============================================================================
