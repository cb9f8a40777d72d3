------------------------------ MODULE MCQlocks ------------------------------
(***************************************************************************)
(* The two kinds of locks of port/qlock.c for TLC: the processes of a      *)
(* behaviour share an RWlock (the variables of RWlock) or a QLock (the     *)
(* variables declared here).  The locks have no state in common.           *)
(***************************************************************************)
EXTENDS RWlock

VARIABLES
    kind,     \* the kind of lock this behaviour is about
    locked, head, tail, qnext, qstate, qpc, qhand

Q == INSTANCE QLock WITH state <- qstate, pc <- qpc, hand <- qhand

qvars == <<locked, head, tail, qnext, qstate, qpc, qhand>>

LocksInit == kind \in {"RWlock", "QLock"} /\ Init /\ Q!Init

LocksNext ==
    \/ kind = "RWlock" /\ Next /\ UNCHANGED <<kind, qvars>>
    \/ kind = "QLock" /\ Q!Next /\ UNCHANGED <<kind, vars>>

LocksSpec ==
    /\ LocksInit /\ [][LocksNext]_<<kind, vars, qvars>>
    /\ Fairness /\ Q!Fairness

\* qlock() and qunlock(): the pointer manipulations implement the FIFO lock,
\* so that arrivals are served in order and the lock is never free with
\* somebody in line.
FifoSpec == Q!FifoSpec

\* A process that waits in rlock(), wlock() or qlock() gets the lock; in
\* particular a writer is not starved by readers that keep coming.
Served == WaiterServed /\ Q!WaiterServed
=============================================================================
