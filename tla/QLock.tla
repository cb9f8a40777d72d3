------------------------------- MODULE QLock -------------------------------
(***************************************************************************)
(* The kernel's blocking lock, QLock of port/qlock.c, with its waiting     *)
(* line as the code keeps it: a list from q->head through p->qnext, and    *)
(* q->tail.  A critical section under the spin lock q->use is one step;    *)
(* qunlock() calls ready() only after having released q->use.              *)
(***************************************************************************)
EXTENDS Naturals, FiniteSets, Sequences

CONSTANTS Procs,    \* the processes that use the lock
          Nil       \* the C nil

VARIABLES
    locked,   \* q->locked
    head,     \* q->head
    tail,     \* q->tail
    qnext,    \* p->qnext
    state,    \* p->state
    pc,       \* where each process is
    hand      \* the local p of qunlock(): whom to ready()

vars == <<locked, head, tail, qnext, state, pc, hand>>

\* A process's pc is one of
\*    out      not using the lock        wait     in sched(), called by qlock()
\*    in       holds the lock            handing  in qunlock(), to ready(hand[p])

Init ==
    /\ locked = FALSE
    /\ head = Nil /\ tail = Nil
    /\ qnext = [p \in Procs |-> Nil]
    /\ state = [p \in Procs |-> "Running"]
    /\ pc = [p \in Procs |-> "out"]
    /\ hand = [p \in Procs |-> Nil]

----------------------------------------------------------------------------
qlockGrant(p) ==
    /\ pc[p] = "out"
    /\ ~locked
    /\ locked' = TRUE
    /\ pc' = [pc EXCEPT ![p] = "in"]
    /\ UNCHANGED <<head, tail, qnext, state, hand>>

\* Mutant: a new process is linked at the head.
qlockWait_lifo(p) ==
    /\ pc[p] = "out"
    /\ locked
    /\ head' = p
    /\ qnext' = [qnext EXCEPT ![p] = head]
    /\ tail' = (IF tail = Nil THEN p ELSE tail)
    /\ state' = [state EXCEPT ![p] = "Queueing"]
    /\ pc' = [pc EXCEPT ![p] = "wait"]
    /\ UNCHANGED <<locked, hand>>

qlockWait(p) ==
    /\ pc[p] = "out"
    /\ locked
    /\ head' = (IF tail = Nil THEN p ELSE head)
    /\ qnext' = [q \in Procs |-> IF q = p THEN Nil
                                 ELSE IF q = tail THEN p ELSE qnext[q]]
    /\ tail' = p
    /\ state' = [state EXCEPT ![p] = "Queueing"]
    /\ pc' = [pc EXCEPT ![p] = "wait"]
    /\ UNCHANGED <<locked, hand>>

\* canqlock() takes a free lock; it returns 0, changing nothing, when the
\* lock is taken or somebody is inside a critical section of q->use.
canqlock(p) ==
    /\ pc[p] = "out"
    /\ ~locked
    /\ locked' = TRUE
    /\ pc' = [pc EXCEPT ![p] = "in"]
    /\ UNCHANGED <<head, tail, qnext, state, hand>>

qunlock(p) ==
    /\ pc[p] = "in"
    /\ head = Nil
    /\ locked' = FALSE
    /\ pc' = [pc EXCEPT ![p] = "out"]
    /\ UNCHANGED <<head, tail, qnext, state, hand>>

\* The lock stays locked and belongs to the first in line.
qunlockHand(p) ==
    /\ pc[p] = "in"
    /\ head # Nil
    /\ head' = qnext[head]
    /\ tail' = (IF qnext[head] = Nil THEN Nil ELSE tail)
    /\ hand' = [hand EXCEPT ![p] = head]
    /\ pc' = [pc EXCEPT ![p] = "handing"]
    /\ UNCHANGED <<locked, qnext, state>>

qunlockReady(p) ==
    /\ pc[p] = "handing"
    /\ state' = [state EXCEPT ![hand[p]] = "Ready"]
    /\ hand' = [hand EXCEPT ![p] = Nil]
    /\ pc' = [pc EXCEPT ![p] = "out"]
    /\ UNCHANGED <<locked, head, tail, qnext>>

\* The scheduler runs p, which returns from sched() with the lock.
Resume(p) ==
    /\ state[p] = "Ready"
    /\ state' = [state EXCEPT ![p] = "Running"]
    /\ pc' = [pc EXCEPT ![p] = "in"]
    /\ UNCHANGED <<locked, head, tail, qnext, hand>>

Unlock(p) == qunlock(p) \/ qunlockHand(p) \/ qunlockReady(p)

Next == \E p \in Procs :
    qlockGrant(p) \/ qlockWait(p) \/ canqlock(p) \/ Unlock(p) \/ Resume(p)

Spec == Init /\ [][Next]_vars

(***************************************************************************)
(* Fairness: the owner unlocks some day and ready processes are run.       *)
(* Nobody is obliged to lock.                                              *)
(***************************************************************************)
Fairness == \A p \in Procs : WF_vars(Unlock(p)) /\ WF_vars(Resume(p))

FairSpec == Spec /\ Fairness

----------------------------------------------------------------------------
(* Properties.                                                             *)

\* The list from q->head through p->qnext has the processes of s, in order.
Linked(s) ==
    /\ head = IF s = << >> THEN Nil ELSE s[1]
    /\ \A i \in 1 .. Len(s) :
          qnext[s[i]] = IF i = Len(s) THEN Nil ELSE s[i + 1]

Lists == UNION {[1 .. n -> Procs] : n \in 0 .. Cardinality(Procs)}
Line == CHOOSE s \in Lists : Linked(s)

\* The lock belongs to who is in it, was made ready, or is being made ready.
Owner ==
    LET O == {p \in Procs : pc[p] = "in" \/ state[p] = "Ready" \/ \E q \in Procs : hand[q] = p}
    IN  IF O = {} THEN Nil ELSE CHOOSE p \in O : TRUE

Fifo == INSTANCE FifoLock WITH owner <- Owner, line <- Line
\* The pointer manipulations implement the FIFO lock: arrivals are served in
\* order and the lock is never free with somebody in line.
FifoSpec == Fifo!Spec

\* A process that waits in qlock() gets the lock.
WaiterServed == \A p \in Procs : pc[p] = "wait" ~> pc[p] = "in"
============================================================================
