------------------------------- MODULE RWlock -------------------------------
(***************************************************************************)
(* The kernel's blocking reader/writer lock, RWlock of port/qlock.c.       *)
(*                                                                         *)
(* The fields are protected by the spin lock q->use.  A critical section   *)
(* under it is one step, except the loop of wunlock() that makes waiting   *)
(* readers runnable one by one.  runlock(), and wunlock() for a writer,    *)
(* hand the lock over under q->use but call ready() only after having      *)
(* released it.                                                            *)
(***************************************************************************)
EXTENDS Naturals, Sequences, FiniteSets

CONSTANTS Procs,    \* the processes that use the lock
          Nil       \* the C nil

ASSUME ProcsAssumption == IsFiniteSet(Procs) /\ Nil \notin Procs

VARIABLES
    use,      \* who holds q->use between steps (only wunlock's loop does)
    readers,  \* q->readers
    writer,   \* q->writer
    queue,    \* the processes linked from q->head to q->tail
    state,    \* p->state
    pc,       \* where each process is
    hand      \* the local p of runlock() and wunlock(): whom to ready()

vars == <<use, readers, writer, queue, state, pc, hand>>

\* out: not using the lock; rwait, wwait: in sched(), called by rlock() or
\* wlock(); reading, writing: holds the lock; handing: about to
\* ready(hand[p]); waking: in wunlock()'s loop, holding q->use.
Pcs == {"out", "rwait", "wwait", "reading", "writing", "handing", "waking"}

Init ==
    /\ use = Nil
    /\ readers = 0
    /\ writer = 0
    /\ queue = << >>
    /\ state = [p \in Procs |-> "Running"]
    /\ pc = [p \in Procs |-> "out"]
    /\ hand = [p \in Procs |-> Nil]

Goto(p, l) == pc' = [pc EXCEPT ![p] = l]

\* Link up at the tail, mark it with how it waits, and give up the processor.
Enqueue(p, how, l) ==
    /\ queue' = Append(queue, p)
    /\ state' = [state EXCEPT ![p] = how]
    /\ Goto(p, l)

----------------------------------------------------------------------------
\* Mutant: rlock() does not queue behind a waiting writer.
rlockGrant_overtake(p) ==
    /\ pc[p] = "out" /\ use = Nil
    /\ writer = 0
    /\ readers' = readers + 1
    /\ Goto(p, "reading")
    /\ UNCHANGED <<use, writer, queue, state, hand>>

\* No writer and nobody waiting.
rlockGrant(p) ==
    /\ pc[p] = "out" /\ use = Nil
    /\ writer = 0 /\ queue = << >>
    /\ readers' = readers + 1
    /\ Goto(p, "reading")
    /\ UNCHANGED <<use, writer, queue, state, hand>>

\* canrlock() takes the lock as rlock() does, and returns 0 where it waits.
canrlock(p) == rlockGrant(p)

rlockWait(p) ==
    /\ pc[p] = "out" /\ use = Nil
    /\ ~(writer = 0 /\ queue = << >>)
    /\ Enqueue(p, "QueueingR", "rwait")
    /\ UNCHANGED <<use, readers, writer, hand>>

wlockGrant(p) ==
    /\ pc[p] = "out" /\ use = Nil
    /\ readers = 0 /\ writer = 0
    /\ writer' = 1
    /\ Goto(p, "writing")
    /\ UNCHANGED <<use, readers, queue, state, hand>>

wlockWait(p) ==
    /\ pc[p] = "out" /\ use = Nil
    /\ ~(readers = 0 /\ writer = 0)
    /\ Enqueue(p, "QueueingW", "wwait")
    /\ UNCHANGED <<use, readers, writer, hand>>

\* Other readers remain, or nobody waits.
runlockLast(p) == readers - 1 > 0 \/ queue = << >>

runlock(p) ==
    /\ pc[p] = "reading" /\ use = Nil
    /\ runlockLast(p)
    /\ readers' = readers - 1
    /\ Goto(p, "out")
    /\ UNCHANGED <<use, writer, queue, state, hand>>

\* Mutant: the last reader leaves without starting the waiting writer.
runlockHand_leave(p) ==
    /\ pc[p] = "reading" /\ use = Nil
    /\ ~runlockLast(p)
    /\ readers' = readers - 1
    /\ Goto(p, "out")
    /\ UNCHANGED <<use, writer, queue, state, hand>>

\* Mutant: the last reader starts the writer without setting q->writer.
runlockHand_nowriter(p) ==
    /\ pc[p] = "reading" /\ use = Nil
    /\ ~runlockLast(p)
    /\ readers' = readers - 1
    /\ hand' = [hand EXCEPT ![p] = Head(queue)]
    /\ queue' = Tail(queue)
    /\ Goto(p, "handing")
    /\ UNCHANGED <<use, writer, state>>

\* The last reader starts the waiting writer.
runlockHand(p) ==
    /\ pc[p] = "reading" /\ use = Nil
    /\ ~runlockLast(p)
    /\ readers' = readers - 1
    /\ hand' = [hand EXCEPT ![p] = Head(queue)]
    /\ queue' = Tail(queue)
    /\ writer' = 1
    /\ Goto(p, "handing")
    /\ UNCHANGED <<use, state>>

\* wunlock() with nobody waiting.
wunlock(p) ==
    /\ pc[p] = "writing" /\ use = Nil
    /\ queue = << >>
    /\ writer' = 0
    /\ Goto(p, "out")
    /\ UNCHANGED <<use, readers, queue, state, hand>>

\* wunlock() with a writer first in line: q->writer stays set for it.
wunlockHand(p) ==
    /\ pc[p] = "writing" /\ use = Nil
    /\ queue # << >> /\ state[Head(queue)] = "QueueingW"
    /\ hand' = [hand EXCEPT ![p] = Head(queue)]
    /\ queue' = Tail(queue)
    /\ Goto(p, "handing")
    /\ UNCHANGED <<use, readers, writer, state>>

\* ready(p) after unlock(&q->use), in runlock() and wunlock().
ReadyHand(p) ==
    /\ pc[p] = "handing"
    /\ state' = [state EXCEPT ![hand[p]] = "Ready"]
    /\ hand' = [hand EXCEPT ![p] = Nil]
    /\ Goto(p, "out")
    /\ UNCHANGED <<use, readers, writer, queue>>

\* wunlock() with a reader first in line starts its loop under q->use.
wunlockReaders(p) ==
    /\ pc[p] = "writing" /\ use = Nil
    /\ queue # << >> /\ state[Head(queue)] # "QueueingW"
    /\ use' = p
    /\ Goto(p, "waking")
    /\ UNCHANGED <<readers, writer, queue, state, hand>>

\* One turn of the loop.
wunlockWake(p) ==
    /\ pc[p] = "waking"
    /\ queue # << >> /\ state[Head(queue)] = "QueueingR"
    /\ queue' = Tail(queue)
    /\ readers' = readers + 1
    /\ state' = [state EXCEPT ![Head(queue)] = "Ready"]
    /\ UNCHANGED <<use, writer, pc, hand>>

wunlockDone(p) ==
    /\ pc[p] = "waking"
    /\ ~(queue # << >> /\ state[Head(queue)] = "QueueingR")
    /\ writer' = 0
    /\ use' = Nil
    /\ Goto(p, "out")
    /\ UNCHANGED <<readers, queue, state, hand>>

\* The scheduler runs p, which returns from sched() without looking at the
\* lock again: the process that made it ready gave it the lock.
Resume(p) ==
    /\ state[p] = "Ready"
    /\ state' = [state EXCEPT ![p] = "Running"]
    /\ Goto(p, IF pc[p] = "rwait" THEN "reading" ELSE "writing")
    /\ UNCHANGED <<use, readers, writer, queue, hand>>

----------------------------------------------------------------------------
Lock(p) ==
    \/ rlockGrant(p) \/ canrlock(p) \/ rlockWait(p)
    \/ wlockGrant(p) \/ wlockWait(p)

Unlock(p) ==
    \/ runlock(p) \/ runlockHand(p)
    \/ wunlock(p) \/ wunlockHand(p) \/ ReadyHand(p)
    \/ wunlockReaders(p) \/ wunlockWake(p) \/ wunlockDone(p)

Next == \E p \in Procs : Lock(p) \/ Unlock(p) \/ Resume(p)

Spec == Init /\ [][Next]_vars

(***************************************************************************)
(* Fairness: whoever holds the lock releases it some day; q->use is a      *)
(* queue lock, so its next holder is not chosen against one process for    *)
(* ever; ready processes are run.  Nobody is obliged to take the lock.     *)
(***************************************************************************)
Fairness == \A p \in Procs : SF_vars(Unlock(p)) /\ WF_vars(Resume(p))

FairSpec == Spec /\ Fairness

----------------------------------------------------------------------------
(* Properties.                                                             *)

\* The fields of RWlock and Proc hold values of their types; in particular
\* q->readers never becomes negative.
TypeOK ==
    /\ use \in Procs \union {Nil}
    /\ readers \in Nat
    /\ writer \in {0, 1}
    /\ queue \in Seq(Procs)
    /\ state \in [Procs -> {"Running", "QueueingR", "QueueingW", "Ready"}]
    /\ pc \in [Procs -> Pcs]
    /\ hand \in [Procs -> Procs \union {Nil}]

\* A process that holds the lock for writing holds it alone, although the
\* lock is passed on by the process that leaves and the new owner may start
\* much later.
Exclusion ==
    \A p, q \in Procs :
        p # q /\ pc[p] = "writing" => pc[q] \notin {"reading", "writing"}

\* The processes that have the lock for reading, or were given it and are
\* about to return from sched().
ReadHolders ==
    {p \in Procs : pc[p] = "reading" \/ (pc[p] = "rwait" /\ state[p] = "Ready")}

\* q->readers counts them, also in the middle of wunlock()'s loop.
ReadersCounted == readers = Cardinality(ReadHolders)

\* panic("runlock") and panic("wunlock") are unreachable: the last reader
\* finds a writer at the head of the line, a leaving writer a process that
\* is still queued.
NoPanic ==
    /\ \A p \in Procs : pc[p] = "reading" /\ use = Nil /\ ~runlockLast(p) =>
          state[Head(queue)] = "QueueingW"
    /\ \A p \in Procs : pc[p] = "writing" /\ queue # << >> =>
          state[Head(queue)] \in {"QueueingR", "QueueingW"}

\* Whenever somebody waits, somebody else holds the lock, is about to get
\* it, or is in the middle of passing it on: nobody is left behind.
NoneStranded ==
    queue # << >> =>
        \E p \in Procs :
            \/ pc[p] \in {"reading", "writing", "handing", "waking"}
            \/ state[p] = "Ready"

\* A process waiting for the lock gets it; in particular a writer is not
\* starved by readers that keep coming.
WaiterServed ==
    \A p \in Procs : pc[p] \in {"rwait", "wwait"} ~> pc[p] \in {"reading", "writing"}
============================================================================
