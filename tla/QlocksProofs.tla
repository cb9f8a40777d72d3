---------------------------- MODULE QlocksProofs ----------------------------
(***************************************************************************)
(* Proofs, for any number of processes, of the safety of the two locks of  *)
(* port/qlock.c: the invariants of RWlock, and that QLock implements       *)
(* FifoLock.                                                               *)
(***************************************************************************)
EXTENDS MCQlocks, FiniteSetTheorems, WellFoundedInduction, TLAPS

\* The processes in the line wait there once each, marked with how they wait.
Line ==
    /\ \A i \in 1..Len(queue) :
          \/ pc[queue[i]] = "rwait" /\ state[queue[i]] = "QueueingR"
          \/ pc[queue[i]] = "wwait" /\ state[queue[i]] = "QueueingW"
    /\ \A i, j \in 1..Len(queue) : i # j => queue[i] # queue[j]

\* A process is off its processor exactly while it waits.
Waiting ==
    \A p \in Procs :
        /\ pc[p] \in {"rwait", "wwait"} <=> state[p] # "Running"
        /\ pc[p] = "rwait" => state[p] \in {"QueueingR", "Ready"}
        /\ pc[p] = "wwait" => state[p] \in {"QueueingW", "Ready"}

\* Who hands the lock over has a writer at hand that is no longer in the line.
Handing ==
    \A p \in Procs : pc[p] = "handing" =>
        /\ hand[p] \in Procs
        /\ pc[hand[p]] = "wwait" /\ state[hand[p]] = "QueueingW"
        /\ \A i \in 1..Len(queue) : queue[i] # hand[p]

\* The process that has the lock for writing, was given it, or still has to
\* tell the process it gave it to.
WriteHolder(p) ==
    \/ pc[p] \in {"writing", "handing", "waking"}
    \/ pc[p] = "wwait" /\ state[p] = "Ready"

\* There is at most one, q->writer says whether there is one, and it excludes
\* readers until wunlock()'s loop lets them in.
Ownership ==
    /\ \A p, q \in Procs : WriteHolder(p) /\ WriteHolder(q) => p = q
    /\ writer = 1 <=> \E p \in Procs : WriteHolder(p)
    /\ \A p \in Procs : pc[p] = "waking" <=> use = p
    /\ writer = 1 /\ use = Nil => readers = 0

\* Nobody waits for a free lock, readers do not wait for readers, and the
\* loop of wunlock() lets in at least one.
Order ==
    /\ queue # << >> => readers > 0 \/ writer = 1
    /\ queue # << >> /\ writer = 0 => state[queue[1]] = "QueueingW"
    /\ use # Nil /\ readers = 0 => queue # << >> /\ state[queue[1]] = "QueueingR"

IInv == TypeOK /\ Line /\ Waiting /\ Handing /\ Ownership /\ Order /\ ReadersCounted

USE ProcsAssumption DEF Goto

----------------------------------------------------------------------------
(* Facts about the line and about the number of readers.                   *)

\* Linking a process at the tail, as rlock() and wlock() do.
LEMMA LinkTail ==
    ASSUME NEW s \in Seq(Procs), NEW p \in Procs
    PROVE  /\ Append(s, p) \in Seq(Procs)
           /\ Len(s) \in Nat /\ Len(Append(s, p)) = Len(s) + 1
           /\ \A i \in 1..Len(s) : Append(s, p)[i] = s[i]
           /\ Append(s, p)[Len(s) + 1] = p
           /\ Append(s, p) # << >>
           /\ s = << >> => Append(s, p)[1] = p
           /\ s # << >> => Append(s, p)[1] = s[1]
<1>1. s # << >> => 1 \in 1..Len(s)
    OBVIOUS
<1>2. s = << >> => Len(s) = 0
    OBVIOUS
<1>3. QED  BY <1>1, <1>2

\* Unlinking the process at the head, as the unlock routines do.
LEMMA UnlinkHead ==
    ASSUME NEW s \in Seq(Procs), s # << >>
    PROVE  /\ Tail(s) \in Seq(Procs)
           /\ Len(s) \in Nat /\ Len(s) >= 1 /\ Len(Tail(s)) = Len(s) - 1
           /\ \A i \in 1..Len(Tail(s)) : Tail(s)[i] = s[i + 1] /\ i + 1 \in 1..Len(s)
           /\ Head(s) = s[1] /\ s[1] \in Procs
           /\ Tail(s) # << >> => Tail(s)[1] = s[2] /\ 2 \in 1..Len(s)
OBVIOUS

\* The processes holding the lock for reading are finitely many.
LEMMA ReadHoldersFinite == IsFiniteSet(ReadHolders) /\ Cardinality(ReadHolders) \in Nat
BY FS_Subset, FS_CardinalityType DEF ReadHolders

----------------------------------------------------------------------------
(* One lemma per action, one step per part of the invariant.               *)

\* Step rlockGrant preserves the invariant.
LEMMA rlockGrantStep ==
    ASSUME IInv, NEW p \in Procs, rlockGrant(p)
    PROVE  IInv'
<1> USE DEF IInv
<1>1. TypeOK'
    BY DEF rlockGrant, TypeOK, Pcs, Waiting
<1>2. Line'
    BY DEF rlockGrant, TypeOK, Line, Waiting
<1>3. Waiting'
    BY DEF rlockGrant, TypeOK, Line, Waiting
<1>4. Handing'
    BY DEF rlockGrant, TypeOK, Line, Waiting, Handing
<1>5. Ownership'
    BY DEF rlockGrant, TypeOK, Line, Waiting, Ownership, WriteHolder,
       Order
<1>6. Order'
    BY DEF rlockGrant, TypeOK, Line, Waiting, Ownership, WriteHolder,
       Order
<1>7. ReadersCounted'
  <2>1. p \notin ReadHolders /\ ReadHolders' = ReadHolders \union {p}
    BY DEF rlockGrant, TypeOK, Line, Waiting, ReadHolders
  <2>2. QED
    BY <2>1, ReadHoldersFinite, FS_AddElement DEF rlockGrant,
       ReadersCounted
<1>8. QED  BY <1>1, <1>2, <1>3, <1>4, <1>5, <1>6, <1>7

\* Step rlockWait preserves the invariant.
LEMMA rlockWaitStep ==
    ASSUME IInv, NEW p \in Procs, rlockWait(p)
    PROVE  IInv'
<1> USE DEF IInv
<1>0. /\ Len(queue) \in Nat /\ Len(queue') = Len(queue) + 1 /\ queue' \in Seq(Procs)
      /\ \A i \in 1..Len(queue) : queue'[i] = queue[i]
      /\ queue'[Len(queue) + 1] = p /\ queue' # << >>
      /\ queue = << >> => queue'[1] = p
      /\ queue # << >> => queue'[1] = queue[1] /\ 1 \in 1..Len(queue)
    BY LinkTail DEF rlockWait, Enqueue, TypeOK
<1>1. TypeOK'
    BY <1>0 DEF rlockWait, Enqueue, TypeOK, Pcs, Waiting
<1>2. Line'
    BY <1>0 DEF rlockWait, Enqueue, TypeOK, Line, Waiting
<1>3. Waiting'
    BY <1>0 DEF rlockWait, Enqueue, TypeOK, Line, Waiting
<1>4. Handing'
    BY <1>0 DEF rlockWait, Enqueue, TypeOK, Line, Waiting, Handing
<1>5. Ownership'
    BY <1>0 DEF rlockWait, Enqueue, TypeOK, Line, Waiting, Ownership,
       WriteHolder, Order
<1>6. Order'
    BY <1>0 DEF rlockWait, Enqueue, TypeOK, Line, Waiting, Ownership,
       WriteHolder, Order
<1>7. ReadersCounted'
  <2>1. ReadHolders' = ReadHolders
    BY <1>0 DEF rlockWait, Enqueue, TypeOK, Line, Waiting, ReadHolders
  <2>2. QED  BY <2>1 DEF rlockWait, Enqueue, ReadersCounted
<1>8. QED  BY <1>1, <1>2, <1>3, <1>4, <1>5, <1>6, <1>7

\* Step wlockGrant preserves the invariant.
LEMMA wlockGrantStep ==
    ASSUME IInv, NEW p \in Procs, wlockGrant(p)
    PROVE  IInv'
<1> USE DEF IInv
<1>1. TypeOK'
    BY DEF wlockGrant, TypeOK, Pcs, Waiting
<1>2. Line'
    BY DEF wlockGrant, TypeOK, Line, Waiting
<1>3. Waiting'
    BY DEF wlockGrant, TypeOK, Line, Waiting
<1>4. Handing'
    BY DEF wlockGrant, TypeOK, Line, Waiting, Handing
<1>5. Ownership'
    BY DEF wlockGrant, TypeOK, Line, Waiting, Ownership, WriteHolder,
       Order
<1>6. Order'
    BY DEF wlockGrant, TypeOK, Line, Waiting, Ownership, WriteHolder,
       Order
<1>7. ReadersCounted'
  <2>1. ReadHolders' = ReadHolders
    BY DEF wlockGrant, TypeOK, Line, Waiting, ReadHolders
  <2>2. QED  BY <2>1 DEF wlockGrant, ReadersCounted
<1>8. QED  BY <1>1, <1>2, <1>3, <1>4, <1>5, <1>6, <1>7

\* Step wlockWait preserves the invariant.
LEMMA wlockWaitStep ==
    ASSUME IInv, NEW p \in Procs, wlockWait(p)
    PROVE  IInv'
<1> USE DEF IInv
<1>0. /\ Len(queue) \in Nat /\ Len(queue') = Len(queue) + 1 /\ queue' \in Seq(Procs)
      /\ \A i \in 1..Len(queue) : queue'[i] = queue[i]
      /\ queue'[Len(queue) + 1] = p /\ queue' # << >>
      /\ queue = << >> => queue'[1] = p
      /\ queue # << >> => queue'[1] = queue[1] /\ 1 \in 1..Len(queue)
    BY LinkTail DEF wlockWait, Enqueue, TypeOK
<1>1. TypeOK'
    BY <1>0 DEF wlockWait, Enqueue, TypeOK, Pcs, Waiting
<1>2. Line'
    BY <1>0 DEF wlockWait, Enqueue, TypeOK, Line, Waiting
<1>3. Waiting'
    BY <1>0 DEF wlockWait, Enqueue, TypeOK, Line, Waiting
<1>4. Handing'
    BY <1>0 DEF wlockWait, Enqueue, TypeOK, Line, Waiting, Handing
<1>5. Ownership'
    BY <1>0 DEF wlockWait, Enqueue, TypeOK, Line, Waiting, Ownership,
       WriteHolder, Order
<1>6. Order'
    BY <1>0 DEF wlockWait, Enqueue, TypeOK, Line, Waiting, Ownership,
       WriteHolder, Order
<1>7. ReadersCounted'
  <2>1. ReadHolders' = ReadHolders
    BY <1>0 DEF wlockWait, Enqueue, TypeOK, Line, Waiting, ReadHolders
  <2>2. QED  BY <2>1 DEF wlockWait, Enqueue, ReadersCounted
<1>8. QED  BY <1>1, <1>2, <1>3, <1>4, <1>5, <1>6, <1>7

\* Step runlock preserves the invariant.
LEMMA runlockStep ==
    ASSUME IInv, NEW p \in Procs, runlock(p)
    PROVE  IInv'
<1> USE DEF IInv
<1>r. readers > 0
  <2>1. p \in ReadHolders
    BY DEF runlock, ReadHolders
  <2>2. QED
    BY <2>1, ReadHoldersFinite, FS_EmptySet DEF ReadersCounted
<1>1. TypeOK'
    BY <1>r DEF runlock, runlockLast, TypeOK, Pcs, Waiting
<1>2. Line'
    BY <1>r DEF runlock, runlockLast, TypeOK, Line, Waiting
<1>3. Waiting'
    BY <1>r DEF runlock, runlockLast, TypeOK, Line, Waiting
<1>4. Handing'
    BY <1>r DEF runlock, runlockLast, TypeOK, Line, Waiting, Handing
<1>5. Ownership'
    BY <1>r DEF runlock, runlockLast, TypeOK, Line, Waiting, Ownership,
       WriteHolder, Order
<1>6. Order'
    BY <1>r DEF runlock, runlockLast, TypeOK, Line, Waiting, Ownership,
       WriteHolder, Order
<1>7. ReadersCounted'
  <2>1. p \in ReadHolders /\ ReadHolders' = ReadHolders \ {p}
    BY <1>r DEF runlock, runlockLast, TypeOK, Line, Waiting, ReadHolders
  <2>2. QED
    BY <2>1, ReadHoldersFinite, FS_RemoveElement DEF runlock,
       ReadersCounted, TypeOK
<1>8. QED  BY <1>1, <1>2, <1>3, <1>4, <1>5, <1>6, <1>7

\* Step runlockHand preserves the invariant.
LEMMA runlockHandStep ==
    ASSUME IInv, NEW p \in Procs, runlockHand(p)
    PROVE  IInv'
<1> USE DEF IInv
<1>0. /\ queue # << >> /\ queue' \in Seq(Procs)
      /\ Len(queue) \in Nat /\ Len(queue) >= 1 /\ Len(queue') = Len(queue) - 1
      /\ \A i \in 1..Len(queue') : queue'[i] = queue[i + 1] /\ i + 1 \in 1..Len(queue)
      /\ Head(queue) = queue[1] /\ queue[1] \in Procs /\ 1 \in 1..Len(queue)
      /\ queue' # << >> => queue'[1] = queue[2] /\ 2 \in 1..Len(queue)
    BY UnlinkHead DEF runlockHand, runlockLast, TypeOK
<1>r. readers > 0
  <2>1. p \in ReadHolders
    BY DEF runlockHand, ReadHolders
  <2>2. QED
    BY <2>1, ReadHoldersFinite, FS_EmptySet DEF ReadersCounted
<1>1. TypeOK'
    BY <1>0, <1>r DEF runlockHand, runlockLast, TypeOK, Pcs, Waiting
<1>2. Line'
    BY <1>0, <1>r DEF runlockHand, runlockLast, TypeOK, Line, Waiting
<1>3. Waiting'
    BY <1>0, <1>r DEF runlockHand, runlockLast, TypeOK, Line, Waiting
<1>4. Handing'
  <2>1. /\ pc[queue[1]] = "wwait" /\ state[queue[1]] = "QueueingW"
        /\ \A q \in Procs : pc[q] # "handing"
    BY <1>0, <1>r DEF runlockHand, TypeOK, Line, Ownership, WriteHolder, Order
  <2>2. QED
    BY <1>0, <2>1 DEF runlockHand, TypeOK, Line, Handing
<1>5. Ownership'
    BY <1>0, <1>r DEF runlockHand, runlockLast, TypeOK, Line, Waiting,
       Ownership, WriteHolder, Order
<1>6. Order'
    BY <1>0, <1>r DEF runlockHand, runlockLast, TypeOK, Line, Waiting,
       Ownership, WriteHolder, Order
<1>7. ReadersCounted'
  <2>1. p \in ReadHolders /\ ReadHolders' = ReadHolders \ {p}
    BY <1>0, <1>r DEF runlockHand, runlockLast, TypeOK, Line, Waiting,
       ReadHolders
  <2>2. QED
    BY <2>1, ReadHoldersFinite, FS_RemoveElement DEF runlockHand,
       ReadersCounted, TypeOK
<1>8. QED  BY <1>1, <1>2, <1>3, <1>4, <1>5, <1>6, <1>7

\* Step wunlock preserves the invariant.
LEMMA wunlockStep ==
    ASSUME IInv, NEW p \in Procs, wunlock(p)
    PROVE  IInv'
<1> USE DEF IInv
<1>1. TypeOK'
    BY DEF wunlock, TypeOK, Pcs, Waiting
<1>2. Line'
    BY DEF wunlock, TypeOK, Line, Waiting
<1>3. Waiting'
    BY DEF wunlock, TypeOK, Line, Waiting
<1>4. Handing'
    BY DEF wunlock, TypeOK, Line, Waiting, Handing
<1>5. Ownership'
    BY DEF wunlock, TypeOK, Line, Waiting, Ownership, WriteHolder, Order
<1>6. Order'
    BY DEF wunlock, TypeOK, Line, Waiting, Ownership, WriteHolder, Order
<1>7. ReadersCounted'
  <2>1. ReadHolders' = ReadHolders
    BY DEF wunlock, TypeOK, Line, Waiting, ReadHolders
  <2>2. QED  BY <2>1 DEF wunlock, ReadersCounted
<1>8. QED  BY <1>1, <1>2, <1>3, <1>4, <1>5, <1>6, <1>7

\* Step wunlockHand preserves the invariant.
LEMMA wunlockHandStep ==
    ASSUME IInv, NEW p \in Procs, wunlockHand(p)
    PROVE  IInv'
<1> USE DEF IInv
<1>0. /\ queue # << >> /\ queue' \in Seq(Procs)
      /\ Len(queue) \in Nat /\ Len(queue) >= 1 /\ Len(queue') = Len(queue) - 1
      /\ \A i \in 1..Len(queue') : queue'[i] = queue[i + 1] /\ i + 1 \in 1..Len(queue)
      /\ Head(queue) = queue[1] /\ queue[1] \in Procs /\ 1 \in 1..Len(queue)
      /\ queue' # << >> => queue'[1] = queue[2] /\ 2 \in 1..Len(queue)
    BY UnlinkHead DEF wunlockHand, runlockLast, TypeOK
<1>1. TypeOK'
    BY <1>0 DEF wunlockHand, TypeOK, Pcs, Waiting
<1>2. Line'
    BY <1>0 DEF wunlockHand, TypeOK, Line, Waiting
<1>3. Waiting'
    BY <1>0 DEF wunlockHand, TypeOK, Line, Waiting
<1>4. Handing'
    BY <1>0 DEF wunlockHand, TypeOK, Line, Waiting, Handing, Ownership,
       WriteHolder
<1>5. Ownership'
    BY <1>0 DEF wunlockHand, TypeOK, Line, Waiting, Ownership,
       WriteHolder, Order
<1>6. Order'
    BY <1>0 DEF wunlockHand, TypeOK, Line, Waiting, Ownership,
       WriteHolder, Order
<1>7. ReadersCounted'
  <2>1. ReadHolders' = ReadHolders
    BY <1>0 DEF wunlockHand, TypeOK, Line, Waiting, ReadHolders
  <2>2. QED  BY <2>1 DEF wunlockHand, ReadersCounted
<1>8. QED  BY <1>1, <1>2, <1>3, <1>4, <1>5, <1>6, <1>7

\* Step ReadyHand preserves the invariant.
LEMMA ReadyHandStep ==
    ASSUME IInv, NEW p \in Procs, ReadyHand(p)
    PROVE  IInv'
<1> USE DEF IInv
<1>1. TypeOK'
    BY DEF ReadyHand, TypeOK, Pcs, Waiting, Handing
<1>2. Line'
    BY DEF ReadyHand, TypeOK, Line, Waiting, Handing
<1>3. Waiting'
    BY DEF ReadyHand, TypeOK, Line, Waiting, Handing
<1>4. Handing'
    BY DEF ReadyHand, TypeOK, Line, Waiting, Handing, Ownership,
       WriteHolder
<1>5. Ownership'
    BY DEF ReadyHand, TypeOK, Line, Waiting, Handing, Ownership,
       WriteHolder, Order
<1>6. Order'
    BY DEF ReadyHand, TypeOK, Line, Waiting, Handing, Ownership,
       WriteHolder, Order
<1>7. ReadersCounted'
  <2>1. ReadHolders' = ReadHolders
    BY DEF ReadyHand, TypeOK, Line, Waiting, Handing, ReadHolders
  <2>2. QED  BY <2>1 DEF ReadyHand, ReadersCounted
<1>8. QED  BY <1>1, <1>2, <1>3, <1>4, <1>5, <1>6, <1>7

\* Step wunlockReaders preserves the invariant.
LEMMA wunlockReadersStep ==
    ASSUME IInv, NEW p \in Procs, wunlockReaders(p)
    PROVE  IInv'
<1> USE DEF IInv
<1>1. TypeOK'
    BY DEF wunlockReaders, TypeOK, Pcs, Waiting
<1>2. Line'
    BY DEF wunlockReaders, TypeOK, Line, Waiting
<1>3. Waiting'
    BY DEF wunlockReaders, TypeOK, Line, Waiting
<1>4. Handing'
    BY DEF wunlockReaders, TypeOK, Line, Waiting, Handing
<1>5. Ownership'
    BY DEF wunlockReaders, TypeOK, Line, Waiting, Ownership, WriteHolder,
       Order
<1>6. Order'
    BY DEF wunlockReaders, TypeOK, Line, Waiting, Ownership, WriteHolder,
       Order
<1>7. ReadersCounted'
  <2>1. ReadHolders' = ReadHolders
    BY DEF wunlockReaders, TypeOK, Line, Waiting, ReadHolders
  <2>2. QED  BY <2>1 DEF wunlockReaders, ReadersCounted
<1>8. QED  BY <1>1, <1>2, <1>3, <1>4, <1>5, <1>6, <1>7

\* Step wunlockWake preserves the invariant.
LEMMA wunlockWakeStep ==
    ASSUME IInv, NEW p \in Procs, wunlockWake(p)
    PROVE  IInv'
<1> USE DEF IInv
<1>0. /\ queue # << >> /\ queue' \in Seq(Procs)
      /\ Len(queue) \in Nat /\ Len(queue) >= 1 /\ Len(queue') = Len(queue) - 1
      /\ \A i \in 1..Len(queue') : queue'[i] = queue[i + 1] /\ i + 1 \in 1..Len(queue)
      /\ Head(queue) = queue[1] /\ queue[1] \in Procs /\ 1 \in 1..Len(queue)
      /\ queue' # << >> => queue'[1] = queue[2] /\ 2 \in 1..Len(queue)
    BY UnlinkHead DEF wunlockWake, runlockLast, TypeOK
<1>1. TypeOK'
    BY <1>0 DEF wunlockWake, TypeOK, Pcs, Waiting
<1>2. Line'
    BY <1>0 DEF wunlockWake, TypeOK, Line, Waiting
<1>3. Waiting'
    BY <1>0 DEF wunlockWake, TypeOK, Line, Waiting
<1>4. Handing'
    BY <1>0 DEF wunlockWake, TypeOK, Line, Waiting, Handing
<1>5. Ownership'
    BY <1>0 DEF wunlockWake, TypeOK, Line, Waiting, Ownership,
       WriteHolder, Order
<1>6. Order'
    BY <1>0 DEF wunlockWake, TypeOK, Line, Waiting, Ownership,
       WriteHolder, Order
<1>7. ReadersCounted'
  <2>1. queue[1] \notin ReadHolders /\ ReadHolders' = ReadHolders \union {queue[1]}
    BY <1>0 DEF wunlockWake, TypeOK, Line, Waiting, ReadHolders
  <2>2. QED
    BY <2>1, ReadHoldersFinite, FS_AddElement DEF wunlockWake,
       ReadersCounted
<1>8. QED  BY <1>1, <1>2, <1>3, <1>4, <1>5, <1>6, <1>7

\* Step wunlockDone preserves the invariant.
LEMMA wunlockDoneStep ==
    ASSUME IInv, NEW p \in Procs, wunlockDone(p)
    PROVE  IInv'
<1> USE DEF IInv
<1>1. TypeOK'
    BY DEF wunlockDone, TypeOK, Pcs, Waiting
<1>2. Line'
    BY DEF wunlockDone, TypeOK, Line, Waiting
<1>3. Waiting'
    BY DEF wunlockDone, TypeOK, Line, Waiting
<1>4. Handing'
    BY DEF wunlockDone, TypeOK, Line, Waiting, Handing
<1>5. Ownership'
    BY DEF wunlockDone, TypeOK, Line, Waiting, Ownership, WriteHolder,
       Order
<1>6. Order'
    BY DEF wunlockDone, TypeOK, Line, Waiting, Ownership, WriteHolder,
       Order
<1>7. ReadersCounted'
  <2>1. ReadHolders' = ReadHolders
    BY DEF wunlockDone, TypeOK, Line, Waiting, ReadHolders
  <2>2. QED  BY <2>1 DEF wunlockDone, ReadersCounted
<1>8. QED  BY <1>1, <1>2, <1>3, <1>4, <1>5, <1>6, <1>7

\* Step Resume preserves the invariant.
LEMMA ResumeStep ==
    ASSUME IInv, NEW p \in Procs, Resume(p)
    PROVE  IInv'
<1> USE DEF IInv
<1>1. TypeOK'
    BY DEF Resume, TypeOK, Pcs, Waiting
<1>2. Line'
    BY DEF Resume, TypeOK, Line, Waiting
<1>3. Waiting'
    BY DEF Resume, TypeOK, Line, Waiting
<1>4. Handing'
    BY DEF Resume, TypeOK, Line, Waiting, Handing
<1>5. Ownership'
    BY DEF Resume, TypeOK, Line, Waiting, Ownership, WriteHolder, Order
<1>6. Order'
    BY DEF Resume, TypeOK, Line, Waiting, Ownership, WriteHolder, Order
<1>7. ReadersCounted'
  <2>1. ReadHolders' = ReadHolders
    BY DEF Resume, TypeOK, Line, Waiting, ReadHolders
  <2>2. QED  BY <2>1 DEF Resume, ReadersCounted
<1>8. QED  BY <1>1, <1>2, <1>3, <1>4, <1>5, <1>6, <1>7

----------------------------------------------------------------------------
\* The initial state satisfies the invariant.
LEMMA InitIInv == Init => IInv
<1> SUFFICES ASSUME Init PROVE IInv
    OBVIOUS
<1>1. TypeOK /\ Line /\ Waiting /\ Handing /\ Ownership /\ Order
    BY DEF Init, TypeOK, Pcs, Line, Waiting, Handing, Ownership, WriteHolder, Order
<1>2. ReadHolders = {}
    BY DEF Init, ReadHolders
<1>3. QED  BY <1>1, <1>2, FS_EmptySet DEF Init, IInv, ReadersCounted

\* Every step preserves the invariant.
LEMMA NextIInv == IInv /\ [Next]_vars => IInv'
<1> SUFFICES ASSUME IInv, [Next]_vars PROVE IInv'
    OBVIOUS
<1>1. CASE UNCHANGED vars
    BY <1>1 DEF vars, IInv, TypeOK, Line, Waiting, Handing, Ownership, WriteHolder, Order,
       ReadersCounted, ReadHolders
<1>2. ASSUME NEW p \in Procs, rlockGrant(p) PROVE IInv'
    BY <1>2, rlockGrantStep
<1>3. ASSUME NEW p \in Procs, rlockWait(p) PROVE IInv'
    BY <1>3, rlockWaitStep
<1>4. ASSUME NEW p \in Procs, wlockGrant(p) PROVE IInv'
    BY <1>4, wlockGrantStep
<1>5. ASSUME NEW p \in Procs, wlockWait(p) PROVE IInv'
    BY <1>5, wlockWaitStep
<1>6. ASSUME NEW p \in Procs, runlock(p) PROVE IInv'
    BY <1>6, runlockStep
<1>7. ASSUME NEW p \in Procs, runlockHand(p) PROVE IInv'
    BY <1>7, runlockHandStep
<1>8. ASSUME NEW p \in Procs, wunlock(p) PROVE IInv'
    BY <1>8, wunlockStep
<1>9. ASSUME NEW p \in Procs, wunlockHand(p) PROVE IInv'
    BY <1>9, wunlockHandStep
<1>10. ASSUME NEW p \in Procs, ReadyHand(p) PROVE IInv'
    BY <1>10, ReadyHandStep
<1>11. ASSUME NEW p \in Procs, wunlockReaders(p) PROVE IInv'
    BY <1>11, wunlockReadersStep
<1>12. ASSUME NEW p \in Procs, wunlockWake(p) PROVE IInv'
    BY <1>12, wunlockWakeStep
<1>13. ASSUME NEW p \in Procs, wunlockDone(p) PROVE IInv'
    BY <1>13, wunlockDoneStep
<1>14. ASSUME NEW p \in Procs, Resume(p) PROVE IInv'
    BY <1>14, ResumeStep
<1>15. QED
    BY <1>1, <1>2, <1>3, <1>4, <1>5, <1>6, <1>7, <1>8, <1>9, <1>10,
       <1>11, <1>12, <1>13, <1>14 DEF Next, Lock, Unlock, canrlock

\* The invariant holds in every reachable state.
THEOREM Invariance == Spec => []IInv
BY InitIInv, NextIInv, PTL DEF Spec

\* Type correctness; in particular q->readers never drops below zero.
THEOREM TypeCorrect == Spec => []TypeOK
<1>1. IInv => TypeOK  BY DEF IInv
<1>2. QED  BY Invariance, <1>1, PTL

\* A writer holds the lock alone.
THEOREM MutualExclusion == Spec => []Exclusion
<1>1. IInv => Exclusion
  <2> SUFFICES ASSUME IInv, NEW p \in Procs, NEW q \in Procs, p # q, pc[p] = "writing"
               PROVE  pc[q] \notin {"reading", "writing"}
    BY DEF Exclusion
  <2>1. pc[q] # "writing" /\ readers = 0
    BY DEF IInv, TypeOK, Ownership, WriteHolder
  <2>2. ReadHolders = {}
    BY <2>1, ReadHoldersFinite, FS_EmptySet DEF IInv, ReadersCounted
  <2>3. QED  BY <2>1, <2>2 DEF ReadHolders
<1>2. QED  BY Invariance, <1>1, PTL

\* q->readers is the number of processes that have the lock for reading.
THEOREM ReadersAreCounted == Spec => []ReadersCounted
<1>1. IInv => ReadersCounted  BY DEF IInv
<1>2. QED  BY Invariance, <1>1, PTL

\* The panics of runlock() and wunlock() are unreachable.
THEOREM PanicFree == Spec => []NoPanic
<1>1. IInv => NoPanic
  <2> SUFFICES ASSUME IInv, NEW p \in Procs
               PROVE  /\ pc[p] = "reading" /\ use = Nil /\ ~runlockLast(p) =>
                            state[Head(queue)] = "QueueingW"
                      /\ pc[p] = "writing" /\ queue # << >> =>
                            state[Head(queue)] \in {"QueueingR", "QueueingW"}
    BY DEF NoPanic
  <2>1. pc[p] = "reading" => readers > 0
    <3>1. pc[p] = "reading" => p \in ReadHolders
      BY DEF ReadHolders
    <3>2. QED  BY <3>1, ReadHoldersFinite, FS_EmptySet DEF IInv, ReadersCounted
  <2>2. queue # << >> => Head(queue) = queue[1] /\ 1 \in 1..Len(queue)
    BY UnlinkHead DEF IInv, TypeOK
  <2>3. QED
    BY <2>1, <2>2 DEF IInv, TypeOK, Line, Ownership, Order, runlockLast
<1>2. QED  BY Invariance, <1>1, PTL

\* Nobody waits for a lock nobody has.
THEOREM NobodyStranded == Spec => []NoneStranded
<1>1. IInv => NoneStranded
  <2> SUFFICES ASSUME IInv, queue # << >> PROVE NoneStranded
    BY DEF NoneStranded
  <2>1. CASE writer = 1
    BY <2>1 DEF IInv, Ownership, WriteHolder, NoneStranded
  <2>2. CASE readers > 0
    <3>1. ReadHolders # {}
      <4>1. Cardinality(ReadHolders) > 0
        BY <2>2 DEF IInv, ReadersCounted
      <4>2. Cardinality({}) = 0
        BY FS_EmptySet
      <4>3. ReadHolders = {} => Cardinality(ReadHolders) = Cardinality({})
        BY Zenon
      <4>4. QED  BY <4>1, <4>2, <4>3
    <3>2. QED  BY <3>1 DEF ReadHolders, NoneStranded
  <2>3. QED  BY <2>1, <2>2 DEF IInv, Order
<1>2. QED  BY Invariance, <1>1, PTL

----------------------------------------------------------------------------
(* The QLock.  A list of processes, for any head h and links n.            *)

\* The natural numbers are well founded, which gives induction over a set.
LEMMA Induction ==
    ASSUME NEW S, 0 \in S, \A n \in Nat : n \in S => n + 1 \in S
    PROVE  \A n \in Nat : n \in S
<1> SUFFICES ASSUME Nat \ S # {} PROVE FALSE
    OBVIOUS
<1> DEFINE R == OpToRel(<, Nat)
<1>1. IsWellFoundedOn(R, Nat)
    BY NatLessThanWellFounded
<1>2. \A x, y \in Nat : x < y => <<x, y>> \in R
    BY DEF OpToRel
<1> HIDE DEF R
<1>3. Nat \ S \subseteq Nat
    OBVIOUS
<1>4. \E x \in Nat \ S : \A y \in Nat \ S : ~(<<y, x>> \in R)
    BY <1>1, <1>3, WFMin, Zenon
<1>5. PICK x \in Nat \ S : \A y \in Nat \ S : ~(y < x)
    BY <1>2, <1>4
<1>6. x - 1 \in Nat /\ x - 1 \notin Nat \ S
    BY <1>5
<1>7. QED  BY <1>6

LinkedBy(h, n, s) ==
    /\ h = IF s = << >> THEN Nil ELSE s[1]
    /\ \A i \in 1 .. Len(s) : n[s[i]] = IF i = Len(s) THEN Nil ELSE s[i + 1]

\* A list read along the links is no longer than another read along them, and
\* has the same processes.
LEMMA OneList ==
    ASSUME NEW h, NEW n, NEW s \in Seq(Procs), NEW u \in Seq(Procs),
           LinkedBy(h, n, s), LinkedBy(h, n, u)
    PROVE  Len(s) <= Len(u) /\ \A i \in 1 .. Len(s) : i <= Len(u) => s[i] = u[i]
<1> DEFINE S == {i \in Nat : i \in 1 .. Len(s) => i <= Len(u) /\ s[i] = u[i]}
<1>0. Len(s) \in Nat /\ Len(u) \in Nat
    OBVIOUS
<1>1. 0 \in S
    OBVIOUS
<1>2. ASSUME NEW i \in Nat, i \in S PROVE i + 1 \in S
  <2> SUFFICES ASSUME i + 1 \in 1 .. Len(s)
               PROVE  i + 1 <= Len(u) /\ s[i + 1] = u[i + 1]
      OBVIOUS
  <2>1. s[i + 1] \in Procs /\ s[i + 1] # Nil /\ s # << >>
      BY ProcsAssumption
  <2>2. CASE i = 0
    <3>1. h = s[1] /\ h # Nil
        BY <2>1, <2>2 DEF LinkedBy
    <3>2. u # << >> /\ h = u[1]
        BY <3>1 DEF LinkedBy
    <3>3. Len(u) >= 1
        BY <3>2
    <3>4. s[i + 1] = s[1] /\ u[i + 1] = u[1] /\ i + 1 <= Len(u)
        BY <2>2, <3>3
    <3>5. QED  BY <3>1, <3>2, <3>4
  <2>3. CASE i # 0
    <3>1. i \in 1 .. Len(s) /\ i # Len(s) /\ i <= Len(u) /\ i \in 1 .. Len(u) /\ s[i] = u[i]
        BY <1>0, <1>2, <2>3
    <3>2. n[s[i]] = s[i + 1]
        BY <3>1 DEF LinkedBy
    <3>3. n[u[i]] = IF i = Len(u) THEN Nil ELSE u[i + 1]
        BY <3>1 DEF LinkedBy
    <3>4. QED  BY <1>0, <2>1, <3>1, <3>2, <3>3
  <2>4. QED  BY <2>2, <2>3
<1> HIDE DEF S
<1>3. \A i \in Nat : i \in S
    BY <1>1, <1>2, Induction
<1>4. \A i \in 1 .. Len(s) : i <= Len(u) /\ s[i] = u[i]
    BY <1>3 DEF S
<1>5. CASE Len(s) = 0
    BY <1>0, <1>4, <1>5
<1>6. CASE Len(s) # 0
    BY <1>0, <1>4, <1>6
<1>7. QED  BY <1>0, <1>5, <1>6

\* A list without repetition is one of those Line is chosen from, and the only
\* one that is linked.
LEMMA TheList ==
    ASSUME NEW h, NEW n, NEW s \in Seq(Procs), LinkedBy(h, n, s),
           \A i, j \in 1 .. Len(s) : s[i] = s[j] => i = j
    PROVE  /\ s \in Q!Lists
           /\ \A u \in Q!Lists : LinkedBy(h, n, u) => u = s
<1>1. Len(s) \in Nat /\ s \in [1 .. Len(s) -> Procs]
    OBVIOUS
<1>2. s \in Injection(1 .. Len(s), Procs)
    BY <1>1 DEF Injection, IsInjective
<1>3. Cardinality(1 .. Len(s)) <= Cardinality(Procs) /\ Cardinality(Procs) \in Nat
    BY <1>2, ProcsAssumption, FS_Injection, FS_CardinalityType
<1>4. Cardinality(1 .. Len(s)) = Len(s)
    BY <1>1, FS_Interval
<1>5. Len(s) \in 0 .. Cardinality(Procs)
    BY <1>1, <1>3, <1>4
<1>6. s \in Q!Lists
    BY <1>1, <1>5, Zenon DEF Q!Lists, Q!Cardinality, Cardinality
<1>7. ASSUME NEW u \in Q!Lists, LinkedBy(h, n, u) PROVE u = s
  <2>1. PICK m \in 0 .. Cardinality(Procs) : u \in [1 .. m -> Procs]
      BY Zenon DEF Q!Lists, Q!Cardinality, Cardinality
  <2>2. m \in Nat
      BY <1>3, <2>1
  <2>3. u \in Seq(Procs)
      BY <2>1, <2>2
  <2>4. /\ Len(s) <= Len(u) /\ Len(u) <= Len(s)
        /\ \A i \in 1 .. Len(s) : i <= Len(u) => s[i] = u[i]
      BY <1>7, <2>3, OneList
  <2>5. Len(u) \in Nat
      BY <2>3
  <2>6. Len(u) = Len(s) /\ \A i \in 1 .. Len(s) : s[i] = u[i]
      BY <1>1, <2>4, <2>5
  <2>7. QED  BY <2>3, <2>6
<1>8. QED  BY <1>6, <1>7

\* The list from h to t along n is s, and nobody is in it twice.
ListBy(h, t, n, s) ==
    /\ LinkedBy(h, n, s)
    /\ t = IF s = << >> THEN Nil ELSE s[Len(s)]
    /\ \A i, j \in 1 .. Len(s) : s[i] = s[j] => i = j

ListOf(h, n) == CHOOSE s \in Q!Lists : LinkedBy(h, n, s)

\* A list that is linked is the one the links give.
LEMMA ListOfIs ==
    ASSUME NEW h, NEW t, NEW n, NEW s \in Seq(Procs), ListBy(h, t, n, s)
    PROVE  ListOf(h, n) = s
<1>1. s \in Q!Lists /\ LinkedBy(h, n, s) /\ \A u \in Q!Lists : LinkedBy(h, n, u) => u = s
    BY TheList DEF ListBy
<1>2. QED  BY <1>1, Zenon DEF ListOf

\* qlock() links a process that is not in the list to its end.
LEMMA ListAppend ==
    ASSUME NEW h, NEW t, NEW n, NEW s \in Seq(Procs), ListBy(h, t, n, s),
           NEW p \in Procs, \A i \in 1 .. Len(s) : s[i] # p
    PROVE  ListBy(IF t = Nil THEN p ELSE h, p,
                  [q \in Procs |-> IF q = p THEN Nil ELSE IF q = t THEN p ELSE n[q]],
                  Append(s, p))
<1> DEFINE u == Append(s, p)
           l == Len(s)
           m == [q \in Procs |-> IF q = p THEN Nil ELSE IF q = t THEN p ELSE n[q]]
           g == IF t = Nil THEN p ELSE h
<1>1. /\ l \in Nat /\ u \in Seq(Procs) /\ u # << >> /\ Len(u) = l + 1 /\ u[l + 1] = p
      /\ \A i \in 1 .. l : u[i] = s[i] /\ s[i] \in Procs /\ s[i] # Nil
    BY ProcsAssumption
<1>2. s = << >> <=> l = 0
    OBVIOUS
<1>3. g = u[1]
  <2>1. CASE l = 0
      BY <1>1, <1>2, <2>1 DEF ListBy
  <2>2. CASE l # 0
    <3>1. t # Nil /\ h = s[1] /\ u[1] = s[1]
        BY <1>1, <1>2, <2>2 DEF ListBy, LinkedBy
    <3>2. QED  BY <3>1
  <2>3. QED  BY <2>1, <2>2
<1>4. ASSUME NEW i \in 1 .. Len(u) PROVE m[u[i]] = IF i = Len(u) THEN Nil ELSE u[i + 1]
  <2>1. CASE i = l + 1
      BY <1>1, <2>1
  <2>2. CASE i = l
    <3>1. i \in 1 .. l /\ s[i] = t /\ u[i] = t /\ t # p /\ t \in Procs /\ i # Len(u)
        BY <1>1, <1>2, <2>2 DEF ListBy
    <3>2. QED  BY <1>1, <2>2, <3>1
  <2>3. CASE i # l /\ i # l + 1
    <3>1. i \in 1 .. l /\ l \in 1 .. l /\ i + 1 \in 1 .. l /\ i # Len(u)
        BY <1>1, <2>3
    <3>2. s[i] # t /\ s[i] # p /\ s[i] \in Procs /\ u[i] = s[i] /\ u[i + 1] = s[i + 1]
        BY <1>1, <1>2, <2>3, <3>1 DEF ListBy
    <3>3. n[s[i]] = s[i + 1]
        BY <2>3, <3>1 DEF ListBy, LinkedBy
    <3>4. QED  BY <3>1, <3>2, <3>3
  <2>4. QED  BY <2>1, <2>2, <2>3
<1>5. ASSUME NEW i \in 1 .. Len(u), NEW j \in 1 .. Len(u), u[i] = u[j] PROVE i = j
  <2>1. (i \in 1 .. l \/ i = l + 1) /\ (j \in 1 .. l \/ j = l + 1)
      BY <1>1
  <2>2. CASE i \in 1 .. l /\ j \in 1 .. l
      BY <1>1, <1>5, <2>2 DEF ListBy
  <2>3. QED  BY <1>1, <1>5, <2>1, <2>2
<1>6. LinkedBy(g, m, u)
    BY <1>1, <1>3, <1>4 DEF LinkedBy
<1>7. QED  BY <1>1, <1>5, <1>6 DEF ListBy

\* qunlock() takes the first of the list.
LEMMA ListTail ==
    ASSUME NEW h, NEW t, NEW n, NEW s \in Seq(Procs), ListBy(h, t, n, s), s # << >>
    PROVE  ListBy(n[h], IF n[h] = Nil THEN Nil ELSE t, n, Tail(s))
<1> DEFINE u == Tail(s)
           l == Len(s)
<1>1. /\ l \in Nat /\ l # 0 /\ u \in Seq(Procs) /\ Len(u) = l - 1 /\ Len(u) \in Nat
      /\ \A i \in 1 .. Len(u) : u[i] = s[i + 1] /\ i + 1 \in 1 .. l
      /\ \A i \in 1 .. l : s[i] \in Procs /\ s[i] # Nil
    BY ProcsAssumption
<1>2. u = << >> <=> l = 1
  <2>1. \A v \in Seq(Procs) : v = << >> <=> Len(v) = 0
      OBVIOUS
  <2> HIDE DEF u, l
  <2>2. QED  BY <1>1, <2>1
<1>3. h = s[1] /\ n[s[1]] = IF 1 = l THEN Nil ELSE s[2]
  <2>1. 1 \in 1 .. l
      BY <1>1
  <2>2. h = s[1] /\ n[s[1]] = IF 1 = l THEN Nil ELSE s[1 + 1]
      BY <2>1, Zenon DEF ListBy, LinkedBy
  <2>3. QED  BY <2>2
<1>4. n[h] = IF u = << >> THEN Nil ELSE u[1]
    BY <1>1, <1>2, <1>3
<1>5. ASSUME NEW i \in 1 .. Len(u) PROVE n[u[i]] = IF i = Len(u) THEN Nil ELSE u[i + 1]
  <2>1. n[s[i + 1]] = IF i + 1 = l THEN Nil ELSE s[(i + 1) + 1]
      BY <1>1 DEF ListBy, LinkedBy
  <2>2. CASE i = Len(u)
      BY <1>1, <2>1, <2>2
  <2>3. CASE i # Len(u)
    <3>1. i \in Nat /\ i <= Len(u) /\ Len(u) = l - 1 /\ Len(u) \in Nat /\ l \in Nat
        BY <1>1
    <3> HIDE DEF u, l
    <3>2. i + 1 \in 1 .. Len(u) /\ i + 1 # l
        BY <3>1, <2>3
    <3>3. QED  BY <1>1, <2>1, <3>2, <2>3
  <2>4. QED  BY <2>2, <2>3
<1>6. ASSUME NEW i \in 1 .. Len(u), NEW j \in 1 .. Len(u), u[i] = u[j] PROVE i = j
  <2>1. s[i + 1] = s[j + 1] /\ i + 1 \in 1 .. l /\ j + 1 \in 1 .. l
      BY <1>1, <1>6
  <2>2. i + 1 = j + 1
      BY <2>1 DEF ListBy
  <2>3. QED  BY <2>2
<1>7. (IF n[h] = Nil THEN Nil ELSE t) = IF u = << >> THEN Nil ELSE u[Len(u)]
  <2>1. CASE l = 1
      BY <1>2, <1>3, <2>1
  <2>2. CASE l # 1
    <3>1. n[h] # Nil /\ u # << >> /\ Len(u) \in 1 .. Len(u) /\ Len(u) + 1 = l
        BY <1>1, <1>2, <1>3, <2>2
    <3>2. t = s[l]
        BY DEF ListBy
    <3>3. QED  BY <1>1, <3>1, <3>2
  <2>3. QED  BY <2>1, <2>2
<1>8. LinkedBy(n[h], n, u)
    BY <1>4, <1>5 DEF LinkedBy
<1>9. QED  BY <1>6, <1>7, <1>8 DEF ListBy

----------------------------------------------------------------------------
(* The inductive invariant of the QLock.                                   *)

QTypeOK ==
    /\ locked \in BOOLEAN
    /\ qstate \in [Procs -> {"Running", "Queueing", "Ready"}]
    /\ qpc \in [Procs -> {"out", "in", "wait", "handing"}]
    /\ qhand \in [Procs -> Procs \cup {Nil}]

\* Whom the lock belongs to: who is in it, was made ready, or is being made so.
QHolds(p) == qpc[p] = "in" \/ qstate[p] = "Ready" \/ \E q \in Procs : qhand[q] = p
QHolders == {p \in Procs : QHolds(p)}

QOwned ==
    /\ \A p \in Procs : qpc[p] = "wait" <=> qstate[p] # "Running"
    /\ \A p \in Procs : qpc[p] = "handing" <=> qhand[p] # Nil
    /\ \A p \in Procs : qhand[p] # Nil => qstate[qhand[p]] = "Queueing"
    /\ \A p, q \in Procs : qhand[p] # Nil /\ qhand[p] = qhand[q] => p = q
    /\ \A p, q \in Procs : QHolds(p) /\ QHolds(q) => p = q
    /\ locked <=> \E p \in Procs : QHolds(p)

\* The line is s: its processes wait, and the lock belongs to none of them.
QList(s) ==
    /\ ListBy(head, tail, qnext, s)
    /\ \A i \in 1 .. Len(s) : qstate[s[i]] = "Queueing" /\ ~QHolds(s[i])

QInv == QTypeOK /\ QOwned /\ \E s \in Seq(Procs) : QList(s)

\* qlock() and canqlock() of a free lock.
LEMMA QAcquire ==
    ASSUME QTypeOK, QOwned, NEW s \in Seq(Procs), QList(s), NEW p \in Procs,
           Q!qlockGrant(p) \/ Q!canqlock(p)
    PROVE  /\ QTypeOK' /\ QOwned' /\ QList(s)'
           /\ QHolders = {} /\ QHolders' = {p}
<1>1. /\ qpc[p] = "out" /\ ~locked /\ locked' = TRUE
      /\ qpc' = [qpc EXCEPT ![p] = "in"]
      /\ UNCHANGED <<head, tail, qnext, qstate, qhand>>
    BY DEF Q!qlockGrant, Q!canqlock
<1>2. QTypeOK'
    BY <1>1 DEF QTypeOK
<1>3. \A q \in Procs : ~QHolds(q)
    BY <1>1 DEF QOwned
<1>4. \A q \in Procs : QHolds(q)' <=> q = p
    BY <1>1, <1>3 DEF QHolds, QTypeOK
<1>5. QOwned'
  <2>1. \A q \in Procs : (qpc[q] = "wait" <=> qstate[q] # "Running")' /\ (qpc[q] = "handing" <=> qhand[q] # Nil)'
      BY <1>1 DEF QOwned, QTypeOK
  <2>2. QED  BY <1>1, <1>4, <2>1 DEF QOwned
<1>6. QList(s)'
  <2>1. \A i \in 1 .. Len(s) : s[i] \in Procs /\ s[i] # p
      BY <1>1 DEF QList, QOwned
  <2>2. QED  BY <1>1, <1>4, <2>1 DEF QList
<1>7. QHolders = {} /\ QHolders' = {p}
    BY <1>3, <1>4 DEF QHolders
<1>8. QED  BY <1>2, <1>5, <1>6, <1>7

\* qlock() of a lock somebody has.
LEMMA QWait ==
    ASSUME QTypeOK, QOwned, NEW s \in Seq(Procs), QList(s), NEW p \in Procs,
           Q!qlockWait(p)
    PROVE  /\ QTypeOK' /\ QOwned' /\ QList(Append(s, p))'
           /\ QHolders' = QHolders
           /\ \A i \in 1 .. Len(s) : s[i] # p
           /\ \E x \in Procs : x # p /\ QHolders = {x}
<1>1. /\ qpc[p] = "out" /\ locked /\ locked' = locked
      /\ qstate' = [qstate EXCEPT ![p] = "Queueing"]
      /\ qpc' = [qpc EXCEPT ![p] = "wait"]
      /\ qhand' = qhand
    BY DEF Q!qlockWait
<1>2. QTypeOK'
    BY <1>1 DEF QTypeOK
<1>3. qstate[p] = "Running" /\ qhand[p] = Nil /\ ~QHolds(p)
  <2>1. qstate[p] = "Running" /\ qhand[p] = Nil
      BY <1>1 DEF QOwned
  <2>2. \A q \in Procs : qhand[q] # p
      BY <2>1, ProcsAssumption DEF QOwned
  <2>3. QED  BY <1>1, <2>1, <2>2 DEF QHolds
<1>4. \A q \in Procs : QHolds(q)' <=> QHolds(q)
    BY <1>1, <1>3 DEF QHolds, QTypeOK
<1>5. QOwned'
  <2>1. \A q \in Procs : (qpc[q] = "wait" <=> qstate[q] # "Running")' /\ (qpc[q] = "handing" <=> qhand[q] # Nil)'
      BY <1>1, <1>3 DEF QOwned, QTypeOK
  <2>2. \A q \in Procs : (qhand[q] # Nil => qstate[qhand[q]] = "Queueing")'
      BY <1>1, <1>3 DEF QOwned, QTypeOK
  <2>3. QED  BY <1>1, <1>4, <2>1, <2>2 DEF QOwned
<1>6. \A i \in 1 .. Len(s) : s[i] \in Procs /\ s[i] # p
    BY <1>3 DEF QList
<1>7. QList(Append(s, p))'
  <2>1. ListBy(head, tail, qnext, Append(s, p))'
    <3>1. /\ head' = (IF tail = Nil THEN p ELSE head) /\ tail' = p
          /\ qnext' = [q \in Procs |-> IF q = p THEN Nil ELSE IF q = tail THEN p ELSE qnext[q]]
        BY DEF Q!qlockWait
    <3>2. ListBy(IF tail = Nil THEN p ELSE head, p,
                 [q \in Procs |-> IF q = p THEN Nil ELSE IF q = tail THEN p ELSE qnext[q]],
                 Append(s, p))
        BY <1>6, ListAppend DEF QList
    <3>3. ListBy(head', tail', qnext', Append(s, p))
        BY <3>1, <3>2, Zenon
    <3>4. QED  BY <3>3, Zenon DEF ListBy, LinkedBy
  <2>2. ASSUME NEW i \in 1 .. Len(Append(s, p))
        PROVE  (qstate[Append(s, p)[i]] = "Queueing" /\ ~QHolds(Append(s, p)[i]))'
    <3>1. Append(s, p)[i] = p \/ (i \in 1 .. Len(s) /\ Append(s, p)[i] = s[i])
        OBVIOUS
    <3>2. CASE Append(s, p)[i] = p
        BY <1>1, <1>3, <1>4, <3>2 DEF QTypeOK
    <3>3. CASE i \in 1 .. Len(s) /\ Append(s, p)[i] = s[i]
      <4>1. qstate[s[i]] = "Queueing" /\ ~QHolds(s[i]) /\ s[i] \in Procs /\ s[i] # p
          BY <1>6, <3>3 DEF QList
      <4>2. QED  BY <1>1, <1>4, <3>3, <4>1 DEF QTypeOK
    <3>4. QED  BY <3>1, <3>2, <3>3
  <2>3. QED  BY <2>1, <2>2 DEF QList
<1>8. QHolders' = QHolders
    BY <1>4 DEF QHolders
<1>9. \E x \in Procs : x # p /\ QHolders = {x}
  <2>1. PICK x \in Procs : QHolds(x)
      BY <1>1 DEF QOwned
  <2>2. \A q \in Procs : QHolds(q) <=> q = x
      BY <2>1 DEF QOwned
  <2>3. QED  BY <1>3, <2>2 DEF QHolders
<1>10. QED  BY <1>2, <1>5, <1>6, <1>7, <1>8, <1>9

\* qunlock() with nobody in line.
LEMMA QUnlock ==
    ASSUME QTypeOK, QOwned, NEW s \in Seq(Procs), QList(s), NEW p \in Procs,
           Q!qunlock(p)
    PROVE  /\ QTypeOK' /\ QOwned' /\ QList(s)'
           /\ s = << >> /\ QHolders = {p} /\ QHolders' = {}
<1>1. /\ qpc[p] = "in" /\ head = Nil /\ locked' = FALSE
      /\ qpc' = [qpc EXCEPT ![p] = "out"]
      /\ UNCHANGED <<head, tail, qnext, qstate, qhand>>
    BY DEF Q!qunlock
<1>2. QTypeOK'
    BY <1>1 DEF QTypeOK
<1>3. \A q \in Procs : QHolds(q) <=> q = p
    BY <1>1 DEF QOwned, QHolds
<1>4. qstate[p] = "Running" /\ qhand[p] = Nil /\ \A q \in Procs : qhand[q] # p
  <2>1. qstate[p] = "Running" /\ qhand[p] = Nil
      BY <1>1 DEF QOwned
  <2>2. QED  BY <2>1, ProcsAssumption DEF QOwned
<1>5. \A q \in Procs : ~QHolds(q)'
    BY <1>1, <1>3, <1>4 DEF QHolds, QTypeOK
<1>6. QOwned'
  <2>1. \A q \in Procs : (qpc[q] = "wait" <=> qstate[q] # "Running")' /\ (qpc[q] = "handing" <=> qhand[q] # Nil)'
      BY <1>1, <1>4 DEF QOwned, QTypeOK
  <2>2. QED  BY <1>1, <1>5, <2>1 DEF QOwned
<1>7. s = << >>
  <2>1. s # << >> => s[1] \in Procs
      OBVIOUS
  <2>2. QED  BY <1>1, <2>1, ProcsAssumption DEF QList, ListBy, LinkedBy
<1>8. QList(s)'
    BY <1>1, <1>7 DEF QList
<1>9. QHolders = {p} /\ QHolders' = {}
    BY <1>3, <1>5 DEF QHolders
<1>10. QED  BY <1>2, <1>6, <1>7, <1>8, <1>9

\* qunlock() passes the lock to the first in line.
LEMMA QHand ==
    ASSUME QTypeOK, QOwned, NEW s \in Seq(Procs), QList(s), NEW p \in Procs,
           Q!qunlockHand(p)
    PROVE  /\ QTypeOK' /\ QOwned' /\ QList(Tail(s))'
           /\ s # << >> /\ QHolders = {p} /\ QHolders' = {Head(s)}
<1>1. /\ qpc[p] = "in" /\ head # Nil
      /\ head' = qnext[head] /\ tail' = (IF qnext[head] = Nil THEN Nil ELSE tail)
      /\ qhand' = [qhand EXCEPT ![p] = head]
      /\ qpc' = [qpc EXCEPT ![p] = "handing"]
      /\ UNCHANGED <<locked, qnext, qstate>>
    BY DEF Q!qunlockHand
<1>2. s # << >> /\ head = s[1] /\ 1 \in 1 .. Len(s) /\ head \in Procs /\ Head(s) = head
  <2>1. s # << >> /\ head = s[1]
      BY <1>1 DEF QList, ListBy, LinkedBy
  <2>2. QED  BY <2>1
<1>3. qstate[head] = "Queueing" /\ ~QHolds(head)
    BY <1>2 DEF QList
<1>4. \A q \in Procs : QHolds(q) <=> q = p
    BY <1>1 DEF QOwned, QHolds
<1>5. qstate[p] = "Running" /\ \A q \in Procs : qhand[q] = Nil
  <2>1. qstate[p] = "Running"
      BY <1>1 DEF QOwned
  <2>2. ASSUME NEW q \in Procs, qhand[q] # Nil PROVE FALSE
    <3>1. qhand[q] \in Procs /\ QHolds(qhand[q]) /\ qstate[qhand[q]] = "Queueing"
        BY <2>2 DEF QTypeOK, QHolds, QOwned
    <3>2. QED  BY <1>4, <2>1, <3>1
  <2>3. QED  BY <2>1, <2>2
<1>6. QTypeOK'
    BY <1>1, <1>2 DEF QTypeOK
<1>7. \A q \in Procs : qhand'[q] = IF q = p THEN head ELSE Nil
    BY <1>1, <1>5 DEF QTypeOK
<1>8. \A q \in Procs : QHolds(q)' <=> q = head
  <2>1. \A q \in Procs : qpc'[q] # "in" /\ qstate'[q] # "Ready"
      BY <1>1, <1>4, <1>5 DEF QHolds, QTypeOK
  <2>2. QED  BY <1>2, <1>7, <2>1, ProcsAssumption DEF QHolds
<1>9. QOwned'
  <2>1. \A q \in Procs : (qpc[q] = "wait" <=> qstate[q] # "Running")' /\ (qpc[q] = "handing" <=> qhand[q] # Nil)'
      BY <1>1, <1>5, <1>7 DEF QOwned, QTypeOK
  <2>2. \A q \in Procs : (qhand[q] # Nil => qstate[qhand[q]] = "Queueing")'
      BY <1>1, <1>3, <1>7
  <2>3. \A q, r \in Procs : (qhand[q] # Nil /\ qhand[q] = qhand[r] => q = r)'
      BY <1>7
  <2>4. (locked <=> \E q \in Procs : QHolds(q))'
      BY <1>1, <1>2, <1>4, <1>8 DEF QOwned
  <2>5. QED  BY <1>8, <2>1, <2>2, <2>3, <2>4 DEF QOwned
<1>10. QList(Tail(s))'
  <2>1. ListBy(head, tail, qnext, Tail(s))'
    <3>1. ListBy(qnext[head], IF qnext[head] = Nil THEN Nil ELSE tail, qnext, Tail(s))
        BY <1>2, ListTail DEF QList
    <3>2. ListBy(head', tail', qnext', Tail(s))
        BY <1>1, <3>1, Zenon
    <3>3. QED  BY <3>2, Zenon DEF ListBy, LinkedBy
  <2>2. ASSUME NEW i \in 1 .. Len(Tail(s))
        PROVE  (qstate[Tail(s)[i]] = "Queueing" /\ ~QHolds(Tail(s)[i]))'
    <3>1. Tail(s)[i] = s[i + 1] /\ i + 1 \in 1 .. Len(s) /\ i + 1 # 1
        BY <1>2
    <3>2. s[i + 1] \in Procs /\ s[i + 1] # s[1] /\ qstate[s[i + 1]] = "Queueing"
        BY <1>2, <3>1 DEF QList, ListBy
    <3>3. QED  BY <1>1, <1>2, <1>8, <3>1, <3>2
  <2>3. QED  BY <2>1, <2>2 DEF QList
<1>11. QHolders = {p} /\ QHolders' = {Head(s)}
    BY <1>2, <1>4, <1>8 DEF QHolders
<1>12. QED  BY <1>2, <1>6, <1>9, <1>10, <1>11

\* The new owner is made ready, and runs.
LEMMA QResume ==
    ASSUME QTypeOK, QOwned, NEW s \in Seq(Procs), QList(s), NEW p \in Procs,
           Q!qunlockReady(p) \/ Q!Resume(p)
    PROVE  /\ QTypeOK' /\ QOwned' /\ QList(s)' /\ QHolders' = QHolders
<1>1. UNCHANGED <<locked, head, tail, qnext>>
    BY DEF Q!qunlockReady, Q!Resume
<1>2. CASE Q!qunlockReady(p)
  <2>1. /\ qpc[p] = "handing"
        /\ qstate' = [qstate EXCEPT ![qhand[p]] = "Ready"]
        /\ qhand' = [qhand EXCEPT ![p] = Nil]
        /\ qpc' = [qpc EXCEPT ![p] = "out"]
      BY <1>2 DEF Q!qunlockReady
  <2>2. PICK h \in Procs : h = qhand[p]
      BY <2>1 DEF QTypeOK, QOwned
  <2>3. /\ qstate[h] = "Queueing" /\ qpc[h] = "wait" /\ qstate[p] = "Running" /\ h # p
        /\ \A q \in Procs : qhand[q] = h => q = p
        /\ \A q \in Procs : QHolds(q) <=> q = h
    <3>1. qstate[h] = "Queueing" /\ qpc[h] = "wait" /\ qstate[p] = "Running"
        BY <2>1, <2>2, ProcsAssumption DEF QOwned
    <3>2. QHolds(h)
        BY <2>2 DEF QHolds
    <3>3. QED  BY <2>2, <3>1, <3>2, ProcsAssumption DEF QOwned
  <2>4. QTypeOK'
      BY <1>1, <2>1, <2>2 DEF QTypeOK
  <2>5. \A q \in Procs : qhand'[q] = Nil
    <3>1. \A q \in Procs : qhand[q] = Nil \/ qhand[q] = h
        BY <2>3 DEF QTypeOK, QHolds
    <3>2. QED  BY <2>1, <2>3, <3>1 DEF QTypeOK
  <2>6. \A q \in Procs : QHolds(q)' <=> q = h
    <3>1. \A q \in Procs : qpc'[q] # "in" /\ (qstate'[q] = "Ready" <=> q = h)
        BY <2>1, <2>2, <2>3 DEF QHolds, QTypeOK
    <3>2. QED  BY <2>5, <3>1, ProcsAssumption DEF QHolds
  <2>7. QOwned'
    <3>1. \A q \in Procs : (qpc[q] = "wait" <=> qstate[q] # "Running")'
        BY <2>1, <2>2, <2>3 DEF QOwned, QTypeOK
    <3>2. \A q \in Procs : qpc'[q] # "handing"
      <4>1. \A q \in Procs : qpc[q] = "handing" => q = p
          BY <2>2, <2>3 DEF QOwned, QHolds, QTypeOK
      <4>2. QED  BY <2>1, <4>1 DEF QTypeOK
    <3>3. (locked <=> \E q \in Procs : QHolds(q))'
        BY <1>1, <2>3, <2>6 DEF QOwned
    <3>4. QED  BY <2>5, <2>6, <3>1, <3>2, <3>3 DEF QOwned
  <2>8. QList(s)'
    <3>1. \A i \in 1 .. Len(s) : s[i] \in Procs /\ s[i] # h /\ qstate[s[i]] = "Queueing"
        BY <2>3 DEF QList
    <3>2. \A i \in 1 .. Len(s) : qstate'[s[i]] = "Queueing" /\ ~QHolds(s[i])'
        BY <2>1, <2>2, <2>6, <3>1 DEF QTypeOK
    <3>3. QED  BY <1>1, <3>2 DEF QList
  <2>9. QHolders' = QHolders
      BY <2>3, <2>6 DEF QHolders
  <2>10. QED  BY <2>4, <2>7, <2>8, <2>9
<1>3. CASE Q!Resume(p)
  <2>1. /\ qstate[p] = "Ready" /\ qhand' = qhand
        /\ qstate' = [qstate EXCEPT ![p] = "Running"]
        /\ qpc' = [qpc EXCEPT ![p] = "in"]
      BY <1>3 DEF Q!Resume
  <2>2. /\ qpc[p] = "wait"
        /\ \A q \in Procs : QHolds(q) <=> q = p
      BY <2>1 DEF QOwned, QHolds
  <2>3. \A q \in Procs : qhand[q] = Nil /\ qpc[q] # "handing"
    <3>1. \A q \in Procs : qhand[q] # p
        BY <2>1, ProcsAssumption DEF QOwned
    <3>2. QED  BY <2>2, <3>1 DEF QOwned, QHolds, QTypeOK
  <2>4. QTypeOK'
      BY <1>1, <2>1 DEF QTypeOK
  <2>5. \A q \in Procs : QHolds(q)' <=> q = p
    <3>1. \A q \in Procs : (qpc'[q] = "in" <=> q = p) /\ qstate'[q] # "Ready"
        BY <2>1, <2>2 DEF QHolds, QTypeOK
    <3>2. QED  BY <2>1, <2>3, <3>1, ProcsAssumption DEF QHolds
  <2>6. QOwned'
    <3>1. \A q \in Procs : (qpc[q] = "wait" <=> qstate[q] # "Running")'
        BY <2>1 DEF QOwned, QTypeOK
    <3>2. \A q \in Procs : qpc'[q] # "handing"
        BY <2>1, <2>3 DEF QTypeOK
    <3>3. (locked <=> \E q \in Procs : QHolds(q))'
        BY <1>1, <2>2, <2>5 DEF QOwned
    <3>4. QED  BY <2>1, <2>3, <2>5, <3>1, <3>2, <3>3 DEF QOwned
  <2>7. QList(s)'
    <3>1. \A i \in 1 .. Len(s) : s[i] \in Procs /\ s[i] # p /\ qstate[s[i]] = "Queueing"
        BY <2>2 DEF QList
    <3>2. \A i \in 1 .. Len(s) : qstate'[s[i]] = "Queueing" /\ ~QHolds(s[i])'
        BY <2>1, <2>5, <3>1 DEF QTypeOK
    <3>3. QED  BY <1>1, <3>2 DEF QList
  <2>8. QHolders' = QHolders
      BY <2>2, <2>5 DEF QHolders
  <2>9. QED  BY <2>4, <2>6, <2>7, <2>8
<1>4. QED  BY <1>2, <1>3

\* At first nobody has the lock or waits for it.
LEMMA QInvInit == Q!Init => QInv /\ QHolders = {} /\ QList(<< >>)
<1> SUFFICES ASSUME Q!Init PROVE QInv /\ QHolders = {} /\ QList(<< >>)
    OBVIOUS
<1>1. \A p \in Procs : ~QHolds(p) /\ qhand[p] = Nil /\ qpc[p] = "out" /\ qstate[p] = "Running"
    BY ProcsAssumption DEF Q!Init, QHolds
<1>2. QTypeOK
    BY DEF Q!Init, QTypeOK
<1>3. QOwned
    BY <1>1 DEF Q!Init, QOwned
<1>4. << >> \in Seq(Procs) /\ Len(<< >>) = 0
    OBVIOUS
<1>5. ListBy(head, tail, qnext, << >>)
    BY <1>4 DEF Q!Init, ListBy, LinkedBy
<1>6. QList(<< >>)
    BY <1>4, <1>5 DEF QList
<1>7. QHolders = {}
    BY <1>1 DEF QHolders
<1>8. QED  BY <1>2, <1>3, <1>4, <1>6, <1>7 DEF QInv

----------------------------------------------------------------------------
(* The QLock implements the FIFO lock.                                     *)

OwnerOf(O) == IF O = {} THEN Nil ELSE CHOOSE p \in O : TRUE

\* A single holder is the owner.
LEMMA OwnerOfIs == OwnerOf({}) = Nil /\ \A x : OwnerOf({x}) = x
BY DEF OwnerOf

\* The owner and the line, as functions of the holders and of the links.
LEMMA QOwnerIs == Q!Owner = OwnerOf(QHolders)
BY Zenon DEF Q!Owner, OwnerOf, QHolders, QHolds

LEMMA QLineIs == Q!Line = ListOf(head, qnext)
BY Zenon DEF Q!Line, Q!Linked, ListOf, LinkedBy

\* One step of the QLock is one of the FIFO lock, or changes neither its owner
\* nor its line.
LEMMA QStep ==
    ASSUME QInv, [Q!Next]_Q!vars
    PROVE  QInv' /\ [Q!Fifo!Next]_<<Q!Owner, Q!Line>>
<1>0. Q!Owner' = OwnerOf(QHolders') /\ Q!Line' = ListOf(head', qnext')
  <2>1. (Q!Owner = OwnerOf(QHolders))' /\ (Q!Line = ListOf(head, qnext))'
      BY QOwnerIs, QLineIs, PTL
  <2>2. QED  BY <2>1, Zenon DEF OwnerOf, ListOf, LinkedBy
<1>1. QTypeOK /\ QOwned
    BY DEF QInv
<1>2. PICK s \in Seq(Procs) : QList(s)
    BY DEF QInv
<1>3. Q!Line = s
    BY <1>2, QLineIs, ListOfIs DEF QList
<1>4. \A u \in Seq(Procs) : QList(u)' => Q!Line' = u
  <2> SUFFICES ASSUME NEW u \in Seq(Procs), QList(u)' PROVE Q!Line' = u
      OBVIOUS
  <2>1. ListBy(head', tail', qnext', u)
      BY DEF QList, ListBy, LinkedBy
  <2>2. QED  BY <1>0, <2>1, ListOfIs
<1>5. ASSUME NEW p \in Procs, Q!qlockGrant(p) \/ Q!canqlock(p)
      PROVE  QInv' /\ Q!Fifo!Next
  <2>1. /\ QTypeOK' /\ QOwned' /\ QList(s)' /\ QHolders = {} /\ QHolders' = {p}
      BY <1>1, <1>2, <1>5, QAcquire
  <2>2. Q!Fifo!Acquire(p)
      BY <1>0, <1>3, <1>4, <2>1, QOwnerIs, OwnerOfIs DEF Q!Fifo!Acquire
  <2>3. QED  BY <2>1, <2>2 DEF QInv, Q!Fifo!Next
<1>6. ASSUME NEW p \in Procs, Q!qlockWait(p)
      PROVE  QInv' /\ Q!Fifo!Next
  <2>1. /\ QTypeOK' /\ QOwned' /\ QList(Append(s, p))' /\ QHolders' = QHolders
        /\ \A i \in 1 .. Len(s) : s[i] # p
      BY <1>1, <1>2, <1>6, QWait
  <2>2. PICK x \in Procs : x # p /\ QHolders = {x}
      BY <1>1, <1>2, <1>6, QWait
  <2>3. Q!Owner = x /\ Q!Owner' = x
      BY <1>0, <2>1, <2>2, QOwnerIs, OwnerOfIs
  <2>4. Append(s, p) \in Seq(Procs) /\ DOMAIN s = 1 .. Len(s) /\ x # Nil
      BY ProcsAssumption
  <2>5. Q!Line' = Append(s, p)
      BY <1>4, <2>1, <2>4
  <2>6. Q!Fifo!Wait(p)
      BY <1>3, <2>1, <2>2, <2>3, <2>4, <2>5 DEF Q!Fifo!Wait
  <2>7. QED  BY <2>1, <2>4, <2>6 DEF QInv, Q!Fifo!Next
<1>7. ASSUME NEW p \in Procs, Q!qunlock(p)
      PROVE  QInv' /\ Q!Fifo!Next
  <2>1. /\ QTypeOK' /\ QOwned' /\ QList(s)'
        /\ s = << >> /\ QHolders = {p} /\ QHolders' = {}
      BY <1>1, <1>2, <1>7, QUnlock
  <2>2. Q!Owner = p /\ Q!Owner' = Nil /\ Q!Line' = s
      BY <1>0, <1>4, <2>1, QOwnerIs, OwnerOfIs
  <2>3. Q!Fifo!Release(p)
      BY <1>3, <2>1, <2>2 DEF Q!Fifo!Release
  <2>4. QED  BY <2>1, <2>3 DEF QInv, Q!Fifo!Next
<1>8. ASSUME NEW p \in Procs, Q!qunlockHand(p)
      PROVE  QInv' /\ Q!Fifo!Next
  <2>1. /\ QTypeOK' /\ QOwned' /\ QList(Tail(s))'
        /\ s # << >> /\ QHolders = {p} /\ QHolders' = {Head(s)}
      BY <1>1, <1>2, <1>8, QHand
  <2>2. Tail(s) \in Seq(Procs)
      BY <2>1
  <2>3. Q!Owner = p /\ Q!Owner' = Head(s) /\ Q!Line' = Tail(s)
      BY <1>0, <1>4, <2>1, <2>2, QOwnerIs, OwnerOfIs
  <2>4. Q!Fifo!Release(p)
      BY <1>3, <2>1, <2>3 DEF Q!Fifo!Release
  <2>5. QED  BY <2>1, <2>2, <2>4 DEF QInv, Q!Fifo!Next
<1>9. ASSUME NEW p \in Procs, Q!qunlockReady(p) \/ Q!Resume(p)
      PROVE  QInv' /\ UNCHANGED <<Q!Owner, Q!Line>>
  <2>1. QTypeOK' /\ QOwned' /\ QList(s)' /\ QHolders' = QHolders
      BY <1>1, <1>2, <1>9, QResume
  <2>2. Q!Owner' = Q!Owner /\ Q!Line' = Q!Line
      BY <1>0, <1>3, <1>4, <2>1, QOwnerIs
  <2>3. QED  BY <2>1, <2>2 DEF QInv
<1>10. CASE UNCHANGED Q!vars
  <2>1. UNCHANGED <<locked, head, tail, qnext, qstate, qpc, qhand>>
      BY <1>10 DEF Q!vars
  <2>2. QTypeOK' /\ QOwned' /\ QList(s)' /\ QHolders' = QHolders
      BY <1>1, <1>2, <2>1 DEF QTypeOK, QOwned, QHolds, QHolders, QList
  <2>3. Q!Owner' = Q!Owner /\ Q!Line' = Q!Line
      BY <1>0, <1>3, <1>4, <2>2, QOwnerIs
  <2>4. QED  BY <2>2, <2>3 DEF QInv
<1>11. QED
    BY <1>5, <1>6, <1>7, <1>8, <1>9, <1>10 DEF Q!Next, Q!Unlock

\* At first the FIFO lock is free.
LEMMA QFifoInit == Q!Init => Q!Fifo!Init
<1> SUFFICES ASSUME Q!Init PROVE Q!Fifo!Init
    OBVIOUS
<1>1. QHolders = {} /\ QList(<< >>)
    BY QInvInit
<1>2. << >> \in Seq(Procs)
    OBVIOUS
<1>3. Q!Line = << >>
    BY <1>1, <1>2, QLineIs, ListOfIs DEF QList
<1>4. QED  BY <1>1, <1>3, QOwnerIs, OwnerOfIs DEF Q!Fifo!Init

\* The pointers of qlock() and qunlock() implement the FIFO lock: arrivals are
\* served in order and the lock is never free with somebody in line.
THEOREM QLockIsFifo == Q!Spec => FifoSpec
<1>1. Q!Init => QInv /\ Q!Fifo!Init
    BY QInvInit, QFifoInit
<1>2. QInv /\ [Q!Next]_Q!vars => QInv' /\ [Q!Fifo!Next]_<<Q!Owner, Q!Line>>
    BY QStep
<1>3. QED
    BY <1>1, <1>2, PTL DEF Q!Spec, FifoSpec, Q!FifoSpec, Q!Fifo!Spec
============================================================================
