--------------------------- MODULE SchedulerProofs --------------------------
(***************************************************************************)
(* Proofs, for any number of processes, processors, colours and            *)
(* priorities, of the safety properties of Scheduler.                      *)
(***************************************************************************)
EXTENDS Scheduler, SequenceTheorems, TLAPS

\* Process p waits in the queue of priority i of Sched s.
In(p, s, i) == p \in ToSet(runq[s][i])

\* rebalance() has taken p out of one queue to put it into another.
Moving(p) == cpc[Cpu0] = "rebalance" /\ pick[Cpu0] = p

\* Sched s is one that serves process p, unless others have wired p since it
\* became Ready.
Fits(p, s) == p \in rewired \/ \E c \in Cpus : sch[c] = s /\ mp[p] \in {Nil, c}

OnStack == {"up", "schedinit", "leave", "rebalance"}

(***************************************************************************)
(* The inductive invariant, in parts.  A processor outside the scheduler   *)
(* has a process, and it is the processor that process is on.              *)
(***************************************************************************)
Stacks ==
    /\ \A c \in Cpus :
          /\ cpc[c] \in OnStack <=> proc[c] # Nil
          /\ proc[c] # Nil => mach[proc[c]] = c
          /\ cpc[c] \in {"up", "rebalance"} => state[proc[c]] = "Running"
          /\ cpc[c] = "leave" => state[proc[c]] # "Running"
          /\ cpc[c] = "rebalance" => c = Cpu0
    /\ \A p \in Procs :
          /\ mach[p] # Nil => proc[mach[p]] = p
          /\ state[p] = "Running" => mach[p] # Nil
          /\ state[p] = "Scheding" => mach[p] = Nil

\* What the scheduler has in its hands: a process between runproc() and
\* sched() belongs to one processor, and one that rebalance() moves is Ready.
Hands ==
    /\ \A c \in Cpus :
          /\ cpc[c] \in {"found", "sched", "rebalance"} => pick[c] \in Procs /\ pickq[c] \in Pris
          /\ cpc[c] = "sched" => state[pick[c]] = "Scheding"
          /\ \A d \in Cpus : cpc[c] = "sched" /\ cpc[d] = "sched" /\ pick[c] = pick[d] => c = d
    /\ \A p \in Procs : Moving(p) => state[p] = "Ready" /\ Fits(p, sch[Cpu0])

\* A wired process goes back to its processor: its mp is where it is wired,
\* except that runproc() sets mp before sched() looks at the wiring.
Wires ==
    /\ \A p \in Procs : state[p] # "Scheding" => wired[p] \in {Nil, mp[p]}
    /\ \A c \in Cpus : cpc[c] = "sched" =>
          mp[pick[c]] = c \/ wired[pick[c]] \in {Nil, mp[pick[c]]}

\* The queues: who is in them, once, and runvec.
Waiting ==
    /\ \A p \in Procs, s \in Scheds, i \in Pris : In(p, s, i) =>
          /\ state[p] = "Ready" /\ ~Moving(p) /\ priority[p] = i
          /\ Fits(p, s)
          /\ \A r \in Scheds, j \in Pris : In(p, r, j) => r = s /\ j = i
    /\ \A p \in Procs : state[p] = "Ready" /\ ~Moving(p) =>
          \E s \in Scheds, i \in Pris : In(p, s, i)

Once ==
    \A s \in Scheds, i \in Pris : \A a, b \in 1 .. Len(runq[s][i]) :
       runq[s][i][a] = runq[s][i][b] => a = b

Vectors == \A s \in Scheds : runvec[s] = {i \in Pris : runq[s][i] # << >>}

IInv == TypeOK /\ Stacks /\ Hands /\ Wires /\ Waiting /\ Once /\ Vectors

USE SchedulerAssumption DEF Goto

----------------------------------------------------------------------------
(* What the operations on the queues do.                                   *)

\* Unlinking the entry at place a.
LEMMA Unlinked ==
    ASSUME NEW S, NEW q \in Seq(S), NEW a \in 1 .. Len(q)
    PROVE  /\ RemoveAt(q, a) \in Seq(S)
           /\ Len(q) \in Nat /\ Len(RemoveAt(q, a)) = Len(q) - 1
           /\ \A j \in 1 .. Len(q) - 1 :
                 RemoveAt(q, a)[j] = (IF j < a THEN q[j] ELSE q[j + 1])
<1> DEFINE f == SubSeq(q, 1, a - 1)
           g == SubSeq(q, a + 1, Len(q))
<1>1. /\ f \in Seq(S) /\ Len(f) = a - 1
      /\ \A j \in 1 .. a - 1 : f[j] = q[j]
    OBVIOUS
<1>2. /\ g \in Seq(S) /\ Len(g) = Len(q) - a
      /\ \A j \in 1 .. Len(q) - a : g[j] = q[j + a]
    OBVIOUS
<1>3. RemoveAt(q, a) = f \o g
    BY DEF RemoveAt
<1> HIDE DEF f, g
<1>4. /\ f \o g \in Seq(S) /\ Len(f \o g) = Len(f) + Len(g)
      /\ \A j \in 1 .. Len(f) + Len(g) :
            (f \o g)[j] = IF j <= Len(f) THEN f[j] ELSE g[j - Len(f)]
    BY <1>1, <1>2, ConcatProperties
<1>5. Len(q) \in Nat /\ Len(f) + Len(g) = Len(q) - 1
    BY <1>1, <1>2
<1>6. ASSUME NEW j \in 1 .. Len(q) - 1
      PROVE  (f \o g)[j] = (IF j < a THEN q[j] ELSE q[j + 1])
  <2>1. CASE j < a
      BY <1>1, <1>4, <1>5, <2>1
  <2>2. CASE ~(j < a)
    <3>1. j - Len(f) \in 1 .. Len(q) - a /\ j - Len(f) + a = j + 1 /\ ~(j <= Len(f))
        BY <1>1, <1>5, <2>2
    <3>2. QED  BY <1>2, <1>4, <1>5, <2>2, <3>1
  <2>3. QED  BY <2>1, <2>2
<1>7. QED  BY <1>3, <1>4, <1>5, <1>6

\* A sequence of different elements without its element at place a.
LEMMA Without ==
    ASSUME NEW S, NEW q \in Seq(S), NEW a \in 1 .. Len(q),
           \A j, k \in 1 .. Len(q) : q[j] = q[k] => j = k
    PROVE  /\ RemoveAt(q, a) \in Seq(S)
           /\ ToSet(RemoveAt(q, a)) = ToSet(q) \ {q[a]}
           /\ \A j, k \in 1 .. Len(RemoveAt(q, a)) :
                 RemoveAt(q, a)[j] = RemoveAt(q, a)[k] => j = k
<1> DEFINE w == RemoveAt(q, a)
<1>1. /\ w \in Seq(S) /\ Len(q) \in Nat /\ Len(w) = Len(q) - 1
      /\ \A j \in 1 .. Len(q) - 1 : w[j] = (IF j < a THEN q[j] ELSE q[j + 1])
    BY Unlinked
<1> HIDE DEF w
<1>2. DOMAIN w = 1 .. Len(q) - 1 /\ DOMAIN q = 1 .. Len(q)
    BY <1>1
<1>3. ASSUME NEW j \in 1 .. Len(q) - 1 PROVE w[j] \in ToSet(q) \ {q[a]}
  <2>1. PICK k \in 1 .. Len(q) : k = (IF j < a THEN j ELSE j + 1)
      BY <1>1
  <2>2. k # a /\ w[j] = q[k]
      BY <1>1, <2>1
  <2>3. QED  BY <1>2, <2>2 DEF ToSet
<1>4. ASSUME NEW k \in 1 .. Len(q), k # a PROVE q[k] \in ToSet(w)
  <2>1. PICK j \in 1 .. Len(q) - 1 : j = (IF k < a THEN k ELSE k - 1)
      BY <1>1, <1>4
  <2>2. w[j] = q[k]
    <3>1. CASE k < a
        BY <3>1, <1>1, <2>1
    <3>2. CASE ~(k < a)
      <4>1. j + 1 = k /\ ~(j < a)
          BY <3>2, <1>1, <1>4, <2>1
      <4>2. QED  BY <4>1, <1>1
    <3>3. QED  BY <3>1, <3>2
  <2>3. QED  BY <1>2, <2>2 DEF ToSet
<1>5. ToSet(w) = ToSet(q) \ {q[a]}
  <2>1. ASSUME NEW x \in ToSet(w) PROVE x \in ToSet(q) \ {q[a]}
      BY <1>2, <1>3 DEF ToSet
  <2>2. ASSUME NEW x \in ToSet(q), x # q[a] PROVE x \in ToSet(w)
    <3>1. PICK k \in 1 .. Len(q) : x = q[k]
        BY <1>2 DEF ToSet
    <3>2. QED  BY <2>2, <3>1, <1>4
  <2>3. QED  BY <2>1, <2>2
<1>6. ASSUME NEW j \in 1 .. Len(w), NEW k \in 1 .. Len(w), w[j] = w[k] PROVE j = k
  <2>1. PICK x \in 1 .. Len(q) : x = (IF j < a THEN j ELSE j + 1)
      BY <1>1
  <2>2. PICK y \in 1 .. Len(q) : y = (IF k < a THEN k ELSE k + 1)
      BY <1>1
  <2>3. w[j] = q[x] /\ w[k] = q[y]
      BY <1>1, <2>1, <2>2
  <2>4. x = y
      BY <1>6, <2>3
  <2>5. QED  BY <1>1, <2>1, <2>2, <2>4
<1>7. QED  BY <1>1, <1>5, <1>6 DEF w

\* A sequence with one more element.
LEMMA With ==
    ASSUME NEW S, NEW q \in Seq(S), NEW p \in S, p \notin ToSet(q),
           \A j, k \in 1 .. Len(q) : q[j] = q[k] => j = k
    PROVE  /\ Append(q, p) \in Seq(S) /\ Append(q, p) # << >>
           /\ ToSet(Append(q, p)) = ToSet(q) \union {p}
           /\ \A j, k \in 1 .. Len(Append(q, p)) :
                 Append(q, p)[j] = Append(q, p)[k] => j = k
<1> DEFINE w == Append(q, p)
<1>1. /\ w \in Seq(S) /\ w # << >> /\ Len(q) \in Nat /\ Len(w) = Len(q) + 1
      /\ \A j \in 1 .. Len(q) : w[j] = q[j]
      /\ w[Len(q) + 1] = p
    OBVIOUS
<1> HIDE DEF w
<1>2. DOMAIN w = 1 .. Len(q) + 1 /\ DOMAIN q = 1 .. Len(q)
    BY <1>1
<1>3. \A j \in 1 .. Len(q) + 1 : j \in 1 .. Len(q) \/ j = Len(q) + 1
    BY <1>1
<1>4. \A j \in 1 .. Len(q) : j \in 1 .. Len(q) + 1
    BY <1>1
<1>5. Len(q) + 1 \in 1 .. Len(q) + 1
    BY <1>1
<1>6. ToSet(w) = ToSet(q) \union {p}
    BY <1>1, <1>2, <1>3, <1>4, <1>5 DEF ToSet
<1>7. ASSUME NEW j \in 1 .. Len(w), NEW k \in 1 .. Len(w), w[j] = w[k] PROVE j = k
  <2>1. \A i \in 1 .. Len(q) : w[i] \in ToSet(q)
      BY <1>1, <1>2 DEF ToSet
  <2>2. QED  BY <1>1, <1>3, <1>7, <2>1
<1>8. QED  BY <1>1, <1>6, <1>7 DEF w

\* A run queue is a sequence of processes.
LEMMA QueueType ==
    ASSUME TypeOK, NEW s \in Scheds, NEW i \in Pris
    PROVE  runq[s][i] \in Seq(Procs)
<1>1. runq \in [Scheds -> [Pris -> Seq(Procs)]]
    BY Zenon DEF TypeOK
<1>2. runq[s] \in [Pris -> Seq(Procs)]
    BY <1>1, Zenon
<1>3. QED  BY <1>2, Zenon

\* queueproc(): p waits in one more queue.
LEMMA Enqueued ==
    ASSUME TypeOK, Once, Vectors, NEW s \in Scheds, NEW i \in Pris, NEW p \in Procs,
           ~In(p, s, i), queueproc(s, i, p)
    PROVE  /\ runq' \in [Scheds -> [Pris -> Seq(Procs)]]
           /\ runvec' \in [Scheds -> SUBSET Pris] /\ priority' \in [Procs -> Pris]
           /\ Once' /\ Vectors'
           /\ \A q \in Procs, r \in Scheds, j \in Pris :
                 In(q, r, j)' <=> In(q, r, j) \/ (q = p /\ r = s /\ j = i)
           /\ priority'[p] = i /\ \A q \in Procs : q # p => priority'[q] = priority[q]
<1>1. PICK Q \in Seq(Procs) : Q = runq[s][i]
    BY QueueType, Zenon
<1>2. \A j, k \in 1 .. Len(Q) : Q[j] = Q[k] => j = k
    BY <1>1 DEF Once
<1>3. /\ Append(Q, p) \in Seq(Procs) /\ Append(Q, p) # << >>
      /\ ToSet(Append(Q, p)) = ToSet(Q) \union {p}
      /\ \A j, k \in 1 .. Len(Append(Q, p)) : Append(Q, p)[j] = Append(Q, p)[k] => j = k
    BY <1>1, <1>2, With, SMTT(40) DEF In
<1>4. PICK R : R = Append(Q, p)
    OBVIOUS
<1>5. /\ runq' = [runq EXCEPT ![s] = [runq[s] EXCEPT ![i] = R]]
      /\ runvec' = [runvec EXCEPT ![s] = runvec[s] \union {i}]
      /\ priority' = [priority EXCEPT ![p] = i]
    BY <1>1, <1>4 DEF queueproc
<1>6. /\ runq' \in [Scheds -> [Pris -> Seq(Procs)]]
      /\ runvec' \in [Scheds -> SUBSET Pris] /\ priority' \in [Procs -> Pris]
      /\ priority'[p] = i /\ \A q \in Procs : q # p => priority'[q] = priority[q]
      /\ runq'[s][i] = R
      /\ \A r \in Scheds, j \in Pris : r # s \/ j # i => runq'[r][j] = runq[r][j]
      /\ runvec'[s] = runvec[s] \union {i} /\ \A r \in Scheds : r # s => runvec'[r] = runvec[r]
    BY <1>3, <1>4, <1>5 DEF TypeOK
<1>7. Once'
  <2> SUFFICES ASSUME NEW r \in Scheds, NEW j \in Pris
               PROVE  \A a, b \in 1 .. Len(runq'[r][j]) : runq'[r][j][a] = runq'[r][j][b] => a = b
      BY DEF Once
  <2>1. CASE r = s /\ j = i
      BY <2>1, <1>3, <1>4, <1>6
  <2>2. CASE r # s \/ j # i
    <3>1. runq'[r][j] = runq[r][j]
        BY <2>2, <1>6
    <3>2. QED  BY <3>1 DEF Once
  <2>3. QED  BY <2>1, <2>2
<1>8. Vectors'
  <2> SUFFICES ASSUME NEW r \in Scheds PROVE runvec'[r] = {j \in Pris : runq'[r][j] # << >>}
      BY DEF Vectors
  <2>1. CASE r # s
    <3>1. runvec'[r] = runvec[r] /\ \A j \in Pris : runq'[r][j] = runq[r][j]
        BY <2>1, <1>6
    <3>2. QED  BY <3>1 DEF Vectors
  <2>2. CASE r = s
    <3>1. runvec[s] = {j \in Pris : runq[s][j] # << >>} /\ R # << >>
        BY <1>3, <1>4 DEF Vectors
    <3>2. QED  BY <2>2, <3>1, <1>6, ZenonT(40)
  <2>3. QED  BY <2>1, <2>2
<1>9. ASSUME NEW q \in Procs, NEW r \in Scheds, NEW j \in Pris
      PROVE  In(q, r, j)' <=> In(q, r, j) \/ (q = p /\ r = s /\ j = i)
  <2>1. CASE r = s /\ j = i
    <3>1. ToSet(runq'[r][j]) = ToSet(runq[r][j]) \union {p}
        BY <2>1, <1>1, <1>3, <1>4, <1>6
    <3>2. QED  BY <2>1, <3>1 DEF In
  <2>2. CASE r # s \/ j # i
      BY <2>2, <1>6 DEF In
  <2>3. QED  BY <2>1, <2>2
<1>10. QED  BY <1>6, <1>7, <1>8, <1>9

\* dequeueproc(): p waits in one queue less.
LEMMA Dequeued ==
    ASSUME TypeOK, Once, Vectors, NEW s \in Scheds, NEW i \in Pris, NEW p \in Procs,
           dequeue(s, i, p)
    PROVE  /\ runq' \in [Scheds -> [Pris -> Seq(Procs)]]
           /\ runvec' \in [Scheds -> SUBSET Pris]
           /\ Once' /\ Vectors'
           /\ \A q \in Procs, r \in Scheds, j \in Pris :
                 In(q, r, j)' <=> In(q, r, j) /\ ~(q = p /\ r = s /\ j = i)
<1>1. PICK Q \in Seq(Procs) : Q = runq[s][i]
    BY QueueType, Zenon
<1>2. \A j, k \in 1 .. Len(Q) : Q[j] = Q[k] => j = k
    BY <1>1 DEF Once
<1>3. PICK a \in 1 .. Len(Q) : Q[a] = p /\ runq' = [runq EXCEPT ![s][i] = RemoveAt(Q, a)]
  <2>1. DOMAIN runq[s][i] = 1 .. Len(Q)
      BY <1>1
  <2>2. PICK a \in DOMAIN runq[s][i] :
           runq[s][i][a] = p /\ runq' = [runq EXCEPT ![s][i] = RemoveAt(@, a)]
      BY DEF dequeue
  <2>3. runq' = [runq EXCEPT ![s][i] = RemoveAt(Q, a)]
      BY <1>1, <2>2
  <2>4. QED  BY <1>1, <2>1, <2>2, <2>3
<1>4. PICK R : R = RemoveAt(Q, a)
    OBVIOUS
<1>5. /\ R \in Seq(Procs) /\ ToSet(R) = ToSet(Q) \ {p}
      /\ \A j, k \in 1 .. Len(R) : R[j] = R[k] => j = k
    BY <1>2, <1>3, <1>4, Without
<1>6. runq' = [runq EXCEPT ![s] = [runq[s] EXCEPT ![i] = R]]
    BY <1>3, <1>4
<1>7. /\ runq' \in [Scheds -> [Pris -> Seq(Procs)]]
      /\ runq'[s][i] = R
      /\ \A r \in Scheds, j \in Pris : r # s \/ j # i => runq'[r][j] = runq[r][j]
    BY <1>5, <1>6 DEF TypeOK
<1>8. /\ runvec' \in [Scheds -> SUBSET Pris]
      /\ runvec'[s] = (IF R = << >> THEN runvec[s] \ {i} ELSE runvec[s])
      /\ \A r \in Scheds : r # s => runvec'[r] = runvec[r]
    BY <1>7 DEF TypeOK, dequeue
<1>9. Once'
  <2> SUFFICES ASSUME NEW r \in Scheds, NEW j \in Pris
               PROVE  \A x, b \in 1 .. Len(runq'[r][j]) : runq'[r][j][x] = runq'[r][j][b] => x = b
      BY DEF Once
  <2>1. CASE r = s /\ j = i
      BY <2>1, <1>5, <1>7
  <2>2. CASE r # s \/ j # i
      BY <2>2, <1>7 DEF Once
  <2>3. QED  BY <2>1, <2>2
<1>10. Vectors'
  <2> SUFFICES ASSUME NEW r \in Scheds PROVE runvec'[r] = {j \in Pris : runq'[r][j] # << >>}
      BY DEF Vectors
  <2>1. CASE r # s
      BY <2>1, <1>7, <1>8, ZenonT(40) DEF Vectors
  <2>2. CASE r = s
    <3>1. runvec[s] = {j \in Pris : runq[s][j] # << >>} /\ Q # << >>
        BY <1>3 DEF Vectors
    <3>2. QED  BY <2>2, <3>1, <1>1, <1>7, <1>8
  <2>3. QED  BY <2>1, <2>2
<1>11. ASSUME NEW q \in Procs, NEW r \in Scheds, NEW j \in Pris
       PROVE  In(q, r, j)' <=> In(q, r, j) /\ ~(q = p /\ r = s /\ j = i)
  <2>1. CASE r = s /\ j = i
    <3>1. ToSet(runq'[r][j]) = ToSet(runq[r][j]) \ {p}
        BY <2>1, <1>1, <1>5, <1>7
    <3>2. QED  BY <2>1, <3>1 DEF In
  <2>2. CASE r # s \/ j # i
      BY <2>2, <1>7 DEF In
  <2>3. QED  BY <2>1, <2>2
<1>12. QED  BY <1>7, <1>8, <1>9, <1>10, <1>11

\* A process that stays Ready stays in a queue that serves it, or has been
\* wired by others.
LEMMA FitsKept ==
    ASSUME TypeOK, Remember, UNCHANGED sch, NEW p \in Procs, NEW s,
           state[p] = "Ready", state'[p] = "Ready", Fits(p, s)
    PROVE  Fits(p, s)'
<1>1. CASE p \in rewired \/ wired'[p] # wired[p] \/ mp'[p] # mp[p]
    BY <1>1 DEF Remember, Fits
<1>2. CASE ~(p \in rewired \/ wired'[p] # wired[p] \/ mp'[p] # mp[p])
    BY <1>2 DEF Fits
<1>3. QED  BY <1>1, <1>2

\* The queues are as they were if the processes in them are.
LEMMA WaitingKept ==
    ASSUME TypeOK, Waiting, Once, Vectors, UNCHANGED <<sch, runq, runvec>>, Remember,
           \A p \in Procs : state'[p] = "Ready" <=> state[p] = "Ready",
           \A p \in Procs : Moving(p)' <=> Moving(p),
           \A p \in Procs : state[p] = "Ready" => priority'[p] = priority[p]
    PROVE  Waiting' /\ Once' /\ Vectors'
<1>1. \A p \in Procs, s \in Scheds, i \in Pris : In(p, s, i)' <=> In(p, s, i)
    BY DEF In
<1>2. Waiting'
  <2>1. ASSUME NEW p \in Procs, NEW s \in Scheds, NEW i \in Pris, In(p, s, i)
        PROVE  /\ state'[p] = "Ready" /\ ~Moving(p)' /\ priority'[p] = i
               /\ Fits(p, s)'
               /\ \A r \in Scheds, j \in Pris : In(p, r, j)' => r = s /\ j = i
    <3>1. /\ state[p] = "Ready" /\ ~Moving(p) /\ priority[p] = i
          /\ Fits(p, s)
          /\ \A r \in Scheds, j \in Pris : In(p, r, j) => r = s /\ j = i
        BY <2>1 DEF Waiting
    <3>2. Fits(p, s)'
        BY <3>1, FitsKept
    <3>3. QED  BY <3>1, <3>2, <1>1
  <2>2. ASSUME NEW p \in Procs, state'[p] = "Ready", ~Moving(p)'
        PROVE  \E s \in Scheds, i \in Pris : In(p, s, i)'
      BY <2>2, <1>1 DEF Waiting
  <2>3. QED  BY <1>1, <2>1, <2>2 DEF Waiting
<1>3. Once' /\ Vectors'
    BY DEF Once, Vectors
<1>4. QED  BY <1>2, <1>3

\* What rebalance() moves is as it was.
LEMMA MovingKept ==
    ASSUME TypeOK, Hands, Remember, UNCHANGED sch,
           \A p \in Procs : Moving(p)' => Moving(p) /\ state'[p] = "Ready"
    PROVE  \A p \in Procs : Moving(p)' => state'[p] = "Ready" /\ Fits(p, sch[Cpu0])'
<1> SUFFICES ASSUME NEW p \in Procs, Moving(p)' PROVE state'[p] = "Ready" /\ Fits(p, sch[Cpu0])'
    OBVIOUS
<1>1. PICK s : s = sch[Cpu0] /\ s = sch'[Cpu0]
    OBVIOUS
<1>2. state[p] = "Ready" /\ state'[p] = "Ready" /\ Fits(p, s)
    BY <1>1 DEF Hands
<1>3. Fits(p, s)'
    BY <1>2, FitsKept
<1>4. QED  BY <1>1, <1>2, <1>3 DEF Fits

----------------------------------------------------------------------------
(* One lemma per action.                                                   *)

\* A processor that only looks, or only turns to the scheduler.
LEMMA LookStep ==
    ASSUME IInv, NEW c \in Cpus, NEW l \in {"schedinit", "loop", "found"},
           l = "schedinit" => cpc[c] = "up",
           l # "schedinit" => cpc[c] \in {"runproc", "loop", "found"},
           cpc' = [cpc EXCEPT ![c] = l],
           readied' \in [Cpus -> Procs \union {Nil}],
           pick' \in [Cpus -> Procs \union {Nil}], pickq' \in [Cpus -> Pris \union {Nil}],
           \A d \in Cpus : d # c => pick'[d] = pick[d] /\ pickq'[d] = pickq[d],
           l = "found" => pick'[c] \in Procs /\ pickq'[c] \in Pris,
           UNCHANGED <<sch, state, mach, mp, wired, priority, runq, runvec, proc>>, Remember
    PROVE  IInv'
<1> USE DEF IInv
<1>1. cpc'[c] = l /\ \A d \in Cpus : d # c => cpc'[d] = cpc[d]
    BY DEF TypeOK
<1>2. TypeOK'
    BY DEF TypeOK, Remember
<1>3. Stacks'
    BY <1>1 DEF Stacks, OnStack
<1>4. \A p \in Procs : Moving(p)' <=> Moving(p)
    BY <1>1 DEF Moving
<1>5. Hands'
  <2>1. \A p \in Procs : Moving(p)' => state'[p] = "Ready" /\ Fits(p, sch[Cpu0])'
      BY <1>4, MovingKept DEF Hands
  <2>2. ASSUME NEW d \in Cpus
        PROVE  /\ cpc'[d] \in {"found", "sched", "rebalance"} => pick'[d] \in Procs /\ pickq'[d] \in Pris
               /\ cpc'[d] = "sched" => state'[pick'[d]] = "Scheding"
               /\ \A b \in Cpus : cpc'[d] = "sched" /\ cpc'[b] = "sched" /\ pick'[d] = pick'[b] => d = b
    <3>1. CASE d = c
        BY <3>1, <1>1
    <3>2. CASE d # c
      <4>1. cpc'[d] = cpc[d] /\ pick'[d] = pick[d] /\ pickq'[d] = pickq[d]
          BY <3>2, <1>1
      <4>2. \A b \in Cpus : cpc'[b] = "sched" => cpc[b] = "sched" /\ pick'[b] = pick[b]
          BY <1>1
      <4>3. QED  BY <4>1, <4>2 DEF Hands
    <3>3. QED  BY <3>1, <3>2
  <2>3. QED  BY <2>1, <2>2 DEF Hands
<1>6. Wires'
    BY <1>1 DEF Wires
<1>7. QED  BY <1>2, <1>3, <1>4, <1>5, <1>6, WaitingKept

\* The process on processor c, which is Running, is in no queue and in nobody
\* else's hands.
LEMMA Up ==
    ASSUME IInv, NEW c \in Cpus, cpc[c] \in OnStack
    PROVE  /\ proc[c] \in Procs /\ mach[proc[c]] = c
           /\ \A d \in Cpus : proc[d] = proc[c] => d = c
           /\ \A d \in Cpus : cpc[d] = "sched" => pick[d] # proc[c]
<1>1. proc[c] \in Procs /\ mach[proc[c]] = c
    BY DEF IInv, TypeOK, Stacks
<1>2. \A d \in Cpus : proc[d] = proc[c] => d = c
    BY <1>1 DEF IInv, Stacks
<1>3. \A d \in Cpus : cpc[d] = "sched" => pick[d] # proc[c]
    BY <1>1 DEF IInv, Stacks, Hands, TypeOK
<1>4. QED  BY <1>1, <1>2, <1>3

LEMMA BlockStep ==
    ASSUME IInv, NEW c \in Cpus, Block(c), UNCHANGED sch, Remember
    PROVE  IInv'
<1> USE DEF IInv
<1>1. PICK p : p = proc[c]
    OBVIOUS
<1>2. /\ cpc[c] = "up" /\ cpc' = [cpc EXCEPT ![c] = "schedinit"]
      /\ state' = [state EXCEPT ![p] = "Wakeme"]
      /\ UNCHANGED <<mach, mp, wired, priority, runq, runvec, proc, readied, pick, pickq>>
    BY <1>1 DEF Block
<1>3. /\ p \in Procs /\ mach[p] = c /\ state[p] = "Running"
      /\ \A d \in Cpus : proc[d] = p => d = c
      /\ \A d \in Cpus : cpc[d] = "sched" => pick[d] # p
  <2>1. cpc[c] \in OnStack
      BY <1>2 DEF OnStack
  <2>2. QED  BY <2>1, <1>1, <1>2, Up DEF Stacks
<1>4. /\ TypeOK'
      /\ cpc'[c] = "schedinit" /\ \A d \in Cpus : d # c => cpc'[d] = cpc[d]
      /\ state'[p] = "Wakeme" /\ \A q \in Procs : q # p => state'[q] = state[q]
    BY <1>2, <1>3 DEF TypeOK, Remember
<1>5. Stacks'
  <2>1. \A d \in Cpus : d # c => proc[d] # p
      BY <1>3
  <2>2. \A d \in Cpus : proc[d] # Nil => proc[d] \in Procs
      BY DEF TypeOK
  <2>3. QED  BY <2>1, <2>2, <1>1, <1>2, <1>3, <1>4 DEF Stacks, OnStack
<1>6. \A q \in Procs : Moving(q)' <=> Moving(q)
    BY <1>2, <1>4 DEF Moving
<1>7. Hands'
  <2>1. \A q \in Procs : Moving(q)' => state'[q] = "Ready" /\ Fits(q, sch[Cpu0])'
      BY <1>2, <1>3, <1>4, <1>6, MovingKept DEF Hands
  <2>2. QED  BY <2>1, <1>2, <1>3, <1>4 DEF Hands
<1>8. Wires'
    BY <1>2, <1>3, <1>4 DEF Wires, Hands
<1>9. Waiting' /\ Once' /\ Vectors'
    BY <1>2, <1>3, <1>4, <1>6, WaitingKept
<1>10. QED  BY <1>4, <1>5, <1>7, <1>8, <1>9

LEMMA WireSelfStep ==
    ASSUME IInv, NEW c \in Cpus, NEW b \in Cpus, WireSelf(c, b), UNCHANGED sch, Remember
    PROVE  IInv'
<1> USE DEF IInv
<1>1. PICK p, l : p = proc[c] /\ l = IF b = c THEN "up" ELSE "schedinit"
    OBVIOUS
<1>2. /\ cpc[c] = "up" /\ cpc' = [cpc EXCEPT ![c] = l]
      /\ wired' = [wired EXCEPT ![p] = b] /\ mp' = [mp EXCEPT ![p] = b]
      /\ UNCHANGED <<state, mach, priority, runq, runvec, proc, readied, pick, pickq>>
    BY <1>1 DEF WireSelf
<1>3. /\ p \in Procs /\ mach[p] = c /\ state[p] = "Running"
      /\ \A d \in Cpus : cpc[d] = "sched" => pick[d] # p
  <2>1. cpc[c] \in OnStack
      BY <1>2 DEF OnStack
  <2>2. QED  BY <2>1, <1>1, <1>2, Up DEF Stacks
<1>4. /\ TypeOK' /\ l \in {"up", "schedinit"}
      /\ cpc'[c] = l /\ \A d \in Cpus : d # c => cpc'[d] = cpc[d]
      /\ wired'[p] = b /\ \A q \in Procs : q # p => wired'[q] = wired[q]
      /\ mp'[p] = b /\ \A q \in Procs : q # p => mp'[q] = mp[q]
    BY <1>1, <1>2, <1>3 DEF TypeOK, Remember
<1>5. Stacks'
    BY <1>1, <1>2, <1>3, <1>4 DEF Stacks, OnStack
<1>6. \A q \in Procs : Moving(q)' <=> Moving(q)
    BY <1>2, <1>4 DEF Moving
<1>7. Hands'
  <2>1. \A q \in Procs : Moving(q)' => state'[q] = "Ready" /\ Fits(q, sch[Cpu0])'
      BY <1>2, <1>3, <1>4, <1>6, MovingKept DEF Hands
  <2>2. \A d \in Cpus : cpc'[d] \in {"found", "sched", "rebalance"} => cpc[d] = cpc'[d]
      BY <1>4
  <2>3. QED  BY <2>1, <2>2, <1>2 DEF Hands
<1>8. Wires'
  <2>1. \A d \in Cpus : cpc[d] = "sched" =>
           /\ pick[d] \in Procs /\ mp'[pick[d]] = mp[pick[d]]
           /\ wired'[pick[d]] = wired[pick[d]]
      BY <1>3, <1>4 DEF Hands
  <2>2. QED  BY <2>1, <1>2, <1>4 DEF Wires
<1>9. Waiting' /\ Once' /\ Vectors'
    BY <1>2, <1>3, <1>4, <1>6, WaitingKept
<1>10. QED  BY <1>4, <1>5, <1>7, <1>8, <1>9

\* procwired() of another process and "wired clear": b is a processor or Nil.
LEMMA WireStep ==
    ASSUME IInv, NEW p \in Procs, NEW b \in Cpus \union {Nil},
           wired' = [wired EXCEPT ![p] = b], mp' = [mp EXCEPT ![p] = b],
           UNCHANGED <<sch, state, mach, priority, runq, runvec, proc, readied, cpc, pick, pickq>>,
           Remember
    PROVE  IInv'
<1> USE DEF IInv
<1>1. /\ TypeOK'
      /\ wired'[p] = b /\ \A q \in Procs : q # p => wired'[q] = wired[q]
      /\ mp'[p] = b /\ \A q \in Procs : q # p => mp'[q] = mp[q]
    BY DEF TypeOK, Remember
<1>2. \A q \in Procs : Moving(q)' <=> Moving(q)
    BY DEF Moving
<1>3. Stacks'
    BY DEF Stacks
<1>4. Hands'
  <2>1. \A q \in Procs : Moving(q)' => state'[q] = "Ready" /\ Fits(q, sch[Cpu0])'
      BY <1>2, MovingKept DEF Hands
  <2>2. QED  BY <2>1 DEF Hands
<1>5. Wires'
  <2>1. \A d \in Cpus : cpc[d] = "sched" => pick[d] \in Procs
      BY DEF Hands
  <2>2. \A q \in Procs : wired'[q] \in {Nil, mp'[q]} \/ (wired'[q] = wired[q] /\ mp'[q] = mp[q])
      BY <1>1
  <2>3. QED  BY <2>1, <2>2 DEF Wires
<1>6. Waiting' /\ Once' /\ Vectors'
    BY <1>2, WaitingKept
<1>7. QED  BY <1>1, <1>3, <1>4, <1>5, <1>6

\* ready(): a process that waits in no queue waits in one that a processor it
\* may run on serves.
LEMMA Readied ==
    ASSUME IInv, NEW c \in Cpus, NEW p \in Procs, NEW i \in Pris, NEW running,
           state[p] # "Ready", ready(c, p, i, running), UNCHANGED <<sch, mp>>, Remember,
           \A q \in Procs : Moving(q)' <=> Moving(q)
    PROVE  /\ readied' \in [Cpus -> Procs \union {Nil}]
           /\ state' \in [Procs -> {"Wakeme", "Ready", "Scheding", "Running"}]
           /\ runq' \in [Scheds -> [Pris -> Seq(Procs)]]
           /\ runvec' \in [Scheds -> SUBSET Pris] /\ priority' \in [Procs -> Pris]
           /\ state'[p] = "Ready" /\ \A q \in Procs : q # p => state'[q] = state[q]
           /\ Waiting' /\ Once' /\ Vectors'
<1> USE DEF IInv
<1>1. PICK d \in Cpus : d = IF mp[p] = Nil THEN c ELSE mp[p]
    BY DEF TypeOK
<1>2. PICK s \in Scheds : s = sch[d]
    BY DEF TypeOK
<1>3. queueproc(s, i, p)
    BY <1>1, <1>2 DEF ready, procsched
<1>4. /\ readied' \in [Cpus -> Procs \union {Nil}]
      /\ state' \in [Procs -> {"Wakeme", "Ready", "Scheding", "Running"}]
      /\ state'[p] = "Ready" /\ \A q \in Procs : q # p => state'[q] = state[q]
    BY DEF TypeOK, ready
<1>5. \A r \in Scheds, j \in Pris : ~In(p, r, j)
    BY DEF Waiting
<1>6. /\ runq' \in [Scheds -> [Pris -> Seq(Procs)]]
      /\ runvec' \in [Scheds -> SUBSET Pris] /\ priority' \in [Procs -> Pris]
      /\ Once' /\ Vectors'
      /\ \A q \in Procs, r \in Scheds, j \in Pris :
            In(q, r, j)' <=> In(q, r, j) \/ (q = p /\ r = s /\ j = i)
      /\ priority'[p] = i /\ \A q \in Procs : q # p => priority'[q] = priority[q]
    BY <1>3, <1>5, Enqueued
<1>7. ~Moving(p)
    BY DEF Hands
<1>8. Waiting'
  <2>1. ASSUME NEW q \in Procs, NEW r \in Scheds, NEW j \in Pris, In(q, r, j)'
        PROVE  /\ state'[q] = "Ready" /\ ~Moving(q)' /\ priority'[q] = j
               /\ Fits(q, r)'
               /\ \A t \in Scheds, k \in Pris : In(q, t, k)' => t = r /\ k = j
    <3>1. CASE q = p
      <4>1. r = s /\ j = i /\ \A t \in Scheds, k \in Pris : In(q, t, k)' => t = s /\ k = i
          BY <2>1, <3>1, <1>5, <1>6
      <4>2. Fits(p, s)'
          BY <1>1, <1>2 DEF Fits
      <4>3. QED  BY <3>1, <4>1, <4>2, <1>4, <1>6, <1>7
    <3>2. CASE q # p
      <4>1. In(q, r, j) /\ \A t \in Scheds, k \in Pris : In(q, t, k)' => In(q, t, k)
          BY <2>1, <3>2, <1>6
      <4>2. /\ state[q] = "Ready" /\ ~Moving(q) /\ priority[q] = j
            /\ Fits(q, r)
            /\ \A t \in Scheds, k \in Pris : In(q, t, k) => t = r /\ k = j
          BY <4>1 DEF Waiting
      <4>3. Fits(q, r)'
          BY <3>2, <4>2, <1>4, FitsKept
      <4>4. QED  BY <3>2, <4>1, <4>2, <4>3, <1>4, <1>6
    <3>3. QED  BY <3>1, <3>2
  <2>2. ASSUME NEW q \in Procs, state'[q] = "Ready", ~Moving(q)'
        PROVE  \E r \in Scheds, j \in Pris : In(q, r, j)'
    <3>1. CASE q = p
        BY <3>1, <1>6
    <3>2. CASE q # p
      <4>1. state[q] = "Ready" /\ ~Moving(q)
          BY <2>2, <3>2, <1>4
      <4>2. \E r \in Scheds, j \in Pris : In(q, r, j)
          BY <4>1 DEF Waiting
      <4>3. QED  BY <4>2, <1>6
    <3>3. QED  BY <3>1, <3>2
  <2>3. QED  BY <2>1, <2>2 DEF Waiting
<1>9. QED  BY <1>4, <1>6, <1>8

LEMMA SchedInitStep ==
    ASSUME IInv, NEW c \in Cpus, SchedInit(c), UNCHANGED sch, Remember
    PROVE  IInv'
<1> USE DEF IInv
<1>1. PICK p : p = proc[c]
    OBVIOUS
<1>2. /\ cpc[c] = "schedinit" /\ cpc' = [cpc EXCEPT ![c] = "leave"]
      /\ UNCHANGED <<mach, mp, wired, proc, pick, pickq>>
    BY <1>1 DEF SchedInit
<1>3. /\ p \in Procs /\ mach[p] = c
      /\ \A d \in Cpus : proc[d] = p => d = c
      /\ \A d \in Cpus : cpc[d] = "sched" => pick[d] # p
    BY <1>1, <1>2, Up DEF OnStack
<1>4. cpc'[c] = "leave" /\ \A d \in Cpus : d # c => cpc'[d] = cpc[d]
    BY <1>2 DEF TypeOK
<1>5. \A q \in Procs : Moving(q)' <=> Moving(q)
    BY <1>2, <1>4 DEF Moving
<1>6. /\ readied' \in [Cpus -> Procs \union {Nil}]
      /\ state' \in [Procs -> {"Wakeme", "Ready", "Scheding", "Running"}]
      /\ runq' \in [Scheds -> [Pris -> Seq(Procs)]]
      /\ runvec' \in [Scheds -> SUBSET Pris] /\ priority' \in [Procs -> Pris]
      /\ state'[p] # "Running" /\ (state'[p] = "Ready" \/ state'[p] = state[p])
      /\ \A q \in Procs : q # p => state'[q] = state[q]
      /\ Waiting' /\ Once' /\ Vectors'
  <2>1. CASE state[p] = "Running"
    <3>1. PICK i \in Pris : ready(c, p, i, Nil)
        BY <1>1, <2>1 DEF SchedInit
    <3>2. QED  BY <2>1, <3>1, <1>2, <1>3, <1>5, Readied
  <2>2. CASE state[p] # "Running"
    <3>1. UNCHANGED <<readied, state, runq, runvec, priority>>
        BY <1>1, <2>2 DEF SchedInit
    <3>2. QED  BY <2>2, <3>1, <1>2, <1>5, WaitingKept DEF TypeOK
  <2>3. QED  BY <2>1, <2>2
<1>7. TypeOK'
    BY <1>2, <1>6 DEF TypeOK, Remember
<1>8. Stacks'
  <2>1. \A d \in Cpus : d # c => proc[d] # p
      BY <1>3
  <2>2. \A d \in Cpus : proc[d] # Nil => proc[d] \in Procs
      BY DEF TypeOK
  <2>3. state'[p] # "Scheding"
      BY <1>3, <1>6 DEF Stacks
  <2>4. ASSUME NEW d \in Cpus
        PROVE  /\ cpc'[d] \in OnStack <=> proc'[d] # Nil
               /\ proc'[d] # Nil => mach'[proc'[d]] = d
               /\ cpc'[d] \in {"up", "rebalance"} => state'[proc'[d]] = "Running"
               /\ cpc'[d] = "leave" => state'[proc'[d]] # "Running"
               /\ cpc'[d] = "rebalance" => d = Cpu0
    <3>1. CASE d = c
        BY <3>1, <1>1, <1>2, <1>3, <1>4, <1>6 DEF Stacks, OnStack
    <3>2. CASE d # c
        BY <3>2, <2>1, <2>2, <1>2, <1>4, <1>6 DEF Stacks, OnStack
    <3>3. QED  BY <3>1, <3>2
  <2>5. \A q \in Procs : /\ mach'[q] # Nil => proc'[mach'[q]] = q
                         /\ state'[q] = "Running" => mach'[q] # Nil
                         /\ state'[q] = "Scheding" => mach'[q] = Nil
      BY <2>3, <1>2, <1>6 DEF Stacks
  <2>6. QED  BY <2>4, <2>5 DEF Stacks
<1>9. Hands'
  <2>1. \A q \in Procs : Moving(q)' => state'[q] = "Ready" /\ Fits(q, sch[Cpu0])'
      BY <1>2, <1>5, <1>6, MovingKept DEF Hands
  <2>2. \A d \in Cpus : cpc'[d] \in {"found", "sched", "rebalance"} => cpc[d] = cpc'[d]
      BY <1>4
  <2>3. QED  BY <2>1, <2>2, <1>2, <1>3, <1>6 DEF Hands
<1>10. Wires'
  <2>1. state[p] # "Scheding"
      BY <1>3 DEF Stacks
  <2>2. QED  BY <2>1, <1>2, <1>4, <1>6 DEF Wires
<1>11. QED  BY <1>6, <1>7, <1>8, <1>9, <1>10

LEMMA WakeupStep ==
    ASSUME IInv, NEW c \in Cpus, NEW p \in Procs, Wakeup(c, p), UNCHANGED sch, Remember
    PROVE  IInv'
<1> USE DEF IInv
<1>1. /\ state[p] = "Wakeme" /\ UNCHANGED <<mach, mp, wired, proc, cpc, pick, pickq>>
    BY DEF Wakeup
<1>2. PICK i \in Pris : ready(c, p, i, proc[c])
    BY DEF Wakeup
<1>3. \A q \in Procs : Moving(q)' <=> Moving(q)
    BY <1>1 DEF Moving
<1>4. /\ readied' \in [Cpus -> Procs \union {Nil}]
      /\ state' \in [Procs -> {"Wakeme", "Ready", "Scheding", "Running"}]
      /\ runq' \in [Scheds -> [Pris -> Seq(Procs)]]
      /\ runvec' \in [Scheds -> SUBSET Pris] /\ priority' \in [Procs -> Pris]
      /\ state'[p] = "Ready" /\ \A q \in Procs : q # p => state'[q] = state[q]
      /\ Waiting' /\ Once' /\ Vectors'
    BY <1>1, <1>2, <1>3, Readied
<1>5. TypeOK'
    BY <1>1, <1>4 DEF TypeOK, Remember
<1>6. Stacks'
  <2>1. \A d \in Cpus : proc[d] # Nil => proc[d] \in Procs
      BY DEF TypeOK
  <2>2. \A d \in Cpus : cpc[d] \in {"up", "rebalance"} => proc[d] \in Procs /\ proc[d] # p
      BY <2>1, <1>1 DEF Stacks, OnStack
  <2>3. \A d \in Cpus : cpc[d] = "leave" => proc[d] \in Procs
      BY <2>1 DEF Stacks, OnStack
  <2>4. \A d \in Cpus : /\ cpc'[d] \in {"up", "rebalance"} => state'[proc'[d]] = "Running"
                        /\ cpc'[d] = "leave" => state'[proc'[d]] # "Running"
      BY <2>2, <2>3, <1>1, <1>4 DEF Stacks
  <2>5. ASSUME NEW q \in Procs
        PROVE  /\ state'[q] = "Running" => mach'[q] # Nil
               /\ state'[q] = "Scheding" => mach'[q] = Nil
    <3>1. CASE q = p
        BY <3>1, <1>4
    <3>2. CASE q # p
      <4>1. state'[q] = state[q] /\ mach'[q] = mach[q]
          BY <3>2, <1>1, <1>4
      <4>2. QED  BY <4>1 DEF Stacks
    <3>3. QED  BY <3>1, <3>2
  <2>6. QED  BY <2>4, <2>5, <1>1 DEF Stacks
<1>7. Hands'
  <2>1. \A q \in Procs : Moving(q)' => state'[q] = "Ready" /\ Fits(q, sch[Cpu0])'
      BY <1>1, <1>3, <1>4, MovingKept DEF Hands
  <2>2. \A d \in Cpus : cpc[d] = "sched" => pick[d] # p /\ pick[d] \in Procs
      BY <1>1 DEF Hands
  <2>3. QED  BY <2>1, <2>2, <1>1, <1>4 DEF Hands
<1>8. Wires'
    BY <1>1, <1>4 DEF Wires
<1>9. QED  BY <1>4, <1>5, <1>6, <1>7, <1>8

LEMMA LeaveStep ==
    ASSUME IInv, NEW c \in Cpus, Leave(c), UNCHANGED sch, Remember
    PROVE  IInv'
<1> USE DEF IInv
<1>1. PICK p : p = proc[c]
    OBVIOUS
<1>2. /\ cpc[c] = "leave" /\ cpc' = [cpc EXCEPT ![c] = "runproc"]
      /\ mach' = [mach EXCEPT ![p] = Nil] /\ proc' = [proc EXCEPT ![c] = Nil]
      /\ UNCHANGED <<state, mp, wired, priority, runq, runvec, readied, pick, pickq>>
    BY <1>1 DEF Leave
<1>3. /\ p \in Procs /\ mach[p] = c /\ state[p] # "Running"
      /\ \A d \in Cpus : proc[d] = p => d = c
  <2>1. cpc[c] \in OnStack
      BY <1>2 DEF OnStack
  <2>2. QED  BY <2>1, <1>1, <1>2, Up DEF Stacks
<1>4. /\ TypeOK'
      /\ cpc'[c] = "runproc" /\ \A d \in Cpus : d # c => cpc'[d] = cpc[d]
      /\ proc'[c] = Nil /\ \A d \in Cpus : d # c => proc'[d] = proc[d]
      /\ mach'[p] = Nil /\ \A q \in Procs : q # p => mach'[q] = mach[q]
    BY <1>2, <1>3 DEF TypeOK, Remember
<1>5. Stacks'
  <2>1. ASSUME NEW d \in Cpus
        PROVE  /\ cpc'[d] \in OnStack <=> proc'[d] # Nil
               /\ proc'[d] # Nil => mach'[proc'[d]] = d
               /\ cpc'[d] \in {"up", "rebalance"} => state'[proc'[d]] = "Running"
               /\ cpc'[d] = "leave" => state'[proc'[d]] # "Running"
               /\ cpc'[d] = "rebalance" => d = Cpu0
    <3>1. CASE d = c
        BY <3>1, <1>4 DEF OnStack
    <3>2. CASE d # c
      <4>1. proc[d] # p /\ (proc[d] # Nil => proc[d] \in Procs)
          BY <3>2, <1>3 DEF TypeOK
      <4>2. QED  BY <3>2, <4>1, <1>2, <1>4 DEF Stacks
    <3>3. QED  BY <3>1, <3>2
  <2>2. ASSUME NEW q \in Procs
        PROVE  /\ mach'[q] # Nil => proc'[mach'[q]] = q
               /\ state'[q] = "Running" => mach'[q] # Nil
               /\ state'[q] = "Scheding" => mach'[q] = Nil
    <3>1. CASE q = p
        BY <3>1, <1>2, <1>3, <1>4
    <3>2. CASE q # p
      <4>1. mach[q] \in Cpus \union {Nil} /\ mach[q] # c
          BY <3>2, <1>1 DEF Stacks, TypeOK
      <4>2. QED  BY <3>2, <4>1, <1>2, <1>4 DEF Stacks
    <3>3. QED  BY <3>1, <3>2
  <2>3. QED  BY <2>1, <2>2 DEF Stacks
<1>6. \A q \in Procs : Moving(q)' <=> Moving(q)
    BY <1>2, <1>4 DEF Moving
<1>7. Hands'
  <2>1. \A q \in Procs : Moving(q)' => state'[q] = "Ready" /\ Fits(q, sch[Cpu0])'
      BY <1>2, <1>6, MovingKept DEF Hands
  <2>2. \A d \in Cpus : cpc'[d] \in {"found", "sched", "rebalance"} => cpc[d] = cpc'[d]
      BY <1>4
  <2>3. QED  BY <2>1, <2>2, <1>2 DEF Hands
<1>8. Wires'
    BY <1>2, <1>4 DEF Wires
<1>9. Waiting' /\ Once' /\ Vectors'
    BY <1>2, <1>6, WaitingKept
<1>10. QED  BY <1>4, <1>5, <1>7, <1>8, <1>9

\* Process p leaves its queue: it is dispatched, or moved by rebalance().
LEMMA Taken ==
    ASSUME IInv, NEW p \in Procs, NEW s \in Scheds, NEW i \in Pris,
           In(p, s, i), dequeue(s, i, p), UNCHANGED <<sch, priority>>, Remember,
           state'[p] # "Ready" \/ Moving(p)',
           \A q \in Procs : q # p => state'[q] = state[q] /\ mp'[q] = mp[q],
           \A q \in Procs : q # p => (Moving(q)' <=> Moving(q))
    PROVE  /\ runq' \in [Scheds -> [Pris -> Seq(Procs)]]
           /\ runvec' \in [Scheds -> SUBSET Pris]
           /\ Waiting' /\ Once' /\ Vectors'
<1> USE DEF IInv
<1>1. /\ runq' \in [Scheds -> [Pris -> Seq(Procs)]]
      /\ runvec' \in [Scheds -> SUBSET Pris]
      /\ Once' /\ Vectors'
      /\ \A q \in Procs, r \in Scheds, j \in Pris :
            In(q, r, j)' <=> In(q, r, j) /\ ~(q = p /\ r = s /\ j = i)
    BY Dequeued
<1>2. \A r \in Scheds, j \in Pris : ~In(p, r, j)'
  <2>1. \A r \in Scheds, j \in Pris : In(p, r, j) => r = s /\ j = i
      BY DEF Waiting
  <2>2. QED  BY <2>1, <1>1
<1>3. ASSUME NEW q \in Procs, NEW r \in Scheds, NEW j \in Pris, In(q, r, j)'
      PROVE  /\ state'[q] = "Ready" /\ ~Moving(q)' /\ priority'[q] = j
             /\ Fits(q, r)'
             /\ \A t \in Scheds, k \in Pris : In(q, t, k)' => t = r /\ k = j
  <2>1. q # p /\ In(q, r, j)
      BY <1>1, <1>2, <1>3
  <2>2. /\ state[q] = "Ready" /\ ~Moving(q) /\ priority[q] = j
        /\ Fits(q, r)
        /\ \A t \in Scheds, k \in Pris : In(q, t, k) => t = r /\ k = j
      BY <2>1 DEF Waiting
  <2>3. \A t \in Scheds, k \in Pris : In(q, t, k)' => t = r /\ k = j
      BY <2>2, <1>1
  <2>4. Fits(q, r)'
      BY <2>1, <2>2, FitsKept
  <2>5. QED  BY <2>1, <2>2, <2>3, <2>4
<1>4. ASSUME NEW q \in Procs, state'[q] = "Ready", ~Moving(q)'
      PROVE  \E r \in Scheds, j \in Pris : In(q, r, j)'
  <2>1. q # p /\ state[q] = "Ready" /\ ~Moving(q)
      BY <1>4
  <2>2. \E r \in Scheds, j \in Pris : In(q, r, j)
      BY <2>1 DEF Waiting
  <2>3. QED  BY <2>1, <2>2, <1>1
<1>5. Waiting'
    BY <1>3, <1>4 DEF Waiting
<1>6. QED  BY <1>1, <1>5

LEMMA RunTakeStep ==
    ASSUME IInv, NEW c \in Cpus, RunTake(c), UNCHANGED sch, Remember
    PROVE  IInv'
<1> USE DEF IInv
<1>1. PICK p, i, s : p = pick[c] /\ i = pickq[c] /\ s = sch[c]
    OBVIOUS
<1>2. /\ cpc[c] = "found" /\ In(p, s, i) /\ mach[p] = Nil /\ dequeue(s, i, p)
      /\ state' = [state EXCEPT ![p] = "Scheding"] /\ mp' = [mp EXCEPT ![p] = c]
      /\ cpc' = [cpc EXCEPT ![c] = "sched"]
      /\ UNCHANGED <<mach, wired, priority, proc, readied, pick, pickq>>
    BY <1>1 DEF RunTake, CanDequeue, procsaved, In
<1>3. p \in Procs /\ i \in Pris /\ s \in Scheds
    BY <1>1, <1>2 DEF Hands, TypeOK
<1>4. /\ cpc'[c] = "sched" /\ \A d \in Cpus : d # c => cpc'[d] = cpc[d]
      /\ state'[p] = "Scheding" /\ \A q \in Procs : q # p => state'[q] = state[q]
      /\ mp'[p] = c /\ \A q \in Procs : q # p => mp'[q] = mp[q]
    BY <1>2, <1>3 DEF TypeOK
<1>5. \A q \in Procs : Moving(q)' <=> Moving(q)
    BY <1>2, <1>4 DEF Moving
<1>6. state[p] = "Ready" /\ ~Moving(p)
    BY <1>2, <1>3 DEF Waiting
<1>7. /\ runq' \in [Scheds -> [Pris -> Seq(Procs)]]
      /\ runvec' \in [Scheds -> SUBSET Pris]
      /\ Waiting' /\ Once' /\ Vectors'
    BY <1>2, <1>3, <1>4, <1>5, Taken
<1>8. TypeOK'
    BY <1>2, <1>3, <1>7 DEF TypeOK, Remember
<1>9. Stacks'
  <2>1. \A d \in Cpus : proc[d] # Nil => proc[d] \in Procs /\ proc[d] # p
      BY <1>2 DEF TypeOK, Stacks
  <2>2. \A d \in Cpus : /\ cpc'[d] \in OnStack <=> proc'[d] # Nil
                        /\ cpc'[d] \in OnStack => cpc'[d] = cpc[d]
      BY <1>2, <1>4 DEF Stacks, OnStack
  <2>3. \A d \in Cpus : /\ cpc'[d] \in {"up", "rebalance"} => state'[proc'[d]] = "Running"
                        /\ cpc'[d] = "leave" => state'[proc'[d]] # "Running"
                        /\ cpc'[d] = "rebalance" => d = Cpu0
      BY <2>1, <2>2, <1>2, <1>4 DEF Stacks, OnStack
  <2>4. \A q \in Procs : /\ state'[q] = "Running" => mach'[q] # Nil
                         /\ state'[q] = "Scheding" => mach'[q] = Nil
      BY <1>2, <1>4 DEF Stacks
  <2>5. QED  BY <2>2, <2>3, <2>4, <1>2 DEF Stacks
<1>10. Hands'
  <2>1. \A q \in Procs : Moving(q)' => state'[q] = "Ready" /\ Fits(q, sch[Cpu0])'
      BY <1>4, <1>5, <1>6, MovingKept DEF Hands
  <2>2. \A d \in Cpus : d # c /\ cpc'[d] = "sched" =>
           pick[d] \in Procs /\ pick[d] # p /\ state'[pick[d]] = "Scheding"
      BY <1>4, <1>6 DEF Hands
  <2>3. ASSUME NEW d \in Cpus
        PROVE  /\ cpc'[d] \in {"found", "sched", "rebalance"} => pick'[d] \in Procs /\ pickq'[d] \in Pris
               /\ cpc'[d] = "sched" => state'[pick'[d]] = "Scheding"
               /\ \A b \in Cpus : cpc'[d] = "sched" /\ cpc'[b] = "sched" /\ pick'[d] = pick'[b] => d = b
    <3>1. CASE d = c
        BY <3>1, <2>2, <1>1, <1>2, <1>3, <1>4
    <3>2. CASE d # c
      <4>1. cpc'[d] = cpc[d] /\ pick'[d] = pick[d] /\ pickq'[d] = pickq[d]
          BY <3>2, <1>2, <1>4
      <4>2. \A b \in Cpus : cpc'[d] = "sched" /\ cpc'[b] = "sched" /\ pick'[d] = pick'[b] => d = b
          BY <3>2, <4>1, <2>2, <1>1, <1>2, <1>4 DEF Hands
      <4>3. QED  BY <3>2, <4>1, <4>2, <2>2 DEF Hands
    <3>3. QED  BY <3>1, <3>2
  <2>4. QED  BY <2>1, <2>3 DEF Hands
<1>11. Wires'
  <2>1. \A d \in Cpus : d # c /\ cpc'[d] = "sched" => pick[d] \in Procs /\ pick[d] # p
      BY <1>4, <1>6 DEF Hands
  <2>2. QED  BY <2>1, <1>1, <1>2, <1>4 DEF Wires
<1>12. QED  BY <1>7, <1>8, <1>9, <1>10, <1>11

LEMMA SchedRunStep ==
    ASSUME IInv, NEW c \in Cpus, SchedRun(c), UNCHANGED sch, Remember
    PROVE  IInv'
<1> USE DEF IInv
<1>1. PICK p : p = pick[c]
    OBVIOUS
<1>2. PICK i \in Pris : priority' = [priority EXCEPT ![p] = i]
    BY <1>1 DEF SchedRun
<1>3. /\ cpc[c] = "sched" /\ wired[p] \in {Nil, c}
      /\ readied' = [readied EXCEPT ![c] = Nil]
      /\ state' = [state EXCEPT ![p] = "Running"]
      /\ mach' = [mach EXCEPT ![p] = c] /\ proc' = [proc EXCEPT ![c] = p]
      /\ pick' = [pick EXCEPT ![c] = Nil] /\ pickq' = [pickq EXCEPT ![c] = Nil]
      /\ cpc' = [cpc EXCEPT ![c] = "up"]
      /\ UNCHANGED <<mp, wired, runq, runvec>>
    BY <1>1 DEF SchedRun, hardaffinity
<1>4. /\ p \in Procs /\ state[p] = "Scheding" /\ mach[p] = Nil /\ proc[c] = Nil
      /\ mp[p] = c \/ wired[p] \in {Nil, mp[p]}
    BY <1>1, <1>3 DEF Hands, Stacks, OnStack, Wires
<1>5. /\ TypeOK'
      /\ cpc'[c] = "up" /\ \A d \in Cpus : d # c => cpc'[d] = cpc[d]
      /\ \A d \in Cpus : d # c => pick'[d] = pick[d] /\ pickq'[d] = pickq[d]
      /\ proc'[c] = p /\ \A d \in Cpus : d # c => proc'[d] = proc[d]
      /\ state'[p] = "Running" /\ \A q \in Procs : q # p => state'[q] = state[q]
      /\ mach'[p] = c /\ \A q \in Procs : q # p => mach'[q] = mach[q]
      /\ \A q \in Procs : q # p => priority'[q] = priority[q]
    BY <1>2, <1>3, <1>4 DEF TypeOK, Remember
<1>6. Stacks'
  <2>1. ASSUME NEW d \in Cpus
        PROVE  /\ cpc'[d] \in OnStack <=> proc'[d] # Nil
               /\ proc'[d] # Nil => mach'[proc'[d]] = d
               /\ cpc'[d] \in {"up", "rebalance"} => state'[proc'[d]] = "Running"
               /\ cpc'[d] = "leave" => state'[proc'[d]] # "Running"
               /\ cpc'[d] = "rebalance" => d = Cpu0
    <3>1. CASE d = c
        BY <3>1, <1>4, <1>5 DEF OnStack
    <3>2. CASE d # c
      <4>1. proc[d] # Nil => proc[d] \in Procs /\ proc[d] # p
          BY <1>4 DEF TypeOK, Stacks
      <4>2. cpc[d] \in OnStack <=> proc[d] # Nil
          BY DEF Stacks
      <4>3. QED  BY <3>2, <4>1, <4>2, <1>5 DEF Stacks, OnStack
    <3>3. QED  BY <3>1, <3>2
  <2>2. ASSUME NEW q \in Procs
        PROVE  /\ mach'[q] # Nil => proc'[mach'[q]] = q
               /\ state'[q] = "Running" => mach'[q] # Nil
               /\ state'[q] = "Scheding" => mach'[q] = Nil
    <3>1. CASE q = p
        BY <3>1, <1>5
    <3>2. CASE q # p
      <4>1. mach[q] \in Cpus \union {Nil} /\ mach[q] # c
          BY <1>4 DEF Stacks, TypeOK
      <4>2. QED  BY <3>2, <4>1, <1>5 DEF Stacks
    <3>3. QED  BY <3>1, <3>2
  <2>3. QED  BY <2>1, <2>2 DEF Stacks
<1>7. \A q \in Procs : Moving(q)' <=> Moving(q)
    BY <1>3, <1>5 DEF Moving
<1>8. Hands'
  <2>1. \A q \in Procs : Moving(q)' => state'[q] = "Ready" /\ Fits(q, sch[Cpu0])'
      BY <1>3, <1>4, <1>5, <1>7, MovingKept DEF Hands
  <2>2. \A d \in Cpus : cpc'[d] \in {"found", "sched", "rebalance"} =>
           d # c /\ cpc[d] = cpc'[d] /\ pick'[d] = pick[d] /\ pickq'[d] = pickq[d]
      BY <1>5
  <2>3. \A d \in Cpus : d # c /\ cpc[d] = "sched" => pick[d] \in Procs /\ pick[d] # p
      BY <1>1, <1>3 DEF Hands
  <2>4. QED  BY <2>1, <2>2, <2>3, <1>3, <1>5 DEF Hands
<1>9. Wires'
  <2>1. wired'[p] \in {Nil, mp'[p]}
      BY <1>3, <1>4
  <2>2. \A d \in Cpus : cpc'[d] = "sched" => cpc[d] = "sched" /\ pick'[d] = pick[d]
      BY <1>5
  <2>3. QED  BY <2>1, <2>2, <1>3, <1>5 DEF Wires
<1>10. Waiting' /\ Once' /\ Vectors'
    BY <1>3, <1>4, <1>5, <1>7, WaitingKept
<1>11. QED  BY <1>5, <1>6, <1>8, <1>9, <1>10

LEMMA RebalanceTakeStep ==
    ASSUME IInv, NEW i \in Pris, NEW j \in Pris, RebalanceTake(i, j), UNCHANGED sch, Remember
    PROVE  IInv'
<1> USE DEF IInv
<1>1. PICK s, p : s = sch[Cpu0] /\ p = Head(runq[s][i])
    OBVIOUS
<1>2. /\ cpc[Cpu0] = "up" /\ mp[p] = Cpu0 /\ In(p, s, i) /\ dequeue(s, i, p)
      /\ pick' = [pick EXCEPT ![Cpu0] = p] /\ pickq' = [pickq EXCEPT ![Cpu0] = j]
      /\ cpc' = [cpc EXCEPT ![Cpu0] = "rebalance"]
      /\ UNCHANGED <<state, mach, mp, wired, priority, proc, readied>>
    BY <1>1 DEF RebalanceTake, CanDequeue, In
<1>3. s \in Scheds /\ p \in Procs
  <2>1. s \in Scheds
      BY <1>1 DEF TypeOK
  <2>2. runq[s][i] \in Seq(Procs)
      BY <2>1 DEF TypeOK
  <2>3. QED  BY <2>1, <2>2, <1>2 DEF In, ToSet
<1>4. /\ cpc'[Cpu0] = "rebalance" /\ \A d \in Cpus : d # Cpu0 => cpc'[d] = cpc[d]
      /\ pick'[Cpu0] = p /\ \A d \in Cpus : d # Cpu0 => pick'[d] = pick[d]
      /\ pickq'[Cpu0] = j /\ \A d \in Cpus : d # Cpu0 => pickq'[d] = pickq[d]
    BY <1>2 DEF TypeOK
<1>5. /\ state[p] = "Ready" /\ Moving(p)'
      /\ \A q \in Procs : q # p => ~Moving(q)' /\ ~Moving(q)
    BY <1>2, <1>3, <1>4 DEF Waiting, Moving
<1>6. /\ runq' \in [Scheds -> [Pris -> Seq(Procs)]]
      /\ runvec' \in [Scheds -> SUBSET Pris]
      /\ Waiting' /\ Once' /\ Vectors'
    BY <1>2, <1>3, <1>5, Taken
<1>7. TypeOK'
    BY <1>2, <1>3, <1>6 DEF TypeOK, Remember
<1>8. Stacks'
    BY <1>2, <1>4 DEF Stacks, OnStack
<1>9. Hands'
  <2>1. \A q \in Procs : Moving(q)' => state'[q] = "Ready" /\ Fits(q, sch[Cpu0])'
      BY <1>2, <1>5 DEF Fits
  <2>2. \A d \in Cpus : cpc'[d] \in {"found", "sched"} =>
           d # Cpu0 /\ cpc[d] = cpc'[d] /\ pick'[d] = pick[d] /\ pickq'[d] = pickq[d]
      BY <1>4
  <2>3. \A d \in Cpus : cpc'[d] = "rebalance" => pick'[d] \in Procs /\ pickq'[d] \in Pris
      BY <1>3, <1>4 DEF Stacks
  <2>4. QED  BY <2>1, <2>2, <2>3, <1>2 DEF Hands
<1>10. Wires'
    BY <1>2, <1>4 DEF Wires
<1>11. QED  BY <1>6, <1>7, <1>8, <1>9, <1>10

LEMMA RebalancePutStep ==
    ASSUME IInv, RebalancePut, UNCHANGED sch, Remember
    PROVE  IInv'
<1> USE DEF IInv
<1>1. PICK s, p, i : s = sch[Cpu0] /\ p = pick[Cpu0] /\ i = pickq[Cpu0]
    OBVIOUS
<1>2. /\ cpc[Cpu0] = "rebalance" /\ queueproc(s, i, p)
      /\ pick' = [pick EXCEPT ![Cpu0] = Nil] /\ pickq' = [pickq EXCEPT ![Cpu0] = Nil]
      /\ cpc' = [cpc EXCEPT ![Cpu0] = "up"]
      /\ UNCHANGED <<state, mach, mp, wired, proc, readied>>
    BY <1>1 DEF RebalancePut
<1>3. s \in Scheds /\ p \in Procs /\ i \in Pris
    BY <1>1, <1>2 DEF Hands, TypeOK
<1>4. /\ cpc'[Cpu0] = "up" /\ \A d \in Cpus : d # Cpu0 => cpc'[d] = cpc[d]
      /\ \A d \in Cpus : d # Cpu0 => pick'[d] = pick[d]
      /\ \A d \in Cpus : d # Cpu0 => pickq'[d] = pickq[d]
    BY <1>2 DEF TypeOK
<1>5. /\ Moving(p) /\ state[p] = "Ready" /\ Fits(p, s)
      /\ \A q \in Procs : ~Moving(q)' /\ (q # p => ~Moving(q))
    BY <1>1, <1>2, <1>3, <1>4 DEF Moving, Hands
<1>6. \A r \in Scheds, j \in Pris : ~In(p, r, j)
    BY <1>3, <1>5 DEF Waiting
<1>7. /\ runq' \in [Scheds -> [Pris -> Seq(Procs)]]
      /\ runvec' \in [Scheds -> SUBSET Pris] /\ priority' \in [Procs -> Pris]
      /\ Once' /\ Vectors'
      /\ \A q \in Procs, r \in Scheds, j \in Pris :
            In(q, r, j)' <=> In(q, r, j) \/ (q = p /\ r = s /\ j = i)
      /\ priority'[p] = i /\ \A q \in Procs : q # p => priority'[q] = priority[q]
    BY <1>2, <1>3, <1>6, Enqueued
<1>8. TypeOK'
    BY <1>2, <1>7 DEF TypeOK, Remember
<1>9. Stacks'
    BY <1>2, <1>4 DEF Stacks, OnStack
<1>10. Hands'
  <2>1. \A d \in Cpus : cpc'[d] \in {"found", "sched", "rebalance"} =>
           d # Cpu0 /\ cpc[d] = cpc'[d] /\ pick'[d] = pick[d] /\ pickq'[d] = pickq[d]
      BY <1>4
  <2>2. QED  BY <2>1, <1>2, <1>5 DEF Hands
<1>11. Wires'
    BY <1>2, <1>4 DEF Wires
<1>12. ASSUME NEW q \in Procs, NEW r \in Scheds, NEW j \in Pris, In(q, r, j)'
       PROVE  /\ state'[q] = "Ready" /\ ~Moving(q)' /\ priority'[q] = j
              /\ Fits(q, r)'
              /\ \A t \in Scheds, k \in Pris : In(q, t, k)' => t = r /\ k = j
  <2>1. CASE q = p
    <3>1. r = s /\ j = i /\ \A t \in Scheds, k \in Pris : In(q, t, k)' => t = s /\ k = i
        BY <2>1, <1>6, <1>7, <1>12
    <3>2. Fits(p, s)'
        BY <1>2, <1>3, <1>5, FitsKept
    <3>3. QED  BY <2>1, <3>1, <3>2, <1>2, <1>5, <1>7
  <2>2. CASE q # p
    <3>1. In(q, r, j) /\ \A t \in Scheds, k \in Pris : In(q, t, k)' => In(q, t, k)
        BY <2>2, <1>7, <1>12
    <3>2. /\ state[q] = "Ready" /\ priority[q] = j
          /\ Fits(q, r)
          /\ \A t \in Scheds, k \in Pris : In(q, t, k) => t = r /\ k = j
        BY <3>1 DEF Waiting
    <3>3. Fits(q, r)'
        BY <3>2, <1>2, FitsKept
    <3>4. QED  BY <2>2, <3>1, <3>2, <3>3, <1>2, <1>5, <1>7
  <2>3. QED  BY <2>1, <2>2
<1>13. ASSUME NEW q \in Procs, state'[q] = "Ready"
       PROVE  \E r \in Scheds, j \in Pris : In(q, r, j)'
  <2>1. CASE q = p
      BY <2>1, <1>3, <1>7
  <2>2. CASE q # p
    <3>1. \E r \in Scheds, j \in Pris : In(q, r, j)
        BY <2>2, <1>2, <1>5, <1>13 DEF Waiting
    <3>2. QED  BY <3>1, <1>7
  <2>3. QED  BY <2>1, <2>2
<1>14. Waiting'
    BY <1>12, <1>13 DEF Waiting
<1>15. QED  BY <1>7, <1>8, <1>9, <1>10, <1>11, <1>14

----------------------------------------------------------------------------
LEMMA InitIInv == Init => IInv
<1> SUFFICES ASSUME Init PROVE IInv
    OBVIOUS
<1>1. TypeOK
  <2>1. << >> \in Seq(Procs)
      OBVIOUS
  <2>2. runq \in [Scheds -> [Pris -> Seq(Procs)]]
      BY <2>1 DEF Init
  <2>3. QED  BY <2>2 DEF Init, TypeOK
<1>2. Stacks /\ Hands /\ Wires
    BY DEF Init, Stacks, Hands, Wires, OnStack, Moving
<1>3. \A p \in Procs, s \in Scheds, i \in Pris : ~In(p, s, i)
    BY DEF Init, In, ToSet
<1>4. Waiting
    BY <1>3 DEF Init, Waiting
<1>5. Once
  <2>1. \A s \in Scheds, i \in Pris : Len(runq[s][i]) = 0
      BY DEF Init
  <2>2. QED  BY <2>1 DEF Once
<1>6. Vectors
    BY DEF Init, Vectors
<1>7. QED  BY <1>1, <1>2, <1>4, <1>5, <1>6 DEF IInv

LEMMA NextIInv == IInv /\ [Next]_vars => IInv'
<1> SUFFICES ASSUME IInv, [Next]_vars PROVE IInv'
    OBVIOUS
<1>1. CASE UNCHANGED vars
    BY <1>1 DEF IInv, vars, TypeOK, Stacks, Hands, Wires, Waiting, Once, Vectors, In, Moving, Fits
<1>2. ASSUME NEW c \in Cpus, Block(c) \/ (\E b \in Cpus : WireSelf(c, b)) \/ SchedInit(c) \/ Leave(c),
             UNCHANGED sch, Remember
      PROVE  IInv'
    BY <1>2, BlockStep, WireSelfStep, SchedInitStep, LeaveStep
<1>3. ASSUME NEW c \in Cpus, Yield(c) \/ Preempt(c), UNCHANGED sch, Remember
      PROVE  IInv'
  <2>1. /\ cpc[c] = "up" /\ cpc' = [cpc EXCEPT ![c] = "schedinit"]
        /\ readied' \in [Cpus -> Procs \union {Nil}]
        /\ pick' \in [Cpus -> Procs \union {Nil}] /\ pickq' \in [Cpus -> Pris \union {Nil}]
        /\ UNCHANGED <<state, mach, mp, wired, priority, runq, runvec, proc, pick, pickq>>
      BY <1>3 DEF Yield, Preempt, IInv, TypeOK
  <2>2. QED  BY <2>1, <1>3, LookStep
<1>4. ASSUME NEW c \in Cpus, RunReadied(c), UNCHANGED sch, Remember PROVE IInv'
  <2>1. PICK p : p = readied[c]
      OBVIOUS
  <2>2. /\ cpc[c] = "runproc" /\ cpc' = [cpc EXCEPT ![c] = "found"] /\ p \in Procs
        /\ pick' = [pick EXCEPT ![c] = p] /\ pickq' = [pickq EXCEPT ![c] = priority[p]]
        /\ UNCHANGED <<state, mach, mp, wired, priority, runq, runvec, proc, readied>>
      BY <1>4, <2>1 DEF RunReadied, IInv, TypeOK
  <2>3. /\ readied' \in [Cpus -> Procs \union {Nil}]
        /\ pick' \in [Cpus -> Procs \union {Nil}] /\ pickq' \in [Cpus -> Pris \union {Nil}]
        /\ \A d \in Cpus : d # c => pick'[d] = pick[d] /\ pickq'[d] = pickq[d]
        /\ pick'[c] \in Procs /\ pickq'[c] \in Pris
      BY <2>2 DEF IInv, TypeOK
  <2>4. QED  BY <2>2, <2>3, <1>4, LookStep
<1>5. ASSUME NEW c \in Cpus, RunSearch(c) \/ RunMissed(c), UNCHANGED sch, Remember PROVE IInv'
  <2>1. /\ cpc[c] \in {"runproc", "found"} /\ cpc' = [cpc EXCEPT ![c] = "loop"]
        /\ readied' \in [Cpus -> Procs \union {Nil}]
        /\ pick' \in [Cpus -> Procs \union {Nil}] /\ pickq' \in [Cpus -> Pris \union {Nil}]
        /\ \A d \in Cpus : d # c => pick'[d] = pick[d] /\ pickq'[d] = pickq[d]
        /\ UNCHANGED <<state, mach, mp, wired, priority, runq, runvec, proc>>
      BY <1>5 DEF RunSearch, RunMissed, IInv, TypeOK
  <2>2. QED  BY <2>1, <1>5, LookStep
<1>6. ASSUME NEW c \in Cpus, RunFind(c), UNCHANGED sch, Remember PROVE IInv'
  <2>1. PICK s \in Scheds : s = sch[c]
      BY DEF IInv, TypeOK
  <2>2. PICK i \in Pris : \E a \in 1 .. Len(runq[s][i]) :
           pick' = [pick EXCEPT ![c] = runq[s][i][a]] /\ pickq' = [pickq EXCEPT ![c] = i]
      BY <1>6, <2>1 DEF RunFind
  <2>3. PICK a \in 1 .. Len(runq[s][i]) :
           pick' = [pick EXCEPT ![c] = runq[s][i][a]] /\ pickq' = [pickq EXCEPT ![c] = i]
      BY <2>2
  <2>4. runq[s][i] \in Seq(Procs)
      BY DEF IInv, TypeOK
  <2>5. PICK p \in Procs : p = runq[s][i][a]
      BY <2>4
  <2>6. /\ cpc[c] = "loop" /\ cpc' = [cpc EXCEPT ![c] = "found"]
        /\ UNCHANGED <<state, mach, mp, wired, priority, runq, runvec, proc, readied>>
      BY <1>6 DEF RunFind
  <2>7. /\ readied' \in [Cpus -> Procs \union {Nil}]
        /\ pick' \in [Cpus -> Procs \union {Nil}] /\ pickq' \in [Cpus -> Pris \union {Nil}]
        /\ \A d \in Cpus : d # c => pick'[d] = pick[d] /\ pickq'[d] = pickq[d]
        /\ pick'[c] \in Procs /\ pickq'[c] \in Pris
      BY <2>3, <2>5, <2>6 DEF IInv, TypeOK
  <2>8. QED  BY <2>6, <2>7, <1>6, LookStep
<1>7. ASSUME NEW c \in Cpus, NEW p \in Procs, (\E b \in Cpus : WireOther(c, p, b)) \/ WireClear(c, p),
             UNCHANGED sch, Remember
      PROVE  IInv'
  <2>1. PICK b \in Cpus \union {Nil} :
           /\ wired' = [wired EXCEPT ![p] = b] /\ mp' = [mp EXCEPT ![p] = b]
           /\ UNCHANGED <<state, mach, priority, runq, runvec, proc, readied, cpc, pick, pickq>>
      BY <1>7 DEF WireOther, WireClear
  <2>2. QED  BY <2>1, <1>7, WireStep
<1>8. QED
    BY <1>1, <1>2, <1>3, <1>4, <1>5, <1>6, <1>7, WakeupStep, RunTakeStep, SchedRunStep,
       RebalanceTakeStep, RebalancePutStep DEF Next

\* The inductive invariant holds in every reachable state: runproc(), which
\* searches without the lock, and rebalance() keep the queues consistent.
THEOREM Invariance == Spec => []IInv
<1>1. Init => IInv
    BY InitIInv
<1>2. IInv /\ [Next]_vars => IInv'
    BY NextIInv
<1>3. QED  BY <1>1, <1>2, PTL DEF Spec

\* A process has one processor on its stack at most, and sched() runs only a
\* process that has left the stack of its last processor (p->mach, m->proc).
THEOREM OnOneProcessor == Spec => []OneProcessor
<1>1. ASSUME IInv PROVE OneProcessor
  <2>1. ASSUME NEW c \in Cpus, cpc[c] = "sched"
        PROVE  /\ mach[pick[c]] = Nil
               /\ \A d \in Cpus : d # c => ~(cpc[d] = "sched" /\ pick[d] = pick[c])
      BY <1>1, <2>1 DEF IInv, Hands, Stacks
  <2>2. QED  BY <1>1, <2>1 DEF IInv, Stacks, OneProcessor
<1>2. QED  BY <1>1, Invariance, PTL

\* queueproc() and dequeueproc(): the Ready processes are in the run queues,
\* each once and in the queue of its priority, and runvec tells which queues
\* are not empty.
THEOREM QueuesKept == Spec => []QueuesOK
<1>1. ASSUME IInv PROVE QueuesOK
  <2> USE <1>1 DEF IInv
  <2>1. ASSUME NEW p \in Procs
        PROVE  Queued(p) <=> state[p] = "Ready" /\ ~(cpc[Cpu0] = "rebalance" /\ pick[Cpu0] = p)
      BY DEF Waiting, Queued, In, Moving
  <2>2. ASSUME NEW s \in Scheds, NEW r \in Scheds, NEW i \in Pris, NEW j \in Pris,
               NEW a \in DOMAIN runq[s][i], NEW b \in DOMAIN runq[r][j],
               runq[s][i][a] = runq[r][j][b]
        PROVE  s = r /\ i = j /\ a = b
    <3>1. runq[s][i] \in Seq(Procs) /\ runq[r][j] \in Seq(Procs)
        BY DEF TypeOK
    <3>2. a \in 1 .. Len(runq[s][i]) /\ b \in 1 .. Len(runq[r][j])
        BY <3>1
    <3>3. PICK p \in Procs : p = runq[s][i][a]
        BY <3>1, <3>2
    <3>4. In(p, s, i) /\ In(p, r, j)
        BY <2>2, <3>3 DEF In, ToSet
    <3>5. s = r /\ i = j
        BY <3>4 DEF Waiting
    <3>6. QED  BY <2>2, <3>2, <3>5 DEF Once
  <2>3. ASSUME NEW s \in Scheds, NEW i \in Pris, NEW p \in ToSet(runq[s][i])
        PROVE  priority[p] = i
    <3>1. runq[s][i] \in Seq(Procs)
        BY DEF TypeOK
    <3>2. p \in Procs
        BY <3>1 DEF ToSet
    <3>3. QED  BY <3>2 DEF Waiting, In
  <2>4. QED  BY <2>1, <2>2, <2>3 DEF QueuesOK, Vectors
<1>2. QED  BY <1>1, Invariance, PTL

\* procwired() and procsched(): a process that waits in a run queue is wired,
\* if at all, to a processor that serves that queue, unless another process
\* wired it while it waited.
THEOREM AllServable == Spec => []Servable
<1>1. ASSUME IInv PROVE Servable
  <2> USE <1>1 DEF IInv
  <2> SUFFICES ASSUME NEW s \in Scheds, NEW i \in Pris, NEW p \in ToSet(runq[s][i]) \ rewired
               PROVE  \E c \in Cpus : sch[c] = s /\ hardaffinity(c, p)
      BY DEF Servable
  <2>1. runq[s][i] \in Seq(Procs)
      BY DEF TypeOK
  <2>2. p \in Procs
      BY <2>1 DEF ToSet
  <2>3. /\ state[p] = "Ready"
        /\ \E c \in Cpus : sch[c] = s /\ mp[p] \in {Nil, c}
      BY <2>2 DEF Waiting, In, Fits
  <2>4. wired[p] \in {Nil, mp[p]}
      BY <2>2, <2>3 DEF Wires
  <2>5. QED  BY <2>3, <2>4 DEF hardaffinity
<1>2. QED  BY <1>1, Invariance, PTL

=============================================================================
