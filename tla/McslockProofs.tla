--------------------------- MODULE McslockProofs ----------------------------
(***************************************************************************)
(* Proofs, for any number of processors, locks and entries, of the safety  *)
(* properties of Mcslock.                                                  *)
(***************************************************************************)
EXTENDS Mcslock, FiniteSetTheorems, SequenceTheorems, TLAPS

Pcs == {"off", "run", "alloc", "claim", "swap", "flag", "link", "spin", "cas",
        "own", "unlock", "uncas", "catchup", "grant", "free"}

\* What a thread remembers of a lock it holds.
Frame == [l : Locks, hi : BOOLEAN]

(***************************************************************************)
(* The inductive invariant, in parts.  The fields hold values of their     *)
(* types.                                                                  *)
(***************************************************************************)
TypeOK ==
    /\ head \in [Locks -> Entries \union {Nil}] /\ e \in [Locks -> Entries \union {Nil}]
    /\ used \in [Entries -> Locks \union {Nil}]
    /\ next \in [Entries -> Entries \union {Nil}]
    /\ locked \in [Entries -> BOOLEAN]
    /\ hi \in [Cpus -> BOOLEAN]
    /\ pc \in [Threads -> Pcs]
    /\ lk \in [Threads -> Locks \union {Nil}]
    /\ ql \in [Threads -> Entries \union {Nil}]
    /\ pred \in [Threads -> Entries \union {Nil}]
    /\ pl \in [Threads -> Seq(Frame)]
    /\ try \in [Threads -> BOOLEAN]

\* Locks are held in their order; the one a thread is about is the innermost.
Nest(t) ==
    /\ \A i, j \in 1 .. Len(pl[t]) : i < j => pl[t][i].l < pl[t][j].l
    /\ pc[t] \in {"off", "run"} <=> lk[t] = Nil
    /\ lk[t] # Nil => pl[t] # << >> /\ pl[t][Len(pl[t])].l = lk[t]
    /\ pc[t] = "off" => t[2] = "intr" /\ pl[t] = << >>
    /\ t[2] = "intr" => \A i \in 1 .. Len(pl[t]) : pl[t][i].l \in Ilocks
    /\ pc[t] \in {"alloc", "claim"} /\ try[t] => lk[t] \notin Ilocks
    /\ pc[t] = "cas" => lk[t] \notin Ilocks

Stack == \A t \in Threads : Nest(t)

\* A handler runs only where the thread under it has no lock that handlers
\* use, and the levels saved in the stack restore that.
Level(c) ==
    /\ pc[<<c, "intr">>] # "off" =>
          hi[c] /\ \A l \in Ilocks : ~Holds(<<c, "base">>, l)
    /\ pc[<<c, "intr">>] = "off" =>
          (hi[c] <=> \E l \in Ilocks : Holds(<<c, "base">>, l))
    /\ \A i \in 1 .. Len(pl[<<c, "base">>]) :
          pl[<<c, "base">>][i].l \in Ilocks =>
             (pl[<<c, "base">>][i].hi <=>
                 \E j \in 1 .. i - 1 : pl[<<c, "base">>][j].l \in Ilocks)
    /\ \A i \in 1 .. Len(pl[<<c, "intr">>]) : pl[<<c, "intr">>][i].hi

Levels == \A c \in Cpus : Level(c)

\* Thread t has an entry for lock l, and which.
Busy(t, l) == Holds(t, l) /\ ~(lk[t] = l /\ pc[t] \in {"alloc", "claim"})
Ent(t, l) == IF lk[t] = l THEN ql[t] ELSE e[l]

\* The table: every lock that a thread is in line for or owns has an entry of
\* the thread's processor, no two the same, and no other entry is used; the
\* entry allocle() has found is free, or a handler is using it.
Table ==
    /\ \A t \in Threads, l \in Locks : Busy(t, l) =>
          /\ Ent(t, l) \in Entries /\ Ent(t, l)[1] = t[1]
          /\ used[Ent(t, l)] = l
    /\ \A t, u \in Threads, l \in Locks :
          Busy(t, l) /\ Busy(u, l) /\ Ent(t, l) = Ent(u, l) => t = u
    /\ \A a \in Entries : used[a] # Nil =>
          \E t \in Threads, l \in Locks : Busy(t, l) /\ Ent(t, l) = a
    /\ \A t \in Threads : pc[t] = "claim" =>
          /\ ql[t] \in Entries /\ ql[t][1] = t[1]
          /\ used[ql[t]] # Nil =>
                \E u \in Threads, l \in Locks : /\ t[2] = "base" /\ u[2] = "intr" /\ u[1] = t[1]
                                                /\ Busy(u, l) /\ Ent(u, l) = ql[t]
    /\ \A t \in Threads : pc[t] \in {"off", "run", "alloc"} => ql[t] = Nil

(***************************************************************************)
(* The line of a lock, from its owner to l->head: Q[l] for every lock l.   *)
(* A thread is in it from fasp() until it has passed the lock on.          *)
(***************************************************************************)
InLine(t, l) ==
    Holds(t, l) /\ ~(lk[t] = l /\ pc[t] \in {"alloc", "claim", "swap", "cas", "free"})

Lines(Q) ==
    /\ Q \in [Locks -> Seq(Entries)]
    /\ \A l \in Locks : \A i, j \in 1 .. Len(Q[l]) : Q[l][i] = Q[l][j] => i = j
    /\ \A l \in Locks : head[l] = IF Q[l] = << >> THEN Nil ELSE Q[l][Len(Q[l])]

\* Who is in line: the first is the owner, every other one waits for the one
\* before it.
Members(Q) ==
    /\ \A l \in Locks : \A i \in 1 .. Len(Q[l]) :
          \E t \in Threads : InLine(t, l) /\ Ent(t, l) = Q[l][i]
    /\ \A t \in Threads, l \in Locks : InLine(t, l) =>
          \E i \in 1 .. Len(Q[l]) :
             /\ Ent(t, l) = Q[l][i]
             /\ lk[t] = l /\ Waits(t) => i > 1 /\ pred[t] = Q[l][i - 1]
             /\ ~(lk[t] = l /\ Waits(t)) => i = 1

\* The links: an entry's next is nil until its successor has linked itself,
\* which it does after it has set its flag.
Links(Q) ==
    /\ \A l \in Locks : \A i \in 1 .. Len(Q[l]) :
          next[Q[l][i]] # Nil => i < Len(Q[l]) /\ next[Q[l][i]] = Q[l][i + 1]
    /\ \A t \in Threads :
          /\ pc[t] \in {"flag", "link"} => next[pred[t]] = Nil
          /\ pc[t] = "link" => locked[ql[t]]
          /\ pc[t] = "grant" => next[ql[t]] # Nil

IInv ==
    /\ TypeOK /\ Stack /\ Levels /\ Table
    /\ \E Q \in [Locks -> Seq(Entries)] : Lines(Q) /\ Members(Q) /\ Links(Q)

USE ConstantsAssumption DEF Goto, Pcs

----------------------------------------------------------------------------
(* Facts that the steps have in common.                                    *)

\* A processor has two threads of control.
LEMMA ThreadFacts ==
    /\ \A t \in Threads : t[1] \in Cpus /\ t[2] \in {"base", "intr"} /\ t = <<t[1], t[2]>>
    /\ \A c \in Cpus : <<c, "base">> \in Threads /\ <<c, "intr">> \in Threads
BY DEF Threads

\* The stack of a thread that does not act.
LEMMA NestKept ==
    ASSUME Stack, NEW u \in Threads, pl'[u] = pl[u], pc'[u] = pc[u], lk'[u] = lk[u],
           try'[u] = try[u]
    PROVE  Nest(u)'
BY DEF Stack, Nest

\* Pushing a lock on the stack of thread t.
LEMMA Pushed ==
    ASSUME TypeOK, NEW t \in Threads, NEW l \in Locks, NEW h \in BOOLEAN,
           pl' = [pl EXCEPT ![t] = Append(@, [l |-> l, hi |-> h])]
    PROVE  /\ pl' \in [Threads -> Seq(Frame)]
           /\ \A u \in Threads : u # t => pl'[u] = pl[u]
           /\ Len(pl[t]) \in Nat /\ Len(pl'[t]) = Len(pl[t]) + 1 /\ pl'[t] # << >>
           /\ \A i \in 1 .. Len(pl[t]) : pl'[t][i] = pl[t][i]
           /\ pl'[t][Len(pl[t]) + 1].l = l /\ pl'[t][Len(pl[t]) + 1].hi = h
           /\ \A u \in Threads, m \in Locks :
                 Holds(u, m)' <=> Holds(u, m) \/ (u = t /\ m = l)
<1> DEFINE r == [l |-> l, hi |-> h]
<1>1. r \in Frame /\ r.l = l /\ r.hi = h
    BY DEF Frame
<1> HIDE DEF r
<1>2. pl' = [pl EXCEPT ![t] = Append(pl[t], r)] /\ pl[t] \in Seq(Frame)
    BY DEF TypeOK, r
<1>3. /\ pl' \in [Threads -> Seq(Frame)]
      /\ \A u \in Threads : u # t => pl'[u] = pl[u]
      /\ pl'[t] = Append(pl[t], r)
    BY <1>1, <1>2 DEF TypeOK
<1>4. /\ Len(pl[t]) \in Nat /\ Len(pl'[t]) = Len(pl[t]) + 1 /\ pl'[t] # << >>
      /\ \A i \in 1 .. Len(pl[t]) : pl'[t][i] = pl[t][i]
      /\ pl'[t][Len(pl[t]) + 1] = r
    BY <1>1, <1>2, <1>3
<1>5. DOMAIN pl[t] = 1 .. Len(pl[t]) /\ DOMAIN pl'[t] = 1 .. Len(pl[t]) + 1
    BY <1>2, <1>3, <1>4
<1>6. \A m \in Locks : Holds(t, m)' <=> Holds(t, m) \/ m = l
    BY <1>1, <1>4, <1>5 DEF Holds
<1>7. \A u \in Threads, m \in Locks : u # t => (Holds(u, m)' <=> Holds(u, m))
    BY <1>3 DEF Holds
<1>8. QED  BY <1>1, <1>3, <1>4, <1>6, <1>7

\* All but the last of a sequence.
LEMMA ButLast ==
    ASSUME NEW S, NEW s \in Seq(S), s # << >>
    PROVE  /\ SubSeq(s, 1, Len(s) - 1) \in Seq(S)
           /\ Len(s) \in Nat /\ Len(s) >= 1 /\ Len(SubSeq(s, 1, Len(s) - 1)) = Len(s) - 1
           /\ \A i \in 1 .. Len(s) - 1 : SubSeq(s, 1, Len(s) - 1)[i] = s[i]
<1>1. Len(s) \in Nat /\ Len(s) >= 1
    OBVIOUS
<1>2. \A i \in 1 .. Len(s) - 1 : s[i] \in S
    BY <1>1
<1> DEFINE n == Len(s) - 1
<1>3. n \in Nat /\ 1 \in 1 .. n + 1 /\ n \in 0 .. n + 1 /\ Len(s) = n + 1
    BY <1>1
<1>4. \A i \in 1 .. n : s[i] \in S
    BY <1>2
<1> HIDE DEF n
<1>5. SubSeq(s, 1, n) \in Seq(S) /\ Len(SubSeq(s, 1, n)) = n
      /\ \A i \in 1 .. n : SubSeq(s, 1, n)[i] = s[i]
    BY <1>3, <1>4, SubSeqProperties
<1>6. QED  BY <1>1, <1>5 DEF n

\* Popping the innermost lock of thread t.
LEMMA Popped ==
    ASSUME TypeOK, Stack, NEW t \in Threads, lk[t] # Nil,
           pl' = [pl EXCEPT ![t] = SubSeq(@, 1, Len(@) - 1)]
    PROVE  /\ pl' \in [Threads -> Seq(Frame)]
           /\ \A u \in Threads : u # t => pl'[u] = pl[u]
           /\ Len(pl[t]) \in Nat /\ Len(pl'[t]) = Len(pl[t]) - 1 /\ Len(pl[t]) >= 1
           /\ \A i \in 1 .. Len(pl[t]) - 1 : pl'[t][i] = pl[t][i]
           /\ pl[t][Len(pl[t])].l = lk[t]
           /\ \A u \in Threads, m \in Locks :
                 Holds(u, m)' <=> Holds(u, m) /\ ~(u = t /\ m = lk[t])
<1>1. /\ pl[t] \in Seq(Frame) /\ pl[t] # << >>
      /\ pl[t][Len(pl[t])].l = lk[t]
    BY DEF TypeOK, Stack, Nest
<1>2. Len(pl[t]) \in Nat /\ Len(pl[t]) >= 1
    BY <1>1
<1>3. /\ pl' \in [Threads -> Seq(Frame)]
      /\ \A u \in Threads : u # t => pl'[u] = pl[u]
      /\ pl'[t] = SubSeq(pl[t], 1, Len(pl[t]) - 1)
    BY <1>1, <1>2 DEF TypeOK
<1>4. /\ Len(pl'[t]) = Len(pl[t]) - 1
      /\ \A i \in 1 .. Len(pl[t]) - 1 : pl'[t][i] = pl[t][i]
    BY <1>1, <1>3, ButLast
<1>5. DOMAIN pl[t] = 1 .. Len(pl[t]) /\ DOMAIN pl'[t] = 1 .. Len(pl[t]) - 1
    BY <1>1, <1>3, <1>4
<1>6. \A i \in 1 .. Len(pl[t]) - 1 : pl[t][i].l # lk[t]
  <2> SUFFICES ASSUME NEW i \in 1 .. Len(pl[t]) - 1 PROVE pl[t][i].l # lk[t]
      OBVIOUS
  <2>1. pl[t][i] \in Frame /\ pl[t][Len(pl[t])] \in Frame
      BY <1>1, <1>2
  <2>2. \A j, k \in 1 .. Len(pl[t]) : j < k => pl[t][j].l < pl[t][k].l
      BY DEF Stack, Nest
  <2>3. i \in 1 .. Len(pl[t]) /\ Len(pl[t]) \in 1 .. Len(pl[t]) /\ i < Len(pl[t])
      BY <1>2
  <2>4. pl[t][i].l < pl[t][Len(pl[t])].l
      BY <2>2, <2>3, Zenon
  <2>5. QED  BY <1>1, <2>1, <2>4 DEF Frame, Locks
<1>7. \A m \in Locks : Holds(t, m)' <=> Holds(t, m) /\ m # lk[t]
  <2> SUFFICES ASSUME NEW m \in Locks PROVE Holds(t, m)' <=> Holds(t, m) /\ m # lk[t]
      OBVIOUS
  <2>1. ASSUME Holds(t, m)' PROVE Holds(t, m) /\ m # lk[t]
    <3>1. PICK i \in 1 .. Len(pl[t]) - 1 : pl'[t][i].l = m
        BY <2>1, <1>5 DEF Holds
    <3>2. pl[t][i].l = m /\ i \in 1 .. Len(pl[t])
        BY <3>1, <1>2, <1>4
    <3>3. QED  BY <3>1, <3>2, <1>5, <1>6 DEF Holds
  <2>2. ASSUME Holds(t, m), m # lk[t] PROVE Holds(t, m)'
    <3>1. PICK i \in 1 .. Len(pl[t]) : pl[t][i].l = m
        BY <2>2, <1>5 DEF Holds
    <3>2. i \in 1 .. Len(pl[t]) - 1
        BY <3>1, <2>2, <1>1, <1>2
    <3>3. QED  BY <3>1, <3>2, <1>4, <1>5 DEF Holds
  <2>3. QED  BY <2>1, <2>2
<1>8. \A u \in Threads, m \in Locks : u # t => (Holds(u, m)' <=> Holds(u, m))
    BY <1>3 DEF Holds
<1>9. QED  BY <1>1, <1>2, <1>3, <1>4, <1>7, <1>8

\* The lock a thread is about is one it holds or is about to.
LEMMA About ==
    ASSUME TypeOK, Stack, NEW t \in Threads, pc[t] \notin {"off", "run"}
    PROVE  lk[t] \in Locks /\ Holds(t, lk[t])
<1>1. lk[t] \in Locks /\ pl[t] # << >> /\ pl[t][Len(pl[t])].l = lk[t]
    BY DEF TypeOK, Stack, Nest
<1>2. Len(pl[t]) \in DOMAIN pl[t]
    BY <1>1 DEF TypeOK
<1>3. QED  BY <1>1, <1>2 DEF Holds

\* The entry of a thread that has claimed one.
LEMMA Claimed ==
    ASSUME TypeOK, Stack, Table, NEW t \in Threads,
           pc[t] \notin {"off", "run", "alloc", "claim"}
    PROVE  /\ lk[t] \in Locks /\ Busy(t, lk[t]) /\ Ent(t, lk[t]) = ql[t]
           /\ ql[t] \in Entries /\ ql[t][1] = t[1] /\ used[ql[t]] = lk[t]
           /\ \A u \in Threads, m \in Locks : Busy(u, m) /\ Ent(u, m) = ql[t] => u = t /\ m = lk[t]
           /\ \A u \in Threads : pc[u] \notin {"off", "run", "alloc", "claim"} /\ ql[u] = ql[t] => u = t
<1>1. lk[t] \in Locks /\ Busy(t, lk[t]) /\ Ent(t, lk[t]) = ql[t]
    BY About DEF Busy, Ent
<1>2. ql[t] \in Entries /\ ql[t][1] = t[1] /\ used[ql[t]] = lk[t]
    BY <1>1 DEF Table
<1>3. \A u \in Threads, m \in Locks : Busy(u, m) /\ Ent(u, m) = ql[t] => u = t /\ m = lk[t]
    BY <1>1, <1>2 DEF Table
<1>4. \A u \in Threads : pc[u] \notin {"off", "run", "alloc", "claim"} =>
         lk[u] \in Locks /\ Busy(u, lk[u]) /\ Ent(u, lk[u]) = ql[u]
    BY About DEF Busy, Ent
<1>5. QED  BY <1>1, <1>2, <1>3, <1>4

\* The table is as it was if who has which entry is.
LEMMA TableKept ==
    ASSUME Table, UNCHANGED used,
           \A u \in Threads, m \in Locks : Busy(u, m)' <=> Busy(u, m),
           \A u \in Threads, m \in Locks : Busy(u, m) => Ent(u, m)' = Ent(u, m),
           \A u \in Threads : pc'[u] = "claim" => pc[u] = "claim" /\ ql'[u] = ql[u],
           \A u \in Threads : pc'[u] \in {"off", "run", "alloc"} => ql'[u] = Nil,
           TypeOK
    PROVE  Table'
<1>1. \A a \in Entries : used[a] # Nil => used[a] \in Locks
    BY DEF TypeOK
<1>2. \A u \in Threads : pc[u] = "claim" => ql[u] \in Entries
    BY DEF Table
<1>3. QED  BY <1>1, <1>2 DEF Table

\* The line is as it was if who is in it, and waits there, is.
LEMMA MembersKept ==
    ASSUME NEW Q, Members(Q),
           \A u \in Threads, m \in Locks : InLine(u, m)' <=> InLine(u, m),
           \A u \in Threads, m \in Locks : InLine(u, m) =>
              /\ Ent(u, m)' = Ent(u, m)
              /\ (lk'[u] = m /\ Waits(u)') <=> (lk[u] = m /\ Waits(u))
              /\ lk[u] = m /\ Waits(u) => pred'[u] = pred[u]
    PROVE  Members(Q)'
BY DEF Members

\* An entry that is not in line for its lock is in no line at all.
LEMMA Outside ==
    ASSUME TypeOK, Stack, Table, NEW Q, Members(Q), NEW t \in Threads,
           pc[t] \in {"swap", "cas", "free"}
    PROVE  \A m \in Locks : \A i \in 1 .. Len(Q[m]) : Q[m][i] # ql[t]
<1> SUFFICES ASSUME NEW m \in Locks, NEW i \in 1 .. Len(Q[m]), Q[m][i] = ql[t]
             PROVE  FALSE
    OBVIOUS
<1>1. PICK u \in Threads : InLine(u, m) /\ Ent(u, m) = ql[t]
    BY DEF Members
<1>2. u = t /\ m = lk[t]
    BY <1>1, Claimed DEF InLine, Busy
<1>3. QED  BY <1>1, <1>2 DEF InLine

\* Lines have no entry in common.
LEMMA Apart ==
    ASSUME TypeOK, Table, NEW Q, Members(Q), NEW l \in Locks, NEW m \in Locks,
           NEW i \in 1 .. Len(Q[l]), NEW j \in 1 .. Len(Q[m]), Q[l][i] = Q[m][j]
    PROVE  l = m
<1>1. PICK t \in Threads : InLine(t, l) /\ Ent(t, l) = Q[l][i]
    BY DEF Members
<1>2. PICK u \in Threads : InLine(u, m) /\ Ent(u, m) = Q[m][j]
    BY DEF Members
<1>3. used[Q[l][i]] = l /\ used[Q[m][j]] = m
    BY <1>1, <1>2 DEF Table, InLine, Busy
<1>4. QED  BY <1>3

\* The levels are as they were if the stacks are.
LEMMA LevelsKept ==
    ASSUME Levels, UNCHANGED <<pl, hi>>,
           \A c \in Cpus : pc'[<<c, "intr">>] = "off" <=> pc[<<c, "intr">>] = "off"
    PROVE  Levels'
BY DEF Levels, Level, Holds

\* So are those of a processor none of whose threads acts.
LEMMA Elsewhere ==
    ASSUME Levels, NEW t \in Threads, NEW c \in Cpus, c # t[1],
           hi'[c] = hi[c],
           \A u \in Threads : u # t => pl'[u] = pl[u] /\ pc'[u] = pc[u]
    PROVE  Level(c)'
<1>1. /\ pl'[<<c, "base">>] = pl[<<c, "base">>] /\ pl'[<<c, "intr">>] = pl[<<c, "intr">>]
      /\ pc'[<<c, "intr">>] = pc[<<c, "intr">>]
  <2>1. <<c, "base">> \in Threads /\ <<c, "intr">> \in Threads
      BY ThreadFacts
  <2>2. <<c, "base">> # t /\ <<c, "intr">> # t
      OBVIOUS
  <2>3. QED  BY <2>1, <2>2
<1>2. Level(c)
    BY DEF Levels
<1>3. QED  BY <1>1, <1>2 DEF Level, Holds

\* A step of a call that has its entry changes nothing but the lines.
InCall == Pcs \ {"off", "run", "alloc", "claim"}

LEMMA Stepped ==
    ASSUME TypeOK, Stack, Levels, Table, NEW t \in Threads, NEW x \in InCall \ {"cas"},
           pc[t] \in InCall, pc' = [pc EXCEPT ![t] = x],
           UNCHANGED <<e, used, hi, lk, ql, pl, try>>
    PROVE  /\ pc' \in [Threads -> Pcs] /\ Stack' /\ Levels' /\ Table'
           /\ \A u \in Threads, m \in Locks : Ent(u, m)' = Ent(u, m)
           /\ \A u \in Threads, m \in Locks :
                 u # t \/ m # lk[t] => (InLine(u, m)' <=> InLine(u, m))
           /\ \A m \in Locks : m = lk[t] => (InLine(t, m)' <=> x \notin {"swap", "free"})
           /\ pc'[t] = x /\ \A u \in Threads : u # t => pc'[u] = pc[u]
<1>1. /\ pc' \in [Threads -> Pcs]
      /\ pc'[t] = x /\ \A u \in Threads : u # t => pc'[u] = pc[u]
    BY DEF TypeOK, InCall
<1>2. x \in Pcs \ {"off", "run", "alloc", "claim", "cas"}
      /\ pc[t] \notin {"off", "run", "alloc", "claim"}
    BY DEF InCall
<1>3. Stack'
    BY <1>1, <1>2 DEF Stack, Nest
<1>4. \A c \in Cpus : pc'[<<c, "intr">>] = "off" <=> pc[<<c, "intr">>] = "off"
    BY <1>1, <1>2, ThreadFacts
<1>5. Levels'
    BY <1>4, LevelsKept
<1>6. \A u \in Threads, m \in Locks : Holds(u, m)' <=> Holds(u, m)
    BY DEF Holds
<1>7. \A u \in Threads, m \in Locks : Ent(u, m)' = Ent(u, m)
    BY DEF Ent
<1>8. \A u \in Threads, m \in Locks : Busy(u, m)' <=> Busy(u, m)
    BY <1>1, <1>2, <1>6 DEF Busy
<1>9. Table'
  <2>1. \A u \in Threads : pc'[u] = "claim" => pc[u] = "claim" /\ ql'[u] = ql[u]
      BY <1>1, <1>2
  <2>2. \A u \in Threads : pc'[u] \in {"off", "run", "alloc"} => ql'[u] = Nil
      BY <1>1, <1>2 DEF Table
  <2>3. QED  BY <2>1, <2>2, <1>7, <1>8, TableKept
<1>10. \A u \in Threads, m \in Locks :
          u # t \/ m # lk[t] => (InLine(u, m)' <=> InLine(u, m))
    BY <1>1, <1>6 DEF InLine
<1>11. \A m \in Locks : m = lk[t] => (InLine(t, m)' <=> x \notin {"swap", "free"})
    BY <1>1, <1>2, <1>6, About DEF InLine
<1>12. QED  BY <1>1, <1>3, <1>5, <1>7, <1>9, <1>10, <1>11

\* Who is waiting, apart from t, waits on an entry of its own.
LEMMA OthersWait ==
    ASSUME TypeOK, Stack, Table, NEW t \in Threads, pc[t] \in InCall,
           UNCHANGED ql, \A u \in Threads : u # t => pc'[u] = pc[u],
           \A a \in Entries : a # ql[t] => locked'[a] = locked[a]
    PROVE  \A u \in Threads : u # t => (Waits(u)' <=> Waits(u))
<1> SUFFICES ASSUME NEW u \in Threads, u # t PROVE Waits(u)' <=> Waits(u)
    OBVIOUS
<1>1. CASE pc[u] # "spin"
    BY <1>1 DEF Waits
<1>2. CASE pc[u] = "spin"
    BY <1>2, Claimed DEF Waits, InCall
<1>3. QED  BY <1>1, <1>2

\* The first in line is the owner, and the only thread in line not to wait.
LEMMA Owner ==
    ASSUME TypeOK, Stack, Table, NEW Q, Members(Q), NEW l \in Locks,
           NEW t \in Threads, InLine(t, l), ~(lk[t] = l /\ Waits(t))
    PROVE  /\ 1 \in 1 .. Len(Q[l]) /\ Ent(t, l) = Q[l][1]
           /\ \A u \in Threads : InLine(u, l) /\ ~(lk[u] = l /\ Waits(u)) => u = t
<1>1. 1 \in 1 .. Len(Q[l]) /\ Ent(t, l) = Q[l][1]
    BY DEF Members
<1>2. ASSUME NEW u \in Threads, InLine(u, l), ~(lk[u] = l /\ Waits(u)) PROVE u = t
  <2>1. Ent(u, l) = Q[l][1]
      BY <1>2 DEF Members
  <2>2. QED  BY <1>1, <1>2, <2>1 DEF Table, InLine, Busy
<1>3. QED  BY <1>1, <1>2

\* A waiter's place in the line.
LEMMA Waiter ==
    ASSUME TypeOK, Stack, Table, NEW Q, Members(Q), NEW t \in Threads, Waits(t)
    PROVE  /\ lk[t] \in Locks /\ InLine(t, lk[t]) /\ Ent(t, lk[t]) = ql[t]
           /\ \E i \in 2 .. Len(Q[lk[t]]) :
                 ql[t] = Q[lk[t]][i] /\ pred[t] = Q[lk[t]][i - 1]
<1>1. pc[t] \in {"flag", "link", "spin"}
    BY DEF Waits
<1>2. lk[t] \in Locks /\ InLine(t, lk[t]) /\ Ent(t, lk[t]) = ql[t]
    BY <1>1, Claimed, About DEF InLine, InCall
<1>3. PICK i \in 1 .. Len(Q[lk[t]]) :
         Ent(t, lk[t]) = Q[lk[t]][i] /\ i > 1 /\ pred[t] = Q[lk[t]][i - 1]
    BY <1>2 DEF Members
<1>4. i \in 2 .. Len(Q[lk[t]])
    BY <1>3
<1>5. QED  BY <1>2, <1>3, <1>4

\* A step outside the lines leaves them alone.
Lined == {"flag", "link", "spin", "grant"}

LEMMA LineKept ==
    ASSUME TypeOK, Stack, Table, NEW Q \in [Locks -> Seq(Entries)],
           Lines(Q), Members(Q), Links(Q), UNCHANGED head,
           \A m \in Locks : \A i \in 1 .. Len(Q[m]) :
              next'[Q[m][i]] = next[Q[m][i]] /\ locked'[Q[m][i]] = locked[Q[m][i]],
           \A u \in Threads, m \in Locks : InLine(u, m)' <=> InLine(u, m),
           \A u \in Threads, m \in Locks : InLine(u, m) => Ent(u, m)' = Ent(u, m),
           \A u \in Threads : pc[u] \in Lined \/ pc'[u] \in Lined =>
              pc'[u] = pc[u] /\ lk'[u] = lk[u] /\ ql'[u] = ql[u] /\ pred'[u] = pred[u]
    PROVE  Lines(Q)' /\ Members(Q)' /\ Links(Q)'
<1>1. ASSUME NEW u \in Threads, pc[u] \in Lined
      PROVE  locked'[ql[u]] = locked[ql[u]] /\ next'[ql[u]] = next[ql[u]]
  <2>1. lk[u] \in Locks /\ InLine(u, lk[u]) /\ Ent(u, lk[u]) = ql[u]
      BY <1>1, Claimed, About DEF InLine, Lined
  <2>2. PICK i \in 1 .. Len(Q[lk[u]]) : ql[u] = Q[lk[u]][i]
      BY <2>1 DEF Members
  <2>3. QED  BY <2>1, <2>2
<1>2. \A u \in Threads : pc[u] \in {"flag", "link", "spin"} \/ pc'[u] \in {"flag", "link", "spin"} =>
         (Waits(u)' <=> Waits(u)) /\ lk'[u] = lk[u] /\ pred'[u] = pred[u]
    BY <1>1 DEF Waits, Lined
<1>3. \A u \in Threads, m \in Locks :
         /\ (lk'[u] = m /\ Waits(u)') <=> (lk[u] = m /\ Waits(u))
         /\ lk[u] = m /\ Waits(u) => pred'[u] = pred[u]
    BY <1>2 DEF Waits
<1>4. Lines(Q)' /\ Members(Q)'
    BY <1>3, MembersKept DEF Lines
<1>5. ASSUME NEW u \in Threads, pc'[u] \in {"flag", "link"} PROVE next'[pred'[u]] = Nil
  <2>1. pc[u] \in {"flag", "link"} /\ pred'[u] = pred[u] /\ Waits(u) /\ next[pred[u]] = Nil
      BY <1>5 DEF Lined, Waits, Links
  <2>2. /\ lk[u] \in Locks
        /\ \E k \in 2 .. Len(Q[lk[u]]) : ql[u] = Q[lk[u]][k] /\ pred[u] = Q[lk[u]][k - 1]
      BY <2>1, Waiter
  <2>3. PICK k \in 2 .. Len(Q[lk[u]]) : pred[u] = Q[lk[u]][k - 1]
      BY <2>2
  <2>4. k - 1 \in 1 .. Len(Q[lk[u]])
      OBVIOUS
  <2>5. next'[pred[u]] = next[pred[u]]
      BY <2>2, <2>3, <2>4
  <2>6. QED  BY <2>1, <2>5
<1>6. \A u \in Threads :
         /\ pc'[u] = "link" => locked'[ql'[u]]
         /\ pc'[u] = "grant" => next'[ql'[u]] # Nil
    BY <1>1 DEF Links, Lined
<1>7. Links(Q)'
    BY <1>5, <1>6 DEF Links
<1>8. QED  BY <1>4, <1>7

\* A lock's line with one more entry at its end.
LEMMA Extended ==
    ASSUME NEW Q \in [Locks -> Seq(Entries)], NEW l \in Locks, NEW a \in Entries,
           NEW R, R = [Q EXCEPT ![l] = Append(Q[l], a)]
    PROVE  /\ R \in [Locks -> Seq(Entries)]
           /\ \A m \in Locks : m # l => R[m] = Q[m]
           /\ Len(Q[l]) \in Nat /\ Len(R[l]) = Len(Q[l]) + 1 /\ R[l] # << >>
           /\ R[l][Len(Q[l]) + 1] = a
           /\ \A m \in Locks : \A j \in 1 .. Len(Q[m]) :
                 j \in 1 .. Len(R[m]) /\ R[m][j] = Q[m][j] /\ Q[m][j] \in Entries
           /\ \A m \in Locks : \A j \in 1 .. Len(R[m]) :
                 j \in 1 .. Len(Q[m]) \/ (m = l /\ j = Len(Q[l]) + 1)
<1>1. /\ Q[l] \in Seq(Entries) /\ R[l] = Append(Q[l], a)
      /\ \A m \in Locks : m # l => R[m] = Q[m]
    OBVIOUS
<1>2. /\ Len(Q[l]) \in Nat /\ Append(Q[l], a) \in Seq(Entries)
      /\ Len(R[l]) = Len(Q[l]) + 1 /\ R[l] # << >> /\ R[l][Len(Q[l]) + 1] = a
      /\ \A j \in 1 .. Len(Q[l]) : R[l][j] = Q[l][j]
    BY <1>1
<1>3. R \in [Locks -> Seq(Entries)]
    BY <1>2
<1>4. ASSUME NEW m \in Locks, NEW j \in 1 .. Len(Q[m])
      PROVE  j \in 1 .. Len(R[m]) /\ R[m][j] = Q[m][j] /\ Q[m][j] \in Entries
  <2>1. Q[m] \in Seq(Entries) /\ Q[m][j] \in Entries
      OBVIOUS
  <2>2. QED  BY <2>1, <1>1, <1>2
<1>5. ASSUME NEW m \in Locks, NEW j \in 1 .. Len(R[m])
      PROVE  j \in 1 .. Len(Q[m]) \/ (m = l /\ j = Len(Q[l]) + 1)
    BY <1>1, <1>2
<1>6. QED  BY <1>1, <1>2, <1>3, <1>4, <1>5

----------------------------------------------------------------------------
(* The steps of a call: one lemma per action.                              *)

\* A thread raises its flag before it links itself.
LEMMA FlagStep ==
    ASSUME IInv, NEW t \in Threads, mcslockFlag(t)
    PROVE  IInv'
<1> USE DEF IInv
<1>1. PICK Q \in [Locks -> Seq(Entries)] : Lines(Q) /\ Members(Q) /\ Links(Q)
    OBVIOUS
<1>2. /\ pc[t] = "flag" /\ pc' = [pc EXCEPT ![t] = "link"]
      /\ locked' = [locked EXCEPT ![ql[t]] = TRUE]
      /\ UNCHANGED <<head, e, used, next, hi, lk, ql, pred, pl, try>>
    BY DEF mcslockFlag, At
<1>3. /\ pc[t] \in InCall /\ "link" \in InCall \ {"cas"}
      /\ ql[t] \in Entries
    BY <1>2, Claimed DEF InCall
<1>4. /\ pc' \in [Threads -> Pcs] /\ Stack' /\ Levels' /\ Table'
      /\ \A u \in Threads, m \in Locks : Ent(u, m)' = Ent(u, m)
      /\ \A u \in Threads, m \in Locks :
            u # t \/ m # lk[t] => (InLine(u, m)' <=> InLine(u, m))
      /\ \A m \in Locks : m = lk[t] => InLine(t, m)'
      /\ pc'[t] = "link" /\ \A u \in Threads : u # t => pc'[u] = pc[u]
    BY <1>2, <1>3, Stepped
<1>5. TypeOK' /\ locked'[ql[t]] /\ \A a \in Entries : a # ql[t] => locked'[a] = locked[a]
    BY <1>2, <1>3, <1>4 DEF TypeOK
<1>6. Waits(t)' /\ Waits(t) /\ InLine(t, lk[t]) /\ lk[t] \in Locks
    BY <1>1, <1>2, <1>4, Waiter DEF Waits
<1>7. \A u \in Threads : Waits(u)' <=> Waits(u)
    BY <1>2, <1>3, <1>4, <1>5, <1>6, OthersWait
<1>8. Lines(Q)' /\ Members(Q)'
  <2>1. \A u \in Threads, m \in Locks : InLine(u, m)' <=> InLine(u, m)
      BY <1>4, <1>6
  <2>2. QED  BY <2>1, <1>1, <1>2, <1>4, <1>7, MembersKept DEF Lines
<1>9. Links(Q)'
  <2>1. \A u \in Threads : pc'[u] = "link" => locked'[ql'[u]]
    <3> SUFFICES ASSUME NEW u \in Threads, pc'[u] = "link", u # t PROVE locked'[ql'[u]]
        BY <1>2, <1>5
    <3>1. pc[u] = "link" /\ locked[ql[u]] /\ ql[u] \in Entries /\ ql[u] # ql[t]
        BY <1>1, <1>2, <1>3, <1>4, Claimed, SMTT(40) DEF Links, InCall
    <3>2. QED  BY <3>1, <1>2, <1>5
  <2>2. QED  BY <2>1, <1>1, <1>2, <1>4 DEF Links
<1>10. QED  BY <1>4, <1>5, <1>8, <1>9

\* A thread links itself behind the entry that was last before it.
LEMMA LinkStep ==
    ASSUME IInv, NEW t \in Threads, mcslockLink(t)
    PROVE  IInv'
<1> USE DEF IInv
<1>1. PICK Q \in [Locks -> Seq(Entries)] : Lines(Q) /\ Members(Q) /\ Links(Q)
    OBVIOUS
<1>2. /\ pc[t] = "link" /\ pc' = [pc EXCEPT ![t] = "spin"]
      /\ next' = [next EXCEPT ![pred[t]] = ql[t]]
      /\ UNCHANGED <<head, e, used, locked, hi, lk, ql, pred, pl, try>>
    BY DEF mcslockLink, At
<1>3. /\ pc[t] \in InCall /\ "spin" \in InCall \ {"cas"}
      /\ ql[t] \in Entries /\ locked[ql[t]]
    BY <1>1, <1>2, Claimed DEF InCall, Links
<1>4. /\ pc' \in [Threads -> Pcs] /\ Stack' /\ Levels' /\ Table'
      /\ \A u \in Threads, m \in Locks : Ent(u, m)' = Ent(u, m)
      /\ \A u \in Threads, m \in Locks :
            u # t \/ m # lk[t] => (InLine(u, m)' <=> InLine(u, m))
      /\ \A m \in Locks : m = lk[t] => InLine(t, m)'
      /\ pc'[t] = "spin" /\ \A u \in Threads : u # t => pc'[u] = pc[u]
    BY <1>2, <1>3, Stepped
<1>5. Waits(t)' /\ Waits(t)
    BY <1>2, <1>3, <1>4 DEF Waits
<1> DEFINE l == lk[t]
<1>6. l \in Locks /\ InLine(t, l)
    BY <1>1, <1>5, Waiter
<1>7. PICK i \in 2 .. Len(Q[l]) : ql[t] = Q[l][i] /\ pred[t] = Q[l][i - 1]
    BY <1>1, <1>5, Waiter
<1>8. i - 1 \in 1 .. Len(Q[l]) /\ i \in 1 .. Len(Q[l]) /\ pred[t] \in Entries
    BY <1>6, <1>7
<1>9. /\ TypeOK'
      /\ next'[pred[t]] = ql[t] /\ \A a \in Entries : a # pred[t] => next'[a] = next[a]
    BY <1>2, <1>3, <1>4, <1>8 DEF TypeOK
<1> HIDE DEF l
<1>10. \A u \in Threads : Waits(u)' <=> Waits(u)
    BY <1>2, <1>3, <1>4, <1>5, OthersWait
<1>11. Lines(Q)' /\ Members(Q)'
  <2>1. \A u \in Threads, m \in Locks : InLine(u, m)' <=> InLine(u, m)
      BY <1>4, <1>6 DEF l
  <2>2. QED  BY <2>1, <1>1, <1>2, <1>4, <1>10, MembersKept DEF Lines
<1>12. ASSUME NEW m \in Locks, NEW j \in 1 .. Len(Q[m]), Q[m][j] = pred[t]
       PROVE  m = l /\ j = i - 1
  <2>1. Q[m][j] = Q[l][i - 1]
      BY <1>7, <1>12
  <2>2. m = l
      BY <2>1, <1>1, <1>6, <1>8, Apart
  <2>3. QED  BY <2>1, <2>2, <1>1, <1>8 DEF Lines
<1>13. ASSUME NEW m \in Locks, NEW j \in 1 .. Len(Q[m]), next'[Q[m][j]] # Nil
       PROVE  j < Len(Q[m]) /\ next'[Q[m][j]] = Q[m][j + 1]
  <2>1. CASE Q[m][j] = pred[t]
    <3>1. m = l /\ j = i - 1
        BY <2>1, <1>12
    <3>2. QED  BY <3>1, <1>7, <1>9
  <2>2. CASE Q[m][j] # pred[t]
    <3>1. next'[Q[m][j]] = next[Q[m][j]]
        BY <2>2, <1>9
    <3>2. QED  BY <3>1, <1>1, <1>13 DEF Links
  <2>3. QED  BY <2>1, <2>2
<1>14. ASSUME NEW u \in Threads, pc'[u] \in {"flag", "link"} PROVE next'[pred'[u]] = Nil
  <2>1. u # t /\ pc[u] \in {"flag", "link"} /\ Waits(u) /\ next[pred[u]] = Nil
      BY <1>1, <1>4, <1>14 DEF Waits, Links
  <2>2. PICK k \in 2 .. Len(Q[lk[u]]) : ql[u] = Q[lk[u]][k] /\ pred[u] = Q[lk[u]][k - 1]
      BY <1>1, <2>1, Waiter
  <2>3. lk[u] \in Locks /\ k - 1 \in 1 .. Len(Q[lk[u]])
      BY <1>1, <2>1, <2>2, Waiter
  <2>4. pred[u] \in Entries
      BY <2>2, <2>3
  <2>5. pred[u] # pred[t]
    <3> SUFFICES ASSUME pred[u] = pred[t] PROVE FALSE
        OBVIOUS
    <3>1. lk[u] = l /\ k - 1 = i - 1
        BY <1>12, <2>2, <2>3
    <3>2. ql[u] = ql[t]
        BY <3>1, <2>2, <1>7
    <3>3. QED  BY <3>2, <2>1, <1>2, Claimed DEF InCall
  <2>6. QED  BY <2>1, <2>4, <2>5, <1>2, <1>9
<1>15. ASSUME NEW u \in Threads, pc'[u] = "grant" PROVE next'[ql'[u]] # Nil
  <2>1. pc[u] = "grant" /\ next[ql[u]] # Nil
      BY <1>1, <1>4, <1>15 DEF Links
  <2>2. ql[u] \in Entries
      BY <2>1, Claimed
  <2>3. QED  BY <2>1, <2>2, <1>2, <1>3, <1>9
<1>16. Links(Q)'
    BY <1>1, <1>2, <1>4, <1>13, <1>14, <1>15 DEF Links
<1>17. QED  BY <1>4, <1>9, <1>11, <1>16

\* A step that only tests: the spinner finds its flag down, the owner finds
\* its successor or that there is one.
LEMMA TestStep ==
    ASSUME IInv, NEW t \in Threads, NEW x \in {"own", "uncas", "catchup", "grant"},
           pc[t] \in {"spin", "unlock", "uncas", "catchup"},
           pc[t] = "spin" => ~locked[ql[t]],
           x = "grant" => next[ql[t]] # Nil,
           pc' = [pc EXCEPT ![t] = x],
           UNCHANGED <<head, e, used, next, locked, hi, lk, ql, pred, pl, try>>
    PROVE  IInv'
<1> USE DEF IInv
<1>1. PICK Q \in [Locks -> Seq(Entries)] : Lines(Q) /\ Members(Q) /\ Links(Q)
    OBVIOUS
<1>2. pc[t] \in InCall /\ x \in InCall \ {"cas"}
    BY DEF InCall
<1>3. /\ pc' \in [Threads -> Pcs] /\ Stack' /\ Levels' /\ Table'
      /\ \A u \in Threads, m \in Locks : Ent(u, m)' = Ent(u, m)
      /\ \A u \in Threads, m \in Locks :
            u # t \/ m # lk[t] => (InLine(u, m)' <=> InLine(u, m))
      /\ \A m \in Locks : m = lk[t] => InLine(t, m)'
      /\ pc'[t] = x /\ \A u \in Threads : u # t => pc'[u] = pc[u]
    BY <1>2, Stepped
<1>4. TypeOK'
    BY <1>3 DEF TypeOK
<1>5. InLine(t, lk[t]) /\ lk[t] \in Locks
    BY About DEF InLine
<1>6. \A u \in Threads : Waits(u)' <=> Waits(u)
    BY <1>3 DEF Waits
<1>7. Lines(Q)' /\ Members(Q)'
  <2>1. \A u \in Threads, m \in Locks : InLine(u, m)' <=> InLine(u, m)
      BY <1>3, <1>5
  <2>2. QED  BY <2>1, <1>1, <1>3, <1>6, MembersKept DEF Lines
<1>8. Links(Q)'
    BY <1>1, <1>3 DEF Links
<1>9. QED  BY <1>3, <1>4, <1>7, <1>8

\* fasp(), or the compare and swap of mcscanlock(): t is the last in line,
\* and owns the lock if it is also the first.
LEMMA EnqueueStep ==
    ASSUME IInv, NEW t \in Threads, pc[t] \in {"swap", "cas"},
           next' = [next EXCEPT ![ql[t]] = Nil],
           locked' = [locked EXCEPT ![ql[t]] = FALSE],
           head' = [head EXCEPT ![lk[t]] = ql[t]],
           pred' \in [Threads -> Entries \union {Nil}],
           \A u \in Threads : u # t => pred'[u] = pred[u],
           head[lk[t]] # Nil => pred'[t] = head[lk[t]],
           pc' = [pc EXCEPT ![t] = IF head[lk[t]] = Nil THEN "own" ELSE "flag"],
           UNCHANGED <<e, used, hi, lk, ql, pl, try>>
    PROVE  IInv'
<1> USE DEF IInv
<1>1. PICK Q \in [Locks -> Seq(Entries)] : Lines(Q) /\ Members(Q) /\ Links(Q)
    OBVIOUS
<1>2. PICK x : x = IF head[lk[t]] = Nil THEN "own" ELSE "flag"
    OBVIOUS
<1>3. pc[t] \in InCall /\ x \in InCall \ {"cas"} /\ pc' = [pc EXCEPT ![t] = x]
    BY <1>2 DEF InCall
<1>4. /\ pc' \in [Threads -> Pcs] /\ Stack' /\ Levels' /\ Table'
      /\ \A u \in Threads, m \in Locks : Ent(u, m)' = Ent(u, m)
      /\ \A u \in Threads, m \in Locks :
            u # t \/ m # lk[t] => (InLine(u, m)' <=> InLine(u, m))
      /\ \A m \in Locks : m = lk[t] => InLine(t, m)'
      /\ pc'[t] = x /\ \A u \in Threads : u # t => pc'[u] = pc[u]
  <2>1. x \notin {"swap", "free"}
      BY <1>2
  <2>2. QED  BY <2>1, <1>3, Stepped
<1>5. PICK l, a : l = lk[t] /\ a = ql[t]
    OBVIOUS
<1>6. /\ l \in Locks /\ a \in Entries /\ Ent(t, l) = a /\ ~InLine(t, l)
      /\ l' = l /\ a' = a
    BY <1>3, <1>5, Claimed DEF InCall, InLine
<1>7. /\ TypeOK'
      /\ next'[a] = Nil /\ \A b \in Entries : b # a => next'[b] = next[b]
      /\ locked'[a] = FALSE /\ \A b \in Entries : b # a => locked'[b] = locked[b]
      /\ head'[l] = a /\ \A m \in Locks : m # l => head'[m] = head[m]
    BY <1>4, <1>5, <1>6 DEF TypeOK
<1>8. \A m \in Locks : \A j \in 1 .. Len(Q[m]) : Q[m][j] # a
    BY <1>1, <1>5, Outside
<1>9. PICK R : R = [Q EXCEPT ![l] = Append(Q[l], a)]
    OBVIOUS
<1>10. /\ R \in [Locks -> Seq(Entries)]
       /\ \A m \in Locks : m # l => R[m] = Q[m]
       /\ Len(Q[l]) \in Nat /\ Len(R[l]) = Len(Q[l]) + 1 /\ R[l] # << >>
       /\ R[l][Len(Q[l]) + 1] = a
  <2>1. l \in Locks /\ a \in Entries
      BY <1>6
  <2> HIDE DEF IInv
  <2>2. R \in [Locks -> Seq(Entries)]
      BY <2>1, <1>9, Extended
  <2>3. \A m \in Locks : m # l => R[m] = Q[m]
      BY <2>1, <1>9, Extended
  <2>4. Len(Q[l]) \in Nat /\ Len(R[l]) = Len(Q[l]) + 1
      BY <2>1, <1>9, Extended
  <2>5. R[l] # << >>
      BY <2>1, <1>9, Extended
  <2>6. R[l][Len(Q[l]) + 1] = a
      BY <2>1, <1>9, Extended
  <2>7. QED  BY <2>2, <2>3, <2>4, <2>5, <2>6
<1>11. \A m \in Locks : \A j \in 1 .. Len(Q[m]) :
          j \in 1 .. Len(R[m]) /\ R[m][j] = Q[m][j] /\ Q[m][j] \in Entries
    BY <1>6, <1>9, Extended
<1>12. \A m \in Locks : \A j \in 1 .. Len(R[m]) :
          j \in 1 .. Len(Q[m]) \/ (m = l /\ j = Len(Q[l]) + 1)
    BY <1>6, <1>9, Extended
<1>13. Lines(R)'
  <2>1. \A m \in Locks : \A i, j \in 1 .. Len(R[m]) : R[m][i] = R[m][j] => i = j
    <3> SUFFICES ASSUME NEW m \in Locks, NEW i \in 1 .. Len(R[m]), NEW j \in 1 .. Len(R[m]),
                        R[m][i] = R[m][j]
                 PROVE  i = j
        OBVIOUS
    <3>1. CASE i \in 1 .. Len(Q[m]) /\ j \in 1 .. Len(Q[m])
        BY <3>1, <1>1, <1>11 DEF Lines
    <3>2. CASE i \in 1 .. Len(Q[m]) /\ m = l /\ j = Len(Q[l]) + 1
      <4>1. R[m][i] = Q[m][i] /\ Q[m][i] # a
          BY <3>2, <1>8, <1>11
      <4>2. R[m][j] = a
          BY <3>2, <1>10
      <4>3. QED  BY <4>1, <4>2
    <3>3. CASE j \in 1 .. Len(Q[m]) /\ m = l /\ i = Len(Q[l]) + 1
      <4>1. R[m][j] = Q[m][j] /\ Q[m][j] # a
          BY <3>3, <1>8, <1>11
      <4>2. R[m][i] = a
          BY <3>3, <1>10
      <4>3. QED  BY <4>1, <4>2
    <3>4. QED  BY <3>1, <3>2, <3>3, <1>12
  <2>2. \A m \in Locks : head'[m] = IF R[m] = << >> THEN Nil ELSE R[m][Len(R[m])]
    <3>1. head'[l] = IF R[l] = << >> THEN Nil ELSE R[l][Len(R[l])]
        BY <1>7, <1>10
    <3>2. QED  BY <3>1, <1>1, <1>7, <1>10 DEF Lines
  <2>3. QED  BY <2>1, <2>2, <1>10 DEF Lines
<1>14. \A u \in Threads : u # t => (Waits(u)' <=> Waits(u))
    BY <1>3, <1>4, <1>5, <1>7, OthersWait
<1>15. \/ head[l] = Nil /\ Len(Q[l]) = 0 /\ pc'[t] = "own" /\ ~Waits(t)'
       \/ /\ head[l] # Nil /\ Len(Q[l]) >= 1 /\ pc'[t] = "flag" /\ Waits(t)'
          /\ pred'[t] = Q[l][Len(Q[l])]
  <2>1. Q[l] \in Seq(Entries) /\ head[l] = IF Q[l] = << >> THEN Nil ELSE Q[l][Len(Q[l])]
      BY <1>1, <1>6 DEF Lines
  <2>2. CASE Q[l] = << >>
      BY <2>1, <2>2, <1>2, <1>4, <1>5 DEF Waits
  <2>3. CASE Q[l] # << >>
    <3>1. Len(Q[l]) >= 1 /\ head[l] = Q[l][Len(Q[l])] /\ head[l] \in Entries
        BY <2>1, <2>3, <1>10
    <3>2. QED  BY <3>1, <1>2, <1>4, <1>5 DEF Waits
  <2>4. QED  BY <2>2, <2>3
<1>16. Members(R)'
  <2>1. ASSUME NEW m \in Locks, NEW j \in 1 .. Len(R[m])
        PROVE  \E u \in Threads : InLine(u, m)' /\ Ent(u, m)' = R[m][j]
    <3>1. CASE j \in 1 .. Len(Q[m])
      <4>1. PICK u \in Threads : InLine(u, m) /\ Ent(u, m) = Q[m][j]
          BY <3>1, <1>1 DEF Members
      <4>2. InLine(u, m)'
          BY <4>1, <1>4, <1>5, <1>6
      <4>3. Ent(u, m)' = R[m][j]
          BY <3>1, <4>1, <1>4, <1>11
      <4>4. QED  BY <4>2, <4>3
    <3>2. CASE m = l /\ j = Len(Q[l]) + 1
      <4>1. InLine(t, l)' /\ Ent(t, l)' = a
          BY <1>4, <1>5, <1>6
      <4>2. R[m][j] = a
          BY <3>2, <1>10
      <4>3. QED  BY <3>2, <4>1, <4>2
    <3>3. QED  BY <3>1, <3>2, <1>12
  <2>2. ASSUME NEW u \in Threads, NEW m \in Locks, InLine(u, m)'
        PROVE  \E j \in 1 .. Len(R[m]) :
                  /\ Ent(u, m)' = R[m][j]
                  /\ lk'[u] = m /\ Waits(u)' => j > 1 /\ pred'[u] = R[m][j - 1]
                  /\ ~(lk'[u] = m /\ Waits(u)') => j = 1
    <3>1. CASE u = t /\ m = l
      <4>1. Len(Q[l]) + 1 \in 1 .. Len(R[l]) /\ Ent(t, l)' = R[l][Len(Q[l]) + 1] /\ lk'[t] = l
          BY <1>4, <1>5, <1>6, <1>10
      <4>2. Len(Q[l]) >= 1 => R[l][Len(Q[l])] = Q[l][Len(Q[l])]
        <5>1. Len(Q[l]) >= 1 => Len(Q[l]) \in 1 .. Len(Q[l])
            BY <1>10
        <5>2. QED  BY <5>1, <1>6, <1>11
      <4>3. QED  BY <3>1, <4>1, <4>2, <1>10, <1>15
    <3>2. CASE ~(u = t /\ m = l)
      <4>1. InLine(u, m)
          BY <2>2, <3>2, <1>4, <1>5
      <4>2. PICK j \in 1 .. Len(Q[m]) :
               /\ Ent(u, m) = Q[m][j]
               /\ lk[u] = m /\ Waits(u) => j > 1 /\ pred[u] = Q[m][j - 1]
               /\ ~(lk[u] = m /\ Waits(u)) => j = 1
          BY <4>1, <1>1 DEF Members
      <4>3. j > 1 => j - 1 \in 1 .. Len(Q[m])
          OBVIOUS
      <4>4. (lk'[u] = m /\ Waits(u)') <=> (lk[u] = m /\ Waits(u))
          BY <3>2, <1>5, <1>14
      <4>5. lk[u] = m => u # t
          BY <3>2, <1>5
      <4>6. j \in 1 .. Len(R[m]) /\ Ent(u, m)' = R[m][j]
          BY <4>2, <1>4, <1>11
      <4>7. lk[u] = m /\ Waits(u) => j > 1 /\ pred'[u] = R[m][j - 1]
          BY <4>2, <4>3, <4>5, <1>11
      <4>8. QED  BY <4>2, <4>4, <4>6, <4>7
    <3>3. QED  BY <3>1, <3>2
  <2>3. QED  BY <2>1, <2>2 DEF Members
<1>17. Links(R)'
  <2>1. ASSUME NEW m \in Locks, NEW j \in 1 .. Len(R[m]), next'[R[m][j]] # Nil
        PROVE  j < Len(R[m]) /\ next'[R[m][j]] = R[m][j + 1]
    <3>1. j \in 1 .. Len(Q[m])
        BY <2>1, <1>7, <1>10, <1>12
    <3>2. R[m][j] = Q[m][j] /\ Q[m][j] \in Entries /\ Q[m][j] # a
        BY <3>1, <1>8, <1>11
    <3>3. next'[R[m][j]] = next[Q[m][j]]
        BY <3>2, <1>7
    <3>4. j < Len(Q[m]) /\ next[Q[m][j]] = Q[m][j + 1]
        BY <2>1, <3>1, <3>3, <1>1 DEF Links
    <3>5. j + 1 \in 1 .. Len(Q[m])
        BY <3>1, <3>4
    <3>6. QED  BY <3>3, <3>4, <3>5, <1>10, <1>11
  <2>2. ASSUME NEW u \in Threads, pc'[u] \in {"flag", "link"} PROVE next'[pred'[u]] = Nil
    <3>1. CASE u = t
      <4>1. Len(Q[l]) \in 1 .. Len(Q[l]) /\ pred'[t] = Q[l][Len(Q[l])]
          BY <2>2, <3>1, <1>10, <1>15
      <4>2. next[Q[l][Len(Q[l])]] = Nil
          BY <4>1, <1>1, <1>6 DEF Links
      <4>3. Q[l][Len(Q[l])] \in Entries /\ Q[l][Len(Q[l])] # a
          BY <4>1, <1>6, <1>8
      <4>4. QED  BY <3>1, <4>1, <4>2, <4>3, <1>7
    <3>2. CASE u # t
      <4>1. pc[u] \in {"flag", "link"} /\ Waits(u) /\ next[pred[u]] = Nil /\ pred'[u] = pred[u]
          BY <2>2, <3>2, <1>1, <1>4 DEF Waits, Links
      <4>2. /\ lk[u] \in Locks
            /\ \E k \in 2 .. Len(Q[lk[u]]) : ql[u] = Q[lk[u]][k] /\ pred[u] = Q[lk[u]][k - 1]
        <5>1. Waits(u) /\ Members(Q)
            BY <4>1, <1>1
        <5>2. TypeOK /\ Stack /\ Table
            OBVIOUS
        <5> HIDE DEF IInv
        <5>3. QED  BY <5>1, <5>2, Waiter
      <4>3. PICK k \in 2 .. Len(Q[lk[u]]) : pred[u] = Q[lk[u]][k - 1]
          BY <4>2
      <4>4. pred[u] \in Entries /\ pred[u] # a
          BY <4>2, <4>3, <1>8, <1>11
      <4>5. QED  BY <4>1, <4>4, <1>7
    <3>3. QED  BY <3>1, <3>2
  <2>3. ASSUME NEW u \in Threads, pc'[u] \in {"link", "grant"}
        PROVE  /\ pc'[u] = "link" => locked'[ql'[u]]
               /\ pc'[u] = "grant" => next'[ql'[u]] # Nil
    <3>1. u # t /\ pc[u] = pc'[u]
        BY <2>3, <1>2, <1>4
    <3>2. ql[u] \in Entries /\ ql[u] # a
      <4>1. /\ pc[u] \notin {"off", "run", "alloc", "claim"}
            /\ pc[t] \notin {"off", "run", "alloc", "claim"}
          BY <2>3, <3>1, <1>3 DEF InCall
      <4>2. ql[u] \in Entries /\ (ql[u] = ql[t] => u = t)
          BY <4>1, Claimed, Zenon
      <4>3. QED  BY <4>2, <3>1, <1>5
    <3>3. locked'[ql[u]] = locked[ql[u]] /\ next'[ql[u]] = next[ql[u]]
        BY <3>2, <1>7
    <3>4. /\ pc[u] = "link" => locked[ql[u]]
          /\ pc[u] = "grant" => next[ql[u]] # Nil
        BY <1>1 DEF Links
    <3>5. QED  BY <3>1, <3>3, <3>4
  <2>4. QED  BY <2>1, <2>2, <2>3 DEF Links
<1>18. QED  BY <1>4, <1>7, <1>10, <1>13, <1>16, <1>17

\* The owner's compare and swap finds nobody behind it: the line is empty.
LEMMA EmptyStep ==
    ASSUME IInv, NEW t \in Threads, pc[t] = "uncas", head[lk[t]] = ql[t],
           head' = [head EXCEPT ![lk[t]] = Nil],
           pc' = [pc EXCEPT ![t] = "free"],
           UNCHANGED <<e, used, next, locked, hi, lk, ql, pred, pl, try>>
    PROVE  IInv'
<1> USE DEF IInv
<1>1. PICK Q \in [Locks -> Seq(Entries)] : Lines(Q) /\ Members(Q) /\ Links(Q)
    OBVIOUS
<1>2. pc[t] \in InCall /\ "free" \in InCall \ {"cas"}
    BY DEF InCall
<1>3. /\ pc' \in [Threads -> Pcs] /\ Stack' /\ Levels' /\ Table'
      /\ \A u \in Threads, m \in Locks : Ent(u, m)' = Ent(u, m)
      /\ \A u \in Threads, m \in Locks :
            u # t \/ m # lk[t] => (InLine(u, m)' <=> InLine(u, m))
      /\ \A m \in Locks : m = lk[t] => ~InLine(t, m)'
      /\ pc'[t] = "free" /\ \A u \in Threads : u # t => pc'[u] = pc[u]
    BY <1>2, Stepped
<1>4. PICK l, a : l = lk[t] /\ a = ql[t]
    OBVIOUS
<1>5. /\ l \in Locks /\ a \in Entries /\ Ent(t, l) = a /\ InLine(t, l) /\ ~Waits(t)
    BY <1>2, <1>4, Claimed, About DEF InCall, InLine, Waits
<1>6. /\ TypeOK'
      /\ head'[l] = Nil /\ \A m \in Locks : m # l => head'[m] = head[m]
    BY <1>3, <1>4, <1>5 DEF TypeOK
<1>7. Len(Q[l]) = 1 /\ Q[l][1] = a
  <2>1. 1 \in 1 .. Len(Q[l]) /\ Q[l][1] = a
      BY <1>1, <1>5, Owner
  <2>2. Q[l] \in Seq(Entries) /\ Q[l] # << >>
      BY <1>5, <2>1
  <2>3. Len(Q[l]) \in 1 .. Len(Q[l]) /\ Q[l][Len(Q[l])] = a
      BY <1>1, <1>4, <1>5, <2>1, <2>2 DEF Lines
  <2>4. \A i, j \in 1 .. Len(Q[l]) : Q[l][i] = Q[l][j] => i = j
      BY <1>1, <1>5 DEF Lines
  <2>5. QED  BY <2>1, <2>3, <2>4
<1>8. PICK R : R = [Q EXCEPT ![l] = << >>]
    OBVIOUS
<1>9. /\ R \in [Locks -> Seq(Entries)] /\ R[l] = << >> /\ Len(R[l]) = 0
      /\ \A m \in Locks : m # l => R[m] = Q[m]
    BY <1>5, <1>8
<1>10. Lines(R)'
  <2>1. ASSUME NEW m \in Locks
        PROVE  /\ \A i, j \in 1 .. Len(R[m]) : R[m][i] = R[m][j] => i = j
               /\ head'[m] = IF R[m] = << >> THEN Nil ELSE R[m][Len(R[m])]
    <3>1. CASE m = l
        BY <3>1, <1>6, <1>9
    <3>2. CASE m # l
        BY <3>2, <1>1, <1>6, <1>9 DEF Lines
    <3>3. QED  BY <3>1, <3>2
  <2>2. QED  BY <2>1, <1>9 DEF Lines
<1>11. \A u \in Threads : Waits(u)' <=> Waits(u)
    BY <1>3, <1>5 DEF Waits
<1>12. \A u \in Threads : ~InLine(u, l)'
  <2> SUFFICES ASSUME NEW u \in Threads, InLine(u, l)' PROVE FALSE
      OBVIOUS
  <2>1. u # t /\ InLine(u, l)
      BY <1>3, <1>4, <1>5
  <2>2. PICK i \in 1 .. Len(Q[l]) : Ent(u, l) = Q[l][i]
      BY <2>1, <1>1, <1>5 DEF Members
  <2>3. Ent(u, l) = a
      BY <2>2, <1>7
  <2>4. QED  BY <2>1, <2>3, <1>5 DEF Table, InLine, Busy
<1>13. Members(R)'
  <2>1. ASSUME NEW m \in Locks, NEW j \in 1 .. Len(R[m])
        PROVE  \E u \in Threads : InLine(u, m)' /\ Ent(u, m)' = R[m][j]
    <3>1. m # l /\ R[m] = Q[m]
        BY <1>9
    <3>2. PICK u \in Threads : InLine(u, m) /\ Ent(u, m) = Q[m][j]
        BY <3>1, <1>1 DEF Members
    <3>3. QED  BY <3>1, <3>2, <1>3, <1>4
  <2>2. ASSUME NEW u \in Threads, NEW m \in Locks, InLine(u, m)'
        PROVE  \E j \in 1 .. Len(R[m]) :
                  /\ Ent(u, m)' = R[m][j]
                  /\ lk'[u] = m /\ Waits(u)' => j > 1 /\ pred'[u] = R[m][j - 1]
                  /\ ~(lk'[u] = m /\ Waits(u)') => j = 1
    <3>1. m # l /\ R[m] = Q[m]
        BY <2>2, <1>9, <1>12
    <3>2. InLine(u, m) /\ Ent(u, m)' = Ent(u, m)
        BY <2>2, <3>1, <1>3, <1>4
    <3>3. PICK i \in 1 .. Len(Q[m]) :
             /\ Ent(u, m) = Q[m][i]
             /\ lk[u] = m /\ Waits(u) => i > 1 /\ pred[u] = Q[m][i - 1]
             /\ ~(lk[u] = m /\ Waits(u)) => i = 1
        BY <3>2, <1>1 DEF Members
    <3>4. QED  BY <3>1, <3>2, <3>3, <1>11
  <2>3. QED  BY <2>1, <2>2 DEF Members
<1>14. Links(R)'
  <2>1. ASSUME NEW m \in Locks, NEW j \in 1 .. Len(R[m]), next'[R[m][j]] # Nil
        PROVE  j < Len(R[m]) /\ next'[R[m][j]] = R[m][j + 1]
    <3>1. m # l /\ R[m] = Q[m]
        BY <1>9
    <3>2. next[Q[m][j]] # Nil /\ j \in 1 .. Len(Q[m])
        BY <2>1, <3>1
    <3>3. j < Len(Q[m]) /\ next[Q[m][j]] = Q[m][j + 1]
        BY <3>2, <1>1 DEF Links
    <3>4. QED  BY <3>1, <3>3
  <2>2. \A u \in Threads :
           /\ pc'[u] \in {"flag", "link"} => next'[pred'[u]] = Nil
           /\ pc'[u] = "link" => locked'[ql'[u]]
           /\ pc'[u] = "grant" => next'[ql'[u]] # Nil
      BY <1>1, <1>3 DEF Links
  <2>3. QED  BY <2>1, <2>2 DEF Links
<1>15. QED  BY <1>3, <1>6, <1>9, <1>10, <1>13, <1>14

\* The owner lowers the flag of the second in line, which becomes the first.
LEMMA GrantStep ==
    ASSUME IInv, NEW t \in Threads, mcsunlockGrant(t)
    PROVE  IInv'
<1> USE DEF IInv
<1>1. PICK Q \in [Locks -> Seq(Entries)] : Lines(Q) /\ Members(Q) /\ Links(Q)
    OBVIOUS
<1>2. /\ pc[t] = "grant" /\ pc' = [pc EXCEPT ![t] = "free"]
      /\ locked' = [locked EXCEPT ![next[ql[t]]] = FALSE]
      /\ UNCHANGED <<head, e, used, next, hi, lk, ql, pred, pl, try>>
    BY DEF mcsunlockGrant, At
<1>3. pc[t] \in InCall /\ "free" \in InCall \ {"cas"}
    BY <1>2 DEF InCall
<1>4. /\ pc' \in [Threads -> Pcs] /\ Stack' /\ Levels' /\ Table'
      /\ \A u \in Threads, m \in Locks : Ent(u, m)' = Ent(u, m)
      /\ \A u \in Threads, m \in Locks :
            u # t \/ m # lk[t] => (InLine(u, m)' <=> InLine(u, m))
      /\ \A m \in Locks : m = lk[t] => ~InLine(t, m)'
      /\ pc'[t] = "free" /\ \A u \in Threads : u # t => pc'[u] = pc[u]
    BY <1>2, <1>3, Stepped
<1>5. PICK l, a : l = lk[t] /\ a = ql[t]
    OBVIOUS
<1>6. l \in Locks /\ a \in Entries /\ Ent(t, l) = a /\ InLine(t, l) /\ ~Waits(t) /\ Busy(t, l)
    BY <1>2, <1>3, <1>5, Claimed, About DEF InCall, InLine, Waits
<1>7. 1 \in 1 .. Len(Q[l]) /\ Q[l][1] = a
    BY <1>1, <1>6, Owner
<1>8. 2 \in 1 .. Len(Q[l]) /\ next[a] = Q[l][2] /\ Q[l][2] # a
  <2>1. next[a] # Nil
      BY <1>1, <1>2, <1>5 DEF Links
  <2>2. 1 < Len(Q[l]) /\ next[Q[l][1]] = Q[l][1 + 1]
      BY <2>1, <1>1, <1>6, <1>7 DEF Links
  <2>3. 2 \in 1 .. Len(Q[l]) /\ next[a] = Q[l][2]
      BY <2>2, <1>7
  <2>4. QED  BY <2>3, <1>1, <1>6, <1>7 DEF Lines
<1>9. PICK b : b = Q[l][2]
    OBVIOUS
<1>10. b \in Entries /\ next[a] = b
    BY <1>6, <1>8, <1>9
<1>11. /\ TypeOK'
       /\ locked'[b] = FALSE /\ \A c \in Entries : c # b => locked'[c] = locked[c]
    BY <1>2, <1>4, <1>5, <1>10 DEF TypeOK
<1>12. PICK v \in Threads : InLine(v, l) /\ Ent(v, l) = b
  <2>1. \A i \in 1 .. Len(Q[l]) : \E v \in Threads : InLine(v, l) /\ Ent(v, l) = Q[l][i]
      BY <1>1, <1>6 DEF Members
  <2>2. QED  BY <2>1, <1>8, <1>9
<1>13. v # t /\ lk[v] = l /\ Waits(v) /\ ql[v] = b /\ pred[v] = a
  <2>1. PICK i \in 1 .. Len(Q[l]) :
           /\ Ent(v, l) = Q[l][i]
           /\ lk[v] = l /\ Waits(v) => i > 1 /\ pred[v] = Q[l][i - 1]
           /\ ~(lk[v] = l /\ Waits(v)) => i = 1
      BY <1>1, <1>6, <1>12, ZenonT(40) DEF Members
  <2>2. i = 2
      BY <2>1, <1>1, <1>6, <1>8, <1>9, <1>12 DEF Lines
  <2>3. lk[v] = l /\ Waits(v) /\ pred[v] = a
      BY <2>1, <2>2, <1>7
  <2>4. QED  BY <2>3, <1>2, <1>12 DEF Ent, Waits
<1>14. pc[v] = "spin" /\ ~Waits(v)'
  <2>1. pc[v] = "spin"
      BY <1>1, <1>10, <1>13 DEF Waits, Links
  <2>2. QED  BY <2>1, <1>2, <1>4, <1>11, <1>13 DEF Waits
<1>15. \A u \in Threads : pc[u] \in InCall /\ ql[u] = b => u = v
    BY <1>13, <1>14, Claimed DEF InCall
<1>16. \A u \in Threads : u # v => (Waits(u)' <=> Waits(u))
  <2> SUFFICES ASSUME NEW u \in Threads, u # v PROVE Waits(u)' <=> Waits(u)
      OBVIOUS
  <2>1. CASE u = t
      BY <2>1, <1>4, <1>6 DEF Waits
  <2>2. CASE u # t /\ pc[u] # "spin"
      BY <2>2, <1>4 DEF Waits
  <2>3. CASE u # t /\ pc[u] = "spin"
    <3>1. ql[u] \in Entries /\ ql[u] # b
        BY <2>3, <1>15, Claimed DEF InCall
    <3>2. QED  BY <2>3, <3>1, <1>2, <1>4, <1>11 DEF Waits
  <2>4. QED  BY <2>1, <2>2, <2>3
<1>17. PICK R : R = [Q EXCEPT ![l] = Tail(Q[l])]
    OBVIOUS
<1>18. /\ R \in [Locks -> Seq(Entries)]
       /\ \A m \in Locks : m # l => R[m] = Q[m]
       /\ Len(Q[l]) \in Nat /\ Len(R[l]) = Len(Q[l]) - 1 /\ Len(Q[l]) >= 2
       /\ \A j \in 1 .. Len(Q[l]) - 1 : R[l][j] = Q[l][j + 1]
  <2>1. Q[l] \in Seq(Entries) /\ Q[l] # << >> /\ Len(Q[l]) >= 2 /\ Len(Q[l]) \in Nat
      BY <1>6, <1>8
  <2>2. /\ Tail(Q[l]) \in Seq(Entries) /\ Len(Tail(Q[l])) = Len(Q[l]) - 1
        /\ \A j \in 1 .. Len(Q[l]) - 1 : Tail(Q[l])[j] = Q[l][j + 1]
      BY <2>1, HeadTailProperties
  <2>3. QED  BY <2>1, <2>2, <1>6, <1>17
<1>19. Lines(R)'
  <2>1. \A m \in Locks : \A i, j \in 1 .. Len(R[m]) : R[m][i] = R[m][j] => i = j
    <3> SUFFICES ASSUME NEW m \in Locks, NEW i \in 1 .. Len(R[m]), NEW j \in 1 .. Len(R[m]),
                        R[m][i] = R[m][j]
                 PROVE  i = j
        OBVIOUS
    <3>1. CASE m # l
        BY <3>1, <1>1, <1>18 DEF Lines
    <3>2. CASE m = l
      <4>1. /\ i + 1 \in 1 .. Len(Q[l]) /\ j + 1 \in 1 .. Len(Q[l])
            /\ Q[l][i + 1] = Q[l][j + 1]
          BY <3>2, <1>18
      <4>2. i + 1 = j + 1
          BY <4>1, <1>1, <1>6 DEF Lines
      <4>3. QED  BY <4>2
    <3>3. QED  BY <3>1, <3>2
  <2>2. \A m \in Locks : head'[m] = IF R[m] = << >> THEN Nil ELSE R[m][Len(R[m])]
    <3>1. head[l] = Q[l][Len(Q[l])]
      <4>1. Q[l] # << >>
          BY <1>18
      <4>2. QED  BY <4>1, <1>1, <1>6 DEF Lines
    <3>2. R[l] # << >> /\ R[l][Len(R[l])] = Q[l][Len(Q[l])]
      <4>1. Len(R[l]) \in 1 .. Len(Q[l]) - 1 /\ Len(R[l]) + 1 = Len(Q[l])
          BY <1>18
      <4>2. QED  BY <4>1, <1>18
    <3>3. QED  BY <3>1, <3>2, <1>1, <1>2, <1>18 DEF Lines
  <2>3. QED  BY <2>1, <2>2, <1>18 DEF Lines
<1>20. Members(R)'
  <2>1. ASSUME NEW m \in Locks, NEW j \in 1 .. Len(R[m])
        PROVE  \E u \in Threads : InLine(u, m)' /\ Ent(u, m)' = R[m][j]
    <3>1. CASE m # l
      <4>1. PICK u \in Threads : InLine(u, m) /\ Ent(u, m) = Q[m][j]
          BY <3>1, <1>1, <1>18 DEF Members
      <4>2. QED  BY <3>1, <4>1, <1>4, <1>5, <1>18
    <3>2. CASE m = l
      <4>1. j + 1 \in 1 .. Len(Q[l]) /\ R[l][j] = Q[l][j + 1] /\ j + 1 # 1
          BY <3>2, <1>18
      <4>2. PICK u \in Threads : InLine(u, l) /\ Ent(u, l) = Q[l][j + 1]
          BY <4>1, <1>1, <1>6 DEF Members
      <4>3. Q[l][j + 1] # a
          BY <4>1, <1>1, <1>6, <1>7 DEF Lines
      <4>4. u # t
          BY <4>2, <4>3, <1>6
      <4>5. InLine(u, l)' /\ Ent(u, l)' = R[l][j]
          BY <4>1, <4>2, <4>4, <1>4, <1>6
      <4>6. QED  BY <3>2, <4>5
    <3>3. QED  BY <3>1, <3>2
  <2>2. ASSUME NEW u \in Threads, NEW m \in Locks, InLine(u, m)'
        PROVE  \E j \in 1 .. Len(R[m]) :
                  /\ Ent(u, m)' = R[m][j]
                  /\ lk'[u] = m /\ Waits(u)' => j > 1 /\ pred'[u] = R[m][j - 1]
                  /\ ~(lk'[u] = m /\ Waits(u)') => j = 1
    <3>1. InLine(u, m) /\ Ent(u, m)' = Ent(u, m)
        BY <2>2, <1>4
    <3>2. PICK i \in 1 .. Len(Q[m]) :
             /\ Ent(u, m) = Q[m][i]
             /\ lk[u] = m /\ Waits(u) => i > 1 /\ pred[u] = Q[m][i - 1]
             /\ ~(lk[u] = m /\ Waits(u)) => i = 1
        BY <3>1, <1>1, ZenonT(40) DEF Members
    <3>3. CASE m # l
      <4>1. lk[u] = m => u # v
          BY <3>3, <1>13
      <4>2. QED  BY <3>1, <3>2, <3>3, <4>1, <1>2, <1>16, <1>18
    <3>4. CASE m = l /\ u = v
      <4>1. Ent(v, l)' = Q[l][2] /\ R[l][1] = Q[l][2] /\ 1 \in 1 .. Len(R[l])
          BY <3>1, <3>4, <1>9, <1>12, <1>18
      <4>2. QED  BY <3>4, <4>1, <1>14
    <3>5. CASE m = l /\ u # v
      <4>1. u # t
          BY <2>2, <3>5, <1>4, <1>5, <1>6
      <4>2. lk[u] = l /\ Waits(u)
          BY <3>1, <3>5, <4>1, <1>1, <1>6, Owner
      <4>3. i > 1 /\ pred[u] = Q[l][i - 1] /\ Ent(u, l) = Q[l][i] /\ i \in 1 .. Len(Q[l])
          BY <3>2, <3>5, <4>2
      <4>4. i # 2
          BY <3>1, <3>5, <4>3, <1>6, <1>9, <1>12 DEF Table, InLine, Busy
      <4>5. /\ i - 1 \in 1 .. Len(Q[l]) - 1 /\ i - 2 \in 1 .. Len(Q[l]) - 1
            /\ (i - 1) + 1 = i /\ (i - 2) + 1 = i - 1 /\ (i - 1) - 1 = i - 2 /\ i - 1 > 1
        <5>1. PICK n \in Nat : n = Len(Q[l])
            BY <1>18
        <5>2. i \in 1 .. n /\ i > 1 /\ i # 2
            BY <4>3, <4>4, <5>1
        <5>3. QED  BY <5>1, <5>2
      <4>6. R[l][i - 1] = Q[l][i] /\ R[l][(i - 1) - 1] = Q[l][i - 1] /\ i - 1 \in 1 .. Len(R[l])
          BY <4>5, <1>18
      <4>7. lk'[u] = l /\ Waits(u)' /\ pred'[u] = pred[u]
          BY <3>5, <4>2, <1>2, <1>16
      <4>8. QED  BY <3>1, <3>5, <4>3, <4>5, <4>6, <4>7
    <3>6. QED  BY <3>3, <3>4, <3>5
  <2>3. QED  BY <2>1, <2>2 DEF Members
<1>21. Links(R)'
  <2>1. ASSUME NEW m \in Locks, NEW j \in 1 .. Len(R[m]), next'[R[m][j]] # Nil
        PROVE  j < Len(R[m]) /\ next'[R[m][j]] = R[m][j + 1]
    <3>1. CASE m # l
        BY <2>1, <3>1, <1>1, <1>2, <1>18 DEF Links
    <3>2. CASE m = l
      <4>1. j + 1 \in 1 .. Len(Q[l]) /\ R[l][j] = Q[l][j + 1]
          BY <3>2, <1>18
      <4>2. j + 1 < Len(Q[l]) /\ next[Q[l][j + 1]] = Q[l][(j + 1) + 1]
          BY <2>1, <3>2, <4>1, <1>1, <1>2, <1>6 DEF Links
      <4>3. j < Len(R[l]) /\ R[l][j + 1] = Q[l][(j + 1) + 1]
          BY <4>1, <4>2, <1>18
      <4>4. QED  BY <3>2, <4>1, <4>2, <4>3, <1>2
    <3>3. QED  BY <3>1, <3>2
  <2>2. ASSUME NEW u \in Threads, pc'[u] = "link" PROVE locked'[ql'[u]]
    <3>1. pc[u] = "link" /\ locked[ql[u]]
        BY <2>2, <1>1, <1>4 DEF Links
    <3>2. ql[u] \in Entries /\ ql[u] # b
        BY <3>1, <1>14, <1>15, Claimed DEF InCall
    <3>3. QED  BY <3>1, <3>2, <1>2, <1>11
  <2>3. \A u \in Threads :
           /\ pc'[u] \in {"flag", "link"} => next'[pred'[u]] = Nil
           /\ pc'[u] = "grant" => next'[ql'[u]] # Nil
      BY <1>1, <1>2, <1>4 DEF Links
  <2>4. QED  BY <2>1, <2>2, <2>3 DEF Links
<1>22. QED  BY <1>4, <1>11, <1>18, <1>19, <1>20, <1>21

----------------------------------------------------------------------------
(* The beginnings and ends of calls and handlers.                          *)

\* A handler starts, or returns with no lock held.
LEMMA InterruptStep ==
    ASSUME IInv, NEW c \in Cpus, Interrupt(c) \/ InterruptReturn(c)
    PROVE  IInv'
<1> USE DEF IInv
<1>1. PICK Q \in [Locks -> Seq(Entries)] : Lines(Q) /\ Members(Q) /\ Links(Q)
    OBVIOUS
<1>2. PICK t : t = <<c, "intr">>
    OBVIOUS
<1>3. t \in Threads /\ t[1] = c /\ t[2] = "intr"
    BY <1>2, ThreadFacts
<1>4. PICK x \in {"off", "run"} : pc' = [pc EXCEPT ![t] = x] /\ hi' = [hi EXCEPT ![c] = x = "run"]
    BY <1>2 DEF Interrupt, InterruptReturn
<1>5. UNCHANGED <<head, e, used, next, locked, lk, ql, pred, pl, try>>
    BY DEF Interrupt, InterruptReturn
<1>6. pc[t] \in {"off", "run"} /\ pl[t] = << >>
    BY <1>2, <1>3 DEF Interrupt, InterruptReturn, Stack, Nest
<1>7. /\ TypeOK'
      /\ pc'[t] = x /\ \A u \in Threads : u # t => pc'[u] = pc[u]
      /\ hi'[c] = (x = "run") /\ \A d \in Cpus : d # c => hi'[d] = hi[d]
    BY <1>3, <1>4, <1>5 DEF TypeOK
<1>8. Stack'
  <2>1. \A u \in Threads : u # t => Nest(u)'
      BY <1>5, <1>7, NestKept
  <2>2. Nest(t)
      BY <1>3 DEF Stack
  <2>3. Nest(t)'
      BY <2>2, <1>3, <1>5, <1>6, <1>7 DEF Nest
  <2>4. QED  BY <2>1, <2>3 DEF Stack
<1>9. Levels'
  <2>1. ASSUME NEW d \in Cpus, d # c PROVE Level(d)'
      BY <2>1, <1>3, <1>5, <1>7, Elsewhere
  <2>2. Level(c)'
    <3>1. Level(c)
        BY DEF Levels
    <3>2. \A l \in Ilocks : ~Holds(<<c, "base">>, l)
        BY <3>1, <1>2 DEF Level, Interrupt, InterruptReturn
    <3>3. QED  BY <3>1, <3>2, <1>2, <1>5, <1>7 DEF Level, Holds
  <2>3. QED  BY <2>1, <2>2 DEF Levels
<1>10. \A u \in Threads, m \in Locks :
          /\ Holds(u, m)' <=> Holds(u, m)
          /\ Ent(u, m)' = Ent(u, m)
    BY <1>5 DEF Holds, Ent
<1>11. \A u \in Threads, m \in Locks :
          (Busy(u, m)' <=> Busy(u, m)) /\ (InLine(u, m)' <=> InLine(u, m))
    BY <1>5, <1>6, <1>7, <1>10 DEF Busy, InLine
<1>12. Table'
  <2>1. \A u \in Threads : pc'[u] = "claim" => pc[u] = "claim" /\ ql'[u] = ql[u]
      BY <1>5, <1>7
  <2>2. \A u \in Threads : pc'[u] \in {"off", "run", "alloc"} => ql'[u] = Nil
      BY <1>5, <1>6, <1>7 DEF Table
  <2>3. QED  BY <2>1, <2>2, <1>5, <1>10, <1>11, TableKept
<1>13. Lines(Q)' /\ Members(Q)' /\ Links(Q)'
  <2>1. \A u \in Threads : pc[u] \in Lined \/ pc'[u] \in Lined => pc'[u] = pc[u]
      BY <1>6, <1>7 DEF Lined
  <2>2. QED  BY <2>1, <1>1, <1>5, <1>10, <1>11, LineKept
<1>14. QED  BY <1>7, <1>8, <1>9, <1>12, <1>13

\* A lock is pushed on the stack; its call has no entry yet.
LEMMA LockCallStep ==
    ASSUME IInv, NEW t \in Threads, NEW l \in Locks, NEW can \in BOOLEAN, LockCall(t, l, can)
    PROVE  IInv'
<1> USE DEF IInv
<1>1. PICK Q \in [Locks -> Seq(Entries)] : Lines(Q) /\ Members(Q) /\ Links(Q)
    OBVIOUS
<1>2. /\ At(t, "run") /\ pc[t] = "run"
      /\ t[2] = "intr" => l \in Ilocks
      /\ can => l \notin Ilocks
      /\ lk' = [lk EXCEPT ![t] = l] /\ try' = [try EXCEPT ![t] = can]
      /\ hi' = [hi EXCEPT ![t[1]] = hi[t[1]] \/ l \in Ilocks]
      /\ pc' = [pc EXCEPT ![t] = "alloc"]
      /\ UNCHANGED <<head, e, used, next, locked, ql, pred>>
    BY DEF LockCall, At
<1>3. \A i \in 1 .. Len(pl[t]) : pl[t][i].l < l
    BY DEF LockCall, TypeOK
<1>4. PICK h \in BOOLEAN : h = hi[t[1]] /\ pl' = [pl EXCEPT ![t] = Append(@, [l |-> l, hi |-> h])]
  <2>1. hi[t[1]] \in BOOLEAN
      BY ThreadFacts DEF TypeOK
  <2>2. QED  BY <2>1 DEF LockCall
<1>5. PICK n : n = Len(pl[t]) + 1
    OBVIOUS
<1>6. /\ pl' \in [Threads -> Seq(Frame)]
      /\ \A u \in Threads : u # t => pl'[u] = pl[u]
      /\ Len(pl[t]) \in Nat /\ Len(pl'[t]) = n /\ pl'[t] # << >>
      /\ \A i \in 1 .. n - 1 : pl'[t][i] = pl[t][i]
      /\ n \in Nat /\ n >= 1 /\ pl'[t][n].l = l /\ pl'[t][n].hi = h
  <2>1. /\ pl' \in [Threads -> Seq(Frame)]
        /\ \A u \in Threads : u # t => pl'[u] = pl[u]
        /\ Len(pl[t]) \in Nat /\ Len(pl'[t]) = Len(pl[t]) + 1 /\ pl'[t] # << >>
        /\ \A i \in 1 .. Len(pl[t]) : pl'[t][i] = pl[t][i]
        /\ pl'[t][Len(pl[t]) + 1].l = l /\ pl'[t][Len(pl[t]) + 1].hi = h
      BY <1>4, Pushed
  <2>2. n - 1 = Len(pl[t]) /\ n \in Nat /\ n >= 1
      BY <2>1, <1>5
  <2>3. /\ pl'[t][n].l = l /\ pl'[t][n].hi = h /\ Len(pl'[t]) = n
        /\ \A i \in 1 .. n - 1 : pl'[t][i] = pl[t][i]
      BY <2>1, <2>2, <1>5
  <2>4. QED  BY <2>1, <2>2, <2>3
<1>7. \A u \in Threads, m \in Locks : Holds(u, m)' <=> Holds(u, m) \/ (u = t /\ m = l)
    BY <1>4, Pushed
<1>8. t[1] \in Cpus /\ t[2] \in {"base", "intr"} /\ t = <<t[1], t[2]>>
    BY ThreadFacts
<1>9. /\ TypeOK'
      /\ pc'[t] = "alloc" /\ \A u \in Threads : u # t => pc'[u] = pc[u]
      /\ lk'[t] = l /\ \A u \in Threads : u # t => lk'[u] = lk[u]
      /\ try'[t] = can /\ \A u \in Threads : u # t => try'[u] = try[u]
      /\ hi'[t[1]] = (hi[t[1]] \/ l \in Ilocks)
      /\ \A d \in Cpus : d # t[1] => hi'[d] = hi[d]
    BY <1>2, <1>6, <1>8 DEF TypeOK
<1>10. Stack'
  <2>1. \A u \in Threads : u # t => Nest(u)'
      BY <1>6, <1>9, NestKept
  <2>2. ASSUME NEW i \in 1 .. Len(pl'[t]), NEW j \in 1 .. Len(pl'[t]), i < j
        PROVE  pl'[t][i].l < pl'[t][j].l
    <3>1. i \in 1 .. n - 1 /\ pl'[t][i] = pl[t][i]
        BY <2>2, <1>6
    <3>2. CASE j = n
        BY <3>1, <3>2, <1>3, <1>5, <1>6
    <3>3. CASE j # n
      <4>1. j \in 1 .. n - 1 /\ pl'[t][j] = pl[t][j]
          BY <3>3, <1>6
      <4>2. QED  BY <2>2, <3>1, <4>1, <1>5, <1>6 DEF Stack, Nest
    <3>4. QED  BY <3>2, <3>3
  <2>3. t[2] = "intr" => \A i \in 1 .. Len(pl'[t]) : pl'[t][i].l \in Ilocks
    <3> SUFFICES ASSUME t[2] = "intr", NEW i \in 1 .. Len(pl'[t]) PROVE pl'[t][i].l \in Ilocks
        OBVIOUS
    <3>1. CASE i = n
        BY <3>1, <1>2, <1>6
    <3>2. CASE i # n
      <4>1. i \in 1 .. n - 1 /\ pl'[t][i] = pl[t][i]
          BY <3>2, <1>6
      <4>2. QED  BY <4>1, <1>5, <1>6 DEF Stack, Nest
    <3>3. QED  BY <3>1, <3>2
  <2>4. /\ pc'[t] = "alloc" /\ lk'[t] # Nil /\ pl'[t] # << >> /\ pl'[t][Len(pl'[t])].l = lk'[t]
        /\ try'[t] => lk'[t] \notin Ilocks
      BY <1>2, <1>6, <1>9
  <2>5. Nest(t)'
      BY <2>2, <2>3, <2>4 DEF Nest
  <2>6. QED  BY <2>1, <2>5 DEF Stack
<1>11. Levels'
  <2>1. ASSUME NEW d \in Cpus, d # t[1] PROVE Level(d)'
      BY <2>1, <1>6, <1>9, Elsewhere
  <2>2. Level(t[1])
      BY <1>8 DEF Levels
  <2>3. PICK c \in Cpus : c = t[1]
      BY <1>8
  <2>4. <<c, "base">> \in Threads /\ <<c, "intr">> \in Threads
      BY ThreadFacts
  <2>5. ASSUME t[2] = "base" PROVE Level(c)'
    <3>1. t = <<c, "base">> /\ <<c, "intr">> # t
        BY <2>3, <2>5, <1>8
    <3>2. pc[<<c, "intr">>] = "off" /\ pc'[<<c, "intr">>] = "off"
        BY <2>3, <2>4, <2>5, <3>1, <1>2, <1>9 DEF At
    <3>3. h <=> \E m \in Ilocks : Holds(t, m)
        BY <2>2, <2>3, <3>1, <3>2, <1>4 DEF Level
    <3>4. hi'[c] <=> \E m \in Ilocks : Holds(t, m)'
        BY <2>3, <3>3, <1>4, <1>7, <1>9
    <3>5. h <=> \E j \in 1 .. n - 1 : pl[t][j].l \in Ilocks
        BY <3>3, <1>5, <1>6 DEF Holds, TypeOK
    <3>6. ASSUME NEW i \in 1 .. Len(pl'[t]), pl'[t][i].l \in Ilocks
          PROVE  pl'[t][i].hi <=> \E j \in 1 .. i - 1 : pl'[t][j].l \in Ilocks
      <4>1. CASE i = n
          BY <4>1, <3>5, <1>6
      <4>2. CASE i # n
        <5>1. i \in 1 .. n - 1 /\ i \in 1 .. Len(pl[t]) /\ \A j \in 1 .. i - 1 : j \in 1 .. n - 1
            BY <4>2, <1>5, <1>6
        <5>2. pl[t][i].hi <=> \E j \in 1 .. i - 1 : pl[t][j].l \in Ilocks
            BY <3>6, <5>1, <2>2, <2>3, <3>1, <1>6 DEF Level
        <5>3. QED  BY <5>1, <5>2, <1>6
      <4>3. QED  BY <4>1, <4>2
    <3>7. pl'[<<c, "intr">>] = pl[<<c, "intr">>]
        BY <2>4, <3>1, <1>6
    <3>8. QED  BY <2>2, <2>3, <3>1, <3>2, <3>4, <3>6, <3>7 DEF Level
  <2>6. ASSUME t[2] = "intr" PROVE Level(c)'
    <3>1. t = <<c, "intr">> /\ <<c, "base">> # t
        BY <2>3, <2>6, <1>8
    <3>2. pc[t] # "off" /\ pc'[t] # "off" /\ hi[c] /\ hi'[c] /\ h
        BY <2>2, <2>3, <3>1, <1>2, <1>4, <1>9 DEF Level
    <3>3. pl'[<<c, "base">>] = pl[<<c, "base">>]
        BY <2>4, <3>1, <1>6
    <3>4. \A m \in Ilocks : ~Holds(<<c, "base">>, m)'
        BY <2>2, <2>3, <3>1, <3>2, <3>3 DEF Level, Holds
    <3>5. ASSUME NEW i \in 1 .. Len(pl'[t]) PROVE pl'[t][i].hi
      <4>1. CASE i = n
          BY <4>1, <3>2, <1>6
      <4>2. CASE i # n
        <5>1. i \in 1 .. n - 1 /\ i \in 1 .. Len(pl[t])
            BY <4>2, <1>5, <1>6
        <5>2. QED  BY <5>1, <2>2, <2>3, <3>1, <1>6 DEF Level
      <4>3. QED  BY <4>1, <4>2
    <3>6. QED  BY <2>2, <2>3, <3>1, <3>2, <3>3, <3>4, <3>5 DEF Level
  <2>7. Level(c)'
      BY <2>5, <2>6, <1>8
  <2>8. QED  BY <2>1, <2>3, <2>7 DEF Levels
<1>12. ~Holds(t, l)
  <2> SUFFICES ASSUME Holds(t, l) PROVE FALSE
      OBVIOUS
  <2>1. PICK i \in 1 .. Len(pl[t]) : pl[t][i].l = l
      BY DEF Holds, TypeOK
  <2>2. l < l
      BY <2>1, <1>3
  <2>3. QED  BY <2>2 DEF Locks
<1>13. \A u \in Threads, m \in Locks :
          (Busy(u, m)' <=> Busy(u, m)) /\ (InLine(u, m)' <=> InLine(u, m))
  <2>1. \A m \in Locks : lk[t] # m
      BY <1>2 DEF Stack, Nest
  <2>2. \A m \in Locks : (Busy(t, m)' <=> Busy(t, m)) /\ (InLine(t, m)' <=> InLine(t, m))
      BY <2>1, <1>7, <1>9, <1>12 DEF Busy, InLine
  <2>3. \A u \in Threads, m \in Locks : u # t =>
           (Busy(u, m)' <=> Busy(u, m)) /\ (InLine(u, m)' <=> InLine(u, m))
      BY <1>7, <1>9 DEF Busy, InLine
  <2>4. QED  BY <2>2, <2>3
<1>14. \A u \in Threads, m \in Locks : Busy(u, m) => Ent(u, m)' = Ent(u, m)
  <2>1. \A m \in Locks : Busy(t, m) => m # l /\ lk[t] # m
      BY <1>2, <1>12 DEF Busy, Stack, Nest
  <2>2. QED  BY <2>1, <1>2, <1>9 DEF Ent
<1>15. Table'
  <2>1. \A u \in Threads : pc'[u] = "claim" => pc[u] = "claim" /\ ql'[u] = ql[u]
      BY <1>2, <1>9
  <2>2. \A u \in Threads : pc'[u] \in {"off", "run", "alloc"} => ql'[u] = Nil
      BY <1>2, <1>9 DEF Table
  <2>3. QED  BY <2>1, <2>2, <1>2, <1>13, <1>14, TableKept
<1>16. Lines(Q)' /\ Members(Q)' /\ Links(Q)'
  <2>1. \A u \in Threads : pc[u] \in Lined \/ pc'[u] \in Lined =>
           pc'[u] = pc[u] /\ lk'[u] = lk[u] /\ ql'[u] = ql[u] /\ pred'[u] = pred[u]
      BY <1>2, <1>9 DEF Lined
  <2>2. \A u \in Threads, m \in Locks : InLine(u, m) => Ent(u, m)' = Ent(u, m)
      BY <1>14 DEF InLine, Busy
  <2>3. QED  BY <2>1, <2>2, <1>1, <1>2, <1>13, LineKept
<1>17. QED  BY <1>9, <1>10, <1>11, <1>15, <1>16

\* A handler's processor runs nothing else: while a thread that is no handler
\* acts, the handler of its processor is off and holds nothing.
LEMMA NoHandler ==
    ASSUME TypeOK, Stack, NEW t \in Threads, NEW x, At(t, x), t[2] = "base",
           NEW u \in Threads, u[1] = t[1], u[2] = "intr"
    PROVE  pc[u] = "off" /\ \A m \in Locks : ~Holds(u, m)
<1>1. u = <<t[1], "intr">>
    BY ThreadFacts
<1>2. pc[u] = "off"
    BY <1>1 DEF At
<1>3. pl[u] = << >>
    BY <1>2 DEF Stack, Nest
<1>4. QED  BY <1>2, <1>3 DEF Holds

\* allocle() finds a free entry.
LEMMA FindStep ==
    ASSUME IInv, NEW t \in Threads, allocleFind(t)
    PROVE  IInv'
<1> USE DEF IInv
<1>1. PICK Q \in [Locks -> Seq(Entries)] : Lines(Q) /\ Members(Q) /\ Links(Q)
    OBVIOUS
<1>2. PICK i \in 1 .. NEntries :
         used[<<t[1], i>>] = Nil /\ ql' = [ql EXCEPT ![t] = <<t[1], i>>]
    BY DEF allocleFind
<1>3. PICK a : a = <<t[1], i>>
    OBVIOUS
<1>4. a \in Entries /\ a[1] = t[1] /\ used[a] = Nil
    BY <1>2, <1>3, ThreadFacts DEF Entries
<1>5. /\ pc[t] = "alloc" /\ pc' = [pc EXCEPT ![t] = "claim"]
      /\ UNCHANGED <<head, e, used, next, locked, hi, lk, pred, pl, try>>
    BY DEF allocleFind, At
<1>6. /\ TypeOK'
      /\ pc'[t] = "claim" /\ \A u \in Threads : u # t => pc'[u] = pc[u]
      /\ ql'[t] = a /\ \A u \in Threads : u # t => ql'[u] = ql[u]
    BY <1>2, <1>3, <1>4, <1>5 DEF TypeOK
<1>7. Stack'
  <2>1. \A u \in Threads : u # t => Nest(u)'
      BY <1>5, <1>6, NestKept
  <2>2. Nest(t)'
      BY <1>5, <1>6 DEF Stack, Nest
  <2>3. QED  BY <2>1, <2>2 DEF Stack
<1>8. Levels'
  <2>1. \A c \in Cpus : pc'[<<c, "intr">>] = "off" <=> pc[<<c, "intr">>] = "off"
      BY <1>5, <1>6, ThreadFacts
  <2>2. QED  BY <2>1, <1>5, LevelsKept
<1>9. \A u \in Threads, m \in Locks :
         (Busy(u, m)' <=> Busy(u, m)) /\ (InLine(u, m)' <=> InLine(u, m))
  <2>1. \A u \in Threads, m \in Locks : Holds(u, m)' <=> Holds(u, m)
      BY <1>5 DEF Holds
  <2>2. QED  BY <2>1, <1>5, <1>6 DEF Busy, InLine
<1>10. \A u \in Threads, m \in Locks : Busy(u, m) => Ent(u, m)' = Ent(u, m)
    BY <1>5, <1>6 DEF Busy, Ent
<1>11. Table'
  <2>1. ASSUME NEW u \in Threads, pc'[u] = "claim"
        PROVE  /\ ql'[u] \in Entries /\ ql'[u][1] = u[1]
               /\ used'[ql'[u]] # Nil =>
                    \E v \in Threads, l \in Locks : /\ u[2] = "base" /\ v[2] = "intr" /\ v[1] = u[1]
                                                    /\ Busy(v, l)' /\ Ent(v, l)' = ql'[u]
    <3>1. CASE u = t
        BY <3>1, <1>4, <1>5, <1>6
    <3>2. CASE u # t
        BY <2>1, <3>2, <1>5, <1>6, <1>9, <1>10 DEF Table
    <3>3. QED  BY <3>1, <3>2
  <2>2. \A u \in Threads : pc'[u] \in {"off", "run", "alloc"} => ql'[u] = Nil
      BY <1>6 DEF Table
  <2>3. \A u \in Threads, l \in Locks : Busy(u, l)' =>
           /\ Ent(u, l)' \in Entries /\ Ent(u, l)'[1] = u[1]
           /\ used'[Ent(u, l)'] = l
      BY <1>5, <1>9, <1>10 DEF Table
  <2>4. \A u, v \in Threads, l \in Locks :
           Busy(u, l)' /\ Busy(v, l)' /\ Ent(u, l)' = Ent(v, l)' => u = v
      BY <1>9, <1>10 DEF Table
  <2>5. \A b \in Entries : used'[b] # Nil =>
           \E v \in Threads, l \in Locks : Busy(v, l)' /\ Ent(v, l)' = b
      BY <1>5, <1>9, <1>10 DEF Table
  <2>6. QED  BY <2>1, <2>2, <2>3, <2>4, <2>5 DEF Table
<1>12. Lines(Q)' /\ Members(Q)' /\ Links(Q)'
  <2>1. \A u \in Threads : pc[u] \in Lined \/ pc'[u] \in Lined =>
           pc'[u] = pc[u] /\ lk'[u] = lk[u] /\ ql'[u] = ql[u] /\ pred'[u] = pred[u]
      BY <1>5, <1>6 DEF Lined
  <2>2. \A u \in Threads, m \in Locks : InLine(u, m) => Ent(u, m)' = Ent(u, m)
      BY <1>10 DEF InLine, Busy
  <2>3. QED  BY <2>1, <2>2, <1>1, <1>5, <1>9, LineKept
<1>13. QED  BY <1>6, <1>7, <1>8, <1>11, <1>12

\* allocle() claims the entry: it is still free, though handlers ran since.
LEMMA ClaimStep ==
    ASSUME IInv, NEW t \in Threads, allocleClaim(t)
    PROVE  IInv'
<1> USE DEF IInv
<1>1. PICK Q \in [Locks -> Seq(Entries)] : Lines(Q) /\ Members(Q) /\ Links(Q)
    OBVIOUS
<1>2. PICK x \in {"cas", "swap"} : x = IF try[t] THEN "cas" ELSE "swap"
    OBVIOUS
<1>3. /\ At(t, "claim") /\ pc[t] = "claim" /\ pc' = [pc EXCEPT ![t] = x]
      /\ used' = [used EXCEPT ![ql[t]] = lk[t]]
      /\ UNCHANGED <<head, e, next, locked, hi, lk, ql, pred, pl, try>>
    BY <1>2 DEF allocleClaim, At
<1>4. PICK l, a : l = lk[t] /\ a = ql[t]
    OBVIOUS
<1>5. l \in Locks /\ Holds(t, l) /\ a \in Entries /\ a[1] = t[1]
    BY <1>3, <1>4, About DEF Table
<1>6. used[a] = Nil
  <2> SUFFICES ASSUME used[a] # Nil PROVE FALSE
      OBVIOUS
  <2>1. PICK u \in Threads, m \in Locks :
           t[2] = "base" /\ u[2] = "intr" /\ u[1] = t[1] /\ Busy(u, m)
      BY <1>3, <1>4 DEF Table
  <2>2. QED  BY <2>1, <1>3, NoHandler DEF Busy
<1>7. /\ TypeOK'
      /\ pc'[t] = x /\ \A u \in Threads : u # t => pc'[u] = pc[u]
      /\ used'[a] = l /\ \A b \in Entries : b # a => used'[b] = used[b]
    BY <1>2, <1>3, <1>4, <1>5 DEF TypeOK
<1>8. Stack'
  <2>1. \A u \in Threads : u # t => Nest(u)'
      BY <1>3, <1>7, NestKept
  <2>2. Nest(t)
      BY DEF Stack
  <2>3. Nest(t)'
      BY <2>2, <1>2, <1>3, <1>7 DEF Nest
  <2>4. QED  BY <2>1, <2>3 DEF Stack
<1>9. Levels'
  <2>1. \A c \in Cpus : pc'[<<c, "intr">>] = "off" <=> pc[<<c, "intr">>] = "off"
    <3>1. \A u \in Threads : pc'[u] = "off" <=> pc[u] = "off"
        BY <1>3, <1>7
    <3>2. QED  BY <3>1, ThreadFacts
  <2>2. QED  BY <2>1, <1>3, LevelsKept
<1>10. \A u \in Threads, m \in Locks :
          Ent(u, m)' = Ent(u, m) /\ (InLine(u, m)' <=> InLine(u, m))
          /\ (Busy(u, m)' <=> Busy(u, m) \/ (u = t /\ m = l))
  <2>1. \A u \in Threads, m \in Locks : Holds(u, m)' <=> Holds(u, m)
      BY <1>3 DEF Holds
  <2>2. \A u \in Threads, m \in Locks : Ent(u, m)' = Ent(u, m)
      BY <1>3 DEF Ent
  <2>3. \A u \in Threads, m \in Locks : InLine(u, m)' <=> InLine(u, m)
      BY <2>1, <1>2, <1>3, <1>7 DEF InLine
  <2>4. \A u \in Threads, m \in Locks : Busy(u, m)' <=> Busy(u, m) \/ (u = t /\ m = l)
      BY <2>1, <1>2, <1>3, <1>4, <1>5, <1>7 DEF Busy
  <2>5. QED  BY <2>2, <2>3, <2>4
<1>11. Ent(t, l) = a /\ \A u \in Threads, m \in Locks : Busy(u, m) => Ent(u, m) \in Entries \ {a}
    BY <1>4, <1>6 DEF Table, Ent
<1>12. Table'
  <2>1. ASSUME NEW u \in Threads, NEW m \in Locks, Busy(u, m)'
        PROVE  /\ Ent(u, m)' \in Entries /\ Ent(u, m)'[1] = u[1]
               /\ used'[Ent(u, m)'] = m
    <3>1. CASE u = t /\ m = l
        BY <3>1, <1>5, <1>7, <1>10, <1>11
    <3>2. CASE Busy(u, m)
      <4>1. Ent(u, m)' = Ent(u, m) /\ Ent(u, m) \in Entries \ {a}
          BY <3>2, <1>10, <1>11
      <4>2. Ent(u, m)[1] = u[1] /\ used[Ent(u, m)] = m
          BY <3>2 DEF Table
      <4>3. QED  BY <4>1, <4>2, <1>7
    <3>3. QED  BY <2>1, <3>1, <3>2, <1>10
  <2>2. \A u, v \in Threads, m \in Locks :
           Busy(u, m)' /\ Busy(v, m)' /\ Ent(u, m)' = Ent(v, m)' => u = v
      BY <1>10, <1>11 DEF Table
  <2>3. \A b \in Entries : used'[b] # Nil =>
           \E v \in Threads, m \in Locks : Busy(v, m)' /\ Ent(v, m)' = b
      BY <1>5, <1>7, <1>10, <1>11 DEF Table
  <2>4. ASSUME NEW u \in Threads, pc'[u] = "claim"
        PROVE  /\ ql'[u] \in Entries /\ ql'[u][1] = u[1]
               /\ used'[ql'[u]] # Nil =>
                    \E v \in Threads, m \in Locks : /\ u[2] = "base" /\ v[2] = "intr" /\ v[1] = u[1]
                                                    /\ Busy(v, m)' /\ Ent(v, m)' = ql'[u]
    <3>1. u # t /\ pc[u] = "claim" /\ ql'[u] = ql[u]
        BY <2>4, <1>2, <1>3, <1>7
    <3>2. ql[u] \in Entries /\ ql[u][1] = u[1]
        BY <3>1 DEF Table
    <3>3. CASE ql[u] # a
        BY <3>1, <3>2, <3>3, <1>7, <1>10 DEF Table
    <3>4. CASE ql[u] = a
      <4>1. u[1] = t[1] /\ u[2] # t[2]
          BY <3>1, <3>2, <3>4, <1>5, ThreadFacts
      <4>2. t[2] = "intr" /\ u[2] = "base"
        <5>1. u[2] \in {"base", "intr"} /\ t[2] \in {"base", "intr"}
            BY ThreadFacts
        <5>2. ~(t[2] = "base" /\ u[2] = "intr")
            BY <3>1, <4>1, <1>3, NoHandler
        <5>3. QED  BY <4>1, <5>1, <5>2
      <4>3. Busy(t, l)' /\ Ent(t, l)' = ql'[u]
          BY <3>1, <3>4, <1>5, <1>10, <1>11
      <4>4. QED  BY <3>1, <3>2, <4>1, <4>2, <4>3, <1>5
    <3>5. QED  BY <3>3, <3>4
  <2>5. \A u \in Threads : pc'[u] \in {"off", "run", "alloc"} => ql'[u] = Nil
      BY <1>2, <1>3, <1>7 DEF Table
  <2>6. QED  BY <2>1, <2>2, <2>3, <2>4, <2>5 DEF Table
<1>13. Lines(Q)' /\ Members(Q)' /\ Links(Q)'
  <2>1. \A u \in Threads : pc[u] \in Lined \/ pc'[u] \in Lined => pc'[u] = pc[u]
      BY <1>2, <1>3, <1>7 DEF Lined
  <2>2. QED  BY <2>1, <1>1, <1>3, <1>10, LineKept
<1>14. QED  BY <1>7, <1>8, <1>9, <1>12, <1>13

\* The call returns with the lock: its entry is remembered in l->e.
LEMMA LockReturnStep ==
    ASSUME IInv, NEW t \in Threads, LockReturn(t)
    PROVE  IInv'
<1> USE DEF IInv
<1>1. PICK Q \in [Locks -> Seq(Entries)] : Lines(Q) /\ Members(Q) /\ Links(Q)
    OBVIOUS
<1>2. /\ pc[t] = "own" /\ pc' = [pc EXCEPT ![t] = "run"]
      /\ e' = [e EXCEPT ![lk[t]] = ql[t]]
      /\ lk' = [lk EXCEPT ![t] = Nil] /\ ql' = [ql EXCEPT ![t] = Nil]
      /\ pred' = [pred EXCEPT ![t] = Nil]
      /\ UNCHANGED <<head, used, next, locked, hi, pl, try>>
    BY DEF LockReturn, At
<1>3. PICK l, a : l = lk[t] /\ a = ql[t]
    OBVIOUS
<1>4. l \in Locks /\ Holds(t, l) /\ a \in Entries /\ InLine(t, l) /\ ~Waits(t) /\ Ent(t, l) = a
    BY <1>2, <1>3, About, Claimed DEF InLine, Waits
<1>5. /\ TypeOK'
      /\ pc'[t] = "run" /\ \A u \in Threads : u # t => pc'[u] = pc[u]
      /\ e'[l] = a /\ \A m \in Locks : m # l => e'[m] = e[m]
      /\ lk'[t] = Nil /\ \A u \in Threads : u # t => lk'[u] = lk[u]
      /\ ql'[t] = Nil /\ \A u \in Threads : u # t => ql'[u] = ql[u]
      /\ \A u \in Threads : u # t => pred'[u] = pred[u]
    BY <1>2, <1>3, <1>4 DEF TypeOK
<1>6. Stack'
  <2>1. \A u \in Threads : u # t => Nest(u)'
      BY <1>2, <1>5, NestKept
  <2>2. Nest(t)
      BY DEF Stack
  <2>3. Nest(t)'
      BY <2>2, <1>2, <1>5 DEF Nest
  <2>4. QED  BY <2>1, <2>3 DEF Stack
<1>7. Levels'
  <2>1. \A c \in Cpus : pc'[<<c, "intr">>] = "off" <=> pc[<<c, "intr">>] = "off"
      BY <1>2, <1>5, ThreadFacts
  <2>2. QED  BY <2>1, <1>2, LevelsKept
<1>8. \A u \in Threads, m \in Locks :
         (Busy(u, m)' <=> Busy(u, m)) /\ (InLine(u, m)' <=> InLine(u, m))
  <2>1. \A u \in Threads, m \in Locks : Holds(u, m)' <=> Holds(u, m)
      BY <1>2 DEF Holds
  <2>2. \A m \in Locks : (Busy(t, m)' <=> Busy(t, m)) /\ (InLine(t, m)' <=> InLine(t, m))
      BY <2>1, <1>2, <1>5 DEF Busy, InLine
  <2>3. QED  BY <2>1, <2>2, <1>5 DEF Busy, InLine
<1>9. \A u \in Threads, m \in Locks : Busy(u, m) => Ent(u, m)' = Ent(u, m)
  <2> SUFFICES ASSUME NEW u \in Threads, NEW m \in Locks, Busy(u, m)
               PROVE  Ent(u, m)' = Ent(u, m)
      OBVIOUS
  <2>1. CASE u = t
      BY <2>1, <1>3, <1>4, <1>5 DEF Ent
  <2>2. CASE u # t /\ (m # l \/ lk[u] = m)
      BY <2>2, <1>5 DEF Ent
  <2>3. CASE u # t /\ m = l /\ lk[u] # m
    <3>1. InLine(u, l)
        BY <2>3 DEF Busy, InLine
    <3>2. u = t
        BY <2>3, <3>1, <1>1, <1>4, Owner
    <3>3. QED  BY <2>3, <3>2
  <2>4. QED  BY <2>1, <2>2, <2>3
<1>10. Table'
  <2>1. \A u \in Threads : pc'[u] = "claim" => pc[u] = "claim" /\ ql'[u] = ql[u]
      BY <1>5
  <2>2. \A u \in Threads : pc'[u] \in {"off", "run", "alloc"} => ql'[u] = Nil
      BY <1>5 DEF Table
  <2>3. QED  BY <2>1, <2>2, <1>2, <1>8, <1>9, TableKept
<1>11. Lines(Q)' /\ Members(Q)' /\ Links(Q)'
  <2>1. \A u \in Threads : pc[u] \in Lined \/ pc'[u] \in Lined =>
           pc'[u] = pc[u] /\ lk'[u] = lk[u] /\ ql'[u] = ql[u] /\ pred'[u] = pred[u]
      BY <1>2, <1>5 DEF Lined
  <2>2. \A u \in Threads, m \in Locks : InLine(u, m) => Ent(u, m)' = Ent(u, m)
      BY <1>9 DEF InLine, Busy
  <2>3. QED  BY <2>1, <2>2, <1>1, <1>2, <1>8, LineKept
<1>12. QED  BY <1>5, <1>6, <1>7, <1>10, <1>11

\* The release begins with the entry that l->e remembers.
LEMMA UnlockCallStep ==
    ASSUME IInv, NEW t \in Threads, UnlockCall(t)
    PROVE  IInv'
<1> USE DEF IInv
<1>1. PICK Q \in [Locks -> Seq(Entries)] : Lines(Q) /\ Members(Q) /\ Links(Q)
    OBVIOUS
<1>2. PICK l : l = pl[t][Len(pl[t])].l
    OBVIOUS
<1>3. /\ pc[t] = "run" /\ pl[t] # << >> /\ pc' = [pc EXCEPT ![t] = "unlock"]
      /\ lk' = [lk EXCEPT ![t] = l] /\ ql' = [ql EXCEPT ![t] = e[l]]
      /\ UNCHANGED <<head, e, used, next, locked, hi, pred, pl, try>>
    BY <1>2 DEF UnlockCall, At
<1>4. l \in Locks /\ Holds(t, l)
  <2>1. pl[t] \in Seq(Frame) /\ Len(pl[t]) \in 1 .. Len(pl[t])
      BY <1>3 DEF TypeOK
  <2>2. pl[t][Len(pl[t])] \in Frame /\ DOMAIN pl[t] = 1 .. Len(pl[t])
      BY <2>1
  <2>3. QED  BY <2>1, <2>2, <1>2 DEF Frame, Holds
<1>5. /\ TypeOK'
      /\ pc'[t] = "unlock" /\ \A u \in Threads : u # t => pc'[u] = pc[u]
      /\ lk'[t] = l /\ \A u \in Threads : u # t => lk'[u] = lk[u]
      /\ ql'[t] = e[l] /\ \A u \in Threads : u # t => ql'[u] = ql[u]
    BY <1>3, <1>4 DEF TypeOK
<1>6. Stack'
  <2>1. \A u \in Threads : u # t => Nest(u)'
      BY <1>3, <1>5, NestKept
  <2>2. Nest(t)
      BY DEF Stack
  <2>3. Nest(t)'
      BY <2>2, <1>2, <1>3, <1>4, <1>5 DEF Nest
  <2>4. QED  BY <2>1, <2>3 DEF Stack
<1>7. Levels'
  <2>1. \A c \in Cpus : pc'[<<c, "intr">>] = "off" <=> pc[<<c, "intr">>] = "off"
      BY <1>3, <1>5, ThreadFacts
  <2>2. QED  BY <2>1, <1>3, LevelsKept
<1>8. \A m \in Locks : lk[t] # m
    BY <1>3 DEF Stack, Nest
<1>9. \A u \in Threads, m \in Locks :
         /\ (Busy(u, m)' <=> Busy(u, m)) /\ (InLine(u, m)' <=> InLine(u, m))
         /\ Ent(u, m)' = Ent(u, m)
  <2>1. \A u \in Threads, m \in Locks : Holds(u, m)' <=> Holds(u, m)
      BY <1>3 DEF Holds
  <2>2. \A m \in Locks : /\ (Busy(t, m)' <=> Busy(t, m)) /\ (InLine(t, m)' <=> InLine(t, m))
                         /\ Ent(t, m)' = Ent(t, m)
      BY <2>1, <1>3, <1>5, <1>8 DEF Busy, InLine, Ent
  <2>3. QED  BY <2>1, <2>2, <1>3, <1>5 DEF Busy, InLine, Ent
<1>10. Table'
  <2>1. \A u \in Threads : pc'[u] = "claim" => pc[u] = "claim" /\ ql'[u] = ql[u]
      BY <1>5
  <2>2. \A u \in Threads : pc'[u] \in {"off", "run", "alloc"} => ql'[u] = Nil
      BY <1>5 DEF Table
  <2>3. QED  BY <2>1, <2>2, <1>3, <1>9, TableKept
<1>11. Lines(Q)' /\ Members(Q)' /\ Links(Q)'
  <2>1. \A u \in Threads : pc[u] \in Lined \/ pc'[u] \in Lined =>
           pc'[u] = pc[u] /\ lk'[u] = lk[u] /\ ql'[u] = ql[u] /\ pred'[u] = pred[u]
      BY <1>3, <1>5 DEF Lined
  <2>2. QED  BY <2>1, <1>1, <1>3, <1>9, LineKept
<1>12. QED  BY <1>5, <1>6, <1>7, <1>10, <1>11

\* Popping the stack of thread t keeps the locks in order.
LEMMA NestPopped ==
    ASSUME TypeOK, Stack, NEW t \in Threads, lk[t] # Nil,
           pl' = [pl EXCEPT ![t] = SubSeq(@, 1, Len(@) - 1)],
           lk'[t] = Nil, pc'[t] = "run"
    PROVE  Nest(t)'
<1>1. Nest(t)
    BY DEF Stack
<1>2. /\ Len(pl[t]) \in Nat /\ Len(pl'[t]) = Len(pl[t]) - 1 /\ Len(pl[t]) >= 1
      /\ \A i \in 1 .. Len(pl[t]) - 1 : pl'[t][i] = pl[t][i]
    BY Popped
<1>3. \A i \in 1 .. Len(pl'[t]) : i \in 1 .. Len(pl[t]) /\ pl'[t][i] = pl[t][i]
    BY <1>2
<1>4. QED  BY <1>1, <1>3 DEF Nest

\* An entry is given back and the lock popped from the stack: by canlock()
\* that fails, or by the end of a release.
LEMMA Freed ==
    ASSUME TypeOK, Stack, Table, NEW t \in Threads, pc[t] \in {"cas", "free"},
           used' = [used EXCEPT ![ql[t]] = Nil],
           pl' = [pl EXCEPT ![t] = SubSeq(@, 1, Len(@) - 1)],
           lk' = [lk EXCEPT ![t] = Nil], ql' = [ql EXCEPT ![t] = Nil],
           pc' = [pc EXCEPT ![t] = "run"], UNCHANGED <<e, try>>
    PROVE  /\ used' \in [Entries -> Locks \union {Nil}] /\ pl' \in [Threads -> Seq(Frame)]
           /\ lk' \in [Threads -> Locks \union {Nil}] /\ ql' \in [Threads -> Entries \union {Nil}]
           /\ pc' \in [Threads -> Pcs] /\ Stack' /\ Table'
           /\ \A u \in Threads, m \in Locks : InLine(u, m)' <=> InLine(u, m)
           /\ \A u \in Threads, m \in Locks : InLine(u, m) => Ent(u, m)' = Ent(u, m)
           /\ \A u \in Threads : pc[u] \in Lined \/ pc'[u] \in Lined =>
                 pc'[u] = pc[u] /\ lk'[u] = lk[u] /\ ql'[u] = ql[u]
<1>1. PICK l, a : l = lk[t] /\ a = ql[t]
    OBVIOUS
<1>2. /\ l \in Locks /\ Busy(t, l) /\ Ent(t, l) = a /\ a \in Entries /\ used[a] = l
      /\ \A u \in Threads, m \in Locks : Busy(u, m) /\ Ent(u, m) = a => u = t /\ m = l
    BY <1>1, Claimed
<1>3. /\ used' \in [Entries -> Locks \union {Nil}]
      /\ lk' \in [Threads -> Locks \union {Nil}] /\ ql' \in [Threads -> Entries \union {Nil}]
      /\ pc' \in [Threads -> Pcs]
      /\ used'[a] = Nil /\ \A b \in Entries : b # a => used'[b] = used[b]
      /\ pc'[t] = "run" /\ \A u \in Threads : u # t => pc'[u] = pc[u]
      /\ lk'[t] = Nil /\ \A u \in Threads : u # t => lk'[u] = lk[u]
      /\ ql'[t] = Nil /\ \A u \in Threads : u # t => ql'[u] = ql[u]
    BY <1>1, <1>2 DEF TypeOK
<1>4. lk[t] # Nil
    BY <1>1, <1>2
<1>5. /\ pl' \in [Threads -> Seq(Frame)]
      /\ \A u \in Threads : u # t => pl'[u] = pl[u]
    BY <1>4, Popped
<1>6. \A u \in Threads, m \in Locks : Holds(u, m)' <=> Holds(u, m) /\ ~(u = t /\ m = l)
    BY <1>1, <1>4, Popped
<1>7. Stack'
  <2>1. \A u \in Threads : u # t => Nest(u)'
      BY <1>3, <1>5, NestKept
  <2>2. Nest(t)'
      BY <1>3, <1>4, NestPopped
  <2>3. QED  BY <2>1, <2>2 DEF Stack
<1>8. \A u \in Threads, m \in Locks :
         /\ Busy(u, m)' <=> Busy(u, m) /\ ~(u = t /\ m = l)
         /\ InLine(u, m)' <=> InLine(u, m)
  <2>1. \A m \in Locks : /\ Busy(t, m)' <=> Busy(t, m) /\ m # l
                         /\ InLine(t, m)' <=> InLine(t, m)
      BY <1>1, <1>3, <1>6 DEF Busy, InLine
  <2>2. QED  BY <2>1, <1>3, <1>6 DEF Busy, InLine
<1>9. \A u \in Threads, m \in Locks : ~(u = t /\ m = l) => Ent(u, m)' = Ent(u, m)
    BY <1>1, <1>3 DEF Ent
<1>10. ~InLine(t, l)
    BY <1>1 DEF InLine
<1>11. Table'
  <2>1. ASSUME NEW u \in Threads, NEW m \in Locks, Busy(u, m)'
        PROVE  /\ Ent(u, m)' \in Entries /\ Ent(u, m)'[1] = u[1]
               /\ used'[Ent(u, m)'] = m
    <3>1. Busy(u, m) /\ Ent(u, m)' = Ent(u, m) /\ Ent(u, m) # a
        BY <2>1, <1>2, <1>8, <1>9
    <3>2. Ent(u, m) \in Entries /\ Ent(u, m)[1] = u[1] /\ used[Ent(u, m)] = m
        BY <3>1 DEF Table
    <3>3. QED  BY <3>1, <3>2, <1>3
  <2>2. \A u, v \in Threads, m \in Locks :
           Busy(u, m)' /\ Busy(v, m)' /\ Ent(u, m)' = Ent(v, m)' => u = v
      BY <1>8, <1>9 DEF Table
  <2>3. ASSUME NEW b \in Entries, used'[b] # Nil
        PROVE  \E v \in Threads, m \in Locks : Busy(v, m)' /\ Ent(v, m)' = b
    <3>1. b # a /\ used[b] # Nil
        BY <2>3, <1>3
    <3>2. PICK v \in Threads, m \in Locks : Busy(v, m) /\ Ent(v, m) = b
        BY <3>1 DEF Table
    <3>3. ~(v = t /\ m = l)
        BY <3>1, <3>2, <1>2
    <3>4. QED  BY <3>2, <3>3, <1>8, <1>9
  <2>4. ASSUME NEW u \in Threads, pc'[u] = "claim"
        PROVE  /\ ql'[u] \in Entries /\ ql'[u][1] = u[1]
               /\ used'[ql'[u]] # Nil =>
                    \E v \in Threads, m \in Locks : /\ u[2] = "base" /\ v[2] = "intr" /\ v[1] = u[1]
                                                    /\ Busy(v, m)' /\ Ent(v, m)' = ql'[u]
    <3>1. u # t /\ pc[u] = "claim" /\ ql'[u] = ql[u] /\ ql[u] \in Entries /\ ql[u][1] = u[1]
        BY <2>4, <1>3 DEF Table
    <3>2. ASSUME used'[ql'[u]] # Nil
          PROVE  \E v \in Threads, m \in Locks : /\ u[2] = "base" /\ v[2] = "intr" /\ v[1] = u[1]
                                                 /\ Busy(v, m)' /\ Ent(v, m)' = ql'[u]
      <4>1. ql[u] # a /\ used[ql[u]] # Nil
          BY <3>1, <3>2, <1>3
      <4>2. PICK v \in Threads, m \in Locks : /\ u[2] = "base" /\ v[2] = "intr" /\ v[1] = u[1]
                                              /\ Busy(v, m) /\ Ent(v, m) = ql[u]
          BY <3>1, <4>1 DEF Table
      <4>3. ~(v = t /\ m = l)
          BY <4>1, <4>2, <1>2
      <4>4. Busy(v, m)' /\ Ent(v, m)' = ql'[u]
          BY <3>1, <4>2, <4>3, <1>8, <1>9
      <4>5. QED  BY <4>2, <4>4
    <3>3. QED  BY <3>1, <3>2
  <2>5. \A u \in Threads : pc'[u] \in {"off", "run", "alloc"} => ql'[u] = Nil
      BY <1>3 DEF Table
  <2>6. QED  BY <2>1, <2>2, <2>3, <2>4, <2>5 DEF Table
<1>12. \A u \in Threads : pc[u] \in Lined \/ pc'[u] \in Lined =>
          pc'[u] = pc[u] /\ lk'[u] = lk[u] /\ ql'[u] = ql[u]
    BY <1>3 DEF Lined
<1>13. \A u \in Threads, m \in Locks : InLine(u, m) => Ent(u, m)' = Ent(u, m)
    BY <1>9, <1>10
<1>14. QED  BY <1>3, <1>5, <1>7, <1>8, <1>11, <1>12, <1>13

\* The level that the end of a release restores is the one the locks still
\* held call for.
LEMMA LevelsPopped ==
    ASSUME TypeOK, Stack, Levels, NEW t \in Threads, NEW x, At(t, x), x \notin {"off", "run"},
           pl' = [pl EXCEPT ![t] = SubSeq(@, 1, Len(@) - 1)],
           hi' = [hi EXCEPT ![t[1]] = IF lk[t] \in Ilocks THEN pl[t][Len(pl[t])].hi ELSE hi[t[1]]],
           pc' = [pc EXCEPT ![t] = "run"]
    PROVE  Levels'
<1>1. pc[t] = x /\ pc[t] \notin {"off", "run"} /\ lk[t] \in Locks /\ lk[t] # Nil
    BY About DEF At
<1>2. PICK n : n = Len(pl[t])
    OBVIOUS
<1>3. /\ \A u \in Threads : u # t => pl'[u] = pl[u]
      /\ n \in Nat /\ Len(pl'[t]) = n - 1 /\ n >= 1
      /\ \A i \in 1 .. n - 1 : pl'[t][i] = pl[t][i]
      /\ pl[t][n].l = lk[t]
    BY <1>1, <1>2, Popped
<1>4. \A u \in Threads, m \in Locks : Holds(u, m)' <=> Holds(u, m) /\ ~(u = t /\ m = lk[t])
    BY <1>1, Popped
<1>5. PICK c \in Cpus : c = t[1]
    BY ThreadFacts
<1>6. <<c, "base">> \in Threads /\ <<c, "intr">> \in Threads
    BY ThreadFacts
<1>7. /\ pc'[t] = "run" /\ \A u \in Threads : u # t => pc'[u] = pc[u]
      /\ hi'[c] = IF lk[t] \in Ilocks THEN pl[t][n].hi ELSE hi[c]
      /\ \A d \in Cpus : d # c => hi'[d] = hi[d]
    BY <1>2, <1>5 DEF TypeOK
<1>8. Level(c)
    BY DEF Levels
<1>9. ASSUME t[2] = "base" PROVE Level(c)'
  <2>1. t = <<c, "base">> /\ <<c, "intr">> # t
      BY <1>5, <1>9, ThreadFacts
  <2>2. pc[<<c, "intr">>] = "off" /\ pc'[<<c, "intr">>] = "off"
      BY <1>5, <1>6, <1>7, <1>9, <2>1 DEF At
  <2>3. ASSUME NEW i \in 1 .. n, pl[t][i].l \in Ilocks
        PROVE  pl[t][i].hi <=> \E j \in 1 .. i - 1 : pl[t][j].l \in Ilocks
      BY <2>1, <2>3, <1>2, <1>8 DEF Level
  <2>4. hi'[c] <=> \E m \in Ilocks : Holds(t, m)'
    <3>1. CASE lk[t] \notin Ilocks
      <4>1. hi[c] <=> \E m \in Ilocks : Holds(t, m)
          BY <2>1, <2>2, <1>8 DEF Level
      <4>2. QED  BY <3>1, <4>1, <1>4, <1>7
    <3>2. CASE lk[t] \in Ilocks
      <4>1. hi'[c] <=> \E j \in 1 .. n - 1 : pl[t][j].l \in Ilocks
        <5>1. n \in 1 .. n /\ pl[t][n].l \in Ilocks /\ hi'[c] = pl[t][n].hi
            BY <3>2, <1>3, <1>7
        <5>2. QED  BY <5>1, <2>3
      <4>2. DOMAIN pl'[t] = 1 .. n - 1
          BY <1>1, <1>3, Popped
      <4>3. (\E m \in Ilocks : Holds(t, m)') <=> \E j \in 1 .. n - 1 : pl'[t][j].l \in Ilocks
          BY <4>2 DEF Holds
      <4>4. QED  BY <4>1, <4>3, <1>3
    <3>3. QED  BY <3>1, <3>2
  <2>5. ASSUME NEW i \in 1 .. Len(pl'[t]), pl'[t][i].l \in Ilocks
        PROVE  pl'[t][i].hi <=> \E j \in 1 .. i - 1 : pl'[t][j].l \in Ilocks
    <3>1. i \in 1 .. n - 1 /\ i \in 1 .. n /\ \A j \in 1 .. i - 1 : j \in 1 .. n - 1
        BY <1>3
    <3>2. QED  BY <2>3, <2>5, <3>1, <1>3
  <2>6. pl'[<<c, "intr">>] = pl[<<c, "intr">>]
      BY <2>1, <1>3, <1>6
  <2>7. QED  BY <2>1, <2>2, <2>4, <2>5, <2>6, <1>8 DEF Level
<1>10. ASSUME t[2] = "intr" PROVE Level(c)'
  <2>1. t = <<c, "intr">> /\ <<c, "base">> # t
      BY <1>5, <1>10, ThreadFacts
  <2>2. pl'[<<c, "base">>] = pl[<<c, "base">>]
      BY <2>1, <1>3, <1>6
  <2>3. \A i \in 1 .. n : pl[t][i].hi
      BY <2>1, <1>2, <1>8 DEF Level
  <2>4. hi[c] /\ hi'[c]
    <3>1. hi[c]
        BY <2>1, <1>1, <1>8 DEF Level
    <3>2. n \in 1 .. n
        BY <1>3
    <3>3. QED  BY <3>1, <3>2, <2>3, <1>7
  <2>5. \A m \in Ilocks : ~Holds(<<c, "base">>, m)'
      BY <2>1, <2>2, <1>1, <1>8 DEF Level, Holds
  <2>6. \A i \in 1 .. Len(pl'[t]) : pl'[t][i].hi
      BY <2>3, <1>3
  <2>7. QED  BY <2>1, <2>2, <2>4, <2>5, <2>6, <1>7, <1>8 DEF Level
<1>11. ASSUME NEW d \in Cpus, d # c PROVE Level(d)'
    BY <1>3, <1>5, <1>7, <1>11, Elsewhere
<1>12. QED  BY <1>9, <1>10, <1>11, <1>5, ThreadFacts DEF Levels

\* canlock() fails: its entry, in no line, is given back.
LEMMA CanlockFailStep ==
    ASSUME IInv, NEW t \in Threads, canlockFail(t)
    PROVE  IInv'
<1> USE DEF IInv
<1>1. PICK Q \in [Locks -> Seq(Entries)] : Lines(Q) /\ Members(Q) /\ Links(Q)
    OBVIOUS
<1>2. /\ At(t, "cas") /\ pc[t] = "cas" /\ pc' = [pc EXCEPT ![t] = "run"]
      /\ next' = [next EXCEPT ![ql[t]] = Nil]
      /\ locked' = [locked EXCEPT ![ql[t]] = FALSE]
      /\ used' = [used EXCEPT ![ql[t]] = Nil]
      /\ pl' = [pl EXCEPT ![t] = SubSeq(@, 1, Len(@) - 1)]
      /\ lk' = [lk EXCEPT ![t] = Nil] /\ ql' = [ql EXCEPT ![t] = Nil]
      /\ UNCHANGED <<head, e, hi, pred, try>>
    BY DEF canlockFail, At
<1>3. /\ used' \in [Entries -> Locks \union {Nil}] /\ pl' \in [Threads -> Seq(Frame)]
      /\ lk' \in [Threads -> Locks \union {Nil}] /\ ql' \in [Threads -> Entries \union {Nil}]
      /\ pc' \in [Threads -> Pcs] /\ Stack' /\ Table'
      /\ \A u \in Threads, m \in Locks : InLine(u, m)' <=> InLine(u, m)
      /\ \A u \in Threads, m \in Locks : InLine(u, m) => Ent(u, m)' = Ent(u, m)
      /\ \A u \in Threads : pc[u] \in Lined \/ pc'[u] \in Lined =>
            pc'[u] = pc[u] /\ lk'[u] = lk[u] /\ ql'[u] = ql[u]
    BY <1>2, Freed
<1>4. ql[t] \in Entries
    BY <1>2, Claimed
<1>5. /\ TypeOK'
      /\ \A b \in Entries : b # ql[t] => next'[b] = next[b] /\ locked'[b] = locked[b]
    BY <1>2, <1>3, <1>4 DEF TypeOK
<1>6. Levels'
  <2>1. lk[t] \notin Ilocks
      BY <1>2 DEF Stack, Nest
  <2>2. hi' = [hi EXCEPT ![t[1]] = IF lk[t] \in Ilocks THEN pl[t][Len(pl[t])].hi ELSE hi[t[1]]]
      BY <2>1, <1>2, ThreadFacts DEF TypeOK
  <2>3. QED  BY <2>2, <1>2, LevelsPopped
<1>7. Lines(Q)' /\ Members(Q)' /\ Links(Q)'
  <2>1. \A m \in Locks : \A i \in 1 .. Len(Q[m]) :
           next'[Q[m][i]] = next[Q[m][i]] /\ locked'[Q[m][i]] = locked[Q[m][i]]
    <3>1. \A m \in Locks : \A i \in 1 .. Len(Q[m]) : Q[m][i] # ql[t]
        BY <1>1, <1>2, Outside
    <3>2. \A m \in Locks : \A i \in 1 .. Len(Q[m]) : Q[m][i] \in Entries
        OBVIOUS
    <3>3. QED  BY <3>1, <3>2, <1>5
  <2>2. QED  BY <2>1, <1>1, <1>2, <1>3, LineKept
<1>8. QED  BY <1>3, <1>5, <1>6, <1>7

\* The release ends.
LEMMA UnlockReturnStep ==
    ASSUME IInv, NEW t \in Threads, UnlockReturn(t)
    PROVE  IInv'
<1> USE DEF IInv
<1>1. PICK Q \in [Locks -> Seq(Entries)] : Lines(Q) /\ Members(Q) /\ Links(Q)
    OBVIOUS
<1>2. /\ At(t, "free") /\ pc[t] = "free" /\ pc' = [pc EXCEPT ![t] = "run"]
      /\ used' = [used EXCEPT ![ql[t]] = Nil]
      /\ hi' = [hi EXCEPT ![t[1]] = IF pl[t][Len(pl[t])].l \in Ilocks
                                    THEN pl[t][Len(pl[t])].hi ELSE hi[t[1]]]
      /\ pl' = [pl EXCEPT ![t] = SubSeq(@, 1, Len(@) - 1)]
      /\ lk' = [lk EXCEPT ![t] = Nil] /\ ql' = [ql EXCEPT ![t] = Nil]
      /\ UNCHANGED <<head, e, next, locked, pred, try>>
    BY DEF UnlockReturn, At
<1>3. /\ used' \in [Entries -> Locks \union {Nil}] /\ pl' \in [Threads -> Seq(Frame)]
      /\ lk' \in [Threads -> Locks \union {Nil}] /\ ql' \in [Threads -> Entries \union {Nil}]
      /\ pc' \in [Threads -> Pcs] /\ Stack' /\ Table'
      /\ \A u \in Threads, m \in Locks : InLine(u, m)' <=> InLine(u, m)
      /\ \A u \in Threads, m \in Locks : InLine(u, m) => Ent(u, m)' = Ent(u, m)
      /\ \A u \in Threads : pc[u] \in Lined \/ pc'[u] \in Lined =>
            pc'[u] = pc[u] /\ lk'[u] = lk[u] /\ ql'[u] = ql[u]
    BY <1>2, Freed
<1>4. pl[t][Len(pl[t])].l = lk[t]
    BY <1>2, About DEF Stack, Nest
<1>5. Levels'
    BY <1>2, <1>4, LevelsPopped
<1>6. TypeOK'
  <2>1. pl[t][Len(pl[t])].hi \in BOOLEAN
    <3>1. pl[t] # << >> /\ pl[t] \in Seq(Frame)
        BY <1>2 DEF Stack, Nest, TypeOK
    <3>2. pl[t][Len(pl[t])] \in Frame
        BY <3>1
    <3>3. QED  BY <3>2 DEF Frame
  <2>2. hi' \in [Cpus -> BOOLEAN]
      BY <2>1, <1>2, ThreadFacts DEF TypeOK
  <2>3. QED  BY <2>2, <1>2, <1>3 DEF TypeOK
<1>7. Lines(Q)' /\ Members(Q)' /\ Links(Q)'
    BY <1>1, <1>2, <1>3, LineKept
<1>8. QED  BY <1>3, <1>5, <1>6, <1>7

----------------------------------------------------------------------------
(* The theorems.                                                           *)

LEMMA InitIInv == Init => IInv
<1> SUFFICES ASSUME Init PROVE IInv
    OBVIOUS
<1> USE DEF Init
<1>1. \A t \in Threads : t[2] \in {"base", "intr"} /\ t[1] \in Cpus
    BY ThreadFacts
<1>2. TypeOK
    BY DEF TypeOK
<1>3. \A t \in Threads : pl[t] = << >> /\ \A m \in Locks : ~Holds(t, m)
    BY DEF Holds
<1>4. Stack
    BY <1>1, <1>3 DEF Stack, Nest
<1>5. Levels
  <2> SUFFICES ASSUME NEW c \in Cpus PROVE Level(c)
      BY DEF Levels
  <2>1. /\ <<c, "base">> \in Threads /\ <<c, "intr">> \in Threads
        /\ <<c, "intr">>[2] = "intr"
      BY ThreadFacts
  <2>2. pc[<<c, "intr">>] = "off" /\ pl[<<c, "base">>] = << >> /\ pl[<<c, "intr">>] = << >>
      BY <2>1
  <2>3. \A l \in Ilocks : ~Holds(<<c, "base">>, l)
      BY <2>1, <1>3
  <2>4. QED  BY <2>2, <2>3 DEF Level
<1>6. Table
    BY <1>2, <1>3 DEF Table, Busy
<1>7. PICK Q : Q = [l \in Locks |-> << >>]
    OBVIOUS
<1>8. Q \in [Locks -> Seq(Entries)] /\ \A l \in Locks : Q[l] = << >> /\ Len(Q[l]) = 0
    BY <1>7
<1>9. Lines(Q) /\ Members(Q) /\ Links(Q)
  <2>1. Lines(Q)
      BY <1>8 DEF Lines
  <2>2. Members(Q)
      BY <1>3, <1>8 DEF Members, InLine
  <2>3. Links(Q)
      BY <1>8 DEF Links
  <2>4. QED  BY <2>1, <2>2, <2>3
<1>10. QED  BY <1>2, <1>4, <1>5, <1>6, <1>8, <1>9 DEF IInv

LEMMA NextIInv == IInv /\ [Next]_vars => IInv'
<1> SUFFICES ASSUME IInv, [Next]_vars PROVE IInv'
    OBVIOUS
<1>1. ASSUME NEW c \in Cpus, Interrupt(c) \/ InterruptReturn(c) PROVE IInv'
    BY <1>1, InterruptStep
<1>2. ASSUME NEW t \in Threads, NEW l \in Locks, NEW can \in BOOLEAN, LockCall(t, l, can)
      PROVE  IInv'
    BY <1>2, LockCallStep
<1>3. ASSUME NEW t \in Threads, UnlockCall(t) PROVE IInv'
    BY <1>3, UnlockCallStep
<1>4. ASSUME NEW t \in Threads, Step(t) PROVE IInv'
  <2>1. CASE allocleFind(t)
      BY <2>1, FindStep
  <2>2. CASE allocleClaim(t)
      BY <2>2, ClaimStep
  <2>3. CASE mcslockSwap(t)
    <3>1. head[lk[t]] \in Entries \union {Nil}
        BY <2>3, About DEF IInv, TypeOK, mcslockSwap, At
    <3>2. /\ pred' \in [Threads -> Entries \union {Nil}]
          /\ pred'[t] = head[lk[t]] /\ \A u \in Threads : u # t => pred'[u] = pred[u]
        BY <2>3, <3>1 DEF IInv, TypeOK, mcslockSwap
    <3>3. QED  BY <2>3, <3>2, EnqueueStep DEF mcslockSwap, At
  <2>4. CASE mcslockFlag(t)
      BY <2>4, FlagStep
  <2>5. CASE mcslockLink(t)
      BY <2>5, LinkStep
  <2>6. CASE mcslockSpin(t)
    <3>1. /\ pc[t] = "spin" /\ ~locked[ql[t]] /\ pc' = [pc EXCEPT ![t] = "own"]
          /\ UNCHANGED <<head, e, used, next, locked, hi, lk, ql, pred, pl, try>>
        BY <2>6 DEF mcslockSpin, At
    <3>2. QED  BY <3>1, TestStep
  <2>7. CASE mcscanlock(t)
    <3>1. /\ pred' \in [Threads -> Entries \union {Nil}]
          /\ \A u \in Threads : u # t => pred'[u] = pred[u]
        BY <2>7 DEF IInv, TypeOK, mcscanlock
    <3>2. /\ pc[t] = "cas" /\ head[lk[t]] = Nil
          /\ pc' = [pc EXCEPT ![t] = IF head[lk[t]] = Nil THEN "own" ELSE "flag"]
        BY <2>7 DEF mcscanlock, At
    <3>3. QED  BY <2>7, <3>1, <3>2, EnqueueStep DEF mcscanlock
  <2>8. CASE canlockFail(t)
      BY <2>8, CanlockFailStep
  <2>9. CASE LockReturn(t)
      BY <2>9, LockReturnStep
  <2>10. CASE mcsunlockNext(t)
    <3>1. PICK x \in {"grant", "uncas"} :
             /\ pc[t] = "unlock" /\ (x = "grant" => next[ql[t]] # Nil)
             /\ pc' = [pc EXCEPT ![t] = x]
             /\ UNCHANGED <<head, e, used, next, locked, hi, lk, ql, pred, pl, try>>
        BY <2>10 DEF mcsunlockNext, At
    <3>2. QED  BY <3>1, TestStep
  <2>11. CASE mcsunlockCas(t)
    <3>1. pc[t] = "uncas" /\ UNCHANGED <<e, used, next, locked, hi, lk, ql, pred, pl, try>>
        BY <2>11 DEF mcsunlockCas, At
    <3>2. CASE head[lk[t]] = ql[t]
        BY <2>11, <3>1, <3>2, EmptyStep DEF mcsunlockCas
    <3>3. CASE head[lk[t]] # ql[t]
      <4>1. pc' = [pc EXCEPT ![t] = "catchup"] /\ UNCHANGED head
          BY <2>11, <3>3 DEF mcsunlockCas
      <4>2. QED  BY <3>1, <4>1, TestStep
    <3>4. QED  BY <3>2, <3>3
  <2>12. CASE mcsunlockCatchup(t)
    <3>1. /\ pc[t] = "catchup" /\ next[ql[t]] # Nil /\ pc' = [pc EXCEPT ![t] = "grant"]
          /\ UNCHANGED <<head, e, used, next, locked, hi, lk, ql, pred, pl, try>>
        BY <2>12 DEF mcsunlockCatchup, At
    <3>2. QED  BY <3>1, TestStep
  <2>13. CASE mcsunlockGrant(t)
      BY <2>13, GrantStep
  <2>14. CASE UnlockReturn(t)
      BY <2>14, UnlockReturnStep
  <2>15. QED  BY <1>4, <2>1, <2>2, <2>3, <2>4, <2>5, <2>6, <2>7, <2>8, <2>9, <2>10, <2>11,
                <2>12, <2>13, <2>14 DEF Step
<1>5. CASE UNCHANGED vars
  <2> USE <1>5 DEF vars, IInv
  <2>1. \A t \in Threads, l \in Locks :
           /\ (Busy(t, l)' <=> Busy(t, l)) /\ (InLine(t, l)' <=> InLine(t, l))
           /\ Ent(t, l)' = Ent(t, l)
      BY DEF Holds, Busy, InLine, Ent
  <2>2. TypeOK' /\ Stack' /\ Levels'
      BY LevelsKept DEF TypeOK, Stack, Nest
  <2>3. Table'
      BY <2>1, TableKept DEF Table
  <2>4. PICK Q \in [Locks -> Seq(Entries)] : Lines(Q) /\ Members(Q) /\ Links(Q)
      OBVIOUS
  <2>5. Lines(Q)' /\ Members(Q)' /\ Links(Q)'
      BY <2>1, <2>4, LineKept
  <2>6. QED  BY <2>2, <2>3, <2>5
<1>6. QED  BY <1>1, <1>2, <1>3, <1>4, <1>5 DEF Next

\* The inductive invariant holds in every reachable state.
THEOREM Invariance == Spec => []IInv
BY InitIInv, NextIInv, PTL DEF Spec

\* One owner per lock, however many processors and handlers contend for it.
THEOREM MutualExclusion == Spec => []Mutex
<1>1. IInv => Mutex
  <2> SUFFICES ASSUME IInv, NEW t \in Threads, NEW u \in Threads, NEW l \in Locks,
                      Owns(t, l), Owns(u, l)
               PROVE  t = u
      BY DEF Mutex
  <2>1. PICK Q \in [Locks -> Seq(Entries)] : Lines(Q) /\ Members(Q) /\ Links(Q)
      BY DEF IInv
  <2>2. ASSUME NEW v \in Threads, Owns(v, l) PROVE InLine(v, l) /\ ~(lk[v] = l /\ Waits(v))
      BY <2>2, About DEF Owns, InLine, Waits, IInv
  <2>3. QED  BY <2>1, <2>2, Owner DEF IInv
<1>2. QED  BY <1>1, Invariance, PTL

\* Nobody spins in vain: the entry ahead of a waiter is in use, its thread
\* waits for the same lock or owns it, and no other waiter is behind it.
THEOREM NoneForgotten == Spec => []HandedOn
<1>1. IInv => HandedOn
  <2> SUFFICES ASSUME IInv, NEW t \in Threads, Waits(t)
               PROVE  /\ used[pred[t]] = lk[t]
                      /\ \E u \in Threads \ {t} :
                            \/ pc[u] \in {"flag", "link", "spin"} /\ lk[u] = lk[t] /\ ql[u] = pred[t]
                            \/ Owns(u, lk[t]) /\ pred[t] = (IF lk[u] = lk[t] THEN ql[u] ELSE e[lk[t]])
                      /\ \A u \in Threads \ {t} : Waits(u) => pred[u] # pred[t]
      BY DEF HandedOn
  <2> USE DEF IInv
  <2>1. PICK Q \in [Locks -> Seq(Entries)] : Lines(Q) /\ Members(Q) /\ Links(Q)
      OBVIOUS
  <2>2. \A u \in Threads : Waits(u) =>
           /\ lk[u] \in Locks /\ InLine(u, lk[u]) /\ Ent(u, lk[u]) = ql[u]
           /\ \E i \in 2 .. Len(Q[lk[u]]) :
                 ql[u] = Q[lk[u]][i] /\ pred[u] = Q[lk[u]][i - 1]
      BY <2>1, Waiter
  <2>3. PICK l \in Locks : l = lk[t]
      BY <2>2
  <2>4. PICK i \in 2 .. Len(Q[l]) : ql[t] = Q[l][i] /\ pred[t] = Q[l][i - 1]
      BY <2>2, <2>3
  <2>5. i \in 1 .. Len(Q[l]) /\ i - 1 \in 1 .. Len(Q[l]) /\ i # i - 1
      OBVIOUS
  <2>6. \A j, k \in 1 .. Len(Q[l]) : Q[l][j] = Q[l][k] => j = k
      BY <2>1 DEF Lines
  <2>7. PICK u \in Threads : InLine(u, l) /\ Ent(u, l) = pred[t]
    <3>1. \A j \in 1 .. Len(Q[l]) : \E u \in Threads : InLine(u, l) /\ Ent(u, l) = Q[l][j]
        BY <2>1 DEF Members
    <3>2. QED  BY <3>1, <2>4, <2>5
  <2>8. Busy(u, l)
      BY <2>7 DEF InLine, Busy
  <2>9. used[pred[t]] = l
      BY <2>7, <2>8 DEF Table
  <2>10. u # t
      BY <2>2, <2>3, <2>4, <2>5, <2>6, <2>7
  <2>11. \/ pc[u] \in {"flag", "link", "spin"} /\ lk[u] = l /\ ql[u] = pred[t]
         \/ Owns(u, l) /\ pred[t] = (IF lk[u] = l THEN ql[u] ELSE e[l])
    <3>1. CASE lk[u] # l
        BY <3>1, <2>7 DEF InLine, Ent, Owns
    <3>2. CASE lk[u] = l
      <4>1. pc[u] \notin {"off", "run"} /\ pc[u] \in Pcs
          BY <3>2 DEF Stack, Nest, TypeOK
      <4>2. pc[u] \in {"flag", "link", "spin", "own", "unlock", "uncas", "catchup", "grant"}
          BY <3>2, <4>1, <2>7 DEF InLine
      <4>3. QED  BY <3>2, <4>2, <2>7 DEF Ent, Owns
    <3>3. QED  BY <3>1, <3>2
  <2>12. ASSUME NEW v \in Threads, v # t, Waits(v), pred[v] = pred[t] PROVE FALSE
    <3>1. PICK m \in Locks : m = lk[v]
        BY <2>2, <2>12
    <3>2. PICK j \in 2 .. Len(Q[m]) : ql[v] = Q[m][j] /\ pred[v] = Q[m][j - 1]
        BY <2>2, <2>12, <3>1
    <3>3. j - 1 \in 1 .. Len(Q[m]) /\ Q[m][j - 1] = Q[l][i - 1]
        BY <2>4, <2>12, <3>2
    <3>4. m = l
        BY <2>1, <2>5, <3>3, Apart
    <3>5. j - 1 = i - 1
        BY <2>5, <2>6, <3>3, <3>4
    <3>6. ql[v] = ql[t]
        BY <2>4, <3>2, <3>4, <3>5
    <3>7. QED  BY <2>12, <3>6, Claimed DEF Waits
  <2>13. QED  BY <2>3, <2>9, <2>10, <2>11, <2>12
<1>2. QED  BY <1>1, Invariance, PTL

\* The handler of a processor and the thread under it hold no lock in common.
LEMMA HeldOnce ==
    ASSUME TypeOK, Stack, Levels, NEW t \in Threads, NEW u \in Threads, t[1] = u[1],
           NEW m \in Locks, Holds(t, m), Holds(u, m)
    PROVE  t = u
<1>1. ASSUME NEW c \in Cpus, Holds(<<c, "base">>, m), Holds(<<c, "intr">>, m) PROVE FALSE
  <2>1. <<c, "intr">> \in Threads /\ <<c, "intr">>[2] = "intr"
      BY ThreadFacts
  <2>2. pl[<<c, "intr">>] \in Seq(Frame)
      BY <2>1 DEF TypeOK
  <2>3. Nest(<<c, "intr">>)
      BY <2>1 DEF Stack
  <2>4. pc[<<c, "intr">>] # "off" /\ m \in Ilocks
      BY <1>1, <2>1, <2>2, <2>3 DEF Nest, Holds
  <2>5. Level(c)
      BY DEF Levels
  <2>6. QED  BY <1>1, <2>4, <2>5 DEF Level
<1>2. QED  BY <1>1, ThreadFacts

\* The locks that the threads of processor c hold, in one sequence.
Nested(c) == [n \in 1 .. Depth(c) |->
    IF n <= Len(pl[<<c, "base">>]) THEN pl[<<c, "base">>][n].l
    ELSE pl[<<c, "intr">>][n - Len(pl[<<c, "base">>])].l]

LEMMA NestedAll ==
    ASSUME TypeOK, NEW t \in Threads, NEW m \in Locks, Holds(t, m)
    PROVE  Depth(t[1]) \in Nat /\ \E n \in 1 .. Depth(t[1]) : Nested(t[1])[n] = m
<1>1. PICK c \in Cpus : c = t[1]
    BY ThreadFacts
<1>2. <<c, "base">> \in Threads /\ <<c, "intr">> \in Threads
    BY ThreadFacts
<1>3. PICK b, h \in Seq(Frame) : b = pl[<<c, "base">>] /\ h = pl[<<c, "intr">>]
    BY <1>2 DEF TypeOK
<1>4. Len(b) \in Nat /\ Len(h) \in Nat /\ DOMAIN b = 1 .. Len(b) /\ DOMAIN h = 1 .. Len(h)
    BY <1>3
<1>5. Depth(c) = Len(b) + Len(h)
    BY <1>3 DEF Depth
<1>6. \A n \in 1 .. Depth(c) :
         Nested(c)[n] = IF n <= Len(b) THEN b[n].l ELSE h[n - Len(b)].l
    BY <1>3 DEF Nested
<1>7. CASE t = <<c, "base">>
  <2>1. PICK k \in 1 .. Len(b) : b[k].l = m
      BY <1>3, <1>4, <1>7 DEF Holds
  <2>2. k \in 1 .. Depth(c) /\ k <= Len(b)
      BY <1>4, <1>5
  <2>3. QED  BY <2>1, <2>2, <1>1, <1>4, <1>5, <1>6
<1>8. CASE t = <<c, "intr">>
  <2>1. PICK k \in 1 .. Len(h) : h[k].l = m
      BY <1>3, <1>4, <1>8 DEF Holds
  <2>2. Len(b) + k \in 1 .. Depth(c) /\ ~(Len(b) + k <= Len(b)) /\ Len(b) + k - Len(b) = k
      BY <1>4, <1>5
  <2>3. Nested(c)[Len(b) + k] = m
      BY <2>1, <2>2, <1>6
  <2>4. QED  BY <2>2, <2>3, <1>1, <1>4, <1>5
<1>9. QED  BY <1>1, <1>7, <1>8, ThreadFacts

\* allocle() and findle(): every lock held or awaited has its own entry, and
\* allocle() finds one for every processor that does not nest more locks than
\* its table has entries, however many locks there are.
THEOREM EntriesSuffice == Spec => []EntriesOK
<1>1. IInv => EntriesOK
  <2> SUFFICES ASSUME IInv PROVE EntriesOK
      OBVIOUS
  <2> USE DEF IInv
  <2>1. \A t \in Threads : pc[t] \notin {"off", "run", "alloc", "claim"} =>
           used[ql[t]] = lk[t] /\ ql[t][1] = t[1] /\ ql[t] \in Entries
      BY Claimed
  <2>2. ASSUME NEW t \in Threads, NEW u \in Threads, t # u,
               pc[t] \notin {"off", "run", "alloc", "claim"}, pc[u] # "claim"
        PROVE  ql[t] # ql[u]
    <3>1. CASE pc[u] \in {"off", "run", "alloc"}
        BY <2>1, <2>2, <3>1 DEF Table
    <3>2. CASE pc[u] \notin {"off", "run", "alloc"}
        BY <2>2, <3>2, Claimed
    <3>3. QED  BY <3>1, <3>2
  <2>3. \A t \in Threads, l \in Locks : Holds(t, l) /\ lk[t] # l => used[e[l]] = l
      BY DEF Table, Busy, Ent
  <2>4. ASSUME NEW t \in Threads, At(t, "alloc"), Depth(t[1]) <= NEntries,
               \A i \in 1 .. NEntries : used[<<t[1], i>>] # Nil
        PROVE  FALSE
    <3>1. PICK l \in Locks : l = lk[t] /\ Holds(t, l) /\ pc[t] = "alloc"
        BY <2>4, About DEF At
    <3>2. ~Busy(t, l)
        BY <3>1 DEF Busy
    <3>3. ASSUME NEW i \in 1 .. NEntries
          PROVE  /\ used[<<t[1], i>>] \in Locks
                 /\ \E u \in Threads : /\ u[1] = t[1] /\ Busy(u, used[<<t[1], i>>])
                                       /\ Ent(u, used[<<t[1], i>>]) = <<t[1], i>>
      <4>1. PICK a \in Entries : a = <<t[1], i>> /\ a[1] = t[1] /\ used[a] # Nil
          BY <2>4, <3>3, ThreadFacts DEF Entries
      <4>2. PICK u \in Threads, m \in Locks : Busy(u, m) /\ Ent(u, m) = a
          BY <4>1 DEF Table
      <4>3. used[a] = m /\ a[1] = u[1]
          BY <4>2 DEF Table
      <4>4. QED  BY <4>1, <4>2, <4>3
    <3>4. ASSUME NEW i \in 1 .. NEntries PROVE used[<<t[1], i>>] \in Locks \ {l}
      <4>1. PICK u \in Threads : u[1] = t[1] /\ Busy(u, used[<<t[1], i>>])
          BY <3>3
      <4>2. used[<<t[1], i>>] = l => u = t
          BY <3>1, <4>1, HeldOnce DEF Busy
      <4>3. QED  BY <3>2, <3>3, <4>1, <4>2
    <3>5. PICK D \in Nat : D = Depth(t[1])
        BY <3>1, NestedAll
    <3>6. PICK n0 \in 1 .. D : Nested(t[1])[n0] = l
        BY <3>1, <3>5, NestedAll
    <3>7. ASSUME NEW i \in 1 .. NEntries
          PROVE  \E n \in (1 .. D) \ {n0} : Nested(t[1])[n] = used[<<t[1], i>>]
      <4>1. PICK u \in Threads : u[1] = t[1] /\ Busy(u, used[<<t[1], i>>])
          BY <3>3
      <4>2. PICK m \in Locks : m = used[<<t[1], i>>] /\ Holds(u, m) /\ m # l
          BY <3>3, <3>4, <4>1 DEF Busy
      <4>3. PICK n \in 1 .. Depth(u[1]) : Nested(u[1])[n] = m
          BY <4>2, NestedAll
      <4>4. QED  BY <3>5, <3>6, <4>1, <4>2, <4>3
    <3>8. PICK f : f = [i \in 1 .. NEntries |->
                           CHOOSE n \in (1 .. D) \ {n0} : Nested(t[1])[n] = used[<<t[1], i>>]]
        OBVIOUS
    <3>9. /\ f \in [1 .. NEntries -> (1 .. D) \ {n0}]
          /\ \A i \in 1 .. NEntries : Nested(t[1])[f[i]] = used[<<t[1], i>>]
        BY <3>7, <3>8
    <3>10. PICK i, j \in 1 .. NEntries : i # j /\ f[i] = f[j]
      <4>1. PICK S, T : S = 1 .. NEntries /\ T = (1 .. D) \ {n0}
          OBVIOUS
      <4>2. IsFiniteSet(S) /\ Cardinality(S) = NEntries /\ NEntries \in Nat
          BY <4>1, FS_Interval
      <4>3. IsFiniteSet(1 .. D) /\ Cardinality(1 .. D) = D /\ D >= 1
          BY FS_Interval
      <4>4. IsFiniteSet(T) /\ Cardinality(T) = D - 1
        <5>1. PICK U : U = 1 .. D
            OBVIOUS
        <5>2. IsFiniteSet(U \ {n0}) /\ Cardinality(U \ {n0}) = Cardinality(U) - 1
            BY <4>3, <5>1, FS_RemoveElement
        <5>3. QED  BY <4>1, <4>3, <5>1, <5>2
      <4>5. Cardinality(T) < Cardinality(S)
          BY <2>4, <3>5, <4>2, <4>4
      <4>6. \E x, y \in S : x # y /\ f[x] = f[y]
        <5>1. f \in [S -> T]
            BY <3>9, <4>1
        <5>2. QED  BY <4>2, <4>4, <4>5, <5>1, FS_PigeonHole
      <4>7. QED  BY <4>1, <4>6
    <3>11. used[<<t[1], i>>] = used[<<t[1], j>>]
        BY <3>9, <3>10
    <3>12. PICK m \in Locks : m = used[<<t[1], i>>] /\ m = used[<<t[1], j>>]
        BY <3>3, <3>11
    <3>13. PICK u \in Threads : u[1] = t[1] /\ Busy(u, m) /\ Ent(u, m) = <<t[1], i>>
        BY <3>3, <3>12
    <3>14. PICK v \in Threads : v[1] = t[1] /\ Busy(v, m) /\ Ent(v, m) = <<t[1], j>>
        BY <3>3, <3>12
    <3>15. u = v
        BY <3>13, <3>14, HeldOnce DEF Busy
    <3>16. QED  BY <3>10, <3>13, <3>14, <3>15
  <2>5. QED  BY <2>1, <2>2, <2>3, <2>4 DEF EntriesOK
<1>2. QED  BY <1>1, Invariance, PTL
=============================================================================
