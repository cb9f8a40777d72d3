----------------------------- MODULE MntProofs ------------------------------
(***************************************************************************)
(* Proofs, for any processes, tags and numbers of flushes, of the safety   *)
(* properties of Mnt.                                                      *)
(***************************************************************************)
EXTENDS Mnt, SequenceTheorems, WellFoundedInduction, TLAPS

Requests == [tag : Tag, old : Tag \union {Nil}, nth : Nat, live : BOOLEAN]
Replies == [tag : Tag, type : {"R", "Rflush"}, live : BOOLEAN]

Once(s) == \A i, j \in 1 .. Len(s) : s[i] = s[j] => i = j

Queued == ToSet(queue)

\* The headers on the free list, and those whose tags are not in use.
FreeTags == {t \in Tag : t \notin tagmask \/ t \in ToSet(rpcfree)}

(***************************************************************************)
(* The inductive invariant for the place of the reader, in parts.          *)
(***************************************************************************)
TypeOK ==
    /\ queue \in Seq(Tag)
    /\ rip \in Proc \union {Nil} /\ mlock \in Proc \union {Nil}
    /\ rpcfree \in Seq(Tag) /\ tagmask \subseteq Tag
    /\ done \in [Tag -> BOOLEAN] /\ flushed \in [Tag -> Tag \union {Nil}]
    /\ reply \in [Tag -> {"Tmax", "R", "Rflush", "stale"}]
    /\ oldtag \in [Tag -> Tag \union {Nil}]
    /\ cur \in [Proc -> Tag \union {Nil}] /\ woken \in [Proc -> Tag \union {Nil}]
    /\ hard \in [Proc -> BOOLEAN] /\ noted \in [Proc -> BOOLEAN]
    /\ pc \in [Proc -> Pcs] /\ nflush \in [Proc -> Nat]
    /\ conn \in {"up", "down"}
    /\ srv \subseteq Requests /\ wire \in Seq(Replies) /\ executed \subseteq Tag

\* mntralloc() and mntfree(): the list of free headers.
FreeList ==
    /\ ToSet(rpcfree) \subseteq tagmask
    /\ Once(rpcfree)

\* A header in use belongs to one call, as the one it waits for or as one
\* chained to a flush; a free one is reset and not in the queue.
Owned ==
    /\ \A p \in Proc : pc[p] = "idle" <=> cur[p] = Nil
    /\ \A p \in Proc : cur[p] \notin FreeTags
    /\ \A p, q \in Proc : cur[p] = cur[q] /\ cur[p] # Nil => p = q
    /\ \A t \in Tag : flushed[t] # Nil =>
          flushed[t] \notin FreeTags /\ \A p \in Proc : cur[p] # flushed[t]
    /\ \A t, u \in Tag : flushed[t] = flushed[u] /\ flushed[t] # Nil => t = u
    /\ \A t \in FreeTags : ~done[t] /\ flushed[t] = Nil /\ t \notin Queued

Waiting == {"write", "gate", "sleep", "asleep", "back", "read", "wakeup"}

\* A request is in the queue from mountio() to its reply, or to mntqrm().
InQueue ==
    /\ Once(queue)
    /\ \A t \in Queued : ~done[t]
    /\ \A p \in Proc : pc[p] = "enqueue" => cur[p] \notin Queued /\ ~done[cur[p]]
    /\ \A p \in Proc : pc[p] \in Waiting => done[cur[p]] \/ cur[p] \in Queued
    /\ \A p \in Proc : pc[p] = "return" => done[cur[p]]

\* mnt->rip is the process that reads, and lock(mnt) is held over a step in
\* mountmux() only.
Reader ==
    /\ \A p \in Proc : pc[p] \in {"read", "wakeup"} <=> rip = p
    /\ \A p \in Proc : pc[p] = "wakeup" <=> mlock = p

\* Whoever sleeps although its reply is there is about to be woken.
Woken ==
    \A p \in Proc : pc[p] = "asleep" /\ done[cur[p]] =>
        \E r \in Proc : pc[r] = "wakeup" /\ woken[r] = cur[p]

\* p has no reply and will try the gate.
OnItsWay(p) ==
    \/ pc[p] \in {"enqueue", "write", "gate"}
    \/ pc[p] \in {"sleep", "back"} /\ ~done[cur[p]]

\* A free place of the reader finds a successor.
Succession ==
    conn = "up" /\ rip = Nil /\ (\E p \in Proc : pc[p] = "asleep") =>
        \E p \in Proc : OnItsWay(p)

IInv == TypeOK /\ FreeList /\ Owned /\ InQueue /\ Reader /\ Woken /\ Succession

----------------------------------------------------------------------------
(* Sequences.                                                              *)

\* nil is no process and no tag.
LEMMA NilIs == Nil \notin Proc /\ Nil \notin Tag
BY MntAssumption

\* The members of a sequence.
LEMMA ToSetIs ==
    ASSUME NEW S, NEW s \in Seq(S)
    PROVE  /\ \A i \in 1 .. Len(s) : s[i] \in ToSet(s)
           /\ \A x \in ToSet(s) : x \in S /\ \E i \in 1 .. Len(s) : s[i] = x
BY DEF ToSet

\* A set of naturals has a least element.
LEMMA Least ==
    ASSUME NEW S, S \subseteq Nat, S # {}
    PROVE  \E x \in S : \A y \in S : x <= y
<1> DEFINE R == OpToRel(<, Nat)
<1>1. IsWellFoundedOn(R, Nat)
    BY NatLessThanWellFounded
<1>2. \A x, y \in Nat : x < y => <<x, y>> \in R
    BY DEF OpToRel
<1> HIDE DEF R
<1>3. PICK x \in S : \A y \in S : ~(<<y, x>> \in R)
    BY <1>1, WFMin, Zenon
<1>4. x \in Nat /\ \A y \in S : y \in Nat /\ ~(y < x)
    BY <1>2, <1>3
<1>5. QED  BY <1>4

\* A sequence without its k-th member.
LEMMA RemoveAtIs ==
    ASSUME NEW S, NEW s \in Seq(S), NEW k \in 1 .. Len(s)
    PROVE  /\ RemoveAt(s, k) \in Seq(S)
           /\ Len(RemoveAt(s, k)) = Len(s) - 1
           /\ \A i \in 1 .. Len(s) - 1 :
                 RemoveAt(s, k)[i] = IF i < k THEN s[i] ELSE s[i + 1]
<1> DEFINE a == SubSeq(s, 1, k - 1)
           b == SubSeq(s, k + 1, Len(s))
<1>1. /\ a \in Seq(S) /\ Len(a) = k - 1
      /\ \A i \in 1 .. k - 1 : a[i] = s[i]
    OBVIOUS
<1>2. /\ b \in Seq(S) /\ Len(b) = Len(s) - k
      /\ \A i \in 1 .. Len(s) - k : b[i] = s[i + k]
    OBVIOUS
<1>3. RemoveAt(s, k) = a \o b
    BY DEF RemoveAt
<1> HIDE DEF a, b
<1>4. /\ a \o b \in Seq(S) /\ Len(a \o b) = Len(a) + Len(b)
      /\ \A i \in 1 .. Len(a) + Len(b) :
            (a \o b)[i] = IF i <= Len(a) THEN a[i] ELSE b[i - Len(a)]
    BY <1>1, <1>2, ConcatProperties, ZenonT(40)
<1>5. Len(s) \in Nat /\ Len(a) + Len(b) = Len(s) - 1
    BY <1>1, <1>2
<1>6. ASSUME NEW i \in 1 .. Len(s) - 1
      PROVE  (a \o b)[i] = (IF i < k THEN s[i] ELSE s[i + 1])
  <2>1. CASE i < k
      BY <1>1, <1>4, <1>5, <2>1
  <2>2. CASE ~(i < k)
    <3>1. i - Len(a) \in 1 .. Len(s) - k /\ i - Len(a) + k = i + 1 /\ ~(i <= Len(a))
        BY <1>1, <1>5, <2>2
    <3>2. QED  BY <1>2, <1>4, <1>5, <2>2, <3>1
  <2>3. QED  BY <2>1, <2>2
<1>7. QED  BY <1>3, <1>4, <1>5, <1>6

\* Unlink() takes out t and nothing else.
LEMMA UnlinkIs ==
    ASSUME NEW S, NEW s \in Seq(S), NEW t, Once(s)
    PROVE  /\ Unlink(s, t) \in Seq(S) /\ Once(Unlink(s, t))
           /\ ToSet(Unlink(s, t)) = ToSet(s) \ {t}
<1>1. CASE t \notin ToSet(s)
    BY <1>1 DEF Unlink
<1>2. CASE t \in ToSet(s)
  <2> DEFINE k == CHOOSE i \in 1 .. Len(s) : s[i] = t
             u == RemoveAt(s, k)
  <2>1. k \in 1 .. Len(s) /\ s[k] = t
      BY <1>2, ToSetIs
  <2>2. Unlink(s, t) = u
      BY <1>2 DEF Unlink
  <2> HIDE DEF k
  <2>3. /\ u \in Seq(S) /\ Len(u) = Len(s) - 1
        /\ \A i \in 1 .. Len(s) - 1 : u[i] = IF i < k THEN s[i] ELSE s[i + 1]
      BY <2>1, RemoveAtIs
  <2> HIDE DEF u
  <2>4. Len(s) \in Nat /\ k \in Nat /\ 1 <= k /\ k <= Len(s)
      BY <2>1
  <2> DEFINE at(i) == IF i < k THEN i ELSE i + 1
  <2>5. \A i \in 1 .. Len(u) : at(i) \in 1 .. Len(s) /\ at(i) # k /\ u[i] = s[at(i)]
      BY <2>3, <2>4
  <2>6. \A i, j \in 1 .. Len(u) : at(i) = at(j) => i = j
      BY <2>3, <2>4
  <2>7. \A j \in 1 .. Len(s) : j # k => \E i \in 1 .. Len(u) : at(i) = j
    <3>1. SUFFICES ASSUME NEW j \in 1 .. Len(s), j # k
                   PROVE  \E i \in 1 .. Len(u) : at(i) = j
        OBVIOUS
    <3>2. CASE j < k  BY <2>3, <2>4, <3>1, <3>2
    <3>3. CASE j > k
      <4>1. j - 1 \in 1 .. Len(u) /\ at(j - 1) = j
          BY <2>3, <2>4, <3>1, <3>3
      <4>2. QED  BY <4>1
    <3>4. QED  BY <2>4, <3>1, <3>2, <3>3
  <2> HIDE DEF at
  <2>8. Once(u)
      BY <2>5, <2>6 DEF Once
  <2>9. ToSet(u) = ToSet(s) \ {t}
    <3>1. ASSUME NEW x \in ToSet(u) PROVE x \in ToSet(s) \ {t}
      <4>1. PICK i \in 1 .. Len(u) : u[i] = x
          BY <2>3, ToSetIs
      <4>2. at(i) \in 1 .. Len(s) /\ at(i) # k /\ x = s[at(i)]
          BY <2>5, <4>1
      <4>3. QED  BY <2>1, <4>2, ToSetIs DEF Once
    <3>2. ASSUME NEW x \in ToSet(s), x # t PROVE x \in ToSet(u)
      <4>1. PICK j \in 1 .. Len(s) : s[j] = x
          BY ToSetIs
      <4>2. PICK i \in 1 .. Len(u) : at(i) = j
          BY <2>1, <2>7, <3>2, <4>1
      <4>3. QED  BY <2>3, <2>5, <4>1, <4>2, ToSetIs
    <3>3. QED  BY <3>1, <3>2
  <2>10. QED  BY <2>2, <2>3, <2>8, <2>9
<1>3. QED  BY <1>1, <1>2

\* A new first member.
LEMMA PushIs ==
    ASSUME NEW S, NEW s \in Seq(S), NEW t \in S, t \notin ToSet(s), Once(s)
    PROVE  /\ <<t>> \o s \in Seq(S) /\ Once(<<t>> \o s)
           /\ ToSet(<<t>> \o s) = ToSet(s) \union {t}
<1> DEFINE u == <<t>> \o s
<1>1. /\ u \in Seq(S) /\ Len(u) = Len(s) + 1 /\ u[1] = t /\ Len(s) \in Nat
      /\ \A i \in 2 .. Len(s) + 1 : u[i] = s[i - 1]
    OBVIOUS
<1> HIDE DEF u
<1>2. \A i \in 1 .. Len(u) : i = 1 \/ (i - 1 \in 1 .. Len(s) /\ i \in 2 .. Len(s) + 1)
    BY <1>1
<1>3. \A i \in 1 .. Len(s) : i + 1 \in 2 .. Len(s) + 1 /\ i + 1 \in 1 .. Len(u) /\ i + 1 - 1 = i
    BY <1>1
<1>4. \A i \in 1 .. Len(s) : s[i] # t
    BY ToSetIs
<1>5. Once(u)
  <2>1. SUFFICES ASSUME NEW i \in 1 .. Len(u), NEW j \in 1 .. Len(u), u[i] = u[j]
                 PROVE  i = j
      BY DEF Once
  <2>2. CASE i = 1 /\ j # 1  BY <1>1, <1>2, <1>4, <2>1, <2>2
  <2>3. CASE j = 1 /\ i # 1  BY <1>1, <1>2, <1>4, <2>1, <2>3
  <2>4. CASE i # 1 /\ j # 1
    <3>1. i - 1 = j - 1
        BY <1>1, <1>2, <2>1, <2>4 DEF Once
    <3>2. QED  BY <3>1
  <2>5. QED  BY <2>2, <2>3, <2>4
<1>6. ToSet(u) = ToSet(s) \union {t}
  <2>1. ASSUME NEW x \in ToSet(u) PROVE x \in ToSet(s) \union {t}
    <3>1. PICK i \in 1 .. Len(u) : u[i] = x
        BY <1>1, ToSetIs
    <3>2. QED  BY <1>1, <1>2, <3>1, ToSetIs
  <2>2. t \in ToSet(u)
      BY <1>1, ToSetIs
  <2>3. ASSUME NEW x \in ToSet(s) PROVE x \in ToSet(u)
    <3>1. PICK i \in 1 .. Len(s) : s[i] = x
        BY ToSetIs
    <3>2. u[i + 1] = x /\ i + 1 \in 1 .. Len(u)
        BY <1>1, <1>3, <3>1
    <3>3. QED  BY <1>1, <3>2, ToSetIs
  <2>4. QED  BY <2>1, <2>2, <2>3
<1>7. QED  BY <1>1, <1>5, <1>6 DEF u

\* A sequence without its first member.
LEMMA PopIs ==
    ASSUME NEW S, NEW s \in Seq(S), s # << >>, Once(s)
    PROVE  /\ Tail(s) \in Seq(S) /\ Once(Tail(s)) /\ Head(s) \in ToSet(s) /\ Head(s) \in S
           /\ ToSet(Tail(s)) = ToSet(s) \ {Head(s)}
<1> DEFINE u == Tail(s)
<1>1. /\ u \in Seq(S) /\ Len(s) \in Nat /\ Len(s) >= 1 /\ Len(u) = Len(s) - 1
      /\ Head(s) = s[1] /\ \A i \in 1 .. Len(u) : u[i] = s[i + 1]
    OBVIOUS
<1> HIDE DEF u
<1>2. \A i \in 1 .. Len(u) : i + 1 \in 1 .. Len(s) /\ i + 1 # 1
    BY <1>1
<1>3. \A j \in 1 .. Len(s) : j # 1 => j - 1 \in 1 .. Len(u) /\ u[j - 1] = s[j]
    BY <1>1
<1>4. Once(u)
  <2>1. SUFFICES ASSUME NEW i \in 1 .. Len(u), NEW j \in 1 .. Len(u), u[i] = u[j]
                 PROVE  i = j
      BY DEF Once
  <2>2. i + 1 = j + 1
      BY <1>1, <1>2, <2>1 DEF Once
  <2>3. QED  BY <2>2
<1>5. 1 \in 1 .. Len(s) /\ Head(s) \in ToSet(s) /\ Head(s) \in S
    BY <1>1, ToSetIs
<1>6. ASSUME NEW x \in ToSet(u) PROVE x \in ToSet(s) \ {Head(s)}
  <2>1. PICK i \in 1 .. Len(u) : u[i] = x
      BY <1>1, ToSetIs
  <2>2. i + 1 \in 1 .. Len(s) /\ i + 1 # 1 /\ s[i + 1] = x
      BY <1>1, <1>2, <2>1
  <2>3. QED  BY <1>1, <1>5, <2>2, ToSetIs DEF Once
<1>7. ASSUME NEW x \in ToSet(s), x # Head(s) PROVE x \in ToSet(u)
  <2>1. PICK j \in 1 .. Len(s) : s[j] = x
      BY ToSetIs
  <2>2. j - 1 \in 1 .. Len(u) /\ u[j - 1] = x
      BY <1>1, <1>3, <1>7, <2>1
  <2>3. QED  BY <1>1, <2>2, ToSetIs
<1>8. QED  BY <1>1, <1>4, <1>5, <1>6, <1>7 DEF u

----------------------------------------------------------------------------
(* Headers, and the place of the reader.                                   *)

\* mntralloc() returns a header that was free.
LEMMA Allocated ==
    ASSUME TypeOK, FreeList, NEW p \in Proc, NEW f, mntralloc(p, f)
    PROVE  /\ rpcfree' \in Seq(Tag) /\ tagmask' \subseteq Tag /\ FreeList'
           /\ \E t \in FreeTags :
                 /\ FreeTags' = FreeTags \ {t}
                 /\ flushed' = [flushed EXCEPT ![t] = f]
                 /\ oldtag' = [oldtag EXCEPT ![t] =
                                 IF f = Nil THEN Nil
                                 ELSE IF oldtag[f] # Nil THEN oldtag[f] ELSE f]
                 /\ cur' = [cur EXCEPT ![p] = t]
<1> DEFINE t == NewHeader
<1>1. /\ rpcfree # << >> \/ tagmask # Tag
      /\ rpcfree' = IF rpcfree # << >> THEN Tail(rpcfree) ELSE rpcfree
      /\ tagmask' = tagmask \union {t}
      /\ flushed' = [flushed EXCEPT ![t] = f]
      /\ oldtag' = [oldtag EXCEPT ![t] =
                      IF f = Nil THEN Nil
                      ELSE IF oldtag[f] # Nil THEN oldtag[f] ELSE f]
      /\ cur' = [cur EXCEPT ![p] = t]
    BY DEF mntralloc
<1>2. rpcfree \in Seq(Tag) /\ tagmask \subseteq Tag
    BY DEF TypeOK
<1>3. /\ t \in FreeTags /\ FreeTags' = FreeTags \ {t}
      /\ rpcfree' \in Seq(Tag) /\ tagmask' \subseteq Tag /\ FreeList'
  <2>1. CASE rpcfree # << >>
    <3>1. t = Head(rpcfree)
        BY <2>1 DEF NewHeader
    <3>2. /\ Tail(rpcfree) \in Seq(Tag) /\ Once(Tail(rpcfree))
          /\ t \in ToSet(rpcfree) /\ t \in Tag
          /\ ToSet(Tail(rpcfree)) = ToSet(rpcfree) \ {t}
        BY <1>2, <2>1, <3>1, PopIs DEF FreeList
    <3> HIDE DEF t
    <3>3. /\ t \in tagmask /\ tagmask' = tagmask /\ rpcfree' = Tail(rpcfree)
          /\ ToSet(rpcfree') = ToSet(rpcfree) \ {t}
        BY <1>1, <2>1, <3>2 DEF FreeList
    <3>4. QED  BY <1>2, <3>2, <3>3 DEF FreeTags, FreeList
  <2>2. CASE rpcfree = << >>
    <3>1. t = alloctag
        BY <2>2 DEF NewHeader
    <3>2. \E u \in Tag \ tagmask : \A v \in Tag \ tagmask : u <= v
      <4>1. Tag \subseteq Nat
          BY MntAssumption DEF Tag
      <4>2. tagmask # Tag
          BY <1>1, <2>2
      <4>3. Tag \ tagmask # {}
          BY <1>2, <4>2, Zenon
      <4>4. QED  BY <4>1, <4>3, Least
    <3>3. t \in Tag \ tagmask
        BY <3>1, <3>2 DEF alloctag
    <3> HIDE DEF t
    <3>4. ToSet(rpcfree) = {}
      <4>1. \A i \in 1 .. Len(rpcfree) : FALSE
          BY <2>2
      <4>2. QED  BY <1>2, <4>1, ToSetIs
    <3>5. rpcfree' = rpcfree
        BY <1>1, <2>2
    <3>6. QED  BY <1>1, <1>2, <3>3, <3>4, <3>5 DEF FreeTags, FreeList
  <2>3. QED  BY <2>1, <2>2
<1> HIDE DEF t
<1>4. QED  BY <1>1, <1>3

\* mntfree() makes a header free.
LEMMA Freed ==
    ASSUME TypeOK, FreeList, NEW t \in Tag, t \notin FreeTags, mntfree(t)
    PROVE  /\ rpcfree' \in Seq(Tag) /\ tagmask' \subseteq Tag /\ FreeList'
           /\ FreeTags' = FreeTags \union {t}
<1>1. rpcfree \in Seq(Tag) /\ tagmask \subseteq Tag /\ t \in tagmask /\ t \notin ToSet(rpcfree)
    BY DEF TypeOK, FreeTags
<1>2. CASE tagmask' = tagmask \ {t} /\ rpcfree' = rpcfree
    BY <1>1, <1>2 DEF FreeTags, FreeList
<1>3. CASE rpcfree' = <<t>> \o rpcfree /\ tagmask' = tagmask
  <2>1. /\ <<t>> \o rpcfree \in Seq(Tag) /\ Once(<<t>> \o rpcfree)
        /\ ToSet(<<t>> \o rpcfree) = ToSet(rpcfree) \union {t}
      BY <1>1, PushIs DEF FreeList
  <2>2. rpcfree' \in Seq(Tag) /\ Once(rpcfree') /\ ToSet(rpcfree') = ToSet(rpcfree) \union {t}
      BY <1>3, <2>1
  <2>3. QED  BY <1>1, <1>3, <2>2 DEF FreeTags, FreeList
<1>4. QED  BY <1>2, <1>3 DEF mntfree

\* mntgate() wakes a sleeper without reply, if there is one in the queue.
LEMMA GateIs ==
    ASSUME TypeOK, NEW p \in Proc, NEW l \in Pcs, mntgate(p, l)
    PROVE  /\ rip' = Nil /\ mlock = Nil
           /\ pc' \in [Proc -> Pcs] /\ pc'[p] = l
           /\ \A q \in Proc : q # p =>
                 \/ pc'[q] = pc[q]
                 \/ pc[q] = "asleep" /\ pc'[q] = "back" /\ ~done[cur[q]]
           /\ \A q \in Proc : q # p /\ pc[p] # "asleep" /\ pc[q] = "asleep"
                              /\ cur[q] \in Queued /\ ~done[cur[q]] =>
                 \E r \in Proc : r # p /\ pc'[r] = "back" /\ ~done[cur[r]]
<1> DEFINE up == {i \in DOMAIN queue : ~done[queue[i]] /\ Sleepers(queue[i]) # {}}
           first == {i \in up : \A j \in up : i <= j}
           w == UNION {Sleepers(queue[i]) : i \in first}
<1>1. /\ mlock = Nil /\ rip' = Nil
      /\ pc' = [q \in Proc |-> IF q = p THEN l
                               ELSE IF q \in w THEN "back" ELSE pc[q]]
    BY DEF mntgate
<1>2. up \subseteq 1 .. Len(queue) /\ Len(queue) \in Nat
    BY DEF TypeOK
<1>3. ASSUME NEW q \in w PROVE q \in Proc /\ pc[q] = "asleep" /\ ~done[cur[q]]
    BY <1>3 DEF Sleepers
<1>4. pc \in [Proc -> Pcs] /\ "back" \in Pcs
    BY DEF TypeOK, Pcs
<1>5. ASSUME NEW q \in Proc, q # p, pc[p] # "asleep", pc[q] = "asleep",
             cur[q] \in Queued, ~done[cur[q]]
      PROVE  \E r \in Proc : r # p /\ pc'[r] = "back" /\ ~done[cur[r]]
  <2>1. PICK i \in 1 .. Len(queue) : queue[i] = cur[q]
      BY <1>5, ToSetIs DEF Queued, TypeOK
  <2>2. i \in up
      BY <1>5, <2>1, <1>2 DEF Sleepers, TypeOK
  <2>3. up \subseteq Nat /\ up # {}
      BY <1>2, <2>2
  <2>4. PICK k \in up : \A j \in up : k <= j
      BY <2>3, Least
  <2>5. PICK r : r \in Sleepers(queue[k])
      BY <2>4
  <2>6. r \in w
      BY <2>4, <2>5
  <2> HIDE DEF w
  <2>7. r \in Proc /\ pc[r] = "asleep" /\ ~done[cur[r]]
      BY <1>3, <2>6
  <2>8. QED  BY <1>1, <1>5, <2>6, <2>7
<1> HIDE DEF w
<1>6. QED  BY <1>1, <1>3, <1>4, <1>5

USE NilIs DEF IInv, Goto, Pcs, Waiting, alloc, heads, server

----------------------------------------------------------------------------
(* One lemma per action, one step per part of the invariant.               *)

\* mountio() has written the request.
LEMMA WriteStep ==
    ASSUME IInv, NEW p \in Proc, Write(p)
    PROVE  IInv'
<1>1. FreeTags' = FreeTags /\ Queued' = Queued
    BY DEF Write, FreeTags, Queued
<1>2. TypeOK'
  <2>1. cur[p] \in Tag
      BY DEF Write, TypeOK, Owned
  <2>2. Request(p) \in Requests
      BY <2>1 DEF TypeOK, Request, Requests
  <2>3. QED  BY <2>2 DEF Write, TypeOK, Send
<1>3. FreeList'
    BY DEF Write, FreeList
<1>4. Owned'
    BY <1>1 DEF Write, TypeOK, Owned
<1>5. InQueue'
    BY <1>1 DEF Write, TypeOK, InQueue
<1>6. Reader'
    BY DEF Write, TypeOK, Reader
<1>7. Woken'
    BY DEF Write, TypeOK, Woken, Owned
<1>8. Succession'
    BY DEF Write, TypeOK, Succession, OnItsWay, Owned
<1>9. QED  BY <1>2, <1>3, <1>4, <1>5, <1>6, <1>7, <1>8

\* The place of the reader is taken, or the caller goes to sleep.
LEMMA GateStep ==
    ASSUME IInv, NEW p \in Proc, Gate(p)
    PROVE  IInv'
<1>1. FreeTags' = FreeTags /\ Queued' = Queued
    BY DEF Gate, FreeTags, Queued
<1>2. TypeOK'
    BY DEF Gate, TypeOK
<1>3. FreeList'
    BY DEF Gate, FreeList
<1>4. Owned'
    BY <1>1 DEF Gate, TypeOK, Owned
<1>5. InQueue'
    BY <1>1 DEF Gate, TypeOK, InQueue
<1>6. Reader'
    BY DEF Gate, TypeOK, Reader
<1>7. Woken'
    BY DEF Gate, TypeOK, Woken, Reader, Owned
<1>8. Succession'
    BY DEF Gate, TypeOK, Succession, OnItsWay, Reader, Owned
<1>9. QED  BY <1>2, <1>3, <1>4, <1>5, <1>6, <1>7, <1>8

\* sleep() has returned.
LEMMA AwakeStep ==
    ASSUME IInv, NEW p \in Proc, pc[p] \in {"sleep", "back"}, Awake(p)
    PROVE  IInv'
<1>1. FreeTags' = FreeTags /\ Queued' = Queued
    BY DEF Awake, FreeTags, Queued
<1>2. TypeOK'
    BY DEF Awake, TypeOK
<1>3. FreeList'
    BY DEF Awake, FreeList
<1>4. Owned'
    BY <1>1 DEF Awake, TypeOK, Owned
<1>5. InQueue'
    BY <1>1 DEF Awake, TypeOK, InQueue
<1>6. Reader'
    BY DEF Awake, TypeOK, Reader
<1>7. Woken'
    BY DEF Awake, TypeOK, Woken, Reader, Owned
<1>8. Succession'
    BY DEF Awake, TypeOK, Succession, OnItsWay, Reader, Owned
<1>9. QED  BY <1>2, <1>3, <1>4, <1>5, <1>6, <1>7, <1>8

\* postnote().
LEMMA NoteStep ==
    ASSUME IInv, NEW p \in Proc, Note(p)
    PROVE  IInv'
<1>1. FreeTags' = FreeTags /\ Queued' = Queued
    BY DEF Note, FreeTags, Queued
<1>2. TypeOK'
    BY DEF Note, TypeOK
<1>3. FreeList'
    BY DEF Note, FreeList
<1>4. Owned'
    BY <1>1 DEF Note, TypeOK, Owned
<1>5. InQueue'
    BY <1>1 DEF Note, TypeOK, InQueue
<1>6. Reader'
    BY DEF Note, TypeOK, Reader
<1>7. Woken'
    BY DEF Note, TypeOK, Woken, Reader, Owned
<1>8. Succession'
    BY DEF Note, TypeOK, Succession, OnItsWay, Reader, Owned
<1>9. QED  BY <1>2, <1>3, <1>4, <1>5, <1>6, <1>7, <1>8

\* The server answers.
LEMMA AnswerStep ==
    ASSUME IInv, NEW m \in srv, Answer(m)
    PROVE  IInv'
<1>1. FreeTags' = FreeTags /\ Queued' = Queued
    BY DEF Answer, FreeTags, Queued
<1>2. TypeOK'
    BY DEF Answer, TypeOK, Requests, Replies, Reply
<1>3. FreeList'
    BY DEF Answer, FreeList
<1>4. Owned'
    BY <1>1 DEF Answer, TypeOK, Owned
<1>5. InQueue'
    BY <1>1 DEF Answer, TypeOK, InQueue
<1>6. Reader'
    BY DEF Answer, TypeOK, Reader
<1>7. Woken'
    BY DEF Answer, TypeOK, Woken
<1>8. Succession'
    BY DEF Answer, TypeOK, Succession, OnItsWay
<1>9. QED  BY <1>2, <1>3, <1>4, <1>5, <1>6, <1>7, <1>8

\* The connection breaks.
LEMMA HangupStep ==
    ASSUME IInv, Hangup
    PROVE  IInv'
<1>1. FreeTags' = FreeTags /\ Queued' = Queued
    BY DEF Hangup, FreeTags, Queued
<1>2. TypeOK'
  <2>1. PICK n \in 0 .. Len(wire) : wire' = SubSeq(wire, 1, n)
      BY DEF Hangup
  <2>2. wire' \in Seq(Replies)
      BY <2>1 DEF TypeOK
  <2>3. QED  BY <2>2 DEF Hangup, TypeOK
<1>3. FreeList'
    BY DEF Hangup, FreeList
<1>4. Owned'
    BY <1>1 DEF Hangup, TypeOK, Owned
<1>5. InQueue'
    BY <1>1 DEF Hangup, TypeOK, InQueue
<1>6. Reader'
    BY DEF Hangup, TypeOK, Reader
<1>7. Woken'
    BY DEF Hangup, TypeOK, Woken
<1>8. Succession'
    BY DEF Hangup, TypeOK, Succession, OnItsWay
<1>9. QED  BY <1>2, <1>3, <1>4, <1>5, <1>6, <1>7, <1>8

\* mountio() puts the request into the queue.
LEMMA EnqueueStep ==
    ASSUME IInv, NEW p \in Proc, Enqueue(p)
    PROVE  IInv'
<1>0. cur[p] \in Tag /\ queue \in Seq(Tag) /\ cur[p] \notin Queued /\ Once(queue)
    BY DEF Enqueue, TypeOK, Owned, InQueue
<1>1. FreeTags' = FreeTags
    BY DEF Enqueue, FreeTags
<1>2. /\ queue' \in Seq(Tag) /\ Once(queue')
      /\ Queued' = Queued \union {cur[p]}
    BY <1>0, PushIs DEF Enqueue, Queued
<1>3. TypeOK'
    BY <1>2 DEF Enqueue, TypeOK
<1>4. FreeList'
    BY DEF Enqueue, FreeList
<1>5. Owned'
    BY <1>1, <1>2 DEF Enqueue, TypeOK, Owned
<1>6. InQueue'
    BY <1>2 DEF Enqueue, TypeOK, Owned, InQueue
<1>7. Reader'
    BY DEF Enqueue, TypeOK, Reader
<1>8. Woken'
    BY DEF Enqueue, TypeOK, Woken, Owned
<1>9. Succession'
    BY DEF Enqueue, TypeOK, Succession, OnItsWay, Owned
<1>10. QED  BY <1>3, <1>4, <1>5, <1>6, <1>7, <1>8, <1>9

\* rpcattn() is false, and the process sleeps.
LEMMA AsleepStep ==
    ASSUME IInv, NEW p \in Proc, pc[p] = "sleep", ~rpcattn(cur[p]), Goto(p, "asleep"),
           UNCHANGED <<queue, rip, mlock, alloc, heads, cur, woken, hard, noted, nflush,
                       conn, server>>
    PROVE  IInv'
<1>1. FreeTags' = FreeTags /\ Queued' = Queued
    BY DEF FreeTags, Queued
<1>2. TypeOK'
    BY DEF TypeOK
<1>3. FreeList'
    BY DEF FreeList
<1>4. Owned'
    BY <1>1 DEF TypeOK, Owned
<1>5. InQueue'
    BY <1>1 DEF TypeOK, InQueue
<1>6. Reader'
    BY DEF TypeOK, Reader
<1>7. Woken'
    BY DEF TypeOK, Woken, rpcattn, Owned
<1>8. Succession'
    BY DEF TypeOK, Succession, rpcattn
<1>9. QED  BY <1>2, <1>3, <1>4, <1>5, <1>6, <1>7, <1>8

\* The reader gets a message: whose it is, is done and out of the queue.
LEMMA mountmuxStep ==
    ASSUME IInv, NEW p \in Proc, mountmux(p)
    PROVE  IInv'
<1> DEFINE m == Head(wire)
           q == m.tag
           known == q \in ToSet(queue)
<1>0. /\ pc[p] = "read" /\ ~done[cur[p]] /\ wire # << >> /\ mlock = Nil /\ wire' = Tail(wire)
      /\ queue' = Unlink(queue, q)
      /\ reply' = IF known THEN [reply EXCEPT ![q] = IF m.live THEN m.type ELSE "stale"]
                           ELSE reply
      /\ done' = IF known THEN [done EXCEPT ![q] = TRUE] ELSE done
      /\ IF known /\ q # cur[p]
         THEN woken' = [woken EXCEPT ![p] = q] /\ mlock' = p /\ Goto(p, "wakeup")
         ELSE UNCHANGED <<woken, mlock, pc>>
      /\ UNCHANGED <<rip, alloc, flushed, oldtag, cur, hard, noted, nflush, conn, srv,
                     executed>>
    BY DEF mountmux, Reading
<1>1. /\ m \in Replies /\ q \in Tag /\ m.type \in {"R", "Rflush"} /\ Tail(wire) \in Seq(Replies)
  <2>1. m \in Replies /\ Tail(wire) \in Seq(Replies)
      BY <1>0 DEF TypeOK
  <2>2. QED  BY <2>1 DEF Replies
<1> HIDE DEF m
<1>2. /\ queue' \in Seq(Tag) /\ Once(queue') /\ Queued' = Queued \ {q}
    BY <1>0, UnlinkIs DEF Queued, TypeOK, InQueue
<1>3. FreeTags' = FreeTags /\ (known <=> q \in Queued)
    BY <1>0 DEF FreeTags, Queued
<1> HIDE DEF q, known
<1>4. done' = [t \in Tag |-> done[t] \/ (known /\ t = q)]
    BY <1>0, <1>1 DEF TypeOK
<1>5. known => q \notin FreeTags
    BY <1>3 DEF Owned
<1>6. TypeOK'
  <2>1. reply' \in [Tag -> {"Tmax", "R", "Rflush", "stale"}]
    <3>1. CASE known  BY <1>0, <1>1, <3>1 DEF TypeOK
    <3>2. CASE ~known  BY <1>0, <3>2 DEF TypeOK
    <3>3. QED  BY <3>1, <3>2
  <2>2. done' \in [Tag -> BOOLEAN]
    <3>1. CASE known  BY <1>0, <1>1, <3>1 DEF TypeOK
    <3>2. CASE ~known  BY <1>0, <3>2 DEF TypeOK
    <3>3. QED  BY <3>1, <3>2
  <2>3. /\ woken' \in [Proc -> Tag \union {Nil}] /\ mlock' \in Proc \union {Nil}
        /\ pc' \in [Proc -> Pcs]
    <3>1. CASE known /\ q # cur[p]
      <4>1. woken' = [woken EXCEPT ![p] = q] /\ mlock' = p /\ pc' = [pc EXCEPT ![p] = "wakeup"]
          BY <1>0, <3>1
      <4>2. QED  BY <1>1, <4>1 DEF TypeOK
    <3>2. CASE ~(known /\ q # cur[p])  BY <1>0, <3>2 DEF TypeOK
    <3>3. QED  BY <3>1, <3>2
  <2>4. QED  BY <1>0, <1>1, <1>2, <2>1, <2>2, <2>3 DEF TypeOK
<1>7. FreeList'
    BY <1>0 DEF FreeList
<1>8. Owned'
    BY <1>0, <1>2, <1>3, <1>4, <1>5 DEF TypeOK, Owned
<1>9. InQueue'
  <2>1. \A r \in Proc : pc'[r] = pc[r] \/ (r = p /\ pc'[r] = "wakeup")
      BY <1>0 DEF TypeOK
  <2>2. ASSUME NEW r \in Proc, pc'[r] = "enqueue" PROVE cur'[r] \notin Queued' /\ ~done'[cur'[r]]
    <3>1. cur[r] \in Tag /\ cur[r] \notin Queued /\ ~done[cur[r]] /\ cur'[r] = cur[r]
        BY <1>0, <2>1, <2>2 DEF TypeOK, Owned, InQueue
    <3>2. QED  BY <1>2, <1>3, <1>4, <3>1
  <2>3. ASSUME NEW r \in Proc, pc'[r] \in Waiting
        PROVE  done'[cur'[r]] \/ cur'[r] \in Queued'
    <3>1. cur[r] \in Tag /\ (done[cur[r]] \/ cur[r] \in Queued) /\ cur'[r] = cur[r]
        BY <1>0, <2>1, <2>3 DEF TypeOK, Owned, InQueue
    <3>2. QED  BY <1>2, <1>3, <1>4, <3>1
  <2>4. ASSUME NEW r \in Proc, pc'[r] = "return" PROVE done'[cur'[r]]
    <3>1. cur[r] \in Tag /\ done[cur[r]] /\ cur'[r] = cur[r]
        BY <1>0, <2>1, <2>4 DEF TypeOK, Owned, InQueue
    <3>2. QED  BY <1>4, <3>1
  <2>5. \A t \in Queued' : ~done'[t]
    <3>1. Queued \subseteq Tag
        BY ToSetIs DEF Queued, TypeOK
    <3>2. QED  BY <1>2, <1>4, <3>1 DEF InQueue
  <2>6. QED  BY <1>2, <2>2, <2>3, <2>4, <2>5 DEF InQueue
<1>10. Reader'
    BY <1>0 DEF TypeOK, Reader
<1>11. Woken'
  <2>1. SUFFICES ASSUME NEW r \in Proc, pc'[r] = "asleep", done'[cur'[r]]
                 PROVE  \E o \in Proc : pc'[o] = "wakeup" /\ woken'[o] = cur'[r]
      BY DEF Woken
  <2>2. pc[r] = "asleep" /\ r # p /\ cur'[r] = cur[r] /\ cur[r] \in Tag /\ cur[p] # cur[r]
      BY <1>0, <2>1 DEF TypeOK, Owned
  <2>3. ~done[cur[r]]
      BY <1>0, <2>2 DEF Woken, Reader
  <2>4. known /\ cur[r] = q
      BY <1>4, <2>1, <2>2, <2>3
  <2>5. QED  BY <1>0, <2>2, <2>4 DEF TypeOK
<1>12. Succession'
    BY <1>0 DEF Succession, Reader
<1>13. QED  BY <1>6, <1>7, <1>8, <1>9, <1>10, <1>11, <1>12

\* The reader wakes the owner of the reply.
LEMMA MuxWakeupStep ==
    ASSUME IInv, NEW p \in Proc, MuxWakeup(p)
    PROVE  IInv'
<1>1. FreeTags' = FreeTags /\ Queued' = Queued
    BY DEF MuxWakeup, FreeTags, Queued
<1>2. /\ pc' \in [Proc -> Pcs] /\ pc[p] = "wakeup" /\ pc'[p] = "read"
      /\ \A q \in Proc : q # p /\ pc'[q] # pc[q] =>
            pc[q] = "asleep" /\ pc'[q] = "back" /\ cur[q] = woken[p]
      /\ \A q \in Proc : pc'[q] = "asleep" => cur[q] # woken[p]
    BY DEF MuxWakeup, TypeOK, Sleepers
<1>3. TypeOK'
    BY <1>2 DEF MuxWakeup, TypeOK
<1>4. FreeList'
    BY DEF MuxWakeup, FreeList
<1>5. Owned'
    BY <1>1, <1>2 DEF MuxWakeup, Owned
<1>6. InQueue'
    BY <1>1, <1>2 DEF MuxWakeup, InQueue
<1>7. Reader'
    BY <1>2 DEF MuxWakeup, Reader
<1>8. Woken'
    BY <1>2 DEF MuxWakeup, Woken, Reader
<1>9. Succession'
    BY <1>2 DEF MuxWakeup, Succession, Reader
<1>10. QED  BY <1>3, <1>4, <1>5, <1>6, <1>7, <1>8, <1>9

\* The reader has its reply and leaves its place.
LEMMA ReadDoneStep ==
    ASSUME IInv, NEW p \in Proc, ReadDone(p)
    PROVE  IInv'
<1>1. FreeTags' = FreeTags /\ Queued' = Queued
    BY DEF ReadDone, FreeTags, Queued
<1>2. /\ rip' = Nil /\ mlock = Nil /\ pc[p] = "read" /\ done[cur[p]]
      /\ pc' \in [Proc -> Pcs] /\ pc'[p] = "flushfree"
      /\ \A q \in Proc : q # p =>
            \/ pc'[q] = pc[q]
            \/ pc[q] = "asleep" /\ pc'[q] = "back" /\ ~done[cur[q]]
      /\ \A q \in Proc : q # p /\ pc[p] # "asleep" /\ pc[q] = "asleep"
                         /\ cur[q] \in Queued /\ ~done[cur[q]] =>
            \E r \in Proc : r # p /\ pc'[r] = "back" /\ ~done[cur[r]]
    BY GateIs DEF ReadDone
<1>3. TypeOK'
    BY <1>2 DEF ReadDone, TypeOK
<1>4. FreeList'
    BY DEF ReadDone, FreeList
<1>5. Owned'
    BY <1>1, <1>2 DEF ReadDone, Owned
<1>6. InQueue'
    BY <1>1, <1>2 DEF ReadDone, InQueue
<1>7. Reader'
    BY <1>2 DEF ReadDone, Reader
<1>8. Woken'
    BY <1>2 DEF ReadDone, Woken
<1>9. Succession'
    BY <1>2 DEF ReadDone, Succession, OnItsWay, Reader, Woken, InQueue
<1>10. QED  BY <1>3, <1>4, <1>5, <1>6, <1>7, <1>8, <1>9

\* Any error but Eintr: the connection is down, and nothing is promised.
LEMMA FailedStep ==
    ASSUME IInv, NEW p \in Proc, pc[p] \in {"write", "read"}, conn = "down", Failed(p)
    PROVE  IInv'
<1>1. FreeTags' = FreeTags /\ Queued' = Queued
    BY DEF Failed, FreeTags, Queued
<1>2. /\ pc' \in [Proc -> Pcs] /\ pc'[p] = "flushfree"
      /\ \A q \in Proc : q # p =>
            \/ pc'[q] = pc[q]
            \/ pc[q] = "asleep" /\ pc'[q] = "back" /\ ~done[cur[q]]
      /\ IF rip = p THEN rip' = Nil ELSE rip' = rip
  <2>1. CASE rip = p
      BY <2>1, GateIs DEF Failed
  <2>2. CASE rip # p
      BY <2>2 DEF Failed, TypeOK
  <2>3. QED  BY <2>1, <2>2
<1>3. TypeOK'
    BY <1>2 DEF Failed, TypeOK
<1>4. FreeList'
    BY DEF Failed, FreeList
<1>5. Owned'
    BY <1>1, <1>2 DEF Failed, Owned
<1>6. InQueue'
    BY <1>1, <1>2 DEF Failed, InQueue
<1>7. Reader'
    BY <1>2 DEF Failed, Reader
<1>8. Woken'
    BY <1>2 DEF Failed, Woken
<1>9. Succession'
    BY DEF Failed, Succession
<1>10. QED  BY <1>3, <1>4, <1>5, <1>6, <1>7, <1>8, <1>9

\* An operation of the device starts a call.
LEMMA StartStep ==
    ASSUME IInv, NEW p \in Proc, Start(p)
    PROVE  IInv'
<1>0. /\ pc[p] = "idle" /\ pc' = [pc EXCEPT ![p] = "enqueue"]
      /\ UNCHANGED <<queue, rip, mlock, woken, hard, noted, nflush, conn, srv, wire>>
      /\ UNCHANGED <<done, reply, executed>>
    BY DEF Start, mntralloc
<1>1. rpcfree' \in Seq(Tag) /\ tagmask' \subseteq Tag /\ FreeList'
    BY Allocated DEF Start
<1>2. PICK t \in FreeTags :
          /\ FreeTags' = FreeTags \ {t}
          /\ flushed' = [flushed EXCEPT ![t] = Nil]
          /\ oldtag' = [oldtag EXCEPT ![t] = Nil]
          /\ cur' = [cur EXCEPT ![p] = t]
    BY Allocated DEF Start
<1>3. t \in Tag /\ FreeTags \subseteq Tag /\ t # Nil
    BY DEF FreeTags
<1>4. flushed' = flushed
    BY <1>2, <1>3 DEF TypeOK, Owned
<1>5. Queued' = Queued
    BY <1>0 DEF Queued
<1>6. TypeOK'
    BY <1>0, <1>1, <1>2, <1>3 DEF TypeOK
<1>7. Owned'
    BY <1>0, <1>2, <1>3, <1>4, <1>5 DEF TypeOK, Owned
<1>8. InQueue'
    BY <1>0, <1>2, <1>3, <1>5 DEF TypeOK, Owned, InQueue
<1>9. Reader'
    BY <1>0 DEF TypeOK, Reader
<1>10. Woken'
    BY <1>0, <1>2 DEF TypeOK, Woken
<1>11. Succession'
    BY <1>0, <1>2 DEF TypeOK, Succession, OnItsWay
<1>12. QED  BY <1>1, <1>6, <1>7, <1>8, <1>9, <1>10, <1>11

\* Eintr: a flush takes the place of the request.
LEMMA InterruptedStep ==
    ASSUME IInv, NEW p \in Proc, pc[p] \in {"write", "sleep", "back", "read"},
           Interrupted(p), srv' \subseteq Requests, wire' = wire
    PROVE  IInv'
<1>0. /\ noted' = [noted EXCEPT ![p] = FALSE] /\ nflush' = [nflush EXCEPT ![p] = @ + 1]
      /\ UNCHANGED <<queue, mlock, woken, hard, conn, done, reply, executed>>
    BY DEF Interrupted, mntralloc
<1>1. rpcfree' \in Seq(Tag) /\ tagmask' \subseteq Tag /\ FreeList'
    BY Allocated DEF Interrupted
<1>2. PICK t \in FreeTags :
          /\ FreeTags' = FreeTags \ {t}
          /\ flushed' = [flushed EXCEPT ![t] = cur[p]]
          /\ oldtag' = [oldtag EXCEPT ![t] = IF cur[p] = Nil THEN Nil
                          ELSE IF oldtag[cur[p]] # Nil THEN oldtag[cur[p]] ELSE cur[p]]
          /\ cur' = [cur EXCEPT ![p] = t]
    BY Allocated DEF Interrupted
<1>3. t \in Tag /\ FreeTags \subseteq Tag /\ t # Nil /\ cur[p] \in Tag
    BY DEF FreeTags, TypeOK, Owned
<1>4. /\ pc' \in [Proc -> Pcs] /\ pc'[p] = "enqueue"
      /\ \A q \in Proc : q # p =>
            \/ pc'[q] = pc[q]
            \/ pc[q] = "asleep" /\ pc'[q] = "back" /\ ~done[cur[q]]
      /\ IF rip = p THEN rip' = Nil ELSE rip' = rip
  <2>1. CASE rip = p
      BY <2>1, GateIs DEF Interrupted
  <2>2. CASE rip # p
      BY <2>2 DEF Interrupted, TypeOK
  <2>3. QED  BY <2>1, <2>2
<1>5. Queued' = Queued
    BY <1>0 DEF Queued
<1>6. TypeOK'
  <2>1. oldtag' \in [Tag -> Tag \union {Nil}]
      BY <1>2, <1>3 DEF TypeOK
  <2>2. rip' \in Proc \union {Nil}
      BY <1>4 DEF TypeOK
  <2>3. flushed' \in [Tag -> Tag \union {Nil}] /\ cur' \in [Proc -> Tag \union {Nil}]
      BY <1>2, <1>3 DEF TypeOK
  <2>4. noted' \in [Proc -> BOOLEAN] /\ nflush' \in [Proc -> Nat]
      BY <1>0 DEF TypeOK
  <2>5. QED  BY <1>0, <1>1, <1>4, <2>1, <2>2, <2>3, <2>4 DEF TypeOK
<1>7. Owned'
  <2>1. flushed'[t] = cur[p] /\ \A u \in Tag : u # t => flushed'[u] = flushed[u]
      BY <1>2, <1>3 DEF TypeOK
  <2>2. cur'[p] = t /\ \A q \in Proc : q # p => cur'[q] = cur[q]
      BY <1>2 DEF TypeOK
  <2>3. \A q \in Proc : cur[q] # t
      BY DEF Owned
  <2>4. \A q \in Proc : pc'[q] = "idle" <=> cur'[q] = Nil
      BY <1>3, <1>4, <2>2 DEF Owned
  <2>5. \A q \in Proc : cur'[q] \notin FreeTags'
      BY <1>2, <2>2 DEF Owned
  <2>6. \A q, r \in Proc : cur'[q] = cur'[r] /\ cur'[q] # Nil => q = r
      BY <2>2, <2>3 DEF Owned
  <2>7. ASSUME NEW u \in Tag, flushed'[u] # Nil
        PROVE  flushed'[u] \notin FreeTags' /\ \A q \in Proc : cur'[q] # flushed'[u]
    <3>1. CASE u = t  BY <1>2, <1>3, <2>1, <2>2, <2>3, <3>1 DEF Owned
    <3>2. CASE u # t  BY <1>2, <2>1, <2>2, <2>7, <3>2 DEF Owned
    <3>3. QED  BY <3>1, <3>2
  <2>8. \A u, v \in Tag : flushed'[u] = flushed'[v] /\ flushed'[u] # Nil => u = v
      BY <2>1, <1>3 DEF Owned
  <2>9. \A u \in FreeTags' : ~done'[u] /\ flushed'[u] = Nil /\ u \notin Queued'
      BY <1>0, <1>2, <1>3, <1>5, <2>1 DEF Owned
  <2>10. QED  BY <2>4, <2>5, <2>6, <2>7, <2>8, <2>9 DEF Owned
<1>8. InQueue'
    BY <1>0, <1>2, <1>3, <1>4, <1>5 DEF TypeOK, Owned, InQueue
<1>9. Reader'
    BY <1>0, <1>4 DEF TypeOK, Reader
<1>10. Woken'
  <2>1. SUFFICES ASSUME NEW q \in Proc, pc'[q] = "asleep", done'[cur'[q]]
                 PROVE  \E o \in Proc : pc'[o] = "wakeup" /\ woken'[o] = cur'[q]
      BY DEF Woken
  <2>2. q # p /\ pc[q] = "asleep" /\ cur'[q] = cur[q] /\ done[cur[q]]
      BY <1>0, <1>2, <1>4, <2>1 DEF TypeOK
  <2>3. PICK o \in Proc : pc[o] = "wakeup" /\ woken[o] = cur[q]
      BY <2>2 DEF Woken
  <2>4. QED  BY <1>0, <1>4, <2>2, <2>3
<1>11. Succession'
    BY <1>4 DEF Succession, OnItsWay
<1>12. QED  BY <1>1, <1>6, <1>7, <1>8, <1>9, <1>10, <1>11

\* The fields of a header after mntfree(), and the messages.
LEMMA FreedTypes ==
    ASSUME TypeOK, NEW t \in Tag, mntfree(t)
    PROVE  /\ done' = [done EXCEPT ![t] = FALSE] /\ flushed' = [flushed EXCEPT ![t] = Nil]
           /\ done' \in [Tag -> BOOLEAN] /\ flushed' \in [Tag -> Tag \union {Nil}]
           /\ reply' \in [Tag -> {"Tmax", "R", "Rflush", "stale"}]
           /\ oldtag' \in [Tag -> Tag \union {Nil}]
           /\ srv' \subseteq Requests /\ wire' \in Seq(Replies) /\ executed' \subseteq Tag
           /\ Len(wire') = Len(wire)
           /\ \A i \in 1 .. Len(wire) : wire'[i] = Retired(wire[i], t)
<1>1. /\ done' = [done EXCEPT ![t] = FALSE] /\ flushed' = [flushed EXCEPT ![t] = Nil]
      /\ reply' = [reply EXCEPT ![t] = "Tmax"] /\ oldtag' = [oldtag EXCEPT ![t] = Nil]
      /\ srv' = {Retired(m, t) : m \in srv}
      /\ wire' = [i \in DOMAIN wire |-> Retired(wire[i], t)]
      /\ executed' = executed \ {t}
    BY DEF mntfree
<1>2. \A m \in Requests : Retired(m, t) \in Requests
    BY DEF Requests, Retired
<1>3. \A m \in Replies : Retired(m, t) \in Replies
    BY DEF Replies, Retired
<1>4. srv' \subseteq Requests
    BY <1>1, <1>2 DEF TypeOK
<1>5. DOMAIN wire = 1 .. Len(wire) /\ Len(wire) \in Nat /\ \A i \in 1 .. Len(wire) : wire[i] \in Replies
    BY DEF TypeOK
<1>6. wire' \in [1 .. Len(wire) -> Replies]
    BY <1>1, <1>3, <1>5
<1>7. wire' \in Seq(Replies) /\ Len(wire') = Len(wire)
    BY <1>5, <1>6
<1>8. QED  BY <1>1, <1>4, <1>5, <1>7 DEF TypeOK

\* mntflushfree() goes on in the chain, with p's header out of the queue.
LEMMA ChainStep ==
    ASSUME IInv, NEW p \in Proc, pc[p] \in {"flushfree", "qrm"}, NextInChain(p),
           queue' \in Seq(Tag), Once(queue'), Queued' = Queued \ {cur[p]},
           UNCHANGED <<rip, mlock, woken, hard, noted, nflush, conn>>
    PROVE  IInv'
<1> DEFINE t == cur[p]
<1>0. t \in Tag /\ t \notin FreeTags
    BY DEF TypeOK, Owned
<1>1. CASE flushed[t] = Nil
  <2>1. /\ pc' = [pc EXCEPT ![p] = "return"] /\ done' = [done EXCEPT ![t] = TRUE]
        /\ UNCHANGED <<alloc, flushed, reply, oldtag, server, cur>>
      BY <1>1 DEF NextInChain
  <2>2. FreeTags' = FreeTags /\ FreeList'
      BY <2>1 DEF FreeTags, FreeList
  <2> HIDE DEF t
  <2>3. TypeOK'
      BY <1>0, <2>1 DEF TypeOK
  <2>4. Owned'
      BY <1>0, <2>1, <2>2 DEF TypeOK, Owned
  <2>5. InQueue'
    <3>1. \A u \in Tag : done'[u] <=> done[u] \/ u = t
        BY <1>0, <2>1 DEF TypeOK
    <3>2. \A q \in Proc : q # p /\ pc[q] # "idle" => cur[q] # t /\ cur[q] \in Tag
        BY <1>0 DEF t, Owned, TypeOK
    <3>3. Queued \subseteq Tag
        BY ToSetIs DEF Queued, TypeOK
    <3>4. pc'[p] = "return" /\ \A q \in Proc : q # p => pc'[q] = pc[q]
        BY <2>1 DEF TypeOK
    <3>5. \A u \in Queued' : ~done'[u]
        BY <3>1, <3>3 DEF InQueue, t
    <3>6. QED  BY <1>0, <2>1, <3>1, <3>2, <3>4, <3>5 DEF InQueue, t
  <2>6. Reader'
      BY <2>1 DEF TypeOK, Reader
  <2>7. Woken'
      BY <1>0, <2>1 DEF TypeOK, Woken, Owned, t
  <2>8. Succession'
      BY <1>0, <2>1 DEF TypeOK, Succession, OnItsWay, Owned, t
  <2>9. QED  BY <2>2, <2>3, <2>4, <2>5, <2>6, <2>7, <2>8
<1>2. CASE flushed[t] # Nil
  <2>1. /\ pc' = [pc EXCEPT ![p] = "flushfree"] /\ cur' = [cur EXCEPT ![p] = flushed[t]]
        /\ mntfree(t)
      BY <1>2 DEF NextInChain
  <2> HIDE DEF t
  <2>2. /\ rpcfree' \in Seq(Tag) /\ tagmask' \subseteq Tag /\ FreeList'
        /\ FreeTags' = FreeTags \union {t}
      BY <1>0, <2>1, Freed
  <2>3. /\ done' = [done EXCEPT ![t] = FALSE] /\ flushed' = [flushed EXCEPT ![t] = Nil]
        /\ done' \in [Tag -> BOOLEAN] /\ flushed' \in [Tag -> Tag \union {Nil}]
        /\ reply' \in [Tag -> {"Tmax", "R", "Rflush", "stale"}]
        /\ oldtag' \in [Tag -> Tag \union {Nil}]
        /\ srv' \subseteq Requests /\ wire' \in Seq(Replies) /\ executed' \subseteq Tag
      BY <1>0, <2>1, FreedTypes
  <2>4. flushed[t] \in Tag /\ flushed[t] # t
      BY <1>0, <1>2 DEF TypeOK, Owned, t
  <2>5. TypeOK'
      BY <2>1, <2>2, <2>3, <2>4 DEF TypeOK
  <2>6. cur'[p] = flushed[t] /\ \A q \in Proc : q # p => cur'[q] = cur[q] /\ cur[q] # flushed[t]
      BY <1>0, <1>2, <2>1 DEF TypeOK, Owned
  <2>7. flushed'[t] = Nil /\ \A u \in Tag : u # t => flushed'[u] = flushed[u]
      BY <1>0, <2>3 DEF TypeOK
  <2>8. ~done'[t] /\ \A u \in Tag : u # t => done'[u] = done[u]
      BY <1>0, <2>3 DEF TypeOK
  <2>9. pc'[p] = "flushfree" /\ \A q \in Proc : q # p => pc'[q] = pc[q]
      BY <2>1 DEF TypeOK
  <2>10. \A q \in Proc : q # p => cur[q] # t
      BY <1>0 DEF Owned, t
  <2>11. Owned'
    <3>1. \A q \in Proc : pc'[q] = "idle" <=> cur'[q] = Nil
        BY <2>4, <2>6, <2>9 DEF Owned
    <3>2. \A q \in Proc : cur'[q] \notin FreeTags'
        BY <1>0, <1>2, <2>2, <2>4, <2>6, <2>10 DEF Owned
    <3>3. \A q, r \in Proc : cur'[q] = cur'[r] /\ cur'[q] # Nil => q = r
        BY <2>6 DEF Owned
    <3>4. ASSUME NEW u \in Tag, flushed'[u] # Nil
          PROVE  flushed'[u] \notin FreeTags' /\ \A q \in Proc : cur'[q] # flushed'[u]
      <4>1. u # t /\ flushed'[u] = flushed[u] /\ flushed[u] # flushed[t]
          BY <1>0, <1>2, <2>7, <3>4 DEF Owned
      <4>2. flushed[u] # t
          BY <3>4, <4>1 DEF Owned, t
      <4>3. QED  BY <2>2, <2>6, <3>4, <4>1, <4>2 DEF Owned
    <3>5. \A u, v \in Tag : flushed'[u] = flushed'[v] /\ flushed'[u] # Nil => u = v
        BY <2>7 DEF Owned
    <3>6. \A u \in FreeTags' : ~done'[u] /\ flushed'[u] = Nil /\ u \notin Queued'
      <4>1. FreeTags \subseteq Tag
          BY DEF FreeTags
      <4>2. QED  BY <1>0, <2>2, <2>7, <2>8, <4>1 DEF Owned, t
    <3>7. QED  BY <3>1, <3>2, <3>3, <3>4, <3>5, <3>6 DEF Owned
  <2>12. InQueue'
    <3>1. Queued \subseteq Tag
        BY ToSetIs DEF Queued, TypeOK
    <3>2. \A u \in Queued' : ~done'[u]
        BY <2>8, <3>1 DEF InQueue, t
    <3>3. \A q \in Proc : q # p /\ pc[q] # "idle" => cur[q] \in Tag
        BY DEF Owned, TypeOK
    <3>4. QED  BY <2>6, <2>8, <2>9, <2>10, <3>2, <3>3 DEF InQueue, t
  <2>13. Reader'
      BY <2>9 DEF Reader
  <2>14. Woken'
    <3>1. SUFFICES ASSUME NEW q \in Proc, pc'[q] = "asleep", done'[cur'[q]]
                   PROVE  \E o \in Proc : pc'[o] = "wakeup" /\ woken'[o] = cur'[q]
        BY DEF Woken
    <3>2. q # p /\ pc[q] = "asleep" /\ cur'[q] = cur[q] /\ cur[q] \in Tag
        BY <2>6, <2>9, <3>1 DEF TypeOK, Owned
    <3>3. done[cur[q]]
        BY <2>8, <2>10, <3>1, <3>2
    <3>4. PICK o \in Proc : pc[o] = "wakeup" /\ woken[o] = cur[q]
        BY <3>2, <3>3 DEF Woken
    <3>5. QED  BY <2>9, <3>2, <3>4
  <2>15. Succession'
    <3>1. ASSUME NEW q \in Proc, OnItsWay(q) PROVE OnItsWay(q)'
      <4>1. q # p /\ cur[q] \in Tag
          BY <3>1 DEF OnItsWay, TypeOK, Owned
      <4>2. QED  BY <2>6, <2>8, <2>9, <2>10, <3>1, <4>1 DEF OnItsWay
    <3>2. QED  BY <2>9, <3>1 DEF Succession
  <2>16. QED  BY <2>2, <2>5, <2>11, <2>12, <2>13, <2>14, <2>15
<1>3. QED  BY <1>1, <1>2

\* A request without reply is marked as flushed.
LEMMA MarkStep ==
    ASSUME IInv, NEW p \in Proc, pc[p] = "flushfree", Goto(p, "qrm"),
           reply' = [reply EXCEPT ![cur[p]] = "Rflush"],
           UNCHANGED <<alloc, done, flushed, oldtag, server, cur, queue, rip, mlock, woken,
                       hard, noted, nflush, conn>>
    PROVE  IInv'
<1>1. FreeTags' = FreeTags /\ Queued' = Queued
    BY DEF FreeTags, Queued
<1>2. TypeOK'
    BY DEF TypeOK, Owned
<1>3. FreeList'
    BY DEF FreeList
<1>4. Owned'
    BY <1>1 DEF TypeOK, Owned
<1>5. InQueue'
    BY <1>1 DEF TypeOK, InQueue
<1>6. Reader'
    BY DEF TypeOK, Reader
<1>7. Woken'
    BY DEF TypeOK, Woken
<1>8. Succession'
    BY DEF TypeOK, Succession, OnItsWay
<1>9. QED  BY <1>2, <1>3, <1>4, <1>5, <1>6, <1>7, <1>8

\* mntflushfree() looks at a header of the chain.
LEMMA FlushFreeStep ==
    ASSUME IInv, NEW p \in Proc, FlushFree(p)
    PROVE  IInv'
<1>1. CASE done[cur[p]]
  <2>1. /\ pc[p] = "flushfree" /\ NextInChain(p) /\ queue' = queue
        /\ UNCHANGED <<rip, mlock, woken, hard, noted, nflush, conn>>
      BY <1>1 DEF FlushFree
  <2>2. queue' \in Seq(Tag) /\ Once(queue') /\ Queued' = Queued /\ cur[p] \notin Queued
      BY <1>1, <2>1 DEF TypeOK, InQueue, Queued
  <2>3. Queued' = Queued \ {cur[p]}
      BY <2>2
  <2>4. QED  BY <2>1, <2>2, <2>3, ChainStep
<1>2. CASE ~done[cur[p]]
    BY <1>2, MarkStep DEF FlushFree
<1>3. QED  BY <1>1, <1>2

\* mntqrm() takes a request out of the queue.
LEMMA mntqrmStep ==
    ASSUME IInv, NEW p \in Proc, mntqrm(p)
    PROVE  IInv'
<1>1. /\ pc[p] = "qrm" /\ NextInChain(p) /\ queue' = Unlink(queue, cur[p])
      /\ UNCHANGED <<rip, mlock, woken, hard, noted, nflush, conn>>
    BY DEF mntqrm
<1>2. queue' \in Seq(Tag) /\ Once(queue') /\ Queued' = Queued \ {cur[p]}
    BY <1>1, UnlinkIs DEF Queued, TypeOK, InQueue
<1>3. QED  BY <1>1, <1>2, ChainStep

\* The call returns.
LEMMA ReturnStep ==
    ASSUME IInv, NEW p \in Proc, Return(p)
    PROVE  IInv'
<1> DEFINE t == cur[p]
<1>0. t \in Tag /\ t \notin FreeTags /\ t \notin Queued
    BY DEF Return, TypeOK, Owned, InQueue
<1>1. /\ pc[p] = "return" /\ mntfree(t) /\ pc' = [pc EXCEPT ![p] = "idle"]
      /\ cur' = [cur EXCEPT ![p] = Nil] /\ hard' = [hard EXCEPT ![p] = FALSE]
      /\ noted' = [noted EXCEPT ![p] = FALSE] /\ nflush' = [nflush EXCEPT ![p] = 0]
      /\ UNCHANGED <<queue, rip, mlock, woken, conn>>
    BY DEF Return
<1>2. \A q \in Proc : q # p => cur[q] # t
    BY <1>0 DEF Owned
<1>3. \A u \in Tag : flushed[u] # t
    BY <1>0 DEF Owned
<1> HIDE DEF t
<1>4. /\ rpcfree' \in Seq(Tag) /\ tagmask' \subseteq Tag /\ FreeList'
      /\ FreeTags' = FreeTags \union {t}
    BY <1>0, <1>1, Freed
<1>5. /\ done' = [done EXCEPT ![t] = FALSE] /\ flushed' = [flushed EXCEPT ![t] = Nil]
      /\ done' \in [Tag -> BOOLEAN] /\ flushed' \in [Tag -> Tag \union {Nil}]
      /\ reply' \in [Tag -> {"Tmax", "R", "Rflush", "stale"}]
      /\ oldtag' \in [Tag -> Tag \union {Nil}]
      /\ srv' \subseteq Requests /\ wire' \in Seq(Replies) /\ executed' \subseteq Tag
    BY <1>0, <1>1, FreedTypes
<1>6. Queued' = Queued /\ Queued \subseteq Tag /\ FreeTags \subseteq Tag
    BY <1>1, ToSetIs DEF Queued, TypeOK, FreeTags
<1>7. TypeOK'
    BY <1>1, <1>4, <1>5 DEF TypeOK
<1>8. cur'[p] = Nil /\ \A q \in Proc : q # p => cur'[q] = cur[q]
    BY <1>1 DEF TypeOK
<1>9. flushed'[t] = Nil /\ \A u \in Tag : u # t => flushed'[u] = flushed[u]
    BY <1>0, <1>5 DEF TypeOK
<1>10. ~done'[t] /\ \A u \in Tag : u # t => done'[u] = done[u]
    BY <1>0, <1>5 DEF TypeOK
<1>11. pc'[p] = "idle" /\ \A q \in Proc : q # p => pc'[q] = pc[q]
    BY <1>1 DEF TypeOK
<1>12. Owned'
  <2>1. \A q \in Proc : pc'[q] = "idle" <=> cur'[q] = Nil
      BY <1>8, <1>11 DEF Owned
  <2>2. \A q \in Proc : cur'[q] \notin FreeTags'
      BY <1>0, <1>2, <1>4, <1>6, <1>8 DEF Owned
  <2>3. \A q, r \in Proc : cur'[q] = cur'[r] /\ cur'[q] # Nil => q = r
      BY <1>8 DEF Owned
  <2>4. ASSUME NEW u \in Tag, flushed'[u] # Nil
        PROVE  flushed'[u] \notin FreeTags' /\ \A q \in Proc : cur'[q] # flushed'[u]
      BY <1>3, <1>4, <1>8, <1>9, <2>4 DEF Owned
  <2>5. \A u, v \in Tag : flushed'[u] = flushed'[v] /\ flushed'[u] # Nil => u = v
      BY <1>9 DEF Owned
  <2>6. \A u \in FreeTags' : ~done'[u] /\ flushed'[u] = Nil /\ u \notin Queued'
      BY <1>0, <1>4, <1>6, <1>9, <1>10 DEF Owned
  <2>7. QED  BY <2>1, <2>2, <2>3, <2>4, <2>5, <2>6 DEF Owned
<1>13. InQueue'
  <2>1. Once(queue') /\ \A u \in Queued' : ~done'[u]
      BY <1>0, <1>1, <1>6, <1>10 DEF InQueue
  <2>2. \A q \in Proc : q # p /\ pc[q] # "idle" => cur[q] \in Tag
      BY DEF Owned, TypeOK
  <2>3. QED  BY <1>2, <1>6, <1>8, <1>10, <1>11, <2>1, <2>2 DEF InQueue
<1>14. Reader'
    BY <1>1, <1>11 DEF Reader
<1>15. Woken'
  <2>1. SUFFICES ASSUME NEW q \in Proc, pc'[q] = "asleep", done'[cur'[q]]
                 PROVE  \E o \in Proc : pc'[o] = "wakeup" /\ woken'[o] = cur'[q]
      BY DEF Woken
  <2>2. q # p /\ pc[q] = "asleep" /\ cur'[q] = cur[q] /\ cur[q] \in Tag
      BY <1>8, <1>11, <2>1 DEF TypeOK, Owned
  <2>3. done[cur[q]]
      BY <1>2, <1>10, <2>1, <2>2
  <2>4. PICK o \in Proc : pc[o] = "wakeup" /\ woken[o] = cur[q]
      BY <2>2, <2>3 DEF Woken
  <2>5. QED  BY <1>1, <1>11, <2>2, <2>4
<1>16. Succession'
  <2>1. ASSUME NEW q \in Proc, OnItsWay(q) PROVE OnItsWay(q)'
    <3>1. q # p /\ cur[q] \in Tag
        BY <1>1, <2>1 DEF OnItsWay, TypeOK, Owned
    <3>2. QED  BY <1>2, <1>8, <1>10, <1>11, <2>1, <3>1 DEF OnItsWay
  <2>2. QED  BY <1>1, <1>11, <2>1 DEF Succession
<1>17. QED  BY <1>4, <1>7, <1>12, <1>13, <1>14, <1>15, <1>16

\* The process sleeps, or does not, or is interrupted.
LEMMA SleepStep ==
    ASSUME IInv, NEW p \in Proc, Sleep(p) \/ Back(p)
    PROVE  IInv'
<1>1. pc[p] \in {"sleep", "back"}
    BY DEF Sleep, Back
<1>2. CASE SleepIntr(p)
    BY <1>1, <1>2, InterruptedStep DEF SleepIntr, TypeOK
<1>3. CASE Awake(p)
    BY <1>1, <1>3, AwakeStep
<1>4. CASE /\ pc[p] = "sleep" /\ ~rpcattn(cur[p]) /\ Goto(p, "asleep")
           /\ UNCHANGED <<queue, rip, mlock, alloc, heads, cur, woken, hard, noted, nflush,
                          conn, server>>
    BY <1>4, AsleepStep
<1>5. QED  BY <1>2, <1>3, <1>4 DEF Sleep, Back

\* A note interrupts the write.
LEMMA WriteIntrStep ==
    ASSUME IInv, NEW p \in Proc, WriteIntr(p)
    PROVE  IInv'
<1>1. cur[p] \in Tag /\ pc[p] = "write" /\ Interrupted(p) /\ wire' = wire
    BY DEF WriteIntr, TypeOK, Owned
<1>2. Request(p) \in Requests
    BY <1>1 DEF TypeOK, Request, Requests
<1>3. srv' \subseteq Requests
    BY <1>2 DEF WriteIntr, Send, TypeOK
<1>4. QED  BY <1>1, <1>3, InterruptedStep

----------------------------------------------------------------------------
\* The initial state satisfies the invariant.
LEMMA InitIInv == Init => IInv
<1> SUFFICES ASSUME Init PROVE IInv
    OBVIOUS
<1>1. ToSet(<< >>) = {} /\ << >> \in Seq(Tag) /\ << >> \in Seq(Replies) /\ Len(<< >>) = 0
    BY DEF ToSet
<1>2. Once(<< >>)
    BY DEF Once
<1>3. TypeOK
    BY <1>1 DEF Init, TypeOK
<1>4. FreeList
    BY <1>1, <1>2 DEF Init, FreeList
<1>5. Owned
    BY <1>1 DEF Init, Owned, Queued, FreeTags
<1>6. InQueue
    BY <1>1, <1>2 DEF Init, InQueue, Queued
<1>7. Reader
    BY DEF Init, Reader
<1>8. Woken /\ Succession
    BY DEF Init, Woken, Succession
<1>9. QED  BY <1>3, <1>4, <1>5, <1>6, <1>7, <1>8

\* Every step preserves the invariant.
LEMMA NextIInv == IInv /\ [Next]_vars => IInv'
<1> SUFFICES ASSUME IInv, [Next]_vars PROVE IInv'
    OBVIOUS
<1>1. CASE UNCHANGED vars
    BY <1>1 DEF vars, TypeOK, FreeList, FreeTags, Owned, InQueue, Queued, Reader, Woken,
       Succession, OnItsWay
<1>2. ASSUME NEW p \in Proc, Start(p) \/ Note(p) PROVE IInv'
    BY <1>2, StartStep, NoteStep
<1>3. ASSUME NEW p \in Proc, Step(p) PROVE IInv'
  <2>1. CASE Enqueue(p)  BY <2>1, EnqueueStep
  <2>2. CASE Write(p)  BY <2>2, WriteStep
  <2>3. CASE WriteIntr(p)  BY <2>3, WriteIntrStep
  <2>4. CASE WriteFails(p)  BY <2>4, FailedStep DEF WriteFails
  <2>5. CASE Gate(p)  BY <2>5, GateStep
  <2>6. CASE Sleep(p) \/ Back(p)  BY <2>6, SleepStep
  <2>7. CASE mountmux(p)  BY <2>7, mountmuxStep
  <2>8. CASE MuxWakeup(p)  BY <2>8, MuxWakeupStep
  <2>9. CASE ReadFails(p)  BY <2>9, FailedStep DEF ReadFails, Reading
  <2>10. CASE ReadIntr(p)
      BY <2>10, InterruptedStep DEF ReadIntr, Reading, TypeOK
  <2>11. CASE ReadDone(p)  BY <2>11, ReadDoneStep
  <2>12. CASE FlushFree(p)  BY <2>12, FlushFreeStep
  <2>13. CASE mntqrm(p)  BY <2>13, mntqrmStep
  <2>14. CASE Return(p)  BY <2>14, ReturnStep
  <2>15. QED  BY <1>3, <2>1, <2>2, <2>3, <2>4, <2>5, <2>6, <2>7, <2>8, <2>9, <2>10, <2>11,
                 <2>12, <2>13, <2>14 DEF Step
<1>4. ASSUME NEW m \in srv, Answer(m) PROVE IInv'
    BY <1>4, AnswerStep
<1>5. CASE Hangup
    BY <1>5, HangupStep
<1>6. QED  BY <1>1, <1>2, <1>3, <1>4, <1>5 DEF Next

\* The invariant holds in every reachable state.
THEOREM Invariance == Spec => []IInv
BY InitIInv, NextIInv, PTL DEF Spec

\* mntgate(): while the connection is up, a free place of the reader with
\* somebody asleep has a process on its way to it.
THEOREM PlaceOfReaderPassed == Spec => []NoneStranded
<1>1. IInv => NoneStranded
    BY DEF Succession, OnItsWay, NoneStranded
<1>2. QED  BY <1>1, Invariance, PTL

(***************************************************************************)
(* The invariant for the replies.  A call is known by the header of its    *)
(* request, which its flushes name by oldtag.                              *)
(***************************************************************************)
Base(t) == IF oldtag[t] = Nil THEN t ELSE oldtag[t]

Leaving == {"flushfree", "qrm", "return"}

\* The replies under way that are not stale.
Live == {i \in 1 .. Len(wire) : wire[i].live}

\* Calls that have not failed.  One that had not written its request when the
\* connection broke will fail.
Good(p) ==
    cur[p] # Nil /\ ~hard[p] /\ (conn = "up" \/ pc[p] \notin {"enqueue", "write"})

\* mntflushalloc(): a flush names the request of its call.
Chains ==
    /\ \A t \in Tag : oldtag[t] = Nil <=> flushed[t] = Nil
    /\ \A t \in Tag : flushed[t] # Nil => oldtag[t] = Base(flushed[t])
    /\ \A p \in Proc : cur[p] # Nil => Base(cur[p]) \notin FreeTags /\ oldtag[Base(cur[p])] = Nil
    /\ \A p, q \in Proc : cur[p] # Nil /\ cur[q] # Nil /\ Base(cur[p]) = Base(cur[q]) => p = q
    /\ \A p \in Proc : pc[p] = "return" => flushed[cur[p]] = Nil

\* Only a broken connection makes calls fail, or replies stale.
Failing ==
    /\ conn = "down" => srv = {}
    /\ \A p \in Proc : hard[p] => conn = "down"
    /\ conn = "up" => \A i \in 1 .. Len(wire) : wire[i].live

\* A header in use has at most one message under way, its own.
Messages ==
    /\ \A m \in srv : m.live /\ m.tag \notin FreeTags /\ m.old = oldtag[m.tag]
    /\ \A i \in Live : /\ wire[i].tag \notin FreeTags
                       /\ wire[i].type = IF oldtag[wire[i].tag] = Nil THEN "R" ELSE "Rflush"
    /\ \A m, n \in srv : m.tag = n.tag => m = n
    /\ \A m \in srv, i \in Live : m.tag # wire[i].tag
    /\ \A i, j \in Live : wire[i].tag = wire[j].tag => i = j

\* Messages belong to calls that have not returned.
Owners ==
    conn = "up" =>
        /\ \A m \in srv : \E p \in Proc : cur[p] # Nil /\ Base(cur[p]) = Base(m.tag)
        /\ \A i \in Live : \E p \in Proc : cur[p] # Nil /\ Base(cur[p]) = Base(wire[i].tag)

\* Replies come from the server.
Replied ==
    /\ \A i \in Live : wire[i].type = "R" => wire[i].tag \in executed
    /\ \A t \in Tag : reply[t] = "R" => t \in executed
    /\ \A t \in FreeTags : t \notin executed

\* Of p's messages the one p waits for is the last.
Numbered(p) ==
    \A m \in srv : Base(m.tag) = Base(cur[p]) =>
        m.nth <= nflush[p] /\ (m.nth = nflush[p] <=> m.tag = cur[p])

LastOne(p) ==
    \A i \in Live : wire[i].tag = cur[p] =>
        /\ \A m \in srv : Base(m.tag) # Base(cur[p])
        /\ \A j \in Live : j > i => Base(wire[j].tag) # Base(cur[p])

\* A call that has not been interrupted has one message.
Single(p) ==
    oldtag[cur[p]] = Nil /\ pc[p] \notin Leaving =>
        \A m \in srv : Base(m.tag) = cur[p] => m.tag = cur[p]

Unsent(p) ==
    pc[p] \in {"enqueue", "write"} =>
        /\ ~done[cur[p]]
        /\ \A m \in srv : m.tag # cur[p]
        /\ \A i \in Live : wire[i].tag # cur[p]

\* Once p has the reply it waits for, no other message of its call is under way.
Settled(p) ==
    done[cur[p]] \/ pc[p] \in Leaving =>
        /\ \A m \in srv : Base(m.tag) # Base(cur[p])
        /\ \A i \in Live : Base(wire[i].tag) # Base(cur[p])

\* No stale reply has a tag p looks for.
NotStale(p) ==
    \A i \in 1 .. Len(wire) : ~wire[i].live =>
        /\ wire[i].tag # Base(cur[p])
        /\ pc[p] \notin Leaving => wire[i].tag # cur[p]

\* p waits for a reply that was lost with the connection.
Lost(p) ==
    /\ conn = "down" /\ ~done[cur[p]] /\ pc[p] \notin Leaving
    /\ \A i \in Live : wire[i].tag # cur[p]

\* A request that was carried out has its reply, or the reply is under way.
Answered(p) ==
    /\ Base(cur[p]) \in executed =>
          \/ done[Base(cur[p])] /\ reply[Base(cur[p])] = "R"
          \/ \E i \in Live : wire[i].tag = Base(cur[p])
          \/ Lost(p)
    /\ done[Base(cur[p])] => reply[Base(cur[p])] \in {"R", "Rflush"}
    /\ \A m \in srv : m.tag = Base(cur[p]) => Base(cur[p]) \in Queued
    /\ \A i \in Live : wire[i].tag = Base(cur[p]) => Base(cur[p]) \in Queued
    /\ pc[p] = "qrm" /\ oldtag[cur[p]] = Nil => reply[cur[p]] = "Rflush"

Sound(p) ==
    /\ Numbered(p) /\ LastOne(p) /\ Single(p) /\ Unsent(p) /\ Settled(p) /\ NotStale(p)
    /\ Answered(p)

MInv ==
    /\ Chains /\ Failing /\ Messages /\ Owners /\ Replied
    /\ \A p \in Proc : Good(p) => Sound(p)

----------------------------------------------------------------------------
(* One lemma per kind of step.                                             *)

\* Calls have their own headers.
LEMMA Distinct ==
    ASSUME IInv, Chains, NEW p \in Proc, cur[p] # Nil
    PROVE  /\ cur[p] \in Tag /\ Base(cur[p]) \in Tag
           /\ cur[p] \notin FreeTags /\ Base(cur[p]) \notin FreeTags
           /\ oldtag[Base(cur[p])] = Nil /\ Base(Base(cur[p])) = Base(cur[p])
           /\ \A q \in Proc : q # p /\ cur[q] # Nil =>
                 /\ Base(cur[q]) # Base(cur[p]) /\ cur[q] # cur[p]
                 /\ Base(cur[q]) # cur[p] /\ cur[q] # Base(cur[p])
<1>1. cur[p] \in Tag /\ Base(cur[p]) \in Tag /\ cur[p] \notin FreeTags
    BY DEF TypeOK, Owned, Base
<1>2. Base(cur[p]) \notin FreeTags /\ oldtag[Base(cur[p])] = Nil /\ Base(Base(cur[p])) = Base(cur[p])
    BY DEF Chains, Base
<1>3. ASSUME NEW q \in Proc, q # p, cur[q] # Nil
      PROVE  /\ Base(cur[q]) # Base(cur[p]) /\ cur[q] # cur[p]
             /\ Base(cur[q]) # cur[p] /\ cur[q] # Base(cur[p])
  <2>1. Base(cur[q]) # Base(cur[p]) /\ cur[q] # cur[p]
      BY <1>3 DEF Chains, Owned
  <2>2. oldtag[Base(cur[q])] = Nil /\ Base(Base(cur[q])) = Base(cur[q])
      BY <1>3 DEF Chains, Base
  <2>3. QED  BY <1>2, <2>1, <2>2
<1>4. QED  BY <1>1, <1>2, <1>3

\* Processes move on, and no header and no message is touched.
LEMMA MoveKeeps ==
    ASSUME IInv, MInv, UNCHANGED <<heads, alloc, cur, nflush, conn, server>>,
           Queued \subseteq Queued',
           \A q \in Proc : hard[q] => hard'[q],
           \A q \in Proc : hard'[q] => hard[q] \/ conn = "down",
           \A q \in Proc : pc'[q] = "return" => pc[q] = "return",
           \A q \in Proc : cur[q] # Nil /\ ~hard'[q] =>
               /\ pc'[q] \in {"enqueue", "write"} <=> pc[q] \in {"enqueue", "write"}
               /\ pc'[q] \in Leaving => pc[q] \in Leaving \/ done[cur[q]]
               /\ pc[q] \in Leaving => pc'[q] \in Leaving
               /\ pc'[q] = "qrm" => pc[q] = "qrm"
    PROVE  MInv'
<1>1. FreeTags' = FreeTags /\ Live' = Live
    BY DEF FreeTags, Live
<1>2. Chains' /\ Messages' /\ Owners' /\ Replied'
    BY <1>1 DEF MInv, Chains, Messages, Owners, Replied, Base
<1>3. Failing'
    BY DEF MInv, Failing
<1>4. SUFFICES ASSUME NEW q \in Proc, Good(q)' PROVE Sound(q)'
    BY <1>2, <1>3 DEF MInv
<1>5. Good(q) /\ cur[q] # Nil /\ ~hard'[q]
    BY <1>4 DEF Good
<1>6. Sound(q)
    BY <1>5 DEF MInv
<1>7. Numbered(q)' /\ LastOne(q)' /\ Unsent(q)'
    BY <1>1, <1>5, <1>6 DEF Sound, Numbered, LastOne, Unsent, Base
<1>8. Single(q)' /\ Settled(q)' /\ NotStale(q)'
    BY <1>1, <1>5, <1>6 DEF Sound, Single, Settled, NotStale, Base
<1>9. Answered(q)'
  <2>1. Lost(q) => Lost(q)'
      BY <1>1, <1>5 DEF Lost
  <2>2. QED  BY <1>1, <1>5, <1>6, <2>1 DEF Sound, Answered, Base
<1>10. QED  BY <1>7, <1>8, <1>9 DEF Sound

\* p writes its request.
LEMMA WriteKeeps ==
    ASSUME IInv, MInv, NEW p \in Proc, Write(p)
    PROVE  MInv'
<1> DEFINE n == Request(p)
<1>0. /\ pc[p] = "write" /\ conn = "up" /\ srv' = srv \union {n}
      /\ pc' = [pc EXCEPT ![p] = "gate"]
      /\ UNCHANGED <<queue, rip, mlock, alloc, heads, cur, woken, hard, noted, nflush, conn,
                     wire, executed>>
    BY DEF Write, Send
<1>1. cur[p] \in Tag /\ cur[p] \notin FreeTags
    BY <1>0 DEF TypeOK, Owned
<1>2. n.tag = cur[p] /\ n.old = oldtag[cur[p]] /\ n.nth = nflush[p] /\ n.live
    BY DEF Request
<1> HIDE DEF n
<1>3. FreeTags' = FreeTags /\ Live' = Live /\ Queued' = Queued
    BY <1>0 DEF FreeTags, Live, Queued
<1>4. Good(p) /\ Sound(p)
    BY <1>0, <1>1 DEF MInv, Good, Failing
<1>5. (\A m \in srv : m.tag # cur[p]) /\ (\A i \in Live : wire[i].tag # cur[p])
    BY <1>0, <1>4 DEF Sound, Unsent
<1>6. pc'[p] = "gate" /\ \A q \in Proc : q # p => pc'[q] = pc[q]
    BY <1>0 DEF TypeOK
<1>7. Chains' /\ Failing' /\ Replied'
    BY <1>0, <1>3, <1>6 DEF MInv, Chains, Failing, Replied, Base
<1>8. Messages'
    BY <1>0, <1>1, <1>2, <1>3, <1>5 DEF MInv, Messages
<1>9. Owners'
    BY <1>0, <1>1, <1>2, <1>3 DEF MInv, Owners, Base
<1>10. SUFFICES ASSUME NEW q \in Proc, Good(q)' PROVE Sound(q)'
    BY <1>7, <1>8, <1>9 DEF MInv
<1>11. Good(q) /\ Sound(q) /\ cur[q] # Nil
    BY <1>0, <1>10, <1>6 DEF Good, MInv
<1>12. /\ q # p => /\ Base(cur[q]) # Base(cur[p]) /\ cur[q] # cur[p]
                   /\ Base(cur[q]) # cur[p] /\ cur[q] # Base(cur[p])
       /\ oldtag[cur[q]] = Nil => Base(cur[q]) = cur[q]
    BY <1>4, <1>11, Distinct DEF MInv, Good, Base
<1>13. \A t : Base(t)' = Base(t)
    BY <1>0 DEF Base
<1>14. Numbered(q)'
    BY <1>0, <1>2, <1>5, <1>11, <1>12, <1>13 DEF Sound, Numbered, TypeOK
<1>15. LastOne(q)'
    BY <1>0, <1>2, <1>3, <1>5, <1>11, <1>12, <1>13 DEF Sound, LastOne
<1>16. Single(q)'
    BY <1>0, <1>2, <1>3, <1>6, <1>11, <1>12, <1>13 DEF Sound, Single, Leaving
<1>17. Unsent(q)'
    BY <1>0, <1>2, <1>3, <1>6, <1>11, <1>12 DEF Sound, Unsent
<1>18. Settled(q)'
  <2>1. ~done[cur[p]] /\ pc'[p] \notin Leaving
      BY <1>0, <1>4, <1>6 DEF Leaving, Sound, Unsent
  <2>2. QED  BY <1>0, <1>2, <1>3, <1>6, <1>11, <1>12, <1>13, <2>1 DEF Sound, Settled
<1>19. NotStale(q)'
    BY <1>0, <1>6, <1>11, <1>13 DEF Sound, NotStale, Failing, MInv
<1>20. Answered(q)'
  <2>1. ~Lost(q)
      BY <1>0 DEF Lost
  <2>2. cur[p] \in Queued
      BY <1>0, <1>4 DEF InQueue, Sound, Unsent
  <2>3. QED  BY <1>0, <1>2, <1>3, <1>6, <1>11, <1>12, <1>13, <2>1, <2>2 DEF Sound, Answered
<1>21. QED  BY <1>14, <1>15, <1>16, <1>17, <1>18, <1>19, <1>20 DEF Sound

\* A call starts: its header is fresh, so no message is about it.
LEMMA StartKeeps ==
    ASSUME IInv, MInv, NEW p \in Proc, Start(p)
    PROVE  MInv'
<1>0. /\ pc[p] = "idle" /\ pc' = [pc EXCEPT ![p] = "enqueue"] /\ cur[p] = Nil
      /\ UNCHANGED <<queue, rip, mlock, woken, hard, noted, nflush, conn, srv, wire>>
      /\ UNCHANGED <<done, reply, executed>>
    BY DEF Start, mntralloc, Owned
<1>1. PICK t \in FreeTags :
          /\ FreeTags' = FreeTags \ {t}
          /\ flushed' = [flushed EXCEPT ![t] = Nil]
          /\ oldtag' = [oldtag EXCEPT ![t] = Nil]
          /\ cur' = [cur EXCEPT ![p] = t]
    BY Allocated DEF Start
<1>2. t \in Tag /\ t # Nil /\ ~done[t] /\ flushed[t] = Nil /\ oldtag[t] = Nil
    BY DEF FreeTags, Owned, MInv, Chains
<1>3. flushed' = flushed /\ oldtag' = oldtag
    BY <1>1, <1>2 DEF TypeOK
<1>4. cur'[p] = t /\ \A q \in Proc : q # p => cur'[q] = cur[q]
    BY <1>1 DEF TypeOK
<1>5. pc'[p] = "enqueue" /\ \A q \in Proc : q # p => pc'[q] = pc[q]
    BY <1>0 DEF TypeOK
<1>6. Live' = Live /\ Queued' = Queued
    BY <1>0 DEF Live, Queued
<1>7. \A u : Base(u)' = Base(u)
    BY <1>3 DEF Base
<1>8. Base(t) = t
    BY <1>2 DEF Base
<1>9. \A q \in Proc : cur[q] # Nil => Base(cur[q]) # t /\ cur[q] # t
    BY DEF MInv, Chains, Owned
<1>10. conn = "up" =>
          (\A m \in srv : Base(m.tag) # t /\ m.tag # t) /\ (\A i \in Live : Base(wire[i].tag) # t /\ wire[i].tag # t)
    BY <1>9 DEF MInv, Owners, Messages
<1>11. Chains'
  <2>1. \A u \in Tag : oldtag'[u] = Nil <=> flushed'[u] = Nil
      BY <1>3 DEF MInv, Chains
  <2>2. \A u \in Tag : flushed'[u] # Nil => oldtag'[u] = Base(flushed[u])'
      BY <1>3 DEF MInv, Chains, Base
  <2>3. /\ Base(cur[p])' = t
        /\ \A q \in Proc : q # p => cur'[q] = cur[q] /\ Base(cur[q])' = Base(cur[q])
      BY <1>2, <1>3, <1>4 DEF Base
  <2>4. \A q \in Proc : cur'[q] # Nil => Base(cur[q])' \notin FreeTags' /\ oldtag[Base(cur[q])]' = Nil
    <3>1. SUFFICES ASSUME NEW q \in Proc, cur'[q] # Nil
                   PROVE  Base(cur[q])' \notin FreeTags' /\ oldtag'[Base(cur[q])'] = Nil
        OBVIOUS
    <3>2. CASE q = p  BY <1>1, <1>2, <1>3, <2>3, <3>2
    <3>3. CASE q # p  BY <1>1, <1>3, <2>3, <3>1, <3>3 DEF MInv, Chains
    <3>4. QED  BY <3>2, <3>3
  <2>5. \A q, r \in Proc : cur'[q] # Nil /\ cur'[r] # Nil /\ Base(cur[q])' = Base(cur[r])' => q = r
      BY <1>9, <2>3 DEF MInv, Chains
  <2>6. \A q \in Proc : pc'[q] = "return" => flushed'[cur'[q]] = Nil
      BY <1>3, <1>4, <1>5 DEF MInv, Chains
  <2>7. QED  BY <2>1, <2>2, <2>4, <2>5, <2>6 DEF Chains
<1>12. Failing' /\ Replied'
    BY <1>0, <1>1, <1>6 DEF MInv, Failing, Replied
<1>13. Messages'
    BY <1>0, <1>1, <1>3, <1>6 DEF MInv, Messages
<1>14. Owners'
    BY <1>0, <1>4, <1>6, <1>3 DEF MInv, Owners, Base
<1>15. SUFFICES ASSUME NEW q \in Proc, Good(q)' PROVE Sound(q)'
    BY <1>11, <1>12, <1>13, <1>14 DEF MInv
<1>16. CASE q = p
  <2>1. conn = "up" /\ Base(cur[p])' = t /\ cur'[p] = t /\ pc'[p] = "enqueue"
      BY <1>0, <1>4, <1>5, <1>7, <1>8, <1>15, <1>16 DEF Good, Base
  <2>2. Numbered(p)' /\ LastOne(p)' /\ Unsent(p)'
      BY <1>0, <1>2, <1>6, <1>7, <1>10, <2>1 DEF Numbered, LastOne, Unsent
  <2>3. Single(p)' /\ Settled(p)' /\ NotStale(p)'
      BY <1>0, <1>2, <1>6, <1>7, <1>10, <2>1 DEF Single, Settled, NotStale, Leaving, MInv, Failing
  <2>4. Answered(p)'
      BY <1>0, <1>2, <1>6, <1>10, <2>1 DEF Answered, MInv, Replied
  <2>5. QED  BY <1>16, <2>2, <2>3, <2>4 DEF Sound
<1>17. CASE q # p
  <2>1. cur'[q] = cur[q] /\ pc'[q] = pc[q] /\ Good(q) /\ Sound(q)
      BY <1>0, <1>4, <1>5, <1>15, <1>17 DEF Good, MInv
  <2>2. Base(cur[q])' = Base(cur[q])
      BY <1>3, <2>1 DEF Base
  <2>3. Numbered(q)' /\ LastOne(q)' /\ Unsent(q)'
      BY <1>0, <1>6, <1>7, <2>1, <2>2 DEF Sound, Numbered, LastOne, Unsent
  <2>4. Single(q)' /\ Settled(q)' /\ NotStale(q)'
      BY <1>0, <1>3, <1>6, <1>7, <2>1, <2>2 DEF Sound, Single, Settled, NotStale
  <2>5. Lost(q) => Lost(q)'
      BY <1>0, <1>6, <2>1 DEF Lost
  <2>6. Answered(q)'
      BY <1>0, <1>3, <1>6, <2>1, <2>2, <2>5 DEF Sound, Answered
  <2>7. QED  BY <2>3, <2>4, <2>6 DEF Sound
<1>18. QED  BY <1>16, <1>17

\* Eintr: the new header is a flush of the same call.
LEMMA InterruptedKeeps ==
    ASSUME IInv, MInv, NEW p \in Proc, pc[p] \in {"write", "sleep", "back", "read"},
           Interrupted(p), wire' = wire,
           \/ srv' = srv
           \/ pc[p] = "write" /\ conn = "up" /\ srv' = srv \union {Request(p)}
    PROVE  MInv'
<1> DEFINE n == Request(p)
           c == cur[p]
           b == Base(cur[p])
<1>0. /\ nflush' = [nflush EXCEPT ![p] = @ + 1]
      /\ UNCHANGED <<queue, hard, conn, done, reply, executed>>
    BY DEF Interrupted, mntralloc
<1>1. c # Nil
    BY DEF Owned
<1>2. PICK t \in FreeTags :
          /\ FreeTags' = FreeTags \ {t}
          /\ flushed' = [flushed EXCEPT ![t] = c]
          /\ oldtag' = [oldtag EXCEPT ![t] = b]
          /\ cur' = [cur EXCEPT ![p] = t]
    BY <1>1, Allocated DEF Interrupted, Base
<1>3. t \in Tag /\ t # Nil /\ ~done[t] /\ flushed[t] = Nil
    BY DEF FreeTags, Owned
<1>4. /\ c \in Tag /\ b \in Tag /\ c \notin FreeTags /\ b \notin FreeTags
      /\ oldtag[b] = Nil /\ Base(b) = b
      /\ \A q \in Proc : q # p /\ cur[q] # Nil =>
            Base(cur[q]) # b /\ cur[q] # c /\ Base(cur[q]) # c /\ cur[q] # b
    BY <1>1, Distinct DEF MInv
<1>5. n.tag = c /\ n.old = oldtag[c] /\ n.nth = nflush[p] /\ n.live
    BY DEF Request
<1>6. \A m \in srv' : m \in srv \/ (m = n /\ pc[p] = "write" /\ conn = "up")
    OBVIOUS
<1> HIDE DEF n, c, b
<1>7. cur'[p] = t /\ \A q \in Proc : q # p => cur'[q] = cur[q]
    BY <1>2 DEF TypeOK
<1>8. /\ pc'[p] = "enqueue"
      /\ \A q \in Proc : q # p => pc'[q] = pc[q] \/ (pc[q] = "asleep" /\ pc'[q] = "back")
  <2>1. CASE rip = p
      BY <2>1, GateIs DEF Interrupted
  <2>2. CASE rip # p
      BY <2>2 DEF Interrupted, TypeOK
  <2>3. QED  BY <2>1, <2>2
<1>9. Live' = Live /\ Queued' = Queued
    BY <1>0 DEF Live, Queued
<1>10. oldtag'[t] = b /\ \A u \in Tag : u # t => oldtag'[u] = oldtag[u]
    BY <1>2, <1>3 DEF TypeOK
<1>11. flushed'[t] = c /\ \A u \in Tag : u # t => flushed'[u] = flushed[u]
    BY <1>2, <1>3 DEF TypeOK
<1>12. Base(t)' = b /\ \A u \in Tag : u # t => Base(u)' = Base(u)
    BY <1>3, <1>4, <1>10 DEF Base
<1>13. /\ Base(cur[p])' = b
       /\ \A q \in Proc : q # p /\ cur[q] # Nil =>
             cur[q] \in Tag /\ cur[q] # t /\ Base(cur[q]) # t /\ Base(cur[q])' = Base(cur[q])
  <2>1. \A q \in Proc : q # p /\ cur[q] # Nil => cur[q] \in Tag /\ cur[q] # t /\ Base(cur[q]) # t
      BY Distinct DEF MInv
  <2>2. QED  BY <1>3, <1>4, <1>7, <1>10, <2>1 DEF Base
<1>14. \A m \in srv' : m.tag \in Tag /\ m.tag # t /\ m.tag \notin FreeTags
  <2>1. ASSUME NEW m \in srv PROVE m.tag \in Tag /\ m.tag # t /\ m.tag \notin FreeTags
    <3>1. m \in Requests
        BY DEF TypeOK
    <3>2. QED  BY <3>1 DEF Requests, MInv, Messages
  <2>2. QED  BY <1>4, <1>5, <1>6, <2>1
<1>15. \A i \in Live : wire[i].tag \in Tag /\ wire[i].tag # t /\ wire[i].tag \notin FreeTags
  <2>1. ASSUME NEW i \in Live PROVE wire[i].tag \in Tag /\ wire[i].tag # t /\ wire[i].tag \notin FreeTags
    <3>1. wire[i] \in Replies
        BY DEF TypeOK, Live
    <3>2. QED  BY <3>1 DEF Replies, MInv, Messages
  <2>2. QED  BY <2>1
<1>16. conn = "up" => Good(p) /\ Sound(p)
    BY <1>1 DEF MInv, Good, Failing, c
<1>17. conn = "up" /\ pc[p] = "write" =>
           c \in Queued /\ (\A m \in srv : m.tag # c) /\ (\A i \in Live : wire[i].tag # c)
    BY <1>16 DEF Sound, Unsent, InQueue, c
<1>18. Chains'
  <2>1. \A u \in Tag : oldtag'[u] = Nil <=> flushed'[u] = Nil
      BY <1>3, <1>4, <1>10, <1>11 DEF MInv, Chains
  <2>2. \A u \in Tag : flushed'[u] # Nil => oldtag'[u] = Base(flushed[u])'
    <3>1. SUFFICES ASSUME NEW u \in Tag, flushed'[u] # Nil
                   PROVE  oldtag'[u] = Base(flushed[u])'
        OBVIOUS
    <3>2. CASE u = t
      <4>1. c # t /\ oldtag'[c] = oldtag[c]
          BY <1>4, <1>10
      <4>2. QED  BY <1>10, <1>11, <3>2, <4>1 DEF Base, b, c
    <3>3. CASE u # t
      <4>1. flushed[u] \in Tag /\ flushed[u] # t /\ oldtag[u] = Base(flushed[u])
          BY <1>11, <3>1, <3>3 DEF TypeOK, Owned, MInv, Chains
      <4>2. QED  BY <1>10, <1>11, <3>3, <4>1 DEF Base
    <3>4. QED  BY <3>2, <3>3
  <2>3. \A q \in Proc : cur'[q] # Nil => Base(cur[q])' \notin FreeTags' /\ oldtag[Base(cur[q])]' = Nil
    <3>1. SUFFICES ASSUME NEW q \in Proc, cur'[q] # Nil
                   PROVE  Base(cur[q])' \notin FreeTags' /\ oldtag'[Base(cur[q])'] = Nil
        OBVIOUS
    <3>2. CASE q = p  BY <1>2, <1>4, <1>10, <1>13, <3>2
    <3>3. CASE q # p
      <4>1. /\ cur[q] # Nil /\ Base(cur[q]) \in Tag /\ Base(cur[q]) \notin FreeTags
            /\ oldtag[Base(cur[q])] = Nil
          BY <1>7, <3>1, <3>3, Distinct DEF MInv
      <4>2. QED  BY <1>2, <1>10, <1>13, <3>3, <4>1
    <3>4. QED  BY <3>2, <3>3
  <2>4. \A q, r \in Proc : cur'[q] # Nil /\ cur'[r] # Nil /\ Base(cur[q])' = Base(cur[r])' => q = r
      BY <1>4, <1>7, <1>13 DEF MInv, Chains
  <2>5. \A q \in Proc : pc'[q] = "return" => flushed'[cur'[q]] = Nil
    <3>1. SUFFICES ASSUME NEW q \in Proc, pc'[q] = "return" PROVE flushed'[cur'[q]] = Nil
        OBVIOUS
    <3>2. q # p /\ pc[q] = "return" /\ cur[q] # Nil
        BY <1>8, <3>1 DEF Owned
    <3>3. QED  BY <1>7, <1>11, <1>13, <3>2 DEF MInv, Chains
  <2>6. QED  BY <2>1, <2>2, <2>3, <2>4, <2>5 DEF Chains
<1>19. Failing' /\ Replied'
  <2>1. Failing'
      BY <1>0, <1>6 DEF MInv, Failing
  <2>2. Replied'
      BY <1>0, <1>2, <1>9 DEF MInv, Replied
  <2>3. QED  BY <2>1, <2>2
<1>20. Messages'
  <2>1. \A m \in srv' : m.live /\ m.tag \notin FreeTags' /\ m.old = oldtag'[m.tag]
      BY <1>2, <1>5, <1>6, <1>10, <1>14 DEF MInv, Messages
  <2>2. \A i \in Live : /\ wire[i].tag \notin FreeTags'
                        /\ wire[i].type = IF oldtag'[wire[i].tag] = Nil THEN "R" ELSE "Rflush"
      BY <1>2, <1>10, <1>15 DEF MInv, Messages
  <2>3. \A m, o \in srv' : m.tag = o.tag => m = o
      BY <1>5, <1>6, <1>17 DEF MInv, Messages
  <2>4. \A m \in srv', i \in Live : m.tag # wire[i].tag
      BY <1>5, <1>6, <1>17 DEF MInv, Messages
  <2>5. QED  BY <1>9, <2>1, <2>2, <2>3, <2>4 DEF MInv, Messages
<1>21. Owners'
  <2>1. SUFFICES ASSUME conn = "up"
                 PROVE  /\ \A m \in srv' : \E q \in Proc : cur'[q] # Nil /\ Base(cur[q])' = Base(m.tag)'
                        /\ \A i \in Live : \E q \in Proc : cur'[q] # Nil /\ Base(cur[q])' = Base(wire[i].tag)'
      BY <1>0, <1>9 DEF Owners
  <2>2. ASSUME NEW u \in Tag, u # t, \E q \in Proc : cur[q] # Nil /\ Base(cur[q]) = Base(u)
        PROVE  \E q \in Proc : cur'[q] # Nil /\ Base(cur[q])' = Base(u)'
    <3>1. PICK q \in Proc : cur[q] # Nil /\ Base(cur[q]) = Base(u)
        BY <2>2
    <3>2. Base(u)' = Base(u)
        BY <1>12, <2>2
    <3>3. cur'[q] # Nil /\ Base(cur[q])' = Base(cur[q])
        BY <1>3, <1>7, <1>13, <3>1 DEF b
    <3>4. QED  BY <3>1, <3>2, <3>3
  <2>3. \A m \in srv' : \E q \in Proc : cur[q] # Nil /\ Base(cur[q]) = Base(m.tag)
      BY <1>1, <1>5, <1>6, <2>1 DEF MInv, Owners, c
  <2>4. \A i \in Live : \E q \in Proc : cur[q] # Nil /\ Base(cur[q]) = Base(wire[i].tag)
      BY <2>1 DEF MInv, Owners
  <2>5. \A m \in srv' : \E q \in Proc : cur'[q] # Nil /\ Base(cur[q])' = Base(m.tag)'
      BY <1>14, <2>2, <2>3
  <2>6. \A i \in Live : \E q \in Proc : cur'[q] # Nil /\ Base(cur[q])' = Base(wire[i].tag)'
      BY <1>15, <2>2, <2>4
  <2>7. QED  BY <2>5, <2>6
<1>22. (\A m \in srv' : Base(m.tag)' = Base(m.tag)) /\ (\A i \in Live : Base(wire[i].tag)' = Base(wire[i].tag))
  <2>1. \A m \in srv' : oldtag'[m.tag] = oldtag[m.tag]
      BY <1>10, <1>14
  <2>2. \A i \in Live : oldtag'[wire[i].tag] = oldtag[wire[i].tag]
      BY <1>10, <1>15
  <2>3. QED  BY <2>1, <2>2 DEF Base
<1>23. ASSUME Good(p)' PROVE Sound(p)'
  <2>1. conn = "up" /\ conn' = "up" /\ Sound(p)
      BY <1>0, <1>8, <1>16, <1>23 DEF Good
  <2>2. nflush'[p] = nflush[p] + 1 /\ nflush[p] \in Nat
      BY <1>0 DEF TypeOK
  <2>3. Numbered(p)'
    <3>1. SUFFICES ASSUME NEW m \in srv', Base(m.tag)' = Base(cur[p])'
                   PROVE  m.nth <= nflush'[p] /\ (m.nth = nflush'[p] <=> m.tag = cur'[p])
        BY DEF Numbered
    <3>2. m.nth <= nflush[p] /\ m.nth \in Nat
      <4>1. CASE m = n  BY <1>5, <2>2, <4>1
      <4>2. CASE m \in srv
        <5>1. m \in Requests
            BY <4>2 DEF TypeOK
        <5>2. m.nth \in Nat
            BY <5>1 DEF Requests
        <5>3. Base(m.tag) = b
            BY <1>13, <1>22, <3>1
        <5>4. QED  BY <2>1, <4>2, <5>2, <5>3 DEF Sound, Numbered, b
      <4>3. QED  BY <1>6, <4>1, <4>2
    <3>3. m.tag # cur'[p]
        BY <1>7, <1>14
    <3>4. QED  BY <2>2, <3>2, <3>3
  <2>4. LastOne(p)' /\ Single(p)'
      BY <1>4, <1>7, <1>9, <1>10, <1>15 DEF LastOne, Single
  <2>5. Unsent(p)'
      BY <1>0, <1>3, <1>7, <1>9, <1>14, <1>15 DEF Unsent
  <2>6. Settled(p)' /\ NotStale(p)'
      BY <1>0, <1>3, <1>7, <1>8, <2>1 DEF Settled, NotStale, Leaving, MInv, Failing
  <2>7. Answered(p)'
    <3>1. /\ b \in executed => \/ done[b] /\ reply[b] = "R"
                               \/ \E i \in Live : wire[i].tag = b
          /\ done[b] => reply[b] \in {"R", "Rflush"}
          /\ \A m \in srv : m.tag = b => b \in Queued
          /\ \A i \in Live : wire[i].tag = b => b \in Queued
        BY <2>1 DEF Sound, Answered, Lost, b
    <3>2. \A m \in srv' : m.tag = b => b \in Queued
        BY <1>5, <1>6, <1>17, <3>1
    <3>3. QED  BY <1>0, <1>8, <1>9, <1>13, <3>1, <3>2 DEF Answered
  <2>8. QED  BY <2>3, <2>4, <2>5, <2>6, <2>7 DEF Sound
<1>24. ASSUME NEW q \in Proc, q # p, Good(q)' PROVE Sound(q)'
  <2>1. Good(q) /\ Sound(q) /\ cur[q] # Nil /\ cur'[q] = cur[q] /\ Base(cur[q])' = Base(cur[q])
      BY <1>0, <1>7, <1>8, <1>13, <1>24 DEF Good, MInv
  <2>2. /\ pc'[q] \in {"enqueue", "write"} <=> pc[q] \in {"enqueue", "write"}
        /\ pc'[q] \in Leaving <=> pc[q] \in Leaving
        /\ pc'[q] = "qrm" <=> pc[q] = "qrm"
      BY <1>8, <1>24 DEF Leaving
  <2>3. Base(n.tag) # Base(cur[q]) /\ n.tag # cur[q] /\ n.tag # Base(cur[q])
        /\ Base(n.tag) # cur[q]
      BY <1>4, <1>5, <1>24, <2>1 DEF b, c
  <2>4. nflush'[q] = nflush[q] /\ oldtag'[cur[q]] = oldtag[cur[q]]
      BY <1>0, <1>10, <1>13, <1>24, <2>1 DEF TypeOK
  <2>5. Numbered(q)'
      BY <1>6, <1>22, <2>1, <2>3, <2>4 DEF Sound, Numbered
  <2>6. LastOne(q)'
      BY <1>6, <1>9, <1>22, <2>1, <2>3 DEF Sound, LastOne
  <2>7. Single(q)'
      BY <1>6, <1>22, <2>1, <2>2, <2>3, <2>4 DEF Sound, Single
  <2>8. Unsent(q)'
      BY <1>0, <1>6, <1>9, <2>1, <2>2, <2>3 DEF Sound, Unsent
  <2>9. Settled(q)'
      BY <1>0, <1>6, <1>9, <1>22, <2>1, <2>2, <2>3 DEF Sound, Settled
  <2>10. NotStale(q)'
      BY <2>1, <2>2 DEF Sound, NotStale
  <2>11. Lost(q) => Lost(q)'
      BY <1>0, <1>9, <2>1, <2>2 DEF Lost
  <2>12. Answered(q)'
      BY <1>0, <1>6, <1>9, <2>1, <2>2, <2>3, <2>4, <2>11 DEF Sound, Answered
  <2>13. QED  BY <2>5, <2>6, <2>7, <2>8, <2>9, <2>10, <2>12 DEF Sound
<1>25. QED  BY <1>18, <1>19, <1>20, <1>21, <1>23, <1>24 DEF MInv

\* mountmux(): the reply that is taken off the connection is its request's.
LEMMA mountmuxKeeps ==
    ASSUME IInv, MInv, NEW p \in Proc, mountmux(p)
    PROVE  MInv'
<1> DEFINE m == Head(wire)
           q == m.tag
           known == q \in ToSet(queue)
<1>0. /\ pc[p] = "read" /\ wire # << >> /\ wire' = Tail(wire)
      /\ queue' = Unlink(queue, q)
      /\ reply' = IF known THEN [reply EXCEPT ![q] = IF m.live THEN m.type ELSE "stale"]
                           ELSE reply
      /\ done' = IF known THEN [done EXCEPT ![q] = TRUE] ELSE done
      /\ pc' = pc \/ pc' = [pc EXCEPT ![p] = "wakeup"]
      /\ UNCHANGED <<rip, alloc, flushed, oldtag, cur, hard, noted, nflush, conn, srv,
                     executed>>
    BY DEF mountmux, Reading
<1>1. /\ wire \in Seq(Replies) /\ Len(wire) \in Nat /\ 1 \in 1 .. Len(wire) /\ m = wire[1]
      /\ Len(wire') = Len(wire) - 1
      /\ \A i \in 1 .. Len(wire') : i + 1 \in 1 .. Len(wire) /\ wire'[i] = wire[i + 1] /\ i \in Nat
    BY <1>0 DEF TypeOK
<1>2. q \in Tag /\ m.type \in {"R", "Rflush"}
  <2>1. m \in Replies
      BY <1>1
  <2>2. QED  BY <2>1 DEF Replies
<1> HIDE DEF m
<1>3. Queued' = Queued \ {q} /\ (known <=> q \in Queued) /\ FreeTags' = FreeTags
    BY <1>0, UnlinkIs DEF Queued, TypeOK, InQueue, FreeTags
<1> HIDE DEF known
<1>4. /\ \A i \in Live' : i \in Nat /\ i + 1 \in Live /\ i + 1 # 1 /\ wire'[i] = wire[i + 1]
      /\ \A j \in Live : j # 1 => j - 1 \in Live' /\ wire'[j - 1] = wire[j]
  <2>1. \A i \in Live' : i \in Nat /\ i + 1 \in Live /\ i + 1 # 1 /\ wire'[i] = wire[i + 1]
      BY <1>1 DEF Live
  <2>2. ASSUME NEW j \in Live, j # 1 PROVE j - 1 \in Live' /\ wire'[j - 1] = wire[j]
    <3>1. j \in 1 .. Len(wire) /\ j - 1 \in 1 .. Len(wire') /\ j - 1 + 1 = j
        BY <1>1, <2>2 DEF Live
    <3>2. wire'[j - 1] = wire[j]
        BY <1>1, <3>1
    <3>3. QED  BY <3>1, <3>2 DEF Live
  <2>3. QED  BY <2>1, <2>2
<1>5. m.live <=> 1 \in Live
    BY <1>1 DEF Live
<1>6. \A u \in Tag : done'[u] <=> done[u] \/ (known /\ u = q)
    BY <1>0, <1>2 DEF TypeOK
<1>7. /\ \A u \in Tag : ~(known /\ u = q) => reply'[u] = reply[u]
      /\ known => reply'[q] = IF m.live THEN m.type ELSE "stale"
    BY <1>0, <1>2 DEF TypeOK
<1>8. \A o \in Proc : pc'[o] = pc[o] \/ (pc[o] = "read" /\ pc'[o] = "wakeup")
    BY <1>0 DEF TypeOK
<1>9. \A u : Base(u)' = Base(u)
    BY <1>0 DEF Base
<1>10. Chains'
    BY <1>0, <1>3, <1>8 DEF MInv, Chains, Base
<1>11. Failing'
    BY <1>0, <1>1 DEF MInv, Failing
<1>12. Messages'
  <2>1. \A i, j \in Live' : wire'[i].tag = wire'[j].tag => i = j
    <3>1. SUFFICES ASSUME NEW i \in Live', NEW j \in Live', wire'[i].tag = wire'[j].tag PROVE i = j
        OBVIOUS
    <3>2. i + 1 = j + 1
        BY <1>4, <3>1 DEF MInv, Messages
    <3>3. QED  BY <1>4, <3>2
  <2>2. ASSUME NEW i \in Live'
        PROVE  /\ wire'[i].tag \notin FreeTags'
               /\ wire'[i].type = IF oldtag'[wire'[i].tag] = Nil THEN "R" ELSE "Rflush"
               /\ \A x \in srv' : x.tag # wire'[i].tag
    <3>1. i + 1 \in Live /\ wire'[i] = wire[i + 1]
        BY <1>4, <2>2
    <3>2. oldtag' = oldtag /\ srv' = srv
        BY <1>0
    <3>3. /\ wire[i + 1].tag \notin FreeTags
          /\ wire[i + 1].type = IF oldtag[wire[i + 1].tag] = Nil THEN "R" ELSE "Rflush"
          /\ \A x \in srv : x.tag # wire[i + 1].tag
        BY <3>1 DEF MInv, Messages
    <3>4. QED  BY <1>3, <3>1, <3>2, <3>3, Zenon
  <2>3. (\A x \in srv' : x.live /\ x.tag \notin FreeTags' /\ x.old = oldtag'[x.tag])
        /\ (\A x, y \in srv' : x.tag = y.tag => x = y)
      BY <1>0, <1>3 DEF MInv, Messages
  <2>4. QED  BY <2>1, <2>2, <2>3 DEF Messages
<1>13. Owners'
  <2>1. SUFFICES ASSUME conn = "up"
                 PROVE  /\ \A x \in srv : \E o \in Proc : cur[o] # Nil /\ Base(cur[o]) = Base(x.tag)
                        /\ \A i \in Live' : \E o \in Proc : cur[o] # Nil /\ Base(cur[o]) = Base(wire'[i].tag)
      BY <1>0 DEF Owners, Base
  <2>2. ASSUME NEW i \in Live'
        PROVE  \E o \in Proc : cur[o] # Nil /\ Base(cur[o]) = Base(wire'[i].tag)
    <3>1. i + 1 \in Live /\ wire'[i] = wire[i + 1]
        BY <1>4, <2>2
    <3>2. QED  BY <2>1, <3>1 DEF MInv, Owners
  <2>3. QED  BY <2>1, <2>2 DEF MInv, Owners
<1>14. Replied'
  <2>1. \A u \in Tag : reply'[u] = "R" => u \in executed
    <3>1. SUFFICES ASSUME NEW u \in Tag, reply'[u] = "R" PROVE u \in executed
        OBVIOUS
    <3>2. CASE known /\ u = q
        BY <1>1, <1>5, <1>7, <3>1, <3>2 DEF MInv, Replied
    <3>3. CASE ~(known /\ u = q)
        BY <1>7, <3>1, <3>3 DEF MInv, Replied
    <3>4. QED  BY <3>2, <3>3
  <2>2. ASSUME NEW i \in Live', wire'[i].type = "R" PROVE wire'[i].tag \in executed
    <3>1. i + 1 \in Live /\ wire'[i] = wire[i + 1]
        BY <1>4, <2>2
    <3>2. QED  BY <2>2, <3>1 DEF MInv, Replied
  <2>3. QED  BY <1>0, <1>3, <2>1, <2>2 DEF MInv, Replied
<1>15. SUFFICES ASSUME NEW o \in Proc, Good(o)' PROVE Sound(o)'
    BY <1>10, <1>11, <1>12, <1>13, <1>14 DEF MInv
<1> DEFINE c == cur[o]
           b == Base(cur[o])
<1>16. /\ Good(o) /\ Sound(o) /\ c # Nil /\ cur'[o] = c /\ Base(cur[o])' = b
       /\ pc'[o] \in {"enqueue", "write"} <=> pc[o] \in {"enqueue", "write"}
       /\ pc'[o] \in Leaving <=> pc[o] \in Leaving
       /\ pc'[o] = "qrm" <=> pc[o] = "qrm"
    BY <1>0, <1>8, <1>15 DEF Good, MInv, Leaving, Base
<1>17. c \in Tag /\ b \in Tag /\ oldtag[b] = Nil /\ (oldtag[c] = Nil => b = c)
    BY <1>16, Distinct DEF MInv, Base
<1>18. q = b => 1 \in Live
    BY <1>1, <1>5, <1>16 DEF Sound, NotStale
<1>19. q = c /\ pc[o] \notin Leaving => 1 \in Live
    BY <1>1, <1>5, <1>16 DEF Sound, NotStale
<1>20. Numbered(o)' /\ Single(o)'
    BY <1>0, <1>9, <1>16 DEF Sound, Numbered, Single
<1>21. LastOne(o)'
  <2>1. SUFFICES ASSUME NEW i \in Live', wire'[i].tag = c
                 PROVE  /\ \A x \in srv : Base(x.tag) # b
                        /\ \A j \in Live' : j > i => Base(wire'[j].tag) # b
      BY <1>0, <1>9, <1>16 DEF LastOne
  <2>2. i + 1 \in Live /\ wire[i + 1].tag = c
      BY <1>4, <2>1
  <2>3. \A x \in srv : Base(x.tag) # b
      BY <1>16, <2>2 DEF Sound, LastOne
  <2>4. ASSUME NEW j \in Live', j > i PROVE Base(wire'[j].tag) # b
    <3>1. j + 1 \in Live /\ j + 1 > i + 1 /\ wire'[j] = wire[j + 1]
        BY <1>4, <2>4
    <3>2. QED  BY <1>16, <2>2, <3>1 DEF Sound, LastOne
  <2>5. QED  BY <2>3, <2>4
<1>22. Unsent(o)'
  <2>1. SUFFICES ASSUME pc[o] \in {"enqueue", "write"}
                 PROVE  /\ ~done'[c]
                        /\ \A x \in srv : x.tag # c
                        /\ \A i \in Live' : wire'[i].tag # c
      BY <1>0, <1>16 DEF Unsent
  <2>2. ~done[c] /\ (\A x \in srv : x.tag # c) /\ (\A i \in Live : wire[i].tag # c)
      BY <1>16, <2>1 DEF Sound, Unsent
  <2>3. q # c
      BY <1>1, <1>19, <2>1, <2>2 DEF Leaving
  <2>4. QED  BY <1>4, <1>6, <1>17, <2>2, <2>3
<1>23. Settled(o)'
  <2>1. SUFFICES ASSUME done'[c] \/ pc[o] \in Leaving
                 PROVE  /\ \A x \in srv : Base(x.tag) # b
                        /\ \A i \in Live' : Base(wire'[i].tag) # b
      BY <1>0, <1>9, <1>16 DEF Settled
  <2>2. CASE done[c] \/ pc[o] \in Leaving
      BY <1>4, <1>16, <2>2 DEF Sound, Settled
  <2>3. CASE q = c /\ pc[o] \notin Leaving
    <3>1. 1 \in Live /\ wire[1].tag = c
        BY <1>1, <1>19, <2>3
    <3>2. \A j \in Live' : j + 1 > 1 /\ j + 1 \in Live
        BY <1>4
    <3>3. QED  BY <1>4, <1>16, <3>1, <3>2 DEF Sound, LastOne
  <2>4. QED  BY <1>6, <1>17, <2>1, <2>2, <2>3
<1>24. NotStale(o)'
    BY <1>1, <1>16 DEF Sound, NotStale
<1>25. Lost(o) => Lost(o)'
  <2>1. SUFFICES ASSUME Lost(o) PROVE Lost(o)'
      OBVIOUS
  <2>2. q # c
      BY <1>1, <1>19, <2>1 DEF Lost
  <2>3. ~done'[c]
      BY <1>6, <1>17, <2>1, <2>2 DEF Lost
  <2>4. QED  BY <1>0, <1>4, <1>16, <2>1, <2>3 DEF Lost
<1>26. Answered(o)'
  <2>1. b \in executed => \/ done'[b] /\ reply'[b] = "R"
                          \/ \E i \in Live' : wire'[i].tag = b
                          \/ Lost(o)'
    <3>1. SUFFICES ASSUME b \in executed, ~Lost(o)'
                   PROVE  \/ done'[b] /\ reply'[b] = "R"
                          \/ \E i \in Live' : wire'[i].tag = b
        OBVIOUS
    <3>2. CASE done[b] /\ reply[b] = "R"
      <4>1. b \notin Queued
          BY <3>2 DEF InQueue
      <4>2. QED  BY <1>3, <1>6, <1>7, <1>17, <3>2, <4>1
    <3>3. CASE 1 \in Live /\ q = b
      <4>1. known
          BY <1>1, <1>3, <1>16, <3>3 DEF Sound, Answered
      <4>2. m.type = "R"
          BY <1>1, <1>17, <3>3 DEF MInv, Messages
      <4>3. QED  BY <1>5, <1>6, <1>7, <1>17, <3>3, <4>1, <4>2
    <3>4. CASE \E i \in Live : i # 1 /\ wire[i].tag = b
      <4>1. PICK i \in Live : i # 1 /\ wire[i].tag = b
          BY <3>4
      <4>2. i - 1 \in Live' /\ wire'[i - 1].tag = b
          BY <1>4, <4>1
      <4>3. QED  BY <4>2
    <3>5. QED  BY <1>1, <1>16, <1>25, <3>1, <3>2, <3>3, <3>4 DEF Sound, Answered
  <2>2. done'[b] => reply'[b] \in {"R", "Rflush"}
    <3>1. CASE known /\ q = b
        BY <1>2, <1>5, <1>7, <1>18, <3>1
    <3>2. CASE ~(known /\ q = b)
        BY <1>6, <1>7, <1>16, <1>17, <3>2 DEF Sound, Answered
    <3>3. QED  BY <3>1, <3>2
  <2>3. \A x \in srv : x.tag = b => b \in Queued'
      BY <1>1, <1>3, <1>16, <1>18 DEF Sound, Answered, MInv, Messages
  <2>4. \A i \in Live' : wire'[i].tag = b => b \in Queued'
    <3>1. SUFFICES ASSUME NEW i \in Live', wire'[i].tag = b PROVE b \in Queued'
        OBVIOUS
    <3>2. i + 1 \in Live /\ i + 1 # 1 /\ wire[i + 1].tag = b
        BY <1>4, <3>1
    <3>3. b \in Queued
        BY <1>16, <3>2 DEF Sound, Answered
    <3>4. q # b
        BY <1>1, <1>18, <3>2 DEF MInv, Messages
    <3>5. QED  BY <1>3, <3>3, <3>4
  <2>5. pc'[o] = "qrm" /\ oldtag'[c] = Nil => reply'[c] = "Rflush"
    <3>1. SUFFICES ASSUME pc[o] = "qrm", oldtag[c] = Nil PROVE reply'[c] = "Rflush"
        BY <1>0, <1>16
    <3>2. b = c /\ reply[c] = "Rflush"
        BY <1>16, <1>17, <3>1 DEF Sound, Answered
    <3>3. q # c
      <4>1. SUFFICES ASSUME q = c PROVE FALSE
          OBVIOUS
      <4>2. 1 \in Live /\ wire[1].tag = b
          BY <1>1, <1>18, <3>2, <4>1
      <4>3. Base(wire[1].tag) # b
          BY <1>16, <3>1, <4>2 DEF Sound, Settled, Leaving
      <4>4. QED  BY <1>17, <4>2, <4>3 DEF Base
    <3>4. QED  BY <1>7, <1>17, <3>2, <3>3
  <2>6. QED  BY <1>0, <1>16, <2>1, <2>2, <2>3, <2>4, <2>5 DEF Answered
<1>27. QED  BY <1>20, <1>21, <1>22, <1>23, <1>24, <1>26 DEF Sound

\* The server answers a request, and with a flush all that came before it.
LEMMA AnswerKeeps ==
    ASSUME IInv, MInv, NEW m \in srv, Answer(m)
    PROVE  MInv'
<1> DEFINE r == Reply(m)
           L == Len(wire) + 1
           related(x) == m.old # Nil /\ m.old \in {x.tag, x.old} /\ x.nth < m.nth
<1>0. /\ srv' = {x \in srv : x # m /\ ~related(x)} /\ wire' = Append(wire, r)
      /\ executed' = IF m.live /\ m.old = Nil THEN executed \union {m.tag} ELSE executed
      /\ UNCHANGED <<queue, rip, mlock, alloc, heads, cur, woken, hard, noted, pc, nflush, conn>>
    BY DEF Answer
<1>1. conn = "up" /\ m.live /\ m.tag \notin FreeTags /\ m.old = oldtag[m.tag]
    BY DEF MInv, Failing, Messages, TypeOK
<1>2. m.tag \in Tag /\ m.nth \in Nat /\ \A x \in srv : x.tag \in Tag /\ x.nth \in Nat
    BY DEF TypeOK, Requests
<1>3. r.tag = m.tag /\ r.live /\ r.type = IF m.old = Nil THEN "R" ELSE "Rflush"
    BY <1>1 DEF Reply
<1>4. srv' \subseteq srv /\ m \notin srv' /\ \A x \in srv' : ~related(x)
    BY <1>0
<1> HIDE DEF r
<1>5. /\ wire \in Seq(Replies) /\ Len(wire) \in Nat /\ Len(wire') = L
      /\ wire'[L] = r /\ \A i \in 1 .. Len(wire) : wire'[i] = wire[i] /\ i < L
    BY <1>0 DEF TypeOK
<1>6. /\ Live' = Live \union {L} /\ wire'[L] = r
      /\ \A i \in Live : wire'[i] = wire[i] /\ i < L /\ i \in Nat
    BY <1>3, <1>5 DEF Live
<1>7. L \in Nat /\ L \notin Live
    BY <1>5 DEF Live
<1> HIDE DEF L
<1>8. FreeTags' = FreeTags /\ Queued' = Queued /\ oldtag' = oldtag /\ cur' = cur
    BY <1>0 DEF FreeTags, Queued
<1>9. \A u : Base(u)' = Base(u)
    BY <1>8 DEF Base
<1>10. executed \subseteq executed' /\ \A u \in executed' : u \in executed \/ (u = m.tag /\ m.old = Nil)
    BY <1>0
<1>11. Chains'
    BY <1>0, <1>8 DEF MInv, Chains, Base
<1>12. Failing'
  <2>1. \A i \in 1 .. Len(wire') : wire'[i].live
    <3>1. SUFFICES ASSUME NEW i \in 1 .. Len(wire') PROVE wire'[i].live
        OBVIOUS
    <3>2. CASE i = L  BY <1>3, <1>5, <3>2
    <3>3. CASE i # L
      <4>1. i \in 1 .. Len(wire)
          BY <1>5, <3>1, <3>3 DEF L
      <4>2. QED  BY <1>1, <1>5, <4>1 DEF MInv, Failing
    <3>4. QED  BY <3>2, <3>3
  <2>2. QED  BY <1>0, <1>1, <2>1 DEF MInv, Failing
<1>13. Messages'
  <2>1. \A x \in srv' : x.live /\ x.tag \notin FreeTags' /\ x.old = oldtag'[x.tag]
      BY <1>4, <1>8 DEF MInv, Messages
  <2>2. ASSUME NEW i \in Live'
        PROVE  /\ wire'[i].tag \notin FreeTags
               /\ wire'[i].type = IF oldtag[wire'[i].tag] = Nil THEN "R" ELSE "Rflush"
    <3>1. CASE i = L  BY <1>1, <1>3, <1>6, <3>1
    <3>2. CASE i \in Live  BY <1>6, <3>2 DEF MInv, Messages
    <3>3. QED  BY <1>6, <3>1, <3>2
  <2>3. \A x, y \in srv' : x.tag = y.tag => x = y
      BY <1>4 DEF MInv, Messages
  <2>4. ASSUME NEW x \in srv', NEW i \in Live' PROVE x.tag # wire'[i].tag
      BY <1>3, <1>4, <1>6 DEF MInv, Messages
  <2>5. ASSUME NEW i \in Live', NEW j \in Live', wire'[i].tag = wire'[j].tag PROVE i = j
      BY <1>3, <1>6, <2>5 DEF MInv, Messages
  <2>6. QED  BY <1>8, <2>1, <2>2, <2>3, <2>4, <2>5 DEF Messages
<1>14. Owners'
  <2>1. ASSUME NEW x \in srv'
        PROVE  \E o \in Proc : cur'[o] # Nil /\ Base(cur[o])' = Base(x.tag)'
      BY <1>1, <1>4, <1>8 DEF MInv, Owners, Base
  <2>2. ASSUME NEW i \in Live'
        PROVE  \E o \in Proc : cur'[o] # Nil /\ Base(cur[o])' = Base(wire[i].tag)'
    <3>1. wire'[i].tag = m.tag \/ (i \in Live /\ wire'[i] = wire[i])
        BY <1>3, <1>6
    <3>2. PICK o \in Proc : cur[o] # Nil /\ Base(cur[o]) = Base(wire'[i].tag)
        BY <1>1, <3>1 DEF MInv, Owners
    <3>3. QED  BY <1>8, <3>2 DEF Base
  <2>3. QED  BY <2>1, <2>2 DEF Owners
<1>15. Replied'
  <2>1. ASSUME NEW i \in Live', wire'[i].type = "R" PROVE wire'[i].tag \in executed'
    <3>1. CASE i = L  BY <1>0, <1>1, <1>3, <1>6, <2>1, <3>1
    <3>2. CASE i \in Live  BY <1>6, <1>10, <2>1, <3>2 DEF MInv, Replied
    <3>3. QED  BY <1>6, <3>1, <3>2
  <2>2. \A u \in Tag : reply'[u] = "R" => u \in executed'
      BY <1>0, <1>10 DEF MInv, Replied
  <2>3. \A u \in FreeTags' : u \notin executed'
      BY <1>1, <1>8, <1>10 DEF MInv, Replied
  <2>4. QED  BY <2>1, <2>2, <2>3 DEF Replied
<1>16. SUFFICES ASSUME NEW o \in Proc, Good(o)' PROVE Sound(o)'
    BY <1>11, <1>12, <1>13, <1>14, <1>15 DEF MInv
<1> DEFINE c == cur[o]
           b == Base(cur[o])
<1>17. Good(o) /\ Sound(o) /\ c # Nil /\ cur'[o] = c /\ Base(cur[o])' = b
    BY <1>0, <1>16 DEF Good, MInv, Base
<1>18. b = (IF oldtag[c] = Nil THEN c ELSE oldtag[c])
    BY DEF Base
<1>19. Numbered(o)' /\ Single(o)'
    BY <1>0, <1>4, <1>9, <1>17 DEF Sound, Numbered, Single
<1>20. LastOne(o)'
  <2>1. SUFFICES ASSUME NEW i \in Live', wire'[i].tag = c
                 PROVE  /\ \A x \in srv' : Base(x.tag) # b
                        /\ \A j \in Live' : j > i => Base(wire'[j].tag) # b
      BY <1>9, <1>17 DEF LastOne
  <2>2. CASE i \in Live
    <3>1. wire[i].tag = c
        BY <1>6, <2>1, <2>2
    <3>2. Base(m.tag) # b /\ \A x \in srv' : Base(x.tag) # b
        BY <1>4, <1>17, <2>2, <3>1 DEF Sound, LastOne
    <3>3. ASSUME NEW j \in Live', j > i PROVE Base(wire'[j].tag) # b
        BY <1>3, <1>6, <1>17, <2>2, <3>1, <3>2, <3>3 DEF Sound, LastOne
    <3>4. QED  BY <3>2, <3>3
  <2>3. CASE i = L
    <3>1. m.tag = c
        BY <1>3, <1>6, <2>1, <2>3
    <3>2. \A j \in Live' : ~(j > i)
        BY <1>6, <1>7, <2>3
    <3>3. ASSUME NEW x \in srv', Base(x.tag) = b PROVE FALSE
      <4>1. x \in srv /\ x # m /\ x.tag # c
          BY <1>4, <3>1, <3>3 DEF MInv, Messages
      <4>2. CASE oldtag[c] = Nil
        <5>1. pc[o] \notin Leaving
            BY <1>17, <3>1 DEF Sound, Settled
        <5>2. QED  BY <1>17, <1>18, <3>3, <4>1, <4>2, <5>1 DEF Sound, Single
      <4>3. CASE oldtag[c] # Nil
        <5>1. m.old = b /\ m.old # Nil
            BY <1>1, <1>18, <3>1, <4>3
        <5>2. b \in {x.tag, x.old}
            BY <3>3, <4>1 DEF Base, MInv, Messages
        <5>3. x.nth < m.nth
          <6>1. x.nth <= nflush[o] /\ x.nth # nflush[o] /\ m.nth = nflush[o] /\ nflush[o] \in Nat
              BY <1>17, <3>1, <3>3, <4>1 DEF Sound, Numbered, TypeOK
          <6>2. QED  BY <1>2, <4>1, <6>1
        <5>4. QED  BY <1>4, <5>1, <5>2, <5>3
      <4>4. QED  BY <4>2, <4>3
    <3>4. QED  BY <3>2, <3>3
  <2>4. QED  BY <1>6, <2>1, <2>2, <2>3
<1>21. Unsent(o)'
  <2>1. SUFFICES ASSUME pc[o] \in {"enqueue", "write"}
                 PROVE  ~done[c] /\ (\A x \in srv' : x.tag # c) /\ (\A i \in Live' : wire'[i].tag # c)
      BY <1>0, <1>17 DEF Unsent
  <2>2. ~done[c] /\ (\A x \in srv : x.tag # c) /\ (\A i \in Live : wire[i].tag # c)
      BY <1>17, <2>1 DEF Sound, Unsent
  <2>3. QED  BY <1>3, <1>4, <1>6, <2>2
<1>22. Settled(o)'
  <2>1. SUFFICES ASSUME done[c] \/ pc[o] \in Leaving
                 PROVE  /\ \A x \in srv' : Base(x.tag) # b
                        /\ \A i \in Live' : Base(wire'[i].tag) # b
      BY <1>0, <1>9, <1>17 DEF Settled
  <2>2. QED  BY <1>3, <1>4, <1>6, <1>17, <2>1 DEF Sound, Settled
<1>23. NotStale(o)'
    BY <1>0, <1>1, <1>12 DEF NotStale, Failing
<1>24. Answered(o)'
  <2>1. ASSUME b \in executed'
        PROVE  (done[b] /\ reply[b] = "R") \/ \E i \in Live' : wire'[i].tag = b
    <3>1. CASE b = m.tag  BY <1>3, <1>6, <3>1
    <3>2. CASE b \in executed
      <4>1. (done[b] /\ reply[b] = "R") \/ \E i \in Live : wire[i].tag = b
          BY <1>1, <1>17, <3>2 DEF Sound, Answered, Lost
      <4>2. QED  BY <1>6, <4>1
    <3>3. QED  BY <1>10, <2>1, <3>1, <3>2
  <2>2. ASSUME NEW i \in Live', wire'[i].tag = b PROVE b \in Queued
      BY <1>3, <1>6, <1>17, <2>2 DEF Sound, Answered
  <2>3. \A x \in srv' : x.tag = b => b \in Queued
      BY <1>4, <1>17 DEF Sound, Answered
  <2>4. done[b] => reply[b] \in {"R", "Rflush"}
      BY <1>17 DEF Sound, Answered
  <2>5. pc[o] = "qrm" /\ oldtag[c] = Nil => reply[c] = "Rflush"
      BY <1>17 DEF Sound, Answered
  <2>6. QED  BY <1>0, <1>8, <1>17, <2>1, <2>2, <2>3, <2>4, <2>5 DEF Answered
<1>25. QED  BY <1>19, <1>20, <1>21, <1>22, <1>23, <1>24 DEF Sound

\* The connection breaks.
LEMMA HangupKeeps ==
    ASSUME IInv, MInv, Hangup
    PROVE  MInv'
<1>0. /\ conn = "up" /\ conn' = "down" /\ srv' = {}
      /\ UNCHANGED <<queue, rip, mlock, alloc, heads, cur, woken, hard, noted, pc, nflush, executed>>
    BY DEF Hangup
<1>1. PICK n \in 0 .. Len(wire) : wire' = SubSeq(wire, 1, n)
    BY DEF Hangup
<1>2. /\ wire \in Seq(Replies) /\ Len(wire) \in Nat /\ Len(wire') = n
      /\ \A i \in 1 .. Len(wire') : i \in 1 .. Len(wire) /\ wire'[i] = wire[i]
    BY <1>1 DEF TypeOK
<1>3. \A i \in Live' : i \in Live /\ wire'[i] = wire[i]
    BY <1>2 DEF Live
<1>4. FreeTags' = FreeTags /\ Queued' = Queued /\ oldtag' = oldtag /\ cur' = cur
    BY <1>0 DEF FreeTags, Queued
<1>5. \A u : Base(u)' = Base(u)
    BY <1>4 DEF Base
<1>6. Chains' /\ Failing' /\ Owners'
    BY <1>0, <1>4 DEF MInv, Chains, Failing, Owners, Base
<1>7. Messages'
  <2>1. ASSUME NEW i \in Live'
        PROVE  /\ wire'[i].tag \notin FreeTags
               /\ wire'[i].type = IF oldtag[wire'[i].tag] = Nil THEN "R" ELSE "Rflush"
      BY <1>3 DEF MInv, Messages
  <2>2. ASSUME NEW i \in Live', NEW j \in Live', wire'[i].tag = wire'[j].tag PROVE i = j
      BY <1>3, <2>2 DEF MInv, Messages
  <2>3. QED  BY <1>0, <1>4, <2>1, <2>2 DEF Messages
<1>8. Replied'
    BY <1>0, <1>3, <1>4 DEF MInv, Replied
<1>9. SUFFICES ASSUME NEW o \in Proc, Good(o)' PROVE Sound(o)'
    BY <1>6, <1>7, <1>8 DEF MInv
<1> DEFINE c == cur[o]
           b == Base(cur[o])
<1>10. /\ Good(o) /\ Sound(o) /\ c # Nil /\ cur'[o] = c /\ Base(cur[o])' = b
       /\ pc[o] \notin {"enqueue", "write"}
    BY <1>0, <1>9 DEF Good, MInv, Base
<1>11. b = (IF oldtag[c] = Nil THEN c ELSE oldtag[c]) /\ Base(b) = b
    BY <1>10, Distinct DEF Base, MInv
<1>12. Numbered(o)' /\ Single(o)' /\ Unsent(o)'
    BY <1>0, <1>10 DEF Numbered, Single, Unsent
<1>13. LastOne(o)'
    BY <1>0, <1>3, <1>5, <1>10 DEF Sound, LastOne
<1>14. Settled(o)'
    BY <1>0, <1>3, <1>5, <1>10 DEF Sound, Settled
<1>15. NotStale(o)'
    BY <1>0, <1>2, <1>10 DEF Sound, NotStale
<1>16. Answered(o)'
  <2>1. ASSUME b \in executed, ~(done[b] /\ reply[b] = "R"), ~\E i \in Live' : wire'[i].tag = b
        PROVE  Lost(o)'
    <3>1. PICK i \in Live : wire[i].tag = b
        BY <1>0, <1>10, <2>1 DEF Sound, Answered, Lost
    <3>2. ~done[c] /\ pc[o] \notin Leaving
        BY <1>10, <1>11, <3>1 DEF Sound, Settled
    <3>3. \A j \in Live' : wire'[j].tag # c
      <4>1. SUFFICES ASSUME NEW j \in Live', wire'[j].tag = c PROVE FALSE
          OBVIOUS
      <4>2. j \in Live /\ wire[j].tag = c
          BY <1>3, <4>1
      <4>3. ~(i > j)
          BY <1>10, <1>11, <3>1, <4>2 DEF Sound, LastOne
      <4>4. i \in 1 .. n
          BY <1>2, <3>1, <4>1, <4>3 DEF Live
      <4>5. i \in Live' /\ wire'[i].tag = b
          BY <1>2, <3>1, <4>4 DEF Live
      <4>6. QED  BY <2>1, <4>5
    <3>4. QED  BY <1>0, <1>10, <3>2, <3>3 DEF Lost
  <2>2. \A i \in Live' : wire'[i].tag = b => b \in Queued
      BY <1>3, <1>10 DEF Sound, Answered
  <2>3. done[b] => reply[b] \in {"R", "Rflush"}
      BY <1>10 DEF Sound, Answered
  <2>4. pc[o] = "qrm" /\ oldtag[c] = Nil => reply[c] = "Rflush"
      BY <1>10 DEF Sound, Answered
  <2>5. QED  BY <1>0, <1>4, <1>10, <2>1, <2>2, <2>3, <2>4 DEF Answered
<1>17. QED  BY <1>12, <1>13, <1>14, <1>15, <1>16 DEF Sound

\* mntflushfree() marks a request without reply as flushed.
LEMMA MarkKeeps ==
    ASSUME IInv, MInv, NEW p \in Proc, pc[p] = "flushfree", ~done[cur[p]], Goto(p, "qrm"),
           reply' = [reply EXCEPT ![cur[p]] = "Rflush"],
           UNCHANGED <<alloc, done, flushed, oldtag, server, cur, queue, rip, mlock, woken,
                       hard, noted, nflush, conn>>
    PROVE  MInv'
<1>1. FreeTags' = FreeTags /\ Queued' = Queued /\ Live' = Live
    BY DEF FreeTags, Queued, Live
<1>2. cur[p] \in Tag /\ cur[p] # Nil
    BY DEF TypeOK, Owned
<1>3. pc'[p] = "qrm" /\ \A q \in Proc : q # p => pc'[q] = pc[q]
    BY DEF TypeOK
<1>4. reply'[cur[p]] = "Rflush" /\ \A u \in Tag : u # cur[p] => reply'[u] = reply[u]
    BY <1>2 DEF TypeOK
<1>5. Chains' /\ Failing' /\ Messages' /\ Owners'
    BY <1>1, <1>3 DEF MInv, Chains, Failing, Messages, Owners, Base
<1>6. Replied'
    BY <1>1, <1>4 DEF MInv, Replied
<1>7. SUFFICES ASSUME NEW q \in Proc, Good(q)' PROVE Sound(q)'
    BY <1>5, <1>6 DEF MInv
<1>8. /\ Good(q) /\ Sound(q) /\ cur[q] # Nil
      /\ pc'[q] \in Leaving <=> pc[q] \in Leaving
      /\ pc'[q] \in {"enqueue", "write"} <=> pc[q] \in {"enqueue", "write"}
    BY <1>3, <1>7 DEF Good, MInv, Leaving
<1>9. /\ cur[q] \in Tag /\ Base(cur[q]) \in Tag
      /\ q # p => Base(cur[q]) # cur[p] /\ cur[q] # cur[p]
    BY <1>2, <1>8, Distinct DEF MInv
<1>10. Numbered(q)' /\ LastOne(q)' /\ Unsent(q)'
    BY <1>1, <1>8 DEF Sound, Numbered, LastOne, Unsent, Base
<1>11. Single(q)' /\ Settled(q)' /\ NotStale(q)'
    BY <1>1, <1>8 DEF Sound, Single, Settled, NotStale, Base
<1>12. Answered(q)'
  <2>1. Lost(q) => Lost(q)'
      BY <1>1, <1>8 DEF Lost
  <2>2. done[Base(cur[q])] => reply'[Base(cur[q])] = reply[Base(cur[q])]
      BY <1>4, <1>9
  <2>3. pc'[q] = "qrm" /\ oldtag[cur[q]] = Nil => reply'[cur[q]] = "Rflush"
    <3>1. CASE q = p  BY <1>4, <3>1
    <3>2. CASE q # p  BY <1>3, <1>4, <1>8, <1>9, <3>2 DEF Sound, Answered
    <3>3. QED  BY <3>1, <3>2
  <2>4. Base(cur[q])' = Base(cur[q])
      BY DEF Base
  <2>5. QED  BY <1>1, <1>8, <2>1, <2>2, <2>3, <2>4 DEF Sound, Answered
<1>13. QED  BY <1>10, <1>11, <1>12 DEF Sound

\* mntfree(): the messages that become stale, and the other calls.
LEMMA FreeKeeps ==
    ASSUME IInv, MInv, NEW p \in Proc, pc[p] \in Leaving, cur[p] # Nil, mntfree(cur[p]),
           Queued' = Queued \ {cur[p]}, conn' = conn, hard'[p] => hard[p],
           \A q \in Proc : q # p => /\ cur'[q] = cur[q] /\ pc'[q] = pc[q]
                                    /\ nflush'[q] = nflush[q] /\ hard'[q] = hard[q]
    PROVE  /\ FreeTags' = FreeTags \union {cur[p]}
           /\ srv' = srv /\ \A m \in srv : m.tag \in Tag /\ m.tag # cur[p]
           /\ \A i \in Live' : /\ i \in Live /\ wire'[i] = wire[i]
                               /\ wire[i].tag \in Tag /\ wire[i].tag # cur[p]
           /\ \A i \in 1 .. Len(wire') : ~wire'[i].live =>
                 /\ i \in 1 .. Len(wire) /\ wire'[i].tag = wire[i].tag
                 /\ ~wire[i].live \/ wire[i].tag = cur[p]
           /\ \A u \in Tag : u # cur[p] =>
                 /\ oldtag'[u] = oldtag[u] /\ flushed'[u] = flushed[u] /\ done'[u] = done[u]
                 /\ reply'[u] = reply[u] /\ Base(u)' = Base(u)
           /\ oldtag'[cur[p]] = Nil /\ flushed'[cur[p]] = Nil
           /\ executed' = executed \ {cur[p]}
           /\ Failing' /\ Messages' /\ Replied'
           /\ \A q \in Proc : q # p /\ Good(q)' => Sound(q)'
<1> DEFINE c == cur[p]
<1>1. /\ c \in Tag /\ c \notin FreeTags
      /\ \A q \in Proc : q # p /\ cur[q] # Nil =>
            /\ cur[q] \in Tag /\ Base(cur[q]) \in Tag
            /\ cur[q] # c /\ Base(cur[q]) # c /\ Base(cur[q]) # Base(c)
    BY Distinct DEF MInv
<1>2. FreeTags' = FreeTags \union {c}
    BY <1>1, Freed
<1>3. /\ done' = [done EXCEPT ![c] = FALSE] /\ flushed' = [flushed EXCEPT ![c] = Nil]
      /\ reply' = [reply EXCEPT ![c] = "Tmax"] /\ oldtag' = [oldtag EXCEPT ![c] = Nil]
      /\ srv' = {Retired(m, c) : m \in srv} /\ executed' = executed \ {c}
    BY DEF mntfree
<1>4. /\ Len(wire') = Len(wire) /\ Len(wire) \in Nat
      /\ \A i \in 1 .. Len(wire) : wire'[i] = Retired(wire[i], c) /\ wire[i] \in Replies
    BY <1>1, FreedTypes DEF TypeOK
<1>5. \A m \in srv : m.tag \in Tag
    BY DEF TypeOK, Requests
<1>6. conn = "up" => Settled(p)
    BY DEF MInv, Failing, Good, Sound, Leaving
<1> HIDE DEF c
<1>7. \A m \in srv : m.tag # c
  <2>1. SUFFICES ASSUME NEW m \in srv PROVE m.tag # c
      OBVIOUS
  <2>2. conn = "up"
      BY <2>1 DEF MInv, Failing, TypeOK
  <2>3. QED  BY <1>6, <2>1, <2>2 DEF Settled, c
<1>8. srv' = srv
  <2>1. \A m \in srv : Retired(m, c) = m
      BY <1>7 DEF Retired
  <2>2. QED  BY <1>3, <2>1
<1>9. ASSUME NEW i \in 1 .. Len(wire)
      PROVE  /\ wire[i].tag \in Tag /\ wire[i].live \in BOOLEAN
             /\ wire'[i].tag = wire[i].tag
             /\ wire[i].tag = c => ~wire'[i].live
             /\ wire[i].tag # c => wire'[i] = wire[i]
  <2>1. wire[i] \in Replies /\ wire'[i] = Retired(wire[i], c)
      BY <1>4
  <2>2. QED  BY <2>1 DEF Replies, Retired
<1>10. ASSUME NEW i \in Live'
       PROVE  i \in Live /\ wire'[i] = wire[i] /\ wire[i].tag \in Tag /\ wire[i].tag # c
    BY <1>4, <1>9 DEF Live
<1>11. ASSUME NEW i \in Live, wire[i].tag # c PROVE i \in Live' /\ wire'[i] = wire[i]
    BY <1>4, <1>9, <1>11 DEF Live
<1>12. ASSUME NEW i \in 1 .. Len(wire'), ~wire'[i].live
       PROVE  i \in 1 .. Len(wire) /\ wire'[i].tag = wire[i].tag /\ (~wire[i].live \/ wire[i].tag = c)
    BY <1>4, <1>9, <1>12
<1>13. \A u \in Tag : u # c => /\ oldtag'[u] = oldtag[u] /\ flushed'[u] = flushed[u]
                               /\ done'[u] = done[u] /\ reply'[u] = reply[u]
    BY <1>1, <1>3 DEF TypeOK
<1>14. oldtag'[c] = Nil /\ flushed'[c] = Nil /\ reply'[c] = "Tmax"
    BY <1>1, <1>3 DEF TypeOK
<1>15. \A u \in Tag : u # c => Base(u)' = Base(u)
    BY <1>13 DEF Base
<1>16. Failing'
  <2>1. conn = "up" => \A i \in 1 .. Len(wire) : wire[i].live /\ wire[i].tag # c
      BY <1>6 DEF MInv, Failing, Settled, Live, c
  <2>2. conn = "up" => \A i \in 1 .. Len(wire') : wire'[i].live
      BY <1>4, <1>9, <2>1
  <2>3. \A q \in Proc : hard'[q] => conn = "down"
      BY DEF MInv, Failing
  <2>4. QED  BY <1>8, <2>2, <2>3 DEF MInv, Failing
<1>17. Messages'
  <2>1. \A m \in srv : m.live /\ m.tag \notin FreeTags' /\ m.old = oldtag'[m.tag]
      BY <1>2, <1>5, <1>7, <1>13 DEF MInv, Messages
  <2>2. ASSUME NEW i \in Live'
        PROVE  /\ wire'[i].tag \notin FreeTags'
               /\ wire'[i].type = IF oldtag'[wire'[i].tag] = Nil THEN "R" ELSE "Rflush"
    <3>1. i \in Live /\ wire'[i] = wire[i] /\ wire[i].tag # c /\ oldtag'[wire[i].tag] = oldtag[wire[i].tag]
        BY <1>10, <1>13
    <3>2. wire[i].tag \notin FreeTags /\ wire[i].type = IF oldtag[wire[i].tag] = Nil THEN "R" ELSE "Rflush"
        BY <3>1 DEF MInv, Messages
    <3>3. QED  BY <1>2, <3>1, <3>2
  <2>3. \A m \in srv, i \in Live' : m.tag # wire'[i].tag
      BY <1>10 DEF MInv, Messages
  <2>4. \A i, j \in Live' : wire'[i].tag = wire'[j].tag => i = j
      BY <1>10 DEF MInv, Messages
  <2>5. QED  BY <1>8, <2>1, <2>2, <2>3, <2>4 DEF MInv, Messages
<1>18. Replied'
  <2>1. \A i \in Live' : wire'[i].type = "R" => wire'[i].tag \in executed'
      BY <1>3, <1>10 DEF MInv, Replied
  <2>2. \A u \in Tag : reply'[u] = "R" => u \in executed'
      BY <1>3, <1>13, <1>14 DEF MInv, Replied
  <2>3. \A u \in FreeTags' : u \notin executed'
      BY <1>2, <1>3 DEF MInv, Replied
  <2>4. QED  BY <2>1, <2>2, <2>3 DEF Replied
<1>19. ASSUME NEW q \in Proc, q # p, Good(q)' PROVE Sound(q)'
  <2> DEFINE d == cur[q]
             b == Base(cur[q])
  <2>1. /\ cur'[q] = d /\ pc'[q] = pc[q] /\ nflush'[q] = nflush[q] /\ hard'[q] = hard[q]
        /\ Good(q) /\ Sound(q) /\ d # Nil
      BY <1>19 DEF Good, MInv
  <2>2. d \in Tag /\ b \in Tag /\ d # c /\ b # c
      BY <1>1, <1>19, <2>1
  <2>3. Base(cur[q])' = b /\ oldtag'[d] = oldtag[d]
      BY <1>13, <2>1, <2>2 DEF Base
  <2>4. (\A m \in srv : Base(m.tag)' = Base(m.tag)) /\ \A i \in Live' : Base(wire[i].tag)' = Base(wire[i].tag)
      BY <1>5, <1>7, <1>10, <1>13 DEF Base
  <2>5. Numbered(q)' /\ Single(q)'
      BY <1>8, <2>1, <2>3, <2>4 DEF Sound, Numbered, Single
  <2>6. LastOne(q)'
      BY <1>8, <1>10, <2>1, <2>3, <2>4 DEF Sound, LastOne
  <2>7. Unsent(q)'
      BY <1>8, <1>10, <1>13, <2>1, <2>2 DEF Sound, Unsent
  <2>8. Settled(q)'
      BY <1>8, <1>10, <1>13, <2>1, <2>2, <2>3, <2>4 DEF Sound, Settled
  <2>9. NotStale(q)'
      BY <1>12, <2>1, <2>2, <2>3 DEF Sound, NotStale
  <2>10. Lost(q) => Lost(q)'
      BY <1>10, <1>13, <2>1, <2>2 DEF Lost
  <2>11. Answered(q)'
    <3>1. b \in executed' => \/ done'[b] /\ reply'[b] = "R"
                             \/ \E i \in Live' : wire'[i].tag = b
                             \/ Lost(q)'
        BY <1>3, <1>11, <1>13, <2>1, <2>2, <2>10 DEF Sound, Answered
    <3>2. done'[b] => reply'[b] \in {"R", "Rflush"}
        BY <1>13, <2>1, <2>2 DEF Sound, Answered
    <3>3. (\A m \in srv : m.tag = b => b \in Queued') /\ \A i \in Live' : wire'[i].tag = b => b \in Queued'
        BY <1>10, <2>1, <2>2 DEF Sound, Answered, c
    <3>4. pc[q] = "qrm" /\ oldtag[d] = Nil => reply'[d] = "Rflush"
        BY <1>13, <2>1, <2>2 DEF Sound, Answered
    <3>5. QED  BY <1>8, <2>1, <2>3, <3>1, <3>2, <3>3, <3>4 DEF Answered
  <2>12. QED  BY <2>5, <2>6, <2>7, <2>8, <2>9, <2>11 DEF Sound
<1>20. QED
    BY <1>2, <1>5, <1>7, <1>8, <1>10, <1>12, <1>13, <1>14, <1>15, <1>3, <1>16, <1>17, <1>18, <1>19 DEF c

\* mntflushfree() goes on in the chain.
LEMMA ChainKeeps ==
    ASSUME IInv, MInv, NEW p \in Proc, pc[p] \in {"flushfree", "qrm"}, NextInChain(p),
           done[cur[p]] \/ pc[p] = "qrm", Queued' = Queued \ {cur[p]},
           UNCHANGED <<rip, mlock, woken, hard, noted, nflush, conn>>
    PROVE  MInv'
<1> DEFINE c == cur[p]
           b == Base(cur[p])
           f == flushed[cur[p]]
<1>0. c # Nil /\ pc[p] \in Leaving
    BY DEF Owned, Leaving
<1>1. /\ c \in Tag /\ b \in Tag /\ oldtag[b] = Nil /\ Base(b) = b
      /\ \A q \in Proc : q # p /\ cur[q] # Nil =>
            /\ cur[q] \in Tag /\ Base(cur[q]) \in Tag
            /\ cur[q] # c /\ Base(cur[q]) # c /\ Base(cur[q]) # b
    BY <1>0, Distinct DEF MInv
<1>2. Good(p) => Sound(p)
    BY DEF MInv
<1>3. CASE f = Nil
  <2>1. /\ pc' = [pc EXCEPT ![p] = "return"] /\ done' = [done EXCEPT ![c] = TRUE]
        /\ UNCHANGED <<alloc, flushed, reply, oldtag, server, cur>>
      BY <1>3 DEF NextInChain
  <2>2. oldtag[c] = Nil /\ b = c
      BY <1>1, <1>3 DEF MInv, Chains, Base
  <2>3. pc'[p] = "return" /\ \A q \in Proc : q # p => pc'[q] = pc[q]
      BY <2>1 DEF TypeOK
  <2>4. done'[c] /\ \A u \in Tag : u # c => done'[u] = done[u]
      BY <1>1, <2>1 DEF TypeOK
  <2>5. FreeTags' = FreeTags /\ Live' = Live
      BY <2>1 DEF FreeTags, Live
  <2>6. Chains'
      BY <1>3, <2>1, <2>3, <2>5 DEF MInv, Chains, Base
  <2>7. Failing' /\ Messages' /\ Owners' /\ Replied'
      BY <2>1, <2>5 DEF MInv, Failing, Messages, Owners, Replied, Base
  <2>8. SUFFICES ASSUME NEW q \in Proc, Good(q)' PROVE Sound(q)'
      BY <2>6, <2>7 DEF MInv
  <2>9. /\ Good(q) /\ Sound(q) /\ cur[q] # Nil
        /\ pc'[q] \in Leaving <=> pc[q] \in Leaving
        /\ pc'[q] \in {"enqueue", "write"} <=> pc[q] \in {"enqueue", "write"}
        /\ pc'[q] = "qrm" => pc[q] = "qrm"
      BY <1>0, <2>1, <2>3, <2>8 DEF Good, MInv, Leaving
  <2>10. /\ cur'[q] = cur[q] /\ Base(cur[q])' = Base(cur[q])
         /\ q # p => done'[cur[q]] = done[cur[q]] /\ done'[Base(cur[q])] = done[Base(cur[q])]
      BY <1>1, <2>1, <2>4, <2>9 DEF Base
  <2>11. Numbered(q)' /\ LastOne(q)' /\ Single(q)' /\ NotStale(q)'
      BY <2>1, <2>5, <2>9 DEF Sound, Numbered, LastOne, Single, NotStale, Base
  <2>12. Unsent(q)'
      BY <2>1, <2>3, <2>5, <2>9, <2>10 DEF Sound, Unsent
  <2>13. Settled(q)'
      BY <1>0, <2>1, <2>5, <2>9, <2>10 DEF Sound, Settled, Base
  <2>14. Answered(q)'
    <3>1. CASE q # p
      <4>1. Lost(q) => Lost(q)'
          BY <2>1, <2>5, <2>9, <2>10, <3>1 DEF Lost
      <4>2. Base(cur[q]) # c
          BY <1>1, <2>9, <3>1
      <4>3. QED  BY <2>1, <2>5, <2>9, <2>10, <3>1, <4>1, <4>2 DEF Sound, Answered
    <3>2. CASE q = p
      <4>1. (\A m \in srv : m.tag # c) /\ (\A i \in Live : wire[i].tag # c)
          BY <1>0, <2>2, <2>9, <3>2 DEF Sound, Settled
      <4>2. c \in executed => reply[c] = "R"
          BY <1>0, <2>2, <2>9, <3>2, <4>1 DEF Sound, Answered, Lost
      <4>3. reply[c] \in {"R", "Rflush"}
          BY <2>2, <2>9, <3>2 DEF Sound, Answered
      <4>4. QED  BY <2>1, <2>2, <2>3, <2>4, <2>5, <2>10, <3>2, <4>1, <4>2, <4>3 DEF Answered
    <3>3. QED  BY <3>1, <3>2
  <2>15. QED  BY <2>11, <2>12, <2>13, <2>14 DEF Sound
<1>4. CASE f # Nil
  <2>1. /\ pc' = [pc EXCEPT ![p] = "flushfree"] /\ cur' = [cur EXCEPT ![p] = f]
        /\ mntfree(c)
      BY <1>4 DEF NextInChain
  <2>2. /\ f \in Tag /\ f # c /\ oldtag[c] = b /\ oldtag[c] # Nil /\ Base(f) = b /\ b # c
        /\ \A u \in Tag : flushed[u] # c
      BY <1>1, <1>4 DEF TypeOK, Owned, MInv, Chains, Base
  <2>3. cur'[p] = f /\ \A q \in Proc : q # p => cur'[q] = cur[q]
      BY <2>1 DEF TypeOK
  <2>4. pc'[p] = "flushfree" /\ \A q \in Proc : q # p => pc'[q] = pc[q]
      BY <2>1 DEF TypeOK
  <2>5. /\ FreeTags' = FreeTags \union {c}
        /\ srv' = srv /\ \A m \in srv : m.tag \in Tag /\ m.tag # c
        /\ \A i \in Live' : /\ i \in Live /\ wire'[i] = wire[i]
                            /\ wire[i].tag \in Tag /\ wire[i].tag # c
        /\ \A i \in 1 .. Len(wire') : ~wire'[i].live =>
              /\ i \in 1 .. Len(wire) /\ wire'[i].tag = wire[i].tag
              /\ ~wire[i].live \/ wire[i].tag = c
        /\ \A u \in Tag : u # c =>
              /\ oldtag'[u] = oldtag[u] /\ flushed'[u] = flushed[u] /\ done'[u] = done[u]
              /\ reply'[u] = reply[u] /\ Base(u)' = Base(u)
        /\ oldtag'[c] = Nil /\ flushed'[c] = Nil
        /\ executed' = executed \ {c}
        /\ Failing' /\ Messages' /\ Replied'
        /\ \A q \in Proc : q # p /\ Good(q)' => Sound(q)'
      BY <1>0, <2>1, <2>3, <2>4, FreeKeeps
  <2> HIDE DEF c, f, b
  <2>6. Base(cur[p])' = b /\ \A q \in Proc : q # p /\ cur[q] # Nil => Base(cur[q])' = Base(cur[q])
    <3>1. oldtag'[f] = oldtag[f]
        BY <2>2, <2>5
    <3>2. \A q \in Proc : q # p /\ cur[q] # Nil => oldtag'[cur[q]] = oldtag[cur[q]]
        BY <1>1, <2>5
    <3>3. QED  BY <2>2, <2>3, <3>1, <3>2 DEF Base
  <2>7. (\A m \in srv : Base(m.tag)' = Base(m.tag)) /\ \A i \in Live' : Base(wire[i].tag)' = Base(wire[i].tag)
    <3>1. (\A m \in srv : oldtag'[m.tag] = oldtag[m.tag]) /\ \A i \in Live' : oldtag'[wire[i].tag] = oldtag[wire[i].tag]
        BY <2>5
    <3>2. QED  BY <2>5, <3>1 DEF Base
  <2>8. Chains'
    <3>1. \A u \in Tag : oldtag'[u] = Nil <=> flushed'[u] = Nil
        BY <2>5 DEF MInv, Chains
    <3>2. ASSUME NEW u \in Tag, flushed'[u] # Nil PROVE oldtag'[u] = Base(flushed[u])'
      <4>1. u # c /\ flushed'[u] = flushed[u] /\ oldtag'[u] = oldtag[u]
          BY <2>5, <3>2
      <4>2. flushed[u] \in Tag /\ flushed[u] # c /\ oldtag[u] = Base(flushed[u])
          BY <2>2, <3>2, <4>1 DEF TypeOK, MInv, Chains
      <4>3. oldtag'[flushed[u]] = oldtag[flushed[u]]
          BY <2>5, <4>2
      <4>4. QED  BY <4>1, <4>2, <4>3 DEF Base
    <3>3. ASSUME NEW q \in Proc, cur'[q] # Nil
          PROVE  Base(cur[q])' \notin FreeTags' /\ oldtag'[Base(cur[q])'] = Nil
      <4>1. CASE q = p
        <5>1. b \notin FreeTags
            BY <1>0, Distinct DEF MInv, b, c
        <5>2. QED  BY <1>1, <2>2, <2>5, <2>6, <4>1, <5>1
      <4>2. CASE q # p
        <5>1. /\ cur[q] # Nil /\ Base(cur[q]) \in Tag /\ Base(cur[q]) \notin FreeTags
              /\ oldtag[Base(cur[q])] = Nil /\ Base(cur[q]) # c
            BY <1>1, <2>3, <3>3, <4>2, Distinct DEF MInv
        <5>2. QED  BY <2>5, <2>6, <4>2, <5>1
      <4>3. QED  BY <4>1, <4>2
    <3>4. \A q, r \in Proc : cur'[q] # Nil /\ cur'[r] # Nil /\ Base(cur[q])' = Base(cur[r])' => q = r
        BY <1>1, <2>3, <2>6 DEF MInv, Chains
    <3>5. ASSUME NEW q \in Proc, pc'[q] = "return" PROVE flushed'[cur'[q]] = Nil
      <4>1. q # p /\ pc[q] = "return" /\ cur[q] # Nil
          BY <2>4, <3>5 DEF Owned
      <4>2. flushed[cur[q]] = Nil /\ cur[q] \in Tag /\ cur[q] # c
          BY <1>1, <4>1 DEF MInv, Chains
      <4>3. QED  BY <2>3, <2>5, <4>1, <4>2
    <3>6. QED  BY <3>1, <3>2, <3>3, <3>4, <3>5 DEF Chains
  <2>9. Owners'
    <3>1. SUFFICES ASSUME conn = "up"
                   PROVE  /\ \A m \in srv : \E q \in Proc : cur'[q] # Nil /\ Base(cur[q])' = Base(m.tag)'
                          /\ \A i \in Live' : \E q \in Proc : cur'[q] # Nil /\ Base(cur[q])' = Base(wire[i].tag)'
        BY <2>5 DEF Owners
    <3>2. \A q \in Proc : cur[q] # Nil => cur'[q] # Nil /\ Base(cur[q])' = Base(cur[q])
        BY <2>2, <2>3, <2>6 DEF b
    <3>3. \A m \in srv : \E q \in Proc : cur[q] # Nil /\ Base(cur[q]) = Base(m.tag)
        BY <3>1 DEF MInv, Owners
    <3>4. \A i \in Live' : \E q \in Proc : cur[q] # Nil /\ Base(cur[q]) = Base(wire[i].tag)
        BY <2>5, <3>1 DEF MInv, Owners
    <3>5. QED  BY <2>7, <3>2, <3>3, <3>4
  <2>10. ASSUME Good(p)' PROVE Sound(p)'
    <3>1. Sound(p)
        BY <1>0, <1>2, <2>10 DEF Good, Leaving, c
    <3>2. (\A m \in srv : Base(m.tag) # b) /\ \A i \in Live : Base(wire[i].tag) # b
        BY <1>0, <3>1 DEF Sound, Settled, b
    <3>3. (\A m \in srv : Base(m.tag)' # b) /\ \A i \in Live' : Base(wire[i].tag)' # b
        BY <2>5, <2>7, <3>2
    <3>4. (\A m \in srv : m.tag # b /\ m.tag # f) /\ \A i \in Live : wire[i].tag # b /\ wire[i].tag # f
        BY <1>1, <2>2, <3>2
    <3>5. Numbered(p)' /\ Settled(p)'
        BY <2>5, <2>6, <3>3 DEF Numbered, Settled
    <3>6. LastOne(p)' /\ Single(p)' /\ Unsent(p)'
        BY <2>3, <2>4, <2>5, <3>4 DEF LastOne, Single, Unsent, Leaving
    <3>7. NotStale(p)'
        BY <2>2, <2>4, <2>5, <2>6, <3>1 DEF Sound, NotStale, Leaving, b
    <3>8. b \in executed => done[b] /\ reply[b] = "R"
        BY <1>0, <3>1, <3>4 DEF Sound, Answered, Lost, b
    <3>9. done[b] => reply[b] \in {"R", "Rflush"}
        BY <3>1 DEF Sound, Answered, b
    <3>10. Answered(p)'
        BY <1>1, <2>2, <2>4, <2>5, <2>6, <3>4, <3>8, <3>9 DEF Answered
    <3>11. QED  BY <3>5, <3>6, <3>7, <3>10 DEF Sound
  <2>11. QED  BY <2>5, <2>8, <2>9, <2>10 DEF MInv
<1>5. QED  BY <1>3, <1>4

\* The call returns and frees its header.
LEMMA ReturnKeeps ==
    ASSUME IInv, MInv, NEW p \in Proc, Return(p)
    PROVE  MInv'
<1> DEFINE c == cur[p]
<1>0. /\ pc[p] = "return" /\ mntfree(c) /\ pc' = [pc EXCEPT ![p] = "idle"]
      /\ cur' = [cur EXCEPT ![p] = Nil] /\ hard' = [hard EXCEPT ![p] = FALSE]
      /\ nflush' = [nflush EXCEPT ![p] = 0] /\ queue' = queue /\ conn' = conn
    BY DEF Return
<1>1. c # Nil /\ pc[p] \in Leaving /\ oldtag[c] = Nil /\ Base(c) = c /\ c \notin Queued
    BY <1>0 DEF Owned, TypeOK, InQueue, Leaving, MInv, Chains, Base
<1>2. /\ c \in Tag
      /\ \A q \in Proc : q # p /\ cur[q] # Nil =>
            /\ cur[q] \in Tag /\ Base(cur[q]) \in Tag /\ cur[q] # c /\ Base(cur[q]) # c
    BY <1>1, Distinct DEF MInv
<1>3. /\ cur'[p] = Nil /\ pc'[p] = "idle" /\ ~hard'[p]
      /\ \A q \in Proc : q # p => /\ cur'[q] = cur[q] /\ pc'[q] = pc[q]
                                  /\ nflush'[q] = nflush[q] /\ hard'[q] = hard[q]
    BY <1>0 DEF TypeOK
<1>4. Queued' = Queued \ {c}
    BY <1>0, <1>1 DEF Queued
<1>5. \A u \in Tag : flushed[u] # c
    BY <1>1 DEF Owned
<1>6. /\ FreeTags' = FreeTags \union {c}
      /\ srv' = srv /\ \A m \in srv : m.tag \in Tag /\ m.tag # c
      /\ \A i \in Live' : /\ i \in Live /\ wire'[i] = wire[i]
                          /\ wire[i].tag \in Tag /\ wire[i].tag # c
      /\ \A u \in Tag : u # c => oldtag'[u] = oldtag[u] /\ flushed'[u] = flushed[u]
      /\ oldtag'[c] = Nil /\ flushed'[c] = Nil
      /\ Failing' /\ Messages' /\ Replied'
      /\ \A q \in Proc : q # p /\ Good(q)' => Sound(q)'
    BY <1>0, <1>1, <1>3, <1>4, FreeKeeps
<1>7. conn = "up" => Settled(p)
    BY <1>0, <1>1 DEF MInv, Failing, Good, Sound
<1>8. conn = "up" => (\A m \in srv : Base(m.tag) # c) /\ \A i \in Live : Base(wire[i].tag) # c
    BY <1>1, <1>7 DEF Settled
<1> HIDE DEF c
<1>9. \A q \in Proc : q # p /\ cur[q] # Nil => Base(cur[q])' = Base(cur[q])
  <2>1. \A q \in Proc : q # p /\ cur[q] # Nil => oldtag'[cur[q]] = oldtag[cur[q]]
      BY <1>2, <1>6
  <2>2. QED  BY <1>3, <2>1 DEF Base
<1>10. (\A m \in srv : Base(m.tag)' = Base(m.tag)) /\ \A i \in Live' : Base(wire[i].tag)' = Base(wire[i].tag)
  <2>1. (\A m \in srv : oldtag'[m.tag] = oldtag[m.tag]) /\ \A i \in Live' : oldtag'[wire[i].tag] = oldtag[wire[i].tag]
      BY <1>6
  <2>2. QED  BY <1>6, <2>1 DEF Base
<1>11. Chains'
  <2>1. \A u \in Tag : oldtag'[u] = Nil <=> flushed'[u] = Nil
      BY <1>6 DEF MInv, Chains
  <2>2. ASSUME NEW u \in Tag, flushed'[u] # Nil PROVE oldtag'[u] = Base(flushed[u])'
    <3>1. u # c /\ flushed'[u] = flushed[u] /\ oldtag'[u] = oldtag[u]
        BY <1>6, <2>2
    <3>2. flushed[u] \in Tag /\ flushed[u] # c /\ oldtag[u] = Base(flushed[u])
        BY <1>5, <2>2, <3>1 DEF TypeOK, MInv, Chains
    <3>3. oldtag'[flushed[u]] = oldtag[flushed[u]]
        BY <1>6, <3>2
    <3>4. QED  BY <3>1, <3>2, <3>3 DEF Base
  <2>3. ASSUME NEW q \in Proc, cur'[q] # Nil
        PROVE  Base(cur[q])' \notin FreeTags' /\ oldtag'[Base(cur[q])'] = Nil
    <3>1. /\ q # p /\ cur[q] # Nil /\ Base(cur[q]) \in Tag /\ Base(cur[q]) \notin FreeTags
          /\ oldtag[Base(cur[q])] = Nil /\ Base(cur[q]) # c
        BY <1>2, <1>3, <2>3, Distinct DEF MInv
    <3>2. QED  BY <1>6, <1>9, <3>1
  <2>4. \A q, r \in Proc : cur'[q] # Nil /\ cur'[r] # Nil /\ Base(cur[q])' = Base(cur[r])' => q = r
      BY <1>3, <1>9 DEF MInv, Chains
  <2>5. ASSUME NEW q \in Proc, pc'[q] = "return" PROVE flushed'[cur'[q]] = Nil
    <3>1. q # p /\ pc[q] = "return" /\ cur[q] # Nil
        BY <1>3, <2>5 DEF Owned
    <3>2. flushed[cur[q]] = Nil /\ cur[q] \in Tag /\ cur[q] # c
        BY <1>2, <3>1 DEF MInv, Chains
    <3>3. QED  BY <1>3, <1>6, <3>1, <3>2
  <2>6. QED  BY <2>1, <2>2, <2>3, <2>4, <2>5 DEF Chains
<1>12. Owners'
  <2>1. SUFFICES ASSUME conn = "up"
                 PROVE  /\ \A m \in srv : \E q \in Proc : cur'[q] # Nil /\ Base(cur[q])' = Base(m.tag)'
                        /\ \A i \in Live' : \E q \in Proc : cur'[q] # Nil /\ Base(cur[q])' = Base(wire[i].tag)'
      BY <1>0, <1>6 DEF Owners
  <2>2. ASSUME NEW q \in Proc, cur[q] # Nil, Base(cur[q]) # c
        PROVE  cur'[q] # Nil /\ Base(cur[q])' = Base(cur[q])
      BY <1>1, <1>3, <1>9, <2>2 DEF c
  <2>3. ASSUME NEW m \in srv PROVE \E q \in Proc : cur'[q] # Nil /\ Base(cur[q])' = Base(m.tag)'
    <3>1. PICK q \in Proc : cur[q] # Nil /\ Base(cur[q]) = Base(m.tag)
        BY <2>1 DEF MInv, Owners
    <3>2. QED  BY <1>8, <1>10, <2>1, <2>2, <3>1
  <2>4. ASSUME NEW i \in Live' PROVE \E q \in Proc : cur'[q] # Nil /\ Base(cur[q])' = Base(wire[i].tag)'
    <3>1. i \in Live /\ wire'[i] = wire[i]
        BY <1>6
    <3>2. PICK q \in Proc : cur[q] # Nil /\ Base(cur[q]) = Base(wire[i].tag)
        BY <2>1, <3>1 DEF MInv, Owners
    <3>3. Base(wire[i].tag)' = Base(wire[i].tag)
        BY <1>10
    <3>4. Base(cur[q]) # c
        BY <1>8, <2>1, <3>1, <3>2
    <3>5. cur'[q] # Nil /\ Base(cur[q])' = Base(cur[q])
        BY <2>2, <3>2, <3>4
    <3>6. QED  BY <3>2, <3>3, <3>5
  <2>5. QED  BY <2>3, <2>4
<1>13. ~Good(p)'
    BY <1>3 DEF Good
<1>14. QED  BY <1>6, <1>11, <1>12, <1>13 DEF MInv

\* Steps that only move processes on.
LEMMA QuietKeeps ==
    ASSUME IInv, MInv, NEW p \in Proc,
           \/ Enqueue(p) \/ Gate(p) \/ MuxWakeup(p) \/ ReadDone(p) \/ Note(p)
           \/ pc[p] \in {"sleep", "back"} /\ Awake(p)
           \/ /\ pc[p] = "sleep" /\ Goto(p, "asleep")
              /\ UNCHANGED <<queue, rip, mlock, alloc, heads, cur, woken, hard, noted, nflush,
                             conn, server>>
    PROVE  MInv'
<1>1. UNCHANGED <<heads, alloc, cur, nflush, conn, server, hard>>
    BY DEF Enqueue, Gate, MuxWakeup, ReadDone, Note, Awake
<1>2. Queued \subseteq Queued'
  <2>1. CASE Enqueue(p)
    <3>1. queue' = <<cur[p]>> \o queue /\ cur[p] \in Tag /\ cur[p] \notin Queued
        BY <2>1 DEF Enqueue, TypeOK, Owned, InQueue
    <3>2. QED  BY <3>1, PushIs DEF Queued, TypeOK, InQueue
  <2>2. CASE ~Enqueue(p)
      BY <2>2 DEF Gate, MuxWakeup, ReadDone, Note, Awake, Queued
  <2>3. QED  BY <2>1, <2>2
<1>3. ASSUME NEW q \in Proc
      PROVE  \/ pc'[q] = pc[q]
             \/ pc[q] = "asleep" /\ pc'[q] = "back"
             \/ pc[q] = "enqueue" /\ pc'[q] = "write"
             \/ pc[q] = "gate" /\ pc'[q] \in {"read", "sleep"}
             \/ pc[q] = "wakeup" /\ pc'[q] = "read"
             \/ pc[q] = "sleep" /\ pc'[q] \in {"asleep", "gate"}
             \/ pc[q] = "back" /\ pc'[q] = "gate"
             \/ pc[q] \in {"sleep", "back", "read"} /\ pc'[q] = "flushfree" /\ done[cur[q]]
  <2>1. CASE Enqueue(p)  BY <2>1 DEF Enqueue, TypeOK
  <2>2. CASE Gate(p)  BY <2>2 DEF Gate, TypeOK
  <2>3. CASE MuxWakeup(p)  BY <2>3 DEF MuxWakeup, TypeOK, Sleepers
  <2>4. CASE ReadDone(p)  BY <2>4, GateIs DEF ReadDone
  <2>5. CASE Note(p)  BY <2>5 DEF Note, TypeOK
  <2>6. CASE pc[p] \in {"sleep", "back"} /\ Awake(p)  BY <2>6 DEF Awake, TypeOK
  <2>7. CASE pc[p] = "sleep" /\ Goto(p, "asleep")  BY <2>7 DEF TypeOK
  <2>8. QED  BY <2>1, <2>2, <2>3, <2>4, <2>5, <2>6, <2>7
<1>4. ASSUME NEW q \in Proc
      PROVE  /\ pc'[q] = "return" => pc[q] = "return"
             /\ pc'[q] \in {"enqueue", "write"} <=> pc[q] \in {"enqueue", "write"}
             /\ pc'[q] \in Leaving => pc[q] \in Leaving \/ done[cur[q]]
             /\ pc[q] \in Leaving => pc'[q] \in Leaving
             /\ pc'[q] = "qrm" => pc[q] = "qrm"
    BY <1>3 DEF Leaving
<1>5. QED  BY <1>1, <1>2, <1>4, MoveKeeps

\* A call fails, with the connection down.
LEMMA FailedKeeps ==
    ASSUME IInv, MInv, NEW p \in Proc, pc[p] \in {"write", "read"}, conn = "down", Failed(p)
    PROVE  MInv'
<1>1. UNCHANGED <<heads, alloc, cur, nflush, conn, server, queue>>
    BY DEF Failed
<1>2. hard'[p] /\ \A q \in Proc : q # p => hard'[q] = hard[q]
    BY DEF Failed, TypeOK
<1>3. /\ pc'[p] = "flushfree"
      /\ \A q \in Proc : q # p => pc'[q] = pc[q] \/ (pc[q] = "asleep" /\ pc'[q] = "back")
  <2>1. CASE rip = p  BY <2>1, GateIs DEF Failed
  <2>2. CASE rip # p  BY <2>2 DEF Failed, TypeOK
  <2>3. QED  BY <2>1, <2>2
<1>4. Queued \subseteq Queued'
    BY <1>1 DEF Queued
<1>5. ASSUME NEW q \in Proc, ~hard'[q]
      PROVE  /\ pc'[q] \in {"enqueue", "write"} <=> pc[q] \in {"enqueue", "write"}
             /\ pc'[q] \in Leaving => pc[q] \in Leaving \/ done[cur[q]]
             /\ pc[q] \in Leaving => pc'[q] \in Leaving
             /\ pc'[q] = "qrm" => pc[q] = "qrm"
    BY <1>2, <1>3, <1>5 DEF Leaving
<1>6. \A q \in Proc : pc'[q] = "return" => pc[q] = "return"
    BY <1>3
<1>7. QED  BY <1>1, <1>2, <1>4, <1>5, <1>6, MoveKeeps

----------------------------------------------------------------------------
\* No call and no message: the second invariant holds at the start.
LEMMA InitMInv == Init => MInv
<1> SUFFICES ASSUME Init PROVE MInv
    OBVIOUS
<1>1. Len(<< >>) = 0 /\ Live = {}
    BY DEF Init, Live
<1>2. Chains
    BY DEF Init, Chains
<1>3. Failing /\ Messages /\ Owners /\ Replied
    BY <1>1 DEF Init, Failing, Messages, Owners, Replied
<1>4. \A p \in Proc : ~Good(p)
    BY DEF Init, Good
<1>5. QED  BY <1>2, <1>3, <1>4 DEF MInv

\* Every step preserves the second invariant.
LEMMA NextMInv == IInv /\ MInv /\ [Next]_vars => MInv'
<1> SUFFICES ASSUME IInv, MInv, [Next]_vars PROVE MInv'
    OBVIOUS
<1>1. CASE UNCHANGED vars
    BY <1>1, MoveKeeps DEF vars, Queued
<1>2. ASSUME NEW p \in Proc, Start(p) \/ Note(p) PROVE MInv'
    BY <1>2, StartKeeps, QuietKeeps
<1>3. ASSUME NEW p \in Proc, Step(p) PROVE MInv'
  <2>1. CASE Enqueue(p) \/ Gate(p) \/ MuxWakeup(p) \/ ReadDone(p)  BY <2>1, QuietKeeps
  <2>2. CASE Write(p)  BY <2>2, WriteKeeps
  <2>3. CASE WriteIntr(p)  BY <2>3, InterruptedKeeps DEF WriteIntr, Send
  <2>4. CASE WriteFails(p)  BY <2>4, FailedKeeps DEF WriteFails
  <2>5. CASE Sleep(p) \/ Back(p)
    <3>1. pc[p] \in {"sleep", "back"}
        BY <2>5 DEF Sleep, Back
    <3>2. CASE SleepIntr(p)
        BY <3>1, <3>2, InterruptedKeeps DEF SleepIntr
    <3>3. CASE ~SleepIntr(p)
        BY <2>5, <3>1, <3>3, QuietKeeps DEF Sleep, Back
    <3>4. QED  BY <3>2, <3>3
  <2>6. CASE mountmux(p)  BY <2>6, mountmuxKeeps
  <2>7. CASE ReadFails(p)  BY <2>7, FailedKeeps DEF ReadFails, Reading
  <2>8. CASE ReadIntr(p)  BY <2>8, InterruptedKeeps DEF ReadIntr, Reading
  <2>9. CASE FlushFree(p)
    <3>1. CASE done[cur[p]]
      <4>1. Queued' = Queued \ {cur[p]}
          BY <2>9, <3>1 DEF FlushFree, Queued, InQueue
      <4>2. QED  BY <2>9, <3>1, <4>1, ChainKeeps DEF FlushFree
    <3>2. CASE ~done[cur[p]]
        BY <2>9, <3>2, MarkKeeps DEF FlushFree
    <3>3. QED  BY <3>1, <3>2
  <2>10. CASE mntqrm(p)
    <3>1. cur[p] \in Tag
        BY <2>10 DEF mntqrm, TypeOK, Owned
    <3>2. Queued' = Queued \ {cur[p]}
        BY <2>10, <3>1, UnlinkIs DEF mntqrm, Queued, TypeOK, InQueue
    <3>3. QED  BY <2>10, <3>2, ChainKeeps DEF mntqrm
  <2>11. CASE Return(p)  BY <2>11, ReturnKeeps
  <2>12. QED  BY <1>3, <2>1, <2>2, <2>3, <2>4, <2>5, <2>6, <2>7, <2>8, <2>9, <2>10, <2>11
              DEF Step
<1>4. ASSUME NEW m \in srv, Answer(m) PROVE MInv'
    BY <1>4, AnswerKeeps
<1>5. CASE Hangup
    BY <1>5, HangupKeeps
<1>6. QED  BY <1>1, <1>2, <1>3, <1>4, <1>5 DEF Next

\* mountrpc(): whatever the notes, the tags that are used again and the order
\* in which the server answers, a call that has not failed returns the reply
\* to its own request, and Eintr only if the request was not carried out.
THEOREM RepliesOwn == Spec => []OwnReply
<1>1. Init => IInv /\ MInv
    BY InitIInv, InitMInv
<1>2. IInv /\ MInv /\ [Next]_vars => (IInv /\ MInv)'
    BY NextIInv, NextMInv
<1>3. IInv /\ MInv => OwnReply
  <2>1. SUFFICES ASSUME IInv, MInv, NEW p \in Proc, pc[p] = "return", ~hard[p]
                 PROVE  /\ reply[cur[p]] \in {"R", "Rflush"}
                        /\ reply[cur[p]] = "R" <=> cur[p] \in executed
      BY DEF OwnReply
  <2>2. cur[p] # Nil /\ cur[p] \in Tag /\ done[cur[p]] /\ pc[p] \in Leaving
      BY <2>1 DEF Owned, InQueue, TypeOK, Leaving
  <2>3. Base(cur[p]) = cur[p]
      BY <2>1, <2>2 DEF MInv, Chains, Base
  <2>4. Sound(p)
      BY <2>1, <2>2 DEF MInv, Good
  <2>5. \A i \in Live : wire[i].tag # cur[p]
      BY <2>2, <2>4 DEF Sound, Settled
  <2>6. cur[p] \in executed => reply[cur[p]] = "R"
      BY <2>2, <2>3, <2>4, <2>5 DEF Sound, Answered, Lost
  <2>7. reply[cur[p]] = "R" => cur[p] \in executed
      BY <2>1, <2>2 DEF MInv, Replied
  <2>8. reply[cur[p]] \in {"R", "Rflush"}
      BY <2>2, <2>3, <2>4 DEF Sound, Answered
  <2>9. QED  BY <2>6, <2>7, <2>8
<1>4. QED  BY <1>1, <1>2, <1>3, PTL DEF Spec
=============================================================================
