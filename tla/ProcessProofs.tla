--------------------------- MODULE ProcessProofs ----------------------------
(***************************************************************************)
(* Proofs, for any number of slots and note posters, of the safety         *)
(* properties of ExitWait and, in the second part, for any number of       *)
(* processes, pages, images and segments, of Page.                         *)
(***************************************************************************)
EXTENDS MCProcess, FiniteSetTheorems, SequenceTheorems, TLAPS

\* The operators ExitWait takes from the standard modules.
LEMMA SameOperators ==
    ASSUME NEW S
    PROVE  /\ E!IsFiniteSet(S) = IsFiniteSet(S) /\ E!Cardinality(S) = Cardinality(S)
           /\ E!SetToSeq(S) = SetToSeq(S)
<1>1. E!IsFiniteSet(S) = IsFiniteSet(S) /\ E!Cardinality(S) = Cardinality(S)
    BY DEF E!IsFiniteSet, IsFiniteSet, E!Cardinality, Cardinality
<1>2. E!SetToSeq(S) = SetToSeq(S)
    BY <1>1 DEF E!SetToSeq, SetToSeq, E!IsInjective, IsInjective
<1>3. QED  BY <1>1, <1>2

\* Every process rfork() makes is one its parent may wait for.  With RFNOWAIT
\* the child has parentpid 0, which is the pid of a dead slot, too.
AllWaitable == RforkNowait \subseteq {FALSE}

\* A process that the table knows, one that has yet to leave a record, one
\* that has been through that part of pexit(), and one that makes another.
Named(p) == slotpc[p] \notin {"free", "new", "dead"}
Running(p) == E!Alive(p) \/ slotpc[p] = "exit"
Gone(p) == slotpc[p] \in {"addbroken", "break", "broken", "die"}
Making(p) == slotpc[p] \in {"forkpid", "fork"}

\* The processes that count in nchild of p.
Children(p) == {c \in Slots : parent[c] = p /\ parentpid[c] = pid[p] /\ Running(c)}

(***************************************************************************)
(* The inductive invariant, in parts.  Pids are handed out once.           *)
(***************************************************************************)
Pids ==
    /\ pidalloc \in 1 .. MaxPid /\ kin \in [1 .. MaxPid -> SUBSET (1 .. MaxPid)]
    /\ \A p \in Slots : pid[p] <= pidalloc /\ parentpid[p] <= pidalloc
    /\ \A p, r \in Slots : pid[p] = pid[r] /\ pid[p] # 0 => p = r
    /\ \A p \in Slots : (Named(p) => pid[p] # 0) /\ (slotpc[p] \in {"free", "dead"} => pid[p] = 0)

\* A new process is known to the one that makes it only, and nobody is its
\* child yet.
Makers ==
    /\ \A p \in Slots : Making(p) =>
          child[p] \in Slots /\ slotpc[child[p]] = "new" /\ (slotpc[p] = "fork" => pid[child[p]] # 0)
    /\ \A p, r \in Slots : Making(p) /\ Making(r) /\ child[p] = child[r] => p = r
    /\ \A p \in Slots : slotpc[p] = "new" =>
          /\ nchild[p] = 0 /\ nwait[p] = 0 /\ waitq[p] = << >>
          /\ pid[p] # 0 => \A c \in Slots : parentpid[c] # pid[p]

FreeList ==
    /\ \A i \in 1 .. Len(slotfree) : slotpc[slotfree[i]] = "free"
    /\ \A i, j \in 1 .. Len(slotfree) : slotfree[i] = slotfree[j] => i = j

\* A process knows the slot and the pid of the one that made it.
Parents ==
    /\ E!Alive(Boot) /\ parent[Boot] = Nil
    /\ \A c \in Slots : Running(c) /\ c # Boot =>
          parent[c] \in Slots \ {c} /\ parentpid[c] # 0 /\ pid[c] \in kin[parentpid[c]]

\* nchild is right as long as a process may use it, and never too small: a
\* child does not count down the nchild of a Broken parent.
ChildCounts ==
    \A p \in Slots : Named(p) =>
        /\ Cardinality(Children(p)) <= nchild[p]
        /\ E!Alive(p) => nchild[p] = Cardinality(Children(p))

\* Records were left by children that have gone on.
WaitRecords ==
    /\ \A p \in Slots : \A k \in E!ToSet(waitq[p]) : k <= pidalloc
    /\ \A p \in Slots : Named(p) =>
          /\ nwait[p] = Len(waitq[p])
          /\ \A i, j \in 1 .. Len(waitq[p]) : waitq[p][i] = waitq[p][j] => i = j
          /\ \A k \in E!ToSet(waitq[p]) : k \in kin[pid[p]] /\ \A c \in Slots : pid[c] = k => Gone(c)

\* pwait(), and the state Broken.
WaitsAt(p) ==
    /\ slotpc[p] = "sleep" => nchild[p] # 0 \/ waitq[p] # << >>
    /\ slotpc[p] = "asleep" => nchild[p] # 0 /\ waitq[p] = << >>
    /\ slotpc[p] = "woken" => waitq[p] # << >> \/ notepending[p]
    /\ slotpc[p] = "collect" => waitq[p] # << >>
    /\ broken[p] => slotpc[p] = "broken"

Waits == \A p \in Slots : WaitsAt(p)

\* A poster holds the lock of the process it posts to, which has the note.
Notes ==
    \A n \in Posters : target[n] # Nil =>
        /\ debug[target[n]] = n /\ slotpc[target[n]] # "free"
        /\ notepending[target[n]] \/ slotpc[target[n]] = "intr"

SlotInv == /\ E!TypeOK /\ Pids /\ Makers /\ FreeList /\ Parents /\ ChildCounts /\ WaitRecords
        /\ Waits /\ Notes

Hyp == E!ConstantsAssumption /\ AllWaitable

USE DEF E!Goto, E!tableVars, E!countVars, E!brokenVars, E!noteVars

----------------------------------------------------------------------------
(* Finite sets and sequences.                                              *)

LEMMA ChildrenFinite ==
    ASSUME Hyp, NEW p \in Slots
    PROVE  IsFiniteSet(Children(p)) /\ Cardinality(Children(p)) \in Nat
<1>1. IsFiniteSet(Slots)
    BY SameOperators DEF Hyp, E!ConstantsAssumption
<1>2. IsFiniteSet(Children(p))
    BY <1>1, FS_Subset DEF Children
<1>3. QED  BY <1>2, FS_CardinalityType

\* One more record, in front.
LEMMA Pushed ==
    ASSUME NEW S, NEW q \in Seq(S), NEW x \in S, x \notin E!ToSet(q),
           \A j, k \in 1 .. Len(q) : q[j] = q[k] => j = k
    PROVE  /\ <<x>> \o q \in Seq(S) /\ <<x>> \o q # << >>
           /\ Len(<<x>> \o q) = Len(q) + 1
           /\ E!ToSet(<<x>> \o q) = E!ToSet(q) \union {x}
           /\ \A j, k \in 1 .. Len(<<x>> \o q) : (<<x>> \o q)[j] = (<<x>> \o q)[k] => j = k
<1> DEFINE w == <<x>> \o q
<1>1. /\ w \in Seq(S) /\ Len(q) \in Nat /\ Len(w) = Len(q) + 1
      /\ w[1] = x /\ \A j \in 1 .. Len(q) : w[j + 1] = q[j]
    OBVIOUS
<1> HIDE DEF w
<1>2. DOMAIN w = 1 .. Len(q) + 1 /\ DOMAIN q = 1 .. Len(q)
    BY <1>1
<1>3. ASSUME NEW j \in 1 .. Len(q) + 1
      PROVE  j = 1 \/ \E k \in 1 .. Len(q) : j = k + 1
  <2>1. j = 1 \/ (j - 1 \in 1 .. Len(q) /\ j = (j - 1) + 1)
      BY <1>1
  <2>2. QED  BY <2>1
<1>4. E!ToSet(w) = E!ToSet(q) \union {x}
  <2>1. ASSUME NEW y \in E!ToSet(w) PROVE y \in E!ToSet(q) \union {x}
    <3>1. PICK j \in 1 .. Len(q) + 1 : y = w[j]
        BY <1>2 DEF E!ToSet
    <3>2. CASE j = 1
        BY <3>1, <3>2, <1>1
    <3>3. CASE \E k \in 1 .. Len(q) : j = k + 1
        BY <3>1, <3>3, <1>1, <1>2 DEF E!ToSet
    <3>4. QED  BY <3>2, <3>3, <1>3
  <2>2. ASSUME NEW y \in E!ToSet(q) PROVE y \in E!ToSet(w)
    <3>1. PICK k \in 1 .. Len(q) : y = q[k]
        BY <1>2 DEF E!ToSet
    <3>2. k + 1 \in 1 .. Len(q) + 1 /\ w[k + 1] = y
        BY <3>1, <1>1
    <3>3. QED  BY <3>2, <1>2 DEF E!ToSet
  <2>3. x \in E!ToSet(w)
    <3>1. 1 \in 1 .. Len(q) + 1
        BY <1>1
    <3>2. QED  BY <3>1, <1>1, <1>2 DEF E!ToSet
  <2>4. QED  BY <2>1, <2>2, <2>3
<1>5. ASSUME NEW j \in 1 .. Len(w), NEW k \in 1 .. Len(w), w[j] = w[k] PROVE j = k
  <2>1. \A i \in 1 .. Len(q) : w[i + 1] \in E!ToSet(q) /\ w[i + 1] # x
      BY <1>1, <1>2 DEF E!ToSet
  <2>2. QED  BY <2>1, <1>1, <1>3, <1>5
<1>6. w # << >>
    BY <1>1
<1>7. QED  BY <1>1, <1>4, <1>5, <1>6 DEF w

\* The first record is taken.
LEMMA Popped ==
    ASSUME NEW S, NEW q \in Seq(S), q # << >>,
           \A j, k \in 1 .. Len(q) : q[j] = q[k] => j = k
    PROVE  /\ Tail(q) \in Seq(S) /\ Len(q) \in Nat \ {0} /\ Len(Tail(q)) = Len(q) - 1
           /\ Head(q) \in S /\ E!ToSet(Tail(q)) \subseteq E!ToSet(q)
           /\ \A j \in 1 .. Len(Tail(q)) : j + 1 \in 1 .. Len(q) /\ Tail(q)[j] = q[j + 1]
           /\ Head(q) = q[1] /\ 1 \in 1 .. Len(q)
           /\ \A j, k \in 1 .. Len(Tail(q)) : Tail(q)[j] = Tail(q)[k] => j = k
<1> DEFINE w == Tail(q)
<1>1. /\ w \in Seq(S) /\ Len(q) \in Nat \ {0} /\ Len(w) = Len(q) - 1 /\ Head(q) \in S
      /\ \A j \in 1 .. Len(w) : j + 1 \in 1 .. Len(q) /\ w[j] = q[j + 1]
      /\ Head(q) = q[1] /\ 1 \in 1 .. Len(q)
    OBVIOUS
<1> HIDE DEF w
<1>2. DOMAIN w = 1 .. Len(w) /\ DOMAIN q = 1 .. Len(q)
    BY <1>1
<1>3. E!ToSet(w) \subseteq E!ToSet(q)
    BY <1>1, <1>2 DEF E!ToSet
<1>4. ASSUME NEW j \in 1 .. Len(w), NEW k \in 1 .. Len(w), w[j] = w[k] PROVE j = k
  <2>1. j + 1 = k + 1
      BY <1>1, <1>4
  <2>2. QED  BY <2>1
<1>5. QED  BY <1>1, <1>3, <1>4 DEF w

----------------------------------------------------------------------------
(* Steps that leave the process table and the counts alone.                *)

\* p goes on without a change that others can see.
SameKind(p) ==
    \/ slotpc'[p] = slotpc[p]
    \/ {slotpc[p], slotpc'[p]} \subseteq {"run", "sleep", "asleep", "woken", "collect", "intr"}
    \/ {slotpc[p], slotpc'[p]} \subseteq {"addbroken", "break", "broken", "die"}
    \/ slotpc[p] = "run" /\ slotpc'[p] = "exit" /\ p # Boot

LEMMA TableKept ==
    ASSUME SlotInv, UNCHANGED <<E!tableVars, E!countVars>>, \A p \in Slots : SameKind(p),
           Boot \in Slots
    PROVE  Pids' /\ Makers' /\ FreeList' /\ Parents' /\ ChildCounts' /\ WaitRecords'
<1> USE DEF SlotInv
<1>1. ASSUME NEW p \in Slots
      PROVE  /\ (slotpc'[p] = "free" <=> slotpc[p] = "free") /\ (slotpc'[p] = "new" <=> slotpc[p] = "new")
             /\ (slotpc'[p] = "dead" <=> slotpc[p] = "dead")
             /\ (slotpc'[p] = "fork" <=> slotpc[p] = "fork") /\ (Making(p)' <=> Making(p))
             /\ (Named(p)' <=> Named(p)) /\ (Running(p)' <=> Running(p))
             /\ (E!Alive(p)' => E!Alive(p)) /\ (Gone(p) => Gone(p)')
             /\ (p = Boot /\ E!Alive(p) => E!Alive(p)')
  <2>1. SameKind(p)
      OBVIOUS
  <2>2. QED  BY <2>1 DEF SameKind, Making, Named, Running, E!Alive, Gone
<1>2. Pids'
    BY <1>1 DEF Pids
<1>3. Makers'
    BY <1>1 DEF Makers, Making
<1>4. FreeList'
  <2>1. \A i \in 1 .. Len(slotfree) : slotfree[i] \in Slots
      BY DEF E!TypeOK
  <2>2. QED  BY <1>1, <2>1 DEF FreeList
<1>5. Parents'
    BY <1>1 DEF Parents
<1>6. \A p \in Slots : Children(p)' = Children(p)
    BY <1>1 DEF Children
<1>7. ChildCounts'
    BY <1>1, <1>6 DEF ChildCounts
<1>8. WaitRecords'
    BY <1>1 DEF WaitRecords
<1>9. QED  BY <1>2, <1>3, <1>4, <1>5, <1>7, <1>8

\* The process in slot p goes on to l.
LEMMA GoesOn ==
    ASSUME Hyp, SlotInv, NEW p \in Slots,
           NEW l \in {"run", "sleep", "asleep", "woken", "collect", "intr", "exit",
                      "addbroken", "break", "broken", "die"},
           slotpc' = [slotpc EXCEPT ![p] = l], UNCHANGED <<E!tableVars, E!countVars, debug, target>>,
           \/ {slotpc[p], l} \subseteq {"run", "sleep", "asleep", "woken", "collect", "intr"}
           \/ {slotpc[p], l} \subseteq {"addbroken", "break", "broken", "die"}
           \/ slotpc[p] = "run" /\ l = "exit" /\ p # Boot,
           WaitsAt(p)', \A r \in Slots : r # p => broken'[r] = broken[r],
           \A r \in Slots : r # p => notepending'[r] = notepending[r],
           \A n \in Posters : target[n] = p => notepending'[p] \/ l = "intr",
           broken' \in [Slots -> BOOLEAN], ready' \in [Slots -> BOOLEAN],
           notepending' \in [Slots -> BOOLEAN], brokenq' \in Seq(Slots)
    PROVE  SlotInv'
<1> USE DEF SlotInv
<1>1. slotpc'[p] = l /\ \A r \in Slots : r # p => slotpc'[r] = slotpc[r]
    BY DEF E!TypeOK
<1>2. Pids' /\ Makers' /\ FreeList' /\ Parents' /\ ChildCounts' /\ WaitRecords'
  <2>1. \A r \in Slots : SameKind(r)
      BY <1>1 DEF SameKind
  <2>2. Boot \in Slots
      BY DEF Hyp, E!ConstantsAssumption
  <2>3. QED  BY <2>1, <2>2, TableKept
<1>3. E!TypeOK'
    BY DEF E!TypeOK
<1>4. Waits'
  <2>1. ASSUME NEW r \in Slots, r # p PROVE WaitsAt(r)'
    <3>1. WaitsAt(r)
        BY DEF Waits
    <3>2. QED  BY <3>1, <2>1, <1>1 DEF WaitsAt
  <2>2. QED  BY <2>1 DEF Waits
<1>5. Notes'
  <2>1. ASSUME NEW n \in Posters, target[n] # Nil
        PROVE  /\ debug[target[n]] = n /\ slotpc'[target[n]] # "free"
               /\ notepending'[target[n]] \/ slotpc'[target[n]] = "intr"
    <3>1. CASE target[n] = p
        BY <3>1, <2>1, <1>1 DEF Notes
    <3>2. CASE target[n] # p
      <4>1. target[n] \in Slots
          BY <2>1 DEF E!TypeOK
      <4>2. QED  BY <3>2, <4>1, <2>1, <1>1 DEF Notes
    <3>3. QED  BY <3>1, <3>2
  <2>2. QED  BY <2>1 DEF Notes
<1>6. QED  BY <1>2, <1>3, <1>4, <1>5

LEMMA QuietStep ==
    ASSUME Hyp, SlotInv, NEW p \in Slots,
           \/ E!ExitStart(p) \/ E!AddBroken(p) \/ E!Break(p) \/ E!Resume(p)
           \/ E!WaitCheck(p) \/ E!WaitSleep(p) \/ E!WaitAwake(p) \/ E!Notify(p)
    PROVE  SlotInv'
<1> USE DEF SlotInv
<1>1. /\ broken \in [Slots -> BOOLEAN] /\ ready \in [Slots -> BOOLEAN]
      /\ notepending \in [Slots -> BOOLEAN] /\ brokenq \in Seq(Slots)
      /\ WaitsAt(p) /\ slotpc \in [Slots -> {"free", "new", "run", "forkpid", "fork", "sleep",
               "asleep", "woken", "collect", "intr", "exit", "addbroken", "break", "broken",
               "die", "dead"}]
    BY DEF E!TypeOK, Waits
<1>2. \A n \in Posters : target[n] = p => debug[p] = n /\ (notepending[p] \/ slotpc[p] = "intr")
    BY DEF Notes, Hyp, E!ConstantsAssumption
<1>3. CASE E!ExitStart(p)
  <2>1. /\ slotpc[p] = "run" /\ p # Boot /\ slotpc' = [slotpc EXCEPT ![p] = "exit"]
        /\ UNCHANGED <<E!tableVars, E!countVars, E!brokenVars, E!noteVars>>
      BY <1>3 DEF E!ExitStart
  <2>2. WaitsAt(p)'
      BY <2>1, <1>1 DEF WaitsAt
  <2>3. \A n \in Posters : target[n] = p => notepending'[p]
      BY <2>1, <1>2
  <2>4. QED  BY <2>1, <2>2, <2>3, <1>1, GoesOn
<1>4. CASE E!AddBroken(p)
  <2>1. PICK full \in BOOLEAN : full = (Len(brokenq) = NBroken)
      OBVIOUS
  <2>2. full => brokenq # << >>
      BY <2>1 DEF Hyp, E!ConstantsAssumption
  <2>3. full => Head(brokenq) \in Slots /\ Tail(brokenq) \in Seq(Slots)
      BY <1>1, <2>2
  <2>4. PICK b \in Seq(Slots) : b = IF full THEN Tail(brokenq) ELSE brokenq
      BY <1>1, <2>3
  <2>5. brokenq' \in Seq(Slots) /\ ready' \in [Slots -> BOOLEAN]
    <3>1. brokenq' = Append(b, p)
        BY <1>4, <2>1, <2>4 DEF E!AddBroken
    <3>2. ready' = IF full THEN [ready EXCEPT ![Head(brokenq)] = TRUE] ELSE ready
        BY <1>4, <2>1 DEF E!AddBroken
    <3>3. QED  BY <3>1, <3>2, <2>3, <1>1
  <2>6. /\ slotpc[p] = "addbroken" /\ slotpc' = [slotpc EXCEPT ![p] = "break"]
        /\ UNCHANGED <<E!tableVars, E!countVars, broken, E!noteVars>>
      BY <1>4 DEF E!AddBroken
  <2>7. WaitsAt(p)'
      BY <2>6, <1>1 DEF WaitsAt
  <2>8. \A n \in Posters : target[n] = p => notepending'[p]
      BY <2>6, <1>2
  <2>9. QED  BY <2>5, <2>6, <2>7, <2>8, <1>1, GoesOn
<1>5. CASE E!Break(p)
  <2>1. /\ slotpc[p] = "break" /\ slotpc' = [slotpc EXCEPT ![p] = "broken"]
        /\ broken' \in [Slots -> BOOLEAN] /\ \A r \in Slots : r # p => broken'[r] = broken[r]
        /\ UNCHANGED <<E!tableVars, E!countVars, ready, brokenq, E!noteVars>>
      BY <1>1, <1>5 DEF E!Break
  <2>2. WaitsAt(p)'
      BY <2>1, <1>1 DEF WaitsAt
  <2>3. \A n \in Posters : target[n] = p => notepending'[p]
      BY <2>1, <1>2
  <2>4. QED  BY <2>1, <2>2, <2>3, <1>1, GoesOn
<1>6. CASE E!Resume(p)
  <2>1. /\ slotpc[p] = "broken" /\ slotpc' = [slotpc EXCEPT ![p] = "die"]
        /\ broken' \in [Slots -> BOOLEAN] /\ \A r \in Slots : r # p => broken'[r] = broken[r]
        /\ broken'[p] = FALSE /\ ready' \in [Slots -> BOOLEAN]
        /\ UNCHANGED <<E!tableVars, E!countVars, brokenq, E!noteVars>>
      BY <1>1, <1>6 DEF E!Resume
  <2>2. WaitsAt(p)'
      BY <2>1, <1>1 DEF WaitsAt
  <2>3. \A n \in Posters : target[n] = p => notepending'[p]
      BY <2>1, <1>2
  <2>4. QED  BY <2>1, <2>2, <2>3, <1>1, GoesOn
<1>7. CASE E!WaitCheck(p)
  <2>1. /\ slotpc[p] = "run" /\ slotpc' = [slotpc EXCEPT ![p] = "sleep"]
        /\ nchild[p] # 0 \/ waitq[p] # << >>
        /\ UNCHANGED <<E!tableVars, E!countVars, E!brokenVars, E!noteVars>>
      BY <1>7 DEF E!WaitCheck
  <2>2. WaitsAt(p)'
      BY <2>1, <1>1 DEF WaitsAt
  <2>3. \A n \in Posters : target[n] = p => notepending'[p]
      BY <2>1, <1>2
  <2>4. QED  BY <2>1, <2>2, <2>3, <1>1, GoesOn
<1>8. CASE E!WaitSleep(p)
  <2>1. PICK l \in {"woken", "asleep"} :
            l = IF waitq[p] # << >> \/ notepending[p] THEN "woken" ELSE "asleep"
      OBVIOUS
  <2>2. /\ slotpc[p] = "sleep" /\ slotpc' = [slotpc EXCEPT ![p] = l]
        /\ UNCHANGED <<E!tableVars, E!countVars, E!brokenVars, E!noteVars>>
      BY <1>8, <2>1 DEF E!WaitSleep
  <2>3. WaitsAt(p)'
      BY <2>1, <2>2, <1>1 DEF WaitsAt
  <2>4. \A n \in Posters : target[n] = p => notepending'[p]
      BY <2>2, <1>2
  <2>5. QED  BY <2>2, <2>3, <2>4, <1>1, GoesOn
<1>9. CASE E!WaitAwake(p)
  <2>1. PICK l \in {"intr", "collect"} : l = IF notepending[p] THEN "intr" ELSE "collect"
      OBVIOUS
  <2>2. /\ slotpc[p] = "woken" /\ slotpc' = [slotpc EXCEPT ![p] = l]
        /\ UNCHANGED <<E!tableVars, E!countVars, E!brokenVars, debug, target>>
        /\ notepending' \in [Slots -> BOOLEAN]
        /\ \A r \in Slots : r # p => notepending'[r] = notepending[r]
      BY <1>1, <1>9, <2>1 DEF E!WaitAwake
  <2>3. WaitsAt(p)'
      BY <2>1, <2>2, <1>1 DEF WaitsAt
  <2>4. \A n \in Posters : target[n] = p => l = "intr"
      BY <2>1, <2>2, <1>2
  <2>5. QED  BY <2>2, <2>3, <2>4, <1>1, GoesOn
<1>10. CASE E!Notify(p)
  <2>1. /\ slotpc[p] \in {"intr", "run"} /\ slotpc' = [slotpc EXCEPT ![p] = "run"] /\ debug[p] = Nil
        /\ UNCHANGED <<E!tableVars, E!countVars, E!brokenVars, debug, target>>
        /\ notepending' \in [Slots -> BOOLEAN]
        /\ \A r \in Slots : r # p => notepending'[r] = notepending[r]
      BY <1>1, <1>10 DEF E!Notify
  <2>2. \A n \in Posters : target[n] # p
      BY <2>1, <1>2 DEF Hyp, E!ConstantsAssumption
  <2>3. WaitsAt(p)'
      BY <2>1, <1>1 DEF WaitsAt
  <2>4. QED  BY <2>1, <2>2, <2>3, <1>1, GoesOn
<1>11. QED
    BY <1>3, <1>4, <1>5, <1>6, <1>7, <1>8, <1>9, <1>10

LEMMA UnbreakStep ==
    ASSUME Hyp, SlotInv, NEW p \in Slots, E!Unbreak(p)
    PROVE  SlotInv'
<1> USE DEF SlotInv
<1>1. UNCHANGED <<slotpc, E!tableVars, E!countVars, broken, E!noteVars>>
    BY DEF E!Unbreak
<1>2. Pids' /\ Makers' /\ FreeList' /\ Parents' /\ ChildCounts' /\ WaitRecords'
    BY <1>1, TableKept DEF SameKind, Hyp, E!ConstantsAssumption
<1>3. brokenq' \in Seq(Slots) /\ ready' \in [Slots -> BOOLEAN]
  <2>1. PICK i \in 1 .. Len(brokenq) : brokenq' = E!RemoveAt(brokenq, i)
      BY DEF E!Unbreak
  <2>2. brokenq \in Seq(Slots) /\ ready \in [Slots -> BOOLEAN]
      BY DEF E!TypeOK
  <2>3. /\ SubSeq(brokenq, 1, i - 1) \in Seq(Slots)
        /\ SubSeq(brokenq, i + 1, Len(brokenq)) \in Seq(Slots)
      BY <2>2
  <2>4. E!RemoveAt(brokenq, i) \in Seq(Slots)
      BY <2>3 DEF E!RemoveAt
  <2>5. QED  BY <2>1, <2>2, <2>4 DEF E!Unbreak
<1>4. E!TypeOK'
    BY <1>1, <1>3 DEF E!TypeOK
<1>5. Waits' /\ Notes'
    BY <1>1 DEF Waits, WaitsAt, Notes
<1>6. QED  BY <1>2, <1>4, <1>5

LEMMA NotePostStep ==
    ASSUME Hyp, SlotInv, NEW n \in Posters, NEW p \in Slots, E!NotePost(n, p)
    PROVE  SlotInv'
<1> USE DEF SlotInv
<1>1. /\ UNCHANGED <<slotpc, E!tableVars, E!countVars, E!brokenVars>>
      /\ debug[p] = Nil /\ pid[p] # 0 /\ target[n] = Nil
      /\ debug' = [debug EXCEPT ![p] = n] /\ target' = [target EXCEPT ![n] = p]
      /\ notepending' = [notepending EXCEPT ![p] = TRUE]
    BY DEF E!NotePost
<1>2. Pids' /\ Makers' /\ FreeList' /\ Parents' /\ ChildCounts' /\ WaitRecords'
    BY <1>1, TableKept DEF SameKind, Hyp, E!ConstantsAssumption
<1>3. E!TypeOK'
    BY <1>1 DEF E!TypeOK
<1>4. /\ debug'[p] = n /\ \A r \in Slots : r # p => debug'[r] = debug[r]
      /\ target'[n] = p /\ \A m \in Posters : m # n => target'[m] = target[m]
      /\ notepending'[p] = TRUE /\ \A r \in Slots : r # p => notepending'[r] = notepending[r]
    BY <1>1 DEF E!TypeOK
<1>5. Waits'
  <2>1. \A r \in Slots : notepending[r] => notepending'[r]
      BY <1>4
  <2>2. QED  BY <2>1, <1>1 DEF Waits, WaitsAt
<1>6. Notes'
  <2>1. ASSUME NEW m \in Posters, target'[m] # Nil
        PROVE  /\ debug'[target'[m]] = m /\ slotpc[target'[m]] # "free"
               /\ notepending'[target'[m]] \/ slotpc[target'[m]] = "intr"
    <3>1. CASE m = n
        BY <3>1, <1>1, <1>4 DEF Pids
    <3>2. CASE m # n
      <4>1. target[m] = target'[m] /\ target[m] \in Slots
          BY <3>2, <2>1, <1>4 DEF E!TypeOK
      <4>2. /\ debug[target[m]] = m /\ slotpc[target[m]] # "free"
            /\ notepending[target[m]] \/ slotpc[target[m]] = "intr"
          BY <4>1, <2>1 DEF Notes
      <4>3. target[m] # p
          BY <4>2, <1>1 DEF Hyp, E!ConstantsAssumption
      <4>4. QED  BY <4>1, <4>2, <4>3, <1>4
    <3>3. QED  BY <3>1, <3>2
  <2>2. QED  BY <2>1, <1>1 DEF Notes
<1>7. QED  BY <1>2, <1>3, <1>5, <1>6

LEMMA NoteWakeStep ==
    ASSUME Hyp, SlotInv, NEW n \in Posters, E!NoteWake(n)
    PROVE  SlotInv'
<1> USE DEF SlotInv
<1>1. PICK p, l : p = target[n] /\ l = IF slotpc[p] = "asleep" THEN "woken" ELSE slotpc[p]
    OBVIOUS
<1>2. /\ p # Nil /\ slotpc' = [slotpc EXCEPT ![p] = l]
      /\ debug' = [debug EXCEPT ![p] = Nil] /\ target' = [target EXCEPT ![n] = Nil]
      /\ UNCHANGED <<E!tableVars, E!countVars, E!brokenVars, notepending>>
    BY <1>1 DEF E!NoteWake
<1>3. p \in Slots /\ debug[p] = n /\ (notepending[p] \/ slotpc[p] = "intr")
    BY <1>1, <1>2 DEF E!TypeOK, Notes
<1>4. /\ slotpc'[p] = l /\ \A r \in Slots : r # p => slotpc'[r] = slotpc[r]
      /\ \A r \in Slots : r # p => debug'[r] = debug[r]
      /\ target'[n] = Nil /\ \A m \in Posters : m # n => target'[m] = target[m]
    BY <1>2, <1>3 DEF E!TypeOK
<1>5. Pids' /\ Makers' /\ FreeList' /\ Parents' /\ ChildCounts' /\ WaitRecords'
  <2>1. \A r \in Slots : SameKind(r)
      BY <1>1, <1>4 DEF SameKind
  <2>2. QED  BY <2>1, <1>2, TableKept DEF Hyp, E!ConstantsAssumption
<1>6. E!TypeOK'
  <2>1. l \in {"free", "new", "run", "forkpid", "fork", "sleep", "asleep", "woken",
               "collect", "intr", "exit", "addbroken", "break", "broken", "die", "dead"}
      BY <1>1, <1>3 DEF E!TypeOK
  <2>2. QED  BY <2>1, <1>2, <1>3 DEF E!TypeOK
<1>7. Waits'
  <2>1. ASSUME NEW r \in Slots PROVE WaitsAt(r)'
    <3>1. WaitsAt(r)
        BY DEF Waits
    <3>2. CASE r = p
        BY <3>1, <3>2, <1>1, <1>2, <1>3, <1>4 DEF WaitsAt
    <3>3. CASE r # p
        BY <3>1, <3>3, <1>2, <1>4 DEF WaitsAt
    <3>4. QED  BY <3>2, <3>3
  <2>2. QED  BY <2>1 DEF Waits
<1>8. Notes'
  <2>1. ASSUME NEW m \in Posters, target'[m] # Nil
        PROVE  /\ debug'[target'[m]] = m /\ slotpc'[target'[m]] # "free"
               /\ notepending'[target'[m]] \/ slotpc'[target'[m]] = "intr"
    <3>1. m # n /\ target'[m] = target[m] /\ target[m] \in Slots
        BY <2>1, <1>4 DEF E!TypeOK
    <3>2. /\ debug[target[m]] = m /\ slotpc[target[m]] # "free"
          /\ notepending[target[m]] \/ slotpc[target[m]] = "intr"
        BY <2>1, <3>1 DEF Notes
    <3>3. target[m] # p
        BY <3>1, <3>2, <1>3
    <3>4. QED  BY <3>1, <3>2, <3>3, <1>2, <1>4
  <2>2. QED  BY <2>1 DEF Notes
<1>9. QED  BY <1>5, <1>6, <1>7, <1>8

----------------------------------------------------------------------------
(* Steps that change the process table or the counts.                      *)

LEMMA RforkAllocStep ==
    ASSUME Hyp, SlotInv, NEW p \in Slots, E!RforkAlloc(p)
    PROVE  SlotInv'
<1> USE DEF SlotInv
<1>1. PICK c : c = Head(slotfree)
    OBVIOUS
<1>2. /\ slotpc[p] = "run" /\ slotfree # << >> /\ slotfree' = Tail(slotfree)
      /\ child' = [child EXCEPT ![p] = c] /\ nchild' = [nchild EXCEPT ![c] = 0]
      /\ nwait' = [nwait EXCEPT ![c] = 0] /\ waitq' = [waitq EXCEPT ![c] = << >>]
      /\ parent' = [parent EXCEPT ![c] = Nil]
      /\ notepending' = [notepending EXCEPT ![c] = FALSE]
      /\ slotpc' = [slotpc EXCEPT ![p] = "forkpid", ![c] = "new"]
      /\ UNCHANGED <<pid, parentpid, pidalloc, kin, E!brokenVars, debug, target>>
    BY <1>1 DEF E!RforkAlloc
<1>3. /\ slotfree \in Seq(Slots)
      /\ Tail(slotfree) \in Seq(Slots) /\ Len(slotfree) \in Nat \ {0} /\ Len(Tail(slotfree)) = Len(slotfree) - 1
      /\ c \in Slots /\ c = slotfree[1] /\ 1 \in 1 .. Len(slotfree)
      /\ \A j \in 1 .. Len(Tail(slotfree)) : j + 1 \in 1 .. Len(slotfree) /\ Tail(slotfree)[j] = slotfree[j + 1]
      /\ \A j, k \in 1 .. Len(Tail(slotfree)) : Tail(slotfree)[j] = Tail(slotfree)[k] => j = k
  <2>1. slotfree \in Seq(Slots)
      BY DEF E!TypeOK
  <2>2. QED  BY <1>1, <1>2, <2>1, Popped DEF FreeList
<1>4. slotpc[c] = "free" /\ c # p /\ c # Boot /\ pid[c] = 0
    BY <1>2, <1>3 DEF FreeList, Parents, E!Alive, Pids
<1>5. /\ slotpc'[p] = "forkpid" /\ slotpc'[c] = "new"
      /\ \A r \in Slots : r # p /\ r # c => slotpc'[r] = slotpc[r]
      /\ child'[p] = c /\ \A r \in Slots : r # p => child'[r] = child[r]
      /\ nchild'[c] = 0 /\ nwait'[c] = 0 /\ waitq'[c] = << >> /\ parent'[c] = Nil
      /\ \A r \in Slots : r # c => /\ nchild'[r] = nchild[r] /\ nwait'[r] = nwait[r]
                                   /\ waitq'[r] = waitq[r] /\ parent'[r] = parent[r]
                                   /\ notepending'[r] = notepending[r]
    BY <1>2, <1>3, <1>4 DEF E!TypeOK
<1>6. E!TypeOK'
  <2>1. << >> \in Seq(1 .. MaxPid) /\ 0 \in 0 .. MaxWait
      BY DEF Hyp, E!ConstantsAssumption
  <2>2. QED  BY <2>1, <1>2, <1>3, <1>4 DEF E!TypeOK
<1>7. ASSUME NEW r \in Slots
      PROVE  /\ (Named(r)' <=> Named(r)) /\ (Running(r)' <=> Running(r))
             /\ (E!Alive(r)' <=> E!Alive(r)) /\ (Gone(r)' <=> Gone(r))
             /\ (Making(r)' <=> Making(r) \/ r = p) /\ (slotpc'[r] = "fork" => slotpc[r] = "fork" /\ r # p)
             /\ (slotpc'[r] = "new" <=> slotpc[r] = "new" \/ r = c)
             /\ (slotpc'[r] \in {"free", "dead"} => slotpc[r] \in {"free", "dead"})
  <2>1. CASE r = p
      BY <2>1, <1>2, <1>4, <1>5 DEF Named, Running, E!Alive, Gone, Making
  <2>2. CASE r = c
      BY <2>2, <1>2, <1>4, <1>5 DEF Named, Running, E!Alive, Gone, Making
  <2>3. CASE r # p /\ r # c
      BY <2>3, <1>5 DEF Named, Running, E!Alive, Gone, Making
  <2>4. QED  BY <2>1, <2>2, <2>3
<1>8. Pids'
    BY <1>2, <1>7 DEF Pids
<1>9. Makers'
  <2>1. ASSUME NEW r \in Slots, Making(r)'
        PROVE  /\ child'[r] \in Slots /\ slotpc'[child'[r]] = "new"
               /\ slotpc'[r] = "fork" => pid'[child'[r]] # 0
    <3>1. CASE r = p
        BY <3>1, <1>3, <1>5
    <3>2. CASE r # p
      <4>1. /\ child[r] \in Slots /\ slotpc[child[r]] = "new" /\ (slotpc[r] = "fork" => pid[child[r]] # 0)
          BY <2>1, <3>2, <1>7 DEF Makers
      <4>2. child'[r] = child[r] /\ pid' = pid /\ (slotpc'[r] = "fork" => slotpc[r] = "fork")
          BY <3>2, <1>2, <1>5, <1>7
      <4>3. slotpc'[child[r]] = "new"
          BY <4>1, <1>7
      <4>4. QED  BY <4>1, <4>2, <4>3
    <3>3. QED  BY <3>1, <3>2
  <2>2. ASSUME NEW r \in Slots, NEW d \in Slots, Making(r)', Making(d)', child'[r] = child'[d]
        PROVE  r = d
    <3>1. \A e \in Slots : e # p /\ Making(e) => child'[e] = child[e] /\ child'[e] # c
        BY <1>4, <1>5 DEF Makers
    <3>2. QED  BY <2>2, <3>1, <1>5, <1>7 DEF Makers
  <2>3. ASSUME NEW r \in Slots, slotpc'[r] = "new"
        PROVE  /\ nchild'[r] = 0 /\ nwait'[r] = 0 /\ waitq'[r] = << >>
               /\ pid'[r] # 0 => \A d \in Slots : parentpid'[d] # pid'[r]
    <3>1. CASE r = c
        BY <3>1, <1>2, <1>4, <1>5
    <3>2. CASE r # c
      <4>1. slotpc[r] = "new"
          BY <2>3, <3>2, <1>7
      <4>2. /\ nchild[r] = 0 /\ nwait[r] = 0 /\ waitq[r] = << >>
            /\ pid[r] # 0 => \A d \in Slots : parentpid[d] # pid[r]
          BY <4>1 DEF Makers
      <4>3. QED  BY <3>2, <4>2, <1>2, <1>5
    <3>3. QED  BY <3>1, <3>2
  <2>4. QED  BY <2>1, <2>2, <2>3 DEF Makers
<1>10. FreeList'
  <2>1. ASSUME NEW i \in 1 .. Len(Tail(slotfree)) PROVE slotpc'[Tail(slotfree)[i]] = "free"
    <3>1. /\ i + 1 \in 1 .. Len(slotfree) /\ Tail(slotfree)[i] = slotfree[i + 1] /\ i + 1 # 1
          /\ Tail(slotfree)[i] \in Slots
        BY <1>3
    <3>2. slotfree[i + 1] # c /\ slotpc[slotfree[i + 1]] = "free"
        BY <3>1, <1>3 DEF FreeList
    <3>3. QED  BY <3>1, <3>2, <1>2, <1>5
  <2>2. QED  BY <2>1, <1>2, <1>3 DEF FreeList
<1>11. Parents'
  <2>1. ASSUME NEW d \in Slots, Running(d)', d # Boot
        PROVE  /\ parent'[d] \in Slots \ {d} /\ parentpid'[d] # 0 /\ pid'[d] \in kin'[parentpid'[d]]
    <3>1. Running(d) /\ d # c
        BY <2>1, <1>4, <1>7 DEF Running, E!Alive
    <3>2. QED  BY <2>1, <3>1, <1>2, <1>5 DEF Parents
  <2>2. E!Alive(Boot)' /\ parent'[Boot] = Nil
      BY <1>4, <1>5, <1>7 DEF Parents, Hyp, E!ConstantsAssumption
  <2>3. QED  BY <2>1, <2>2 DEF Parents
<1>12. \A r \in Slots : Children(r)' = Children(r)
  <2>1. \A d \in Slots : Running(d)' => parent'[d] = parent[d] /\ Running(d)
      BY <1>4, <1>5, <1>7 DEF Running, E!Alive
  <2>2. \A d \in Slots : Running(d) => parent'[d] = parent[d] /\ Running(d)'
      BY <2>1, <1>7
  <2>3. QED  BY <2>1, <2>2, <1>2 DEF Children
<1>13. \A r \in Slots : Named(r)' => r # c
    BY <1>5 DEF Named
<1>14. ChildCounts'
    BY <1>5, <1>7, <1>12, <1>13 DEF ChildCounts
<1>15. WaitRecords'
  <2>1. ASSUME NEW r \in Slots, NEW k \in E!ToSet(waitq'[r]) PROVE k <= pidalloc'
    <3>1. CASE r = c
        BY <3>1, <1>5 DEF E!ToSet
    <3>2. CASE r # c
        BY <3>2, <1>2, <1>5 DEF WaitRecords
    <3>3. QED  BY <3>1, <3>2
  <2>2. ASSUME NEW r \in Slots, Named(r)'
        PROVE  /\ nwait'[r] = Len(waitq'[r])
               /\ \A i, j \in 1 .. Len(waitq'[r]) : waitq'[r][i] = waitq'[r][j] => i = j
               /\ \A k \in E!ToSet(waitq'[r]) :
                     k \in kin'[pid'[r]] /\ \A d \in Slots : pid'[d] = k => Gone(d)'
    <3>1. Named(r) /\ waitq'[r] = waitq[r] /\ nwait'[r] = nwait[r]
        BY <2>2, <1>5, <1>7, <1>13
    <3>2. /\ nwait[r] = Len(waitq[r])
          /\ \A i, j \in 1 .. Len(waitq[r]) : waitq[r][i] = waitq[r][j] => i = j
          /\ \A k \in E!ToSet(waitq[r]) : k \in kin[pid[r]] /\ \A d \in Slots : pid[d] = k => Gone(d)
        BY <3>1 DEF WaitRecords
    <3>3. kin' = kin /\ pid' = pid /\ \A d \in Slots : Gone(d) => Gone(d)'
        BY <1>2, <1>7
    <3>4. QED  BY <3>1, <3>2, <3>3
  <2>3. QED  BY <2>1, <2>2 DEF WaitRecords
<1>16. Waits'
  <2>1. ASSUME NEW r \in Slots PROVE WaitsAt(r)'
    <3>1. WaitsAt(r)
        BY DEF Waits
    <3>2. CASE r = p
        BY <3>1, <3>2, <1>2, <1>5 DEF WaitsAt
    <3>3. CASE r = c
        BY <3>1, <3>3, <1>2, <1>4, <1>5 DEF WaitsAt
    <3>4. CASE r # p /\ r # c
      <4>1. /\ slotpc'[r] = slotpc[r] /\ nchild'[r] = nchild[r] /\ waitq'[r] = waitq[r]
            /\ notepending'[r] = notepending[r] /\ broken'[r] = broken[r]
          BY <3>4, <1>2, <1>5
      <4>2. QED  BY <4>1, <3>1 DEF WaitsAt
    <3>5. QED  BY <3>2, <3>3, <3>4
  <2>2. QED  BY <2>1 DEF Waits
<1>17. Notes'
  <2>1. ASSUME NEW n \in Posters, target[n] # Nil
        PROVE  /\ debug[target[n]] = n /\ slotpc'[target[n]] # "free"
               /\ notepending'[target[n]] \/ slotpc'[target[n]] = "intr"
    <3>1. target[n] \in Slots
        BY <2>1 DEF E!TypeOK
    <3>2. /\ debug[target[n]] = n /\ slotpc[target[n]] # "free"
          /\ notepending[target[n]] \/ slotpc[target[n]] = "intr"
        BY <2>1 DEF Notes
    <3>3. QED  BY <3>1, <3>2, <1>2, <1>4, <1>5, ZenonT(40)
  <2>2. QED  BY <2>1, <1>2 DEF Notes
<1>18. QED
    BY <1>6, <1>8, <1>9, <1>10, <1>11, <1>14, <1>15, <1>16, <1>17

LEMMA RforkPidStep ==
    ASSUME Hyp, SlotInv, NEW p \in Slots, E!RforkPid(p)
    PROVE  SlotInv'
<1> USE DEF SlotInv
<1>1. PICK c : c = child[p]
    OBVIOUS
<1>2. /\ slotpc[p] = "forkpid" /\ pidalloc < MaxPid /\ pidalloc' = pidalloc + 1
      /\ pid' = [pid EXCEPT ![c] = pidalloc + 1] /\ slotpc' = [slotpc EXCEPT ![p] = "fork"]
      /\ UNCHANGED <<parent, parentpid, child, slotfree, kin, E!countVars, E!brokenVars, E!noteVars>>
    BY <1>1 DEF E!RforkPid
<1>3. c \in Slots /\ slotpc[c] = "new" /\ c # p /\ Making(p)
    BY <1>1, <1>2 DEF Makers, Making
<1>4. /\ pidalloc \in 1 .. MaxPid /\ MaxPid \in Nat /\ pidalloc + 1 \in 1 .. MaxPid
      /\ \A r \in Slots : pid[r] \in Nat /\ parentpid[r] \in Nat
    BY <1>2 DEF Pids, Hyp, E!ConstantsAssumption, E!TypeOK
<1>5. /\ slotpc'[p] = "fork" /\ \A r \in Slots : r # p => slotpc'[r] = slotpc[r]
      /\ pid'[c] = pidalloc + 1 /\ \A r \in Slots : r # c => pid'[r] = pid[r]
    BY <1>2, <1>3 DEF E!TypeOK
<1>6. E!TypeOK'
    BY <1>2, <1>3, <1>4, SMTT(40) DEF E!TypeOK
<1>7. ASSUME NEW r \in Slots
      PROVE  /\ (Named(r)' <=> Named(r)) /\ (Running(r)' <=> Running(r))
             /\ (E!Alive(r)' <=> E!Alive(r)) /\ (Gone(r)' <=> Gone(r))
             /\ (Making(r)' <=> Making(r)) /\ (slotpc'[r] = "new" <=> slotpc[r] = "new")
             /\ (slotpc'[r] = "free" <=> slotpc[r] = "free") /\ (slotpc'[r] = "dead" <=> slotpc[r] = "dead")
  <2>1. CASE r = p
      BY <2>1, <1>2, <1>5 DEF Named, Running, E!Alive, Gone, Making
  <2>2. CASE r # p
      BY <2>2, <1>5 DEF Named, Running, E!Alive, Gone, Making
  <2>3. QED  BY <2>1, <2>2
<1>8. ASSUME NEW r \in Slots
      PROVE  pid[r] <= pidalloc /\ parentpid[r] <= pidalloc /\ pid[r] # pidalloc + 1
             /\ parentpid[r] # pidalloc + 1 /\ pid[r] <= pidalloc + 1 /\ parentpid[r] <= pidalloc + 1
  <2>1. pid[r] <= pidalloc /\ parentpid[r] <= pidalloc
      BY DEF Pids
  <2>2. QED  BY <2>1, <1>4
<1>9. Pids'
  <2>1. \A r, d \in Slots : pid'[r] = pid'[d] /\ pid'[r] # 0 => r = d
      BY <1>5, <1>8 DEF Pids
  <2>2. \A r \in Slots : pid'[r] <= pidalloc' /\ parentpid'[r] <= pidalloc'
      BY <1>2, <1>4, <1>5, <1>8
  <2>3. ASSUME NEW r \in Slots
        PROVE  /\ Named(r)' => pid'[r] # 0
               /\ slotpc'[r] \in {"free", "dead"} => pid'[r] = 0
    <3>1. CASE r = c
        BY <3>1, <1>3, <1>4, <1>5
    <3>2. CASE r # c
      <4>1. (Named(r) => pid[r] # 0) /\ (slotpc[r] \in {"free", "dead"} => pid[r] = 0)
          BY DEF Pids
      <4>2. QED  BY <3>2, <4>1, <1>5, <1>7
    <3>3. QED  BY <3>1, <3>2
  <2>4. QED  BY <2>1, <2>2, <2>3, <1>2, <1>4 DEF Pids
<1>10. Makers'
  <2>1. ASSUME NEW r \in Slots, Making(r)'
        PROVE  /\ child'[r] \in Slots /\ slotpc'[child'[r]] = "new"
               /\ slotpc'[r] = "fork" => pid'[child'[r]] # 0
    <3>1. /\ child[r] \in Slots /\ slotpc[child[r]] = "new" /\ (slotpc[r] = "fork" => pid[child[r]] # 0)
        BY <2>1, <1>7 DEF Makers
    <3>2. CASE r = p
        BY <3>2, <3>1, <1>1, <1>2, <1>3, <1>4, <1>5
    <3>3. CASE r # p
      <4>1. child[r] # c
          BY <2>1, <3>3, <1>1, <1>3, <1>7 DEF Makers
      <4>2. QED  BY <3>1, <3>3, <4>1, <1>2, <1>5, <1>7
    <3>4. QED  BY <3>2, <3>3
  <2>2. \A r, d \in Slots : Making(r)' /\ Making(d)' /\ child'[r] = child'[d] => r = d
      BY <1>2, <1>7 DEF Makers
  <2>3. ASSUME NEW r \in Slots, slotpc'[r] = "new"
        PROVE  /\ nchild'[r] = 0 /\ nwait'[r] = 0 /\ waitq'[r] = << >>
               /\ pid'[r] # 0 => \A d \in Slots : parentpid'[d] # pid'[r]
    <3>1. /\ nchild[r] = 0 /\ nwait[r] = 0 /\ waitq[r] = << >>
          /\ pid[r] # 0 => \A d \in Slots : parentpid[d] # pid[r]
        BY <2>3, <1>7 DEF Makers
    <3>2. CASE r = c
        BY <3>1, <3>2, <1>2, <1>5, <1>8
    <3>3. CASE r # c
        BY <3>1, <3>3, <1>2, <1>5
    <3>4. QED  BY <3>2, <3>3
  <2>4. QED  BY <2>1, <2>2, <2>3 DEF Makers
<1>11. FreeList'
  <2>1. \A i \in 1 .. Len(slotfree) : slotfree[i] \in Slots
      BY DEF E!TypeOK
  <2>2. QED  BY <2>1, <1>2, <1>7 DEF FreeList
<1>12. \A d \in Slots : Running(d) => d # c
    BY <1>3 DEF Running, E!Alive
<1>13. Parents'
    BY <1>2, <1>5, <1>7, <1>12 DEF Parents, Hyp, E!ConstantsAssumption
<1>14. \A r \in Slots : Named(r) => r # c
    BY <1>3 DEF Named
<1>15. \A r \in Slots : Named(r) => Children(r)' = Children(r)
    BY <1>2, <1>5, <1>7, <1>14 DEF Children
<1>16. ChildCounts'
    BY <1>2, <1>7, <1>15 DEF ChildCounts
<1>17. WaitRecords'
  <2>1. ASSUME NEW r \in Slots, NEW k \in E!ToSet(waitq[r])
        PROVE  k <= pidalloc' /\ k # pidalloc + 1
    <3>1. k <= pidalloc
        BY DEF WaitRecords
    <3>2. k \in Nat
      <4>1. waitq[r] \in Seq(1 .. MaxPid)
          BY DEF E!TypeOK
      <4>2. QED  BY <4>1, <1>4 DEF E!ToSet
    <3>3. QED  BY <3>1, <3>2, <1>2, <1>4
  <2>2. ASSUME NEW r \in Slots, Named(r)', NEW k \in E!ToSet(waitq[r])
        PROVE  k \in kin'[pid'[r]] /\ \A d \in Slots : pid'[d] = k => Gone(d)'
    <3>1. r # c /\ k \in kin[pid[r]] /\ \A d \in Slots : pid[d] = k => Gone(d)
        BY <2>2, <1>7, <1>14 DEF WaitRecords
    <3>2. QED  BY <3>1, <2>1, <1>2, <1>5, <1>7
  <2>3. QED  BY <2>1, <2>2, <1>2, <1>7 DEF WaitRecords
<1>18. Waits'
  <2>1. ASSUME NEW r \in Slots PROVE WaitsAt(r)'
    <3>1. WaitsAt(r)
        BY DEF Waits
    <3>2. CASE r = p
        BY <3>1, <3>2, <1>2, <1>5 DEF WaitsAt
    <3>3. CASE r # p
        BY <3>1, <3>3, <1>2, <1>5 DEF WaitsAt
    <3>4. QED  BY <3>2, <3>3
  <2>2. QED  BY <2>1 DEF Waits
<1>19. Notes'
  <2>1. ASSUME NEW n \in Posters, target[n] # Nil
        PROVE  /\ debug[target[n]] = n /\ slotpc'[target[n]] # "free"
               /\ notepending[target[n]] \/ slotpc'[target[n]] = "intr"
    <3>1. target[n] \in Slots
        BY <2>1 DEF E!TypeOK
    <3>2. QED  BY <2>1, <3>1, <1>2, <1>5 DEF Notes
  <2>2. QED  BY <2>1, <1>2 DEF Notes
<1>20. QED
    BY <1>6, <1>9, <1>10, <1>11, <1>13, <1>16, <1>17, <1>18, <1>19

LEMMA RforkStep ==
    ASSUME Hyp, SlotInv, NEW p \in Slots, NEW nowait \in RforkNowait, E!Rfork(p, nowait)
    PROVE  SlotInv'
<1> USE DEF SlotInv
<1>1. PICK c : c = child[p]
    OBVIOUS
<1>2. nowait = FALSE
    BY DEF Hyp, AllWaitable
<1>3. /\ slotpc[p] = "fork" /\ parent' = [parent EXCEPT ![c] = p]
      /\ parentpid' = [parentpid EXCEPT ![c] = pid[p]]
      /\ nchild' = [nchild EXCEPT ![p] = nchild[p] + 1]
      /\ kin' = [kin EXCEPT ![pid[p]] = kin[pid[p]] \union {pid[c]}]
      /\ child' = [child EXCEPT ![p] = Nil]
      /\ slotpc' = [slotpc EXCEPT ![p] = "run", ![c] = "run"]
    BY <1>1, <1>2 DEF E!Rfork
<1>4. UNCHANGED <<pid, slotfree, pidalloc, nwait, waitq, E!brokenVars, E!noteVars>>
    BY DEF E!Rfork
<1>5. c \in Slots /\ slotpc[c] = "new" /\ c # p /\ Making(p) /\ c # Boot /\ pid[c] # 0
    BY <1>1, <1>3 DEF Makers, Making, Parents, E!Alive
<1>6. /\ pid[p] \in 1 .. MaxPid /\ pid[c] \in 1 .. MaxPid /\ pid[p] <= pidalloc
      /\ \A r \in Slots : r # p => pid[r] # pid[p]
      /\ \A d \in Slots : parentpid[d] # pid[c]
  <2>1. pid[p] # 0
      BY <1>3 DEF Pids, Named
  <2>2. pid[p] \in 0 .. MaxPid /\ pid[c] \in 0 .. MaxPid /\ MaxPid \in Nat
      BY <1>5 DEF E!TypeOK, Hyp, E!ConstantsAssumption
  <2>3. QED  BY <2>1, <2>2, <1>5 DEF Pids, Makers
<1>7. /\ slotpc'[p] = "run" /\ slotpc'[c] = "run"
      /\ \A r \in Slots : r # p /\ r # c => slotpc'[r] = slotpc[r]
      /\ parent'[c] = p /\ parentpid'[c] = pid[p]
      /\ \A r \in Slots : r # c => parent'[r] = parent[r] /\ parentpid'[r] = parentpid[r]
      /\ nchild'[p] = nchild[p] + 1 /\ \A r \in Slots : r # p => nchild'[r] = nchild[r]
      /\ \A r \in Slots : r # p => child'[r] = child[r]
    BY <1>3, <1>5 DEF E!TypeOK
<1>8. /\ kin' \in [1 .. MaxPid -> SUBSET (1 .. MaxPid)]
      /\ \A k \in 1 .. MaxPid : kin[k] \subseteq kin'[k]
      /\ pid[c] \in kin'[pid[p]]
    BY <1>3, <1>6 DEF Pids
<1>9. E!TypeOK'
  <2>1. nchild' \in [Slots -> Nat]
    <3>1. nchild \in [Slots -> Nat] /\ nchild[p] + 1 \in Nat
        BY DEF E!TypeOK
    <3>2. QED  BY <3>1, <1>3
  <2>2. parentpid' \in [Slots -> 0 .. MaxPid]
    <3>1. parentpid \in [Slots -> 0 .. MaxPid] /\ pid[p] \in 0 .. MaxPid
        BY DEF E!TypeOK
    <3>2. QED  BY <3>1, <1>3
  <2>3. QED  BY <2>1, <2>2, <1>3, <1>4, <1>5 DEF E!TypeOK
<1>10. ASSUME NEW r \in Slots
       PROVE  /\ (Named(r)' <=> Named(r) \/ r = c) /\ (Running(r)' <=> Running(r) \/ r = c)
              /\ (E!Alive(r)' <=> E!Alive(r) \/ r = c) /\ (Gone(r)' <=> Gone(r))
              /\ (Making(r)' <=> Making(r) /\ r # p) /\ (slotpc'[r] = "fork" <=> slotpc[r] = "fork" /\ r # p)
              /\ (slotpc'[r] = "new" <=> slotpc[r] = "new" /\ r # c)
              /\ (slotpc'[r] = "free" <=> slotpc[r] = "free") /\ (slotpc'[r] = "dead" <=> slotpc[r] = "dead")
  <2>1. CASE r = p
      BY <2>1, <1>3, <1>5, <1>7 DEF Named, Running, E!Alive, Gone, Making
  <2>2. CASE r = c
      BY <2>2, <1>3, <1>5, <1>7 DEF Named, Running, E!Alive, Gone, Making
  <2>3. CASE r # p /\ r # c
      BY <2>3, <1>7 DEF Named, Running, E!Alive, Gone, Making
  <2>4. QED  BY <2>1, <2>2, <2>3
<1>11. ~Named(c) /\ ~Running(c)
    BY <1>5 DEF Named, Running, E!Alive
<1>12. Pids'
  <2>1. \A r \in Slots : pid'[r] <= pidalloc' /\ parentpid'[r] <= pidalloc'
      BY <1>4, <1>6, <1>7 DEF Pids
  <2>2. ASSUME NEW r \in Slots
        PROVE  /\ Named(r)' => pid'[r] # 0
               /\ slotpc'[r] \in {"free", "dead"} => pid'[r] = 0
    <3>1. (Named(r) => pid[r] # 0) /\ (slotpc[r] \in {"free", "dead"} => pid[r] = 0)
        BY DEF Pids
    <3>2. QED  BY <3>1, <1>4, <1>5, <1>10
  <2>3. QED  BY <2>1, <2>2, <1>4, <1>8 DEF Pids
<1>13. Makers'
  <2>1. ASSUME NEW r \in Slots, Making(r)'
        PROVE  /\ child'[r] \in Slots /\ slotpc'[child'[r]] = "new"
               /\ slotpc'[r] = "fork" => pid'[child'[r]] # 0
    <3>1. r # p /\ Making(r) /\ child'[r] = child[r] /\ child[r] # c
        BY <2>1, <1>1, <1>5, <1>7, <1>10 DEF Makers
    <3>2. child[r] \in Slots /\ slotpc[child[r]] = "new" /\ (slotpc[r] = "fork" => pid[child[r]] # 0)
        BY <3>1 DEF Makers
    <3>3. slotpc'[child[r]] = "new"
        BY <3>1, <3>2, <1>10
    <3>4. QED  BY <3>1, <3>2, <3>3, <1>4, <1>10
  <2>2. ASSUME NEW r \in Slots, NEW d \in Slots, Making(r)', Making(d)', child'[r] = child'[d]
        PROVE  r = d
    <3>1. r # p /\ d # p /\ Making(r) /\ Making(d) /\ child[r] = child[d]
        BY <2>2, <1>7, <1>10
    <3>2. QED  BY <3>1 DEF Makers
  <2>3. ASSUME NEW r \in Slots, slotpc'[r] = "new"
        PROVE  /\ nchild'[r] = 0 /\ nwait'[r] = 0 /\ waitq'[r] = << >>
               /\ pid'[r] # 0 => \A d \in Slots : parentpid'[d] # pid'[r]
    <3>1. slotpc[r] = "new" /\ r # c /\ r # p
        BY <2>3, <1>3, <1>10
    <3>2. /\ nchild[r] = 0 /\ nwait[r] = 0 /\ waitq[r] = << >>
          /\ pid[r] # 0 => \A d \in Slots : parentpid[d] # pid[r]
        BY <3>1 DEF Makers
    <3>3. QED  BY <3>1, <3>2, <1>4, <1>6, <1>7
  <2>4. QED  BY <2>1, <2>2, <2>3 DEF Makers
<1>14. FreeList'
  <2>1. \A i \in 1 .. Len(slotfree) : slotfree[i] \in Slots
      BY DEF E!TypeOK
  <2>2. QED  BY <2>1, <1>4, <1>10 DEF FreeList
<1>15. Parents'
  <2>1. ASSUME NEW d \in Slots, Running(d)', d # Boot
        PROVE  /\ parent'[d] \in Slots \ {d} /\ parentpid'[d] # 0 /\ pid'[d] \in kin'[parentpid'[d]]
    <3>1. CASE d = c
        BY <3>1, <1>4, <1>5, <1>6, <1>7, <1>8
    <3>2. CASE d # c
      <4>1. parent[d] \in Slots \ {d} /\ parentpid[d] # 0 /\ pid[d] \in kin[parentpid[d]]
          BY <2>1, <3>2, <1>10 DEF Parents
      <4>2. parentpid[d] \in 1 .. MaxPid
        <5>1. parentpid[d] \in 0 .. MaxPid /\ MaxPid \in Nat
            BY DEF E!TypeOK, Hyp, E!ConstantsAssumption
        <5>2. QED  BY <4>1, <5>1
      <4>3. pid[d] \in kin'[parentpid[d]]
          BY <4>1, <4>2, <1>8
      <4>4. QED  BY <3>2, <4>1, <4>3, <1>4, <1>7
    <3>3. QED  BY <3>1, <3>2
  <2>2. E!Alive(Boot)' /\ parent'[Boot] = Nil
      BY <1>5, <1>7, <1>10 DEF Parents, Hyp, E!ConstantsAssumption
  <2>3. QED  BY <2>1, <2>2 DEF Parents
<1>16. ASSUME NEW r \in Slots, r # p PROVE Children(r)' = Children(r)
    BY <1>4, <1>7, <1>10, <1>11, <1>16 DEF Children
<1>17. Children(p)' = Children(p) \union {c} /\ c \notin Children(p)
    BY <1>4, <1>5, <1>7, <1>10, <1>11 DEF Children
<1>18. Children(c) = {}
    BY <1>6 DEF Children
<1>19. ChildCounts'
  <2>1. ASSUME NEW r \in Slots, Named(r)'
        PROVE  /\ Cardinality(Children(r)') <= nchild'[r]
               /\ E!Alive(r)' => nchild'[r] = Cardinality(Children(r)')
    <3>1. CASE r = p
      <4>1. nchild[p] = Cardinality(Children(p))
          BY <1>3 DEF ChildCounts, Named, E!Alive
      <4>2. Cardinality(Children(p) \union {c}) = Cardinality(Children(p)) + 1
          BY <1>17, ChildrenFinite, FS_AddElement
      <4>3. nchild'[p] = Cardinality(Children(p)') /\ Cardinality(Children(p)) \in Nat
          BY <4>1, <4>2, <1>7, <1>17, ChildrenFinite
      <4>4. QED  BY <3>1, <4>1, <4>2, <4>3, <1>7
    <3>2. CASE r = c
      <4>1. nchild'[c] = 0 /\ Children(c)' = {}
          BY <1>5, <1>7, <1>16, <1>18 DEF Makers
      <4>2. QED  BY <3>2, <4>1, FS_EmptySet
    <3>3. CASE r # p /\ r # c
      <4>1. Named(r) /\ (E!Alive(r)' => E!Alive(r)) /\ nchild'[r] = nchild[r]
          BY <2>1, <3>3, <1>7, <1>10
      <4>2. QED  BY <3>3, <4>1, <1>16 DEF ChildCounts
    <3>4. QED  BY <3>1, <3>2, <3>3
  <2>2. QED  BY <2>1 DEF ChildCounts
<1>20. WaitRecords'
  <2>1. ASSUME NEW r \in Slots, Named(r)'
        PROVE  /\ nwait'[r] = Len(waitq'[r])
               /\ \A i, j \in 1 .. Len(waitq'[r]) : waitq'[r][i] = waitq'[r][j] => i = j
               /\ \A k \in E!ToSet(waitq'[r]) :
                     k \in kin'[pid'[r]] /\ \A d \in Slots : pid'[d] = k => Gone(d)'
    <3>1. CASE r = c
      <4>1. nwait[c] = 0 /\ waitq[c] = << >>
          BY <1>5 DEF Makers
      <4>2. E!ToSet(waitq[c]) = {} /\ Len(waitq[c]) = 0
          BY <4>1 DEF E!ToSet
      <4>3. QED  BY <3>1, <4>1, <4>2, <1>4
    <3>2. CASE r # c
      <4>1. Named(r) /\ pid[r] \in 1 .. MaxPid
        <5>1. Named(r)
            BY <2>1, <3>2, <1>10
        <5>2. QED  BY <5>1, SMTT(40) DEF Pids, E!TypeOK, Hyp, E!ConstantsAssumption
      <4>2. /\ nwait[r] = Len(waitq[r])
            /\ \A i, j \in 1 .. Len(waitq[r]) : waitq[r][i] = waitq[r][j] => i = j
            /\ \A k \in E!ToSet(waitq[r]) : k \in kin[pid[r]] /\ \A d \in Slots : pid[d] = k => Gone(d)
          BY <4>1 DEF WaitRecords
      <4>3. kin[pid[r]] \subseteq kin'[pid[r]] /\ \A d \in Slots : Gone(d) => Gone(d)'
          BY <4>1, <1>8, <1>10
      <4>4. QED  BY <4>2, <4>3, <1>4
    <3>3. QED  BY <3>1, <3>2
  <2>2. \A r \in Slots : \A k \in E!ToSet(waitq'[r]) : k <= pidalloc'
      BY <1>4 DEF WaitRecords
  <2>3. QED  BY <2>1, <2>2 DEF WaitRecords
<1>21. Waits'
  <2>1. ASSUME NEW r \in Slots PROVE WaitsAt(r)'
    <3>1. WaitsAt(r)
        BY DEF Waits
    <3>2. CASE r = p \/ r = c
        BY <3>1, <3>2, <1>3, <1>4, <1>5, <1>7 DEF WaitsAt
    <3>3. CASE r # p /\ r # c
      <4>1. /\ slotpc'[r] = slotpc[r] /\ nchild'[r] = nchild[r] /\ waitq'[r] = waitq[r]
            /\ notepending'[r] = notepending[r] /\ broken'[r] = broken[r]
          BY <3>3, <1>4, <1>7
      <4>2. QED  BY <4>1, <3>1 DEF WaitsAt
    <3>4. QED  BY <3>2, <3>3
  <2>2. QED  BY <2>1 DEF Waits
<1>22. Notes'
  <2>1. ASSUME NEW n \in Posters, target[n] # Nil
        PROVE  /\ debug[target[n]] = n /\ slotpc'[target[n]] # "free"
               /\ notepending[target[n]] \/ slotpc'[target[n]] = "intr"
    <3>1. target[n] \in Slots
        BY <2>1 DEF E!TypeOK
    <3>2. /\ debug[target[n]] = n /\ slotpc[target[n]] # "free"
          /\ notepending[target[n]] \/ slotpc[target[n]] = "intr"
        BY <2>1 DEF Notes
    <3>3. QED  BY <3>1, <3>2, <1>3, <1>5, <1>7
  <2>2. QED  BY <2>1, <1>4 DEF Notes
<1>23. QED
    BY <1>9, <1>12, <1>13, <1>14, <1>15, <1>19, <1>20, <1>21, <1>22

\* p has left its record, or found nobody to leave it to.
LEMMA ExitTable ==
    ASSUME Hyp, SlotInv, NEW p \in Slots, NEW l \in {"addbroken", "die"}, slotpc[p] = "exit",
           slotpc'[p] = l, UNCHANGED E!tableVars,
           \A r \in Slots : r # p => slotpc'[r] = slotpc[r] \/ (slotpc[r] = "asleep" /\ slotpc'[r] = "woken"),
           \A r \in Slots : slotpc[r] = "new" =>
               nchild'[r] = nchild[r] /\ nwait'[r] = nwait[r] /\ waitq'[r] = waitq[r]
    PROVE  /\ Pids' /\ Makers' /\ FreeList' /\ Parents'
           /\ \A r \in Slots : Children(r)' = Children(r) \ {p}
           /\ \A r \in Slots : /\ (Named(r)' <=> Named(r)) /\ (E!Alive(r)' <=> E!Alive(r))
                               /\ (Gone(r)' <=> Gone(r) \/ r = p)
<1> USE DEF SlotInv
<1>1. ASSUME NEW r \in Slots
      PROVE  /\ (Named(r)' <=> Named(r)) /\ (Running(r)' <=> Running(r) /\ r # p)
             /\ (E!Alive(r)' <=> E!Alive(r)) /\ (Gone(r)' <=> Gone(r) \/ r = p)
             /\ (Making(r)' <=> Making(r)) /\ (slotpc'[r] = "fork" <=> slotpc[r] = "fork")
             /\ (slotpc'[r] = "new" <=> slotpc[r] = "new")
             /\ (slotpc'[r] = "free" <=> slotpc[r] = "free") /\ (slotpc'[r] = "dead" <=> slotpc[r] = "dead")
  <2>1. CASE r = p
      BY <2>1 DEF Named, Running, E!Alive, Gone, Making
  <2>2. CASE r # p
      BY <2>2 DEF Named, Running, E!Alive, Gone, Making
  <2>3. QED  BY <2>1, <2>2
<1>2. Pids'
    BY <1>1 DEF Pids
<1>3. Makers'
    BY <1>1 DEF Makers
<1>4. FreeList'
  <2>1. \A i \in 1 .. Len(slotfree) : slotfree[i] \in Slots
      BY DEF E!TypeOK
  <2>2. QED  BY <1>1, <2>1 DEF FreeList
<1>5. Parents'
    BY <1>1 DEF Parents, Hyp, E!ConstantsAssumption
<1>6. \A r \in Slots : Children(r)' = Children(r) \ {p}
    BY <1>1 DEF Children
<1>7. QED  BY <1>1, <1>2, <1>3, <1>4, <1>5, <1>6

\* The parent's slot, if the process there is still the parent.
LEMMA ParentThere ==
    ASSUME Hyp, SlotInv, NEW p \in Slots, slotpc[p] = "exit"
    PROVE  /\ p # Boot /\ parent[p] \in Slots /\ parent[p] # p /\ parentpid[p] # 0
           /\ pid[p] \in kin[parentpid[p]] /\ pid[p] \in 1 .. MaxPid /\ pid[p] <= pidalloc
           /\ Running(p)
           /\ pid[parent[p]] = parentpid[p] => Named(parent[p]) /\ p \in Children(parent[p])
           /\ \A r \in Slots : p \in Children(r) => r = parent[p] /\ pid[r] = parentpid[p]
<1> USE DEF SlotInv
<1>1. p # Boot /\ Running(p) /\ Named(p)
    BY DEF Parents, Running, E!Alive, Named
<1>2. parent[p] \in Slots \ {p} /\ parentpid[p] # 0 /\ pid[p] \in kin[parentpid[p]]
    BY <1>1 DEF Parents
<1>3. pid[p] \in 1 .. MaxPid /\ pid[p] <= pidalloc
  <2>1. pid[p] \in 0 .. MaxPid /\ MaxPid \in Nat
      BY DEF E!TypeOK, Hyp, E!ConstantsAssumption
  <2>2. QED  BY <2>1, <1>1 DEF Pids
<1>4. ASSUME pid[parent[p]] = parentpid[p] PROVE Named(parent[p])
  <2>1. slotpc[parent[p]] \notin {"free", "dead"}
      BY <1>2, <1>4 DEF Pids
  <2>2. slotpc[parent[p]] # "new"
      BY <1>2, <1>4 DEF Makers
  <2>3. QED  BY <2>1, <2>2 DEF Named
<1>5. QED  BY <1>1, <1>2, <1>3, <1>4 DEF Children

LEMMA ExitNotifyStep ==
    ASSUME Hyp, SlotInv, NEW p \in Slots, NEW l \in {"addbroken", "die"}, E!ExitNotify(p, l)
    PROVE  SlotInv'
<1> USE DEF SlotInv
<1>1. PICK q : q = parent[p]
    OBVIOUS
<1>2. slotpc[p] = "exit" /\ UNCHANGED <<E!tableVars, E!brokenVars, E!noteVars>>
    BY DEF E!ExitNotify
<1>3. /\ p # Boot /\ q \in Slots /\ q # p /\ parentpid[p] # 0
      /\ pid[p] \in kin[parentpid[p]] /\ pid[p] \in 1 .. MaxPid /\ pid[p] <= pidalloc
      /\ Running(p)
      /\ pid[q] = parentpid[p] => Named(q) /\ p \in Children(q)
      /\ \A r \in Slots : p \in Children(r) => r = q /\ pid[r] = parentpid[p]
    BY <1>1, <1>2, ParentThere
<1>4. /\ slotpc \in [Slots -> {"free", "new", "run", "forkpid", "fork", "sleep", "asleep", "woken",
                           "collect", "intr", "exit", "addbroken", "break", "broken", "die", "dead"}]
      /\ nchild \in [Slots -> Nat] /\ nwait \in [Slots -> 0 .. MaxWait]
      /\ waitq \in [Slots -> Seq(1 .. MaxPid)]
    BY DEF E!TypeOK
<1>5. CASE ~(pid[q] = parentpid[p] /\ ~broken[q])
  <2>1. slotpc' = [slotpc EXCEPT ![p] = l] /\ UNCHANGED E!countVars
      BY <1>1, <1>5 DEF E!ExitNotify
  <2>2. slotpc'[p] = l /\ \A r \in Slots : r # p => slotpc'[r] = slotpc[r]
      BY <2>1, <1>4
  <2>3. /\ Pids' /\ Makers' /\ FreeList' /\ Parents'
        /\ \A r \in Slots : Children(r)' = Children(r) \ {p}
        /\ \A r \in Slots : /\ (Named(r)' <=> Named(r)) /\ (E!Alive(r)' <=> E!Alive(r))
                            /\ (Gone(r)' <=> Gone(r) \/ r = p)
      BY <2>1, <2>2, <1>2, ExitTable
  <2>4. E!TypeOK'
      BY <2>1, <1>2 DEF E!TypeOK
  <2>5. ChildCounts'
    <3>1. ASSUME NEW r \in Slots, Named(r)'
          PROVE  /\ Cardinality(Children(r)') <= nchild'[r]
                 /\ E!Alive(r)' => nchild'[r] = Cardinality(Children(r)')
      <4>1. /\ Cardinality(Children(r)) <= nchild[r] /\ nchild'[r] = nchild[r]
            /\ E!Alive(r) => nchild[r] = Cardinality(Children(r))
          BY <3>1, <2>1, <2>3 DEF ChildCounts
      <4>2. CASE p \notin Children(r)
        <5>1. Children(r)' = Children(r)
            BY <4>2, <2>3
        <5>2. QED  BY <4>1, <5>1, <2>3
      <4>3. CASE p \in Children(r)
        <5>1. r = q /\ broken[q]
            BY <4>3, <1>3, <1>5
        <5>2. slotpc[q] = "broken"
            BY <5>1, <1>3 DEF Waits, WaitsAt
        <5>3. ~E!Alive(r)'
            BY <5>1, <5>2, <2>3 DEF E!Alive
        <5>4. Cardinality(Children(r) \ {p}) <= Cardinality(Children(r))
              /\ Cardinality(Children(r) \ {p}) \in Nat /\ Cardinality(Children(r)) \in Nat
          <6>1. IsFiniteSet(Children(r)) /\ Cardinality(Children(r)) \in Nat
              BY ChildrenFinite
          <6>2. Cardinality(Children(r) \ {p}) = Cardinality(Children(r)) - 1
                /\ IsFiniteSet(Children(r) \ {p})
              BY <6>1, <4>3, FS_RemoveElement
          <6>3. Cardinality(Children(r) \ {p}) \in Nat
              BY <6>2, FS_CardinalityType
          <6>4. QED  BY <6>1, <6>2, <6>3
        <5>5. nchild[r] \in Nat
            BY <1>4
        <5>6. QED  BY <4>1, <5>3, <5>4, <5>5, <2>3
      <4>4. QED  BY <4>2, <4>3
    <3>2. QED  BY <3>1 DEF ChildCounts
  <2>6. WaitRecords'
    <3>1. ASSUME NEW r \in Slots, Named(r)'
          PROVE  /\ nwait[r] = Len(waitq[r])
                 /\ \A i, j \in 1 .. Len(waitq[r]) : waitq[r][i] = waitq[r][j] => i = j
                 /\ \A k \in E!ToSet(waitq[r]) :
                       k \in kin[pid[r]] /\ \A d \in Slots : pid[d] = k => Gone(d)'
        BY <3>1, <2>3 DEF WaitRecords
    <3>2. QED  BY <3>1, <2>1, <1>2 DEF WaitRecords
  <2>7. Waits'
    <3>1. ASSUME NEW r \in Slots PROVE WaitsAt(r)'
      <4>1. WaitsAt(r)
          BY DEF Waits
      <4>2. QED  BY <4>1, <2>1, <2>2, <1>2 DEF WaitsAt
    <3>2. QED  BY <3>1 DEF Waits
  <2>8. Notes'
    <3>1. ASSUME NEW n \in Posters, target[n] # Nil
          PROVE  /\ debug[target[n]] = n /\ slotpc'[target[n]] # "free"
                 /\ notepending[target[n]] \/ slotpc'[target[n]] = "intr"
      <4>1. target[n] \in Slots
          BY <3>1 DEF E!TypeOK
      <4>2. QED  BY <3>1, <4>1, <2>2, <1>2 DEF Notes
    <3>2. QED  BY <3>1, <1>2 DEF Notes
  <2>9. QED  BY <2>3, <2>4, <2>5, <2>6, <2>7, <2>8
<1>6. CASE pid[q] = parentpid[p] /\ ~broken[q]
  <2>1. PICK rec \in BOOLEAN : rec = IF nwait[q] < MaxWait THEN TRUE ELSE FALSE
      OBVIOUS
  <2>2. PICK m : m = IF rec /\ slotpc[q] = "asleep" THEN "woken" ELSE slotpc[q]
      OBVIOUS
  <2>3. PICK w, k : /\ w = (IF rec THEN <<pid[p]>> \o waitq[q] ELSE waitq[q])
                    /\ k = (IF rec THEN nwait[q] + 1 ELSE nwait[q])
      OBVIOUS
  <2>4. /\ slotpc' = [[slotpc EXCEPT ![p] = l] EXCEPT ![q] = m]
        /\ nchild' = [nchild EXCEPT ![q] = nchild[q] - 1]
        /\ nwait' = [nwait EXCEPT ![q] = k] /\ waitq' = [waitq EXCEPT ![q] = w]
    <3>1. nchild' = [nchild EXCEPT ![q] = nchild[q] - 1]
        BY <1>1, <1>6 DEF E!ExitNotify
    <3>2. CASE rec
      <4>1. /\ nwait' = [nwait EXCEPT ![q] = @ + 1]
            /\ waitq' = [waitq EXCEPT ![q] = <<pid[p]>> \o @] /\ E!WakeupAndGoto(q, p, l)
          BY <3>2, <2>1, <1>1, <1>6 DEF E!ExitNotify
      <4>2. slotpc' = [slotpc EXCEPT ![p] = l, ![q] = IF @ = "asleep" THEN "woken" ELSE @]
          BY <4>1 DEF E!WakeupAndGoto
      <4>3. [slotpc EXCEPT ![p] = l][q] = slotpc[q]
          BY <1>3, <1>4
      <4>4. QED  BY <3>1, <3>2, <4>1, <4>2, <4>3, <2>2, <2>3, <1>3, <1>4
    <3>3. CASE ~rec
      <4>1. slotpc' = [slotpc EXCEPT ![p] = l] /\ UNCHANGED <<nwait, waitq>>
          BY <3>3, <2>1, <1>1, <1>6 DEF E!ExitNotify
      <4>2. QED  BY <3>1, <3>3, <4>1, <2>2, <2>3, <1>3, <1>4
    <3>4. QED  BY <3>2, <3>3
  <2>5. /\ slotpc'[p] = l /\ slotpc'[q] = m /\ \A r \in Slots : r # p /\ r # q => slotpc'[r] = slotpc[r]
        /\ nchild'[q] = nchild[q] - 1 /\ nwait'[q] = k /\ waitq'[q] = w
        /\ \A r \in Slots : r # q => /\ nchild'[r] = nchild[r] /\ nwait'[r] = nwait[r]
                                     /\ waitq'[r] = waitq[r]
      BY <2>4, <1>3, <1>4
  <2>6. Named(q) /\ p \in Children(q) /\ slotpc[q] # "new"
      BY <1>3, <1>6 DEF Named
  <2>7. /\ Pids' /\ Makers' /\ FreeList' /\ Parents'
        /\ \A r \in Slots : Children(r)' = Children(r) \ {p}
        /\ \A r \in Slots : /\ (Named(r)' <=> Named(r)) /\ (E!Alive(r)' <=> E!Alive(r))
                            /\ (Gone(r)' <=> Gone(r) \/ r = p)
    <3>1. \A r \in Slots : r # p => slotpc'[r] = slotpc[r] \/ (slotpc[r] = "asleep" /\ slotpc'[r] = "woken")
        BY <2>2, <2>5
    <3>2. \A r \in Slots : slotpc[r] = "new" =>
               nchild'[r] = nchild[r] /\ nwait'[r] = nwait[r] /\ waitq'[r] = waitq[r]
        BY <2>5, <2>6
    <3>3. QED  BY <3>1, <3>2, <2>5, <1>2, ExitTable
  <2>8. /\ waitq[q] \in Seq(1 .. MaxPid) /\ nwait[q] = Len(waitq[q]) /\ nwait[q] \in 0 .. MaxWait
        /\ \A i, j \in 1 .. Len(waitq[q]) : waitq[q][i] = waitq[q][j] => i = j
        /\ \A x \in E!ToSet(waitq[q]) :
              x \in kin[pid[q]] /\ x <= pidalloc /\ \A c \in Slots : pid[c] = x => Gone(c)
      BY <2>6, <1>3, <1>4 DEF WaitRecords
  <2>9. pid[p] \notin E!ToSet(waitq[q])
      BY <2>8, <1>2 DEF Gone
  <2>10. /\ w \in Seq(1 .. MaxPid) /\ Len(w) = k /\ k \in 0 .. MaxWait
         /\ E!ToSet(w) \subseteq E!ToSet(waitq[q]) \union {pid[p]} /\ w # << >>
         /\ \A i, j \in 1 .. Len(w) : w[i] = w[j] => i = j
    <3>1. MaxWait \in Nat \ {0}
        BY DEF Hyp, E!ConstantsAssumption
    <3>2. CASE rec
      <4>1. w = <<pid[p]>> \o waitq[q] /\ k = nwait[q] + 1 /\ nwait[q] < MaxWait
          BY <3>2, <2>1, <2>3
      <4>2. PICK s : s = waitq[q]
          OBVIOUS
      <4>3. PICK x : x = pid[p]
          OBVIOUS
      <4>4. /\ s \in Seq(1 .. MaxPid) /\ x \in 1 .. MaxPid /\ x \notin E!ToSet(s)
            /\ \A i, j \in 1 .. Len(s) : s[i] = s[j] => i = j
          BY <4>2, <4>3, <2>8, <2>9, <1>3
      <4>5. /\ <<x>> \o s \in Seq(1 .. MaxPid) /\ <<x>> \o s # << >>
            /\ Len(<<x>> \o s) = Len(s) + 1 /\ E!ToSet(<<x>> \o s) = E!ToSet(s) \union {x}
            /\ \A i, j \in 1 .. Len(<<x>> \o s) :
                  (<<x>> \o s)[i] = (<<x>> \o s)[j] => i = j
        <5> DEFINE S == 1 .. MaxPid
        <5>1. s \in Seq(S) /\ x \in S
            BY <4>4
        <5> HIDE DEF S
        <5>2. /\ <<x>> \o s \in Seq(S) /\ <<x>> \o s # << >>
              /\ Len(<<x>> \o s) = Len(s) + 1 /\ E!ToSet(<<x>> \o s) = E!ToSet(s) \union {x}
              /\ \A i, j \in 1 .. Len(<<x>> \o s) :
                    (<<x>> \o s)[i] = (<<x>> \o s)[j] => i = j
            BY <5>1, <4>4, Pushed, Zenon
        <5>3. QED  BY <5>2 DEF S
      <4>6. w = <<x>> \o s
          BY <4>1, <4>2, <4>3
      <4>7. /\ w \in Seq(1 .. MaxPid) /\ w # << >> /\ Len(w) = Len(waitq[q]) + 1
            /\ E!ToSet(w) = E!ToSet(waitq[q]) \union {pid[p]}
            /\ \A i, j \in 1 .. Len(w) : w[i] = w[j] => i = j
          BY <4>5, <4>6, <4>2, <4>3
      <4>8. QED  BY <4>1, <4>7, <2>8, <3>1
    <3>3. CASE ~rec
      <4>1. w = waitq[q] /\ k = nwait[q] /\ ~(nwait[q] < MaxWait)
          BY <3>3, <2>1, <2>3
      <4>2. Len(waitq[q]) # 0
          BY <4>1, <2>8, <3>1
      <4>3. waitq[q] # << >>
          BY <4>2
      <4>4. QED  BY <4>1, <4>3, <2>8
    <3>4. QED  BY <3>2, <3>3
  <2>11. /\ Cardinality(Children(q)) \in Nat \ {0} /\ nchild[q] \in Nat \ {0}
         /\ Cardinality(Children(q)') = Cardinality(Children(q)) - 1
         /\ Cardinality(Children(q)) <= nchild[q]
    <3>1. IsFiniteSet(Children(q)) /\ Cardinality(Children(q)) \in Nat
        BY <1>3, ChildrenFinite
    <3>2. Cardinality(Children(q) \ {p}) = Cardinality(Children(q)) - 1
          /\ IsFiniteSet(Children(q) \ {p})
        BY <3>1, <2>6, FS_RemoveElement
    <3>3. Cardinality(Children(q) \ {p}) \in Nat
        BY <3>2, FS_CardinalityType
    <3>4. Cardinality(Children(q)) <= nchild[q] /\ nchild[q] \in Nat
        BY <2>6, <1>3, <1>4 DEF ChildCounts
    <3>5. Children(q)' = Children(q) \ {p}
        BY <2>7, <1>3
    <3>6. QED  BY <3>1, <3>2, <3>3, <3>4, <3>5
  <2>12. E!TypeOK'
    <3>1. nchild[q] - 1 \in Nat
        BY <2>11
    <3>2. /\ nchild' \in [Slots -> Nat] /\ nwait' \in [Slots -> 0 .. MaxWait]
          /\ waitq' \in [Slots -> Seq(1 .. MaxPid)]
        BY <3>1, <2>4, <2>10, <1>4
    <3>3. m \in {"free", "new", "run", "forkpid", "fork", "sleep", "asleep", "woken", "collect",
                 "intr", "exit", "addbroken", "break", "broken", "die", "dead"}
        BY <2>2, <1>3, <1>4
    <3>4. slotpc' \in [Slots -> {"free", "new", "run", "forkpid", "fork", "sleep", "asleep", "woken",
                 "collect", "intr", "exit", "addbroken", "break", "broken", "die", "dead"}]
        BY <3>3, <2>4, <1>4
    <3>5. QED  BY <3>2, <3>4, <1>2 DEF E!TypeOK
  <2>13. ChildCounts'
    <3>1. ASSUME NEW r \in Slots, Named(r)'
          PROVE  /\ Cardinality(Children(r)') <= nchild'[r]
                 /\ E!Alive(r)' => nchild'[r] = Cardinality(Children(r)')
      <4>1. /\ Cardinality(Children(r)) <= nchild[r]
            /\ E!Alive(r) => nchild[r] = Cardinality(Children(r))
          BY <3>1, <2>7 DEF ChildCounts
      <4>2. CASE r = q
        <5>1. nchild'[r] = nchild[q] - 1
            BY <4>2, <2>5
        <5>2. QED  BY <4>1, <4>2, <5>1, <2>7, <2>11
      <4>3. CASE r # q
        <5>1. Children(r)' = Children(r)
            BY <4>3, <2>7, <1>3
        <5>2. QED  BY <4>1, <4>3, <5>1, <2>5, <2>7
      <4>4. QED  BY <4>2, <4>3
    <3>2. QED  BY <3>1 DEF ChildCounts
  <2>14. WaitRecords'
    <3>1. ASSUME NEW r \in Slots, NEW x \in E!ToSet(waitq'[r]) PROVE x <= pidalloc
      <4>1. CASE r = q
          BY <4>1, <2>5, <2>8, <2>10, <1>3
      <4>2. CASE r # q
          BY <4>2, <2>5 DEF WaitRecords
      <4>3. QED  BY <4>1, <4>2
    <3>2. ASSUME NEW r \in Slots, Named(r)'
          PROVE  /\ nwait'[r] = Len(waitq'[r])
                 /\ \A i, j \in 1 .. Len(waitq'[r]) : waitq'[r][i] = waitq'[r][j] => i = j
                 /\ \A x \in E!ToSet(waitq'[r]) :
                       x \in kin[pid[r]] /\ \A d \in Slots : pid[d] = x => Gone(d)'
      <4>1. CASE r = q
        <5>1. \A d \in Slots : pid[d] = pid[p] => d = p
            BY <1>3 DEF Pids
        <5>2. pid[p] \in kin[pid[q]]
            BY <1>3, <1>6
        <5>3. \A d \in Slots : Gone(d) \/ d = p => Gone(d)'
            BY <2>7
        <5>4. \A x \in E!ToSet(w) : x \in kin[pid[q]] /\ \A d \in Slots : pid[d] = x => Gone(d)'
            BY <5>1, <5>2, <5>3, <2>8, <2>10
        <5>5. QED  BY <4>1, <5>4, <2>5, <2>10
      <4>2. CASE r # q
        <5>1. waitq'[r] = waitq[r] /\ nwait'[r] = nwait[r] /\ Named(r)
            BY <3>2, <4>2, <2>5, <2>7
        <5>2. /\ nwait[r] = Len(waitq[r])
              /\ \A i, j \in 1 .. Len(waitq[r]) : waitq[r][i] = waitq[r][j] => i = j
              /\ \A x \in E!ToSet(waitq[r]) :
                    x \in kin[pid[r]] /\ \A d \in Slots : pid[d] = x => Gone(d)
            BY <5>1 DEF WaitRecords
        <5>3. QED  BY <5>1, <5>2, <2>7
      <4>3. QED  BY <4>1, <4>2
    <3>3. QED  BY <3>1, <3>2, <1>2 DEF WaitRecords
  <2>15. Waits'
    <3>1. ASSUME NEW r \in Slots PROVE WaitsAt(r)'
      <4>1. WaitsAt(r)
          BY DEF Waits
      <4>2. CASE r = p
          BY <4>1, <4>2, <2>5, <1>2 DEF WaitsAt
      <4>3. CASE r = q
        <5>1. m # "asleep"
          <6>1. slotpc[q] = "asleep" => waitq[q] = << >>
              BY <4>1, <4>3 DEF WaitsAt
          <6>2. slotpc[q] = "asleep" => rec
            <7>1. ASSUME slotpc[q] = "asleep" PROVE nwait[q] = 0
              <8>1. Len(waitq[q]) = 0
                  BY <6>1, <7>1
              <8>2. QED  BY <8>1, <2>8
            <7>2. MaxWait \in Nat \ {0}
                BY DEF Hyp, E!ConstantsAssumption
            <7>3. ASSUME slotpc[q] = "asleep" PROVE nwait[q] < MaxWait
                BY <7>1, <7>2, <7>3
            <7>4. QED  BY <7>3, <2>1
          <6>3. QED  BY <6>2, <2>2
        <5>2. m # "broken" => ~broken[q]
            BY <1>6
        <5>3. QED  BY <4>3, <5>1, <2>5, <2>10, <1>2, <1>6 DEF WaitsAt
      <4>4. CASE r # p /\ r # q
        <5>1. /\ slotpc'[r] = slotpc[r] /\ nchild'[r] = nchild[r] /\ waitq'[r] = waitq[r]
              /\ notepending'[r] = notepending[r] /\ broken'[r] = broken[r]
            BY <4>4, <2>5, <1>2
        <5>2. QED  BY <4>1, <5>1 DEF WaitsAt
      <4>5. QED  BY <4>2, <4>3, <4>4
    <3>2. QED  BY <3>1 DEF Waits
  <2>16. Notes'
    <3>1. ASSUME NEW n \in Posters, target[n] # Nil
          PROVE  /\ debug[target[n]] = n /\ slotpc'[target[n]] # "free"
                 /\ notepending[target[n]] \/ slotpc'[target[n]] = "intr"
      <4>1. target[n] \in Slots
          BY <3>1 DEF E!TypeOK
      <4>2. /\ debug[target[n]] = n /\ slotpc[target[n]] # "free"
            /\ notepending[target[n]] \/ slotpc[target[n]] = "intr"
          BY <3>1 DEF Notes
      <4>3. QED  BY <4>1, <4>2, <2>2, <2>5, <1>2
    <3>2. QED  BY <3>1, <1>2 DEF Notes
  <2>17. QED
      BY <2>7, <2>12, <2>13, <2>14, <2>15, <2>16
<1>7. QED  BY <1>5, <1>6

LEMMA ExitDieStep ==
    ASSUME Hyp, SlotInv, NEW p \in Slots, E!ExitDie(p)
    PROVE  SlotInv'
<1> USE DEF SlotInv
<1>1. /\ slotpc[p] = "die" /\ pid' = [pid EXCEPT ![p] = 0] /\ slotpc' = [slotpc EXCEPT ![p] = "dead"]
      /\ UNCHANGED <<parent, parentpid, child, slotfree, pidalloc, kin, E!countVars, E!brokenVars, E!noteVars>>
    BY DEF E!ExitDie
<1>2. /\ slotpc'[p] = "dead" /\ \A r \in Slots : r # p => slotpc'[r] = slotpc[r]
      /\ pid'[p] = 0 /\ \A r \in Slots : r # p => pid'[r] = pid[r]
    BY <1>1 DEF E!TypeOK
<1>3. /\ MaxPid \in Nat \ {0} /\ pidalloc \in 1 .. MaxPid
      /\ \A r \in Slots : pid[r] \in Nat /\ parentpid[r] \in Nat
    BY DEF Pids, Hyp, E!ConstantsAssumption, E!TypeOK
<1>4. E!TypeOK'
    BY <1>1, <1>3 DEF E!TypeOK
<1>5. ASSUME NEW r \in Slots
      PROVE  /\ (Named(r)' <=> Named(r) /\ r # p) /\ (Running(r)' <=> Running(r))
             /\ (E!Alive(r)' <=> E!Alive(r)) /\ (Gone(r)' <=> Gone(r) /\ r # p)
             /\ (Making(r)' <=> Making(r)) /\ (slotpc'[r] = "new" <=> slotpc[r] = "new")
             /\ (slotpc'[r] = "free" <=> slotpc[r] = "free")
             /\ (Running(r) => r # p) /\ (Making(r) => r # p)
  <2>1. CASE r = p
      BY <2>1, <1>1, <1>2 DEF Named, Running, E!Alive, Gone, Making
  <2>2. CASE r # p
      BY <2>2, <1>2 DEF Named, Running, E!Alive, Gone, Making
  <2>3. QED  BY <2>1, <2>2
<1>6. Pids'
  <2>1. \A r, d \in Slots : pid'[r] = pid'[d] /\ pid'[r] # 0 => r = d
      BY <1>2 DEF Pids
  <2>2. \A r \in Slots : pid'[r] <= pidalloc /\ parentpid[r] <= pidalloc
      BY <1>2, <1>3 DEF Pids
  <2>3. ASSUME NEW r \in Slots
        PROVE  (Named(r)' => pid'[r] # 0) /\ (slotpc'[r] \in {"free", "dead"} => pid'[r] = 0)
    <3>1. CASE r = p
        BY <3>1, <1>2, <1>5
    <3>2. CASE r # p
        BY <3>2, <1>2, <1>5 DEF Pids
    <3>3. QED  BY <3>1, <3>2
  <2>4. QED  BY <2>1, <2>2, <2>3, <1>1 DEF Pids
<1>7. Makers'
  <2>1. ASSUME NEW r \in Slots, Making(r)'
        PROVE  /\ child[r] \in Slots /\ slotpc'[child[r]] = "new"
               /\ (slotpc'[r] = "fork" => pid'[child[r]] # 0)
    <3>1. /\ Making(r) /\ r # p /\ child[r] \in Slots /\ slotpc[child[r]] = "new"
          /\ (slotpc[r] = "fork" => pid[child[r]] # 0)
        BY <2>1, <1>5 DEF Makers
    <3>2. child[r] # p
        BY <3>1, <1>1
    <3>3. QED  BY <3>1, <3>2, <1>2
  <2>2. \A r, d \in Slots : Making(r)' /\ Making(d)' /\ child[r] = child[d] => r = d
      BY <1>5 DEF Makers
  <2>3. ASSUME NEW r \in Slots, slotpc'[r] = "new"
        PROVE  /\ nchild[r] = 0 /\ nwait[r] = 0 /\ waitq[r] = << >>
               /\ pid'[r] # 0 => \A c \in Slots : parentpid[c] # pid'[r]
    <3>1. slotpc[r] = "new" /\ r # p /\ pid'[r] = pid[r]
        BY <2>3, <1>2, <1>5
    <3>2. QED  BY <3>1 DEF Makers
  <2>4. QED  BY <2>1, <2>2, <2>3, <1>1 DEF Makers
<1>8. FreeList'
  <2>1. \A i \in 1 .. Len(slotfree) : slotfree[i] \in Slots
      BY DEF E!TypeOK
  <2>2. QED  BY <2>1, <1>1, <1>5 DEF FreeList
<1>9. Parents'
  <2>1. E!Alive(Boot)' /\ parent[Boot] = Nil
      BY <1>5 DEF Parents, Hyp, E!ConstantsAssumption
  <2>2. ASSUME NEW c \in Slots, Running(c)', c # Boot
        PROVE  parent[c] \in Slots \ {c} /\ parentpid[c] # 0 /\ pid'[c] \in kin[parentpid[c]]
    <3>1. Running(c) /\ pid'[c] = pid[c]
        BY <2>2, <1>2, <1>5
    <3>2. QED  BY <2>2, <3>1 DEF Parents
  <2>3. QED  BY <2>1, <2>2, <1>1 DEF Parents
<1>10. \A r \in Slots : r # p => Children(r)' = Children(r)
    BY <1>1, <1>2, <1>5 DEF Children
<1>11. ChildCounts'
  <2>1. ASSUME NEW r \in Slots, Named(r)'
        PROVE  /\ Cardinality(Children(r)') <= nchild[r]
               /\ E!Alive(r)' => nchild[r] = Cardinality(Children(r)')
    <3>1. Named(r) /\ Children(r)' = Children(r) /\ (E!Alive(r)' <=> E!Alive(r))
        BY <2>1, <1>5, <1>10
    <3>2. QED  BY <3>1 DEF ChildCounts
  <2>2. QED  BY <2>1, <1>1 DEF ChildCounts
<1>12. WaitRecords'
  <2>1. ASSUME NEW r \in Slots, Named(r)'
        PROVE  /\ nwait[r] = Len(waitq[r])
               /\ \A i, j \in 1 .. Len(waitq[r]) : waitq[r][i] = waitq[r][j] => i = j
               /\ \A k \in E!ToSet(waitq[r]) :
                     k \in kin[pid'[r]] /\ \A d \in Slots : pid'[d] = k => Gone(d)'
    <3>1. Named(r) /\ pid'[r] = pid[r]
        BY <2>1, <1>2, <1>5
    <3>2. /\ nwait[r] = Len(waitq[r])
          /\ \A i, j \in 1 .. Len(waitq[r]) : waitq[r][i] = waitq[r][j] => i = j
          /\ \A k \in E!ToSet(waitq[r]) : k \in kin[pid[r]] /\ \A d \in Slots : pid[d] = k => Gone(d)
        BY <3>1 DEF WaitRecords
    <3>3. ASSUME NEW k \in E!ToSet(waitq[r]), NEW d \in Slots, pid'[d] = k PROVE Gone(d)'
      <4>1. k # 0
        <5>1. waitq[r] \in Seq(1 .. MaxPid)
            BY DEF E!TypeOK
        <5>2. PICK i \in DOMAIN waitq[r] : waitq[r][i] = k
            BY <3>3 DEF E!ToSet
        <5>3. PICK s : s = waitq[r]
            OBVIOUS
        <5>4. \A j \in 1 .. Len(s) : s[j] \in 1 .. MaxPid
            BY <5>1, <5>3, ElementOfSeq, Zenon
        <5>5. DOMAIN s = 1 .. Len(s)
            BY <5>1, <5>3
        <5>6. QED  BY <5>2, <5>3, <5>4, <5>5
      <4>2. d # p
          BY <3>3, <4>1, <1>2
      <4>3. QED  BY <3>2, <3>3, <4>2, <1>2, <1>5
    <3>4. QED  BY <3>1, <3>2, <3>3
  <2>2. QED  BY <2>1, <1>1 DEF WaitRecords
<1>13. Waits'
  <2>1. ASSUME NEW r \in Slots PROVE WaitsAt(r)'
    <3>1. WaitsAt(r)
        BY DEF Waits
    <3>2. QED  BY <3>1, <1>1, <1>2 DEF WaitsAt
  <2>2. QED  BY <2>1 DEF Waits
<1>14. Notes'
  <2>1. ASSUME NEW n \in Posters, target[n] # Nil
        PROVE  /\ debug[target[n]] = n /\ slotpc'[target[n]] # "free"
               /\ notepending[target[n]] \/ slotpc'[target[n]] = "intr"
    <3>1. target[n] \in Slots
        BY <2>1 DEF E!TypeOK
    <3>2. QED  BY <2>1, <3>1, <1>1, <1>2 DEF Notes
  <2>2. QED  BY <2>1, <1>1 DEF Notes
<1>15. QED
    BY <1>4, <1>6, <1>7, <1>8, <1>9, <1>11, <1>12, <1>13, <1>14

LEMMA ExitReleaseStep ==
    ASSUME Hyp, SlotInv, NEW p \in Slots, E!ExitRelease(p)
    PROVE  SlotInv'
<1> USE DEF SlotInv
<1>1. /\ slotpc[p] = "dead" /\ debug[p] = Nil /\ slotfree' = <<p>> \o slotfree
      /\ slotpc' = [slotpc EXCEPT ![p] = "free"]
      /\ UNCHANGED <<pid, parent, parentpid, child, pidalloc, kin, E!countVars, E!brokenVars, E!noteVars>>
    BY DEF E!ExitRelease
<1>2. slotpc'[p] = "free" /\ \A r \in Slots : r # p => slotpc'[r] = slotpc[r]
    BY <1>1 DEF E!TypeOK
<1>3. ASSUME NEW r \in Slots
      PROVE  /\ (Named(r)' <=> Named(r)) /\ (Running(r)' <=> Running(r))
             /\ (E!Alive(r)' <=> E!Alive(r)) /\ (Gone(r)' <=> Gone(r))
             /\ (Making(r)' <=> Making(r)) /\ (slotpc'[r] = "new" <=> slotpc[r] = "new")
             /\ (slotpc'[r] = "fork" <=> slotpc[r] = "fork")
             /\ (slotpc'[r] \in {"free", "dead"} <=> slotpc[r] \in {"free", "dead"})
  <2>1. CASE r = p
      BY <2>1, <1>1, <1>2 DEF Named, Running, E!Alive, Gone, Making
  <2>2. CASE r # p
      BY <2>2, <1>2 DEF Named, Running, E!Alive, Gone, Making
  <2>3. QED  BY <2>1, <2>2
<1>4. /\ slotfree \in Seq(Slots) /\ E!ToSet(slotfree) = {slotfree[i] : i \in 1 .. Len(slotfree)}
      /\ \A i \in 1 .. Len(slotfree) : slotfree[i] \in Slots /\ slotpc[slotfree[i]] = "free"
      /\ \A i, j \in 1 .. Len(slotfree) : slotfree[i] = slotfree[j] => i = j
  <2>1. slotfree \in Seq(Slots)
      BY DEF E!TypeOK
  <2>2. DOMAIN slotfree = 1 .. Len(slotfree)
      BY <2>1
  <2>3. QED  BY <2>1, <2>2 DEF FreeList, E!ToSet
<1>5. p \notin E!ToSet(slotfree)
    BY <1>1, <1>4
<1>6. PICK w : w = <<p>> \o slotfree
    OBVIOUS
<1>7. /\ w \in Seq(Slots) /\ Len(w) \in Nat /\ E!ToSet(w) = E!ToSet(slotfree) \union {p}
      /\ \A i, j \in 1 .. Len(w) : w[i] = w[j] => i = j
  <2>1. /\ <<p>> \o slotfree \in Seq(Slots) /\ E!ToSet(<<p>> \o slotfree) = E!ToSet(slotfree) \union {p}
        /\ \A i, j \in 1 .. Len(<<p>> \o slotfree) :
              (<<p>> \o slotfree)[i] = (<<p>> \o slotfree)[j] => i = j
      BY <1>4, <1>5, Pushed, Zenon
  <2>2. QED  BY <2>1, <1>6
<1>8. FreeList'
  <2>1. \A i \in 1 .. Len(w) : w[i] \in E!ToSet(slotfree) \union {p}
    <3>1. DOMAIN w = 1 .. Len(w)
        BY <1>7
    <3>2. \A i \in DOMAIN w : w[i] \in E!ToSet(w)
        BY DEF E!ToSet
    <3>3. QED  BY <3>1, <3>2, <1>7
  <2>2. \A r \in E!ToSet(slotfree) : r \in Slots /\ slotpc'[r] = "free"
      BY <1>1, <1>2, <1>4
  <2>3. slotfree' = w
      BY <1>1, <1>6
  <2>4. \A i \in 1 .. Len(w) : slotpc'[w[i]] = "free"
      BY <2>1, <2>2, <1>2
  <2>5. QED  BY <2>3, <2>4, <1>7 DEF FreeList
<1>9. E!TypeOK'
    BY <1>1, <1>6, <1>7 DEF E!TypeOK
<1>10. Pids'
    BY <1>1, <1>3 DEF Pids
<1>11. Makers'
  <2>1. \A r \in Slots : Making(r) => child[r] \in Slots
      BY DEF Makers
  <2>2. QED  BY <2>1, <1>1, <1>3 DEF Makers
<1>12. Parents'
    BY <1>1, <1>3 DEF Parents, Hyp, E!ConstantsAssumption
<1>13. \A r \in Slots : Children(r)' = Children(r)
    BY <1>1, <1>3 DEF Children
<1>14. ChildCounts'
    BY <1>1, <1>3, <1>13 DEF ChildCounts
<1>15. WaitRecords'
    BY <1>1, <1>3 DEF WaitRecords
<1>16. Waits'
  <2>1. ASSUME NEW r \in Slots PROVE WaitsAt(r)'
    <3>1. WaitsAt(r)
        BY DEF Waits
    <3>2. QED  BY <3>1, <1>1, <1>2 DEF WaitsAt
  <2>2. QED  BY <2>1 DEF Waits
<1>17. Notes'
  <2>1. ASSUME NEW n \in Posters, target[n] # Nil
        PROVE  /\ debug[target[n]] = n /\ slotpc'[target[n]] # "free"
               /\ notepending[target[n]] \/ slotpc'[target[n]] = "intr"
    <3>1. target[n] \in Slots /\ n # Nil
        BY <2>1 DEF E!TypeOK, Hyp, E!ConstantsAssumption
    <3>2. /\ debug[target[n]] = n /\ slotpc[target[n]] # "free"
          /\ notepending[target[n]] \/ slotpc[target[n]] = "intr"
        BY <2>1 DEF Notes
    <3>3. target[n] # p
        BY <3>1, <3>2, <1>1
    <3>4. QED  BY <3>1, <3>2, <3>3, <1>2
  <2>2. QED  BY <2>1, <1>1 DEF Notes
<1>18. QED
    BY <1>8, <1>9, <1>10, <1>11, <1>12, <1>14, <1>15, <1>16, <1>17

LEMMA WaitCollectStep ==
    ASSUME Hyp, SlotInv, NEW p \in Slots, E!WaitCollect(p)
    PROVE  SlotInv'
<1> USE DEF SlotInv
<1>1. PICK q, w : q = waitq[p] /\ w = Tail(waitq[p])
    OBVIOUS
<1>2. /\ slotpc[p] = "collect" /\ q # << >> /\ waitq' = [waitq EXCEPT ![p] = w]
      /\ nwait' = [nwait EXCEPT ![p] = nwait[p] - 1] /\ slotpc' = [slotpc EXCEPT ![p] = "run"]
      /\ UNCHANGED <<E!tableVars, nchild, E!brokenVars, E!noteVars>>
    BY <1>1 DEF E!WaitCollect
<1>3. /\ slotpc'[p] = "run" /\ \A r \in Slots : r # p => slotpc'[r] = slotpc[r]
      /\ waitq'[p] = w /\ \A r \in Slots : r # p => waitq'[r] = waitq[r]
      /\ nwait'[p] = nwait[p] - 1 /\ \A r \in Slots : r # p => nwait'[r] = nwait[r]
    BY <1>2 DEF E!TypeOK
<1>4. ASSUME NEW r \in Slots
      PROVE  /\ (Named(r)' <=> Named(r)) /\ (Running(r)' <=> Running(r))
             /\ (E!Alive(r)' <=> E!Alive(r)) /\ (Gone(r)' <=> Gone(r))
             /\ (Making(r)' <=> Making(r)) /\ (slotpc'[r] = "new" <=> slotpc[r] = "new")
             /\ (slotpc'[r] = "fork" <=> slotpc[r] = "fork") /\ (slotpc'[r] = "free" <=> slotpc[r] = "free")
             /\ (slotpc'[r] = "dead" <=> slotpc[r] = "dead") /\ (slotpc[r] = "new" => r # p)
  <2>1. CASE r = p
      BY <2>1, <1>2, <1>3 DEF Named, Running, E!Alive, Gone, Making
  <2>2. CASE r # p
      BY <2>2, <1>2, <1>3 DEF Named, Running, E!Alive, Gone, Making
  <2>3. QED  BY <2>1, <2>2
<1>5. /\ q \in Seq(1 .. MaxPid) /\ nwait[p] = Len(q) /\ nwait[p] \in 0 .. MaxWait
      /\ \A i, j \in 1 .. Len(q) : q[i] = q[j] => i = j
      /\ \A k \in E!ToSet(q) :
            k \in kin[pid[p]] /\ k <= pidalloc /\ \A c \in Slots : pid[c] = k => Gone(c)
  <2>1. Named(p)
      BY <1>2 DEF Named
  <2>2. QED  BY <2>1, <1>1 DEF WaitRecords, E!TypeOK
<1>6. /\ w \in Seq(1 .. MaxPid) /\ Len(q) \in Nat \ {0} /\ Len(w) = Len(q) - 1
      /\ E!ToSet(w) \subseteq E!ToSet(q) /\ \A i, j \in 1 .. Len(w) : w[i] = w[j] => i = j
  <2> DEFINE S == 1 .. MaxPid
  <2>1. q \in Seq(S) /\ q # << >>
      BY <1>2, <1>5
  <2> HIDE DEF S
  <2>2. /\ Tail(q) \in Seq(S) /\ Len(q) \in Nat \ {0} /\ Len(Tail(q)) = Len(q) - 1
        /\ E!ToSet(Tail(q)) \subseteq E!ToSet(q)
        /\ \A i, j \in 1 .. Len(Tail(q)) : Tail(q)[i] = Tail(q)[j] => i = j
      BY <2>1, <1>5, Popped, Zenon
  <2>3. w = Tail(q)
      BY <1>1
  <2>4. QED  BY <2>2, <2>3 DEF S
<1>7. E!TypeOK'
  <2>1. nwait[p] - 1 \in 0 .. MaxWait
      BY <1>5, <1>6 DEF Hyp, E!ConstantsAssumption
  <2>2. QED  BY <2>1, <1>2, <1>6 DEF E!TypeOK
<1>8. Pids'
    BY <1>2, <1>4 DEF Pids
<1>9. Makers'
  <2>1. \A r \in Slots : Making(r) => child[r] \in Slots
      BY DEF Makers
  <2>2. QED  BY <2>1, <1>2, <1>3, <1>4 DEF Makers
<1>10. FreeList'
  <2>1. \A i \in 1 .. Len(slotfree) : slotfree[i] \in Slots
      BY DEF E!TypeOK
  <2>2. QED  BY <2>1, <1>2, <1>4 DEF FreeList
<1>11. Parents'
    BY <1>2, <1>4 DEF Parents, Hyp, E!ConstantsAssumption
<1>12. \A r \in Slots : Children(r)' = Children(r)
    BY <1>2, <1>4 DEF Children
<1>13. ChildCounts'
    BY <1>2, <1>4, <1>12 DEF ChildCounts
<1>14. WaitRecords'
  <2>1. ASSUME NEW r \in Slots, NEW k \in E!ToSet(waitq'[r]) PROVE k <= pidalloc
    <3>1. CASE r = p
        BY <2>1, <3>1, <1>3, <1>5, <1>6
    <3>2. CASE r # p
        BY <2>1, <3>2, <1>3 DEF WaitRecords
    <3>3. QED  BY <3>1, <3>2
  <2>2. ASSUME NEW r \in Slots, Named(r)'
        PROVE  /\ nwait'[r] = Len(waitq'[r])
               /\ \A i, j \in 1 .. Len(waitq'[r]) : waitq'[r][i] = waitq'[r][j] => i = j
               /\ \A k \in E!ToSet(waitq'[r]) :
                     k \in kin[pid[r]] /\ \A d \in Slots : pid[d] = k => Gone(d)'
    <3>1. CASE r = p
        BY <3>1, <1>3, <1>4, <1>5, <1>6
    <3>2. CASE r # p
      <4>1. Named(r) /\ waitq'[r] = waitq[r] /\ nwait'[r] = nwait[r]
          BY <2>2, <3>2, <1>3, <1>4
      <4>2. /\ nwait[r] = Len(waitq[r])
            /\ \A i, j \in 1 .. Len(waitq[r]) : waitq[r][i] = waitq[r][j] => i = j
            /\ \A k \in E!ToSet(waitq[r]) :
                  k \in kin[pid[r]] /\ \A d \in Slots : pid[d] = k => Gone(d)
          BY <4>1 DEF WaitRecords
      <4>3. QED  BY <4>1, <4>2, <1>4
    <3>3. QED  BY <3>1, <3>2
  <2>3. QED  BY <2>1, <2>2, <1>2 DEF WaitRecords
<1>15. Waits'
  <2>1. ASSUME NEW r \in Slots PROVE WaitsAt(r)'
    <3>1. WaitsAt(r)
        BY DEF Waits
    <3>2. CASE r = p
        BY <3>1, <3>2, <1>2, <1>3 DEF WaitsAt
    <3>3. CASE r # p
      <4>1. /\ slotpc'[r] = slotpc[r] /\ nchild'[r] = nchild[r] /\ waitq'[r] = waitq[r]
            /\ notepending'[r] = notepending[r] /\ broken'[r] = broken[r]
          BY <3>3, <1>2, <1>3
      <4>2. QED  BY <4>1, <3>1 DEF WaitsAt
    <3>4. QED  BY <3>2, <3>3
  <2>2. QED  BY <2>1 DEF Waits
<1>16. Notes'
  <2>1. ASSUME NEW n \in Posters, target[n] # Nil
        PROVE  /\ debug[target[n]] = n /\ slotpc'[target[n]] # "free"
               /\ notepending[target[n]] \/ slotpc'[target[n]] = "intr"
    <3>1. target[n] \in Slots
        BY <2>1 DEF E!TypeOK
    <3>2. QED  BY <2>1, <3>1, <1>2, <1>3 DEF Notes
  <2>2. QED  BY <2>1, <1>2 DEF Notes
<1>17. QED
    BY <1>7, <1>8, <1>9, <1>10, <1>11, <1>13, <1>14, <1>15, <1>16

----------------------------------------------------------------------------
(* The theorems.                                                           *)

\* SetToSeq() lists a finite set without repetition.
LEMMA RecordsListed ==
    ASSUME NEW S, IsFiniteSet(S)
    PROVE  /\ SetToSeq(S) \in Seq(S)
           /\ \A i, j \in 1 .. Len(SetToSeq(S)) : SetToSeq(S)[i] = SetToSeq(S)[j] => i = j
<1>1. PICK n \in Nat : ExistsBijection(1 .. n, S)
    BY FS_NatBijection
<1>2. Cardinality(S) = n
    BY <1>1, FS_CountingElements
<1>3. \E f \in [1 .. Cardinality(S) -> S] : IsInjective(f)
  <2>1. PICK f : f \in Bijection(1 .. n, S)
      BY <1>1 DEF ExistsBijection
  <2>2. f \in [1 .. n -> S] /\ IsInjective(f)
      BY <2>1 DEF Bijection, Injection
  <2>3. QED  BY <2>2, <1>2
<1>4. SetToSeq(S) \in [1 .. n -> S] /\ IsInjective(SetToSeq(S))
    BY <1>2, <1>3 DEF SetToSeq
<1>5. PICK f : f = SetToSeq(S)
    OBVIOUS
<1>6. f \in Seq(S) /\ Len(f) = n
    BY <1>4, <1>5
<1>7. \A i, j \in 1 .. Len(f) : f[i] = f[j] => i = j
    BY <1>4, <1>5, <1>6 DEF IsInjective
<1>8. QED  BY <1>5, <1>6, <1>7

LEMMA InitSlotInv ==
    ASSUME Hyp, E!Init
    PROVE  SlotInv
<1> USE DEF SlotInv
<1>1. /\ Boot \in Slots /\ IsFiniteSet(Slots) /\ Nil \notin Slots
      /\ MaxWait \in Nat \ {0} /\ MaxPid \in Nat \ {0}
    BY SameOperators DEF Hyp, E!ConstantsAssumption
<1>2. /\ slotfree \in Seq(Slots \ {Boot})
      /\ \A i, j \in 1 .. Len(slotfree) : slotfree[i] = slotfree[j] => i = j
  <2>1. IsFiniteSet(Slots \ {Boot})
      BY <1>1, FS_Subset
  <2>2. slotfree = SetToSeq(Slots \ {Boot})
      BY SameOperators DEF E!Init
  <2>3. QED  BY <2>1, <2>2, RecordsListed
<1>3. \A i \in 1 .. Len(slotfree) : slotfree[i] \in Slots \ {Boot}
    BY <1>2
<1>4. slotfree \in Seq(Slots)
    BY <1>2
<1>5. /\ slotpc[Boot] = "run" /\ \A p \in Slots : p # Boot => slotpc[p] = "free"
      /\ pid[Boot] = 1 /\ \A p \in Slots : p # Boot => pid[p] = 0
      /\ \A p \in Slots : /\ parent[p] = Nil /\ parentpid[p] = 0 /\ nchild[p] = 0
                          /\ nwait[p] = 0 /\ waitq[p] = << >> /\ broken[p] = FALSE
      /\ pidalloc = 1 /\ \A n \in Posters : target[n] = Nil
    BY <1>1 DEF E!Init
<1>6. E!TypeOK
    BY <1>1, <1>4 DEF E!Init, E!TypeOK
<1>7. Pids
  <2>1. kin \in [1 .. MaxPid -> SUBSET (1 .. MaxPid)] /\ pidalloc \in 1 .. MaxPid
      BY <1>1 DEF E!Init
  <2>2. QED  BY <2>1, <1>1, <1>5 DEF Pids, Named
<1>8. Makers
    BY <1>5 DEF Makers, Making
<1>9. FreeList
    BY <1>2, <1>3, <1>5 DEF FreeList
<1>10. Parents
    BY <1>1, <1>5 DEF Parents, Running, E!Alive
<1>11. ChildCounts
  <2>1. ASSUME NEW p \in Slots PROVE Cardinality(Children(p)) = 0
    <3>1. Children(p) = {}
        BY <1>1, <1>5 DEF Children
    <3>2. QED  BY <3>1, FS_EmptySet
  <2>2. QED  BY <2>1, <1>5 DEF ChildCounts
<1>12. WaitRecords
    BY <1>5 DEF WaitRecords, E!ToSet
<1>13. Waits
    BY <1>1, <1>5 DEF Waits, WaitsAt
<1>14. Notes
    BY <1>5 DEF Notes
<1>15. QED
    BY <1>6, <1>7, <1>8, <1>9, <1>10, <1>11, <1>12, <1>13, <1>14

LEMMA NextSlotInv ==
    ASSUME Hyp, SlotInv, [E!Next]_E!vars
    PROVE  SlotInv'
<1>1. CASE UNCHANGED E!vars
    BY <1>1, SMTT(40) DEF E!vars, SlotInv, E!TypeOK, Pids, Makers, FreeList, Parents, ChildCounts, WaitRecords, Waits,
         WaitsAt, Notes, Named, Running, Gone, Making, E!Alive, Children
<1>2. ASSUME NEW p \in Slots, E!RforkAlloc(p) PROVE SlotInv'
    BY <1>2, RforkAllocStep
<1>3. ASSUME NEW p \in Slots, E!RforkPid(p) PROVE SlotInv'
    BY <1>3, RforkPidStep
<1>4. ASSUME NEW p \in Slots, NEW nowait \in RforkNowait, E!Rfork(p, nowait) PROVE SlotInv'
    BY <1>4, RforkStep
<1>5. ASSUME NEW p \in Slots, NEW l \in {"addbroken", "die"}, E!ExitNotify(p, l) PROVE SlotInv'
    BY <1>5, ExitNotifyStep
<1>6. ASSUME NEW p \in Slots,
             \/ E!ExitStart(p) \/ E!AddBroken(p) \/ E!Break(p) \/ E!Resume(p)
             \/ E!WaitCheck(p) \/ E!WaitSleep(p) \/ E!WaitAwake(p) \/ E!Notify(p)
      PROVE  SlotInv'
    BY <1>6, QuietStep
<1>7. ASSUME NEW p \in Slots, E!Unbreak(p) PROVE SlotInv'
    BY <1>7, UnbreakStep
<1>8. ASSUME NEW p \in Slots, E!ExitDie(p) PROVE SlotInv'
    BY <1>8, ExitDieStep
<1>9. ASSUME NEW p \in Slots, E!ExitRelease(p) PROVE SlotInv'
    BY <1>9, ExitReleaseStep
<1>10. ASSUME NEW p \in Slots, E!WaitCollect(p) PROVE SlotInv'
    BY <1>10, WaitCollectStep
<1>11. ASSUME NEW n \in Posters, E!NoteWake(n) PROVE SlotInv'
    BY <1>11, NoteWakeStep
<1>12. ASSUME NEW n \in Posters, NEW p \in Slots, E!NotePost(n, p) PROVE SlotInv'
    BY <1>12, NotePostStep
<1>13. QED
    BY <1>1, <1>2, <1>3, <1>4, <1>5, <1>6, <1>7, <1>8, <1>9, <1>10, <1>11, <1>12
       DEF E!Next

\* The inductive invariant holds in every reachable state.
THEOREM SlotInvariance == Hyp => (E!Spec => []SlotInv)
<1> SUFFICES ASSUME Hyp PROVE E!Spec => []SlotInv
    OBVIOUS
<1>1. E!Init => SlotInv
    BY InitSlotInv
<1>2. SlotInv /\ [E!Next]_E!vars => SlotInv'
    BY NextSlotInv
<1>3. QED  BY <1>1, <1>2, PTL DEF E!Spec

\* pexit() and pwait(), where every child may be waited for: a living process
\* has the records of its own children only, each once, and nchild counts
\* those that have yet to leave one, however slots of the table are reused.
THEOREM ChildrenAccounted ==
    E!ConstantsAssumption /\ AllWaitable => (E!Spec => []ChildrenKept)
<1> SUFFICES ASSUME Hyp PROVE E!Spec => []ChildrenKept
    BY DEF Hyp
<1>1. ASSUME SlotInv PROVE ChildrenKept
  <2>1. E!NchildCounts
    <3>1. ASSUME NEW p \in Slots, E!Alive(p)
          PROVE  nchild[p] = Cardinality({c \in Slots :
                                /\ parent[c] = p /\ parentpid[c] = pid[p]
                                /\ E!Alive(c) \/ slotpc[c] = "exit"})
      <4>1. Named(p)
          BY <3>1 DEF E!Alive, Named
      <4>2. nchild[p] = Cardinality(Children(p))
          BY <1>1, <3>1, <4>1 DEF SlotInv, ChildCounts
      <4>3. QED  BY <4>2 DEF Children, Running
    <3>2. QED  BY <3>1, SameOperators DEF E!NchildCounts
  <2>2. E!RecordsAreChildren
    <3>1. E!TypeOK
        BY <1>1 DEF SlotInv
    <3>2. ASSUME NEW p \in Slots, E!Alive(p)
          PROVE  /\ nwait[p] = Len(waitq[p])
                 /\ \A i, j \in DOMAIN waitq[p] : waitq[p][i] = waitq[p][j] => i = j
                 /\ E!ToSet(waitq[p]) \subseteq kin[pid[p]]
      <4>1. Named(p)
          BY <3>2 DEF E!Alive, Named
      <4>2. DOMAIN waitq[p] = 1 .. Len(waitq[p])
          BY <3>1 DEF E!TypeOK
      <4>3. QED  BY <1>1, <4>1, <4>2 DEF SlotInv, WaitRecords
    <3>3. QED  BY <3>1, <3>2 DEF E!RecordsAreChildren
  <2>3. QED  BY <2>1, <2>2 DEF ChildrenKept, E!ChildrenKept
<1>2. SlotInv => ChildrenKept
    BY <1>1
<1>3. QED  BY <1>2, SlotInvariance, PTL

\* pwait(), where every child may be waited for: a process asleep there has a
\* living child that will leave a record, and one that sleep() lets go on
\* finds a record, however notes, exits and the reuse of slots interleave.
THEOREM WaitsAnswered ==
    E!ConstantsAssumption /\ AllWaitable => (E!Spec => []NeverWaitsInVain)
<1> SUFFICES ASSUME Hyp PROVE E!Spec => []NeverWaitsInVain
    BY DEF Hyp
<1>1. ASSUME SlotInv PROVE NeverWaitsInVain
  <2>1. ASSUME NEW p \in Slots
        PROVE  /\ slotpc[p] = "asleep" => waitq[p] = << >> /\ nchild[p] > 0
               /\ slotpc[p] = "collect" => waitq[p] # << >>
    <3>1. WaitsAt(p) /\ nchild[p] \in Nat
        BY <1>1 DEF SlotInv, Waits, E!TypeOK
    <3>2. QED  BY <3>1 DEF WaitsAt
  <2>2. QED  BY <2>1 DEF NeverWaitsInVain, E!NeverWaitsInVain
<1>2. SlotInv => NeverWaitsInVain
    BY <1>1
<1>3. QED  BY <1>2, SlotInvariance, PTL

----------------------------------------------------------------------------
HIDE DEF E!Goto, E!tableVars, E!countVars, E!brokenVars, E!noteVars

(***************************************************************************)
(* The memory of the processes: Page.                                      *)
(***************************************************************************)

\* What the structures and the locals hold.
Contents == {Nil} \union (Files \X Types) \union ({"stored"} \X (Segs \union {Nil}))
Rights == {"none", "read", "write"}
Afters == {Nil, "putseg", "newpage", "reclaim", "freed"}
Labels == {"idle", "attach", "reclaim", "putseg", "freepte", "putimage", "unname", "unhash",
           "fault", "found", "newpage", "read", "copy", "mmuput", "kick", "pageout", "panic"}
PageRec == [ref : Nat, image : Images \union {Nil}, daddr : Types \union {Nil},
            alloc : BOOLEAN, holds : Contents]
ImageRec == [ref : Int, c : Files \union {Nil}, qid : Files \union {Nil},
             s : Segs \union {Nil}]
SegRec == [ref : Int, type : Types \union {Nil}, image : Images \union {Nil},
           map : Pages \union {Nil}, lk : Procs \union {Nil}, memory : Contents]
Locals == [file : Files \union {Nil}, todo : Seq(Segs), img : Images \union {Nil},
           s : Segs \union {Nil}, write : BOOLEAN, new : Pages \union {Nil},
           src : Files \union {Nil}, rights : Rights, then : Afters]

\* The variables of the model hold values of their types.
TypeOK ==
    /\ page \in [Pages -> PageRec]
    /\ free \in Seq(Pages)
    /\ hash \subseteq Pages
    /\ pga \in Procs \union {Nil}
    /\ image \in [Images -> ImageRec]
    /\ seg \in [Segs -> SegRec]
    /\ pager \in Procs \union {Nil}
    /\ own \in [Procs -> [Types -> Segs \union {Nil}]]
    /\ tlb \in [Procs -> [page : Pages \union {Nil}, rights : Rights]]
    /\ th \in [Procs -> Locals]
    /\ pc \in [Procs -> Labels]

\* In putimage(), called by putseg() (Dropped), newpage() (Reusing) or
\* pagereclaim() (Reclaiming); in the middle of a fault, and there with the lock of
\* the segment.
In(t) == pc[t] \in {"putimage", "unname", "unhash"}
Dropped(t) == pc[t] = "freepte" \/ (In(t) /\ th[t].then = "putseg")
Reusing(t) == In(t) /\ th[t].then = "newpage"
Reclaiming(t) == pc[t] = "reclaim" \/ (In(t) /\ th[t].then = "reclaim")
Faulting(t) ==
    Reusing(t) \/ pc[t] \in {"found", "newpage", "read", "copy", "kick", "pageout", "fault",
                             "mmuput"}
Locking(t) ==
    pc[t] = "found" \/ ((Reusing(t) \/ pc[t] \in {"newpage", "copy"}) /\ th[t].src = Nil)

(***************************************************************************)
(* The inductive invariant, in parts.  What a process is doing and has.    *)
(***************************************************************************)
ControlAt(t) ==
    /\ (th[t].todo # << >>) <=> (pc[t] = "putseg" \/ Dropped(t))
    /\ own[t]["text"] = Nil <=> own[t]["data"] = Nil
    /\ th[t].todo # << >> \/ pc[t] = "attach" \/ Reclaiming(t) => own[t]["text"] = Nil
    /\ Faulting(t) => th[t].s # Nil /\ th[t].s \in {own[t]["text"], own[t]["data"]}
    /\ pc[t] \in {"found", "read", "copy"} \/ (In(t) /\ ~Dropped(t)) => th[t].new # Nil
    /\ pc[t] = "read" => th[t].src # Nil
    /\ pc[t] \in {"found", "copy", "fault"} => th[t].src = Nil
    /\ ~Faulting(t) /\ pc[t] # "panic" => th[t].src = Nil
    /\ pc[t] = "attach" => th[t].img # Nil /\ th[t].file # Nil
    /\ In(t) => th[t].then \in {"putseg", "newpage", "reclaim"}
    /\ ~In(t) => th[t].then \in {Nil, "freed"}
    /\ pga = t <=> (Reusing(t) \/ Reclaiming(t))
Control == \A t \in Procs : ControlAt(t)

\* A segment's references are the processes that have it or are yet to put it; a
\* text and a data segment are told apart by their types; a segment nobody refers
\* to is being freed by one process, and no image names it.
Uses(t, s) ==
    \/ own[t]["text"] = s \/ own[t]["data"] = s
    \/ \E i \in 1 .. Len(th[t].todo) : th[t].todo[i] = s /\ ~(i = 1 /\ Dropped(t))
UsersOf(s) == {t \in Procs : Uses(t, s)}
SegsCounted == \A s \in Segs : seg[s].ref = Cardinality(UsersOf(s))
TodoAt(t) ==
    LET q == th[t].todo IN
    \/ q = << >>
    \/ Len(q) = 2 /\ seg[q[1]].type = "text" /\ seg[q[2]].type = "data"
    \/ Len(q) = 1 /\ seg[q[1]].type = "data"
SegTypes ==
    /\ \A t \in Procs : \A y \in Types : own[t][y] # Nil => seg[own[t][y]].type = y
    /\ \A t \in Procs : TodoAt(t)
    /\ \A s \in Segs : IF seg[s].type = Nil THEN seg[s] = NoSeg ELSE seg[s].image # Nil
    /\ \A i \in Images : image[i].s # Nil =>
          /\ seg[image[i].s].type = "text" /\ seg[image[i].s].image = i
          /\ UsersOf(image[i].s) # {}
Droppers ==
    /\ \A t \in Procs : Dropped(t) => UsersOf(Head(th[t].todo)) = {}
    /\ \A t, u \in Procs :
          Dropped(t) /\ Dropped(u) /\ Head(th[t].todo) = Head(th[u].todo) => t = u
SInv == SegTypes /\ SegsCounted /\ Droppers

\* A fault that goes on with the segment locked finds it as it left it.
LockAt(t) ==
    Locking(t) =>
        /\ seg[th[t].s].lk = t
        /\ (pc[t] = "found") <=> (seg[th[t].s].map = Nil)
Locks == \A t \in Procs : LockAt(t)

\* Pages: the free list has each once, namely those without references that
\* nobody takes out of the cache; a new page is its maker's alone.
Once == \A i, j \in 1 .. Len(free) : free[i] = free[j] => i = j
Listed(p) == \E i \in 1 .. Len(free) : free[i] = p
Taken(p) == \E t \in Procs : Reusing(t) /\ th[t].new = p
FreeOK ==
    /\ Once
    /\ \A p \in Pages : Listed(p) <=> (page[p].alloc /\ page[p].ref = 0 /\ ~Taken(p))
RefsOK ==
    \A p \in Pages :
        /\ page[p].ref = Cardinality(Held(p)) + Cardinality(Mapped(p))
        /\ ~page[p].alloc => page[p].ref = 0
HoldersOK ==
    \A t \in Procs :
        /\ pc[t] \in {"read", "copy"} => page[th[t].new].ref = 1 /\ page[th[t].new].image = Nil
        /\ Reusing(t) => page[th[t].new].ref = 0 /\ page[th[t].new].alloc
PInv == FreeOK /\ RefsOK /\ HoldersOK

IInv == TypeOK /\ Control /\ SInv /\ Locks /\ PInv

USE DEF Goto

----------------------------------------------------------------------------
(* Counting.                                                               *)

\* Two sets that differ in x at most.
LEMMA OneChanged ==
    ASSUME NEW S, IsFiniteSet(S), NEW A \in SUBSET S, NEW B \in SUBSET S, NEW x \in S,
           \A y \in S : y # x => (y \in A <=> y \in B)
    PROVE  /\ Cardinality(A) \in Nat /\ Cardinality(B) \in Nat
           /\ Cardinality(B) = Cardinality(A) - (IF x \in A THEN 1 ELSE 0)
                                              + (IF x \in B THEN 1 ELSE 0)
           /\ x \in A => Cardinality(A) >= 1
           /\ x \in B => Cardinality(B) >= 1
<1>1. /\ IsFiniteSet(A) /\ IsFiniteSet(B)
      /\ Cardinality(A) \in Nat /\ Cardinality(B) \in Nat
    BY FS_Subset, FS_CardinalityType
<1>2. CASE x \in A /\ x \in B
  <2>1. A = B
      BY <1>2
  <2>2. Cardinality(A \ {x}) = Cardinality(A) - 1 /\ Cardinality(A \ {x}) \in Nat
      BY <1>1, <1>2, FS_RemoveElement, FS_Subset, FS_CardinalityType
  <2>3. QED  BY <1>1, <1>2, <2>1, <2>2
<1>3. CASE x \in A /\ x \notin B
  <2>1. B = A \ {x}
      BY <1>3
  <2>2. Cardinality(B) = Cardinality(A) - 1
      BY <1>1, <1>3, <2>1, FS_RemoveElement
  <2>3. QED  BY <1>1, <1>3, <2>2
<1>4. CASE x \notin A /\ x \in B
  <2>1. A = B \ {x}
      BY <1>4
  <2>2. Cardinality(A) = Cardinality(B) - 1
      BY <1>1, <1>4, <2>1, FS_RemoveElement
  <2>3. QED  BY <1>1, <1>4, <2>2
<1>5. CASE x \notin A /\ x \notin B
  <2>1. A = B
      BY <1>5
  <2>2. QED  BY <1>1, <1>5, <2>1
<1>6. QED  BY <1>2, <1>3, <1>4, <1>5

\* A set without elements.
LEMMA NoneCounted ==
    ASSUME NEW S, IsFiniteSet(S), NEW A \in SUBSET S
    PROVE  Cardinality(A) \in Nat /\ (Cardinality(A) = 0 <=> A = {})
BY FS_Subset, FS_CardinalityType, FS_EmptySet

----------------------------------------------------------------------------
(* Types and control.                                                      *)

\* A step that leaves a process alone leaves what it is doing alone.
LEMMA OtherControl ==
    ASSUME Control, NEW t \in Procs, ControlAt(t)',
           \A u \in Procs : u # t =>
               /\ th'[u] = th[u] /\ pc'[u] = pc[u] /\ own'[u] = own[u]
               /\ pga' = u <=> pga = u
    PROVE  Control'
<1>1. ASSUME NEW u \in Procs, u # t PROVE ControlAt(u)'
  <2>1. ControlAt(u)
      BY DEF Control
  <2>2. In(u)' = In(u) /\ Dropped(u)' = Dropped(u) /\ Reusing(u)' = Reusing(u)
        /\ Reclaiming(u)' = Reclaiming(u) /\ Faulting(u)' = Faulting(u)
      BY <1>1 DEF In, Dropped, Reusing, Reclaiming, Faulting
  <2>3. QED  BY <1>1, <2>1, <2>2 DEF ControlAt
<1>2. QED  BY <1>1 DEF Control

\* A step of one process changes one label.
LEMMA PcGoes ==
    ASSUME TypeOK, NEW t \in Procs, NEW x \in Labels, pc' = [pc EXCEPT ![t] = x]
    PROVE  /\ pc' \in [Procs -> Labels] /\ pc'[t] = x
           /\ \A u \in Procs : u # t => pc'[u] = pc[u]
BY DEF TypeOK

\* A step of one process changes one process's locals.
LEMMA ThGoes ==
    ASSUME TypeOK, NEW t \in Procs, NEW l \in Locals, th' = [th EXCEPT ![t] = l]
    PROVE  /\ th' \in [Procs -> Locals] /\ th'[t] = l
           /\ \A u \in Procs : u # t => th'[u] = th[u]
BY DEF TypeOK

\* A change of one segment.
LEMMA SegChanges ==
    ASSUME TypeOK, NEW s \in Segs, NEW g \in SegRec
    PROVE  /\ [seg EXCEPT ![s] = g] \in [Segs -> SegRec]
           /\ [seg EXCEPT ![s] = g][s] = g
           /\ \A x \in Segs : x # s => [seg EXCEPT ![s] = g][x] = seg[x]
BY DEF TypeOK

\* A change of one page.
LEMMA PageChanges ==
    ASSUME TypeOK, NEW p \in Pages, NEW g \in PageRec
    PROVE  /\ [page EXCEPT ![p] = g] \in [Pages -> PageRec]
           /\ [page EXCEPT ![p] = g][p] = g
           /\ \A x \in Pages : x # p => [page EXCEPT ![p] = g][x] = page[x]
BY DEF TypeOK

\* The records that the steps make.
LEMMA Records ==
    ASSUME PageAssumption
    PROVE  /\ NoLocals \in Locals /\ NoSeg \in SegRec /\ NoPage \in PageRec /\ Fresh \in PageRec
           /\ Fresh.ref = 1 /\ Fresh.alloc = TRUE /\ Fresh.image = Nil
           /\ NoPage.ref = 0 /\ NoPage.alloc = FALSE /\ NoPage.image = Nil
<1>1. NoLocals \in Locals
    BY DEF NoLocals, Locals, Rights, Afters
<1>2. NoSeg \in SegRec
    BY DEF NoSeg, SegRec, Contents
<1>3. NoPage \in PageRec /\ NoPage.ref = 0 /\ NoPage.alloc = FALSE /\ NoPage.image = Nil
    BY DEF NoPage, PageRec, Contents
<1>4. Fresh \in PageRec /\ Fresh.ref = 1 /\ Fresh.alloc = TRUE /\ Fresh.image = Nil
    BY Zenon DEF Fresh, NoPage, PageRec, Contents
<1>5. QED  BY <1>1, <1>2, <1>3, <1>4

\* newpage() without memory: the types and the control.
LEMMA KickControl ==
    ASSUME PageAssumption, TypeOK, Control, NEW t \in Procs, NewpageKick(t)
    PROVE  TypeOK' /\ Control'
<1>1. pc[t] = "newpage" /\ ControlAt(t) /\ th[t].s \in Segs
    BY DEF NewpageKick, At, Control, ControlAt, Faulting, TypeOK, Locals
<1>2. pc' \in [Procs -> Labels] /\ pc'[t] = "kick" /\ \A u \in Procs : u # t => pc'[u] = pc[u]
    BY PcGoes, Zenon DEF NewpageKick, Labels
<1>3. seg' \in [Segs -> SegRec]
  <2>1. seg[th[t].s] \in SegRec
      BY <1>1 DEF TypeOK
  <2>2. \A r \in SegRec : [r EXCEPT !.lk = Nil] \in SegRec
      BY DEF SegRec
  <2>3. [seg[th[t].s] EXCEPT !.lk = Nil] \in SegRec
      BY <2>1, <2>2
  <2>4. QED  BY <1>1, <2>3, SegChanges DEF NewpageKick, TypeOK
<1>4. TypeOK'
    BY <1>2, <1>3 DEF NewpageKick, memory, TypeOK
<1>5. ControlAt(t)'
    BY <1>1, <1>2 DEF ControlAt, In, Dropped, Reusing, Reclaiming, Faulting, NewpageKick
<1>6. Control'
    BY <1>2, <1>5, OtherControl DEF NewpageKick
<1>7. QED  BY <1>4, <1>6

\* A process becomes the pager: the types and the control.
LEMMA KickpagerControl ==
    ASSUME PageAssumption, TypeOK, Control, NEW t \in Procs, Kickpager(t)
    PROVE  /\ TypeOK' /\ Control' /\ pc[t] = "kick" /\ pc'[t] = "pageout"
           /\ UNCHANGED <<page, free, hash, pga, image, seg, own, tlb, th>>
           /\ \A u \in Procs : u # t => pc'[u] = pc[u]
<1>1. pc[t] = "kick" /\ UNCHANGED <<page, free, hash, pga, image, seg, own, tlb, th>>
    BY DEF Kickpager, At, memory
<1>2. pc' \in [Procs -> Labels] /\ pc'[t] = "pageout" /\ \A u \in Procs : u # t => pc'[u] = pc[u]
    BY PcGoes, Zenon DEF Kickpager, Labels
<1>3. TypeOK'
    BY <1>1, <1>2 DEF Kickpager, TypeOK
<1>4. ControlAt(t)
    BY DEF Control
<1>5. ControlAt(t)'
    BY <1>1, <1>2, <1>4 DEF ControlAt, In, Dropped, Reusing, Reclaiming, Faulting
<1>6. Control'
    BY <1>1, <1>2, <1>5, OtherControl
<1>7. QED  BY <1>1, <1>2, <1>3, <1>6

\* Uncache() of a page that is on the free list and has an image.
LEMMA UncacheControl ==
    ASSUME PageAssumption, TypeOK, Control, NEW t \in Procs, NEW p \in Pages,
           NEW then \in {"newpage", "reclaim"}, page[p].image # Nil, Uncache(t, p, then),
           pga \in {Nil, t},
           then = "newpage" => pc[t] = "newpage",
           then = "reclaim" => pc[t] = "reclaim",
           UNCHANGED <<page, image, seg, pager, own, tlb>>, free' \in Seq(Pages)
    PROVE  /\ TypeOK' /\ Control'
           /\ pc'[t] = "putimage" /\ th'[t] = [th[t] EXCEPT !.new = p, !.img = page[p].image, !.then = then]
           /\ \A u \in Procs : u # t => pc'[u] = pc[u] /\ th'[u] = th[u]
<1> DEFINE l == [th[t] EXCEPT !.new = p, !.img = page[p].image, !.then = then]
<1>1. /\ l \in Locals /\ l.new = p /\ l.then = then /\ l.todo = th[t].todo
      /\ l.s = th[t].s /\ l.src = th[t].src
  <2>1. th[t] \in Locals
      BY DEF TypeOK
  <2>2. page[p].image \in Images \union {Nil}
      BY DEF TypeOK, PageRec
  <2>3. then \in Afters
      BY DEF Afters
  <2>4. QED  BY <2>1, <2>2, <2>3, Zenon DEF Locals
<1>2. th' = [th EXCEPT ![t] = l]
    BY Zenon DEF Uncache
<1> HIDE DEF l
<1>3. /\ th' \in [Procs -> Locals] /\ th'[t] = l
      /\ pc' \in [Procs -> Labels] /\ pc'[t] = "putimage"
      /\ \A u \in Procs : u # t => pc'[u] = pc[u] /\ th'[u] = th[u]
  <2>1. "putimage" \in Labels /\ pc' = [pc EXCEPT ![t] = "putimage"]
      BY DEF Uncache, Labels
  <2>2. QED  BY <1>1, <1>2, <2>1, PcGoes, ThGoes, Zenon
<1>4. TypeOK'
    BY <1>3 DEF TypeOK, Uncache
<1>5. ControlAt(t)
    BY DEF Control
<1>6. ControlAt(t)'
    BY <1>1, <1>3, <1>5 DEF ControlAt, In, Dropped, Reusing, Reclaiming, Faulting, Uncache, PageAssumption
<1>7. Control'
    BY <1>3, <1>6, OtherControl DEF Uncache, PageAssumption
<1>8. QED  BY <1>3, <1>4, <1>7 DEF l

\* newpage() has a page: the types and the control.
LEMMA GotControl ==
    ASSUME PageAssumption, TypeOK, Control, NEW t \in Procs, NEW p \in Pages,
           pc[t] = "newpage", Got(t, p),
           UNCHANGED <<hash, pga, image, seg, pager, own, tlb>>, free' \in Seq(Pages)
    PROVE  /\ TypeOK' /\ Control'
           /\ pc'[t] = Use(t) /\ th'[t] = [th[t] EXCEPT !.new = p]
           /\ \A u \in Procs : u # t => pc'[u] = pc[u] /\ th'[u] = th[u]
<1> DEFINE l == [th[t] EXCEPT !.new = p]
<1>1. /\ l \in Locals /\ l.new = p /\ l.then = th[t].then /\ l.todo = th[t].todo
      /\ l.s = th[t].s /\ l.src = th[t].src
    BY Zenon DEF TypeOK, Locals
<1>2. th' = [th EXCEPT ![t] = l]
    BY DEF Got
<1> HIDE DEF l
<1>3. /\ th' \in [Procs -> Locals] /\ th'[t] = l /\ Use(t) \in {"copy", "read"}
      /\ pc' \in [Procs -> Labels] /\ pc'[t] = Use(t)
      /\ \A u \in Procs : u # t => pc'[u] = pc[u] /\ th'[u] = th[u]
  <2>1. Use(t) \in {"copy", "read"} /\ Use(t) \in Labels /\ pc' = [pc EXCEPT ![t] = Use(t)]
      BY DEF Got, Labels, Use
  <2>2. QED  BY <1>1, <1>2, <2>1, PcGoes, ThGoes, Zenon
<1>4. TypeOK'
  <2>1. page' \in [Pages -> PageRec]
      BY Records, PageChanges DEF Got
  <2>2. QED  BY <1>3, <2>1 DEF TypeOK
<1>5. ControlAt(t)
    BY DEF Control
<1>6. ControlAt(t)'
    BY <1>1, <1>3, <1>5 DEF ControlAt, In, Dropped, Reusing, Reclaiming, Faulting, Use, PageAssumption
<1>7. Control'
    BY <1>3, <1>6, OtherControl
<1>8. QED  BY <1>3, <1>4, <1>7 DEF l

\* One process moves: it goes on at x with the locals l.
Moves(t, l, x) ==
    /\ th' \in [Procs -> Locals] /\ th'[t] = l
    /\ pc' \in [Procs -> Labels] /\ pc'[t] = x
    /\ \A u \in Procs : u # t => th'[u] = th[u] /\ pc'[u] = pc[u]

\* Goto and the assignment of locals are a move.
LEMMA Moved ==
    ASSUME TypeOK, NEW t \in Procs, NEW l \in Locals, NEW x \in Labels,
           th' = [th EXCEPT ![t] = l], pc' = [pc EXCEPT ![t] = x]
    PROVE  Moves(t, l, x)
BY PcGoes, ThGoes, Zenon DEF Moves

\* A move that keeps the control of its process keeps everybody's.
LEMMA MovesControl ==
    ASSUME Control, NEW t \in Procs, NEW l, NEW x, Moves(t, l, x), own' = own,
           \A u \in Procs : u # t => (pga' = u <=> pga = u), ControlAt(t)'
    PROVE  Control'
BY OtherControl DEF Moves

\* newpage() takes a page of the free list: the types and the control.
LEMMA ReuseControl ==
    ASSUME PageAssumption, TypeOK, Control, NEW t \in Procs, NewpageReuse(t)
    PROVE  TypeOK' /\ Control'
<1>1. PICK i \in 1 .. Len(free) :
        /\ free' = RemoveAt(free, i)
        /\ IF page[free[i]].image # Nil
           THEN Uncache(t, free[i], "newpage") /\ UNCHANGED page
           ELSE Got(t, free[i]) /\ UNCHANGED <<hash, pga>>
    BY DEF NewpageReuse
<1>2. free[i] \in Pages /\ free' \in Seq(Pages) /\ pc[t] = "newpage" /\ pga = Nil
    BY <1>1 DEF TypeOK, RemoveAt, NewpageReuse, At
<1>3. UNCHANGED <<image, seg, pager, own, tlb>>
    BY DEF NewpageReuse
<1>4. CASE page[free[i]].image # Nil
    BY <1>1, <1>2, <1>3, <1>4, UncacheControl, Zenon
<1>5. CASE page[free[i]].image = Nil
    BY <1>1, <1>2, <1>3, <1>5, GotControl, Zenon
<1>6. QED  BY <1>4, <1>5

\* newpage() allocates a page: the types and the control.
LEMMA AllocControl ==
    ASSUME PageAssumption, TypeOK, Control, NEW t \in Procs, NewpageAlloc(t)
    PROVE  TypeOK' /\ Control'
<1>1. PICK p \in Pages : Got(t, p)
    BY DEF NewpageAlloc
<1>2. pc[t] = "newpage" /\ UNCHANGED <<free, hash, pga, image, seg, pager, own, tlb>>
    BY DEF NewpageAlloc, At
<1>3. QED  BY <1>1, <1>2, GotControl, Zenon DEF TypeOK

\* putimage() returns to one of its three callers.
LEMMA ReturnControl ==
    ASSUME PageAssumption, TypeOK, Control, NEW t \in Procs, In(t), PutimageReturn(t),
           image' \in [Images -> ImageRec], UNCHANGED <<free, hash, seg, pager, own, tlb>>
    PROVE  /\ TypeOK' /\ Control'
           /\ \A u \in Procs : u # t => pc'[u] = pc[u] /\ th'[u] = th[u]
           /\ th'[t].todo = th[t].todo /\ th'[t].s = th[t].s /\ th'[t].src = th[t].src
           /\ th[t].then = "putseg" => page' = page /\ pc'[t] = "freepte"
           /\ th[t].then = "newpage" => /\ page' = [page EXCEPT ![th[t].new] = Fresh]
                                        /\ pc'[t] = Use(t) /\ th'[t].new = th[t].new
           /\ th[t].then = "reclaim" =>
                 /\ page' = [page EXCEPT ![th[t].new] = [@ EXCEPT !.image = Nil, !.daddr = Nil]]
                 /\ pc'[t] = "reclaim"
<1>1. ControlAt(t) /\ th[t].then \in {"putseg", "newpage", "reclaim"} /\ th[t] \in Locals
    BY DEF Control, ControlAt, TypeOK
<1>2. CASE th[t].then = "putseg"
  <2> DEFINE l == [th[t] EXCEPT !.img = Nil, !.then = Nil]
  <2>1. /\ l \in Locals /\ l.new = th[t].new /\ l.then = Nil /\ l.todo = th[t].todo
        /\ l.s = th[t].s /\ l.src = th[t].src
      BY <1>1, Zenon DEF Locals, Afters
  <2>2. /\ th' = [th EXCEPT ![t] = l] /\ pc' = [pc EXCEPT ![t] = "freepte"]
        /\ UNCHANGED <<page, pga>> /\ "freepte" \in Labels
      BY <1>2, Zenon DEF PutimageReturn, Labels
  <2> HIDE DEF l
  <2>3. Moves(t, l, "freepte")
      BY <2>1, <2>2, Moved, Zenon
  <2>4. TypeOK'
      BY <2>2, <2>3 DEF TypeOK, Moves
  <2>5. ControlAt(t)'
      BY <1>1, <1>2, <2>1, <2>2, <2>3
      DEF ControlAt, In, Dropped, Reusing, Reclaiming, Faulting, Moves, PageAssumption
  <2>6. Control'
      BY <2>2, <2>3, <2>5, MovesControl
  <2>7. QED  BY <1>2, <2>1, <2>2, <2>3, <2>4, <2>6 DEF Moves
<1>3. CASE th[t].then = "newpage"
  <2> DEFINE l == [th[t] EXCEPT !.img = Nil, !.then = Nil]
  <2>1. /\ l \in Locals /\ l.new = th[t].new /\ l.then = Nil /\ l.todo = th[t].todo
        /\ l.s = th[t].s /\ l.src = th[t].src
      BY <1>1, Zenon DEF Locals, Afters
  <2>2. /\ th' = [th EXCEPT ![t] = l] /\ pc' = [pc EXCEPT ![t] = Use(t)]
        /\ page' = [page EXCEPT ![th[t].new] = Fresh] /\ pga' = Nil
        /\ Use(t) \in Labels /\ Use(t) \in {"read", "copy"}
      BY <1>3, Zenon DEF PutimageReturn, Labels, Use
  <2> HIDE DEF l
  <2>3. Moves(t, l, Use(t))
      BY <2>1, <2>2, Moved, Zenon
  <2>4. TypeOK'
    <3>1. page' \in [Pages -> PageRec]
        BY <2>2, Records, Zenon DEF TypeOK
    <3>2. QED  BY <2>2, <2>3, <3>1 DEF TypeOK, Moves
  <2>5. ControlAt(t)'
      BY <1>1, <1>3, <2>1, <2>2, <2>3
      DEF ControlAt, In, Dropped, Reusing, Reclaiming, Faulting, Moves, PageAssumption, Use
  <2>6. pga = t
      BY <1>1, <1>3 DEF ControlAt, Reusing
  <2>7. Control'
      BY <2>2, <2>3, <2>5, <2>6, MovesControl DEF PageAssumption
  <2>8. QED  BY <1>3, <2>1, <2>2, <2>3, <2>4, <2>7 DEF Moves
<1>4. CASE th[t].then = "reclaim"
  <2> DEFINE l == [th[t] EXCEPT !.img = Nil, !.then = Nil, !.new = Nil]
  <2>1. /\ l \in Locals /\ l.then = Nil /\ l.todo = th[t].todo
        /\ l.s = th[t].s /\ l.src = th[t].src
      BY <1>1, Zenon DEF Locals, Afters
  <2>2. /\ th' = [th EXCEPT ![t] = l] /\ pc' = [pc EXCEPT ![t] = "reclaim"]
        /\ page' = [page EXCEPT ![th[t].new] = [@ EXCEPT !.image = Nil, !.daddr = Nil]]
        /\ UNCHANGED pga /\ "reclaim" \in Labels
      BY <1>4, Zenon DEF PutimageReturn, Labels
  <2> HIDE DEF l
  <2>3. Moves(t, l, "reclaim")
      BY <2>1, <2>2, Moved, Zenon
  <2>4. TypeOK'
    <3>1. page' \in [Pages -> PageRec]
        BY <2>2, Zenon DEF TypeOK, PageRec
    <3>2. QED  BY <2>2, <2>3, <3>1 DEF TypeOK, Moves
  <2>5. ControlAt(t)'
      BY <1>1, <1>4, <2>1, <2>2, <2>3
      DEF ControlAt, In, Dropped, Reusing, Reclaiming, Faulting, Moves, PageAssumption
  <2>6. Control'
      BY <2>2, <2>3, <2>5, MovesControl
  <2>7. QED  BY <1>4, <2>1, <2>2, <2>3, <2>4, <2>6 DEF Moves
<1>5. QED  BY <1>1, <1>2, <1>3, <1>4

\* One more step of putimage(), which stays in it.
LEMMA StaysIn ==
    ASSUME PageAssumption, TypeOK, Control, NEW t \in Procs, In(t),
           NEW x \in {"unname", "unhash"}, pc' = [pc EXCEPT ![t] = x],
           image' \in [Images -> ImageRec],
           UNCHANGED <<page, free, hash, pga, seg, pager, own, tlb, th>>
    PROVE  /\ TypeOK' /\ Control' /\ In(t)'
           /\ \A u \in Procs : u # t => pc'[u] = pc[u]
<1>1. x \in Labels
    BY DEF Labels
<1>2. /\ pc' \in [Procs -> Labels] /\ pc'[t] = x
      /\ \A u \in Procs : u # t => pc'[u] = pc[u]
    BY <1>1, PcGoes, Zenon
<1>3. TypeOK'
    BY <1>2 DEF TypeOK
<1>4. ControlAt(t)
    BY DEF Control
<1>5. In(t)' /\ ControlAt(t)'
    BY <1>2, <1>4 DEF ControlAt, In, Dropped, Reusing, Reclaiming, Faulting
<1>6. QED  BY <1>2, <1>3, <1>5, OtherControl

\* putimage() drops its reference: the types and the control.
LEMMA PutimageControl ==
    ASSUME PageAssumption, TypeOK, Control, NEW t \in Procs, Putimage(t)
    PROVE  TypeOK' /\ Control'
<1>1. /\ pc[t] = "putimage" /\ UNCHANGED <<free, hash, seg, pager, own, tlb>>
      /\ image' = [image EXCEPT ![th[t].img].ref = @ - 1]
    BY DEF Putimage, At
<1>2. In(t) /\ image' \in [Images -> ImageRec]
  <2>1. \A r \in ImageRec : [r EXCEPT !.ref = @ - 1] \in ImageRec
      BY DEF ImageRec
  <2>2. QED  BY <1>1, <2>1, Zenon DEF In, TypeOK
<1>3. CASE image[th[t].img].ref = 1
    BY <1>1, <1>2, <1>3, StaysIn DEF Putimage
<1>4. CASE image[th[t].img].ref # 1
    BY <1>1, <1>2, <1>4, ReturnControl, Zenon DEF Putimage
<1>5. QED  BY <1>3, <1>4

\* putimage() clears the qid: the types and the control.
LEMMA UnnameControl ==
    ASSUME PageAssumption, TypeOK, Control, NEW t \in Procs, PutimageUnname(t)
    PROVE  TypeOK' /\ Control'
<1>1. In(t)
    BY DEF PutimageUnname, At, In
<1>2. image' \in [Images -> ImageRec]
    BY Zenon DEF PutimageUnname, TypeOK, ImageRec
<1>3. QED  BY <1>1, <1>2, StaysIn, Zenon DEF PutimageUnname, memory

\* putimage() clears the channel: the types and the control.
LEMMA UnhashControl ==
    ASSUME PageAssumption, TypeOK, Control, NEW t \in Procs, PutimageUnhash(t)
    PROVE  TypeOK' /\ Control'
<1>1. In(t)
    BY DEF PutimageUnhash, At, In
<1>2. image' \in [Images -> ImageRec]
    BY Zenon DEF PutimageUnhash, TypeOK, ImageRec
<1>3. QED  BY <1>1, <1>2, ReturnControl, Zenon DEF PutimageUnhash

\* attachimage() finds an image or takes an unused one: the types and the
\* control.
LEMMA ExecControl ==
    ASSUME PageAssumption, TypeOK, Control, NEW t \in Procs, Exec(t)
    PROVE  TypeOK' /\ Control'
<1>1. /\ pc[t] = "idle" /\ own[t] = NoSegs /\ UNCHANGED <<page, free, hash, pga, seg, pager, own, tlb>>
      /\ pc' = [pc EXCEPT ![t] = "attach"] /\ "attach" \in Labels
    BY DEF Exec, At, memory, Labels
<1>2. PICK f \in Files, i \in Images :
         /\ image' = image \/ image' = [image EXCEPT ![i].c = f, ![i].qid = f]
         /\ th' = [th EXCEPT ![t].img = i, ![t].file = f]
    BY Zenon DEF Exec
<1> DEFINE l == [th[t] EXCEPT !.img = i, !.file = f]
<1>3. /\ l \in Locals /\ l.img = i /\ l.file = f /\ l.then = th[t].then /\ l.todo = th[t].todo
      /\ l.src = th[t].src
      /\ th' = [th EXCEPT ![t] = l]
  <2>1. th[t] \in Locals
      BY DEF TypeOK
  <2>2. th' = [th EXCEPT ![t] = l]
      BY <1>2, Zenon
  <2>3. QED  BY <2>1, <2>2, Zenon DEF Locals
<1> HIDE DEF l
<1>4. Moves(t, l, "attach")
    BY <1>1, <1>3, Moved, Zenon
<1>5. image' \in [Images -> ImageRec]
  <2>1. \A r \in ImageRec : [r EXCEPT !.c = f] \in ImageRec /\ [r EXCEPT !.qid = f] \in ImageRec
      BY DEF ImageRec
  <2>2. [image EXCEPT ![i].c = f] \in [Images -> ImageRec]
      BY <2>1, Zenon DEF TypeOK
  <2>3. [image EXCEPT ![i].c = f, ![i].qid = f] \in [Images -> ImageRec]
      BY <2>1, <2>2, Zenon
  <2>4. QED  BY <1>2, <2>3, Zenon DEF TypeOK
<1>6. TypeOK'
    BY <1>1, <1>4, <1>5 DEF TypeOK, Moves
<1>7. ControlAt(t) /\ own[t]["text"] = Nil
    BY <1>1 DEF Control, NoSegs, Types
<1>8. ControlAt(t)'
    BY <1>1, <1>3, <1>4, <1>7
    DEF ControlAt, In, Dropped, Reusing, Reclaiming, Faulting, Moves, PageAssumption
<1>9. QED  BY <1>1, <1>4, <1>6, <1>8, MovesControl

\* imagereclaim() locks pga: the types and the control.
LEMMA ImagereclaimControl ==
    ASSUME PageAssumption, TypeOK, Control, NEW t \in Procs, Imagereclaim(t)
    PROVE  TypeOK' /\ Control'
<1>1. /\ pc[t] = "idle" /\ own[t] = NoSegs /\ pga = Nil /\ pga' = t
      /\ UNCHANGED <<page, free, hash, image, seg, pager, own, tlb, th>>
      /\ pc' = [pc EXCEPT ![t] = "reclaim"] /\ "reclaim" \in Labels
    BY DEF Imagereclaim, At, memory, Labels
<1>2. /\ pc' \in [Procs -> Labels] /\ pc'[t] = "reclaim"
      /\ \A u \in Procs : u # t => pc'[u] = pc[u]
    BY <1>1, PcGoes, Zenon
<1>3. TypeOK'
    BY <1>1, <1>2 DEF TypeOK
<1>4. ControlAt(t) /\ own[t]["text"] = Nil
    BY <1>1 DEF Control, NoSegs, Types
<1>5. ControlAt(t)'
    BY <1>1, <1>2, <1>4 DEF ControlAt, In, Dropped, Reusing, Reclaiming, Faulting
<1>6. QED  BY <1>1, <1>2, <1>3, <1>5, OtherControl DEF PageAssumption

\* pagereclaim() takes the next cached page, or returns: the types and the
\* control.
LEMMA PagereclaimControl ==
    ASSUME PageAssumption, TypeOK, Control, NEW t \in Procs, Pagereclaim(t)
    PROVE  TypeOK' /\ Control'
<1>1. /\ pc[t] = "reclaim" /\ UNCHANGED <<page, free, image, seg, pager, own, tlb>>
    BY DEF Pagereclaim, At
<1>2. ControlAt(t) /\ pga = t
    BY <1>1 DEF Control, ControlAt, Reclaiming
<1>3. CASE pga' = Nil /\ Goto(t, "idle") /\ UNCHANGED <<hash, th>>
  <2>1. /\ pc' \in [Procs -> Labels] /\ pc'[t] = "idle"
        /\ \A u \in Procs : u # t => pc'[u] = pc[u]
    <3>1. "idle" \in Labels
        BY DEF Labels
    <3>2. QED  BY <1>3, <3>1, PcGoes, Zenon
  <2>2. TypeOK'
      BY <1>1, <1>3, <2>1 DEF TypeOK
  <2>3. ControlAt(t)'
      BY <1>1, <1>2, <1>3, <2>1 DEF ControlAt, In, Dropped, Reusing, Reclaiming, Faulting, PageAssumption
  <2>4. QED  BY <1>1, <1>2, <1>3, <2>1, <2>2, <2>3, OtherControl DEF PageAssumption
<1>4. CASE \E i \in 1 .. Len(free) : page[free[i]].image # Nil /\ Uncache(t, free[i], "reclaim")
  <2>1. PICK i \in 1 .. Len(free) : page[free[i]].image # Nil /\ Uncache(t, free[i], "reclaim")
      BY <1>4
  <2>2. free[i] \in Pages /\ free' \in Seq(Pages)
      BY <1>1 DEF TypeOK
  <2>3. QED  BY <1>1, <1>2, <2>1, <2>2, UncacheControl, Zenon
<1>5. QED  BY <1>3, <1>4 DEF Pagereclaim

\* pexit() and sysexec() begin to put the segments: the types and the control.
LEMMA ReleaseControl ==
    ASSUME PageAssumption, TypeOK, Control, NEW t \in Procs, Release(t)
    PROVE  /\ TypeOK' /\ Control' /\ own[t]["text"] \in Segs /\ own[t]["data"] \in Segs
<1>1. /\ pc[t] = "idle" /\ own[t] # NoSegs /\ UNCHANGED <<page, free, hash, pga, image, seg, pager>>
      /\ pc' = [pc EXCEPT ![t] = "putseg"] /\ "putseg" \in Labels
      /\ th' = [th EXCEPT ![t].todo = <<own[t]["text"], own[t]["data"]>>]
      /\ own' = [own EXCEPT ![t] = NoSegs]
      /\ tlb' = [tlb EXCEPT ![t] = Unmapped]
    BY DEF Release, At, memory, Labels
<1>2. ControlAt(t)
    BY DEF Control
<1>3. own[t]["text"] \in Segs /\ own[t]["data"] \in Segs
  <2>1. own[t] \in [Types -> Segs \union {Nil}]
      BY DEF TypeOK
  <2>2. own[t]["text"] # Nil \/ own[t]["data"] # Nil
    <3>1. SUFFICES ASSUME own[t]["text"] = Nil, own[t]["data"] = Nil PROVE FALSE
        OBVIOUS
    <3>2. own[t] = [y \in Types |-> Nil]
        BY <2>1, <3>1 DEF Types
    <3>3. QED  BY <1>1, <3>2 DEF NoSegs
  <2>3. QED  BY <1>2, <2>1, <2>2 DEF ControlAt, Types
<1> DEFINE l == [th[t] EXCEPT !.todo = <<own[t]["text"], own[t]["data"]>>]
<1>4. /\ l \in Locals /\ l.then = th[t].then /\ l.todo # << >> /\ th' = [th EXCEPT ![t] = l]
      /\ l.src = th[t].src
  <2>1. <<own[t]["text"], own[t]["data"]>> \in Seq(Segs) /\ <<own[t]["text"], own[t]["data"]>> # << >>
      BY <1>3
  <2>2. QED  BY <1>1, <2>1, Zenon DEF TypeOK, Locals
<1> HIDE DEF l
<1>5. Moves(t, l, "putseg")
    BY <1>1, <1>4, Moved, Zenon
<1>6. TypeOK'
  <2>1. own' \in [Procs -> [Types -> Segs \union {Nil}]]
      BY <1>1 DEF TypeOK, NoSegs
  <2>2. tlb' \in [Procs -> [page : Pages \union {Nil}, rights : Rights]]
      BY <1>1 DEF TypeOK, Unmapped, Rights
  <2>3. QED  BY <1>1, <1>5, <2>1, <2>2 DEF TypeOK, Moves
<1>7. own'[t]["text"] = Nil /\ own'[t]["data"] = Nil /\ \A u \in Procs : u # t => own'[u] = own[u]
    BY <1>1 DEF TypeOK, NoSegs, Types
<1>8. ControlAt(t)'
    BY <1>1, <1>2, <1>4, <1>5, <1>7
    DEF ControlAt, In, Dropped, Reusing, Reclaiming, Faulting, Moves, PageAssumption
<1>9. Control'
    BY <1>1, <1>5, <1>7, <1>8, OtherControl DEF Moves
<1>10. QED  BY <1>3, <1>6, <1>9

\* sysexec() has the text segment s of the image i and the data segment d.
Attached(t, i, s, d) ==
    /\ s # d /\ seg[d].type = Nil
    /\ IF image[i].s = Nil THEN seg[s].type = Nil ELSE s = image[i].s
    /\ seg' \in [Segs -> SegRec]
    /\ seg'[d].ref = 1 /\ seg'[d].type = "data" /\ seg'[d].image = i
    /\ seg'[d].map = Nil /\ seg'[d].lk = Nil
    /\ image[i].s = Nil => /\ seg'[s].ref = 1 /\ seg'[s].type = "text" /\ seg'[s].image = i
                           /\ seg'[s].map = Nil /\ seg'[s].lk = Nil
    /\ image[i].s # Nil => seg'[s] = [seg[s] EXCEPT !.ref = @ + 1]
    /\ \A x \in Segs : x # s /\ x # d => seg'[x] = seg[x]
    /\ image' \in [Images -> ImageRec]
    /\ image' = [image EXCEPT ![i].s = s, ![i].ref = @ + (IF image[i].s = Nil THEN 2 ELSE 1)]
    /\ image'[i].s = s /\ \A j \in Images : j # i => image'[j] = image[j]
    /\ own' \in [Procs -> [Types -> Segs \union {Nil}]]
    /\ own'[t]["text"] = s /\ own'[t]["data"] = d
    /\ \A u \in Procs : u # t => own'[u] = own[u]

\* What attachimage() and sysexec() do to the segments.
LEMMA AttachEffect ==
    ASSUME PageAssumption, TypeOK, Control, NEW t \in Procs, Attach(t)
    PROVE  \E s, d \in Segs : Attached(t, th[t].img, s, d)
<1> DEFINE i == th[t].img
           f == th[t].file
           text == image[i].s
           s == IF text = Nil THEN newseg({}) ELSE text
           d == newseg({s})
           new(y) == [ref |-> 1, type |-> y, image |-> i, map |-> Nil, lk |-> Nil,
                      memory |-> <<f, y>>]
<1>1. /\ i \in Images /\ f \in Files
    BY DEF TypeOK, Control, ControlAt, Attach, At, Locals
<1>2. /\ text = Nil => NewSegs # {}
      /\ NewSegs \ {s} # {}
      /\ seg' = [seg EXCEPT ![d] = new("data"),
                            ![s] = IF text = Nil THEN new("text") ELSE [seg[s] EXCEPT !.ref = @ + 1]]
      /\ image' = [image EXCEPT ![i].s = s, ![i].ref = @ + (IF text = Nil THEN 2 ELSE 1)]
      /\ own' = [own EXCEPT ![t] = [y \in Types |-> IF y = "text" THEN s ELSE d]]
    BY DEF Attach
<1>3. d \in NewSegs /\ d # s
    BY <1>2 DEF newseg
<1>4. text = Nil => s \in NewSegs
    BY <1>2 DEF newseg
<1>5. text # Nil => s = text /\ s \in Segs
    BY <1>1 DEF TypeOK, ImageRec
<1>6. s \in Segs /\ d \in Segs /\ seg[d].type = Nil /\ (text = Nil => seg[s].type = Nil)
    BY <1>3, <1>4, <1>5 DEF NewSegs
<1>7. \A y \in Types : /\ new(y) \in SegRec /\ new(y).ref = 1 /\ new(y).type = y /\ new(y).image = i
                       /\ new(y).map = Nil /\ new(y).lk = Nil
  <2> SUFFICES ASSUME NEW y \in Types
               PROVE  /\ new(y) \in SegRec /\ new(y).ref = 1 /\ new(y).type = y /\ new(y).image = i
                      /\ new(y).map = Nil /\ new(y).lk = Nil
      OBVIOUS
  <2>1. <<f, y>> \in Contents
      BY <1>1 DEF Contents
  <2> DEFINE c == <<f, y>>
  <2>2. new(y) = [ref |-> 1, type |-> y, image |-> i, map |-> Nil, lk |-> Nil, memory |-> c]
      OBVIOUS
  <2> HIDE DEF c, new, i
  <2>3. c \in Contents
      BY <2>1 DEF c
  <2>4. QED  BY <1>1, <2>2, <2>3 DEF SegRec, i
<1> HIDE DEF s, d, new, text, i
<1>8. "text" \in Types /\ "data" \in Types
    BY DEF Types
<1>9. seg[s] \in SegRec /\ \A r \in SegRec : [r EXCEPT !.ref = @ + 1] \in SegRec
  <2>1. \A r \in SegRec : [r EXCEPT !.ref = @ + 1] \in SegRec
      BY DEF SegRec
  <2>2. QED  BY <1>6, <2>1 DEF TypeOK
<1>10. /\ seg' \in [Segs -> SegRec] /\ seg'[d] = new("data")
       /\ seg'[s] = IF text = Nil THEN new("text") ELSE [seg[s] EXCEPT !.ref = @ + 1]
       /\ \A x \in Segs : x # s /\ x # d => seg'[x] = seg[x]
  <2> DEFINE g == [seg EXCEPT ![d] = new("data")]
             a == IF text = Nil THEN new("text") ELSE [seg[s] EXCEPT !.ref = @ + 1]
  <2>1. g \in [Segs -> SegRec] /\ g[d] = new("data") /\ \A x \in Segs : x # d => g[x] = seg[x]
      BY <1>6, <1>7, <1>8 DEF TypeOK
  <2>2. seg' = [g EXCEPT ![s] = a]
      BY <1>2
  <2> HIDE DEF g
  <2>4. a \in SegRec /\ a = IF text = Nil THEN new("text") ELSE [seg[s] EXCEPT !.ref = @ + 1]
      BY <1>7, <1>8, <1>9
  <2> HIDE DEF a
  <2>5. seg' \in [Segs -> SegRec] /\ seg'[s] = a /\ \A x \in Segs : x # s => seg'[x] = g[x]
      BY <1>6, <2>1, <2>2, <2>4
  <2>6. QED  BY <1>3, <1>6, <2>1, <2>4, <2>5
<1>11. image' \in [Images -> ImageRec] /\ image'[i].s = s /\ \A j \in Images : j # i => image'[j] = image[j]
  <2>1. \A r \in ImageRec : [r EXCEPT !.s = s] \in ImageRec /\ [r EXCEPT !.s = s].s = s
      BY <1>6 DEF ImageRec
  <2>2. \A r \in ImageRec : [r EXCEPT !.ref = @ + (IF text = Nil THEN 2 ELSE 1)] \in ImageRec
                            /\ [r EXCEPT !.ref = @ + (IF text = Nil THEN 2 ELSE 1)].s = r.s
      BY DEF ImageRec
  <2>3. /\ [image EXCEPT ![i].s = s] \in [Images -> ImageRec]
        /\ [image EXCEPT ![i].s = s][i].s = s
        /\ \A j \in Images : j # i => [image EXCEPT ![i].s = s][j] = image[j]
      BY <1>1, <2>1 DEF TypeOK
  <2> DEFINE g == [image EXCEPT ![i].s = s]
             a == [g[i] EXCEPT !.ref = @ + (IF text = Nil THEN 2 ELSE 1)]
  <2>4. image' = [g EXCEPT ![i] = a]
      BY <1>2
  <2>5. a \in ImageRec /\ a.s = s
      BY <1>1, <2>2, <2>3, Zenon
  <2> HIDE DEF g, a
  <2>6. image' \in [Images -> ImageRec] /\ image'[i] = a /\ \A j \in Images : j # i => image'[j] = g[j]
      BY <1>1, <2>3, <2>4, <2>5 DEF g
  <2>7. QED  BY <1>1, <2>3, <2>5, <2>6 DEF g
<1>12. /\ own' \in [Procs -> [Types -> Segs \union {Nil}]]
       /\ own'[t]["text"] = s /\ own'[t]["data"] = d
       /\ \A u \in Procs : u # t => own'[u] = own[u]
  <2>1. \A y \in Types : (IF y = "text" THEN s ELSE d) \in Segs
      BY <1>6
  <2>2. QED  BY <1>2, <1>8, <2>1 DEF TypeOK
<1>13. seg'[d].ref = 1 /\ seg'[d].type = "data" /\ seg'[d].image = i /\ seg'[d].map = Nil /\ seg'[d].lk = Nil
    BY <1>7, <1>8, <1>10
<1>14. text = Nil => /\ seg'[s].ref = 1 /\ seg'[s].type = "text" /\ seg'[s].image = i
                     /\ seg'[s].map = Nil /\ seg'[s].lk = Nil
    BY <1>7, <1>8, <1>10
<1>15. Attached(t, i, s, d)
    BY <1>2, <1>3, <1>5, <1>6, <1>10, <1>11, <1>12, <1>13, <1>14 DEF text, Attached
<1>16. QED  BY <1>6, <1>15 DEF i

\* The rest of attachimage() and sysexec(): the types and the control.
LEMMA AttachControl ==
    ASSUME PageAssumption, TypeOK, Control, NEW t \in Procs, Attach(t)
    PROVE  /\ TypeOK' /\ Control' /\ pc[t] = "attach" /\ Moves(t, NoLocals, "idle")
           /\ UNCHANGED <<page, free, hash, pga, pager, tlb>>
<1>1. /\ pc[t] = "attach" /\ th' = [th EXCEPT ![t] = NoLocals] /\ pc' = [pc EXCEPT ![t] = "idle"]
      /\ UNCHANGED <<page, free, hash, pga, pager, tlb>>
    BY DEF Attach, At, memory
<1>2. PICK s, d \in Segs :
              /\ seg' \in [Segs -> SegRec] /\ image' \in [Images -> ImageRec]
              /\ own' \in [Procs -> [Types -> Segs \union {Nil}]]
              /\ own'[t]["text"] = s /\ own'[t]["data"] = d
              /\ \A u \in Procs : u # t => own'[u] = own[u]
  <2>1. PICK s, d \in Segs : Attached(t, th[t].img, s, d)
      BY AttachEffect
  <2>2. WITNESS s \in Segs, d \in Segs
  <2>3. QED  BY <2>1 DEF Attached
<1>3. Moves(t, NoLocals, "idle")
  <2>1. "idle" \in Labels
      BY DEF Labels
  <2>2. QED  BY <1>1, <2>1, Records, Moved, Zenon
<1>4. TypeOK'
    BY <1>1, <1>2, <1>3 DEF TypeOK, Moves
<1>5. ControlAt(t)
    BY DEF Control
<1>6. NoLocals.todo = << >> /\ NoLocals.then = Nil /\ NoLocals.src = Nil
    BY DEF NoLocals
<1>7. ControlAt(t)'
    BY <1>1, <1>2, <1>3, <1>5, <1>6
    DEF ControlAt, In, Dropped, Reusing, Reclaiming, Faulting, Moves, PageAssumption
<1>8. QED  BY <1>1, <1>2, <1>3, <1>4, <1>7, OtherControl DEF Moves

\* putpage() leaves pages and a list of pages.
LEMMA PutTypes ==
    ASSUME PageAssumption, NEW m \in [Pages -> PageRec], NEW fr \in Seq(Pages), NEW p \in Pages,
           putpage(m, fr, p)
    PROVE  page' \in [Pages -> PageRec] /\ free' \in Seq(Pages)
<1>1. \A r \in PageRec : [r EXCEPT !.ref = 0] \in PageRec
    BY Zenon DEF PageRec
<1>2. ASSUME NEW r \in PageRec, r.ref > 1 PROVE [r EXCEPT !.ref = @ - 1] \in PageRec
  <2>1. r.ref \in Nat
      BY DEF PageRec
  <2>2. r.ref - 1 \in Nat
      BY <1>2, <2>1
  <2>3. QED  BY <2>2, Zenon DEF PageRec
<1>3. CASE m[p].ref > 1
    BY <1>2, <1>3 DEF putpage
<1>4. CASE ~(m[p].ref > 1) /\ m[p].image # Nil
  <2>1. page' = [m EXCEPT ![p].ref = 0] /\ free' = Append(fr, p)
      BY <1>4 DEF putpage
  <2>2. page' \in [Pages -> PageRec]
      BY <1>1, <2>1
  <2>3. QED  BY <2>1, <2>2
<1>5. CASE ~(m[p].ref > 1) /\ m[p].image = Nil
  <2>1. NoPage \in PageRec
      BY Records
  <2>2. CASE Len(fr) > MaxFree
    <3>1. page' = [m EXCEPT ![p] = NoPage] /\ free' = fr
        BY <1>5, <2>2 DEF putpage
    <3>2. QED  BY <2>1, <3>1
  <2>3. CASE ~(Len(fr) > MaxFree)
    <3>1. page' = [m EXCEPT ![p].ref = 0] /\ free' = <<p>> \o fr
        BY <1>5, <2>3 DEF putpage
    <3>2. page' \in [Pages -> PageRec]
        BY <1>1, <3>1
    <3>3. QED  BY <3>1, <3>2
  <2>4. QED  BY <2>2, <2>3
<1>6. QED  BY <1>3, <1>4, <1>5

\* The next segment to be put, and those after it.
LEMMA TodoHead ==
    ASSUME TypeOK, NEW t \in Procs, th[t].todo # << >>
    PROVE  /\ Head(th[t].todo) \in Segs /\ Head(th[t].todo) = th[t].todo[1]
           /\ Tail(th[t].todo) \in Seq(Segs) /\ Len(Tail(th[t].todo)) = Len(th[t].todo) - 1
           /\ Len(th[t].todo) \in Nat \ {0}
           /\ \A i \in 1 .. Len(th[t].todo) - 1 : Tail(th[t].todo)[i] = th[t].todo[i + 1]
<1>1. th[t].todo \in Seq(Segs)
    BY DEF TypeOK, Locals
<1>2. QED  BY <1>1

\* putseg(): the types, the control and what becomes of the segment.
LEMMA PutsegControl ==
    ASSUME PageAssumption, TypeOK, Control, NEW t \in Procs, Putseg(t)
    PROVE  LET s == Head(th[t].todo)
               last == seg[s].ref = 1
           IN
           /\ TypeOK' /\ Control'
           /\ pc[t] = "putseg" /\ th[t].todo # << >> /\ s \in Segs
           /\ seg'[s] = [seg[s] EXCEPT !.ref = @ - 1] /\ \A x \in Segs : x # s => seg'[x] = seg[x]
           /\ \A i \in Images : /\ last /\ i = seg[s].image /\ image[i].s = s => image'[i] = [image[i] EXCEPT !.s = Nil]
                                /\ ~(last /\ i = seg[s].image /\ image[i].s = s) => image'[i] = image[i]
           /\ \A u \in Procs : u # t => th'[u] = th[u] /\ pc'[u] = pc[u]
           /\ last => /\ pc'[t] = "putimage" /\ th'[t] = [th[t] EXCEPT !.img = seg[s].image, !.then = "putseg"]
           /\ ~last => /\ pc'[t] = Putting(Tail(th[t].todo))
                       /\ th'[t] = [th[t] EXCEPT !.todo = Tail(@)]
           /\ UNCHANGED <<page, free, hash, pga, pager, own, tlb>>
<1> DEFINE s == Head(th[t].todo)
           i == seg[s].image
           last == seg[s].ref = 1
<1>1. pc[t] = "putseg" /\ ControlAt(t) /\ th[t].todo # << >>
    BY DEF Putseg, At, Control, ControlAt
<1>2. s \in Segs /\ Tail(th[t].todo) \in Seq(Segs)
    BY <1>1, TodoHead
<1>3. /\ seg' = [seg EXCEPT ![s].ref = @ - 1]
      /\ image' = IF last /\ image[i].s = s THEN [image EXCEPT ![i].s = Nil] ELSE image
      /\ UNCHANGED <<page, free, hash, pga, pager, own, tlb>>
      /\ last => th' = [th EXCEPT ![t].img = i, ![t].then = "putseg"] /\ pc' = [pc EXCEPT ![t] = "putimage"]
      /\ ~last => th' = [th EXCEPT ![t].todo = Tail(@)] /\ pc' = [pc EXCEPT ![t] = Putting(Tail(th[t].todo))]
    BY DEF Putseg, memory
<1> HIDE DEF s
<1>4. seg' \in [Segs -> SegRec] /\ seg'[s] = [seg[s] EXCEPT !.ref = @ - 1]
      /\ \A x \in Segs : x # s => seg'[x] = seg[x]
  <2>1. [seg[s] EXCEPT !.ref = @ - 1] \in SegRec
    <3>1. \A r \in SegRec : [r EXCEPT !.ref = @ - 1] \in SegRec
        BY DEF SegRec
    <3>2. QED  BY <1>2, <3>1 DEF TypeOK
  <2>2. QED  BY <1>2, <1>3, <2>1 DEF TypeOK
<1>5. image' \in [Images -> ImageRec]
      /\ \A j \in Images : /\ last /\ j = i /\ image[j].s = s => image'[j] = [image[j] EXCEPT !.s = Nil]
                           /\ ~(last /\ j = i /\ image[j].s = s) => image'[j] = image[j]
  <2>1. \A r \in ImageRec : [r EXCEPT !.s = Nil] \in ImageRec
      BY DEF ImageRec
  <2> HIDE DEF i, last
  <2>2. image \in [Images -> ImageRec]
      BY DEF TypeOK
  <2>3. QED  BY <1>3, <2>1, <2>2, Zenon
<1>6. CASE last
  <2> DEFINE l == [th[t] EXCEPT !.img = i, !.then = "putseg"]
  <2>1. /\ l \in Locals /\ l.todo = th[t].todo /\ l.then = "putseg" /\ th' = [th EXCEPT ![t] = l]
        /\ l.src = th[t].src
    <3>1. i \in Images \union {Nil}
        BY <1>2 DEF TypeOK, SegRec
    <3>2. th' = [th EXCEPT ![t] = l]
        BY <1>3, <1>6, Zenon
    <3>3. th[t] \in Locals
        BY DEF TypeOK
    <3> HIDE DEF i
    <3>4. QED  BY <3>1, <3>2, <3>3, Zenon DEF Locals, Afters
  <2> HIDE DEF l
  <2>2. Moves(t, l, "putimage")
    <3>1. "putimage" \in Labels
        BY DEF Labels
    <3>2. QED  BY <1>3, <1>6, <2>1, <3>1, Moved, Zenon
  <2>3. TypeOK'
      BY <1>3, <1>4, <1>5, <2>2 DEF TypeOK, Moves
  <2>4. ControlAt(t)'
      BY <1>1, <1>3, <2>1, <2>2
      DEF ControlAt, In, Dropped, Reusing, Reclaiming, Faulting, Moves, PageAssumption
  <2>5. Control'
      BY <1>3, <2>2, <2>4, MovesControl
  <2>6. QED  BY <1>1, <1>2, <1>3, <1>4, <1>5, <1>6, <2>2, <2>3, <2>5, Zenon DEF Moves, l, s
<1>7. CASE ~last
  <2> DEFINE l == [th[t] EXCEPT !.todo = Tail(@)]
             x == Putting(Tail(th[t].todo))
  <2>1. /\ l \in Locals /\ l.todo = Tail(th[t].todo) /\ l.then = th[t].then /\ th' = [th EXCEPT ![t] = l]
        /\ l.src = th[t].src
    <3>1. th' = [th EXCEPT ![t] = l]
        BY <1>3, <1>7
    <3>2. th[t] \in Locals
        BY DEF TypeOK
    <3>3. QED  BY <1>2, <3>1, <3>2, Zenon DEF Locals
  <2>2. x \in Labels /\ x = IF l.todo = << >> THEN "idle" ELSE "putseg"
      BY <2>1 DEF Putting, Labels
  <2> HIDE DEF l
  <2>3. Moves(t, l, x)
      BY <1>3, <1>7, <2>1, <2>2, Moved, Zenon
  <2>4. TypeOK'
      BY <1>3, <1>4, <1>5, <2>3 DEF TypeOK, Moves
  <2> HIDE DEF x
  <2>5. ControlAt(t)'
      BY <1>1, <1>3, <2>1, <2>2, <2>3, Zenon
      DEF ControlAt, In, Dropped, Reusing, Reclaiming, Faulting, Moves, PageAssumption
  <2>6. Control'
      BY <1>3, <2>3, <2>5, MovesControl
  <2>7. QED  BY <1>1, <1>2, <1>3, <1>4, <1>5, <1>7, <2>3, <2>4, <2>6 DEF Moves, l, x, s
<1>8. QED  BY <1>6, <1>7

\* freepte(): the types, the control and the segment that is gone.
LEMMA FreepteControl ==
    ASSUME PageAssumption, TypeOK, Control, NEW t \in Procs, Freepte(t)
    PROVE  LET s == Head(th[t].todo) IN
           /\ TypeOK' /\ Control'
           /\ pc[t] = "freepte" /\ th[t].todo # << >> /\ s \in Segs
           /\ seg'[s] = NoSeg /\ \A x \in Segs : x # s => seg'[x] = seg[x]
           /\ pc'[t] = Putting(Tail(th[t].todo)) /\ th'[t] = [th[t] EXCEPT !.todo = Tail(@)]
           /\ \A u \in Procs : u # t => th'[u] = th[u] /\ pc'[u] = pc[u]
           /\ seg[s].map = Nil => UNCHANGED <<page, free>>
           /\ seg[s].map # Nil => pga = Nil /\ putpage(page, free, seg[s].map)
           /\ UNCHANGED <<hash, pga, image, pager, own, tlb>>
<1> DEFINE s == Head(th[t].todo)
           l == [th[t] EXCEPT !.todo = Tail(@)]
           x == Putting(Tail(th[t].todo))
<1>1. pc[t] = "freepte" /\ ControlAt(t) /\ th[t].todo # << >>
    BY DEF Freepte, At, Control, ControlAt, Dropped
<1>2. s \in Segs /\ Tail(th[t].todo) \in Seq(Segs)
    BY <1>1, TodoHead
<1>3. /\ seg' = [seg EXCEPT ![s] = NoSeg]
      /\ seg[s].map = Nil => UNCHANGED <<page, free>>
      /\ seg[s].map # Nil => pga = Nil /\ putpage(page, free, seg[s].map)
      /\ th' = [th EXCEPT ![t] = l] /\ pc' = [pc EXCEPT ![t] = x]
      /\ UNCHANGED <<hash, pga, image, pager, own, tlb>>
    BY DEF Freepte
<1> HIDE DEF s
<1>4. seg' \in [Segs -> SegRec] /\ seg'[s] = NoSeg /\ \A y \in Segs : y # s => seg'[y] = seg[y]
    BY <1>2, <1>3, Records, SegChanges
<1>5. l \in Locals /\ l.todo = Tail(th[t].todo) /\ l.then = th[t].then /\ l.src = th[t].src
    BY <1>2, Zenon DEF TypeOK, Locals
<1>6. x \in Labels /\ x = IF l.todo = << >> THEN "idle" ELSE "putseg"
    BY <1>5 DEF Putting, Labels
<1> HIDE DEF l, x
<1>7. Moves(t, l, x)
    BY <1>3, <1>5, <1>6, Moved, Zenon
<1>8. page' \in [Pages -> PageRec] /\ free' \in Seq(Pages)
  <2>1. page \in [Pages -> PageRec] /\ free \in Seq(Pages) /\ seg[s].map \in Pages \union {Nil}
      BY <1>2 DEF TypeOK, SegRec
  <2>2. QED  BY <1>3, <2>1, PutTypes
<1>9. TypeOK'
    BY <1>3, <1>4, <1>7, <1>8 DEF TypeOK, Moves
<1>10. ControlAt(t)'
    BY <1>1, <1>3, <1>5, <1>6, <1>7, Zenon
    DEF ControlAt, In, Dropped, Reusing, Reclaiming, Faulting, Moves, PageAssumption
<1>11. Control'
    BY <1>3, <1>7, <1>10, MovesControl
<1>12. QED  BY <1>1, <1>2, <1>3, <1>4, <1>7, <1>9, <1>11 DEF Moves, l, x, s

\* What rfork() does to the segments: n is the child's data segment.
Forked(t, u, n) ==
    LET x == own[t]["text"]
        d == own[t]["data"]
    IN  /\ x \in Segs /\ d \in Segs /\ n \in Segs /\ x # d /\ x # n /\ u # t
        /\ seg'[x] = [seg[x] EXCEPT !.ref = @ + 1]
        /\ own' \in [Procs -> [Types -> Segs \union {Nil}]]
        /\ own'[u]["text"] = x /\ own'[u]["data"] = n
        /\ \A v \in Procs : v # u => own'[v] = own[v]
        /\ \/ /\ n = d /\ seg'[d] = [seg[d] EXCEPT !.ref = @ + 1]
              /\ \A s \in Segs : s # x /\ s # d => seg'[s] = seg[s]
              /\ UNCHANGED <<image, page>>
           \/ /\ n # d /\ seg[n].type = Nil /\ seg'[n] = [seg[d] EXCEPT !.ref = 1]
              /\ \A s \in Segs : s # x /\ s # n => seg'[s] = seg[s]
              /\ image' = [image EXCEPT ![seg[d].image].ref = @ + 1]
              /\ page' = IF seg[d].map = Nil THEN page ELSE [page EXCEPT ![seg[d].map].ref = @ + 1]

\* What dupseg() does to the segments.
LEMMA ForkEffect ==
    ASSUME PageAssumption, TypeOK, Control, SegTypes, NEW t \in Procs, NEW u \in Procs, Fork(t, u)
    PROVE  /\ seg' \in [Segs -> SegRec] /\ \E n \in Segs : Forked(t, u, n)
           /\ pc[t] = "idle" /\ pc[u] = "idle" /\ own[u]["text"] = Nil /\ own[u]["data"] = Nil
           /\ seg[own[t]["text"]].lk = Nil /\ seg[own[t]["data"]].lk = Nil
<1> DEFINE x == own[t]["text"]
           d == own[t]["data"]
           n == newseg({})
<1>1. /\ pc[t] = "idle" /\ pc[u] = "idle" /\ own[u] = NoSegs /\ x # Nil
      /\ seg[x].lk = Nil /\ seg[d].lk = Nil
    BY DEF Fork, At
<1>2. own[u]["text"] = Nil /\ own[u]["data"] = Nil
    BY <1>1 DEF NoSegs, Types
<1>3. x \in Segs /\ d \in Segs /\ u # t
    BY <1>1, <1>2 DEF TypeOK, Types, Control, ControlAt
<1>4. seg[x].type = "text" /\ seg[d].type = "data" /\ x # d
    BY <1>3 DEF SegTypes, Types, PageAssumption
<1>5. seg \in [Segs -> SegRec] /\ own \in [Procs -> [Types -> Segs \union {Nil}]]
    BY DEF TypeOK
<1>6. \A r \in SegRec : [r EXCEPT !.ref = @ + 1] \in SegRec /\ [r EXCEPT !.ref = 1] \in SegRec
    BY DEF SegRec
<1> HIDE DEF x, d, n
<1>7. CASE /\ seg' = [seg EXCEPT ![x].ref = @ + 1, ![d].ref = @ + 1]
           /\ own' = [own EXCEPT ![u] = own[t]]
           /\ UNCHANGED <<image, page>>
  <2> DEFINE g == [seg EXCEPT ![x].ref = @ + 1]
  <2>1. /\ g \in [Segs -> SegRec] /\ g[x] = [seg[x] EXCEPT !.ref = @ + 1]
        /\ \A s \in Segs : s # x => g[s] = seg[s]
      BY <1>3, <1>5, <1>6, Zenon
  <2>2. seg' = [g EXCEPT ![d] = [seg[d] EXCEPT !.ref = @ + 1]]
      BY <1>3, <1>4, <1>7, <2>1, Zenon
  <2> HIDE DEF g
  <2>3. /\ seg' \in [Segs -> SegRec] /\ seg'[d] = [seg[d] EXCEPT !.ref = @ + 1]
        /\ seg'[x] = [seg[x] EXCEPT !.ref = @ + 1]
        /\ \A s \in Segs : s # x /\ s # d => seg'[s] = seg[s]
      BY <1>3, <1>4, <1>6, <2>1, <2>2, Zenon
  <2>4. /\ own' \in [Procs -> [Types -> Segs \union {Nil}]] /\ own'[u] = own[t]
        /\ \A v \in Procs : v # u => own'[v] = own[v]
      BY <1>5, <1>7
  <2>5. Forked(t, u, d)
      BY <1>3, <1>4, <1>7, <2>3, <2>4 DEF Forked, x, d
  <2>6. QED  BY <1>1, <1>2, <1>3, <2>3, <2>5 DEF x, d
<1>8. CASE /\ NewSegs # {}
           /\ seg' = [seg EXCEPT ![x].ref = @ + 1, ![n] = [seg[d] EXCEPT !.ref = 1]]
           /\ own' = [own EXCEPT ![u] = [own[t] EXCEPT !["data"] = n]]
           /\ image' = [image EXCEPT ![seg[d].image].ref = @ + 1]
           /\ page' = IF seg[d].map = Nil THEN page ELSE [page EXCEPT ![seg[d].map].ref = @ + 1]
  <2>1. n \in NewSegs
      BY <1>8 DEF n, newseg
  <2>2. n \in Segs /\ seg[n].type = Nil /\ n # x /\ n # d
      BY <1>3, <1>4, <2>1 DEF NewSegs, PageAssumption
  <2> DEFINE g == [seg EXCEPT ![x].ref = @ + 1]
             a == [seg[d] EXCEPT !.ref = 1]
  <2>3. /\ g \in [Segs -> SegRec] /\ g[x] = [seg[x] EXCEPT !.ref = @ + 1]
        /\ \A s \in Segs : s # x => g[s] = seg[s]
        /\ a \in SegRec
      BY <1>3, <1>5, <1>6, Zenon
  <2>4. seg' = [g EXCEPT ![n] = a]
      BY <1>8
  <2> HIDE DEF g, a
  <2>5. /\ seg' \in [Segs -> SegRec] /\ seg'[n] = a
        /\ seg'[x] = [seg[x] EXCEPT !.ref = @ + 1]
        /\ \A s \in Segs : s # x /\ s # n => seg'[s] = seg[s]
      BY <1>3, <1>4, <2>2, <2>3, <2>4
  <2>6. /\ own' \in [Procs -> [Types -> Segs \union {Nil}]] /\ own'[u]["text"] = x /\ own'[u]["data"] = n
        /\ \A v \in Procs : v # u => own'[v] = own[v]
    <3> DEFINE w == [own[t] EXCEPT !["data"] = n]
    <3>1. w \in [Types -> Segs \union {Nil}] /\ w["text"] = x /\ w["data"] = n
        BY <1>5, <2>2 DEF Types, x
    <3> HIDE DEF w
    <3>2. own' = [own EXCEPT ![u] = w]
        BY <1>8 DEF w
    <3>3. QED  BY <1>5, <3>1, <3>2
  <2>7. Forked(t, u, n)
      BY <1>3, <1>4, <1>8, <2>2, <2>5, <2>6 DEF Forked, x, d, a
  <2>8. QED  BY <1>1, <1>2, <2>2, <2>5, <2>7 DEF x, d
<1>9. QED  BY <1>7, <1>8 DEF Fork, x, d, n

\* dupseg(): the types and the control.
LEMMA ForkControl ==
    ASSUME PageAssumption, TypeOK, Control, SegTypes, NEW t \in Procs, NEW u \in Procs, Fork(t, u)
    PROVE  /\ TypeOK' /\ Control' /\ UNCHANGED <<free, hash, pga, pager, th, pc>>
<1>1. PICK n \in Segs : Forked(t, u, n)
    BY ForkEffect
<1>2. UNCHANGED <<free, hash, pga, pager, th, pc>> /\ seg' \in [Segs -> SegRec]
    BY ForkEffect, Zenon DEF Fork
<1>3. tlb' \in [Procs -> [page : Pages \union {Nil}, rights : Rights]]
  <2>1. Unmapped \in [page : Pages \union {Nil}, rights : Rights]
      BY DEF Unmapped, Rights
  <2>2. \E S : tlb' = [v \in Procs |-> IF v \in S THEN Unmapped ELSE tlb[v]]
      BY Zenon DEF Fork, Flush
  <2>3. QED  BY <2>1, <2>2 DEF TypeOK
<1>4. image' \in [Images -> ImageRec] /\ page' \in [Pages -> PageRec]
  <2>1. \A r \in ImageRec : [r EXCEPT !.ref = @ + 1] \in ImageRec
      BY DEF ImageRec
  <2>2. \A r \in PageRec : [r EXCEPT !.ref = @ + 1] \in PageRec
      BY DEF PageRec
  <2>3. image \in [Images -> ImageRec] /\ page \in [Pages -> PageRec]
      BY DEF TypeOK
  <2>4. \/ UNCHANGED <<image, page>>
        \/ /\ \E i : image' = [image EXCEPT ![i].ref = @ + 1]
           /\ page' = page \/ \E p : page' = [page EXCEPT ![p].ref = @ + 1]
      BY <1>1 DEF Forked
  <2>5. \A i : [image EXCEPT ![i].ref = @ + 1] \in [Images -> ImageRec]
      BY <2>1, <2>3, Zenon
  <2>6. \A p : [page EXCEPT ![p].ref = @ + 1] \in [Pages -> PageRec]
      BY <2>2, <2>3, Zenon
  <2>7. QED  BY <2>3, <2>4, <2>5, <2>6
<1>5. TypeOK'
    BY <1>1, <1>2, <1>3, <1>4 DEF TypeOK, Forked
<1>6. ControlAt(u) /\ pc[u] = "idle"
    BY ForkEffect DEF Control
<1>7. ControlAt(u)'
    BY <1>1, <1>2, <1>6, Zenon
    DEF ControlAt, In, Dropped, Reusing, Reclaiming, Faulting, Forked, PageAssumption
<1>8. Control'
    BY <1>1, <1>2, <1>7, OtherControl DEF Forked
<1>9. QED  BY <1>2, <1>5, <1>8

\* The locals with which fixfault() goes on to map the page.
LEMMA MapLocals ==
    ASSUME PageAssumption, NEW s \in Segs, NEW rights \in Rights
    PROVE  LET k == [NoLocals EXCEPT !.s = s, !.rights = rights] IN
           /\ k \in Locals /\ k.s = s /\ k.todo = << >> /\ k.then = Nil
<1>1. NoLocals \in Locals
    BY Records
<1>2. NoLocals.todo = << >> /\ NoLocals.then = Nil
    BY DEF NoLocals
<1>3. QED  BY <1>1, <1>2, Zenon DEF Locals

\* fixfault() with the segment locked, and pio() that goes to the file.
LEMMA PresentControl ==
    ASSUME PageAssumption, TypeOK, Control, NEW t \in Procs, NEW m, NEW g \in [Segs -> SegRec],
           NEW l \in Locals, l.s # Nil, l.s \in {own[t]["text"], own[t]["data"]},
           l.src = Nil, l.todo = << >>, l.then \in {Nil, "freed"},
           pc[t] \in {"idle", "fault", "found", "read"},
           Present(t, m, g, l), UNCHANGED <<pga, own>>
    PROVE  /\ th' \in [Procs -> Locals] /\ pc' \in [Procs -> Labels] /\ Control'
           /\ \A u \in Procs : u # t => th'[u] = th[u] /\ pc'[u] = pc[u]
           /\ seg' \in [Segs -> SegRec] /\ th'[t].s = l.s /\ th'[t].todo = << >>
           /\ \/ pc'[t] = "newpage" /\ th'[t] = l /\ seg'[l.s] = [g[l.s] EXCEPT !.lk = t]
              \/ pc'[t] = "mmuput" /\ seg'[l.s] = [g[l.s] EXCEPT !.lk = Nil]
           /\ \A x \in Segs : x # l.s => seg'[x] = g[x]
<1>1. l.s \in Segs
    BY DEF Locals
<1>2. ControlAt(t)
    BY DEF Control
<1>3. \A r \in SegRec : [r EXCEPT !.lk = t] \in SegRec /\ [r EXCEPT !.lk = Nil] \in SegRec
    BY DEF SegRec
<1>4. /\ "mmuput" \in Labels /\ "newpage" \in Labels
    BY DEF Labels

<1>5. CASE \E rights \in Rights :
             /\ th' = [th EXCEPT ![t] = [NoLocals EXCEPT !.s = l.s, !.rights = rights]]
             /\ pc' = [pc EXCEPT ![t] = "mmuput"] /\ seg' = [g EXCEPT ![l.s].lk = Nil]
  <2>1. PICK rights \in Rights :
             /\ th' = [th EXCEPT ![t] = [NoLocals EXCEPT !.s = l.s, !.rights = rights]]
             /\ pc' = [pc EXCEPT ![t] = "mmuput"] /\ seg' = [g EXCEPT ![l.s].lk = Nil]
      BY <1>5, Zenon
  <2> DEFINE k == [NoLocals EXCEPT !.s = l.s, !.rights = rights]
  <2>2. /\ k \in Locals /\ k.s = l.s /\ k.todo = << >> /\ k.then = Nil
      BY <1>1, MapLocals, Zenon
  <2> HIDE DEF k
  <2>3. Moves(t, k, "mmuput")
      BY <1>4, <2>1, <2>2, Moved, Zenon DEF k
  <2>4. /\ seg' \in [Segs -> SegRec] /\ seg'[l.s] = [g[l.s] EXCEPT !.lk = Nil]
        /\ \A x \in Segs : x # l.s => seg'[x] = g[x]
      BY <1>1, <1>3, <2>1, Zenon
  <2>5. ControlAt(t)'
      BY <1>2, <2>2, <2>3
      DEF ControlAt, In, Dropped, Reusing, Reclaiming, Faulting, Moves, PageAssumption
  <2>6. Control'
      BY <2>3, <2>5, MovesControl
  <2>7. QED  BY <2>2, <2>3, <2>4, <2>6 DEF Moves
<1>6. CASE /\ th' = [th EXCEPT ![t] = l] /\ pc' = [pc EXCEPT ![t] = "newpage"]
           /\ seg' = [g EXCEPT ![l.s].lk = t]
  <2>1. Moves(t, l, "newpage")
      BY <1>4, <1>6, Moved, Zenon
  <2>2. /\ seg' \in [Segs -> SegRec] /\ seg'[l.s] = [g[l.s] EXCEPT !.lk = t]
        /\ \A x \in Segs : x # l.s => seg'[x] = g[x]
      BY <1>1, <1>3, <1>6, Zenon
  <2>3. ControlAt(t)'
      BY <1>2, <2>1
      DEF ControlAt, In, Dropped, Reusing, Reclaiming, Faulting, Moves, PageAssumption
  <2>4. Control'
      BY <2>1, <2>3, MovesControl
  <2>5. QED  BY <2>1, <2>2, <2>4 DEF Moves
<1>7. QED
  <2> DEFINE p == m[g[l.s].map]
             readable == g[l.s].type = "text" \/ (~l.write /\ g[l.s].ref = 1)
             writable == p.ref = 1 /\ p.image = Nil
             fits == readable \/ writable
  <2>1. /\ seg' = [g EXCEPT ![l.s].lk = IF fits THEN Nil ELSE t]
        /\ th' = [th EXCEPT ![t] =
                    IF fits THEN [NoLocals EXCEPT !.s = l.s,
                                    !.rights = IF readable THEN "read" ELSE "write"]
                    ELSE l]
        /\ pc' = [pc EXCEPT ![t] = IF fits THEN "mmuput" ELSE "newpage"]
      BY DEF Present
  <2> HIDE DEF fits, readable
  <2>2. (IF readable THEN "read" ELSE "write") \in Rights
      BY DEF Rights
  <2>3. CASE fits
      BY <1>5, <2>1, <2>2, <2>3, Zenon
  <2>4. CASE ~fits
      BY <1>6, <2>1, <2>4
  <2>5. QED  BY <2>3, <2>4

\* pio() goes to the file: the types, the control and the segment it unlocks.
LEMMA LoadControl ==
    ASSUME PageAssumption, TypeOK, Control, NEW t \in Procs,
           NEW l \in Locals, l.s # Nil, l.s \in {own[t]["text"], own[t]["data"]},
           seg[l.s].image # Nil, l.todo = << >>, l.then \in {Nil, "freed"},
           pc[t] \in {"idle", "fault", "found"},
           Load(t, l), UNCHANGED <<pga, own>>
    PROVE  /\ th' \in [Procs -> Locals] /\ pc' \in [Procs -> Labels] /\ Control'
           /\ \A u \in Procs : u # t => th'[u] = th[u] /\ pc'[u] = pc[u]
           /\ seg' \in [Segs -> SegRec] /\ seg'[l.s] = [seg[l.s] EXCEPT !.lk = Nil]
           /\ \A x \in Segs : x # l.s => seg'[x] = seg[x]
           /\ th'[t].s = l.s /\ th'[t].todo = << >>
           /\ pc'[t] = "panic" \/ (pc'[t] = "newpage" /\ th'[t].src # Nil)
<1>1. l.s \in Segs
    BY DEF Locals
<1>2. ControlAt(t)
    BY DEF Control
<1>3. [seg[l.s] EXCEPT !.lk = Nil] \in SegRec
  <2>1. seg[l.s] \in SegRec
      BY <1>1 DEF TypeOK
  <2>2. \A r \in SegRec : [r EXCEPT !.lk = Nil] \in SegRec
      BY DEF SegRec
  <2>3. QED  BY <2>1, <2>2
<1>4. image[seg[l.s].image].c \in Files \union {Nil}
  <2>1. seg[l.s].image \in Images
      BY <1>1 DEF TypeOK, SegRec
  <2>2. QED  BY <2>1 DEF TypeOK, ImageRec
<1> DEFINE c == image[seg[l.s].image].c
           k == [l EXCEPT !.src = c, !.new = Nil]
           x == IF c = Nil THEN "panic" ELSE "newpage"
<1>5. /\ seg' = [seg EXCEPT ![l.s] = [seg[l.s] EXCEPT !.lk = Nil]]
      /\ th' = [th EXCEPT ![t] = k] /\ pc' = [pc EXCEPT ![t] = x]
    BY DEF Load
<1> HIDE DEF c
<1>6. k \in Locals /\ k.s = l.s /\ k.todo = << >> /\ k.then = l.then /\ k.src = c
    BY <1>4, Zenon DEF Locals, c
<1>7. x \in Labels
    BY DEF Labels
<1> HIDE DEF k, x
<1>8. Moves(t, k, x)
    BY <1>5, <1>6, <1>7, Moved, Zenon
<1>9. /\ seg' \in [Segs -> SegRec] /\ seg'[l.s] = [seg[l.s] EXCEPT !.lk = Nil]
      /\ \A s \in Segs : s # l.s => seg'[s] = seg[s]
    BY <1>1, <1>3, <1>5, SegChanges
<1>10. ControlAt(t)'
    BY <1>2, <1>6, <1>8
    DEF ControlAt, In, Dropped, Reusing, Reclaiming, Faulting, Moves, PageAssumption, x
<1>11. Control'
    BY <1>8, <1>10, MovesControl
<1>12. QED  BY <1>6, <1>8, <1>9, <1>11 DEF Moves, x

\* A process uses the segments it has, and they exist.
LEMMA OwnSeg ==
    ASSUME PageAssumption, TypeOK, Control, SegTypes, NEW t \in Procs, NEW s,
           s # Nil, s \in {own[t]["text"], own[t]["data"]}
    PROVE  s \in Segs /\ seg[s].type # Nil /\ seg[s].image \in Images
<1>1. s \in Segs
    BY DEF TypeOK, Types
<1>2. seg[s].type # Nil
    BY <1>1 DEF SegTypes, Types, PageAssumption
<1>3. seg[s].image # Nil
    BY <1>1, <1>2 DEF SegTypes
<1>4. QED  BY <1>1, <1>2, <1>3 DEF TypeOK, SegRec

\* fixfault() changes the segment's lock and the page in its map, and goes on.
Fixed(t, s, p) ==
    /\ s \in Segs /\ seg' \in [Segs -> SegRec]
    /\ seg'[s].map = p /\ seg'[s].ref = seg[s].ref /\ seg'[s].type = seg[s].type
    /\ seg'[s].image = seg[s].image /\ seg'[s].memory = seg[s].memory
    /\ \A x \in Segs : x # s => seg'[x] = seg[x]
    /\ th'[t].s = s /\ th'[t].todo = << >>
    /\ pc'[t] \in {"newpage", "mmuput", "found", "panic"}
    /\ \A u \in Procs : u # t => th'[u] = th[u] /\ pc'[u] = pc[u]

\* Locking a segment changes nothing else in it.
LEMMA LkFields ==
    ASSUME NEW r \in SegRec, NEW x, NEW z, z = [r EXCEPT !.lk = x]
    PROVE  /\ z.lk = x /\ z.ref = r.ref /\ z.type = r.type /\ z.image = r.image
           /\ z.map = r.map /\ z.memory = r.memory
BY DEF SegRec

\* fixfault(): the types, the control and the segment's lock.
LEMMA FixfaultControl ==
    ASSUME PageAssumption, TypeOK, Control, SegTypes, NEW t \in Procs, NEW s, NEW w \in BOOLEAN,
           s # Nil, s \in {own[t]["text"], own[t]["data"]},
           pc[t] \in {"idle", "fault"}, Fixfault(t, s, w)
    PROVE  /\ TypeOK' /\ Control' /\ LockAt(t)' /\ Fixed(t, s, seg[s].map) /\ seg[s].lk = Nil
           /\ UNCHANGED <<page, free, hash, pga, image, pager, own, tlb>>
<1> DEFINE l == [th[t] EXCEPT !.s = s, !.write = w]
           hit == {p \in hash : /\ page[p].image = seg[s].image
                                /\ page[p].daddr = seg[s].type}
<1>1. s \in Segs /\ seg[s].type # Nil /\ seg[s].image \in Images
    BY OwnSeg
<1>2. ControlAt(t)
    BY DEF Control
<1>3. th[t].src = Nil /\ th[t].todo = << >> /\ th[t].then \in {Nil, "freed"}
    BY <1>2 DEF ControlAt, In, Dropped, Faulting, Reusing
<1>4. /\ l \in Locals /\ l.s = s /\ l.src = Nil /\ l.todo = << >> /\ l.then \in {Nil, "freed"}
  <2>1. th[t] \in Locals
      BY DEF TypeOK
  <2>2. QED  BY <1>1, <1>3, <2>1, Zenon DEF Locals
<1>5. /\ seg[s].lk = Nil
      /\ UNCHANGED <<page, free, hash, pga, image, pager, own, tlb>>
      /\ seg[s].map # Nil => Present(t, page, seg, l)
      /\ seg[s].map = Nil /\ hit = {} => Load(t, l)
      /\ seg[s].map = Nil /\ hit # {} =>
            /\ seg' = [seg EXCEPT ![s].lk = t]
            /\ \E p \in hit : th' = [th EXCEPT ![t] = [l EXCEPT !.new = p]]
            /\ pc' = [pc EXCEPT ![t] = "found"]
    BY Zenon DEF Fixfault, memory
<1> HIDE DEF l
<1>6. seg \in [Segs -> SegRec]
    BY DEF TypeOK
<1>7. CASE seg[s].map # Nil
  <2>1. Present(t, page, seg, l) /\ UNCHANGED <<pga, own>> /\ pc[t] \in {"idle", "fault", "found", "read"}
      BY <1>5, <1>7
  <2>2. /\ th' \in [Procs -> Locals] /\ pc' \in [Procs -> Labels] /\ Control'
        /\ \A u \in Procs : u # t => th'[u] = th[u] /\ pc'[u] = pc[u]
        /\ seg' \in [Segs -> SegRec] /\ th'[t].s = s /\ th'[t].todo = << >>
        /\ \/ pc'[t] = "newpage" /\ th'[t] = l /\ seg'[s] = [seg[s] EXCEPT !.lk = t]
           \/ pc'[t] = "mmuput" /\ seg'[s] = [seg[s] EXCEPT !.lk = Nil]
        /\ \A x \in Segs : x # s => seg'[x] = seg[x]
    <3>1. l.s # Nil /\ l.s \in {own[t]["text"], own[t]["data"]}
        BY <1>4
    <3>2. /\ th' \in [Procs -> Locals] /\ pc' \in [Procs -> Labels] /\ Control'
          /\ \A u \in Procs : u # t => th'[u] = th[u] /\ pc'[u] = pc[u]
          /\ seg' \in [Segs -> SegRec] /\ th'[t].s = l.s /\ th'[t].todo = << >>
          /\ \/ pc'[t] = "newpage" /\ th'[t] = l /\ seg'[l.s] = [seg[l.s] EXCEPT !.lk = t]
             \/ pc'[t] = "mmuput" /\ seg'[l.s] = [seg[l.s] EXCEPT !.lk = Nil]
          /\ \A x \in Segs : x # l.s => seg'[x] = seg[x]
        BY <1>4, <1>6, <2>1, <3>1, PresentControl, Zenon
    <3>3. QED  BY <1>4, <3>2
  <2>3. TypeOK'
      BY <1>5, <2>2 DEF TypeOK
  <2>5. seg[s] \in SegRec
      BY <1>1 DEF TypeOK
  <2>4. Fixed(t, s, seg[s].map)
    <3>1. CASE pc'[t] = "newpage" /\ seg'[s] = [seg[s] EXCEPT !.lk = t]
        BY <1>1, <1>5, <2>2, <2>5, <3>1, LkFields DEF Fixed
    <3>2. CASE pc'[t] = "mmuput" /\ seg'[s] = [seg[s] EXCEPT !.lk = Nil]
        BY <1>1, <1>5, <2>2, <2>5, <3>2, LkFields DEF Fixed
    <3>3. QED  BY <2>2, <3>1, <3>2
  <2>6. LockAt(t)'
    <3>1. seg'[s].map = seg[s].map /\ (pc'[t] = "newpage" => seg'[s].lk = t)
      <4>1. CASE seg'[s] = [seg[s] EXCEPT !.lk = t]
          BY <2>5, <4>1, LkFields
      <4>2. CASE pc'[t] = "mmuput" /\ seg'[s] = [seg[s] EXCEPT !.lk = Nil]
          BY <2>5, <4>2, LkFields
      <4>3. QED  BY <2>2, <4>1, <4>2
    <3>2. QED  BY <1>7, <2>2, <3>1 DEF LockAt, Locking, Reusing, In
  <2>7. QED  BY <1>5, <2>2, <2>3, <2>4, <2>6
<1>8. CASE seg[s].map = Nil /\ hit = {}
  <2>1. Load(t, l) /\ UNCHANGED <<pga, own>> /\ seg[l.s].image # Nil
      BY <1>1, <1>4, <1>5, <1>8 DEF PageAssumption
  <2>2. /\ th' \in [Procs -> Locals] /\ pc' \in [Procs -> Labels] /\ Control'
        /\ \A u \in Procs : u # t => th'[u] = th[u] /\ pc'[u] = pc[u]
        /\ seg' \in [Segs -> SegRec] /\ seg'[s] = [seg[s] EXCEPT !.lk = Nil]
        /\ \A x \in Segs : x # s => seg'[x] = seg[x]
        /\ th'[t].s = s /\ th'[t].todo = << >>
        /\ pc'[t] = "panic" \/ (pc'[t] = "newpage" /\ th'[t].src # Nil)
      BY <1>4, <2>1, LoadControl
  <2>3. TypeOK'
      BY <1>5, <2>2 DEF TypeOK
  <2>4. Fixed(t, s, seg[s].map)
    <3>1. seg[s] \in SegRec
        BY <1>1, <1>6
    <3>2. QED  BY <1>1, <1>5, <2>2, <3>1, LkFields DEF Fixed
  <2>5. LockAt(t)'
      BY <2>2 DEF LockAt, Locking, Reusing, In
  <2>6. QED  BY <1>5, <2>2, <2>3, <2>4, <2>5
<1>9. CASE seg[s].map = Nil /\ hit # {}
  <2>1. PICK p \in hit : th' = [th EXCEPT ![t] = [l EXCEPT !.new = p]]
      BY <1>5, <1>9
  <2>2. p \in Pages
      BY DEF TypeOK
  <2> DEFINE k == [l EXCEPT !.new = p]
  <2>3. k \in Locals /\ k.s = s /\ k.src = Nil /\ k.todo = << >> /\ k.then = l.then /\ k.new = p
      BY <1>4, <2>2 DEF Locals
  <2> HIDE DEF k
  <2>4. Moves(t, k, "found")
    <3>1. "found" \in Labels
        BY DEF Labels
    <3>2. QED  BY <1>5, <1>9, <2>1, <2>3, <3>1, Moved, Zenon DEF k
  <2>5. seg[s] \in SegRec /\ [seg[s] EXCEPT !.lk = t] \in SegRec
    <3>1. \A r \in SegRec : [r EXCEPT !.lk = t] \in SegRec
        BY DEF SegRec
    <3>2. QED  BY <1>1, <1>6, <3>1
  <2>6. seg' \in [Segs -> SegRec] /\ seg'[s] = [seg[s] EXCEPT !.lk = t]
        /\ \A x \in Segs : x # s => seg'[x] = seg[x]
      BY <1>1, <1>5, <1>9, <2>5, SegChanges
  <2>7. TypeOK'
      BY <1>5, <2>4, <2>6 DEF TypeOK, Moves
  <2>8. ControlAt(t)'
      BY <1>2, <1>4, <1>5, <2>2, <2>3, <2>4
      DEF ControlAt, In, Dropped, Reusing, Reclaiming, Faulting, Moves, PageAssumption
  <2>9. Control'
      BY <1>5, <2>4, <2>8, MovesControl
  <2>10. Fixed(t, s, seg[s].map)
      BY <1>1, <1>5, <2>3, <2>4, <2>5, <2>6, LkFields DEF Fixed, Moves
  <2>11. LockAt(t)'
    <3>1. seg'[s].map = seg[s].map /\ seg'[s].lk = t
        BY <2>5, <2>6, LkFields
    <3>2. QED  BY <1>9, <2>3, <2>4, <3>1 DEF LockAt, Locking, Reusing, In, Moves
  <2>12. QED  BY <1>5, <2>7, <2>9, <2>10, <2>11
<1>10. QED  BY <1>7, <1>8, <1>9

\* fault(): the types, the control and the segment's lock.
LEMMA FaultControl ==
    ASSUME PageAssumption, TypeOK, Control, SegTypes, NEW t \in Procs, Fault(t)
    PROVE  /\ TypeOK' /\ Control' /\ LockAt(t)' /\ pc[t] \in {"idle", "fault"}
           /\ UNCHANGED <<page, free, hash, pga, image, pager, own, tlb>>
           /\ \E s \in {own[t]["text"], own[t]["data"]} : s # Nil /\ Fixed(t, s, seg[s].map) /\ seg[s].lk = Nil
<1>1. CASE /\ pc[t] = "idle"
           /\ \E y \in Types, w \in BOOLEAN : own[t][y] # Nil /\ Fixfault(t, own[t][y], w)
  <2>1. PICK y \in Types, w \in BOOLEAN : own[t][y] # Nil /\ Fixfault(t, own[t][y], w)
      BY <1>1
  <2>2. own[t][y] \in {own[t]["text"], own[t]["data"]}
      BY DEF Types
  <2>3. QED  BY <1>1, <2>1, <2>2, FixfaultControl
<1>2. CASE pc[t] = "fault" /\ Fixfault(t, th[t].s, th[t].write)
  <2>1. th[t].s # Nil /\ th[t].s \in {own[t]["text"], own[t]["data"]} /\ th[t].write \in BOOLEAN
      BY <1>2 DEF Control, ControlAt, Faulting, TypeOK, Locals
  <2>2. QED  BY <1>2, <2>1, FixfaultControl
<1>3. QED  BY <1>1, <1>2 DEF Fault, At

\* Mapping a page changes nothing else in the segment.
LEMMA MapFields ==
    ASSUME NEW r \in SegRec, NEW p \in Pages, NEW z, z = [r EXCEPT !.map = p]
    PROVE  /\ z \in SegRec
           /\ z.lk = r.lk /\ z.ref = r.ref /\ z.type = r.type /\ z.image = r.image
           /\ z.map = p /\ z.memory = r.memory
BY DEF SegRec

\* fixfault() with a page in the map of the segment.
LEMMA PresentFixed ==
    ASSUME PageAssumption, TypeOK, Control, NEW t \in Procs, NEW m, NEW g \in [Segs -> SegRec],
           NEW l \in Locals, l.s # Nil, l.s \in {own[t]["text"], own[t]["data"]},
           l.src = Nil, l.todo = << >>, l.then \in {Nil, "freed"},
           pc[t] \in {"idle", "fault", "found", "read"},
           Present(t, m, g, l), UNCHANGED <<pga, own>>,
           g[l.s].map \in Pages, g[l.s].ref = seg[l.s].ref, g[l.s].type = seg[l.s].type,
           g[l.s].image = seg[l.s].image, g[l.s].memory = seg[l.s].memory,
           \A x \in Segs : x # l.s => g[x] = seg[x]
    PROVE  /\ th' \in [Procs -> Locals] /\ pc' \in [Procs -> Labels] /\ seg' \in [Segs -> SegRec]
           /\ Control' /\ LockAt(t)' /\ Fixed(t, l.s, g[l.s].map) /\ pc'[t] \in {"newpage", "mmuput"}
<1> DEFINE s == l.s
           p == g[l.s].map
<1>1. /\ th' \in [Procs -> Locals] /\ pc' \in [Procs -> Labels] /\ Control'
      /\ \A u \in Procs : u # t => th'[u] = th[u] /\ pc'[u] = pc[u]
      /\ seg' \in [Segs -> SegRec] /\ th'[t].s = l.s /\ th'[t].todo = << >>
      /\ \/ pc'[t] = "newpage" /\ th'[t] = l /\ seg'[l.s] = [g[l.s] EXCEPT !.lk = t]
         \/ pc'[t] = "mmuput" /\ seg'[l.s] = [g[l.s] EXCEPT !.lk = Nil]
      /\ \A x \in Segs : x # l.s => seg'[x] = g[x]
  <2>1. l.s # Nil /\ l.s \in {own[t]["text"], own[t]["data"]}
      OBVIOUS
  <2>2. QED  BY <2>1, PresentControl, Zenon
<1>2. s \in Segs /\ g[s] \in SegRec
    BY DEF Locals
<1>3. /\ seg'[s].map = p /\ seg'[s].ref = seg[s].ref /\ seg'[s].type = seg[s].type
      /\ seg'[s].image = seg[s].image /\ seg'[s].memory = seg[s].memory
      /\ pc'[t] = "newpage" => seg'[s].lk = t
  <2>1. CASE seg'[s] = [g[s] EXCEPT !.lk = t]
      BY <1>2, <2>1, LkFields
  <2>2. CASE pc'[t] = "mmuput" /\ seg'[s] = [g[s] EXCEPT !.lk = Nil]
      BY <1>2, <2>2, LkFields
  <2>3. QED  BY <1>1, <2>1, <2>2
<1>4. pc'[t] \in {"newpage", "mmuput"}
    BY <1>1
<1>5. Fixed(t, s, p)
    BY <1>1, <1>2, <1>3, <1>4 DEF Fixed
<1>6. LockAt(t)'
    BY <1>1, <1>3, <1>4 DEF LockAt, Locking, Reusing, In, PageAssumption
<1>7. QED  BY <1>1, <1>4, <1>5, <1>6

\* Unlinking a page leaves a list of pages.
LEMMA WithoutType ==
    ASSUME NEW q \in Seq(Pages), NEW p
    PROVE  Without(q, p) \in Seq(Pages)
<1> DEFINE at == {i \in 1 .. Len(q) : q[i] = p}
           j == CHOOSE i \in at : TRUE
<1>1. CASE at = {}
    BY <1>1 DEF Without
<1>2. CASE at # {}
  <2>1. j \in 1 .. Len(q)
      BY <1>2
  <2>2. Without(q, p) = RemoveAt(q, j)
      BY <1>2 DEF Without
  <2> HIDE DEF j
  <2>3. QED  BY <2>1, <2>2 DEF RemoveAt
<1>3. QED  BY <1>1, <1>2

\* The rest of lookpage(): the types, the control and the segment's lock.
LEMMA LookpageControl ==
    ASSUME PageAssumption, TypeOK, Control, SegTypes, Locks, NEW t \in Procs, Lookpage(t)
    PROVE  LET s == th[t].s
               p == th[t].new
           IN
           /\ TypeOK' /\ Control' /\ LockAt(t)' /\ pc[t] = "found" /\ pga = Nil /\ ~Stopped
           /\ s \in Segs /\ p \in Pages /\ seg[s].map = Nil /\ seg[s].image \in Images
           /\ s \in {own[t]["text"], own[t]["data"]}
           /\ UNCHANGED <<hash, pga, image, pager, own, tlb>>
           /\ pc'[t] \in {"newpage", "mmuput", "panic"}
           /\ \/ Fixed(t, s, Nil) /\ UNCHANGED <<page, free>>
              \/ /\ Fixed(t, s, p) /\ page' = [page EXCEPT ![p].ref = @ + 1]
                 /\ free' = Without(free, p) /\ page[p].image = seg[s].image
<1> DEFINE s == th[t].s
           p == th[t].new
           m == [page EXCEPT ![p].ref = @ + 1]
           g == [seg EXCEPT ![s].map = p]
           l == [th[t] EXCEPT !.new = Nil]
           miss == page[p].image # seg[s].image \/ page[p].daddr # seg[s].type
<1>1. /\ pc[t] = "found" /\ pga = Nil /\ ~Stopped /\ UNCHANGED <<hash, pga, image, pager, own, tlb>>
      /\ miss => Load(t, th[t]) /\ UNCHANGED <<page, free>>
      /\ ~miss => page' = m /\ free' = Without(free, p) /\ Present(t, m, g, l)
    BY DEF Lookpage, At
<1>2. /\ ControlAt(t) /\ th[t] \in Locals
    BY DEF Control, TypeOK
<1>3. /\ s # Nil /\ s \in {own[t]["text"], own[t]["data"]} /\ p # Nil /\ th[t].src = Nil
      /\ th[t].todo = << >> /\ th[t].then \in {Nil, "freed"}
    BY <1>1, <1>2 DEF ControlAt, In, Dropped, Faulting, Reusing
<1>4. /\ s \in Segs /\ seg[s].image \in Images /\ p \in Pages
    BY <1>2, <1>3, OwnSeg DEF Locals
<1>5. seg[s].lk = t /\ seg[s].map = Nil
    BY <1>1 DEF Locks, LockAt, Locking
<1>6. seg \in [Segs -> SegRec] /\ seg[s] \in SegRec /\ page \in [Pages -> PageRec] /\ free \in Seq(Pages)
    BY <1>4 DEF TypeOK
<1>7. CASE miss
  <2>1. Load(t, th[t]) /\ UNCHANGED <<page, free>> /\ seg[s].image # Nil
      BY <1>1, <1>4, <1>7 DEF PageAssumption
  <2>2. /\ th' \in [Procs -> Locals] /\ pc' \in [Procs -> Labels] /\ Control'
        /\ \A u \in Procs : u # t => th'[u] = th[u] /\ pc'[u] = pc[u]
        /\ seg' \in [Segs -> SegRec] /\ seg'[s] = [seg[s] EXCEPT !.lk = Nil]
        /\ \A x \in Segs : x # s => seg'[x] = seg[x]
        /\ th'[t].s = s /\ th'[t].todo = << >>
        /\ pc'[t] = "panic" \/ (pc'[t] = "newpage" /\ th'[t].src # Nil)
      BY <1>1, <1>2, <1>3, <2>1, LoadControl
  <2>3. TypeOK'
      BY <1>1, <2>1, <2>2 DEF TypeOK
  <2>4. Fixed(t, s, Nil)
      BY <1>4, <1>5, <1>6, <2>2, LkFields DEF Fixed
  <2>5. LockAt(t)'
      BY <2>2 DEF LockAt, Locking, Reusing, In
  <2> HIDE DEF miss
  <2>6. QED  BY <1>1, <1>3, <1>4, <1>5, <2>1, <2>2, <2>3, <2>4, <2>5
<1>8. CASE ~miss
  <2>1. /\ l \in Locals /\ l.s = s /\ l.src = Nil /\ l.todo = << >> /\ l.then \in {Nil, "freed"}
      BY <1>2, <1>3 DEF Locals
  <2>2. /\ g \in [Segs -> SegRec] /\ g[s] = [seg[s] EXCEPT !.map = p] /\ \A x \in Segs : x # s => g[x] = seg[x]
    <3>1. [seg[s] EXCEPT !.map = p] \in SegRec
        BY <1>4, <1>6, MapFields
    <3>2. QED  BY <1>4, <1>6, <3>1, SegChanges
  <2>3. /\ g[s].map = p /\ g[s].ref = seg[s].ref /\ g[s].type = seg[s].type
        /\ g[s].image = seg[s].image /\ g[s].memory = seg[s].memory
      BY <1>4, <1>6, <2>2, MapFields
  <2>4. Present(t, m, g, l) /\ page' = m /\ free' = Without(free, p)
      BY <1>1, <1>8
  <2>5. page' \in [Pages -> PageRec] /\ free' \in Seq(Pages)
    <3>1. \A r \in PageRec : [r EXCEPT !.ref = @ + 1] \in PageRec
        BY DEF PageRec
    <3>2. QED  BY <1>6, <2>4, <3>1, WithoutType, Zenon
  <2>6. page[p].image = seg[s].image
      BY <1>8
  <2> HIDE DEF g, m, l, miss
  <2>7. /\ th' \in [Procs -> Locals] /\ pc' \in [Procs -> Labels] /\ seg' \in [Segs -> SegRec]
        /\ Control' /\ LockAt(t)' /\ Fixed(t, s, p) /\ pc'[t] \in {"newpage", "mmuput"}
    <3>1. UNCHANGED <<pga, own>> /\ pc[t] \in {"idle", "fault", "found", "read"}
        BY <1>1
    <3>2. /\ l.s # Nil /\ l.s \in {own[t]["text"], own[t]["data"]}
          /\ g[l.s].map \in Pages /\ g[l.s].ref = seg[l.s].ref /\ g[l.s].type = seg[l.s].type
          /\ g[l.s].image = seg[l.s].image /\ g[l.s].memory = seg[l.s].memory
          /\ \A x \in Segs : x # l.s => g[x] = seg[x]
        BY <1>3, <1>4, <2>1, <2>2, <2>3
    <3>3. /\ th' \in [Procs -> Locals] /\ pc' \in [Procs -> Labels] /\ seg' \in [Segs -> SegRec]
          /\ Control' /\ LockAt(t)' /\ Fixed(t, l.s, g[l.s].map) /\ pc'[t] \in {"newpage", "mmuput"}
        BY <2>1, <2>2, <2>4, <3>1, <3>2, PresentFixed, Zenon
    <3>4. QED  BY <2>1, <2>3, <3>3
  <2>8. TypeOK'
      BY <1>1, <2>5, <2>7 DEF TypeOK
  <2>9. QED  BY <1>1, <1>3, <1>4, <1>5, <2>4, <2>6, <2>7, <2>8 DEF m
<1>9. QED  BY <1>7, <1>8

\* pio() fails to read: the types and the control.
LEMMA ReadFailsControl ==
    ASSUME PageAssumption, TypeOK, Control, NEW t \in Procs, ReadFails(t)
    PROVE  /\ TypeOK' /\ Control' /\ pc[t] = "read" /\ pga = Nil /\ th[t].new \in Pages
           /\ putpage(page, free, th[t].new) /\ Moves(t, NoLocals, "idle")
           /\ UNCHANGED <<hash, pga, image, seg, pager, own, tlb>>
<1>1. /\ pc[t] = "read" /\ pga = Nil /\ putpage(page, free, th[t].new)
      /\ th' = [th EXCEPT ![t] = NoLocals] /\ pc' = [pc EXCEPT ![t] = "idle"]
      /\ UNCHANGED <<hash, pga, image, seg, pager, own, tlb>>
    BY DEF ReadFails, At
<1>2. ControlAt(t) /\ th[t].new \in Pages
    BY <1>1 DEF Control, ControlAt, TypeOK, Locals
<1>3. Moves(t, NoLocals, "idle")
  <2>1. "idle" \in Labels
      BY DEF Labels
  <2>2. QED  BY <1>1, <2>1, Records, Moved, Zenon
<1>4. page' \in [Pages -> PageRec] /\ free' \in Seq(Pages)
    BY <1>1, <1>2, PutTypes, Zenon DEF TypeOK
<1>5. TypeOK'
    BY <1>1, <1>3, <1>4 DEF TypeOK, Moves
<1>6. NoLocals.todo = << >> /\ NoLocals.then = Nil /\ NoLocals.src = Nil
    BY DEF NoLocals
<1>7. ControlAt(t)'
    BY <1>1, <1>2, <1>3, <1>6
    DEF ControlAt, In, Dropped, Reusing, Reclaiming, Faulting, Moves, PageAssumption
<1>8. QED  BY <1>1, <1>2, <1>3, <1>5, <1>7, MovesControl

\* pio() has read the page: the types, the control and the segment's lock.
LEMMA ReadControl ==
    ASSUME PageAssumption, TypeOK, Control, SegTypes, NEW t \in Procs, Read(t)
    PROVE  LET s == th[t].s
               p == th[t].new
           IN
           /\ TypeOK' /\ Control' /\ LockAt(t)' /\ pc[t] = "read"
           /\ s \in Segs /\ p \in Pages /\ seg[s].lk = Nil /\ seg[s].image \in Images
           /\ s \in {own[t]["text"], own[t]["data"]}
           /\ UNCHANGED <<pga, pager, own, tlb>>
           /\ pc'[t] \in {"newpage", "mmuput"}
           /\ \/ /\ seg[s].map = Nil /\ Fixed(t, s, p) /\ UNCHANGED free
                 /\ page'[p].ref = page[p].ref /\ page'[p].alloc = page[p].alloc
                 /\ page'[p].image = seg[s].image
                 /\ \A x \in Pages : x # p => page'[x] = page[x]
                 /\ image' = [image EXCEPT ![seg[s].image].ref = @ + 1] /\ hash' = hash \union {p}
              \/ /\ seg[s].map # Nil /\ Fixed(t, s, seg[s].map) /\ putpage(page, free, p)
                 /\ pga = Nil /\ UNCHANGED <<hash, image>>
<1> DEFINE s == th[t].s
           i == seg[s].image
           p == th[t].new
           l == [th[t] EXCEPT !.new = Nil, !.src = Nil]
           c == <<th[t].src, seg[s].type>>
           a == [page[p] EXCEPT !.image = i, !.daddr = seg[s].type, !.holds = c]
           m == [page EXCEPT ![p].image = i, ![p].daddr = seg[s].type,
                             ![p].holds = <<th[t].src, seg[s].type>>]
           g == [seg EXCEPT ![s].map = p]
<1>1. /\ pc[t] = "read" /\ seg[s].lk = Nil /\ UNCHANGED <<pga, pager, own, tlb>>
      /\ seg[s].map = Nil => /\ Present(t, m, g, l) /\ page' = m /\ UNCHANGED free
                             /\ image' = [image EXCEPT ![i].ref = @ + 1] /\ hash' = hash \union {p}
      /\ seg[s].map # Nil => /\ pga = Nil /\ putpage(page, free, p) /\ Present(t, page, seg, l)
                             /\ UNCHANGED <<hash, image>>
    BY Zenon DEF Read, At
<1>2. ControlAt(t) /\ th[t] \in Locals
    BY DEF Control, TypeOK
<1>3. /\ s # Nil /\ s \in {own[t]["text"], own[t]["data"]} /\ p # Nil /\ th[t].src # Nil
      /\ th[t].todo = << >> /\ th[t].then \in {Nil, "freed"}
    BY <1>1, <1>2 DEF ControlAt, In, Dropped, Faulting, Reusing
<1>4. /\ s \in Segs /\ i \in Images /\ p \in Pages /\ th[t].src \in Files /\ seg[s].type # Nil
    BY <1>2, <1>3, OwnSeg DEF Locals
<1>5. seg \in [Segs -> SegRec] /\ seg[s] \in SegRec /\ page \in [Pages -> PageRec] /\ free \in Seq(Pages)
      /\ seg[s].map \in Pages \union {Nil} /\ seg[s].type \in Types
    BY <1>4 DEF TypeOK, SegRec
<1>6. /\ l \in Locals /\ l.s = s /\ l.src = Nil /\ l.todo = << >> /\ l.then \in {Nil, "freed"}
    BY <1>2, <1>3, Zenon DEF Locals
<1>7. m = [page EXCEPT ![p] = a]
    BY <1>4, <1>5, Zenon
<1>8. c \in Contents
    BY <1>4, <1>5 DEF Contents
<1>9. UNCHANGED <<pga, own>> /\ pc[t] \in {"idle", "fault", "found", "read"}
      /\ l.s # Nil /\ l.s \in {own[t]["text"], own[t]["data"]}
    BY <1>1, <1>3, <1>6
<1> HIDE DEF l, m, g, c
<1>10. CASE seg[s].map = Nil
  <2>1. /\ g \in [Segs -> SegRec] /\ g[s] = [seg[s] EXCEPT !.map = p] /\ \A x \in Segs : x # s => g[x] = seg[x]
    <3>1. [seg[s] EXCEPT !.map = p] \in SegRec
        BY <1>4, <1>5, MapFields
    <3>2. QED  BY <1>4, <1>5, <3>1, SegChanges DEF g
  <2>2. /\ g[s].map = p /\ g[s].ref = seg[s].ref /\ g[s].type = seg[s].type
        /\ g[s].image = seg[s].image /\ g[s].memory = seg[s].memory
      BY <1>4, <1>5, <2>1, MapFields
  <2>3. Present(t, m, g, l)
      BY <1>1, <1>10
  <2>4. /\ th' \in [Procs -> Locals] /\ pc' \in [Procs -> Labels] /\ seg' \in [Segs -> SegRec]
        /\ Control' /\ LockAt(t)' /\ Fixed(t, s, p) /\ pc'[t] \in {"newpage", "mmuput"}
    <3>1. /\ g[l.s].map \in Pages /\ g[l.s].ref = seg[l.s].ref /\ g[l.s].type = seg[l.s].type
          /\ g[l.s].image = seg[l.s].image /\ g[l.s].memory = seg[l.s].memory
          /\ \A x \in Segs : x # l.s => g[x] = seg[x]
        BY <1>3, <1>4, <1>6, <2>1, <2>2
    <3>2. /\ th' \in [Procs -> Locals] /\ pc' \in [Procs -> Labels] /\ seg' \in [Segs -> SegRec]
          /\ Control' /\ LockAt(t)' /\ Fixed(t, l.s, g[l.s].map) /\ pc'[t] \in {"newpage", "mmuput"}
        BY <1>6, <1>9, <2>1, <2>3, <3>1, PresentFixed, Zenon
    <3>3. QED  BY <1>6, <2>2, <3>2
  <2>5. /\ a \in PageRec /\ a.ref = page[p].ref /\ a.alloc = page[p].alloc /\ a.image = i
      BY <1>4, <1>5, <1>8, Zenon DEF PageRec
  <2> HIDE DEF a
  <2>6. /\ page' \in [Pages -> PageRec] /\ page'[p] = a /\ \A x \in Pages : x # p => page'[x] = page[x]
      BY <1>1, <1>4, <1>7, <1>10, <2>5, PageChanges
  <2>7. image' \in [Images -> ImageRec]
    <3>1. \A r \in ImageRec : [r EXCEPT !.ref = @ + 1] \in ImageRec
        BY DEF ImageRec
    <3>2. image \in [Images -> ImageRec]
        BY DEF TypeOK
    <3>3. image' = [image EXCEPT ![i].ref = @ + 1]
        BY <1>1, <1>10
    <3> HIDE DEF i
    <3>4. QED  BY <3>1, <3>2, <3>3, Zenon
  <2>8. hash' \subseteq Pages /\ free' \in Seq(Pages)
      BY <1>1, <1>4, <1>10 DEF TypeOK
  <2>9. TypeOK'
      BY <1>1, <2>4, <2>6, <2>7, <2>8 DEF TypeOK
  <2>10. QED  BY <1>1, <1>3, <1>4, <1>10, <2>4, <2>5, <2>6, <2>9
<1>11. CASE seg[s].map # Nil
  <2>1. Present(t, page, seg, l) /\ putpage(page, free, p)
      BY <1>1, <1>11
  <2>2. /\ th' \in [Procs -> Locals] /\ pc' \in [Procs -> Labels] /\ seg' \in [Segs -> SegRec]
        /\ Control' /\ LockAt(t)' /\ Fixed(t, s, seg[s].map) /\ pc'[t] \in {"newpage", "mmuput"}
    <3>1. seg[l.s].map \in Pages
        BY <1>5, <1>6, <1>11
    <3>2. /\ th' \in [Procs -> Locals] /\ pc' \in [Procs -> Labels] /\ seg' \in [Segs -> SegRec]
          /\ Control' /\ LockAt(t)' /\ Fixed(t, l.s, seg[l.s].map) /\ pc'[t] \in {"newpage", "mmuput"}
        BY <1>5, <1>6, <1>9, <2>1, <3>1, PresentFixed, Zenon
    <3>3. QED  BY <1>6, <3>2
  <2>3. page' \in [Pages -> PageRec] /\ free' \in Seq(Pages)
      BY <1>4, <1>5, <2>1, PutTypes
  <2>4. TypeOK'
      BY <1>1, <1>11, <2>2, <2>3 DEF TypeOK
  <2>5. QED  BY <1>1, <1>3, <1>4, <1>11, <2>1, <2>2, <2>4
<1>12. QED  BY <1>10, <1>11

\* fixfault() has copied the page q to the new page p, in m.
Copied(t, s, p, q, m) ==
    /\ LockAt(t)' /\ pc[t] = "copy" /\ pga = Nil
    /\ seg[s].lk = t /\ s \in {own[t]["text"], own[t]["data"]}
    /\ UNCHANGED <<hash, pga, image, pager, own, tlb>>
    /\ putpage(m, free, q)
    /\ m[p].ref = page[p].ref /\ m[p].alloc = page[p].alloc /\ m[p].image = page[p].image
    /\ \A x \in Pages : x # p => m[x] = page[x]
    /\ pc'[t] = "mmuput" /\ Fixed(t, s, p)

\* copypage(): the types, the control and the page that is replaced.
LEMMA CopyControl ==
    ASSUME PageAssumption, TypeOK, Control, SegTypes, Locks, NEW t \in Procs, Copy(t)
    PROVE  /\ th[t].s \in Segs /\ th[t].new \in Pages /\ seg[th[t].s].map \in Pages
           /\ TypeOK' /\ Control'
           /\ \E m \in [Pages -> PageRec] : Copied(t, th[t].s, th[t].new, seg[th[t].s].map, m)
<1> DEFINE s == th[t].s
           p == th[t].new
           old == seg[s].map
           m == [page EXCEPT ![p].holds = page[old].holds]
           k == [NoLocals EXCEPT !.s = s, !.rights = "write"]
<1>1. /\ pc[t] = "copy" /\ pga = Nil /\ putpage(m, free, old)
      /\ seg' = [seg EXCEPT ![s].map = p, ![s].lk = Nil]
      /\ th' = [th EXCEPT ![t] = k] /\ pc' = [pc EXCEPT ![t] = "mmuput"]
      /\ UNCHANGED <<hash, pga, image, pager, own, tlb>>
    BY DEF Copy, At
<1>2. ControlAt(t) /\ th[t] \in Locals
    BY DEF Control, TypeOK
<1>3. s # Nil /\ s \in {own[t]["text"], own[t]["data"]} /\ p # Nil /\ th[t].src = Nil
    BY <1>1, <1>2 DEF ControlAt, Faulting
<1>4. s \in Segs /\ p \in Pages
    BY <1>2, <1>3 DEF Locals
<1>5. seg[s].lk = t /\ old # Nil
    BY <1>1, <1>3 DEF Locks, LockAt, Locking
<1>6. seg \in [Segs -> SegRec] /\ seg[s] \in SegRec /\ page \in [Pages -> PageRec] /\ old \in Pages
    BY <1>4, <1>5 DEF TypeOK, SegRec
<1>7. /\ m \in [Pages -> PageRec] /\ m[p].ref = page[p].ref /\ m[p].alloc = page[p].alloc
      /\ m[p].image = page[p].image /\ \A x \in Pages : x # p => m[x] = page[x]
  <2> DEFINE a == [page[p] EXCEPT !.holds = page[old].holds]
  <2>1. a \in PageRec /\ a.ref = page[p].ref /\ a.alloc = page[p].alloc /\ a.image = page[p].image
      BY <1>4, <1>6 DEF PageRec
  <2>2. m = [page EXCEPT ![p] = a]
      OBVIOUS
  <2> HIDE DEF a, m
  <2>3. QED  BY <1>4, <2>1, <2>2, PageChanges
<1> HIDE DEF m
<1>8. page' \in [Pages -> PageRec] /\ free' \in Seq(Pages)
    BY <1>1, <1>6, <1>7, PutTypes, Zenon DEF TypeOK
<1>9. k \in Locals /\ k.s = s /\ k.todo = << >> /\ k.then = Nil
  <2>1. "write" \in Rights
      BY DEF Rights
  <2>2. QED  BY <1>4, <2>1, MapLocals, Zenon
<1> HIDE DEF k
<1>10. Moves(t, k, "mmuput")
  <2>1. "mmuput" \in Labels
      BY DEF Labels
  <2>2. QED  BY <1>1, <1>9, <2>1, Moved, Zenon
<1>11. /\ seg' \in [Segs -> SegRec] /\ \A x \in Segs : x # s => seg'[x] = seg[x]
       /\ seg'[s].map = p /\ seg'[s].ref = seg[s].ref /\ seg'[s].type = seg[s].type
       /\ seg'[s].image = seg[s].image /\ seg'[s].memory = seg[s].memory
  <2> DEFINE z == [seg[s] EXCEPT !.map = p]
             y == [z EXCEPT !.lk = Nil]
  <2>1. z \in SegRec /\ z.map = p /\ z.ref = seg[s].ref /\ z.type = seg[s].type
        /\ z.image = seg[s].image /\ z.memory = seg[s].memory
      BY <1>4, <1>6, MapFields
  <2> HIDE DEF z
  <2>2. y \in SegRec /\ y.map = p /\ y.ref = seg[s].ref /\ y.type = seg[s].type
        /\ y.image = seg[s].image /\ y.memory = seg[s].memory
      BY <2>1 DEF SegRec
  <2>3. seg' = [seg EXCEPT ![s] = y]
      BY <1>1, <1>4, <1>6, Zenon DEF z
  <2> HIDE DEF y
  <2>4. QED  BY <1>4, <2>2, <2>3, SegChanges
<1>12. TypeOK'
    BY <1>1, <1>8, <1>10, <1>11 DEF TypeOK, Moves
<1>13. ControlAt(t)'
    BY <1>1, <1>2, <1>3, <1>9, <1>10
    DEF ControlAt, In, Dropped, Reusing, Reclaiming, Faulting, Moves, PageAssumption
<1>14. Control'
    BY <1>1, <1>10, <1>13, MovesControl
<1>15. LockAt(t)'
    BY <1>10 DEF LockAt, Locking, Reusing, In, Moves
<1>16. Fixed(t, s, p)
    BY <1>4, <1>9, <1>10, <1>11 DEF Fixed, Moves
<1>17. Copied(t, s, p, old, m)
    BY <1>1, <1>3, <1>5, <1>7, <1>10, <1>15, <1>16 DEF Moves, Copied
<1>18. QED  BY <1>4, <1>6, <1>7, <1>12, <1>14, <1>17

\* mmuput(): the types and the control.
LEMMA MmuputControl ==
    ASSUME PageAssumption, TypeOK, Control, NEW t \in Procs, Mmuput(t)
    PROVE  /\ TypeOK' /\ Control' /\ pc[t] = "mmuput" /\ Moves(t, NoLocals, "idle")
           /\ UNCHANGED <<page, free, hash, pga, image, seg, pager, own>>
<1>1. /\ pc[t] = "mmuput" /\ th' = [th EXCEPT ![t] = NoLocals] /\ pc' = [pc EXCEPT ![t] = "idle"]
      /\ UNCHANGED <<page, free, hash, pga, image, seg, pager, own>>
      /\ seg[th[t].s].map # Nil
      /\ tlb' = IF seg[th[t].s].type = "text" THEN tlb
                ELSE [tlb EXCEPT ![t] = [page |-> seg[th[t].s].map, rights |-> th[t].rights]]
    BY DEF Mmuput, At, memory
<1>2. ControlAt(t) /\ th[t].s \in Segs /\ th[t].rights \in Rights
    BY <1>1 DEF Control, ControlAt, Faulting, TypeOK, Locals
<1>3. Moves(t, NoLocals, "idle")
  <2>1. "idle" \in Labels
      BY DEF Labels
  <2>2. QED  BY <1>1, <2>1, Records, Moved, Zenon
<1>4. tlb' \in [Procs -> [page : Pages \union {Nil}, rights : Rights]]
  <2>1. seg[th[t].s].map \in Pages \union {Nil}
      BY <1>2 DEF TypeOK, SegRec
  <2>2. [page |-> seg[th[t].s].map, rights |-> th[t].rights] \in [page : Pages \union {Nil}, rights : Rights]
      BY <1>2, <2>1
  <2>3. QED  BY <1>1, <2>2 DEF TypeOK
<1>5. TypeOK'
    BY <1>1, <1>3, <1>4 DEF TypeOK, Moves
<1>6. NoLocals.todo = << >> /\ NoLocals.then = Nil /\ NoLocals.src = Nil
    BY DEF NoLocals
<1>7. ControlAt(t)'
    BY <1>1, <1>2, <1>3, <1>6
    DEF ControlAt, In, Dropped, Reusing, Reclaiming, Faulting, Moves, PageAssumption
<1>8. QED  BY <1>1, <1>3, <1>5, <1>7, MovesControl

\* A store changes the contents of a page and nothing else.
LEMMA StoreControl ==
    ASSUME PageAssumption, TypeOK, Control, NEW t \in Procs, Store(t)
    PROVE  /\ TypeOK' /\ Control'
           /\ UNCHANGED <<free, hash, pga, image, pager, own, tlb, th, pc>>
           /\ \A p \in Pages : /\ page'[p].ref = page[p].ref /\ page'[p].alloc = page[p].alloc
                               /\ page'[p].image = page[p].image
           /\ \A s \in Segs : /\ seg'[s].ref = seg[s].ref /\ seg'[s].type = seg[s].type
                              /\ seg'[s].image = seg[s].image /\ seg'[s].map = seg[s].map
                              /\ seg'[s].lk = seg[s].lk
                              /\ s # own[t]["data"] => seg'[s] = seg[s]
<1> DEFINE d == own[t]["data"]
           c == <<"stored", d>>
<1>1. /\ page' = [page EXCEPT ![tlb[t].page].holds = c]
      /\ seg' = [seg EXCEPT ![d].memory = c]
      /\ UNCHANGED <<free, hash, pga, image, pager, own, tlb, th, pc>>
    BY DEF Store
<1>2. d \in Segs \union {Nil}
    BY DEF TypeOK, Types
<1>3. c \in Contents
    BY <1>2 DEF Contents
<1> HIDE DEF c, d
<1>4. page \in [Pages -> PageRec] /\ seg \in [Segs -> SegRec]
    BY DEF TypeOK
<1>5. \A r \in PageRec : /\ [r EXCEPT !.holds = c] \in PageRec
                         /\ [r EXCEPT !.holds = c].ref = r.ref /\ [r EXCEPT !.holds = c].alloc = r.alloc
                         /\ [r EXCEPT !.holds = c].image = r.image
    BY <1>3 DEF PageRec
<1>6. \A r \in SegRec : /\ [r EXCEPT !.memory = c] \in SegRec
                        /\ [r EXCEPT !.memory = c].ref = r.ref /\ [r EXCEPT !.memory = c].type = r.type
                        /\ [r EXCEPT !.memory = c].image = r.image /\ [r EXCEPT !.memory = c].map = r.map
                        /\ [r EXCEPT !.memory = c].lk = r.lk
    BY <1>3 DEF SegRec
<1>7. /\ page' \in [Pages -> PageRec]
      /\ \A p \in Pages : page'[p] = page[p] \/ page'[p] = [page[p] EXCEPT !.holds = c]
    BY <1>1, <1>4, <1>5, Zenon
<1>8. /\ seg' \in [Segs -> SegRec]
      /\ \A s \in Segs : seg'[s] = (IF s = d THEN [seg[s] EXCEPT !.memory = c] ELSE seg[s])
    BY <1>1, <1>4, <1>6, Zenon
<1>9. TypeOK'
    BY <1>1, <1>7, <1>8 DEF TypeOK
<1>10. Control'
  <2>1. ASSUME NEW u \in Procs PROVE ControlAt(u)'
    <3>1. ControlAt(u)
        BY DEF Control
    <3>2. QED  BY <1>1, <3>1 DEF ControlAt, In, Dropped, Reusing, Reclaiming, Faulting
  <2>2. QED  BY <2>1 DEF Control
<1>11. /\ \A p \in Pages : /\ page'[p].ref = page[p].ref /\ page'[p].alloc = page[p].alloc
                           /\ page'[p].image = page[p].image
    BY <1>4, <1>5, <1>7, Zenon
<1>12. \A s \in Segs : /\ seg'[s].ref = seg[s].ref /\ seg'[s].type = seg[s].type
                       /\ seg'[s].image = seg[s].image /\ seg'[s].map = seg[s].map
                       /\ seg'[s].lk = seg[s].lk
                       /\ s # d => seg'[s] = seg[s]
    BY <1>4, <1>6, <1>8, Zenon
<1>13. QED  BY <1>1, <1>9, <1>10, <1>11, <1>12 DEF d

\* pageout(): the types, the control and the segment that loses its page.
LEMMA PageoutControl ==
    ASSUME PageAssumption, TypeOK, Control, NEW t \in Procs, Pageout(t)
    PROVE  /\ TypeOK' /\ Control' /\ pga = Nil
           /\ UNCHANGED <<hash, pga, image, pager, own, tlb, th, pc>>
           /\ \E s \in Segs :
                 /\ seg[s].type # Nil /\ seg[s].lk = Nil /\ seg[s].map \in Pages
                 /\ putpage(page, free, seg[s].map)
                 /\ seg'[s].ref = seg[s].ref /\ seg'[s].type = seg[s].type
                 /\ seg'[s].image = seg[s].image /\ seg'[s].map = Nil /\ seg'[s].lk = seg[s].lk
                 /\ \A x \in Segs : x # s => seg'[x] = seg[x]
<1>1. /\ pga = Nil /\ UNCHANGED <<hash, pga, image, pager, own, tlb, th, pc>>
    BY DEF Pageout
<1>2. PICK s \in Segs :
        /\ seg[s].type = "text" /\ seg[s].lk = Nil /\ seg[s].map # Nil
        /\ putpage(page, free, seg[s].map)
        /\ seg' = [seg EXCEPT ![s].map = Nil]
    BY Zenon DEF Pageout
<1>3. seg \in [Segs -> SegRec] /\ seg[s].map \in Pages /\ seg[s].type # Nil
    BY <1>2 DEF TypeOK, SegRec, PageAssumption
<1>4. \A r \in SegRec : /\ [r EXCEPT !.map = Nil] \in SegRec
                        /\ [r EXCEPT !.map = Nil].ref = r.ref /\ [r EXCEPT !.map = Nil].type = r.type
                        /\ [r EXCEPT !.map = Nil].image = r.image /\ [r EXCEPT !.map = Nil].map = Nil
                        /\ [r EXCEPT !.map = Nil].lk = r.lk
    BY DEF SegRec
<1>5. /\ seg' \in [Segs -> SegRec] /\ seg'[s] = [seg[s] EXCEPT !.map = Nil]
      /\ \A x \in Segs : x # s => seg'[x] = seg[x]
    BY <1>2, <1>3, <1>4
<1>6. page' \in [Pages -> PageRec] /\ free' \in Seq(Pages)
    BY <1>2, <1>3, PutTypes, Zenon DEF TypeOK
<1>7. TypeOK'
    BY <1>1, <1>5, <1>6 DEF TypeOK
<1>8. Control'
  <2>1. ASSUME NEW u \in Procs PROVE ControlAt(u)'
    <3>1. ControlAt(u)
        BY DEF Control
    <3>2. QED  BY <1>1, <3>1 DEF ControlAt, In, Dropped, Reusing, Reclaiming, Faulting
  <2>2. QED  BY <2>1 DEF Control
<1>9. QED  BY <1>1, <1>2, <1>3, <1>4, <1>5, <1>7, <1>8

\* kickpager() returns.
LEMMA KickedControl ==
    ASSUME PageAssumption, TypeOK, Control, NEW t \in Procs, pc[t] = "pageout", Kicked(t),
           UNCHANGED <<hash, pga, image, seg, own, tlb>>,
           page' \in [Pages -> PageRec], free' \in Seq(Pages)
    PROVE  /\ TypeOK' /\ Control' /\ LockAt(t)' /\ pc'[t] \in {"fault", "newpage"}
           /\ th'[t] = [th[t] EXCEPT !.then = Nil]
           /\ \A u \in Procs : u # t => th'[u] = th[u] /\ pc'[u] = pc[u]
<1> DEFINE l == [th[t] EXCEPT !.then = Nil]
           x == IF th[t].src = Nil THEN "fault" ELSE "newpage"
<1>1. /\ th' = [th EXCEPT ![t] = l] /\ pc' = [pc EXCEPT ![t] = x] /\ pager' = Nil
    BY DEF Kicked
<1>2. l \in Locals /\ l.todo = th[t].todo /\ l.s = th[t].s /\ l.src = th[t].src /\ l.then = Nil
  <2>1. th[t] \in Locals
      BY DEF TypeOK
  <2>2. QED  BY <2>1 DEF Locals, Afters
<1>3. x \in Labels
    BY DEF Labels
<1> HIDE DEF l, x
<1>4. Moves(t, l, x)
    BY <1>1, <1>2, <1>3, Moved, Zenon
<1>5. ControlAt(t)
    BY DEF Control
<1>6. TypeOK'
    BY <1>1, <1>4 DEF TypeOK, Moves
<1>7. ControlAt(t)'
    BY <1>2, <1>4, <1>5
    DEF ControlAt, In, Dropped, Reusing, Reclaiming, Faulting, Moves, PageAssumption, x
<1>8. Control'
    BY <1>4, <1>7, MovesControl
<1>9. LockAt(t)'
    BY <1>2, <1>4 DEF LockAt, Locking, Reusing, In, Moves, x
<1>10. QED  BY <1>4, <1>6, <1>8, <1>9 DEF Moves, l, x

\* tryalloc(): the types and the control.
LEMMA TryallocControl ==
    ASSUME PageAssumption, TypeOK, Control, NEW t \in Procs, Tryalloc(t)
    PROVE  /\ TypeOK' /\ Control' /\ LockAt(t)' /\ pga = Nil /\ pc[t] = "pageout"
           /\ pc'[t] \in {"fault", "newpage"} /\ th'[t] = [th[t] EXCEPT !.then = Nil]
           /\ \A u \in Procs : u # t => th'[u] = th[u] /\ pc'[u] = pc[u]
           /\ UNCHANGED <<hash, pga, image, seg, own, tlb>>
           /\ \E p \in Pages : ~page[p].alloc /\ putpage([page EXCEPT ![p] = Fresh], free, p)
<1>1. /\ pga = Nil /\ pc[t] = "pageout" /\ Kicked(t) /\ UNCHANGED <<hash, pga, image, seg, own, tlb>>
    BY DEF Tryalloc, At
<1>2. PICK p \in Pages : ~page[p].alloc /\ putpage([page EXCEPT ![p] = Fresh], free, p)
    BY DEF Tryalloc
<1>3. [page EXCEPT ![p] = Fresh] \in [Pages -> PageRec]
    BY Records, PageChanges
<1>4. page' \in [Pages -> PageRec] /\ free' \in Seq(Pages)
    BY <1>2, <1>3, PutTypes, Zenon DEF TypeOK
<1>5. QED  BY <1>1, <1>2, <1>4, KickedControl, Zenon

\* freepages(): the types and the control.
LEMMA FreepagesControl ==
    ASSUME PageAssumption, TypeOK, Control, NEW t \in Procs, Freepages(t)
    PROVE  /\ TypeOK' /\ Control' /\ pga = Nil /\ pc[t] = "pageout" /\ free # << >>
           /\ th'[t] = [th[t] EXCEPT !.then = "freed"]
           /\ \A u \in Procs : u # t => th'[u] = th[u]
           /\ free' = Tail(free) /\ page' = [page EXCEPT ![Head(free)] = NoPage]
           /\ UNCHANGED <<hash, pga, image, seg, pager, own, tlb, pc>>
<1> DEFINE l == [th[t] EXCEPT !.then = "freed"]
<1>1. /\ pga = Nil /\ pc[t] = "pageout" /\ free # << >>
      /\ free' = Tail(free) /\ page' = [page EXCEPT ![Head(free)] = NoPage]
      /\ th' = [th EXCEPT ![t] = l]
      /\ UNCHANGED <<hash, pga, image, seg, pager, own, tlb, pc>>
    BY DEF Freepages, At
<1>2. l \in Locals /\ l.todo = th[t].todo /\ l.s = th[t].s /\ l.src = th[t].src /\ l.then = "freed"
  <2>1. th[t] \in Locals
      BY DEF TypeOK
  <2>2. QED  BY <2>1 DEF Locals, Afters
<1> HIDE DEF l
<1>3. th' \in [Procs -> Locals] /\ th'[t] = l /\ \A u \in Procs : u # t => th'[u] = th[u]
    BY <1>1, <1>2, ThGoes, Zenon
<1>4. TypeOK'
  <2>1. Head(free) \in Pages /\ free' \in Seq(Pages)
      BY <1>1 DEF TypeOK
  <2>2. page' \in [Pages -> PageRec]
      BY <1>1, <2>1, Records, PageChanges
  <2>3. QED  BY <1>1, <1>3, <2>1, <2>2 DEF TypeOK
<1>5. ControlAt(t)
    BY DEF Control
<1>6. ControlAt(t)'
    BY <1>1, <1>2, <1>3, <1>5 DEF ControlAt, In, Dropped, Reusing, Reclaiming, Faulting
<1>7. Control'
    BY <1>1, <1>3, <1>6, OtherControl
<1>8. QED  BY <1>1, <1>3, <1>4, <1>7 DEF l

\* kickpager() finds nothing: the types and the control.
LEMMA NoMemoryControl ==
    ASSUME PageAssumption, TypeOK, Control, NEW t \in Procs, NoMemory(t)
    PROVE  /\ TypeOK' /\ Control' /\ LockAt(t)' /\ pc[t] = "pageout"
           /\ UNCHANGED <<page, free, hash, pga, image, seg, own, tlb>>
           /\ pc'[t] \in {"fault", "newpage", "panic"}
           /\ th'[t] = th[t] \/ th'[t] = [th[t] EXCEPT !.then = Nil]
           /\ \A u \in Procs : u # t => th'[u] = th[u] /\ pc'[u] = pc[u]
<1>1. pc[t] = "pageout" /\ UNCHANGED <<page, free, hash, pga, image, seg, own, tlb>>
    BY DEF NoMemory, At, memory
<1>2. CASE Kicked(t)
    BY <1>1, <1>2, KickedControl DEF TypeOK
<1>3. CASE pc' = [pc EXCEPT ![t] = "panic"] /\ UNCHANGED <<pager, th>>
  <2>1. pc' \in [Procs -> Labels] /\ pc'[t] = "panic" /\ \A u \in Procs : u # t => pc'[u] = pc[u]
    <3>1. "panic" \in Labels
        BY DEF Labels
    <3>2. QED  BY <1>3, <3>1, PcGoes, Zenon
  <2>2. TypeOK'
      BY <1>1, <1>3, <2>1 DEF TypeOK
  <2>3. ControlAt(t)
      BY DEF Control
  <2>4. ControlAt(t)'
      BY <1>1, <1>3, <2>1, <2>3 DEF ControlAt, In, Dropped, Reusing, Reclaiming, Faulting
  <2>5. Control'
      BY <1>1, <1>3, <2>1, <2>4, OtherControl
  <2>6. LockAt(t)'
      BY <2>1 DEF LockAt, Locking, Reusing, In
  <2>7. QED  BY <1>1, <1>3, <2>1, <2>2, <2>5, <2>6
<1>4. QED  BY <1>2, <1>3 DEF NoMemory

----------------------------------------------------------------------------
(* Segments.                                                               *)

\* Whoever has segments left to put is in putseg(), before or after it dropped its
\* reference.
LEMMA DroppedIs ==
    ASSUME Control, NEW t \in Procs
    PROVE  Dropped(t) <=> (th[t].todo # << >> /\ pc[t] # "putseg")
<1>1. ControlAt(t)
    BY DEF Control
<1>2. QED  BY <1>1 DEF ControlAt, Dropped, In

\* The same after a step.
LEMMA DroppedIsNext ==
    ASSUME Control', NEW t \in Procs
    PROVE  Dropped(t)' <=> (th'[t].todo # << >> /\ pc'[t] # "putseg")
<1>1. ControlAt(t)'
    BY DEF Control
<1>2. QED  BY <1>1 DEF ControlAt, Dropped, In

\* Finitely many processes use a segment.
LEMMA UsersCounted ==
    ASSUME PageAssumption, NEW s
    PROVE  /\ UsersOf(s) \in SUBSET Procs /\ IsFiniteSet(Procs)
           /\ Cardinality(UsersOf(s)) \in Nat /\ (Cardinality(UsersOf(s)) = 0 <=> UsersOf(s) = {})
<1>1. UsersOf(s) \in SUBSET Procs /\ IsFiniteSet(Procs)
    BY DEF UsersOf, PageAssumption
<1>2. QED  BY <1>1, NoneCounted

\* A process that keeps its segments, and its place in putseg().
Keeps(u) ==
    /\ own'[u] = own[u] /\ th'[u].todo = th[u].todo
    /\ pc'[u] = "putseg" <=> pc[u] = "putseg"

\* A process that keeps its lists and segments uses what it used.
LEMMA KeepsUses ==
    ASSUME Control, Control', NEW u \in Procs, Keeps(u)
    PROVE  /\ Dropped(u)' <=> Dropped(u)
           /\ \A s \in Segs \union {Nil} : Uses(u, s)' <=> Uses(u, s)
<1>1. Dropped(u)' <=> Dropped(u)
    BY DroppedIs, DroppedIsNext DEF Keeps
<1>2. ASSUME NEW s \in Segs \union {Nil} PROVE Uses(u, s)' <=> Uses(u, s)
    BY <1>1 DEF Uses, Keeps
<1>3. QED  BY <1>1, <1>2

\* When the others keep theirs, one process makes the difference.
LEMMA UsersStep ==
    ASSUME PageAssumption, Control, Control', NEW t \in Procs, NEW s \in Segs,
           \A u \in Procs : u # t => Keeps(u)
    PROVE  /\ Cardinality(UsersOf(s))' = Cardinality(UsersOf(s))
                - (IF Uses(t, s) THEN 1 ELSE 0) + (IF Uses(t, s)' THEN 1 ELSE 0)
           /\ UsersOf(s)' \subseteq UsersOf(s) \union {t}
           /\ \A u \in Procs : u # t => (u \in UsersOf(s)' <=> u \in UsersOf(s))
           /\ t \in UsersOf(s) <=> Uses(t, s)
           /\ t \in UsersOf(s)' <=> Uses(t, s)'
<1> DEFINE A == UsersOf(s)
           B == UsersOf(s)'
<1>1. \A u \in Procs : u # t => (Uses(u, s)' <=> Uses(u, s))
    BY KeepsUses
<1>2. /\ A \in SUBSET Procs /\ B \in SUBSET Procs /\ IsFiniteSet(Procs)
      /\ \A u \in Procs : (u \in A <=> Uses(u, s)) /\ (u \in B <=> Uses(u, s)')
    BY DEF UsersOf, PageAssumption
<1>3. \A u \in Procs : u # t => (u \in A <=> u \in B)
    BY <1>1, <1>2
<1> HIDE DEF A, B
<1>4. Cardinality(B) = Cardinality(A) - (IF t \in A THEN 1 ELSE 0) + (IF t \in B THEN 1 ELSE 0)
    BY <1>2, <1>3, OneChanged
<1>5. /\ Cardinality(B) = Cardinality(A)
                - (IF Uses(t, s) THEN 1 ELSE 0) + (IF Uses(t, s)' THEN 1 ELSE 0)
      /\ B \subseteq A \union {t}
    BY <1>2, <1>3, <1>4
<1>6. QED  BY <1>2, <1>3, <1>5 DEF A, B

\* Steps that leave the references to segments alone.
LEMMA SegsQuiet ==
    ASSUME PageAssumption, TypeOK, Control, Control', SInv,
           \A u \in Procs : Keeps(u),
           \A s \in Segs : /\ seg'[s].ref = seg[s].ref /\ seg'[s].type = seg[s].type
                           /\ seg'[s].image = seg[s].image
                           /\ seg[s].type = Nil => seg'[s] = seg[s],
           \A i \in Images : image'[i].s = image[i].s
    PROVE  SInv'
<1>1. \A u \in Procs : Dropped(u)' <=> Dropped(u)
    BY KeepsUses
<1>2. \A u \in Procs : \A s \in Segs : Uses(u, s)' <=> Uses(u, s)
    BY KeepsUses
<1>3. \A s \in Segs : UsersOf(s)' = UsersOf(s)
    BY <1>2 DEF UsersOf
<1>4. SegsCounted'
    BY <1>3 DEF SInv, SegsCounted
<1>5. SegTypes'
  <2>1. ASSUME NEW t \in Procs, NEW y \in Types, own'[t][y] # Nil PROVE seg'[own'[t][y]].type = y
    <3>1. own'[t][y] = own[t][y]
        BY DEF Keeps
    <3>2. own[t][y] \in Segs
        BY <2>1, <3>1 DEF TypeOK
    <3>3. seg[own[t][y]].type = y
        BY <2>1, <3>1 DEF SInv, SegTypes
    <3>4. QED  BY <3>1, <3>2, <3>3
  <2>2. ASSUME NEW t \in Procs PROVE TodoAt(t)'
    <3>1. TodoAt(t) /\ th[t].todo \in Seq(Segs) /\ th'[t].todo = th[t].todo
        BY DEF SInv, SegTypes, TypeOK, Locals, Keeps
    <3>2. QED  BY <3>1 DEF TodoAt
  <2>3. \A s \in Segs : IF seg'[s].type = Nil THEN seg'[s] = NoSeg ELSE seg'[s].image # Nil
      BY DEF SInv, SegTypes
  <2>4. ASSUME NEW i \in Images, (image[i].s # Nil)'
        PROVE  (/\ seg[image[i].s].type = "text" /\ seg[image[i].s].image = i
                /\ UsersOf(image[i].s) # {})'
    <3>1. image[i].s \in Segs /\ image[i].s = image'[i].s
        BY <2>4 DEF TypeOK, ImageRec
    <3>2. UsersOf(image[i].s)' = UsersOf(image'[i].s)
        BY <1>3, <3>1 DEF UsersOf, Uses
    <3>3. QED  BY <1>3, <2>4, <3>1, <3>2 DEF SInv, SegTypes
  <2>5. QED  BY <2>1, <2>2, <2>3, <2>4 DEF SegTypes
<1>6. Droppers'
  <2>1. \A u \in Procs : Dropped(u)' => /\ Dropped(u) /\ th'[u].todo = th[u].todo
                                        /\ Head(th[u].todo) \in Segs
      BY <1>1, DroppedIs, TodoHead DEF Keeps
  <2>2. QED  BY <1>3, <2>1 DEF SInv, Droppers
<1>7. QED  BY <1>4, <1>5, <1>6 DEF SInv

\* The segments a process knows are in use.
Refers(u, s) ==
    \/ own[u]["text"] = s \/ own[u]["data"] = s
    \/ \E i \in 1 .. Len(th[u].todo) : th[u].todo[i] = s

\* What a process refers to is a segment with a type.
LEMMA RefersType ==
    ASSUME PageAssumption, TypeOK, SegTypes, NEW u \in Procs, NEW s \in Segs
    PROVE  /\ Refers(u, s) => seg[s].type # Nil
           /\ Uses(u, s) => Refers(u, s)
<1>1. Uses(u, s) => Refers(u, s)
    BY DEF Uses, Refers
<1>2. ASSUME own[u]["text"] = s \/ own[u]["data"] = s PROVE seg[s].type # Nil
    BY <1>2 DEF SegTypes, Types, PageAssumption
<1>3. ASSUME NEW i \in 1 .. Len(th[u].todo), th[u].todo[i] = s PROVE seg[s].type # Nil
  <2>1. TodoAt(u) /\ th[u].todo \in Seq(Segs)
      BY DEF SegTypes, TypeOK, Locals
  <2>2. QED  BY <1>3, <2>1 DEF TodoAt, PageAssumption
<1>4. QED  BY <1>1, <1>2, <1>3 DEF Refers

\* A process whose segments keep their types.
LEMMA TypesKept ==
    ASSUME PageAssumption, TypeOK, SegTypes, NEW u \in Procs,
           own'[u] = own[u], th'[u].todo = th[u].todo,
           \A s \in Segs : Refers(u, s) => seg'[s].type = seg[s].type
    PROVE  TodoAt(u)' /\ \A y \in Types : own'[u][y] # Nil => seg'[own'[u][y]].type = y
<1>1. TodoAt(u) /\ th[u].todo \in Seq(Segs)
    BY DEF SegTypes, TypeOK, Locals
<1>2. TodoAt(u)'
  <2>1. \A i \in 1 .. Len(th[u].todo) : seg'[th[u].todo[i]].type = seg[th[u].todo[i]].type
      BY <1>1 DEF Refers
  <2>2. QED  BY <1>1, <2>1 DEF TodoAt
<1>3. ASSUME NEW y \in Types, own'[u][y] # Nil PROVE seg'[own'[u][y]].type = y
  <2>1. own[u][y] \in Segs /\ Refers(u, own[u][y])
      BY <1>3 DEF TypeOK, Refers, Types
  <2>2. QED  BY <1>3, <2>1 DEF SegTypes
<1>4. QED  BY <1>2, <1>3

\* A step of one process keeps the dropped segments apart.
LEMMA DroppersStep ==
    ASSUME PageAssumption, TypeOK, Control, Control', SInv, NEW t \in Procs,
           \A u \in Procs : u # t => Keeps(u),
           \A s \in Segs : Uses(t, s)' => UsersOf(s) # {} \/ seg[s].type = Nil,
           NEW h \in Segs,
           Dropped(t)' => /\ Head(th'[t].todo) = h /\ UsersOf(h)' = {}
                          /\ \A u \in Procs : u # t /\ Dropped(u) => Head(th[u].todo) # h
    PROVE  Droppers'
<1>1. ASSUME NEW u \in Procs, u # t, Dropped(u)'
      PROVE  /\ Dropped(u) /\ th'[u].todo = th[u].todo
             /\ Head(th[u].todo) \in Segs /\ UsersOf(Head(th[u].todo))' = {}
  <2>1. Dropped(u) /\ th'[u].todo = th[u].todo /\ th[u].todo # << >>
      BY <1>1, KeepsUses, DroppedIs DEF Keeps
  <2>2. PICK x \in Segs : x = Head(th[u].todo) /\ x = th[u].todo[1] /\ 1 \in 1 .. Len(th[u].todo)
      BY <2>1, TodoHead
  <2>3. UsersOf(x) = {} /\ seg[x].type # Nil
      BY <2>1, <2>2, RefersType DEF SInv, Droppers, Refers
  <2>4. UsersOf(x)' \subseteq {t} /\ (t \in UsersOf(x)' <=> Uses(t, x)')
      BY <2>2, <2>3, UsersStep
  <2>5. UsersOf(x)' = {}
      BY <2>2, <2>3, <2>4
  <2>6. UsersOf(Head(th[u].todo))' = UsersOf(x)'
      BY <2>1, <2>2 DEF UsersOf, Uses
  <2>7. QED  BY <2>1, <2>2, <2>5, <2>6
<1>2. \A u \in Procs : Dropped(u)' => UsersOf(Head(th[u].todo))' = {}
  <2>1. Dropped(t)' => UsersOf(Head(th[t].todo))' = {}
    <3>1. Head(th'[t].todo) = h => UsersOf(Head(th[t].todo))' = UsersOf(h)'
        BY DEF UsersOf, Uses
    <3>2. QED  BY <3>1
  <2>2. QED  BY <1>1, <2>1
<1>3. ASSUME NEW u \in Procs, NEW v \in Procs, Dropped(u)', Dropped(v)',
             Head(th'[u].todo) = Head(th'[v].todo)
      PROVE  u = v
    BY <1>1, <1>3 DEF SInv, Droppers
<1>4. QED  BY <1>2, <1>3 DEF Droppers

\* The types of the segments after a step, part by part.
LEMMA SegTypesNext ==
    ASSUME TypeOK',
           \A u \in Procs : TodoAt(u)' /\ \A y \in Types : own'[u][y] # Nil => seg'[own'[u][y]].type = y,
           \A s \in Segs : IF seg'[s].type = Nil THEN seg'[s] = NoSeg ELSE seg'[s].image # Nil,
           \A i \in Images : \A x \in Segs : image'[i].s = x =>
               seg'[x].type = "text" /\ seg'[x].image = i /\ UsersOf(x)' # {}
    PROVE  SegTypes'
<1>1. ASSUME NEW i \in Images, (image[i].s # Nil)'
      PROVE  (/\ seg[image[i].s].type = "text" /\ seg[image[i].s].image = i
              /\ UsersOf(image[i].s) # {})'
  <2>1. PICK x \in Segs : x = image'[i].s
      BY <1>1 DEF TypeOK, ImageRec
  <2>2. UsersOf(image[i].s)' = UsersOf(x)'
      BY <2>1 DEF UsersOf, Uses
  <2>3. QED  BY <2>1, <2>2
<1>2. QED  BY <1>1 DEF SegTypes

\* The references of a process move from its segments to its list.
LEMMA ReleaseSegs ==
    ASSUME PageAssumption, TypeOK, Control, SInv, NEW t \in Procs, Release(t)
    PROVE  SInv'
<1>1. TypeOK' /\ Control' /\ own[t]["text"] \in Segs /\ own[t]["data"] \in Segs
    BY ReleaseControl
<1>2. PICK x \in Segs, d \in Segs : x = own[t]["text"] /\ d = own[t]["data"]
    BY <1>1
<1>3. /\ pc[t] = "idle" /\ UNCHANGED <<image, seg>>
      /\ pc' = [pc EXCEPT ![t] = "putseg"] /\ th' = [th EXCEPT ![t].todo = <<x, d>>]
      /\ own' = [own EXCEPT ![t] = NoSegs]
    BY <1>2 DEF Release, At
<1>4. /\ pc'[t] = "putseg" /\ th'[t].todo = <<x, d>> /\ own'[t]["text"] = Nil /\ own'[t]["data"] = Nil
      /\ \A u \in Procs : u # t => Keeps(u)
  <2>1. th'[t] = [th[t] EXCEPT !.todo = <<x, d>>] /\ th[t] \in Locals
      BY <1>3 DEF TypeOK
  <2>2. th'[t].todo = <<x, d>>
      BY <2>1 DEF Locals
  <2>3. QED  BY <1>3, <2>2 DEF TypeOK, NoSegs, Types, Keeps
<1>5. th[t].todo = << >> /\ ~Dropped(t)'
    BY <1>1, <1>3, <1>4, DroppedIsNext DEF Control, ControlAt, Dropped, In
<1>6. ASSUME NEW s \in Segs
      PROVE  /\ Uses(t, s) <=> (s = x \/ s = d)
             /\ Uses(t, s)' <=> (s = x \/ s = d)
             /\ UsersOf(s)' = UsersOf(s)
  <2>1. Uses(t, s) <=> (s = x \/ s = d)
      BY <1>2, <1>5 DEF Uses
  <2>2. Uses(t, s)' <=> (s = x \/ s = d)
    <3>1. Nil # s
        BY DEF PageAssumption
    <3>2. Uses(t, s)' <=> \E i \in 1 .. 2 : <<x, d>>[i] = s
        BY <1>4, <1>5, <3>1 DEF Uses
    <3>3. QED  BY <3>2
  <2>3. \A u \in Procs : u # t => (Uses(u, s)' <=> Uses(u, s))
      BY <1>1, <1>4, KeepsUses
  <2>4. QED  BY <2>1, <2>2, <2>3 DEF UsersOf
<1>7. SegsCounted'
    BY <1>3, <1>6 DEF SInv, SegsCounted
<1>8. SegTypes'
  <2>1. ASSUME NEW u \in Procs
        PROVE  TodoAt(u)' /\ \A y \in Types : own'[u][y] # Nil => seg'[own'[u][y]].type = y
    <3>1. CASE u = t
      <4>1. seg[x].type = "text" /\ seg[d].type = "data"
          BY <1>2 DEF SInv, SegTypes, Types, PageAssumption
      <4>2. QED  BY <1>3, <1>4, <3>1, <4>1 DEF TodoAt, Types
    <3>2. CASE u # t
        BY <1>3, <1>4, <3>2, TypesKept DEF SInv, Keeps
    <3>3. QED  BY <3>1, <3>2
  <2>2. QED  BY <1>1, <1>3, <1>6, <2>1, SegTypesNext DEF SInv, SegTypes, PageAssumption
<1>9. Droppers'
  <2>1. \A s \in Segs : Uses(t, s)' => UsersOf(s) # {}
      BY <1>6 DEF UsersOf
  <2>2. QED  BY <1>1, <1>4, <1>5, <2>1, DroppersStep, Zenon
<1>10. QED  BY <1>7, <1>8, <1>9 DEF SInv

\* attachimage() and sysexec() add references to the text and the data.
LEMMA AttachSegs ==
    ASSUME PageAssumption, TypeOK, Control, SInv, NEW t \in Procs, Attach(t)
    PROVE  SInv'
<1>1. TypeOK' /\ Control' /\ pc[t] = "attach" /\ Moves(t, NoLocals, "idle")
    BY AttachControl
<1>2. PICK i \in Images : i = th[t].img
    BY <1>1 DEF Control, ControlAt, TypeOK, Locals
<1>3. PICK s \in Segs, d \in Segs : Attached(t, i, s, d)
    BY <1>2, AttachEffect
<1>4. th'[t].todo = << >> /\ pc'[t] = "idle" /\ \A u \in Procs : u # t => Keeps(u)
    BY <1>1, <1>3 DEF Moves, NoLocals, Keeps, Attached
<1>5. th[t].todo = << >> /\ own[t]["text"] = Nil /\ own[t]["data"] = Nil /\ ~Dropped(t)'
    BY <1>1, <1>4, DroppedIsNext DEF Control, ControlAt, Dropped, In
<1>6. \A x \in Segs : ~Uses(t, x) /\ (Uses(t, x)' <=> (x = s \/ x = d))
    BY <1>3, <1>4, <1>5 DEF Uses, PageAssumption, Attached
<1>7. /\ \A x \in Segs : seg[x].type = Nil => UsersOf(x) = {} /\ seg[x].ref = 0
      /\ image[i].s # Nil => /\ UsersOf(s) # {} /\ seg[s].type = "text" /\ seg[s].image = i
                             /\ seg'[s].type = "text" /\ seg'[s].image = i
                             /\ seg'[s].ref = seg[s].ref + 1
  <2>1. \A x \in Segs : seg[x].type = Nil => UsersOf(x) = {} /\ seg[x].ref = 0
      BY RefersType DEF SInv, UsersOf, SegTypes, NoSeg
  <2>2. image[i].s # Nil => UsersOf(s) # {} /\ seg[s].type = "text" /\ seg[s].image = i
      BY <1>3 DEF SInv, SegTypes, Attached
  <2>3. image[i].s # Nil => /\ seg'[s].type = seg[s].type /\ seg'[s].image = seg[s].image
                            /\ seg'[s].ref = seg[s].ref + 1
      BY <1>3 DEF TypeOK, SegRec, Attached
  <2>4. QED  BY <2>1, <2>2, <2>3
<1>8. SegsCounted'
  <2>1. ASSUME NEW x \in Segs PROVE seg'[x].ref = Cardinality(UsersOf(x))'
    <3>1. /\ Cardinality(UsersOf(x))' = Cardinality(UsersOf(x)) + (IF x = s \/ x = d THEN 1 ELSE 0)
          /\ seg[x].ref = Cardinality(UsersOf(x)) /\ Cardinality(UsersOf(x)) \in Nat
        BY <1>1, <1>4, <1>6, UsersStep, UsersCounted DEF SInv, SegsCounted
    <3>2. QED  BY <1>3, <1>7, <3>1 DEF Attached
  <2>2. QED  BY <2>1 DEF SegsCounted
<1>9. SegTypes'
  <2>1. ASSUME NEW u \in Procs
        PROVE  TodoAt(u)' /\ \A y \in Types : own'[u][y] # Nil => seg'[own'[u][y]].type = y
    <3>1. CASE u = t
        BY <1>3, <1>4, <1>7, <3>1 DEF TodoAt, Types, Attached
    <3>2. CASE u # t
      <4>1. \A x \in Segs : Refers(u, x) => seg'[x].type = seg[x].type
          BY <1>3, <1>7, RefersType DEF SInv, Attached
      <4>2. QED  BY <1>4, <3>2, <4>1, TypesKept DEF SInv, Keeps
    <3>3. QED  BY <3>1, <3>2
  <2>2. \A x \in Segs : IF seg'[x].type = Nil THEN seg'[x] = NoSeg ELSE seg'[x].image # Nil
      BY <1>3, <1>7 DEF SInv, SegTypes, PageAssumption, Attached
  <2>3. ASSUME NEW j \in Images, NEW x \in Segs, image'[j].s = x
        PROVE  seg'[x].type = "text" /\ seg'[x].image = j /\ UsersOf(x)' # {}
    <3>1. CASE j = i
      <4>1. t \in UsersOf(s)'
          BY <1>6 DEF UsersOf
      <4>2. QED  BY <1>3, <1>7, <2>3, <3>1, <4>1 DEF Attached
    <3>2. CASE j # i
      <4>1. image[j].s = x /\ seg[x].type = "text" /\ seg[x].image = j /\ UsersOf(x) # {}
          BY <1>3, <2>3, <3>2 DEF SInv, SegTypes, PageAssumption, Attached
      <4>2. x # s /\ x # d
          BY <1>3, <1>7, <3>2, <4>1 DEF PageAssumption, Attached
      <4>3. UsersOf(x)' # {}
        <5>1. PICK u \in UsersOf(x) : u # t
            BY <1>6, <4>1 DEF UsersOf
        <5>2. u \in UsersOf(x)'
            BY <1>1, <1>4, <5>1, UsersStep, Zenon DEF UsersOf
        <5>3. QED  BY <5>2
      <4>4. QED  BY <1>3, <4>1, <4>2, <4>3 DEF Attached
    <3>3. QED  BY <3>1, <3>2
  <2>4. QED  BY <1>1, <2>1, <2>2, <2>3, SegTypesNext
<1>10. Droppers'
  <2>1. \A x \in Segs : Uses(t, x)' => UsersOf(x) # {} \/ seg[x].type = Nil
      BY <1>3, <1>6, <1>7 DEF Attached
  <2>2. QED  BY <1>1, <1>4, <1>5, <2>1, DroppersStep, Zenon
<1>11. QED  BY <1>8, <1>9, <1>10 DEF SInv

\* putseg() of the text and then of the data segment.
LEMMA TodoShape ==
    ASSUME PageAssumption, TypeOK, Control, SegTypes, NEW t \in Procs, th[t].todo # << >>
    PROVE  LET q == th[t].todo IN
           /\ Len(q) \in {1, 2} /\ q[1] = Head(q) /\ q[1] \in Segs /\ seg[q[1]].type # Nil
           /\ Len(q) = 2 => /\ q[2] \in Segs /\ q[2] # q[1] /\ seg[q[2]].type = "data"
                            /\ Len(Tail(q)) = 1 /\ Tail(q)[1] = q[2]
           /\ Len(q) = 1 => Tail(q) = << >>
           /\ Tail(q) = << >> => Len(q) = 1
           /\ \A x \in Segs : Uses(t, x) <=> ((~Dropped(t) /\ x = q[1]) \/ (Len(q) = 2 /\ x = q[2]))
<1> DEFINE q == th[t].todo
<1>1. /\ q \in Seq(Segs) /\ q # << >> /\ TodoAt(t) /\ ControlAt(t)
      /\ Head(q) = q[1] /\ Head(q) \in Segs /\ Len(Tail(q)) = Len(q) - 1
      /\ \A i \in 1 .. Len(q) - 1 : Tail(q)[i] = q[i + 1]
      /\ Tail(q) \in Seq(Segs)
    BY TodoHead DEF SegTypes, TypeOK, Locals, Control
<1>2. /\ Len(q) \in {1, 2} /\ seg[q[1]].type # Nil
      /\ Len(q) = 2 => q[2] \in Segs /\ q[2] # q[1] /\ seg[q[2]].type = "data"
    BY <1>1 DEF TodoAt, PageAssumption
<1>3. own[t]["text"] = Nil /\ own[t]["data"] = Nil
    BY <1>1 DEF ControlAt
<1>4. Len(q) = 1 <=> Tail(q) = << >>
  <2>1. Tail(q) # << >> => Len(Tail(q)) \in Nat \ {0}
      BY <1>1, EmptySeq, Zenon
  <2>2. Tail(q) = << >> => Len(Tail(q)) = 0
      BY EmptySeq, Zenon
  <2> DEFINE n == Len(Tail(q))
  <2>3. n = Len(q) - 1 /\ Len(q) \in {1, 2} /\ (Tail(q) # << >> => n \in Nat \ {0})
        /\ (Tail(q) = << >> => n = 0)
      BY <1>1, <1>2, <2>1, <2>2
  <2> HIDE DEF n
  <2>4. QED  BY <2>3
<1>5. \A x \in Segs : Uses(t, x) <=> ((~Dropped(t) /\ x = q[1]) \/ (Len(q) = 2 /\ x = q[2]))
  <2>1. \A x \in Segs : x # Nil
      BY DEF PageAssumption
  <2>2. \A x \in Segs : Uses(t, x) <=> \E i \in 1 .. Len(q) : q[i] = x /\ ~(i = 1 /\ Dropped(t))
      BY <1>3, <2>1 DEF Uses
  <2>3. QED  BY <1>2, <2>2
<1>6. Len(q) = 2 => Len(Tail(q)) = 1 /\ Tail(q)[1] = q[2]
    BY <1>1
<1>7. QED  BY <1>1, <1>2, <1>4, <1>5, <1>6

\* putseg() takes one reference, and the last one leaves the segment unused.
LEMMA PutsegSegs ==
    ASSUME PageAssumption, TypeOK, Control, SInv, NEW t \in Procs, Putseg(t)
    PROVE  SInv'
<1>1. PICK s \in Segs : s = Head(th[t].todo)
  <2>1. Head(th[t].todo) \in Segs
      BY PutsegControl, Zenon
  <2>2. QED  BY <2>1
<1> DEFINE q == th[t].todo
           last == seg[s].ref = 1
<1>2. /\ TypeOK' /\ Control'
      /\ pc[t] = "putseg" /\ th[t].todo # << >>
      /\ seg'[s] = [seg[s] EXCEPT !.ref = @ - 1] /\ \A x \in Segs : x # s => seg'[x] = seg[x]
      /\ \A i \in Images : /\ last /\ i = seg[s].image /\ image[i].s = s => image'[i] = [image[i] EXCEPT !.s = Nil]
                           /\ ~(last /\ i = seg[s].image /\ image[i].s = s) => image'[i] = image[i]
      /\ \A u \in Procs : u # t => th'[u] = th[u] /\ pc'[u] = pc[u]
      /\ last => /\ pc'[t] = "putimage" /\ th'[t] = [th[t] EXCEPT !.img = seg[s].image, !.then = "putseg"]
      /\ ~last => /\ pc'[t] = Putting(Tail(th[t].todo))
                  /\ th'[t] = [th[t] EXCEPT !.todo = Tail(@)]
      /\ own' = own
    BY <1>1, PutsegControl, Zenon
<1>3. /\ Len(q) \in {1, 2} /\ q[1] = s /\ seg[s].type # Nil
      /\ Len(q) = 2 => /\ q[2] \in Segs /\ q[2] # s /\ seg[q[2]].type = "data"
                       /\ Len(Tail(q)) = 1 /\ Tail(q)[1] = q[2]
      /\ Len(q) = 1 => Tail(q) = << >>
      /\ Tail(q) = << >> => Len(q) = 1
      /\ \A x \in Segs : Uses(t, x) <=> (x = s \/ (Len(q) = 2 /\ x = q[2]))
      /\ own[t]["text"] = Nil /\ own[t]["data"] = Nil
  <2>1. ~Dropped(t)
      BY <1>2 DEF Dropped, In
  <2>2. own[t]["text"] = Nil /\ own[t]["data"] = Nil
      BY <1>2 DEF Control, ControlAt
  <2>3. QED  BY <1>1, <1>2, <2>1, <2>2, TodoShape DEF SInv
<1>4. /\ last => th'[t].todo = q
      /\ ~last => th'[t].todo = Tail(q)
      /\ \A u \in Procs : u # t => Keeps(u)

  <2>2. th[t] \in Locals /\ (~last => th'[t] = [th[t] EXCEPT !.todo = Tail(q)])
      BY <1>2 DEF TypeOK
  <2>3. \A u \in Procs : u # t => Keeps(u)
      BY <1>2 DEF Keeps
  <2>4. ASSUME last PROVE th'[t].todo = q
    <3>1. th'[t] = [th[t] EXCEPT !.img = seg[s].image, !.then = "putseg"]
        BY <1>2, <2>4
    <3>2. QED  BY <2>2, <3>1 DEF Locals
  <2>5. ~last => th'[t].todo = Tail(q)
      BY <2>2, Zenon DEF Locals
  <2>6. QED  BY <2>3, <2>4, <2>5
<1>5. Dropped(t)' <=> last
    BY <1>2, <1>3, <1>4, DroppedIsNext, Zenon DEF Putting
<1>6. \A x \in Segs : Uses(t, x)' <=> (Len(q) = 2 /\ x = q[2])
  <2>1. \A x \in Segs : x # Nil
      BY DEF PageAssumption
  <2>2. CASE last
    <3>1. \A x \in Segs : Uses(t, x)' <=> \E i \in 1 .. Len(q) : q[i] = x /\ ~(i = 1)
        BY <1>2, <1>3, <1>4, <1>5, <2>1, <2>2 DEF Uses
    <3>2. QED  BY <1>3, <3>1
  <2>3. CASE ~last
    <3>0. own'[t]["text"] = Nil /\ own'[t]["data"] = Nil /\ th'[t].todo = Tail(q) /\ ~Dropped(t)'
        BY <1>2, <1>3, <1>4, <1>5, <2>3
    <3>1. \A x \in Segs : Uses(t, x)' <=> \E i \in 1 .. Len(Tail(q)) : Tail(q)[i] = x
        BY <2>1, <3>0, Zenon DEF Uses
    <3>2. Len(q) = 1 => Len(Tail(q)) = 0
        BY <1>3
    <3>3. QED  BY <1>3, <3>1, <3>2
  <2>4. QED  BY <2>2, <2>3
<1>7. ASSUME NEW x \in Segs
      PROVE  /\ Cardinality(UsersOf(x))' = Cardinality(UsersOf(x)) - (IF x = s THEN 1 ELSE 0)
             /\ seg[x].ref = Cardinality(UsersOf(x)) /\ Cardinality(UsersOf(x)) \in Nat
             /\ x # s => UsersOf(x)' = UsersOf(x)
  <2>1. /\ Cardinality(UsersOf(x))' = Cardinality(UsersOf(x))
                - (IF Uses(t, x) THEN 1 ELSE 0) + (IF Uses(t, x)' THEN 1 ELSE 0)
        /\ seg[x].ref = Cardinality(UsersOf(x)) /\ Cardinality(UsersOf(x)) \in Nat
      BY <1>2, <1>4, UsersStep, UsersCounted DEF SInv, SegsCounted
  <2>2. x # s => (Uses(t, x)' <=> Uses(t, x))
      BY <1>3, <1>6
  <2>3. x = s => Uses(t, x) /\ ~Uses(t, x)'
      BY <1>3, <1>6
  <2>4. x # s => UsersOf(x)' = UsersOf(x)
      BY <1>2, <1>4, <2>2, KeepsUses DEF UsersOf
  <2>5. QED  BY <2>1, <2>2, <2>3, <2>4
<1>8. seg'[s].ref = seg[s].ref - 1 /\ seg'[s].type = seg[s].type /\ seg'[s].image = seg[s].image
    BY <1>2 DEF TypeOK, SegRec
<1>9. SegsCounted'
  <2>1. ASSUME NEW x \in Segs PROVE seg'[x].ref = Cardinality(UsersOf(x))'
    <3>1. CASE x = s
        BY <1>7, <1>8, <3>1
    <3>2. CASE x # s
        BY <1>2, <1>7, <3>2
    <3>3. QED  BY <3>1, <3>2
  <2>2. QED  BY <2>1 DEF SegsCounted
<1>10. SegTypes'
  <2>1. ASSUME NEW u \in Procs
        PROVE  TodoAt(u)' /\ \A y \in Types : own'[u][y] # Nil => seg'[own'[u][y]].type = y
    <3>1. \A x \in Segs : seg'[x].type = seg[x].type
        BY <1>2, <1>8, Zenon
    <3>2. CASE th'[u].todo = th[u].todo
        BY <1>2, <3>1, <3>2, TypesKept DEF SInv
    <3>3. CASE u = t /\ ~last
      <4>1. TodoAt(t)'
          BY <1>3, <1>4, <3>1, <3>3, Zenon DEF TodoAt
      <4>2. QED  BY <1>2, <1>3, <3>3, <4>1 DEF Types
    <3>4. QED  BY <1>4, <3>2, <3>3 DEF Keeps
  <2>2. \A x \in Segs : IF seg'[x].type = Nil THEN seg'[x] = NoSeg ELSE seg'[x].image # Nil
    <3>1. \A x \in Segs : IF seg[x].type = Nil THEN seg[x] = NoSeg ELSE seg[x].image # Nil
        BY DEF SInv, SegTypes
    <3>2. \A x \in Segs : x # s => seg'[x] = seg[x]
        BY <1>2
    <3>3. QED  BY <1>3, <1>8, <3>1, <3>2
  <2>3. ASSUME NEW j \in Images, NEW x \in Segs, image'[j].s = x
        PROVE  seg'[x].type = "text" /\ seg'[x].image = j /\ UsersOf(x)' # {}
    <3>1. /\ image[j].s = x /\ ~(last /\ j = seg[s].image /\ x = s)
          /\ seg[x].type = "text" /\ seg[x].image = j /\ UsersOf(x) # {}
      <4>1. image[j] \in ImageRec /\ x # Nil
          BY DEF TypeOK, PageAssumption
      <4>2. \A r \in ImageRec : [r EXCEPT !.s = Nil].s = Nil
          BY DEF ImageRec
      <4>3. image[j].s = x /\ ~(last /\ j = seg[s].image /\ x = s)
        <5>1. CASE last /\ j = seg[s].image /\ image[j].s = s
            BY <1>2, <2>3, <4>1, <4>2, <5>1, Zenon
        <5>2. CASE ~(last /\ j = seg[s].image /\ image[j].s = s)
          <6>1. image'[j] = image[j]
              BY <1>2, <5>2, Zenon
          <6>2. QED  BY <2>3, <5>2, <6>1
        <5>3. QED  BY <5>1, <5>2
      <4>4. QED  BY <4>1, <4>3 DEF SInv, SegTypes
    <3>2. CASE x = s
      <4>1. ~last /\ Cardinality(UsersOf(x)) # 0
          BY <3>1, <3>2, UsersCounted
      <4>2. Cardinality(UsersOf(x))' # 0
          BY <1>7, <3>2, <4>1
      <4>3. UsersOf(x)' # {}
          BY <4>2, FS_EmptySet
      <4>4. QED  BY <1>8, <3>1, <3>2, <4>3
    <3>3. CASE x # s
        BY <1>2, <1>7, <3>1, <3>3
    <3>4. QED  BY <3>2, <3>3
  <2>4. QED  BY <1>2, <2>1, <2>2, <2>3, SegTypesNext
<1>11. Droppers'
  <2>1. \A x \in Segs : Uses(t, x)' => UsersOf(x) # {}
      BY <1>3, <1>6 DEF UsersOf
  <2>2. UsersOf(s) # {}
      BY <1>3 DEF UsersOf
  <2>3. last => UsersOf(s)' = {}
    <3>1. last => Cardinality(UsersOf(s)') = 0
        BY <1>7
    <3>2. UsersOf(s)' \in SUBSET Procs /\ IsFiniteSet(Procs)
        BY DEF UsersOf, PageAssumption
    <3>3. QED  BY <3>1, <3>2, NoneCounted
  <2>4. \A u \in Procs : Dropped(u) => Head(th[u].todo) # s
      BY <2>2 DEF SInv, Droppers
  <2>5. Dropped(t)' => /\ Head(th'[t].todo) = s /\ UsersOf(s)' = {}
                       /\ \A u \in Procs : u # t /\ Dropped(u) => Head(th[u].todo) # s
      BY <1>1, <1>4, <1>5, <2>3, <2>4
  <2>6. QED  BY <1>2, <1>4, <2>1, <2>5, DroppersStep
<1>12. QED  BY <1>9, <1>10, <1>11 DEF SInv

\* freepte() clears a segment nobody refers to.
LEMMA FreepteSegs ==
    ASSUME PageAssumption, TypeOK, Control, SInv, NEW t \in Procs, Freepte(t)
    PROVE  SInv'
<1>1. PICK s \in Segs : s = Head(th[t].todo)
    BY FreepteControl, Zenon
<1> DEFINE q == th[t].todo
<1>2. /\ TypeOK' /\ Control'
      /\ pc[t] = "freepte" /\ th[t].todo # << >>
      /\ seg'[s] = NoSeg /\ \A x \in Segs : x # s => seg'[x] = seg[x]
      /\ pc'[t] = Putting(Tail(q)) /\ th'[t] = [th[t] EXCEPT !.todo = Tail(q)]
      /\ \A u \in Procs : u # t => th'[u] = th[u] /\ pc'[u] = pc[u]
      /\ own' = own /\ image' = image
    BY <1>1, FreepteControl
<1>3. Dropped(t) /\ UsersOf(s) = {} /\ \A u \in Procs : u # t /\ Dropped(u) => Head(th[u].todo) # s
    BY <1>1, <1>2 DEF SInv, Droppers, Dropped
<1>4. /\ Len(q) \in {1, 2} /\ q[1] = s /\ seg[s].type # Nil
      /\ Len(q) = 2 => /\ q[2] \in Segs /\ q[2] # s /\ seg[q[2]].type = "data"
                       /\ Len(Tail(q)) = 1 /\ Tail(q)[1] = q[2]
      /\ Len(q) = 1 => Tail(q) = << >>
      /\ Tail(q) = << >> => Len(q) = 1
      /\ \A x \in Segs : Uses(t, x) <=> (Len(q) = 2 /\ x = q[2])
      /\ own[t]["text"] = Nil /\ own[t]["data"] = Nil
    BY <1>1, <1>2, <1>3, TodoShape DEF SInv, Control, ControlAt
<1>5. /\ th'[t].todo = Tail(q)
      /\ \A u \in Procs : u # t => Keeps(u)
  <2>1. th[t] \in Locals
      BY DEF TypeOK
  <2>2. th'[t].todo = Tail(q)
      BY <1>2, <2>1 DEF Locals
  <2>3. QED  BY <1>2, <2>2 DEF Keeps
<1>6. ~Dropped(t)'
    BY <1>2, <1>5, DroppedIsNext, Zenon DEF Putting
<1>7. \A x \in Segs : Uses(t, x)' <=> Uses(t, x)
  <2>1. \A x \in Segs : x # Nil
      BY DEF PageAssumption
  <2>2. own'[t]["text"] = Nil /\ own'[t]["data"] = Nil
      BY <1>2, <1>4
  <2>3. \A x \in Segs : Uses(t, x)' <=> \E i \in 1 .. Len(Tail(q)) : Tail(q)[i] = x
      BY <1>5, <1>6, <2>1, <2>2 DEF Uses
  <2>4. Len(q) = 1 => Len(Tail(q)) = 0
      BY <1>4
  <2>5. QED  BY <1>4, <2>3, <2>4
<1>8. \A x \in Segs : UsersOf(x)' = UsersOf(x)
  <2>1. \A u \in Procs : \A x \in Segs : Uses(u, x)' <=> Uses(u, x)
      BY <1>2, <1>5, <1>7, KeepsUses
  <2>2. QED  BY <2>1 DEF UsersOf
<1>9. SegsCounted'
  <2>1. ASSUME NEW x \in Segs PROVE seg'[x].ref = Cardinality(UsersOf(x))'
    <3>1. CASE x = s
      <4>1. seg'[x].ref = 0
          BY <1>2, <3>1 DEF NoSeg
      <4>2. QED  BY <1>3, <1>8, <3>1, <4>1, FS_EmptySet
    <3>2. CASE x # s
        BY <1>2, <1>8, <3>2 DEF SInv, SegsCounted
    <3>3. QED  BY <3>1, <3>2
  <2>2. QED  BY <2>1 DEF SegsCounted
<1>10. SegTypes'
  <2>1. ASSUME NEW u \in Procs
        PROVE  TodoAt(u)' /\ \A y \in Types : own'[u][y] # Nil => seg'[own'[u][y]].type = y
    <3>1. CASE u # t
      <4>1. ~Refers(u, s)
        <5>1. ~Uses(u, s)
            BY <1>3 DEF UsersOf
        <5>2. ASSUME NEW i \in 1 .. Len(th[u].todo), th[u].todo[i] = s PROVE FALSE
          <6>1. i = 1 /\ Dropped(u)
              BY <5>1, <5>2 DEF Uses
          <6>2. Head(th[u].todo) = s
              BY <5>2, <6>1, DroppedIs, TodoHead
          <6>3. QED  BY <1>3, <3>1, <6>1, <6>2
        <5>3. QED  BY <5>1, <5>2 DEF Uses, Refers
      <4>2. \A x \in Segs : Refers(u, x) => seg'[x].type = seg[x].type
          BY <1>2, <4>1
      <4>3. QED  BY <1>5, <3>1, <4>2, TypesKept DEF SInv, Keeps
    <3>2. CASE u = t
      <4>1. TodoAt(t)'
          BY <1>2, <1>4, <1>5 DEF TodoAt
      <4>2. QED  BY <1>2, <1>4, <3>2, <4>1 DEF Types
    <3>3. QED  BY <3>1, <3>2
  <2>2. \A x \in Segs : IF seg'[x].type = Nil THEN seg'[x] = NoSeg ELSE seg'[x].image # Nil
    <3>1. \A x \in Segs : IF seg[x].type = Nil THEN seg[x] = NoSeg ELSE seg[x].image # Nil
        BY DEF SInv, SegTypes
    <3>2. NoSeg.type = Nil
        BY DEF NoSeg
    <3>3. QED  BY <1>2, <3>1, <3>2
  <2>3. ASSUME NEW j \in Images, NEW x \in Segs, image'[j].s = x
        PROVE  seg'[x].type = "text" /\ seg'[x].image = j /\ UsersOf(x)' # {}
    <3>1. seg[x].type = "text" /\ seg[x].image = j /\ UsersOf(x) # {}
        BY <1>2, <2>3 DEF SInv, SegTypes, PageAssumption
    <3>2. QED  BY <1>2, <1>3, <1>8, <3>1
  <2>4. QED  BY <1>2, <2>1, <2>2, <2>3, SegTypesNext
<1>11. Droppers'
  <2>1. \A x \in Segs : Uses(t, x)' => UsersOf(x) # {}
      BY <1>7 DEF UsersOf
  <2>2. QED  BY <1>2, <1>5, <1>6, <2>1, DroppersStep
<1>12. QED  BY <1>9, <1>10, <1>11 DEF SInv

\* dupseg() adds the references of the child.
LEMMA ForkSegs ==
    ASSUME PageAssumption, TypeOK, Control, SInv, NEW t \in Procs, NEW u \in Procs, Fork(t, u)
    PROVE  SInv'
<1>1. /\ TypeOK' /\ Control' /\ UNCHANGED <<th, pc>>
      /\ pc[t] = "idle" /\ pc[u] = "idle" /\ own[u]["text"] = Nil /\ own[u]["data"] = Nil
    BY ForkControl, ForkEffect DEF SInv
<1>2. PICK n \in Segs : Forked(t, u, n)
    BY ForkEffect DEF SInv
<1>3. PICK x \in Segs, d \in Segs : x = own[t]["text"] /\ d = own[t]["data"] /\ x # d /\ x # n /\ u # t
    BY <1>2 DEF Forked
<1>4. /\ own'[u]["text"] = x /\ own'[u]["data"] = n
      /\ \A v \in Procs : v # u => own'[v] = own[v] /\ Keeps(v)
    BY <1>1, <1>2, <1>3 DEF Forked, Keeps
<1>5. th[u].todo = << >> /\ ~Dropped(u)'
    BY <1>1, DroppedIsNext DEF Control, ControlAt, Dropped, In
<1>6. \A s \in Segs : ~Uses(u, s) /\ (Uses(u, s)' <=> (s = x \/ s = n))
    BY <1>1, <1>4, <1>5 DEF Uses, PageAssumption
<1>7. /\ t \in UsersOf(x) /\ t \in UsersOf(d) /\ seg[x].type = "text" /\ seg[d].type = "data"
      /\ \A s \in Segs : seg[s].type = Nil => UsersOf(s) = {}
  <2>1. Uses(t, x) /\ Uses(t, d)
      BY <1>3 DEF Uses
  <2>2. seg[x].type = "text" /\ seg[d].type = "data"
      BY <1>3 DEF SInv, SegTypes, Types, PageAssumption
  <2>3. \A s \in Segs : seg[s].type = Nil => UsersOf(s) = {}
      BY RefersType DEF SInv, UsersOf
  <2>4. QED  BY <2>1, <2>2, <2>3 DEF UsersOf
<1>8. /\ seg'[x].ref = seg[x].ref + 1 /\ seg'[x].type = seg[x].type /\ seg'[x].image = seg[x].image
      /\ seg'[n].ref = (IF n = d THEN seg[d].ref ELSE 0) + 1
      /\ seg'[n].type = "data" /\ seg'[n].image = seg[d].image
      /\ n # d => seg[n].type = Nil
      /\ \A s \in Segs : s # x /\ s # n => seg'[s] = seg[s]
  <2>1. /\ seg'[x] = [seg[x] EXCEPT !.ref = @ + 1]
        /\ \/ n = d /\ seg'[d] = [seg[d] EXCEPT !.ref = @ + 1]
           \/ n # d /\ seg[n].type = Nil /\ seg'[n] = [seg[d] EXCEPT !.ref = 1]
        /\ \A s \in Segs : s # x /\ s # n => seg'[s] = seg[s]
      BY <1>2, <1>3 DEF Forked
  <2>2. seg[x] \in SegRec /\ seg[d] \in SegRec
      BY DEF TypeOK
  <2>3. QED  BY <1>7, <2>1, <2>2 DEF SegRec
<1>9. SegsCounted'
  <2>1. ASSUME NEW s \in Segs PROVE seg'[s].ref = Cardinality(UsersOf(s))'
    <3>1. /\ Cardinality(UsersOf(s))' = Cardinality(UsersOf(s)) + (IF s = x \/ s = n THEN 1 ELSE 0)
          /\ seg[s].ref = Cardinality(UsersOf(s)) /\ Cardinality(UsersOf(s)) \in Nat
        BY <1>1, <1>4, <1>6, UsersStep, UsersCounted DEF SInv, SegsCounted
    <3>2. seg[s].type = Nil => seg[s].ref = 0
        BY <1>7, <3>1, FS_EmptySet
    <3>3. QED  BY <1>3, <1>8, <3>1, <3>2
  <2>2. QED  BY <2>1 DEF SegsCounted
<1>10. \A s \in Segs : seg[s].type # Nil => seg'[s].type = seg[s].type /\ seg'[s].image = seg[s].image
    BY <1>3, <1>7, <1>8
<1>11. SegTypes'
  <2>1. ASSUME NEW v \in Procs
        PROVE  TodoAt(v)' /\ \A y \in Types : own'[v][y] # Nil => seg'[own'[v][y]].type = y
    <3>1. CASE v = u
      <4>1. TodoAt(u)'
          BY <1>1, <1>5 DEF TodoAt
      <4>2. QED  BY <1>4, <1>7, <1>8, <3>1, <4>1 DEF Types
    <3>2. CASE v # u
      <4>1. \A s \in Segs : Refers(v, s) => seg'[s].type = seg[s].type
          BY <1>10, RefersType DEF SInv
      <4>2. QED  BY <1>4, <3>2, <4>1, TypesKept DEF SInv, Keeps
    <3>3. QED  BY <3>1, <3>2
  <2>2. \A s \in Segs : IF seg'[s].type = Nil THEN seg'[s] = NoSeg ELSE seg'[s].image # Nil
    <3>1. \A s \in Segs : IF seg[s].type = Nil THEN seg[s] = NoSeg ELSE seg[s].image # Nil
        BY DEF SInv, SegTypes
    <3>2. QED  BY <1>7, <1>8, <3>1 DEF PageAssumption
  <2>3. ASSUME NEW j \in Images, NEW s \in Segs, image'[j].s = s
        PROVE  seg'[s].type = "text" /\ seg'[s].image = j /\ UsersOf(s)' # {}
    <3>1. image[j].s = s
      <4>1. image' = image \/ image' = [image EXCEPT ![seg[d].image].ref = @ + 1]
          BY <1>2, <1>3 DEF Forked
      <4>2. \A r \in ImageRec : [r EXCEPT !.ref = @ + 1].s = r.s
          BY DEF ImageRec
      <4>3. image[j] \in ImageRec /\ (image'[j] = image[j] \/ image'[j] = [image[j] EXCEPT !.ref = @ + 1])
          BY <4>1, Zenon DEF TypeOK
      <4>4. QED  BY <2>3, <4>2, <4>3, Zenon
    <3>2. seg[s].type = "text" /\ seg[s].image = j /\ UsersOf(s) # {}
        BY <3>1 DEF SInv, SegTypes, PageAssumption
    <3>3. PICK v \in UsersOf(s) : v # u
        BY <1>6, <3>2 DEF UsersOf
    <3>4. v \in UsersOf(s)'
        BY <1>1, <1>4, <3>3, UsersStep, Zenon DEF UsersOf
    <3>5. QED  BY <1>10, <3>2, <3>4 DEF PageAssumption
  <2>4. QED  BY <1>1, <2>1, <2>2, <2>3, SegTypesNext
<1>12. Droppers'
  <2>1. \A s \in Segs : Uses(u, s)' => UsersOf(s) # {} \/ seg[s].type = Nil
      BY <1>6, <1>7, <1>8
  <2>2. QED  BY <1>1, <1>4, <1>5, <2>1, DroppersStep
<1>13. QED  BY <1>9, <1>11, <1>12 DEF SInv

----------------------------------------------------------------------------
(* The segments' locks.                                                    *)

\* A step of one process respects the segments that others have locked.
LEMMA LocksStep ==
    ASSUME PageAssumption, TypeOK, Control, Locks, NEW t \in Procs, LockAt(t)',
           \A u \in Procs : u # t => th'[u] = th[u] /\ pc'[u] = pc[u],
           \A x \in Segs : \/ seg'[x].lk = seg[x].lk /\ seg'[x].map = seg[x].map
                           \/ seg[x].lk \in {Nil, t} \/ UsersOf(x) = {}
    PROVE  Locks'
<1>1. ASSUME NEW u \in Procs, u # t PROVE LockAt(u)'
  <2>1. Locking(u)' <=> Locking(u)
      BY <1>1 DEF Locking, Reusing, In
  <2>2. CASE Locking(u)
    <3>1. seg[th[u].s].lk = u /\ (pc[u] = "found" <=> seg[th[u].s].map = Nil)
        BY <2>2 DEF Locks, LockAt
    <3>2. th[u].s \in Segs /\ Uses(u, th[u].s)
        BY <2>2 DEF Control, ControlAt, Locking, Faulting, Uses, TypeOK, Locals
    <3>3. UsersOf(th[u].s) # {} /\ u # Nil
        BY <3>2 DEF UsersOf, PageAssumption
    <3>4. seg'[th[u].s].lk = seg[th[u].s].lk /\ seg'[th[u].s].map = seg[th[u].s].map
        BY <1>1, <3>1, <3>2, <3>3
    <3>5. QED  BY <1>1, <3>1, <3>4 DEF LockAt
  <2>3. CASE ~Locking(u)
      BY <2>1, <2>3 DEF LockAt
  <2>4. QED  BY <2>2, <2>3
<1>2. QED  BY <1>1 DEF Locks

----------------------------------------------------------------------------
(* Pages.                                                                  *)

One(b) == IF b THEN 1 ELSE 0
HeldBy(t, p) == pc[t] \in {"read", "copy"} /\ th[t].new = p
TakenBy(t, p) == Reusing(t) /\ th[t].new = p
HolderAt(t) ==
    /\ pc[t] \in {"read", "copy"} => page[th[t].new].ref = 1 /\ page[th[t].new].image = Nil
    /\ Reusing(t) => page[th[t].new].ref = 0 /\ page[th[t].new].alloc

\* Finitely many segments and faults have a page.
LEMMA PageCounts ==
    ASSUME PageAssumption, NEW p
    PROVE  /\ Held(p) \in SUBSET Procs /\ IsFiniteSet(Procs) /\ Cardinality(Held(p)) \in Nat
           /\ Mapped(p) \in SUBSET Segs /\ IsFiniteSet(Segs) /\ Cardinality(Mapped(p)) \in Nat
           /\ Cardinality(Held(p)) = 0 <=> Held(p) = {}
           /\ Cardinality(Mapped(p)) = 0 <=> Mapped(p) = {}
<1>1. Held(p) \in SUBSET Procs /\ IsFiniteSet(Procs) /\ Mapped(p) \in SUBSET Segs /\ IsFiniteSet(Segs)
    BY DEF Held, Mapped, PageAssumption
<1>2. QED  BY <1>1, NoneCounted

\* How a step of one process changes the number of faults that hold a page.
LEMMA HeldStep ==
    ASSUME PageAssumption, NEW t \in Procs, NEW p \in Pages,
           \A u \in Procs : u # t => th'[u] = th[u] /\ pc'[u] = pc[u]
    PROVE  Cardinality(Held(p))' = Cardinality(Held(p)) - One(HeldBy(t, p)) + One(HeldBy(t, p)')
<1> DEFINE A == Held(p)
           B == Held(p)'
<1>1. /\ A \in SUBSET Procs /\ B \in SUBSET Procs /\ IsFiniteSet(Procs)
      /\ t \in A <=> HeldBy(t, p)
      /\ t \in B <=> HeldBy(t, p)'
      /\ \A u \in Procs : u # t => (u \in A <=> u \in B)
    BY DEF Held, HeldBy, PageAssumption
<1> HIDE DEF A, B
<1>2. Cardinality(B) = Cardinality(A) - (IF t \in A THEN 1 ELSE 0) + (IF t \in B THEN 1 ELSE 0)
    BY <1>1, OneChanged
<1>3. Cardinality(B) = Cardinality(A) - One(HeldBy(t, p)) + One(HeldBy(t, p)')
    BY <1>1, <1>2 DEF One
<1>4. QED  BY <1>3 DEF A, B

\* How a change of one segment changes the number of those that have a page.
LEMMA MapStep ==
    ASSUME PageAssumption, NEW s \in Segs, NEW p \in Pages,
           \A x \in Segs : x # s => seg'[x].map = seg[x].map
    PROVE  Cardinality(Mapped(p))' = Cardinality(Mapped(p)) - One(seg[s].map = p) + One(seg'[s].map = p)
<1> DEFINE A == Mapped(p)
           B == Mapped(p)'
<1>1. /\ A \in SUBSET Segs /\ B \in SUBSET Segs /\ IsFiniteSet(Segs)
      /\ s \in A <=> seg[s].map = p
      /\ s \in B <=> seg'[s].map = p
      /\ \A x \in Segs : x # s => (x \in A <=> x \in B)
    BY DEF Mapped, PageAssumption
<1> HIDE DEF A, B
<1>2. Cardinality(B) = Cardinality(A) - (IF s \in A THEN 1 ELSE 0) + (IF s \in B THEN 1 ELSE 0)
    BY <1>1, OneChanged
<1>3. Cardinality(B) = Cardinality(A) - One(seg[s].map = p) + One(seg'[s].map = p)
    BY <1>1, <1>2 DEF One
<1>4. QED  BY <1>3 DEF A, B

\* Segments that keep their pages.
LEMMA MapSame ==
    ASSUME \A x \in Segs : seg'[x].map = seg[x].map, NEW p \in Pages
    PROVE  Mapped(p)' = Mapped(p)
BY DEF Mapped

\* A page that is being filled belongs to the process that fills it.
LEMMA HeldAlone ==
    ASSUME PageAssumption, PInv, NEW u \in Procs, NEW p \in Pages, HeldBy(u, p)
    PROVE  /\ page[p].ref = 1 /\ page[p].image = Nil /\ Mapped(p) = {}
           /\ \A v \in Procs : HeldBy(v, p) => v = u
<1>1. page[p].ref = 1 /\ page[p].image = Nil /\ page[p].ref = Cardinality(Held(p)) + Cardinality(Mapped(p))
    BY DEF PInv, HoldersOK, RefsOK, HeldBy
<1>2. u \in Held(p)
    BY DEF Held, HeldBy
<1>3. Cardinality(Held(p)) >= 1 /\ Cardinality(Held(p)) \in Nat /\ Cardinality(Mapped(p)) \in Nat
    BY <1>2, PageCounts
<1>4. Mapped(p) = {}
    BY <1>1, <1>3, PageCounts
<1>5. ASSUME NEW v \in Procs, HeldBy(v, p), v # u PROVE FALSE
  <2>1. PICK A, B : A = Held(p) /\ B = A \ {u}
      OBVIOUS
  <2>2. A \in SUBSET Procs /\ B \in SUBSET Procs /\ IsFiniteSet(Procs) /\ u \in A /\ u \notin B /\ v \in B
      BY <1>2, <1>5, <2>1, PageCounts, Zenon DEF Held, HeldBy
  <2>3. Cardinality(B) = Cardinality(A) - 1 /\ Cardinality(A) \in Nat
      BY <2>1, <2>2, OneChanged
  <2>4. Cardinality(B) >= 1
      BY <2>2, OneChanged
  <2>5. QED  BY <1>1, <1>3, <2>1, <2>3, <2>4
<1>6. QED  BY <1>1, <1>4, <1>5

\* A page being read, copied to or taken out of the cache is a page.
LEMMA NewPage ==
    ASSUME TypeOK, Control, NEW u \in Procs, pc[u] \in {"read", "copy", "found"} \/ Reusing(u)
    PROVE  th[u].new \in Pages
<1>1. th[u].new \in Pages \union {Nil}
    BY DEF TypeOK, Locals
<1>2. ControlAt(u)
    BY DEF Control
<1>3. Reusing(u) => In(u) /\ ~Dropped(u)
    BY DEF Reusing, In, Dropped
<1>4. th[u].new # Nil
    BY <1>2, <1>3 DEF ControlAt
<1>5. QED  BY <1>1, <1>4

\* A page that is touched by a step of t is nobody else's.
Touched(p) ==
    ~(/\ page'[p].ref = page[p].ref /\ page'[p].alloc = page[p].alloc
      /\ page[p].image = Nil => page'[p].image = Nil)

\* What a step of one process has to do to the pages to keep the invariant.
LEMMA PStep ==
    ASSUME PageAssumption, TypeOK, Control, PInv, NEW t \in Procs,
           \A u \in Procs : u # t => th'[u] = th[u] /\ pc'[u] = pc[u],
           \A p \in Pages : page'[p].ref = page[p].ref - One(HeldBy(t, p)) + One(HeldBy(t, p)')
                                           - Cardinality(Mapped(p)) + Cardinality(Mapped(p))',
           \A p \in Pages : ~page'[p].alloc => page'[p].ref = 0,
           \A p \in Pages : Touched(p) =>
               /\ HeldBy(t, p) \/ Mapped(p) # {} \/ page[p].ref = 0 \/ page[p].image # Nil
               /\ \A u \in Procs : u # t => ~TakenBy(u, p),
           Once',
           \A p \in Pages : Listed(p)' <=> (page'[p].alloc /\ page'[p].ref = 0 /\ ~Taken(p)'),
           HolderAt(t)'
    PROVE  PInv'
<1>1. RefsOK'
  <2>1. ASSUME NEW p \in Pages
        PROVE  page'[p].ref = Cardinality(Held(p))' + Cardinality(Mapped(p))'
    <3>1. page[p].ref = Cardinality(Held(p)) + Cardinality(Mapped(p))
        BY DEF PInv, RefsOK
    <3>2. Cardinality(Held(p))' = Cardinality(Held(p)) - One(HeldBy(t, p)) + One(HeldBy(t, p)')
        BY HeldStep
    <3>3. /\ Cardinality(Held(p)) \in Nat /\ Cardinality(Mapped(p)) \in Nat
          /\ Cardinality(Held(p)') \in Nat /\ Cardinality(Mapped(p)') \in Nat
      <4>1. /\ Held(p)' \in SUBSET Procs /\ IsFiniteSet(Procs)
            /\ Mapped(p)' \in SUBSET Segs /\ IsFiniteSet(Segs)
          BY DEF Held, Mapped, PageAssumption
      <4>2. QED  BY <4>1, PageCounts, NoneCounted
    <3>4. One(HeldBy(t, p)) \in Nat /\ One(HeldBy(t, p)') \in Nat
        BY DEF One
    <3>5. QED  BY <3>1, <3>2, <3>3, <3>4
  <2>2. QED  BY <2>1 DEF RefsOK
<1>2. FreeOK'
    BY DEF FreeOK
<1>3. ASSUME NEW u \in Procs PROVE HolderAt(u)'
  <2>1. CASE u = t
      BY <2>1
  <2>2. CASE u # t
    <3>1. pc'[u] = pc[u] /\ th'[u] = th[u] /\ (Reusing(u)' <=> Reusing(u)) /\ HolderAt(u)
        BY <2>2 DEF Reusing, In, PInv, HoldersOK, HolderAt
    <3>2. ASSUME pc[u] \in {"read", "copy"}, th[u].new \in Pages
          PROVE  page'[th[u].new].ref = 1 /\ page'[th[u].new].image = Nil
      <4>1. PICK p \in Pages : p = th[u].new
          BY <3>2
      <4>2. HeldBy(u, p)
          BY <3>2, <4>1 DEF HeldBy
      <4>3. /\ page[p].ref = 1 /\ page[p].image = Nil /\ Mapped(p) = {} /\ ~HeldBy(t, p)
          BY <2>2, <4>2, HeldAlone
      <4>4. ~Touched(p)
          BY <4>3
      <4>5. QED  BY <4>1, <4>3, <4>4 DEF Touched
    <3>3. ASSUME Reusing(u), th[u].new \in Pages
          PROVE  page'[th[u].new].ref = 0 /\ page'[th[u].new].alloc
      <4>1. TakenBy(u, th[u].new)
          BY <3>3 DEF TakenBy
      <4>2. ~Touched(th[u].new)
          BY <2>2, <3>3, <4>1
      <4>3. QED  BY <3>1, <3>3, <4>2 DEF Touched, HolderAt
    <3>4. pc[u] \in {"read", "copy"} \/ Reusing(u) => th[u].new \in Pages
        BY NewPage
    <3>5. QED  BY <3>1, <3>2, <3>3, <3>4 DEF HolderAt
  <2>3. QED  BY <2>1, <2>2
<1>4. QED  BY <1>1, <1>2, <1>3 DEF PInv, HoldersOK, HolderAt

\* A sequence without its k-th member.
LEMMA RemoveAtIs ==
    ASSUME NEW S, NEW s \in Seq(S), NEW k \in 1 .. Len(s)
    PROVE  /\ RemoveAt(s, k) \in Seq(S)
           /\ Len(RemoveAt(s, k)) = Len(s) - 1
           /\ \A i \in 1 .. Len(s) - 1 :
                 RemoveAt(s, k)[i] = IF i < k THEN s[i] ELSE s[i + 1]
<1> DEFINE a == SubSeq(s, 1, k - 1)
           b == SubSeq(s, k + 1, Len(s))
<1>1. /\ a \in Seq(S) /\ Len(a) = k - 1
      /\ \A i \in 1 .. k - 1 : a[i] = s[i]
    OBVIOUS
<1>2. /\ b \in Seq(S) /\ Len(b) = Len(s) - k
      /\ \A i \in 1 .. Len(s) - k : b[i] = s[i + k]
    OBVIOUS
<1>3. RemoveAt(s, k) = a \o b
    BY DEF RemoveAt
<1> HIDE DEF a, b
<1>4. /\ a \o b \in Seq(S) /\ Len(a \o b) = Len(a) + Len(b)
      /\ \A i \in 1 .. Len(a) + Len(b) :
            (a \o b)[i] = IF i <= Len(a) THEN a[i] ELSE b[i - Len(a)]
    BY <1>1, <1>2, ConcatProperties, ZenonT(40)
<1>5. Len(s) \in Nat /\ Len(a) + Len(b) = Len(s) - 1
    BY <1>1, <1>2
<1>6. ASSUME NEW i \in 1 .. Len(s) - 1
      PROVE  (a \o b)[i] = (IF i < k THEN s[i] ELSE s[i + 1])
  <2>1. CASE i < k
      BY <1>1, <1>4, <1>5, <2>1
  <2>2. CASE ~(i < k)
    <3>1. i - Len(a) \in 1 .. Len(s) - k /\ i - Len(a) + k = i + 1 /\ ~(i <= Len(a))
        BY <1>1, <1>5, <2>2
    <3>2. QED  BY <1>2, <1>4, <1>5, <2>2, <3>1, Zenon
  <2>3. QED  BY <2>1, <2>2, Zenon
<1>7. QED  BY <1>3, <1>4, <1>5, <1>6

\* Taking an element out of a list without duplicates.
LEMMA RemoveList ==
    ASSUME free \in Seq(Pages), Once, NEW k \in 1 .. Len(free),
           free' = RemoveAt(free, k) \/ (k = 1 /\ free' = Tail(free))
    PROVE  Once' /\ \A p \in Pages : Listed(p)' <=> (Listed(p) /\ p # free[k])
<1>1. /\ Len(free') = Len(free) - 1 /\ Len(free) \in Nat
      /\ \A i \in 1 .. Len(free) - 1 : free'[i] = IF i < k THEN free[i] ELSE free[i + 1]
  <2>1. CASE free' = RemoveAt(free, k)
      BY <2>1, RemoveAtIs
  <2>2. CASE k = 1 /\ free' = Tail(free)
    <3>1. free # << >>
        BY <2>2, EmptySeq
    <3>2. Len(free') = Len(free) - 1 /\ \A i \in 1 .. Len(free) - 1 : free'[i] = free[i + 1]
        BY <2>2, <3>1
    <3>3. QED  BY <2>2, <3>2
  <2>3. QED  BY <2>1, <2>2
<1>2. \A i \in 1 .. Len(free) - 1 : \E j \in 1 .. Len(free) : free'[i] = free[j] /\ j # k
  <2>1. ASSUME NEW i \in 1 .. Len(free) - 1
        PROVE  \E j \in 1 .. Len(free) : free'[i] = free[j] /\ j # k
    <3>1. CASE i < k
      <4>1. free'[i] = free[i] /\ i \in 1 .. Len(free) /\ i # k
          BY <1>1, <3>1
      <4>2. QED  BY <4>1
    <3>2. CASE ~(i < k)
      <4>1. free'[i] = free[i + 1] /\ i + 1 \in 1 .. Len(free) /\ i + 1 # k
          BY <1>1, <3>2
      <4>2. QED  BY <4>1
    <3>3. QED  BY <3>1, <3>2
  <2>2. QED  BY <2>1
<1>3. \A j \in 1 .. Len(free) : j # k => \E i \in 1 .. Len(free) - 1 : free'[i] = free[j]
  <2>1. ASSUME NEW j \in 1 .. Len(free), j # k
        PROVE  \E i \in 1 .. Len(free) - 1 : free'[i] = free[j]
    <3>1. CASE j < k
      <4>1. j \in 1 .. Len(free) - 1 /\ free'[j] = free[j]
          BY <1>1, <3>1
      <4>2. QED  BY <4>1
    <3>2. CASE ~(j < k)
      <4>1. j - 1 \in 1 .. Len(free) - 1 /\ ~(j - 1 < k) /\ j - 1 + 1 = j
          BY <1>1, <2>1, <3>2
      <4>2. free'[j - 1] = free[j]
          BY <1>1, <4>1
      <4>3. QED  BY <4>1, <4>2
    <3>3. QED  BY <3>1, <3>2
  <2>2. QED  BY <2>1
<1>4. Once'
  <2>1. ASSUME NEW i \in 1 .. Len(free) - 1, NEW j \in 1 .. Len(free) - 1, free'[i] = free'[j]
        PROVE  i = j
    <3>1. /\ i \in 1 .. Len(free) /\ i + 1 \in 1 .. Len(free)
          /\ j \in 1 .. Len(free) /\ j + 1 \in 1 .. Len(free)
          /\ free'[i] = (IF i < k THEN free[i] ELSE free[i + 1])
          /\ free'[j] = (IF j < k THEN free[j] ELSE free[j + 1])
        BY <1>1
    <3>2. \A a, b \in 1 .. Len(free) : free[a] = free[b] => a = b
        BY DEF Once
    <3>3. CASE i < k /\ j < k
        BY <2>1, <3>1, <3>2, <3>3, Zenon
    <3>4. CASE i < k /\ ~(j < k)
      <4>1. i = j + 1
          BY <2>1, <3>1, <3>2, <3>4, Zenon
      <4>2. QED  BY <3>4, <4>1
    <3>5. CASE ~(i < k) /\ j < k
      <4>1. i + 1 = j
          BY <2>1, <3>1, <3>2, <3>5, Zenon
      <4>2. QED  BY <3>5, <4>1
    <3>6. CASE ~(i < k) /\ ~(j < k)
      <4>1. i + 1 = j + 1
          BY <2>1, <3>1, <3>2, <3>6, Zenon
      <4>2. QED  BY <4>1
    <3>7. QED  BY <3>3, <3>4, <3>5, <3>6
  <2>2. QED  BY <1>1, <2>1 DEF Once
<1>5. ASSUME NEW p \in Pages PROVE Listed(p)' <=> (Listed(p) /\ p # free[k])
  <2>1. ASSUME Listed(p)' PROVE Listed(p) /\ p # free[k]
    <3>1. PICK i \in 1 .. Len(free) - 1 : free'[i] = p
        BY <1>1, <2>1 DEF Listed
    <3>2. PICK j \in 1 .. Len(free) : p = free[j] /\ j # k
        BY <1>2, <3>1, Zenon
    <3>3. QED  BY <3>2 DEF Listed, Once
  <2>2. Listed(p) /\ p # free[k] => Listed(p)'
      BY <1>1, <1>3, Zenon DEF Listed
  <2>3. QED  BY <2>1, <2>2
<1>6. QED  BY <1>4, <1>5

\* Adding a page, which is not there yet, at either end of the list.
LEMMA AppendList ==
    ASSUME free \in Seq(Pages), Once, NEW q \in Pages, ~Listed(q),
           free' = Append(free, q) \/ free' = <<q>> \o free
    PROVE  Once' /\ \A p \in Pages : Listed(p)' <=> (Listed(p) \/ p = q)
<1>1. CASE free' = Append(free, q)
  <2>1. /\ Len(free') = Len(free) + 1 /\ Len(free) \in Nat
        /\ \A i \in 1 .. Len(free) : free'[i] = free[i]
        /\ free'[Len(free) + 1] = q
      BY <1>1, AppendProperties
  <2>2. \A i \in 1 .. Len(free') : i \in 1 .. Len(free) \/ i = Len(free) + 1
      BY <2>1
  <2>3. \A i \in 1 .. Len(free) : i \in 1 .. Len(free') /\ free[i] # q
      BY <2>1 DEF Listed
  <2>4. Once'
      BY <2>1, <2>2, <2>3 DEF Once
  <2>5. Len(free) + 1 \in 1 .. Len(free')
      BY <2>1
  <2>6. \A p \in Pages : Listed(p)' <=> (Listed(p) \/ p = q)
      BY <2>1, <2>2, <2>3, <2>5 DEF Listed
  <2>7. QED  BY <2>4, <2>6
<1>2. CASE free' = <<q>> \o free
  <2>1. /\ Len(free') = Len(free) + 1 /\ Len(free) \in Nat
        /\ \A i \in 1 .. Len(free') : free'[i] = IF i = 1 THEN q ELSE free[i - 1]
      BY <1>2
  <2>2. \A i \in 1 .. Len(free') : i = 1 \/ (i - 1 \in 1 .. Len(free) /\ free'[i] = free[i - 1] /\ i # 1)
      BY <2>1
  <2>3. \A i \in 1 .. Len(free) : i + 1 \in 1 .. Len(free') /\ free'[i + 1] = free[i] /\ free[i] # q
      BY <2>1 DEF Listed
  <2>4. 1 \in 1 .. Len(free') /\ free'[1] = q
      BY <2>1
  <2>5. Once'
    <3>1. ASSUME NEW i \in 1 .. Len(free'), NEW j \in 1 .. Len(free'), free'[i] = free'[j] PROVE i = j
      <4>1. CASE i = 1
          BY <2>2, <2>3, <2>4, <3>1, <4>1
      <4>2. CASE j = 1
          BY <2>2, <2>3, <2>4, <3>1, <4>2
      <4>3. CASE i # 1 /\ j # 1
        <5>1. i - 1 = j - 1
            BY <2>2, <3>1, <4>3 DEF Once
        <5>2. QED  BY <5>1
      <4>4. QED  BY <4>1, <4>2, <4>3
    <3>2. QED  BY <3>1 DEF Once
  <2>6. \A p \in Pages : Listed(p)' <=> (Listed(p) \/ p = q)
    <3>1. ASSUME NEW p \in Pages, NEW i \in 1 .. Len(free'), free'[i] = p PROVE Listed(p) \/ p = q
        BY <2>2, <2>4, <3>1 DEF Listed
    <3>2. ASSUME NEW p \in Pages, NEW i \in 1 .. Len(free), free[i] = p PROVE Listed(p)'
        BY <2>3, <3>2 DEF Listed
    <3>3. Listed(q)'
        BY <2>4 DEF Listed
    <3>4. QED  BY <3>1, <3>2, <3>3 DEF Listed
  <2>7. QED  BY <2>5, <2>6
<1>3. QED  BY <1>1, <1>2

\* putpage() of a page that is used.
LEMMA Put ==
    ASSUME PageAssumption, NEW m \in [Pages -> PageRec], free \in Seq(Pages), NEW q \in Pages,
           Once, ~Listed(q), m[q].ref >= 1, m[q].alloc, putpage(m, free, q)
    PROVE  /\ \A p \in Pages : p # q => page'[p] = m[p]
           /\ page'[q].ref = m[q].ref - 1
           /\ m[q].image = Nil => page'[q].image = Nil
           /\ page'[q].ref # 0 => page'[q].alloc
           /\ Once'
           /\ \A p \in Pages : Listed(p)' <=>
                 (Listed(p) \/ (p = q /\ page'[q].alloc /\ page'[q].ref = 0))
<1>1. m[q] \in PageRec /\ m[q].ref \in Nat
    BY DEF PageRec
<1>2. CASE m[q].ref > 1
  <2>1. page' = [m EXCEPT ![q].ref = @ - 1] /\ free' = free
      BY <1>2 DEF putpage
  <2>2. /\ page'[q] = [m[q] EXCEPT !.ref = @ - 1]
        /\ \A p \in Pages : p # q => page'[p] = m[p]
      BY <2>1
  <2>3. page'[q].ref = m[q].ref - 1 /\ page'[q].image = m[q].image /\ page'[q].alloc = m[q].alloc
      BY <1>1, <2>2, Zenon DEF PageRec
  <2>4. Once' /\ \A p \in Pages : Listed(p)' <=> Listed(p)
      BY <2>1 DEF Once, Listed
  <2>5. QED  BY <1>1, <1>2, <2>2, <2>3, <2>4
<1>3. CASE m[q].ref = 1 /\ page' = [m EXCEPT ![q].ref = 0] /\ (free' = Append(free, q) \/ free' = <<q>> \o free)
  <2>1. /\ page'[q] = [m[q] EXCEPT !.ref = 0]
        /\ \A p \in Pages : p # q => page'[p] = m[p]
      BY <1>3
  <2>2. page'[q].ref = 0 /\ page'[q].image = m[q].image /\ page'[q].alloc = m[q].alloc
      BY <1>1, <2>1, Zenon DEF PageRec
  <2>3. Once' /\ \A p \in Pages : Listed(p)' <=> (Listed(p) \/ p = q)
      BY <1>3, AppendList
  <2>4. QED  BY <1>1, <1>3, <2>1, <2>2, <2>3
<1>4. CASE m[q].ref = 1 /\ page' = [m EXCEPT ![q] = NoPage] /\ free' = free
  <2>1. page'[q] = NoPage /\ \A p \in Pages : p # q => page'[p] = m[p]
      BY <1>4
  <2>2. page'[q].ref = 0 /\ page'[q].image = Nil /\ page'[q].alloc = FALSE
      BY <2>1, Records, Zenon
  <2>3. Once' /\ \A p \in Pages : Listed(p)' <=> Listed(p)
      BY <1>4 DEF Once, Listed
  <2>4. QED  BY <1>1, <1>4, <2>1, <2>2, <2>3
<1>5. m[q].ref > 1 \/ m[q].ref = 1
    BY <1>1
<1>6. QED  BY <1>2, <1>3, <1>4, <1>5 DEF putpage

\* A page is taken out of the cache only by the process that has pga.
LEMMA NoTaken ==
    ASSUME PageAssumption, Control, NEW u \in Procs, pga # u
    PROVE  ~Reusing(u) /\ \A p : ~TakenBy(u, p)
<1>1. ControlAt(u)
    BY DEF Control
<1>2. QED  BY <1>1 DEF ControlAt, TakenBy

\* The counts are natural numbers.
LEMMA Counts ==
    ASSUME PageAssumption, NEW t, NEW p
    PROVE  /\ One(HeldBy(t, p)) \in Nat /\ One(HeldBy(t, p)') \in Nat
           /\ Cardinality(Mapped(p)) \in Nat /\ Cardinality(Mapped(p))' \in Nat
<1>1. Mapped(p)' \in SUBSET Segs /\ IsFiniteSet(Segs)
    BY DEF Mapped, PageAssumption
<1>2. Cardinality(Mapped(p)') \in Nat
    BY <1>1, NoneCounted
<1>3. QED  BY <1>2, PageCounts DEF One

\* Steps that have nothing to do with pages.
LEMMA PQuiet ==
    ASSUME PageAssumption, TypeOK, Control, PInv, NEW t \in Procs,
           \A u \in Procs : u # t => th'[u] = th[u] /\ pc'[u] = pc[u],
           \A x \in Segs : seg'[x].map = seg[x].map,
           \A p \in Pages : ~Touched(p), free' = free,
           \/ pc[t] \notin {"read", "copy"} /\ ~Reusing(t) /\ pc'[t] \notin {"read", "copy"} /\ ~Reusing(t)'
           \/ pc'[t] = pc[t] /\ th'[t].new = th[t].new /\ (Reusing(t)' <=> Reusing(t))
           \/ /\ pc[t] \notin {"read", "copy"} /\ pc'[t] \notin {"read", "copy"}
              /\ Reusing(t) /\ Reusing(t)' /\ th'[t].new = th[t].new
    PROVE  PInv'
<1>1. \A p \in Pages : (HeldBy(t, p)' <=> HeldBy(t, p)) /\ (TakenBy(t, p)' <=> TakenBy(t, p))
    BY DEF HeldBy, TakenBy
<1>2. ASSUME NEW p \in Pages
      PROVE  page'[p].ref = page[p].ref - One(HeldBy(t, p)) + One(HeldBy(t, p)')
                                           - Cardinality(Mapped(p)) + Cardinality(Mapped(p))'
  <2>1. page'[p].ref = page[p].ref /\ Mapped(p)' = Mapped(p) /\ page[p].ref \in Nat
      BY MapSame DEF Touched, TypeOK, PageRec
  <2>2. One(HeldBy(t, p)') = One(HeldBy(t, p))
      BY <1>1 DEF One
  <2>3. QED  BY <2>1, <2>2, Counts
<1>3. \A p \in Pages : ~page'[p].alloc => page'[p].ref = 0
    BY DEF Touched, PInv, RefsOK
<1>4. Once' /\ \A p \in Pages : Listed(p)' <=> Listed(p)
    BY DEF PInv, FreeOK, Once, Listed
<1>5. \A p \in Pages : Taken(p)' <=> Taken(p)
  <2>1. \A u \in Procs : \A p \in Pages : TakenBy(u, p)' <=> TakenBy(u, p)
      BY <1>1 DEF TakenBy, Reusing, In
  <2>2. \A p \in Pages : Taken(p) <=> \E u \in Procs : TakenBy(u, p)
      BY DEF Taken, TakenBy
  <2>3. \A p \in Pages : Taken(p)' <=> \E u \in Procs : TakenBy(u, p)'
      BY DEF Taken, TakenBy
  <2>4. QED  BY <2>1, <2>2, <2>3
<1>6. \A p \in Pages : Listed(p)' <=> (page'[p].alloc /\ page'[p].ref = 0 /\ ~Taken(p)')
    BY <1>4, <1>5 DEF Touched, PInv, FreeOK
<1>7. HolderAt(t)'
  <2>1. HolderAt(t)
      BY DEF PInv, HoldersOK, HolderAt
  <2>2. pc[t] \in {"read", "copy"} \/ Reusing(t) => th[t].new \in Pages
      BY NewPage
  <2>3. QED  BY <2>1, <2>2 DEF HolderAt, Touched
<1>8. QED  BY <1>2, <1>3, <1>4, <1>6, <1>7, PStep

\* Steps that give up one reference, with putpage().
LEMMA PutStep ==
    ASSUME PageAssumption, TypeOK, Control, PInv, NEW t \in Procs,
           \A u \in Procs : u # t => th'[u] = th[u] /\ pc'[u] = pc[u],
           pga = Nil, NEW m \in [Pages -> PageRec], NEW q \in Pages, putpage(m, free, q),
           \A p \in Pages : /\ m[p].ref = page[p].ref /\ m[p].alloc = page[p].alloc
                            /\ m[p].image = page[p].image,
           HeldBy(t, q) \/ Mapped(q) # {},
           \A p \in Pages : One(p = q) + One(HeldBy(t, p)') + Cardinality(Mapped(p))'
                                = One(HeldBy(t, p)) + Cardinality(Mapped(p)),
           pc'[t] \notin {"read", "copy"}, ~Reusing(t)'
    PROVE  PInv'
<1>1. page[q].ref >= 1 /\ page[q].alloc /\ ~Listed(q) /\ free \in Seq(Pages)
  <2>1. page[q].ref = Cardinality(Held(q)) + Cardinality(Mapped(q))
      BY DEF PInv, RefsOK
  <2>2. Held(q) # {} \/ Mapped(q) # {}
      BY DEF HeldBy, Held
  <2>3. page[q].ref >= 1
      BY <2>1, <2>2, PageCounts
  <2>4. QED  BY <2>3 DEF PInv, RefsOK, FreeOK, TypeOK
<1>2. /\ \A p \in Pages : p # q => page'[p] = m[p]
      /\ page'[q].ref = page[q].ref - 1
      /\ page[q].image = Nil => page'[q].image = Nil
      /\ page'[q].ref # 0 => page'[q].alloc
      /\ Once'
      /\ \A p \in Pages : Listed(p)' <=>
            (Listed(p) \/ (p = q /\ page'[q].alloc /\ page'[q].ref = 0))
  <2>1. m[q].ref >= 1 /\ m[q].alloc /\ Once
      BY <1>1 DEF PInv, FreeOK
  <2>2. QED  BY <1>1, <2>1, Put
<1>3. \A p \in Pages : ~Taken(p) /\ ~Taken(p)'
  <2>1. \A u \in Procs : ~Reusing(u)
      BY NoTaken DEF PageAssumption
  <2>2. \A u \in Procs : ~Reusing(u)'
      BY <2>1 DEF Reusing, In
  <2>3. QED  BY <2>1, <2>2 DEF Taken
<1>4. ASSUME NEW p \in Pages
      PROVE  page'[p].ref = page[p].ref - One(HeldBy(t, p)) + One(HeldBy(t, p)')
                                           - Cardinality(Mapped(p)) + Cardinality(Mapped(p))'
  <2>1. page'[p].ref = page[p].ref - One(p = q) /\ page[p].ref \in Nat
      BY <1>2 DEF One, TypeOK, PageRec
  <2>2. PICK o \in Nat, h \in Nat, k \in Nat, c \in Nat, d \in Nat :
            /\ o = One(p = q) /\ h = One(HeldBy(t, p)) /\ k = One(HeldBy(t, p)')
            /\ c = Cardinality(Mapped(p)) /\ d = Cardinality(Mapped(p))'
      BY Counts, Zenon DEF One
  <2>3. o + k + d = h + c
      BY <2>2
  <2>4. page[p].ref - o = page[p].ref - h + k - c + d
      BY <2>1, <2>3
  <2>5. QED  BY <2>1, <2>2, <2>4
<1>5. \A p \in Pages : ~page'[p].alloc => page'[p].ref = 0
    BY <1>2 DEF PInv, RefsOK
<1>6. ASSUME NEW p \in Pages
      PROVE  Listed(p)' <=> (page'[p].alloc /\ page'[p].ref = 0 /\ ~Taken(p)')
  <2>1. Listed(p) <=> (page[p].alloc /\ page[p].ref = 0)
      BY <1>3 DEF PInv, FreeOK
  <2>2. CASE p = q
      BY <1>1, <1>2, <1>3, <2>2, Zenon
  <2>3. CASE p # q
    <3>1. page'[p].alloc = page[p].alloc /\ page'[p].ref = page[p].ref
        BY <1>2, <2>3
    <3>2. Listed(p)' <=> Listed(p)
        BY <1>2, <2>3
    <3>3. QED  BY <1>3, <2>1, <3>1, <3>2
  <2>4. QED  BY <2>2, <2>3
<1>7. \A p \in Pages : Touched(p) =>
               /\ HeldBy(t, p) \/ Mapped(p) # {} \/ page[p].ref = 0 \/ page[p].image # Nil
               /\ \A u \in Procs : u # t => ~TakenBy(u, p)
    BY <1>2, <1>3 DEF Touched, Taken, TakenBy
<1>8. HolderAt(t)'
    BY DEF HolderAt
<1>9. QED  BY <1>2, <1>4, <1>5, <1>6, <1>7, <1>8, PStep, Zenon

----------------------------------------------------------------------------
(* The steps.                                                              *)

\* The images keep their text segments.
SameTexts == \A i \in Images : image'[i].s = image[i].s

\* Images that keep their texts.
LEMMA TextsKept ==
    ASSUME TypeOK, NEW i, NEW r,
           \/ image' = image \/ image' = [image EXCEPT ![i].ref = r]
           \/ image' = [image EXCEPT ![i].qid = r] \/ image' = [image EXCEPT ![i].c = r]
           \/ image' = [image EXCEPT ![i].c = r, ![i].qid = r]
    PROVE  SameTexts
<1>1. ASSUME NEW j \in Images PROVE image'[j].s = image[j].s
  <2>1. image[j] \in ImageRec
      BY DEF TypeOK
  <2>2. \/ image'[j] = image[j]
        \/ image'[j] = [image[j] EXCEPT !.ref = r]
        \/ image'[j] = [image[j] EXCEPT !.qid = r]
        \/ image'[j] = [image[j] EXCEPT !.c = r]
        \/ image'[j] = [image[j] EXCEPT !.c = r, !.qid = r]
      BY Zenon DEF TypeOK
  <2>3. QED  BY <2>1, <2>2, Zenon DEF ImageRec
<1>2. QED  BY <1>1 DEF SameTexts

\* Steps that change neither segments nor pages.
LEMMA IdleStep ==
    ASSUME PageAssumption, IInv, TypeOK', Control', NEW t \in Procs,
           \A u \in Procs : u # t => th'[u] = th[u] /\ pc'[u] = pc[u],
           UNCHANGED <<free, seg, own>>, \A p \in Pages : ~Touched(p), SameTexts,
           Keeps(t), LockAt(t)',
           \/ pc[t] \notin {"read", "copy"} /\ ~Reusing(t) /\ pc'[t] \notin {"read", "copy"} /\ ~Reusing(t)'
           \/ pc'[t] = pc[t] /\ th'[t].new = th[t].new /\ (Reusing(t)' <=> Reusing(t))
           \/ /\ pc[t] \notin {"read", "copy"} /\ pc'[t] \notin {"read", "copy"}
              /\ Reusing(t) /\ Reusing(t)' /\ th'[t].new = th[t].new
    PROVE  IInv'
<1>1. \A u \in Procs : Keeps(u)
    BY DEF Keeps
<1>2. SInv'
    BY <1>1, SegsQuiet DEF IInv, SameTexts
<1>3. Locks'
    BY LocksStep DEF IInv
<1>4. PInv'
    BY PQuiet DEF IInv
<1>5. QED  BY <1>2, <1>3, <1>4 DEF IInv

\* Pages that do not change.
LEMMA UntouchedPages ==
    ASSUME page' = page
    PROVE  \A p \in Pages : ~Touched(p)
BY DEF Touched

\* putimage() clears the image's qid.
LEMMA UnnameInv ==
    ASSUME PageAssumption, IInv, NEW t \in Procs, PutimageUnname(t)
    PROVE  IInv'
<1>1. /\ pc[t] = "unname" /\ pc' = [pc EXCEPT ![t] = "unhash"]
      /\ image' = [image EXCEPT ![th[t].img].qid = Nil]
      /\ UNCHANGED <<page, free, hash, pga, seg, pager, own, tlb, th>>
    BY DEF PutimageUnname, At, memory
<1>2. TypeOK' /\ Control'
    BY UnnameControl DEF IInv
<1>3. pc'[t] = "unhash" /\ \A u \in Procs : u # t => th'[u] = th[u] /\ pc'[u] = pc[u]
    BY <1>1 DEF IInv, TypeOK
<1>4. (Reusing(t)' <=> Reusing(t)) /\ (Locking(t)' <=> Locking(t)) /\ Keeps(t)
    BY <1>1, <1>3 DEF Reusing, In, Locking, Keeps
<1>5. LockAt(t)'
    BY <1>1, <1>3, <1>4 DEF IInv, Locks, LockAt
<1>6. SameTexts
    BY <1>1, TextsKept, Zenon DEF IInv
<1>7. QED  BY <1>1, <1>2, <1>3, <1>4, <1>5, <1>6, UntouchedPages, IdleStep

\* attachimage() finds an image or takes an unused one.
LEMMA ExecInv ==
    ASSUME PageAssumption, IInv, NEW t \in Procs, Exec(t)
    PROVE  IInv'
<1>1. /\ pc[t] = "idle" /\ pc' = [pc EXCEPT ![t] = "attach"]
      /\ UNCHANGED <<page, free, hash, pga, seg, pager, own, tlb>>
      /\ \E f, i : /\ image' = image \/ image' = [image EXCEPT ![i].c = f, ![i].qid = f]
                   /\ th' = [th EXCEPT ![t].img = i, ![t].file = f]
    BY Zenon DEF Exec, At, memory
<1>2. TypeOK' /\ Control'
    BY ExecControl DEF IInv
<1>3. PICK f, i : /\ image' = image \/ image' = [image EXCEPT ![i].c = f, ![i].qid = f]
                  /\ th' = [th EXCEPT ![t].img = i, ![t].file = f]
    BY <1>1, Zenon
<1>4. /\ pc'[t] = "attach" /\ th'[t].todo = th[t].todo
      /\ \A u \in Procs : u # t => th'[u] = th[u] /\ pc'[u] = pc[u]
  <2>1. th[t] \in Locals /\ th'[t] = [th[t] EXCEPT !.img = i, !.file = f]
      BY <1>3 DEF IInv, TypeOK
  <2>2. th'[t].todo = th[t].todo
      BY <2>1 DEF Locals
  <2>3. QED  BY <1>1, <1>3, <2>2 DEF IInv, TypeOK
<1>5. ~Reusing(t) /\ ~Reusing(t)' /\ LockAt(t)' /\ Keeps(t)
    BY <1>1, <1>4 DEF Reusing, In, LockAt, Locking, Keeps
<1>6. SameTexts
    BY <1>3, TextsKept DEF IInv
<1>7. QED  BY <1>1, <1>2, <1>4, <1>5, <1>6, UntouchedPages, IdleStep, Zenon

\* imagereclaim() calls pagereclaim().
LEMMA ImagereclaimInv ==
    ASSUME PageAssumption, IInv, NEW t \in Procs, Imagereclaim(t)
    PROVE  IInv'
<1>1. /\ pc[t] = "idle" /\ pc' = [pc EXCEPT ![t] = "reclaim"]
      /\ UNCHANGED <<page, free, hash, image, seg, pager, own, tlb, th>>
    BY DEF Imagereclaim, At, memory
<1>2. TypeOK' /\ Control'
    BY ImagereclaimControl DEF IInv
<1>3. pc'[t] = "reclaim" /\ \A u \in Procs : u # t => th'[u] = th[u] /\ pc'[u] = pc[u]
    BY <1>1 DEF IInv, TypeOK
<1>4. ~Reusing(t) /\ ~Reusing(t)' /\ LockAt(t)' /\ Keeps(t)
    BY <1>1, <1>3 DEF Reusing, In, LockAt, Locking, Keeps
<1>5. SameTexts
    BY <1>1 DEF SameTexts
<1>6. QED  BY <1>1, <1>2, <1>3, <1>4, <1>5, UntouchedPages, IdleStep

\* pagereclaim() takes a page out of the cache, which stays on the list.
LEMMA PagereclaimInv ==
    ASSUME PageAssumption, IInv, NEW t \in Procs, Pagereclaim(t)
    PROVE  IInv'
<1>1. pc[t] = "reclaim" /\ UNCHANGED <<page, free, image, seg, pager, own, tlb>>
    BY DEF Pagereclaim, At
<1>2. TypeOK' /\ Control'
    BY PagereclaimControl DEF IInv
<1>3. /\ pc'[t] \in {"idle", "putimage"} /\ th'[t].todo = th[t].todo /\ ~Reusing(t)'
      /\ \A u \in Procs : u # t => th'[u] = th[u] /\ pc'[u] = pc[u]
  <2>1. CASE pc' = [pc EXCEPT ![t] = "idle"] /\ th' = th
      BY <2>1 DEF IInv, TypeOK, Reusing, In
  <2>2. ASSUME NEW p, Uncache(t, p, "reclaim")
        PROVE  /\ pc'[t] = "putimage" /\ th'[t].todo = th[t].todo /\ ~Reusing(t)'
               /\ \A u \in Procs : u # t => th'[u] = th[u] /\ pc'[u] = pc[u]
    <3>1. th[t] \in Locals /\ th'[t] = [th[t] EXCEPT !.new = p, !.img = page[p].image, !.then = "reclaim"]
        BY <2>2 DEF IInv, TypeOK, Uncache
    <3>2. th'[t].todo = th[t].todo /\ th'[t].then = "reclaim"
        BY <3>1 DEF Locals
    <3>3. QED  BY <2>2, <3>2 DEF IInv, TypeOK, Uncache, Reusing
  <2>3. QED  BY <2>1, <2>2 DEF Pagereclaim
<1>4. ~Reusing(t) /\ LockAt(t)' /\ Keeps(t)
    BY <1>1, <1>3 DEF Reusing, In, LockAt, Locking, Keeps
<1>5. SameTexts
    BY <1>1 DEF SameTexts
<1>6. QED  BY <1>1, <1>2, <1>3, <1>4, <1>5, UntouchedPages, IdleStep

\* The end of uncachepage() in newpage(): the page is the caller's.
LEMMA ReturnInv ==
    ASSUME PageAssumption, IInv, NEW t \in Procs, In(t), PutimageReturn(t),
           image' \in [Images -> ImageRec], SameTexts,
           UNCHANGED <<free, hash, seg, pager, own, tlb>>
    PROVE  IInv'
<1>1. /\ TypeOK' /\ Control'
      /\ \A u \in Procs : u # t => pc'[u] = pc[u] /\ th'[u] = th[u]
      /\ th'[t].todo = th[t].todo /\ th'[t].s = th[t].s /\ th'[t].src = th[t].src
      /\ th[t].then = "putseg" => page' = page /\ pc'[t] = "freepte"
      /\ th[t].then = "newpage" => /\ page' = [page EXCEPT ![th[t].new] = Fresh]
                                   /\ pc'[t] = Use(t) /\ th'[t].new = th[t].new
      /\ th[t].then = "reclaim" =>
            /\ page' = [page EXCEPT ![th[t].new] = [@ EXCEPT !.image = Nil, !.daddr = Nil]]
            /\ pc'[t] = "reclaim"
    BY ReturnControl, Zenon DEF IInv
<1>2. ControlAt(t) /\ th[t].then \in {"putseg", "newpage", "reclaim"}
    BY DEF IInv, Control, ControlAt
<1>3. CASE th[t].then = "putseg"
  <2>1. /\ ~Reusing(t) /\ ~Reusing(t)' /\ LockAt(t)' /\ Keeps(t)
        /\ pc[t] \notin {"read", "copy"} /\ pc'[t] \notin {"read", "copy"}
      BY <1>1, <1>3 DEF Reusing, In, LockAt, Locking, Keeps
  <2>2. QED  BY <1>1, <1>3, <2>1, UntouchedPages, IdleStep
<1>4. CASE th[t].then = "reclaim"
  <2>1. /\ ~Reusing(t) /\ ~Reusing(t)' /\ LockAt(t)' /\ Keeps(t)
        /\ pc[t] \notin {"read", "copy"} /\ pc'[t] \notin {"read", "copy"}
      BY <1>1, <1>4 DEF Reusing, In, LockAt, Locking, Keeps
  <2>2. ASSUME NEW p \in Pages PROVE ~Touched(p)
    <3>1. page[p] \in PageRec
        BY DEF IInv, TypeOK
    <3>2. page'[p] = page[p] \/ page'[p] = [page[p] EXCEPT !.image = Nil, !.daddr = Nil]
      <4>1. page' = [page EXCEPT ![th[t].new] = [page[th[t].new] EXCEPT !.image = Nil, !.daddr = Nil]]
          BY <1>1, <1>4
      <4>2. page \in [Pages -> PageRec]
          BY DEF IInv, TypeOK
      <4>3. QED  BY <4>1, <4>2, Zenon
    <3>3. QED  BY <3>1, <3>2, Zenon DEF PageRec, Touched
  <2>3. QED  BY <1>1, <2>1, <2>2, IdleStep
<1>5. CASE th[t].then = "newpage"
  <2>1. Reusing(t) /\ pga = t /\ Use(t) \in {"read", "copy"} /\ (Use(t) = "copy" => th[t].src = Nil)
      BY <1>2, <1>5 DEF Reusing, ControlAt, Use
  <2>2. PICK q \in Pages : q = th[t].new
      BY <2>1, NewPage DEF IInv
  <2>3. /\ page[q].ref = 0 /\ page[q].alloc /\ page'[q] = Fresh
        /\ \A p \in Pages : p # q => page'[p] = page[p]
    <3>1. page[q].ref = 0 /\ page[q].alloc
        BY <2>1, <2>2 DEF IInv, PInv, HoldersOK
    <3>2. QED  BY <1>1, <1>5, <2>2, <3>1 DEF IInv, TypeOK
  <2>4. page'[q].ref = 1 /\ page'[q].alloc /\ page'[q].image = Nil
      BY <2>3, Records, Zenon
  <2>5. /\ ~Reusing(t)' /\ pc[t] \notin {"read", "copy"}
        /\ \A p \in Pages : ~HeldBy(t, p) /\ (HeldBy(t, p)' <=> p = q)
      BY <1>1, <1>5, <2>1, <2>2 DEF Reusing, In, HeldBy
  <2>6. \A u \in Procs : u # t => ~Reusing(u)
      BY <2>1, NoTaken DEF IInv
  <2>7. \A p \in Pages : (Taken(p) <=> p = q) /\ ~Taken(p)'
    <3>1. \A u \in Procs : ~Reusing(u)'
        BY <1>1, <2>5, <2>6 DEF Reusing, In
    <3>2. QED  BY <2>1, <2>2, <2>6, <3>1 DEF Taken
  <2>8. SInv'
    <3>1. \A u \in Procs : Keeps(u)
        BY <1>1, <1>5, <2>1 DEF Keeps, In
    <3>2. QED  BY <1>1, <3>1, SegsQuiet DEF IInv, SameTexts
  <2>9. Locks'
    <3>1. LockAt(t)'
      <4>1. LockAt(t) /\ pc[t] # "found" /\ pc'[t] # "found"
          BY <1>1, <1>5, <2>1 DEF IInv, Locks, In
      <4>2. Locking(t)' => Locking(t)
          BY <1>1, <1>5, <2>1, <2>5 DEF Locking
      <4>3. QED  BY <1>1, <4>1, <4>2 DEF LockAt
    <3>2. QED  BY <1>1, <3>1, LocksStep DEF IInv
  <2>10. PInv'
    <3>1. ASSUME NEW p \in Pages
          PROVE  page'[p].ref = page[p].ref - One(HeldBy(t, p)) + One(HeldBy(t, p)')
                                              - Cardinality(Mapped(p)) + Cardinality(Mapped(p))'
      <4>1. One(HeldBy(t, p)) = 0 /\ One(HeldBy(t, p)') = (IF p = q THEN 1 ELSE 0)
          BY <2>5 DEF One
      <4>2. Cardinality(Mapped(p))' = Cardinality(Mapped(p)) /\ Cardinality(Mapped(p)) \in Nat
          BY MapSame, Counts
      <4>3. page[p].ref \in Nat /\ page'[p].ref = page[p].ref + (IF p = q THEN 1 ELSE 0)
          BY <2>3, <2>4 DEF IInv, TypeOK, PageRec
      <4>4. QED  BY <4>1, <4>2, <4>3
    <3>2. \A p \in Pages : ~page'[p].alloc => page'[p].ref = 0
        BY <2>3, <2>4 DEF IInv, PInv, RefsOK
    <3>3. \A p \in Pages : Touched(p) =>
               /\ HeldBy(t, p) \/ Mapped(p) # {} \/ page[p].ref = 0 \/ page[p].image # Nil
               /\ \A u \in Procs : u # t => ~TakenBy(u, p)
        BY <2>3, <2>6 DEF Touched, TakenBy
    <3>4. Once' /\ \A p \in Pages : Listed(p)' <=> Listed(p)
        BY DEF IInv, PInv, FreeOK, Once, Listed
    <3>5. \A p \in Pages : Listed(p)' <=> (page'[p].alloc /\ page'[p].ref = 0 /\ ~Taken(p)')
        BY <2>3, <2>4, <2>7, <3>4 DEF IInv, PInv, FreeOK
    <3>6. HolderAt(t)'
        BY <1>1, <1>5, <2>2, <2>4, <2>5 DEF HolderAt
    <3>7. QED  BY <1>1, <3>1, <3>2, <3>3, <3>4, <3>5, <3>6, PStep DEF IInv
  <2>11. QED  BY <1>1, <2>8, <2>9, <2>10 DEF IInv
<1>6. QED  BY <1>2, <1>3, <1>4, <1>5

\* putimage() drops its reference.
LEMMA PutimageInv ==
    ASSUME PageAssumption, IInv, NEW t \in Procs, Putimage(t)
    PROVE  IInv'
<1>1. /\ pc[t] = "putimage" /\ image' = [image EXCEPT ![th[t].img].ref = @ - 1]
      /\ UNCHANGED <<free, hash, seg, pager, own, tlb>>
      /\ \/ pc' = [pc EXCEPT ![t] = "unname"] /\ UNCHANGED <<page, pga, th>>
         \/ PutimageReturn(t)
    BY DEF Putimage, At
<1>2. TypeOK' /\ Control'
    BY PutimageControl DEF IInv
<1>3. SameTexts
    BY <1>1, TextsKept, Zenon DEF IInv
<1>4. CASE pc' = [pc EXCEPT ![t] = "unname"] /\ UNCHANGED <<page, pga, th>>
  <2>1. pc'[t] = "unname" /\ \A u \in Procs : u # t => th'[u] = th[u] /\ pc'[u] = pc[u]
      BY <1>4 DEF IInv, TypeOK
  <2>2. (Reusing(t)' <=> Reusing(t)) /\ (Locking(t)' <=> Locking(t)) /\ Keeps(t)
      BY <1>1, <1>4, <2>1 DEF Reusing, In, Locking, Keeps
  <2>3. LockAt(t)'
      BY <1>1, <1>4, <2>1, <2>2 DEF IInv, Locks, LockAt
  <2>4. QED  BY <1>1, <1>2, <1>3, <1>4, <2>1, <2>2, <2>3, UntouchedPages, IdleStep
<1>5. CASE PutimageReturn(t)
  <2>1. In(t) /\ image' \in [Images -> ImageRec]
      BY <1>1, <1>2 DEF In, TypeOK
  <2>2. QED  BY <1>1, <1>3, <1>5, <2>1, ReturnInv
<1>6. QED  BY <1>1, <1>4, <1>5

\* putimage() clears the image's channel.
LEMMA UnhashInv ==
    ASSUME PageAssumption, IInv, NEW t \in Procs, PutimageUnhash(t)
    PROVE  IInv'
<1>1. /\ pc[t] = "unhash" /\ image' = [image EXCEPT ![th[t].img].c = Nil]
      /\ PutimageReturn(t) /\ UNCHANGED <<free, hash, seg, pager, own, tlb>>
    BY DEF PutimageUnhash, At
<1>2. In(t) /\ image' \in [Images -> ImageRec]
    BY <1>1, UnhashControl, Zenon DEF In, TypeOK, IInv
<1>3. SameTexts
    BY <1>1, TextsKept, Zenon DEF IInv
<1>4. QED  BY <1>1, <1>2, <1>3, ReturnInv

\* newpage() releases the segment.
LEMMA KickInv ==
    ASSUME PageAssumption, IInv, NEW t \in Procs, NewpageKick(t)
    PROVE  IInv'
<1>1. /\ pc[t] = "newpage" /\ pc' = [pc EXCEPT ![t] = "kick"]
      /\ seg' = IF th[t].src = Nil THEN [seg EXCEPT ![th[t].s].lk = Nil] ELSE seg
      /\ UNCHANGED <<page, free, image, own, th>>
    BY DEF NewpageKick, At, memory
<1>2. TypeOK' /\ Control'
    BY KickControl DEF IInv
<1>3. pc'[t] = "kick" /\ \A u \in Procs : u # t => th'[u] = th[u] /\ pc'[u] = pc[u]
    BY <1>1 DEF IInv, TypeOK
<1>4. ~Reusing(t) /\ ~Reusing(t)' /\ LockAt(t)' /\ \A u \in Procs : Keeps(u)
    BY <1>1, <1>3 DEF Reusing, In, LockAt, Locking, Keeps
<1>5. th[t].s \in Segs /\ seg[th[t].s].type # Nil /\ (th[t].src = Nil => seg[th[t].s].lk = t)
  <2>1. th[t].s # Nil /\ th[t].s \in {own[t]["text"], own[t]["data"]}
      BY <1>1 DEF IInv, Control, ControlAt, Faulting
  <2>2. th[t].s \in Segs /\ seg[th[t].s].type # Nil
      BY <2>1, OwnSeg DEF IInv, SInv
  <2>3. th[t].src = Nil => seg[th[t].s].lk = t
      BY <1>1 DEF IInv, Locks, LockAt, Locking
  <2>4. QED  BY <2>2, <2>3
<1>6. \A x \in Segs : /\ seg'[x].map = seg[x].map /\ seg'[x].ref = seg[x].ref
                      /\ seg'[x].type = seg[x].type /\ seg'[x].image = seg[x].image
                      /\ seg'[x] = seg[x] \/ (x = th[t].s /\ th[t].src = Nil)
  <2>1. ASSUME NEW x \in Segs
        PROVE  /\ seg'[x].map = seg[x].map /\ seg'[x].ref = seg[x].ref
               /\ seg'[x].type = seg[x].type /\ seg'[x].image = seg[x].image
               /\ seg'[x] = seg[x] \/ (x = th[t].s /\ th[t].src = Nil)
    <3>1. seg[x] \in SegRec
        BY DEF IInv, TypeOK
    <3>2. CASE x = th[t].s /\ th[t].src = Nil
      <4>1. seg'[x] = [seg[x] EXCEPT !.lk = Nil]
          BY <1>1, <3>2 DEF IInv, TypeOK
      <4>2. QED  BY <3>1, <3>2, <4>1, LkFields
    <3>3. CASE ~(x = th[t].s /\ th[t].src = Nil)
      <4>1. seg'[x] = seg[x]
          BY <1>1, <3>3 DEF IInv, TypeOK
      <4>2. QED  BY <4>1
    <3>4. QED  BY <3>2, <3>3
  <2>2. QED  BY <2>1
<1>7. SInv'
    BY <1>1, <1>2, <1>4, <1>5, <1>6, SegsQuiet DEF IInv
<1>8. Locks'
    BY <1>3, <1>4, <1>5, <1>6, LocksStep DEF IInv
<1>9. PInv'
    BY <1>1, <1>3, <1>4, <1>6, UntouchedPages, PQuiet DEF IInv
<1>10. QED  BY <1>2, <1>7, <1>8, <1>9 DEF IInv

\* pexit() and sysexec() begin to put the segments.
LEMMA ReleaseInv ==
    ASSUME PageAssumption, IInv, NEW t \in Procs, Release(t)
    PROVE  IInv'
<1>1. /\ pc[t] = "idle" /\ pc' = [pc EXCEPT ![t] = "putseg"]
      /\ th' = [th EXCEPT ![t].todo = <<own[t]["text"], own[t]["data"]>>]
      /\ UNCHANGED <<page, free, seg>>
    BY DEF Release, At, memory
<1>2. TypeOK' /\ Control' /\ SInv'
    BY ReleaseControl, ReleaseSegs DEF IInv
<1>3. pc'[t] = "putseg" /\ \A u \in Procs : u # t => th'[u] = th[u] /\ pc'[u] = pc[u]
    BY <1>1 DEF IInv, TypeOK
<1>4. ~Reusing(t) /\ ~Reusing(t)' /\ LockAt(t)'
    BY <1>1, <1>3 DEF Reusing, In, LockAt, Locking
<1>5. Locks'
    BY <1>1, <1>3, <1>4, LocksStep DEF IInv
<1>6. PInv'
    BY <1>1, <1>3, <1>4, UntouchedPages, PQuiet DEF IInv
<1>7. QED  BY <1>2, <1>5, <1>6 DEF IInv

\* attachimage() and sysexec() make the segments.
LEMMA AttachInv ==
    ASSUME PageAssumption, IInv, NEW t \in Procs, Attach(t)
    PROVE  IInv'
<1>1. /\ TypeOK' /\ Control' /\ SInv' /\ pc[t] = "attach" /\ Moves(t, NoLocals, "idle")
      /\ UNCHANGED <<page, free, hash, pga, pager, tlb>>
    BY AttachControl, AttachSegs DEF IInv
<1>2. pc'[t] = "idle" /\ \A u \in Procs : u # t => th'[u] = th[u] /\ pc'[u] = pc[u]
    BY <1>1 DEF Moves
<1>3. ~Reusing(t) /\ ~Reusing(t)' /\ LockAt(t)'
    BY <1>1, <1>2 DEF Reusing, In, LockAt, Locking
<1>4. PICK s \in Segs, d \in Segs : Attached(t, th[t].img, s, d)
    BY AttachEffect DEF IInv
<1>5. \A x \in Segs : seg'[x].lk = seg[x].lk /\ seg'[x].map = seg[x].map
  <2>1. \A x \in Segs : seg[x].type = Nil => seg[x].lk = Nil /\ seg[x].map = Nil
      BY DEF IInv, SInv, SegTypes, NoSeg
  <2>2. seg'[d].lk = seg[d].lk /\ seg'[d].map = seg[d].map
      BY <1>4, <2>1 DEF Attached
  <2>3. seg'[s].lk = seg[s].lk /\ seg'[s].map = seg[s].map
    <3>1. CASE image[th[t].img].s = Nil
        BY <1>4, <2>1, <3>1 DEF Attached
    <3>2. CASE image[th[t].img].s # Nil
      <4>1. seg'[s] = [seg[s] EXCEPT !.ref = @ + 1] /\ seg[s] \in SegRec
          BY <1>4, <3>2 DEF Attached, IInv, TypeOK
      <4>2. QED  BY <4>1 DEF SegRec
    <3>3. QED  BY <3>1, <3>2
  <2>4. \A x \in Segs : x # s /\ x # d => seg'[x] = seg[x]
      BY <1>4 DEF Attached
  <2>5. QED  BY <2>2, <2>3, <2>4
<1>6. Locks'
    BY <1>2, <1>3, <1>5, LocksStep DEF IInv
<1>7. PInv'
    BY <1>1, <1>2, <1>3, <1>5, UntouchedPages, PQuiet DEF IInv
<1>8. QED  BY <1>1, <1>6, <1>7 DEF IInv

\* putseg() touches no page.
LEMMA PutsegInv ==
    ASSUME PageAssumption, IInv, NEW t \in Procs, Putseg(t)
    PROVE  IInv'
<1>1. PICK s \in Segs : s = Head(th[t].todo)
  <2>1. Head(th[t].todo) \in Segs
      BY PutsegControl, Zenon DEF IInv
  <2>2. QED  BY <2>1
<1>2. /\ TypeOK' /\ Control' /\ pc[t] = "putseg"
      /\ seg'[s] = [seg[s] EXCEPT !.ref = @ - 1] /\ \A x \in Segs : x # s => seg'[x] = seg[x]
      /\ \A u \in Procs : u # t => th'[u] = th[u] /\ pc'[u] = pc[u]
      /\ seg[s].ref = 1 =>
            pc'[t] = "putimage" /\ th'[t] = [th[t] EXCEPT !.img = seg[s].image, !.then = "putseg"]
      /\ seg[s].ref # 1 => pc'[t] = Putting(Tail(th[t].todo))
      /\ UNCHANGED <<page, free>>
    BY <1>1, PutsegControl, Zenon DEF IInv
<1>3. SInv'
    BY PutsegSegs DEF IInv
<1>4. /\ pc'[t] \in {"putimage", "idle", "putseg"}
      /\ pc'[t] = "putimage" => th'[t].then = "putseg"
  <2>1. CASE seg[s].ref = 1
    <3>1. th[t] \in Locals /\ th'[t] = [th[t] EXCEPT !.img = seg[s].image, !.then = "putseg"]
        BY <1>2, <2>1 DEF IInv, TypeOK
    <3>2. th'[t].then = "putseg"
        BY <3>1 DEF Locals
    <3>3. QED  BY <1>2, <2>1, <3>2
  <2>2. CASE seg[s].ref # 1
      BY <1>2, <2>2 DEF Putting
  <2>3. QED  BY <2>1, <2>2
<1>5. ~Reusing(t) /\ ~Reusing(t)' /\ LockAt(t)'
    BY <1>2, <1>4 DEF Reusing, In, LockAt, Locking
<1>6. \A x \in Segs : seg'[x].lk = seg[x].lk /\ seg'[x].map = seg[x].map
  <2>1. seg[s] \in SegRec
      BY DEF IInv, TypeOK
  <2>2. seg'[s].lk = seg[s].lk /\ seg'[s].map = seg[s].map
      BY <1>2, <2>1 DEF SegRec
  <2>3. QED  BY <1>2, <2>2, Zenon
<1>7. Locks'
    BY <1>2, <1>5, <1>6, LocksStep DEF IInv
<1>8. PInv'
    BY <1>2, <1>4, <1>5, <1>6, UntouchedPages, PQuiet DEF IInv
<1>9. QED  BY <1>2, <1>3, <1>7, <1>8 DEF IInv

\* What fixfault() leaves alone.
LEMMA FixedRest ==
    ASSUME PageAssumption, IInv, Control', NEW t \in Procs, NEW s, NEW p,
           Fixed(t, s, p), LockAt(t)', own' = own, SameTexts,
           pc[t] \in {"idle", "fault", "found", "read", "copy"},
           s \in {own[t]["text"], own[t]["data"]}, seg[s].lk \in {Nil, t}
    PROVE  SInv' /\ Locks' /\ \A x \in Segs : x # s => seg'[x].map = seg[x].map
<1>1. s \in Segs /\ seg[s].type # Nil /\ \A x \in Segs : x # s => seg'[x] = seg[x]
  <2>1. s \in Segs /\ s # Nil /\ \A x \in Segs : x # s => seg'[x] = seg[x]
      BY DEF Fixed, PageAssumption
  <2>2. QED  BY <2>1, OwnSeg DEF IInv, SInv
<1>2. th[t].todo = << >>
    BY DEF IInv, Control, ControlAt, Dropped, In
<1>3. \A u \in Procs : Keeps(u)
    BY <1>2 DEF Keeps, Fixed
<1>4. SInv'
    BY <1>1, <1>3, SegsQuiet DEF IInv, SameTexts, Fixed
<1>5. Locks'
    BY <1>1, LocksStep DEF IInv, Fixed
<1>6. QED  BY <1>1, <1>4, <1>5

\* fault() and fixfault() lock the segment and touch no page.
LEMMA FaultInv ==
    ASSUME PageAssumption, IInv, NEW t \in Procs, Fault(t)
    PROVE  IInv'
<1>1. /\ TypeOK' /\ Control' /\ LockAt(t)' /\ pc[t] \in {"idle", "fault"}
      /\ UNCHANGED <<page, free, hash, pga, image, pager, own, tlb>>
    BY FaultControl DEF IInv, SInv
<1>2. PICK s \in {own[t]["text"], own[t]["data"]} : Fixed(t, s, seg[s].map) /\ seg[s].lk = Nil
    BY FaultControl DEF IInv, SInv
<1>3. SInv' /\ Locks' /\ \A x \in Segs : x # s => seg'[x].map = seg[x].map
    BY <1>1, <1>2, FixedRest DEF SameTexts
<1>4. ~Reusing(t) /\ ~Reusing(t)' /\ pc'[t] \notin {"read", "copy"}
    BY <1>1, <1>2 DEF Reusing, In, Fixed
<1>5. \A x \in Segs : seg'[x].map = seg[x].map
    BY <1>2, <1>3 DEF Fixed
<1>6. PInv'
    BY <1>1, <1>2, <1>4, <1>5, UntouchedPages, PQuiet DEF IInv, Fixed
<1>7. QED  BY <1>1, <1>3, <1>6 DEF IInv

\* mmuput() touches neither segments nor pages.
LEMMA MmuputInv ==
    ASSUME PageAssumption, IInv, NEW t \in Procs, Mmuput(t)
    PROVE  IInv'
<1>1. /\ TypeOK' /\ Control' /\ pc[t] = "mmuput" /\ Moves(t, NoLocals, "idle")
      /\ UNCHANGED <<page, free, hash, pga, image, seg, pager, own>>
    BY MmuputControl DEF IInv
<1>2. /\ pc'[t] = "idle" /\ th'[t].todo = << >>
      /\ \A u \in Procs : u # t => th'[u] = th[u] /\ pc'[u] = pc[u]
    BY <1>1 DEF Moves, NoLocals
<1>3. th[t].todo = << >>
    BY <1>1 DEF IInv, Control, ControlAt, Dropped, In
<1>4. ~Reusing(t) /\ ~Reusing(t)' /\ LockAt(t)' /\ Keeps(t)
    BY <1>1, <1>2, <1>3 DEF Reusing, In, LockAt, Locking, Keeps
<1>5. SameTexts
    BY <1>1 DEF SameTexts
<1>6. QED  BY <1>1, <1>2, <1>4, <1>5, UntouchedPages, IdleStep

\* kickpager() finds nothing.
LEMMA NoMemoryInv ==
    ASSUME PageAssumption, IInv, NEW t \in Procs, NoMemory(t)
    PROVE  IInv'
<1>1. /\ TypeOK' /\ Control' /\ LockAt(t)' /\ pc[t] = "pageout"
      /\ UNCHANGED <<page, free, hash, pga, image, seg, own, tlb>>
      /\ pc'[t] \in {"fault", "newpage", "panic"}
      /\ th'[t] = th[t] \/ th'[t] = [th[t] EXCEPT !.then = Nil]
      /\ \A u \in Procs : u # t => th'[u] = th[u] /\ pc'[u] = pc[u]
    BY NoMemoryControl DEF IInv
<1>2. th'[t].todo = th[t].todo
  <2>1. th[t] \in Locals
      BY DEF IInv, TypeOK
  <2>2. QED  BY <1>1, <2>1 DEF Locals
<1>3. ~Reusing(t) /\ ~Reusing(t)' /\ Keeps(t)
    BY <1>1, <1>2 DEF Reusing, In, Keeps
<1>4. SameTexts
    BY <1>1 DEF SameTexts
<1>5. QED  BY <1>1, <1>3, <1>4, UntouchedPages, IdleStep

\* A process becomes the pager.
LEMMA KickpagerInv ==
    ASSUME PageAssumption, IInv, NEW t \in Procs, Kickpager(t)
    PROVE  IInv'
<1>1. /\ TypeOK' /\ Control' /\ pc[t] = "kick" /\ pc'[t] = "pageout"
      /\ UNCHANGED <<page, free, hash, pga, image, seg, own, tlb, th>>
      /\ \A u \in Procs : u # t => pc'[u] = pc[u]
    BY KickpagerControl DEF IInv
<1>2. ~Reusing(t) /\ ~Reusing(t)' /\ Keeps(t) /\ LockAt(t)'
    BY <1>1 DEF Reusing, In, Keeps, LockAt, Locking
<1>3. SameTexts
    BY <1>1 DEF SameTexts
<1>4. QED  BY <1>1, <1>2, <1>3, UntouchedPages, IdleStep

\* A store changes no references.
LEMMA StoreInv ==
    ASSUME PageAssumption, IInv, NEW t \in Procs, Store(t)
    PROVE  IInv'
<1>1. /\ TypeOK' /\ Control'
      /\ UNCHANGED <<free, hash, pga, image, pager, own, tlb, th, pc>>
      /\ \A p \in Pages : ~Touched(p)
      /\ \A s \in Segs : /\ seg'[s].ref = seg[s].ref /\ seg'[s].type = seg[s].type
                         /\ seg'[s].image = seg[s].image /\ seg'[s].map = seg[s].map
                         /\ seg'[s].lk = seg[s].lk
                         /\ s # own[t]["data"] => seg'[s] = seg[s]
    BY StoreControl DEF IInv, Touched
<1>2. \A u \in Procs : Keeps(u)
    BY <1>1 DEF Keeps
<1>3. \A s \in Segs : seg[s].type = Nil => seg'[s] = seg[s]
  <2>1. \A s \in Segs : s = own[t]["data"] => seg[s].type # Nil
      BY RefersType DEF IInv, SInv, Refers
  <2>2. QED  BY <1>1, <2>1
<1>4. SInv'
    BY <1>1, <1>2, <1>3, SegsQuiet DEF IInv
<1>5. LockAt(t)'
  <2>1. LockAt(t) /\ (Locking(t)' <=> Locking(t)) /\ (Locking(t) => th[t].s \in Segs)
    <3>1. Locking(t) => Faulting(t)
        BY DEF Locking, Faulting
    <3>2. Locking(t) => th[t].s \in Segs
        BY <3>1 DEF IInv, TypeOK, Locals, Control, ControlAt
    <3>3. QED  BY <1>1, <3>2 DEF IInv, Locks, Locking, Reusing, In
  <2>2. QED  BY <1>1, <2>1 DEF LockAt
<1>6. Locks'
    BY <1>1, <1>5, LocksStep DEF IInv
<1>7. PInv'
  <2>1. pc'[t] = pc[t] /\ th'[t].new = th[t].new /\ (Reusing(t)' <=> Reusing(t))
      BY <1>1 DEF Reusing, In
  <2>2. QED  BY <1>1, <2>1, PQuiet DEF IInv
<1>8. QED  BY <1>1, <1>4, <1>6, <1>7 DEF IInv

\* pio() puts the page that it could not read.
LEMMA ReadFailsInv ==
    ASSUME PageAssumption, IInv, NEW t \in Procs, ReadFails(t)
    PROVE  IInv'
<1>1. /\ TypeOK' /\ Control' /\ pc[t] = "read" /\ pga = Nil /\ th[t].new \in Pages
      /\ putpage(page, free, th[t].new) /\ Moves(t, NoLocals, "idle")
      /\ UNCHANGED <<hash, pga, image, seg, pager, own, tlb>>
    BY ReadFailsControl DEF IInv
<1>2. /\ pc'[t] = "idle" /\ th'[t].todo = << >>
      /\ \A u \in Procs : u # t => th'[u] = th[u] /\ pc'[u] = pc[u]
    BY <1>1 DEF Moves, NoLocals
<1>3. th[t].todo = << >>
    BY <1>1 DEF IInv, Control, ControlAt, Dropped, In
<1>4. ~Reusing(t)' /\ LockAt(t)' /\ \A u \in Procs : Keeps(u)
    BY <1>1, <1>2, <1>3 DEF Reusing, In, LockAt, Locking, Keeps
<1>5. SInv'
    BY <1>1, <1>4, SegsQuiet DEF IInv
<1>6. Locks'
    BY <1>1, <1>2, <1>4, LocksStep DEF IInv
<1>7. PInv'
  <2>1. PICK q \in Pages : q = th[t].new
      BY <1>1
  <2>2. \A p \in Pages : (HeldBy(t, p) <=> p = q) /\ ~HeldBy(t, p)'
      BY <1>1, <1>2, <2>1 DEF HeldBy
  <2>3. ASSUME NEW p \in Pages
        PROVE  One(p = q) + One(HeldBy(t, p)') + Cardinality(Mapped(p))'
                                = One(HeldBy(t, p)) + Cardinality(Mapped(p))
    <3>1. Cardinality(Mapped(p))' = Cardinality(Mapped(p)) /\ Cardinality(Mapped(p)) \in Nat
        BY <1>1, MapSame, Counts
    <3>2. One(HeldBy(t, p)) = One(p = q) /\ One(HeldBy(t, p)') = 0 /\ One(p = q) \in Nat
        BY <2>2 DEF One
    <3>3. QED  BY <3>1, <3>2
  <2>4. page \in [Pages -> PageRec] /\ putpage(page, free, q) /\ HeldBy(t, q)
      BY <1>1, <2>1, <2>2 DEF IInv, TypeOK
  <2>5. QED  BY <1>1, <1>2, <1>4, <2>3, <2>4, PutStep DEF IInv
<1>8. QED  BY <1>1, <1>5, <1>6, <1>7 DEF IInv

\* pio() gives the page to the segment, or puts it where another process was
\* first.
LEMMA ReadInv ==
    ASSUME PageAssumption, IInv, NEW t \in Procs, Read(t)
    PROVE  IInv'
<1>1. PICK s \in Segs, q \in Pages : s = th[t].s /\ q = th[t].new
    BY ReadControl, Zenon DEF IInv, SInv
<1>2. /\ TypeOK' /\ Control' /\ LockAt(t)' /\ pc[t] = "read"
      /\ seg[s].lk = Nil /\ seg[s].image \in Images
      /\ s \in {own[t]["text"], own[t]["data"]}
      /\ UNCHANGED <<pga, pager, own, tlb>>
      /\ pc'[t] \in {"newpage", "mmuput"}
      /\ \/ /\ seg[s].map = Nil /\ Fixed(t, s, q) /\ UNCHANGED free
            /\ page'[q].ref = page[q].ref /\ page'[q].alloc = page[q].alloc
            /\ page'[q].image = seg[s].image
            /\ \A x \in Pages : x # q => page'[x] = page[x]
            /\ image' = [image EXCEPT ![seg[s].image].ref = @ + 1] /\ hash' = hash \union {q}
         \/ /\ seg[s].map # Nil /\ Fixed(t, s, seg[s].map) /\ putpage(page, free, q)
            /\ pga = Nil /\ UNCHANGED <<hash, image>>
    BY <1>1, ReadControl DEF IInv, SInv
<1>3. /\ ~Reusing(t) /\ ~Reusing(t)'
      /\ \A p \in Pages : (HeldBy(t, p) <=> p = q) /\ ~HeldBy(t, p)'
    BY <1>1, <1>2 DEF Reusing, In, HeldBy
<1>4. CASE /\ seg[s].map = Nil /\ Fixed(t, s, q) /\ UNCHANGED free
           /\ page'[q].ref = page[q].ref /\ page'[q].alloc = page[q].alloc
           /\ page'[q].image = seg[s].image
           /\ \A x \in Pages : x # q => page'[x] = page[x]
           /\ image' = [image EXCEPT ![seg[s].image].ref = @ + 1] /\ hash' = hash \union {q}
  <2>1. SameTexts
      BY <1>4, TextsKept, Zenon DEF IInv
  <2>2. SInv' /\ Locks' /\ \A x \in Segs : x # s => seg'[x].map = seg[x].map
      BY <1>2, <1>4, <2>1, FixedRest
  <2>3. seg'[s].map = q /\ \A u \in Procs : u # t => th'[u] = th[u] /\ pc'[u] = pc[u]
      BY <1>4 DEF Fixed
  <2>4. ASSUME NEW p \in Pages
        PROVE  page'[p].ref = page[p].ref - One(HeldBy(t, p)) + One(HeldBy(t, p)')
                                           - Cardinality(Mapped(p)) + Cardinality(Mapped(p))'
    <3>1. Cardinality(Mapped(p))' = Cardinality(Mapped(p)) - One(seg[s].map = p) + One(seg'[s].map = p)
        BY <2>2, MapStep
    <3>2. One(seg[s].map = p) = 0 /\ One(seg'[s].map = p) = (IF p = q THEN 1 ELSE 0)
        BY <1>4, <2>3 DEF One, PageAssumption
    <3>3. One(HeldBy(t, p)) = (IF p = q THEN 1 ELSE 0) /\ One(HeldBy(t, p)') = 0
        BY <1>3 DEF One
    <3>4. page'[p].ref = page[p].ref /\ page[p].ref \in Nat /\ Cardinality(Mapped(p)) \in Nat
        BY <1>4, Counts, Zenon DEF IInv, TypeOK, PageRec
    <3>5. QED  BY <3>1, <3>2, <3>3, <3>4
  <2>5. \A p \in Pages : page'[p].ref = page[p].ref /\ page'[p].alloc = page[p].alloc
      BY <1>4
  <2>6. \A p \in Pages : Touched(p) =>
               /\ HeldBy(t, p) \/ Mapped(p) # {} \/ page[p].ref = 0 \/ page[p].image # Nil
               /\ \A u \in Procs : u # t => ~TakenBy(u, p)
    <3>1. \A p \in Pages : Touched(p) => p = q
        BY <1>4 DEF Touched
    <3>2. page[q].ref = 1
        BY <1>3, HeldAlone DEF IInv
    <3>3. \A u \in Procs : ~TakenBy(u, q)
        BY <3>2 DEF TakenBy, IInv, PInv, HoldersOK
    <3>4. QED  BY <1>3, <3>1, <3>3
  <2>7. Once' /\ \A p \in Pages : Listed(p)' <=> Listed(p)
      BY <1>4 DEF IInv, PInv, FreeOK, Once, Listed
  <2>8. \A p \in Pages : Taken(p)' <=> Taken(p)
      BY <1>3, <2>3 DEF Taken, Reusing, In
  <2>9. PInv'
    <3>1. \A p \in Pages : ~page'[p].alloc => page'[p].ref = 0
        BY <2>5 DEF IInv, PInv, RefsOK
    <3>2. \A p \in Pages : Listed(p)' <=> (page'[p].alloc /\ page'[p].ref = 0 /\ ~Taken(p)')
        BY <2>5, <2>7, <2>8 DEF IInv, PInv, FreeOK
    <3>3. HolderAt(t)'
        BY <1>2, <1>3 DEF HolderAt
    <3>4. QED  BY <2>3, <2>4, <2>6, <2>7, <3>1, <3>2, <3>3, PStep DEF IInv
  <2>10. QED  BY <1>2, <2>2, <2>9 DEF IInv
<1>5. CASE /\ seg[s].map # Nil /\ Fixed(t, s, seg[s].map) /\ putpage(page, free, q)
           /\ pga = Nil /\ UNCHANGED <<hash, image>>
  <2>1. SameTexts
      BY <1>5 DEF SameTexts
  <2>2. SInv' /\ Locks' /\ \A x \in Segs : x # s => seg'[x].map = seg[x].map
      BY <1>2, <1>5, <2>1, FixedRest
  <2>3. /\ \A x \in Segs : seg'[x].map = seg[x].map
        /\ \A u \in Procs : u # t => th'[u] = th[u] /\ pc'[u] = pc[u]
      BY <1>5, <2>2 DEF Fixed
  <2>4. ASSUME NEW p \in Pages
        PROVE  One(p = q) + One(HeldBy(t, p)') + Cardinality(Mapped(p))'
                                = One(HeldBy(t, p)) + Cardinality(Mapped(p))
    <3>1. Cardinality(Mapped(p))' = Cardinality(Mapped(p)) /\ Cardinality(Mapped(p)) \in Nat
        BY <2>3, MapSame, Counts, Zenon
    <3>2. One(HeldBy(t, p)) = One(p = q) /\ One(HeldBy(t, p)') = 0 /\ One(p = q) \in Nat
        BY <1>3 DEF One
    <3>3. QED  BY <3>1, <3>2
  <2>5. page \in [Pages -> PageRec] /\ HeldBy(t, q) /\ pc'[t] \notin {"read", "copy"}
      BY <1>2, <1>3 DEF IInv, TypeOK
  <2>6. PInv'
      BY <1>3, <1>5, <2>3, <2>4, <2>5, PutStep DEF IInv
  <2>7. QED  BY <1>2, <2>2, <2>6 DEF IInv
<1>6. QED  BY <1>2, <1>4, <1>5

\* copypage() gives the copy to the segment and puts the old page.
LEMMA CopyInv ==
    ASSUME PageAssumption, IInv, NEW t \in Procs, Copy(t)
    PROVE  IInv'
<1>1. PICK s \in Segs, n \in Pages, q \in Pages : s = th[t].s /\ n = th[t].new /\ q = seg[s].map
    BY CopyControl DEF IInv, SInv
<1>2. PICK m \in [Pages -> PageRec] : Copied(t, s, n, q, m)
    BY <1>1, CopyControl DEF IInv, SInv
<1>3. /\ TypeOK' /\ Control' /\ LockAt(t)' /\ pc[t] = "copy" /\ pga = Nil
      /\ seg[s].lk = t /\ s \in {own[t]["text"], own[t]["data"]}
      /\ UNCHANGED <<hash, pga, image, pager, own, tlb>>
      /\ m \in [Pages -> PageRec] /\ putpage(m, free, q)
      /\ m[n].ref = page[n].ref /\ m[n].alloc = page[n].alloc /\ m[n].image = page[n].image
      /\ \A x \in Pages : x # n => m[x] = page[x]
      /\ pc'[t] = "mmuput" /\ Fixed(t, s, n)
    BY <1>2, CopyControl DEF IInv, SInv, Copied
<1>4. SInv' /\ Locks' /\ \A x \in Segs : x # s => seg'[x].map = seg[x].map
  <2>1. SameTexts
      BY <1>3 DEF SameTexts
  <2>2. QED  BY <1>3, <2>1, FixedRest
<1>5. /\ seg'[s].map = n /\ s \in Mapped(q)
      /\ \A u \in Procs : u # t => th'[u] = th[u] /\ pc'[u] = pc[u]
    BY <1>1, <1>3 DEF Fixed, Mapped
<1>6. /\ ~Reusing(t)'
      /\ \A p \in Pages : (HeldBy(t, p) <=> p = n) /\ ~HeldBy(t, p)'
    BY <1>1, <1>3 DEF Reusing, In, HeldBy
<1>7. ASSUME NEW p \in Pages
      PROVE  One(p = q) + One(HeldBy(t, p)') + Cardinality(Mapped(p))'
                                = One(HeldBy(t, p)) + Cardinality(Mapped(p))
  <2>1. Cardinality(Mapped(p))' = Cardinality(Mapped(p)) - One(seg[s].map = p) + One(seg'[s].map = p)
      BY <1>4, MapStep
  <2>2. One(seg[s].map = p) = One(p = q) /\ One(seg'[s].map = p) = One(p = n)
      BY <1>1, <1>5 DEF One
  <2>3. One(HeldBy(t, p)) = One(p = n) /\ One(HeldBy(t, p)') = 0
      BY <1>6 DEF One
  <2>4. One(p = q) \in Nat /\ One(p = n) \in Nat /\ Cardinality(Mapped(p)) \in Nat
      BY Counts DEF One
  <2>5. QED  BY <2>1, <2>2, <2>3, <2>4
<1>8. \A p \in Pages : /\ m[p].ref = page[p].ref /\ m[p].alloc = page[p].alloc
                       /\ m[p].image = page[p].image
    BY <1>3
<1>9. PInv'
    BY <1>3, <1>5, <1>6, <1>7, <1>8, PutStep DEF IInv
<1>10. QED  BY <1>3, <1>4, <1>9 DEF IInv

\* freepte() puts the page of the segment.
LEMMA FreepteInv ==
    ASSUME PageAssumption, IInv, NEW t \in Procs, Freepte(t)
    PROVE  IInv'
<1>1. PICK s \in Segs : s = Head(th[t].todo)
    BY FreepteControl, Zenon DEF IInv
<1>2. /\ TypeOK' /\ Control' /\ pc[t] = "freepte"
      /\ seg'[s] = NoSeg /\ \A x \in Segs : x # s => seg'[x] = seg[x]
      /\ pc'[t] = Putting(Tail(th[t].todo))
      /\ \A u \in Procs : u # t => th'[u] = th[u] /\ pc'[u] = pc[u]
      /\ seg[s].map = Nil => UNCHANGED <<page, free>>
      /\ seg[s].map # Nil => pga = Nil /\ putpage(page, free, seg[s].map)
    BY <1>1, FreepteControl, Zenon DEF IInv
<1>3. SInv' /\ UsersOf(s) = {}
  <2>1. Dropped(t)
      BY <1>2 DEF Dropped
  <2>2. QED  BY <1>1, <2>1, FreepteSegs, Zenon DEF IInv, SInv, Droppers
<1>4. /\ pc'[t] \in {"idle", "putseg"} /\ ~Reusing(t) /\ ~Reusing(t)' /\ LockAt(t)'
      /\ \A p \in Pages : ~HeldBy(t, p) /\ ~HeldBy(t, p)'
    BY <1>2 DEF Putting, Reusing, In, LockAt, Locking, HeldBy
<1>5. Locks'
    BY <1>2, <1>3, <1>4, LocksStep DEF IInv
<1>6. seg'[s].map = Nil
    BY <1>2 DEF NoSeg
<1>7. PInv'
  <2>1. CASE seg[s].map = Nil
    <3>1. \A x \in Segs : seg'[x].map = seg[x].map
        BY <1>2, <1>6, <2>1
    <3>2. QED  BY <1>2, <1>4, <2>1, <3>1, UntouchedPages, PQuiet DEF IInv
  <2>2. CASE seg[s].map # Nil
    <3>1. PICK q \in Pages : q = seg[s].map
        BY <2>2 DEF IInv, TypeOK, SegRec
    <3>2. pga = Nil /\ putpage(page, free, q) /\ Mapped(q) # {} /\ page \in [Pages -> PageRec]
        BY <1>2, <2>2, <3>1 DEF Mapped, IInv, TypeOK
    <3>3. ASSUME NEW p \in Pages
          PROVE  One(p = q) + One(HeldBy(t, p)') + Cardinality(Mapped(p))'
                                = One(HeldBy(t, p)) + Cardinality(Mapped(p))
      <4>1. Cardinality(Mapped(p))' = Cardinality(Mapped(p)) - One(seg[s].map = p) + One(seg'[s].map = p)
          BY <1>2, MapStep
      <4>2. One(seg[s].map = p) = One(p = q) /\ One(seg'[s].map = p) = 0
          BY <1>6, <3>1 DEF One, PageAssumption
      <4>3. One(HeldBy(t, p)) = 0 /\ One(HeldBy(t, p)') = 0
          BY <1>4 DEF One
      <4>4. One(p = q) \in Nat /\ Cardinality(Mapped(p)) \in Nat
          BY Counts DEF One
      <4>5. QED  BY <4>1, <4>2, <4>3, <4>4
    <3>4. QED  BY <1>2, <1>4, <3>2, <3>3, PutStep DEF IInv
  <2>3. QED  BY <2>1, <2>2
<1>8. QED  BY <1>2, <1>3, <1>5, <1>7 DEF IInv

\* pageout() takes the page of a segment and puts it.
LEMMA PageoutInv ==
    ASSUME PageAssumption, IInv, NEW t \in Procs, Pageout(t)
    PROVE  IInv'
<1>1. /\ TypeOK' /\ Control' /\ pga = Nil
      /\ UNCHANGED <<hash, pga, image, pager, own, tlb, th, pc>>
    BY PageoutControl DEF IInv
<1>2. PICK s \in Segs :
         /\ seg[s].type # Nil /\ seg[s].lk = Nil /\ seg[s].map \in Pages
         /\ putpage(page, free, seg[s].map)
         /\ seg'[s].ref = seg[s].ref /\ seg'[s].type = seg[s].type
         /\ seg'[s].image = seg[s].image /\ seg'[s].map = Nil /\ seg'[s].lk = seg[s].lk
         /\ \A x \in Segs : x # s => seg'[x] = seg[x]
    BY PageoutControl DEF IInv
<1>3. pc[t] = "pageout" /\ \A u \in Procs : Keeps(u)
    BY <1>1 DEF Pageout, At, Keeps
<1>4. SInv'
    BY <1>1, <1>2, <1>3, SegsQuiet DEF IInv
<1>5. /\ ~Reusing(t)' /\ LockAt(t)' /\ pc'[t] \notin {"read", "copy"}
      /\ \A p \in Pages : ~HeldBy(t, p) /\ ~HeldBy(t, p)'
    BY <1>1, <1>3 DEF Reusing, In, LockAt, Locking, HeldBy
<1>6. Locks'
    BY <1>1, <1>2, <1>5, LocksStep DEF IInv
<1>7. PICK q \in Pages : q = seg[s].map
    BY <1>2
<1>8. putpage(page, free, q) /\ Mapped(q) # {} /\ page \in [Pages -> PageRec]
    BY <1>2, <1>7 DEF Mapped, IInv, TypeOK
<1>9. ASSUME NEW p \in Pages
      PROVE  One(p = q) + One(HeldBy(t, p)') + Cardinality(Mapped(p))'
                                = One(HeldBy(t, p)) + Cardinality(Mapped(p))
  <2>1. Cardinality(Mapped(p))' = Cardinality(Mapped(p)) - One(seg[s].map = p) + One(seg'[s].map = p)
      BY <1>2, MapStep
  <2>2. One(seg[s].map = p) = One(p = q) /\ One(seg'[s].map = p) = 0
      BY <1>2, <1>7 DEF One, PageAssumption
  <2>3. One(HeldBy(t, p)) = 0 /\ One(HeldBy(t, p)') = 0
      BY <1>5 DEF One
  <2>4. One(p = q) \in Nat /\ Cardinality(Mapped(p)) \in Nat
      BY Counts DEF One
  <2>5. QED  BY <2>1, <2>2, <2>3, <2>4
<1>10. PInv'
    BY <1>1, <1>5, <1>8, <1>9, PutStep DEF IInv
<1>11. QED  BY <1>1, <1>4, <1>6, <1>10 DEF IInv

\* Steps with pga free that leave the maps alone and nobody a new page.
LEMMA FreeStep ==
    ASSUME PageAssumption, TypeOK, Control, PInv, NEW t \in Procs, pga = Nil,
           \A u \in Procs : u # t => th'[u] = th[u] /\ pc'[u] = pc[u], seg' = seg,
           pc[t] \notin {"read", "copy"}, pc'[t] \notin {"read", "copy"}, ~Reusing(t)',
           NEW q \in Pages, page[q].ref = 0, page'[q].ref = 0,
           \A p \in Pages : p # q => page'[p] = page[p],
           Once', \A p \in Pages : Listed(p)' <=> IF p = q THEN page'[q].alloc ELSE Listed(p)
    PROVE  PInv'
<1>1. \A p \in Pages : ~Taken(p) /\ ~Taken(p)' /\ \A u \in Procs : ~TakenBy(u, p)
  <2>1. \A u \in Procs : ~Reusing(u)
      BY NoTaken DEF PageAssumption
  <2>2. \A u \in Procs : ~Reusing(u)'
      BY <2>1 DEF Reusing, In
  <2>3. QED  BY <2>1, <2>2 DEF Taken, TakenBy
<1>2. ASSUME NEW p \in Pages
      PROVE  page'[p].ref = page[p].ref - One(HeldBy(t, p)) + One(HeldBy(t, p)')
                                           - Cardinality(Mapped(p)) + Cardinality(Mapped(p))'
  <2>1. page'[p].ref = page[p].ref /\ Mapped(p)' = Mapped(p) /\ page[p].ref \in Nat
      BY MapSame DEF TypeOK, PageRec
  <2>2. One(HeldBy(t, p)') = 0 /\ One(HeldBy(t, p)) = 0
      BY DEF One, HeldBy
  <2>3. QED  BY <2>1, <2>2, Counts
<1>3. \A p \in Pages : ~page'[p].alloc => page'[p].ref = 0
    BY DEF PInv, RefsOK
<1>4. \A p \in Pages : Listed(p)' <=> (page'[p].alloc /\ page'[p].ref = 0 /\ ~Taken(p)')
    BY <1>1 DEF PInv, FreeOK
<1>5. \A p \in Pages : Touched(p) =>
               /\ HeldBy(t, p) \/ Mapped(p) # {} \/ page[p].ref = 0 \/ page[p].image # Nil
               /\ \A u \in Procs : u # t => ~TakenBy(u, p)
    BY <1>1 DEF Touched
<1>6. HolderAt(t)'
    BY DEF HolderAt
<1>7. QED  BY <1>2, <1>3, <1>4, <1>5, <1>6, PStep

\* tryalloc() allocates a page and puts it.
LEMMA TryallocInv ==
    ASSUME PageAssumption, IInv, NEW t \in Procs, Tryalloc(t)
    PROVE  IInv'
<1>1. /\ TypeOK' /\ Control' /\ LockAt(t)' /\ pga = Nil /\ pc[t] = "pageout"
      /\ pc'[t] \in {"fault", "newpage"} /\ th'[t] = [th[t] EXCEPT !.then = Nil]
      /\ \A u \in Procs : u # t => th'[u] = th[u] /\ pc'[u] = pc[u]
      /\ UNCHANGED <<hash, pga, image, seg, own, tlb>>
    BY TryallocControl DEF IInv
<1>2. PICK q \in Pages : ~page[q].alloc /\ putpage([page EXCEPT ![q] = Fresh], free, q)
    BY TryallocControl, Zenon DEF IInv
<1>3. th'[t].todo = th[t].todo
  <2>1. th[t] \in Locals
      BY DEF IInv, TypeOK
  <2>2. QED  BY <1>1, <2>1 DEF Locals
<1>4. ~Reusing(t)' /\ \A u \in Procs : Keeps(u)
    BY <1>1, <1>3, Zenon DEF Reusing, In, Keeps
<1>5. SInv'
    BY <1>1, <1>4, SegsQuiet DEF IInv
<1>6. Locks'
    BY <1>1, LocksStep DEF IInv
<1>7. PInv'
  <2>1. PICK m : m = [page EXCEPT ![q] = Fresh]
      OBVIOUS
  <2>2. /\ m \in [Pages -> PageRec] /\ m[q] = Fresh /\ putpage(m, free, q)
        /\ \A x \in Pages : x # q => m[x] = page[x]
      BY <1>2, <2>1, Records, PageChanges DEF IInv
  <2>3. m[q].ref = 1 /\ m[q].alloc /\ m[q].image = Nil
      BY <2>2, Records, Zenon
  <2>4. page[q].ref = 0 /\ ~Listed(q) /\ Once /\ free \in Seq(Pages)
      BY <1>2 DEF IInv, PInv, RefsOK, FreeOK, TypeOK
  <2>5. /\ \A p \in Pages : p # q => page'[p] = m[p]
        /\ page'[q].ref = m[q].ref - 1
        /\ Once'
        /\ \A p \in Pages : Listed(p)' <=>
              (Listed(p) \/ (p = q /\ page'[q].alloc /\ page'[q].ref = 0))
      BY <2>2, <2>3, <2>4, Put
  <2>6. /\ page'[q].ref = 0 /\ \A p \in Pages : p # q => page'[p] = page[p]
        /\ \A p \in Pages : Listed(p)' <=> IF p = q THEN page'[q].alloc ELSE Listed(p)
      BY <2>2, <2>3, <2>4, <2>5
  <2>7. pc[t] \notin {"read", "copy"} /\ pc'[t] \notin {"read", "copy"}
      BY <1>1
  <2>8. QED  BY <1>1, <1>4, <2>4, <2>5, <2>6, <2>7, FreeStep DEF IInv
<1>8. QED  BY <1>1, <1>5, <1>6, <1>7 DEF IInv

\* freepages() takes a page off the list and gives its memory back.
LEMMA FreepagesInv ==
    ASSUME PageAssumption, IInv, NEW t \in Procs, Freepages(t)
    PROVE  IInv'
<1>1. /\ TypeOK' /\ Control' /\ pga = Nil /\ pc[t] = "pageout" /\ free # << >>
      /\ th'[t] = [th[t] EXCEPT !.then = "freed"]
      /\ \A u \in Procs : u # t => th'[u] = th[u] /\ pc'[u] = pc[u]
      /\ free' = Tail(free) /\ page' = [page EXCEPT ![Head(free)] = NoPage]
      /\ UNCHANGED <<hash, pga, image, seg, pager, own, tlb, pc>>
    BY FreepagesControl DEF IInv
<1>2. th'[t].todo = th[t].todo
  <2>1. th[t] \in Locals
      BY DEF IInv, TypeOK
  <2>2. QED  BY <1>1, <2>1 DEF Locals
<1>3. ~Reusing(t)' /\ LockAt(t)' /\ \A u \in Procs : Keeps(u)
    BY <1>1, <1>2, Zenon DEF Reusing, In, Keeps, LockAt, Locking
<1>4. SInv'
    BY <1>1, <1>3, SegsQuiet DEF IInv
<1>5. Locks'
    BY <1>1, <1>3, LocksStep DEF IInv
<1>6. PInv'
  <2>1. free \in Seq(Pages) /\ Once /\ Len(free) \in Nat \ {0}
      BY <1>1, EmptySeq DEF IInv, TypeOK, PInv, FreeOK
  <2>2. PICK q \in Pages : q = Head(free) /\ q = free[1]
      BY <1>1, <2>1
  <2>3. 1 \in 1 .. Len(free) /\ Listed(q)
      BY <2>1, <2>2 DEF Listed
  <2>4. Once' /\ \A p \in Pages : Listed(p)' <=> (Listed(p) /\ p # q)
      BY <1>1, <2>1, <2>2, <2>3, RemoveList
  <2>5. page[q].ref = 0
      BY <2>3 DEF IInv, PInv, FreeOK
  <2>6. page'[q] = NoPage /\ \A p \in Pages : p # q => page'[p] = page[p]
      BY <1>1, <2>2 DEF IInv, TypeOK
  <2>7. page'[q].ref = 0 /\ ~page'[q].alloc
      BY <2>6, Records, Zenon
  <2>8. \A p \in Pages : Listed(p)' <=> IF p = q THEN page'[q].alloc ELSE Listed(p)
      BY <2>4, <2>7
  <2>9. pc[t] \notin {"read", "copy"} /\ pc'[t] \notin {"read", "copy"}
      BY <1>1
  <2>10. QED  BY <1>1, <1>3, <2>4, <2>5, <2>6, <2>7, <2>8, <2>9, FreeStep DEF IInv
<1>7. QED  BY <1>1, <1>4, <1>5, <1>6 DEF IInv

\* newpage() has a page that nobody refers to.
LEMMA GotInv ==
    ASSUME PageAssumption, IInv, NEW t \in Procs, pc[t] = "newpage", pga = Nil,
           NEW q \in Pages, Got(t, q), page[q].ref = 0, free' \in Seq(Pages),
           UNCHANGED <<hash, pga, image, seg, pager, own, tlb>>,
           Once', \A p \in Pages : Listed(p)' <=> (Listed(p) /\ p # q)
    PROVE  IInv'
<1>1. /\ TypeOK' /\ Control'
      /\ pc'[t] = Use(t) /\ th'[t] = [th[t] EXCEPT !.new = q]
      /\ \A u \in Procs : u # t => th'[u] = th[u] /\ pc'[u] = pc[u]
    BY GotControl DEF IInv
<1>2. /\ th'[t].todo = th[t].todo /\ th'[t].new = q /\ th'[t].s = th[t].s /\ th'[t].src = th[t].src
  <2>1. th[t] \in Locals
      BY DEF IInv, TypeOK
  <2>2. QED  BY <1>1, <2>1 DEF Locals
<1>3. Use(t) \in {"read", "copy"} /\ (Use(t) = "copy" => th[t].src = Nil)
    BY DEF Use
<1>4. ~Reusing(t)' /\ \A u \in Procs : Keeps(u)
    BY <1>1, <1>2, <1>3, Zenon DEF Reusing, In, Keeps
<1>5. SInv'
    BY <1>1, <1>4, SegsQuiet DEF IInv
<1>6. LockAt(t)'
  <2>1. LockAt(t)
      BY DEF IInv, Locks
  <2>2. Locking(t)' => Locking(t)
      BY <1>1, <1>2, <1>3, <1>4 DEF Locking
  <2>3. QED  BY <1>1, <1>2, <1>3, <2>1, <2>2 DEF LockAt
<1>7. Locks'
    BY <1>1, <1>6, LocksStep DEF IInv
<1>8. PInv'
  <2>1. page'[q] = Fresh /\ \A p \in Pages : p # q => page'[p] = page[p]
      BY DEF Got, IInv, TypeOK
  <2>2. page'[q].ref = 1 /\ page'[q].alloc /\ page'[q].image = Nil
      BY <2>1, Records, Zenon
  <2>3. \A p \in Pages : ~HeldBy(t, p) /\ (HeldBy(t, p)' <=> p = q)
      BY <1>1, <1>2, <1>3 DEF HeldBy
  <2>4. \A p \in Pages : ~Taken(p) /\ ~Taken(p)' /\ \A u \in Procs : ~TakenBy(u, p)
    <3>1. \A u \in Procs : ~Reusing(u)
        BY NoTaken DEF PageAssumption, IInv
    <3>2. \A u \in Procs : ~Reusing(u)'
        BY <1>1, <1>4, <3>1, Zenon DEF Reusing, In
    <3>3. QED  BY <3>1, <3>2 DEF Taken, TakenBy
  <2>5. ASSUME NEW p \in Pages
        PROVE  page'[p].ref = page[p].ref - One(HeldBy(t, p)) + One(HeldBy(t, p)')
                                           - Cardinality(Mapped(p)) + Cardinality(Mapped(p))'
    <3>1. One(HeldBy(t, p)) = 0 /\ One(HeldBy(t, p)') = (IF p = q THEN 1 ELSE 0)
        BY <2>3 DEF One
    <3>2. Cardinality(Mapped(p))' = Cardinality(Mapped(p)) /\ Cardinality(Mapped(p)) \in Nat
        BY MapSame, Counts, Zenon
    <3>3. page[p].ref \in Nat /\ page'[p].ref = page[p].ref + (IF p = q THEN 1 ELSE 0)
        BY <2>1, <2>2 DEF IInv, TypeOK, PageRec
    <3>4. QED  BY <3>1, <3>2, <3>3
  <2>6. \A p \in Pages : ~page'[p].alloc => page'[p].ref = 0
      BY <2>1, <2>2 DEF IInv, PInv, RefsOK
  <2>7. \A p \in Pages : Touched(p) =>
               /\ HeldBy(t, p) \/ Mapped(p) # {} \/ page[p].ref = 0 \/ page[p].image # Nil
               /\ \A u \in Procs : u # t => ~TakenBy(u, p)
      BY <2>1, <2>4 DEF Touched
  <2>8. \A p \in Pages : Listed(p)' <=> (page'[p].alloc /\ page'[p].ref = 0 /\ ~Taken(p)')
      BY <2>1, <2>2, <2>4 DEF IInv, PInv, FreeOK
  <2>9. HolderAt(t)'
      BY <1>2, <1>4, <2>2 DEF HolderAt
  <2>10. QED  BY <1>1, <2>5, <2>6, <2>7, <2>8, <2>9, PStep, Zenon DEF IInv
<1>9. QED  BY <1>1, <1>5, <1>7, <1>8 DEF IInv

\* newpage() allocates a page.
LEMMA AllocInv ==
    ASSUME PageAssumption, IInv, NEW t \in Procs, NewpageAlloc(t)
    PROVE  IInv'
<1>1. /\ pc[t] = "newpage" /\ pga = Nil
      /\ UNCHANGED <<free, hash, pga, image, seg, pager, own, tlb>>
    BY DEF NewpageAlloc, At
<1>2. PICK q \in Pages : ~page[q].alloc /\ Got(t, q)
    BY DEF NewpageAlloc
<1>3. page[q].ref = 0 /\ ~Listed(q)
    BY <1>2 DEF IInv, PInv, RefsOK, FreeOK
<1>4. /\ free' \in Seq(Pages) /\ Once' /\ \A p \in Pages : Listed(p)' <=> (Listed(p) /\ p # q)
    BY <1>1, <1>3 DEF IInv, TypeOK, PInv, FreeOK, Once, Listed
<1>5. QED  BY <1>1, <1>2, <1>3, <1>4, GotInv

\* newpage() takes a page off the list, also out of the cache.
LEMMA ReuseInv ==
    ASSUME PageAssumption, IInv, NEW t \in Procs, NewpageReuse(t)
    PROVE  IInv'
<1>1. /\ pc[t] = "newpage" /\ pga = Nil /\ UNCHANGED <<image, seg, pager, own, tlb>>
    BY DEF NewpageReuse, At
<1>2. PICK i \in 1 .. Len(free) :
        /\ free' = RemoveAt(free, i)
        /\ IF page[free[i]].image # Nil
           THEN Uncache(t, free[i], "newpage") /\ UNCHANGED page
           ELSE Got(t, free[i]) /\ UNCHANGED <<hash, pga>>
    BY DEF NewpageReuse
<1>3. free \in Seq(Pages) /\ Once
    BY DEF IInv, TypeOK, PInv, FreeOK
<1>4. PICK q \in Pages : q = free[i]
    BY <1>3
<1>5. /\ Listed(q) /\ page[q].ref = 0 /\ page[q].alloc
      /\ free' \in Seq(Pages) /\ Once' /\ \A p \in Pages : Listed(p)' <=> (Listed(p) /\ p # q)
  <2>1. Listed(q)
      BY <1>4 DEF Listed
  <2>2. page[q].ref = 0 /\ page[q].alloc
      BY <2>1 DEF IInv, PInv, FreeOK
  <2>3. free' \in Seq(Pages)
      BY <1>2, <1>3, RemoveAtIs
  <2>4. Once' /\ \A p \in Pages : Listed(p)' <=> (Listed(p) /\ p # q)
      BY <1>2, <1>3, <1>4, RemoveList
  <2>5. QED  BY <2>1, <2>2, <2>3, <2>4
<1>6. CASE page[q].image = Nil
  <2>1. Got(t, q) /\ UNCHANGED <<hash, pga>>
      BY <1>2, <1>4, <1>6
  <2>2. QED  BY <1>1, <1>5, <2>1, GotInv
<1>7. CASE page[q].image # Nil
  <2>1. Uncache(t, q, "newpage") /\ UNCHANGED page
      BY <1>2, <1>4, <1>7
  <2>2. /\ TypeOK' /\ Control'
        /\ pc'[t] = "putimage"
        /\ th'[t] = [th[t] EXCEPT !.new = q, !.img = page[q].image, !.then = "newpage"]
        /\ \A u \in Procs : u # t => pc'[u] = pc[u] /\ th'[u] = th[u]
    <3>1. /\ UNCHANGED <<page, image, seg, pager, own, tlb>> /\ pga \in {Nil, t}
          /\ "newpage" = "newpage" => pc[t] = "newpage"
          /\ "newpage" = "reclaim" => pc[t] = "reclaim"
          /\ "newpage" \in {"newpage", "reclaim"} /\ free' \in Seq(Pages)
        BY <1>1, <1>5, <2>1
    <3>2. TypeOK /\ Control /\ Uncache(t, q, "newpage")
        BY <2>1 DEF IInv
    <3>3. QED  BY <1>7, <3>1, <3>2, UncacheControl, Zenon
  <2>3. /\ th'[t].todo = th[t].todo /\ th'[t].new = q /\ th'[t].s = th[t].s /\ th'[t].src = th[t].src
        /\ th'[t].then = "newpage"
    <3>1. th[t] \in Locals
        BY DEF IInv, TypeOK
    <3>2. QED  BY <2>2, <3>1 DEF Locals
  <2>4. /\ Reusing(t)' /\ (\A u \in Procs : Keeps(u))
        /\ \A p \in Pages : ~HeldBy(t, p) /\ ~HeldBy(t, p)'
      BY <1>1, <2>2, <2>3, Zenon DEF Reusing, In, Keeps, HeldBy
  <2>5. SInv'
      BY <1>1, <2>2, <2>4, SegsQuiet DEF IInv
  <2>6. LockAt(t)'
    <3>1. LockAt(t)
        BY DEF IInv, Locks
    <3>2. Locking(t)' => Locking(t)
        BY <1>1, <2>2, <2>3 DEF Locking
    <3>3. QED  BY <1>1, <2>2, <2>3, <3>1, <3>2 DEF LockAt
  <2>7. Locks'
      BY <1>1, <2>2, <2>6, LocksStep DEF IInv
  <2>8. \A p \in Pages : ~Taken(p) /\ (Taken(p)' <=> p = q) /\ ~Touched(p)
    <3>1. \A u \in Procs : ~Reusing(u)
        BY <1>1, NoTaken DEF PageAssumption, IInv
    <3>2. \A u \in Procs : u # t => ~Reusing(u)'
        BY <2>2, <3>1 DEF Reusing, In
    <3>3. QED  BY <2>1, <2>3, <2>4, <3>1, <3>2 DEF Taken, Touched
  <2>9. ASSUME NEW p \in Pages
        PROVE  page'[p].ref = page[p].ref - One(HeldBy(t, p)) + One(HeldBy(t, p)')
                                           - Cardinality(Mapped(p)) + Cardinality(Mapped(p))'
    <3>1. One(HeldBy(t, p)) = 0 /\ One(HeldBy(t, p)') = 0
        BY <2>4 DEF One
    <3>2. Cardinality(Mapped(p))' = Cardinality(Mapped(p)) /\ Cardinality(Mapped(p)) \in Nat
        BY <1>1, MapSame, Counts
    <3>3. page[p].ref \in Nat /\ page'[p].ref = page[p].ref
        BY <2>1 DEF IInv, TypeOK, PageRec
    <3>4. QED  BY <3>1, <3>2, <3>3
  <2>10. \A p \in Pages : ~page'[p].alloc => page'[p].ref = 0
      BY <2>1 DEF IInv, PInv, RefsOK
  <2>11. \A p \in Pages : Listed(p)' <=> (page'[p].alloc /\ page'[p].ref = 0 /\ ~Taken(p)')
      BY <1>5, <2>1, <2>8 DEF IInv, PInv, FreeOK
  <2>12. HolderAt(t)'
      BY <1>5, <2>1, <2>2, <2>3 DEF HolderAt
  <2>13. PInv'
      BY <1>5, <2>2, <2>8, <2>9, <2>10, <2>11, <2>12, PStep DEF IInv
  <2>14. QED  BY <2>2, <2>5, <2>7, <2>13 DEF IInv
<1>8. QED  BY <1>6, <1>7

\* Unlinking a page, which lookpage() may find anywhere in the list.
LEMMA WithoutList ==
    ASSUME free \in Seq(Pages), Once, NEW q \in Pages, free' = Without(free, q)
    PROVE  Once' /\ \A p \in Pages : Listed(p)' <=> (Listed(p) /\ p # q)
<1> DEFINE at == {i \in 1 .. Len(free) : free[i] = q}
<1>1. CASE at = {}
  <2>1. free' = free /\ ~Listed(q)
      BY <1>1 DEF Without, Listed
  <2>2. QED  BY <2>1 DEF Once, Listed
<1>2. CASE at # {}
  <2>1. PICK k \in at : free' = RemoveAt(free, k)
      BY <1>2, Zenon DEF Without
  <2>2. k \in 1 .. Len(free) /\ free[k] = q
      BY <2>1
  <2>3. QED  BY <2>1, <2>2, RemoveList
<1>3. QED  BY <1>1, <1>2

\* lookpage() takes a page that was found in the cache off the list; it exists,
\* as the model stops where one that was freed is found.
LEMMA LookpageInv ==
    ASSUME PageAssumption, "page" \in StopAt, IInv, NEW t \in Procs, Lookpage(t)
    PROVE  IInv'
<1>1. PICK s \in Segs, q \in Pages : s = th[t].s /\ q = th[t].new
    BY LookpageControl, Zenon DEF IInv, SInv
<1>2. /\ TypeOK' /\ Control' /\ LockAt(t)' /\ pc[t] = "found" /\ pga = Nil /\ ~Stopped
      /\ seg[s].map = Nil /\ seg[s].image \in Images
      /\ s \in {own[t]["text"], own[t]["data"]}
      /\ UNCHANGED <<hash, pga, image, pager, own, tlb>>
      /\ pc'[t] \in {"newpage", "mmuput", "panic"}
      /\ \/ Fixed(t, s, Nil) /\ UNCHANGED <<page, free>>
         \/ /\ Fixed(t, s, q) /\ page' = [page EXCEPT ![q].ref = @ + 1]
            /\ free' = Without(free, q) /\ page[q].image = seg[s].image
    BY <1>1, LookpageControl DEF IInv, SInv
<1>3. seg[s].lk = t /\ SameTexts /\ page[q].alloc
  <2>1. seg[s].lk = t
      BY <1>1, <1>2 DEF IInv, Locks, LockAt, Locking
  <2>2. page[q].alloc
      BY <1>1, <1>2 DEF Stopped, PageLost
  <2>3. QED  BY <1>2, <2>1, <2>2 DEF SameTexts
<1>4. /\ ~Reusing(t) /\ ~Reusing(t)' /\ pc'[t] \notin {"read", "copy"}
      /\ \A p \in Pages : ~HeldBy(t, p) /\ ~HeldBy(t, p)'
    BY <1>2 DEF Reusing, In, HeldBy
<1>5. CASE Fixed(t, s, Nil) /\ UNCHANGED <<page, free>>
  <2>1. SInv' /\ Locks' /\ \A x \in Segs : x # s => seg'[x].map = seg[x].map
      BY <1>2, <1>3, <1>5, FixedRest
  <2>2. /\ \A x \in Segs : seg'[x].map = seg[x].map
        /\ \A u \in Procs : u # t => th'[u] = th[u] /\ pc'[u] = pc[u]
      BY <1>2, <1>5, <2>1 DEF Fixed
  <2>3. PInv'
      BY <1>2, <1>4, <1>5, <2>2, UntouchedPages, PQuiet DEF IInv
  <2>4. QED  BY <1>2, <2>1, <2>3 DEF IInv
<1>6. CASE /\ Fixed(t, s, q) /\ page' = [page EXCEPT ![q].ref = @ + 1]
           /\ free' = Without(free, q) /\ page[q].image = seg[s].image
  <2>1. SInv' /\ Locks' /\ \A x \in Segs : x # s => seg'[x].map = seg[x].map
      BY <1>2, <1>3, <1>6, FixedRest
  <2>2. seg'[s].map = q /\ \A u \in Procs : u # t => th'[u] = th[u] /\ pc'[u] = pc[u]
      BY <1>6 DEF Fixed
  <2>3. /\ page'[q].ref = page[q].ref + 1 /\ page'[q].alloc = page[q].alloc
        /\ page[q].ref \in Nat /\ page[q].image # Nil
        /\ \A p \in Pages : p # q => page'[p] = page[p]
    <3>1. page[q] \in PageRec /\ page'[q] = [page[q] EXCEPT !.ref = @ + 1]
        BY <1>6 DEF IInv, TypeOK
    <3>2. page'[q].ref = page[q].ref + 1 /\ page'[q].alloc = page[q].alloc /\ page[q].ref \in Nat
        BY <3>1 DEF PageRec
    <3>3. QED  BY <1>2, <1>6, <3>2 DEF PageAssumption, IInv, TypeOK
  <2>4. Once' /\ \A p \in Pages : Listed(p)' <=> (Listed(p) /\ p # q)
      BY <1>6, WithoutList DEF IInv, TypeOK, PInv, FreeOK
  <2>5. \A p \in Pages : ~Taken(p) /\ ~Taken(p)' /\ \A u \in Procs : ~TakenBy(u, p)
    <3>1. \A u \in Procs : ~Reusing(u)
        BY <1>2, NoTaken DEF PageAssumption, IInv
    <3>2. \A u \in Procs : ~Reusing(u)'
        BY <1>4, <2>2, <3>1 DEF Reusing, In
    <3>3. QED  BY <3>1, <3>2 DEF Taken, TakenBy
  <2>6. ASSUME NEW p \in Pages
        PROVE  page'[p].ref = page[p].ref - One(HeldBy(t, p)) + One(HeldBy(t, p)')
                                           - Cardinality(Mapped(p)) + Cardinality(Mapped(p))'
    <3>1. Cardinality(Mapped(p))' = Cardinality(Mapped(p)) - One(seg[s].map = p) + One(seg'[s].map = p)
        BY <2>1, MapStep
    <3>2. One(seg[s].map = p) = 0 /\ One(seg'[s].map = p) = (IF p = q THEN 1 ELSE 0)
        BY <1>2, <2>2 DEF One, PageAssumption
    <3>3. One(HeldBy(t, p)) = 0 /\ One(HeldBy(t, p)') = 0
        BY <1>4 DEF One
    <3>4. page[p].ref \in Nat
        BY DEF IInv, TypeOK, PageRec
    <3>5. page'[p].ref = page[p].ref + (IF p = q THEN 1 ELSE 0)
        BY <2>3, <3>4
    <3>6. Cardinality(Mapped(p)) \in Nat
        BY Counts
    <3>7. QED  BY <3>1, <3>2, <3>3, <3>4, <3>5, <3>6
  <2>7. \A p \in Pages : ~page'[p].alloc => page'[p].ref = 0
      BY <1>3, <2>3, Zenon DEF IInv, PInv, RefsOK
  <2>8. \A p \in Pages : Listed(p)' <=> (page'[p].alloc /\ page'[p].ref = 0 /\ ~Taken(p)')
      BY <2>3, <2>4, <2>5 DEF IInv, PInv, FreeOK
  <2>9. \A p \in Pages : Touched(p) =>
               /\ HeldBy(t, p) \/ Mapped(p) # {} \/ page[p].ref = 0 \/ page[p].image # Nil
               /\ \A u \in Procs : u # t => ~TakenBy(u, p)
      BY <2>3, <2>5 DEF Touched
  <2>10. HolderAt(t)'
      BY <1>4 DEF HolderAt
  <2>11. PInv'
      BY <2>2, <2>4, <2>6, <2>7, <2>8, <2>9, <2>10, PStep DEF IInv
  <2>12. QED  BY <1>2, <2>1, <2>11 DEF IInv
<1>7. QED  BY <1>2, <1>5, <1>6

\* dupseg() adds a reference to the text and shares the data, or copies it and
\* its reference to a page.
LEMMA ForkInv ==
    ASSUME PageAssumption, IInv, NEW t \in Procs, NEW u \in Procs, Fork(t, u)
    PROVE  IInv'
<1>1. TypeOK' /\ Control' /\ UNCHANGED <<free, hash, pga, pager, th, pc>>
    BY ForkControl DEF IInv, SInv
<1>2. PICK n \in Segs : Forked(t, u, n)
    BY ForkEffect DEF IInv, SInv
<1>3. /\ pc[t] = "idle" /\ own[t]["text"] \in Segs /\ own[t]["data"] \in Segs
      /\ seg[own[t]["text"]].lk = Nil /\ seg[own[t]["data"]].lk = Nil
    BY <1>2, ForkEffect, Zenon DEF IInv, SInv, Forked
<1> DEFINE x == own[t]["text"]
           d == own[t]["data"]
<1>4. SInv'
    BY ForkSegs DEF IInv
<1>5. /\ seg[x] \in SegRec /\ seg[d] \in SegRec
      /\ seg'[x].map = seg[x].map /\ seg'[x].lk = seg[x].lk
    BY <1>2, <1>3 DEF Forked, IInv, TypeOK, SegRec
<1>6. LockAt(t)'
    BY <1>1, <1>3 DEF LockAt, Locking, Reusing, In
<1>7. n # d => seg[n] = NoSeg /\ seg[n].map = Nil /\ seg[n].lk = Nil
  <2>1. n # d => seg[n].type = Nil
      BY <1>2 DEF Forked
  <2>2. n # d => seg[n] = NoSeg
      BY <2>1 DEF IInv, SInv, SegTypes
  <2>3. QED  BY <2>2 DEF NoSeg
<1>8. Locks'
  <2>1. ASSUME NEW s \in Segs
        PROVE  \/ seg'[s].lk = seg[s].lk /\ seg'[s].map = seg[s].map
               \/ seg[s].lk \in {Nil, t} \/ UsersOf(s) = {}
    <3>1. CASE s = x  BY <1>5, <3>1
    <3>2. CASE s = d  BY <1>3, <3>2
    <3>3. CASE s = n /\ n # d  BY <1>7, <3>3
    <3>4. CASE s # x /\ s # d /\ s # n
        BY <1>2, <3>4 DEF Forked
    <3>5. QED  BY <3>1, <3>2, <3>3, <3>4
  <2>2. QED  BY <1>1, <1>6, <2>1, LocksStep DEF IInv
<1>9. /\ \A v \in Procs : v # t => th'[v] = th[v] /\ pc'[v] = pc[v]
      /\ pc'[t] = pc[t] /\ th'[t].new = th[t].new /\ (Reusing(t)' <=> Reusing(t))
      /\ free' = free
    BY <1>1 DEF Reusing, In
<1>10. CASE n = d
  <2>1. seg'[d] = [seg[d] EXCEPT !.ref = @ + 1] /\ page' = page
        /\ \A s \in Segs : s # x /\ s # d => seg'[s] = seg[s]
      BY <1>2, <1>10 DEF Forked
  <2>2. seg'[d].map = seg[d].map
      BY <1>5, <2>1 DEF SegRec
  <2>3. \A s \in Segs : seg'[s].map = seg[s].map
      BY <1>5, <2>1, <2>2, Zenon
  <2>4. PInv'
      BY <1>9, <2>1, <2>3, UntouchedPages, PQuiet DEF IInv
  <2>5. QED  BY <1>1, <1>4, <1>8, <2>4 DEF IInv
<1>11. CASE n # d
  <2> DEFINE m == seg[d].map
  <2>1. /\ seg'[n] = [seg[d] EXCEPT !.ref = 1] /\ x # n
        /\ \A s \in Segs : s # x /\ s # n => seg'[s] = seg[s]
        /\ page' = IF m = Nil THEN page ELSE [page EXCEPT ![m].ref = @ + 1]
      BY <1>2, <1>11 DEF Forked
  <2>2. seg'[n].map = m /\ m \in Pages \union {Nil}
      BY <1>5, <2>1 DEF SegRec
  <2>3. \A s \in Segs : s # n => seg'[s].map = seg[s].map
      BY <1>5, <2>1
  <2>4. CASE m = Nil
    <3>1. \A s \in Segs : seg'[s].map = seg[s].map
        BY <1>7, <1>11, <2>2, <2>3, <2>4
    <3>2. PInv'
        BY <1>9, <2>1, <2>4, <3>1, UntouchedPages, PQuiet DEF IInv
    <3>3. QED  BY <1>1, <1>4, <1>8, <3>2 DEF IInv
  <2>5. CASE m # Nil
    <3> HIDE DEF m, x, d
    <3>1. m \in Pages /\ d \in Mapped(m)
        BY <1>3, <2>2, <2>5 DEF Mapped, m, d
    <3>2. /\ page'[m].ref = page[m].ref + 1 /\ page'[m].alloc = page[m].alloc
          /\ page'[m].image = page[m].image /\ page[m].ref \in Nat
          /\ \A p \in Pages : p # m => page'[p] = page[p]
      <4>1. page[m] \in PageRec /\ page'[m] = [page[m] EXCEPT !.ref = @ + 1]
            /\ \A p \in Pages : p # m => page'[p] = page[p]
          BY <2>1, <2>5, <3>1 DEF IInv, TypeOK
      <4>2. QED  BY <4>1 DEF PageRec
    <3>3. page[m].ref > 0 /\ page[m].alloc
      <4>1. Mapped(m) # {}
          BY <3>1
      <4>2. Cardinality(Mapped(m)) # 0 /\ Cardinality(Mapped(m)) \in Nat /\ Cardinality(Held(m)) \in Nat
          BY <4>1, PageCounts
      <4>3. page[m].ref = Cardinality(Held(m)) + Cardinality(Mapped(m))
          BY <3>1 DEF IInv, PInv, RefsOK
      <4>4. page[m].ref > 0
          BY <4>2, <4>3
      <4>5. QED  BY <3>1, <4>4 DEF IInv, PInv, RefsOK
    <3>4. \A p \in Pages : ~HeldBy(t, p) /\ ~HeldBy(t, p)'
        BY <1>1, <1>3 DEF HeldBy
    <3>5. ASSUME NEW p \in Pages
          PROVE  page'[p].ref = page[p].ref - One(HeldBy(t, p)) + One(HeldBy(t, p)')
                                             - Cardinality(Mapped(p)) + Cardinality(Mapped(p))'
      <4>1. Cardinality(Mapped(p))' = Cardinality(Mapped(p)) - One(seg[n].map = p) + One(seg'[n].map = p)
          BY <2>3, MapStep
      <4>2. One(seg[n].map = p) = 0 /\ One(seg'[n].map = p) = (IF p = m THEN 1 ELSE 0)
          BY <1>7, <1>11, <2>2 DEF One, PageAssumption, d
      <4>3. One(HeldBy(t, p)) = 0 /\ One(HeldBy(t, p)') = 0
          BY <3>4 DEF One
      <4>4. page[p].ref \in Nat
          BY DEF IInv, TypeOK, PageRec
      <4>5. page'[p].ref = page[p].ref + (IF p = m THEN 1 ELSE 0)
          BY <3>2, <4>4
      <4>6. Cardinality(Mapped(p)) \in Nat
          BY Counts
      <4>7. QED  BY <4>1, <4>2, <4>3, <4>4, <4>5, <4>6
    <3>6. \A p \in Pages : ~page'[p].alloc => page'[p].ref = 0
        BY <3>2, <3>3, Zenon DEF IInv, PInv, RefsOK
    <3>7. Once' /\ \A p \in Pages : (Listed(p)' <=> Listed(p)) /\ (Taken(p)' <=> Taken(p))
        BY <1>1 DEF IInv, PInv, FreeOK, Once, Listed, Taken, Reusing, In
    <3>8. \A p \in Pages : Listed(p)' <=> (page'[p].alloc /\ page'[p].ref = 0 /\ ~Taken(p)')
        BY <3>2, <3>3, <3>7 DEF IInv, PInv, FreeOK
    <3>9. \A v \in Procs : ~TakenBy(v, m)
      <4>1. ASSUME NEW v \in Procs, TakenBy(v, m) PROVE FALSE
        <5>1. page[m].ref = 0
            BY <4>1 DEF TakenBy, IInv, PInv, HoldersOK
        <5>2. QED  BY <3>3, <5>1
      <4>2. QED  BY <4>1
    <3>10. \A p \in Pages : Touched(p) =>
               /\ HeldBy(t, p) \/ Mapped(p) # {} \/ page[p].ref = 0 \/ page[p].image # Nil
               /\ \A v \in Procs : v # t => ~TakenBy(v, p)
        BY <3>1, <3>2, <3>9 DEF Touched
    <3>11. HolderAt(t)'
        BY <1>1, <1>3 DEF HolderAt, Reusing, In
    <3>12. PInv'
        BY <1>9, <3>5, <3>6, <3>7, <3>8, <3>10, <3>11, PStep DEF IInv
    <3>13. QED  BY <1>1, <1>4, <1>8, <3>12 DEF IInv
  <2>6. QED  BY <2>4, <2>5
<1>12. QED  BY <1>10, <1>11

\* In the beginning there are no segments and every page is unallocated.
LEMMA InitInv ==
    ASSUME PageAssumption, Init
    PROVE  IInv
<1>1. /\ page = [p \in Pages |-> NoPage] /\ free = << >> /\ hash = {} /\ pga = Nil /\ pager = Nil
      /\ image = [i \in Images |-> NoImage] /\ seg = [s \in Segs |-> NoSeg]
      /\ own = [t \in Procs |-> NoSegs] /\ tlb = [t \in Procs |-> Unmapped]
      /\ th = [t \in Procs |-> NoLocals] /\ pc = [t \in Procs |-> "idle"]
    BY DEF Init
<1>2. NoLocals \in Locals /\ NoSeg \in SegRec /\ NoPage \in PageRec
    BY Records
<1>3. NoImage \in ImageRec /\ NoSegs \in [Types -> Segs \union {Nil}]
      /\ Unmapped \in [page : Pages \union {Nil}, rights : Rights] /\ "idle" \in Labels
    BY DEF NoImage, ImageRec, NoSegs, Unmapped, Rights, Labels
<1>4. TypeOK
    BY <1>1, <1>2, <1>3 DEF TypeOK
<1>5. \A t \in Procs : /\ pc[t] = "idle" /\ th[t].todo = << >> /\ th[t].then = Nil
                       /\ th[t].src = Nil /\ th[t].new = Nil
                       /\ own[t]["text"] = Nil /\ own[t]["data"] = Nil
    BY <1>1 DEF NoLocals, NoSegs, Types
<1>6. Control
    BY <1>1, <1>5 DEF Control, ControlAt, In, Dropped, Reusing, Reclaiming, Faulting, PageAssumption
<1>7. \A s \in Segs : UsersOf(s) = {}
    BY <1>5 DEF UsersOf, Uses, PageAssumption
<1>8. SInv
  <2>1. SegsCounted
      BY <1>1, <1>7, FS_EmptySet, Zenon DEF SegsCounted, NoSeg
  <2>2. Droppers
      BY <1>5 DEF Droppers, Dropped, In
  <2>3. SegTypes
      BY <1>1, <1>5 DEF SegTypes, TodoAt, NoSeg, NoImage, Types
  <2>4. QED  BY <2>1, <2>2, <2>3 DEF SInv
<1>9. Locks
    BY <1>5 DEF Locks, LockAt, Locking, Reusing, In
<1>10. PInv
  <2>1. \A p \in Pages : ~Taken(p)
      BY <1>5 DEF Taken, Reusing, In
  <2>2. FreeOK
      BY <1>1, <2>1 DEF FreeOK, Once, Listed, NoPage
  <2>3. \A p \in Pages : Held(p) = {} /\ Mapped(p) = {}
      BY <1>1, <1>5 DEF Held, Mapped, NoSeg, PageAssumption
  <2>4. RefsOK
    <3>1. \A p \in Pages : Cardinality(Held(p)) = 0 /\ Cardinality(Mapped(p)) = 0
        BY <2>3, FS_EmptySet
    <3>2. \A p \in Pages : page[p].ref = 0
        BY <1>1 DEF NoPage
    <3>3. QED  BY <3>1, <3>2 DEF RefsOK
  <2>5. HoldersOK
      BY <1>5 DEF HoldersOK, Reusing, In
  <2>6. QED  BY <2>2, <2>4, <2>5 DEF PInv
<1>11. QED  BY <1>4, <1>6, <1>8, <1>9, <1>10 DEF IInv

\* Nothing happens where the model stops.
LEMMA StutterInv ==
    ASSUME IInv, UNCHANGED vars
    PROVE  IInv'
<1>1. UNCHANGED <<page, free, hash, pga, image, seg, pager, own, tlb, th, pc>>
    BY DEF vars
<1>2. TypeOK'
    BY <1>1 DEF IInv, TypeOK
<1>3. \A t \in Procs : /\ In(t)' = In(t) /\ Dropped(t)' = Dropped(t)
                       /\ Reusing(t)' = Reusing(t) /\ Reclaiming(t)' = Reclaiming(t)
                       /\ Faulting(t)' = Faulting(t) /\ Locking(t)' = Locking(t)
    BY <1>1 DEF In, Dropped, Reusing, Reclaiming, Faulting, Locking
<1>4. Control'
    BY <1>1, <1>3 DEF IInv, Control, ControlAt
<1>5. \A s \in Segs \union {Nil} : UsersOf(s)' = UsersOf(s)
    BY <1>1, <1>3 DEF UsersOf, Uses
<1>6. SInv'
  <2>1. SegsCounted'
      BY <1>1, <1>5 DEF IInv, SInv, SegsCounted
  <2>2. Droppers' /\ SegTypes'
      BY <1>1 DEF IInv, SInv, Droppers, SegTypes, TodoAt, UsersOf, Uses, Dropped, In
  <2>3. QED  BY <2>1, <2>2 DEF SInv
<1>7. Locks'
    BY <1>1, <1>3 DEF IInv, Locks, LockAt
<1>8. PInv'
  <2>1. FreeOK'
      BY <1>1 DEF IInv, PInv, FreeOK, Once, Listed, Taken, Reusing, In
  <2>2. RefsOK'
    <3>1. \A p \in Pages : Held(p)' = Held(p) /\ Mapped(p)' = Mapped(p)
        BY <1>1 DEF Held, Mapped
    <3>2. QED  BY <1>1, <3>1 DEF IInv, PInv, RefsOK
  <2>3. HoldersOK'
      BY <1>1 DEF IInv, PInv, HoldersOK, Reusing, In
  <2>4. QED  BY <2>1, <2>2, <2>3 DEF PInv
<1>9. QED  BY <1>2, <1>4, <1>6, <1>7, <1>8 DEF IInv

\* Every step keeps the invariant, as long as the model stops where a page is lost.
LEMMA NextInv ==
    ASSUME PageAssumption, "page" \in StopAt, IInv, [Next]_vars
    PROVE  IInv'
<1>1. CASE UNCHANGED vars
    BY <1>1, StutterInv
<1>2. CASE Halt
    BY <1>2, StutterInv DEF Halt
<1>3. ASSUME NEW t \in Procs,
             \/ NewpageReuse(t) \/ NewpageAlloc(t) \/ NewpageKick(t) \/ Kickpager(t)
             \/ Putimage(t) \/ PutimageUnname(t) \/ PutimageUnhash(t)
             \/ Exec(t) \/ Imagereclaim(t) \/ Pagereclaim(t) \/ Attach(t)
      PROVE  IInv'
    BY <1>3, ReuseInv, AllocInv, KickInv, KickpagerInv, PutimageInv, UnnameInv, UnhashInv, ExecInv,
       ImagereclaimInv, PagereclaimInv, AttachInv
<1>4. ASSUME NEW t \in Procs,
             \/ Release(t) \/ Putseg(t) \/ Freepte(t)
             \/ \E u \in Procs : Fork(t, u)
      PROVE  IInv'
    BY <1>4, ReleaseInv, PutsegInv, FreepteInv, ForkInv
<1>5. ASSUME NEW t \in Procs,
             \/ Fault(t) \/ Lookpage(t) \/ Read(t) \/ ReadFails(t) \/ Copy(t)
             \/ Mmuput(t) \/ Store(t)
             \/ Pageout(t) \/ Tryalloc(t) \/ Freepages(t) \/ NoMemory(t)
      PROVE  IInv'
    BY <1>5, FaultInv, LookpageInv, ReadInv, ReadFailsInv, CopyInv, MmuputInv, StoreInv,
       PageoutInv, TryallocInv, FreepagesInv, NoMemoryInv
<1>6. QED  BY <1>1, <1>2, <1>3, <1>4, <1>5 DEF Next

\* The list has a page once or not at all.
LEMMA ListedCount ==
    ASSUME TypeOK, Once, NEW p \in Pages
    PROVE  Cardinality({i \in DOMAIN free : free[i] = p}) = IF Listed(p) THEN 1 ELSE 0
<1>1. DOMAIN free = 1 .. Len(free)
    BY DEF TypeOK
<1>2. CASE Listed(p)
  <2>1. PICK k \in 1 .. Len(free) : free[k] = p
      BY <1>2 DEF Listed
  <2>2. {i \in DOMAIN free : free[i] = p} = {k}
      BY <1>1, <2>1 DEF Once
  <2>3. QED  BY <1>2, <2>2, FS_Singleton, Zenon
<1>3. CASE ~Listed(p)
  <2>1. {i \in DOMAIN free : free[i] = p} = {}
      BY <1>1, <1>3 DEF Listed
  <2>2. QED  BY <1>3, <2>1, FS_EmptySet
<1>4. QED  BY <1>2, <1>3

\* The invariant implies the property.
LEMMA InvCounted ==
    ASSUME PageAssumption, IInv
    PROVE  PagesCounted
<1> SUFFICES ASSUME NEW p \in Pages, page[p].alloc
             PROVE  /\ page[p].ref = Cardinality(Held(p)) + Cardinality(Mapped(p))
                    /\ Leaving(p) \/ Cardinality({i \in DOMAIN free : free[i] = p}) =
                                        IF page[p].ref = 0 THEN 1 ELSE 0
    BY DEF PagesCounted
<1>1. page[p].ref = Cardinality(Held(p)) + Cardinality(Mapped(p))
    BY DEF IInv, PInv, RefsOK
<1>2. Taken(p) => Leaving(p)
    BY DEF Taken, Leaving, IInv, Control, ControlAt, Reusing, In
<1>3. CASE Taken(p)
    BY <1>1, <1>2, <1>3
<1>4. CASE ~Taken(p)
  <2>1. Listed(p) <=> page[p].ref = 0
      BY <1>4 DEF IInv, PInv, FreeOK
  <2>2. QED  BY <1>1, <2>1, ListedCount DEF IInv, PInv, FreeOK
<1>5. QED  BY <1>3, <1>4

\* The inductive invariant holds in every reachable state, up to where a page that
\* the cache refers to was freed (PageLost).
THEOREM PageInvariance == "page" \in StopAt => (Spec => []IInv)
<1> SUFFICES ASSUME "page" \in StopAt PROVE Spec => []IInv
    OBVIOUS
<1>1. Init => IInv
    BY PageConstants, InitInv
<1>2. IInv /\ [Next]_vars => IInv'
    BY PageConstants, NextInv
<1>3. QED  BY <1>1, <1>2, PTL DEF Spec

(***************************************************************************)
(* newpage(), putpage(), lookpage(), the faults, fork and the pager, up to *)
(* where the pager frees a page of the cache: a page's references are the  *)
(* segments and the faults that have it, and the free list has it, once,   *)
(* exactly when there are none.                                            *)
(***************************************************************************)
THEOREM PageReferences == "page" \in StopAt => (Spec => []PagesCounted)
<1> SUFFICES ASSUME "page" \in StopAt PROVE Spec => []PagesCounted
    OBVIOUS
<1>1. IInv => PagesCounted
    BY PageConstants, InvCounted
<1>2. QED  BY PageInvariance, <1>1, PTL

(***************************************************************************)
(* putseg(), dupseg() and attachimage(): the references of a segment are   *)
(* the processes that have it or are yet to put it, and a segment that has *)
(* none is freed by one process, which nobody else finds.                  *)
(***************************************************************************)
THEOREM SegmentReferences == "page" \in StopAt => (Spec => [](SegsCounted /\ Droppers))
<1> SUFFICES ASSUME "page" \in StopAt PROVE Spec => [](SegsCounted /\ Droppers)
    OBVIOUS
<1>1. IInv => SegsCounted /\ Droppers
    BY DEF IInv, SInv
<1>2. QED  BY PageInvariance, <1>1, PTL
=============================================================================
