----------------------------- MODULE SyncProofs -----------------------------
(***************************************************************************)
(* Proofs, for any number of processes, of the safety properties of        *)
(* Semaphore and, in the second part, of Rendezvous.                       *)
(***************************************************************************)
EXTENDS MCSync, FiniteSetTheorems, SequenceTheorems, TLAPS

\* tsemacquire()'s timeouts fit an int: its ulong argument is kept in one.
IntTimeouts == Timeouts \subseteq 0 .. IntMax

\* The processes that have taken a unit and not yet returned.
Held == {p \in Acquirers : acquired[p]}

(***************************************************************************)
(* The inductive invariant, in parts.  Units are in the semaphore or held. *)
(***************************************************************************)
Units == owed = value + Cardinality(Held)

\* A process has acquired only on its way out of the call.
Acquiring ==
    \A p \in Acquirers : acquired[p] =>
        pc[p] \in {"dequeue", "pass", "scan", "wake", "return"}

\* Time is left, or there is no limit, for a process that still tries, and
\* for one that has acquired.
Times ==
    \A p \in Acquirers :
        pc[p] \in {"queue", "waiting", "try", "sleep", "asleep"} \/ acquired[p] =>
            ms[p] = Forever \/ ms[p] > 0

InLine == {"waiting", "try", "sleep", "asleep", "back", "dequeue"}

\* The list has processes between semqueue() and semdequeue(), each once.
Line ==
    /\ \A i \in 1 .. Len(list) : pc[list[i]] \in InLine
    /\ \A i, j \in 1 .. Len(list) : list[i] = list[j] => i = j

\* Whoever is in the middle of the list holds its lock, and only semwakeup()
\* holds it over a step.
Scanning ==
    /\ \A t \in Threads : pc[t] = "wake" => lock = t /\ pos[t] <= Len(list)
    /\ \A t \in Threads : lock = t => pc[t] \in {"scan", "wake"} /\ pos[t] >= 1
    /\ \A t \in Threads : pc[t] = "wake" => n[t] > 0
    /\ \A t \in Releasers : pc[t] \in {"idle", "scan", "wake"}

IInv == TypeOK /\ Units /\ Acquiring /\ Times /\ Line /\ Scanning

USE ConstantsAssumption DEF IInv, Threads, Forever, Pcs, Goto, InLine

----------------------------------------------------------------------------
\* Finitely many processes hold units.
LEMMA HeldFinite == IsFiniteSet(Held) /\ Cardinality(Held) \in Nat
BY FS_Subset, FS_CardinalityType DEF Held

\* Unlinking the i-th Sema, as semdequeue() does.
LEMMA Unlinked ==
    ASSUME NEW s \in Seq(Acquirers), NEW i \in 1 .. Len(s)
    PROVE  /\ RemoveAt(s, i) \in Seq(Acquirers)
           /\ Len(s) \in Nat /\ Len(RemoveAt(s, i)) = Len(s) - 1
           /\ \A j \in 1 .. Len(s) - 1 :
                 RemoveAt(s, i)[j] = (IF j < i THEN s[j] ELSE s[j + 1])
<1> DEFINE a == SubSeq(s, 1, i - 1)
           b == SubSeq(s, i + 1, Len(s))
<1>1. /\ a \in Seq(Acquirers) /\ Len(a) = i - 1
      /\ \A j \in 1 .. i - 1 : a[j] = s[j]
    OBVIOUS
<1>2. /\ b \in Seq(Acquirers) /\ Len(b) = Len(s) - i
      /\ \A j \in 1 .. Len(s) - i : b[j] = s[j + i]
    OBVIOUS
<1>3. RemoveAt(s, i) = a \o b
    BY DEF RemoveAt
<1> HIDE DEF a, b
<1>4. /\ a \o b \in Seq(Acquirers) /\ Len(a \o b) = Len(a) + Len(b)
      /\ \A j \in 1 .. Len(a) + Len(b) :
            (a \o b)[j] = IF j <= Len(a) THEN a[j] ELSE b[j - Len(a)]
    BY <1>1, <1>2, ConcatProperties, ZenonT(40)
<1>5. Len(s) \in Nat /\ Len(a) + Len(b) = Len(s) - 1
    BY <1>1, <1>2
<1>6. ASSUME NEW j \in 1 .. Len(s) - 1
      PROVE  (a \o b)[j] = (IF j < i THEN s[j] ELSE s[j + 1])
  <2>1. CASE j < i
      BY <1>1, <1>4, <1>5, <2>1
  <2>2. CASE ~(j < i)
    <3>1. j - Len(a) \in 1 .. Len(s) - i /\ j - Len(a) + i = j + 1 /\ ~(j <= Len(a))
        BY <1>1, <1>5, <2>2
    <3>2. QED  BY <1>2, <1>4, <1>5, <2>2, <3>1
  <2>3. QED  BY <2>1, <2>2
<1>7. QED  BY <1>3, <1>4, <1>5, <1>6

\* What is in the list is a process.
LEMMA ListFacts ==
    ASSUME TypeOK
    PROVE  Len(list) \in Nat /\ \A i \in 1 .. Len(list) : list[i] \in Acquirers
BY DEF TypeOK

\* A process that moves on by itself, in line or out of it, disturbs nobody.
LEMMA Alone ==
    ASSUME IInv, NEW p \in Acquirers, NEW l \in Pcs,
           pc[p] \notin {"scan", "wake"}, l # "wake", pc[p] \in InLine => l \in InLine,
           pc' = [pc EXCEPT ![p] = l], UNCHANGED <<list, lock, pos>>,
           \A t \in Threads : t # p => n'[t] = n[t]
    PROVE  Line' /\ Scanning'
<1>1. /\ pc'[p] = l
      /\ \A t \in Threads : t # p => pc'[t] = pc[t]
    BY DEF TypeOK
<1>2. lock # p
    BY DEF Scanning
<1>3. Line'
    BY <1>1, ListFacts DEF Line
<1>4. Scanning'
    BY <1>1, <1>2 DEF Scanning
<1>5. QED  BY <1>3, <1>4

----------------------------------------------------------------------------
(* One lemma per action, one step per part of the invariant.               *)

\* Preserved by canacquire() succeeding at once.
LEMMA AcquireNowStep ==
    ASSUME IntTimeouts, IInv, NEW p \in Acquirers, AcquireNow(p)
    PROVE  IInv'
<1>1. Held' = Held
    BY DEF AcquireNow, Held
<1>2. TypeOK'
    BY HeldFinite, SMTT(40) DEF AcquireNow, TypeOK, Units
<1>3. Units'
    BY <1>1, HeldFinite DEF AcquireNow, TypeOK, Units
<1>4. Acquiring'
    BY DEF AcquireNow, TypeOK, Acquiring
<1>5. Times'
    BY DEF AcquireNow, TypeOK, Times, Acquiring
<1>6. Line'
    BY ListFacts DEF AcquireNow, TypeOK, Line, Scanning
<1>7. Scanning'
    BY ListFacts DEF AcquireNow, TypeOK, Line, Scanning
<1>8. QED  BY <1>2, <1>3, <1>4, <1>5, <1>6, <1>7

\* Preserved by a call that blocks.
LEMMA AcquireBlockStep ==
    ASSUME IntTimeouts, IInv, NEW p \in Acquirers, NEW t \in Timeouts \union {Forever}, AcquireBlock(p, t)
    PROVE  IInv'
<1>1. Held' = Held
    BY DEF AcquireBlock, Held, Acquiring, TypeOK
<1>2. TypeOK'
    BY DEF AcquireBlock, AsInt, TypeOK
<1>3. Units'
    BY <1>1, HeldFinite DEF AcquireBlock, TypeOK, Units
<1>4. Acquiring'
    BY DEF AcquireBlock, AsInt, TypeOK, Acquiring
<1>5. Times'
    BY DEF AcquireBlock, AsInt, TypeOK, Times, Acquiring, IntTimeouts
<1>6. pc' = [pc EXCEPT ![p] = "queue"]
    BY DEF AcquireBlock
<1>7. Line' /\ Scanning'
    BY <1>6, Alone DEF AcquireBlock, TypeOK
<1>8. QED  BY <1>2, <1>3, <1>4, <1>5, <1>7

\* Preserved by semqueue().
LEMMA semqueueStep ==
    ASSUME IntTimeouts, IInv, NEW p \in Acquirers, semqueue(p)
    PROVE  IInv'
<1>1. /\ Len(list') = Len(list) + 1 /\ list' \in Seq(Acquirers)
      /\ \A i \in 1 .. Len(list) : list'[i] = list[i]
      /\ list'[Len(list) + 1] = p
    BY DEF semqueue, TypeOK
<1>2. \A i \in 1 .. Len(list) : list[i] # p
    BY DEF semqueue, Line
<1>3. Held' = Held
    BY DEF semqueue, Held
<1>4. TypeOK'
    BY <1>1 DEF semqueue, TypeOK
<1>5. Units'
    BY <1>3, HeldFinite DEF semqueue, TypeOK, Units
<1>6. Acquiring'
    BY DEF semqueue, TypeOK, Acquiring
<1>7. Times'
    BY DEF semqueue, TypeOK, Times, Acquiring
<1>8. Line'
    BY <1>1, ListFacts, <1>2 DEF semqueue, TypeOK, Line, Scanning
<1>9. Scanning'
    BY <1>1, ListFacts, <1>2 DEF semqueue, TypeOK, Line, Scanning
<1>10. QED  BY <1>4, <1>5, <1>6, <1>7, <1>8, <1>9

\* Preserved by phore.waiting = 1.
LEMMA SetWaitingStep ==
    ASSUME IntTimeouts, IInv, NEW p \in Acquirers, SetWaiting(p)
    PROVE  IInv'
<1>1. Held' = Held
    BY DEF SetWaiting, Held
<1>2. TypeOK'
    BY DEF SetWaiting, TypeOK
<1>3. Units'
    BY <1>1, HeldFinite DEF SetWaiting, TypeOK, Units
<1>4. Acquiring'
    BY DEF SetWaiting, TypeOK, Acquiring
<1>5. Times'
    BY DEF SetWaiting, TypeOK, Times, Acquiring
<1>6. pc' = [pc EXCEPT ![p] = "try"]
    BY DEF SetWaiting
<1>7. Line' /\ Scanning'
    BY <1>6, Alone DEF SetWaiting, TypeOK
<1>8. QED  BY <1>2, <1>3, <1>4, <1>5, <1>7

\* Preserved by the second canacquire().
LEMMA TryAgainStep ==
    ASSUME IntTimeouts, IInv, NEW p \in Acquirers, TryAgain(p)
    PROVE  IInv'
<1>1. \/ /\ value > 0 /\ value' = value - 1 /\ acquired' = [acquired EXCEPT ![p] = TRUE]
         /\ pc' = [pc EXCEPT ![p] = "dequeue"]
      \/ /\ UNCHANGED <<value, acquired>>
         /\ pc' = [pc EXCEPT ![p] = "sleep"]
    BY DEF TryAgain
<1>2. Cardinality(Held') = Cardinality(Held) + (value - value')
  <2>1. CASE value' = value - 1 /\ acquired' = [acquired EXCEPT ![p] = TRUE]
    <3>1. p \notin Held
        BY DEF TryAgain, Held, Acquiring
    <3>2. Held' = Held \union {p}
        BY <2>1 DEF Held, TypeOK
    <3>3. Cardinality(Held') = Cardinality(Held) + 1
        BY <3>1, <3>2, HeldFinite, FS_AddElement
    <3>4. QED  BY <2>1, <3>3, HeldFinite DEF TypeOK
  <2>2. CASE UNCHANGED <<value, acquired>>
    <3>1. Held' = Held
        BY <2>2 DEF Held
    <3>2. QED  BY <2>2, <3>1, HeldFinite DEF TypeOK
  <2>3. QED  BY <1>1, <2>1, <2>2
<1>3. TypeOK'
  <2>1. value' \in 0 .. MaxValue
      BY <1>1 DEF TypeOK
  <2>2. acquired' \in [Acquirers -> BOOLEAN]
      BY <1>1 DEF TypeOK
  <2>3. pc' \in [Threads -> Pcs]
      BY <1>1 DEF TypeOK
  <2>4. QED  BY <2>1, <2>2, <2>3 DEF TryAgain, TypeOK
<1>4. Units'
    BY <1>1, <1>2, HeldFinite DEF TryAgain, TypeOK, Units
<1>5. Acquiring'
    BY DEF TryAgain, TypeOK, Acquiring
<1>6. Times'
    BY DEF TryAgain, TypeOK, Times, Acquiring
<1>7. \E l \in {"dequeue", "sleep"} : pc' = [pc EXCEPT ![p] = l]
    BY DEF TryAgain
<1>8. Line' /\ Scanning'
    BY <1>7, Alone DEF TryAgain, TypeOK
<1>9. QED  BY <1>3, <1>4, <1>5, <1>6, <1>8

\* Preserved by sleep() or tsleep().
LEMMA SleepStep ==
    ASSUME IntTimeouts, IInv, NEW p \in Acquirers, Sleep(p)
    PROVE  IInv'
<1>1. Held' = Held
    BY DEF Sleep, Held
<1>2. TypeOK'
    BY DEF Sleep, TypeOK
<1>3. Units'
    BY <1>1, HeldFinite DEF Sleep, TypeOK, Units
<1>4. Acquiring'
    BY DEF Sleep, TypeOK, Acquiring
<1>5. Times'
    BY DEF Sleep, TypeOK, Times, Acquiring
<1>6. \E l \in {"asleep", "back"} : pc' = [pc EXCEPT ![p] = l]
    BY DEF Sleep
<1>7. Line' /\ Scanning'
    BY <1>6, Alone DEF Sleep, TypeOK
<1>8. QED  BY <1>2, <1>3, <1>4, <1>5, <1>7

\* Preserved by tsleep()'s timer.
LEMMA TimeoutStep ==
    ASSUME IntTimeouts, IInv, NEW p \in Acquirers, Timeout(p)
    PROVE  IInv'
<1>1. Held' = Held
    BY DEF Timeout, Held
<1>2. TypeOK'
    BY DEF Timeout, TypeOK
<1>3. Units'
    BY <1>1, HeldFinite DEF Timeout, TypeOK, Units
<1>4. Acquiring'
    BY DEF Timeout, TypeOK, Acquiring
<1>5. Times'
    BY DEF Timeout, TypeOK, Times, Acquiring
<1>6. pc' = [pc EXCEPT ![p] = "back"]
    BY DEF Timeout
<1>7. Line' /\ Scanning'
    BY <1>6, Alone DEF Timeout, TypeOK
<1>8. QED  BY <1>2, <1>3, <1>4, <1>5, <1>7

\* Preserved by a note.
LEMMA postnoteStep ==
    ASSUME IntTimeouts, IInv, NEW p \in Acquirers, postnote(p)
    PROVE  IInv'
<1>1. Held' = Held
    BY DEF postnote, Held
<1>2. TypeOK'
    BY DEF postnote, TypeOK
<1>3. Units'
    BY <1>1, HeldFinite DEF postnote, TypeOK, Units
<1>4. Acquiring'
    BY DEF postnote, TypeOK, Acquiring
<1>5. Times'
    BY DEF postnote, TypeOK, Times, Acquiring
<1>6. Line'
    BY ListFacts DEF postnote, TypeOK, Line, Scanning
<1>7. Scanning'
    BY ListFacts DEF postnote, TypeOK, Line, Scanning
<1>8. QED  BY <1>2, <1>3, <1>4, <1>5, <1>6, <1>7

\* Preserved by the return of sleep().
LEMMA SleepBackStep ==
    ASSUME IntTimeouts, IInv, NEW p \in Acquirers, NEW e \in Elapsed, SleepBack(p, e)
    PROVE  IInv'
<1>1. PICK l \in {"waiting", "dequeue"}, m \in (-IntMax - 1 .. IntMax) \union {Forever} :
         /\ pc' = [pc EXCEPT ![p] = l] /\ ms' = [ms EXCEPT ![p] = m]
         /\ noted' \in [Acquirers -> BOOLEAN]
         /\ l = "waiting" => m = Forever \/ m > 0
  <2>1. CASE noted[p]
    <3>1. /\ pc' = [pc EXCEPT ![p] = "dequeue"]
          /\ ms[p] \in (-IntMax - 1 .. IntMax) \union {Forever}
          /\ ms' = [ms EXCEPT ![p] = ms[p]] /\ noted' \in [Acquirers -> BOOLEAN]
        BY <2>1 DEF SleepBack, TypeOK
    <3>2. QED  BY <3>1
  <2>2. CASE ~noted[p]
    <3> DEFINE left == IF ms[p] = Forever \/ ms[p] <= 0 THEN ms[p] ELSE ms[p] - e
    <3>1. left \in (-IntMax - 1 .. IntMax) \union {Forever}
        BY DEF TypeOK, Elapsed
    <3>2. /\ ms' = [ms EXCEPT ![p] = left] /\ noted' \in [Acquirers -> BOOLEAN]
          /\ pc' = [pc EXCEPT ![p] = IF left = Forever \/ left > 0 THEN "waiting" ELSE "dequeue"]
        BY <2>2 DEF SleepBack, TypeOK
    <3> HIDE DEF left
    <3>3. CASE left = Forever \/ left > 0
        BY <3>1, <3>2, <3>3
    <3>4. CASE ~(left = Forever \/ left > 0)
        BY <3>1, <3>2, <3>4
    <3>5. QED  BY <3>3, <3>4
  <2>3. QED  BY <2>1, <2>2
<1>2. Held' = Held
    BY DEF SleepBack, Held
<1>3. TypeOK'
    BY <1>1 DEF SleepBack, TypeOK
<1>4. Units'
    BY <1>2, HeldFinite DEF SleepBack, TypeOK, Units
<1>5. Acquiring' /\ ~acquired[p]
    BY <1>1 DEF SleepBack, TypeOK, Acquiring
<1>6. Times'
    BY <1>1, <1>5 DEF SleepBack, TypeOK, Times
<1>7. Line' /\ Scanning'
    BY <1>1, Alone DEF SleepBack, TypeOK
<1>8. QED  BY <1>3, <1>4, <1>5, <1>6, <1>7

\* Preserved by semdequeue().
LEMMA semdequeueStep ==
    ASSUME IntTimeouts, IInv, NEW p \in Acquirers, semdequeue(p)
    PROVE  IInv'
<1>1. PICK i \in 1 .. Len(list) : list[i] = p /\ list' = RemoveAt(list, i)
    BY ListFacts DEF semdequeue, TypeOK
<1>2. /\ list' \in Seq(Acquirers) /\ Len(list') = Len(list) - 1
      /\ \A j \in 1 .. Len(list') :
            list'[j] = (IF j < i THEN list[j] ELSE list[j + 1])
    BY <1>1, Unlinked, ZenonT(40) DEF TypeOK
<1>3. \A j \in 1 .. Len(list') : \E k \in 1 .. Len(list) :
         /\ k = (IF j < i THEN j ELSE j + 1)
         /\ k # i /\ list'[j] = list[k] /\ list[k] # p
    BY ListFacts, <1>1, <1>2 DEF Line
<1>4. \A t \in Threads : pc[t] # "wake" /\ lock # t
    BY DEF semdequeue, Scanning
<1>5. pc' = [pc EXCEPT ![p] = "pass"]
    BY DEF semdequeue
<1>6. Held' = Held
    BY DEF semdequeue, Held
<1>7. TypeOK'
    BY <1>2 DEF semdequeue, TypeOK
<1>8. Units'
    BY <1>6, HeldFinite DEF semdequeue, TypeOK, Units
<1>9. Acquiring'
    BY DEF semdequeue, TypeOK, Acquiring
<1>10. Times'
    BY DEF semdequeue, TypeOK, Times, Acquiring
<1>11. Line'
  <2>1. ASSUME NEW j \in 1 .. Len(list') PROVE pc'[list'[j]] \in InLine
      BY <2>1, <1>3, <1>5, ListFacts DEF TypeOK, Line
  <2>2. ASSUME NEW j \in 1 .. Len(list'), NEW k \in 1 .. Len(list'), list'[j] = list'[k]
        PROVE  j = k
    <3>1. (IF j < i THEN j ELSE j + 1) = (IF k < i THEN k ELSE k + 1)
        BY <2>2, <1>3 DEF Line
    <3>2. QED  BY <3>1, <1>2, ListFacts
  <2>3. QED  BY <2>1, <2>2 DEF Line
<1>12. Scanning'
    BY ListFacts, <1>3, <1>4, <1>5 DEF semdequeue, TypeOK, Line, Scanning
<1>13. QED  BY <1>7, <1>8, <1>9, <1>10, <1>11, <1>12

\* Preserved by the test of phore.waiting at the end.
LEMMA PassOnStep ==
    ASSUME IntTimeouts, IInv, NEW p \in Acquirers, PassOn(p)
    PROVE  IInv'
<1>1. Held' = Held
    BY DEF PassOn, Held
<1>2. TypeOK'
  <2>1. n' \in [Threads -> Nat] /\ pc' \in [Threads -> Pcs]
    <3>1. CASE waiting[p]
        BY <3>1 DEF PassOn, TypeOK
    <3>2. CASE ~waiting[p]
      <4>1. n' = [n EXCEPT ![p] = 1] /\ pc' = [pc EXCEPT ![p] = "scan"]
          BY <3>2 DEF PassOn
      <4>2. QED  BY <4>1 DEF TypeOK
    <3>3. QED  BY <3>1, <3>2
  <2>2. QED  BY <2>1 DEF PassOn, TypeOK
<1>3. Units'
    BY <1>1, HeldFinite DEF PassOn, TypeOK, Units
<1>4. Acquiring'
    BY DEF PassOn, TypeOK, Acquiring
<1>5. Times'
    BY DEF PassOn, TypeOK, Times, Acquiring
<1>6. \E l \in {"return", "scan"} : pc' = [pc EXCEPT ![p] = l]
    BY DEF PassOn
<1>7. Line' /\ Scanning'
    BY <1>6, Alone DEF PassOn, TypeOK
<1>8. QED  BY <1>2, <1>3, <1>4, <1>5, <1>7

\* Preserved by the return from the system call.
LEMMA AcquireReturnStep ==
    ASSUME IntTimeouts, IInv, NEW p \in Acquirers, AcquireReturn(p)
    PROVE  IInv'
<1>1. acquired[p] => Cardinality(Held) > 0 /\ Cardinality(Held') = Cardinality(Held) - 1
  <2> SUFFICES ASSUME acquired[p]
               PROVE  Cardinality(Held) > 0 /\ Cardinality(Held') = Cardinality(Held) - 1
    OBVIOUS
  <2>1. p \in Held /\ Held' = Held \ {p}
      BY DEF AcquireReturn, Held, TypeOK
  <2>2. QED  BY <2>1, HeldFinite, FS_RemoveElement, FS_EmptySet
<1>2. ~acquired[p] => Held' = Held
    BY DEF AcquireReturn, Held, TypeOK
<1>3. owed' = IF acquired[p] THEN owed - 1 ELSE owed
    BY DEF AcquireReturn, Times, TypeOK
<1>4. TypeOK'
    BY <1>1, <1>3, HeldFinite, SMTT(40) DEF AcquireReturn, TypeOK, Units
<1>5. Units'
    BY <1>1, <1>2, <1>3, HeldFinite DEF AcquireReturn, TypeOK, Units
<1>6. Acquiring'
    BY DEF AcquireReturn, TypeOK, Acquiring
<1>7. Times'
    BY DEF AcquireReturn, TypeOK, Times, Acquiring
<1>8. pc' = [pc EXCEPT ![p] = "idle"]
    BY DEF AcquireReturn
<1>9. Line' /\ Scanning'
    BY <1>8, Alone DEF AcquireReturn, TypeOK
<1>10. QED  BY <1>4, <1>5, <1>6, <1>7, <1>9

\* Preserved by semrelease()'s compare-and-swap.
LEMMA semreleaseStep ==
    ASSUME IntTimeouts, IInv, NEW t \in Releasers, NEW delta \in Deltas, semrelease(t, delta)
    PROVE  IInv'
<1>1. Held' = Held
    BY DEF semrelease, Held
<1>2. TypeOK'
    BY DEF semrelease, TypeOK
<1>3. Units'
    BY <1>1, HeldFinite DEF semrelease, TypeOK, Units
<1>4. Acquiring'
    BY DEF semrelease, TypeOK, Acquiring
<1>5. Times'
    BY DEF semrelease, TypeOK, Times, Acquiring
<1>6. Line'
    BY ListFacts DEF semrelease, TypeOK, Line, Scanning
<1>7. Scanning'
    BY ListFacts DEF semrelease, TypeOK, Line, Scanning
<1>8. QED  BY <1>2, <1>3, <1>4, <1>5, <1>6, <1>7

\* Preserved by semwakeup() taking the lock.
LEMMA semwakeupLockStep ==
    ASSUME IntTimeouts, IInv, NEW t \in Threads, semwakeupLock(t)
    PROVE  IInv'
<1>1. Held' = Held
    BY DEF semwakeupLock, Held
<1>2. TypeOK'
    BY DEF semwakeupLock, TypeOK
<1>3. Units'
    BY <1>1, HeldFinite DEF semwakeupLock, TypeOK, Units
<1>4. Acquiring'
    BY ListFacts DEF semwakeupLock, TypeOK, Acquiring, Scanning
<1>5. Times'
    BY ListFacts DEF semwakeupLock, TypeOK, Times, Acquiring, Scanning
<1>6. Line'
    BY ListFacts DEF semwakeupLock, TypeOK, Line, Scanning
<1>7. Scanning'
    BY ListFacts DEF semwakeupLock, TypeOK, Line, Scanning
<1>8. QED  BY <1>2, <1>3, <1>4, <1>5, <1>6, <1>7

\* Preserved by semwakeup() finding a waiter.
LEMMA semwakeupClearStep ==
    ASSUME IntTimeouts, IInv, NEW t \in Threads, semwakeupClear(t)
    PROVE  IInv'
<1>1. Held' = Held
    BY DEF semwakeupClear, Held
<1>2. TypeOK'
    BY DEF semwakeupClear, TypeOK
<1>3. Units'
    BY <1>1, HeldFinite DEF semwakeupClear, TypeOK, Units
<1>4. Acquiring'
    BY ListFacts DEF semwakeupClear, TypeOK, Acquiring, Scanning
<1>5. Times'
    BY ListFacts DEF semwakeupClear, TypeOK, Times, Acquiring, Scanning
<1>6. Line'
    BY ListFacts DEF semwakeupClear, TypeOK, Line, Scanning
<1>7. Scanning'
    BY ListFacts DEF semwakeupClear, TypeOK, Line, Scanning
<1>8. QED  BY <1>2, <1>3, <1>4, <1>5, <1>6, <1>7

\* Preserved by semwakeup() passing a process that does not wait.
LEMMA semwakeupSkipStep ==
    ASSUME IntTimeouts, IInv, NEW t \in Threads, semwakeupSkip(t)
    PROVE  IInv'
<1>1. Held' = Held
    BY DEF semwakeupSkip, Held
<1>2. TypeOK'
    BY SMTT(40) DEF semwakeupSkip, TypeOK
<1>3. Units'
    BY <1>1, HeldFinite DEF semwakeupSkip, TypeOK, Units
<1>4. Acquiring'
    BY ListFacts DEF semwakeupSkip, TypeOK, Acquiring, Scanning
<1>5. Times'
    BY ListFacts DEF semwakeupSkip, TypeOK, Times, Acquiring, Scanning
<1>6. Line'
    BY ListFacts DEF semwakeupSkip, TypeOK, Line, Scanning
<1>7. Scanning'
    BY ListFacts DEF semwakeupSkip, TypeOK, Line, Scanning
<1>8. QED  BY <1>2, <1>3, <1>4, <1>5, <1>6, <1>7

\* Preserved by semwakeup()'s wakeup().
LEMMA semwakeupWakeStep ==
    ASSUME IntTimeouts, IInv, NEW t \in Threads, semwakeupWake(t)
    PROVE  IInv'
<1>1. /\ lock = t /\ pos[t] \in 1 .. Len(list) /\ list[pos[t]] \in Acquirers
      /\ pc[list[pos[t]]] \in InLine /\ list[pos[t]] # t
    BY ListFacts DEF semwakeupWake, TypeOK, Line, Scanning
<1>2. /\ pc' \in [Threads -> Pcs] /\ pc'[t] = "scan"
      /\ pc'[list[pos[t]]] \in InLine
      /\ pc[list[pos[t]]] # "asleep" => pc'[list[pos[t]]] = pc[list[pos[t]]]
      /\ pc[list[pos[t]]] = "asleep" => pc'[list[pos[t]]] = "back"
      /\ \A u \in Threads \ {t, list[pos[t]]} : pc'[u] = pc[u]
    BY <1>1 DEF semwakeupWake, TypeOK
<1>3. /\ n[t] - 1 \in Nat /\ n' = [n EXCEPT ![t] = n[t] - 1]
      /\ pos[t] + 1 \in Nat /\ pos' = [pos EXCEPT ![t] = pos[t] + 1]
    BY DEF semwakeupWake, TypeOK, Scanning
<1>4. Held' = Held
    BY DEF semwakeupWake, Held
<1>5. TypeOK'
  <2>1. n' \in [Threads -> Nat] /\ pos' \in [Threads -> Nat]
      BY <1>3 DEF TypeOK
  <2>2. QED  BY <2>1, <1>2 DEF semwakeupWake, TypeOK
<1>6. Units'
    BY <1>4, HeldFinite DEF semwakeupWake, TypeOK, Units
<1>7. Acquiring'
    BY ListFacts, <1>1, <1>2 DEF semwakeupWake, TypeOK, Acquiring,
       Scanning
<1>8. Times'
    BY ListFacts, <1>1, <1>2 DEF semwakeupWake, TypeOK, Times, Acquiring,
       Scanning
<1>9. Line'
  <2>1. \A i \in 1 .. Len(list) : list[i] # t /\ pc'[list[i]] \in InLine
      BY <1>1, <1>2, ListFacts DEF semwakeupWake, Line
  <2>2. QED  BY <2>1 DEF semwakeupWake, Line
<1>10. Scanning'
  <2>1. \A u \in Threads \ {t} : pc'[u] # "wake" /\ lock' # u
      BY <1>1, <1>2 DEF semwakeupWake, Scanning
  <2>2. pos'[t] >= 1
      BY <1>1, <1>3, ListFacts DEF TypeOK
  <2>3. \A u \in Releasers : u # list[pos[t]]
      BY <1>1
  <2>4. QED  BY <1>1, <1>2, <2>1, <2>2, <2>3 DEF semwakeupWake, Scanning
<1>11. QED  BY <1>5, <1>6, <1>7, <1>8, <1>9, <1>10

\* Preserved by semwakeup() releasing the lock.
LEMMA semwakeupUnlockStep ==
    ASSUME IntTimeouts, IInv, NEW t \in Threads, semwakeupUnlock(t)
    PROVE  IInv'
<1>1. Held' = Held
    BY DEF semwakeupUnlock, Held
<1>2. TypeOK'
    BY DEF semwakeupUnlock, TypeOK
<1>3. Units'
    BY <1>1, HeldFinite DEF semwakeupUnlock, TypeOK, Units
<1>4. Acquiring'
    BY ListFacts DEF semwakeupUnlock, TypeOK, Acquiring, Scanning
<1>5. Times'
    BY ListFacts DEF semwakeupUnlock, TypeOK, Times, Acquiring, Scanning
<1>6. Line'
    BY ListFacts DEF semwakeupUnlock, TypeOK, Line, Scanning
<1>7. Scanning'
    BY ListFacts DEF semwakeupUnlock, TypeOK, Line, Scanning
<1>8. QED  BY <1>2, <1>3, <1>4, <1>5, <1>6, <1>7

----------------------------------------------------------------------------
\* The invariant holds at first.
LEMMA InitIInv == Init => IInv
<1> SUFFICES ASSUME Init PROVE IInv
    OBVIOUS
<1>1. Held = {} /\ Cardinality(Held) = 0
    BY FS_EmptySet DEF Init, Held
<1>2. QED
    BY <1>1 DEF Init, TypeOK, Units, Acquiring, Times, Line, Scanning

\* Every step preserves the invariant, while timeouts fit an int.
LEMMA NextIInv == IntTimeouts /\ IInv /\ [Next]_vars => IInv'
<1> SUFFICES ASSUME IntTimeouts, IInv, [Next]_vars PROVE IInv'
    OBVIOUS
<1>1. CASE UNCHANGED vars
  <2>1. Held' = Held
    BY <1>1 DEF Held, vars
  <2>2. QED
    BY <1>1, <2>1 DEF vars, TypeOK, Units, Acquiring, Times, Line, Scanning
<1>2. ASSUME NEW t \in Threads, semwakeup(t) PROVE IInv'
    BY <1>2, semwakeupLockStep, semwakeupClearStep, semwakeupSkipStep,
       semwakeupWakeStep, semwakeupUnlockStep DEF semwakeup
<1>3. ASSUME NEW p \in Acquirers, AcquireStep(p) PROVE IInv'
    BY <1>2, <1>3, semqueueStep, SetWaitingStep, TryAgainStep, SleepStep,
       SleepBackStep, semdequeueStep, PassOnStep, AcquireReturnStep
       DEF AcquireStep
<1>4. QED
    BY <1>1, <1>2, <1>3, AcquireNowStep, AcquireBlockStep, TimeoutStep,
       postnoteStep, semreleaseStep DEF Next

\* The invariant holds in every behaviour whose timeouts fit an int.
THEOREM Invariance == IntTimeouts => (Spec => []IInv)
<1> SUFFICES ASSUME IntTimeouts PROVE Spec => []IInv
    OBVIOUS
<1>1. IInv /\ [Next]_vars => IInv'
    BY NextIInv
<1>2. QED  BY InitIInv, <1>1, PTL DEF Spec

(***************************************************************************)
(* semacquire(), tsemacquire() and semrelease() neither lose units nor     *)
(* make them up, however many processes race for them, time out or are     *)
(* sent notes, provided that the timeouts fit an int.                      *)
(***************************************************************************)
THEOREM UnitsConserved == IntTimeouts => (Spec => []Conservation)
<1> SUFFICES ASSUME IntTimeouts PROVE Spec => []Conservation
    OBVIOUS
<1>1. IInv => Conservation
    BY DEF TypeOK, Units, Held, Times, Conservation
<1>2. QED  BY Invariance, <1>1, PTL

(***************************************************************************)
(* semwakeup() touches only the Sema of a process that is still inside its *)
(* call, on whose stack it lives.                                          *)
(***************************************************************************)
THEOREM SemasAlive == IntTimeouts => (Spec => []SemaAlive)
<1> SUFFICES ASSUME IntTimeouts PROVE Spec => []SemaAlive
    OBVIOUS
<1>1. IInv => SemaAlive
  <2> SUFFICES ASSUME IInv, NEW t \in Threads, pc[t] = "wake"
               PROVE  pos[t] <= Len(list) /\ pc[list[pos[t]]] \notin {"idle", "pass", "return"}
    BY DEF SemaAlive
  <2>1. pos[t] \in 1 .. Len(list)
    BY ListFacts DEF TypeOK, Scanning
  <2>2. QED  BY <2>1, ListFacts DEF Line
<1>2. QED  BY Invariance, <1>1, PTL

(***************************************************************************)
(* The second part: rendezvous().                                          *)
(***************************************************************************)
ProcPcs  == {"run", "lock", "match", "spin", "wait", "commit", "sched", "asleep"}
NoterPcs == {"idle", "state", "lock", "pull"}

\* Each thread is in its own code, and the group's lock has one holder: the
\* process or poster that is between lock() and unlock().
Locked ==
    /\ \A p \in Procs :
          /\ rpc[p] \in ProcPcs
          /\ rpc[p] \in {"match", "spin", "wait", "commit"} <=> holder = p
    /\ \A m \in Noters :
          /\ rpc[m] \in NoterPcs
          /\ rpc[m] = "pull" <=> holder = m
          /\ rpc[m] # "idle" => arg[m] \in Procs

\* A process is off the run queue and on its stack while it executes; once
\* committed it is Rendezvous or Ready, whether or not it has left its stack.
Phases ==
    \A p \in Procs :
        /\ rpc[p] \notin {"sched", "asleep"} => state[p] = "Running"
        /\ rpc[p] \in {"sched", "asleep"} => state[p] # "Running"
        /\ oncpu[p] = (IF rpc[p] = "asleep" THEN 0 ELSE 1)
        /\ queued[p] = (IF state[p] = "Ready" THEN 1 ELSE 0)

\* Who is in the chain has left its value there and nothing is settled for
\* it; a process in state Rendezvous is in the chain or has just been met.
Chained ==
    /\ \A p \in chain :
          /\ rpc[p] = "commit" \/ state[p] = "Rendezvous"
          /\ rendval[p] = R!Passed(p) /\ due[p] = Nil
    /\ \A p \in Procs :
          /\ rpc[p] = "commit" => p \in chain
          /\ state[p] = "Rendezvous" /\ p \notin chain =>
                \E q \in Procs : rpc[q] = "spin" /\ arg[q] = p

\* The process a caller has met is out of the chain and not yet ready.
Meeting ==
    \A p \in Procs : rpc[p] = "spin" =>
        /\ arg[p] \in Procs /\ arg[p] \notin chain
        /\ state[arg[p]] = "Rendezvous"

\* What a call is to return is where the call will find it.
Results ==
    \A p \in Procs :
        /\ rpc[p] \in {"lock", "match", "wait", "commit"} => due[p] = Nil
        /\ rpc[p] = "spin" => due[p] = val[p]
        /\ rpc[p] = "run" /\ due[p] # Nil => val[p] = due[p]
        /\ rpc[p] \in {"sched", "asleep"} /\ p \notin chain => due[p] = rendval[p]

\* The outcome of the search stands while the lock is held, and tags in the
\* chain differ.
Search ==
    /\ \A p \in Procs : rpc[p] = "wait" => \A q \in chain : rendtag[q] # rendtag[p]
    /\ R!NoMissedMeeting

RInv == R!TypeOK /\ Locked /\ Phases /\ Chained /\ Meeting /\ Results /\ Search

HIDE ConstantsAssumption DEF IInv, Threads, Forever, Pcs, Goto, InLine
USE RendezvousConstants
    DEF R!SetsAssumption, R!Goto, R!Threads, R!Passed, R!procsaved, R!ready, ProcPcs, NoterPcs

----------------------------------------------------------------------------
(* One lemma per action, one step per part of the invariant.               *)

\* Step RendezvousCall preserves the invariant.
LEMMA RendezvousCallStep ==
    ASSUME RInv, NEW p \in Procs, NEW t \in Tags, R!RendezvousCall(p, t)
    PROVE  RInv'
<1> USE DEF RInv
<1>1. R!TypeOK'
    BY DEF R!RendezvousCall, R!TypeOK, R!Values, Meeting, Locked, Phases
<1>2. Locked'
    BY DEF R!RendezvousCall, R!TypeOK, Locked, Phases
<1>3. Phases'
    BY DEF R!RendezvousCall, R!TypeOK, Locked, Phases, Meeting
<1>4. Chained'
    BY DEF R!RendezvousCall, R!TypeOK, Locked, Phases, Chained, Meeting,
       Results
<1>5. Meeting'
    BY DEF R!RendezvousCall, R!TypeOK, Locked, Phases, Chained, Meeting
<1>6. Results'
    BY DEF R!RendezvousCall, R!TypeOK, Locked, Phases, Chained, Meeting,
       Results
<1>7. Search'
    BY DEF R!RendezvousCall, R!TypeOK, Locked, Phases, Chained, Search,
       R!NoMissedMeeting
<1>8. QED  BY <1>1, <1>2, <1>3, <1>4, <1>5, <1>6, <1>7

\* Step RendezvousLock preserves the invariant.
LEMMA RendezvousLockStep ==
    ASSUME RInv, NEW p \in Procs, R!RendezvousLock(p)
    PROVE  RInv'
<1> USE DEF RInv
<1>1. R!TypeOK'
    BY DEF R!RendezvousLock, R!TypeOK, R!Values, Meeting, Locked, Phases
<1>2. Locked'
    BY DEF R!RendezvousLock, R!TypeOK, Locked, Phases
<1>3. Phases'
    BY DEF R!RendezvousLock, R!TypeOK, Locked, Phases, Meeting
<1>4. Chained'
    BY DEF R!RendezvousLock, R!TypeOK, Locked, Phases, Chained, Meeting,
       Results
<1>5. Meeting'
    BY DEF R!RendezvousLock, R!TypeOK, Locked, Phases, Chained, Meeting
<1>6. Results'
    BY DEF R!RendezvousLock, R!TypeOK, Locked, Phases, Chained, Meeting,
       Results
<1>7. Search'
    BY DEF R!RendezvousLock, R!TypeOK, Locked, Phases, Chained, Search,
       R!NoMissedMeeting
<1>8. QED  BY <1>1, <1>2, <1>3, <1>4, <1>5, <1>6, <1>7

\* Step RendezvousMatch preserves the invariant.
LEMMA RendezvousMatchStep ==
    ASSUME RInv, NEW p \in Procs, R!RendezvousMatch(p)
    PROVE  RInv'
<1> USE DEF RInv
<1>1. R!TypeOK'
    BY DEF R!RendezvousMatch, R!TypeOK, R!Values, Meeting, Locked, Phases
<1>2. Locked'
    BY DEF R!RendezvousMatch, R!TypeOK, Locked, Phases
<1>3. Phases'
    BY DEF R!RendezvousMatch, R!TypeOK, Locked, Phases, Meeting
<1>4. Chained'
    BY DEF R!RendezvousMatch, R!TypeOK, Locked, Phases, Chained, Meeting,
       Results
<1>5. Meeting'
    BY DEF R!RendezvousMatch, R!TypeOK, Locked, Phases, Chained, Meeting
<1>6. Results'
    BY DEF R!RendezvousMatch, R!TypeOK, Locked, Phases, Chained, Meeting,
       Results
<1>7. Search'
    BY DEF R!RendezvousMatch, R!TypeOK, Locked, Phases, Chained, Search,
       R!NoMissedMeeting
<1>8. QED  BY <1>1, <1>2, <1>3, <1>4, <1>5, <1>6, <1>7

\* Step RendezvousReady preserves the invariant.
LEMMA RendezvousReadyStep ==
    ASSUME RInv, NEW p \in Procs, R!RendezvousReady(p)
    PROVE  RInv'
<1> USE DEF RInv
<1>1. R!TypeOK'
    BY DEF R!RendezvousReady, R!TypeOK, R!Values, Meeting, Locked, Phases
<1>2. Locked'
    BY DEF R!RendezvousReady, R!TypeOK, Locked, Phases
<1>3. Phases'
    BY DEF R!RendezvousReady, R!TypeOK, Locked, Phases, Meeting
<1>4. Chained'
    BY DEF R!RendezvousReady, R!TypeOK, Locked, Phases, Chained, Meeting,
       Results
<1>5. Meeting'
    BY DEF R!RendezvousReady, R!TypeOK, Locked, Phases, Chained, Meeting
<1>6. Results'
    BY DEF R!RendezvousReady, R!TypeOK, Locked, Phases, Chained, Meeting,
       Results
<1>7. Search'
    BY DEF R!RendezvousReady, R!TypeOK, Locked, Phases, Chained, Search,
       R!NoMissedMeeting
<1>8. QED  BY <1>1, <1>2, <1>3, <1>4, <1>5, <1>6, <1>7

\* Step RendezvousWait preserves the invariant.
LEMMA RendezvousWaitStep ==
    ASSUME RInv, NEW p \in Procs, R!RendezvousWait(p)
    PROVE  RInv'
<1> USE DEF RInv
<1>1. R!TypeOK'
    BY DEF R!RendezvousWait, R!TypeOK, R!Values, Meeting, Locked, Phases
<1>2. Locked'
    BY DEF R!RendezvousWait, R!TypeOK, Locked, Phases
<1>3. Phases'
    BY DEF R!RendezvousWait, R!TypeOK, Locked, Phases, Meeting
<1>4. Chained'
    BY DEF R!RendezvousWait, R!TypeOK, Locked, Phases, Chained, Meeting,
       Results
<1>5. Meeting'
    BY DEF R!RendezvousWait, R!TypeOK, Locked, Phases, Chained, Meeting
<1>6. Results'
    BY DEF R!RendezvousWait, R!TypeOK, Locked, Phases, Chained, Meeting,
       Results
<1>7. Search'
    BY DEF R!RendezvousWait, R!TypeOK, Locked, Phases, Chained, Search,
       R!NoMissedMeeting
<1>8. QED  BY <1>1, <1>2, <1>3, <1>4, <1>5, <1>6, <1>7

\* Step RendezvousCommit preserves the invariant.
LEMMA RendezvousCommitStep ==
    ASSUME RInv, NEW p \in Procs, R!RendezvousCommit(p)
    PROVE  RInv'
<1> USE DEF RInv
<1>1. R!TypeOK'
    BY DEF R!RendezvousCommit, R!TypeOK, R!Values, Meeting, Locked, Phases
<1>2. Locked'
    BY DEF R!RendezvousCommit, R!TypeOK, Locked, Phases
<1>3. Phases'
    BY DEF R!RendezvousCommit, R!TypeOK, Locked, Phases, Meeting
<1>4. Chained'
    BY DEF R!RendezvousCommit, R!TypeOK, Locked, Phases, Chained, Meeting,
       Results
<1>5. Meeting'
    BY DEF R!RendezvousCommit, R!TypeOK, Locked, Phases, Chained, Meeting
<1>6. Results'
    BY DEF R!RendezvousCommit, R!TypeOK, Locked, Phases, Chained, Meeting,
       Results
<1>7. Search'
    BY DEF R!RendezvousCommit, R!TypeOK, Locked, Phases, Chained, Search,
       R!NoMissedMeeting
<1>8. QED  BY <1>1, <1>2, <1>3, <1>4, <1>5, <1>6, <1>7

\* Step RendezvousSched preserves the invariant.
LEMMA RendezvousSchedStep ==
    ASSUME RInv, NEW p \in Procs, R!RendezvousSched(p)
    PROVE  RInv'
<1> USE DEF RInv
<1>1. R!TypeOK'
    BY DEF R!RendezvousSched, R!TypeOK, R!Values, Meeting, Locked, Phases
<1>2. Locked'
    BY DEF R!RendezvousSched, R!TypeOK, Locked, Phases
<1>3. Phases'
    BY DEF R!RendezvousSched, R!TypeOK, Locked, Phases, Meeting
<1>4. Chained'
    BY DEF R!RendezvousSched, R!TypeOK, Locked, Phases, Chained, Meeting,
       Results
<1>5. Meeting'
    BY DEF R!RendezvousSched, R!TypeOK, Locked, Phases, Chained, Meeting
<1>6. Results'
    BY DEF R!RendezvousSched, R!TypeOK, Locked, Phases, Chained, Meeting,
       Results
<1>7. Search'
    BY DEF R!RendezvousSched, R!TypeOK, Locked, Phases, Chained, Search,
       R!NoMissedMeeting
<1>8. QED  BY <1>1, <1>2, <1>3, <1>4, <1>5, <1>6, <1>7

\* Step Dispatch preserves the invariant.
LEMMA DispatchStep ==
    ASSUME RInv, NEW p \in Procs, R!Dispatch(p)
    PROVE  RInv'
<1> USE DEF RInv
<1>1. R!TypeOK'
    BY DEF R!Dispatch, R!TypeOK, R!Values, Meeting, Locked, Phases
<1>2. Locked'
    BY DEF R!Dispatch, R!TypeOK, Locked, Phases
<1>3. Phases'
    BY DEF R!Dispatch, R!TypeOK, Locked, Phases, Meeting
<1>4. Chained'
    BY DEF R!Dispatch, R!TypeOK, Locked, Phases, Chained, Meeting, Results
<1>5. Meeting'
    BY DEF R!Dispatch, R!TypeOK, Locked, Phases, Chained, Meeting
<1>6. Results'
    BY DEF R!Dispatch, R!TypeOK, Locked, Phases, Chained, Meeting, Results
<1>7. Search'
    BY DEF R!Dispatch, R!TypeOK, Locked, Phases, Chained, Search,
       R!NoMissedMeeting
<1>8. QED  BY <1>1, <1>2, <1>3, <1>4, <1>5, <1>6, <1>7

\* Step PostNote preserves the invariant.
LEMMA PostNoteStep ==
    ASSUME RInv, NEW m \in Noters, NEW p \in Procs, R!PostNote(m, p)
    PROVE  RInv'
<1> USE DEF RInv
<1>1. R!TypeOK'
    BY DEF R!PostNote, R!TypeOK, R!Values, Meeting, Locked, Phases
<1>2. Locked'
    BY DEF R!PostNote, R!TypeOK, Locked, Phases
<1>3. Phases'
    BY DEF R!PostNote, R!TypeOK, Locked, Phases, Meeting
<1>4. Chained'
    BY DEF R!PostNote, R!TypeOK, Locked, Phases, Chained, Meeting, Results
<1>5. Meeting'
    BY DEF R!PostNote, R!TypeOK, Locked, Phases, Chained, Meeting
<1>6. Results'
    BY DEF R!PostNote, R!TypeOK, Locked, Phases, Chained, Meeting, Results
<1>7. Search'
    BY DEF R!PostNote, R!TypeOK, Locked, Phases, Chained, Search,
       R!NoMissedMeeting
<1>8. QED  BY <1>1, <1>2, <1>3, <1>4, <1>5, <1>6, <1>7

\* Step PostNoteState preserves the invariant.
LEMMA PostNoteStateStep ==
    ASSUME RInv, NEW m \in Noters, R!PostNoteState(m)
    PROVE  RInv'
<1> USE DEF RInv
<1>1. R!TypeOK'
    BY DEF R!PostNoteState, R!TypeOK, R!Values, Meeting, Locked, Phases
<1>2. Locked'
    BY DEF R!PostNoteState, R!TypeOK, Locked, Phases
<1>3. Phases'
    BY DEF R!PostNoteState, R!TypeOK, Locked, Phases, Meeting
<1>4. Chained'
    BY DEF R!PostNoteState, R!TypeOK, Locked, Phases, Chained, Meeting,
       Results
<1>5. Meeting'
    BY DEF R!PostNoteState, R!TypeOK, Locked, Phases, Chained, Meeting
<1>6. Results'
    BY DEF R!PostNoteState, R!TypeOK, Locked, Phases, Chained, Meeting,
       Results
<1>7. Search'
    BY DEF R!PostNoteState, R!TypeOK, Locked, Phases, Chained, Search,
       R!NoMissedMeeting
<1>8. QED  BY <1>1, <1>2, <1>3, <1>4, <1>5, <1>6, <1>7

\* Step PostNoteLock preserves the invariant.
LEMMA PostNoteLockStep ==
    ASSUME RInv, NEW m \in Noters, R!PostNoteLock(m)
    PROVE  RInv'
<1> USE DEF RInv
<1>1. R!TypeOK'
    BY DEF R!PostNoteLock, R!TypeOK, R!Values, Meeting, Locked, Phases
<1>2. Locked'
    BY DEF R!PostNoteLock, R!TypeOK, Locked, Phases
<1>3. Phases'
    BY DEF R!PostNoteLock, R!TypeOK, Locked, Phases, Meeting
<1>4. Chained'
    BY DEF R!PostNoteLock, R!TypeOK, Locked, Phases, Chained, Meeting, Results
<1>5. Meeting'
    BY DEF R!PostNoteLock, R!TypeOK, Locked, Phases, Chained, Meeting
<1>6. Results'
    BY DEF R!PostNoteLock, R!TypeOK, Locked, Phases, Chained, Meeting, Results
<1>7. Search'
    BY DEF R!PostNoteLock, R!TypeOK, Locked, Phases, Chained, Search,
       R!NoMissedMeeting
<1>8. QED  BY <1>1, <1>2, <1>3, <1>4, <1>5, <1>6, <1>7

\* Step PostNotePull preserves the invariant.
LEMMA PostNotePullStep ==
    ASSUME RInv, NEW m \in Noters, R!PostNotePull(m)
    PROVE  RInv'
<1> USE DEF RInv
<1>1. R!TypeOK'
    BY DEF R!PostNotePull, R!TypeOK, R!Values, Meeting, Locked, Phases
<1>2. Locked'
    BY DEF R!PostNotePull, R!TypeOK, Locked, Phases
<1>3. Phases'
    BY DEF R!PostNotePull, R!TypeOK, Locked, Phases, Meeting
<1>4. Chained'
    BY DEF R!PostNotePull, R!TypeOK, Locked, Phases, Chained, Meeting, Results
<1>5. Meeting'
    BY DEF R!PostNotePull, R!TypeOK, Locked, Phases, Chained, Meeting
<1>6. Results'
    BY DEF R!PostNotePull, R!TypeOK, Locked, Phases, Chained, Meeting, Results
<1>7. Search'
    BY DEF R!PostNotePull, R!TypeOK, Locked, Phases, Chained, Search,
       R!NoMissedMeeting
<1>8. QED  BY <1>1, <1>2, <1>3, <1>4, <1>5, <1>6, <1>7

----------------------------------------------------------------------------
\* The initial state satisfies the invariant.
LEMMA InitRInv == R!Init => RInv
BY DEF R!Init, RInv, R!TypeOK, R!Values, Locked, Phases, Chained, Meeting, Results, Search,
   R!NoMissedMeeting

\* Every step preserves the invariant.
LEMMA NextRInv == RInv /\ [R!Next]_R!vars => RInv'
<1> SUFFICES ASSUME RInv, [R!Next]_R!vars PROVE RInv'
    OBVIOUS
<1>1. CASE UNCHANGED R!vars
    BY <1>1 DEF R!vars, RInv, R!TypeOK, Locked, Phases, Chained, Meeting, Results, Search,
       R!NoMissedMeeting
<1>2. ASSUME NEW p \in Procs, NEW t \in Tags, R!RendezvousCall(p, t) PROVE RInv'
    BY <1>2, RendezvousCallStep
<1>3. ASSUME NEW m \in Noters, NEW p \in Procs, R!PostNote(m, p) PROVE RInv'
    BY <1>3, PostNoteStep
<1>4. ASSUME NEW p \in Procs, R!ProcStep(p) PROVE RInv'
  <2>1. CASE R!RendezvousLock(p)  BY <2>1, RendezvousLockStep
  <2>2. CASE R!RendezvousMatch(p)  BY <2>2, RendezvousMatchStep
  <2>3. CASE R!RendezvousReady(p)  BY <2>3, RendezvousReadyStep
  <2>4. CASE R!RendezvousWait(p)  BY <2>4, RendezvousWaitStep
  <2>5. CASE R!RendezvousCommit(p)  BY <2>5, RendezvousCommitStep
  <2>6. CASE R!RendezvousSched(p)  BY <2>6, RendezvousSchedStep
  <2>7. CASE R!Dispatch(p)  BY <2>7, DispatchStep
  <2>8. QED  BY <1>4, <2>1, <2>2, <2>3, <2>4, <2>5, <2>6, <2>7 DEF R!ProcStep
<1>5. ASSUME NEW m \in Noters, R!NoterStep(m) PROVE RInv'
  <2>1. CASE R!PostNoteState(m)  BY <2>1, PostNoteStateStep
  <2>2. CASE R!PostNoteLock(m)  BY <2>2, PostNoteLockStep
  <2>3. CASE R!PostNotePull(m)  BY <2>3, PostNotePullStep
  <2>4. QED  BY <1>5, <2>1, <2>2, <2>3 DEF R!NoterStep
<1>6. QED  BY <1>1, <1>2, <1>3, <1>4, <1>5 DEF R!Next

\* The invariant holds in every reachable state.
THEOREM RendezvousInvariance == R!Spec => []RInv
BY InitRInv, NextRInv, PTL DEF R!Spec

\* Type correctness.
THEOREM RendezvousTypes == R!Spec => []R!TypeOK
<1>1. RInv => R!TypeOK  BY DEF RInv
<1>2. QED  BY <1>1, RendezvousInvariance, PTL

\* Two processes never wait for each other under one tag: sysrendezvous()
\* finds whoever came first.
THEOREM MeetingsNotMissed == R!Spec => []NoMissedMeeting
<1>1. RInv => NoMissedMeeting  BY DEF RInv, Search, NoMissedMeeting, R!NoMissedMeeting
<1>2. QED  BY <1>1, RendezvousInvariance, PTL

\* sysrendezvous() returns what the partner of this very meeting passed, and
\* ~0 only when postnote() pulled the process out.
THEOREM ValuesExchanged == R!Spec => []Exchange
<1>1. RInv => Exchange  BY DEF RInv, Results, Exchange, R!Exchange
<1>2. QED  BY <1>1, RendezvousInvariance, PTL

\* With the group unlocked the chain holds exactly the waiting processes.
THEOREM WaitersFound == R!Spec => []R!ChainIsWaiters
<1>1. RInv => R!ChainIsWaiters
    BY DEF RInv, R!TypeOK, Locked, Phases, Chained, Meeting, R!ChainIsWaiters
<1>2. QED  BY <1>1, RendezvousInvariance, PTL

\* A process is made ready once per wait, by its partner or by a poster, and
\* is never executed by two processors.
THEOREM OneStack == R!Spec => []SingleStack
<1>1. ASSUME RInv, NEW p \in Procs
      PROVE  /\ oncpu[p] <= 1
             /\ queued[p] = (IF state[p] = "Ready" THEN 1 ELSE 0)
             /\ state[p] = "Running" => oncpu[p] = 1
  <2>1. oncpu[p] <= 1
    BY <1>1 DEF RInv, Phases
  <2>2. state[p] = "Running" => rpc[p] # "asleep"
    BY <1>1 DEF RInv, Phases
  <2>3. state[p] = "Running" => oncpu[p] = 1
    BY <1>1, <2>2 DEF RInv, Phases
  <2>4. QED  BY <1>1, <2>1, <2>3 DEF RInv, Phases
<1>2. RInv => SingleStack
    BY <1>1 DEF SingleStack, R!SingleStack
<1>3. QED  BY <1>2, RendezvousInvariance, PTL
=============================================================================
