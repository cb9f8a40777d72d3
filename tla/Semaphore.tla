----------------------------- MODULE Semaphore -----------------------------
(***************************************************************************)
(* User-level semaphores: semacquire, tsemacquire and semrelease of        *)
(* port/sysproc.c.                                                         *)
(*                                                                         *)
(* The value lives in user memory and is changed by compare-and-swap only; *)
(* the list of waiters of a segment is protected by its spin lock; the     *)
(* flag waiting of a waiter is read and written without any lock.  sleep() *)
(* and wakeup() are used as SleepWakeup shows them to behave: the test of  *)
(* the condition and going to sleep are one step, and a wakeup of a        *)
(* process that does not sleep is void.                                    *)
(***************************************************************************)
EXTENDS Integers, Sequences, FiniteSets, SequencesExt

CONSTANTS
    Acquirers,  \* processes that acquire
    Releasers,  \* processes that release
    Deltas,     \* the counts a release adds
    MaxValue,   \* bound on the semaphore's value
    Timeouts,   \* the ulong ms passed to tsemacquire()
    IntMax,     \* the largest int
    Nil         \* the C nil

Threads == Acquirers \union Releasers
Forever == Nil          \* in place of ms in a call of semacquire()
Elapsed == {0, 1}       \* ticks that may pass during one sleep

ASSUME ConstantsAssumption ==
    /\ IsFiniteSet(Acquirers)
    /\ Acquirers \intersect Releasers = {} /\ Nil \notin Threads
    /\ Deltas \subseteq Nat /\ MaxValue \in Nat
    /\ IntMax \in Nat /\ Timeouts \subseteq 0 .. 2 * IntMax + 1

VARIABLES
    value,    \* *addr
    owed,     \* units released and not yet reported as acquired
    list,     \* s->sema: the waiters' Sema structures, by their processes
    lock,     \* who holds the spin lock of the list
    waiting,  \* phore.waiting
    acquired, \* the local acquired of (t)semacquire()
    ms,       \* the time left of tsemacquire(), or Forever
    noted,    \* a note is pending
    pc,       \* where each thread is
    pos, n    \* semwakeup()'s place in the list, and wakeups still to give

vars == <<value, owed, list, lock, waiting, acquired, ms, noted, pc, pos, n>>

Pcs == {"idle", "queue", "waiting", "try", "sleep", "asleep", "back",
        "dequeue", "pass", "scan", "wake", "return"}

\* Keeping a ulong in an int.
AsInt(u) == IF u <= IntMax THEN u ELSE u - (2 * IntMax + 2)

Goto(t, l) == pc' = [pc EXCEPT ![t] = l]

Init ==
    /\ value = 0 /\ owed = 0
    /\ list = << >> /\ lock = Nil
    /\ waiting = [p \in Acquirers |-> FALSE]
    /\ acquired = [p \in Acquirers |-> FALSE]
    /\ ms = [p \in Acquirers |-> Forever]
    /\ noted = [p \in Acquirers |-> FALSE]
    /\ pc = [t \in Threads |-> "idle"]
    /\ pos = [t \in Threads |-> 0]
    /\ n = [t \in Threads |-> 0]

----------------------------------------------------------------------------
(* semacquire() and tsemacquire(), by process p.                           *)

\* canacquire() at once; a call that does not block (tsemacquire() with 0)
\* returns without a trace when it fails.
AcquireNow(p) ==
    /\ pc[p] = "idle"
    /\ value > 0
    /\ value' = value - 1
    /\ owed' = owed - 1
    /\ UNCHANGED <<list, lock, waiting, acquired, ms, noted, pc, pos, n>>

\* canacquire() fails and the call blocks: t is Forever for semacquire().
AcquireBlock(p, t) ==
    /\ pc[p] = "idle"
    /\ value = 0
    /\ t # 0
    /\ ms' = [ms EXCEPT ![p] = IF t = Forever THEN t ELSE AsInt(t)]
    /\ acquired' = [acquired EXCEPT ![p] = FALSE]
    /\ waiting' = [waiting EXCEPT ![p] = FALSE]
    /\ Goto(p, "queue")
    /\ UNCHANGED <<value, owed, list, lock, noted, pos, n>>

semqueue(p) ==
    /\ pc[p] = "queue" /\ lock = Nil
    /\ list' = Append(list, p)
    /\ Goto(p, "waiting")
    /\ UNCHANGED <<value, owed, lock, waiting, acquired, ms, noted, pos, n>>

SetWaiting(p) ==
    /\ pc[p] = "waiting"
    /\ waiting' = [waiting EXCEPT ![p] = TRUE]
    /\ Goto(p, "try")
    /\ UNCHANGED <<value, owed, list, lock, acquired, ms, noted, pos, n>>

\* Mutant: acquired = 1 is forgotten, the call ends as if interrupted.
TryAgain_forget(p) ==
    /\ pc[p] = "try"
    /\ \/ /\ value > 0
          /\ value' = value - 1
          /\ Goto(p, "dequeue")
       \/ /\ value = 0
          /\ Goto(p, "sleep")
          /\ UNCHANGED value
    /\ UNCHANGED <<owed, list, lock, waiting, acquired, ms, noted, pos, n>>

TryAgain(p) ==
    /\ pc[p] = "try"
    /\ \/ /\ value > 0
          /\ value' = value - 1
          /\ acquired' = [acquired EXCEPT ![p] = TRUE]
          /\ Goto(p, "dequeue")
       \/ /\ value = 0
          /\ Goto(p, "sleep")
          /\ UNCHANGED <<value, acquired>>
    /\ UNCHANGED <<owed, list, lock, waiting, ms, noted, pos, n>>

\* sleep(&phore, semawoke, &phore), or tsleep(): does not sleep when
\* semawoke() or a note says so.
Sleep(p) ==
    /\ pc[p] = "sleep"
    /\ Goto(p, IF waiting[p] /\ ~noted[p] THEN "asleep" ELSE "back")
    /\ UNCHANGED <<value, owed, list, lock, waiting, acquired, ms, noted, pos, n>>

\* The timer of tsleep() goes off, after the time it was set to or later.
Timeout(p) ==
    /\ pc[p] = "asleep" /\ ms[p] # Forever
    /\ ms' = [ms EXCEPT ![p] = IF @ > 0 THEN 0 ELSE @]
    /\ Goto(p, "back")
    /\ UNCHANGED <<value, owed, list, lock, waiting, acquired, noted, pos, n>>

\* A note is posted to p; it gets p out of sleep().
postnote(p) ==
    /\ pc[p] # "idle" /\ ~noted[p]
    /\ noted' = [noted EXCEPT ![p] = TRUE]
    /\ Goto(p, IF pc[p] = "asleep" THEN "back" ELSE pc[p])
    /\ UNCHANGED <<value, owed, list, lock, waiting, acquired, ms, pos, n>>

\* sleep() raises the error Eintr for a note and breaks the loop; otherwise
\* e ticks have passed, and tsemacquire() breaks when none are left.
SleepBack(p, e) ==
    /\ pc[p] = "back"
    /\ IF noted[p]
       THEN /\ noted' = [noted EXCEPT ![p] = FALSE]
            /\ Goto(p, "dequeue")
            /\ UNCHANGED ms
       ELSE LET left == IF ms[p] = Forever \/ ms[p] <= 0 THEN ms[p] ELSE ms[p] - e IN
            /\ ms' = [ms EXCEPT ![p] = left]
            /\ Goto(p, IF left = Forever \/ left > 0 THEN "waiting" ELSE "dequeue")
            /\ UNCHANGED noted
    /\ UNCHANGED <<value, owed, list, lock, waiting, acquired, pos, n>>

\* Mutant: semdequeue() does not lock the list.
semdequeue_nolock(p) ==
    /\ pc[p] = "dequeue"
    /\ \E i \in DOMAIN list : list[i] = p /\ list' = RemoveAt(list, i)
    /\ Goto(p, "pass")
    /\ UNCHANGED <<value, owed, lock, waiting, acquired, ms, noted, pos, n>>

semdequeue(p) ==
    /\ pc[p] = "dequeue" /\ lock = Nil
    /\ \E i \in DOMAIN list : list[i] = p /\ list' = RemoveAt(list, i)
    /\ Goto(p, "pass")
    /\ UNCHANGED <<value, owed, lock, waiting, acquired, ms, noted, pos, n>>

\* Mutant: an unused wakeup is not passed on.
PassOn_keep(p) ==
    /\ pc[p] = "pass"
    /\ Goto(p, "return")
    /\ UNCHANGED <<value, owed, list, lock, waiting, acquired, ms, noted, pos, n>>

\* A wakeup p cannot use any more is passed on to another waiter.
PassOn(p) ==
    /\ pc[p] = "pass"
    /\ \/ /\ waiting[p]
          /\ Goto(p, "return")
          /\ UNCHANGED n
       \/ /\ ~waiting[p]
          /\ n' = [n EXCEPT ![p] = 1]
          /\ Goto(p, "scan")
    /\ UNCHANGED <<value, owed, list, lock, waiting, acquired, ms, noted, pos>>

\* semacquire() returns 1 or raises an error; tsemacquire() returns 0 when
\* its time is over, whatever acquired says.
AcquireReturn(p) ==
    /\ pc[p] = "return"
    /\ LET timedOut == ms[p] # Forever /\ ms[p] <= 0 IN
       owed' = IF acquired[p] /\ ~timedOut THEN owed - 1 ELSE owed
    /\ acquired' = [acquired EXCEPT ![p] = FALSE]
    /\ waiting' = [waiting EXCEPT ![p] = FALSE]
    /\ noted' = [noted EXCEPT ![p] = FALSE]
    /\ ms' = [ms EXCEPT ![p] = Forever]
    /\ Goto(p, "idle")
    /\ UNCHANGED <<value, list, lock, pos, n>>

----------------------------------------------------------------------------
(* semrelease(), by thread t, and semwakeup(), by either kind of thread.   *)

semrelease(t, delta) ==
    /\ pc[t] = "idle"
    /\ value + delta <= MaxValue
    /\ value' = value + delta
    /\ owed' = owed + delta
    /\ n' = [n EXCEPT ![t] = delta]
    /\ Goto(t, "scan")
    /\ UNCHANGED <<list, lock, waiting, acquired, ms, noted, pos>>

semwakeupLock(t) ==
    /\ pc[t] = "scan" /\ lock = Nil
    /\ lock' = t
    /\ pos' = [pos EXCEPT ![t] = 1]
    /\ UNCHANGED <<value, owed, list, waiting, acquired, ms, noted, pc, n>>

\* A waiting process is found: clear its flag, then call wakeup().
semwakeupClear(t) ==
    /\ lock = t /\ pc[t] = "scan"
    /\ pos[t] <= Len(list) /\ n[t] > 0
    /\ waiting[list[pos[t]]]
    /\ waiting' = [waiting EXCEPT ![list[pos[t]]] = FALSE]
    /\ Goto(t, "wake")
    /\ UNCHANGED <<value, owed, list, lock, acquired, ms, noted, pos, n>>

semwakeupSkip(t) ==
    /\ lock = t /\ pc[t] = "scan"
    /\ pos[t] <= Len(list) /\ n[t] > 0
    /\ ~waiting[list[pos[t]]]
    /\ pos' = [pos EXCEPT ![t] = @ + 1]
    /\ UNCHANGED <<value, owed, list, lock, waiting, acquired, ms, noted, pc, n>>

semwakeupWake(t) ==
    /\ pc[t] = "wake"
    /\ LET p == list[pos[t]] IN
       pc' = [pc EXCEPT ![t] = "scan",
                        ![p] = IF @ = "asleep" THEN "back" ELSE @]
    /\ pos' = [pos EXCEPT ![t] = @ + 1]
    /\ n' = [n EXCEPT ![t] = @ - 1]
    /\ UNCHANGED <<value, owed, list, lock, waiting, acquired, ms, noted>>

semwakeupUnlock(t) ==
    /\ lock = t /\ pc[t] = "scan"
    /\ pos[t] > Len(list) \/ n[t] = 0
    /\ lock' = Nil
    /\ pos' = [pos EXCEPT ![t] = 0]
    /\ n' = [n EXCEPT ![t] = 0]
    /\ Goto(t, IF t \in Acquirers THEN "return" ELSE "idle")
    /\ UNCHANGED <<value, owed, list, waiting, acquired, ms, noted>>

----------------------------------------------------------------------------
semwakeup(t) ==
    \/ semwakeupLock(t) \/ semwakeupClear(t) \/ semwakeupSkip(t)
    \/ semwakeupWake(t) \/ semwakeupUnlock(t)

\* What an acquirer does by itself once it has called.
AcquireStep(p) ==
    \/ semqueue(p) \/ SetWaiting(p) \/ TryAgain(p) \/ Sleep(p)
    \/ \E e \in Elapsed : SleepBack(p, e)
    \/ semdequeue(p) \/ PassOn(p) \/ semwakeup(p) \/ AcquireReturn(p)

Next ==
    \/ \E p \in Acquirers :
          \/ AcquireNow(p)
          \/ \E t \in Timeouts \union {Forever} : AcquireBlock(p, t)
          \/ AcquireStep(p)
          \/ Timeout(p)
          \/ postnote(p)
    \/ \E t \in Releasers :
          \/ semwakeup(t)
          \/ \E delta \in Deltas : semrelease(t, delta)

Spec == Init /\ [][Next]_vars

----------------------------------------------------------------------------
(* Properties.                                                             *)

\* The fields hold values of their types; the value is never negative.
TypeOK ==
    /\ value \in 0 .. MaxValue
    /\ owed \in Nat
    /\ list \in Seq(Acquirers)
    /\ lock \in Threads \union {Nil}
    /\ waiting \in [Acquirers -> BOOLEAN]
    /\ acquired \in [Acquirers -> BOOLEAN]
    /\ ms \in [Acquirers -> (-IntMax - 1 .. IntMax) \union {Forever}]
    /\ noted \in [Acquirers -> BOOLEAN]
    /\ pc \in [Threads -> Pcs]
    /\ pos \in [Threads -> Nat]
    /\ n \in [Threads -> Nat]

\* Units are neither lost nor made up: what was released and not yet
\* reported as acquired is in the semaphore or in the hands of a process
\* about to return, and a tsemacquire() that reports a time-out took none.
Conservation ==
    /\ TypeOK
    /\ owed = value + Cardinality({p \in Acquirers : acquired[p]})
    /\ \A p \in Acquirers : pc[p] = "return" /\ ms[p] # Forever /\ ms[p] <= 0 => ~acquired[p]

\* semwakeup() touches only the Sema of a process still inside its call:
\* the structure lives on that process's stack.
SemaAlive ==
    \A t \in Threads : pc[t] = "wake" =>
        pos[t] <= Len(list) /\ pc[list[pos[t]]] \notin {"idle", "pass", "return"}

\* While the semaphore stays positive a sleeper is not forgotten: it never
\* sleeps on for ever with units left.
SleeperServed == \A p \in Acquirers : []<>(pc[p] # "asleep" \/ value = 0)
============================================================================
