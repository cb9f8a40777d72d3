---------------------------- MODULE SleepWakeup ----------------------------
(***************************************************************************)
(* The kernel's sleep/wakeup mechanism: sleep(), wakeup() and postnote()   *)
(* of port/proc.c, at the granularity of their spin locks.                 *)
(*                                                                         *)
(* A process that must wait for an event calls sleep(r, f, arg); whoever   *)
(* makes f true calls wakeup(r), often from an interrupt handler; a note   *)
(* (signal) posted to the process interrupts the sleep.  sleep and wakeup  *)
(* lock the Rendez and then the process's rlock, postnote takes them in    *)
(* the opposite order and backs off when it cannot have the second.        *)
(*                                                                         *)
(* Each thread of control has its own processor until it leaves it, so any *)
(* interleaving of the steps below is a schedule of a multiprocessor.      *)
(***************************************************************************)
EXTENDS Naturals

CONSTANTS
    Procs,      \* processes that sleep (Proc)
    Rendezes,   \* rendezvous points (Rendez), one event each
    Wakers,     \* activations of wakeup(): drivers, interrupt handlers
    Noters,     \* activations of postnote()
    Nil         \* the C nil

Threads == Procs \union Wakers \union Noters
Locks   == Procs \union Rendezes    \* p->rlock and r->Lock

ASSUME SetsAssumption ==
    /\ Procs \intersect Rendezes = {}
    /\ Procs \intersect Wakers = {}
    /\ Procs \intersect Noters = {}
    /\ Wakers \intersect Noters = {}
    /\ Rendezes \intersect Threads = {}
    /\ Nil \notin Threads \union Rendezes

VARIABLES
    pc,          \* where each thread is
    arg,         \* the Rendez or Proc the thread's call is about
    loc,         \* wakeup's local p, postnote's local r
    state,       \* p->state
    oncpu,       \* number of processors executing on p's kernel stack
    queued,      \* number of times p is linked into a run queue
    rp,          \* r->p, the process committed to sleep on r
    pr,          \* p->r, the Rendez p is committed to sleep on
    notepending, \* p->notepending
    event,       \* what the sleep's condition function f reads
    holder,      \* who holds each spin lock
    splhi,       \* TRUE while the thread runs with interrupts disabled
    host         \* the thread whose processor a waker interrupted, or Nil

vars == <<pc, arg, loc, state, oncpu, queued, rp, pr, notepending, event,
          holder, splhi, host>>

ProcPcs  == {"run", "lockr", "lockp", "cond", "note", "nevermind",
             "unlock", "switch", "asleep", "check"}
WakerPcs == {"idle", "lockr", "lockp", "ready"}
NoterPcs == {"idle", "splhi", "lockp", "try"}

----------------------------------------------------------------------------
(* Spin locks, processors and the run queue, as these routines use them.   *)

Free(l)        == holder[l] = Nil
\* procsaved(p): nobody is executing on p's kernel stack.
procsaved(p)   == oncpu[p] = 0
\* An interrupted thread does not move until the handler returns.
Interrupted(t) == \E w \in Wakers : host[w] = t
Interruptible(t) ==
    /\ ~splhi[t]
    /\ ~Interrupted(t)
    /\ t \in Procs => (state[t] = "Running" /\ oncpu[t] = 1)
\* ready(p): make p runnable and link it into a run queue.
ready(p) ==
    /\ state'  = [state EXCEPT ![p] = "Ready"]
    /\ queued' = [queued EXCEPT ![p] = @ + 1]

Goto(t, l) == pc' = [pc EXCEPT ![t] = l]

Init ==
    /\ pc = [t \in Threads |-> IF t \in Procs THEN "run" ELSE "idle"]
    /\ arg = [t \in Threads |-> Nil]
    /\ loc = [t \in Wakers \union Noters |-> Nil]
    /\ state = [p \in Procs |-> "Running"]
    /\ oncpu = [p \in Procs |-> 1]
    /\ queued = [p \in Procs |-> 0]
    /\ rp = [r \in Rendezes |-> Nil]
    /\ pr = [p \in Procs |-> Nil]
    /\ notepending = [p \in Procs |-> FALSE]
    /\ event = [r \in Rendezes |-> FALSE]
    /\ holder = [l \in Locks |-> Nil]
    /\ splhi = [t \in Procs \union Noters |-> FALSE]
    /\ host = [w \in Wakers |-> Nil]

----------------------------------------------------------------------------
(* sleep(r, f, arg), run by process p.                                     *)

\* The caller's side of the contract: one process at a time sleeps on r.
SleepEnter(p, r) ==
    /\ pc[p] = "run" /\ ~Interrupted(p)
    /\ \A q \in Procs : arg[q] # r
    /\ arg' = [arg EXCEPT ![p] = r]
    /\ splhi' = [splhi EXCEPT ![p] = TRUE]
    /\ Goto(p, "lockr")
    /\ UNCHANGED <<loc, state, oncpu, queued, rp, pr, notepending, event, holder, host>>

SleepLockRendez(p) ==
    /\ pc[p] = "lockr" /\ ~Interrupted(p)
    /\ Free(arg[p])
    /\ holder' = [holder EXCEPT ![arg[p]] = p]
    /\ Goto(p, "lockp")
    /\ UNCHANGED <<arg, loc, state, oncpu, queued, rp, pr, notepending, event, splhi, host>>

\* Mutant: r->p = up forgotten.
SleepLockProc_norp(p) ==
    /\ pc[p] = "lockp" /\ ~Interrupted(p)
    /\ Free(p)
    /\ holder' = [holder EXCEPT ![p] = p]
    /\ Goto(p, "cond")
    /\ UNCHANGED <<arg, loc, state, oncpu, queued, rp, pr, notepending, event, splhi, host>>

\* lock(&up->rlock), then r->p = up.
SleepLockProc(p) ==
    /\ pc[p] = "lockp" /\ ~Interrupted(p)
    /\ Free(p)
    /\ holder' = [holder EXCEPT ![p] = p]
    /\ rp' = [rp EXCEPT ![arg[p]] = p]
    /\ Goto(p, "cond")
    /\ UNCHANGED <<arg, loc, state, oncpu, queued, pr, notepending, event, splhi, host>>

\* (*f)(arg): the event may be set by anyone, without a lock.
SleepCondition(p) ==
    /\ pc[p] = "cond" /\ ~Interrupted(p)
    /\ Goto(p, IF event[arg[p]] THEN "nevermind" ELSE "note")
    /\ UNCHANGED <<arg, loc, state, oncpu, queued, rp, pr, notepending, event, holder, splhi, host>>

\* Mutant: notepending not tested under the locks.
SleepCommit_nonote(p) ==
    /\ pc[p] = "note" /\ ~Interrupted(p)
    /\ state' = [state EXCEPT ![p] = "Wakeme"]
    /\ pr' = [pr EXCEPT ![p] = arg[p]]
    /\ Goto(p, "unlock")
    /\ UNCHANGED <<arg, loc, oncpu, queued, rp, notepending, event, holder, splhi, host>>

SleepCommit(p) ==
    /\ pc[p] = "note" /\ ~Interrupted(p)
    /\ \/ /\ notepending[p]
          /\ Goto(p, "nevermind")
          /\ UNCHANGED <<state, pr>>
       \/ /\ ~notepending[p]
          /\ state' = [state EXCEPT ![p] = "Wakeme"]
          /\ pr' = [pr EXCEPT ![p] = arg[p]]
          /\ Goto(p, "unlock")
    /\ UNCHANGED <<arg, loc, oncpu, queued, rp, notepending, event, holder, splhi, host>>

SleepNeverMind(p) ==
    /\ pc[p] = "nevermind" /\ ~Interrupted(p)
    /\ rp' = [rp EXCEPT ![arg[p]] = Nil]
    /\ holder' = [holder EXCEPT ![p] = Nil, ![arg[p]] = Nil]
    /\ Goto(p, "check")
    /\ UNCHANGED <<arg, loc, state, oncpu, queued, pr, notepending, event, splhi, host>>

\* Committed: from here on a wakeup may put p on the run queue although p
\* is still executing on its stack.
SleepUnlock(p) ==
    /\ pc[p] = "unlock" /\ ~Interrupted(p)
    /\ holder' = [holder EXCEPT ![p] = Nil, ![arg[p]] = Nil]
    /\ Goto(p, "switch")
    /\ UNCHANGED <<arg, loc, state, oncpu, queued, rp, pr, notepending, event, splhi, host>>

\* Mutant: schedinit() forgets p->mach = nil.
SleepSwitch_keepmach(p) ==
    /\ pc[p] = "switch" /\ ~Interrupted(p)
    /\ Goto(p, "asleep")
    /\ UNCHANGED <<arg, loc, state, oncpu, queued, rp, pr, notepending, event, holder, splhi, host>>

\* gotolabel(&m->sched): schedinit() leaves p's stack and sets p->mach = nil.
SleepSwitch(p) ==
    /\ pc[p] = "switch" /\ ~Interrupted(p)
    /\ oncpu' = [oncpu EXCEPT ![p] = @ - 1]
    /\ Goto(p, "asleep")
    /\ UNCHANGED <<arg, loc, state, queued, rp, pr, notepending, event, holder, splhi, host>>

\* Mutant: dequeueproc() without the procsaved() test.
Dispatch_unsaved(p) ==
    /\ queued[p] > 0
    /\ queued' = [queued EXCEPT ![p] = @ - 1]
    /\ state' = [state EXCEPT ![p] = "Running"]
    /\ oncpu' = [oncpu EXCEPT ![p] = @ + 1]
    /\ splhi' = [splhi EXCEPT ![p] = FALSE]
    /\ Goto(p, "check")
    /\ UNCHANGED <<arg, loc, rp, pr, notepending, event, holder, host>>

\* Some processor takes p from its run queue (runproc, dequeueproc) and
\* resumes it after its setlabel() in sleep().
Dispatch(p) ==
    /\ queued[p] > 0
    /\ procsaved(p)
    /\ queued' = [queued EXCEPT ![p] = @ - 1]
    /\ state' = [state EXCEPT ![p] = "Running"]
    /\ oncpu' = [oncpu EXCEPT ![p] = @ + 1]
    /\ splhi' = [splhi EXCEPT ![p] = FALSE]
    /\ Goto(p, "check")
    /\ UNCHANGED <<arg, loc, rp, pr, notepending, event, holder, host>>

\* A pending note makes sleep() raise Eintr, otherwise it returns.
SleepReturn(p) ==
    /\ pc[p] = "check" /\ ~Interrupted(p)
    /\ notepending' = [notepending EXCEPT ![p] = FALSE]
    /\ splhi' = [splhi EXCEPT ![p] = FALSE]
    /\ arg' = [arg EXCEPT ![p] = Nil]
    /\ Goto(p, "run")
    /\ UNCHANGED <<loc, state, oncpu, queued, rp, pr, event, holder, host>>

\* The process uses up the event it waited for.
Consume(p, r) ==
    /\ pc[p] = "run" /\ ~Interrupted(p)
    /\ event[r] /\ \A q \in Procs : arg[q] # r
    /\ event' = [event EXCEPT ![r] = FALSE]
    /\ UNCHANGED <<pc, arg, loc, state, oncpu, queued, rp, pr, notepending, holder, splhi, host>>

----------------------------------------------------------------------------
(* wakeup(r), run by waker w: on a processor of its own, or as a handler   *)
(* that interrupted the thread h.                                          *)

\* The waker makes the condition true and calls wakeup(r).
WakerCall(w, r, h) ==
    /\ pc[w] = "idle"
    /\ h # Nil => Interruptible(h)
    /\ event' = [event EXCEPT ![r] = TRUE]
    /\ arg' = [arg EXCEPT ![w] = r]
    /\ host' = [host EXCEPT ![w] = h]
    /\ Goto(w, "lockr")
    /\ UNCHANGED <<loc, state, oncpu, queued, rp, pr, notepending, holder, splhi>>

\* lock(r), nobody sleeps there, unlock(r).
WakeupNobody(w) ==
    /\ pc[w] = "lockr"
    /\ Free(arg[w]) /\ rp[arg[w]] = Nil
    /\ host' = [host EXCEPT ![w] = Nil]
    /\ arg' = [arg EXCEPT ![w] = Nil]
    /\ Goto(w, "idle")
    /\ UNCHANGED <<loc, state, oncpu, queued, rp, pr, notepending, event, holder, splhi>>

WakeupLockRendez(w) ==
    /\ pc[w] = "lockr"
    /\ Free(arg[w]) /\ rp[arg[w]] # Nil
    /\ holder' = [holder EXCEPT ![arg[w]] = w]
    /\ loc' = [loc EXCEPT ![w] = rp[arg[w]]]
    /\ Goto(w, "lockp")
    /\ UNCHANGED <<arg, state, oncpu, queued, rp, pr, notepending, event, splhi, host>>

WakeupLockProc(w) ==
    /\ pc[w] = "lockp"
    /\ Free(loc[w])
    /\ holder' = [holder EXCEPT ![loc[w]] = w]
    /\ Goto(w, "ready")
    /\ UNCHANGED <<arg, loc, state, oncpu, queued, rp, pr, notepending, event, splhi, host>>

WakeupReady(w) ==
    /\ pc[w] = "ready"
    /\ rp' = [rp EXCEPT ![arg[w]] = Nil]
    /\ pr' = [pr EXCEPT ![loc[w]] = Nil]
    /\ ready(loc[w])
    /\ holder' = [holder EXCEPT ![loc[w]] = Nil, ![arg[w]] = Nil]
    /\ arg' = [arg EXCEPT ![w] = Nil]
    /\ loc' = [loc EXCEPT ![w] = Nil]
    /\ host' = [host EXCEPT ![w] = Nil]
    /\ Goto(w, "idle")
    /\ UNCHANGED <<oncpu, notepending, event, splhi>>

----------------------------------------------------------------------------
(* postnote(p, ...), run by noter n.  The processes here block in sleep()  *)
(* only, so its tail for Rendezvous and Semdown processes does nothing.    *)

PostnotePend(n, p) ==
    /\ pc[n] = "idle" /\ ~Interrupted(n)
    /\ notepending' = [notepending EXCEPT ![p] = TRUE]
    /\ arg' = [arg EXCEPT ![n] = p]
    /\ Goto(n, "splhi")
    /\ UNCHANGED <<loc, state, oncpu, queued, rp, pr, event, holder, splhi, host>>

PostnoteSplhi(n) ==
    /\ pc[n] = "splhi" /\ ~Interrupted(n)
    /\ splhi' = [splhi EXCEPT ![n] = TRUE]
    /\ Goto(n, "lockp")
    /\ UNCHANGED <<arg, loc, state, oncpu, queued, rp, pr, notepending, event, holder, host>>

\* lock(&p->rlock), p is not committed to a sleep, unlock(&p->rlock).
PostnoteAwake(n) ==
    /\ pc[n] = "lockp" /\ ~Interrupted(n)
    /\ Free(arg[n]) /\ pr[arg[n]] = Nil
    /\ splhi' = [splhi EXCEPT ![n] = FALSE]
    /\ arg' = [arg EXCEPT ![n] = Nil]
    /\ Goto(n, "idle")
    /\ UNCHANGED <<loc, state, oncpu, queued, rp, pr, notepending, event, holder, host>>

PostnoteLockProc(n) ==
    /\ pc[n] = "lockp" /\ ~Interrupted(n)
    /\ Free(arg[n]) /\ pr[arg[n]] # Nil
    /\ holder' = [holder EXCEPT ![arg[n]] = n]
    /\ loc' = [loc EXCEPT ![n] = pr[arg[n]]]
    /\ Goto(n, "try")
    /\ UNCHANGED <<arg, state, oncpu, queued, rp, pr, notepending, event, splhi, host>>

\* canlock(r) succeeds: both locks are held, wake p.
PostnoteReady(n) ==
    /\ pc[n] = "try" /\ ~Interrupted(n)
    /\ Free(loc[n])
    /\ pr' = [pr EXCEPT ![arg[n]] = Nil]
    /\ rp' = [rp EXCEPT ![loc[n]] = Nil]
    /\ ready(arg[n])
    /\ holder' = [holder EXCEPT ![arg[n]] = Nil]
    /\ arg' = [arg EXCEPT ![n] = Nil]
    /\ loc' = [loc EXCEPT ![n] = Nil]
    /\ splhi' = [splhi EXCEPT ![n] = FALSE]
    /\ Goto(n, "idle")
    /\ UNCHANGED <<oncpu, notepending, event, host>>

\* canlock(r) fails: give up p->rlock, let others run, try again.
PostnoteRetry(n) ==
    /\ pc[n] = "try" /\ ~Interrupted(n)
    /\ ~Free(loc[n])
    /\ holder' = [holder EXCEPT ![arg[n]] = Nil]
    /\ loc' = [loc EXCEPT ![n] = Nil]
    /\ splhi' = [splhi EXCEPT ![n] = FALSE]
    /\ Goto(n, "splhi")
    /\ UNCHANGED <<arg, state, oncpu, queued, rp, pr, notepending, event, host>>

----------------------------------------------------------------------------
\* What sleep() does by itself once called; Dispatch is the scheduler's.
SleepStep(p) ==
    \/ SleepLockRendez(p) \/ SleepLockProc(p) \/ SleepCondition(p)
    \/ SleepCommit(p) \/ SleepNeverMind(p) \/ SleepUnlock(p)
    \/ SleepSwitch(p) \/ SleepReturn(p)

WakeupStep(w) ==
    \/ WakeupNobody(w) \/ WakeupLockRendez(w) \/ WakeupLockProc(w) \/ WakeupReady(w)

PostnoteStep(n) ==
    \/ PostnoteSplhi(n) \/ PostnoteAwake(n) \/ PostnoteLockProc(n)
    \/ PostnoteReady(n) \/ PostnoteRetry(n)

Next ==
    \/ \E p \in Procs :
          \/ SleepStep(p)
          \/ Dispatch(p)
          \/ \E r \in Rendezes : SleepEnter(p, r) \/ Consume(p, r)
    \/ \E w \in Wakers :
          \/ WakeupStep(w)
          \/ \E r \in Rendezes, h \in Procs \union Noters \union {Nil} : WakerCall(w, r, h)
    \/ \E n \in Noters :
          \/ PostnoteStep(n)
          \/ \E p \in Procs : PostnotePend(n, p)

Spec == Init /\ [][Next]_vars

(***************************************************************************)
(* Fairness: a processor keeps executing the routine it is in and handlers *)
(* do not monopolise it; the spin locks are queue locks (mcslock, tiklock) *)
(* so a thread that keeps asking for one gets it: hence strong fairness of *)
(* the steps inside a routine.  A runnable process is eventually           *)
(* dispatched.  Nobody is obliged to call sleep, wakeup or postnote.       *)
(***************************************************************************)
Fairness ==
    /\ \A p \in Procs : SF_vars(SleepStep(p)) /\ WF_vars(Dispatch(p))
    /\ \A w \in Wakers : SF_vars(WakeupStep(w))
    /\ \A n \in Noters : SF_vars(PostnoteStep(n))

FairSpec == Spec /\ Fairness

----------------------------------------------------------------------------
(* Properties.                                                             *)

\* Every variable holds a value of its type; only a thread of the right
\* kind holds a lock.
TypeOK ==
    /\ pc \in [Threads -> ProcPcs \union WakerPcs \union NoterPcs]
    /\ arg \in [Threads -> Procs \union Rendezes \union {Nil}]
    /\ loc \in [Wakers \union Noters -> Procs \union Rendezes \union {Nil}]
    /\ state \in [Procs -> {"Running", "Wakeme", "Ready"}]
    /\ oncpu \in [Procs -> Nat]
    /\ queued \in [Procs -> Nat]
    /\ rp \in [Rendezes -> Procs \union {Nil}]
    /\ pr \in [Procs -> Rendezes \union {Nil}]
    /\ notepending \in [Procs -> BOOLEAN]
    /\ event \in [Rendezes -> BOOLEAN]
    /\ holder \in [Locks -> Threads \union {Nil}]
    /\ splhi \in [Procs \union Noters -> BOOLEAN]
    /\ host \in [Wakers -> Procs \union Noters \union {Nil}]

\* sleep(), wakeup() and postnote() keep r->p and p->r synchronized: a
\* committed sleeper is known to its Rendez, and a Rendez nobody has locked
\* names only a process committed to sleep on it.
RendezSync ==
    /\ \A p \in Procs, r \in Rendezes :
          pr[p] = r => rp[r] = p /\ state[p] = "Wakeme"
    /\ \A p \in Procs, r \in Rendezes :
          rp[r] = p /\ Free(r) => pr[p] = r

\* Neither panic("wakeup: state") nor panic("postnote: state ...") is
\* reached: whoever holds both locks finds the process still asleep there.
NoPanic ==
    /\ \A w \in Wakers : pc[w] = "ready" =>
          state[loc[w]] = "Wakeme" /\ pr[loc[w]] = arg[w]
    /\ \A n \in Noters : pc[n] = "try" /\ Free(loc[n]) =>
          state[arg[n]] = "Wakeme" /\ rp[loc[n]] = arg[n]

\* A process that was woken before it left its processor is not resumed on
\* a second one, and is in a run queue at most once, however wakeups and
\* notes race with the last steps of sleep().
OneStack ==
    \A p \in Procs :
        /\ oncpu[p] <= 1
        /\ queued[p] = (IF state[p] = "Ready" THEN 1 ELSE 0)

\* If the event a sleeping process waits for has happened, some wakeup()
\* of its Rendez is still to come: the condition cannot become true
\* unnoticed between sleep()'s test and its commitment.
NoLostWakeup ==
    \A p \in Procs : state[p] = "Wakeme" /\ event[arg[p]] =>
        \E w \in Wakers : pc[w] # "idle" /\ arg[w] = arg[p]

\* A process never sleeps on a note it was not told about: while it is
\* asleep with notepending set, some postnote() to it is under way.
NoLostNote ==
    \A p \in Procs : state[p] = "Wakeme" /\ notepending[p] =>
        \E n \in Noters : pc[n] # "idle" /\ arg[n] = p

\* When the event happens the sleeper returns from sleep().
EventWakes ==
    \A p \in Procs : (state[p] = "Wakeme" /\ event[arg[p]]) ~> pc[p] = "run"
============================================================================
