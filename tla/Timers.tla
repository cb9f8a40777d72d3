------------------------------- MODULE Timers -------------------------------
(***************************************************************************)
(* Timers: port/portclock.c, and tsleep() and twakeup() of port/proc.c.    *)
(*                                                                         *)
(* Every processor has a list of timers, sorted by expiry, and a hardware  *)
(* clock that interrupts once, at the time it was last set to.  A process  *)
(* in tsleep() adds its own timer to the list of the processor it runs on  *)
(* and takes it away when it wakes up, maybe on another processor; the     *)
(* interrupt handler removes expired timers and calls their function, for  *)
(* tsleep twakeup(), without any lock.  The periodic HZ timer of each      *)
(* processor is in its list as well.                                       *)
(*                                                                         *)
(* Times are relative to the present: a tick of the clock decrements them. *)
(* A timer belongs to its process alone, so the ilock of a Timer is never  *)
(* contended and only shows as interrupts being off; the critical sections *)
(* of a list's ilock are single steps.  sleep() and wakeup() are used by   *)
(* the contract SleepWakeup establishes.                                   *)
(***************************************************************************)
EXTENDS Integers, Sequences, SequencesExt

CONSTANTS
    Procs,      \* processes that call tsleep(); also the name of their timer
    Cpus,       \* processors (Mach); also the name of their HZ timer
    Rendezes,   \* what the processes sleep on
    Delays,     \* arguments of tsleep(), in ticks of the model
    Period,     \* 1/HZ, in ticks of the model
    MaxLate,    \* bound of the model: how late an interrupt may be served
    Never,      \* a hardware clock that is not set; larger than every time
    Nil

TimerIds == Procs \union Cpus

\* What the constants stand for.
TimersAssumption ==
    /\ Procs \intersect Cpus = {} /\ Nil \notin TimerIds \union Rendezes
    /\ Delays \subseteq 1..Never - 1 /\ Period \in 1..Never - 1
    /\ MaxLate \in Nat \ {0} /\ Never \in Nat

VARIABLES
    list,    \* timers[c], from head to end
    twhen,   \* t->twhen, relative to now; 0 for a timer that is in no list
    tt,      \* t->tt, the processor whose list t is in, or Nil
    hw,      \* when the hardware clock of c interrupts
    pc, on,  \* where each process is in tsleep(), and on which processor
    trend,   \* p->trend
    rend,    \* tsleep's argument r
    ipc,     \* where each processor is in timerintr()
    inow,    \* timerintr's local now, relative to the present
    it,      \* timerintr's local t
    irend    \* twakeup's local trend

vars == <<list, twhen, tt, hw, pc, on, trend, rend, ipc, inow, it, irend>>

procVars == <<pc, on, trend, rend>>
intrVars == <<ipc, inow, it, irend>>

\* timerset(): the next interrupt of c comes at this time.
timerset(c, when) == hw' = [hw EXCEPT ![c] = when]

\* Where tadd() links a timer that expires at w: before the first that expires
\* later.
Insert(s, t, w) ==
    LET Before(n) == /\ \A i \in 1..n : twhen[s[i]] <= w
                     /\ n < Len(s) => twhen[s[n + 1]] > w
    IN  InsertAt(s, 1 + CHOOSE n \in 0..Len(s) : Before(n), t)

\* tdel() unlinks timer t from list s, if it is there.
Unlink(s, t) ==
    IF t \in ToSet(s) THEN RemoveAt(s, CHOOSE i \in 1..Len(s) : s[i] = t) ELSE s

\* The lists without timer t.
Without(t) == IF tt[t] = Nil THEN list ELSE [list EXCEPT ![tt[t]] = Unlink(@, t)]

Init ==
    /\ list = [c \in Cpus |-> <<c>>]
    /\ twhen = [t \in TimerIds |-> IF t \in Cpus THEN Period ELSE 0]
    /\ tt = [t \in TimerIds |-> IF t \in Cpus THEN t ELSE Nil]
    /\ hw = [c \in Cpus |-> Period]
    /\ pc = [p \in Procs |-> "run"]
    /\ on \in {f \in [Procs -> Cpus] : \A p, q \in Procs : f[p] = f[q] => p = q}
    /\ trend = [p \in Procs |-> Nil]
    /\ rend = [p \in Procs |-> Nil]
    /\ ipc = [c \in Cpus |-> "idle"]
    /\ inow = [c \in Cpus |-> 0]
    /\ it = [c \in Cpus |-> Nil]
    /\ irend = [c \in Cpus |-> Nil]

\* p executes: it is on a processor that is not in an interrupt handler.
Runs(p) == on[p] # Nil /\ ipc[on[p]] = "idle"

Goto(p, l) == pc' = [pc EXCEPT ![p] = l]

\* Each r has one sleeper; p is asleep on it, and becomes ready.
wakeup(r) ==
    pc' = [p \in Procs |-> IF pc[p] = "asleep" /\ rend[p] = r THEN "ready" ELSE pc[p]]

----------------------------------------------------------------------------
(* tsleep(r, fn, arg, ms), by process p.                                   *)

\* The fields of the timer are filled in.  (It is not active: ListsOK.)
TsleepSet(p, r) ==
    /\ pc[p] = "run" /\ Runs(p)
    /\ \A q \in Procs : rend[q] # r
    /\ rend' = [rend EXCEPT ![p] = r]
    /\ trend' = [trend EXCEPT ![p] = r]
    /\ Goto(p, "timeradd")
    /\ UNCHANGED <<list, twhen, tt, hw, on, intrVars>>

\* Mutant: the timer goes to the end of the list.
timeradd_append(p, ms) ==
    LET c == on[p] IN
    /\ pc[p] = "timeradd" /\ Runs(p)
    /\ twhen' = [twhen EXCEPT ![p] = ms]
    /\ list' = [Without(p) EXCEPT ![c] = Append(@, p)]
    /\ tt' = [tt EXCEPT ![p] = c]
    /\ IF Head(list'[c]) = p THEN timerset(c, ms) ELSE UNCHANGED hw
    /\ Goto(p, "sleep")
    /\ UNCHANGED <<on, trend, rend, intrVars>>

\* timeradd(up): the timer leaves its old list, if any, and joins the list
\* of this processor (tadd), whose clock is set if the timer is first.
timeradd(p, ms) ==
    LET c == on[p] IN
    /\ pc[p] = "timeradd" /\ Runs(p)
    /\ twhen' = [twhen EXCEPT ![p] = ms]
    /\ list' = [Without(p) EXCEPT ![c] = Insert(@, p, ms)]
    /\ tt' = [tt EXCEPT ![p] = c]
    /\ IF Head(list'[c]) = p THEN timerset(c, ms) ELSE UNCHANGED hw
    /\ Goto(p, "sleep")
    /\ UNCHANGED <<on, trend, rend, intrVars>>

\* sleep(r, tfn, arg): returns at once when the timer has expired, or when
\* the caller's condition holds or a note is pending, which is left open.
TsleepSleep(p) ==
    /\ pc[p] = "sleep" /\ Runs(p)
    /\ \/ Goto(p, "awake") /\ UNCHANGED on
       \/ /\ trend[p] # Nil
          /\ Goto(p, "asleep")
          /\ on' = [on EXCEPT ![p] = Nil]
    /\ UNCHANGED <<list, twhen, tt, hw, trend, rend, intrVars>>

\* Somebody else wakes p: the event it waits for, or a note.
WakeOther(p) ==
    /\ pc[p] = "asleep"
    /\ Goto(p, "ready")
    /\ UNCHANGED <<list, twhen, tt, hw, on, trend, rend, intrVars>>

\* A processor without a process picks p up.
Dispatch(p, c) ==
    /\ pc[p] = "ready"
    /\ ipc[c] = "idle" /\ \A q \in Procs : on[q] # c
    /\ on' = [on EXCEPT ![p] = c]
    /\ Goto(p, "awake")
    /\ UNCHANGED <<list, twhen, tt, hw, trend, rend, intrVars>>

\* Mutant: another processor's new first timer is set on this one's clock.
TsleepEnd_anyclock(p) ==
    LET c == tt[p] IN
    /\ pc[p] = "awake" /\ Runs(p)
    /\ IF c = Nil
       THEN UNCHANGED <<list, hw>>
       ELSE /\ list' = Without(p)
            /\ IF p = Head(list[c]) /\ list'[c] # <<>>
               THEN timerset(on[p], twhen[Head(list'[c])])
               ELSE UNCHANGED hw
    /\ tt' = [tt EXCEPT ![p] = Nil]
    /\ twhen' = [twhen EXCEPT ![p] = 0]
    /\ rend' = [rend EXCEPT ![p] = Nil]
    /\ Goto(p, "run")
    /\ UNCHANGED <<on, trend, intrVars>>

\* After sleep(), also when it raised an error: timerdel(up) if the timer is
\* in a list; the clock of this processor is set to its new first timer.
TsleepEnd(p) ==
    LET c == tt[p] IN
    /\ pc[p] = "awake" /\ Runs(p)
    /\ IF c = Nil
       THEN UNCHANGED <<list, hw>>
       ELSE /\ list' = Without(p)
            /\ IF p = Head(list[c]) /\ list'[c] # <<>> /\ c = on[p]
               THEN timerset(c, twhen[Head(list'[c])])
               ELSE UNCHANGED hw
    /\ tt' = [tt EXCEPT ![p] = Nil]
    /\ twhen' = [twhen EXCEPT ![p] = 0]
    /\ rend' = [rend EXCEPT ![p] = Nil]
    /\ Goto(p, "run")
    /\ UNCHANGED <<on, trend, intrVars>>

----------------------------------------------------------------------------
(* timerintr(), on processor c.                                            *)

\* The hardware clock of c interrupts whatever runs there.
TimerIntr(c) ==
    /\ ipc[c] = "idle" /\ hw[c] <= 0
    /\ hw' = [hw EXCEPT ![c] = Never]
    /\ ipc' = [ipc EXCEPT ![c] = "scan"]
    /\ inow' = [inow EXCEPT ![c] = 0]
    /\ UNCHANGED <<list, twhen, tt, procVars, it, irend>>

\* The first timer is not due: set the clock for it and return.
TimerIntrDone(c) ==
    LET t == Head(list[c]) IN
    /\ ipc[c] = "scan"
    /\ list[c] = <<>> \/ twhen[t] > inow[c]
    /\ IF list[c] = <<>> THEN UNCHANGED hw ELSE timerset(c, twhen[t])
    /\ ipc' = [ipc EXCEPT ![c] = "idle"]
    /\ inow' = [inow EXCEPT ![c] = 0]
    /\ UNCHANGED <<list, twhen, tt, procVars, it, irend>>

\* The HZ timer is due: tadd() puts it back, one period later.
TimerIntrHz(c) ==
    /\ ipc[c] = "scan" /\ list[c] # <<>> /\ Head(list[c]) = c
    /\ twhen[c] <= inow[c]
    /\ twhen' = [twhen EXCEPT ![c] = @ + Period]
    /\ list' = [list EXCEPT ![c] = Insert(Tail(@), c, twhen[c] + Period)]
    /\ UNCHANGED <<tt, hw, procVars, intrVars>>

\* A process's timer is due: unlink it and release the list.
TimerIntrExpire(c) ==
    LET p == Head(list[c]) IN
    /\ ipc[c] = "scan" /\ list[c] # <<>> /\ p \in Procs
    /\ twhen[p] <= inow[c]
    /\ list' = [list EXCEPT ![c] = Tail(@)]
    /\ tt' = [tt EXCEPT ![p] = Nil]
    /\ twhen' = [twhen EXCEPT ![p] = 0]
    /\ it' = [it EXCEPT ![c] = p]
    /\ ipc' = [ipc EXCEPT ![c] = "trend"]
    /\ UNCHANGED <<hw, procVars, inow, irend>>

\* twakeup(): trend = p->trend, without a lock ...
TwakeupRead(c) ==
    /\ ipc[c] = "trend"
    /\ irend' = [irend EXCEPT ![c] = trend[it[c]]]
    /\ ipc' = [ipc EXCEPT ![c] = "wakeup"]
    /\ UNCHANGED <<list, twhen, tt, hw, procVars, inow, it>>

\* ... p->trend = 0; if(trend) wakeup(trend); then timerintr locks the list
\* and goes on.
Twakeup(c) ==
    /\ ipc[c] = "wakeup"
    /\ trend' = [trend EXCEPT ![it[c]] = Nil]
    /\ IF irend[c] # Nil THEN wakeup(irend[c]) ELSE UNCHANGED pc
    /\ ipc' = [ipc EXCEPT ![c] = "scan"]
    /\ it' = [it EXCEPT ![c] = Nil]
    /\ irend' = [irend EXCEPT ![c] = Nil]
    /\ UNCHANGED <<list, twhen, tt, hw, on, rend, inow>>

\* Time passes for everyone, but no interrupt is kept waiting for ever.
Tick ==
    /\ \A c \in Cpus : hw[c] > -MaxLate /\ inow[c] > -MaxLate
    /\ \A t \in TimerIds : tt[t] # Nil => twhen[t] > -MaxLate
    /\ twhen' = [t \in TimerIds |-> IF tt[t] = Nil THEN twhen[t] ELSE twhen[t] - 1]
    /\ hw' = [c \in Cpus |-> IF hw[c] = Never THEN Never ELSE hw[c] - 1]
    /\ inow' = [c \in Cpus |-> IF ipc[c] = "idle" THEN 0 ELSE inow[c] - 1]
    /\ UNCHANGED <<list, tt, procVars, ipc, it, irend>>

----------------------------------------------------------------------------
IntrStep(c) ==
    \/ TimerIntr(c) \/ TimerIntrDone(c) \/ TimerIntrHz(c)
    \/ TimerIntrExpire(c) \/ TwakeupRead(c) \/ Twakeup(c)

ProcStep(p) ==
    \/ \E ms \in Delays : timeradd(p, ms)
    \/ TsleepSleep(p) \/ TsleepEnd(p)
    \/ \E c \in Cpus : Dispatch(p, c)

Next ==
    \/ \E p \in Procs : ProcStep(p) \/ WakeOther(p) \/ \E r \in Rendezes : TsleepSet(p, r)
    \/ \E c \in Cpus : IntrStep(c)
    \/ Tick

Spec == Init /\ [][Next]_vars

\* Processors execute, interrupts are taken, clocks advance.  A processor
\* that a process waits for is free of interrupts again and again.
Fairness ==
    /\ \A p \in Procs : SF_vars(ProcStep(p))
    /\ \A c \in Cpus : WF_vars(IntrStep(c))
    /\ WF_vars(Tick)

LiveSpec == Spec /\ Fairness

----------------------------------------------------------------------------
(* Properties.                                                             *)

\* The fields of Timer, Proc and the clocks hold values of their types.
TypeOK ==
    /\ list \in [Cpus -> Seq(TimerIds)]
    /\ twhen \in [TimerIds -> -MaxLate..Never]
    /\ tt \in [TimerIds -> Cpus \union {Nil}]
    /\ hw \in [Cpus -> -MaxLate..Never]
    /\ pc \in [Procs -> {"run", "timeradd", "sleep", "asleep", "ready", "awake"}]
    /\ on \in [Procs -> Cpus \union {Nil}]
    /\ trend \in [Procs -> Rendezes \union {Nil}]
    /\ rend \in [Procs -> Rendezes \union {Nil}]
    /\ ipc \in [Cpus -> {"idle", "scan", "trend", "wakeup"}]
    /\ inow \in [Cpus -> -MaxLate..0]
    /\ it \in [Cpus -> Procs \union {Nil}]
    /\ irend \in [Cpus -> Rendezes \union {Nil}]

\* tadd() and tdel(): a timer is in the list that t->tt says, once, and in no
\* other, although processes move between processors while they sleep; every
\* list is sorted by expiry.  Outside tsleep() a process's timer is in no list,
\* so that its warning "timer active" is not given.
ListsOK ==
    TypeOK /\ \A c \in Cpus :
        /\ \A i, j \in 1..Len(list[c]) :
              i < j => list[c][i] # list[c][j] /\ twhen[list[c][i]] <= twhen[list[c][j]]
        /\ \A t \in TimerIds : t \in ToSet(list[c]) <=> tt[t] = c
        /\ \A p \in Procs : pc[p] \in {"run", "timeradd"} => p \notin ToSet(list[c])

\* timerset(): outside its handler, a processor with a timer in its list
\* gets an interrupt no later than the first of them expires.
Armed ==
    \A c \in Cpus : ipc[c] = "idle" /\ list[c] # <<>> => hw[c] <= twhen[Head(list[c])]

\* The timeout of p is under way, in a list or in the hands of a handler, but
\* p->trend has been cleared: by a twakeup() for its previous tsleep(), which
\* came late.  It will find nobody to wake.
TimeoutLost(p) ==
    /\ trend[p] = Nil
    /\ tt[p] # Nil \/ \E c \in Cpus : it[c] = p /\ irend[c] = Nil

\* tsleep() is over after its time, with nobody else's help, wherever the
\* process and its timer are: no clock is left unset and no expiry forgotten,
\* except for what TimeoutLost describes.
TsleepEnds ==
    \A p \in Procs :
        (pc[p] = "asleep" /\ trend[p] # Nil) ~> (pc[p] = "run" \/ TimeoutLost(p))

=============================================================================
