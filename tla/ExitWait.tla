------------------------------ MODULE ExitWait ------------------------------
(***************************************************************************)
(* The life of a process: rfork() and await() of port/sysproc.c, newproc(),*)
(* pexit(), pwait() and the list of broken processes of port/proc.c, the   *)
(* process table of port/ps.c and the end of a process in schedinit().     *)
(*                                                                         *)
(* A parent counts its living children in nchild and keeps a list of the   *)
(* wait records that exited ones left.  Both are guarded by the spin lock  *)
(* exl of the parent, whose critical sections are single steps here.  A    *)
(* slot of the process table outlives the process in it: an exiting child  *)
(* finds its parent by slot and must make sure that the same process is    *)
(* still there.  sleep() and wakeup() are used by the contract SleepWakeup *)
(* establishes.                                                            *)
(***************************************************************************)
EXTENDS Naturals, Integers, Sequences, FiniteSets, SequencesExt

CONSTANTS
    Slots,          \* the process table (procalloc.arena)
    Boot,           \* the slot of the first process, which never exits
    Posters,        \* activations of postnote()
    RforkNowait,    \* values of the flag RFNOWAIT that rfork is called with
    MaxWait,        \* bound on uncollected wait records (128 in the code)
    NBroken,        \* bound on broken processes kept (NBROKEN)
    MaxPid,         \* bound of the model: process identifiers handed out
    Nil

\* What the constants stand for.
ConstantsAssumption ==
    /\ IsFiniteSet(Slots) /\ Boot \in Slots /\ Nil \notin Slots \union Posters
    /\ RforkNowait \subseteq BOOLEAN
    /\ MaxWait \in Nat \ {0} /\ NBroken \in Nat \ {0} /\ MaxPid \in Nat \ {0}

VARIABLES
    pc,           \* what the process in a slot is doing
    pid, parent, parentpid, nchild, nwait,  \* the fields of Proc
    waitq,        \* p->waitq, the pids of its records
    broken,       \* p->state = Broken
    ready,        \* made ready again while Broken
    child,        \* rfork's local p: the slot of the process being made
    free,         \* procalloc.free
    pidalloc,     \* the last pid handed out
    brokenq,      \* broken.p
    notepending,  \* p->notepending
    debug,        \* who holds p->debug
    target,       \* the slot a poster posts to
    kin           \* history: the pids of the children a pid may wait for

vars == <<pc, pid, parent, parentpid, nchild, nwait, waitq, broken, ready, child,
          free, pidalloc, brokenq, notepending, debug, target, kin>>

noteVars == <<notepending, debug, target>>
tableVars == <<pid, parent, parentpid, child, free, pidalloc, kin>>
countVars == <<nchild, nwait, waitq>>
brokenVars == <<broken, ready, brokenq>>

Goto(p, l) == pc' = [pc EXCEPT ![p] = l]

Init ==
    /\ pc = [p \in Slots |-> IF p = Boot THEN "run" ELSE "free"]
    /\ pid = [p \in Slots |-> IF p = Boot THEN 1 ELSE 0]
    /\ parent = [p \in Slots |-> Nil]
    /\ parentpid = [p \in Slots |-> 0]
    /\ nchild = [p \in Slots |-> 0]
    /\ nwait = [p \in Slots |-> 0]
    /\ waitq = [p \in Slots |-> <<>>]
    /\ broken = [p \in Slots |-> FALSE]
    /\ ready = [p \in Slots |-> FALSE]
    /\ child = [p \in Slots |-> Nil]
    /\ free = SetToSeq(Slots \ {Boot})
    /\ pidalloc = 1
    /\ brokenq = <<>>
    /\ notepending = [p \in Slots |-> FALSE]
    /\ debug = [p \in Slots |-> Nil]
    /\ target = [n \in Posters |-> Nil]
    /\ kin = [i \in 1..MaxPid |-> {}]

----------------------------------------------------------------------------
(* sysrfork(RFPROC), by the process in slot p.                             *)

\* newproc(): psalloc() takes the slot released last; the counts are reset,
\* the pid is still the 0 that pexit() left there.
RforkAlloc(p) ==
    /\ pc[p] = "run" /\ free # <<>> /\ pidalloc < MaxPid
    /\ LET c == Head(free) IN
       /\ free' = Tail(free)
       /\ child' = [child EXCEPT ![p] = c]
       /\ nchild' = [nchild EXCEPT ![c] = 0]
       /\ nwait' = [nwait EXCEPT ![c] = 0]
       /\ waitq' = [waitq EXCEPT ![c] = <<>>]
       /\ parent' = [parent EXCEPT ![c] = Nil]
       /\ notepending' = [notepending EXCEPT ![c] = FALSE]
       /\ pc' = [pc EXCEPT ![p] = "forkpid", ![c] = "new"]
    /\ UNCHANGED <<pid, parentpid, pidalloc, kin, brokenVars, debug, target>>

\* newproc(): p->pid = incref(&pidalloc); pshash(p).
RforkPid(p) ==
    /\ pc[p] = "forkpid"
    /\ pidalloc < MaxPid
    /\ pidalloc' = pidalloc + 1
    /\ pid' = [pid EXCEPT ![child[p]] = pidalloc']
    /\ Goto(p, "fork")
    /\ UNCHANGED <<parent, parentpid, child, free, kin, countVars, brokenVars, noteVars>>

\* The child learns its parent, the parent counts it, ready(p).
Rfork(p, nowait) ==
    LET c == child[p] IN
    /\ pc[p] = "fork"
    /\ parent' = [parent EXCEPT ![c] = p]
    /\ parentpid' = [parentpid EXCEPT ![c] = IF nowait THEN 0 ELSE pid[p]]
    /\ nchild' = IF nowait THEN nchild ELSE [nchild EXCEPT ![p] = @ + 1]
    /\ kin' = IF nowait THEN kin ELSE [kin EXCEPT ![pid[p]] = @ \union {pid[c]}]
    /\ child' = [child EXCEPT ![p] = Nil]
    /\ pc' = [pc EXCEPT ![p] = "run", ![c] = "run"]
    /\ UNCHANGED <<pid, free, pidalloc, nwait, waitq, brokenVars, noteVars>>

----------------------------------------------------------------------------
(* pexit(exitstr, freemem), by the process in slot p.                      *)

\* Everything up to the qunlock(&up->debug): resources are given up.
ExitStart(p) ==
    /\ pc[p] = "run" /\ p # Boot
    /\ debug[p] = Nil
    /\ Goto(p, "exit")
    /\ UNCHANGED <<tableVars, countVars, brokenVars, noteVars>>

\* wakeup(&q->waitr) as part of a step in which p goes to l.
WakeupAndGoto(q, p, l) ==
    pc' = [pc EXCEPT ![p] = l, ![q] = IF @ = "asleep" THEN "woken" ELSE @]

\* Mutant: the pid of the process in the parent's slot is not compared.
ExitNotify_anyparent(p, l) ==
    LET q == parent[p] IN
    /\ pc[p] = "exit"
    /\ IF ~broken[q]
       THEN /\ nchild' = [nchild EXCEPT ![q] = @ - 1]
            /\ nwait' = [nwait EXCEPT ![q] = @ + 1]
            /\ waitq' = [waitq EXCEPT ![q] = <<pid[p]>> \o @]
            /\ WakeupAndGoto(q, p, l)
       ELSE /\ Goto(p, l)
            /\ UNCHANGED countVars
    /\ UNCHANGED <<tableVars, brokenVars, noteVars>>

\* Mutant: a record is left but the sleeping parent is not woken.
ExitNotify_nowakeup(p, l) ==
    LET q == parent[p] IN
    /\ pc[p] = "exit"
    /\ IF pid[q] = parentpid[p] /\ ~broken[q]
       THEN /\ nchild' = [nchild EXCEPT ![q] = @ - 1]
            /\ nwait' = [nwait EXCEPT ![q] = @ + 1]
            /\ waitq' = [waitq EXCEPT ![q] = <<pid[p]>> \o @]
       ELSE UNCHANGED countVars
    /\ Goto(p, l)
    /\ UNCHANGED <<tableVars, brokenVars, noteVars>>

\* Under the parent's exl: if the parent is still alive, count down and
\* leave a wait record unless there are too many.  Then addbroken() or on.
ExitNotify(p, l) ==
    LET q == parent[p] IN
    /\ pc[p] = "exit"
    /\ IF pid[q] = parentpid[p] /\ ~broken[q]
       THEN /\ nchild' = [nchild EXCEPT ![q] = @ - 1]
            /\ IF nwait[q] < MaxWait
               THEN /\ nwait' = [nwait EXCEPT ![q] = @ + 1]
                    /\ waitq' = [waitq EXCEPT ![q] = <<pid[p]>> \o @]
                    /\ WakeupAndGoto(q, p, l)
               ELSE /\ Goto(p, l)
                    /\ UNCHANGED <<nwait, waitq>>
       ELSE /\ Goto(p, l)
            /\ UNCHANGED countVars
    /\ UNCHANGED <<tableVars, brokenVars, noteVars>>

\* addbroken(): keep p for a debugger, and let the oldest one go when there
\* are too many.
AddBroken(p) ==
    /\ pc[p] = "addbroken"
    /\ LET full == Len(brokenq) = NBroken IN
       /\ ready' = IF full THEN [ready EXCEPT ![Head(brokenq)] = TRUE] ELSE ready
       /\ brokenq' = Append(IF full THEN Tail(brokenq) ELSE brokenq, p)
    /\ Goto(p, "break")
    /\ UNCHANGED <<tableVars, countVars, broken, noteVars>>

\* p->state = Broken; sched().  p may have been made ready before this.
Break(p) ==
    /\ pc[p] = "break"
    /\ broken' = [broken EXCEPT ![p] = TRUE]
    /\ Goto(p, "broken")
    /\ UNCHANGED <<tableVars, countVars, ready, brokenq, noteVars>>

\* unbreak(p), called by a debugger or killer.
Unbreak(p) ==
    /\ \E i \in 1..Len(brokenq) :
          /\ brokenq[i] = p
          /\ brokenq' = RemoveAt(brokenq, i)
    /\ ready' = [ready EXCEPT ![p] = TRUE]
    /\ UNCHANGED <<pc, tableVars, countVars, broken, noteVars>>

\* The scheduler runs p again, which goes on with its exit.
Resume(p) ==
    /\ pc[p] = "broken" /\ ready[p]
    /\ broken' = [broken EXCEPT ![p] = FALSE]
    /\ ready' = [ready EXCEPT ![p] = FALSE]
    /\ Goto(p, "die")
    /\ UNCHANGED <<tableVars, countVars, brokenq, noteVars>>

\* Under its own exl p gives up its pid: no child may leave a record now.
\* Nobody else sleeps on p's waitr here, so the wakeup has no effect.
ExitDie(p) ==
    /\ pc[p] = "die"
    /\ pid' = [pid EXCEPT ![p] = 0]
    /\ Goto(p, "dead")
    /\ UNCHANGED <<parent, parentpid, child, free, pidalloc, kin, countVars, brokenVars, noteVars>>

\* The records are freed, the debuggers released, and schedinit() gives the
\* slot back (Moribund, psrelease).  waitq and nwait stay as they are until
\* the slot is used again.
ExitRelease(p) ==
    /\ pc[p] = "dead"
    /\ debug[p] = Nil
    /\ free' = <<p>> \o free
    /\ Goto(p, "free")
    /\ UNCHANGED <<pid, parent, parentpid, child, pidalloc, kin, countVars, brokenVars, noteVars>>

----------------------------------------------------------------------------
(* pwait(), by the process in slot p.                                      *)

\* Enochild when there is nothing to wait for.
WaitCheck(p) ==
    /\ pc[p] = "run"
    /\ nchild[p] # 0 \/ waitq[p] # <<>>
    /\ Goto(p, "sleep")
    /\ UNCHANGED <<tableVars, countVars, brokenVars, noteVars>>

\* sleep(&up->waitr, haswaitq, up): commit to sleep, or see the condition or
\* a note.
WaitSleep(p) ==
    /\ pc[p] = "sleep"
    /\ Goto(p, IF waitq[p] # <<>> \/ notepending[p] THEN "woken" ELSE "asleep")
    /\ UNCHANGED <<tableVars, countVars, brokenVars, noteVars>>

\* The end of sleep(): a note makes it raise Eintr.
WaitAwake(p) ==
    /\ pc[p] = "woken"
    /\ Goto(p, IF notepending[p] THEN "intr" ELSE "collect")
    /\ notepending' = [notepending EXCEPT ![p] = FALSE]
    /\ UNCHANGED <<tableVars, countVars, brokenVars, debug, target>>

\* Take the first record; the code does not look whether there is one.
WaitCollect(p) ==
    /\ pc[p] = "collect"
    /\ waitq[p] # <<>>
    /\ waitq' = [waitq EXCEPT ![p] = Tail(@)]
    /\ nwait' = [nwait EXCEPT ![p] = @ - 1]
    /\ Goto(p, "run")
    /\ UNCHANGED <<tableVars, nchild, brokenVars, noteVars>>

----------------------------------------------------------------------------
(* Notes.  Every poster to another process holds its debug lock throughout *)
(* (postnote with dolock 0); notify() takes it before it clears the note.  *)

\* Lock p->debug, find p alive, postnote() up to notepending = 1.
NotePost(n, p) ==
    /\ target[n] = Nil
    /\ debug[p] = Nil /\ pid[p] # 0
    /\ debug' = [debug EXCEPT ![p] = n]
    /\ notepending' = [notepending EXCEPT ![p] = TRUE]
    /\ target' = [target EXCEPT ![n] = p]
    /\ UNCHANGED <<pc, tableVars, countVars, brokenVars>>

\* postnote()'s loop: wake p if it sleeps; then the caller unlocks p->debug.
NoteWake(n) ==
    LET p == target[n] IN
    /\ p # Nil
    /\ pc' = [pc EXCEPT ![p] = IF @ = "asleep" THEN "woken" ELSE @]
    /\ debug' = [debug EXCEPT ![p] = Nil]
    /\ target' = [target EXCEPT ![n] = Nil]
    /\ UNCHANGED <<tableVars, countVars, brokenVars, notepending>>

\* notify(), on the way back to user mode.
Notify(p) ==
    /\ pc[p] = "intr" \/ (pc[p] = "run" /\ notepending[p])
    /\ debug[p] = Nil
    /\ notepending' = [notepending EXCEPT ![p] = FALSE]
    /\ Goto(p, "run")
    /\ UNCHANGED <<tableVars, countVars, brokenVars, debug, target>>

----------------------------------------------------------------------------
Next ==
    \/ \E p \in Slots :
         \/ RforkAlloc(p) \/ RforkPid(p)
         \/ \E nowait \in RforkNowait : Rfork(p, nowait)
         \/ ExitStart(p)
         \/ \E l \in {"addbroken", "die"} : ExitNotify(p, l)
         \/ AddBroken(p) \/ Break(p) \/ Unbreak(p) \/ Resume(p)
         \/ ExitDie(p) \/ ExitRelease(p)
         \/ WaitCheck(p) \/ WaitSleep(p) \/ WaitAwake(p) \/ WaitCollect(p)
         \/ Notify(p)
    \/ \E n \in Posters : NoteWake(n) \/ \E p \in Slots : NotePost(n, p)

Spec == Init /\ [][Next]_vars

----------------------------------------------------------------------------
(* Properties.                                                             *)

\* The process in the slot is alive and has not begun to exit.
Alive(p) == pc[p] \in {"run", "forkpid", "fork", "sleep", "asleep", "woken", "collect", "intr"}

\* The fields of Proc hold values of their types; nchild is never negative.
TypeOK ==
    /\ pc \in [Slots -> {"free", "new", "run", "forkpid", "fork", "sleep", "asleep", "woken",
                         "collect", "intr", "exit", "addbroken", "break", "broken", "die", "dead"}]
    /\ pid \in [Slots -> 0..MaxPid] /\ parentpid \in [Slots -> 0..MaxPid]
    /\ parent \in [Slots -> Slots \union {Nil}] /\ child \in [Slots -> Slots \union {Nil}]
    /\ nchild \in [Slots -> Nat] /\ nwait \in [Slots -> 0..MaxWait]
    /\ waitq \in [Slots -> Seq(1..MaxPid)]
    /\ free \in Seq(Slots) /\ brokenq \in Seq(Slots)
    /\ broken \in [Slots -> BOOLEAN] /\ ready \in [Slots -> BOOLEAN]
    /\ notepending \in [Slots -> BOOLEAN]
    /\ debug \in [Slots -> Posters \union {Nil}] /\ target \in [Posters -> Slots \union {Nil}]

\* Proc.nchild ("Number of living children"): the count of a living process
\* is the number of the children it may wait for that have not left a
\* record, however slots are reused while children outlive their parents.
NchildCounts ==
    \A p \in Slots : Alive(p) =>
        nchild[p] = Cardinality({c \in Slots :
                        /\ parent[c] = p /\ parentpid[c] = pid[p]
                        /\ Alive(c) \/ pc[c] = "exit"})

\* p->waitq and p->nwait: a living process has records of its own children
\* only, each of them once, and nwait is their number.
RecordsAreChildren ==
    TypeOK /\ \A p \in Slots : Alive(p) =>
        /\ nwait[p] = Len(waitq[p])
        /\ \A i, j \in DOMAIN waitq[p] : waitq[p][i] = waitq[p][j] => i = j
        /\ ToSet(waitq[p]) \subseteq kin[pid[p]]

\* pexit() and pwait(): what a living process knows of its children is right,
\* both the number of those to come and the records of those that went.
ChildrenKept == NchildCounts /\ RecordsAreChildren

\* pwait(): a process asleep there has no record to collect and a living
\* child that will leave one; it never sleeps in vain.  Nor does it get a nil
\* record, for which it does not look: it relies on sleep() returning, and
\* not raising Eintr, only after a child's wakeup.
NeverWaitsInVain ==
    \A p \in Slots :
        /\ pc[p] = "asleep" => waitq[p] = <<>> /\ nchild[p] > 0
        /\ pc[p] = "collect" => waitq[p] # <<>>

=============================================================================
