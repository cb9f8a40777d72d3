----------------------------- MODULE Scheduler ------------------------------
(***************************************************************************)
(* The processor scheduler of port/proc.c: schedinit(), sched(), ready(),  *)
(* runproc(), dequeueproc(), rebalance(), preemption and wiring.           *)
(*                                                                         *)
(* Processors of one colour (NUMA domain) share a Sched: run queues by     *)
(* priority under one spin lock.  runproc() looks for a process without    *)
(* that lock and then asks dequeueproc() to take it, which finds it again  *)
(* under the lock.  A process may be in a queue while a processor is still *)
(* on its stack (p->mach # nil).  m->readied is a hint: the process this   *)
(* processor made ready last is run next without a search.                 *)
(*                                                                         *)
(* Priorities computed from CPU use (reprioritize) are any priority; the   *)
(* real-time (EDF) scheduler is left out.                                  *)
(***************************************************************************)
EXTENDS Naturals, Sequences, FiniteSets, SequencesExt

CONSTANTS
    Procs, Cpus,
    Cpu0,           \* the processor with machno 0, which rebalances
    Scheds,         \* run queue structures (Sched)
    Pris,           \* priorities, an interval of naturals
    Nil

ASSUME SchedulerAssumption ==
    /\ Cpu0 \in Cpus /\ Scheds # {}
    /\ Pris \subseteq Nat /\ Pris # {}
    /\ Nil \notin Procs \union Cpus

VARIABLES
    sch,        \* m->sch, set from the processor's colour when it starts
    state, mach, mp, wired, priority,  \* the fields of Proc
    runq,       \* sch->runq[pri], from head to tail
    runvec,     \* sch->runvec, as the set of its bits
    proc,       \* m->proc
    readied,    \* m->readied
    cpc,        \* where each processor is
    pick,       \* the process runproc() has found, or that rebalance() moves
    pickq,      \* ... and the run queue it saw it in, or moves it to
    rewired     \* history: the Ready processes that another process has wired
                \* since they became Ready

vars == <<sch, state, mach, mp, wired, priority, runq, runvec, proc, readied, cpc,
          pick, pickq, rewired>>

procsaved(p) == mach[p] = Nil
softaffinity(c, p) == mp[p] \in {Nil, c}
hardaffinity(c, p) == wired[p] \in {Nil, c}
\* The Sched that process p is queued in when processor c makes it ready.
procsched(c, p) == sch[IF mp[p] = Nil THEN c ELSE mp[p]]

Queued(p) == \E s \in Scheds, i \in Pris : p \in ToSet(runq[s][i])
Goto(c, l) == cpc' = [cpc EXCEPT ![c] = l]

Init ==
    /\ sch \in [Cpus -> Scheds]
    /\ state = [p \in Procs |-> "Wakeme"]
    /\ mach = [p \in Procs |-> Nil]
    /\ mp = [p \in Procs |-> Nil]
    /\ wired = [p \in Procs |-> Nil]
    /\ priority \in [Procs -> Pris]
    /\ runq = [s \in Scheds |-> [i \in Pris |-> <<>>]]
    /\ runvec = [s \in Scheds |-> {}]
    /\ proc = [c \in Cpus |-> Nil]
    /\ readied = [c \in Cpus |-> Nil]
    /\ cpc = [c \in Cpus |-> "runproc"]
    /\ pick = [c \in Cpus |-> Nil]
    /\ pickq = [c \in Cpus |-> Nil]
    /\ rewired = {}

----------------------------------------------------------------------------
(* Run queues.                                                             *)

queueproc(s, i, p) ==
    /\ runq' = [runq EXCEPT ![s][i] = Append(@, p)]
    /\ runvec' = [runvec EXCEPT ![s] = @ \union {i}]
    /\ priority' = [priority EXCEPT ![p] = i]

\* Mutant: the bit in runvec is cleared although processes are left.
dequeue_bit(s, i, p) ==
    /\ \E a \in DOMAIN runq[s][i] :
          runq[s][i][a] = p /\ runq' = [runq EXCEPT ![s][i] = RemoveAt(@, a)]
    /\ runvec' = [runvec EXCEPT ![s] = @ \ {i}]

\* The body of dequeueproc(), after it has found p again.
dequeue(s, i, p) ==
    /\ \E a \in DOMAIN runq[s][i] :
          runq[s][i][a] = p /\ runq' = [runq EXCEPT ![s][i] = RemoveAt(@, a)]
    /\ runvec' = [runvec EXCEPT ![s] = IF runq'[s][i] = <<>> THEN @ \ {i} ELSE @]

\* Mutant: dequeueproc() without the procsaved() test.
CanDequeue_unsaved(s, i, p) == p \in ToSet(runq[s][i])

\* dequeueproc() takes p only if it is still in that queue, and saved.
CanDequeue(s, i, p) == p \in ToSet(runq[s][i]) /\ procsaved(p)

\* Mutant: ready() queues on the processor that calls it.
ready_here(c, p, i, running) ==
    /\ readied' = IF running # p /\ hardaffinity(c, p)
                  THEN [readied EXCEPT ![c] = p] ELSE readied
    /\ state' = [state EXCEPT ![p] = "Ready"]
    /\ queueproc(sch[c], i, p)

\* ready(p), called on processor c whose m->proc is `running': schedready()
\* leaves the hint, picks a priority i and queues p.
ready(c, p, i, running) ==
    /\ readied' = IF running # p /\ hardaffinity(c, p)
                  THEN [readied EXCEPT ![c] = p] ELSE readied
    /\ state' = [state EXCEPT ![p] = "Ready"]
    /\ queueproc(procsched(c, p), i, p)

----------------------------------------------------------------------------
(* The process on processor c gives it up.                                 *)

\* sleep() and its like: the state is set, then gotolabel(&m->sched).
Block(c) ==
    /\ cpc[c] = "up"
    /\ state' = [state EXCEPT ![proc[c]] = "Wakeme"]
    /\ Goto(c, "schedinit")
    /\ UNCHANGED <<mach, mp, wired, priority, runq, runvec, proc, readied, pick, pickq>>

\* yield(), or the sched() at the end of a procwired(up).
Yield(c) ==
    /\ cpc[c] = "up"
    /\ runvec[sch[c]] # {}
    /\ Goto(c, "schedinit")
    /\ UNCHANGED <<state, mach, mp, wired, priority, runq, runvec, proc, readied, pick, pickq>>

\* hzsched() and preempted(): a process of higher priority is ready, or any
\* process is and the time of this one, which is left open, is over.
Preempt(c) ==
    /\ cpc[c] = "up"
    /\ runvec[sch[c]] # {}
    /\ readied' = [readied EXCEPT ![c] = Nil]
    /\ Goto(c, "schedinit")
    /\ UNCHANGED <<state, mach, mp, wired, priority, runq, runvec, proc, pick, pickq>>

\* procwired(up, b): sched() unless this is the right processor already.
WireSelf(c, b) ==
    LET p == proc[c] IN
    /\ cpc[c] = "up"
    /\ wired' = [wired EXCEPT ![p] = b]
    /\ mp' = [mp EXCEPT ![p] = b]
    /\ Goto(c, IF b = c THEN "up" ELSE "schedinit")
    /\ UNCHANGED <<state, mach, priority, runq, runvec, proc, readied, pick, pickq>>

\* procwired(p, b) of another process, by a write to its ctl file: p is not
\* told, and if it waits in a run queue it stays in that queue.
WireOther(c, p, b) ==
    /\ cpc[c] = "up" /\ p # proc[c]
    /\ wired' = [wired EXCEPT ![p] = b]
    /\ mp' = [mp EXCEPT ![p] = b]
    /\ UNCHANGED <<state, mach, priority, runq, runvec, proc, readied, cpc, pick, pickq>>

\* "wired clear" in the ctl file of any process.
WireClear(c, p) ==
    /\ cpc[c] = "up"
    /\ wired' = [wired EXCEPT ![p] = Nil]
    /\ mp' = [mp EXCEPT ![p] = Nil]
    /\ UNCHANGED <<state, mach, priority, runq, runvec, proc, readied, cpc, pick, pickq>>

\* schedinit(): m->proc = nil; a process that is still Running is made ready
\* while this processor is on its stack.
SchedInit(c) ==
    LET p == proc[c] IN
    /\ cpc[c] = "schedinit"
    /\ \/ /\ state[p] = "Running"
          /\ \E i \in Pris : ready(c, p, i, Nil)
       \/ /\ state[p] # "Running"
          /\ UNCHANGED <<readied, state, runq, runvec, priority>>
    /\ Goto(c, "leave")
    /\ UNCHANGED <<mach, mp, wired, proc, pick, pickq>>

\* up->mach = nil; up = nil.
Leave(c) ==
    /\ cpc[c] = "leave"
    /\ mach' = [mach EXCEPT ![proc[c]] = Nil]
    /\ proc' = [proc EXCEPT ![c] = Nil]
    /\ Goto(c, "runproc")
    /\ UNCHANGED <<state, mp, wired, priority, runq, runvec, readied, pick, pickq>>

\* wakeup() on processor c, by its process or by an interrupt, of a process
\* that may still be on its own stack.  The rest of schedinit(), runproc()
\* and sched() runs with interrupts off.
Wakeup(c, p) ==
    /\ cpc[c] \in {"up", "loop"}
    /\ state[p] = "Wakeme" /\ proc[c] # p
    /\ \E i \in Pris : ready(c, p, i, proc[c])
    /\ UNCHANGED <<mach, mp, wired, proc, cpc, pick, pickq>>

----------------------------------------------------------------------------
(* runproc() and the second half of sched(), on processor c.               *)

\* Cooperative scheduling: run what was made ready here last.  (The two
\* priorities that rule it out are those of EDF.)
RunReadied(c) ==
    LET p == readied[c] IN
    /\ cpc[c] = "runproc"
    /\ p # Nil /\ procsaved(p) /\ state[p] = "Ready" /\ hardaffinity(c, p)
    /\ pick' = [pick EXCEPT ![c] = p]
    /\ pickq' = [pickq EXCEPT ![c] = priority[p]]
    /\ Goto(c, "found")
    /\ UNCHANGED <<state, mach, mp, wired, priority, runq, runvec, proc, readied>>

\* Otherwise search; loop: is reached again when dequeueproc() fails.
RunSearch(c) ==
    LET p == readied[c] IN
    /\ cpc[c] = "runproc"
    /\ ~(p # Nil /\ procsaved(p) /\ state[p] = "Ready" /\ hardaffinity(c, p))
    /\ Goto(c, "loop")
    /\ UNCHANGED <<state, mach, mp, wired, priority, runq, runvec, proc, readied, pick, pickq>>

\* The first process, by priority and then by position, with a soft affinity
\* to c, or with a hard one if it has waited long enough, which is left open.
RunFind(c) ==
    LET s == sch[c]
        Before(j, b, i, a) == j > i \/ (j = i /\ b < a)
    IN
    /\ cpc[c] = "loop"
    /\ \E i \in Pris : \E a \in 1..Len(runq[s][i]) :
          LET p == runq[s][i][a] IN
          /\ softaffinity(c, p) \/ hardaffinity(c, p)
          /\ \A j \in Pris : \A b \in 1..Len(runq[s][j]) :
                Before(j, b, i, a) => ~softaffinity(c, runq[s][j][b])
          /\ pick' = [pick EXCEPT ![c] = p]
          /\ pickq' = [pickq EXCEPT ![c] = i]
    /\ Goto(c, "found")
    /\ UNCHANGED <<state, mach, mp, wired, priority, runq, runvec, proc, readied>>

\* dequeueproc() fails: the process is gone or not saved, or another
\* processor has the lock.
RunMissed(c) ==
    /\ cpc[c] = "found"
    /\ pick' = [pick EXCEPT ![c] = Nil]
    /\ pickq' = [pickq EXCEPT ![c] = Nil]
    /\ Goto(c, "loop")
    /\ UNCHANGED <<state, mach, mp, wired, priority, runq, runvec, proc, readied>>

\* dequeueproc() succeeds; p->state = Scheding; p->mp = m.
RunTake(c) ==
    LET s == sch[c]
        p == pick[c]
    IN
    /\ cpc[c] = "found"
    /\ CanDequeue(s, pickq[c], p)
    /\ dequeue(s, pickq[c], p)
    /\ state' = [state EXCEPT ![p] = "Scheding"]
    /\ mp' = [mp EXCEPT ![p] = c]
    /\ Goto(c, "sched")
    /\ UNCHANGED <<mach, wired, priority, proc, readied, pick, pickq>>

\* sched(): the process becomes up, with any priority reprioritize() gives.
\* The assertion about wiring stops the system when it fails.
SchedRun(c) ==
    LET p == pick[c] IN
    /\ cpc[c] = "sched"
    /\ hardaffinity(c, p)
    /\ \E i \in Pris : priority' = [priority EXCEPT ![p] = i]
    /\ readied' = [readied EXCEPT ![c] = Nil]
    /\ state' = [state EXCEPT ![p] = "Running"]
    /\ mach' = [mach EXCEPT ![p] = c]
    /\ proc' = [proc EXCEPT ![c] = p]
    /\ pick' = [pick EXCEPT ![c] = Nil]
    /\ pickq' = [pickq EXCEPT ![c] = Nil]
    /\ Goto(c, "up")
    /\ UNCHANGED <<mp, wired, runq, runvec>>

----------------------------------------------------------------------------
(* rebalance(), in the clock interrupt of processor 0.                     *)

\* Take the first process of a queue whose priority has changed ...
RebalanceTake(i, j) ==
    LET s == sch[Cpu0]
        p == Head(runq[s][i])
    IN
    /\ cpc[Cpu0] = "up"
    /\ i # j /\ runq[s][i] # <<>> /\ mp[p] = Cpu0
    /\ CanDequeue(s, i, p)
    /\ dequeue(s, i, p)
    /\ pick' = [pick EXCEPT ![Cpu0] = p]
    /\ pickq' = [pickq EXCEPT ![Cpu0] = j]
    /\ Goto(Cpu0, "rebalance")
    /\ UNCHANGED <<state, mach, mp, wired, priority, proc, readied>>

\* ... and queue it where it belongs.
RebalancePut ==
    /\ cpc[Cpu0] = "rebalance"
    /\ queueproc(sch[Cpu0], pickq[Cpu0], pick[Cpu0])
    /\ pick' = [pick EXCEPT ![Cpu0] = Nil]
    /\ pickq' = [pickq EXCEPT ![Cpu0] = Nil]
    /\ Goto(Cpu0, "up")
    /\ UNCHANGED <<state, mach, mp, wired, proc, readied>>

----------------------------------------------------------------------------
\* What the history variable remembers: only WireOther and WireClear change
\* the wiring of a process that stays Ready.
Remember ==
    rewired' = {p \in Procs :
        /\ state[p] = "Ready" /\ state'[p] = "Ready"
        /\ p \in rewired \/ wired'[p] # wired[p] \/ mp'[p] # mp[p]}

Next ==
    /\ \/ \E c \in Cpus :
            \/ Block(c) \/ Yield(c) \/ Preempt(c)
            \/ \E b \in Cpus : WireSelf(c, b)
            \/ \E p \in Procs, b \in Cpus : WireOther(c, p, b)
            \/ \E p \in Procs : WireClear(c, p)
            \/ SchedInit(c) \/ Leave(c)
            \/ \E p \in Procs : Wakeup(c, p)
            \/ RunReadied(c) \/ RunSearch(c) \/ RunFind(c)
            \/ RunMissed(c) \/ RunTake(c) \/ SchedRun(c)
       \/ \E i, j \in Pris : RebalanceTake(i, j)
       \/ RebalancePut
    /\ UNCHANGED sch
    /\ Remember

Spec == Init /\ [][Next]_vars

----------------------------------------------------------------------------
(* Properties.                                                             *)

\* The fields of Proc, Sched and Mach hold values of their types.
TypeOK ==
    /\ sch \in [Cpus -> Scheds]
    /\ state \in [Procs -> {"Wakeme", "Ready", "Scheding", "Running"}]
    /\ mach \in [Procs -> Cpus \union {Nil}]
    /\ mp \in [Procs -> Cpus \union {Nil}] /\ wired \in [Procs -> Cpus \union {Nil}]
    /\ priority \in [Procs -> Pris]
    /\ runq \in [Scheds -> [Pris -> Seq(Procs)]]
    /\ runvec \in [Scheds -> SUBSET Pris]
    /\ proc \in [Cpus -> Procs \union {Nil}] /\ readied \in [Cpus -> Procs \union {Nil}]
    /\ pick \in [Cpus -> Procs \union {Nil}] /\ pickq \in [Cpus -> Pris \union {Nil}]
    /\ cpc \in [Cpus -> {"up", "schedinit", "leave", "runproc", "loop", "found", "sched", "rebalance"}]
    /\ rewired \subseteq Procs

\* p->mach and m->proc: a process has one processor on its stack at most, and
\* a processor that takes it finds its context saved.
OneProcessor ==
    /\ \A c \in Cpus : proc[c] # Nil => mach[proc[c]] = c
    /\ \A p \in Procs : mach[p] # Nil => proc[mach[p]] = p
    /\ \A c \in Cpus : cpc[c] = "sched" =>
          /\ mach[pick[c]] = Nil
          /\ \A d \in Cpus : d # c => ~(cpc[d] = "sched" /\ pick[d] = pick[c])

\* The run queues: a process is in them if and only if it is Ready (or in the
\* hands of rebalance()), once, in the queue of its priority, and runvec has
\* a bit for exactly the queues that are not empty: nobody sleeps in monmwait
\* while a process is ready.
QueuesOK ==
    /\ TypeOK
    /\ \A p \in Procs :
          Queued(p) <=> state[p] = "Ready" /\ ~(cpc[Cpu0] = "rebalance" /\ pick[Cpu0] = p)
    /\ \A s, r \in Scheds, i, j \in Pris :
          \A a \in DOMAIN runq[s][i], b \in DOMAIN runq[r][j] :
             runq[s][i][a] = runq[r][j][b] => s = r /\ i = j /\ a = b
    /\ \A s \in Scheds : runvec[s] = {i \in Pris : runq[s][i] # <<>>}
    /\ \A s \in Scheds, i \in Pris : \A p \in ToSet(runq[s][i]) : priority[p] = i

\* Wiring and colours: a process that waits in a run queue is wired, if at
\* all, to a processor that serves that queue, unless another process wired it
\* while it waited: procwired() does not move a process between queues.
Servable ==
    \A s \in Scheds, i \in Pris : \A p \in ToSet(runq[s][i]) \ rewired :
        \E c \in Cpus : sch[c] = s /\ hardaffinity(c, p)

=============================================================================
