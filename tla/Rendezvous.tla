----------------------------- MODULE Rendezvous -----------------------------
(***************************************************************************)
(* rendezvous(tag, value): sysrendezvous() of port/sysproc.c, and the end  *)
(* of postnote() of port/proc.c, which pulls a process out of it.          *)
(*                                                                         *)
(* The first process to name a tag leaves its value and waits; the second  *)
(* one takes the value, leaves its own in exchange and makes the first one *)
(* ready.  The waiting processes of a group hang in hash chains that only  *)
(* the holder of the group's spin lock touches.  One chain is modelled, in *)
(* which all tags collide; the order in a chain decides nothing, so it is  *)
(* the set of its members.  The processes share one group and do not exit. *)
(***************************************************************************)
EXTENDS Naturals

CONSTANTS
    Procs,      \* the processes of the rendezvous group (Rgrp)
    Tags,       \* the tags they use
    Noters,     \* activations of postnote()
    Ones,       \* ~0, the value of an interrupted rendezvous
    Nil

Values == Procs \X BOOLEAN      \* what a call passes: its caller, and which call
Threads == Procs \union Noters

\* What is assumed of the constants.
SetsAssumption ==
    /\ Procs \intersect Noters = {}
    /\ Nil \notin Threads
    /\ Nil \notin Tags
    /\ Ones \notin Values
    /\ Nil \notin Values \union {Ones}

VARIABLES
    pc,          \* where each thread is
    arg,         \* the process a caller met, or a poster posts to
    bit,         \* which of its values p passes in its present call
    chain,       \* the hash chain REND(rgrp, tag)
    rendtag,     \* the tag of p's call; p->rendtag while p is in the chain
    rendval,     \* p->rendval
    val,         \* sysrendezvous' local val
    state,       \* p->state
    oncpu,       \* processors executing on p's kernel stack
    queued,      \* times p is linked into a run queue
    holder,      \* who holds the spin lock of the group
    due          \* history: what p's call must return, once that is settled

vars == <<pc, arg, bit, chain, rendtag, rendval, val, state, oncpu, queued,
          holder, due>>

procsaved(p) == oncpu[p] = 0

\* ready(p): make p runnable and link it into a run queue.
ready(p) ==
    /\ state' = [state EXCEPT ![p] = "Ready"]
    /\ queued' = [queued EXCEPT ![p] = @ + 1]

Goto(t, l) == pc' = [pc EXCEPT ![t] = l]
Passed(p)  == <<p, bit[p]>>

Init ==
    /\ pc = [t \in Threads |-> IF t \in Procs THEN "run" ELSE "idle"]
    /\ arg = [t \in Threads |-> Nil]
    /\ bit = [p \in Procs |-> FALSE]
    /\ chain = {}
    /\ rendtag = [p \in Procs |-> Nil]
    /\ rendval = [p \in Procs |-> Ones]
    /\ val = [p \in Procs |-> Ones]
    /\ state = [p \in Procs |-> "Running"]
    /\ oncpu = [p \in Procs |-> 1]
    /\ queued = [p \in Procs |-> 0]
    /\ holder = Nil
    /\ due = [p \in Procs |-> Nil]

----------------------------------------------------------------------------
(* sysrendezvous(), run by process p.                                      *)

\* The system call; every call passes a value the last one did not.
RendezvousCall(p, t) ==
    /\ pc[p] = "run"
    /\ rendtag' = [rendtag EXCEPT ![p] = t]
    /\ rendval' = [rendval EXCEPT ![p] = Ones]
    /\ bit' = [bit EXCEPT ![p] = ~@]
    /\ val' = [val EXCEPT ![p] = Ones]
    /\ due' = [due EXCEPT ![p] = Nil]
    /\ Goto(p, "lock")
    /\ UNCHANGED <<arg, chain, state, oncpu, queued, holder>>

\* Mutant: the group is not locked.
RendezvousLock_nolock(p) ==
    /\ pc[p] = "lock"
    /\ Goto(p, IF \E q \in chain : rendtag[q] = rendtag[p] THEN "match" ELSE "wait")
    /\ UNCHANGED <<arg, bit, chain, rendtag, rendval, val, state, oncpu, queued, holder, due>>

\* lock(up->rgrp) and the search of the chain for the tag.
RendezvousLock(p) ==
    /\ pc[p] = "lock"
    /\ holder = Nil
    /\ holder' = p
    /\ Goto(p, IF \E q \in chain : rendtag[q] = rendtag[p] THEN "match" ELSE "wait")
    /\ UNCHANGED <<arg, bit, chain, rendtag, rendval, val, state, oncpu, queued, due>>

\* Mutant: the partner's value is read after it was replaced.
RendezvousMatch_swapped(p) ==
    /\ pc[p] = "match"
    /\ \E q \in chain :
          /\ rendtag[q] = rendtag[p]
          /\ chain' = chain \ {q}
          /\ rendval' = [rendval EXCEPT ![q] = Passed(p)]
          /\ val' = [val EXCEPT ![p] = rendval'[q]]
          /\ arg' = [arg EXCEPT ![p] = q]
          /\ due' = [due EXCEPT ![p] = Passed(q), ![q] = Passed(p)]
    /\ Goto(p, "spin")
    /\ UNCHANGED <<bit, rendtag, state, oncpu, queued, holder>>

\* Unlink the waiting process and exchange the values.
RendezvousMatch(p) ==
    /\ pc[p] = "match"
    /\ \E q \in chain :
          /\ rendtag[q] = rendtag[p]
          /\ chain' = chain \ {q}
          /\ val' = [val EXCEPT ![p] = rendval[q]]
          /\ rendval' = [rendval EXCEPT ![q] = Passed(p)]
          /\ arg' = [arg EXCEPT ![p] = q]
          /\ due' = [due EXCEPT ![p] = Passed(q), ![q] = Passed(p)]
    /\ Goto(p, "spin")
    /\ UNCHANGED <<bit, rendtag, state, oncpu, queued, holder>>

\* Mutant: a partner that has not left its stack yet is not made ready.
RendezvousReady_nospin(p) ==
    /\ pc[p] = "spin"
    /\ IF procsaved(arg[p]) THEN ready(arg[p]) ELSE UNCHANGED <<state, queued>>
    /\ arg' = [arg EXCEPT ![p] = Nil]
    /\ holder' = Nil
    /\ Goto(p, "run")
    /\ UNCHANGED <<bit, chain, rendtag, rendval, val, oncpu, due>>

\* while(!procsaved(p)) pause(); ready(p); unlock(up->rgrp).
RendezvousReady(p) ==
    /\ pc[p] = "spin"
    /\ procsaved(arg[p])
    /\ ready(arg[p])
    /\ arg' = [arg EXCEPT ![p] = Nil]
    /\ holder' = Nil
    /\ Goto(p, "run")
    /\ UNCHANGED <<bit, chain, rendtag, rendval, val, oncpu, due>>

\* Nobody waits with this tag: leave the value and join the chain.
RendezvousWait(p) ==
    /\ pc[p] = "wait"
    /\ rendval' = [rendval EXCEPT ![p] = Passed(p)]
    /\ chain' = chain \union {p}
    /\ Goto(p, "commit")
    /\ UNCHANGED <<arg, bit, rendtag, val, state, oncpu, queued, holder, due>>

\* up->state = Rendezvous; unlock(up->rgrp).
RendezvousCommit(p) ==
    /\ pc[p] = "commit"
    /\ state' = [state EXCEPT ![p] = "Rendezvous"]
    /\ holder' = Nil
    /\ Goto(p, "sched")
    /\ UNCHANGED <<arg, bit, chain, rendtag, rendval, val, oncpu, queued, due>>

\* sched(): schedinit() leaves p's stack.  p may already be Ready again.
RendezvousSched(p) ==
    /\ pc[p] = "sched"
    /\ oncpu' = [oncpu EXCEPT ![p] = @ - 1]
    /\ Goto(p, "asleep")
    /\ UNCHANGED <<arg, bit, chain, rendtag, rendval, val, state, queued, holder, due>>

\* Some processor takes p from its run queue; sched() and the system call
\* return with the value the partner or the poster left.
Dispatch(p) ==
    /\ queued[p] > 0
    /\ procsaved(p)
    /\ queued' = [queued EXCEPT ![p] = @ - 1]
    /\ state' = [state EXCEPT ![p] = "Running"]
    /\ oncpu' = [oncpu EXCEPT ![p] = @ + 1]
    /\ val' = [val EXCEPT ![p] = rendval[p]]
    /\ Goto(p, "run")
    /\ UNCHANGED <<arg, bit, chain, rendtag, rendval, holder, due>>

----------------------------------------------------------------------------
(* postnote(p, ...) by poster n, after its loop about sleep().             *)

PostNote(n, p) ==
    /\ pc[n] = "idle"
    /\ arg' = [arg EXCEPT ![n] = p]
    /\ Goto(n, "state")
    /\ UNCHANGED <<bit, chain, rendtag, rendval, val, state, oncpu, queued, holder, due>>

\* if(p->state != Rendezvous) return, without a lock.
PostNoteState(n) ==
    /\ pc[n] = "state"
    /\ \/ /\ state[arg[n]] # "Rendezvous"
          /\ arg' = [arg EXCEPT ![n] = Nil]
          /\ Goto(n, "idle")
       \/ /\ state[arg[n]] = "Rendezvous"
          /\ Goto(n, "lock")
          /\ UNCHANGED arg
    /\ UNCHANGED <<bit, chain, rendtag, rendval, val, state, oncpu, queued, holder, due>>

PostNoteLock(n) ==
    /\ pc[n] = "lock"
    /\ holder = Nil
    /\ holder' = n
    /\ Goto(n, "pull")
    /\ UNCHANGED <<arg, bit, chain, rendtag, rendval, val, state, oncpu, queued, due>>

\* Mutant: the state is not tested again under the lock.
PostNotePull_stale(n) ==
    LET p == arg[n] IN
    /\ pc[n] = "pull"
    /\ rendval' = [rendval EXCEPT ![p] = Ones]
    /\ due' = [due EXCEPT ![p] = Ones]
    /\ chain' = chain \ {p}
    /\ ready(p)
    /\ arg' = [arg EXCEPT ![n] = Nil]
    /\ holder' = Nil
    /\ Goto(n, "idle")
    /\ UNCHANGED <<bit, rendtag, val, oncpu>>

\* Under the lock: if p still waits, pull it out with the value ~0.
PostNotePull(n) ==
    LET p == arg[n] IN
    /\ pc[n] = "pull"
    /\ \/ /\ state[p] = "Rendezvous"
          /\ rendval' = [rendval EXCEPT ![p] = Ones]
          /\ due' = [due EXCEPT ![p] = Ones]
          /\ chain' = chain \ {p}
          /\ ready(p)
       \/ /\ state[p] # "Rendezvous"
          /\ UNCHANGED <<rendval, due, chain, state, queued>>
    /\ arg' = [arg EXCEPT ![n] = Nil]
    /\ holder' = Nil
    /\ Goto(n, "idle")
    /\ UNCHANGED <<bit, rendtag, val, oncpu>>

----------------------------------------------------------------------------
ProcStep(p) ==
    \/ RendezvousLock(p) \/ RendezvousMatch(p) \/ RendezvousReady(p)
    \/ RendezvousWait(p) \/ RendezvousCommit(p) \/ RendezvousSched(p)
    \/ Dispatch(p)

NoterStep(n) == PostNoteState(n) \/ PostNoteLock(n) \/ PostNotePull(n)

Next ==
    \/ \E p \in Procs, t \in Tags : RendezvousCall(p, t)
    \/ \E p \in Procs : ProcStep(p)
    \/ \E n \in Noters, p \in Procs : PostNote(n, p)
    \/ \E n \in Noters : NoterStep(n)

Spec == Init /\ [][Next]_vars

----------------------------------------------------------------------------
(* Properties.                                                             *)

\* The fields sysrendezvous() and postnote() use hold values of their types.
TypeOK ==
    /\ pc \in [Threads -> {"run", "lock", "match", "spin", "wait", "commit",
                           "sched", "asleep", "idle", "state", "pull"}]
    /\ arg \in [Threads -> Procs \union {Nil}]
    /\ bit \in [Procs -> BOOLEAN]
    /\ chain \subseteq Procs
    /\ rendtag \in [Procs -> Tags \union {Nil}]
    /\ rendval \in [Procs -> Values \union {Ones}]
    /\ val \in [Procs -> Values \union {Ones}]
    /\ state \in [Procs -> {"Running", "Ready", "Rendezvous"}]
    /\ oncpu \in [Procs -> Nat]
    /\ queued \in [Procs -> Nat]
    /\ holder \in Threads \union {Nil}
    /\ due \in [Procs -> Values \union {Ones, Nil}]

\* The chain search: two processes never wait for each other with one tag;
\* whoever comes second finds the first.
NoMissedMeeting ==
    \A p, q \in chain : rendtag[p] = rendtag[q] => p = q

\* sysrendezvous' result: a call that is over returned the value its own
\* partner passed in that meeting, the partner got this call's value, and
\* ~0 is returned only by a call that postnote() pulled out.
Exchange ==
    \A p \in Procs : pc[p] = "run" /\ due[p] # Nil => val[p] = due[p]

\* Whenever the group is unlocked, the chain holds exactly the processes in
\* state Rendezvous: nobody waits where no partner or note can find it, and
\* no process that runs on is left behind in the chain.
ChainIsWaiters ==
    holder = Nil => chain = {p \in Procs : state[p] = "Rendezvous"}

\* ready(p) by partners and posters: a process is made ready once per wait,
\* and never executes on two processors.
SingleStack ==
    \A p \in Procs :
        /\ oncpu[p] <= 1
        /\ queued[p] = (IF state[p] = "Ready" THEN 1 ELSE 0)
        /\ state[p] = "Running" => oncpu[p] = 1

\* The caller that met p spins for procsaved(p) with the group locked, and
\* p readies itself with sched(): the lock is always released, so a call
\* whose result is settled (it stays so until the next call) returns.
MeetingCompletes == \A p \in Procs : []<>(due[p] # Nil => pc[p] = "run")
=============================================================================
