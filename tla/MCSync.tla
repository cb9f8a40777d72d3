------------------------------- MODULE MCSync -------------------------------
(***************************************************************************)
(* The system calls of port/sysproc.c by which processes wait for each     *)
(* other, for TLC: semaphores (the variables of Semaphore) and rendezvous  *)
(* (the variables declared here).  They have no state in common, and a     *)
(* behaviour is about one of them.                                         *)
(***************************************************************************)
EXTENDS Semaphore

CONSTANTS
    Procs, Tags, Noters, Ones

VARIABLES
    kind,        \* what this behaviour is about
    rpc, arg, bit, chain, rendtag, rendval, val, state, oncpu, queued, holder, due

R == INSTANCE Rendezvous WITH pc <- rpc

ASSUME RendezvousConstants == R!SetsAssumption

rvars == <<rpc, arg, bit, chain, rendtag, rendval, val, state, oncpu, queued, holder, due>>

SyncInit == kind \in {"semaphore", "rendezvous"} /\ Init /\ R!Init

SyncNext ==
    \/ kind = "semaphore" /\ Next /\ UNCHANGED <<kind, rvars>>
    \/ kind = "rendezvous" /\ R!Next /\ UNCHANGED <<kind, vars>>

(***************************************************************************)
(* Fairness: processors execute their instructions, the run queues are     *)
(* served, and the spin locks (mcslock) are granted in the order of        *)
(* arrival, to a process that acquires or releases a semaphore or looks    *)
(* for a partner.  Nobody is obliged to call, to time out or to post.      *)
(***************************************************************************)
Granted(p) ==
    \/ /\ kind = "semaphore" /\ UNCHANGED rvars
       /\ (p \in Acquirers /\ AcquireStep(p)) \/ (p \in Releasers /\ semwakeup(p))
    \/ /\ kind = "rendezvous" /\ UNCHANGED vars
       /\ p \in Procs /\ R!RendezvousLock(p)

SyncFairness ==
    /\ \A p \in Threads \union Procs : SF_<<vars, rvars>>(Granted(p))
    /\ \A p \in Procs : WF_rvars(kind = "rendezvous" /\ R!ProcStep(p))
    /\ \A t \in Noters : WF_rvars(kind = "rendezvous" /\ R!NoterStep(t))

SyncSpec == SyncInit /\ [][SyncNext]_<<kind, vars, rvars>> /\ SyncFairness

\* The chain search of sysrendezvous(): two processes never wait for each
\* other with one tag; whoever comes second finds the first.
NoMissedMeeting == R!NoMissedMeeting

\* sysrendezvous' result: a call that is over returned the value its own
\* partner passed in that meeting, the partner got this call's value, and
\* ~0 is returned only by a call that postnote() pulled out.
Exchange == R!Exchange

\* ready(p) by partners and posters: a process is made ready once per wait,
\* and never executes on two processors.
SingleStack == R!SingleStack

\* The caller that met p spins for procsaved(p) with the group locked, and
\* p readies itself with sched(): the lock is always released, so a call
\* whose result is settled returns.
MeetingCompletes == R!MeetingCompletes
=============================================================================
