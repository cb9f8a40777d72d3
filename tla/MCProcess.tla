------------------------------ MODULE MCProcess -----------------------------
(***************************************************************************)
(* What processes are made of, for TLC: a behaviour is about the memory of *)
(* the processes (the variables of Page) or about the process table (the   *)
(* variables declared here, those of ExitWait).  rfork() and pexit() go    *)
(* through both, one after the other; they have no state in common.        *)
(***************************************************************************)
EXTENDS MCPage

CONSTANTS Slots, Boot, Posters, RforkNowait, MaxWait, NBroken, MaxPid,
          Third     \* a process of the behaviours with three processes

VARIABLES
    kind,       \* what this behaviour is about
    slotpc, pid, parent, parentpid, nchild, nwait, waitq, broken, ready, child,
    slotfree, pidalloc, brokenq, notepending, debug, target, kin

E == INSTANCE ExitWait WITH pc <- slotpc, free <- slotfree

ASSUME PageConstants == PageAssumption
ASSUME ExitWaitConstants == E!ConstantsAssumption

ProcessSymmetry ==
    Permutations(Procs \ {Third}) \union Permutations(Pages)
        \union Permutations(Files) \union Permutations(Images)

slotVars == <<slotpc, pid, parent, parentpid, nchild, nwait, waitq, broken, ready, child,
              slotfree, pidalloc, brokenq, notepending, debug, target, kin>>

\* All processes but Third execute any of the files and read their pages, ...
Executing ==
    /\ own'[Third] = NoSegs /\ pc'[Third] = "idle"
    /\ \A t \in Procs : ~th'[t].write
    /\ \A t \in Procs : own[t] = NoSegs /\ own'[t] # NoSegs => pc[t] = "attach"

\* ... or Third executes one and forks, with and without RFMEM, and all of them
\* use, share and copy the data.
Sharing ==
    /\ \A t \in Procs : pc'[t] = "attach" =>
           t = Third /\ \A s \in Segs : seg[s].ref = 0
    /\ Cardinality({s \in Segs : seg'[s].type # Nil}) <= 3
    /\ Cardinality({i \in Images : image'[i].c # Nil}) <= 1
    /\ Cardinality({t \in Procs : pc'[t] # "idle"}) <= 2
    /\ \A t \in Procs : th'[t].s # Nil => seg[th'[t].s].type = "data"

ProcessInit == kind \in {"exitwait", "files", "sharing"} /\ Init /\ E!Init

ProcessNext ==
    \/ kind = "exitwait" /\ E!Next /\ UNCHANGED <<kind, vars>>
    \/ /\ kind \in {"files", "sharing"}
       /\ Next
       /\ IF kind = "files" THEN Executing ELSE Sharing
       /\ UNCHANGED <<kind, slotVars>>

ProcessSpec == ProcessInit /\ [][ProcessNext]_<<kind, vars, slotVars>>

\* pexit() and pwait(): a living process has the records of its own children
\* only, each once, and nchild counts those that have yet to leave one.
ChildrenKept == E!ChildrenKept

\* pwait(): a process asleep there has a child that will leave a record, and one
\* that goes on finds a record.
NeverWaitsInVain == E!NeverWaitsInVain
=============================================================================
