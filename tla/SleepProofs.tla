---------------------------- MODULE SleepProofs ----------------------------
(***************************************************************************)
(* Proofs, for any number of processes, Rendezes, wakers and note posters, *)
(* of the safety properties of SleepWakeup; and, for any number of         *)
(* processes, processors and delays, of those of Timers.                   *)
(***************************************************************************)
EXTENDS MCSleep, SequenceTheorems, WellFoundedInduction, TLAPS

(***************************************************************************)
(* The inductive invariant, in parts.  Calls: what a thread's program      *)
(* counter says about the Rendez or process its call is about.             *)
(***************************************************************************)
Calls ==
    /\ \A p \in Procs :
          /\ pc[p] \in ProcPcs
          /\ pc[p] = "run" => arg[p] = Nil
          /\ pc[p] # "run" => arg[p] \in Rendezes
    /\ \A p, q \in Procs : p # q /\ pc[p] # "run" => arg[p] # arg[q]
    /\ \A w \in Wakers :
          /\ pc[w] \in WakerPcs
          /\ pc[w] # "idle" => arg[w] \in Rendezes
          /\ pc[w] \in {"lockp", "ready"} => loc[w] \in Procs
    /\ \A n \in Noters :
          /\ pc[n] \in NoterPcs
          /\ pc[n] # "idle" => arg[n] \in Procs
          /\ pc[n] = "try" => loc[n] \in Rendezes

\* Who holds which lock is determined by the program counters.
LockHolders ==
    /\ \A p \in Procs :
          /\ pc[p] \in {"cond", "note", "nevermind", "unlock"} => holder[p] = p
          /\ pc[p] \in {"lockp", "cond", "note", "nevermind", "unlock"} => holder[arg[p]] = p
    /\ \A w \in Wakers :
          /\ pc[w] \in {"lockp", "ready"} => holder[arg[w]] = w
          /\ pc[w] = "ready" => holder[loc[w]] = w
    /\ \A n \in Noters : pc[n] = "try" => holder[arg[n]] = n

\* A process's scheduling state follows its place in sleep(), up to the
\* moment a wakeup makes it ready.
States ==
    \A p \in Procs :
        /\ pc[p] \notin {"unlock", "switch", "asleep"} => state[p] = "Running"
        /\ pc[p] = "unlock" => state[p] = "Wakeme"
        /\ pc[p] \in {"switch", "asleep"} => state[p] # "Running"
        /\ oncpu[p] = (IF pc[p] = "asleep" THEN 0 ELSE 1)
        /\ queued[p] = (IF state[p] = "Ready" THEN 1 ELSE 0)
        /\ state[p] = "Wakeme" <=> pr[p] # Nil
        /\ pr[p] # Nil => pr[p] = arg[p]

\* r->p and p->r, the second lagging while the sleeper holds both locks; and
\* what a thread that has locked one of them may rely on.
Links ==
    /\ \A p \in Procs :
          /\ pr[p] # Nil => rp[pr[p]] = p
          /\ pc[p] \in {"cond", "note", "nevermind"} => rp[arg[p]] = p
    /\ \A r \in Rendezes : rp[r] # Nil =>
          /\ arg[rp[r]] = r
          /\ pr[rp[r]] = r \/ pc[rp[r]] \in {"cond", "note", "nevermind"}
    /\ \A w \in Wakers : pc[w] \in {"lockp", "ready"} =>
          rp[arg[w]] = loc[w] /\ pr[loc[w]] = arg[w]
    /\ \A n \in Noters : pc[n] = "try" => pr[arg[n]] = loc[n]

\* NoLostWakeup extended to the window between the test and the commitment.
EventNoticed ==
    \A p \in Procs : (state[p] = "Wakeme" \/ pc[p] = "note") /\ event[arg[p]] =>
        \E w \in Wakers : pc[w] # "idle" /\ arg[w] = arg[p]

IInv == TypeOK /\ Calls /\ LockHolders /\ States /\ Links /\ EventNoticed /\ NoLostNote

USE SetsAssumption DEF IInv, Threads, Locks, ProcPcs, WakerPcs, NoterPcs, Goto

----------------------------------------------------------------------------
(* One lemma per action, one step per part of the invariant.               *)

\* Step SleepEnter of the model of sleep() preserves the invariant.
LEMMA SleepEnterStep ==
    ASSUME IInv, NEW p \in Procs, NEW r \in Rendezes,
           SleepEnter(p, r)
    PROVE  IInv'
<1>1. TypeOK'
    BY DEF SleepEnter, TypeOK, Calls, States
<1>2. Calls'
    BY DEF SleepEnter, TypeOK, Calls
<1>3. LockHolders'
    BY DEF SleepEnter, TypeOK, Calls, LockHolders
<1>4. States'
    BY DEF SleepEnter, TypeOK, Calls, LockHolders, States, Links
<1>5. Links'
    BY DEF SleepEnter, TypeOK, Calls, LockHolders, States, Links
<1>6. EventNoticed'
    BY DEF SleepEnter, TypeOK, Calls, LockHolders, States, Links,
       EventNoticed
<1>7. NoLostNote'
    BY DEF SleepEnter, TypeOK, Calls, States, Links, NoLostNote
<1>8. QED  BY <1>1, <1>2, <1>3, <1>4, <1>5, <1>6, <1>7

\* Step Consume of the model of sleep() preserves the invariant.
LEMMA ConsumeStep ==
    ASSUME IInv, NEW p \in Procs, NEW r \in Rendezes,
           Consume(p, r)
    PROVE  IInv'
<1>1. TypeOK'
    BY DEF Consume, TypeOK, Calls, States
<1>2. Calls'
    BY DEF Consume, TypeOK, Calls
<1>3. LockHolders'
    BY DEF Consume, TypeOK, Calls, LockHolders
<1>4. States'
    BY DEF Consume, TypeOK, Calls, LockHolders, States, Links
<1>5. Links'
    BY DEF Consume, TypeOK, Calls, LockHolders, States, Links
<1>6. EventNoticed'
    BY DEF Consume, TypeOK, Calls, LockHolders, States, Links,
       EventNoticed
<1>7. NoLostNote'
    BY DEF Consume, TypeOK, Calls, States, Links, NoLostNote
<1>8. QED  BY <1>1, <1>2, <1>3, <1>4, <1>5, <1>6, <1>7

\* Step SleepLockRendez of the model of sleep() preserves the invariant.
LEMMA SleepLockRendezStep ==
    ASSUME IInv, NEW p \in Procs,
           SleepLockRendez(p)
    PROVE  IInv'
<1>1. TypeOK'
    BY DEF SleepLockRendez, Free, TypeOK, Calls, States
<1>2. Calls'
    BY DEF SleepLockRendez, Free, TypeOK, Calls
<1>3. LockHolders'
    BY DEF SleepLockRendez, Free, TypeOK, Calls, LockHolders
<1>4. States'
    BY DEF SleepLockRendez, Free, TypeOK, Calls, LockHolders, States,
       Links
<1>5. Links'
    BY DEF SleepLockRendez, Free, TypeOK, Calls, LockHolders, States,
       Links
<1>6. EventNoticed'
    BY DEF SleepLockRendez, Free, TypeOK, Calls, LockHolders, States,
       Links, EventNoticed
<1>7. NoLostNote'
    BY DEF SleepLockRendez, Free, TypeOK, Calls, States, Links, NoLostNote
<1>8. QED  BY <1>1, <1>2, <1>3, <1>4, <1>5, <1>6, <1>7

\* Step SleepLockProc of the model of sleep() preserves the invariant.
LEMMA SleepLockProcStep ==
    ASSUME IInv, NEW p \in Procs,
           SleepLockProc(p)
    PROVE  IInv'
<1>1. TypeOK'
    BY DEF SleepLockProc, Free, TypeOK, Calls, States
<1>2. Calls'
    BY DEF SleepLockProc, Free, TypeOK, Calls
<1>3. LockHolders'
    BY DEF SleepLockProc, Free, TypeOK, Calls, LockHolders
<1>4. States'
    BY DEF SleepLockProc, Free, TypeOK, Calls, LockHolders, States, Links
<1>5. Links'
    BY DEF SleepLockProc, Free, TypeOK, Calls, LockHolders, States, Links
<1>6. EventNoticed'
    BY DEF SleepLockProc, Free, TypeOK, Calls, LockHolders, States, Links,
       EventNoticed
<1>7. NoLostNote'
    BY DEF SleepLockProc, Free, TypeOK, Calls, States, Links, NoLostNote
<1>8. QED  BY <1>1, <1>2, <1>3, <1>4, <1>5, <1>6, <1>7

\* Step SleepCondition of the model of sleep() preserves the invariant.
LEMMA SleepConditionStep ==
    ASSUME IInv, NEW p \in Procs,
           SleepCondition(p)
    PROVE  IInv'
<1>1. TypeOK'
    BY DEF SleepCondition, TypeOK, Calls, States
<1>2. Calls'
    BY DEF SleepCondition, TypeOK, Calls
<1>3. LockHolders'
    BY DEF SleepCondition, TypeOK, Calls, LockHolders
<1>4. States'
    BY DEF SleepCondition, TypeOK, Calls, LockHolders, States, Links
<1>5. Links'
    BY DEF SleepCondition, TypeOK, Calls, LockHolders, States, Links
<1>6. EventNoticed'
    BY DEF SleepCondition, TypeOK, Calls, LockHolders, States, Links,
       EventNoticed
<1>7. NoLostNote'
    BY DEF SleepCondition, TypeOK, Calls, States, Links, NoLostNote
<1>8. QED  BY <1>1, <1>2, <1>3, <1>4, <1>5, <1>6, <1>7

\* Step SleepCommit of the model of sleep() preserves the invariant.
LEMMA SleepCommitStep ==
    ASSUME IInv, NEW p \in Procs,
           SleepCommit(p)
    PROVE  IInv'
<1>0. arg[p] \in Rendezes /\ rp[arg[p]] = p /\ pr[p] = Nil
    BY DEF SleepCommit, TypeOK, Calls, States, Links
<1>1. TypeOK'
    BY <1>0 DEF SleepCommit, TypeOK, Calls, States
<1>2. Calls'
    BY <1>0 DEF SleepCommit, TypeOK, Calls
<1>3. LockHolders'
    BY <1>0 DEF SleepCommit, TypeOK, Calls, LockHolders
<1>4. States'
    BY <1>0 DEF SleepCommit, TypeOK, Calls, LockHolders, States, Links
<1>5. Links'
    BY <1>0 DEF SleepCommit, TypeOK, Calls, LockHolders, States, Links
<1>6. EventNoticed'
    BY <1>0 DEF SleepCommit, TypeOK, Calls, LockHolders, States, Links,
       EventNoticed
<1>7. NoLostNote'
    BY <1>0 DEF SleepCommit, TypeOK, Calls, States, Links, NoLostNote
<1>8. QED  BY <1>1, <1>2, <1>3, <1>4, <1>5, <1>6, <1>7

\* Step SleepNeverMind of the model of sleep() preserves the invariant.
LEMMA SleepNeverMindStep ==
    ASSUME IInv, NEW p \in Procs,
           SleepNeverMind(p)
    PROVE  IInv'
<1>1. TypeOK'
    BY DEF SleepNeverMind, TypeOK, Calls, States
<1>2. Calls'
    BY DEF SleepNeverMind, TypeOK, Calls
<1>3. LockHolders'
    BY DEF SleepNeverMind, TypeOK, Calls, LockHolders
<1>4. States'
    BY DEF SleepNeverMind, TypeOK, Calls, LockHolders, States, Links
<1>5. Links'
    BY DEF SleepNeverMind, TypeOK, Calls, LockHolders, States, Links
<1>6. EventNoticed'
    BY DEF SleepNeverMind, TypeOK, Calls, LockHolders, States, Links,
       EventNoticed
<1>7. NoLostNote'
    BY DEF SleepNeverMind, TypeOK, Calls, States, Links, NoLostNote
<1>8. QED  BY <1>1, <1>2, <1>3, <1>4, <1>5, <1>6, <1>7

\* Step SleepUnlock of the model of sleep() preserves the invariant.
LEMMA SleepUnlockStep ==
    ASSUME IInv, NEW p \in Procs,
           SleepUnlock(p)
    PROVE  IInv'
<1>1. TypeOK'
    BY DEF SleepUnlock, TypeOK, Calls, States
<1>2. Calls'
    BY DEF SleepUnlock, TypeOK, Calls
<1>3. LockHolders'
    BY DEF SleepUnlock, TypeOK, Calls, LockHolders
<1>4. States'
    BY DEF SleepUnlock, TypeOK, Calls, LockHolders, States, Links
<1>5. Links'
    BY DEF SleepUnlock, TypeOK, Calls, LockHolders, States, Links
<1>6. EventNoticed'
    BY DEF SleepUnlock, TypeOK, Calls, LockHolders, States, Links,
       EventNoticed
<1>7. NoLostNote'
    BY DEF SleepUnlock, TypeOK, Calls, States, Links, NoLostNote
<1>8. QED  BY <1>1, <1>2, <1>3, <1>4, <1>5, <1>6, <1>7

\* Step SleepSwitch of the model of sleep() preserves the invariant.
LEMMA SleepSwitchStep ==
    ASSUME IInv, NEW p \in Procs,
           SleepSwitch(p)
    PROVE  IInv'
<1>1. TypeOK'
    BY DEF SleepSwitch, TypeOK, Calls, States
<1>2. Calls'
    BY DEF SleepSwitch, TypeOK, Calls
<1>3. LockHolders'
    BY DEF SleepSwitch, TypeOK, Calls, LockHolders
<1>4. States'
    BY DEF SleepSwitch, TypeOK, Calls, LockHolders, States, Links
<1>5. Links'
    BY DEF SleepSwitch, TypeOK, Calls, LockHolders, States, Links
<1>6. EventNoticed'
    BY DEF SleepSwitch, TypeOK, Calls, LockHolders, States, Links,
       EventNoticed
<1>7. NoLostNote'
    BY DEF SleepSwitch, TypeOK, Calls, States, Links, NoLostNote
<1>8. QED  BY <1>1, <1>2, <1>3, <1>4, <1>5, <1>6, <1>7

\* Step Dispatch of the model of sleep() preserves the invariant.
LEMMA DispatchStep ==
    ASSUME IInv, NEW p \in Procs,
           Dispatch(p)
    PROVE  IInv'
<1>1. TypeOK'
    BY DEF Dispatch, procsaved, TypeOK, Calls, States
<1>2. Calls'
    BY DEF Dispatch, procsaved, TypeOK, Calls, States
<1>3. LockHolders'
    BY DEF Dispatch, procsaved, TypeOK, Calls, LockHolders
<1>4. States'
    BY DEF Dispatch, procsaved, TypeOK, Calls, LockHolders, States, Links
<1>5. Links'
    BY DEF Dispatch, procsaved, TypeOK, Calls, LockHolders, States, Links
<1>6. EventNoticed'
    BY DEF Dispatch, procsaved, TypeOK, Calls, LockHolders, States, Links,
       EventNoticed
<1>7. NoLostNote'
    BY DEF Dispatch, procsaved, TypeOK, Calls, States, Links, NoLostNote
<1>8. QED  BY <1>1, <1>2, <1>3, <1>4, <1>5, <1>6, <1>7

\* Step SleepReturn of the model of sleep() preserves the invariant.
LEMMA SleepReturnStep ==
    ASSUME IInv, NEW p \in Procs,
           SleepReturn(p)
    PROVE  IInv'
<1>1. TypeOK'
    BY DEF SleepReturn, TypeOK, Calls, States
<1>2. Calls'
    BY DEF SleepReturn, TypeOK, Calls
<1>3. LockHolders'
    BY DEF SleepReturn, TypeOK, Calls, LockHolders
<1>4. States'
    BY DEF SleepReturn, TypeOK, Calls, LockHolders, States, Links
<1>5. Links'
    BY DEF SleepReturn, TypeOK, Calls, LockHolders, States, Links
<1>6. EventNoticed'
    BY DEF SleepReturn, TypeOK, Calls, LockHolders, States, Links,
       EventNoticed
<1>7. NoLostNote'
    BY DEF SleepReturn, TypeOK, Calls, States, Links, NoLostNote
<1>8. QED  BY <1>1, <1>2, <1>3, <1>4, <1>5, <1>6, <1>7

\* Step WakerCall of the model of wakeup() preserves the invariant.
LEMMA WakerCallStep ==
    ASSUME IInv, NEW w \in Wakers, NEW r \in Rendezes, NEW h \in Procs \union Noters \union {Nil},
           WakerCall(w, r, h)
    PROVE  IInv'
<1>1. TypeOK'
    BY DEF WakerCall, TypeOK, Calls, States
<1>2. Calls'
    BY DEF WakerCall, TypeOK, Calls
<1>3. LockHolders'
    BY DEF WakerCall, TypeOK, Calls, LockHolders
<1>4. States'
    BY DEF WakerCall, TypeOK, Calls, LockHolders, States, Links
<1>5. Links'
    BY DEF WakerCall, TypeOK, Calls, LockHolders, States, Links
<1>6. EventNoticed'
    BY DEF WakerCall, TypeOK, Calls, LockHolders, States, Links,
       EventNoticed
<1>7. NoLostNote'
    BY DEF WakerCall, TypeOK, Calls, States, Links, NoLostNote
<1>8. QED  BY <1>1, <1>2, <1>3, <1>4, <1>5, <1>6, <1>7

\* Step WakeupNobody of the model of wakeup() preserves the invariant.
LEMMA WakeupNobodyStep ==
    ASSUME IInv, NEW w \in Wakers,
           WakeupNobody(w)
    PROVE  IInv'
<1>1. TypeOK'
    BY DEF WakeupNobody, Free, TypeOK, Calls, States
<1>2. Calls'
    BY DEF WakeupNobody, Free, TypeOK, Calls
<1>3. LockHolders'
    BY DEF WakeupNobody, Free, TypeOK, Calls, LockHolders
<1>4. States'
    BY DEF WakeupNobody, Free, TypeOK, Calls, LockHolders, States, Links
<1>5. Links'
    BY DEF WakeupNobody, Free, TypeOK, Calls, LockHolders, States, Links
<1>6. EventNoticed'
    BY DEF WakeupNobody, Free, TypeOK, Calls, LockHolders, States, Links,
       EventNoticed
<1>7. NoLostNote'
    BY DEF WakeupNobody, Free, TypeOK, Calls, States, Links, NoLostNote
<1>8. QED  BY <1>1, <1>2, <1>3, <1>4, <1>5, <1>6, <1>7

\* Step WakeupLockRendez of the model of wakeup() preserves the invariant.
LEMMA WakeupLockRendezStep ==
    ASSUME IInv, NEW w \in Wakers,
           WakeupLockRendez(w)
    PROVE  IInv'
<1>1. TypeOK'
    BY DEF WakeupLockRendez, Free, TypeOK, Calls, States
<1>2. Calls'
    BY DEF WakeupLockRendez, Free, TypeOK, Calls
<1>3. LockHolders'
    BY DEF WakeupLockRendez, Free, TypeOK, Calls, LockHolders
<1>4. States'
    BY DEF WakeupLockRendez, Free, TypeOK, Calls, LockHolders, States,
       Links
<1>5. Links'
    BY DEF WakeupLockRendez, Free, TypeOK, Calls, LockHolders, States,
       Links
<1>6. EventNoticed'
    BY DEF WakeupLockRendez, Free, TypeOK, Calls, LockHolders, States,
       Links, EventNoticed
<1>7. NoLostNote'
    BY DEF WakeupLockRendez, Free, TypeOK, Calls, States, Links,
       NoLostNote
<1>8. QED  BY <1>1, <1>2, <1>3, <1>4, <1>5, <1>6, <1>7

\* Step WakeupLockProc of the model of wakeup() preserves the invariant.
LEMMA WakeupLockProcStep ==
    ASSUME IInv, NEW w \in Wakers,
           WakeupLockProc(w)
    PROVE  IInv'
<1>1. TypeOK'
    BY DEF WakeupLockProc, Free, TypeOK, Calls, States
<1>2. Calls'
    BY DEF WakeupLockProc, Free, TypeOK, Calls
<1>3. LockHolders'
    BY DEF WakeupLockProc, Free, TypeOK, Calls, LockHolders
<1>4. States'
    BY DEF WakeupLockProc, Free, TypeOK, Calls, LockHolders, States, Links
<1>5. Links'
    BY DEF WakeupLockProc, Free, TypeOK, Calls, LockHolders, States, Links
<1>6. EventNoticed'
    BY DEF WakeupLockProc, Free, TypeOK, Calls, LockHolders, States,
       Links, EventNoticed
<1>7. NoLostNote'
    BY DEF WakeupLockProc, Free, TypeOK, Calls, States, Links, NoLostNote
<1>8. QED  BY <1>1, <1>2, <1>3, <1>4, <1>5, <1>6, <1>7

\* Step WakeupReady of the model of wakeup() preserves the invariant.
LEMMA WakeupReadyStep ==
    ASSUME IInv, NEW w \in Wakers,
           WakeupReady(w)
    PROVE  IInv'
<1>0. /\ loc[w] \in Procs /\ arg[w] \in Rendezes /\ arg[loc[w]] = arg[w]
      /\ \A q \in Procs \ {loc[w]} : pc[q] # "run" => arg[q] # arg[w]
    BY DEF WakeupReady, TypeOK, Calls, States, Links
<1>1. TypeOK'
  <2>1. state' \in [Procs -> {"Running", "Wakeme", "Ready"}] /\ queued' \in [Procs -> Nat]
    BY <1>0 DEF WakeupReady, ready, TypeOK
  <2>2. holder' \in [Locks -> Threads \union {Nil}]
    BY <1>0 DEF WakeupReady, TypeOK
  <2>3. QED  BY <1>0, <2>1, <2>2 DEF WakeupReady, TypeOK
<1>2. Calls'
    BY <1>0 DEF WakeupReady, ready, TypeOK, Calls
<1>3. LockHolders'
    BY <1>0 DEF WakeupReady, ready, TypeOK, Calls, LockHolders
<1>4. States'
    BY <1>0 DEF WakeupReady, ready, TypeOK, Calls, LockHolders, States,
       Links
<1>5. Links'
    BY <1>0 DEF WakeupReady, ready, TypeOK, Calls, LockHolders, States,
       Links
<1>6. EventNoticed'
  <2> SUFFICES ASSUME NEW q \in Procs, (state[q] = "Wakeme" \/ pc[q] = "note")', event[arg[q]]'
               PROVE  \E v \in Wakers : (pc[v] # "idle" /\ arg[v] = arg[q])'
    BY DEF EventNoticed
  <2>1. q # loc[w] /\ pc[q] # "run"
    BY <1>0 DEF WakeupReady, ready, TypeOK, States, Calls, Links
  <2>2. PICK v \in Wakers : pc[v] # "idle" /\ arg[v] = arg[q]
    BY <2>1 DEF WakeupReady, ready, TypeOK, EventNoticed
  <2>3. v # w
    BY <1>0, <2>1, <2>2
  <2>4. QED  BY <2>2, <2>3 DEF WakeupReady, TypeOK
<1>7. NoLostNote'
    BY <1>0 DEF WakeupReady, ready, TypeOK, Calls, States, Links,
       NoLostNote
<1>8. QED  BY <1>1, <1>2, <1>3, <1>4, <1>5, <1>6, <1>7

\* Step PostnotePend of the model of postnote() preserves the invariant.
LEMMA PostnotePendStep ==
    ASSUME IInv, NEW n \in Noters, NEW p \in Procs,
           PostnotePend(n, p)
    PROVE  IInv'
<1>1. TypeOK'
    BY DEF PostnotePend, TypeOK, Calls, States
<1>2. Calls'
    BY DEF PostnotePend, TypeOK, Calls
<1>3. LockHolders'
    BY DEF PostnotePend, TypeOK, Calls, LockHolders
<1>4. States'
    BY DEF PostnotePend, TypeOK, Calls, LockHolders, States, Links
<1>5. Links'
    BY DEF PostnotePend, TypeOK, Calls, LockHolders, States, Links
<1>6. EventNoticed'
    BY DEF PostnotePend, TypeOK, Calls, LockHolders, States, Links,
       EventNoticed
<1>7. NoLostNote'
    BY DEF PostnotePend, TypeOK, Calls, States, Links, NoLostNote
<1>8. QED  BY <1>1, <1>2, <1>3, <1>4, <1>5, <1>6, <1>7

\* Step PostnoteSplhi of the model of postnote() preserves the invariant.
LEMMA PostnoteSplhiStep ==
    ASSUME IInv, NEW n \in Noters,
           PostnoteSplhi(n)
    PROVE  IInv'
<1>1. TypeOK'
    BY DEF PostnoteSplhi, TypeOK, Calls, States
<1>2. Calls'
    BY DEF PostnoteSplhi, TypeOK, Calls
<1>3. LockHolders'
    BY DEF PostnoteSplhi, TypeOK, Calls, LockHolders
<1>4. States'
    BY DEF PostnoteSplhi, TypeOK, Calls, LockHolders, States, Links
<1>5. Links'
    BY DEF PostnoteSplhi, TypeOK, Calls, LockHolders, States, Links
<1>6. EventNoticed'
    BY DEF PostnoteSplhi, TypeOK, Calls, LockHolders, States, Links,
       EventNoticed
<1>7. NoLostNote'
    BY DEF PostnoteSplhi, TypeOK, Calls, States, Links, NoLostNote
<1>8. QED  BY <1>1, <1>2, <1>3, <1>4, <1>5, <1>6, <1>7

\* Step PostnoteAwake of the model of postnote() preserves the invariant.
LEMMA PostnoteAwakeStep ==
    ASSUME IInv, NEW n \in Noters,
           PostnoteAwake(n)
    PROVE  IInv'
<1>1. TypeOK'
    BY DEF PostnoteAwake, Free, TypeOK, Calls, States
<1>2. Calls'
    BY DEF PostnoteAwake, Free, TypeOK, Calls
<1>3. LockHolders'
    BY DEF PostnoteAwake, Free, TypeOK, Calls, LockHolders
<1>4. States'
    BY DEF PostnoteAwake, Free, TypeOK, Calls, LockHolders, States, Links
<1>5. Links'
    BY DEF PostnoteAwake, Free, TypeOK, Calls, LockHolders, States, Links
<1>6. EventNoticed'
    BY DEF PostnoteAwake, TypeOK, Calls, EventNoticed
<1>7. NoLostNote'
    BY DEF PostnoteAwake, Free, TypeOK, Calls, States, Links, NoLostNote
<1>8. QED  BY <1>1, <1>2, <1>3, <1>4, <1>5, <1>6, <1>7

\* Step PostnoteLockProc of the model of postnote() preserves the invariant.
LEMMA PostnoteLockProcStep ==
    ASSUME IInv, NEW n \in Noters,
           PostnoteLockProc(n)
    PROVE  IInv'
<1>1. TypeOK'
    BY DEF PostnoteLockProc, Free, TypeOK, Calls, States
<1>2. Calls'
    BY DEF PostnoteLockProc, Free, TypeOK, Calls
<1>3. LockHolders'
    BY DEF PostnoteLockProc, Free, TypeOK, Calls, LockHolders
<1>4. States'
    BY DEF PostnoteLockProc, Free, TypeOK, Calls, LockHolders, States,
       Links
<1>5. Links'
    BY DEF PostnoteLockProc, Free, TypeOK, Calls, LockHolders, States,
       Links
<1>6. EventNoticed'
    BY DEF PostnoteLockProc, Free, TypeOK, Calls, LockHolders, States,
       Links, EventNoticed
<1>7. NoLostNote'
    BY DEF PostnoteLockProc, Free, TypeOK, Calls, States, Links,
       NoLostNote
<1>8. QED  BY <1>1, <1>2, <1>3, <1>4, <1>5, <1>6, <1>7

\* Step PostnoteReady of the model of postnote() preserves the invariant.
LEMMA PostnoteReadyStep ==
    ASSUME IInv, NEW n \in Noters,
           PostnoteReady(n)
    PROVE  IInv'
<1>1. TypeOK'
    BY DEF PostnoteReady, ready, Free, TypeOK, Calls, States
<1>2. Calls'
    BY DEF PostnoteReady, ready, Free, TypeOK, Calls
<1>3. LockHolders'
    BY DEF PostnoteReady, ready, Free, TypeOK, Calls, LockHolders
<1>4. States'
    BY DEF PostnoteReady, ready, Free, TypeOK, Calls, LockHolders, States,
       Links
<1>5. Links'
    BY DEF PostnoteReady, ready, Free, TypeOK, Calls, LockHolders, States,
       Links
<1>6. EventNoticed'
  <2> SUFFICES ASSUME NEW q \in Procs, (state[q] = "Wakeme" \/ pc[q] = "note")', event[arg[q]]'
               PROVE  \E v \in Wakers : (pc[v] # "idle" /\ arg[v] = arg[q])'
    BY DEF EventNoticed
  <2>1. state[q] = "Wakeme" \/ pc[q] = "note"
    BY DEF PostnoteReady, ready, TypeOK, Calls
  <2>2. PICK v \in Wakers : pc[v] # "idle" /\ arg[v] = arg[q]
    BY <2>1 DEF PostnoteReady, TypeOK, EventNoticed
  <2>3. QED  BY <2>2 DEF PostnoteReady, TypeOK
<1>7. NoLostNote'
    BY DEF PostnoteReady, ready, Free, TypeOK, Calls, States, Links,
       NoLostNote
<1>8. QED  BY <1>1, <1>2, <1>3, <1>4, <1>5, <1>6, <1>7

\* Step PostnoteRetry of the model of postnote() preserves the invariant.
LEMMA PostnoteRetryStep ==
    ASSUME IInv, NEW n \in Noters,
           PostnoteRetry(n)
    PROVE  IInv'
<1>1. TypeOK'
    BY DEF PostnoteRetry, Free, TypeOK, Calls, States
<1>2. Calls'
    BY DEF PostnoteRetry, Free, TypeOK, Calls
<1>3. LockHolders'
    BY DEF PostnoteRetry, Free, TypeOK, Calls, LockHolders
<1>4. States'
    BY DEF PostnoteRetry, Free, TypeOK, Calls, LockHolders, States, Links
<1>5. Links'
    BY DEF PostnoteRetry, Free, TypeOK, Calls, LockHolders, States, Links
<1>6. EventNoticed'
    BY DEF PostnoteRetry, Free, TypeOK, Calls, LockHolders, States, Links,
       EventNoticed
<1>7. NoLostNote'
    BY DEF PostnoteRetry, Free, TypeOK, Calls, States, Links, NoLostNote
<1>8. QED  BY <1>1, <1>2, <1>3, <1>4, <1>5, <1>6, <1>7

----------------------------------------------------------------------------
\* The initial states satisfy the invariant.
LEMMA InitIInv == Init => IInv
BY DEF Init, TypeOK, Calls, LockHolders, States, Links, EventNoticed, NoLostNote

\* Every step of the specification preserves the invariant.
LEMMA NextIInv == IInv /\ [Next]_vars => IInv'
<1> SUFFICES ASSUME IInv, [Next]_vars PROVE IInv'
    OBVIOUS
<1>1. CASE UNCHANGED vars
    BY <1>1 DEF vars, TypeOK, Calls, LockHolders, States, Links, EventNoticed, NoLostNote
<1>2. ASSUME NEW p \in Procs, NEW r \in Rendezes, SleepEnter(p, r) PROVE IInv'
    BY <1>2, SleepEnterStep
<1>3. ASSUME NEW p \in Procs, NEW r \in Rendezes, Consume(p, r) PROVE IInv'
    BY <1>3, ConsumeStep
<1>4. ASSUME NEW p \in Procs, SleepLockRendez(p) PROVE IInv'
    BY <1>4, SleepLockRendezStep
<1>5. ASSUME NEW p \in Procs, SleepLockProc(p) PROVE IInv'
    BY <1>5, SleepLockProcStep
<1>6. ASSUME NEW p \in Procs, SleepCondition(p) PROVE IInv'
    BY <1>6, SleepConditionStep
<1>7. ASSUME NEW p \in Procs, SleepCommit(p) PROVE IInv'
    BY <1>7, SleepCommitStep
<1>8. ASSUME NEW p \in Procs, SleepNeverMind(p) PROVE IInv'
    BY <1>8, SleepNeverMindStep
<1>9. ASSUME NEW p \in Procs, SleepUnlock(p) PROVE IInv'
    BY <1>9, SleepUnlockStep
<1>10. ASSUME NEW p \in Procs, SleepSwitch(p) PROVE IInv'
    BY <1>10, SleepSwitchStep
<1>11. ASSUME NEW p \in Procs, Dispatch(p) PROVE IInv'
    BY <1>11, DispatchStep
<1>12. ASSUME NEW p \in Procs, SleepReturn(p) PROVE IInv'
    BY <1>12, SleepReturnStep
<1>13. ASSUME NEW w \in Wakers, NEW r \in Rendezes, NEW h \in Procs \union Noters \union {Nil},
              WakerCall(w, r, h)
       PROVE  IInv'
    BY <1>13, WakerCallStep
<1>14. ASSUME NEW w \in Wakers, WakeupNobody(w) PROVE IInv'
    BY <1>14, WakeupNobodyStep
<1>15. ASSUME NEW w \in Wakers, WakeupLockRendez(w) PROVE IInv'
    BY <1>15, WakeupLockRendezStep
<1>16. ASSUME NEW w \in Wakers, WakeupLockProc(w) PROVE IInv'
    BY <1>16, WakeupLockProcStep
<1>17. ASSUME NEW w \in Wakers, WakeupReady(w) PROVE IInv'
    BY <1>17, WakeupReadyStep
<1>18. ASSUME NEW n \in Noters, NEW p \in Procs, PostnotePend(n, p) PROVE IInv'
    BY <1>18, PostnotePendStep
<1>19. ASSUME NEW n \in Noters, PostnoteSplhi(n) PROVE IInv'
    BY <1>19, PostnoteSplhiStep
<1>20. ASSUME NEW n \in Noters, PostnoteAwake(n) PROVE IInv'
    BY <1>20, PostnoteAwakeStep
<1>21. ASSUME NEW n \in Noters, PostnoteLockProc(n) PROVE IInv'
    BY <1>21, PostnoteLockProcStep
<1>22. ASSUME NEW n \in Noters, PostnoteReady(n) PROVE IInv'
    BY <1>22, PostnoteReadyStep
<1>23. ASSUME NEW n \in Noters, PostnoteRetry(n) PROVE IInv'
    BY <1>23, PostnoteRetryStep
<1>24. QED
    BY <1>1, <1>2, <1>3, <1>4, <1>5, <1>6, <1>7, <1>8, <1>9, <1>10, <1>11, <1>12,
       <1>13, <1>14, <1>15, <1>16, <1>17, <1>18, <1>19, <1>20, <1>21, <1>22, <1>23
       DEF Next, SleepStep, WakeupStep, PostnoteStep

\* The invariant holds in every reachable state.
THEOREM Invariance == Spec => []IInv
BY InitIInv, NextIInv, PTL DEF Spec

\* Type correctness of the sleep/wakeup/postnote model.
THEOREM TypeCorrect == Spec => []TypeOK
<1>1. IInv => TypeOK  OBVIOUS
<1>2. QED  BY Invariance, <1>1, PTL

\* sleep(), wakeup() and postnote() keep r->p and p->r synchronized.
THEOREM RendezSynchronized == Spec => []RendezSync
<1>1. IInv => RendezSync
    BY DEF TypeOK, Calls, LockHolders, States, Links, RendezSync, Free
<1>2. QED  BY Invariance, <1>1, PTL

\* The panics of wakeup() and postnote() are never reached.
THEOREM PanicFree == Spec => []NoPanic
<1>1. IInv => NoPanic
    BY DEF TypeOK, Calls, States, Links, NoPanic
<1>2. QED  BY Invariance, <1>1, PTL

\* A process woken while it is still leaving its processor is neither run on
\* two processors nor linked twice into a run queue.
THEOREM SingleStack == Spec => []OneStack
<1>1. IInv => OneStack
  <2> SUFFICES ASSUME IInv, NEW p \in Procs
               PROVE  oncpu[p] <= 1 /\ queued[p] = (IF state[p] = "Ready" THEN 1 ELSE 0)
    BY DEF OneStack
  <2>1. oncpu[p] = 0 \/ oncpu[p] = 1
    BY DEF States
  <2>2. QED  BY <2>1 DEF States
<1>2. QED  BY Invariance, <1>1, PTL

\* wakeup() loses no event: a sleeper whose event has happened has a
\* wakeup() of its Rendez still to come.
THEOREM WakeupsNotLost == Spec => []NoLostWakeup
<1>1. IInv => NoLostWakeup
    BY DEF EventNoticed, NoLostWakeup
<1>2. QED  BY Invariance, <1>1, PTL

\* postnote() loses no note: a sleeper with a pending note has a postnote()
\* to it still under way.
THEOREM NotesNotLost == Spec => []NoLostNote
<1>1. IInv => NoLostNote  OBVIOUS
<1>2. QED  BY Invariance, <1>1, PTL

----------------------------------------------------------------------------
(* The timers.  Lists of timers, for any sequence s and expiries f.        *)

\* A list is sorted and has no timer twice.
Sorted(s, f) ==
    \A i, j \in 1 .. Len(s) : i < j => s[i] # s[j] /\ f[s[i]] <= f[s[j]]

\* Every nonempty set of natural numbers has a least element.
LEMMA Least ==
    ASSUME NEW S, S \subseteq Nat, S # {}
    PROVE  \E x \in S : \A y \in S : x <= y
<1> DEFINE R == OpToRel(<, Nat)
<1>1. IsWellFoundedOn(R, Nat)
    BY NatLessThanWellFounded
<1>2. \A x, y \in Nat : x < y => <<x, y>> \in R
    BY DEF OpToRel
<1> HIDE DEF R
<1>3. PICK x \in S : \A y \in S : ~(<<y, x>> \in R)
    BY <1>1, WFMin, Zenon
<1>4. x \in Nat /\ \A y \in S : y \in Nat /\ ~(y < x)
    BY <1>2, <1>3
<1>5. QED  BY <1>4

\* Where t is linked into s: behind the first n.
LEMMA InsertAtIs ==
    ASSUME NEW S, NEW s \in Seq(S), NEW t \in S, NEW n \in 0 .. Len(s)
    PROVE  /\ T!InsertAt(s, 1 + n, t) \in Seq(S)
           /\ Len(T!InsertAt(s, 1 + n, t)) = Len(s) + 1
           /\ \A i \in 1 .. n : T!InsertAt(s, 1 + n, t)[i] = s[i]
           /\ T!InsertAt(s, 1 + n, t)[n + 1] = t
           /\ \A i \in n + 2 .. Len(s) + 1 : T!InsertAt(s, 1 + n, t)[i] = s[i - 1]
<1> DEFINE a == SubSeq(s, 1, n)
           b == SubSeq(s, 1 + n, Len(s))
           c == a \o <<t>>
           l == Len(s)
<1>0. l \in Nat /\ n \in Nat /\ n <= l /\ n \in Int /\ l \in Int /\ 1 + n \in Int
    OBVIOUS
<1>1. /\ a \in Seq(S) /\ Len(a) = n
      /\ \A i \in 1 .. n : a[i] = s[i]
  <2>1. \A i \in 1 .. n : s[i] \in S
      BY <1>0
  <2>2. /\ a \in Seq(S) /\ Len(a) = (IF 1 <= n THEN n - 1 + 1 ELSE 0)
        /\ \A i \in 1 .. n - 1 + 1 : a[i] = s[1 + i - 1]
      BY <1>0, <2>1, SubSeqProperties
  <2>3. QED  BY <1>0, <2>2
<1>2. /\ b \in Seq(S) /\ Len(b) = l - n
      /\ \A i \in 1 .. l - n : b[i] = s[n + i]
  <2>1. \A i \in 1 + n .. l : s[i] \in S
      BY <1>0
  <2>2. /\ b \in Seq(S) /\ Len(b) = (IF 1 + n <= l THEN l - (1 + n) + 1 ELSE 0)
        /\ \A i \in 1 .. l - (1 + n) + 1 : b[i] = s[1 + n + i - 1]
      BY <1>0, <2>1, SubSeqProperties
  <2> HIDE DEF b, l
  <2>3. QED  BY <1>0, <2>2
<1>3. <<t>> \in Seq(S) /\ Len(<<t>>) = 1 /\ <<t>>[1] = t
    OBVIOUS
<1> HIDE DEF a, b
<1>4. /\ c \in Seq(S) /\ Len(c) = n + 1
      /\ \A i \in 1 .. n + 1 : c[i] = IF i <= n THEN a[i] ELSE <<t>>[i - n]
    BY <1>0, <1>1, <1>3, ConcatProperties
<1> HIDE DEF c
<1>5. /\ c \o b \in Seq(S) /\ Len(c \o b) = (n + 1) + (l - n)
      /\ \A i \in 1 .. (n + 1) + (l - n) : (c \o b)[i] = IF i <= n + 1 THEN c[i] ELSE b[i - (n + 1)]
  <2>1. /\ c \o b \in Seq(S) /\ Len(c \o b) = Len(c) + Len(b)
        /\ \A i \in 1 .. Len(c) + Len(b) : (c \o b)[i] = IF i <= Len(c) THEN c[i] ELSE b[i - Len(c)]
    <3>1. c \in Seq(S) /\ b \in Seq(S)
        BY <1>2, <1>4
    <3>2. QED  BY <3>1, ConcatProperties, ZenonT(40)
  <2>2. QED  BY <1>2, <1>4, <2>1, Zenon
<1>6. T!InsertAt(s, 1 + n, t) = c \o b
  <2>1. (1 + n) - 1 = n
      BY <1>0
  <2>2. QED  BY <2>1, Zenon DEF T!InsertAt, a, b, c
<1> HIDE DEF l
<1> DEFINE u == c \o b
<1>7. /\ u \in Seq(S) /\ Len(u) = l + 1
      /\ \A i \in 1 .. l + 1 : u[i] = IF i <= n + 1 THEN c[i] ELSE b[i - (n + 1)]
    BY <1>0, <1>5
<1> HIDE DEF u
<1>8. \A i \in 1 .. n : u[i] = s[i]
    BY <1>0, <1>1, <1>4, <1>7
<1>9. u[n + 1] = t
    BY <1>0, <1>3, <1>4, <1>7
<1>10. \A i \in n + 2 .. l + 1 : u[i] = s[i - 1]
  <2> SUFFICES ASSUME NEW i \in n + 2 .. l + 1 PROVE u[i] = s[i - 1]
      OBVIOUS
  <2>1. i \in 1 .. l + 1 /\ ~(i <= n + 1) /\ i - (n + 1) \in 1 .. l - n /\ n + (i - (n + 1)) = i - 1
      BY <1>0
  <2>2. QED  BY <1>2, <1>7, <2>1
<1>11. QED  BY <1>6, <1>7, <1>8, <1>9, <1>10 DEF u, l

\* What is left of s without its k-th timer.
LEMMA RemoveAtIs ==
    ASSUME NEW S, NEW s \in Seq(S), NEW k \in 1 .. Len(s)
    PROVE  /\ T!RemoveAt(s, k) \in Seq(S)
           /\ Len(T!RemoveAt(s, k)) = Len(s) - 1
           /\ \A i \in 1 .. Len(s) - 1 :
                 T!RemoveAt(s, k)[i] = IF i < k THEN s[i] ELSE s[i + 1]
<1> DEFINE a == SubSeq(s, 1, k - 1)
           b == SubSeq(s, k + 1, Len(s))
           l == Len(s)
<1>0. /\ l \in Nat /\ k \in Nat /\ 1 <= k /\ k <= l
      /\ k - 1 \in Int /\ k + 1 \in Int /\ l \in Int /\ 1 \in Int
    OBVIOUS
<1>1. /\ a \in Seq(S) /\ Len(a) = k - 1
      /\ \A i \in 1 .. k - 1 : a[i] = s[i]
  <2>1. \A i \in 1 .. k - 1 : s[i] \in S
      BY <1>0
  <2>2. /\ a \in Seq(S) /\ Len(a) = (IF 1 <= k - 1 THEN k - 1 - 1 + 1 ELSE 0)
        /\ \A i \in 1 .. k - 1 - 1 + 1 : a[i] = s[1 + i - 1]
      BY <1>0, <2>1, SubSeqProperties
  <2> HIDE DEF a
  <2>3. QED  BY <1>0, <2>2
<1>2. /\ b \in Seq(S) /\ Len(b) = l - k
      /\ \A i \in 1 .. l - k : b[i] = s[k + i]
  <2>1. \A i \in k + 1 .. l : s[i] \in S
      BY <1>0
  <2>2. /\ b \in Seq(S) /\ Len(b) = (IF k + 1 <= l THEN l - (k + 1) + 1 ELSE 0)
        /\ \A i \in 1 .. l - (k + 1) + 1 : b[i] = s[k + 1 + i - 1]
      BY <1>0, <2>1, SubSeqProperties
  <2> HIDE DEF b, l
  <2>3. Len(b) = l - k /\ l - (k + 1) + 1 = l - k
      BY <1>0, <2>2
  <2>4. \A i \in 1 .. l - k : k + 1 + i - 1 = k + i
      BY <1>0
  <2>5. QED  BY <2>2, <2>3, <2>4
<1> HIDE DEF a, b
<1> DEFINE u == a \o b
<1>3. /\ u \in Seq(S) /\ Len(u) = (k - 1) + (l - k)
      /\ \A i \in 1 .. (k - 1) + (l - k) : u[i] = IF i <= k - 1 THEN a[i] ELSE b[i - (k - 1)]
  <2>1. /\ u \in Seq(S) /\ Len(u) = Len(a) + Len(b)
        /\ \A i \in 1 .. Len(a) + Len(b) : u[i] = IF i <= Len(a) THEN a[i] ELSE b[i - Len(a)]
    <3>1. a \in Seq(S) /\ b \in Seq(S)
        BY <1>1, <1>2
    <3>2. QED  BY <3>1, ConcatProperties, ZenonT(40)
  <2>2. QED  BY <1>1, <1>2, <2>1, Zenon
<1>4. T!RemoveAt(s, k) = u
    BY Zenon DEF T!RemoveAt, a, b
<1> HIDE DEF u, l
<1>5. Len(u) = l - 1
    BY <1>0, <1>3
<1>6. ASSUME NEW i \in 1 .. l - 1 PROVE u[i] = IF i < k THEN s[i] ELSE s[i + 1]
  <2>0. i \in Nat /\ 1 <= i /\ i <= l - 1 /\ i \in 1 .. (k - 1) + (l - k)
      BY <1>0
  <2>1. CASE i < k
      BY <1>0, <1>1, <1>3, <2>0, <2>1
  <2>2. CASE ~(i < k)
    <3>1. ~(i <= k - 1) /\ i - (k - 1) \in 1 .. l - k /\ k + (i - (k - 1)) = i + 1
        BY <1>0, <2>0, <2>2
    <3>2. QED  BY <1>2, <1>3, <2>0, <2>2, <3>1
  <2>3. QED  BY <2>1, <2>2
<1>7. QED  BY <1>3, <1>4, <1>5, <1>6 DEF l

Has(s, t) == \E i \in 1 .. Len(s) : s[i] = t

\* ToSet of SequencesExt.
LEMMA ToSetIs ==
    ASSUME NEW S, NEW s \in Seq(S), NEW t
    PROVE  t \in T!ToSet(s) <=> Has(s, t)
<1>1. DOMAIN s = 1 .. Len(s)
    OBVIOUS
<1>2. QED  BY <1>1, Zenon DEF T!ToSet, Has

\* List u is s with t, for a timer t with expiry g[t].
LinkedIn(u, s, t, g, S) ==
    /\ u \in Seq(S) /\ Sorted(u, g)
    /\ \A x : Has(u, x) <=> x = t \/ Has(s, x)
    /\ u # << >>
    /\ Head(u) = t \/ (s # << >> /\ Head(u) = Head(s))

\* tadd() keeps the list sorted; the new timer is first, or the first stays.
LEMMA InsertList ==
    ASSUME NEW S, NEW s \in Seq(S), NEW t \in S, NEW f, NEW g, NEW w \in Int,
           NEW n \in 0 .. Len(s),
           \A i \in 1 .. Len(s) : f[s[i]] \in Int,
           Sorted(s, f), ~Has(s, t),
           \A i \in 1 .. n : f[s[i]] <= w,
           n < Len(s) => f[s[n + 1]] > w,
           \A i \in 1 .. Len(s) : g[s[i]] = f[s[i]], g[t] = w
    PROVE  LinkedIn(T!InsertAt(s, 1 + n, t), s, t, g, S)
<1> DEFINE l == Len(s)
           u == T!InsertAt(s, 1 + n, t)
<1>0. l \in Nat /\ n \in Nat /\ n <= l
    OBVIOUS
<1>1. /\ u \in Seq(S) /\ Len(u) = l + 1
      /\ \A i \in 1 .. n : u[i] = s[i]
      /\ u[n + 1] = t
      /\ \A i \in n + 2 .. l + 1 : u[i] = s[i - 1]
  <2>1. u \in Seq(S) /\ Len(u) = l + 1
      BY ONLY s \in Seq(S), t \in S, n \in 0 .. Len(s), InsertAtIs
  <2>2. \A i \in 1 .. n : u[i] = s[i]
      BY ONLY s \in Seq(S), t \in S, n \in 0 .. Len(s), InsertAtIs
  <2>3. u[n + 1] = t
      BY ONLY s \in Seq(S), t \in S, n \in 0 .. Len(s), InsertAtIs
  <2>4. \A i \in n + 2 .. l + 1 : u[i] = s[i - 1]
      BY ONLY s \in Seq(S), t \in S, n \in 0 .. Len(s), InsertAtIs
  <2>5. QED  BY <2>1, <2>2, <2>3, <2>4
<1>2. \A i, j \in 1 .. l : i < j => s[i] # s[j] /\ f[s[i]] <= f[s[j]]
    BY DEF Sorted
<1>3. \A i \in 1 .. l : s[i] # t
    BY DEF Has
<1> HIDE DEF u
<1>4. \A i \in n + 1 .. l : w < f[s[i]]
  <2> SUFFICES ASSUME NEW i \in n + 1 .. l PROVE w < f[s[i]]
      OBVIOUS
  <2>1. n < l /\ n + 1 \in 1 .. l /\ i \in 1 .. l /\ (n + 1 < i \/ n + 1 = i)
      BY <1>0
  <2>2. f[s[n + 1]] > w /\ f[s[n + 1]] \in Int /\ f[s[i]] \in Int
      BY <2>1
  <2>3. f[s[n + 1]] <= f[s[i]]
      BY <1>2, <2>1, <2>2
  <2>4. QED  BY <2>2, <2>3
<1>5. ASSUME NEW i \in 1 .. l + 1, NEW j \in 1 .. l + 1, i < j
      PROVE  u[i] # u[j] /\ g[u[i]] <= g[u[j]]
  <2>1. CASE j <= n
    <3>1. i \in 1 .. n /\ j \in 1 .. n /\ i \in 1 .. l /\ j \in 1 .. l
        BY <1>0, <1>5, <2>1
    <3>2. QED  BY <1>1, <1>2, <1>5, <3>1
  <2>2. CASE j = n + 1
    <3>1. i \in 1 .. n /\ i \in 1 .. l
        BY <1>0, <1>5, <2>2
    <3>2. u[j] = t /\ u[i] = s[i] /\ s[i] # t /\ g[s[i]] = f[s[i]] /\ f[s[i]] <= w
        BY <1>1, <1>3, <2>2, <3>1
    <3>3. QED  BY <3>2
  <2>3. CASE j >= n + 2 /\ i <= n
    <3>1. i \in 1 .. n /\ i \in 1 .. l /\ j \in n + 2 .. l + 1 /\ j - 1 \in 1 .. l /\ i < j - 1
        BY <1>0, <1>5, <2>3
    <3>2. u[i] = s[i] /\ u[j] = s[j - 1] /\ g[s[i]] = f[s[i]] /\ g[s[j - 1]] = f[s[j - 1]]
        BY <1>1, <3>1
    <3>3. QED  BY <1>2, <3>1, <3>2
  <2>4. CASE j >= n + 2 /\ i = n + 1
    <3>1. j \in n + 2 .. l + 1 /\ j - 1 \in 1 .. l /\ j - 1 \in n + 1 .. l
        BY <1>0, <1>5, <2>4
    <3>2. u[i] = t /\ u[j] = s[j - 1] /\ s[j - 1] # t /\ g[s[j - 1]] = f[s[j - 1]]
        BY <1>1, <1>3, <2>4, <3>1
    <3>3. w < f[s[j - 1]] /\ f[s[j - 1]] \in Int
        BY <1>4, <3>1
    <3>4. QED  BY <3>2, <3>3
  <2>5. CASE j >= n + 2 /\ i >= n + 2
    <3>1. /\ i \in n + 2 .. l + 1 /\ j \in n + 2 .. l + 1
          /\ i - 1 \in 1 .. l /\ j - 1 \in 1 .. l /\ i - 1 < j - 1
        BY <1>0, <1>5, <2>5
    <3>2. /\ u[i] = s[i - 1] /\ u[j] = s[j - 1]
          /\ g[s[i - 1]] = f[s[i - 1]] /\ g[s[j - 1]] = f[s[j - 1]]
        BY <1>1, <3>1
    <3>3. QED  BY <1>2, <3>1, <3>2
  <2>6. QED  BY <1>0, <1>5, <2>1, <2>2, <2>3, <2>4, <2>5
<1>6. Sorted(u, g)
    BY <1>1, <1>5 DEF Sorted
<1>7. ASSUME NEW x PROVE Has(u, x) <=> x = t \/ Has(s, x)
  <2>1. ASSUME Has(u, x), x # t PROVE Has(s, x)
    <3>1. PICK i \in 1 .. l + 1 : u[i] = x
        BY <1>1, <2>1 DEF Has
    <3>2. i # n + 1
        BY <1>1, <2>1, <3>1
    <3>3. CASE i <= n
      <4>1. i \in 1 .. n /\ i \in 1 .. l
          BY <1>0, <3>3
      <4>2. QED  BY <1>1, <3>1, <4>1 DEF Has
    <3>4. CASE ~(i <= n)
      <4>1. i \in n + 2 .. l + 1 /\ i - 1 \in 1 .. l
          BY <1>0, <3>2, <3>4
      <4>2. QED  BY <1>1, <3>1, <4>1 DEF Has
    <3>5. QED  BY <3>3, <3>4
  <2>2. ASSUME x = t PROVE Has(u, x)
    <3>1. n + 1 \in 1 .. l + 1
        BY <1>0
    <3>2. QED  BY <1>1, <2>2, <3>1 DEF Has
  <2>3. ASSUME Has(s, x) PROVE Has(u, x)
    <3>1. PICK i \in 1 .. l : s[i] = x
        BY <2>3 DEF Has
    <3>2. CASE i <= n
      <4>1. i \in 1 .. n /\ i \in 1 .. l + 1
          BY <1>0, <3>2
      <4>2. QED  BY <1>1, <3>1, <4>1 DEF Has
    <3>3. CASE ~(i <= n)
      <4>1. i + 1 \in n + 2 .. l + 1 /\ i + 1 \in 1 .. l + 1 /\ (i + 1) - 1 = i
          BY <1>0, <3>3
      <4>2. u[i + 1] = x
          BY <1>1, <3>1, <4>1
      <4>3. QED  BY <1>1, <4>1, <4>2 DEF Has
    <3>4. QED  BY <3>2, <3>3
  <2>4. QED  BY <2>1, <2>2, <2>3
<1>8. u # << >> /\ Head(u) = u[1]
    BY <1>0, <1>1
<1>9. Head(u) = t \/ (s # << >> /\ Head(u) = Head(s))
  <2>1. CASE n = 0
      BY <1>1, <1>8, <2>1
  <2>2. CASE n # 0
    <3>1. 1 \in 1 .. n /\ l # 0
        BY <1>0, <2>2
    <3>2. s # << >> /\ Head(s) = s[1]
        BY <3>1
    <3>3. QED  BY <1>1, <1>8, <3>1, <3>2
  <2>3. QED  BY <2>1, <2>2
<1>10. QED  BY <1>1, <1>6, <1>7, <1>8, <1>9 DEF u, LinkedIn

\* List u is s without t.
LinkedOut(u, s, t, f, g, S) ==
    /\ u \in Seq(S) /\ Sorted(u, g)
    /\ \A x : Has(u, x) <=> x # t /\ Has(s, x)
    /\ s # << >>
    /\ u # << >> => /\ Head(u) # t
                    /\ Head(s) = t \/ Head(u) = Head(s)
                    /\ f[Head(s)] <= f[Head(u)]

\* tdel() keeps the list sorted; where it took the first timer away, the next
\* does not expire earlier.
LEMMA UnlinkList ==
    ASSUME NEW S, NEW s \in Seq(S), NEW t, NEW f, NEW g,
           \A i \in 1 .. Len(s) : f[s[i]] \in Int,
           Sorted(s, f), Has(s, t),
           \A i \in 1 .. Len(s) : s[i] # t => g[s[i]] = f[s[i]]
    PROVE  LinkedOut(T!Unlink(s, t), s, t, f, g, S)
<1> DEFINE k == CHOOSE i \in 1 .. Len(s) : s[i] = t
           u == T!RemoveAt(s, k)
           l == Len(s)
<1>0. k \in 1 .. l /\ s[k] = t
    BY DEF Has
<1>1. t \in T!ToSet(s)
    BY ToSetIs
<1>2. T!Unlink(s, t) = u
    BY <1>1, Zenon DEF T!Unlink
<1> HIDE DEF k
<1>3. /\ u \in Seq(S) /\ Len(u) = l - 1
      /\ \A i \in 1 .. l - 1 : u[i] = IF i < k THEN s[i] ELSE s[i + 1]
    BY <1>0, RemoveAtIs
<1>4. l \in Nat /\ k \in Nat /\ 1 <= k /\ k <= l
    BY <1>0
<1>5. \A i, j \in 1 .. l : i < j => s[i] # s[j] /\ f[s[i]] <= f[s[j]]
    BY DEF Sorted
<1> HIDE DEF u
<1> DEFINE at(i) == IF i < k THEN i ELSE i + 1
<1>6. \A i \in 1 .. l - 1 : at(i) \in 1 .. l /\ at(i) # k /\ u[i] = s[at(i)]
    BY <1>3, <1>4
<1>7. \A i, j \in 1 .. l - 1 : i < j => at(i) < at(j)
    BY <1>4
<1>8. \A i \in 1 .. l : i # k => s[i] # t
    BY <1>0, <1>4, <1>5
<1>9. \A i \in 1 .. l : i # k => (i - 1 \in 1 .. l - 1 /\ at(i - 1) = i) \/ (i \in 1 .. l - 1 /\ at(i) = i)
    BY <1>4
<1> HIDE DEF at
<1>10. Sorted(u, g)
  <2> SUFFICES ASSUME NEW i \in 1 .. l - 1, NEW j \in 1 .. l - 1, i < j
               PROVE  u[i] # u[j] /\ g[u[i]] <= g[u[j]]
      BY <1>3 DEF Sorted
  <2>1. /\ at(i) \in 1 .. l /\ at(j) \in 1 .. l /\ at(i) < at(j)
        /\ u[i] = s[at(i)] /\ u[j] = s[at(j)] /\ u[i] # t /\ u[j] # t
      BY <1>6, <1>7, <1>8
  <2>2. g[u[i]] = f[u[i]] /\ g[u[j]] = f[u[j]]
      BY <2>1
  <2>3. QED  BY <1>5, <2>1, <2>2
<1>11. ASSUME NEW x PROVE Has(u, x) <=> x # t /\ Has(s, x)
  <2>1. ASSUME Has(u, x) PROVE x # t /\ Has(s, x)
      BY <1>3, <1>6, <1>8, <2>1 DEF Has
  <2>2. ASSUME x # t, Has(s, x) PROVE Has(u, x)
    <3>1. PICK i \in 1 .. l : s[i] = x
        BY <2>2 DEF Has
    <3>2. PICK j \in 1 .. l - 1 : at(j) = i
        BY <1>0, <1>9, <2>2, <3>1
    <3>3. u[j] = x
        BY <1>6, <3>1, <3>2
    <3>4. QED  BY <1>3, <3>3 DEF Has
  <2>3. QED  BY <2>1, <2>2
<1>12. s # << >> /\ Head(s) = s[1]
    BY <1>4
<1>13. ASSUME u # << >>
       PROVE  /\ Head(u) # t
              /\ Head(s) = t \/ Head(u) = Head(s)
              /\ f[Head(s)] <= f[Head(u)]
  <2>1. Len(u) # 0 /\ Head(u) = u[1]
      BY <1>3, <1>13
  <2>2. 1 \in 1 .. l - 1 /\ 1 \in 1 .. l
      BY <1>3, <1>4, <2>1
  <2>3. u[1] = s[at(1)] /\ at(1) \in 1 .. l /\ u[1] # t
      BY <1>6, <1>8, <2>2
  <2>4. CASE k = 1
    <3>1. at(1) = 2
        BY <2>4 DEF at
    <3>2. f[s[1]] <= f[s[2]]
        BY <1>5, <2>2, <2>3, <3>1
    <3>3. QED  BY <1>0, <1>12, <2>1, <2>3, <2>4, <3>1, <3>2
  <2>5. CASE k # 1
    <3>1. at(1) = 1
        BY <1>4, <2>5 DEF at
    <3>2. Head(u) = Head(s) /\ f[s[1]] \in Int
        BY <1>12, <2>1, <2>2, <2>3, <3>1
    <3>3. QED  BY <1>12, <2>1, <2>3, <3>2
  <2>6. QED  BY <2>4, <2>5
<1>14. QED  BY <1>2, <1>3, <1>10, <1>11, <1>12, <1>13 DEF LinkedOut

\* The interrupt handler takes the first timer.
LEMMA TailList ==
    ASSUME NEW S, NEW s \in Seq(S), NEW f, s # << >>, Sorted(s, f)
    PROVE  /\ Tail(s) \in Seq(S) /\ Sorted(Tail(s), f)
           /\ \A x : Has(Tail(s), x) <=> x # Head(s) /\ Has(s, x)
           /\ Has(s, Head(s)) /\ Head(s) \in S
<1> DEFINE u == Tail(s)
           l == Len(s)
<1>0. l \in Nat /\ l # 0 /\ Head(s) = s[1] /\ s[1] \in S /\ 1 \in 1 .. l
    OBVIOUS
<1>1. u \in Seq(S) /\ Len(u) = l - 1 /\ \A i \in 1 .. l - 1 : u[i] = s[i + 1] /\ i + 1 \in 1 .. l
    BY <1>0
<1>2. \A i, j \in 1 .. l : i < j => s[i] # s[j] /\ f[s[i]] <= f[s[j]]
    BY DEF Sorted
<1> HIDE DEF u, l
<1>3. Sorted(u, f)
  <2> SUFFICES ASSUME NEW i \in 1 .. l - 1, NEW j \in 1 .. l - 1, i < j
               PROVE  u[i] # u[j] /\ f[u[i]] <= f[u[j]]
      BY <1>1 DEF Sorted
  <2>1. i + 1 < j + 1
      BY <1>0
  <2>2. QED  BY <1>1, <1>2, <2>1
<1>4. ASSUME NEW x PROVE Has(u, x) <=> x # s[1] /\ Has(s, x)
  <2>1. ASSUME Has(u, x) PROVE x # s[1] /\ Has(s, x)
    <3>1. PICK i \in 1 .. l - 1 : u[i] = x
        BY <1>1, <2>1 DEF Has
    <3>2. 1 < i + 1 /\ i + 1 \in 1 .. l /\ s[i + 1] = x
        BY <1>0, <1>1, <3>1
    <3>3. QED  BY <1>0, <1>2, <3>2 DEF Has, l
  <2>2. ASSUME x # s[1], Has(s, x) PROVE Has(u, x)
    <3>1. PICK i \in 1 .. l : s[i] = x
        BY <2>2 DEF Has, l
    <3>2. i - 1 \in 1 .. l - 1 /\ (i - 1) + 1 = i
        BY <1>0, <2>2, <3>1
    <3>3. u[i - 1] = x
        BY <1>1, <3>1, <3>2
    <3>4. QED  BY <1>1, <3>2, <3>3 DEF Has
  <2>3. QED  BY <2>1, <2>2
<1>5. Has(s, Head(s))
    BY <1>0 DEF Has, l
<1>6. QED  BY <1>0, <1>1, <1>3, <1>4, <1>5 DEF u

----------------------------------------------------------------------------
(* The inductive invariant of the timers.                                  *)

\* The lists, sorted, with the timers whose tt names them.
TLists ==
    \A c \in Cpus :
        /\ Sorted(list[c], twhen)
        /\ \A t \in T!TimerIds : Has(list[c], t) <=> tt[t] = c
        /\ \A p \in Tsleepers : tpc[p] \in {"run", "timeradd"} => ~Has(list[c], p)

\* Expiries are times at which a clock can be set; a handler has a timer.
TExtra ==
    /\ \A t \in T!TimerIds : twhen[t] <= Never - 1
    /\ \A c \in Cpus : ipc[c] \in {"trend", "wakeup"} => it[c] \in Tsleepers

TInv == T!TypeOK /\ TLists /\ T!Armed /\ TExtra

\* What is assumed of the constants.
LEMMA TConstants ==
    /\ Never \in Int /\ Never >= 2 /\ MaxLate \in Int /\ MaxLate >= 1
    /\ Period \in Int /\ Period >= 1 /\ Period <= Never - 1
    /\ \A d \in Delays : d \in Int /\ d >= 1 /\ d <= Never - 1
    /\ T!TimerIds = Tsleepers \cup Cpus
    /\ Nil \notin Tsleepers /\ Nil \notin Cpus /\ Nil \notin Trendezes
    /\ \A x : ~(x \in Tsleepers /\ x \in Cpus)
<1>1. Never \in Nat /\ MaxLate \in Nat \ {0} /\ Period \in 1 .. Never - 1 /\ Delays \subseteq 1 .. Never - 1
    BY TimersConstants, Zenon DEF T!TimersAssumption
<1>2. Tsleepers \cap Cpus = {} /\ Nil \notin T!TimerIds \cup Trendezes
    BY TimersConstants, Zenon DEF T!TimersAssumption
<1>3. T!TimerIds = Tsleepers \cup Cpus
    BY DEF T!TimerIds
<1>4. QED  BY <1>1, <1>2, <1>3

\* The property of the runs is the one of the invariant.
LEMMA TListsIs == T!ListsOK <=> T!TypeOK /\ TLists
<1> SUFFICES ASSUME T!TypeOK PROVE T!ListsOK <=> TLists
    BY Zenon DEF T!ListsOK
<1>1. \A c \in Cpus : list[c] \in Seq(T!TimerIds)
    BY DEF T!TypeOK
<1>2. \A c \in Cpus : \A t : t \in T!ToSet(list[c]) <=> Has(list[c], t)
    BY <1>1, ToSetIs
<1>3. \A c \in Cpus : Sorted(list[c], twhen) <=>
          \A i, j \in 1 .. Len(list[c]) :
              i < j => list[c][i] # list[c][j] /\ twhen[list[c][i]] <= twhen[list[c][j]]
    BY Zenon DEF Sorted
<1>4. QED  BY <1>2, <1>3, Zenon DEF T!ListsOK, TLists

\* Where tadd() puts a timer.
LEMMA InsertIs ==
    ASSUME NEW s \in Seq(T!TimerIds), NEW t, NEW w \in Int,
           \A i \in 1 .. Len(s) : twhen[s[i]] \in Int
    PROVE  \E n \in 0 .. Len(s) :
              /\ T!Insert(s, t, w) = T!InsertAt(s, 1 + n, t)
              /\ \A i \in 1 .. n : twhen[s[i]] <= w
              /\ n < Len(s) => twhen[s[n + 1]] > w
<1> DEFINE Before(n) == /\ \A i \in 1 .. n : twhen[s[i]] <= w
                        /\ n < Len(s) => twhen[s[n + 1]] > w
           m == CHOOSE n \in 0 .. Len(s) : Before(n)
           l == Len(s)
           S == {n \in 0 .. l : n < l => twhen[s[n + 1]] > w}
<1>1. l \in Nat /\ S \subseteq Nat /\ l \in S
    OBVIOUS
<1>2. PICK n \in S : \A k \in S : n <= k
    BY <1>1, Least, Zenon
<1>3. n \in 0 .. l /\ (n < l => twhen[s[n + 1]] > w)
    BY <1>2
<1>4. ASSUME NEW i \in 1 .. n PROVE twhen[s[i]] <= w
  <2>1. i - 1 \in 0 .. l /\ i - 1 < l /\ i - 1 < n /\ (i - 1) + 1 = i /\ i \in 1 .. l
      BY <1>1, <1>3
  <2>2. i - 1 \notin S
      BY <1>1, <1>2, <2>1
  <2>3. ~(twhen[s[i]] > w) /\ twhen[s[i]] \in Int
      BY <2>1, <2>2
  <2>4. QED  BY <2>3
<1>5. n \in 0 .. Len(s) /\ Before(n)
    BY <1>3, <1>4
<1> HIDE DEF Before
<1>6. m \in 0 .. Len(s) /\ Before(m)
    BY <1>5, Zenon
<1>7. T!Insert(s, t, w) = T!InsertAt(s, 1 + m, t)
    BY Zenon DEF T!Insert, Before
<1> HIDE DEF m
<1>8. QED  BY <1>6, <1>7 DEF Before

\* At first the list of each processor has its HZ timer alone.
LEMMA TInvInit == T!Init => TInv
<1> SUFFICES ASSUME T!Init PROVE TInv
    OBVIOUS
<1> USE TConstants
<1>1. T!TypeOK
  <2>1. list \in [Cpus -> Seq(T!TimerIds)]
    <3>1. \A c \in Cpus : <<c>> \in Seq(T!TimerIds)
        OBVIOUS
    <3>2. list = [c \in Cpus |-> <<c>>]
        BY DEF T!Init
    <3>3. QED  BY <3>1, <3>2
  <2>2. twhen \in [T!TimerIds -> -MaxLate .. Never] /\ hw \in [Cpus -> -MaxLate .. Never]
      BY DEF T!Init
  <2>3. tt \in [T!TimerIds -> Cpus \cup {Nil}]
      BY DEF T!Init
  <2>4. inow \in [Cpus -> -MaxLate .. 0]
      BY DEF T!Init
  <2>5. QED  BY <2>1, <2>2, <2>3, <2>4 DEF T!Init, T!TypeOK
<1>2. \A c \in Cpus : list[c] = <<c>> /\ Len(<<c>>) = 1 /\ <<c>>[1] = c /\ Head(<<c>>) = c
    BY DEF T!Init
<1>3. \A c \in Cpus : \A t : Has(list[c], t) <=> t = c
    BY <1>2 DEF Has
<1>4. TLists
  <2>1. \A c \in Cpus : Sorted(list[c], twhen)
      BY <1>2 DEF Sorted
  <2>2. \A c \in Cpus : \A t \in T!TimerIds : t = c <=> tt[t] = c
      BY DEF T!Init
  <2>3. \A c \in Cpus : \A p \in Tsleepers : ~Has(list[c], p)
      BY <1>3
  <2>4. QED  BY <1>3, <2>1, <2>2, <2>3, Zenon DEF TLists
<1>5. T!Armed
    BY <1>2 DEF T!Armed, T!Init
<1>6. TExtra
    BY DEF TExtra, T!Init
<1>7. QED  BY <1>1, <1>4, <1>5, <1>6 DEF TInv

\* What the invariant says of the lists and of the timers in them.
LEMMA TFacts ==
    ASSUME TInv
    PROVE  /\ \A t \in T!TimerIds : twhen[t] \in Int /\ -MaxLate <= twhen[t] /\ twhen[t] <= Never - 1
           /\ \A c \in Cpus : /\ list[c] \in Seq(T!TimerIds)
                              /\ \A i \in 1 .. Len(list[c]) : list[c][i] \in T!TimerIds
                              /\ Sorted(list[c], twhen)
                              /\ \A t : Has(list[c], t) => t \in T!TimerIds /\ tt[t] = c
           /\ \A c \in Cpus : list[c] # << >> => Head(list[c]) \in T!TimerIds /\ Has(list[c], Head(list[c]))
           /\ \A p \in Tsleepers : tpc[p] \in {"run", "timeradd"} => tt[p] = Nil
<1> USE TConstants
<1>1. T!TypeOK /\ TLists /\ TExtra
    BY DEF TInv
<1>2. \A t \in T!TimerIds : twhen[t] \in Int /\ -MaxLate <= twhen[t] /\ twhen[t] <= Never - 1
    BY <1>1 DEF T!TypeOK, TExtra
<1>3. \A c \in Cpus : list[c] \in Seq(T!TimerIds)
    BY <1>1 DEF T!TypeOK
<1>4. \A c \in Cpus : \A i \in 1 .. Len(list[c]) : list[c][i] \in T!TimerIds
    BY <1>3
<1>5. \A c \in Cpus : Sorted(list[c], twhen) /\ \A t : Has(list[c], t) => t \in T!TimerIds /\ tt[t] = c
    BY <1>1, <1>4 DEF TLists, Has
<1>6. \A c \in Cpus : list[c] # << >> => Head(list[c]) \in T!TimerIds /\ Has(list[c], Head(list[c]))
    BY <1>3, <1>5, TailList
<1>7. \A p \in Tsleepers : tpc[p] \in {"run", "timeradd"} => tt[p] = Nil
    BY <1>1 DEF T!TypeOK, TLists
<1>8. QED  BY <1>2, <1>3, <1>4, <1>5, <1>6, <1>7

\* The steps of processes, and of twakeup(), that leave lists and clocks alone.
LEMMA TQuiet ==
    ASSUME TInv,
           \/ \E p \in Tsleepers :
                 \/ \E r \in Trendezes : T!TsleepSet(p, r)
                 \/ T!TsleepSleep(p) \/ T!WakeOther(p)
                 \/ \E c \in Cpus : T!Dispatch(p, c)
           \/ \E c \in Cpus : T!TwakeupRead(c) \/ T!Twakeup(c)
           \/ UNCHANGED T!vars
    PROVE  TInv'
<1> USE TConstants
<1>1. T!TypeOK /\ TLists /\ T!Armed /\ TExtra
    BY DEF TInv
<1>2. UNCHANGED <<list, twhen, tt, hw, inow>>
    BY DEF T!TsleepSet, T!TsleepSleep, T!WakeOther, T!Dispatch, T!TwakeupRead, T!Twakeup, T!vars,
           T!intrVars, T!procVars
<1> DEFINE Handlers ==
        /\ \A c \in Cpus : ipc'[c] = "idle" <=> ipc[c] = "idle"
        /\ ipc' \in [Cpus -> {"idle", "scan", "trend", "wakeup"}]
        /\ it' \in [Cpus -> Tsleepers \cup {Nil}]
        /\ irend' \in [Cpus -> Trendezes \cup {Nil}]
        /\ \A c \in Cpus : ipc'[c] \in {"trend", "wakeup"} => it'[c] \in Tsleepers
    Sleepers ==
        /\ tpc' \in [Tsleepers -> {"run", "timeradd", "sleep", "asleep", "ready", "awake"}]
        /\ on' \in [Tsleepers -> Cpus \cup {Nil}]
        /\ trend' \in [Tsleepers -> Trendezes \cup {Nil}]
        /\ rend' \in [Tsleepers -> Trendezes \cup {Nil}]
        /\ \A p \in Tsleepers : tpc'[p] \in {"run", "timeradd"} => tpc[p] \in {"run", "timeradd"}
<1>3. Handlers
  <2>1. ASSUME NEW c \in Cpus, T!TwakeupRead(c) PROVE Handlers
      BY <1>1, <2>1 DEF T!TwakeupRead, T!TypeOK, TExtra
  <2>2. ASSUME NEW c \in Cpus, T!Twakeup(c) PROVE Handlers
      BY <1>1, <2>2 DEF T!Twakeup, T!TypeOK, TExtra
  <2>3. ASSUME UNCHANGED <<ipc, it, irend>> PROVE Handlers
      BY <1>1, <2>3 DEF T!TypeOK, TExtra
  <2>4. ASSUME NEW p \in Tsleepers,
               \/ \E r \in Trendezes : T!TsleepSet(p, r)
               \/ T!TsleepSleep(p) \/ T!WakeOther(p)
               \/ \E c \in Cpus : T!Dispatch(p, c)
        PROVE  UNCHANGED <<ipc, it, irend>>
      BY <2>4 DEF T!TsleepSet, T!TsleepSleep, T!WakeOther, T!Dispatch, T!intrVars
  <2>5. QED  BY <2>1, <2>2, <2>3, <2>4 DEF T!vars
<1>4. Sleepers
  <2>1. ASSUME NEW p \in Tsleepers, NEW r \in Trendezes, T!TsleepSet(p, r) PROVE Sleepers
      BY <1>1, <2>1 DEF T!TsleepSet, T!Goto, T!TypeOK
  <2>2. ASSUME NEW p \in Tsleepers, T!TsleepSleep(p) PROVE Sleepers
      BY <1>1, <2>2 DEF T!TsleepSleep, T!Goto, T!TypeOK
  <2>3. ASSUME NEW p \in Tsleepers, T!WakeOther(p) PROVE Sleepers
      BY <1>1, <2>3 DEF T!WakeOther, T!Goto, T!TypeOK
  <2>4. ASSUME NEW p \in Tsleepers, NEW c \in Cpus, T!Dispatch(p, c) PROVE Sleepers
      BY <1>1, <2>4 DEF T!Dispatch, T!Goto, T!TypeOK
  <2>5. ASSUME NEW c \in Cpus, T!TwakeupRead(c) PROVE Sleepers
      BY <1>1, <2>5 DEF T!TwakeupRead, T!procVars, T!TypeOK
  <2>6. ASSUME NEW c \in Cpus, T!Twakeup(c) PROVE Sleepers
    <3>1. \/ tpc' = tpc
          \/ tpc' = [p \in Tsleepers |-> IF tpc[p] = "asleep" /\ rend[p] = irend[c] THEN "ready" ELSE tpc[p]]
        BY <2>6 DEF T!Twakeup, T!wakeup
    <3>2. /\ tpc' \in [Tsleepers -> {"run", "timeradd", "sleep", "asleep", "ready", "awake"}]
          /\ \A p \in Tsleepers : tpc'[p] \in {"run", "timeradd"} => tpc[p] \in {"run", "timeradd"}
        BY <1>1, <3>1 DEF T!TypeOK
    <3>3. QED  BY <1>1, <2>6, <3>2 DEF T!Twakeup, T!TypeOK
  <2>7. ASSUME UNCHANGED T!vars PROVE Sleepers
      BY <1>1, <2>7 DEF T!vars, T!TypeOK
  <2>8. QED  BY <2>1, <2>2, <2>3, <2>4, <2>5, <2>6, <2>7
<1>5. T!TypeOK'
    BY <1>1, <1>2, <1>3, <1>4 DEF T!TypeOK
<1>6. TLists'
  <2>1. \A c \in Cpus : Sorted(list'[c], twhen') /\ \A t \in T!TimerIds : Has(list'[c], t) <=> tt'[t] = c
      BY <1>1, <1>2 DEF TLists
  <2>2. \A c \in Cpus : \A p \in Tsleepers : tpc'[p] \in {"run", "timeradd"} => ~Has(list'[c], p)
      BY <1>1, <1>2, <1>4 DEF TLists
  <2>3. QED  BY <2>1, <2>2 DEF TLists, Sorted, Has
<1>7. T!Armed'
    BY <1>1, <1>2, <1>3 DEF T!Armed
<1>8. TExtra'
    BY <1>1, <1>2, <1>3 DEF TExtra
<1>9. QED  BY <1>5, <1>6, <1>7, <1>8 DEF TInv

\* timeradd(): the timer of p joins the list of its processor.
LEMMA Ttimeradd ==
    ASSUME TInv, NEW p \in Tsleepers, NEW ms \in Delays, T!timeradd(p, ms)
    PROVE  TInv'
<1> USE TConstants
<1>1. T!TypeOK /\ TLists /\ T!Armed /\ TExtra
    BY DEF TInv
<1>2. PICK c \in Cpus : c = on[p] /\ ipc[c] = "idle"
    BY <1>1 DEF T!timeradd, T!Runs, T!TypeOK
<1>3. tt[p] = Nil /\ T!Without(p) = list /\ p \in T!TimerIds /\ ms \in Int
  <2>1. tt[p] = Nil
      BY TFacts DEF T!timeradd
  <2>2. QED  BY <2>1 DEF T!Without
<1> DEFINE s == list[c]
           u == T!Insert(s, p, ms)
<1>4. /\ twhen' = [twhen EXCEPT ![p] = ms]
      /\ list' = [list EXCEPT ![c] = u]
      /\ tt' = [tt EXCEPT ![p] = c]
      /\ IF Head(list'[c]) = p THEN hw' = [hw EXCEPT ![c] = ms] ELSE UNCHANGED hw
      /\ tpc' = [tpc EXCEPT ![p] = "sleep"]
      /\ UNCHANGED <<on, trend, rend, ipc, inow, it, irend>>
    BY <1>2, <1>3 DEF T!timeradd, T!timerset, T!Goto, T!intrVars
<1>5. /\ s \in Seq(T!TimerIds) /\ \A i \in 1 .. Len(s) : s[i] \in T!TimerIds /\ twhen[s[i]] \in Int
      /\ Sorted(s, twhen) /\ ~Has(s, p) /\ \A i \in 1 .. Len(s) : s[i] # p
  <2>1. /\ s \in Seq(T!TimerIds) /\ \A i \in 1 .. Len(s) : s[i] \in T!TimerIds /\ twhen[s[i]] \in Int
        /\ Sorted(s, twhen) /\ ~Has(s, p)
      BY <1>3, TFacts
  <2>2. QED  BY <2>1 DEF Has
<1>6. twhen'[p] = ms /\ \A i \in 1 .. Len(s) : twhen'[s[i]] = twhen[s[i]]
    BY <1>1, <1>3, <1>4, <1>5 DEF T!TypeOK
<1>7. /\ u \in Seq(T!TimerIds) /\ Sorted(u, twhen')
      /\ \A x : Has(u, x) <=> x = p \/ Has(s, x)
      /\ u # << >>
      /\ Head(u) = p \/ (s # << >> /\ Head(u) = Head(s))
  <2> HIDE DEF s, u
  <2>1. PICK n \in 0 .. Len(s) :
            /\ T!Insert(s, p, ms) = T!InsertAt(s, 1 + n, p)
            /\ \A i \in 1 .. n : twhen[s[i]] <= ms
            /\ n < Len(s) => twhen[s[n + 1]] > ms
      BY <1>3, <1>5, InsertIs
  <2>2. u = T!InsertAt(s, 1 + n, p)
      BY <2>1 DEF u
  <2>3. /\ s \in Seq(T!TimerIds) /\ p \in T!TimerIds /\ ms \in Int /\ n \in 0 .. Len(s)
        /\ \A i \in 1 .. Len(s) : twhen[s[i]] \in Int
        /\ Sorted(s, twhen) /\ ~Has(s, p)
        /\ \A i \in 1 .. n : twhen[s[i]] <= ms
        /\ n < Len(s) => twhen[s[n + 1]] > ms
        /\ \A i \in 1 .. Len(s) : twhen'[s[i]] = twhen[s[i]]
        /\ twhen'[p] = ms
      BY <1>3, <1>5, <1>6, <2>1
  <2>4. LinkedIn(T!InsertAt(s, 1 + n, p), s, p, twhen', T!TimerIds)
      BY <2>3, InsertList
  <2>5. QED  BY <2>2, <2>4 DEF LinkedIn
<1>8. list'[c] = u /\ \A d \in Cpus : d # c => list'[d] = list[d]
    BY <1>1, <1>4 DEF T!TypeOK
<1> HIDE DEF s, u
<1>9. T!TypeOK'
  <2>1. list' \in [Cpus -> Seq(T!TimerIds)]
      BY <1>1, <1>4, <1>7 DEF T!TypeOK
  <2>2. twhen' \in [T!TimerIds -> -MaxLate .. Never] /\ hw' \in [Cpus -> -MaxLate .. Never]
    <3>1. ms \in -MaxLate .. Never
        BY <1>3
    <3>2. hw' = hw \/ hw' = [hw EXCEPT ![c] = ms]
        BY <1>4
    <3>3. hw' \in [Cpus -> -MaxLate .. Never]
      <4>1. hw \in [Cpus -> -MaxLate .. Never]
          BY <1>1 DEF T!TypeOK
      <4>2. CASE hw' = hw
          BY <4>1, <4>2
      <4>3. CASE hw' = [hw EXCEPT ![c] = ms]
          BY <3>1, <4>1, <4>3
      <4>4. QED  BY <3>2, <4>2, <4>3
    <3>4. twhen' \in [T!TimerIds -> -MaxLate .. Never]
        BY <1>1, <1>4, <3>1 DEF T!TypeOK
    <3>5. QED  BY <3>3, <3>4
  <2>3. tt' \in [T!TimerIds -> Cpus \cup {Nil}]
      BY <1>1, <1>4 DEF T!TypeOK
  <2>4. QED  BY <1>1, <1>4, <2>1, <2>2, <2>3 DEF T!TypeOK
<1>10. ASSUME NEW d \in Cpus
       PROVE  /\ Sorted(list'[d], twhen')
              /\ \A t \in T!TimerIds : Has(list'[d], t) <=> tt'[t] = d
  <2>1. CASE d = c
    <3>1. \A t \in T!TimerIds : Has(u, t) <=> tt'[t] = c
        BY <1>1, <1>3, <1>4, <1>7 DEF TLists, s, T!TypeOK
    <3>2. QED  BY <1>7, <1>8, <2>1, <3>1
  <2>2. CASE d # c
    <3>1. \A t : Has(list[d], t) => t \in T!TimerIds /\ t # p
        BY <1>3, TFacts
    <3>2. \A i \in 1 .. Len(list[d]) : list[d][i] \in T!TimerIds /\ twhen'[list[d][i]] = twhen[list[d][i]]
        BY <1>1, <1>4, <3>1 DEF T!TypeOK, Has
    <3>3. Sorted(list[d], twhen')
        BY <3>2, TFacts DEF Sorted
    <3>4. \A t \in T!TimerIds : Has(list[d], t) <=> tt'[t] = d
        BY <1>1, <1>3, <1>4, <2>2 DEF TLists, T!TypeOK
    <3>5. QED  BY <1>8, <2>2, <3>3, <3>4
  <2>3. QED  BY <2>1, <2>2
<1>11. TLists'
  <2>1. ASSUME NEW d \in Cpus, NEW q \in Tsleepers, tpc'[q] \in {"run", "timeradd"}
        PROVE  ~Has(list'[d], q)
    <3>1. q # p /\ tpc[q] \in {"run", "timeradd"}
        BY <1>1, <1>4, <2>1 DEF T!TypeOK
    <3>2. ~Has(list[d], q)
        BY <1>1, <3>1 DEF TLists
    <3>3. QED  BY <1>7, <1>8, <3>1, <3>2 DEF s
  <2>2. QED  BY <1>10, <2>1 DEF TLists, Sorted, Has
<1>12. T!Armed'
  <2> SUFFICES ASSUME NEW d \in Cpus, ipc'[d] = "idle", list'[d] # << >>
               PROVE  hw'[d] <= twhen'[Head(list'[d])]
      BY DEF T!Armed
  <2>1. CASE d # c
    <3>1. Head(list[d]) \in T!TimerIds /\ Head(list[d]) # p /\ list[d] # << >>
        BY <1>3, <1>8, <2>1, TFacts
    <3>2. hw'[d] = hw[d] /\ twhen'[Head(list[d])] = twhen[Head(list[d])]
        BY <1>1, <1>4, <2>1, <3>1 DEF T!TypeOK
    <3>3. QED  BY <1>1, <1>4, <1>8, <2>1, <3>1, <3>2 DEF T!Armed
  <2>2. CASE d = c /\ Head(u) = p
    <3>1. hw'[c] = ms
        BY <1>1, <1>4, <1>8, <2>2 DEF T!TypeOK
    <3>2. QED  BY <1>3, <1>6, <1>8, <2>2, <3>1
  <2>3. CASE d = c /\ Head(u) # p
    <3>1. s # << >> /\ Head(u) = Head(s) /\ hw' = hw
        BY <1>4, <1>7, <1>8, <2>3
    <3>2. Head(s) \in T!TimerIds /\ twhen'[Head(s)] = twhen[Head(s)]
      <4>1. Head(s) \in T!TimerIds
          BY <3>1, TFacts DEF s
      <4>2. QED  BY <1>1, <1>4, <2>3, <3>1, <4>1 DEF T!TypeOK
    <3>3. hw[c] <= twhen[Head(s)]
        BY <1>1, <1>2, <3>1 DEF T!Armed, s
    <3>4. QED  BY <1>8, <2>3, <3>1, <3>2, <3>3
  <2>4. QED  BY <2>1, <2>2, <2>3
<1>13. TExtra'
    BY <1>1, <1>3, <1>4 DEF TExtra, T!TypeOK
<1>14. QED  BY <1>9, <1>11, <1>12, <1>13 DEF TInv

\* A list that timer p is not in, and does not join.
LEMMA OtherList ==
    ASSUME TInv, NEW d \in Cpus, NEW p \in T!TimerIds, tt[p] # d, NEW v, NEW e, e # d,
           twhen' = [twhen EXCEPT ![p] = v], tt' = [tt EXCEPT ![p] = e]
    PROVE  /\ Sorted(list[d], twhen')
           /\ \A t \in T!TimerIds : Has(list[d], t) <=> tt'[t] = d
           /\ list[d] # << >> => twhen'[Head(list[d])] = twhen[Head(list[d])]
<1>1. T!TypeOK /\ TLists
    BY DEF TInv
<1>2. \A t : Has(list[d], t) => t \in T!TimerIds /\ t # p
    BY TFacts
<1>3. \A t : Has(list[d], t) => twhen'[t] = twhen[t]
    BY <1>1, <1>2 DEF T!TypeOK
<1>4. Sorted(list[d], twhen')
  <2>1. \A i \in 1 .. Len(list[d]) : twhen'[list[d][i]] = twhen[list[d][i]]
      BY <1>3 DEF Has
  <2>2. QED  BY <2>1, TFacts DEF Sorted
<1>5. \A t \in T!TimerIds : Has(list[d], t) <=> tt'[t] = d
    BY <1>1 DEF TLists, T!TypeOK
<1>6. QED  BY <1>3, <1>4, <1>5, TFacts

\* timerdel(), at the end of tsleep().
LEMMA TTsleepEnd ==
    ASSUME TInv, NEW p \in Tsleepers, T!TsleepEnd(p)
    PROVE  TInv'
<1> USE TConstants
<1>1. T!TypeOK /\ TLists /\ T!Armed /\ TExtra
    BY DEF TInv
<1>2. /\ tt' = [tt EXCEPT ![p] = Nil]
      /\ twhen' = [twhen EXCEPT ![p] = 0]
      /\ rend' = [rend EXCEPT ![p] = Nil]
      /\ tpc' = [tpc EXCEPT ![p] = "run"]
      /\ UNCHANGED <<on, trend, ipc, inow, it, irend>>
    BY DEF T!TsleepEnd, T!Goto, T!intrVars
<1>3. p \in T!TimerIds /\ tt[p] \in Cpus \cup {Nil} /\ twhen'[p] = 0 /\ tt'[p] = Nil
    BY <1>1, <1>2 DEF T!TypeOK
<1>4. \A d \in Cpus : tt[p] # d =>
          /\ Sorted(list[d], twhen')
          /\ \A t \in T!TimerIds : Has(list[d], t) <=> tt'[t] = d
          /\ list[d] # << >> => twhen'[Head(list[d])] = twhen[Head(list[d])]
  <2> SUFFICES ASSUME NEW d \in Cpus, tt[p] # d
               PROVE  /\ Sorted(list[d], twhen')
                      /\ \A t \in T!TimerIds : Has(list[d], t) <=> tt'[t] = d
                      /\ list[d] # << >> => twhen'[Head(list[d])] = twhen[Head(list[d])]
      OBVIOUS
  <2>1. Nil # d
      OBVIOUS
  <2>2. QED  BY <1>2, <1>3, <2>1, OtherList
<1>5. /\ twhen' \in [T!TimerIds -> -MaxLate .. Never]
      /\ \A t \in T!TimerIds : twhen'[t] <= Never - 1
  <2>1. 0 \in -MaxLate .. Never /\ 0 <= Never - 1
      OBVIOUS
  <2>2. twhen' \in [T!TimerIds -> -MaxLate .. Never]
      BY <1>1, <1>2, <2>1 DEF T!TypeOK
  <2>3. QED  BY <1>1, <1>2, <2>1, <2>2 DEF TExtra, T!TypeOK
<1>6. TExtra'
    BY <1>1, <1>2, <1>5 DEF TExtra
<1> DEFINE Rest == /\ list' \in [Cpus -> Seq(T!TimerIds)]
                   /\ hw' \in [Cpus -> -MaxLate .. Never]
                   /\ \A d \in Cpus :
                        /\ Sorted(list'[d], twhen')
                        /\ \A t \in T!TimerIds : Has(list'[d], t) <=> tt'[t] = d
                   /\ T!Armed'
<1>7. ASSUME Rest PROVE TInv'
  <2>1. T!TypeOK'
    <3>1. tt' \in [T!TimerIds -> Cpus \cup {Nil}] /\ rend' \in [Tsleepers -> Trendezes \cup {Nil}]
        BY <1>1, <1>2 DEF T!TypeOK
    <3>2. tpc' \in [Tsleepers -> {"run", "timeradd", "sleep", "asleep", "ready", "awake"}]
        BY <1>1, <1>2 DEF T!TypeOK
    <3>3. QED  BY <1>1, <1>2, <1>5, <1>7, <3>1, <3>2 DEF T!TypeOK
  <2>2. ASSUME NEW d \in Cpus, NEW q \in Tsleepers, tpc'[q] \in {"run", "timeradd"}
        PROVE  ~Has(list'[d], q)
    <3>1. CASE q = p
        BY <1>3, <1>7, <3>1
    <3>2. CASE q # p
      <4>1. tpc[q] \in {"run", "timeradd"} /\ q \in T!TimerIds
          BY <1>1, <1>2, <2>2, <3>2 DEF T!TypeOK
      <4>2. tt[q] = Nil
          BY <4>1, TFacts
      <4>3. tt'[q] = Nil
          BY <1>1, <1>2, <4>1, <4>2 DEF T!TypeOK
      <4>4. QED  BY <1>7, <4>1, <4>3
    <3>3. QED  BY <3>1, <3>2
  <2>3. TLists'
      BY <1>7, <2>2 DEF TLists, Sorted, Has
  <2>4. QED  BY <1>6, <1>7, <2>1, <2>3 DEF TInv
<1>8. CASE tt[p] = Nil
  <2>1. UNCHANGED <<list, hw>>
      BY <1>8 DEF T!TsleepEnd
  <2>2. \A d \in Cpus : tt[p] # d
      BY <1>8
  <2>3. T!Armed'
    <3> SUFFICES ASSUME NEW d \in Cpus, ipc'[d] = "idle", list'[d] # << >>
                 PROVE  hw'[d] <= twhen'[Head(list'[d])]
        BY DEF T!Armed
    <3>1. hw[d] <= twhen[Head(list[d])]
        BY <1>1, <1>2, <2>1 DEF T!Armed
    <3>2. twhen'[Head(list[d])] = twhen[Head(list[d])]
        BY <1>4, <2>1, <2>2
    <3>3. QED  BY <2>1, <3>1, <3>2
  <2>4. Rest
      BY <1>1, <1>4, <2>1, <2>2, <2>3 DEF T!TypeOK
  <2>5. QED  BY <1>7, <2>4
<1>9. CASE tt[p] # Nil
  <2>1. PICK c \in Cpus : c = tt[p]
      BY <1>3, <1>9
  <2> DEFINE s == list[c]
             u == T!Unlink(s, p)
  <2>2. /\ list' = [list EXCEPT ![c] = u]
        /\ IF p = Head(s) /\ list'[c] # << >> /\ c = on[p]
           THEN hw' = [hw EXCEPT ![c] = twhen[Head(list'[c])]]
           ELSE UNCHANGED hw
      BY <1>9, <2>1 DEF T!TsleepEnd, T!Without, T!timerset
  <2>3. list'[c] = u /\ \A d \in Cpus : d # c => list'[d] = list[d]
      BY <1>1, <2>2 DEF T!TypeOK
  <2>4. /\ s \in Seq(T!TimerIds) /\ Sorted(s, twhen) /\ Has(s, p)
        /\ \A i \in 1 .. Len(s) : s[i] \in T!TimerIds
        /\ \A i \in 1 .. Len(s) : twhen[s[i]] \in Int
        /\ \A t \in T!TimerIds : Has(s, t) <=> tt[t] = c
    <3>1. \A t \in T!TimerIds : Has(s, t) <=> tt[t] = c
        BY <1>1 DEF TLists
    <3>2. QED  BY <1>3, <2>1, <3>1, TFacts
  <2> HIDE DEF s, u
  <2>5. \A i \in 1 .. Len(s) : s[i] # p => twhen'[s[i]] = twhen[s[i]]
      BY <1>1, <1>2, <2>4 DEF T!TypeOK
  <2>6. LinkedOut(u, s, p, twhen, twhen', T!TimerIds)
    <3>1. LinkedOut(T!Unlink(s, p), s, p, twhen, twhen', T!TimerIds)
        BY <2>4, <2>5, UnlinkList
    <3>2. QED  BY <3>1 DEF u
  <2>7. list' \in [Cpus -> Seq(T!TimerIds)]
      BY <1>1, <2>2, <2>6 DEF T!TypeOK, LinkedOut
  <2>8. list'[c] # << >> => Head(u) \in T!TimerIds /\ Head(u) # p /\ twhen'[Head(u)] = twhen[Head(u)]
    <3> SUFFICES ASSUME u # << >> PROVE Head(u) \in T!TimerIds /\ Head(u) # p /\ twhen'[Head(u)] = twhen[Head(u)]
        BY <2>3
    <3>1. Head(u) # p /\ u \in Seq(T!TimerIds)
        BY <2>6 DEF LinkedOut
    <3>2. Head(u) \in T!TimerIds
        BY <3>1
    <3>3. QED  BY <1>1, <1>2, <3>1, <3>2 DEF T!TypeOK
  <2>9. hw' \in [Cpus -> -MaxLate .. Never]
    <3>1. CASE hw' = hw
        BY <1>1, <3>1 DEF T!TypeOK
    <3>2. CASE list'[c] # << >> /\ hw' = [hw EXCEPT ![c] = twhen[Head(list'[c])]]
      <4>1. twhen[Head(list'[c])] \in -MaxLate .. Never
          BY <1>1, <2>3, <2>8, <3>2 DEF T!TypeOK
      <4>2. QED  BY <1>1, <3>2, <4>1 DEF T!TypeOK
    <3>3. QED  BY <2>2, <3>1, <3>2
  <2>10. ASSUME NEW d \in Cpus
         PROVE  /\ Sorted(list'[d], twhen')
                /\ \A t \in T!TimerIds : Has(list'[d], t) <=> tt'[t] = d
    <3>1. CASE d = c
      <4>1. Sorted(u, twhen') /\ \A t : Has(u, t) <=> t # p /\ Has(s, t)
          BY <2>6 DEF LinkedOut
      <4>2. \A t \in T!TimerIds : tt'[t] = c <=> t # p /\ tt[t] = c
          BY <1>1, <1>2, <1>3 DEF T!TypeOK
      <4>3. QED  BY <2>3, <2>4, <3>1, <4>1, <4>2
    <3>2. CASE d # c
        BY <1>4, <2>1, <2>3, <3>2
    <3>3. QED  BY <3>1, <3>2
  <2>11. T!Armed'
    <3> SUFFICES ASSUME NEW d \in Cpus, ipc'[d] = "idle", list'[d] # << >>
                 PROVE  hw'[d] <= twhen'[Head(list'[d])]
        BY DEF T!Armed
    <3>1. CASE d # c
      <4>1. hw'[d] = hw[d] /\ list'[d] = list[d]
          BY <1>1, <2>2, <2>3, <3>1 DEF T!TypeOK
      <4>2. hw[d] <= twhen[Head(list[d])]
          BY <1>1, <1>2, <4>1 DEF T!Armed
      <4>3. twhen'[Head(list[d])] = twhen[Head(list[d])]
          BY <1>4, <2>1, <3>1, <4>1
      <4>4. QED  BY <4>1, <4>2, <4>3
    <3>2. CASE d = c
      <4>1. hw[c] <= twhen[Head(s)] /\ hw[c] \in Int
        <5>1. s # << >>
            BY <2>6 DEF LinkedOut
        <5>2. QED  BY <1>1, <1>2, <3>2, <5>1 DEF T!Armed, T!TypeOK, s
      <4>2. twhen[Head(s)] <= twhen[Head(u)] /\ Head(u) \in T!TimerIds /\ twhen'[Head(u)] = twhen[Head(u)]
          BY <2>3, <2>6, <2>8, <3>2 DEF LinkedOut
      <4>3. twhen[Head(s)] \in Int /\ twhen[Head(u)] \in Int
        <5>1. Head(s) \in T!TimerIds
            BY <2>4, <2>6 DEF LinkedOut
        <5>2. QED  BY <4>2, <5>1, TFacts
      <4>4. hw'[c] = hw[c] \/ hw'[c] = twhen[Head(u)]
          BY <1>1, <2>2, <2>3 DEF T!TypeOK
      <4>5. QED  BY <2>3, <3>2, <4>1, <4>2, <4>3, <4>4
    <3>3. QED  BY <3>1, <3>2
  <2>12. QED  BY <1>7, <2>7, <2>9, <2>10, <2>11
<1>10. QED  BY <1>8, <1>9

\* The clock interrupts, and timerintr() returns.
LEMMA TTimerIntr ==
    ASSUME TInv, NEW c \in Cpus, T!TimerIntr(c) \/ T!TimerIntrDone(c)
    PROVE  TInv'
<1> USE TConstants
<1>1. T!TypeOK /\ TLists /\ T!Armed /\ TExtra
    BY DEF TInv
<1>2. UNCHANGED <<list, twhen, tt, tpc, on, trend, rend, it, irend>>
    BY DEF T!TimerIntr, T!TimerIntrDone, T!procVars
<1>3. /\ ipc' \in [Cpus -> {"idle", "scan", "trend", "wakeup"}]
      /\ inow' \in [Cpus -> -MaxLate .. 0]
      /\ \A d \in Cpus : ipc'[d] \in {"trend", "wakeup"} => ipc[d] = ipc'[d]
  <2>1. 0 \in -MaxLate .. 0 /\ inow' = [inow EXCEPT ![c] = 0]
      BY DEF T!TimerIntr, T!TimerIntrDone
  <2>2. inow' \in [Cpus -> -MaxLate .. 0]
      BY <1>1, <2>1 DEF T!TypeOK
  <2>3. ipc' = [ipc EXCEPT ![c] = "idle"] \/ ipc' = [ipc EXCEPT ![c] = "scan"]
      BY DEF T!TimerIntr, T!TimerIntrDone
  <2>4. QED  BY <1>1, <2>2, <2>3 DEF T!TypeOK
<1>4. list[c] # << >> => Head(list[c]) \in T!TimerIds
    BY TFacts
<1>5. hw' \in [Cpus -> -MaxLate .. Never]
  <2>1. CASE hw' = hw
      BY <1>1, <2>1 DEF T!TypeOK
  <2>2. CASE hw' = [hw EXCEPT ![c] = Never]
    <3>1. Never \in -MaxLate .. Never
        OBVIOUS
    <3>2. QED  BY <1>1, <2>2, <3>1 DEF T!TypeOK
  <2>3. CASE list[c] # << >> /\ hw' = [hw EXCEPT ![c] = twhen[Head(list[c])]]
    <3>1. twhen[Head(list[c])] \in -MaxLate .. Never
        BY <1>1, <1>4, <2>3 DEF T!TypeOK
    <3>2. QED  BY <1>1, <2>3, <3>1 DEF T!TypeOK
  <2>4. QED  BY <2>1, <2>2, <2>3 DEF T!TimerIntr, T!TimerIntrDone, T!timerset
<1>6. T!Armed'
  <2> SUFFICES ASSUME NEW d \in Cpus, ipc'[d] = "idle", list'[d] # << >>
               PROVE  hw'[d] <= twhen'[Head(list'[d])]
      BY DEF T!Armed
  <2>1. CASE d # c
    <3>1. hw'[d] = hw[d] /\ ipc'[d] = ipc[d]
        BY <1>1, <2>1 DEF T!TimerIntr, T!TimerIntrDone, T!timerset, T!TypeOK
    <3>2. QED  BY <1>1, <1>2, <3>1 DEF T!Armed
  <2>2. CASE d = c
    <3>1. T!TimerIntrDone(c)
        BY <1>1, <2>2 DEF T!TimerIntr, T!TypeOK
    <3>2. hw'[c] = twhen[Head(list[c])]
        BY <1>1, <1>2, <2>2, <3>1 DEF T!TimerIntrDone, T!timerset, T!TypeOK
    <3>3. twhen[Head(list[c])] \in Int
        BY <1>2, <1>4, <2>2, TFacts
    <3>4. QED  BY <1>2, <2>2, <3>2, <3>3
  <2>3. QED  BY <2>1, <2>2
<1>7. T!TypeOK'
    BY <1>1, <1>2, <1>3, <1>5 DEF T!TypeOK
<1>8. TLists'
    BY <1>1, <1>2 DEF TLists, Sorted, Has
<1>9. TExtra'
    BY <1>1, <1>2, <1>3 DEF TExtra
<1>10. QED  BY <1>6, <1>7, <1>8, <1>9 DEF TInv

\* The HZ timer leaves the head of the list and is put back.
LEMMA TTimerIntrHz ==
    ASSUME TInv, NEW c \in Cpus, T!TimerIntrHz(c)
    PROVE  TInv'
<1> USE TConstants
<1>1. T!TypeOK /\ TLists /\ T!Armed /\ TExtra
    BY DEF TInv
<1> DEFINE s == list[c]
           w == twhen[c] + Period
           u == T!Insert(Tail(s), c, w)
<1>2. /\ ipc[c] = "scan" /\ s # << >> /\ Head(s) = c /\ twhen[c] <= inow[c]
      /\ twhen' = [twhen EXCEPT ![c] = w]
      /\ list' = [list EXCEPT ![c] = u]
      /\ UNCHANGED <<tt, hw, tpc, on, trend, rend, ipc, inow, it, irend>>
    BY DEF T!TimerIntrHz, T!procVars, T!intrVars
<1>3. c \in T!TimerIds /\ w \in -MaxLate .. Never /\ w \in Int /\ w <= Never - 1
  <2>1. c \in T!TimerIds /\ inow[c] \in -MaxLate .. 0
      BY <1>1 DEF T!TypeOK
  <2>2. twhen[c] \in Int /\ -MaxLate <= twhen[c] /\ twhen[c] <= 0
      BY <1>2, <2>1, TFacts
  <2>3. QED  BY <2>1, <2>2
<1>4. s \in Seq(T!TimerIds) /\ Sorted(s, twhen) /\ Has(s, c) /\ tt[c] = c
    BY <1>2, TFacts
<1> HIDE DEF s, w, u
<1>5. /\ Tail(s) \in Seq(T!TimerIds) /\ Sorted(Tail(s), twhen)
      /\ \A x : Has(Tail(s), x) <=> x # c /\ Has(s, x)
    BY <1>2, <1>4, TailList
<1>6. \A i \in 1 .. Len(Tail(s)) :
          Tail(s)[i] \in T!TimerIds /\ Tail(s)[i] # c /\ twhen[Tail(s)[i]] \in Int
  <2>1. \A i \in 1 .. Len(Tail(s)) : Tail(s)[i] \in T!TimerIds /\ Has(Tail(s), Tail(s)[i])
      BY <1>5 DEF Has
  <2>2. QED  BY <1>5, <2>1, TFacts
<1>7. LinkedIn(u, Tail(s), c, twhen', T!TimerIds)
  <2> DEFINE v == Tail(s)
  <2>1. v \in Seq(T!TimerIds) /\ \A i \in 1 .. Len(v) : twhen[v[i]] \in Int
      BY <1>5, <1>6
  <2>2. Sorted(v, twhen) /\ ~Has(v, c)
      BY <1>5
  <2>3. \A i \in 1 .. Len(v) : twhen'[v[i]] = twhen[v[i]]
      BY <1>1, <1>2, <1>6 DEF T!TypeOK
  <2>4. twhen'[c] = w
      BY <1>1, <1>2, <1>3 DEF T!TypeOK
  <2> HIDE DEF v
  <2>5. PICK n \in 0 .. Len(v) :
            /\ T!Insert(v, c, w) = T!InsertAt(v, 1 + n, c)
            /\ \A i \in 1 .. n : twhen[v[i]] <= w
            /\ n < Len(v) => twhen[v[n + 1]] > w
      BY <1>3, <2>1, InsertIs
  <2>6. LinkedIn(T!InsertAt(v, 1 + n, c), v, c, twhen', T!TimerIds)
      BY <1>3, <2>1, <2>2, <2>3, <2>4, <2>5, InsertList
  <2>7. QED  BY <2>5, <2>6 DEF u, v
<1>8. list'[c] = u /\ \A d \in Cpus : d # c => list'[d] = list[d]
    BY <1>1, <1>2 DEF T!TypeOK
<1>9. T!TypeOK'
  <2>1. list' \in [Cpus -> Seq(T!TimerIds)]
      BY <1>1, <1>2, <1>7 DEF T!TypeOK, LinkedIn
  <2>2. twhen' \in [T!TimerIds -> -MaxLate .. Never]
      BY <1>1, <1>2, <1>3 DEF T!TypeOK
  <2>3. QED  BY <1>1, <1>2, <2>1, <2>2 DEF T!TypeOK
<1>10. \A d \in Cpus : d # c =>
          /\ Sorted(list[d], twhen')
          /\ \A t \in T!TimerIds : Has(list[d], t) <=> tt'[t] = d
          /\ list[d] # << >> => twhen'[Head(list[d])] = twhen[Head(list[d])]
  <2> SUFFICES ASSUME NEW d \in Cpus, d # c
               PROVE  /\ Sorted(list[d], twhen')
                      /\ \A t \in T!TimerIds : Has(list[d], t) <=> tt'[t] = d
                      /\ list[d] # << >> => twhen'[Head(list[d])] = twhen[Head(list[d])]
      OBVIOUS
  <2>1. tt' = [tt EXCEPT ![c] = c]
      BY <1>1, <1>2, <1>4 DEF T!TypeOK
  <2>2. tt[c] # d /\ c # d
      BY <1>4
  <2>3. c \in T!TimerIds /\ twhen' = [twhen EXCEPT ![c] = w]
      BY <1>2, <1>3
  <2>4. QED  BY <2>1, <2>2, <2>3, OtherList
<1>11. ASSUME NEW d \in Cpus
       PROVE  /\ Sorted(list'[d], twhen')
              /\ \A t \in T!TimerIds : Has(list'[d], t) <=> tt'[t] = d
  <2>1. CASE d = c
    <3>1. Sorted(u, twhen') /\ \A x : Has(u, x) <=> x = c \/ Has(Tail(s), x)
        BY <1>7 DEF LinkedIn
    <3>2. \A t \in T!TimerIds : Has(s, t) <=> tt[t] = c
        BY <1>1 DEF TLists, s
    <3>3. QED  BY <1>2, <1>4, <1>5, <1>8, <2>1, <3>1, <3>2
  <2>2. CASE d # c
      BY <1>8, <1>10, <2>2
  <2>3. QED  BY <2>1, <2>2
<1>12. TLists'
  <2>1. ASSUME NEW d \in Cpus, NEW q \in Tsleepers, tpc'[q] \in {"run", "timeradd"}
        PROVE  ~Has(list'[d], q)
    <3>1. tt'[q] = Nil /\ q \in T!TimerIds
        BY <1>2, <2>1, TFacts
    <3>2. QED  BY <1>11, <3>1
  <2>2. QED  BY <1>11, <2>1 DEF TLists, Sorted, Has
<1>13. T!Armed'
  <2> SUFFICES ASSUME NEW d \in Cpus, ipc'[d] = "idle", list'[d] # << >>
               PROVE  hw'[d] <= twhen'[Head(list'[d])]
      BY DEF T!Armed
  <2>1. d # c /\ list'[d] = list[d]
      BY <1>2, <1>8
  <2>2. hw[d] <= twhen[Head(list[d])]
      BY <1>1, <1>2, <2>1 DEF T!Armed
  <2>3. twhen'[Head(list[d])] = twhen[Head(list[d])]
      BY <1>10, <2>1
  <2>4. QED  BY <1>2, <2>1, <2>2, <2>3
<1>14. TExtra'
  <2>1. \A t \in T!TimerIds : twhen'[t] <= Never - 1
      BY <1>1, <1>2, <1>3 DEF TExtra, T!TypeOK
  <2>2. QED  BY <1>1, <1>2, <2>1 DEF TExtra
<1>15. QED  BY <1>9, <1>12, <1>13, <1>14 DEF TInv

\* An expired timer leaves the list for the handler.
LEMMA TTimerIntrExpire ==
    ASSUME TInv, NEW c \in Cpus, T!TimerIntrExpire(c)
    PROVE  TInv'
<1> USE TConstants
<1>1. T!TypeOK /\ TLists /\ T!Armed /\ TExtra
    BY DEF TInv
<1> DEFINE s == list[c]
           p == Head(s)
<1>2. /\ ipc[c] = "scan" /\ s # << >> /\ p \in Tsleepers
      /\ list' = [list EXCEPT ![c] = Tail(s)]
      /\ tt' = [tt EXCEPT ![p] = Nil]
      /\ twhen' = [twhen EXCEPT ![p] = 0]
      /\ it' = [it EXCEPT ![c] = p]
      /\ ipc' = [ipc EXCEPT ![c] = "trend"]
      /\ UNCHANGED <<hw, tpc, on, trend, rend, inow, irend>>
    BY DEF T!TimerIntrExpire, T!procVars
<1>3. s \in Seq(T!TimerIds) /\ Sorted(s, twhen) /\ Has(s, p) /\ tt[p] = c /\ p \in T!TimerIds
    BY <1>2, TFacts
<1>4. /\ Tail(s) \in Seq(T!TimerIds) /\ Sorted(Tail(s), twhen)
      /\ \A x : Has(Tail(s), x) <=> x # p /\ Has(s, x)
    BY <1>2, <1>3, TailList
<1>5. \A t \in T!TimerIds : Has(s, t) <=> tt[t] = c
    BY <1>1 DEF TLists
<1> HIDE DEF s, p
<1>6. list'[c] = Tail(s) /\ \A d \in Cpus : d # c => list'[d] = list[d]
    BY <1>1, <1>2 DEF T!TypeOK
<1>7. T!TypeOK'
  <2>1. list' \in [Cpus -> Seq(T!TimerIds)]
      BY <1>1, <1>2, <1>4 DEF T!TypeOK
  <2>2. twhen' \in [T!TimerIds -> -MaxLate .. Never]
    <3>1. 0 \in -MaxLate .. Never
        OBVIOUS
    <3>2. QED  BY <1>1, <1>2, <3>1 DEF T!TypeOK
  <2>3. tt' \in [T!TimerIds -> Cpus \cup {Nil}] /\ it' \in [Cpus -> Tsleepers \cup {Nil}]
      BY <1>1, <1>2 DEF T!TypeOK
  <2>4. ipc' \in [Cpus -> {"idle", "scan", "trend", "wakeup"}]
      BY <1>1, <1>2 DEF T!TypeOK
  <2>5. QED  BY <1>1, <1>2, <2>1, <2>2, <2>3, <2>4 DEF T!TypeOK
<1>8. \A d \in Cpus : d # c =>
          /\ Sorted(list[d], twhen')
          /\ \A t \in T!TimerIds : Has(list[d], t) <=> tt'[t] = d
          /\ list[d] # << >> => twhen'[Head(list[d])] = twhen[Head(list[d])]
  <2> SUFFICES ASSUME NEW d \in Cpus, d # c
               PROVE  /\ Sorted(list[d], twhen')
                      /\ \A t \in T!TimerIds : Has(list[d], t) <=> tt'[t] = d
                      /\ list[d] # << >> => twhen'[Head(list[d])] = twhen[Head(list[d])]
      OBVIOUS
  <2>1. tt[p] # d /\ Nil # d
      BY <1>3
  <2>2. QED  BY <1>2, <1>3, <2>1, OtherList
<1>9. ASSUME NEW d \in Cpus
      PROVE  /\ Sorted(list'[d], twhen')
             /\ \A t \in T!TimerIds : Has(list'[d], t) <=> tt'[t] = d
  <2>1. CASE d = c
    <3> DEFINE v == Tail(s)
    <3>1. \A i \in 1 .. Len(v) : v[i] \in T!TimerIds /\ v[i] # p
        BY <1>4 DEF Has
    <3>2. \A i \in 1 .. Len(v) : twhen'[v[i]] = twhen[v[i]]
        BY <1>1, <1>2, <3>1 DEF T!TypeOK
    <3>3. Sorted(v, twhen')
        BY <1>4, <3>2 DEF Sorted
    <3>4. \A t \in T!TimerIds : Has(v, t) <=> tt'[t] = c
        BY <1>1, <1>2, <1>3, <1>4, <1>5 DEF T!TypeOK
    <3>5. QED  BY <1>6, <2>1, <3>3, <3>4
  <2>2. CASE d # c
      BY <1>6, <1>8, <2>2
  <2>3. QED  BY <2>1, <2>2
<1>10. TLists'
  <2>1. ASSUME NEW d \in Cpus, NEW q \in Tsleepers, tpc'[q] \in {"run", "timeradd"}
        PROVE  ~Has(list'[d], q)
    <3>1. tt[q] = Nil /\ q \in T!TimerIds
        BY <1>2, <2>1, TFacts
    <3>2. tt'[q] = Nil
        BY <1>1, <1>2, <3>1 DEF T!TypeOK
    <3>3. QED  BY <1>9, <3>1, <3>2
  <2>2. QED  BY <1>9, <2>1 DEF TLists, Sorted, Has
<1>11. T!Armed'
  <2> SUFFICES ASSUME NEW d \in Cpus, ipc'[d] = "idle", list'[d] # << >>
               PROVE  hw'[d] <= twhen'[Head(list'[d])]
      BY DEF T!Armed
  <2>1. d # c /\ list'[d] = list[d] /\ ipc[d] = "idle"
      BY <1>1, <1>2, <1>6 DEF T!TypeOK
  <2>2. hw[d] <= twhen[Head(list[d])]
      BY <1>1, <2>1 DEF T!Armed
  <2>3. twhen'[Head(list[d])] = twhen[Head(list[d])]
      BY <1>8, <2>1
  <2>4. QED  BY <1>2, <2>1, <2>2, <2>3
<1>12. TExtra'
  <2>1. \A t \in T!TimerIds : twhen'[t] <= Never - 1
      BY <1>1, <1>2, <1>3 DEF TExtra, T!TypeOK
  <2>2. \A d \in Cpus : ipc'[d] \in {"trend", "wakeup"} => it'[d] \in Tsleepers
      BY <1>1, <1>2 DEF TExtra, T!TypeOK
  <2>3. QED  BY <2>1, <2>2 DEF TExtra
<1>13. QED  BY <1>7, <1>10, <1>11, <1>12 DEF TInv

\* Time passes: everything that is set comes nearer by as much.
LEMMA TTick ==
    ASSUME TInv, T!Tick
    PROVE  TInv'
<1> USE TConstants
<1>1. T!TypeOK /\ TLists /\ T!Armed /\ TExtra
    BY DEF TInv
<1>2. /\ \A c \in Cpus : hw[c] > -MaxLate /\ inow[c] > -MaxLate
      /\ \A t \in T!TimerIds : tt[t] # Nil => twhen[t] > -MaxLate
      /\ twhen' = [t \in T!TimerIds |-> IF tt[t] = Nil THEN twhen[t] ELSE twhen[t] - 1]
      /\ hw' = [c \in Cpus |-> IF hw[c] = Never THEN Never ELSE hw[c] - 1]
      /\ inow' = [c \in Cpus |-> IF ipc[c] = "idle" THEN 0 ELSE inow[c] - 1]
      /\ UNCHANGED <<list, tt, tpc, on, trend, rend, ipc, it, irend>>
    BY DEF T!Tick, T!procVars
<1>3. /\ twhen' \in [T!TimerIds -> -MaxLate .. Never]
      /\ \A t \in T!TimerIds : twhen'[t] <= Never - 1
  <2>1. ASSUME NEW t \in T!TimerIds
        PROVE  twhen'[t] \in -MaxLate .. Never /\ twhen'[t] <= Never - 1
    <3>1. twhen[t] \in Int /\ -MaxLate <= twhen[t] /\ twhen[t] <= Never - 1
        BY TFacts
    <3>2. QED  BY <1>2, <3>1
  <2>2. QED  BY <1>2, <2>1
<1>4. hw' \in [Cpus -> -MaxLate .. Never]
  <2>1. ASSUME NEW c \in Cpus PROVE hw'[c] \in -MaxLate .. Never
    <3>1. hw[c] \in -MaxLate .. Never /\ hw[c] > -MaxLate
        BY <1>1, <1>2 DEF T!TypeOK
    <3>2. QED  BY <1>2, <3>1
  <2>2. QED  BY <1>2, <2>1
<1>5. inow' \in [Cpus -> -MaxLate .. 0]
  <2>1. ASSUME NEW c \in Cpus PROVE inow'[c] \in -MaxLate .. 0
    <3>1. inow[c] \in -MaxLate .. 0 /\ inow[c] > -MaxLate
        BY <1>1, <1>2 DEF T!TypeOK
    <3>2. QED  BY <1>2, <3>1
  <2>2. QED  BY <1>2, <2>1
<1>6. T!TypeOK'
    BY <1>1, <1>2, <1>3, <1>4, <1>5 DEF T!TypeOK
<1>7. \A c \in Cpus : \A t : Has(list[c], t) =>
          t \in T!TimerIds /\ twhen'[t] = twhen[t] - 1 /\ twhen[t] \in Int
  <2> SUFFICES ASSUME NEW c \in Cpus, NEW t, Has(list[c], t)
               PROVE  t \in T!TimerIds /\ twhen'[t] = twhen[t] - 1 /\ twhen[t] \in Int
      OBVIOUS
  <2>1. t \in T!TimerIds /\ tt[t] # Nil /\ twhen[t] \in Int
      BY TFacts
  <2>2. QED  BY <1>2, <2>1
<1>8. TLists'
  <2>1. ASSUME NEW c \in Cpus PROVE Sorted(list[c], twhen')
    <3>1. \A i \in 1 .. Len(list[c]) :
             twhen'[list[c][i]] = twhen[list[c][i]] - 1 /\ twhen[list[c][i]] \in Int
        BY <1>7 DEF Has
    <3>2. Sorted(list[c], twhen)
        BY TFacts
    <3> SUFFICES ASSUME NEW i \in 1 .. Len(list[c]), NEW j \in 1 .. Len(list[c]), i < j
                 PROVE  list[c][i] # list[c][j] /\ twhen'[list[c][i]] <= twhen'[list[c][j]]
        BY DEF Sorted
    <3>3. list[c][i] # list[c][j] /\ twhen[list[c][i]] <= twhen[list[c][j]]
        BY <3>2 DEF Sorted
    <3>4. QED  BY <3>1, <3>3
  <2>2. \A c \in Cpus :
            /\ \A t \in T!TimerIds : Has(list[c], t) <=> tt'[t] = c
            /\ \A p \in Tsleepers : tpc'[p] \in {"run", "timeradd"} => ~Has(list[c], p)
      BY <1>1, <1>2 DEF TLists
  <2>3. list' = list
      BY <1>2
  <2>4. \A c \in Cpus :
            /\ Sorted(list'[c], twhen')
            /\ \A t \in T!TimerIds : Has(list'[c], t) <=> tt'[t] = c
            /\ \A p \in Tsleepers : tpc'[p] \in {"run", "timeradd"} => ~Has(list'[c], p)
      BY <2>1, <2>2, <2>3
  <2>5. QED  BY <2>4 DEF TLists, Sorted, Has
<1>9. T!Armed'
  <2> SUFFICES ASSUME NEW d \in Cpus, ipc'[d] = "idle", list'[d] # << >>
               PROVE  hw'[d] <= twhen'[Head(list'[d])]
      BY DEF T!Armed
  <2>1. hw[d] <= twhen[Head(list[d])] /\ hw[d] \in Int
      BY <1>1, <1>2 DEF T!Armed, T!TypeOK
  <2>2. Head(list[d]) \in T!TimerIds /\ Has(list[d], Head(list[d]))
      BY <1>2, TFacts
  <2>3. /\ twhen'[Head(list[d])] = twhen[Head(list[d])] - 1
        /\ twhen[Head(list[d])] \in Int /\ twhen[Head(list[d])] <= Never - 1
      BY <1>7, <2>2, TFacts
  <2>4. hw'[d] = hw[d] - 1
      BY <1>2, <2>1, <2>3
  <2>5. QED  BY <1>2, <2>1, <2>3, <2>4
<1>10. TExtra'
    BY <1>1, <1>2, <1>3 DEF TExtra
<1>11. QED  BY <1>6, <1>8, <1>9, <1>10 DEF TInv

\* The invariant is inductive.
LEMMA TInvStep == TInv /\ [T!Next]_T!vars => TInv'
<1> SUFFICES ASSUME TInv, [T!Next]_T!vars PROVE TInv'
    OBVIOUS
<1>1. CASE UNCHANGED T!vars
    BY <1>1, TQuiet
<1>2. CASE T!Tick
    BY <1>2, TTick
<1>3. ASSUME NEW p \in Tsleepers,
             T!ProcStep(p) \/ T!WakeOther(p) \/ \E r \in Trendezes : T!TsleepSet(p, r)
      PROVE  TInv'
    BY <1>3, Ttimeradd, TTsleepEnd, TQuiet DEF T!ProcStep
<1>4. ASSUME NEW c \in Cpus, T!IntrStep(c)
      PROVE  TInv'
    BY <1>4, TTimerIntr, TTimerIntrHz, TTimerIntrExpire, TQuiet DEF T!IntrStep
<1>5. QED  BY <1>1, <1>2, <1>3, <1>4 DEF T!Next

\* Every timer is in one list at most, the one its tt names, and every list is
\* sorted, on any number of processors, processes and delays.
THEOREM TimerLists == T!Spec => []ListsOK
<1>1. TInv => ListsOK
    BY TListsIs DEF TInv, ListsOK
<1>2. QED  BY <1>1, TInvInit, TInvStep, PTL DEF T!Spec

\* A processor outside its handler is interrupted when its first timer
\* expires, or before.
THEOREM ClockArmed == T!Spec => []Armed
<1>1. TInv => Armed
    BY DEF TInv, Armed
<1>2. QED  BY <1>1, TInvInit, TInvStep, PTL DEF T!Spec
============================================================================
