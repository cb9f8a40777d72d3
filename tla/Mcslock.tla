------------------------------- MODULE Mcslock -------------------------------
(***************************************************************************)
(* The kernel's spin locks, port/mcslock.c: a queue lock in which every    *)
(* waiter spins on an entry of its own, taken from the small table         *)
(* m->locks of its processor.                                              *)
(*                                                                         *)
(* A processor runs one thread of the kernel and, on top of it, interrupt  *)
(* handlers.  A lock that handlers use is taken with ilock(), which        *)
(* disables interrupts; any other lock with lock() or canlock(), so that a *)
(* handler may start between any two of their steps.  Locks are taken in   *)
(* increasing order and released in the opposite one.                      *)
(***************************************************************************)
EXTENDS Naturals, Sequences, FiniteSets

CONSTANTS
    Cpus,      \* the processors
    NLocks,    \* the locks are 1 .. NLocks, in locking order
    Ilocks,    \* those that interrupt handlers use
    NEntries,  \* nelem(m->locks)
    Nil        \* the C nil

Locks   == 1 .. NLocks
Entries == Cpus \X (1 .. NEntries)
Threads == Cpus \X {"base", "intr"}

ASSUME ConstantsAssumption ==
    /\ NLocks \in Nat /\ Ilocks \subseteq Locks /\ NEntries \in Nat \ {0}
    /\ Nil \notin Locks \union Entries

VARIABLES
    head,    \* l->head: the entry of the last in line
    e,       \* l->e: the entry of the owner
    used,    \* a->used: the lock an entry is used for
    next,    \* a->next
    locked,  \* a->locked
    hi,      \* interrupts are disabled on the processor
    pc,      \* where each thread is
    lk, ql,  \* the lock a thread is about, and its entry
    pred,    \* mcslock()'s pred
    pl,      \* per thread: the locks held, innermost last, with the
             \* interrupt level to restore: <<[l |-> lock, hi |-> level], ...>>
    try      \* the thread is in canlock()

vars == <<head, e, used, next, locked, hi, pc, lk, ql, pred, pl, try>>

Init ==
    /\ head = [l \in Locks |-> Nil] /\ e = [l \in Locks |-> Nil]
    /\ used = [a \in Entries |-> Nil]
    /\ next = [a \in Entries |-> Nil]
    /\ locked = [a \in Entries |-> FALSE]
    /\ hi = [c \in Cpus |-> FALSE]
    /\ pc = [t \in Threads |-> IF t[2] = "base" THEN "run" ELSE "off"]
    /\ lk = [t \in Threads |-> Nil] /\ ql = [t \in Threads |-> Nil]
    /\ pred = [t \in Threads |-> Nil]
    /\ pl = [t \in Threads |-> << >>]
    /\ try = [t \in Threads |-> FALSE]

\* A thread makes progress unless a handler runs on its processor.
At(t, l) == pc[t] = l /\ (t[2] = "base" => pc[<<t[1], "intr">>] = "off")

Goto(t, l) == pc' = [pc EXCEPT ![t] = l]

Holds(t, l) == \E i \in DOMAIN pl[t] : pl[t][i].l = l

----------------------------------------------------------------------------
(* Interrupts.                                                             *)

Interrupt(c) ==
    /\ pc[<<c, "intr">>] = "off" /\ ~hi[c]
    /\ hi' = [hi EXCEPT ![c] = TRUE]
    /\ Goto(<<c, "intr">>, "run")
    /\ UNCHANGED <<head, e, used, next, locked, lk, ql, pred, pl, try>>

InterruptReturn(c) ==
    /\ pc[<<c, "intr">>] = "run" /\ pl[<<c, "intr">>] = << >>
    /\ hi' = [hi EXCEPT ![c] = FALSE]
    /\ Goto(<<c, "intr">>, "off")
    /\ UNCHANGED <<head, e, used, next, locked, lk, ql, pred, pl, try>>

----------------------------------------------------------------------------
(* lock(), canlock() and ilock().                                          *)

LockCall(t, l, can) ==
    /\ At(t, "run")
    /\ t[2] = "intr" => l \in Ilocks
    /\ can => l \notin Ilocks
    /\ \A i \in DOMAIN pl[t] : pl[t][i].l < l
    /\ lk' = [lk EXCEPT ![t] = l]
    /\ try' = [try EXCEPT ![t] = can]
    /\ pl' = [pl EXCEPT ![t] = Append(@, [l |-> l, hi |-> hi[t[1]]])]
    /\ hi' = [hi EXCEPT ![t[1]] = @ \/ l \in Ilocks]
    /\ Goto(t, "alloc")
    /\ UNCHANGED <<head, e, used, next, locked, ql, pred>>

\* Mutant: allocle() always takes m->locks[0].
allocleFind_zero(t) ==
    /\ At(t, "alloc")
    /\ ql' = [ql EXCEPT ![t] = <<t[1], 1>>]
    /\ Goto(t, "claim")
    /\ UNCHANGED <<head, e, used, next, locked, hi, lk, pred, pl, try>>

\* allocle(): find the first entry of this processor that is not used, ...
allocleFind(t) ==
    /\ At(t, "alloc")
    /\ \E i \in 1 .. NEntries :
          /\ used[<<t[1], i>>] = Nil
          /\ \A j \in 1 .. i - 1 : used[<<t[1], j>>] # Nil
          /\ ql' = [ql EXCEPT ![t] = <<t[1], i>>]
    /\ Goto(t, "claim")
    /\ UNCHANGED <<head, e, used, next, locked, hi, lk, pred, pl, try>>

\* ... then claim it.  A handler that ran in between took and freed it.
allocleClaim(t) ==
    /\ At(t, "claim")
    /\ used' = [used EXCEPT ![ql[t]] = lk[t]]
    /\ Goto(t, IF try[t] THEN "cas" ELSE "swap")
    /\ UNCHANGED <<head, e, next, locked, hi, lk, ql, pred, pl, try>>

\* mcslock(): clear the entry and put it at the end of the line with fasp().
mcslockSwap(t) ==
    /\ At(t, "swap")
    /\ next' = [next EXCEPT ![ql[t]] = Nil]
    /\ locked' = [locked EXCEPT ![ql[t]] = FALSE]
    /\ pred' = [pred EXCEPT ![t] = head[lk[t]]]
    /\ head' = [head EXCEPT ![lk[t]] = ql[t]]
    /\ Goto(t, IF head[lk[t]] = Nil THEN "own" ELSE "flag")
    /\ UNCHANGED <<e, used, hi, lk, ql, pl, try>>

\* Mutant: ql->locked = 1 is forgotten.
mcslockFlag_none(t) ==
    /\ At(t, "flag")
    /\ Goto(t, "link")
    /\ UNCHANGED <<head, e, used, next, locked, hi, lk, ql, pred, pl, try>>

mcslockFlag(t) ==
    /\ At(t, "flag")
    /\ locked' = [locked EXCEPT ![ql[t]] = TRUE]
    /\ Goto(t, "link")
    /\ UNCHANGED <<head, e, used, next, hi, lk, ql, pred, pl, try>>

mcslockLink(t) ==
    /\ At(t, "link")
    /\ next' = [next EXCEPT ![pred[t]] = ql[t]]
    /\ Goto(t, "spin")
    /\ UNCHANGED <<head, e, used, locked, hi, lk, ql, pred, pl, try>>

mcslockSpin(t) ==
    /\ At(t, "spin")
    /\ ~locked[ql[t]]
    /\ Goto(t, "own")
    /\ UNCHANGED <<head, e, used, next, locked, hi, lk, ql, pred, pl, try>>

\* mcscanlock() succeeds: the lock was free.
mcscanlock(t) ==
    /\ At(t, "cas")
    /\ head[lk[t]] = Nil
    /\ next' = [next EXCEPT ![ql[t]] = Nil]
    /\ locked' = [locked EXCEPT ![ql[t]] = FALSE]
    /\ head' = [head EXCEPT ![lk[t]] = ql[t]]
    /\ Goto(t, "own")
    /\ UNCHANGED <<e, used, hi, lk, ql, pred, pl, try>>

canlockFail(t) ==
    /\ At(t, "cas")
    /\ head[lk[t]] # Nil
    /\ next' = [next EXCEPT ![ql[t]] = Nil]
    /\ locked' = [locked EXCEPT ![ql[t]] = FALSE]
    /\ used' = [used EXCEPT ![ql[t]] = Nil]
    /\ pl' = [pl EXCEPT ![t] = SubSeq(@, 1, Len(@) - 1)]
    /\ lk' = [lk EXCEPT ![t] = Nil]
    /\ ql' = [ql EXCEPT ![t] = Nil]
    /\ Goto(t, "run")
    /\ UNCHANGED <<head, e, hi, pred, try>>

\* l->e = ql, and the call returns.
LockReturn(t) ==
    /\ At(t, "own")
    /\ e' = [e EXCEPT ![lk[t]] = ql[t]]
    /\ lk' = [lk EXCEPT ![t] = Nil]
    /\ ql' = [ql EXCEPT ![t] = Nil]
    /\ pred' = [pred EXCEPT ![t] = Nil]
    /\ Goto(t, "run")
    /\ UNCHANGED <<head, used, next, locked, hi, pl, try>>

----------------------------------------------------------------------------
(* unlock() and iunlock() of the innermost lock held.                      *)

\* findle(): the owner's entry.
UnlockCall(t) ==
    /\ At(t, "run") /\ pl[t] # << >>
    /\ LET l == pl[t][Len(pl[t])].l IN
       /\ lk' = [lk EXCEPT ![t] = l]
       /\ ql' = [ql EXCEPT ![t] = e[l]]
    /\ Goto(t, "unlock")
    /\ UNCHANGED <<head, e, used, next, locked, hi, pred, pl, try>>

mcsunlockNext(t) ==
    /\ At(t, "unlock")
    /\ Goto(t, IF next[ql[t]] # Nil THEN "grant" ELSE "uncas")
    /\ UNCHANGED <<head, e, used, next, locked, hi, lk, ql, pred, pl, try>>

\* Mutant: mcsunlock() does not wait for its successor to link itself.
mcsunlockCas_nowait(t) ==
    /\ At(t, "uncas")
    /\ Goto(t, "free")
    /\ head' = [head EXCEPT ![lk[t]] = IF @ = ql[t] THEN Nil ELSE @]
    /\ UNCHANGED <<e, used, next, locked, hi, lk, ql, pred, pl, try>>

mcsunlockCas(t) ==
    /\ At(t, "uncas")
    /\ \/ /\ head[lk[t]] = ql[t]
          /\ head' = [head EXCEPT ![lk[t]] = Nil]
          /\ Goto(t, "free")
       \/ /\ head[lk[t]] # ql[t]
          /\ Goto(t, "catchup")
          /\ UNCHANGED head
    /\ UNCHANGED <<e, used, next, locked, hi, lk, ql, pred, pl, try>>

mcsunlockCatchup(t) ==
    /\ At(t, "catchup")
    /\ next[ql[t]] # Nil
    /\ Goto(t, "grant")
    /\ UNCHANGED <<head, e, used, next, locked, hi, lk, ql, pred, pl, try>>

mcsunlockGrant(t) ==
    /\ At(t, "grant")
    /\ locked' = [locked EXCEPT ![next[ql[t]]] = FALSE]
    /\ Goto(t, "free")
    /\ UNCHANGED <<head, e, used, next, hi, lk, ql, pred, pl, try>>

\* The entry is free again and iunlock() restores the interrupt level.
UnlockReturn(t) ==
    /\ At(t, "free")
    /\ used' = [used EXCEPT ![ql[t]] = Nil]
    /\ LET top == pl[t][Len(pl[t])] IN
       hi' = [hi EXCEPT ![t[1]] = IF top.l \in Ilocks THEN top.hi ELSE @]
    /\ pl' = [pl EXCEPT ![t] = SubSeq(@, 1, Len(@) - 1)]
    /\ lk' = [lk EXCEPT ![t] = Nil]
    /\ ql' = [ql EXCEPT ![t] = Nil]
    /\ Goto(t, "run")
    /\ UNCHANGED <<head, e, next, locked, pred, try>>

----------------------------------------------------------------------------
\* The steps of a call once it is made, and the releasing of locks.
Step(t) ==
    \/ allocleFind(t) \/ allocleClaim(t)
    \/ mcslockSwap(t) \/ mcslockFlag(t) \/ mcslockLink(t) \/ mcslockSpin(t)
    \/ mcscanlock(t) \/ canlockFail(t) \/ LockReturn(t)
    \/ mcsunlockNext(t) \/ mcsunlockCas(t) \/ mcsunlockCatchup(t)
    \/ mcsunlockGrant(t) \/ UnlockReturn(t)

Next ==
    \/ \E c \in Cpus : Interrupt(c) \/ InterruptReturn(c)
    \/ \E t \in Threads :
          \/ \E l \in Locks, can \in BOOLEAN : LockCall(t, l, can)
          \/ UnlockCall(t)
          \/ Step(t)

Spec == Init /\ [][Next]_vars

----------------------------------------------------------------------------
(* Properties.                                                             *)

Owns(t, l) ==
    \/ Holds(t, l) /\ lk[t] # l
    \/ lk[t] = l /\ pc[t] \in {"own", "unlock", "uncas", "catchup", "grant"}

\* One owner per lock, counting an owner until it has passed the lock on.
Mutex == \A t, u \in Threads, l \in Locks : Owns(t, l) /\ Owns(u, l) => t = u

\* How many locks the threads of processor c hold or are about to.
Depth(c) == Len(pl[<<c, "base">>]) + Len(pl[<<c, "intr">>])

\* The entries in use: every held or awaited lock has one of its own, though
\* allocle() is not atomic and handlers use the same table.  In particular
\* panic("findle") is not reached: l->e is the entry of the owner's lock; and
\* panic("allocle: need more m->locks") is reached only by a processor that
\* nests more locks than the table has entries: no entry is lost.
EntriesOK ==
    /\ \A t \in Threads : pc[t] \notin {"off", "run", "alloc", "claim"} =>
          used[ql[t]] = lk[t] /\ ql[t][1] = t[1]
    /\ \A t, u \in Threads : t # u /\ pc[t] \notin {"off", "run", "alloc", "claim"} =>
          pc[u] \in {"claim"} \/ ql[t] # ql[u]
    /\ \A t \in Threads, l \in Locks : Holds(t, l) /\ lk[t] # l => used[e[l]] = l
    /\ \A t \in Threads : At(t, "alloc") /\ Depth(t[1]) <= NEntries =>
          \E i \in 1 .. NEntries : used[<<t[1], i>>] = Nil

Waits(t) == pc[t] \in {"flag", "link"} \/ (pc[t] = "spin" /\ locked[ql[t]])

\* Nobody spins on a lock that is not going to be handed on: the entry ahead
\* of a waiter is still in use, by a thread that waits for the same lock or
\* owns it and has not passed it on, and is ahead of nobody else.
HandedOn ==
    \A t \in Threads : Waits(t) =>
        /\ used[pred[t]] = lk[t]
        /\ \E u \in Threads \ {t} :
              \/ pc[u] \in {"flag", "link", "spin"} /\ lk[u] = lk[t] /\ ql[u] = pred[t]
              \/ Owns(u, lk[t]) /\ pred[t] = (IF lk[u] = lk[t] THEN ql[u] ELSE e[lk[t]])
        /\ \A u \in Threads \ {t} : Waits(u) => pred[u] # pred[t]
============================================================================
