-------------------------------- MODULE Mnt --------------------------------
(***************************************************************************)
(* The mount driver's remote procedure calls: mountrpc(), mountio() and    *)
(* what they call in port/devmnt.c.                                        *)
(*                                                                         *)
(* Several processes share one connection to a 9P server.  Each queues its *)
(* request, writes it, and then either becomes the one reader of the       *)
(* connection (mnt->rip) or sleeps until its reply has come or the place   *)
(* of the reader is free.  A note that interrupts a process makes it send  *)
(* a Tflush and wait for that instead, with the old request chained to it. *)
(* A header (Mntrpc) owns its tag, so headers are named by their tags here *)
(* and a header that is used again sends its old tag again.                *)
(*                                                                         *)
(* sleep() and wakeup() are used as SleepWakeup shows them to behave.      *)
(***************************************************************************)
EXTENDS Naturals, Sequences, FiniteSets, SequencesExt

CONSTANTS
    Proc,      \* the processes
    NTag,      \* tags, and so headers, there are
    MaxFree,   \* headers kept on mntalloc.rpcfree (16 in the code)
    Notable,   \* the processes that are sent notes
    MaxFlush,  \* bound on the flushes one call sends
    Nil        \* the C nil

Tag == 1 .. NTag

ASSUME MntAssumption ==
    /\ NTag \in Nat /\ MaxFree \in Nat /\ MaxFlush \in Nat
    /\ NTag >= Cardinality(Proc) + Cardinality(Notable) * MaxFlush
    /\ Notable \subseteq Proc
    /\ Nil \notin Proc \union Tag

VARIABLES
    queue,    \* mnt->queue, the requests that have no reply yet
    rip,      \* mnt->rip, the process that reads the connection
    mlock,    \* the holder of lock(mnt), where it is held across a step
    rpcfree,  \* mntalloc.rpcfree
    tagmask,  \* the tags in use, mntalloc.tagmask
    done, flushed, reply, oldtag,  \* the fields of the headers
    cur,      \* the local r of mountio()
    woken,    \* mountmux()'s q, which it still has to wake up
    hard,     \* the call ends with an error other than Eintr
    noted,    \* up->notepending
    pc,       \* where each process is
    nflush,   \* flushes the call has sent, for the bound
    conn,     \* whether the connection is up
    srv,      \* the messages the server has not answered
    wire,     \* the replies on their way back
    executed  \* headers whose present request the server has answered

heads == <<done, flushed, reply, oldtag>>
alloc == <<rpcfree, tagmask>>
server == <<srv, wire, executed>>
vars == <<queue, rip, mlock, alloc, heads, cur, woken, hard, noted, pc, nflush,
          conn, server>>

Pcs == {"idle", "enqueue", "write", "gate", "sleep", "asleep", "back", "read",
        "wakeup", "flushfree", "qrm", "return"}

Goto(p, l) == pc' = [pc EXCEPT ![p] = l]

(***************************************************************************)
(* Messages.  A message is live as long as the header it was sent from has *)
(* not been freed; a reply to one that is not live is stale.  nth tells    *)
(* the messages of one call in their order, of which the server has to     *)
(* know; between the requests of different calls it matters to nobody.     *)
(***************************************************************************)
Request(p) == [tag |-> cur[p], old |-> oldtag[cur[p]], nth |-> nflush[p],
               live |-> TRUE]
Reply(m) == [tag |-> m.tag, type |-> IF m.old = Nil THEN "R" ELSE "Rflush",
             live |-> m.live]

Retired(m, t) == IF m.tag = t THEN [m EXCEPT !.live = FALSE] ELSE m

\* The queue without the request of header t.
Unlink(s, t) ==
    IF t \in ToSet(s) THEN RemoveAt(s, CHOOSE i \in 1 .. Len(s) : s[i] = t) ELSE s

Init ==
    /\ queue = << >> /\ rip = Nil /\ mlock = Nil
    /\ rpcfree = << >> /\ tagmask = {}
    /\ done = [t \in Tag |-> FALSE] /\ flushed = [t \in Tag |-> Nil]
    /\ reply = [t \in Tag |-> "Tmax"] /\ oldtag = [t \in Tag |-> Nil]
    /\ cur = [p \in Proc |-> Nil] /\ woken = [p \in Proc |-> Nil]
    /\ hard = [p \in Proc |-> FALSE] /\ noted = [p \in Proc |-> FALSE]
    /\ pc = [p \in Proc |-> "idle"] /\ nflush = [p \in Proc |-> 0]
    /\ conn = "up" /\ srv = {} /\ wire = << >> /\ executed = {}

(***************************************************************************)
(* Headers and their tags.                                                 *)
(***************************************************************************)

\* alloctag(): the lowest tag that is not in use.
alloctag == CHOOSE t \in Tag \ tagmask : \A u \in Tag \ tagmask : t <= u

\* The header mntralloc() returns.
NewHeader == IF rpcfree # << >> THEN Head(rpcfree) ELSE alloctag

\* mntralloc() for a request of process p that flushes the header f, or none.
mntralloc(p, f) ==
    LET t == NewHeader
    IN  /\ rpcfree # << >> \/ tagmask # Tag
        /\ rpcfree' = IF rpcfree # << >> THEN Tail(rpcfree) ELSE rpcfree
        /\ tagmask' = tagmask \union {t}
        /\ flushed' = [flushed EXCEPT ![t] = f]
        /\ oldtag' = [oldtag EXCEPT ![t] =
                        IF f = Nil THEN Nil
                        ELSE IF oldtag[f] # Nil THEN oldtag[f] ELSE f]
        /\ cur' = [cur EXCEPT ![p] = t]
        /\ UNCHANGED <<done, reply, executed>>

\* mntfree(): the header is kept, or its tag is given back.  What mntralloc()
\* and mountrpc() reset when the header is used again is reset here.
mntfree(t) ==
    /\ IF Len(rpcfree) >= MaxFree
       THEN tagmask' = tagmask \ {t} /\ UNCHANGED rpcfree
       ELSE rpcfree' = <<t>> \o rpcfree /\ UNCHANGED tagmask
    /\ done' = [done EXCEPT ![t] = FALSE]
    /\ flushed' = [flushed EXCEPT ![t] = Nil]
    /\ reply' = [reply EXCEPT ![t] = "Tmax"]
    /\ oldtag' = [oldtag EXCEPT ![t] = Nil]
    /\ srv' = {Retired(m, t) : m \in srv}
    /\ wire' = [i \in DOMAIN wire |-> Retired(wire[i], t)]
    /\ executed' = executed \ {t}

(***************************************************************************)
(* Sleeping and waking on the Rendez of a header.                          *)
(***************************************************************************)
Sleepers(t) == {p \in Proc : pc[p] = "asleep" /\ cur[p] = t}

rpcattn(t) == done[t] \/ rip = Nil

\* Mutant: only the first unanswered request of the queue is tried.
mntgate_first(p, l) ==
    LET un == {i \in DOMAIN queue : ~done[queue[i]]}
        first == {i \in un : \A j \in un : i <= j}
        w == UNION {Sleepers(queue[i]) : i \in first}
    IN  /\ mlock = Nil
        /\ rip' = Nil
        /\ pc' = [q \in Proc |-> IF q = p THEN l
                                 ELSE IF q \in w THEN "back" ELSE pc[q]]

\* mntgate(): the reader leaves and the first sleeper of the queue is woken.
\* p goes on at label l.
mntgate(p, l) ==
    LET up == {i \in DOMAIN queue : ~done[queue[i]] /\ Sleepers(queue[i]) # {}}
        first == {i \in up : \A j \in up : i <= j}
        w == UNION {Sleepers(queue[i]) : i \in first}
    IN  /\ mlock = Nil
        /\ rip' = Nil
        /\ pc' = [q \in Proc |-> IF q = p THEN l
                                 ELSE IF q \in w THEN "back" ELSE pc[q]]

(***************************************************************************)
(* A call.                                                                 *)
(***************************************************************************)

\* An operation of the device allocates its header and calls mountrpc().
Start(p) ==
    /\ pc[p] = "idle"
    /\ mntralloc(p, Nil)
    /\ Goto(p, "enqueue")
    /\ UNCHANGED <<queue, rip, mlock, woken, hard, noted, nflush, conn, srv,
                   wire>>

Enqueue(p) ==
    /\ pc[p] = "enqueue" /\ mlock = Nil
    /\ queue' = <<cur[p]>> \o queue
    /\ Goto(p, "write")
    /\ UNCHANGED <<rip, mlock, alloc, heads, cur, woken, hard, noted, nflush,
                   conn, server>>

Send(p) == srv' = srv \union {Request(p)}

\* The request is written to the connection.
Write(p) ==
    /\ pc[p] = "write" /\ conn = "up"
    /\ Send(p)
    /\ Goto(p, "gate")
    /\ UNCHANGED <<queue, rip, mlock, alloc, heads, cur, woken, hard, noted,
                   nflush, conn, wire, executed>>

\* Mutant: a note ends the call at once.
Interrupted_noflush(p) ==
    /\ noted' = [noted EXCEPT ![p] = FALSE]
    /\ IF rip = p THEN mntgate(p, "flushfree")
                  ELSE Goto(p, "flushfree") /\ UNCHANGED rip
    /\ UNCHANGED <<queue, mlock, alloc, heads, cur, woken, hard, nflush, conn,
                   executed>>

\* Eintr in mountio(): leave the place of the reader, and flush.
Interrupted(p) ==
    /\ noted' = [noted EXCEPT ![p] = FALSE]
    /\ mntralloc(p, cur[p])
    /\ nflush' = [nflush EXCEPT ![p] = @ + 1]
    /\ IF rip = p THEN mntgate(p, "enqueue")
                  ELSE Goto(p, "enqueue") /\ UNCHANGED rip
    /\ UNCHANGED <<queue, mlock, woken, hard, conn>>

\* A note interrupts the write, before or after the request has been sent.
WriteIntr(p) ==
    /\ pc[p] = "write" /\ noted[p]
    /\ Interrupted(p)
    /\ \/ conn = "up" /\ Send(p)
       \/ UNCHANGED srv
    /\ UNCHANGED wire

\* Any other error in mountio(): give up the requests, without a flush.
Failed(p) ==
    /\ hard' = [hard EXCEPT ![p] = TRUE]
    /\ IF rip = p THEN mntgate(p, "flushfree")
                  ELSE Goto(p, "flushfree") /\ UNCHANGED rip
    /\ UNCHANGED <<queue, mlock, alloc, heads, cur, woken, noted, nflush, conn,
                   server>>

WriteFails(p) == pc[p] = "write" /\ conn = "down" /\ Failed(p)

\* The gate: one reader at a time.
Gate(p) ==
    /\ pc[p] = "gate" /\ mlock = Nil
    /\ IF rip = Nil THEN rip' = p /\ Goto(p, "read")
                    ELSE Goto(p, "sleep") /\ UNCHANGED rip
    /\ UNCHANGED <<queue, mlock, alloc, heads, cur, woken, hard, noted, nflush,
                   conn, server>>

\* After sleep(): leave with the reply, or try the gate again.
Awake(p) ==
    /\ Goto(p, IF done[cur[p]] THEN "flushfree" ELSE "gate")
    /\ UNCHANGED <<queue, rip, mlock, alloc, heads, cur, woken, hard, noted,
                   nflush, conn, server>>

SleepIntr(p) ==
    /\ noted[p]
    /\ Interrupted(p)
    /\ UNCHANGED <<srv, wire>>

Sleep(p) ==
    /\ pc[p] = "sleep"
    /\ \/ SleepIntr(p)
       \/ ~noted[p] /\ rpcattn(cur[p]) /\ Awake(p)
       \/ /\ ~noted[p] /\ ~rpcattn(cur[p])
          /\ Goto(p, "asleep")
          /\ UNCHANGED <<queue, rip, mlock, alloc, heads, cur, woken, hard,
                         noted, nflush, conn, server>>

Back(p) ==
    /\ pc[p] = "back"
    /\ \/ SleepIntr(p)
       \/ ~noted[p] /\ Awake(p)

(***************************************************************************)
(* The reader.  mntrpcread() fills in the reader's own header, which no    *)
(* one else looks at, so taking the message off the connection and         *)
(* mountmux()'s search are one step; the wakeup is one of its own, for the *)
(* owner of a request that is marked done need not wait for it.            *)
(***************************************************************************)
Reading(p) == pc[p] = "read" /\ ~done[cur[p]]

mountmux(p) ==
    LET m == Head(wire)
        q == m.tag
        known == q \in ToSet(queue)
    IN  /\ Reading(p) /\ wire # << >> /\ mlock = Nil
        /\ wire' = Tail(wire)
        /\ queue' = Unlink(queue, q)
        /\ reply' = IF known THEN [reply EXCEPT ![q] = IF m.live THEN m.type
                                                       ELSE "stale"]
                             ELSE reply
        /\ done' = IF known THEN [done EXCEPT ![q] = TRUE] ELSE done
        /\ IF known /\ q # cur[p]
           THEN /\ woken' = [woken EXCEPT ![p] = q]
                /\ mlock' = p /\ Goto(p, "wakeup")
           ELSE UNCHANGED <<woken, mlock, pc>>
        /\ UNCHANGED <<rip, alloc, flushed, oldtag, cur, hard, noted, nflush,
                       conn, srv, executed>>

\* Mutant: the owner is not woken.
MuxWakeup_none(p) ==
    /\ pc[p] = "wakeup"
    /\ Goto(p, "read")
    /\ woken' = [woken EXCEPT ![p] = Nil]
    /\ mlock' = Nil
    /\ UNCHANGED <<queue, rip, alloc, heads, cur, hard, noted, nflush, conn,
                   server>>

\* The wakeup() at the end of mountmux(), still under lock(mnt).  The header
\* may have been freed, and used again, by now.
MuxWakeup(p) ==
    /\ pc[p] = "wakeup"
    /\ pc' = [q \in Proc |-> IF q = p THEN "read"
                             ELSE IF q \in Sleepers(woken[p]) THEN "back"
                             ELSE pc[q]]
    /\ woken' = [woken EXCEPT ![p] = Nil]
    /\ mlock' = Nil
    /\ UNCHANGED <<queue, rip, alloc, heads, cur, hard, noted, nflush, conn,
                   server>>

\* The connection has been hung up and everything on it was read.
ReadFails(p) == Reading(p) /\ conn = "down" /\ wire = << >> /\ Failed(p)

\* A note interrupts the read.
ReadIntr(p) ==
    /\ Reading(p) /\ wire = << >> /\ noted[p]
    /\ Interrupted(p)
    /\ UNCHANGED <<srv, wire>>

\* The reader has its own reply and passes the place on.
ReadDone(p) ==
    /\ pc[p] = "read" /\ done[cur[p]]
    /\ mntgate(p, "flushfree")
    /\ UNCHANGED <<queue, mlock, alloc, heads, cur, woken, hard, noted, nflush,
                   conn, server>>

(***************************************************************************)
(* mntflushfree(): every request of the chain that has no reply is marked  *)
(* as flushed and leaves the queue, and every flush is freed.              *)
(***************************************************************************)
NextInChain(p) ==
    LET t == cur[p]
    IN  IF flushed[t] = Nil
        THEN /\ Goto(p, "return")
             /\ done' = [done EXCEPT ![t] = TRUE]
             /\ UNCHANGED <<alloc, flushed, reply, oldtag, server, cur>>
        ELSE /\ mntfree(t)
             /\ cur' = [cur EXCEPT ![p] = flushed[t]]
             /\ Goto(p, "flushfree")

FlushFree(p) ==
    /\ pc[p] = "flushfree"
    /\ IF done[cur[p]]
       THEN NextInChain(p)
       ELSE /\ reply' = [reply EXCEPT ![cur[p]] = "Rflush"]
            /\ Goto(p, "qrm")
            /\ UNCHANGED <<alloc, done, flushed, oldtag, server, cur>>
    /\ UNCHANGED <<queue, rip, mlock, woken, hard, noted, nflush, conn>>

mntqrm(p) ==
    /\ pc[p] = "qrm" /\ mlock = Nil
    /\ queue' = Unlink(queue, cur[p])
    /\ NextInChain(p)
    /\ UNCHANGED <<rip, mlock, woken, hard, noted, nflush, conn>>

\* mountrpc() looks at the reply, and the caller frees the header.
Return(p) ==
    /\ pc[p] = "return"
    /\ mntfree(cur[p])
    /\ cur' = [cur EXCEPT ![p] = Nil]
    /\ hard' = [hard EXCEPT ![p] = FALSE]
    /\ noted' = [noted EXCEPT ![p] = FALSE]
    /\ nflush' = [nflush EXCEPT ![p] = 0]
    /\ Goto(p, "idle")
    /\ UNCHANGED <<queue, rip, mlock, woken, conn>>

(***************************************************************************)
(* Notes, and the other end of the connection (external): a 9P server      *)
(* answers requests in any order, and a Tflush only when it is done with   *)
(* the request and with all earlier flushes of it.                         *)
(***************************************************************************)
Note(p) ==
    /\ p \in Notable /\ pc[p] # "idle" /\ ~noted[p] /\ nflush[p] < MaxFlush
    /\ noted' = [noted EXCEPT ![p] = TRUE]
    /\ pc' = [pc EXCEPT ![p] = IF @ = "asleep" THEN "back" ELSE @]
    /\ UNCHANGED <<queue, rip, mlock, alloc, heads, cur, woken, hard, nflush,
                   conn, server>>

Answer(m) ==
    LET related(x) == m.old # Nil /\ m.old \in {x.tag, x.old} /\ x.nth < m.nth
    IN  /\ srv' = {x \in srv : x # m /\ ~related(x)}
        /\ wire' = Append(wire, Reply(m))
        /\ executed' = IF m.live /\ m.old = Nil THEN executed \union {m.tag} ELSE executed
        /\ UNCHANGED <<queue, rip, mlock, alloc, heads, cur, woken, hard, noted,
                       pc, nflush, conn>>

\* The connection breaks; replies on their way may be lost.
Hangup ==
    /\ conn = "up"
    /\ conn' = "down" /\ srv' = {}
    /\ \E n \in 0 .. Len(wire) : wire' = SubSeq(wire, 1, n)
    /\ UNCHANGED <<queue, rip, mlock, alloc, heads, cur, woken, hard, noted, pc,
                   nflush, executed>>

Step(p) ==
    \/ Enqueue(p) \/ Write(p) \/ WriteIntr(p) \/ WriteFails(p) \/ Gate(p)
    \/ Sleep(p) \/ Back(p) \/ mountmux(p) \/ MuxWakeup(p) \/ ReadFails(p)
    \/ ReadIntr(p) \/ ReadDone(p) \/ FlushFree(p) \/ mntqrm(p) \/ Return(p)

Locking(p) == Enqueue(p) \/ Gate(p) \/ mntqrm(p)

Next ==
    \/ \E p \in Proc : Start(p) \/ Step(p) \/ Note(p)
    \/ \E m \in srv : Answer(m)
    \/ Hangup

Spec == Init /\ [][Next]_vars

\* Every process is scheduled, a process that tries gets lock(mnt), as Mcslock
\* shows, and the server answers every request.
FairSpec ==
    /\ Spec
    /\ \A p \in Proc : WF_vars(Step(p)) /\ SF_vars(Locking(p))
    /\ \A t \in Tag : WF_vars(\E m \in srv : m.tag = t /\ Answer(m))

-----------------------------------------------------------------------------
\* The headers of a call: the request, and the flushes chained to it.
Chain(p) ==
    LET older(S) == (S \union {flushed[t] : t \in S}) \ {Nil}
    IN  IF cur[p] = Nil THEN {} ELSE older(older(older({cur[p]})))

(***************************************************************************)
(* A call that returns without a connection error returns the reply to its *)
(* own request, or was flushed: no late reply to an earlier use of its tag *)
(* is taken for it, although mntfree() gives tags back at once and a       *)
(* failing call frees a tag the server may still answer.  It reports Eintr *)
(* only if the server has not carried the request out, and a reply that    *)
(* crossed the flush is not lost: mntflushfree() leaves the reply of a     *)
(* request that is done.                                                   *)
(***************************************************************************)
OwnReply ==
    \A p \in Proc : pc[p] = "return" /\ ~hard[p] =>
        /\ reply[cur[p]] \in {"R", "Rflush"}
        /\ reply[cur[p]] = "R" <=> cur[p] \in executed

(***************************************************************************)
(* While the connection is up the place of the reader is not left free     *)
(* with everyone asleep: mntgate() finds a sleeper if there is one, also   *)
(* behind requests whose owners are gone from their Rendez.  (Once the     *)
(* connection is down this can happen; see the README.)                    *)
(***************************************************************************)
NoneStranded ==
    conn = "up" /\ rip = Nil /\ (\E p \in Proc : pc[p] = "asleep") =>
        \E p \in Proc : pc[p] \notin {"idle", "asleep"}

(***************************************************************************)
(* Every call returns, unless the connection is hung up.                   *)
(***************************************************************************)
RpcReturns ==
    \A p \in Proc : pc[p] = "enqueue" ~> (pc[p] = "idle" \/ conn = "down")
=============================================================================
