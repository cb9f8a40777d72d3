--------------------------------- MODULE Il ---------------------------------
(***************************************************************************)
(* IL, the reliable datagram protocol of ip/il.c, between a machine that   *)
(* calls and a machine that listens.                                       *)
(*                                                                         *)
(* A conversation is made by a three way exchange of start ids.  Messages  *)
(* are numbered from there, kept by the sender until they are acknowledged *)
(* and by the receiver until the ones before them have come.  Nothing is   *)
(* sent again blindly: when an answer is late the sender asks (Ilquery)    *)
(* and sends the oldest unacknowledged message again (Ildataquery) if the  *)
(* answer (Ilstate) shows that it is missing.  An end that has asked too   *)
(* often hangs up.                                                         *)
(*                                                                         *)
(* Packets may be lost, duplicated, delayed and overtaken, and packets of  *)
(* an earlier conversation between the same two ports may still be under   *)
(* way.  ilprocess() runs with the conversation locked; ilackproc(), the   *)
(* process that watches the timeouts, does not lock it, so what it saw may *)
(* be out of date when it acts.                                            *)
(***************************************************************************)
EXTENDS Integers, Sequences, FiniteSets

CONSTANTS
    Cstart,     \* the caller's start id
    Sstart,     \* the start ids of the conversations the listener makes
    OldC, OldS, \* the start ids of an earlier conversation of these ports
    Window,     \* receive window, Defaultwin
    MaxRexmit,  \* repetitions before an end hangs up
    FastTries,  \* repetitions left to a call with !fasttimeout
    Nqt,        \* queries told apart
    NetMax,     \* bound on the packets under way at once
    Plans       \* what the processes and the network may do (see plan)

\* Ids are drawn at random from 2^24 in the code: here they are far enough
\* apart for no two conversations to use the same one.
ASSUME IlAssumption ==
    /\ {Cstart, OldC, OldS} \subseteq Nat \ {0}
    /\ \A i \in 1..Len(Sstart) : Sstart[i] \in Nat \ {0, Cstart, OldC, OldS}
    /\ \A i, j \in 1..Len(Sstart) : i # j => Sstart[i] # Sstart[j]
    /\ Cstart \notin {OldC, OldS}
    /\ {Window, Nqt} \subseteq Nat \ {0}
    /\ {MaxRexmit, FastTries, NetMax} \subseteq Nat
    /\ FastTries <= MaxRexmit

VARIABLES
    cb,      \* the control block (Ilcb) at either end
    held,    \* whether a process still has the conversation open
    seen,    \* states ilackproc() may have read and not acted on yet
    call,    \* how many calls the listener has heard
    plan,    \* bounds on a behaviour: whether the port is announced (listens),
             \* calls it hears (calls), messages an end writes (writes), ends
             \* whose process closes (closers) or that stay idle for QueryTime
             \* (idlers), types of which one packet is left from an
             \* earlier conversation (old)
    net,     \* the packets under way
    mate, wrote, got  \* per conversation: peer, messages written, messages read

history == <<mate, wrote, got>>
vars == <<cb, held, seen, call, plan, net, mate, wrote, got>>

End == {"caller", "server"}
Peer(e) == IF e = "caller" THEN "server" ELSE "caller"

\* Conversations: 0 is the caller's, k is that of the k-th call heard.
Calls == 1 .. Len(Sstart)
Convs == 0 .. Len(Sstart)
None == -1
Conv(e) == IF e = "caller" THEN 0 ELSE call
StartOf(k) == IF k = 0 THEN Cstart ELSE Sstart[k]
ConvOf(id) == IF \E k \in Convs : StartOf(k) = id
              THEN CHOOSE k \in Convs : StartOf(k) = id ELSE None

Packet(type, id, ack, spec, data) ==
    [type |-> type, id |-> id, ack |-> ack, spec |-> spec, data |-> data]

\* Packets of the conversation these two ports had before (external): the start
\* ids, a message each way and its acknowledgement, and the close.
Stale ==
    LET between(to, id, ack) ==
            {[to |-> to, p |-> Packet(type, id, ack, 0, 0)] :
                type \in {"ack", "query", "state", "close"}}
            \cup {[to |-> to, p |-> Packet(type, id, ack, 0, 99)] :
                type \in {"data", "dataquery"}}
    IN  {[to |-> "server", p |-> Packet("sync", OldC, 0, 0, 0)],
         [to |-> "caller", p |-> Packet("sync", OldS, OldC, 0, 0)]}
        \cup between("server", OldC + 1, OldS + 1)
        \cup between("caller", OldS + 1, OldC + 1)

\* ilcbinit().  The code leaves qt alone: an entry is set before it is asked for.
ilcbinit(start) ==
    [state |-> "closed", start |-> start, next |-> start + 1, recvd |-> 0,
     rstart |-> 0, unacked |-> << >>, outoforder |-> {},
     rexmit |-> 0, qtx |-> 1, qt |-> [i \in 0..Nqt |-> 0]]

\* The result of a handler: the control block, what was sent, what was passed up.
Result(c, out, in) == [c |-> c, out |-> out, in |-> in]
Only(c) == Result(c, {}, << >>)

ilsendctl(c, type, id, ack, spec) ==
    Result(c, {Packet(type, id, ack, spec, 0)}, << >>)

\* illocalclose() and what hangs up: nothing reads the rest of a closed
\* control block before ilcbinit() sets it again.
ilhangup(c) == [ilcbinit(c.start) EXCEPT !.rstart = c.rstart]

ilfreeq(c) == [c EXCEPT !.unacked = << >>, !.outoforder = {}]

\* Counted no further than its one use, rexmit > MaxRexmit, can tell.
ilbackoff(c) == [c EXCEPT !.rexmit = IF @ > MaxRexmit THEN @ ELSE @ + 1]

\* Mutant: the acknowledgement is taken for the next id that is expected.
IlacktoNext(c, ackto) ==
    LET rest == SelectSeq(c.unacked, LAMBDA b : ackto + 1 < b.id) IN
    IF rest = c.unacked THEN c
    ELSE [c EXCEPT !.unacked = rest, !.rexmit = 0]

ilackto(c, ackto) ==
    LET rest == SelectSeq(c.unacked, LAMBDA b : ackto < b.id) IN
    IF rest = c.unacked THEN c
    ELSE [c EXCEPT !.unacked = rest, !.rexmit = 0]

\* The index the next query carries, and the table with what was sent by then.
ilnextqt(c) ==
    LET x == IF c.qtx + 1 > Nqt THEN 1 ELSE c.qtx + 1 IN
    [c EXCEPT !.qtx = x, !.qt = [@ EXCEPT ![x] = c.next - 1, ![0] = c.next - 1]]

\* The list is sorted by id and holds an id once, so it is kept as a set.
iloutoforder(c, m) ==
    IF \/ m.id <= c.recvd \/ m.id > c.recvd + Window
       \/ \E b \in c.outoforder : b.id = m.id
    THEN c
    ELSE [c EXCEPT !.outoforder = @ \cup {[id |-> m.id, data |-> m.data]}]

\* What ilpullup() takes off the list: the run of ids that starts after recvd.
Run(c) ==
    LET ids == {b.id : b \in c.outoforder} IN
    CHOOSE n \in 0 .. Cardinality(ids) :
        /\ \A i \in 1..n : c.recvd + i \in ids
        /\ c.recvd + n + 1 \notin ids

\* Mutant: the first block of the list is passed up whatever its id is.
IlpullupGap(c) ==
    IF c.state # "established" \/ c.outoforder = {} THEN Only(c)
    ELSE LET b == CHOOSE b \in c.outoforder :
                      \A d \in c.outoforder : b.id <= d.id
         IN  Result([c EXCEPT !.recvd = b.id, !.outoforder = @ \ {b}],
                    {}, <<b.data>>)

ilpullup(c) ==
    IF c.state # "established" THEN Only(c)
    ELSE LET n == Run(c)
             at(i) == CHOOSE b \in c.outoforder : b.id = c.recvd + i
         IN  Result([c EXCEPT !.recvd = @ + n,
                              !.outoforder = {b \in @ : b.id > c.recvd + n}],
                    {}, [i \in 1..n |-> at(i).data])

\* ilrexmit(): the oldest unacknowledged message once more, as a query too.
ilrexmit(c) ==
    IF c.unacked = << >> THEN Only(c)
    ELSE LET b == Head(c.unacked)
             q == ilnextqt(c)
         IN  Result(ilbackoff(q),
                    {Packet("dataquery", b.id, c.recvd, q.qtx, b.data)}, << >>)

InSyncer(c, m) ==
    CASE m.type = "sync" /\ m.ack # c.start -> Only(ilhangup(c))
      [] m.type = "sync" /\ m.ack = c.start ->
            LET r == ilsendctl([c EXCEPT !.recvd = m.id, !.rstart = m.id],
                               "ack", c.next, m.id, 0)
                p == ilpullup([r.c EXCEPT !.state = "established", !.rexmit = 0])
            IN  Result(p.c, r.out, p.in)
      [] m.type = "close" /\ m.ack = c.start -> Only(ilhangup(c))
      [] OTHER -> Only(c)

\* Data that finds the reader's queue full is dropped: one more lost packet.
InEstablished(c, m) ==
    CASE m.type = "sync" /\ m.id # c.rstart -> Only(ilhangup(c))
      [] m.type = "sync" /\ m.id = c.rstart ->
            ilsendctl(c, "ack", c.next, c.rstart, 0)
      [] m.type = "data" -> ilpullup(iloutoforder(ilackto(c, m.ack), m))
      [] m.type = "dataquery" ->
            LET p == ilpullup(iloutoforder(ilackto(c, m.ack), m))
                r == ilsendctl(p.c, "state", p.c.next, p.c.recvd, m.spec)
            IN  Result(r.c, r.out, p.in)
      [] m.type = "ack" -> Only(ilackto(c, m.ack))
      [] m.type = "query" ->
            ilsendctl(ilackto(c, m.ack), "state", c.next, c.recvd, m.spec)
      [] m.type = "state" ->
            LET a == ilackto(c, m.ack) IN
            IF a.qt[m.spec] > m.ack THEN ilrexmit(a) ELSE Only(a)
      [] m.type = "close" ->
            IF m.ack < c.start \/ m.ack > c.next THEN Only(c)
            ELSE LET r == ilsendctl([c EXCEPT !.recvd = m.id],
                                    "close", c.next, m.id, 0)
                 IN  [r EXCEPT !.c = ilfreeq([r.c EXCEPT !.state = "closing"])]

\* Mutant: data completes a call whatever it acknowledges.
InSynceeAnyData(c, m) ==
    LET up == [c EXCEPT !.state = "established", !.rexmit = 0] IN
    CASE m.type = "sync" /\ m.id = c.rstart /\ m.ack = 0 ->
            ilsendctl([c EXCEPT !.recvd = m.id], "sync", c.start, m.id, 0)
      [] m.type = "ack" /\ m.ack = c.start -> ilpullup(up)
      [] m.type = "data" -> InEstablished(up, m)
      [] OTHER -> Only(c)

InSyncee(c, m) ==
    LET up == [c EXCEPT !.state = "established", !.rexmit = 0] IN
    CASE m.type = "sync" ->
            IF m.id # c.rstart \/ m.ack # 0
            THEN Only(ilhangup(c))                      \* illocalclose()
            ELSE ilsendctl([c EXCEPT !.recvd = m.id], "sync", c.start, m.id, 0)
      [] m.type = "ack" /\ m.ack = c.start -> ilpullup(up)
      [] m.type = "data" /\ m.ack = c.start -> InEstablished(up, m)
      [] m.type = "close" /\ m.ack = c.start -> Only(ilhangup(c))
      [] OTHER -> Only(c)

InClosing(c, m) ==
    IF m.type # "close" THEN Only(c)
    ELSE LET r == ilsendctl([c EXCEPT !.recvd = m.id], "close", c.next, m.id, 0)
         IN  IF m.ack = c.next THEN [r EXCEPT !.c = ilhangup(r.c)] ELSE r

ilprocess(c, m) ==
    CASE c.state = "syncer" -> InSyncer(c, m)
      [] c.state = "syncee" -> InSyncee(c, m)
      [] c.state = "established" -> InEstablished(c, m)
      [] c.state = "closing" -> InClosing(c, m)
      [] OTHER -> Only(c)

-----------------------------------------------------------------------------
\* Packets put on the network in place of `was'; those it cannot hold are lost.
Transmit(was, e, out) ==
    LET new == {[to |-> Peer(e), p |-> p] : p \in out} IN
    net' = IF Cardinality(was \cup new) <= NetMax THEN was \cup new ELSE was

\* A handler of end e ends with r, having taken `was' off the network.
Finish(e, k, r, was) ==
    /\ cb' = [cb EXCEPT ![e] = r.c]
    /\ got' = [got EXCEPT ![k] = @ \o r.in]
    /\ mate' = [mate EXCEPT ![k] = ConvOf(r.c.rstart)]
    /\ Transmit(was, e, r.out)

\* ilackproc() may have looked at the conversation before the handler did, also
\* at one that was closed since and is now used for another call.
Changed(e) ==
    seen' = [seen EXCEPT ![e] = (@ \cup {cb[e].state}) \ {cb'[e].state, "closed"}]

\* ilconnect(), ilstart(): the caller calls.
ilconnect ==
    /\ cb["caller"].start = 0
    /\ \E fast \in BOOLEAN :
          LET c == [ilcbinit(Cstart) EXCEPT !.state = "syncer",
                       !.rexmit = IF fast THEN MaxRexmit - FastTries ELSE 0]
          IN  Finish("caller", 0, ilsendctl(c, "sync", c.start, c.recvd, 0), net)
    /\ held' = [held EXCEPT !["caller"] = TRUE]
    /\ Changed("caller")
    /\ UNCHANGED <<call, plan, wrote>>

\* ilkick(): a process writes a message.
ilkick(e) ==
    LET c == cb[e]
        k == Conv(e)
        n == wrote[k] + 1
        b == [id |-> c.next, data |-> n]
    IN
    /\ held[e] /\ c.state \in {"syncer", "syncee", "established"}
    /\ n <= plan.writes[e]
    /\ wrote' = [wrote EXCEPT ![k] = n]
    /\ Finish(e, k,
              Result([c EXCEPT !.next = @ + 1, !.unacked = Append(@, b)],
                     {Packet("data", b.id, c.recvd, 0, b.data)}, << >>), net)
    /\ UNCHANGED <<held, seen, call, plan>>

\* ilclose(): the process closes the conversation.
ilclose(e) ==
    LET c == cb[e]
        r == ilsendctl([c EXCEPT !.state = "closing"], "close", c.next, c.recvd, 0)
    IN
    /\ held[e] /\ e \in plan.closers
    /\ held' = [held EXCEPT ![e] = FALSE]
    /\ Finish(e, Conv(e),
              IF c.state \in {"closed", "closing"} THEN Only(ilfreeq(c))
              ELSE [r EXCEPT !.c = ilfreeq(r.c)], net)
    /\ Changed(e)
    /\ UNCHANGED <<call, plan, wrote>>

\* ilreject(): the answer to a packet nobody wants.
ilreject(m) == {Packet("close", m.ack, m.id, 0, 0)}

\* iliput() for a packet that finds no conversation.
NoConv(e, m, was) ==
    LET hears == e = "server" /\ plan.listens IN
    /\ \/ /\ (~hears /\ m.type = "sync") \/ (hears /\ m.type # "sync")
          /\ Transmit(was, e, ilreject(m))
       \/ /\ ~hears /\ m.type # "sync"
          /\ net' = was
       \/ /\ hears /\ m.type = "sync" /\ call = plan.calls   \* bad newcall
          /\ Transmit(was, e, ilreject(m))
    /\ UNCHANGED <<cb, held, call, mate, got>>

\* iliput() at the listener makes a conversation for a call.
Newcall(m, was) ==
    /\ plan.listens /\ m.type = "sync" /\ call < plan.calls
    /\ call' = call + 1
    /\ held' = [held EXCEPT !["server"] = TRUE]
    /\ LET c == ilcbinit(Sstart[call + 1]) IN
       Finish("server", call + 1,
              ilprocess([c EXCEPT !.state = "syncee", !.rstart = m.id], m), was)

\* The network hands over a packet, which may have been duplicated.
iliput(e) ==
    /\ \E q \in net, dup \in BOOLEAN :
          LET was == IF dup THEN net ELSE net \ {q} IN
          /\ q.to = e
          /\ IF cb[e].state # "closed"
             THEN /\ Finish(e, Conv(e), ilprocess(cb[e], q.p), was)
                  /\ UNCHANGED <<held, call>>
             ELSE \/ NoConv(e, q.p, was)
                  \/ e = "server" /\ Newcall(q.p, was)
    /\ Changed(e)
    /\ UNCHANGED <<plan, wrote>>

\* iladvise(): an ICMP message says that the called machine is unreachable.
iladvise ==
    /\ cb["caller"].state = "syncer"
    /\ cb' = [cb EXCEPT !["caller"] = ilhangup(@)]
    /\ Changed("caller")
    /\ UNCHANGED <<held, call, plan, net, history>>

\* The network loses a packet (external).
Lose ==
    /\ \E q \in net : net' = net \ {q}
    /\ UNCHANGED <<cb, held, seen, call, plan, history>>

\* Mutant: the repetitions are not counted.
ResendForever(c, st) ==
    IF st = "closing" THEN ilsendctl(c, "close", c.next, c.recvd, 0)
    ELSE ilsendctl(c, "sync", c.start, c.recvd, 0)

\* ilackproc() finds the timeout of a conversation being made or closed past,
Resend(c, st) ==
    IF c.rexmit > MaxRexmit THEN Only(ilhangup(c))
    ELSE LET r == IF st = "closing"
                  THEN ilsendctl(c, "close", c.next, c.recvd, 0)
                  ELSE ilsendctl(c, "sync", c.start, c.recvd, 0)
         IN  [r EXCEPT !.c = ilbackoff(r.c)]

\* ... or acts on the timers of an established one that are past: the delayed
\* acknowledgement, the query of an idle conversation (which may be found
\* dead) and the answer that is late.  An acknowledgement that was sent already
\* (recvd = acksent) may be sent again here, which the code spares itself.
Watch(c, late) ==
    LET a == IF "ack" \in late
             THEN ilsendctl(c, "ack", c.next, c.recvd, 0) ELSE Only(c)
        ask(r) == LET q == ilnextqt(r.c)
                      s == ilsendctl(q, "query", q.next, q.recvd, q.qtx)
                  IN  Result(s.c, r.out \cup s.out, << >>)
        b == IF "query" \in late THEN ask(a) ELSE a
    IN
    CASE "death" \in late -> Result(ilhangup(a.c), a.out, << >>)
      [] "death" \notin late /\ "timeout" \in late /\ c.unacked # << >> ->
            IF b.c.rexmit > MaxRexmit THEN Result(ilhangup(b.c), b.out, << >>)
            ELSE LET r == ask(b) IN [r EXCEPT !.c = ilbackoff(r.c)]
      [] OTHER -> b

Timers == {"ack", "query", "death", "timeout"}

\* ilackproc() acts on the state st, which the conversation may have left.
ilackproc(e, st, late) ==
    LET c == cb[e] IN
    /\ c.state # "closed"
    /\ st # "established" => late \subseteq {"timeout"}
    /\ "query" \in late => e \in plan.idlers
    /\ "death" \in late => "query" \in late
    /\ Finish(e, Conv(e), IF st = "established" THEN Watch(c, late)
                          ELSE IF "timeout" \in late THEN Resend(c, st)
                          ELSE Only(c), net)
    /\ seen' = [seen EXCEPT ![e] = {}]
    /\ UNCHANGED <<held, call, plan, wrote>>

Init ==
    /\ cb = [e \in End |-> ilcbinit(0)]
    /\ held = [e \in End |-> FALSE]
    /\ seen = [e \in End |-> {}]
    /\ call = 0
    /\ plan \in Plans
    /\ net \in IF plan.old = {} THEN {{}}
               ELSE {{q} : q \in {q \in Stale : q.p.type \in plan.old}}
    /\ mate = [k \in Convs |-> None]
    /\ wrote = [k \in Convs |-> 0]
    /\ got = [k \in Convs |-> << >>]

Next ==
    \/ ilconnect \/ iladvise \/ Lose
    \/ \E e \in End : \/ ilkick(e) \/ ilclose(e) \/ iliput(e)
                      \/ \E st \in {cb[e].state} \cup seen[e], late \in SUBSET Timers :
                            ilackproc(e, st, late)

Spec == Init /\ [][Next]_vars


\* ilackproc() goes round every Iltickms for ever, and a timeout that is set
\* comes: a packet can put it off, and the network duplicates none for ever.
TimesOut(e) == ilackproc(e, cb[e].state, {"timeout"})

FairSpec == Spec /\ \A e \in End : WF_vars(TimesOut(e))

-----------------------------------------------------------------------------
\* The processes see a reliable, ordered stream each way between two ends that
\* took each other for their peers (ilpullup(), iloutoforder(), ilkick()).
Channel == INSTANCE Reliable WITH Caller <- 0
ReliableStream == Channel!Spec

\* A message that its sender has let go as acknowledged (ilackto()) was given to
\* the reader at the other end: no acknowledgement runs ahead of what arrived, as
\* long as the ids of earlier conversations are lower than the present ones.
AckedDelivered ==
    \A e \in End :
        LET c == cb[e]
            k == Conv(e)
        IN  c.state = "established" /\ mate[k] # None =>
                wrote[k] - Len(c.unacked) <= Len(got[mate[k]])

\* A listener's conversation that is established is the one the caller has
\* accepted: no packet of an earlier conversation can complete a call.
Agreed ==
    cb["server"].state = "established" =>
        mate[call] = 0 /\ mate[0] = call

\* What an end waits for does not keep it waiting for ever: a call is answered
\* or given up, a message acknowledged or its conversation ended, a close
\* answered or given up (the rexmit counter of ilackproc()).
Waits(e) ==
    \/ cb[e].state \in {"syncer", "syncee", "closing"}
    \/ cb[e].state = "established" /\ cb[e].unacked # << >>

Settles == \A e \in End : []<>~Waits(e)
=============================================================================
