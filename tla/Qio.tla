-------------------------------- MODULE Qio --------------------------------
(***************************************************************************)
(* Queues of blocks between processes and drivers: port/qio.c.             *)
(*                                                                         *)
(* A queue has one of these uses, and each names who puts data in and who  *)
(* takes it out:                                                           *)
(*    pipe     qwrite() and qread() or qbread() by processes (devpipe.c)   *)
(*    output   qwrite() by processes, qget(), qconsume() and qdiscard() by *)
(*             a driver that the kick routine sets going                   *)
(*    input    qproduce(), qpass() and qpassnolim() by a driver, reads by  *)
(*             processes                                                   *)
(*    console  an output queue into which qiwrite() puts the kernel's own  *)
(*             prints, too (consdevputs() in devcons.c)                    *)
(*    kprint   the file kprint of devcons.c: qwrite() and qiwrite() by the *)
(*             kernel, which never block, and reads by processes           *)
(* What is done under ilock(q) is one step; wakeup() comes after iunlock() *)
(* and is a step of its own, and so is qread()'s copy to user space.       *)
(* sleep(), wakeup() and qlock() are used as SleepWakeup and QLock show    *)
(* them to behave.                                                         *)
(***************************************************************************)
EXTENDS Integers, Sequences, FiniteSets, SequencesExt

CONSTANTS
    Writers, Readers,  \* processes
    Notable,           \* the processes that are sent notes
    Kinds,             \* the uses of a queue, with the flags given to qopen()
    Sizes,             \* lengths of blocks
    Wants,             \* lengths of reads
    Empties,           \* uses in which empty blocks are written, too
    Inilim,            \* q->inilim
    Limits,            \* limits given to qsetlimit()
    MaxLen,            \* bound on q->len that stops interrupted writers
    K,                 \* bytes are numbered modulo K
    Nil

Driver == "driver"     \* the other end: interrupt handler or kernel process
Closer == "closer"     \* whoever hangs up, closes or flushes the queue
Threads == Writers \union Readers \union {Driver, Closer}

ASSUME QioAssumption ==
    /\ Kinds \subseteq {"pipe", "output", "input", "console", "kprint"}
                       \X SUBSET {"Qmsg", "Qcoalesce"}
    /\ Sizes \subseteq Nat \ {0} /\ Wants \subseteq Nat \ {0}
    /\ Limits \union {Inilim} \subseteq Nat \ {0, 1}
    /\ MaxLen \in Nat /\ K \in Nat \ {0}
    /\ Notable \subseteq Writers \union Readers
    /\ Writers \intersect Readers = {}
    /\ {Driver, Closer, Nil} \intersect (Writers \union Readers) = {}

VARIABLES
    use, mode,  \* what the queue is for, and the flags Qmsg and Qcoalesce
    q,          \* the Queue
    held,       \* blocks qread() has taken and is copying out
    want,       \* the len of that read
    noted,      \* up->notepending
    next,       \* the number of the next byte written
    busy,       \* the driver of an output queue is going
    pc

vars == <<use, mode, q, held, want, noted, next, busy, pc>>

Goto(t, l) == pc' = [pc EXCEPT ![t] = l]

(***************************************************************************)
(* Blocks and the queue.  A block has the numbers of its bytes and the     *)
(* size it was allocated with; even an empty block takes space.            *)
(***************************************************************************)
BLEN(b) == Len(b.data)
Alloc(n) == IF n = 0 THEN 1 ELSE n
NewBlock(n) ==
    [alloc |-> Alloc(n), data |-> [i \in 1 .. n |-> (next + i - 1) % K]]
Lengths == Sizes \union (IF use \in Empties THEN {0} ELSE {})
Lens(bs) == [i \in DOMAIN bs |-> BLEN(bs[i])]
Allocs(bs) == [i \in DOMAIN bs |-> bs[i].alloc]

\* The sums of the first i numbers of a, and of all of them.
SumTo(a) ==
    LET s[i \in 0 .. Len(a)] == IF i = 0 THEN 0 ELSE s[i - 1] + a[i] IN s
Sum(a) == SumTo(a)[Len(a)]

Emptied(x) == [x EXCEPT !.blocks = << >>, !.len = 0, !.dlen = 0]

\* qaddlist(): a block at the end.
Added(x, b) ==
    [x EXCEPT !.blocks = Append(@, b), !.len = @ + b.alloc,
              !.dlen = @ + BLEN(b)]

\* qremove()
Removed(x) ==
    [x EXCEPT !.blocks = Tail(@), !.len = @ - Head(x.blocks).alloc,
              !.dlen = @ - BLEN(Head(x.blocks))]

\* Mutant: the rest goes to the end of the queue.
PutBack_end(x, b) ==
    [x EXCEPT !.blocks = Append(@, b), !.len = @ + b.alloc, !.dlen = @ + BLEN(b)]

\* qputback()
PutBack(x, b) ==
    [x EXCEPT !.blocks = <<b>> \o @, !.len = @ + b.alloc, !.dlen = @ + BLEN(b)]

\* The first n bytes of the first block are taken.
Advanced(x, n) ==
    [x EXCEPT !.blocks[1].data = SubSeq(@, n + 1, Len(@)), !.dlen = @ - n]

notempty == q.closed \/ q.blocks # << >>
qnotfull == q.len < q.limit \/ q.closed

Init ==
    /\ \E k \in Kinds : use = k[1] /\ mode = k[2]
    /\ q = [blocks |-> << >>, len |-> 0, dlen |-> 0, limit |-> Inilim,
            starve |-> TRUE, flow |-> FALSE, closed |-> FALSE,
            noblock |-> use = "kprint", rlock |-> Nil, wlock |-> Nil]
    /\ held = << >> /\ want = 0
    /\ noted = [t \in Writers \union Readers |-> FALSE]
    /\ next = 0 /\ busy = FALSE
    /\ pc = [t \in Threads |-> "idle"]

\* wakeup() of the process asleep on one of the two Rendezes; t goes on at l.
Wakeup(S, t, l) ==
    pc' = [x \in Threads |-> IF x = t THEN l
                             ELSE IF x \in S /\ pc[x] = "asleep" THEN "back"
                             ELSE pc[x]]

(***************************************************************************)
(* qwrite() and qbwrite().                                                 *)
(***************************************************************************)
ByWriters == use \in {"pipe", "output", "console", "kprint"}
ByReaders == use \in {"pipe", "input", "kprint"}

\* qlock(&q->wlock) and what qbwrite() does under its first ilock(q).  A
\* qwrite() of more than Maxatomic bytes is several of these.
QBWrite(w) ==
    /\ pc[w] = "idle" /\ ByWriters /\ q.wlock = Nil
    /\ IF q.closed \/ (q.noblock /\ q.len >= q.limit)
       THEN UNCHANGED <<q, next, pc>>
       ELSE \E n \in Lengths :
            /\ q.len <= MaxLen
            /\ q' = [Added(q, NewBlock(n)) EXCEPT !.starve = FALSE, !.wlock = w]
            /\ next' = (next + n) % K
            /\ Goto(w, IF q.starve THEN "wakerr" ELSE "flow")
    /\ UNCHANGED <<use, mode, held, want, noted, busy>>

\* The kick routine and the wakeup of the reader.
QBWriteWakeup(w) ==
    /\ pc[w] = "wakerr" /\ w \in Writers
    /\ busy' = (busy \/ use \in {"output", "console"})
    /\ Wakeup(Readers, w, "flow")
    /\ UNCHANGED <<use, mode, q, held, want, noted, next>>

\* The loop of flow control looks at the queue without a lock ...
QBWriteFlow(w) ==
    /\ pc[w] = "flow"
    /\ IF q.noblock \/ qnotfull
       THEN q' = [q EXCEPT !.wlock = Nil] /\ Goto(w, "idle")
       ELSE Goto(w, "setflow") /\ UNCHANGED q
    /\ UNCHANGED <<use, mode, held, want, noted, next, busy>>

\* Mutant: Qflow is not set.
QBWriteSet_none(w) ==
    /\ pc[w] = "setflow"
    /\ Goto(w, "sleep")
    /\ UNCHANGED <<use, mode, q, held, want, noted, next, busy>>

\* ... and sets Qflow before it sleeps.
QBWriteSet(w) ==
    /\ pc[w] = "setflow"
    /\ q' = [q EXCEPT !.flow = TRUE]
    /\ Goto(w, "sleep")
    /\ UNCHANGED <<use, mode, held, want, noted, next, busy>>

\* sleep() on q->wr: a note ends qbwrite(), after its block has been queued.
QBWriteSleep(w) ==
    /\ w \in Writers
    /\ \/ /\ pc[w] \in {"sleep", "back"} /\ noted[w]
          /\ noted' = [noted EXCEPT ![w] = FALSE]
          /\ q' = [q EXCEPT !.wlock = Nil]
          /\ Goto(w, "idle")
       \/ /\ ~noted[w]
          /\ \/ pc[w] = "sleep" /\ Goto(w, IF qnotfull THEN "flow" ELSE "asleep")
             \/ pc[w] = "back" /\ Goto(w, "flow")
          /\ UNCHANGED <<q, noted>>
    /\ UNCHANGED <<use, mode, held, want, next, busy>>

(***************************************************************************)
(* qread() and qbread().                                                   *)
(***************************************************************************)

\* Mutant: one byte less.
Drained_off(x) == x.flow /\ x.len < (x.limit \div 2) - 1

\* Qflow is cleared when the queue is below half its limit, and the writer is
\* then to be woken.
Drained(x) == x.flow /\ x.len < x.limit \div 2
Restarted(x) == [x EXCEPT !.flow = @ /\ ~Drained(x)]

\* Leave, with a wakeup of the writer if flow control let it go.
Leave(r, x) ==
    IF Drained(x)
    THEN q' = [Restarted(x) EXCEPT !.rlock = r] /\ Goto(r, "wakewr")
    ELSE q' = [x EXCEPT !.rlock = Nil] /\ Goto(r, "idle")

\* The blocks one qread() of n bytes takes.
Taken(n) ==
    IF "Qcoalesce" \notin mode THEN 1
    ELSE CHOOSE k \in DOMAIN q.blocks :
            /\ k = Len(q.blocks) \/ Sum(Lens(SubSeq(q.blocks, 1, k))) >= n
            /\ \A j \in 1 .. k - 1 : Sum(Lens(SubSeq(q.blocks, 1, j))) < n

\* qread() drops an empty block when it coalesces.
SkipsEmpty == "Qcoalesce" \in mode /\ BLEN(Head(q.blocks)) = 0

QReadTake(r, n) ==
    LET k == Taken(n)
        bs == SubSeq(q.blocks, 1, k)
    IN  /\ q' = [q EXCEPT !.blocks = SubSeq(@, k + 1, Len(@)),
                          !.len = @ - Sum(Allocs(bs)),
                          !.dlen = @ - Sum(Lens(bs)), !.rlock = r]
        /\ held' = bs /\ want' = n
        /\ Goto(r, "copy")

\* qbread() splits a block that is too long, unless it is a message.
QBReadTake(r, n) ==
    LET b == Head(q.blocks)
        rest == SubSeq(b.data, n + 1, BLEN(b))
    IN  /\ Leave(r, IF BLEN(b) > n /\ "Qmsg" \notin mode
                    THEN PutBack(Removed(q), [alloc |-> Alloc(Len(rest)),
                                              data |-> rest])
                    ELSE Removed(q))
        /\ UNCHANGED <<held, want>>

\* qwait(): data, end of file, or sleep until the producer says.
QWait(r) ==
    \/ /\ q.blocks # << >>
       /\ \E n \in Wants :
            \/ SkipsEmpty /\ q' = [Removed(q) EXCEPT !.rlock = r]
                          /\ Goto(r, "wait") /\ UNCHANGED <<held, want>>
            \/ ~SkipsEmpty /\ QReadTake(r, n)
            \/ QBReadTake(r, n)
    \/ /\ q.blocks = << >> /\ q.closed
       /\ q' = [q EXCEPT !.rlock = Nil]
       /\ Goto(r, "idle") /\ UNCHANGED <<held, want>>
    \/ /\ q.blocks = << >> /\ ~q.closed
       /\ q' = [q EXCEPT !.starve = TRUE, !.rlock = r]
       /\ Goto(r, "sleep") /\ UNCHANGED <<held, want>>

QRead(r) ==
    /\ \/ pc[r] = "idle" /\ ByReaders /\ q.rlock = Nil
       \/ pc[r] = "wait"
    /\ QWait(r)
    /\ UNCHANGED <<use, mode, noted, next, busy>>

\* Mutant: the condition is not tested before sleeping.
QReadSleep_untested(r) ==
    /\ r \in Readers
    /\ \/ /\ pc[r] \in {"sleep", "back"} /\ noted[r]
          /\ noted' = [noted EXCEPT ![r] = FALSE]
          /\ q' = [q EXCEPT !.rlock = Nil]
          /\ Goto(r, "idle")
       \/ /\ ~noted[r]
          /\ \/ pc[r] = "sleep" /\ Goto(r, "asleep")
             \/ pc[r] = "back" /\ Goto(r, "wait")
          /\ UNCHANGED <<q, noted>>
    /\ UNCHANGED <<use, mode, held, want, next, busy>>

QReadSleep(r) ==
    /\ r \in Readers
    /\ \/ /\ pc[r] \in {"sleep", "back"} /\ noted[r]
          /\ noted' = [noted EXCEPT ![r] = FALSE]
          /\ q' = [q EXCEPT !.rlock = Nil]
          /\ Goto(r, "idle")
       \/ /\ ~noted[r]
          /\ \/ pc[r] = "sleep" /\ Goto(r, IF notempty THEN "wait" ELSE "asleep")
             \/ pc[r] = "back" /\ Goto(r, "wait")
          /\ UNCHANGED <<q, noted>>
    /\ UNCHANGED <<use, mode, held, want, next, busy>>

\* After the copy: what is left of the last block goes back to the front.
QReadDone(r) ==
    LET over == Sum(Lens(held)) - want
        b == Last(held)
        rest == [b EXCEPT !.data = SubSeq(@, Len(@) - over + 1, Len(@))]
    IN  /\ pc[r] = "copy"
        /\ Leave(r, IF over > 0 /\ "Qmsg" \notin mode THEN PutBack(q, rest) ELSE q)
        /\ held' = << >> /\ want' = 0
        /\ UNCHANGED <<use, mode, noted, next, busy>>

\* The wakeup of the writer; the kick of an input queue is not modelled.
QReadWakeup(r) ==
    /\ pc[r] = "wakewr" /\ r \in Readers
    /\ q' = [q EXCEPT !.rlock = Nil]
    /\ Wakeup(Writers, r, "idle")
    /\ UNCHANGED <<use, mode, held, want, noted, next, busy>>

(***************************************************************************)
(* The driver's end of an input queue.                                     *)
(***************************************************************************)

\* A block is put in, and a starving reader is to be woken.
DriverPut(n, x) ==
    /\ q' = [x EXCEPT !.starve = FALSE]
    /\ next' = (next + n) % K
    /\ Goto(Driver, IF q.starve THEN "wakerr" ELSE "idle")

qproduce(n) ==
    IF q.len >= q.limit
    THEN q' = [q EXCEPT !.flow = TRUE] /\ UNCHANGED <<next, pc>>
    ELSE LET x == Added(q, NewBlock(n))
         IN  DriverPut(n, [x EXCEPT !.flow = @ \/ x.len >= x.limit])

\* qpassnolim() is qpass() without the first test.
qpass(n, nolim) ==
    IF q.closed \/ (~nolim /\ q.len >= q.limit)
    THEN UNCHANGED <<q, next, pc>>
    ELSE LET x == Added(q, NewBlock(n))
         IN  DriverPut(n, [x EXCEPT !.flow = @ \/ x.len >= x.limit \div 2])

\* qiwrite(), one block of it.
qiwrite(n) ==
    IF q.closed \/ q.dlen >= MaxLen
    THEN UNCHANGED <<q, next, pc>>
    ELSE DriverPut(n, Added(q, NewBlock(n)))

DriverProduces ==
    /\ pc[Driver] = "idle" /\ q.len <= MaxLen
    /\ \E n \in Lengths :
        \/ use = "input" /\ (qproduce(n) \/ qpass(n, FALSE) \/ qpass(n, TRUE))
        \/ use \in {"console", "kprint"} /\ qiwrite(n)
    /\ UNCHANGED <<use, mode, held, want, noted, busy>>

DriverWakeup ==
    /\ \/ pc[Driver] = "wakerr" /\ Wakeup(Readers, Driver, "idle")
       \/ pc[Driver] = "wakewr" /\ Wakeup(Writers, Driver, "idle")
    /\ busy' = (busy \/ (pc[Driver] = "wakerr" /\ use = "console"))
    /\ UNCHANGED <<use, mode, q, held, want, noted, next>>

(***************************************************************************)
(* The driver's end of an output queue: it goes on until it finds the      *)
(* queue empty, and then has to be kicked.                                 *)
(***************************************************************************)
DriverLeave(x) ==
    /\ q' = Restarted(x)
    /\ Goto(Driver, IF Drained(x) THEN "wakewr" ELSE "idle")

\* Mutant: the driver stops without asking for a kick.
DriverStarved_silent ==
    /\ q.blocks = << >>
    /\ busy' = FALSE /\ UNCHANGED <<q, pc>>

DriverStarved ==
    /\ q.blocks = << >>
    /\ q' = [q EXCEPT !.starve = TRUE]
    /\ busy' = FALSE /\ UNCHANGED pc

qget == q.blocks # << >> /\ DriverLeave(Removed(q)) /\ UNCHANGED busy

\* Empty blocks are passed over; a message is used up by one read.
qconsume(n) ==
    LET full == {i \in DOMAIN q.blocks : BLEN(q.blocks[i]) > 0}
        i == CHOOSE j \in full : \A h \in full : j <= h
        x == [q EXCEPT !.blocks = SubSeq(@, i, Len(@)),
                       !.len = @ - Sum(Allocs(SubSeq(q.blocks, 1, i - 1)))]
    IN  /\ q.blocks # << >>
        /\ IF full = {}
           THEN /\ q' = [Emptied(q) EXCEPT !.starve = TRUE]
                /\ busy' = FALSE /\ UNCHANGED pc
           ELSE /\ DriverLeave(IF "Qmsg" \in mode \/ n >= BLEN(Head(x.blocks))
                               THEN Removed(x) ELSE Advanced(x, n))
                /\ UNCHANGED busy

\* qdiscard() of n bytes, as many as one block holds.
qdiscard(n) ==
    /\ q.blocks # << >>
    /\ DriverLeave(IF n >= BLEN(Head(q.blocks)) THEN Removed(q) ELSE Advanced(q, n))
    /\ UNCHANGED busy

DriverTakes ==
    /\ use \in {"output", "console"} /\ busy /\ pc[Driver] = "idle"
    /\ \/ DriverStarved \/ qget
       \/ \E n \in Wants : qconsume(n) \/ qdiscard(n)
    /\ UNCHANGED <<use, mode, held, want, noted, next>>

(***************************************************************************)
(* Closing.                                                                *)
(***************************************************************************)
Idle == \A t \in Writers \union Readers : pc[t] = "idle"

\* Closer changes the queue and then wakes up the reader and the writer.
qhangup ==
    /\ pc[Closer] = "idle" /\ ~q.closed
    /\ q' = [q EXCEPT !.closed = TRUE]
    /\ Goto(Closer, "wakerr")
    /\ UNCHANGED <<use, mode, held, want, noted, next, busy>>

\* The queue's readers are gone: it is closed by the last close of the channel.
qclose ==
    /\ pc[Closer] = "idle" /\ use # "kprint"
    /\ \A r \in Readers : pc[r] = "idle"
    /\ q' = [Emptied(q) EXCEPT !.closed = TRUE, !.flow = FALSE,
                               !.starve = FALSE, !.noblock = FALSE]
    /\ q' # q
    /\ Goto(Closer, "wakerr")
    /\ UNCHANGED <<use, mode, held, want, noted, next, busy>>

CloserWakerr ==
    /\ pc[Closer] = "wakerr"
    /\ Wakeup(Readers, Closer, "wakewr")
    /\ UNCHANGED <<use, mode, q, held, want, noted, next, busy>>

CloserWakewr ==
    /\ pc[Closer] = "wakewr"
    /\ Wakeup(Writers, Closer, "idle")
    /\ UNCHANGED <<use, mode, q, held, want, noted, next, busy>>

\* A driver empties its output queue.
qflush ==
    /\ pc[Closer] = "idle" /\ use \in {"output", "console"} /\ q.blocks # << >>
    /\ q' = Emptied(q)
    /\ Goto(Closer, "wakewr")
    /\ UNCHANGED <<use, mode, held, want, noted, next, busy>>

\* The queue is used again, by a conversation that is opened anew.
qreopen ==
    /\ pc[Closer] = "idle" /\ q.closed /\ Idle
    /\ q' = [q EXCEPT !.closed = FALSE, !.starve = TRUE,
                      !.limit = Inilim]
    /\ UNCHANGED <<use, mode, held, want, noted, next, busy, pc>>

qsetlimit ==
    /\ use \notin {"pipe", "kprint"}
    /\ \E l \in Limits \ {q.limit} : q' = [q EXCEPT !.limit = l]
    /\ UNCHANGED <<use, mode, held, want, noted, next, busy, pc>>

qnoblock ==
    /\ use \notin {"pipe", "kprint"} /\ ~q.closed /\ Idle
    /\ q' = [q EXCEPT !.noblock = ~@]
    /\ UNCHANGED <<use, mode, held, want, noted, next, busy, pc>>

Note(t) ==
    /\ pc[t] # "idle" /\ ~noted[t]
    /\ noted' = [noted EXCEPT ![t] = TRUE]
    /\ pc' = [pc EXCEPT ![t] = IF @ = "asleep" THEN "back" ELSE @]
    /\ UNCHANGED <<use, mode, q, held, want, next, busy>>

WriterStep(w) ==
    QBWriteWakeup(w) \/ QBWriteFlow(w) \/ QBWriteSet(w) \/ QBWriteSleep(w)

ReaderStep(r) == QRead(r) \/ QReadSleep(r) \/ QReadDone(r) \/ QReadWakeup(r)

Next ==
    \/ \E w \in Writers : QBWrite(w) \/ WriterStep(w)
    \/ \E r \in Readers : ReaderStep(r)
    \/ DriverProduces \/ DriverWakeup \/ DriverTakes
    \/ qhangup \/ qclose \/ CloserWakerr \/ CloserWakewr \/ qflush
    \/ qreopen \/ qsetlimit \/ qnoblock
    \/ \E t \in Notable : Note(t)

Spec == Init /\ [][Next]_vars

(***************************************************************************)
(* Processes and drivers go on, someone keeps reading, and the QLock rlock *)
(* is handed on (QLock).                                                   *)
(***************************************************************************)
FairSpec ==
    /\ Spec
    /\ \A w \in Writers : WF_vars(WriterStep(w))
    /\ \A r \in Readers : WF_vars(ReaderStep(r)) /\ SF_vars(QRead(r))
    /\ WF_vars(DriverWakeup) /\ WF_vars(DriverTakes)
    /\ WF_vars(CloserWakerr) /\ WF_vars(CloserWakewr)

-----------------------------------------------------------------------------
Going(l) == \E t \in Threads : pc[t] = l
\* A wakeup of the reader, or of the writer, is still to come.
RrComing == Going("wakerr")
WrComing == Going("wakewr") \/ pc[Closer] = "wakerr"

(***************************************************************************)
(* No reader sleeps while there is data or the queue is closed, unless its *)
(* wakeup is on the way: Qstarve, the emptiness of the queue and the sleep *)
(* of qwait() are changed in different critical sections.                  *)
(***************************************************************************)
ReaderKept ==
    \A r \in Readers : pc[r] = "asleep" =>
        RrComing \/ (q.starve /\ ~q.closed /\ q.blocks = << >>)

(***************************************************************************)
(* qbwrite() waits only until the queue is below its limit: a writer that  *)
(* sleeps has its wakeup on the way, or Qflow is set and there are blocks  *)
(* left whose reader will find it set.                                     *)
(***************************************************************************)
WriterKept ==
    \A w \in Writers : pc[w] = "asleep" =>
        \/ WrComing
        \/ q.flow /\ ~q.closed /\ (q.blocks # << >> \/ Going("copy"))

(***************************************************************************)
(* Output does not stall: while there are blocks the driver is going, or   *)
(* the writer that found Qstarve set is about to kick it.                  *)
(***************************************************************************)
OutputKept ==
    use \in {"output", "console"} /\ q.blocks # << >> => busy \/ RrComing

\* The blocks on their way, those a reader is copying out included.
Stream == held \o q.blocks

(***************************************************************************)
(* The bytes on their way are the last ones written, in order, none twice  *)
(* and none missing, whatever reads split, put back and coalesce while     *)
(* writers add; and len and dlen, which flow control goes by, count them.  *)
(***************************************************************************)
InOrder ==
    /\ \A i \in DOMAIN Stream : \A j \in 1 .. BLEN(Stream[i]) :
          Stream[i].data[j] =
            (next - Sum(Lens(Stream)) + SumTo(Lens(Stream))[i - 1] + j - 1) % K
    /\ q.len = Sum(Allocs(q.blocks)) /\ q.dlen = Sum(Lens(q.blocks))

(***************************************************************************)
(* A writer that flow control stopped goes on, if someone keeps reading.   *)
(***************************************************************************)
WriterResumes == \A w \in Writers : pc[w] = "asleep" ~> pc[w] # "asleep"
=============================================================================
