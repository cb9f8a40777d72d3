-------------------------------- MODULE Page --------------------------------
(***************************************************************************)
(* Pages, images and segments: port/page.c, image.c, segment.c, fault.c    *)
(* and pager.c.                                                            *)
(*                                                                         *)
(* A text segment is shared by the processes that run a file, through the  *)
(* file's image; a data segment belongs to a process and is copied on      *)
(* write.  Both are loaded on demand, a page at a time.  A page that was   *)
(* loaded stays in the cache, hashed by image and address, until it is     *)
(* used for something else, also when nobody refers to it and it is on the *)
(* free list.  An image counts its segments and its cached pages and is    *)
(* free again when there are none.  A process that finds no memory becomes *)
(* the pager.                                                              *)
(*                                                                         *)
(* Every segment has one page here, which stands for any page but the last *)
(* of its table (pageout() never takes that).  There is one page size.     *)
(* What is done under one spin lock is one step; pga is held over several, *)
(* because newpage() and pagereclaim() call putimage() with it.            *)
(***************************************************************************)
EXTENDS Naturals, Sequences, FiniteSets, SequencesExt, TLC

CONSTANTS
    Procs,        \* the processes
    Files,        \* what they execute
    Pages,        \* the physical memory
    Images, Segs, \* the structures there are
    Rfmem,        \* whether rfork() is given RFMEM: a set of Booleans
    MaxFree,      \* Nfreepgs
    StopAt,       \* where the model stops (see Stopped)
    Nil

\* What the constants stand for.
PageAssumption ==
    /\ Rfmem \subseteq BOOLEAN /\ MaxFree \in Nat
    /\ StopAt \subseteq {"image", "page", "map", "share"}
    /\ IsFiniteSet(Procs) /\ IsFiniteSet(Pages) /\ IsFiniteSet(Segs)
    /\ Nil \notin Procs \union Files \union Pages \union Images \union Segs
    /\ Nil \notin {"text", "data", "putseg", "newpage", "reclaim", "freed"}

VARIABLES
    page,   \* the Page structures: ref, image, daddr, whether they exist
            \* (alloc), and what the page holds
    free,   \* pga.pgsza[].head ...: the pages nobody refers to
    hash,   \* the cached pages, which hang in hash chains
    pga,    \* the process that has lock(&pga), where it is held across steps
    image,  \* the Image structures: ref, c, qid, s
    seg,    \* the Segments: ref, type, image, the page in their map, the
            \* holder of lk, and (history) what the memory should hold
    pager,  \* the process that has pagerlck
    own,    \* up->seg[TSEG] and up->seg[DSEG]
    tlb,    \* the mapping of the data segment's page: page and rights
    th,     \* the local variables of the processes
    pc

memory == <<page, free, hash>>
vars == <<page, free, hash, pga, image, seg, pager, own, tlb, th, pc>>

Types == {"text", "data"}
NoPage == [ref |-> 0, image |-> Nil, daddr |-> Nil, alloc |-> FALSE, holds |-> Nil]
NoImage == [ref |-> 0, c |-> Nil, qid |-> Nil, s |-> Nil]
NoSeg == [ref |-> 0, type |-> Nil, image |-> Nil, map |-> Nil, lk |-> Nil,
          memory |-> Nil]
NoSegs == [y \in Types |-> Nil]
Unmapped == [page |-> Nil, rights |-> "none"]

\* file: the file being executed; todo: segments still to be put; img: the
\* image putimage() or attachimage() works on; s: the segment of the fault;
\* write: the access; new: the new page; src: the channel pio() reads;
\* rights: mmuattr; then: where the routine that called putimage() goes on, or
\* that freepages() was called.
NoLocals == [file |-> Nil, todo |-> << >>, img |-> Nil, s |-> Nil,
             write |-> FALSE, new |-> Nil, src |-> Nil, rights |-> "none",
             then |-> Nil]

Init ==
    /\ page = [p \in Pages |-> NoPage] /\ free = << >> /\ hash = {}
    /\ pga = Nil /\ pager = Nil
    /\ image = [i \in Images |-> NoImage]
    /\ seg = [s \in Segs |-> NoSeg]
    /\ own = [t \in Procs |-> NoSegs]
    /\ tlb = [t \in Procs |-> Unmapped]
    /\ th = [t \in Procs |-> NoLocals]
    /\ pc = [t \in Procs |-> "idle"]

Goto(t, l) == pc' = [pc EXCEPT ![t] = l]
Without(list, p) ==
    LET at == {i \in 1 .. Len(list) : list[i] = p}
    IN  IF at = {} THEN list ELSE RemoveAt(list, CHOOSE i \in at : TRUE)

\* newseg() waits until there is memory (smalloc()).
NewSegs == {s \in Segs : seg[s].type = Nil}
newseg(S) == CHOOSE s \in NewSegs \ S : TRUE
Locked(i) == \E t \in Procs : pc[t] = "attach" /\ th[t].img = i

(***************************************************************************)
(* Four ways in which the kernel goes wrong; the README tells of them.     *)
(* The model stops there, as far as StopAt says, and when it panics.       *)
(***************************************************************************)

\* attachimage() has found an image whose last reference putimage() had
\* dropped already; it is in use now and loses its name and its channel.
ImageLost ==
    \E t \in Procs : pc[t] \in {"unname", "unhash"} /\ image[th[t].img].ref > 0

\* A page was freed that the cache, or a process that looked there, refers to.
PageLost ==
    \/ \E p \in hash : ~page[p].alloc
    \/ \E t \in Procs : pc[t] = "found" /\ ~page[th[t].new].alloc

\* fixfault() follows a nil pointer to map a page that was paged out since.
MapLost == \E t \in Procs : pc[t] = "mmuput" /\ seg[th[t].s].map = Nil

\* fixfault() has mapped for writing a page that is to be copied before it is
\* written to, or that another process is copying: a fork came between its look
\* at the page and the mapping, and procflushseg() found nothing to drop.
ShareLost ==
    \E t \in Procs :
        /\ tlb[t].rights = "write"
        /\ page[tlb[t].page].ref > 1 \/ seg[own[t]["data"]].lk # Nil

Stopped ==
    \/ "image" \in StopAt /\ ImageLost
    \/ "page" \in StopAt /\ PageLost
    \/ "map" \in StopAt /\ MapLost
    \/ "share" \in StopAt /\ ShareLost
    \/ \E t \in Procs : pc[t] = "panic"

At(t, l) == pc[t] = l /\ ~Stopped

(***************************************************************************)
(* Pages.                                                                  *)
(***************************************************************************)

\* putpage() of a page that has no image stays at the head of the free list,
\* where it is found first; a cached one goes to the tail.
putpage(m, fr, p) ==
    IF m[p].ref > 1 THEN /\ page' = [m EXCEPT ![p].ref = @ - 1] /\ free' = fr
    ELSE IF m[p].image # Nil
         THEN page' = [m EXCEPT ![p].ref = 0] /\ free' = Append(fr, p)
    ELSE IF Len(fr) > MaxFree
         THEN page' = [m EXCEPT ![p] = NoPage] /\ free' = fr
         ELSE page' = [m EXCEPT ![p].ref = 0] /\ free' = <<p>> \o fr

\* The beginning of uncachepage(), with pga held: the page leaves its hash
\* chain, and putimage() is called.
Uncache(t, p, then) ==
    /\ hash' = hash \ {p}
    /\ pga' = t
    /\ th' = [th EXCEPT ![t].new = p, ![t].img = page[p].image, ![t].then = then]
    /\ Goto(t, "putimage")

\* newpage() gives back what it found on the free list, or allocates.
Fresh == [NoPage EXCEPT !.ref = 1, !.alloc = TRUE]
Use(t) == IF th[t].src = Nil THEN "copy" ELSE "read"
Got(t, p) ==
    /\ page' = [page EXCEPT ![p] = Fresh]
    /\ th' = [th EXCEPT ![t].new = p]
    /\ Goto(t, Use(t))

\* 1. try to reuse a free one (of the right colour; colours are arbitrary)
NewpageReuse(t) ==
    /\ At(t, "newpage") /\ pga = Nil
    /\ \E i \in 1 .. Len(free) : LET p == free[i] IN
        /\ free' = RemoveAt(free, i)
        /\ IF page[p].image # Nil
           THEN Uncache(t, p, "newpage") /\ UNCHANGED page
           ELSE Got(t, p) /\ UNCHANGED <<hash, pga>>
    /\ UNCHANGED <<image, seg, pager, own, tlb>>

\* 2. try to allocate a new one from physical memory, when no free one has the
\* right colour
NewpageAlloc(t) ==
    /\ At(t, "newpage") /\ pga = Nil
    /\ \E p \in Pages : ~page[p].alloc /\ Got(t, p)
    /\ UNCHANGED <<free, hash, pga, image, seg, pager, own, tlb>>

\* 3. out of memory, release the segment (if any) ...
NewpageKick(t) ==
    /\ At(t, "newpage") /\ pga = Nil
    /\ \A p \in Pages : page[p].alloc
    /\ seg' = IF th[t].src = Nil THEN [seg EXCEPT ![th[t].s].lk = Nil] ELSE seg
    /\ Goto(t, "kick")
    /\ UNCHANGED <<memory, pga, image, pager, own, tlb, th>>

\* ... and try with the pager, one process at a time
Kickpager(t) ==
    /\ At(t, "kick") /\ pager = Nil
    /\ pager' = t
    /\ Goto(t, "pageout")
    /\ UNCHANGED <<memory, pga, image, seg, own, tlb, th>>

(***************************************************************************)
(* Images.                                                                 *)
(***************************************************************************)

\* Where putimage() returns to: putseg(), or the end of uncachepage() in
\* newpage() or pagereclaim().
PutimageReturn(t) ==
    CASE th[t].then = "putseg" ->
            /\ th' = [th EXCEPT ![t].img = Nil, ![t].then = Nil]
            /\ Goto(t, "freepte") /\ UNCHANGED <<page, pga>>
      [] th[t].then = "newpage" ->
            /\ page' = [page EXCEPT ![th[t].new] = Fresh]
            /\ pga' = Nil
            /\ th' = [th EXCEPT ![t].img = Nil, ![t].then = Nil]
            /\ Goto(t, Use(t))
      [] th[t].then = "reclaim" ->
            /\ page' = [page EXCEPT ![th[t].new].image = Nil,
                                    ![th[t].new].daddr = Nil]
            /\ th' = [th EXCEPT ![t].img = Nil, ![t].then = Nil, ![t].new = Nil]
            /\ Goto(t, "reclaim") /\ UNCHANGED pga

\* putimage(): the reference is dropped without a lock ...
Putimage(t) ==
    LET i == th[t].img
    IN  /\ At(t, "putimage")
        /\ image' = [image EXCEPT ![i].ref = @ - 1]
        /\ IF image[i].ref = 1
           THEN Goto(t, "unname") /\ UNCHANGED <<page, pga, th>>
           ELSE PutimageReturn(t)
        /\ UNCHANGED <<free, hash, seg, pager, own, tlb>>

\* ... if it was the last one the image loses its qid, under lock(i) ...
PutimageUnname(t) ==
    /\ At(t, "unname") /\ ~Locked(th[t].img)
    /\ image' = [image EXCEPT ![th[t].img].qid = Nil]
    /\ Goto(t, "unhash")
    /\ UNCHANGED <<memory, pga, seg, pager, own, tlb, th>>

\* ... and leaves the hash table and loses its channel, under imagealloc's.
PutimageUnhash(t) ==
    /\ At(t, "unhash")
    /\ image' = [image EXCEPT ![th[t].img].c = Nil]
    /\ PutimageReturn(t)
    /\ UNCHANGED <<free, hash, seg, pager, own, tlb>>

\* sysexec() of a file, by a process that has put the segments it had:
\* attachimage() takes the image of the file, or an unused one.
Exec(t) ==
    /\ At(t, "idle") /\ own[t] = NoSegs
    /\ \E f \in Files :
        LET found == {i \in Images : image[i].qid = f}
            unused == {i \in Images : image[i].c = Nil}
        IN  \E i \in IF found # {} THEN found ELSE unused :
            /\ ~Locked(i)
            /\ image' = IF found # {} THEN image
                        ELSE [image EXCEPT ![i].c = f, ![i].qid = f]
            /\ th' = [th EXCEPT ![t].img = i, ![t].file = f]
    /\ Goto(t, "attach")
    /\ UNCHANGED <<memory, pga, seg, pager, own, tlb>>

\* No image is unused: imagereclaim() calls pagereclaim(), and again.
Imagereclaim(t) ==
    /\ At(t, "idle") /\ own[t] = NoSegs /\ pga = Nil
    /\ \E f \in Files : \A i \in Images : image[i].qid # f /\ image[i].c # Nil
    /\ pga' = t
    /\ Goto(t, "reclaim")
    /\ UNCHANGED <<memory, image, seg, pager, own, tlb, th>>

\* pagereclaim() goes through the free list from the tail.
Pagereclaim(t) ==
    LET cached == {i \in 1 .. Len(free) : page[free[i]].image # Nil}
    IN  /\ At(t, "reclaim")
        /\ \/ /\ cached = {} /\ pga' = Nil /\ Goto(t, "idle")
              /\ UNCHANGED <<hash, th>>
           \/ \E i \in cached : /\ \A j \in cached : j <= i
                                /\ Uncache(t, free[i], "reclaim")
        /\ UNCHANGED <<page, free, image, seg, pager, own, tlb>>

\* The rest of attachimage() with the image locked, and of sysexec(), which
\* makes the data segment, too.
Attach(t) ==
    LET i == th[t].img
        f == th[t].file
        text == image[i].s
        refs == IF text = Nil THEN 2 ELSE 1
        s == IF text = Nil THEN newseg({}) ELSE text
        d == newseg({s})
        new(y) == [ref |-> 1, type |-> y, image |-> i, map |-> Nil, lk |-> Nil,
                   memory |-> <<f, y>>]
    IN  /\ At(t, "attach")
        /\ text = Nil => NewSegs # {}
        /\ NewSegs \ {s} # {}
        /\ seg' = [seg EXCEPT ![d] = new("data"),
                              ![s] = IF text = Nil THEN new("text")
                                     ELSE [seg[s] EXCEPT !.ref = @ + 1]]
        /\ image' = [image EXCEPT ![i].s = s, ![i].ref = @ + refs]
        /\ own' = [own EXCEPT ![t] = [y \in Types |-> IF y = "text" THEN s ELSE d]]
        /\ th' = [th EXCEPT ![t] = NoLocals]
        /\ Goto(t, "idle")
        /\ UNCHANGED <<memory, pga, pager, tlb>>

(***************************************************************************)
(* Segments.                                                               *)
(***************************************************************************)
\* pexit(), and sysexec() before it attaches the new text, put the segments the
\* process has.  A process without segments stands for one that is about to
\* execute a file, and for one that exited and may be forked again.
Release(t) ==
    /\ At(t, "idle") /\ own[t] # NoSegs
    /\ th' = [th EXCEPT ![t].todo = <<own[t]["text"], own[t]["data"]>>]
    /\ own' = [own EXCEPT ![t] = NoSegs]
    /\ tlb' = [tlb EXCEPT ![t] = Unmapped]
    /\ Goto(t, "putseg")
    /\ UNCHANGED <<memory, pga, image, seg, pager>>

Putting(todo) == IF todo = << >> THEN "idle" ELSE "putseg"

\* putseg(): with the last reference the image is put, and then the pages.
Putseg(t) ==
    LET s == Head(th[t].todo)
        i == seg[s].image
        last == seg[s].ref = 1
    IN  /\ At(t, "putseg") /\ ~Locked(i)
        /\ seg' = [seg EXCEPT ![s].ref = @ - 1]
        /\ image' = IF last /\ image[i].s = s THEN [image EXCEPT ![i].s = Nil]
                    ELSE image
        /\ IF last
           THEN /\ th' = [th EXCEPT ![t].img = i, ![t].then = "putseg"]
                /\ Goto(t, "putimage")
           ELSE /\ th' = [th EXCEPT ![t].todo = Tail(@)]
                /\ Goto(t, Putting(Tail(th[t].todo)))
        /\ UNCHANGED <<memory, pga, pager, own, tlb>>

Freepte(t) ==
    LET s == Head(th[t].todo)
    IN  /\ At(t, "freepte")
        /\ IF seg[s].map = Nil THEN UNCHANGED <<page, free>>
           ELSE pga = Nil /\ putpage(page, free, seg[s].map)
        /\ seg' = [seg EXCEPT ![s] = NoSeg]
        /\ th' = [th EXCEPT ![t].todo = Tail(@)]
        /\ Goto(t, Putting(Tail(th[t].todo)))
        /\ UNCHANGED <<hash, pga, image, pager, own, tlb>>

\* procflushseg() and mmuflush(): the mappings of these processes are dropped.
Flush(S) == tlb' = [t \in Procs |-> IF t \in S THEN Unmapped ELSE tlb[t]]
Sharers(s) == {t \in Procs : own[t]["data"] = s}

\* dupseg() for the segments of a process that calls rfork(): the text is
\* shared; the data is shared (RFMEM), or copied with ptecpy().
Fork(t, u) ==
    LET x == own[t]["text"]
        d == own[t]["data"]
        n == newseg({})
        m == seg[d].map
    IN  /\ At(t, "idle") /\ pc[u] = "idle" /\ own[u] = NoSegs /\ x # Nil
        /\ seg[x].lk = Nil /\ seg[d].lk = Nil
        /\ \E share \in Rfmem :
            IF share
            THEN /\ seg' = [seg EXCEPT ![x].ref = @ + 1, ![d].ref = @ + 1]
                 /\ own' = [own EXCEPT ![u] = own[t]]
                 /\ Flush({t})
                 /\ UNCHANGED <<image, page>>
            ELSE /\ NewSegs # {}
                 /\ seg' = [seg EXCEPT ![x].ref = @ + 1,
                                       ![n] = [seg[d] EXCEPT !.ref = 1]]
                 /\ own' = [own EXCEPT ![u] = [own[t] EXCEPT !["data"] = n]]
                 /\ image' = [image EXCEPT ![seg[d].image].ref = @ + 1]
                 /\ page' = IF m = Nil THEN page
                            ELSE [page EXCEPT ![m].ref = @ + 1]
                 /\ Flush(Sharers(d))
        /\ UNCHANGED <<free, hash, pga, pager, th, pc>>

(***************************************************************************)
(* Faults.                                                                 *)
(***************************************************************************)

\* A mutant of Present: a page that is in the cache is written to.
PresentCached(t, m, g, l) ==
    LET s == l.s
        readable == g[s].type = "text" \/ (~l.write /\ g[s].ref = 1)
        ready == readable \/ m[g[s].map].ref = 1
    IN  /\ seg' = [g EXCEPT ![s].lk = IF ready THEN Nil ELSE t]
        /\ th' = [th EXCEPT ![t] =
                    IF ready THEN [NoLocals EXCEPT !.s = s,
                                    !.rights = IF readable THEN "read" ELSE "write"]
                    ELSE l]
        /\ Goto(t, IF ready THEN "mmuput" ELSE "newpage")

\* fixfault(), with the segment locked and its page there; m and g are the
\* pages and the segments, l the locals of the process.  A text page is mapped.
\* A data page is mapped as it is for reading, by the only user of the segment,
\* or if it is nobody else's; otherwise it is copied first.
Present(t, m, g, l) ==
    LET s == l.s
        p == m[g[s].map]
        readable == g[s].type = "text" \/ (~l.write /\ g[s].ref = 1)
        writable == p.ref = 1 /\ p.image = Nil
        ready == readable \/ writable
    IN  /\ seg' = [g EXCEPT ![s].lk = IF ready THEN Nil ELSE t]
        /\ th' = [th EXCEPT ![t] =
                    IF ready THEN [NoLocals EXCEPT !.s = s,
                                    !.rights = IF readable THEN "read" ELSE "write"]
                    ELSE l]
        /\ Goto(t, IF ready THEN "mmuput" ELSE "newpage")

\* pio() goes to the file, without the segment's lock; there must be one.
Load(t, l) ==
    LET c == image[seg[l.s].image].c
    IN  /\ seg' = [seg EXCEPT ![l.s].lk = Nil]
        /\ th' = [th EXCEPT ![t] = [l EXCEPT !.src = c, !.new = Nil]]
        /\ Goto(t, IF c = Nil THEN "panic" ELSE "newpage")

\* A fault, or the next try of one that found no memory: fault() locks the
\* segment and calls fixfault(), and pio() looks for the page in the cache
\* (lookpage(), the search under hashlock).
Fixfault(t, s, w) ==
    LET l == [th[t] EXCEPT !.s = s, !.write = w]
        hit == {p \in hash : /\ page[p].image = seg[s].image
                             /\ page[p].daddr = seg[s].type}
    IN  /\ seg[s].lk = Nil
        /\ IF seg[s].map # Nil THEN Present(t, page, seg, l)
           ELSE IF hit = {} THEN Load(t, l)
           ELSE /\ seg' = [seg EXCEPT ![s].lk = t]
                /\ \E p \in hit : th' = [th EXCEPT ![t] = [l EXCEPT !.new = p]]
                /\ Goto(t, "found")
        /\ UNCHANGED <<memory, pga, image, pager, own, tlb>>

Fault(t) ==
    \/ /\ At(t, "idle")
       /\ \E y \in Types, w \in BOOLEAN :
            own[t][y] # Nil /\ (w => y = "data") /\ Fixfault(t, own[t][y], w)
    \/ At(t, "fault") /\ Fixfault(t, th[t].s, th[t].write)

\* A mutant of Lookpage: the page stays on the free list.
LookpageFree(t) ==
    LET s == th[t].s
        p == th[t].new
        m == [page EXCEPT ![p].ref = @ + 1]
    IN  /\ At(t, "found") /\ pga = Nil
        /\ IF page[p].image # seg[s].image \/ page[p].daddr # seg[s].type
           THEN Load(t, th[t]) /\ UNCHANGED page
           ELSE /\ page' = m
                /\ Present(t, m, [seg EXCEPT ![s].map = p], [th[t] EXCEPT !.new = Nil])
        /\ UNCHANGED <<free, hash, pga, image, pager, own, tlb>>

\* The rest of lookpage(): another look at the page that was found, under pga.
Lookpage(t) ==
    LET s == th[t].s
        p == th[t].new
        m == [page EXCEPT ![p].ref = @ + 1]
    IN  /\ At(t, "found") /\ pga = Nil
        /\ IF page[p].image # seg[s].image \/ page[p].daddr # seg[s].type
           THEN Load(t, th[t]) /\ UNCHANGED <<page, free>>
           ELSE /\ page' = m
                /\ free' = Without(free, p)
                /\ Present(t, m, [seg EXCEPT ![s].map = p], [th[t] EXCEPT !.new = Nil])
        /\ UNCHANGED <<hash, pga, image, pager, own, tlb>>

\* pio() cannot read the page: faulterror().
ReadFails(t) ==
    /\ At(t, "read") /\ pga = Nil
    /\ putpage(page, free, th[t].new)
    /\ th' = [th EXCEPT ![t] = NoLocals]
    /\ Goto(t, "idle")
    /\ UNCHANGED <<hash, pga, image, seg, pager, own, tlb>>

\* A mutant of Read: the image's count is raised for every reader, before the
\* segment is looked at again.
ReadTwice(t) ==
    LET s == th[t].s
        i == seg[s].image
        p == th[t].new
        l == [th[t] EXCEPT !.new = Nil, !.src = Nil]
        first == seg[s].map = Nil
        m == IF first THEN [page EXCEPT ![p].image = i, ![p].daddr = seg[s].type,
                                        ![p].holds = <<th[t].src, seg[s].type>>]
             ELSE [page EXCEPT ![p].ref = 0]
    IN  /\ At(t, "read") /\ seg[s].lk = Nil /\ pga = Nil
        /\ page' = m
        /\ free' = IF first THEN free ELSE <<p>> \o free
        /\ hash' = IF first THEN hash \union {p} ELSE hash
        /\ image' = [image EXCEPT ![i].ref = @ + 1]
        /\ Present(t, m, [seg EXCEPT ![s].map = IF first THEN p ELSE @], l)
        /\ UNCHANGED <<pga, pager, own, tlb>>

\* pio() has read the page and locks the segment again; another process may
\* have been here first.  Otherwise the page is put in the cache (cachepage())
\* and in the segment.
Read(t) ==
    LET s == th[t].s
        i == seg[s].image
        p == th[t].new
        l == [th[t] EXCEPT !.new = Nil, !.src = Nil]
        m == [page EXCEPT ![p].image = i, ![p].daddr = seg[s].type,
                          ![p].holds = <<th[t].src, seg[s].type>>]
    IN  /\ At(t, "read") /\ seg[s].lk = Nil
        /\ IF seg[s].map = Nil
           THEN /\ Present(t, m, [seg EXCEPT ![s].map = p], l)
                /\ page' = m
                /\ image' = [image EXCEPT ![i].ref = @ + 1]
                /\ hash' = hash \union {p}
                /\ UNCHANGED free
           ELSE /\ pga = Nil /\ putpage(page, free, p)
                /\ Present(t, page, seg, l)
                /\ UNCHANGED <<hash, image>>
        /\ UNCHANGED <<pga, pager, own, tlb>>

\* copypage() and putpage() of the old page.
Copy(t) ==
    LET s == th[t].s
        p == th[t].new
        old == seg[s].map
    IN  /\ At(t, "copy") /\ pga = Nil
        /\ putpage([page EXCEPT ![p].holds = page[old].holds], free, old)
        /\ seg' = [seg EXCEPT ![s].map = p, ![s].lk = Nil]
        /\ th' = [th EXCEPT ![t] = [NoLocals EXCEPT !.s = s, !.rights = "write"]]
        /\ Goto(t, "mmuput")
        /\ UNCHANGED <<hash, pga, image, pager, own, tlb>>

\* After the segment is unlocked the page that is then in its map is mapped.
Mmuput(t) ==
    LET s == th[t].s
    IN  /\ At(t, "mmuput") /\ seg[s].map # Nil
        /\ tlb' = IF seg[s].type = "text" THEN tlb
                  ELSE [tlb EXCEPT ![t] = [page |-> seg[s].map,
                                           rights |-> th[t].rights]]
        /\ th' = [th EXCEPT ![t] = NoLocals]
        /\ Goto(t, "idle")
        /\ UNCHANGED <<memory, pga, image, seg, pager, own>>

\* The process writes to its data segment.
Store(t) ==
    LET s == own[t]["data"]
    IN  /\ At(t, "idle") /\ tlb[t].rights = "write"
        /\ page' = [page EXCEPT ![tlb[t].page].holds = <<"stored", s>>]
        /\ seg' = [seg EXCEPT ![s].memory = <<"stored", s>>]
        /\ UNCHANGED <<free, hash, pga, image, pager, own, tlb, th, pc>>

(***************************************************************************)
(* The pager: kickpager().                                                 *)
(***************************************************************************)

\* pageout() of a text segment whose users are all off their processors; it
\* gives up where a lock is taken.
Pageout(t) ==
    /\ At(t, "pageout") /\ pga = Nil /\ th[t].then = Nil
    /\ \E s \in Segs :
        /\ seg[s].type = "text" /\ seg[s].lk = Nil /\ seg[s].map # Nil
        /\ own[t]["text"] # s /\ \E u \in Procs : own[u]["text"] = s
        /\ putpage(page, free, seg[s].map)
        /\ seg' = [seg EXCEPT ![s].map = Nil]
    /\ UNCHANGED <<hash, pga, image, pager, own, tlb, th, pc>>

\* kickpager() returns: to newpage()'s loop, or to fault(), which tries again.
Kicked(t) ==
    /\ pager' = Nil
    /\ th' = [th EXCEPT ![t].then = Nil]
    /\ Goto(t, IF th[t].src = Nil THEN "fault" ELSE "newpage")

\* tryalloc(): what can be allocated is put on the free list.
Tryalloc(t) ==
    /\ At(t, "pageout") /\ pga = Nil
    /\ \E p \in Pages :
        /\ ~page[p].alloc
        /\ putpage([page EXCEPT ![p] = Fresh], free, p)
    /\ Kicked(t)
    /\ UNCHANGED <<hash, pga, image, seg, own, tlb>>

\* freepages(): the first page of the free list goes back to physical memory.
Freepages(t) ==
    /\ At(t, "pageout") /\ pga = Nil /\ th[t].then = Nil
    /\ free # << >> /\ \A p \in Pages : page[p].alloc
    /\ free' = Tail(free)
    /\ page' = [page EXCEPT ![Head(free)] = NoPage]
    /\ th' = [th EXCEPT ![t].then = "freed"]
    /\ UNCHANGED <<hash, pga, image, seg, pager, own, tlb, pc>>

\* Nothing can be freed, or it was taken by another process: the caller tries
\* again for a page of any colour; if that is what it did the kernel panics.
NoMemory(t) ==
    /\ At(t, "pageout") /\ (free = << >> \/ th[t].then = "freed")
    /\ \A p \in Pages : page[p].alloc
    /\ Kicked(t) \/ (Goto(t, "panic") /\ UNCHANGED <<pager, th>>)
    /\ UNCHANGED <<memory, pga, image, seg, own, tlb>>

Halt == Stopped /\ UNCHANGED vars

Next ==
    \/ \E t \in Procs :
        \/ NewpageReuse(t) \/ NewpageAlloc(t) \/ NewpageKick(t) \/ Kickpager(t)
        \/ Putimage(t) \/ PutimageUnname(t) \/ PutimageUnhash(t)
        \/ Exec(t) \/ Imagereclaim(t) \/ Pagereclaim(t) \/ Attach(t)
        \/ Release(t) \/ Putseg(t) \/ Freepte(t)
        \/ \E u \in Procs : Fork(t, u)
        \/ Fault(t) \/ Lookpage(t) \/ Read(t) \/ ReadFails(t) \/ Copy(t)
        \/ Mmuput(t) \/ Store(t)
        \/ Pageout(t) \/ Tryalloc(t) \/ Freepages(t) \/ NoMemory(t)
    \/ Halt

Spec == Init /\ [][Next]_vars

-----------------------------------------------------------------------------
Held(p) == {t \in Procs : th[t].new = p /\ pc[t] \in {"read", "copy"}}
Mapped(p) == {s \in Segs : seg[s].map = p}
\* The page that is being taken out of the cache with pga held.
Leaving(p) ==
    \E t \in Procs : th[t].new = p /\ pga = t /\ pc[t] \in {"putimage", "unname", "unhash"}

(***************************************************************************)
(* A page's references are the segments that have it and the faults that   *)
(* hold it, and it is on the free list, once, exactly when there are none: *)
(* no page is lost, and none is free that somebody uses.                   *)
(***************************************************************************)
PagesCounted ==
    \A p \in Pages : page[p].alloc =>
        /\ page[p].ref = Cardinality(Held(p)) + Cardinality(Mapped(p))
        /\ Leaving(p) \/ Cardinality({i \in DOMAIN free : free[i] = p}) =
                            IF page[p].ref = 0 THEN 1 ELSE 0

\* The segments and the cached pages for which putimage() was not called yet.
PutAlready == {"unname", "unhash", "freepte"}
Users(i) ==
    {s \in Segs : seg[s].image = i /\
        ~\E t \in Procs : pc[t] \in PutAlready /\ th[t].todo # << >>
                                               /\ Head(th[t].todo) = s}
Cached(i) ==
    {p \in Pages : page[p].image = i /\
        ~\E t \in Procs : pc[t] \in PutAlready /\ pga = t /\ th[t].new = p}

(***************************************************************************)
(* An image's references are its segments and its cached pages, and it is  *)
(* free when there are none; the hash chain has every cached page, once,   *)
(* so that uncachepage() finds it.                                         *)
(***************************************************************************)
ImagesCounted ==
    PageLost \/
    /\ \A i \in Images :
        /\ image[i].ref = Cardinality(Users(i)) + Cardinality(Cached(i))
        /\ image[i].ref > 0 => image[i].c # Nil
        /\ image[i].ref = 0 /\ (\A t \in Procs : th[t].img # i) => image[i].c = Nil
    /\ hash = {p \in Pages : page[p].image # Nil /\ ~Leaving(p)}

(***************************************************************************)
(* A process finds in a segment what the file has, or what was stored      *)
(* there by a process that has the segment: not another file's page, not a *)
(* page in use for something else, and nothing a parent or child stored.   *)
(***************************************************************************)
OwnMemory ==
    /\ \A s \in Segs :
        seg[s].map # Nil => page[seg[s].map].holds = seg[s].memory
    /\ \A t \in Procs :
        pc[t] = "idle" /\ tlb[t].page # Nil =>
            page[tlb[t].page].holds = seg[own[t]["data"]].memory

=============================================================================
