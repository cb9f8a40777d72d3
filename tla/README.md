# A model of the NIX kernel's processes, memory and channels of communication

The repository is a Plan 9 kernel (the NIX line: `port/` portable code, `ip/` the
network stack, `k10/` amd64, `bcm/`, `kw/`, `omap/` ARM, `boot/`). This directory
holds TLA+ models of its core: how processes are scheduled, put to sleep, woken,
interrupted by notes, made to meet, created and buried; how the kernel's locks pass
from one to the next and timers expire; how pages are shared, loaded and given back;
how processes and drivers pass data through queues; how many processes share one
connection to a 9P server; and how the IL protocol makes a reliable conversation
over a network that is not. They are written from the C code, one action per piece
of code that is atomic with respect to the others. TLC checks them on small
instances, and TLAPS proves their invariants for every number of processes, except those
of IL and two of the three of memory.

## 1. Inventory

### What is modelled

| Part | Code | State | Operations | What is hard |
|---|---|---|---|---|
| sleep and wakeup | `port/proc.c` | `r->p`, `p->r`, `p->state`, `p->mach`, `notepending`, the locks of Rendez and Proc | `sleep`, `wakeup`, `postnote` | opposite lock orders, a context switch that is late, wakeups from interrupt handlers, notes |
| RWlock | `port/qlock.c` | `readers`, `writer`, the line of waiters | `rlock`, `canrlock`, `runlock`, `wlock`, `wunlock` | the lock is handed on after `q->use` is released; readers are let in one by one |
| QLock | `port/qlock.c` | `locked`, `head`, `tail`, `qnext` | `qlock`, `canqlock`, `qunlock` | pointer list, hand-over outside `q->use` |
| spin locks | `port/mcslock.c` | the queue of each lock, the entries `m->locks` | `lock`, `canlock`, `unlock`, `ilock`, `iunlock` | no lock underneath; interrupt handlers share the entries |
| user semaphores | `port/sysproc.c` | the value in user memory, the waiters of a segment, their flags | `semacquire`, `tsemacquire`, `semrelease` | flags without a lock, wakeups that must be passed on, structures on other processes' stacks |
| rendezvous | `port/sysproc.c`, `postnote` | the group's chain, `rendtag`, `rendval` | `sysrendezvous`, `postnote` | unlocked test in `postnote`, partner still on its stack |
| creation, exit, wait | `port/proc.c`, `port/sysproc.c`, `port/ps.c` | process slots, `pid`, `parent`, `nchild`, `waitq`, the broken list | `newproc`, `sysrfork`, `pexit`, `pwait`, `addbroken`, `unbreak` | parents found by slot while slots are reused; records limited to 128 |
| timers | `port/portclock.c`, `tsleep` | the list and one-shot clock of each processor, `p->trend` | `timeradd`, `timerdel`, `timerintr`, `tsleep`, `twakeup` | timers on other processors' lists; handlers that run after the list is released |
| scheduler | `port/proc.c` | run queues, `runvec`, `m->readied`, `p->mp`, `p->wired` | `ready`, `schedinit`, `sched`, `runproc`, `dequeueproc`, `rebalance`, `yield`, `preempted`, `hzsched`, `procwired` | a search without the lock, processes queued while on a stack, processor colours |
| pages, images, segments | `port/page.c`, `image.c`, `segment.c`, `fault.c`, `pager.c` | pages with their counts, the free list, the hash of cached pages, images, segments, mappings | `newpage`, `putpage`, `lookpage`, `cachepage`, `uncachepage`, `attachimage`, `putimage`, `putseg`, `dupseg`, `fault`, `pio`, `kickpager` | locks dropped while a file is read or memory is short; counts dropped before the lock; a cache that refers to free pages |
| queues | `port/qio.c` | the blocks, `len`, `dlen`, `limit`, Qstarve, Qflow, Qclosed | `qwrite`, `qread`, `qbread`, `qget`, `qconsume`, `qdiscard`, `qproduce`, `qpass`, `qiwrite`, `qhangup`, `qclose`, `qreopen`, `qflush`, `qsetlimit`, `qnoblock` | flow control in several critical sections; copies made outside of them; drivers that stop and must be kicked |
| mount driver | `port/devmnt.c` | the queue of requests, the reader `mnt->rip`, headers and tags | `mountrpc`, `mountio`, `mountmux`, `mntgate`, `mntflushalloc`, `mntflushfree`, `mntqrm`, `mntralloc`, `mntfree` | one process reads for all; notes turn a call into a flush; tags are used again |
| IL | `ip/il.c` | the control block at both ends, packets under way | `ilconnect`, `ilkick`, `iliput`, `ilprocess`, `ilackto`, `ilpullup`, `iloutoforder`, `ilrexmit`, `ilackproc`, `ilclose`, `iladvise` | loss, duplication, overtaking, packets of earlier conversations, a timer process without the lock |

How they interact: every part blocks with `sleep` (or with `sched` and a state of its
own: QLock, RWlock, rendezvous) and resumes by `ready`; `sleep`, `wakeup`, the run
queues and the rendezvous groups are protected by spin locks; `tsleep` is `sleep`
plus a timer, `tsemacquire` uses it; `postnote` reaches into `sleep`, rendezvous and
waiting; queues, the mount driver and the segments' locks are built on `sleep` and
QLock; `rfork` and `exec` make and release segments; IL hands its messages to queues.
Each module has the parts below it by their contract: the users of `sleep`/`wakeup`
take the test of the condition and going to sleep as one step and a wakeup of somebody
awake as void, which is what `NoLostWakeup` and the theorem RendezSynchronized
establish; the users of spin locks take a critical section as one step where nothing
outside looks in, and as several where something does.

What makes each of them correct:

* sleep/wakeup: no event and no note is lost between the test and the sleep, a
  process never runs on two processors, the panics are unreachable.
* locks: exclusion, nobody stranded in a line that nobody serves, order of arrival.
* semaphores: units conserved, no sleeper left while units are there.
* rendezvous: partners exchange values, no two wait under one tag, one `ready` per wait.
* exit/wait: `nchild` and the records agree with the children that exist, nobody
  waits in vain.
* timers: lists sorted and consistent, a clock set for the first timer, timeouts come.
* scheduler: a process is in one run queue exactly when it is ready, is taken by one
  processor, and waits where somebody allowed to run it will look.
* memory: a page is free exactly when nobody refers to it, an image lives as long as
  its segments and cached pages, and a process finds its own memory there.
* queues: bytes come out as they went in; no reader, writer or driver waits for a
  wakeup that nobody will give.
* mount driver: a call gets the reply to its own request or was truly flushed; the
  place of the reader is never left empty with everyone asleep.
* IL: a reliable ordered stream between two ends that accepted each other; what is
  acknowledged was delivered; nobody waits for ever.

### What is not modelled

`PROJECT.json` lists every other part with the reason. In short: device drivers and
machine support (most of the repository's lines) are conversations with hardware that
the repository does not describe; formatting, drawing, cryptography and arithmetic
have no protocol; `syssem.c` is in no configuration and does not link. The remaining
candidates are in the plan below.

Inside the modelled parts these are left out: the arithmetic of
`updatecpu`/`reprioritize` (any priority may result), delayed calls of `sched`
(`nlocks`), EDF, Moribund processes and `procwired`'s panic when another process
has rewired the caller by the time it runs again in `Scheduler`; addresses in
`Semaphore` (one semaphore, so that `semwakeup`'s test of the address is always true); the copying of groups by `rfork`, the pid hash, kprocs and `devproc`'s
wait file in `ExitWait`; processes that leave their rendezvous group;
`addclock0link`; lock statistics and debugging queries; page sizes, colours,
`auxpage`, bss, stack, shared and physical segments, `segattach`, `ibrk` and faults past
the end of the file (`pio`'s `ask < 0`) in `Page`; `qcopy`, `qbypass`, `qkick` by Qkick
(which only adds kicks) and block manipulation (`padblock`, `pullupblock`) in
`Qio`; `mntversion`, the opening and closing of a `Mnt`, the contents of 9P messages, writes
cut short and malformed replies on a connection that stays up, and a `mntralloc` that finds
no memory in `Mnt`; the arithmetic of round-trip times, checksums, the hash of
conversations and the status files in `Il`.

Some steps are coarser than the code where nothing the properties see lies in between:
`rebalance` takes the process it has looked at in one step (`dequeueproc` looks again);
`Mnt!FlushFree` joins the test of `done` and the change of the reply's type, and `Interrupted`
joins `mntgate` and `mntflushalloc`; `ilkick` tests the state and appends in one step, and a
round of `ilackproc` for one conversation is one step that may act on an earlier state. Some
are finer or looser: `qdiscard` takes one block at a time; `pageout` may take any page of a
text segment, also one that its reference bit would spare; a page of the right colour may
be missing or there. `qclose` is taken only while no reader is inside (section 4).

## 2. Modules

| Module | Models | Granularity |
|---|---|---|
| `SleepWakeup` | `sleep`, `wakeup`, the sleep part of `postnote` | one step per lock taken or released; a waker is a processor or a handler that interrupted a process; the switch away from the stack (`SleepSwitch`) is a step of its own |
| `Timers` | timer lists, one-shot clocks, `tsleep` | one step per critical section of a list; `twakeup` in two steps, because it has no lock |
| `MCSleep`, `SleepProofs` | the two above for TLC; theorems about both | |
| `RWlock` | the RWlock | one step per critical section of `q->use`; `ready` and each turn of `wunlock`'s loop are steps of their own |
| `QLock` | the QLock with its pointers | as above |
| `FifoLock` | abstract: an owner and a line | specification `QLock` implements |
| `MCQlocks`, `QlocksProofs` | RWlock and QLock for TLC; theorems about both | |
| `Mcslock`, `MCMcslock`, `McslockProofs` | the queue lock; theorems | one step per memory access that others can see; a base thread and a handler per processor |
| `Semaphore` | user semaphores | one step per compare-and-swap, flag access and critical section |
| `Rendezvous` | `sysrendezvous`, the rendezvous part of `postnote` | one step per test, critical section and context switch |
| `MCSync`, `SyncProofs` | the two above for TLC; theorems about both | |
| `Scheduler`, `MCScheduler`, `SchedulerProofs` | run queues and processors; theorems | one step per critical section of a run queue; `runproc`'s search apart from `dequeueproc` |
| `ExitWait` | process slots from `newproc` to `schedinit`'s release | one step per critical section of `exl`, `debug` and the free list |
| `Page`, `MCPage` | pages, images, segments, faults, the pager | one step per spin lock held; `pga`, which `newpage` and `pagereclaim` hold while they call `putimage`, over several |
| `MCProcess`, `ProcessProofs` | the two above for TLC (`Page` extended, `ExitWait` instantiated as `E`); theorems about both | |
| `Qio`, `MCQio`, `QioProofs` | a queue in each of its uses; theorems | one step per critical section of `ilock(q)`; wakeups and copies are steps of their own |
| `Mnt`, `MntProofs` | the calls over one connection, and the server; theorems | one step per critical section of `lock(m)`, message, sleep and wakeup |
| `Il`, `MCIl` | both ends of a conversation and the network | one step per packet handled (under the conversation's lock), write, close and round of `ilackproc` |
| `Reliable` | abstract: a reliable stream each way | specification `Il` implements |

The comment in front of each definition says what it stands for, and the `map` in
`PROJECT.json` gives the lines. Variables have the names of the C fields. Where a
variable has no counterpart it is a program counter (`pc`, `cpc`, `ipc`), a local
variable of a C function, or history that only properties read (`owed` in
`Semaphore`, `due` in `Rendezvous`, `kin` in `ExitWait`, `memory` and `holds` in `Page`,
`next` in `Qio`, `executed` in `Mnt`, `mate`, `wrote` and `got` in `Il`). Definitions
called mutants are slips the code could have had; they are not part of any `Next`
and each makes one of the properties fail when it takes the place of the definition
after it.

Four of the MC modules put two components side by side. A variable `kind` says which
of them a behaviour is about; the other stays in its initial state. This checks both and nothing about their interaction,
which is by contract as described above. In `MCProcess` the memory has two kinds of
behaviours: `files`, in which two processes execute two files and read text and data, and
`sharing`, in which a third one executes a file and all three share, fork and write its data.

### State and actions

*SleepWakeup.* `rp`, `pr` are `r->p`, `p->r`; `holder` the holders of the spin locks;
`queued` counts how often a process is linked into a run queue and `oncpu` how many
processors execute it, so that making somebody ready twice shows. `sleep` is
SleepEnter, SleepLockRendez, SleepLockProc, SleepCondition, then SleepCommit or
SleepNeverMind, SleepUnlock, SleepSwitch, and after Dispatch SleepReturn. `wakeup` is
WakerCall, WakeupLockRendez or WakeupNobody, WakeupLockProc, WakeupReady.
`postnote` takes the locks the other way round and retries: PostnotePend,
PostnoteSplhi, PostnoteLockProc or PostnoteAwake, PostnoteReady or PostnoteRetry.
A Rendez has one sleeper at a time: that is the callers' obligation (`sleep` prints
"double sleep" otherwise), so SleepEnter is only taken for a Rendez nobody uses.

*RWlock, QLock.* `pc` and `state` say where a process is, `hand` the process an
unlocker has picked and not yet made ready. `QLock` keeps `head`, `tail` and `qnext`
as the code does; `Line` is the sequence
that the pointers spell out (`Linked`), for the refinement mapping.

*Mcslock.* A thread is a processor's base level or its handler. `used`, `next`,
`locked` are the fields of the entries in `m->locks`; `pl` the stack of locks held
with the interrupt level to restore.

*Semaphore.* AcquireNow or AcquireBlock, semqueue, SetWaiting, TryAgain, Sleep,
SleepBack, semdequeue, PassOn, AcquireReturn for an acquirer; semrelease and the
steps of semwakeup for a releaser. The timeout is kept in an int as the code does
(`AsInt`).

*Rendezvous.* RendezvousCall, RendezvousLock (search), RendezvousMatch and
RendezvousReady with a partner, RendezvousWait, RendezvousCommit, RendezvousSched
without; PostNote, PostNoteState (the test without a lock), PostNoteLock, PostNotePull.

*ExitWait.* A slot goes through free, new, run, exit, (broken), die, dead. Pids come
from a counter; a dead slot has pid 0 until its next process has one.

*Timers.* Times are relative to the present, so that the state space is finite; Tick
moves all of them. `hw` is when a processor's clock interrupts, `Never` if it is not set.

*Scheduler.* `cpc` says where a processor is in schedinit, runproc and sched; `pick`,
`pickq` are what it found and where. `sch` is the colouring, any in `Init`. A process wires
itself (WireSelf), or its wire is set or cleared through `/proc/n/ctl` (WireOther, WireClear),
which leaves it in the queue it is in: `rewired` remembers those that were Ready then.

*Page.* A process has a text segment, shared through the file's image, and a data
segment of its own, each of one page. Exec and Attach are `attachimage` and what
`sysexec` does after it; Release, Putseg, Putimage, PutimageUnname, PutimageUnhash
and Freepte take a segment away, lock by lock. A fault is Fault (`fixfault` up to the
search of `lookpage`), then Lookpage, or newpage in one of its three ways and Read
(the rest of `pio`), Copy where the page must not be written, and Mmuput. Kickpager, Pageout,
Tryalloc, Freepages and NoMemory are `kickpager`. `memory` is what a segment should
hold and `holds` what a page does hold. `StopAt` says at which of four known errors a
behaviour ends (section 4); without one of them the model goes on as the kernel would.

*Qio.* `use` says who is at the ends of the queue and which operations they use; the
queue `q` has the blocks with the numbers of their bytes. QBWrite, QBWriteSet and the
steps of WriterStep are `qbwrite` and its flow control; QRead, QReadSleep, QReadDone
and QReadWakeup are `qread` and `qbread`; DriverProduces, DriverTakes and DriverWakeup
are the driver's end.

*Mnt.* A header is named by its tag, as the code keeps the two together. A call is
Start, Enqueue, Write, Gate, then Sleep and Back or mountmux with MuxWakeup, and
ReadDone, FlushFree, mntqrm, Return; WriteIntr, SleepIntr and ReadIntr are the places
where a note interrupts it and a flush is sent instead. `srv` is the set of messages the
server has: it answers them in any order, with a flush it drops the request and the
earlier flushes of that call (`nth` tells the messages of a call in their order), and
it may hang up. A message carries whether its header has been freed since (`live`), so
that a stale reply can be told from the reply to a later use of the tag.

*Il.* `cb` is the control block of the present conversation at either end. ilprocess is
a function from a control block and a packet to a new control block, packets to send and
messages to pass up, one definition per state, as in the code's `switch`. `seen` has
the states `ilackproc` may have read before it acts. `plan` bounds what the processes
and the network do in a behaviour.

## 3. Runs

| Run | Instance | Shows |
|---|---|---|
| `sleep` | 2 processes, 1 Rendez, 2 wakers, 1 note poster; or 1 process with timeouts, 2 Rendezes, 2 processors with their HZ timers; fair | OneStack, NoLostWakeup, NoLostNote; ListsOK, Armed; SleepsEnd |
| `qlocks` | 4 processes at an RWlock or a QLock, fair | Exclusion, NoneStranded; FifoSpec (QLock implements FifoLock); Served |
| `mcslock` | 2 processors with handlers, 2 locks, one of them an interrupt lock, 2 entries | Mutex, EntriesOK, HandedOn |
| `process` | 3 slots, 4 pids, 2 records, 1 place in the broken list, 1 poster; or 2 processes that read 2 files, 2 pages, 2 images; or 3 processes, 1 file, 3 segments, fork with and without RFMEM | ChildrenKept, NeverWaitsInVain; PagesCounted, ImagesCounted, OwnMemory |
| `sync` | 2 acquirers, 1 releaser of 1 or 2 units, timeouts 0 and 1, notes; or 3 processes at a rendezvous, 1 tag, 1 poster; fair | Conservation, SemaAlive; NoMissedMeeting, Exchange, SingleStack; SleeperServed, MeetingCompletes |
| `scheduler` | 3 processes, 1 of them wired at a time, 2 processors, every colouring with 2 Scheds, 2 priorities | OneProcessor, QueuesOK, Servable |
| `page_image` | 1 image, and behaviours go on after `putimage`'s race | OwnMemory fails |
| `page_share` | 3 processes, 1 file, and behaviours go on after `fixfault`'s race with a fork | OwnMemory fails |
| `mnt` | 2 processes, one of them sent notes, 2 flushes a call, 4 tags, 1 header kept, fair | OwnReply, NoneStranded; RpcReturns |
| `qio` | 1 writer, 2 readers, a driver, 7 kinds of queues, fair | ReaderKept, WriterKept, OutputKept, InOrder; WriterResumes |
| `qio_console` | 1 writer and the kernel's prints on a console queue | WriterKept fails |
| `il` | 2 ends, 9 loads, 2 packets under way, 1 of an earlier conversation with lower ids, fair | AckedDelivered, Agreed; ReliableStream (Il implements Reliable); Settles |

Why the bounds are enough. The conflicts in `sleep` are between one sleeper, two
parties that want to wake it and one note; a second process is there for a Rendez
that changes its sleeper. The delays of `tsleep` (1 and 3) lie on both sides of the HZ
period (2), so a process's timer is first in its list as well as last; the clock may
be served one tick late. Two Rendezes let a late `twakeup` refer to another one than
the present sleep's. `RWlock` with four processes has two readers let in together
while a writer and another reader wait; `QLock` needs three in line to have a head, a
middle and a tail. Two processors are all that two threads need to meet at a lock;
two locks held one inside the other, by a thread or by a thread and the handler on top of
it, use up both entries. Three slots
with four pids let a parent die and its slot be reused before its child exits; two
records make the limit reachable (with five pids, 4.4 million states, the properties
of ExitWait hold, too). In a rendezvous a third process makes it possible that a
caller meets somebody other than the one a poster saw. In `scheduler` two processors
and three processes give a process found by one and taken by the other, while a third
waits; one wired process at a time is moved, wired again and cleared by the others.

In `process` two pages are fewer than the four that two processes can use, so memory
runs out, pages are taken out of the cache and the pager runs; two images are fewer
than needed when both files are cached and a third segment is made, so images are
reclaimed. Three processes are what it takes for a segment to be shared and forked at once
(one process looks at a page, one forks, one is the child); there the run has them fault on
data only, two of them at a time, since the text is in the other behaviours. `MaxFree` 0 lets
`putpage` give pages back. In `mnt` the second process reads
the replies of the first and frees and reuses its tags; two flushes make a chain; one
header kept on the free list is fewer than are used. In `qio` blocks of 2 bytes, reads
of 1 and 3, and limits of 4 and 2 split blocks, join them and fill the queue with two
or one; 8 numbers tell apart more bytes than the queue and a reader can have. In `il`
two packets under way are enough for one to overtake or duplicate another, and each
load has what is needed for one kind of conflict; with three packets the safety
properties hold for two writes (1.1 million states, `MaxRexmit` 0) and three writes (3.4 million).
One packet of an earlier conversation is under way in four of the loads, of any type, to
either end; two of them have the old acknowledgements, queries and answers meet a message of
either end that was not delivered yet. Its ids are lower than the new ones: with higher ones
AckedDelivered is false (section 4). `MaxRexmit` 1 gives an end two repetitions and a call
with `!fasttimeout` one less.

Deadlock is checked in all runs but `scheduler`, where a failed assertion in `sched`
(below) stops the processor, as in the code, and `il`, where a conversation that is over
stays so. In `Page` a kernel that has panicked stays so (`Halt`). Symmetry is used in the
runs without liveness: `mcslock` (processors), `scheduler` (processes, Scheds)
and `process` (processes, pages, files, images).

Fairness. A processor executes its instructions, so the steps inside a kernel routine
are weakly fair; where a step needs a spin lock others keep taking, it is strongly
fair, because mcslock grants in order of arrival (`lock(m)` in `Mnt`; in `sync`
the steps of a semaphore's acquirers and releasers and the search of a rendezvous group). Where it needs a
QLock (`rlock` in `Qio`) it is, too, because QLock implements FifoLock. Ready processes
are run (weak fairness of Dispatch, Resume): `runproc` searches by priority, so this
assumes that higher priorities do not starve lower ones for ever, which `rebalance` and
the decay of priorities are there for. Owners of locks release them. In `Timers`,
interrupts are taken and clocks advance; a process step is strongly fair, since
interrupts come again and again and each ends. In `Mnt` the server answers every request;
RpcReturns leaves out a connection that is down. In `Qio` somebody keeps reading and
drivers go on, but nobody is obliged to write. In `Il` `ilackproc` goes round for ever and
a timeout that is set comes: packets put it off, but the network does not duplicate one
for ever, and it need not deliver any. Nobody is obliged to call anything, to release a
semaphore, to post a note or to close.

Refinement. `QLock!FifoSpec` maps the pointer list to a sequence and the owner to whoever
holds the lock or is being handed it. `Il!ReliableStream` maps what the processes at the
two ends see: whom each took for its peer, how many messages it wrote and which it read;
control blocks, packets and timers are hidden.

## 4. Where the code does not do what it says

Three runs end with a counterexample:

* `page_image`. `putimage` drops the last reference to an image (`port/image.c:215`)
  before it locks it. An `attachimage` in the gap finds the image by its qid and makes
  a text segment for it; then `putimage` clears the qid and marks the image "unused in lru
  list" (`:230`). The next `exec` of another file takes the image while it is in use
  and sets `i->c`, and a fault in the first process loads a page of the wrong file.
* `page_share`. `fixfault` looks at a page (`port/fault.c:153`), finds that it is the
  segment's alone, unlocks the segment and maps the page for writing
  (`:191-195`). A process that shares the segment (RFMEM) may fork in between: its
  `procflushseg` comes before the mapping is made, and what the first process stores is seen
  by the child. The comment in `sysrfork` says that such mappings are "stale" and have "to be
  discarded" (`port/sysproc.c:185-187`).
* `qio_console`. `qiwrite`, by which the kernel prints, fills a console's output queue
  without setting Qflow (`port/qio.c:1402`). A writer that has set Qflow may be overtaken
  by a driver that clears it and by prints that fill the queue again, and then sleeps
  with nobody to wake it as the queue drains.

What follows is in the models, too, and TLC shows it with the changes given:

* In the same place (`port/fault.c:191-195`) the pager may have set `*pg` to nil: the kernel
  follows a nil pointer. (Page: remove "map" from `StopAt` and state `~MapLost`.)
* `freepages` gives the first free page back without `uncachepage`
  (`port/pager.c:192-197`): a cached page leaves a pointer to freed memory in the hash
  chain. In the same way `lookpage` may lock a page that `putpage` has released. (Page:
  remove "page" from `StopAt` and state `~PageLost`.)
* `pageout` goes through a table with `pg < l->last` (`port/pager.c:119`); everywhere else
  it is `<=`. The last page of a table is never paged out.
* `pexit` tells whether its parent is alive by `p->pid == up->parentpid`
  (`port/proc.c:1186`). An RFNOWAIT child has parentpid 0 and a dead slot has pid 0, so
  the child of a dead parent finds it alive; if `newproc` has reset the counts of
  that slot already, the next process in it starts with `nchild = -1` and a
  stranger's record. (ExitWait: `RforkNowait = {TRUE, FALSE}`; NchildCounts fails.)
* `timerintr` says that a `timerdel` waits until the handler is done with a timer
  (`port/portclock.c:192-195`), but sets `t->tt = nil` and releases the list before it
  calls the function. On two processors the owner can return from `tsleep`, begin
  another and go to sleep, and then the old `twakeup` clears `p->trend`: the new timeout
  finds nobody to wake. `TsleepEnds`, a part of SleepsEnd, names this state, `TimeoutLost`, and is true of the
  others.
* `sched` asserts that the process it runs is not wired to another processor
  (`port/proc.c:236`). `runproc` checks the affinity in its search, without the lock
  (`:604`); `dequeueproc` does not check it again. A process that runs elsewhere in
  between, wires itself and comes back to the same queue trips the assertion: the
  processor stops in `Scheduler`, which a check for deadlock shows.
* `procwired` of another process changes `p->wired` and `p->mp` and no more
  (`port/proc.c:764-772`, from `port/devproc.c:1562`); a process that is Ready then stays in
  the queue it is in, which no processor that may run it looks into, unless `rebalance` moves it. (Scheduler: Servable without `\ rewired` fails.)
* `systsemacquire` keeps an unsigned timeout in an int (`port/sysproc.c:1110`), so a very
  large timeout can take a unit and report a time-out. (Semaphore: `Timeouts` = {0, 1, 2, 3};
  Conservation fails.)
* `mountio`: a process that `mntgate` has chosen as the next reader and that a note
  interrupts before it runs sends its flush without being the reader; if that write
  fails because the connection is gone, it leaves without calling `mntgate`
  (`port/devmnt.c:784`), and the others stay asleep. (Mnt: three processes, and
  NoneStranded without `conn = "up"`.)
* `qconsume` passes over empty blocks, which count in `q->len`, and returns -1 without
  waking a writer (`port/qio.c:560`). `qread` does the same with the empty blocks of a
  queue that coalesces (`:1154`). (Qio: `Empties = {"output"}`; WriterKept fails.)
* `qsetlimit` changes the limit without the queue's lock (`port/qio.c:1545`), and the
  `q` command of a serial line (`port/devuart.c:536`) and a change of the link
  (`k10/ether8169.c:932`) lower it on output queues in use. A writer has set Qflow on a full
  queue; the driver drains it to less than half of the old limit, clears Qflow and wakes
  nobody; the limit is lowered to less than what is left; the writer sleeps with Qflow
  clear, and nobody wakes it. The proof of WritersWoken has this as a hypothesis. (Qio:
  kind "output", `Sizes = Wants = {3}`, `Inilim = 8`, `Limits = {2}`, `MaxLen = 9`;
  WriterKept fails.)
* `qclose` empties a queue while a `qread` copies; the rest of its block is put back into
  the closed queue (`port/qio.c:1446`). `ip/ipifc.c:208` closes a queue that may have
  readers.
* IL takes ids as unsigned numbers and has no upper bound for an acknowledgement
  (`ip/il.c:520`): a packet of an earlier conversation with larger ids acknowledges
  messages that never arrived. (`Il.cfg` with `OldC` = 50, `OldS` = 60; AckedDelivered fails:
  the old acknowledgement reaches a caller whose message is still under way.)
* IL drops an Ildata when the reader's queue is full, to "avoid consuming all the mount
  rpc buffers in the system", but not an Ildataquery (`ip/il.c:729-748`); an Ilsync with other ids in state Ilsyncee closes
  the conversation without hanging up its queues (`:689`), which an Ilclose there does (`:713`); `ilackproc` looks at a
  conversation's state without its lock and acts on it later (`:1154`), which the model has
  and the properties stand.
* `schedinit` resets `m->proc` before `ready(up)`, so a preempted process becomes
  `m->readied`, which `preempted` had just reset "to avoid cooperative scheduling".

## 5. Proofs

TLAPS proves, for all values of the constants:

* `SleepProofs`, about `SleepWakeup`: TypeCorrect, RendezSynchronized, PanicFree, SingleStack,
  WakeupsNotLost, NotesNotLost. Assumption: the sets of processes, Rendezes, wakers
  and posters are disjoint and do not contain Nil. Inductive invariant: `TypeOK`; `Calls`
  (what each thread's arguments and locals are at each point); `LockHolders` (a lock is
  held exactly by threads at the points where the code holds it); `States` (which
  `p->state`, `queued`, `oncpu` go with which point of `sleep`); `Links` (`r->p` and
  `p->r` point to each other outside critical sections); `EventNoticed` and `NoLostNote`.
  The links are needed because `wakeup` and `postnote` reach the process by
  different ways; the states because the process may be made ready before it has
  left its stack.
* `SleepProofs`, about `Timers`: TimerLists (each processor's list is in the order of
  `twhen`, has nobody twice and has just the timers whose `tt` says so) and ClockArmed (a
  list with timers is served: its clock is set for the first of them or earlier, or the
  interrupt that will set it is under way), for any processors, processes and times. Inductive
  invariant: `T!TypeOK`; `TLists` (`ListsOK` with `tt` spelled out: a timer is in at most
  one list and `tt` names it); `T!Armed`; `TExtra` (every time is less than `Never`, which stands for a
  clock that is not set; a handler at work has a process's timer in its hands). ClockArmed needs the order, because `timeradd` looks only at
  the first timer when it decides about the clock. The work is in three lemmas about the
  list operations: InsertList, UnlinkList and TailList (what a sorted list is after
  `tadd`, `tdel` and the interrupt's loop).
* `QlocksProofs`, about `RWlock`: TypeCorrect, MutualExclusion, ReadersAreCounted, PanicFree,
  NobodyStranded. Assumption: the set of processes is finite and does not contain Nil.
  Inductive invariant: `TypeOK`; `Line` (no repetition in the line, and everyone in
  it is queueing); `Waiting`; `Handing` (the writer that is being handed the lock
  is neither in line nor ready); `Ownership`; `Order` (nobody waits for a free lock, a
  line at a lock without a writer begins with a writer, and `wunlock`'s loop lets in at
  least one reader); `ReadersCounted`. `Order` is what makes the panics unreachable;
  `ReadersCounted` needs the cardinality facts of FiniteSetTheorems.
* `QlocksProofs`, about `QLock`: QLockIsFifo, `Q!Spec => FifoSpec`: the lock with its
  pointers implements the abstract line of `FifoLock`: each step is a step of the abstract
  lock or a stutter. Inductive invariant: `QTypeOK`; `QOwned` (`locked` is set exactly while
  one process owns the lock or is being handed it); and there is a sequence `s`
  with `QList(s)`: it starts at `head`, follows `qnext`, ends at `tail`, has nobody twice, and
  everyone in it waits and is not being handed the lock. `Line` is defined by CHOOSE from the pointers, so
  the mapping needs that at most one sequence fits (OneList, by well-founded
  induction over positions) before ListAppend and ListTail can say what it becomes.
* `SyncProofs`, about `Rendezvous`: RendezvousTypes, MeetingsNotMissed, ValuesExchanged, WaitersFound,
  OneStack. Inductive invariant: `TypeOK`; `Locked` (who holds the group's lock where);
  `Phases` (state, run queue and stack at each point); `Chained` (who is in the
  chain has left its value there; a waiting process is in it or has just been met);
  `Meeting` (the partner found is off the chain and belongs to its finder alone);
  `Results`; `Search` (a caller that found nobody knows that nobody waits under its tag).
* `SyncProofs`, about `Semaphore`: UnitsConserved, SemasAlive. Hypothesis `IntTimeouts`: timeouts fit an
  int; without it `Conservation` is false (section 4). Inductive invariant: `TypeOK`;
  `Units` (a unit is in the semaphore or in the hands of a process that has yet to
  return); `Acquiring` (where such a process can be); `Times` (one that has acquired
  has time left, or no limit, so that it will not report a time-out); `Line` (the list has
  exactly the processes between `semqueue` and `semdequeue`, each once); `Scanning`
  (who is in the middle of the list holds its lock). `Times` is what ties the two
  exits of `tsemacquire` to the unit it may have taken.
* `McslockProofs`: MutualExclusion, NoneForgotten, EntriesSuffice, for any number of
  processors, each with a thread and a handler, and of locks. Inductive invariant: `TypeOK`;
  `Stack` (locks are taken in their order and the call under way is about the innermost);
  `Levels` (a handler runs only where the thread below has none of the handlers' locks,
  and the saved levels restore that); `Table` (an entry of `m->locks` belongs to at most one
  lock; the one `allocle` has found is free or in use by a handler that will give it
  back); and there is, for each lock, a line of entries from the owner to `l->head`:
  `Lines` (what `l->head` and the entries say of it), `Members` (who is in it), `Links`
  (`next` and `locked` agree with it except where a thread has swapped and not
  linked yet). The line is nowhere in memory, so the invariant quantifies over it and
  each step gives the new one. EntriesSuffice says that a thread in search of an entry
  finds one as long as the locks its processor holds or waits for, the innermost of the
  thread's and of its handler's included, are no more than there are entries (`Depth`), whatever
  the number of locks: the kernel has 8 entries (`k10/dat.h:170`), relies on its nesting, and
  panics beyond it. Each entry in use belongs to another lock of that nesting
  (`NestedAll`), and the lock searched for has none yet.
* `SchedulerProofs`: OnOneProcessor, QueuesKept, AllServable. Inductive invariant: `TypeOK`;
  `Stacks` (`m->proc` and `p->mach` agree, point by point); `Hands` (a process between
  `runproc` and `sched` belongs to one processor, one that `rebalance` moves is Ready and
  in no queue); `Wires`; `Fits` (the queue a process is in, or is being moved to, is served
  by a processor that may run it, unless it was rewired while it was Ready); `Waiting` (who is Ready is in exactly the queue of its priority
  and colour); `Once`; `Vectors` (`runvec`). No part speaks of what `runproc`
  found in its search: the proof shows that `dequeueproc` looks again at everything
  these properties need.
* `ProcessProofs`, about `ExitWait`: ChildrenAccounted, WaitsAnswered. Hypothesis `AllWaitable`: no
  child is made with RFNOWAIT; with one, ChildrenKept is false (section 4). Inductive
  invariant `SlotInv`: `E!TypeOK`; `Pids` (a pid is used once); `Makers` (a slot between `newproc`
  and the end of `rfork` belongs to its maker and has no children); `FreeList`; `Parents` (a
  process knows the slot and the pid of its maker, so that a reused slot is told apart);
  `ChildCounts` (`nchild` is the number of children that have not left, or more once the
  parent is Broken); `WaitRecords`; `Waits` (`pwait` sleeps only with children or records);
  `Notes`. The bound 128 on records and the order in which children leave play no part.
* `ProcessProofs`, about `Page`: PageReferences (PagesCounted) and SegmentReferences, for any
  processes, files, pages, images and segments, with and without RFMEM. Hypothesis
  `"page" \in StopAt`: up to where `freepages` or a late `lookpage` has left the cache with a
  page that was freed (`PageLost`, section 4); nothing is asked of the other three known errors,
  so that the counts stay right past a lost image and a wrong mapping. Inductive
  invariant `IInv`: `TypeOK`; `Control` (what a process has at each point: what is left to put,
  the segment and the page of its fault, who holds `pga`); `SegTypes`, `SegsCounted`, `Droppers`
  (`s->ref` is the number of processes that have the segment or are yet to put it; a segment
  whose count fell to 0 is one process's to free, and no image names it); `Locks` (a fault
  that still holds the segment's lock finds the page table as it left it); `FreeOK` (the free
  list has each page once, namely those without references that nobody takes out of the
  cache), `RefsOK`, `HoldersOK` (a page that is being read or copied has one reference and is
  not in the cache; one that `newpage` has chosen has none). PagesCounted is not inductive
  without the segments: that a page is put once rests on its segment being freed by one
  process. The invariant says nothing of `image->ref`: no page is lost or freed early even
  where images are miscounted.
* `QioProofs`: ReadersWoken, OutputGoes, WritersWoken, BytesInOrder, for any writers,
  readers, lengths, limits and kinds of queues. Inductive invariant: `TypeOK`; `Locks` (`rlock`
  and `wlock` are held inside the calls); `Unblocked` (the queue of kernel prints never
  blocks); `Copying` (`qread` holds no block more than it needs, so that what it puts back
  is one block); `Bytes` (the blocks held and queued are one run of bytes that ends
  where the next write begins, and `len` and `dlen` count the queue); `Full` (empty blocks are
  only where they are written); `Starving` (a reader about to sleep on an empty queue
  has Qstarve set); `Kicked` (an output queue with blocks has a busy driver or a kick under
  way); `Flowing` (a writer about to sleep has Qflow set, or the queue is so low that it
  will not). WritersWoken has the hypothesis `FlowAssumption`: no queue that takes both
  blocking writes and kernel prints, which is the finding of the run `qio_console`; no
  empty blocks where they are dropped without a look at Qflow; no limit lowered below
  half. The instance of the run `qio` satisfies it, and each part was found necessary
  by TLC (section 4). The other three theorems have no hypothesis beyond `QioAssumption`.
  `Bytes` needs sums over sequences of any length. The library's induction theorems
  cannot be used for that, but its theorem that < is well founded on the naturals can:
  lemma `Induction` states induction over a set, and `PartialSums`, `SumIs` and the
  lemmas on `Span` (what a run of bytes becomes when blocks are added, taken, split and
  put back) follow.
* `MntProofs`: PlaceOfReaderPassed and RepliesOwn, for any processes, any of which may be
  sent notes, any tags, length of the free list and number of flushes. The first rests on
  the inductive invariant `IInv`: `TypeOK`; `FreeList`; `Owned` (a header in use belongs to one call,
  which waits for it or has it in the chain of a flush; a free one is reset); `InQueue` (a
  request is in the queue from `mountio` to its reply or to `mntqrm`); `Reader`
  (`mnt->rip` is the process that reads); `Woken` (who sleeps although its reply is there is
  about to be woken by `mountmux`); `Succession` (with the place of the reader free and
  somebody asleep, a process without a reply is on its way to the gate). `Succession` is
  stronger than NoneStranded: that somebody is awake is not enough, because a process
  that has its reply passes the gate by.
  The second needs `MInv` as well. A call is known by the header of its request (`Base`),
  which its flushes name by `oldtag`: `Chains`. Then: `Failing` (only a broken connection makes
  calls fail or replies stale); `Messages` (a header in use has at most one message under
  way, of the right type); `Owners` (with the connection up, a message belongs to a call
  that has not returned); `Replied` (replies come from the server); and for each call that
  has not failed: `Numbered` and `LastOne` (the message it waits for is the last of its
  messages, and so is its reply), `Single`, `Unsent`, `Settled` (with that reply in its
  hands no other message of the call is under way, so that its tags can be given
  back), `NotStale`, and `Answered` (a request that was carried out has its reply, the reply
  is under way, or it was lost with the connection, and then the call will fail: `Lost`).
  `Settled` is the heart of it: it is what lets `mntfree` use a tag again at once, and it holds
  because a server answers a flush after everything the flush is about.

Each has one lemma per action (`...Step` or `...Keeps`: the invariant is preserved), the
lemmas are combined in one about `Next`, a theorem of invariance says `Spec => []IInv`, and the
theorems follow.
TLC checked the inductive invariants on the runs' instances before they were proved: the
lines of `Mcslock` over the entries in use, and those of `Qio` without `Bytes`, for which
it has `InOrder`.

Only model-checked: everything about liveness; that `Il` implements `Reliable`; ImagesCounted
and OwnMemory of `Page`; AckedDelivered and Agreed of `Il`. OwnMemory and AckedDelivered are false where section 4
says, so that a proof would be about a restricted model.

## 6. Plan

Theorems worth having next, in this order: `ImagesCounted` of `Page`; `AckedDelivered` of `Il`; the abstract facts about `Reliable` (what is read is a prefix of what is written).

Modules worth having next: `Chan` (`port/chan.c`, `pgrp.c`: reference counts of channels
and mount heads, with `devpipe` and `devsrv` on top); `Alarm` (`port/alarm.c`) and the wait
file of `devproc` on `ExitWait`'s state; bss and shared segments in `Page`; the buddy
allocator of `k10/physalloc.c` as an algorithm against a reference; `Edf`; TCP
(`ip/tcp.c`) along the lines of `Il`.
