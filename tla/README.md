# Mach/4.3: a TLA+ account of its kernel's concurrent parts

The repository is the Mach kernel of Carnegie Mellon, June 1986 (VAX and IBM RT
PC): a 4.3BSD kernel in which new code for multiprocessor dispatching, virtual
memory and messages has replaced, or is about to replace, Berkeley's.  This
directory holds TLA+ modules for that new code, configurations that TLC checks,
and proofs that TLAPS checks.  `PROJECT.json` maps every definition to the
lines it stands for and lists runs, mutants, hazards, findings and theorems.

    tlc -workers 2 -config RWLock.cfg MCRWLock     # a run
    tlapm RWLockProofs.tla                         # a proof

## 1. The system

What is new in this kernel, the state each part keeps and how the parts meet:

| Part | State | Operations | Called by |
|---|---|---|---|
| Reader/writer locks, `sync/lock.c` | `read_count`, `want_write`, `want_upgrade`, an interlock | `lock_read`, `lock_write`, `lock_done`, `lock_read_to_write`, `lock_write_to_read` | maps, the list of tasks, `sched_lock` |
| Interlocks, `sync/sync_prim.c`, `sync/mp_queue.h` | busy bits, interlocked queues | `busyP`, `busyV`, `mp_init`, `mpenqueue_tail`, ... | everything |
| Run queues, `kern/sched_prim.c` | a global queue and one for each processor: levels, hint, count | `set_runq`, `rem_runq`, `choose_thread`, `set_pri` | the dispatcher, `schedcpu`, `wakeup` |
| Wait events, `kern/sched_prim.c` | hashed wait queues, wait state of threads | `assert_wait`, `thread_wakeup`, `thread_block` | nothing outside `MACH_TT` yet |
| Dispatcher, `sys/kern_synch.c` | per processor: the active thread; per process: saved context, `p_stat` | `unix_swtch`, `ipc_wait`, `ipc_wakeup`, `context_swtch`, `idle_thread` | `sleep`, traps, fork, messages |
| Sleeping, `sys/kern_synch.c` | `slpque`, `p_wchan`, `p_stat`, timeouts | `sleep_and_unlock`, `tsleep`, `wakeup`, `setrun` | all of Unix, VM |
| Message waits, `accent/acc_macro.h` | `State` and `ProcLock` of a process's IPC record | `IPCWait`, `IPCWakeup` | `msg_send`, `msg_receive` |
| Resident pages, `vm/vm_resident.c` | pages, the object/offset table, the free, active and reclaim queues | `vm_page_alloc`, `_free`, `_insert`, `_remove`, `_rename`, `_activate`, `_reclaim`, `_wire` | faults, pageout, objects |
| Memory objects, `vm/vm_object.c` | references, shadow chains, pagers, cache | `vm_object_shadow`, `_collapse`, `_setpager`, `_deallocate`, `_terminate`, `_copy` | maps, faults, pageout |
| Faults, `vm/vm_fault.c` | busy pages and local variables across unlocks | `vm_fault`, `vm_fault_wire`, `vm_fault_copy_entry` | traps |
| Pageout, `vm/vm_pageout.c` | targets, its place on the reclaim queue | `vm_pageout`, `vm_pageout_scan` | a process of its own |
| Address maps, `vm/vm_map.c` | entries, sharing maps, hints, references | `vm_map_lookup`, `_insert`, `_copy`, `_fork`, `_delete`, `_protect`, `_inherit`, ... | system calls, faults, messages with memory in them |
| Pagers, `vm/vm_pager.c`, `vm/inode_pager.c` | paging files | `vm_pager_get`, `_put`, `_allocate` | faults, pageout |
| Zones, `kern/zalloc.c` | free lists, sizes | `zalloc`, `zfree` | the new kernel code |
| Tasks and threads, `kern/task.c`, `kern/thread.c` | reference counts, lists | create, terminate, suspend | system calls |
| Ports and messages, `accent/accent.c`, `accent/vmipc.c` | port records with receiver, owner, holders of send rights, a secondary queue and a count; process records with a primary queue; kmsg structures | `TPSend`, `TPReceive`, `GTran`, `LTran`, `NewPort`, `RemPort`, `DelPort`, `unxIPCSuicide`, ... | system calls, the kernel's own messages |
| Physical maps and machine code, `ca/`, `vax/` | page tables, modify bits, saved registers | `pmap_enter`, `pmap_remove_all`, `save_context`, `load_context` | VM, dispatcher |

The rest is 4.3BSD's own kernel (files, buffers, sockets, terminals), its
network protocols, device drivers, boot programs, instruction emulation,
generated RPC stubs and tools.  None of it is what this system adds, and none of
it is modelled; `PROJECT.json` lists each group with the reason.

Processors meet on `sched_lock`, `sleep_lock`, the locks of the run queues, the
`ProcLock` of a process that waits for messages, the `PortLock` of each port, and
in VM on the locks of maps and `vm_page_system_lock`.  What is hard about the code is in most cases what
happens *between* two holdings of a lock:

- a process is on an event or run queue before its processor has left it;
- a fault looks at an object, lets the lock go to read a page from disk, and
  goes on with what it saw; pageout lets it go to write one;
- a decision is taken on counts, hints and bits read without a lock;
- pages move between queues through flags that every caller must have in order;
- references move between objects in long sequences of forks, faults and
  collapses;
- rights to a port, and the messages in its queues, move from process to process
  while others send, receive, time out, give up their rights or exit;
- a port or process record is used again while a call still has its number;
- copies of memory are put off until somebody writes, through forks, sharing maps,
  moves in messages, collapses and changes of protection;
- memory or paging space runs out half-way.

What makes each part correct is, in short: for locks, exclusion and that
upgrades keep what they read; for run queues, that nobody is lost or hidden; for
the dispatcher, that no context is run by two processors or before it was
saved, and that nobody is forgotten; for VM, that an offset has one page, that
pages in transit are left alone, that every page is on a list the daemon will
find, that references and paging spaces are neither lost nor kept too long, and
that a task sees what it wrote and nobody else's copy; for messages, that a port is
one queue, that its count is exact, that a right in transit arrives, that who sleeps
is woken, and that nobody destroys somebody else's port.

### Configuration modelled

The options `MACH_MP`, `MACH_VM` and `MACH_TT` select the code; locks exist only
where `NCPUS > 1`, and this is the build modelled.  Where a macro is machine
dependent, the port to the IBM RT PC (`ca/`) is followed.  Options that no
configuration of the tree turns on (external pagers) are left out.

## 2. Modules

    AbstractRWLock <-refines- RWLock <- MCRWLock
                                     <- RWLockProofs
    RunQueue <- MCRunQueue
             <- RunQueueProofs (EXTENDS QueueTheorems also)
             <- Dispatch <- MCDispatch
                         <- DispatchProofs (EXTENDS RunQueueProofs also)
    VMPage <- VMObject <- VMFault <- MCVMFault
                                  <- VMFaultProofs (EXTENDS QueueTheorems also)
    AbstractMemory <-refines- VMMap <- MCVMMap
    AbstractPorts <-refines- Messages <- MCMessages
                              (Messages EXTENDS Ports)
                              <- MessagesInvariant <- MessagesProofs <- MessagesCounted
                                 (EXTENDS QueueTheorems also)

`Ports` and `VMPage` both take elements out of the middle of a queue; `Queues` has the
one operator for it, `Those`.

Two parts are modelled twice, at different grain.  Message waits are in `Dispatch`
down to the processor that spins or switches, and in `Messages` as a state of the
process that others set.  Objects and faults are in `VMFault` with all their
unlocked windows but without contents, and in `VMMap` with contents but each
under the map's lock from end to end.

### RWLock, AbstractRWLock

Each field of `struct lock` is a variable, and `pc` says where a thread is in
`lock_read`, `lock_write` or an upgrade.  Code between `P(&l->interlock)` and
`V(&l->interlock)` is one action; the busy-wait loops read *without* the
interlock, one field an action (`ReadSpin`, `WriteWaitSpin`, `UpgradeSpin`), so
what they saw may be stale when the interlock is taken, and is looked at again.
A thread that returns from an operation is "reading", "writing" or "upgraded";
`lock_done` and `lock_write_to_read` do not use this: as in the code they infer
from the fields what they have to give back.  The client of the model obeys the
routines' rules only: it releases what it holds and upgrades what it reads.

`AbstractRWLock` is the promise: a mode per thread and grants.  `AbsSpec` maps
locations to modes; a waiting upgrader keeps read access.

### RunQueue

`queue`, `low`, `count` are a run queue's; `runq` and `pri` a thread's.
`set_runq` and `rem_runq` run under `sched_lock` held for writing, `choose_thread`
under the locks of both queues; each is one action.  The priorities a thread may
have include a negative one and one beyond the last level: the code clamps.
`choose_thread` is there with both scans, the way the first bounds the second,
and the hints both leave behind.

`SetPri` is `set_pri` as written: `rem_runq` clears `th->runq`, which `set_runq`
is then given.

### Dispatch

A processor has a location `at`, a thread in whose context it executes (`exec`),
and one it is about to load (`next`).  `active` is `active_threads[cpu]`, which
the code sets apart from, and at other moments than, what it really executes.
`save_context` sets `saved`, `load_context` clears it.  `put` is the argument of
`unix_swtch`.  Sleeping is three steps apart (`Sleep`, `SleepStat`,
`SaveContext`), because the code lets go of `sleep_lock` before it sets
`p_stat` and of its own lock before the switch; a wakeup holds `sleep_lock` while
it walks the slot and takes `sched_lock` once for each process (`Wakeup`).
Interrupts that call `wakeup`, and `schedcpu` on the master's clock, come at the
locations where the code has them enabled.  A message wait (`IPCWait`) spins without the
lock while there is nothing else to run and looks at `State` again with it
(`IPCSpin`, `IPCRelock`); `ipc_wait` holds the process's lock until the context is
saved, `ipc_wakeup` hands the processor over at once.

The run queue operations are RunQueue's, with the process priority copied when
`do_setrq` copies it.  A processor whose code would panic takes no step; `NoPanic`
says this never happens.

Not in it: processes that are swapped out, processors told to halt, slaves'
start, sleeps that signals interrupt, timeouts, and the step in which a process
resumed from `ipc_wait` takes its lock again.

### VMPage, VMObject, VMFault

All pages and objects are one record, `mem`; the routines of `vm_resident.c` and `vm_object.c`,
which run under `vm_page_system_lock`, are functions from one such record to the next.  A page
has its object and offset, its flags, the maps and addresses it is mapped at, and whether its
hardware modify bit may be set (`modified`: the bit is then either).  Queues are sequences and
are *separate* from the flags that say which one a page is on, as in the code.  An object has
references, a shadow, a paging space and `pageout_in_progress`.  A paging space has the name of
the object it was made for, so that one can follow it through collapses.  If another object has
that name's space, the daemon takes a name nobody has (`Unused`).

`VMFault` has one action for each piece of `vm_fault` between two unlocks, and one for each turn
of its search loop (`lock` says the loop still holds the lock). Local variables (`first`,
`object`, `page`, `prot`, `locked`) are a record per thread.  The outcomes of `vm_map_lookup` on
an entry that may need a copy are `LookedUp`; the lookup upgrades the map's lock, so it makes a
shadow only when no other thread reads the map.  `Fault` may come at any offset at any time,
also for a page that is mapped: a physical map may forget mappings.  `Touches` says which thread
touches what, so that an instance can be narrowed.  Whoever gives up a reference counts it down
at once (`Unreference`); if it was the last the object ends in a step of its own, `Terminate`,
once the daemon is through with it, and gives up its shadow in turn.  The daemon has its place
on the reclaim queue, `cur`, across unlocks; `vm_pager_allocate`, `vm_object_setpager` and
`vm_pager_put` run without the lock, each in steps of its own (`LookAtPager`, `SetPager`,
`PagerPut`).  A page-in (`PagerGet`) calls the pager of the thread's own `object`, which a
collapse may have freed since the lock was let go: `vm_pager_get` of no pager ends without a
value (`vm/vm_pager.c:104-107`), and the answer is either.  A pager that is there reads the space
of the object the *page* is in by then (`vm/inode_pager.c:152`).

Not in it: page contents (a dirty page and a paging space are there, data is
not), wiring, pages clustered into larger ones, objects of different sizes and
offsets, changes to maps other than the shadows that faults make (so an object ends
only with a fault that is the last to refer to it, or behind one that does), the object
cache, and two windows in the end of an object: `vm_object_deallocate` reads the shadow before
`vm_object_terminate` takes the lock (`vm/vm_object.c:275`), and that lets go of it
between taking the pages off the queues and freeing them.

### VMMap, AbstractMemory

The state is one record, `vm`: maps (references and a sequence of entries, fields
as in `struct vm_map_entry`), objects (references, shadow, size, and at each offset
the *value* its page holds) and physical maps (at each address a page and whether it
may be written).  A routine is a function from `vm` to `vm`, and a system call composes
them in the order of the code: `Protect` clips both ends, checks the maxima, sets each
entry and lets the physical map follow; `Fork` goes entry by entry, moves what is
shared to a sharing map, unless it is on one, and copies with `CopyEntry`, which first collapses
the object, write-protects the pages and marks both entries; `FaultIn` looks up (a write
through an entry that needs a copy puts a new object in front), goes down the
shadows, zero-fills, enters, or collapses and copies up.  `Copy` is what carrying
memory in a message does: `vm_map_find` in the other map, `vm_map_copy`, and the
deletion of the source if it is given up; the three take their locks one after the other in
`MoveMemory`, and are one step here.  Entries that could be joined with new
memory are extended as `vm_map_insert` does, with the pages of the object there
removed.  Objects and sharing maps end with their last reference.

Two entries of different tasks may need a copy of one object while a third task maps
its pages, so whether a store reaches who it should is a matter of many steps.
`AbstractMemory` says it in one: a task's memory is a value at an address, with the
places that share it; a fork copies, shares or leaves out; a store changes the places
that share and no other.  `AbsSpec` reads each address the way a processor would,
through the physical map if there is a mapping, else where a fault would look.

Not in it: steps between two locks, pagers and paging, wiring, `vm_read`, `vm_write`
and `vm_allocate_with_pager`, a copy of a range that is shared or of an entry of a
sharing map, the lookup hint, and `vm_map_simplify_entry`.  Physical maps are those of a
machine on which a page may be mapped at many addresses; the RT PC maps it at one
and so forgets more, which a `Fault` then brings back.

### Ports, Messages, AbstractPorts

`PortArray` and `ProcArray` are the code's tables.  A port's messages are in two
places: its receiver's queue (`MsgsWaiting`, shared by all ports it receives from)
and, when the port is full, its `SecondaryMsgQ`.  `NumQueued` counts both and
is kept by hand.  A kmsg structure has a number, is on the free list or not, and says
whom to wake when it is received (`What`, `WakeupProc`).

The routines of `vmipc.c` hold a lock for a short while and call each other with none
held.  So `stack[q]` is what process `q`'s calls have still to do, a sequence of
frames, and every action is one piece under a lock, which may push what the code
calls next: `RemPort` decides and pushes `DelPort` or `GiveReceiveRights` or a
`SendKernelMsg`; `DelPort` sets the queues aside and pushes a `Release` for each message
and `Notify`, which for each holder sends the notice and then clears its bit; `GTran` pushes the
transfers its rights cause; `SendKernelMsg` looks whether the process is active and pushes
`PackMsg`, which looks up its data port with the lock let go and pushes `QueueMsg`, that
`WakeForMsg`.  `Activate` may find no free port for a new process, which then has none.  Everything another process may do comes between.  A process
that exits scans the ports (`Scan`) in the same way while others still send to it and
its record is reused when it is done.  A `Forget` on the bit of send rights is separate from
what follows it, as in the code.

`Messages` adds `TPSend` (copy-in with `LTran`, then `Post`, `PostRefused` or `PostLater`,
then perhaps a wait), `TPReceive` (`Look` under the process's lock, `MoveUp` under the
port's, `Answer`, `CopyOut`, which gives send rights to the message's two ports and then the
right in its body, or none of that if the message does not fit in where it is received, as
`Cramped` says of a process and a type of message), the waits' ends (`Sent`, `Withdraw`, `LookAgain`, `GiveUp`),
`asleepexpire`, signals, port locks and backlogs.  What a user program may ask for
are sets of records (`Sends`, `Receives`, ...), chosen by the instance.

`AbstractPorts` is the promise: a port that is open has one queue, first in first
out, in which emergency messages go first.  Only the first message is received, and a message
leaves out of turn only when its port is destroyed or when its sender, which slept for room and
was woken by a timeout or a signal, ends its call (`givenUp`, which says who may take back what).
`AbsSpec` puts the receiver's and the secondary queue of a port together, whoever the receiver is
at the moment.

Not in it: the kernel port and calls made through it, the soft interrupts of
message arrival, checking and laying out of message bodies (a message carries one right or
none), out-of-line memory (see `VMMap!Copy`), previews and inquiries.

## 3. What the runs check

Every property was also checked against a mutant of the code's model (the
definitions commented "Mutated"), which TLC must find violating it.

| Run | Instance | Shows |
|---|---|---|
| `rwlock` | 3 threads; 1,420 states | `Exclusion`; `Accounting`: the fields tell who holds what, no bit is leaked; `UpgradeIsolated`: nobody gets in between an upgrade that waits and its grant; `AbsSpec`: the abstract lock; `BidsServed`: who has set its bit gets the lock; no deadlock |
| `runqueue` | 3 threads, 2 processors, 3 levels; 5,511 states up to symmetry | `WhereItSays`, `HintBelow`, `CountExact`, `BestChosen`, after every sequence of operations |
| `dispatch` | 2 processors, 2 processes, of which one's priority changes, and 2 idle threads, sleep and wakeup on the master; 69,525 states | `LoadedSaved`: nothing is loaded that was not saved; `OnePlace`: nobody is in two places or in none; `NobodyForgotten`: nobody sleeps on for a wakeup that came; `NoPanic`; `SwitchEnds`: a switch that began ends in a thread; `IdleServes`: a processor whose idle thread executes while a process is in its queue comes to execute a process, and so for the global queue if nobody else takes that one |
| `vmfault_last` | 2 threads of a task whose object shadows one that is paged out, 3 objects, 3 pages, 2 offsets, paging space there or not; 679,593 states | `BusyPageKept`, `Unmapped` and `SpaceKept` while faults copy, bypass and collapse against page-outs; `ReferencesExact`, to the end of an object whose last reference is a fault's; `InAList`: no page ends up on no list; `NoneHidden`: no collapse and no end of an object frees a page that a thread has in its hands |
| `vmfault_live` | 2 threads of a task after a fork, 2 objects, 2 pages, 2 offsets; 160,711 states | `OnePage`: no page is brought in twice; `FlagsTellQueue`; `FaultEnds`, wherever memory runs out |
| `messages` | processes 2 and 3 that hand the rights to port 1 to and fro, and 4; 3 kmsgs, one sort of message that may not fit in; 348,582 states up to symmetry | `NumQueuedExact`: the count is that of the messages at the port; `TransitCarried`: a right in transit is on its way; `AbsSpec`: one queue a port, received in order, from which only a sender that waited in vain takes something back |
| `messages_ends` | a sender exits and its record is used again, the owner gives the port up, its receive right is under way, a signal interrupts, locks and backlogs change; 991,524 states up to symmetry | `InOnePlace`: no message or port is lost or twice anywhere; `SleeperRemembered`: a sleeper's message is there and names it, and nobody sleeps over a message it wants; `SecondaryMovesUp`: nobody is stuck in a secondary queue |
| `messages_live` | process 2 receives, sends, moves a receive right and exits; what it sent to process 4 is acknowledged, before and after; 3, which has no data port, sends to 2; 124,304 states | `ExitEnds`: `unxIPCSuicide` comes to an end although acknowledgments give the process send rights it has scanned past; `SendEnds`: a sender on a full port is woken |
| `vmmap` | 2 pages of memory, 3 objects, 1 sharing map; parent and child, or a task and the map of messages; 57,528 states up to symmetry | `AbsSpec`: copies put off cannot be told from copies made; `MappingsSound`: a mapping is what a fault would make, writable only where nobody's copy is; `ReferencesExact` of objects and sharing maps |

Three more runs, `vmfault_hidden`, `messages_stale` and `vmmap_zerofill`, are
expected to end in a violation; section 5 has them.

Deadlock is not checked in the runs of `Messages` and `VMMap`: when every process
waits for a message, or every task has ended or run through its calls, the system has
nothing to do, which is no error.

**Bounds and why they are enough.**  *Locks*: a lock tells threads apart only as
owner, waiter and third party; three are needed for "an upgrader, a second
upgrader, and a writer that asked first", and nothing in the code counts beyond
"some reader left".  The proofs remove the bound.  *Run queues*: two processors give
each a foreign queue, three threads make two on one level and one elsewhere, three
levels make a best, a middle and a last; the proofs remove the bound again.
*Dispatcher*: a sleeper, a waker and an idle thread, the third that takes the
sleeper's processor; two processors for the races and a master that alone serves its
queue.  One hash slot is enough since slots share nothing, and with one channel everybody
asleep matches; the proofs take any number of processes and channels.
*VM*: every hazard here is between two actors of which one may be the daemon;
three objects make a chain in which the middle one can go; two pages (`vmfault_live`) are the
fewest with which a copy is possible and make memory run out in every fault; with a
third (`vmfault_last`) one thread holds a page while the other copies.
`ReclaimTarget` etc. are set so that the daemon runs whenever a page is taken.
*Messages*: three processes are a receiver, a sender and one to which rights go;
port 1 is the one all is about and the others are data ports, to which the kernel's
messages go.  A backlog of one (`ActualDefaultBacklog`, 4 in the code) makes the port
full with the second message; three kmsgs are one in the receiver's queue, one in the
secondary and one in somebody's hands.  Of these `Reserve` are kept for the kernel's own
messages, which in the code can always get memory, so that user messages do not
use up the bound.  `messages_ends` has a fork so that a record is reused, and
`messages_live` a receiver that exits with messages queued and others of its own in the queue
of process 4: when that receives them, `SendAcknowledge` sets the bits of process 2 again
(`WakeupProc`), behind or before the place its scan has come to.
*VMMap*: two pages are the fewest that can be clipped; three objects are an object
and a shadow for each of two tasks.  There is one sharing map: what is shared once can be
shared again by a second fork, other memory not.  The instance sets which
ranges may be named in calls (`Allocates`, `Protects`, ...): a first page, a second
page or both.  Fresh zeros and one other value tell who wrote.  The `ipc` map only
keeps and gives back: its copies take whole ranges.
There are no counters to cut: all these state spaces are finite and are
explored whole.

**Fairness and why it is justified.** *RWLock*: a processor that spins goes on executing its
loop (weak fairness of `Waiting`), and whoever holds the lock, however often it comes back or
changes its hold, in the end calls `lock_done` (strong fairness of `Done`).  No claim is made
that a *particular* `lock_read` or `lock_write` that has not got its bit is ever served: it
spins against others and the code does not promise it. *Dispatch*: a processor in the kernel
goes on (strong fairness of `Kernel`, since interrupts and other holders of a lock disable it
now and then, and return), and a wakeup goes on along its queue (weak).  Processes are not
obliged to do anything. *VMFault*: threads and the daemon get the lock in the end and the pager
answers (strong fairness of `Handle` and `Pageout`), and who has to end an object does (strong
fairness of `Terminate`).  Nobody is obliged to fault.  `FaultEnds` is claimed for a thread once
no other faults any more: with two, one that faults again and again can take every page the
other is about to get, and nothing in the code prevents it. *Messages*: a process in a call goes
on (weak fairness of `Proceed`; a lock it needs is held for one step only), and one that
received asks again (strong fairness of `TPReceive`, since it is in other calls in between):
`SendEnds` is a promise on condition that messages are received.  No fairness is put on sends,
exits, timeouts or forks.

## 4. What is proved

`RWLockProofs`, `RunQueueProofs`, `DispatchProofs`, `VMFaultProofs`, `MessagesProofs` and
`MessagesCounted` hold theorems for all values of the constants, under the assumptions named in
the modules.  `QueueTheorems` has what they need of sequences in general: what `Append`, `Tail`,
`\o` and a removal do to the set of a queue's members and to its being without repetition.
`MessagesInvariant` has the invariant of `Messages`, with the lemmas on stacks, frames and
records that its proof rests on.

**The lock**, for any finite set of threads (`ThreadsFinite`):
`MutualExclusion`, `TypeCorrect`, `FieldsOwned`, `UpgradesIsolated` and
`Refinement` (`Spec => AbsSpec`).  The invariant is

    Inv == TypeOK /\ Accounting /\ Exclusion

Exclusion alone is not inductive: the code never looks at other threads, only at
`read_count` and the two bits, so the proof has to know that those are exactly
what the threads' locations make them (`Accounting`: `read_count` is a
cardinality, each bit has at most one owner).  Conversely `lock_done` guesses what
to release from the fields, so `Accounting` needs `Exclusion`: a writer that
releases must not meet a reader, or it would take the reader's count.  The
proof goes action by action with lemmas on how one thread's move changes the sets
`At(S)` and the count.  The refinement maps each step to an abstract step or to
a stutter, using `Inv`; `UpgradesIsolated` comes from the same.

**The run queues**, for any finite set of threads, any set of processors, any
number of levels and any integer priorities (`RunQueueAssumption`): `QueuesTyped`,
`ThreadsWhereTheySay`, `HintsHideNobody`, `CountsExact`, `BestIsChosen`.  The
invariant is

    Inv == RQTypeOK /\ Placed(queue, runq, pri) /\ Counted(count, runq)
             /\ Hinted(queue, low)

`Placed` looks at a level as a set: it holds, without repetition, exactly the
threads whose `runq` and `pri` name it.  This is `WhereItSays` from the queue's
side, and turns each operation into one of two moves, a thread leaving its level
or entering one, each with a lemma on `Append`, `Tail` or `Without`.  Counts and
hints follow the same two moves.  That `choose_thread` may trim the hints is
shown from what its scans find: `Scan`, `GlobalScan` and `LocalScan` say that all
levels passed over are empty, *including* the levels the local scan skips
because the global one found a better thread.  A least level exists by the
well-foundedness of finite sets (`LeastIs`).

**The dispatcher**, for any numbers of processors, processes and channels:
`LoadedAreSaved`, `ThreadsInOnePlace`, `NobodyIsForgotten`, `PanicsOfWakeup` and
`DispatchTyped`.  What is assumed of the constants is RunQueue's assumption and that names
do not collide (`DispatchAssumption`).  Any processors may sleep and wake (`UnixCPUs`), not only
the master as in the run `dispatch`, and so the fault of `sleep_and_unlock` in section 5 is
among the behaviours.  The theorems say that it is the only one: they have the form

    Spec => []P \/ <><<WokenHalfway>>_vars

where `WokenHalfway` is the step in which a wakeup makes a process runnable that another processor
than the master has put to sleep and not saved yet.  (`Spec` has no fairness, so any behaviour may
stop before such a step: what comes before the first one satisfies `P`.)
`PanicsOfWakeup` says which panics are left: with several processors that sleep, wakeup's
own for a process it meets on `slpque` before it is `SSLEEP` (`SleeperMet`,
`sys/kern_synch.c:544`), and no other.  `MasterWakesWhole` says that where only the master
sleeps and wakes no step is `WokenHalfway`, which gives the properties of the run as they stand.

The code never says who has a thread.  It looks at `th->runq`, `p_stat` and
`active_threads`, which are set before or after a thread really comes or goes, so the
properties are far from inductive.  The proof defines `Has(c, t)`: processor `c`
executes `t` and has not yet left it for good, or has chosen it and not yet loaded it.  The
invariant `DInv` is RunQueue's `Inv` and `TypeOK` with

- `Located`: what a processor's place in the dispatcher says of `exec`, `next`,
  `active` and `put`; it makes `active_threads` agree with the truth where it is read;
- `Apart`: nobody is had twice;
- `OffQueue`: who is had is on no queue, but for a process that is *half way*: on its way to
  `save_context` and not to be put back.  A wakeup may have put it on the master's
  queue, which is harmless where the processor half way is the master itself, and is
  `WokenHalfway` where it is not;
- `HomeIdle`: an idle thread is on its processor's own queue or with it, so that
  `choose_thread` always finds one (`SomeoneChosen` of RunQueueProofs);
- `Running`, `Runnable`: `p_stat` against queues and processors.  A process that
  sleeps for a message is had only by a processor that holds its lock, which is why
  `ipc_wakeup` cannot hand it over too early;
- `Unsaved`: a context that is not saved is being executed;
- `Sleepers`, `Waiting`: `slpque` against `p_wchan`, and `State` against `p_stat`.

There is a lemma for each action that changes who has what, over RunQueueProofs' lemmas on
`set_runq`, `rem_runq` and `choose_thread`, which the dispatcher calls.

**Faults and pageout**, for any finite sets of pages, objects and threads, any maps that share
entries in any way, any offsets and any limits in the order the code sets them
(`VMFaultAssumption`), from any memory at rest (`InitMemAssumption`: queues as the flags say,
every page in a list, counts right, shadow chains that end): `TypesRight`, `QueuesFiled`,
`BusyPagesKept`, `ReferencesRight`, `ReclaimableUnmapped`, `PagesInLists` and `SpacesLostLate`.  The
invariant `IInv` is types, and of the memory, the entries, the lock, the threads and the daemon (`Sound`)

- `Queued`: each queue has the pages with its flag, none twice, and no page has both flags or is
  free and has one.  It is `FlagsTellQueue` with sets for the numbers of occurrences, and is
  what lets a routine of `vm_resident.c` be followed (`DequeueDoes`, `ReclaimDoes`, ...);
- `ThreadsOK`: a thread with a page in its hands has one that is not free, is at its offset, is
  nobody else's, is busy exactly while the thread is without the lock, and once taken is off the
  queues;
- `LocksOK`: who holds `vm_page_system_lock`, by where they are;
- `DaemonOK`: the page being written is busy, reclaimable and its object's, which has
  `pageout_in_progress`.  Nobody else sees that page but through `Lookup`, where it is busy, and
  a collapse, which that flag keeps away;
- `ObjectsOK`: the count of an object is that of the entries, shadows and faults that lead to
  it, and shadow chains end (`Acyclic`: of any live objects one shadows none of them).  The
  chains have to end for a merge to be right: the object that takes over its shadow's shadow
  must not be that object itself.

An action is a composition of up to five functions from memory to memory, so the invariant is
written of a memory in general and carried through those in between (`Sound(n, ...)`). `Shrunk`
says what a collapse, a recursive function that merges or bypasses up to once for each object,
does to pages and objects, and `CollapseIn` that what each round keeps the whole keeps.  From an
action's frame conditions (`Moved`, `Spared`, `Locked`, `Poked`) the parts follow for all the
actors that did not move.

`IInv` is kept by every step but one.  `vm_object_collapse` frees a page of the backing object
without a look at who is using it (`vm/vm_object.c:841`), and an object may end while a thread
looks at its page; nothing in the code prevents that, as `vmfault_hidden` shows.  `PageTaken` is
that step: a collapse, of a fault or of the daemon, or a `Terminate` that frees the page a thread
has in its hands.  The theorems have it in their conclusion, as those on the dispatcher have
`WokenHalfway`:

    Spec => []P \/ <><<PageTaken>>_vars

There is no hypothesis on the states: chains with any number of paging spaces, shared entries and
races over pagers are all among the behaviours, and up to the first `PageTaken` *no* race of
faults, collapses, bypasses, terminations and page-outs breaks a queue, a count or a busy page.
Beside `IInv` the steps keep `AllQuiet`, from which `ReclaimableUnmapped` follows,
the half of `Unmapped` that the comment at `vm/vm_page.h:106` states; and `AllLaid`: a page in
none of the lists is in the hands of the thread that has the lock.  From that follows
`PagesInLists`, which has one hypothesis more, that every entry is one map's own (`SingleUse`):
on a copy for a shared entry the code does lose the original page (section 5).

`SpacesLostLate` is about steps: every routine keeps every paging space (`Homes`) but for
four that touch them.  A new object has none to lose, an object that ends is referred to by nobody,
a collapse hands the space of the object it frees to the one that absorbs it, and the daemon sets
a pager where it saw none.  The last looks before it allocates and sets after, with no lock held
(`vm/vm_pageout.c:260`), and nothing in the code says that the object has no pager still.  The
theorem says that this is the one way to lose a space: a step that loses one (`SpaceLost`, which
`SpaceKept` forbids) is the daemon's, setting a pager over one (`LatePager`), or `PageTaken`
occurs.  In the instance of `vmfault_last` neither does, where `pageout_in_progress` keeps the
collapse away, and TLC finds `SpaceKept` true.

**Ports and messages**, for any numbers of processes and ports, any set of kmsg structures and
any calls (`PortsAssumption`: at least four entries in `ProcArray`, of which the code itself
takes that many for the kernel, the pager and the two marks, a port table with the null port,
and finitely many kmsgs; `MessagesAssumption`: calls name processes and ports that there are).
`MessagesSound` is the invariant.  `NothingTwice`: no kmsg structure is ever in two queues,
twice in one, free and in use, or in the hands of two calls; and a port is in use, on the free
list once, or with exactly one call that will make it free.  `NothingLost`: with that no
structure is nowhere, which is `InOnePlace` of the run `messages_ends`.

`MInv` is a conjunction of eight.  `Lone`, `Once` and `PortPlaced` are what is wanted, put with
the numbers of processes and ports instead of cardinalities, so that a step's effect on them
is a matter of one message and two places (`Moves`).  They are not inductive, since
what a step takes off a stack it takes on trust: `QueueMsg` puts into a queue the message that its
frame names and looks at no other stack.  `Stacks` says how a stack is built: a message is in one
frame of it, save for the pair of `LTran` and `Post` that is a send before it posts; a frame that
returns from the call has nothing below it, so `Return` loses nothing; and a port is ended by one
frame.  `Addressed` says that a message outside the free list goes to a port, unless its send has
still to find out that it does not (`Post` looks, `QueueMsg` does not); `Carrying` that `LTran`
runs for a message with a right in it; `Closed` that a port not in use has nothing in its secondary
queue, so that making it anew loses nothing; `Typed` what every step needs of records.  For each
action one lemma shows `Kept`: `MInv'`, and `Somewhere'` if every message was somewhere.  That
`DelPort` sets aside what is in both queues, and `GiveReceiveRights` moves just what goes to the
port, needs what `Those`, a recursive function on a sequence, contains: `ThoseExist` finds the
function by a least counterexample, since induction is out of reach.

`NothingLost` has a hypothesis, `[]Reused`: a process record on the free list has no messages
when somebody may fork.  The code does not see to it.  A process that offered its receive
right to the owner and exits is still `Receiver` when its record is free, messages queue up there,
and `unxIPCActivate` makes the queue empty (section 5).  The hypothesis names exactly that fault:
without it `MInv` holds all the same (`NothingTwice` has none), and it is true of every behaviour in
which nobody forks (`NothingLostWithoutFork`) and of all those of `messages_ends`, where a record
is used again.

`CountsExact` and `SecondariesMoveUp` are about the count that senders look at to know whether a
port is full.  `NumQueued` is a sum over two queues in two records and over receives that
have taken a message from the one under the process's lock and count it out under the port's.
The proof says what is counted as a set, `Due(p)`, so that a step is one message that comes or
goes (`ExactKept`) or none, and keeps

- `Exact`: `NumQueued` is the size of `Due(p)` if `p` is in use;
- `Homed`: a message in an inbox goes to a port that this process receives from, one in a
  secondary queue to that port, and is no emergency.  Without it `DelPort`, which looks for the port's
  messages in its receiver's inbox only, would set aside fewer than it counts out;
- `Aside`: a call that takes a message has nothing else to do, so a frame `Taken` never comes
  up again when something over it returns;
- for `SecondaryMovesUp` also `Fed`: a port with a secondary queue has a message before that,
  queued or just taken, and `Roomy`: every backlog is at least one.

`Homed` fails if a receive right moves between the two halves of a receive, as `MoveUp` goes by
the process that took the first message (`accent/accent.c:772-780`).  The process's own calls do
not move it, since it is in `TPReceive`; what can is a `DelPort` that another process comes too
late with. This is the fault of `messages_stale` with one receive more, and the theorems name it
as a hypothesis, `[]ReceiverStays`: TLC finds the hypothesis false in that instance when process
3 sends to its new port and receives from it, and true in `messages`, `messages_ends` and
`messages_live`.  `[]Reused` is the other, since an inbox that is emptied with messages in it
leaves their ports' counts behind.  `SecondariesMoveUp` further assumes `Positive`, that no port
begins with and no call sets a backlog of zero: `AllocatePort` replaces one that is not positive
(`accent/accint.c:174-177`), `SetBackLog` takes any (`:211-240`), and with zero a sender waits
at an empty port for a receive that finds nothing.  `MessagesTyped` is the `TypeOK` that
the runs check, which bounds `NumQueued` by the number of messages and so rests on `CountsExact`.

`SleepersRemembered` says that no wake-up is lost.  `Post` and `QueueMsg` look whether the
receiver waits at a moment of their own, `GiveReceiveRights` brings messages and wakes with its
locks let go, and a sender leaves whom to wake in a message that others then move, receive or
destroy.  What the steps keep is `Remembering`:

- `Waited`: for each process, what `SleeperRemembered` says of it, and that one that waits for a
  message never has the state of one that waits for room;
- `Unanswered`: a message not posted yet says `DONT_WAKE`, so a send that fails need wake nobody;
- `Uncovered`: a wait is never below another frame, so no process begins to sleep as a step
  returns to it.

A step of `q` can only harm the sleep of others in four ways, and each action is shown to do none
of them (`Undisturbed`): to free or change a message that is to wake another without doing so
(`Spares`), to make another wait (`Rouses`), to have a message wake somebody it did not
(`Hushed`), or to bring another a message that it wants and not be about to tell it (`Delivers`).
The last uses `Homed` again: what is wanted depends on the lock of a message's port, which only its
receiver changes, and it is not asleep then.

The theorem has a third hypothesis, `[]OwnWithdrawn`.  A send whose time is up looks for its
message in the secondary queue by the address of the structure (`accent/accent.c:575`).  If the
message was received meanwhile and the structure used again, by another sender to the same
port, it takes that one's message back, and the other sleeps for ever (section 5).  TLC finds the
hypothesis true in `messages`, `messages_ends` and `messages_live`, and false, with
`SleeperRemembered`, 20 steps into an instance in which process 3 sends to port 1 with a time,
process 4 without, and process 2 receives.

`RightsCarried` is `TransitCarried`: the receive right and the ownership that `LTran` takes from a
process when it copies a message in are nobody's until `GTran` gives them to the receiver, and
neither is ever just gone.  What the steps keep is `Conveying`:

- `Carried`: a right in transit is borne by a message in some queue, or by one that a call brings
  (posts, queues, copies out or returns with) with nothing left of the copying in; or a call has
  it in its hands, by a frame `GTran` or a frame that gives it to a process;
- `Departs`: a frame that is about to put a right into transit has under it the `Post` of a message
  that bears this right, so `Carried` holds from the step on that takes the right away;
- `Alive`: a process that waits for a message, takes one or copies one out is active.  `GTran` for
  one that is not would put the other right of the port, if nobody has it, into transit itself,
  with no message that bears it but a notice to come.

A step of `q` leaves the stacks of the others alone, and what they bring and what is queued bears
the same right after it, since such a message is neither free nor in the hands of `q`
(`NothingTwice` once more).  So `Conveyed` asks two things of an action: a needed message that is
queued or that `q` brings is so after the step, or its right is in the hands of `q`; and a right
that the step puts into transit, or lets out of `q`'s hands, has such a message.  There is one
lemma for each action.

The hypotheses are three.  `Settled`, on the constants: no port begins with a right in transit.
`[]Reused`, as above, since the inbox that is emptied may hold such a message.  And
`[]Undestroyed`: `MKMsgFree` does not look at what a message bears, and one with a right in
transit that is destroyed loses the right for good (section 5).  The hypothesis says of each of
the places where a message is destroyed that it bears none: a post or a queueing whose port
is gone, a post to a full port that does not wait, a send taken back, the queues of a port
that is deleted, and a receive that finds that the message does not fit in.  TLC finds it, and `Conveying`, true in `messages`, where the rights to port 1 go
to and fro in messages, in `messages_ends` and in `messages_live`.

**Only model-checked**: address maps; of the VM that a free page is mapped only where a fault is
about to map another (`Unmapped`), and where `NoneHidden` and `SpaceKept` hold; of messages that
the hypotheses of those theorems hold in the runs' instances; that `VMMap` and `Messages` refine their
abstractions; and all liveness, which is out of reach of the prover, as is `ENABLED`. `VMMap`'s
routines are folds over the entries of a map: what they compute is a matter of induction over
data. `NoneHidden` and `SpaceKept` hold of instances that leave out faults of section 5.

## 5. Where code and comments disagree

Three of these are runs that end in a counterexample to what a comment says.

- `vmfault_hidden`: a new object shadows two that have paging spaces, neither with the page.
  Thread 1 finds nothing in the first space, gives its busy page there back and goes on to the
  second.  Nothing in the first object is busy now, and thread 2 begins to page in there.
  Thread 1 finds nothing in the second either and zero-fills a page of the new object, which is
  mapped, goes to the reclaim queue and is to be paged out: the daemon collapses the new object
  and the first and frees the page of the first that is hidden now (`vm/vm_object.c:841`), the
  busy page of thread 2.  `vm/vm_fault.c:124` trusts to "a busy page in some object", and `:133`
  that the daemon will not grab it away.
- `messages_stale`: process 2 owns a port and 4 has its receive right.  4 gives the port up just
  as 2 exits.  `RemPort` of 4 finds the owner inactive and is to give the receive right to
  nobody and then to delete the port; `RemPort` of 2, which comes between the two, finds no
  receiver and deletes the port itself; process 3 allocates a port and gets the same record; and
  then 4's `DelPort` destroys 3's port.  The lock is let go before every `DelPort`
  (`accent/vmipc.c:559-624`), and `DelPort` looks at `InUse` only, although the comment at
  `:569` relies on rights just seen.
- `vmmap_zerofill`: memory is allocated, its second page written, and the task forks. The child
  gives its second page back and writes the first, which puts a new object in front of the
  common one.  It allocates the second page again: `vm_map_insert` extends the entry of the
  first page, since its object has one reference and no pager (`vm/vm_map.c:377`), and removes
  what pages *that* object has in the new part.  The object behind still has one there: the
  child reads its parent's data where `vm_allocate` "allocates zero fill memory"
  (`vm/vm_user.c:116`).

A passing run that checks a property a known fault of the code can break leaves out
what that fault takes, so that it says nothing *else* breaks the property.
`dispatch` has sleep and wakeup on the master only, the two of `VMFault` no map that is shared
and no chain of which two objects have a paging space from the start, `messages` no process that is
interrupted while its message carries a right and no such message that does not fit in, and `vmmap` nobody who allocates behind
memory that has a shadow and nobody who changes protection over two entries.

What those faults are, as traces of the modules with the restriction lifted:

- `sleep_and_unlock` lets go of the caller's lock before `unix_swtch` saves the context
  (`sys/kern_synch.c:387-390`).  With a wakeup on another processor in between, the master loads
  a process that its own processor has not saved, contrary to what `ca/loutil.s:718` assumes
  (`LoadedSaved`, with `UnixCPUs <- BothCPUs`; `WokenHalfway` of the proofs).  Processors other than the master do get there:
  a fault taken on one sleeps and wakes in `vm_fault` (`ca/trap.c:216`).  `ipc_wait` has its
  lock released after saving for this reason (`sys/kern_synch.c:924`).
- A thread that searched past the first object holds only a busy page below, or none when it
  comes to the end of the chain.  If the first object had no pager and a page-out meanwhile
  gives it one, or the thread gave its busy page there back since the pager did not have the
  page, a second fault starts a page there; the first then fills in another for the same offset
  (`vm/vm_fault.c:268`).  The busy page does not "prevent some other thread from trying to bring
  in the same page" (`vm/vm_fault.c:124-127`; `OnePage` on the instance of `vmfault_hidden`).
- "Since objects reference their shadows, they will stay around as well" (`vm/vm_fault.c:115`):
  a fault's reference to an object that was bypassed may be the last one, and a collapse by
  another thread frees the backing object a thread is paging in from, whose `shadow` it then
  follows (`vm/vm_fault.c:192`).
- On a copy for a shared map the original page is to go to the reclaim queue, but `vm_fault` has
  taken it off the active queue and `vm_page_reclaim` moves active pages only
  (`vm/vm_fault.c:422`): the page is on none of the "three lists" of `vm/vm_page.h:101`
  (`InAList`, two maps that share an entry).
- A copy leaves the original page mapped until `pmap_enter` (`vm/vm_fault.c:388-460`); a
  collapse by the daemon or another thread meanwhile frees it, mapped as it is.  `Unmapped`
  allows a free page this.
- The daemon sees that an object has no pager and sets a new one without the lock
  (`vm/vm_pageout.c:260`); a collapse in between has moved the backing object's into it, which
  is lost (`SpaceKept`, a common object with a paging space; `LatePager` of the proofs).
- A message that is destroyed, because its port goes away or its sender is interrupted, takes
  the rights it carries along: they stay `RIGHTS_IN_TRANSIT` for ever (`accent/vmipc.c:1097`
  does not translate them when it only deallocates).  So does one that does not fit in where it
  is received (`accent/accent.c:804-826`).  `RightsCarried` names this as `Undestroyed`.
- `vm_map_protect` says "Worry about copy-on-write here -- CHECK THIS XXX" (`vm/vm_map.c:890`):
  the mask that keeps copy-on-write pages unwritable is taken from the first entry of the range
  for all of them, and makes pages writable that another task's copy still needs; for shared
  memory the range is taken too far (`:919`).

Seen while modelling and not pursued: a sender whose time is up gets `PortFull` though its
message had been moved up already and will be delivered (`accent/accent.c:561-585`), and takes
back whatever message has its kmsg structure by then, so that another sender sleeps for ever
(`:575`, the hypothesis `OwnWithdrawn`); a timeout that comes while a
processor spins in `IPCWait` is lost, since the process is not asleep (`accent/acc_macro.h:350`,
`accent/vmipc.c:1527`); a receiver that exits remains `Receiver` after it offered the right to
the owner, and when its record is reused `unxIPCActivate` makes its queue empty with messages in
it (`accent/vmipc.c:274`, contrary to the comment at `accent/vax/impl_proc.h:87`); a message
moves up into the queue of the process that received the one before even if the receive right
has gone elsewhere (`accent/accent.c:772-780`); the holders of a destroyed port are told up to
but not including the last process (`accent/vmipc.c:762`); raising a backlog lets new messages
overtake those in the secondary queue (`accent/accint.c:233`); senders are woken when their
message is received, not when it is moved up as `accent/kern_ipc.h:115-120` says.  `vm_map_fork`
treats the sharing map of an entry that has become `COPY` as an object (`vm/vm_map.c:1824`); a
failed `MoveMemory` leaves the memory it allocated (`accent/vmdata.c:328-405`).  `set_pri` of a
queued thread loses it (`kern/sched_prim.c:430`; nobody calls it, and `SetPri` models it);
`choose_thread` takes the global queue's thread when levels are equal although the comment at
`kern/sched_prim.c:445` gives the local queue the preference; `tsleep`'s timeout wakes on an
address nobody sleeps on (`sys/kern_synch.c:460`); `assert_wait` sets a wait state that
`thread_wakeup` does not finish (`kern/sched_prim.c:208`, without callers); and a process that
is half asleep (on the queue, not yet `SSLEEP`) makes a wakeup on another processor panic
(`sys/kern_synch.c:544`; `SleeperMet` of the proofs), which needs sleep on both processors as
well.

## 6. Not modelled

`PROJECT.json` lists the parts; in short: pagers (their answers only), zones, tasks
and threads (beyond the fork and end of their memory and ports), timeouts of `tsleep` and
swapping are left for later; machine code, page tables and devices appear as what the
modelled code sees of them; 4.3BSD's own code, generated stubs, drivers and tools are not
part of this account.  They are most of the tree's lines, and the map's share of it is
small for that reason.

Of the hazards in `PROJECT.json` those without a property are faults a property could only
restate, or need one of the parts above: objects whose shadow changes just before they end,
wiring, processes out of core, wait events, `mp_init`, and two readers of a map that each
make the object of an entry.

## 7. Plan

The most important behaviour is there: locks, queues, dispatching, faults against pageout,
address maps, and ports and messages.  What is left, in this order.

1. *Proofs*: that no step is `PageTaken` where at most one object of a chain has a paging
   space; the invariants of VMMap, one routine at a time.
2. *Objects to the end*: the windows of `vm_object_deallocate` and `vm_object_terminate`
   without the lock (`vm/vm_object.c:277`), and the cache.
3. *Wiring*: `vm_page_wire`, `vm_fault_wire` and the queue counts.
4. *Sleep*: `tsleep`, timeouts, signals and swapping over Dispatch.
5. *Wait events* (`assert_wait`, `thread_wakeup`), *SyncPrim* (`mp_init`, busy locks), *Zalloc*;
   references and termination of tasks.
