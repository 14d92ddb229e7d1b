------------------------------ MODULE VMFault ------------------------------
(***************************************************************************)
(* Page faults and the pageout daemon: vm_fault of vm/vm_fault.c by        *)
(* several threads against vm_pageout and vm_pageout_scan of               *)
(* vm/vm_pageout.c, over the pages and objects of VMPage and VMObject.     *)
(*                                                                         *)
(* The steps are what runs under vm_page_system_lock, or between two       *)
(* holdings of it; where a loop holds it from one turn to the next, lock   *)
(* says so; what follows an unlock belongs to the step.  Every map has one *)
(* entry that covers all offsets, pageable and writable; nobody removes    *)
(* entries, but a fault may give up the last reference to an object that   *)
(* was bypassed meanwhile.  sleep_and_unlock sleeps and unlocks in one     *)
(* step here: it is on the event queue before it unlocks.                  *)
(***************************************************************************)
EXTENDS VMObject

CONSTANTS Threads, Daemon, NoOne,
          MapOf,          \* the map of a thread's task
          EntryOf,        \* the map that holds a map's entry: itself or
                          \* the share map it leads to
          FreeMin, FreeTarget, ReclaimTarget,
          Touches,        \* the faults threads may make: <<t, f, w>>
          InitEntry, InitMem, InitStored,
          SpaceFound      \* whether vm_pager_allocate finds paging space:
                          \* {TRUE}, {FALSE} or BOOLEAN

-----------------------------------------------------------------------------
(***************************************************************************)
(* What the properties at the end of the module say of a memory m; and     *)
(* what is so from the start.                                              *)
(***************************************************************************)
Times(q, p) == Cardinality({i \in DOMAIN q : q[i] = p})

Filed(m) ==
  \A p \in Pages :
    /\ Times(m.activeq, p) = (IF m.active[p] THEN 1 ELSE 0)
    /\ Times(m.reclaimq, p) = (IF m.reclaimable[p] THEN 1 ELSE 0)
    /\ ~(m.active[p] /\ m.reclaimable[p])
    /\ p \in Free(m) => ~m.active[p] /\ ~m.reclaimable[p]

AtRest(m) == \A p \in Pages : p \in Free(m) \/ m.reclaimable[p] => m.mapped[p] = {}

Listed(m) ==
  \A p \in Pages : m.busy[p] \/ p \in Free(m) \/ m.active[p] \/ m.reclaimable[p]

(* e is the entries, and first the first object of each thread's fault     *)
Counted(m, e, first) ==
  \A o \in Objects :
    /\ m.ref_count[o] =
         Cardinality({x \in DOMAIN e : e[x].object = o})
         + Cardinality({x \in Objects : m.live[x] /\ m.shadow[x] = o})
         + Cardinality({t \in Threads : first[t] = o})
    /\ m.ref_count[o] > 0 => m.live[o]
    /\ ~m.live[o] => PagesOf(m, o) = {}

(* of any objects, one shadows none of them                                *)
Acyclic(m) == \A S \in (SUBSET {o \in Objects : m.live[o]}) \ {{}} :
                \E o \in S : m.shadow[o] \notin S

ASSUME VMFaultAssumption ==
  /\ FreeMin \in Nat /\ FreeTarget \in Nat /\ ReclaimTarget \in Nat
  /\ FreeMin < FreeTarget /\ FreeTarget < ReclaimTarget
  /\ Daemon \notin Threads /\ NoOne \notin Threads /\ NoOne # Daemon
  /\ IsFiniteSet(Pages) /\ IsFiniteSet(Objects) /\ IsFiniteSet(Threads)
  /\ Offsets # {} /\ SpaceFound \subseteq BOOLEAN
  /\ Touches \subseteq Threads \X Offsets \X BOOLEAN
  /\ IsFiniteSet(DOMAIN InitEntry)
  /\ MapOf \in [Threads -> Maps] /\ EntryOf \in [Maps -> DOMAIN InitEntry]
  /\ InitEntry \in [DOMAIN InitEntry -> [object : Objects, needs_copy : BOOLEAN]]
  /\ InitStored \in [Objects -> SUBSET Offsets]

ASSUME InitMemAssumption ==
  /\ InitMem \in Memories
  /\ Filed(InitMem) /\ AtRest(InitMem) /\ Listed(InitMem) /\ Acyclic(InitMem)
  /\ Counted(InitMem, InitEntry, [t \in Threads |-> NoObject])
  /\ \A p \in Pages : ~InitMem.busy[p]
  /\ \A o \in Objects : /\ ~InitMem.pageout_in_progress[o]
                        /\ ~InitMem.live[o] => InitMem.space[o] = NoSpace

VARIABLES
  mem,      \* pages and objects
  stored,   \* stored[s]: the offsets paging space s has data for
  entry,    \* the map entries: object and needs_copy
  lock,     \* who holds vm_page_system_lock
  th,       \* the threads: where they are in vm_fault and its variables
  dm        \* the pageout daemon, likewise

vars == <<mem, stored, entry, lock, th, dm>>

Idle == [pc |-> "idle", write |-> FALSE, offset |-> CHOOSE f \in Offsets : TRUE,
         first |-> NoObject, object |-> NoObject, page |-> NoPage,
         prot |-> FALSE, locked |-> FALSE]

Init == /\ mem = InitMem
        /\ stored = InitStored
        /\ entry = InitEntry
        /\ lock = NoOne
        /\ th = [t \in Threads |-> Idle]
        /\ dm = [pc |-> "asleep", cur |-> NoPage, object |-> NoObject,
                 freed |-> FALSE, shortage |-> 0]

-----------------------------------------------------------------------------
FreeWaitersWoken ==
  [t \in Threads |-> IF th[t].pc = "sleep_free"
                       THEN [th[t] EXCEPT !.pc = "lookup"] ELSE th[t]]

PageWaitersWoken(p) ==
  [t \in Threads |-> IF th[t].pc = "sleep_page" /\ th[t].page = p
                       THEN [th[t] EXCEPT !.pc = "lookup"] ELSE th[t]]

Step(t, new) == th' = [th EXCEPT ![t] = new]

(* t's step, which also does wakeup(chan)                                  *)
StepWaking(t, new, chan) == th' = [PageWaitersWoken(chan) EXCEPT ![t] = new]

WakeDaemon == dm' = IF dm.pc = "asleep" THEN [dm EXCEPT !.pc = "run"] ELSE dm

Low(m) == \/ Cardinality(Free(m)) < FreeMin
          \/ /\ Cardinality(Free(m)) < FreeTarget
             /\ Len(m.reclaimq) < ReclaimTarget

(* what vm_page_alloc does besides: the daemon is poked                    *)
PokeDaemon(m) == IF Low(m) THEN WakeDaemon ELSE dm' = dm

SingleUse(map) == {m \in Maps : EntryOf[m] = EntryOf[map]} = {map}

-----------------------------------------------------------------------------
(***************************************************************************)
(* vm_map_lookup, when the entry is found and the access allowed: a write  *)
(* to an entry that needs a copy gets it a shadow first, with the map's    *)
(* lock upgraded.  The map stays read-locked.  These are its outcomes.     *)
(***************************************************************************)
Copies(t) ==    \* the entry has to get a shadow
  entry[EntryOf[MapOf[t]]].needs_copy /\ th[t].write

Unlocked(e) == \A u \in Threads : EntryOf[MapOf[u]] = e => ~th[u].locked

LookedUp(t) ==
  LET e == EntryOf[MapOf[t]]
      o == entry[e].object
  IN  IF ~Copies(t)
        THEN {[entry |-> entry, mem |-> mem, object |-> o,
               prot |-> ~entry[e].needs_copy]}
        ELSE {[entry |-> [entry EXCEPT ![e] = [object |-> n, needs_copy |-> FALSE]],
               mem |-> MakeShadow(mem, n, o), object |-> n, prot |-> TRUE] :
                n \in {x \in Objects : Unlocked(e) /\ ~mem.live[x]}}

(* A thread touches a page of its map that it may not touch so.            *)
Fault(t, f, w) ==
  /\ th[t].pc = "idle"
  /\ Step(t, [th[t] EXCEPT !.pc = "lookup", !.offset = f, !.write = w])
  /\ UNCHANGED <<mem, stored, entry, lock, dm>>

LookupMap(t) ==
  /\ th[t].pc = "lookup"
  /\ \E r \in LookedUp(t) :
       /\ mem' = Reference(r.mem, r.object)
       /\ entry' = r.entry
       /\ Step(t, [th[t] EXCEPT !.pc = "enter", !.first = r.object, !.object = r.object,
                   !.page = NoPage, !.prot = r.prot, !.locked = TRUE])
  /\ UNCHANGED <<stored, lock, dm>>

Enter(t) ==
  /\ th[t].pc = "enter" /\ lock = NoOne
  /\ lock' = t
  /\ Step(t, [th[t] EXCEPT !.pc = "search"])
  /\ UNCHANGED <<mem, stored, entry, dm>>

-----------------------------------------------------------------------------
(***************************************************************************)
(* The search down the shadow chain: one object a step, t holds the lock.  *)
(***************************************************************************)
Searching(t) == th[t].pc = "search" /\ lock = t

(* Mutated: a page in transit is not seen.                                 *)
SeenReady(t) ==
  IF th[t].object = NoObject THEN NoPage
  ELSE LET p == Lookup(mem, th[t].object, th[t].offset)
       IN  IF p # NoPage /\ mem.busy[p] THEN NoPage ELSE p

Seen(t) == IF th[t].object = NoObject
             THEN NoPage ELSE Lookup(mem, th[t].object, th[t].offset)

(* unlock, vm_object_deallocate(first_object), vm_map_lookup_done          *)
LetGo(m, t) == Unreference(m, th[t].first)

GivenUp(t) == [th[t] EXCEPT !.first = NoObject, !.object = NoObject,
                            !.locked = FALSE, !.prot = FALSE]

FindBusy(t) ==
  /\ Searching(t) /\ Seen(t) # NoPage
  /\ mem.busy[Seen(t)]
  /\ mem' = LetGo(mem, t)
  /\ lock' = NoOne
  /\ Step(t, [GivenUp(t) EXCEPT !.pc = "await", !.page = Seen(t)])
  /\ UNCHANGED <<stored, entry, dm>>

Await(t) ==
  /\ th[t].pc = "await" /\ lock = NoOne
  /\ Step(t, [th[t] EXCEPT !.pc = IF mem.busy[th[t].page] THEN "sleep_page" ELSE "lookup"])
  /\ UNCHANGED <<mem, stored, entry, lock, dm>>

Find(t) ==
  /\ Searching(t) /\ Seen(t) # NoPage
  /\ ~mem.busy[Seen(t)]
  /\ Step(t, [th[t] EXCEPT !.pc = "found", !.page = Seen(t)])
  /\ UNCHANGED <<mem, stored, entry, lock, dm>>

MoveOn(t) ==
  /\ Searching(t) /\ th[t].object # NoObject /\ Seen(t) = NoPage
  /\ mem.space[th[t].object] = NoSpace
  /\ Step(t, [th[t] EXCEPT !.object = mem.shadow[th[t].object]])
  /\ UNCHANGED <<mem, stored, entry, lock, dm>>

StartPagein(t) ==
  /\ Searching(t) /\ th[t].object # NoObject /\ Seen(t) = NoPage
  /\ mem.space[th[t].object] # NoSpace
  /\ \E p \in Free(mem) :
       /\ mem' = Alloc(mem, p, th[t].object, th[t].offset)
       /\ Step(t, [th[t] EXCEPT !.pc = "pagein", !.page = p, !.locked = FALSE])
  /\ lock' = NoOne
  /\ PokeDaemon(mem')
  /\ UNCHANGED <<stored, entry>>

ZeroFill(t) ==
  /\ Searching(t) /\ th[t].object = NoObject
  /\ \E p \in Free(mem) :
       /\ mem' = SetBusy(Alloc(mem, p, th[t].first, th[t].offset), p, FALSE)
       /\ Step(t, [th[t] EXCEPT !.pc = "found", !.page = p])
  /\ PokeDaemon(mem')
  /\ UNCHANGED <<stored, entry, lock>>

NoMemory(t) ==
  /\ Searching(t) /\ Free(mem) = {}
  /\ \/ th[t].object = NoObject
     \/ /\ th[t].object # NoObject /\ Seen(t) = NoPage
        /\ mem.space[th[t].object] # NoSpace
  /\ mem' = LetGo(mem, t)
  /\ lock' = NoOne
  /\ Step(t, [GivenUp(t) EXCEPT !.pc = "short", !.page = NoPage])
  /\ UNCHANGED <<stored, entry, dm>>

AwaitMemory(t) ==
  /\ th[t].pc = "short" /\ lock = NoOne
  /\ Step(t, [th[t] EXCEPT !.pc = "sleep_free"])
  /\ WakeDaemon
  /\ UNCHANGED <<mem, stored, entry, lock>>

-----------------------------------------------------------------------------
(***************************************************************************)
(* The page is brought in without a lock, the page busy.  The pager called *)
(* is that of t's object, which a collapse may have freed meanwhile: its   *)
(* pager is then null, and vm_pager_get ends without a value.  A pager     *)
(* reads the space of the page's object of that moment.                    *)
(***************************************************************************)
Stored(t) == LET s == mem.space[mem.object[th[t].page]]
             IN  s # NoSpace /\ th[t].offset \in stored[s]

PagerGet(t) ==
  /\ th[t].pc = "pagein"
  /\ \E there \in BOOLEAN :
       /\ mem.space[th[t].object] # NoSpace => (there <=> Stored(t))
       /\ Step(t, [th[t] EXCEPT !.pc = IF there THEN "got" ELSE "not_there"])
  /\ UNCHANGED <<mem, stored, entry, lock, dm>>

PagedIn(t) ==
  /\ th[t].pc = "got" /\ lock = NoOne
  /\ lock' = t
  /\ mem' = SetBusy(mem, th[t].page, FALSE)
  /\ StepWaking(t, [th[t] EXCEPT !.pc = "found"], th[t].page)
  /\ UNCHANGED <<stored, entry, dm>>

NotThere(t) ==
  /\ th[t].pc = "not_there" /\ lock = NoOne
  /\ lock' = t
  /\ mem' = FreePages(mem, {th[t].page})
  /\ StepWaking(t, [th[t] EXCEPT !.pc = "search", !.page = NoPage,
                    !.object = mem.shadow[th[t].object]], th[t].page)
  /\ UNCHANGED <<stored, entry, dm>>

-----------------------------------------------------------------------------
(***************************************************************************)
(* The page is taken off the paging queues; if the map was let go it is    *)
(* looked up again, the page busy.                                         *)
(***************************************************************************)
Take(t) ==
  /\ th[t].pc = "found" /\ lock = t
  /\ mem' = SetBusy(Dequeue(mem, {th[t].page}), th[t].page, ~th[t].locked)
  /\ lock' = IF th[t].locked THEN t ELSE NoOne
  /\ Step(t, [th[t] EXCEPT !.pc = IF th[t].locked THEN "copy" ELSE "relookup"])
  /\ UNCHANGED <<stored, entry, dm>>

LookupAgain(t) ==
  /\ th[t].pc = "relookup"
  /\ \E r \in LookedUp(t) :
       /\ mem' = r.mem
       /\ entry' = r.entry
       /\ Step(t, [th[t] EXCEPT !.pc = IF r.object = th[t].first THEN "same" ELSE "changed",
                   !.prot = r.prot, !.locked = TRUE])
  /\ UNCHANGED <<stored, lock, dm>>

MapUnchanged(t) ==
  /\ th[t].pc = "same" /\ lock = NoOne
  /\ mem' = SetBusy(mem, th[t].page, FALSE)
  /\ lock' = t
  /\ StepWaking(t, [th[t] EXCEPT !.pc = "copy"], th[t].page)
  /\ UNCHANGED <<stored, entry, dm>>

(* Mutated: the page that is no longer wanted is dropped.                  *)
MapChangedDropped(t) ==
  /\ th[t].pc = "changed" /\ lock = NoOne
  /\ mem' = LetGo(SetBusy(mem, th[t].page, FALSE), t)
  /\ StepWaking(t, [GivenUp(t) EXCEPT !.pc = "lookup", !.page = NoPage], th[t].page)
  /\ UNCHANGED <<stored, entry, lock, dm>>

MapChanged(t) ==
  /\ th[t].pc = "changed" /\ lock = NoOne
  /\ mem' = LetGo(Activate(SetBusy(mem, th[t].page, FALSE), th[t].page), t)
  /\ StepWaking(t, [GivenUp(t) EXCEPT !.pc = "lookup", !.page = NoPage], th[t].page)
  /\ UNCHANGED <<stored, entry, lock, dm>>

-----------------------------------------------------------------------------
(***************************************************************************)
(* A page that is written but not the first object's own is copied into a  *)
(* new page of the first object, unless a collapse makes it its own.  t    *)
(* holds the lock from MapUnchanged or Take on.                            *)
(***************************************************************************)
Copying(t) == th[t].pc = "copy" /\ lock = t

NotOwn(t) == th[t].object \notin {th[t].first, NoObject}

Collapsed(t) == Collapse(mem, th[t].first)

MustCopy(t) == NotOwn(t) /\ th[t].write
               /\ Collapsed(t).object[th[t].page] # th[t].first

UsePage(t) ==
  /\ Copying(t) /\ ~MustCopy(t)
  /\ mem' = SetBusy(IF NotOwn(t) /\ th[t].write THEN Collapsed(t) ELSE mem,
                    th[t].page, TRUE)
  /\ lock' = NoOne
  /\ Step(t, [th[t] EXCEPT !.pc = "map",
              !.prot = th[t].prot /\ (NotOwn(t) => th[t].write)])
  /\ UNCHANGED <<stored, entry, dm>>

CopyPage(t) ==
  /\ Copying(t) /\ MustCopy(t)
  /\ \E new \in Free(Collapsed(t)), bit \in ModifyBits(mem, th[t].page) :
       LET old    == th[t].page
           copied == Alloc(Collapsed(t), new, th[t].first, th[t].offset)
       IN  /\ mem' = IF SingleUse(MapOf[t])
                       THEN Activate(copied, old)
                       ELSE Reclaim(PmapRemoveAll(copied, old, bit), old)
           /\ Step(t, [th[t] EXCEPT !.pc = "map", !.page = new])
  /\ lock' = NoOne
  /\ PokeDaemon(mem')
  /\ UNCHANGED <<stored, entry>>

CopyNoMemory(t) ==
  /\ Copying(t) /\ MustCopy(t)
  /\ Free(Collapsed(t)) = {}
  /\ mem' = LetGo(Activate(Collapsed(t), th[t].page), t)
  /\ lock' = NoOne
  /\ Step(t, [GivenUp(t) EXCEPT !.pc = "short", !.page = NoPage])
  /\ UNCHANGED <<stored, entry, dm>>

(* pmap_enter, without the lock                                            *)
EnterPmap(t) ==
  /\ th[t].pc = "map"
  /\ mem' = PmapEnter(mem, MapOf[t], th[t].page, th[t].prot)
  /\ Step(t, [th[t] EXCEPT !.pc = "finish"])
  /\ UNCHANGED <<stored, entry, lock, dm>>

Finish(t) ==
  /\ th[t].pc = "finish" /\ lock = NoOne
  /\ mem' = LetGo(Activate(SetBusy(mem, th[t].page, FALSE), th[t].page), t)
  /\ StepWaking(t, Idle, th[t].page)
  /\ UNCHANGED <<stored, entry, lock, dm>>

-----------------------------------------------------------------------------
(***************************************************************************)
(* vm_pageout_scan: the reclaim queue from its head, while there are too   *)
(* few free pages.                                                         *)
(***************************************************************************)
After(q, p) == LET i == CHOOSE i \in DOMAIN q : q[i] = p
               IN  IF i = Len(q) THEN NoPage ELSE q[i + 1]

StartScan ==
  /\ dm.pc = "run" /\ lock = NoOne
  /\ lock' = Daemon
  /\ dm' = [dm EXCEPT !.pc = "scan", !.freed = FALSE,
            !.cur = IF mem.reclaimq = <<>> THEN NoPage ELSE Head(mem.reclaimq)]
  /\ UNCHANGED <<mem, stored, entry, th>>

Scanning == /\ dm.pc = "scan" /\ dm.cur # NoPage
            /\ Cardinality(Free(mem)) < FreeTarget

(* A clean page is freed, one that is dirty but not in the laundry passed  *)
(* over.                                                                   *)
PassBy ==
  /\ Scanning /\ (mem.laundry[dm.cur] => mem.clean[dm.cur])
  /\ mem' = IF mem.clean[dm.cur] THEN FreePages(mem, {dm.cur}) ELSE mem
  /\ dm' = [dm EXCEPT !.cur = After(mem.reclaimq, dm.cur),
            !.freed = dm.freed \/ mem.clean[dm.cur]]
  /\ UNCHANGED <<stored, entry, lock, th>>

(* Mutated: the page is not marked busy while it is written.               *)
StartPageoutIdle ==
  /\ Scanning /\ ~mem.clean[dm.cur] /\ mem.laundry[dm.cur]
  /\ mem' = [Collapse(mem, mem.object[dm.cur]) EXCEPT
               !.pageout_in_progress[mem.object[dm.cur]] = TRUE]
  /\ lock' = NoOne
  /\ th' = FreeWaitersWoken
  /\ dm' = [dm EXCEPT !.pc = "pager", !.object = mem.object[dm.cur]]
  /\ UNCHANGED <<stored, entry>>

StartPageout ==
  /\ Scanning /\ ~mem.clean[dm.cur] /\ mem.laundry[dm.cur]
  /\ mem' = [SetBusy(Collapse(mem, mem.object[dm.cur]), dm.cur, TRUE) EXCEPT
               !.pageout_in_progress[mem.object[dm.cur]] = TRUE]
  /\ lock' = NoOne
  /\ th' = FreeWaitersWoken
  /\ dm' = [dm EXCEPT !.pc = "pager", !.object = mem.object[dm.cur]]
  /\ UNCHANGED <<stored, entry>>

(* vm_pager_allocate and vm_object_setpager, without the lock              *)
LookAtPager ==
  /\ dm.pc = "pager"
  /\ dm' = [dm EXCEPT !.pc = IF mem.space[dm.object] = NoSpace THEN "allocate" ELSE "put"]
  /\ UNCHANGED <<mem, stored, entry, lock, th>>

(* a paging space nobody has; if there is none every object has one        *)
Unused == {s \in Objects : \A o \in Objects : mem.space[o] # s}

SetPager ==
  /\ dm.pc = "allocate" /\ TRUE \in SpaceFound /\ Unused # {}
  /\ LET s == CHOOSE s \in Unused : TRUE
     IN  /\ mem' = [mem EXCEPT !.space[dm.object] = s]
         /\ stored' = [stored EXCEPT ![s] = {}]
  /\ dm' = [dm EXCEPT !.pc = "put"]
  /\ UNCHANGED <<entry, lock, th>>

NoPagingSpace ==
  /\ dm.pc = "allocate" /\ FALSE \in SpaceFound
  /\ dm' = [dm EXCEPT !.pc = "written"]
  /\ UNCHANGED <<mem, stored, entry, lock, th>>

PagerPut ==
  /\ dm.pc = "put"
  /\ stored' = [stored EXCEPT ![mem.space[dm.object]] =
                  @ \cup {mem.offset[dm.cur]}]
  /\ mem' = [mem EXCEPT !.clean[dm.cur] = TRUE, !.laundry[dm.cur] = FALSE,
                        !.modified[dm.cur] = FALSE]
  /\ dm' = [dm EXCEPT !.pc = "written"]
  /\ UNCHANGED <<entry, lock, th>>

(* "page moved off reclaim queue" is a panic                               *)
EndPageout ==
  /\ dm.pc = "written" /\ lock = NoOne
  /\ lock' = Daemon
  /\ mem' = [SetBusy(mem, dm.cur, FALSE) EXCEPT
               !.pageout_in_progress[dm.object] = FALSE]
  /\ th' = PageWaitersWoken(dm.cur)
  /\ dm' = IF mem.reclaimable[dm.cur]
             THEN [dm EXCEPT !.pc = "scan", !.cur = After(mem.reclaimq, dm.cur),
                             !.object = NoObject]
             ELSE [dm EXCEPT !.pc = "panic"]
  /\ UNCHANGED <<stored, entry>>

(***************************************************************************)
(* Then pages move from the active to the reclaim queue, at least one if   *)
(* none was freed, and whoever waits for memory is woken.                  *)
(***************************************************************************)
EndScan ==
  /\ dm.pc = "scan" /\ ~Scanning
  /\ LET short == ReclaimTarget - Len(mem.reclaimq)
     IN  dm' = [dm EXCEPT !.pc = "refill", !.cur = NoPage,
                !.shortage = IF short <= 0 /\ ~dm.freed THEN 1 ELSE short]
  /\ UNCHANGED <<mem, stored, entry, lock, th>>

(* Mutated: the page is moved but left in the physical maps.               *)
RefillMapped ==
  /\ dm.pc = "refill" /\ dm.shortage > 0 /\ mem.activeq # <<>>
  /\ mem' = Reclaim(mem, Head(mem.activeq))
  /\ dm' = [dm EXCEPT !.shortage = dm.shortage - 1]
  /\ UNCHANGED <<stored, entry, lock, th>>

Refill ==
  /\ dm.pc = "refill" /\ dm.shortage > 0 /\ mem.activeq # <<>>
  /\ LET p == Head(mem.activeq)
     IN  \E bit \in ModifyBits(mem, p) : mem' = Reclaim(PmapRemoveAll(mem, p, bit), p)
  /\ dm' = [dm EXCEPT !.shortage = dm.shortage - 1]
  /\ UNCHANGED <<stored, entry, lock, th>>

(* Mutated: the daemon scans again before it wakes anybody.                *)
EndRefillRescans ==
  /\ dm.pc = "refill" /\ (dm.shortage <= 0 \/ mem.activeq = <<>>)
  /\ lock' = NoOne
  /\ dm' = [dm EXCEPT !.pc = "run", !.shortage = 0, !.freed = FALSE]
  /\ UNCHANGED <<mem, stored, entry, th>>

EndRefill ==
  /\ dm.pc = "refill" /\ (dm.shortage <= 0 \/ mem.activeq = <<>>)
  /\ lock' = NoOne
  /\ dm' = [dm EXCEPT !.pc = "rest", !.shortage = 0, !.freed = FALSE]
  /\ UNCHANGED <<mem, stored, entry, th>>

Rest ==
  /\ dm.pc = "rest" /\ lock = NoOne
  /\ th' = FreeWaitersWoken
  /\ dm' = [dm EXCEPT !.pc = "asleep"]
  /\ UNCHANGED <<mem, stored, entry, lock>>

-----------------------------------------------------------------------------
(***************************************************************************)
(* What whoever gave up the last reference to o does then, before it goes  *)
(* on; it waits until the daemon is through with the object.               *)
(***************************************************************************)
Terminate(o) ==
  /\ lock = NoOne
  /\ mem.live[o] /\ mem.ref_count[o] = 0 /\ ~mem.pageout_in_progress[o]
  /\ mem' = Terminated(mem, o)
  /\ UNCHANGED <<stored, entry, lock, th, dm>>

-----------------------------------------------------------------------------
Handle(t) ==
  \/ LookupMap(t) \/ Enter(t)
  \/ FindBusy(t) \/ Await(t) \/ Find(t) \/ MoveOn(t) \/ StartPagein(t) \/ ZeroFill(t)
  \/ NoMemory(t) \/ AwaitMemory(t)
  \/ PagerGet(t) \/ PagedIn(t) \/ NotThere(t)
  \/ Take(t) \/ LookupAgain(t) \/ MapUnchanged(t) \/ MapChanged(t)
  \/ UsePage(t) \/ CopyPage(t) \/ CopyNoMemory(t)
  \/ EnterPmap(t) \/ Finish(t)

Pageout ==
  \/ StartScan \/ PassBy \/ StartPageout
  \/ LookAtPager \/ SetPager \/ NoPagingSpace \/ PagerPut \/ EndPageout
  \/ EndScan \/ Refill \/ EndRefill \/ Rest

Next == \/ \E t \in Threads : Handle(t) \/ \E f \in Offsets, w \in BOOLEAN :
                                            <<t, f, w>> \in Touches /\ Fault(t, f, w)
        \/ Pageout
        \/ \E o \in Objects : Terminate(o)

Spec == Init /\ [][Next]_vars

(* Threads and the daemon run when they can and get the lock in the end;   *)
(* the pager answers.                                                      *)
FairSpec == /\ Spec /\ SF_vars(Pageout)
            /\ \A t \in Threads : SF_vars(Handle(t))
            /\ SF_vars(\E o \in Objects : Terminate(o))

-----------------------------------------------------------------------------
ThreadRecords ==
  [pc : {"idle", "lookup", "enter", "search", "await", "sleep_page", "short",
         "sleep_free", "pagein", "got", "not_there", "found", "relookup", "same",
         "changed", "copy", "map", "finish"},
   write : BOOLEAN, offset : Offsets, first : Objects \cup {NoObject},
   object : Objects \cup {NoObject}, page : Pages \cup {NoPage},
   prot : BOOLEAN, locked : BOOLEAN]

TypeOK ==
  /\ mem \in Memories
  /\ stored \in [Objects -> SUBSET Offsets]
  /\ entry \in [DOMAIN InitEntry -> [object : Objects, needs_copy : BOOLEAN]]
  /\ lock \in Threads \cup {Daemon, NoOne}
  /\ th \in [Threads -> ThreadRecords]
  /\ dm \in [pc : {"asleep", "run", "scan", "pager", "allocate", "put", "written",
                   "refill", "rest", "panic"},
             cur : Pages \cup {NoPage}, object : Objects \cup {NoObject},
             freed : BOOLEAN, shortage : Int]

(***************************************************************************)
(* No page is brought in twice: an object has at most one page at an       *)
(* offset, whichever threads faulted on it through whichever chains.       *)
(***************************************************************************)
OnePage ==
  \A p, q \in Pages \ Free(mem) :
    mem.object[p] = mem.object[q] /\ mem.offset[p] = mem.offset[q] => p = q

(***************************************************************************)
(* The flags of a page say where it is: a page is at most once on the      *)
(* queue its flag names, on no other, and a free page is on neither.       *)
(* queue_enter of a page that is on a queue would tear both.               *)
(***************************************************************************)
FlagsTellQueue == Filed(mem)

(***************************************************************************)
(* vm_fault's invariants 1 and 2 (vm_fault.c:124): a page a thread works   *)
(* on without the lock is busy, out of the daemon's reach and nobody       *)
(* else's; it is neither freed nor taken for something else.  And the      *)
(* daemon's page "won't move from the reclaim queue" (vm_pageout.c:214)    *)
(* nor change its object while it is written.                              *)
(***************************************************************************)
Works == {"pagein", "got", "not_there", "relookup", "same", "changed", "map", "finish"}

WorksOn(t) == th[t].pc \in Works

Writing == dm.pc \in {"pager", "allocate", "put", "written"}

BusyPageKept ==
  /\ \A t \in Threads : WorksOn(t) =>
       LET p == th[t].page
       IN  /\ p \notin Free(mem) /\ mem.offset[p] = th[t].offset
           /\ mem.busy[p] /\ ~mem.active[p] /\ ~mem.reclaimable[p]
           /\ \A u \in Threads \ {t} : WorksOn(u) => th[u].page # p
  /\ Writing => /\ mem.busy[dm.cur] /\ mem.reclaimable[dm.cur]
                /\ mem.object[dm.cur] = dm.object
                /\ mem.live[dm.object] /\ mem.pageout_in_progress[dm.object]
  /\ dm.pc # "panic"

(***************************************************************************)
(* What goes from under a thread is not what it works on: neither a        *)
(* collapse nor the end of an object, when one can come, frees the page a  *)
(* thread has found or made (vm_object.c:841 frees a page of the backing   *)
(* object whoever is at it).                                               *)
(***************************************************************************)
Holds == Works \cup {"found", "copy"}

Collapsing(o) ==
  \/ \E t \in Threads : Copying(t) /\ NotOwn(t) /\ th[t].write /\ o = th[t].first
  \/ Scanning /\ ~mem.clean[dm.cur] /\ mem.laundry[dm.cur] /\ o = mem.object[dm.cur]

Ending(o) == mem.live[o] /\ mem.ref_count[o] = 0 /\ ~mem.pageout_in_progress[o]

NoneHidden ==
  \A o \in Objects, t \in Threads : th[t].pc \in Holds =>
    /\ Collapsing(o) => th[t].page \notin Free(Collapse(mem, o))
    /\ Ending(o) => mem.object[th[t].page] # o

(***************************************************************************)
(* A reclaimable page is "not in any physical map" (vm_page.h:106), or a   *)
(* thread goes on using memory that is written out and taken.  A free page *)
(* is not either, but for the address at which a fault is about to enter   *)
(* the copy it has made: a collapse may free the original before that.     *)
(***************************************************************************)
ReclaimUnmapped == \A p \in Pages : mem.reclaimable[p] => mem.mapped[p] = {}

Unmapped ==
  /\ ReclaimUnmapped
  /\ \A p \in Free(mem) : \A at \in mem.mapped[p] :
       \E t \in Threads : th[t].pc = "map" /\ at = <<MapOf[t], th[t].offset>>

(***************************************************************************)
(* "Each pageable resident page falls into one of three lists"             *)
(* (vm_page.h:101): a page nobody works on is free, active or reclaimable,  *)
(* or the daemon will never find it.                                       *)
(***************************************************************************)
InAList == lock = NoOne => Listed(mem)

(***************************************************************************)
(* The references of an object are the entries, the shadows and the faults *)
(* under way that lead to it; one that is referred to is there, and the    *)
(* pages of one that is gone are gone too.                                 *)
(***************************************************************************)
ReferencesExact == Counted(mem, entry, [t \in Threads |-> th[t].first])

(***************************************************************************)
(* A paging space is the only home of what was written to it: an object    *)
(* that has one keeps it as long as somebody refers to it, or hands it on  *)
(* to the object that absorbs it.                                          *)
(***************************************************************************)
SpaceLost ==
  \E o \in Objects : /\ mem.space[o] # NoSpace /\ mem.ref_count[o] > 0
                     /\ \A x \in Objects : mem'.space[x] # mem.space[o]

SpaceKept == [][~SpaceLost]_vars

(***************************************************************************)
(* A page fault ends, whether it waits for a page, for memory or for the   *)
(* lock, once no other thread faults any more.  (One that faults for ever  *)
(* can take every page another is about to get.)                           *)
(***************************************************************************)
FaultEnds ==
  \A t \in Threads : <>[](\A u \in Threads \ {t} : th[u].pc = "idle")
                       => (th[t].pc # "idle" ~> th[t].pc = "idle")
=============================================================================
