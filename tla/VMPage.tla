------------------------------- MODULE VMPage -------------------------------
(***************************************************************************)
(* The resident pages of vm/vm_resident.c.  A memory, mem, is a record of  *)
(* what vm_page_array, the object/offset table and the paging queues hold; *)
(* the routines are functions from a memory to a memory, and whoever calls *)
(* them holds vm_page_system_lock.  A page belongs to no object exactly    *)
(* when it is on the free queue, whose order nothing depends on.  The      *)
(* counts are those of the queues.  Wired pages are not modelled.          *)
(***************************************************************************)
EXTENDS Queues, FiniteSets

CONSTANTS Pages, Objects, Offsets, Maps,
          NoPage,         \* VM_PAGE_NULL
          NoObject        \* VM_OBJECT_NULL

ASSUME VMPageAssumption == NoPage \notin Pages /\ NoObject \notin Objects

Free(mem) == {p \in Pages : mem.object[p] = NoObject}

Resident(mem, o, f) == {p \in Pages : mem.object[p] = o /\ mem.offset[p] = f}

Lookup(mem, o, f) == IF Resident(mem, o, f) = {}
                       THEN NoPage ELSE CHOOSE p \in Resident(mem, o, f) : TRUE

Less(q, S) == Those(q, Pages \ S)

(* the pages of S leave the queues their flags say they are on             *)
Dequeue(mem, S) ==
  [mem EXCEPT
     !.activeq = Less(@, {p \in S : mem.active[p]}),
     !.reclaimq = Less(@, {p \in S : mem.reclaimable[p]}),
     !.active = [p \in Pages |-> @[p] /\ p \notin S],
     !.reclaimable = [p \in Pages |-> @[p] /\ p \notin S]]

(* vm_page_alloc of the free page p                                        *)
Alloc(mem, p, o, f) ==
  [mem EXCEPT !.object[p] = o, !.offset[p] = f, !.busy[p] = TRUE,
              !.active[p] = FALSE, !.reclaimable[p] = FALSE, !.clean[p] = TRUE,
              !.modified[p] = FALSE]

(* Mutated: the pages stay on their queues.                                *)
FreePagesQueued(mem, S) ==
  [mem EXCEPT !.object = [p \in Pages |-> IF p \in S THEN NoObject ELSE @[p]]]

(* vm_page_free of the pages of S; what is not looked at before the next   *)
(* vm_page_alloc sets it is given one value                                *)
FreePages(mem, S) ==
  [Dequeue(mem, S) EXCEPT
     !.object = [p \in Pages |-> IF p \in S THEN NoObject ELSE @[p]],
     !.busy = [p \in Pages |-> @[p] /\ p \notin S],
     !.clean = [p \in Pages |-> @[p] \/ p \in S],
     !.laundry = [p \in Pages |-> @[p] /\ p \notin S],
     !.modified = [p \in Pages |-> @[p] /\ p \notin S]]

Rename(mem, S, o) ==
  [mem EXCEPT !.object = [p \in Pages |-> IF p \in S THEN o ELSE @[p]]]

Activate(mem, p) == [mem EXCEPT !.activeq = Append(@, p), !.active[p] = TRUE]

Reclaim(mem, p) ==
  IF mem.active[p]
    THEN [Dequeue(mem, {p}) EXCEPT !.reclaimq = Append(@, p),
                                   !.reclaimable[p] = TRUE,
                                   !.laundry[p] = ~mem.clean[p]]
    ELSE mem

(* pmap_remove_all; bit is the modify bit it finds                         *)
PmapRemoveAll(mem, p, bit) ==
  [mem EXCEPT !.mapped[p] = {}, !.clean[p] = @ /\ ~bit]

ModifyBits(mem, p) == IF mem.modified[p] THEN BOOLEAN ELSE {FALSE}

(* pmap_enter of p at the address of its offset in map, where whatever was *)
(* there before gives way                                                  *)
PmapEnter(mem, map, p, write) ==
  LET at == <<map, mem.offset[p]>>
  IN  [mem EXCEPT !.mapped = [q \in Pages |-> IF q = p THEN @[q] \cup {at} ELSE @[q] \ {at}],
                  !.modified[p] = @ \/ write]

SetBusy(mem, p, b) == [mem EXCEPT !.busy[p] = b]
=============================================================================
