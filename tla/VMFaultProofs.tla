---------------------------- MODULE VMFaultProofs ----------------------------
(***************************************************************************)
(* Theorems about VMFault, for every set of pages, objects, maps, threads  *)
(* and offsets.  IInv is the inductive invariant: types, the queues of the *)
(* pages (Queued), the page and the object of every fault (ThreadsOK), the *)
(* holder of the lock (LocksOK), the page of the daemon (DaemonOK), and    *)
(* the references and the chains of the objects (ObjectsOK).  Every step   *)
(* keeps it but one, PageTaken, which the code does not prevent and every  *)
(* theorem names.  AllQuiet and AllLaid, kept beside it, say that no page  *)
(* is reclaimable and mapped, and that none is lost.                       *)
(***************************************************************************)
EXTENDS VMFault, QueueTheorems

(* A collapse frees the page that a fault has found or made, because the   *)
(* object collapsed into has one of that offset too (vm_object.c:841), or  *)
(* the end of an object does.                                              *)
Frees(o) ==
  \E u \in Threads : th[u].pc \in Holds /\ th[u].page \in Free(Collapse(mem, o))

PageTaken ==
  \/ \E t \in Threads : /\ UsePage(t) \/ CopyPage(t) \/ CopyNoMemory(t)
                        /\ NotOwn(t) /\ th[t].write /\ Frees(th[t].first)
  \/ StartPageout /\ Frees(mem.object[dm.cur])
  \/ \E o \in Objects :
       Terminate(o) /\ \E u \in Threads : th[u].pc \in Holds /\ mem.object[th[u].page] = o

(***************************************************************************)
(* The paging queues as sets: queue q has every page with the flag F, once.*)
(***************************************************************************)
QueueOf(q, F) ==
  q \in Seq(Pages) /\ IsInjective(q) /\ Range(q) = {p \in Pages : F[p]}

OffQueues(m, p) == ~m.active[p] /\ ~m.reclaimable[p]

Queued(m) ==
  /\ QueueOf(m.activeq, m.active) /\ QueueOf(m.reclaimq, m.reclaimable)
  /\ \A p \in Pages : /\ ~(m.active[p] /\ m.reclaimable[p])
                      /\ p \in Free(m) => OffQueues(m, p)

SameObjects(m, n) ==
  /\ n.live = m.live /\ n.ref_count = m.ref_count /\ n.shadow = m.shadow
  /\ n.space = m.space /\ n.pageout_in_progress = m.pageout_in_progress

(***************************************************************************)
(* What each routine does to the fields of a memory.                       *)
(***************************************************************************)

(* Pages leave a queue.                                                    *)
LEMMA LessIs ==
  ASSUME NEW q \in Seq(Pages), NEW S
  PROVE  /\ Less(q, S) \in Seq(Pages)
         /\ Range(Less(q, S)) = Range(q) \ S
         /\ IsInjective(q) => IsInjective(Less(q, S))
<1>1. Range(q) \subseteq Pages
  <2>1. \A i \in DOMAIN q : q[i] \in Pages
    BY LenProperties, ElementOfSeq
  <2> QED
    BY <2>1 DEF Range
<1>2. Range(q) \cap (Pages \ S) = Range(q) \ S
  BY <1>1
<1> QED
  BY <1>2, ThoseIs DEF Less

(* Dequeue: the flags go with the pages.                                   *)
LEMMA DequeueDoes ==
  ASSUME NEW m \in Memories, NEW S \in SUBSET Pages
  PROVE  LET n == Dequeue(m, S) IN
         /\ n \in Memories
         /\ n.active = [p \in Pages |-> m.active[p] /\ p \notin S]
         /\ n.reclaimable = [p \in Pages |-> m.reclaimable[p] /\ p \notin S]
         /\ n.object = m.object /\ n.offset = m.offset /\ n.busy = m.busy
         /\ n.clean = m.clean /\ n.laundry = m.laundry /\ n.modified = m.modified
         /\ n.mapped = m.mapped /\ SameObjects(m, n)
         /\ Queued(m) => Queued(n)
<1> DEFINE a == Less(m.activeq, {p \in S : m.active[p]})
           r == Less(m.reclaimq, {p \in S : m.reclaimable[p]})
           n == Dequeue(m, S)
<1>1. m.activeq \in Seq(Pages) /\ m.reclaimq \in Seq(Pages)
  BY DEF Memories
<1>2. /\ a \in Seq(Pages) /\ Range(a) = Range(m.activeq) \ {p \in S : m.active[p]}
      /\ IsInjective(m.activeq) => IsInjective(a)
  BY <1>1, LessIs
<1>3. /\ r \in Seq(Pages) /\ Range(r) = Range(m.reclaimq) \ {p \in S : m.reclaimable[p]}
      /\ IsInjective(m.reclaimq) => IsInjective(r)
  BY <1>1, LessIs
<1>4. n = [m EXCEPT !.activeq = a, !.reclaimq = r,
             !.active = [p \in Pages |-> m.active[p] /\ p \notin S],
             !.reclaimable = [p \in Pages |-> m.reclaimable[p] /\ p \notin S]]
  BY DEF Dequeue, Memories
<1> HIDE DEF a, r, n
<1>5. n \in Memories
  BY <1>2, <1>3, <1>4 DEF Memories
<1>6. /\ n.activeq = a /\ n.reclaimq = r
      /\ n.active = [p \in Pages |-> m.active[p] /\ p \notin S]
      /\ n.reclaimable = [p \in Pages |-> m.reclaimable[p] /\ p \notin S]
      /\ n.object = m.object /\ n.offset = m.offset /\ n.busy = m.busy
      /\ n.clean = m.clean /\ n.laundry = m.laundry /\ n.modified = m.modified
      /\ n.mapped = m.mapped /\ SameObjects(m, n)
  BY <1>4 DEF Memories, SameObjects
<1>7. Queued(m) => Queued(n)
  BY <1>2, <1>3, <1>6 DEF Queued, QueueOf, OffQueues, Free
<1> QED
  BY <1>5, <1>6, <1>7 DEF n

(* vm_page_alloc: the page gets its object and offset, busy and on no      *)
(* queue.                                                                  *)
LEMMA AllocDoes ==
  ASSUME NEW m \in Memories, NEW p \in Pages, NEW o \in Objects, NEW f \in Offsets
  PROVE  LET n == Alloc(m, p, o, f) IN
         /\ n \in Memories
         /\ n.object = [m.object EXCEPT ![p] = o] /\ n.offset = [m.offset EXCEPT ![p] = f]
         /\ n.busy = [m.busy EXCEPT ![p] = TRUE]
         /\ n.active = [m.active EXCEPT ![p] = FALSE]
         /\ n.reclaimable = [m.reclaimable EXCEPT ![p] = FALSE]
         /\ n.mapped = m.mapped /\ SameObjects(m, n)
         /\ Queued(m) /\ p \in Free(m) => Queued(n)
<1> DEFINE n == Alloc(m, p, o, f)
<1>1. n \in Memories
  BY ZenonT(60) DEF Memories, Alloc
<1>2. /\ n.object = [m.object EXCEPT ![p] = o] /\ n.offset = [m.offset EXCEPT ![p] = f]
      /\ n.busy = [m.busy EXCEPT ![p] = TRUE]
      /\ n.active = [m.active EXCEPT ![p] = FALSE]
      /\ n.reclaimable = [m.reclaimable EXCEPT ![p] = FALSE]
      /\ n.mapped = m.mapped /\ SameObjects(m, n)
      /\ n.activeq = m.activeq /\ n.reclaimq = m.reclaimq
  BY DEF Memories, Alloc, SameObjects
<1> HIDE DEF n
<1>3. ASSUME Queued(m), p \in Free(m) PROVE Queued(n)
  <2>1. ~m.active[p] /\ ~m.reclaimable[p]
    BY <1>3 DEF Queued, OffQueues
  <2>2. \A q \in Pages : n.active[q] = m.active[q] /\ n.reclaimable[q] = m.reclaimable[q]
    <3>1. m.active \in [Pages -> BOOLEAN] /\ m.reclaimable \in [Pages -> BOOLEAN]
      BY DEF Memories
    <3>2. n.active \in [Pages -> BOOLEAN] /\ n.reclaimable \in [Pages -> BOOLEAN]
      BY <1>1 DEF Memories
    <3>3. \A q \in Pages \ {p} : n.active[q] = m.active[q] /\ n.reclaimable[q] = m.reclaimable[q]
      BY <1>2, <3>1
    <3>4. ~n.active[p] /\ ~n.reclaimable[p]
      BY <1>2, <3>1
    <3> QED
      BY <2>1, <3>1, <3>2, <3>3, <3>4, Zenon
  <2>3. \A q \in Pages : q \in Free(n) => q \in Free(m)
    BY <1>2, VMPageAssumption DEF Free, Memories
  <2> QED
    BY <1>2, <1>3, <2>2, <2>3 DEF Queued, QueueOf, OffQueues
<1> QED
  BY <1>1, <1>2, <1>3 DEF n

(* vm_page_free: the pages leave their object and their queue, not busy.   *)
LEMMA FreePagesDoes ==
  ASSUME NEW m \in Memories, NEW S \in SUBSET Pages
  PROVE  LET n == FreePages(m, S) IN
         /\ n \in Memories
         /\ n.object = [p \in Pages |-> IF p \in S THEN NoObject ELSE m.object[p]]
         /\ n.busy = [p \in Pages |-> m.busy[p] /\ p \notin S]
         /\ n.active = [p \in Pages |-> m.active[p] /\ p \notin S]
         /\ n.reclaimable = [p \in Pages |-> m.reclaimable[p] /\ p \notin S]
         /\ n.offset = m.offset
         /\ n.mapped = m.mapped /\ SameObjects(m, n)
         /\ Queued(m) => Queued(n)
<1> DEFINE d == Dequeue(m, S)
           n == FreePages(m, S)
<1>1. /\ d \in Memories
      /\ d.active = [p \in Pages |-> m.active[p] /\ p \notin S]
      /\ d.reclaimable = [p \in Pages |-> m.reclaimable[p] /\ p \notin S]
      /\ d.object = m.object /\ d.offset = m.offset /\ d.busy = m.busy
      /\ d.mapped = m.mapped /\ SameObjects(m, d)
      /\ Queued(m) => Queued(d)
  BY DequeueDoes
<1>2. n = [d EXCEPT
             !.object = [p \in Pages |-> IF p \in S THEN NoObject ELSE @[p]],
             !.busy = [p \in Pages |-> @[p] /\ p \notin S],
             !.clean = [p \in Pages |-> @[p] \/ p \in S],
             !.laundry = [p \in Pages |-> @[p] /\ p \notin S],
             !.modified = [p \in Pages |-> @[p] /\ p \notin S]]
  BY DEF FreePages
<1> HIDE DEF d, n
<1>3. n \in Memories
  BY <1>1, <1>2 DEF Memories
<1>4. /\ n.object = [p \in Pages |-> IF p \in S THEN NoObject ELSE m.object[p]]
      /\ n.busy = [p \in Pages |-> m.busy[p] /\ p \notin S]
      /\ n.active = d.active /\ n.reclaimable = d.reclaimable /\ n.offset = d.offset
      /\ n.activeq = d.activeq /\ n.reclaimq = d.reclaimq
      /\ n.mapped = d.mapped /\ SameObjects(d, n)
  BY <1>1, <1>2 DEF Memories, SameObjects
<1>5. ASSUME Queued(m) PROVE Queued(n)
  <2>1. Queued(d)
    BY <1>1, <1>5
  <2>2. \A q \in Pages : q \in Free(n) => OffQueues(n, q)
    <3>1. SUFFICES ASSUME NEW q \in Pages, q \in Free(n) PROVE OffQueues(n, q)
      OBVIOUS
    <3>2. CASE q \in S
      <4>1. ~d.active[q] /\ ~d.reclaimable[q]
        BY <1>1, <3>2
      <4> QED
        BY <1>4, <4>1 DEF OffQueues
    <3>3. CASE q \notin S
      BY <1>1, <1>4, <2>1, <3>1, <3>3 DEF OffQueues, Free, Queued
    <3> QED
      BY <3>2, <3>3
  <2> QED
    BY <1>4, <2>1, <2>2 DEF Queued, QueueOf
<1> QED
  BY <1>1, <1>3, <1>4, <1>5 DEF n, SameObjects

(* vm_page_rename: the pages change their object and nothing else.         *)
LEMMA RenameDoes ==
  ASSUME NEW m \in Memories, NEW S \in SUBSET Pages, NEW o \in Objects
  PROVE  LET n == Rename(m, S, o) IN
         /\ n \in Memories
         /\ n.object = [p \in Pages |-> IF p \in S THEN o ELSE m.object[p]]
         /\ n.offset = m.offset /\ n.busy = m.busy /\ n.active = m.active
         /\ n.reclaimable = m.reclaimable /\ n.mapped = m.mapped /\ SameObjects(m, n)
         /\ Queued(m) => Queued(n)
<1> DEFINE n == Rename(m, S, o)
<1>1. n \in Memories
  BY DEF Memories, Rename
<1>2. /\ n.object = [p \in Pages |-> IF p \in S THEN o ELSE m.object[p]]
      /\ n.offset = m.offset /\ n.busy = m.busy /\ n.active = m.active
      /\ n.reclaimable = m.reclaimable /\ n.mapped = m.mapped /\ SameObjects(m, n)
      /\ n.activeq = m.activeq /\ n.reclaimq = m.reclaimq
  BY DEF Memories, Rename, SameObjects
<1> HIDE DEF n
<1>3. \A q \in Pages : q \in Free(n) => q \in Free(m)
  BY <1>2, VMPageAssumption DEF Free
<1> QED
  BY <1>1, <1>2, <1>3 DEF n, Queued, QueueOf, OffQueues

(* vm_page_activate of a page on no queue puts it on the active queue.     *)
LEMMA ActivateDoes ==
  ASSUME NEW m \in Memories, NEW p \in Pages
  PROVE  LET n == Activate(m, p) IN
         /\ n \in Memories
         /\ n.active = [m.active EXCEPT ![p] = TRUE]
         /\ n.object = m.object /\ n.offset = m.offset /\ n.busy = m.busy
         /\ n.reclaimable = m.reclaimable /\ n.mapped = m.mapped /\ SameObjects(m, n)
         /\ Queued(m) /\ p \notin Free(m) /\ OffQueues(m, p) => Queued(n)
<1> DEFINE n == Activate(m, p)
<1>0. m.activeq \in Seq(Pages)
  BY DEF Memories
<1>1. /\ Append(m.activeq, p) \in Seq(Pages)
      /\ Range(Append(m.activeq, p)) = Range(m.activeq) \cup {p}
      /\ IsInjective(m.activeq) /\ p \notin Range(m.activeq) => IsInjective(Append(m.activeq, p))
  BY <1>0, RangeAppend
<1>2. n \in Memories
  BY <1>1 DEF Memories, Activate
<1>3. /\ n.activeq = Append(m.activeq, p) /\ n.active = [m.active EXCEPT ![p] = TRUE]
      /\ n.object = m.object /\ n.offset = m.offset /\ n.busy = m.busy
      /\ n.reclaimable = m.reclaimable /\ n.mapped = m.mapped /\ SameObjects(m, n)
      /\ n.reclaimq = m.reclaimq
  BY DEF Memories, Activate, SameObjects
<1> HIDE DEF n
<1>4. ASSUME Queued(m), p \notin Free(m), OffQueues(m, p) PROVE Queued(n)
  <2>1. n.active \in [Pages -> BOOLEAN] /\ m.active \in [Pages -> BOOLEAN]
    BY <1>2 DEF Memories
  <2>2. n.active[p] /\ \A q \in Pages \ {p} : n.active[q] = m.active[q]
    BY <1>3, <2>1
  <2>3. QueueOf(n.activeq, n.active)
    BY <1>1, <1>3, <1>4, <2>2 DEF Queued, QueueOf, OffQueues
  <2>4. \A q \in Pages : q \in Free(n) => q \in Free(m)
    BY <1>3 DEF Free
  <2> QED
    BY <1>3, <1>4, <2>2, <2>3, <2>4 DEF Queued, OffQueues
<1> QED
  BY <1>2, <1>3, <1>4 DEF n

(* vm_page_reclaim moves an active page to the reclaim queue.              *)
LEMMA ReclaimDoes ==
  ASSUME NEW m \in Memories, NEW p \in Pages, m.active[p]
  PROVE  LET n == Reclaim(m, p) IN
         /\ n \in Memories
         /\ ~n.active[p] /\ n.reclaimable[p]
         /\ \A q \in Pages \ {p} : /\ n.active[q] = m.active[q]
                                   /\ n.reclaimable[q] = m.reclaimable[q]
         /\ n.object = m.object /\ n.offset = m.offset /\ n.busy = m.busy
         /\ n.mapped = m.mapped /\ SameObjects(m, n)
         /\ Queued(m) => Queued(n)
<1> DEFINE d == Dequeue(m, {p})
           n == Reclaim(m, p)
<1>0. {p} \in SUBSET Pages /\ m.active \in [Pages -> BOOLEAN] /\ m.reclaimable \in [Pages -> BOOLEAN]
  BY DEF Memories
<1>1. /\ d \in Memories
      /\ d.active = [q \in Pages |-> m.active[q] /\ q \notin {p}]
      /\ d.reclaimable = [q \in Pages |-> m.reclaimable[q] /\ q \notin {p}]
      /\ d.object = m.object /\ d.offset = m.offset /\ d.busy = m.busy
      /\ d.mapped = m.mapped /\ SameObjects(m, d)
      /\ Queued(m) => Queued(d)
  BY <1>0, DequeueDoes
<1>2. n = [d EXCEPT !.reclaimq = Append(@, p), !.reclaimable[p] = TRUE,
                    !.laundry[p] = ~m.clean[p]]
  BY DEF Reclaim
<1> HIDE DEF d, n
<1>3. d.reclaimq \in Seq(Pages)
  BY <1>1 DEF Memories
<1>4. /\ Append(d.reclaimq, p) \in Seq(Pages)
      /\ Range(Append(d.reclaimq, p)) = Range(d.reclaimq) \cup {p}
      /\ IsInjective(d.reclaimq) /\ p \notin Range(d.reclaimq) =>
           IsInjective(Append(d.reclaimq, p))
  BY <1>3, RangeAppend
<1>5. n \in Memories
  BY <1>1, <1>2, <1>4 DEF Memories
<1>6. /\ n.reclaimq = Append(d.reclaimq, p) /\ n.reclaimable = [d.reclaimable EXCEPT ![p] = TRUE]
      /\ n.active = d.active /\ n.activeq = d.activeq
      /\ n.object = m.object /\ n.offset = m.offset /\ n.busy = m.busy
      /\ n.mapped = m.mapped /\ SameObjects(m, n)
  BY <1>1, <1>2 DEF Memories, SameObjects
<1>7. /\ ~n.active[p] /\ n.reclaimable[p] /\ ~d.active[p] /\ ~d.reclaimable[p]
      /\ \A q \in Pages \ {p} : /\ n.active[q] = m.active[q]
                                /\ n.reclaimable[q] = d.reclaimable[q]
                                /\ n.reclaimable[q] = m.reclaimable[q]
  <2>1. d.reclaimable \in [Pages -> BOOLEAN]
    BY <1>1 DEF Memories
  <2>2. ~n.active[p] /\ n.reclaimable[p] /\ ~d.active[p] /\ ~d.reclaimable[p]
    BY ZenonT(60), <1>1, <1>6, <2>1
  <2>3. ASSUME NEW q \in Pages \ {p}
        PROVE  n.active[q] = m.active[q] /\ d.reclaimable[q] = m.reclaimable[q]
    BY <1>0, <1>1, <1>6
  <2>4. \A q \in Pages \ {p} : n.reclaimable[q] = d.reclaimable[q]
    BY <1>6, <2>1
  <2> QED
    BY <2>2, <2>3, <2>4
<1>8. ASSUME Queued(m) PROVE Queued(n)
  <2>1. ~m.reclaimable[p] /\ p \notin Free(m) /\ Queued(d)
    BY <1>1, <1>8 DEF Queued, OffQueues
  <2>2. QueueOf(n.reclaimq, n.reclaimable)
    BY <1>4, <1>6, <1>7, <2>1 DEF Queued, QueueOf
  <2>3. \A q \in Pages : q \in Free(n) => q \in Free(d) /\ q # p
    BY <1>1, <1>6, <2>1 DEF Free
  <2> QED
    BY <1>6, <1>7, <2>1, <2>2, <2>3 DEF Queued, OffQueues
<1> QED
  BY <1>5, <1>6, <1>7, <1>8 DEF n

(* The routines that leave the queues alone.                               *)
LEMMA SetBusyDoes ==
  ASSUME NEW m \in Memories, NEW p \in Pages, NEW b \in BOOLEAN
  PROVE  LET n == SetBusy(m, p, b) IN
         /\ n \in Memories
         /\ n.busy = [m.busy EXCEPT ![p] = b]
         /\ n.object = m.object /\ n.offset = m.offset /\ n.active = m.active
         /\ n.reclaimable = m.reclaimable /\ n.mapped = m.mapped /\ SameObjects(m, n)
         /\ n.activeq = m.activeq /\ n.reclaimq = m.reclaimq
         /\ Queued(m) => Queued(n)
<1> DEFINE n == SetBusy(m, p, b)
<1>1. n \in Memories
  BY DEF Memories, SetBusy
<1>2. /\ n.busy = [m.busy EXCEPT ![p] = b]
      /\ n.object = m.object /\ n.offset = m.offset /\ n.active = m.active
      /\ n.reclaimable = m.reclaimable /\ n.mapped = m.mapped /\ SameObjects(m, n)
      /\ n.activeq = m.activeq /\ n.reclaimq = m.reclaimq
  BY DEF Memories, SetBusy, SameObjects
<1> HIDE DEF n
<1>3. Queued(m) => Queued(n)
  BY <1>2 DEF Queued, QueueOf, OffQueues, Free
<1> QED
  BY <1>1, <1>2, <1>3 DEF n

(* pmap_remove_all takes the page out of every physical map.               *)
LEMMA PmapRemoveAllDoes ==
  ASSUME NEW m \in Memories, NEW p \in Pages, NEW b \in BOOLEAN
  PROVE  LET n == PmapRemoveAll(m, p, b) IN
         /\ n \in Memories
         /\ n.mapped = [m.mapped EXCEPT ![p] = {}]
         /\ n.object = m.object /\ n.offset = m.offset /\ n.active = m.active
         /\ n.reclaimable = m.reclaimable /\ n.busy = m.busy /\ SameObjects(m, n)
         /\ n.activeq = m.activeq /\ n.reclaimq = m.reclaimq
         /\ Queued(m) => Queued(n)
<1> DEFINE n == PmapRemoveAll(m, p, b)
<1>1. n \in Memories
  BY DEF Memories, PmapRemoveAll
<1>2. /\ n.mapped = [m.mapped EXCEPT ![p] = {}]
      /\ n.object = m.object /\ n.offset = m.offset /\ n.active = m.active
      /\ n.reclaimable = m.reclaimable /\ n.busy = m.busy /\ SameObjects(m, n)
      /\ n.activeq = m.activeq /\ n.reclaimq = m.reclaimq
  BY DEF Memories, PmapRemoveAll, SameObjects
<1> HIDE DEF n
<1>3. Queued(m) => Queued(n)
  BY <1>2 DEF Queued, QueueOf, OffQueues, Free
<1> QED
  BY <1>1, <1>2, <1>3 DEF n

(* pmap_enter maps the page, and maps no other page anywhere new.          *)
LEMMA PmapEnterDoes ==
  ASSUME NEW m \in Memories, NEW p \in Pages, NEW k \in Maps, NEW w \in BOOLEAN
  PROVE  LET n == PmapEnter(m, k, p, w) IN
         /\ n \in Memories
         /\ \A q \in Pages : q # p => n.mapped[q] \subseteq m.mapped[q]
         /\ n.object = m.object /\ n.offset = m.offset /\ n.active = m.active
         /\ n.reclaimable = m.reclaimable /\ n.busy = m.busy /\ SameObjects(m, n)
         /\ n.activeq = m.activeq /\ n.reclaimq = m.reclaimq
         /\ Queued(m) => Queued(n)
<1> DEFINE n == PmapEnter(m, k, p, w)
           at == <<k, m.offset[p]>>
           g == [q \in Pages |-> IF q = p THEN m.mapped[q] \cup {at}
                                 ELSE m.mapped[q] \ {at}]
<1>0. n = [m EXCEPT !.mapped = g, !.modified[p] = @ \/ w]
  BY DEF PmapEnter, Memories
<1>a. m.mapped \in [Pages -> SUBSET (Maps \X Offsets)] /\ at \in Maps \X Offsets
  BY DEF Memories
<1>b. g \in [Pages -> SUBSET (Maps \X Offsets)]
  <2> HIDE DEF at
  <2> QED
    BY <1>a
<1>c. \A q \in Pages : q # p => g[q] \subseteq m.mapped[q]
  OBVIOUS
<1> HIDE DEF n, g
<1>1. n \in Memories
  BY <1>0, <1>b DEF Memories
<1>2. /\ n.mapped = g
      /\ n.object = m.object /\ n.offset = m.offset /\ n.active = m.active
      /\ n.reclaimable = m.reclaimable /\ n.busy = m.busy /\ SameObjects(m, n)
      /\ n.activeq = m.activeq /\ n.reclaimq = m.reclaimq
  BY <1>0 DEF Memories, SameObjects
<1>3. Queued(m) => Queued(n)
  BY <1>2 DEF Queued, QueueOf, OffQueues, Free
<1> QED
  BY <1>1, <1>2, <1>3, <1>c DEF n

(***************************************************************************)
(* The memory as the proofs see it: queues, references, chains of shadows. *)
(***************************************************************************)

(* Queued depends on objects, flags and queues alone.                      *)
LEMMA SamePagesQueued ==
  ASSUME NEW m, NEW n, n.object = m.object, n.active = m.active,
         n.reclaimable = m.reclaimable, n.activeq = m.activeq, n.reclaimq = m.reclaimq
  PROVE  Queued(m) => Queued(n)
BY DEF Queued, QueueOf, OffQueues, Free

(* How often an element is on a queue says whether it is, and none twice.  *)
LEMMA TimesAre ==
  ASSUME NEW q \in Seq(Pages)
  PROVE  /\ \A p \in Pages : Times(q, p) \in Nat /\ (Times(q, p) = 0 <=> p \notin Range(q))
         /\ IsInjective(q) => \A p \in Range(q) : Times(q, p) = 1
         /\ (\A p \in Pages : Times(q, p) \in {0, 1}) => IsInjective(q)
<1> DEFINE At(p) == {i \in DOMAIN q : q[i] = p}
<1>1. IsFiniteSet(DOMAIN q) /\ \A i \in DOMAIN q : q[i] \in Pages
  <2>1. DOMAIN q = 1 .. Len(q) /\ Len(q) \in Nat
    BY LenProperties
  <2>2. IsFiniteSet(1 .. Len(q))
    BY <2>1, FS_Interval
  <2> QED
    BY <2>1, <2>2, ElementOfSeq
<1>2. ASSUME NEW p
      PROVE  /\ IsFiniteSet(At(p)) /\ Times(q, p) = Cardinality(At(p))
             /\ Cardinality(At(p)) \in Nat
  <2>1. At(p) \in SUBSET DOMAIN q
    OBVIOUS
  <2>2. IsFiniteSet(At(p))
    BY <1>1, <2>1, FS_Subset
  <2> QED
    BY <2>2, FS_CardinalityType DEF Times
<1>3. ASSUME NEW p PROVE Times(q, p) = 0 <=> p \notin Range(q)
  <2>1. At(p) = {} <=> p \notin Range(q)
    BY DEF Range
  <2> HIDE DEF At
  <2> QED
    BY <1>2, <2>1, FS_EmptySet
<1>4. ASSUME IsInjective(q), NEW p \in Range(q) PROVE Times(q, p) = 1
  <2>1. PICK i \in DOMAIN q : q[i] = p
    BY <1>4 DEF Range
  <2>2. At(p) = {i}
    BY <1>4, <2>1 DEF IsInjective
  <2> HIDE DEF At
  <2> QED
    BY <1>2, <2>2, FS_Singleton
<1>5. ASSUME \A p \in Pages : Times(q, p) \in {0, 1} PROVE IsInjective(q)
  <2>1. SUFFICES ASSUME NEW i \in DOMAIN q, NEW j \in DOMAIN q, q[i] = q[j] PROVE i = j
    BY DEF IsInjective
  <2>2. i \in At(q[i]) /\ j \in At(q[i]) /\ q[i] \in Pages
    BY <1>1, <2>1
  <2> HIDE DEF At
  <2>3. Cardinality(At(q[i])) = 1
    BY <1>2, <1>5, <2>2, FS_EmptySet
  <2>4. PICK x : At(q[i]) = {x}
    BY <1>2, <2>3, FS_Singleton
  <2> QED
    BY <2>2, <2>4
<1> QED
  BY <1>2, <1>3, <1>4, <1>5

(* The assumption about the first memory says what Queued says.            *)
LEMMA FiledIsQueued ==
  ASSUME NEW m \in Memories
  PROVE  Filed(m) <=> Queued(m)
<1>1. /\ m.activeq \in Seq(Pages) /\ m.reclaimq \in Seq(Pages)
      /\ m.active \in [Pages -> BOOLEAN] /\ m.reclaimable \in [Pages -> BOOLEAN]
  BY DEF Memories
<1>2. ASSUME NEW q \in Seq(Pages), NEW F \in [Pages -> BOOLEAN]
      PROVE  QueueOf(q, F) <=> \A p \in Pages : Times(q, p) = (IF F[p] THEN 1 ELSE 0)
  <2>1. \A p \in Range(q) : p \in Pages
    <3>1. \A i \in DOMAIN q : q[i] \in Pages
      BY LenProperties, ElementOfSeq
    <3> QED
      BY <3>1 DEF Range
  <2>2. ASSUME QueueOf(q, F), NEW p \in Pages PROVE Times(q, p) = (IF F[p] THEN 1 ELSE 0)
    BY <2>2, TimesAre DEF QueueOf
  <2>3. ASSUME \A p \in Pages : Times(q, p) = (IF F[p] THEN 1 ELSE 0) PROVE QueueOf(q, F)
    <3>1. IsInjective(q)
      BY <2>3, TimesAre
    <3>2. \A p \in Pages : p \in Range(q) <=> F[p]
      BY <2>3, TimesAre
    <3> QED
      BY <2>1, <3>1, <3>2 DEF QueueOf
  <2> QED
    BY <2>2, <2>3
<1>3. /\ QueueOf(m.activeq, m.active) <=>
           \A p \in Pages : Times(m.activeq, p) = (IF m.active[p] THEN 1 ELSE 0)
      /\ QueueOf(m.reclaimq, m.reclaimable) <=>
           \A p \in Pages : Times(m.reclaimq, p) = (IF m.reclaimable[p] THEN 1 ELSE 0)
  BY <1>1, <1>2
<1> QED
  BY <1>3 DEF Filed, Queued, OffQueues

(***************************************************************************)
(* Objects.                                                                *)
(***************************************************************************)
Entries(e, o) == {x \in DOMAIN e : e[x].object = o}
Shadows(m, o) == {x \in Objects : m.live[x] /\ m.shadow[x] = o}
Faults(first, o) == {t \in Threads : first[t] = o}

ObjectsOK(m, e, first) ==
  /\ Counted(m, e, first) /\ Acyclic(m)
  /\ \A o \in Objects : ~m.live[o] => m.space[o] = NoSpace

(* The counts are of finite sets.                                          *)
LEMMA CountsFinite ==
  ASSUME NEW m, NEW e, NEW first, DOMAIN e = DOMAIN InitEntry, NEW o
  PROVE  /\ IsFiniteSet(Entries(e, o)) /\ IsFiniteSet(Shadows(m, o))
         /\ IsFiniteSet(Faults(first, o))
         /\ Cardinality(Entries(e, o)) \in Nat /\ Cardinality(Shadows(m, o)) \in Nat
         /\ Cardinality(Faults(first, o)) \in Nat
<1>1. /\ Entries(e, o) \in SUBSET DOMAIN InitEntry /\ Shadows(m, o) \in SUBSET Objects
      /\ Faults(first, o) \in SUBSET Threads
  BY DEF Entries, Shadows, Faults
<1>2. /\ IsFiniteSet(Entries(e, o)) /\ IsFiniteSet(Shadows(m, o))
      /\ IsFiniteSet(Faults(first, o))
  BY <1>1, VMFaultAssumption, FS_Subset
<1> QED
  BY <1>2, FS_CardinalityType

(* What is referred to is live.                                            *)
LEMMA ReferredLive ==
  ASSUME NEW m \in Memories, NEW e, NEW first, DOMAIN e = DOMAIN InitEntry,
         Counted(m, e, first), NEW o \in Objects
  PROVE  /\ \A x \in DOMAIN e : e[x].object = o => m.live[o]
         /\ \A x \in Objects : m.live[x] /\ m.shadow[x] = o => m.live[o]
         /\ \A t \in Threads : first[t] = o => m.live[o]
         /\ m.ref_count[o] = Cardinality(Entries(e, o)) + Cardinality(Shadows(m, o))
                              + Cardinality(Faults(first, o))
         /\ Entries(e, o) # {} => m.ref_count[o] >= 1
         /\ Shadows(m, o) # {} => m.ref_count[o] >= 1
         /\ Faults(first, o) # {} => m.ref_count[o] >= 1
<1>1. m.ref_count[o] = Cardinality(Entries(e, o)) + Cardinality(Shadows(m, o))
                         + Cardinality(Faults(first, o))
  BY DEF Counted, Entries, Shadows, Faults
<1>2. /\ Entries(e, o) # {} => m.ref_count[o] >= 1
      /\ Shadows(m, o) # {} => m.ref_count[o] >= 1
      /\ Faults(first, o) # {} => m.ref_count[o] >= 1
  BY <1>1, CountsFinite, FS_EmptySet
<1>3. m.ref_count[o] > 0 => m.live[o]
  BY DEF Counted
<1>4. m.ref_count[o] >= 1 => m.live[o]
  BY <1>3 DEF Memories
<1>5. /\ \A x \in DOMAIN e : e[x].object = o => Entries(e, o) # {}
      /\ \A x \in Objects : m.live[x] /\ m.shadow[x] = o => Shadows(m, o) # {}
      /\ \A t \in Threads : first[t] = o => Faults(first, o) # {}
  BY DEF Entries, Shadows, Faults
<1> QED
  BY <1>1, <1>2, <1>4, <1>5

(* Acyclic, of one set.                                                    *)
LEMMA AcyclicOf ==
  ASSUME NEW m, NEW S
  PROVE  Acyclic(m) /\ S # {} /\ (\A x \in S : x \in Objects /\ m.live[x])
           => \E x \in S : m.shadow[x] \notin S
<1>1. SUFFICES ASSUME Acyclic(m), S # {}, \A x \in S : x \in Objects /\ m.live[x]
               PROVE  \E x \in S : m.shadow[x] \notin S
  OBVIOUS
<1>2. S \in SUBSET {x \in Objects : m.live[x]}
  BY <1>1
<1>3. S \notin {{}}
  BY <1>1
<1> QED
  BY <1>1, <1>2, <1>3 DEF Acyclic

(* A live object does not shadow itself, nor one it is shadowed by.        *)
LEMMA NoShortCycle ==
  ASSUME NEW m \in Memories, Acyclic(m), NEW o \in Objects, m.live[o]
  PROVE  /\ m.shadow[o] # o
         /\ \A b \in Objects : m.live[b] /\ m.shadow[o] = b => m.shadow[b] # o
<1>2. m.shadow[o] # o
  <2>1. {o} # {} /\ \A x \in {o} : x \in Objects /\ m.live[x]
    OBVIOUS
  <2>2. \E x \in {o} : m.shadow[x] \notin {o}
    BY <2>1, AcyclicOf
  <2> QED
    BY <2>2
<1>3. ASSUME NEW b \in Objects, m.live[b], m.shadow[o] = b PROVE m.shadow[b] # o
  <2>1. {o, b} # {} /\ \A x \in {o, b} : x \in Objects /\ m.live[x]
    BY <1>3
  <2>2. \E x \in {o, b} : m.shadow[x] \notin {o, b}
    BY <2>1, AcyclicOf
  <2> QED
    BY <1>3, <2>2
<1> QED
  BY <1>2, <1>3

(* A chain that is shortened stays acyclic.                                *)
LEMMA ShortenedAcyclic ==
  ASSUME NEW m \in Memories, NEW n \in Memories, Acyclic(m), NEW o \in Objects, m.live[o],
         NEW b \in Objects, m.live[b], b = m.shadow[o],
         n.shadow = [m.shadow EXCEPT ![o] = m.shadow[b]],
         \A x \in Objects : n.live[x] => m.live[x]
  PROVE  Acyclic(n)
<1>1. SUFFICES ASSUME NEW S \in SUBSET {x \in Objects : n.live[x]}, S # {}
               PROVE  \E x \in S : n.shadow[x] \notin S
  BY DEF Acyclic
<1>2. m.shadow \in [Objects -> Objects \cup {NoObject}] /\ m.shadow[o] # o
  BY NoShortCycle DEF Memories
<1>3. /\ S # {} /\ \A x \in S : x \in Objects /\ m.live[x]
      /\ S \cup {b} # {} /\ \A x \in S \cup {b} : x \in Objects /\ m.live[x]
  <2>1. S # {} /\ \A x \in S : x \in Objects /\ n.live[x]
    BY <1>1
  <2>2. b \in S \cup {b}
    OBVIOUS
  <2>3. S \cup {b} # {}
    BY <2>2
  <2> QED
    BY <2>1, <2>3
<1>4. CASE o \notin S
  <2>1. PICK x \in S : m.shadow[x] \notin S
    BY <1>3, AcyclicOf
  <2>2. x \in Objects /\ n.shadow[x] = m.shadow[x]
    BY <1>2, <1>3, <1>4
  <2> QED
    BY <2>1, <2>2
<1>5. CASE o \in S
  <2>1. PICK x \in S \cup {b} : m.shadow[x] \notin S \cup {b}
    BY <1>3, AcyclicOf
  <2>2. x # o
    BY <2>1
  <2>3. CASE x = b
    BY <1>2, <1>5, <2>1, <2>3
  <2>4. CASE x # b
    <3>1. x \in S /\ x \in Objects /\ n.shadow[x] = m.shadow[x]
      BY <1>2, <1>3, <2>1, <2>2, <2>4
    <3> QED
      BY <2>1, <3>1
  <2> QED
    BY <2>3, <2>4
<1> QED
  BY <1>4, <1>5

(***************************************************************************)
(* The collapse of o, n, out of m: what it may do to pages and objects.    *)
(***************************************************************************)
Shrunk(m, n, o) ==
  /\ n.live[o] /\ n.offset = m.offset /\ n.mapped = m.mapped
  /\ n.pageout_in_progress = m.pageout_in_progress
  /\ \A p \in Pages \ Free(n) :
       /\ p \notin Free(m) /\ n.object[p] \in {m.object[p], o}
       /\ n.busy[p] = m.busy[p] /\ n.active[p] = m.active[p]
       /\ n.reclaimable[p] = m.reclaimable[p]
  /\ \A p \in Pages : p \in Free(m) => p \in Free(n)
  /\ \A p \in Pages \ Free(m) :
       m.object[p] = o \/ m.pageout_in_progress[m.object[p]] => n.object[p] = m.object[p]
  /\ \A x \in Objects : m.live[x] /\ m.pageout_in_progress[x] => n.live[x]
  /\ \A x \in Objects :
       m.space[x] # NoSpace => \E y \in Objects : n.space[y] = m.space[x]

(* An object no collapse touched has shrunk by nothing.                    *)
LEMMA ShrunkSame ==
  ASSUME NEW m \in Memories, NEW o \in Objects, m.live[o]
  PROVE  Shrunk(m, m, o)
BY DEF Shrunk

(* Two collapses of an object in a row amount to one.                      *)
LEMMA ShrunkMore ==
  ASSUME NEW m \in Memories, NEW k \in Memories, NEW n \in Memories, NEW o \in Objects,
         Shrunk(m, k, o), Shrunk(k, n, o)
  PROVE  Shrunk(m, n, o)
<1>1. /\ n.live[o] /\ n.offset = m.offset /\ n.mapped = m.mapped
      /\ n.pageout_in_progress = m.pageout_in_progress
      /\ \A p \in Pages : p \in Free(m) => p \in Free(n)
  BY DEF Shrunk
<1>2. ASSUME NEW p \in Pages \ Free(n)
      PROVE  /\ p \notin Free(m) /\ n.object[p] \in {m.object[p], o}
             /\ n.busy[p] = m.busy[p] /\ n.active[p] = m.active[p]
             /\ n.reclaimable[p] = m.reclaimable[p]
  <2>1. p \in Pages \ Free(k)
    BY DEF Shrunk
  <2> QED
    BY <2>1 DEF Shrunk
<1>3. ASSUME NEW p \in Pages \ Free(m),
             m.object[p] = o \/ m.pageout_in_progress[m.object[p]]
      PROVE  n.object[p] = m.object[p]
  <2>1. k.object[p] = m.object[p] /\ p \notin Free(k)
    BY <1>3 DEF Shrunk, Free
  <2> QED
    BY <1>3, <2>1 DEF Shrunk
<1>4. ASSUME NEW x \in Objects, m.live[x], m.pageout_in_progress[x] PROVE n.live[x]
  BY <1>4 DEF Shrunk
<1>5. ASSUME NEW x \in Objects, m.space[x] # NoSpace
      PROVE  \E y \in Objects : n.space[y] = m.space[x]
  <2>1. PICK y \in Objects : k.space[y] = m.space[x]
    BY <1>5 DEF Shrunk
  <2> QED
    BY <1>5, <2>1 DEF Shrunk
<1> QED
  BY <1>1, <1>2, <1>3, <1>4, <1>5 DEF Shrunk

(* A set of memories that CollapseOnce does not leave, Collapse does not   *)
(* either.                                                                 *)
LEMMA CollapseIn ==
  ASSUME NEW m, NEW o, NEW G, m \in G, \A n \in G : CollapseOnce(n, o) \in G
  PROVE  Collapse(m, o) \in G
<1> DEFINE N == Cardinality(Objects)
           Rec(k, j) == k = [i \in 0 .. j |->
                               IF i = 0 THEN m ELSE CollapseOnce(k[i - 1], o)]
           B == {j \in 0 .. N : ~\E k : Rec(k, j)}
<1>1. N \in Nat
  BY VMFaultAssumption, FS_CardinalityType
<1> HIDE DEF Rec, N
<1>2. B = {}
  <2>1. SUFFICES ASSUME B # {} PROVE FALSE
    OBVIOUS
  <2>2. PICK j \in B : \A i \in B : j <= i
    BY <1>1, <2>1, LeastUpto
  <2>3. j # 0
    <3> DEFINE z == [i \in 0 .. 0 |-> m]
    <3>1. \A i \in 0 .. 0 : z[i] = IF i = 0 THEN m ELSE CollapseOnce(z[i - 1], o)
      OBVIOUS
    <3>2. z = [i \in 0 .. 0 |-> z[i]]
      OBVIOUS
    <3> HIDE DEF z
    <3>3. Rec(z, 0)
      BY <3>1, <3>2, Zenon DEF Rec
    <3> QED
      BY <3>3, <2>2
  <2>4. PICK g : Rec(g, j - 1)
    BY <2>2, <2>3, <1>1
  <2> DEFINE h == [i \in 0 .. j |-> IF i < j THEN g[i] ELSE CollapseOnce(g[i - 1], o)]
  <2>5. \A i \in 0 .. j - 1 : g[i] = IF i = 0 THEN m ELSE CollapseOnce(g[i - 1], o)
    BY <2>4 DEF Rec
  <2>6. \A i \in 0 .. j : h[i] = IF i = 0 THEN m ELSE CollapseOnce(h[i - 1], o)
    BY <1>1, <2>2, <2>3, <2>5
  <2>7. Rec(h, j)
    <3> HIDE DEF h
    <3>1. h = [i \in 0 .. j |-> h[i]]
      BY DEF h
    <3> QED
      BY <2>6, <3>1, Zenon DEF Rec
  <2> QED
    BY <2>2, <2>7
<1>3. \E k : Rec(k, N)
  BY <1>1, <1>2
<1>4. Rec(CHOOSE k : Rec(k, N), N)
  BY <1>3
<1>5. Collapse(m, o) = (CHOOSE k : Rec(k, N))[N]
  BY DEF Collapse, Rec, N
<1>6. PICK r : Rec(r, N) /\ Collapse(m, o) = r[N]
  BY <1>4, <1>5
<1>7. \A i \in 0 .. N : r[i] = IF i = 0 THEN m ELSE CollapseOnce(r[i - 1], o)
  BY <1>6 DEF Rec
<1> DEFINE C == {i \in 0 .. N : r[i] \notin G}
<1>8. C = {}
  <2>1. SUFFICES ASSUME C # {} PROVE FALSE
    OBVIOUS
  <2>2. PICK i \in C : \A j \in C : i <= j
    BY <1>1, <2>1, LeastUpto
  <2>3. i # 0
    BY <1>1, <1>7, <2>2
  <2>4. i - 1 \in 0 .. N /\ r[i - 1] \in G
    BY <1>1, <2>2, <2>3
  <2>5. r[i] = CollapseOnce(r[i - 1], o)
    BY <1>7, <2>2, <2>3, Zenon
  <2> QED
    BY <2>2, <2>4, <2>5
<1> QED
  BY <1>1, <1>6, <1>8

(* One round that merges: the pages of the backing object move up but the *)
(* hidden ones, which are freed, and the object takes over its shadow and  *)
(* its space.                                                              *)
LEMMA MergeDoes ==
  ASSUME NEW m \in Memories, Queued(m), Acyclic(m), NEW o \in Objects, m.live[o],
         m.shadow[o] \in Objects, m.live[m.shadow[o]], m.shadow[o] # o,
         NEW b, b = m.shadow[o]
  PROVE  LET n == Merge(m, o)
             H == Hidden(m, o)
         IN
         /\ n \in Memories /\ Queued(n)
         /\ H \in SUBSET Pages /\ \A p \in H : m.object[p] = b
         /\ n.object = [p \in Pages |-> IF p \in H THEN NoObject
                                        ELSE IF m.object[p] = b THEN o ELSE m.object[p]]
         /\ n.offset = m.offset /\ n.mapped = m.mapped
         /\ \A p \in Pages \ H : /\ n.busy[p] = m.busy[p] /\ n.active[p] = m.active[p]
                                 /\ n.reclaimable[p] = m.reclaimable[p]
         /\ n.live = [m.live EXCEPT ![b] = FALSE]
         /\ n.ref_count = [m.ref_count EXCEPT ![b] = 0]
         /\ n.shadow = [m.shadow EXCEPT ![o] = m.shadow[b]]
         /\ n.space = [m.space EXCEPT ![o] = m.space[b], ![b] = NoSpace]
         /\ n.pageout_in_progress = m.pageout_in_progress
<1> DEFINE H == Hidden(m, o)
           P == PagesOf(m, b) \ H
           f == FreePages(m, H)
           r == Rename(f, P, o)
           n == Merge(m, o)
<1>0. /\ H \in SUBSET Pages /\ \A p \in H : m.object[p] = b
      /\ P = {p \in Pages : m.object[p] = b /\ p \notin H}
  BY DEF Hidden, PagesOf
<1>1. n = [r EXCEPT !.space = [@ EXCEPT ![o] = m.space[b], ![b] = NoSpace],
                    !.shadow[o] = m.shadow[b], !.ref_count[b] = 0, !.live[b] = FALSE]
  BY DEF Merge
<1> HIDE DEF H
<1> HIDE DEF n
<1>2. /\ f \in Memories /\ Queued(f)
      /\ f.object = [p \in Pages |-> IF p \in H THEN NoObject ELSE m.object[p]]
      /\ f.busy = [p \in Pages |-> m.busy[p] /\ p \notin H]
      /\ f.active = [p \in Pages |-> m.active[p] /\ p \notin H]
      /\ f.reclaimable = [p \in Pages |-> m.reclaimable[p] /\ p \notin H]
      /\ f.offset = m.offset
      /\ f.mapped = m.mapped /\ SameObjects(m, f)
  BY <1>0, FreePagesDoes
<1> HIDE DEF f
<1>3. P \in SUBSET Pages
  BY <1>0
<1>4. /\ r \in Memories /\ Queued(r)
      /\ r.object = [p \in Pages |-> IF p \in P THEN o ELSE f.object[p]]
      /\ r.offset = f.offset /\ r.busy = f.busy /\ r.active = f.active
      /\ r.reclaimable = f.reclaimable /\ r.mapped = f.mapped /\ SameObjects(f, r)
  BY <1>2, <1>3, RenameDoes
<1> HIDE DEF r
<1>5. /\ n \in Memories
      /\ n.object = r.object /\ n.offset = r.offset /\ n.busy = r.busy
      /\ n.active = r.active /\ n.reclaimable = r.reclaimable /\ n.mapped = r.mapped
      /\ n.activeq = r.activeq /\ n.reclaimq = r.reclaimq
      /\ n.live = [r.live EXCEPT ![b] = FALSE]
      /\ n.ref_count = [r.ref_count EXCEPT ![b] = 0]
      /\ n.shadow = [r.shadow EXCEPT ![o] = m.shadow[b]]
      /\ n.space = [r.space EXCEPT ![o] = m.space[b], ![b] = NoSpace]
      /\ n.pageout_in_progress = r.pageout_in_progress
  <2>1. m.space[b] \in Objects \cup {NoSpace} /\ m.shadow[b] \in Objects \cup {NoObject}
    BY DEF Memories
  <2> QED
    BY ZenonT(60), <1>1, <1>4, <2>1 DEF Memories, NoSpace
<1>6. Queued(n)
  BY <1>4, <1>5, SamePagesQueued
<1>7. n.object = [p \in Pages |-> IF p \in H THEN NoObject
                                  ELSE IF m.object[p] = b THEN o ELSE m.object[p]]
  <2>1. \A p \in Pages : r.object[p] = IF p \in H THEN NoObject
                                  ELSE IF m.object[p] = b THEN o ELSE m.object[p]
    BY <1>0, <1>2, <1>4
  <2>2. r.object = [p \in Pages |-> r.object[p]]
    BY <1>4
  <2> QED
    BY <1>5, <2>1, <2>2
<1>8. ASSUME NEW p \in Pages \ H
      PROVE  /\ n.busy[p] = m.busy[p] /\ n.active[p] = m.active[p]
             /\ n.reclaimable[p] = m.reclaimable[p]
  <2>1. m.busy[p] \in BOOLEAN /\ m.active[p] \in BOOLEAN /\ m.reclaimable[p] \in BOOLEAN
    BY DEF Memories
  <2> QED
    BY <1>2, <1>4, <1>5, <2>1
<1> QED
  BY <1>0, <1>2, <1>4, <1>5, <1>6, <1>7, <1>8 DEF n, H, SameObjects

(* Merging: the references.                                                *)
LEMMA MergeObjects ==
  ASSUME NEW m \in Memories, Queued(m), NEW e, NEW first, DOMAIN e = DOMAIN InitEntry,
         ObjectsOK(m, e, first), NEW o \in Objects, m.live[o],
         Collapsible(m, o), m.ref_count[m.shadow[o]] = 1
  PROVE  LET n == Merge(m, o) IN
         n \in Memories /\ Queued(n) /\ ObjectsOK(n, e, first) /\ Shrunk(m, n, o)
<1> DEFINE b == m.shadow[o]
           c == m.shadow[b]
           n == Merge(m, o)
           H == Hidden(m, o)
<1>1. /\ b \in Objects /\ m.space[o] = NoSpace /\ ~m.pageout_in_progress[b]
      /\ Counted(m, e, first) /\ Acyclic(m)
      /\ \A x \in Objects : ~m.live[x] => m.space[x] = NoSpace
  BY DEF Collapsible, Memories, ObjectsOK
<1>2. m.live[b] /\ b # o /\ c # o /\ c # b
  BY <1>1, ReferredLive, NoShortCycle
<1>3. /\ n \in Memories /\ Queued(n)
      /\ H \in SUBSET Pages /\ \A p \in H : m.object[p] = b
      /\ n.object = [p \in Pages |-> IF p \in H THEN NoObject
                                     ELSE IF m.object[p] = b THEN o ELSE m.object[p]]
      /\ n.offset = m.offset /\ n.mapped = m.mapped
      /\ \A p \in Pages \ H : /\ n.busy[p] = m.busy[p] /\ n.active[p] = m.active[p]
                              /\ n.reclaimable[p] = m.reclaimable[p]
      /\ n.live = [m.live EXCEPT ![b] = FALSE]
      /\ n.ref_count = [m.ref_count EXCEPT ![b] = 0]
      /\ n.shadow = [m.shadow EXCEPT ![o] = m.shadow[b]]
      /\ n.space = [m.space EXCEPT ![o] = m.space[b], ![b] = NoSpace]
      /\ n.pageout_in_progress = m.pageout_in_progress
  BY <1>1, <1>2, MergeDoes
<1> HIDE DEF n, H
<1>4. /\ m.live \in [Objects -> BOOLEAN] /\ m.ref_count \in [Objects -> Nat]
      /\ m.shadow \in [Objects -> Objects \cup {NoObject}]
      /\ m.space \in [Objects -> Objects \cup {NoObject}]
      /\ m.object \in [Pages -> Objects \cup {NoObject}]
  BY DEF Memories, NoSpace
<1>5. /\ \A x \in Objects : n.live[x] <=> m.live[x] /\ x # b
      /\ n.live[o] /\ ~n.live[b]
      /\ \A x \in Objects \ {b} : n.ref_count[x] = m.ref_count[x]
      /\ n.ref_count[b] = 0
      /\ n.shadow[o] = c /\ \A x \in Objects \ {o} : n.shadow[x] = m.shadow[x]
      /\ n.space[b] = NoSpace /\ n.space[o] = m.space[b]
      /\ \A x \in Objects \ {o, b} : n.space[x] = m.space[x]
  BY <1>1, <1>2, <1>3, <1>4
<1>6. Counted(n, e, first)
  <2>1. ASSUME NEW x \in Objects
        PROVE  n.ref_count[x] = Cardinality(Entries(e, x)) + Cardinality(Shadows(n, x))
                                  + Cardinality(Faults(first, x))
    <3>0. /\ IsFiniteSet(Entries(e, x)) /\ IsFiniteSet(Shadows(m, x))
          /\ IsFiniteSet(Faults(first, x))
          /\ Cardinality(Entries(e, x)) \in Nat /\ Cardinality(Shadows(m, x)) \in Nat
          /\ Cardinality(Faults(first, x)) \in Nat
          /\ m.ref_count[x] = Cardinality(Entries(e, x)) + Cardinality(Shadows(m, x))
                               + Cardinality(Faults(first, x))
      BY <1>1, CountsFinite, ReferredLive
    <3>1. CASE x = b
      <4>1. o \in Shadows(m, b)
        BY DEF Shadows
      <4>2. Cardinality(Shadows(m, b)) # 0
        BY <3>0, <3>1, <4>1, FS_EmptySet
      <4>3. /\ Cardinality(Shadows(m, b)) = 1 /\ Cardinality(Entries(e, b)) = 0
            /\ Cardinality(Faults(first, b)) = 0
        BY <3>0, <3>1, <4>2
      <4>4. Shadows(m, b) = {o}
        BY <3>0, <3>1, <4>1, <4>3, FS_Singleton
      <4>5. Shadows(n, b) = {}
        BY <1>2, <1>5, <4>4 DEF Shadows
      <4>6. Cardinality(Shadows(n, b)) = 0
        BY <4>5, FS_EmptySet
      <4> QED
        BY <1>5, <3>1, <4>3, <4>6
    <3>2. CASE x = c
      <4>1. b \in Shadows(m, x) /\ o \notin Shadows(m, x)
        BY <1>1, <1>2, <3>2 DEF Shadows
      <4>2. Shadows(n, x) = (Shadows(m, x) \ {b}) \cup {o}
        BY <1>2, <1>5, <3>2 DEF Shadows
      <4>3. /\ IsFiniteSet(Shadows(m, x) \ {b})
            /\ Cardinality(Shadows(m, x) \ {b}) = Cardinality(Shadows(m, x)) - 1
        BY SMTT(30), <3>0, <4>1, FS_RemoveElement
      <4>4. Cardinality((Shadows(m, x) \ {b}) \cup {o}) = Cardinality(Shadows(m, x) \ {b}) + 1
        BY <4>1, <4>3, FS_AddElement
      <4> QED
        BY <1>2, <1>5, <3>0, <3>2, <4>2, <4>3, <4>4
    <3>3. CASE x # b /\ x # c
      <4>1. Shadows(n, x) = Shadows(m, x)
        BY <1>2, <1>5, <3>3 DEF Shadows
      <4> QED
        BY <1>5, <3>0, <3>3, <4>1
    <3> QED
      BY <3>1, <3>2, <3>3
  <2>2. ASSUME NEW x \in Objects, n.ref_count[x] > 0 PROVE n.live[x]
    <3>1. CASE x = b
      BY <1>5, <2>2, <3>1
    <3>2. CASE x # b
      BY <1>1, <1>5, <2>2, <3>2 DEF Counted
    <3> QED
      BY <3>1, <3>2
  <2>3. ASSUME NEW x \in Objects, ~n.live[x] PROVE PagesOf(n, x) = {}
    <3>1. SUFFICES ASSUME NEW p \in Pages, n.object[p] = x PROVE FALSE
      BY DEF PagesOf
    <3>2. x # o /\ x # NoObject
      BY <1>5, <2>3, VMPageAssumption
    <3>3. m.object[p] = x /\ x # b
      BY <1>3, <3>1, <3>2
    <3>4. ~m.live[x]
      BY <1>5, <2>3, <3>3
    <3> QED
      BY <1>1, <3>3, <3>4 DEF Counted, PagesOf
  <2> QED
    BY <2>1, <2>2, <2>3 DEF Counted, Entries, Shadows, Faults
<1>7. Acyclic(n)
  <2>1. \A x \in Objects : n.live[x] => m.live[x]
    BY <1>5
  <2> HIDE DEF b
  <2>2. b = m.shadow[o]
    BY DEF b
  <2> QED
    BY ZenonT(60), <1>1, <1>2, <1>3, <2>1, <2>2, ShortenedAcyclic
<1>8. ASSUME NEW x \in Objects, ~n.live[x] PROVE n.space[x] = NoSpace
  BY <1>1, <1>5, <1>8
<1>9. Shrunk(m, n, o)
  <2>1. ASSUME NEW p \in Pages \ Free(n)
        PROVE  /\ p \notin Free(m) /\ n.object[p] \in {m.object[p], o}
               /\ n.busy[p] = m.busy[p] /\ n.active[p] = m.active[p]
               /\ n.reclaimable[p] = m.reclaimable[p]
    <3>1. n.object[p] # NoObject
      BY DEF Free
    <3>2. p \notin H
      BY <1>3, <3>1
    <3> QED
      BY <1>1, <1>3, <3>1, <3>2, VMPageAssumption DEF Free
  <2>2. ASSUME NEW p \in Pages, p \in Free(m) PROVE p \in Free(n)
    <3>1. m.object[p] = NoObject /\ NoObject # b
      BY <1>1, <2>2, VMPageAssumption DEF Free
    <3> QED
      BY <1>3, <3>1 DEF Free
  <2>3. ASSUME NEW p \in Pages \ Free(m),
               m.object[p] = o \/ m.pageout_in_progress[m.object[p]]
        PROVE  n.object[p] = m.object[p]
    <3>1. m.object[p] # b
      BY <1>1, <1>2, <2>3
    <3> QED
      BY <1>3, <3>1
  <2>4. ASSUME NEW x \in Objects, m.live[x], m.pageout_in_progress[x] PROVE n.live[x]
    BY <1>1, <1>5, <2>4
  <2>5. ASSUME NEW x \in Objects, m.space[x] # NoSpace
        PROVE  \E y \in Objects : n.space[y] = m.space[x]
    <3>1. x # o
      BY <1>1, <2>5
    <3>2. CASE x = b
      BY <1>5, <3>2
    <3>3. CASE x # b
      BY <1>5, <3>1, <3>3
    <3> QED
      BY <3>2, <3>3
  <2> QED
    BY <1>3, <1>5, <2>1, <2>2, <2>3, <2>4, <2>5 DEF Shrunk
<1> QED
  BY <1>3, <1>6, <1>7, <1>8, <1>9 DEF n, ObjectsOK

(* Bypassing.                                                              *)
LEMMA BypassObjects ==
  ASSUME NEW m \in Memories, Queued(m), NEW e, NEW first, DOMAIN e = DOMAIN InitEntry,
         ObjectsOK(m, e, first), NEW o \in Objects, m.live[o],
         Collapsible(m, o), m.ref_count[m.shadow[o]] # 1
  PROVE  LET n == Bypass(m, o) IN
         n \in Memories /\ Queued(n) /\ ObjectsOK(n, e, first) /\ Shrunk(m, n, o)
<1> DEFINE b == m.shadow[o]
           c == m.shadow[b]
           n == Bypass(m, o)
           g == [x \in Objects |-> m.ref_count[x] + (IF x = c THEN 1 ELSE 0)
                                                  - (IF x = b THEN 1 ELSE 0)]
<1>1. /\ b \in Objects /\ m.space[o] = NoSpace /\ ~m.pageout_in_progress[b]
      /\ Counted(m, e, first) /\ Acyclic(m)
      /\ \A x \in Objects : ~m.live[x] => m.space[x] = NoSpace
  BY DEF Collapsible, Memories, ObjectsOK
<1>2. m.live[b] /\ b # o /\ c # o /\ c # b
  BY <1>1, ReferredLive, NoShortCycle
<1>4. /\ m.live \in [Objects -> BOOLEAN] /\ m.ref_count \in [Objects -> Nat]
      /\ m.shadow \in [Objects -> Objects \cup {NoObject}]
  BY DEF Memories
<1>a. n = [m EXCEPT !.shadow[o] = c, !.ref_count = g]
  BY DEF Bypass
<1>b. m.ref_count[b] > 1
  <2>1. o \in Shadows(m, b)
    BY DEF Shadows
  <2>2. m.ref_count[b] >= 1 /\ m.ref_count[b] \in Nat
    BY <1>1, <1>4, <2>1, ReferredLive
  <2> QED
    BY <2>2
<1>c. g \in [Objects -> Nat] /\ c \in Objects \cup {NoObject}
  <2>1. ASSUME NEW x \in Objects PROVE g[x] \in Nat
    BY <1>4, <1>b
  <2> QED
    BY <1>1, <1>4, <2>1
<1>d. /\ g[b] = m.ref_count[b] - 1
      /\ c \in Objects => g[c] = m.ref_count[c] + 1
      /\ \A x \in Objects \ {b, c} : g[x] = m.ref_count[x]
  BY <1>1, <1>2, <1>4
<1> HIDE DEF n, g
<1>3. /\ n \in Memories
      /\ n.object = m.object /\ n.busy = m.busy /\ n.active = m.active
      /\ n.reclaimable = m.reclaimable /\ n.activeq = m.activeq /\ n.reclaimq = m.reclaimq
      /\ n.offset = m.offset /\ n.mapped = m.mapped
      /\ n.live = m.live /\ n.space = m.space
      /\ n.pageout_in_progress = m.pageout_in_progress
      /\ n.ref_count = g /\ n.shadow = [m.shadow EXCEPT ![o] = c]
  BY <1>a, <1>c DEF Memories
<1>e. Queued(n)
  BY <1>3, SamePagesQueued
<1>5. n.shadow[o] = c /\ \A x \in Objects \ {o} : n.shadow[x] = m.shadow[x]
  BY <1>3, <1>4
<1>6. Counted(n, e, first)
  <2>1. ASSUME NEW x \in Objects
        PROVE  n.ref_count[x] = Cardinality(Entries(e, x)) + Cardinality(Shadows(n, x))
                                  + Cardinality(Faults(first, x))
    <3>0. /\ IsFiniteSet(Shadows(m, x))
          /\ Cardinality(Entries(e, x)) \in Nat /\ Cardinality(Shadows(m, x)) \in Nat
          /\ Cardinality(Faults(first, x)) \in Nat
          /\ m.ref_count[x] = Cardinality(Entries(e, x)) + Cardinality(Shadows(m, x))
                               + Cardinality(Faults(first, x))
      BY <1>1, CountsFinite, ReferredLive
    <3>1. CASE x = b
      <4>1. o \in Shadows(m, b)
        BY DEF Shadows
      <4>5. Shadows(n, b) = Shadows(m, b) \ {o}
        BY <1>2, <1>3, <1>5 DEF Shadows
      <4>6. IsFiniteSet(Shadows(m, b))
        BY <3>0, <3>1
      <4>7. Cardinality(Shadows(n, b)) = Cardinality(Shadows(m, b)) - 1
        BY ZenonT(60), <4>1, <4>5, <4>6, FS_RemoveElement
      <4> QED
        BY <1>3, <1>d, <3>0, <3>1, <4>7
    <3>2. CASE x = c
      <4>1. o \notin Shadows(m, x)
        BY <1>1, <1>2, <3>2 DEF Shadows
      <4>2. Shadows(n, x) = Shadows(m, x) \cup {o}
        BY <1>2, <1>3, <1>5, <3>2 DEF Shadows
      <4>4. Cardinality(Shadows(n, x)) = Cardinality(Shadows(m, x)) + 1
        BY <3>0, <4>1, <4>2, FS_AddElement
      <4> QED
        BY <1>2, <1>3, <1>d, <3>0, <3>2, <4>4
    <3>3. CASE x # b /\ x # c
      <4>1. Shadows(n, x) = Shadows(m, x)
        BY <1>2, <1>3, <1>5, <3>3 DEF Shadows
      <4> QED
        BY <1>3, <1>d, <3>0, <3>3, <4>1
    <3> QED
      BY <3>1, <3>2, <3>3
  <2>2. ASSUME NEW x \in Objects, n.ref_count[x] > 0 PROVE n.live[x]
    <3>1. m.live[x]
      <4>1. CASE x = b
        BY <1>2, <4>1
      <4>2. CASE x = c
        BY <1>1, <1>2, <4>2, ReferredLive
      <4>3. CASE x # b /\ x # c
        BY <1>1, <1>3, <1>d, <2>2, <4>3 DEF Counted
      <4> QED
        BY <4>1, <4>2, <4>3
    <3> QED
      BY <1>3, <3>1
  <2>3. ASSUME NEW x \in Objects, ~n.live[x] PROVE PagesOf(n, x) = {}
    <3>1. PagesOf(n, x) = PagesOf(m, x) /\ ~m.live[x]
      BY <1>3, <2>3 DEF PagesOf
    <3> QED
      BY <1>1, <3>1 DEF Counted
  <2> QED
    BY <2>1, <2>2, <2>3 DEF Counted, Entries, Shadows, Faults
<1>7. Acyclic(n)
  BY <1>1, <1>2, <1>3, ShortenedAcyclic
<1>8. ASSUME NEW x \in Objects, ~n.live[x] PROVE n.space[x] = NoSpace
  BY <1>1, <1>3, <1>8
<1>9. Shrunk(m, n, o)
  BY <1>3 DEF Shrunk, Free
<1> QED
  BY <1>3, <1>6, <1>7, <1>8, <1>9, <1>e DEF n, ObjectsOK

(* The whole collapse.                                                     *)
LEMMA CollapseDoes ==
  ASSUME NEW m \in Memories, Queued(m), NEW e, NEW first, DOMAIN e = DOMAIN InitEntry,
         ObjectsOK(m, e, first), NEW o \in Objects, m.live[o]
  PROVE  LET n == Collapse(m, o) IN
         n \in Memories /\ Queued(n) /\ ObjectsOK(n, e, first) /\ Shrunk(m, n, o)
<1> DEFINE G == {n \in Memories : Queued(n) /\ ObjectsOK(n, e, first) /\ Shrunk(m, n, o)}
<1>1. m \in G
  BY ShrunkSame
<1>2. ASSUME NEW n \in G PROVE CollapseOnce(n, o) \in G
  <2>1. n \in Memories /\ Queued(n) /\ ObjectsOK(n, e, first) /\ Shrunk(m, n, o) /\ n.live[o]
    BY DEF Shrunk
  <2> DEFINE k == CollapseOnce(n, o)
  <2>2. CASE Collapsible(n, o) /\ n.ref_count[n.shadow[o]] = 1
    <3>1. k = Merge(n, o)
      BY <2>2 DEF CollapseOnce
    <3>2. k \in Memories /\ Queued(k) /\ ObjectsOK(k, e, first) /\ Shrunk(n, k, o)
      BY <2>1, <2>2, <3>1, MergeObjects
    <3> QED
      BY <2>1, <3>2, ShrunkMore
  <2>3. CASE Collapsible(n, o) /\ n.ref_count[n.shadow[o]] # 1 /\ Bypassable(n, o)
    <3>1. k = Bypass(n, o)
      BY <2>3 DEF CollapseOnce
    <3>2. k \in Memories /\ Queued(k) /\ ObjectsOK(k, e, first) /\ Shrunk(n, k, o)
      BY <2>1, <2>3, <3>1, BypassObjects
    <3> QED
      BY <2>1, <3>2, ShrunkMore
  <2>4. CASE ~Collapsible(n, o) \/ (n.ref_count[n.shadow[o]] # 1 /\ ~Bypassable(n, o))
    <3>1. k = n
      BY <2>4 DEF CollapseOnce
    <3> QED
      BY <3>1
  <2> QED
    BY <2>2, <2>3, <2>4
<1> HIDE DEF G
<1>3. Collapse(m, o) \in G
  BY <1>1, <1>2, CollapseIn
<1> QED
  BY <1>3 DEF G

(***************************************************************************)
(* The inductive invariant.  It is written of a memory m, entries e, a     *)
(* lock l, threads h and a daemon d, so that an action can be followed     *)
(* through the memories in between.                                        *)
(***************************************************************************)
Locking == {"search", "found", "copy"}
Outside == {"idle", "lookup", "await", "sleep_page", "short", "sleep_free"}
Writes  == {"pager", "allocate", "put", "written"}

First(h) == [t \in Threads |-> h[t].first]

DaemonRecords ==
  [pc : {"asleep", "run", "scan", "pager", "allocate", "put", "written",
         "refill", "rest", "panic"},
   cur : Pages \cup {NoPage}, object : Objects \cup {NoObject},
   freed : BOOLEAN, shortage : Int]

EntryMaps == [DOMAIN InitEntry -> [object : Objects, needs_copy : BOOLEAN]]

(* A thread's page is its own, and where its place in vm_fault says.       *)
ThreadOK(m, r) ==
  /\ r.pc \in Holds => /\ r.page \in Pages /\ r.page \notin Free(m)
                       /\ m.offset[r.page] = r.offset
                       /\ m.busy[r.page] <=> r.pc \in Works
                       /\ r.pc # "found" => OffQueues(m, r.page)
  /\ r.first = NoObject <=> r.pc \in Outside
  /\ r.pc \in {"pagein", "got", "not_there"} => r.object \in Objects

ThreadsOK(m, h) ==
  \A t \in Threads :
    /\ ThreadOK(m, h[t])
    /\ h[t].pc \in Holds =>
         \A u \in Threads \ {t} : h[u].pc \in Holds => h[u].page # h[t].page

LocksOK(l, h, d) ==
  /\ \A t \in Threads : l = t <=> h[t].pc \in Locking
  /\ l = Daemon <=> d.pc \in {"scan", "refill"}

DaemonOK(m, d) ==
  /\ d.pc # "panic"
  /\ d.pc = "scan" /\ d.cur # NoPage => m.reclaimable[d.cur]
  /\ d.pc \in Writes =>
       /\ d.cur \in Pages /\ m.busy[d.cur] /\ m.reclaimable[d.cur]
       /\ d.object \in Objects /\ m.object[d.cur] = d.object
       /\ m.pageout_in_progress[d.object]

Sound(m, e, l, h, d) ==
  /\ m \in Memories /\ e \in EntryMaps /\ l \in Threads \cup {Daemon, NoOne}
  /\ h \in [Threads -> ThreadRecords] /\ d \in DaemonRecords
  /\ Queued(m) /\ ThreadsOK(m, h) /\ LocksOK(l, h, d) /\ DaemonOK(m, d)
  /\ ObjectsOK(m, e, First(h))

IInv == stored \in [Objects -> SUBSET Offsets] /\ Sound(mem, entry, lock, th, dm)

(***************************************************************************)
(* What a step leaves alone.                                               *)
(***************************************************************************)
Keeps(m, n, p) ==
  /\ n.offset[p] = m.offset[p] /\ n.busy[p] = m.busy[p]
  /\ n.active[p] = m.active[p] /\ n.reclaimable[p] = m.reclaimable[p]
  /\ p \notin Free(m) => p \notin Free(n)

Woken(g, r) ==
  /\ g.pc \in {"sleep_page", "sleep_free"} /\ r.pc = "lookup" /\ r.first = g.first

Moved(h, t, r, h2) ==
  /\ h2 \in [Threads -> ThreadRecords] /\ h2[t] = r
  /\ \A u \in Threads \ {t} : h2[u] = h[u] \/ Woken(h[u], h2[u])

Poked(d, d2) == d2 = d \/ (d.pc = "asleep" /\ d2.pc = "run" /\ d2 \in DaemonRecords)

Spared(m, n, h, t, d) ==
  /\ \A u \in Threads \ {t} : h[u].pc \in Holds => Keeps(m, n, h[u].page)
  /\ d.pc \in Writes \cup {"scan"} /\ d.cur \in Pages =>
       Keeps(m, n, d.cur) /\ n.object[d.cur] = m.object[d.cur]
  /\ d.pc \in Writes => n.pageout_in_progress[d.object]

Locked(l, l2, t, r) ==
  /\ l2 = l \/ {l, l2} \subseteq {t, NoOne}
  /\ l2 = t <=> r.pc \in Locking

(* Another thread's part of the invariant.                                 *)
LEMMA ThreadsKept ==
  ASSUME NEW m, NEW n, NEW h \in [Threads -> ThreadRecords], NEW h2, NEW t \in Threads,
         NEW r, NEW d, ThreadsOK(m, h), Moved(h, t, r, h2), Spared(m, n, h, t, d),
         ThreadOK(n, r),
         r.pc \in Holds => \A u \in Threads \ {t} : h[u].pc \in Holds => h[u].page # r.page
  PROVE  ThreadsOK(n, h2)
<1>1. ASSUME NEW u \in Threads \ {t}, Woken(h[u], h2[u])
      PROVE  ThreadOK(n, h2[u]) /\ h2[u].pc \notin Holds
  <2>1. h[u].first = NoObject
    BY <1>1 DEF ThreadsOK, ThreadOK, Woken, Outside
  <2> QED
    BY <1>1, <2>1 DEF ThreadOK, Woken, Holds, Works, Outside
<1>2. ASSUME NEW u \in Threads \ {t}, h2[u] = h[u] PROVE ThreadOK(n, h2[u])
  <2>1. ThreadOK(m, h[u])
    BY DEF ThreadsOK
  <2>2. h[u].pc \in Holds => Keeps(m, n, h[u].page)
    BY DEF Spared
  <2> QED
    BY <1>2, <2>1, <2>2 DEF ThreadOK, Keeps, OffQueues
<1>3. ASSUME NEW u \in Threads PROVE ThreadOK(n, h2[u])
  BY <1>1, <1>2 DEF Moved
<1>4. ASSUME NEW u \in Threads \ {t}, h2[u].pc \in Holds PROVE h2[u] = h[u]
  BY <1>1, <1>4 DEF Moved
<1>5. ASSUME NEW u \in Threads, NEW v \in Threads \ {u}, h2[u].pc \in Holds, h2[v].pc \in Holds
      PROVE  h2[v].page # h2[u].page
  <2>1. h2[t] = r
    BY DEF Moved
  <2>2. CASE u = t
    BY <1>4, <1>5, <2>1, <2>2
  <2>3. CASE v = t
    BY <1>4, <1>5, <2>1, <2>3
  <2>4. CASE u # t /\ v # t
    BY <1>4, <1>5, <2>4 DEF ThreadsOK
  <2> QED
    BY <2>2, <2>3, <2>4
<1> QED
  BY <1>3, <1>5 DEF ThreadsOK

(* The lock of the page queues has one holder after any step of a thread.  *)
LEMMA LocksKept ==
  ASSUME NEW l, NEW l2, NEW h, NEW h2, NEW d, NEW d2, NEW t \in Threads, NEW r,
         LocksOK(l, h, d), Locked(l, l2, t, r), Moved(h, t, r, h2), Poked(d, d2)
  PROVE  LocksOK(l2, h2, d2)
<1>1. ASSUME NEW u \in Threads PROVE l2 = u <=> h2[u].pc \in Locking
  <2>1. CASE u = t
    BY <2>1 DEF Locked, Moved
  <2>2. CASE u # t
    <3>1. l2 = u <=> l = u
      BY <2>2, VMFaultAssumption DEF Locked
    <3>2. h2[u].pc \in Locking <=> h[u].pc \in Locking
      BY <2>2 DEF Moved, Woken, Locking
    <3> QED
      BY <3>1, <3>2 DEF LocksOK
  <2> QED
    BY <2>1, <2>2
<1>2. l2 = Daemon <=> l = Daemon
  BY VMFaultAssumption DEF Locked
<1>3. d2.pc \in {"scan", "refill"} <=> d.pc \in {"scan", "refill"}
  BY DEF Poked
<1> QED
  BY <1>1, <1>2, <1>3 DEF LocksOK

(* The page the daemon is writing survives any step that spares it.        *)
LEMMA DaemonKept ==
  ASSUME NEW m, NEW n, NEW d \in DaemonRecords, NEW d2, NEW h, NEW t,
         DaemonOK(m, d), Spared(m, n, h, t, d), Poked(d, d2)
  PROVE  DaemonOK(n, d2) /\ d2 \in DaemonRecords
<1>1. CASE d2 = d
  <2>1. d.pc = "scan" /\ d.cur # NoPage => n.reclaimable[d.cur]
    <3>1. d.cur # NoPage => d.cur \in Pages
      BY DEF DaemonRecords
    <3> QED
      BY <3>1 DEF DaemonOK, Spared, Keeps
  <2>2. ASSUME d.pc \in Writes
        PROVE  /\ d.cur \in Pages /\ n.busy[d.cur] /\ n.reclaimable[d.cur]
               /\ d.object \in Objects /\ n.object[d.cur] = d.object
               /\ n.pageout_in_progress[d.object]
    BY <2>2 DEF DaemonOK, Spared, Keeps
  <2> QED
    BY <1>1, <2>1, <2>2 DEF DaemonOK
<1>2. CASE d.pc = "asleep" /\ d2.pc = "run" /\ d2 \in DaemonRecords
  BY <1>2 DEF DaemonOK, Writes
<1> QED
  BY <1>1, <1>2 DEF Poked

(* A step of a thread.                                                     *)
LEMMA ThreadAction ==
  ASSUME NEW m, NEW e, NEW l, NEW h, NEW d, Sound(m, e, l, h, d),
         NEW n \in Memories, NEW e2 \in EntryMaps, NEW l2, NEW h2, NEW d2,
         NEW t \in Threads, NEW r,
         Moved(h, t, r, h2), Locked(l, l2, t, r), Poked(d, d2), Spared(m, n, h, t, d),
         Queued(n), ThreadOK(n, r),
         r.pc \in Holds => \A u \in Threads \ {t} : h[u].pc \in Holds => h[u].page # r.page,
         ObjectsOK(n, e2, First(h2))
  PROVE  Sound(n, e2, l2, h2, d2)
<1>1. /\ h \in [Threads -> ThreadRecords] /\ d \in DaemonRecords
      /\ ThreadsOK(m, h) /\ LocksOK(l, h, d) /\ DaemonOK(m, d)
      /\ l \in Threads \cup {Daemon, NoOne}
  BY DEF Sound
<1>2. ThreadsOK(n, h2)
  BY <1>1, ThreadsKept
<1>3. LocksOK(l2, h2, d2)
  BY <1>1, LocksKept
<1>4. DaemonOK(n, d2) /\ d2 \in DaemonRecords
  BY <1>1, DaemonKept
<1>5. l2 \in Threads \cup {Daemon, NoOne}
  BY <1>1 DEF Locked
<1>6. h2 \in [Threads -> ThreadRecords]
  BY DEF Moved
<1> QED
  BY <1>2, <1>3, <1>4, <1>5, <1>6 DEF Sound

(* A free page is nobody's; a thread's page is not another's nor the       *)
(* daemon's.                                                               *)
LEMMA Apart ==
  ASSUME NEW m, NEW e, NEW l, NEW h, NEW d, Sound(m, e, l, h, d),
         NEW t \in Threads, NEW x \in Pages,
         x \in Free(m) \/ (h[t].pc \in Holds /\ x = h[t].page)
  PROVE  /\ \A u \in Threads \ {t} : h[u].pc \in Holds => h[u].page # x
         /\ d.pc \in Writes \cup {"scan"} => d.cur # x
<1>1. /\ ThreadsOK(m, h) /\ LocksOK(l, h, d) /\ DaemonOK(m, d) /\ Queued(m)
      /\ d \in DaemonRecords
  BY DEF Sound
<1>2. CASE x \in Free(m)
  <2>1. ~m.reclaimable[x]
    BY <1>1, <1>2 DEF Queued, OffQueues
  <2>2. x # NoPage
    BY VMPageAssumption
  <2> QED
    BY <1>1, <1>2, <2>1, <2>2 DEF ThreadsOK, ThreadOK, DaemonOK
<1>3. CASE h[t].pc \in Holds /\ x = h[t].page
  <2>1. \A u \in Threads \ {t} : h[u].pc \in Holds => h[u].page # x
    BY <1>1, <1>3 DEF ThreadsOK
  <2>2. ThreadOK(m, h[t]) /\ x # NoPage
    BY <1>1, VMPageAssumption DEF ThreadsOK
  <2>3. CASE h[t].pc = "found"
    <3>1. d.pc # "scan"
      BY <1>1, <2>3, VMFaultAssumption DEF LocksOK, Locking
    <3>2. ~m.busy[x]
      BY <1>3, <2>2, <2>3 DEF ThreadOK, Works
    <3> QED
      BY <1>1, <2>1, <3>1, <3>2 DEF DaemonOK
  <2>4. CASE h[t].pc # "found"
    <3>1. ~m.reclaimable[x]
      BY <1>3, <2>2, <2>4 DEF ThreadOK, OffQueues
    <3> QED
      BY <1>1, <2>1, <2>2, <3>1 DEF DaemonOK
  <2> QED
    BY <2>3, <2>4
<1> QED
  BY <1>2, <1>3

(* A step that touches no page but free ones and the thread's own.         *)
LEMMA SparedBut ==
  ASSUME NEW m, NEW e, NEW l, NEW h, NEW d, Sound(m, e, l, h, d),
         NEW t \in Threads, NEW T \in SUBSET Pages, NEW n,
         \A x \in T : x \in Free(m) \/ (h[t].pc \in Holds /\ x = h[t].page),
         \A p \in Pages \ T : Keeps(m, n, p) /\ n.object[p] = m.object[p],
         \A o \in Objects : m.pageout_in_progress[o] /\ m.live[o] => n.pageout_in_progress[o]
  PROVE  Spared(m, n, h, t, d)
<1>1. ThreadsOK(m, h) /\ DaemonOK(m, d) /\ d \in DaemonRecords /\ ObjectsOK(m, e, First(h))
  BY DEF Sound
<1>2. ASSUME NEW u \in Threads \ {t}, h[u].pc \in Holds PROVE Keeps(m, n, h[u].page)
  <2>1. h[u].page \in Pages
    BY <1>1, <1>2 DEF ThreadsOK, ThreadOK
  <2>2. h[u].page \notin T
    BY <1>2, Apart
  <2> QED
    BY <2>1, <2>2
<1>3. ASSUME d.pc \in Writes \cup {"scan"}, d.cur \in Pages
      PROVE  Keeps(m, n, d.cur) /\ n.object[d.cur] = m.object[d.cur]
  <2>1. d.cur \notin T
    BY <1>3, Apart
  <2> QED
    BY <1>3, <2>1
<1>4. ASSUME d.pc \in Writes PROVE n.pageout_in_progress[d.object]
  <2>1. m.live[d.object]
    BY <1>1, <1>4 DEF DaemonOK, ObjectsOK, Counted, PagesOf
  <2> QED
    BY <1>1, <1>4, <2>1 DEF DaemonOK
<1> QED
  BY <1>2, <1>3, <1>4 DEF Spared

(***************************************************************************)
(* Steps that change references, and the steps that change none.           *)
(***************************************************************************)

SamePages(m, n) ==
  /\ n.object = m.object /\ n.offset = m.offset /\ n.busy = m.busy /\ n.active = m.active
  /\ n.reclaimable = m.reclaimable /\ n.mapped = m.mapped
  /\ n.activeq = m.activeq /\ n.reclaimq = m.reclaimq

(* Nothing about a page changes when the pages are the same.               *)
LEMMA SamePagesKeep ==
  ASSUME NEW m, NEW n, SamePages(m, n)
  PROVE  /\ Queued(m) => Queued(n)
         /\ \A p \in Pages : Keeps(m, n, p) /\ n.object[p] = m.object[p]
         /\ Free(n) = Free(m)
BY SamePagesQueued DEF SamePages, Keeps, Free

(* The objects do not notice where pages go, as long as they go to live    *)
(* ones.                                                                   *)
LEMMA ObjectsKept ==
  ASSUME NEW m \in Memories, NEW n \in Memories, NEW e, NEW first, ObjectsOK(m, e, first),
         n.live = m.live, n.ref_count = m.ref_count, n.shadow = m.shadow, n.space = m.space,
         \A p \in Pages : \/ n.object[p] \in {m.object[p], NoObject}
                          \/ n.object[p] \in Objects /\ m.live[n.object[p]]
  PROVE  ObjectsOK(n, e, first)
<1>1. Counted(m, e, first) /\ Acyclic(m) /\ \A o \in Objects : ~m.live[o] => m.space[o] = NoSpace
  BY DEF ObjectsOK
<1>2. Acyclic(n)
  BY <1>1 DEF Acyclic
<1>3. ASSUME NEW o \in Objects, ~n.live[o] PROVE PagesOf(n, o) = {}
  <2>1. SUFFICES ASSUME NEW p \in Pages, n.object[p] = o PROVE FALSE
    BY DEF PagesOf
  <2>2. m.object[p] = o
    BY <1>3, <2>1, VMPageAssumption
  <2> QED
    BY <1>1, <1>3, <2>2 DEF Counted, PagesOf
<1>4. \A o \in Objects : Shadows(n, o) = Shadows(m, o)
  BY DEF Shadows
<1>5. Counted(n, e, first)
  BY <1>1, <1>3, <1>4 DEF Counted, Shadows
<1> QED
  BY <1>1, <1>2, <1>5 DEF ObjectsOK

(* vm_object_deallocate: the count follows the thread that lets go.        *)
LEMMA UnreferenceDoes ==
  ASSUME NEW m \in Memories, NEW e, DOMAIN e = DOMAIN InitEntry,
         NEW first, DOMAIN first = Threads, ObjectsOK(m, e, first),
         NEW t \in Threads, NEW o \in Objects, first[t] = o
  PROVE  LET n == Unreference(m, o) IN
         /\ n \in Memories /\ SamePages(m, n)
         /\ n.pageout_in_progress = m.pageout_in_progress /\ n.space = m.space
         /\ ObjectsOK(n, e, [first EXCEPT ![t] = NoObject])
<1> DEFINE n == Unreference(m, o)
           f == [first EXCEPT ![t] = NoObject]
<1>1. Counted(m, e, first) /\ Acyclic(m) /\ \A x \in Objects : ~m.live[x] => m.space[x] = NoSpace
  BY DEF ObjectsOK
<1>2. /\ IsFiniteSet(Faults(first, o)) /\ IsFiniteSet(Faults(f, o))
      /\ Cardinality(Entries(e, o)) \in Nat /\ Cardinality(Shadows(m, o)) \in Nat
      /\ Cardinality(Faults(f, o)) \in Nat
  BY CountsFinite
<1>3. Faults(f, o) = Faults(first, o) \ {t} /\ t \in Faults(first, o)
  BY VMPageAssumption DEF Faults
<1>4. Cardinality(Faults(f, o)) = Cardinality(Faults(first, o)) - 1
  BY <1>2, <1>3, FS_RemoveElement
<1>5. m.ref_count[o] = Cardinality(Entries(e, o)) + Cardinality(Shadows(m, o))
                         + Cardinality(Faults(first, o))
  BY <1>1, ReferredLive
<1>6. m.ref_count[o] \in Nat /\ m.ref_count \in [Objects -> Nat]
  BY DEF Memories
<1>7. m.ref_count[o] - 1 \in Nat
  <2>1. Cardinality(Faults(first, o)) \in Nat
    BY CountsFinite
  <2> QED
    BY <1>2, <1>4, <1>5, <1>6, <2>1
<1>8. n = [m EXCEPT !.ref_count[o] = m.ref_count[o] - 1]
  BY DEF Unreference
<1> HIDE DEF n, f
<1>9. /\ n \in Memories /\ SamePages(m, n)
      /\ n.pageout_in_progress = m.pageout_in_progress /\ n.space = m.space
      /\ n.live = m.live /\ n.shadow = m.shadow
      /\ n.ref_count = [m.ref_count EXCEPT ![o] = m.ref_count[o] - 1]
  BY <1>7, <1>8 DEF Memories, SamePages
<1>10. Acyclic(n)
  BY <1>1, <1>9 DEF Acyclic
<1>11. ASSUME NEW x \in Objects
       PROVE  n.ref_count[x] = Cardinality(Entries(e, x)) + Cardinality(Shadows(n, x))
                                 + Cardinality(Faults(f, x))
  <2>1. Shadows(n, x) = Shadows(m, x)
    BY <1>9 DEF Shadows
  <2>2. CASE x = o
    <3>1. Cardinality(Faults(first, o)) \in Nat
      BY CountsFinite
    <3> QED
      BY <1>2, <1>4, <1>5, <1>6, <1>9, <2>1, <2>2, <3>1
  <2>3. CASE x # o
    <3>1. Faults(f, x) = Faults(first, x)
      BY <2>3, VMPageAssumption DEF Faults, f
    <3>2. m.ref_count[x] = Cardinality(Entries(e, x)) + Cardinality(Shadows(m, x))
                             + Cardinality(Faults(first, x))
      BY <1>1, ReferredLive
    <3> QED
      BY <1>6, <1>9, <2>1, <2>3, <3>1, <3>2
  <2> QED
    BY <2>2, <2>3
<1>12. ASSUME NEW x \in Objects, n.ref_count[x] > 0 PROVE n.live[x]
  <2>1. m.ref_count[x] > 0
    BY <1>6, <1>9, <1>12
  <2> QED
    BY <1>1, <1>9, <2>1 DEF Counted
<1>13. ASSUME NEW x \in Objects, ~n.live[x] PROVE PagesOf(n, x) = {}
  <2>1. PagesOf(n, x) = PagesOf(m, x)
    BY <1>9 DEF SamePages, PagesOf
  <2> QED
    BY <1>1, <1>9, <1>13, <2>1 DEF Counted
<1>14. Counted(n, e, f)
  BY <1>11, <1>12, <1>13 DEF Counted, Entries, Shadows, Faults
<1> QED
  BY <1>1, <1>9, <1>10, <1>14 DEF n, f, ObjectsOK

(* vm_object_reference by a fault that refers to nothing yet.              *)
LEMMA ReferenceDoes ==
  ASSUME NEW m \in Memories, NEW e, DOMAIN e = DOMAIN InitEntry,
         NEW first, DOMAIN first = Threads, ObjectsOK(m, e, first),
         NEW t \in Threads, first[t] = NoObject, NEW o \in Objects, m.live[o]
  PROVE  LET n == Reference(m, o) IN
         /\ n \in Memories /\ SamePages(m, n)
         /\ n.pageout_in_progress = m.pageout_in_progress /\ n.space = m.space
         /\ n.live = m.live
         /\ ObjectsOK(n, e, [first EXCEPT ![t] = o])
<1> DEFINE n == Reference(m, o)
           f == [first EXCEPT ![t] = o]
<1>1. Counted(m, e, first) /\ Acyclic(m) /\ \A x \in Objects : ~m.live[x] => m.space[x] = NoSpace
  BY DEF ObjectsOK
<1>2. /\ IsFiniteSet(Faults(first, o)) /\ Cardinality(Faults(first, o)) \in Nat
      /\ Cardinality(Entries(e, o)) \in Nat /\ Cardinality(Shadows(m, o)) \in Nat
  BY CountsFinite
<1>3. Faults(f, o) = Faults(first, o) \cup {t} /\ t \notin Faults(first, o)
  BY VMPageAssumption DEF Faults
<1>4. Cardinality(Faults(f, o)) = Cardinality(Faults(first, o)) + 1
  BY <1>2, <1>3, FS_AddElement
<1>5. m.ref_count[o] = Cardinality(Entries(e, o)) + Cardinality(Shadows(m, o))
                         + Cardinality(Faults(first, o))
  BY <1>1, ReferredLive
<1>6. m.ref_count[o] \in Nat /\ m.ref_count \in [Objects -> Nat]
  BY DEF Memories
<1>8. n = [m EXCEPT !.ref_count[o] = m.ref_count[o] + 1]
  BY DEF Reference
<1> HIDE DEF n, f
<1>7. m.ref_count[o] + 1 \in Nat
  BY <1>6
<1>9. /\ n \in Memories /\ SamePages(m, n)
      /\ n.pageout_in_progress = m.pageout_in_progress /\ n.space = m.space
      /\ n.live = m.live /\ n.shadow = m.shadow
      /\ n.ref_count = [m.ref_count EXCEPT ![o] = m.ref_count[o] + 1]
  BY <1>7, <1>8 DEF Memories, SamePages
<1>10. Acyclic(n)
  BY <1>1, <1>9 DEF Acyclic
<1>11. ASSUME NEW x \in Objects
       PROVE  n.ref_count[x] = Cardinality(Entries(e, x)) + Cardinality(Shadows(n, x))
                                 + Cardinality(Faults(f, x))
  <2>1. Shadows(n, x) = Shadows(m, x)
    BY <1>9 DEF Shadows
  <2>2. CASE x = o
    BY <1>2, <1>4, <1>5, <1>6, <1>9, <2>1, <2>2
  <2>3. CASE x # o
    <3>1. Faults(f, x) = Faults(first, x)
      BY <2>3, VMPageAssumption DEF Faults, f
    <3>2. m.ref_count[x] = Cardinality(Entries(e, x)) + Cardinality(Shadows(m, x))
                             + Cardinality(Faults(first, x))
      BY <1>1, ReferredLive
    <3> QED
      BY <1>6, <1>9, <2>1, <2>3, <3>1, <3>2
  <2> QED
    BY <2>2, <2>3
<1>12. ASSUME NEW x \in Objects, n.ref_count[x] > 0 PROVE n.live[x]
  <2>1. CASE x = o
    BY <1>9, <2>1
  <2>2. CASE x # o
    BY <1>1, <1>6, <1>9, <1>12, <2>2 DEF Counted
  <2> QED
    BY <2>1, <2>2
<1>13. ASSUME NEW x \in Objects, ~n.live[x] PROVE PagesOf(n, x) = {}
  <2>1. PagesOf(n, x) = PagesOf(m, x)
    BY <1>9 DEF SamePages, PagesOf
  <2> QED
    BY <1>1, <1>9, <1>13, <2>1 DEF Counted
<1>14. Counted(n, e, f)
  BY <1>11, <1>12, <1>13 DEF Counted, Entries, Shadows, Faults
<1> QED
  BY <1>1, <1>9, <1>10, <1>14 DEF n, f, ObjectsOK

(* Shadow chains end if no set of live objects is closed under shadow.     *)
LEMMA AcyclicFrom ==
  ASSUME NEW m,
         \A S : S # {} /\ (\A y \in S : y \in Objects /\ m.live[y])
               => \E y \in S : m.shadow[y] \notin S
  PROVE  Acyclic(m)
<1>1. SUFFICES ASSUME NEW S \in SUBSET {y \in Objects : m.live[y]}, S # {}
               PROVE  \E y \in S : m.shadow[y] \notin S
  BY DEF Acyclic
<1>2. \A y \in S : y \in Objects /\ m.live[y]
  OBVIOUS
<1> QED
  BY <1>1, <1>2

(* vm_object_shadow: the entry's reference goes to the new object, and the *)
(* new object's to the old one.                                            *)
LEMMA MakeShadowDoes ==
  ASSUME NEW m \in Memories, NEW e \in EntryMaps, NEW first, ObjectsOK(m, e, first),
         NEW x \in DOMAIN e, NEW o, o = e[x].object, NEW s \in Objects, ~m.live[s]
  PROVE  LET n == MakeShadow(m, s, o)
             g == [e EXCEPT ![x] = [object |-> s, needs_copy |-> FALSE]]
         IN
         /\ n \in Memories /\ SamePages(m, n) /\ g \in EntryMaps /\ n.live[s]
         /\ \A y \in Objects : m.live[y] =>
              /\ n.pageout_in_progress[y] = m.pageout_in_progress[y]
              /\ n.space[y] = m.space[y]
         /\ ObjectsOK(n, g, first)
<1> DEFINE n == MakeShadow(m, s, o)
           g == [e EXCEPT ![x] = [object |-> s, needs_copy |-> FALSE]]
<1>1. Counted(m, e, first) /\ Acyclic(m) /\ \A y \in Objects : ~m.live[y] => m.space[y] = NoSpace
  BY DEF ObjectsOK
<1>2. /\ DOMAIN e = DOMAIN InitEntry /\ o \in Objects /\ m.live[o]
  <2>1. DOMAIN e = DOMAIN InitEntry /\ o \in Objects
    BY DEF EntryMaps
  <2> QED
    BY <1>1, <2>1, ReferredLive
<1>3. o # s
  BY <1>2
<1>4. /\ m.live \in [Objects -> BOOLEAN] /\ m.ref_count \in [Objects -> Nat]
      /\ m.shadow \in [Objects -> Objects \cup {NoObject}]
      /\ m.space \in [Objects -> Objects \cup {NoObject}]
      /\ m.pageout_in_progress \in [Objects -> BOOLEAN]
  BY DEF Memories, NoSpace
<1>5. /\ g \in EntryMaps /\ DOMAIN g = DOMAIN InitEntry
      /\ g[x].object = s /\ \A y \in DOMAIN e \ {x} : g[y] = e[y]
  BY DEF EntryMaps
<1>6. /\ n \in Memories /\ SamePages(m, n)
      /\ n.live = [m.live EXCEPT ![s] = TRUE]
      /\ n.ref_count = [m.ref_count EXCEPT ![s] = 1]
      /\ n.shadow = [m.shadow EXCEPT ![s] = o]
      /\ n.space = [m.space EXCEPT ![s] = NoSpace]
      /\ n.pageout_in_progress = [m.pageout_in_progress EXCEPT ![s] = FALSE]
  BY <1>2 DEF Memories, MakeShadow, SamePages, NoSpace
<1> HIDE DEF n, g
<1>7. /\ n.live[s] /\ n.ref_count[s] = 1 /\ n.shadow[s] = o
      /\ \A y \in Objects \ {s} :
           /\ n.live[y] = m.live[y] /\ n.ref_count[y] = m.ref_count[y]
           /\ n.shadow[y] = m.shadow[y] /\ n.space[y] = m.space[y]
           /\ n.pageout_in_progress[y] = m.pageout_in_progress[y]
      /\ n.space[s] = NoSpace
  BY <1>4, <1>6
<1>8. /\ m.ref_count[s] = 0
      /\ \A z \in Objects : m.live[z] => m.shadow[z] # s
  <2>1. ~(m.ref_count[s] > 0) /\ m.ref_count[s] \in Nat
    BY <1>1, <1>4 DEF Counted
  <2>2. \A z \in Objects : m.live[z] => m.shadow[z] # s
    BY <1>1, <1>2, ReferredLive
  <2> QED
    BY <2>1, <2>2
<1>9. ASSUME NEW y \in Objects
      PROVE  n.ref_count[y] = Cardinality(Entries(g, y)) + Cardinality(Shadows(n, y))
                                + Cardinality(Faults(first, y))
  <2>1. /\ IsFiniteSet(Entries(e, y)) /\ IsFiniteSet(Shadows(m, y))
        /\ Cardinality(Entries(e, y)) \in Nat /\ Cardinality(Shadows(m, y)) \in Nat
        /\ Cardinality(Faults(first, y)) \in Nat
        /\ m.ref_count[y] = Cardinality(Entries(e, y)) + Cardinality(Shadows(m, y))
                             + Cardinality(Faults(first, y))
    BY <1>1, <1>2, CountsFinite, ReferredLive
  <2>2. CASE y = s
    <3>1. /\ Cardinality(Entries(e, s)) = 0 /\ Cardinality(Shadows(m, s)) = 0
          /\ Cardinality(Faults(first, s)) = 0
      BY <1>8, <2>1, <2>2
    <3>2. Entries(e, s) = {} /\ Shadows(m, s) = {}
      BY <2>1, <2>2, <3>1, FS_EmptySet
    <3>3. Entries(g, s) = {x}
      BY <1>2, <1>5, <3>2 DEF Entries
    <3>4. Shadows(n, s) = {}
      BY <1>3, <1>7, <3>2 DEF Shadows
    <3>5. Cardinality(Entries(g, s)) = 1 /\ Cardinality(Shadows(n, s)) = 0
      BY <3>3, <3>4, FS_Singleton, FS_EmptySet
    <3> QED
      BY <1>7, <2>2, <3>1, <3>5
  <2>3. CASE y = o
    <3>1. Entries(g, y) = Entries(e, y) \ {x} /\ x \in Entries(e, y)
      BY <1>2, <1>3, <1>5, <2>3 DEF Entries
    <3>2. Shadows(n, y) = Shadows(m, y) \cup {s} /\ s \notin Shadows(m, y)
      BY <1>3, <1>7, <2>3 DEF Shadows
    <3>3. Cardinality(Entries(g, y)) = Cardinality(Entries(e, y)) - 1
      BY <2>1, <3>1, FS_RemoveElement
    <3>4. Cardinality(Shadows(n, y)) = Cardinality(Shadows(m, y)) + 1
      BY <2>1, <3>2, FS_AddElement
    <3> QED
      BY <1>3, <1>7, <2>1, <2>3, <3>3, <3>4
  <2>4. CASE y # s /\ y # o
    <3>1. Entries(g, y) = Entries(e, y)
      BY <1>2, <1>5, <2>4 DEF Entries
    <3>2. Shadows(n, y) = Shadows(m, y)
      BY <1>7, <2>4 DEF Shadows
    <3> QED
      BY <1>7, <2>1, <2>4, <3>1, <3>2
  <2> QED
    BY <2>2, <2>3, <2>4
<1>10. ASSUME NEW y \in Objects
       PROVE  /\ n.ref_count[y] > 0 => n.live[y]
              /\ ~n.live[y] => PagesOf(n, y) = {} /\ n.space[y] = NoSpace
  <2>1. CASE y = s
    BY <1>7, <2>1
  <2>2. CASE y # s
    <3>1. PagesOf(n, y) = PagesOf(m, y)
      BY <1>6 DEF SamePages, PagesOf
    <3> QED
      BY <1>1, <1>7, <2>2, <3>1 DEF Counted
  <2> QED
    BY <2>1, <2>2
<1>11. Counted(n, g, first)
  BY <1>9, <1>10 DEF Counted, Entries, Shadows, Faults
<1>12. Acyclic(n)
  <2>1. SUFFICES ASSUME NEW S, S # {}, \A y \in S : y \in Objects /\ n.live[y]
                 PROVE  \E y \in S : n.shadow[y] \notin S
    BY AcyclicFrom
  <2>2. \A y \in S \ {s} : y \in Objects /\ m.live[y]
    BY <1>7, <2>1
  <2>3. CASE S \ {s} = {}
    <3>1. S = {s}
      BY <2>1, <2>3
    <3> QED
      BY <1>3, <1>7, <3>1
  <2>4. CASE S \ {s} # {}
    <3>1. PICK z \in S \ {s} : m.shadow[z] \notin S \ {s}
      BY <1>1, <2>2, <2>4, AcyclicOf
    <3> QED
      BY <1>7, <1>8, <2>2, <3>1
  <2> QED
    BY <2>3, <2>4
<1>13. ASSUME NEW y \in Objects, m.live[y]
       PROVE  /\ n.pageout_in_progress[y] = m.pageout_in_progress[y]
              /\ n.space[y] = m.space[y]
  BY <1>7, <1>13
<1> QED
  BY <1>5, <1>6, <1>7, <1>10, <1>11, <1>12, <1>13 DEF n, g, ObjectsOK

(* vm_object_terminate of an object nobody refers to.                      *)
LEMMA TerminatedDoes ==
  ASSUME NEW m \in Memories, Queued(m), NEW e, DOMAIN e = DOMAIN InitEntry, NEW first,
         ObjectsOK(m, e, first), NEW o \in Objects, m.live[o], m.ref_count[o] = 0
  PROVE  LET n == Terminated(m, o) IN
         /\ n \in Memories /\ Queued(n) /\ ObjectsOK(n, e, first)
         /\ n.offset = m.offset /\ n.mapped = m.mapped
         /\ n.pageout_in_progress = m.pageout_in_progress
         /\ n.space = [m.space EXCEPT ![o] = NoSpace]
         /\ \A p \in Pages : m.object[p] = o => n.object[p] = NoObject
         /\ \A p \in Pages : m.object[p] # o => Keeps(m, n, p) /\ n.object[p] = m.object[p]
<1> DEFINE P == PagesOf(m, o)
           f == FreePages(m, P)
           c == m.shadow[o]
           n == Terminated(m, o)
           g == [x \in Objects |-> m.ref_count[x] - (IF x = c THEN 1 ELSE 0)]
<1>1. Counted(m, e, first) /\ Acyclic(m) /\ \A y \in Objects : ~m.live[y] => m.space[y] = NoSpace
  BY DEF ObjectsOK
<1>2. P \in SUBSET Pages /\ \A p \in Pages : p \in P <=> m.object[p] = o
  BY DEF PagesOf
<1> HIDE DEF P
<1>3. /\ f \in Memories /\ (Queued(m) => Queued(f))
      /\ f.object = [p \in Pages |-> IF p \in P THEN NoObject ELSE m.object[p]]
      /\ f.busy = [p \in Pages |-> m.busy[p] /\ p \notin P]
      /\ f.active = [p \in Pages |-> m.active[p] /\ p \notin P]
      /\ f.reclaimable = [p \in Pages |-> m.reclaimable[p] /\ p \notin P]
      /\ f.offset = m.offset
      /\ f.mapped = m.mapped /\ SameObjects(m, f)
  BY <1>2, FreePagesDoes
<1>4. n = [f EXCEPT !.live[o] = FALSE, !.space[o] = NoSpace,
                    !.ref_count = [x \in Objects |-> @[x] - (IF x = c THEN 1 ELSE 0)]]
  BY DEF Terminated, P
<1>5. /\ m.live \in [Objects -> BOOLEAN] /\ m.ref_count \in [Objects -> Nat]
      /\ m.shadow \in [Objects -> Objects \cup {NoObject}]
      /\ m.space \in [Objects -> Objects \cup {NoObject}]
  BY DEF Memories, NoSpace
<1>6. c # o /\ (c \in Objects => m.ref_count[c] >= 1 /\ m.live[c])
  <2>1. c \in Objects => o \in Shadows(m, c)
    BY DEF Shadows
  <2>2. c \in Objects => m.ref_count[c] >= 1 /\ m.live[c]
    BY <1>1, <2>1, ReferredLive
  <2> QED
    BY <1>1, <2>2, NoShortCycle
<1>7. g \in [Objects -> Nat]
  <2>1. ASSUME NEW x \in Objects PROVE g[x] \in Nat
    BY <1>5, <1>6
  <2> QED
    BY <2>1
<1>8. n = [f EXCEPT !.live[o] = FALSE, !.space[o] = NoSpace, !.ref_count = g]
  BY <1>3, <1>4 DEF SameObjects
<1> HIDE DEF n, f
<1>9. /\ \A x \in Objects : x # c => g[x] = m.ref_count[x]
      /\ c \in Objects => g[c] = m.ref_count[c] - 1
  BY <1>5
<1> HIDE DEF g
<1>10. /\ n \in Memories
       /\ n.object = f.object /\ n.offset = f.offset /\ n.busy = f.busy
       /\ n.active = f.active /\ n.reclaimable = f.reclaimable /\ n.mapped = f.mapped
       /\ n.activeq = f.activeq /\ n.reclaimq = f.reclaimq
       /\ n.live = [m.live EXCEPT ![o] = FALSE] /\ n.ref_count = g
       /\ n.shadow = m.shadow /\ n.space = [m.space EXCEPT ![o] = NoSpace]
       /\ n.pageout_in_progress = m.pageout_in_progress
  BY <1>3, <1>7, <1>8 DEF Memories, NoSpace, SameObjects
<1>11. Queued(n)
  BY <1>3, <1>10, SamePagesQueued
<1>12. ASSUME NEW p \in Pages
       PROVE  /\ m.object[p] = o => n.object[p] = NoObject
              /\ m.object[p] # o => Keeps(m, n, p) /\ n.object[p] = m.object[p]
  <2>1. CASE m.object[p] = o
    BY <1>2, <1>3, <1>10, <2>1
  <2>2. CASE m.object[p] # o
    <3>1. m.busy[p] \in BOOLEAN /\ m.active[p] \in BOOLEAN /\ m.reclaimable[p] \in BOOLEAN
      BY DEF Memories
    <3>2. n.object[p] = m.object[p]
      BY <1>2, <1>3, <1>10, <2>2
    <3>3. n.busy[p] = m.busy[p] /\ n.active[p] = m.active[p] /\ n.reclaimable[p] = m.reclaimable[p]
      BY <1>2, <1>3, <1>10, <2>2, <3>1
    <3> QED
      BY <1>3, <1>10, <2>2, <3>2, <3>3 DEF Keeps, Free
  <2> QED
    BY <2>1, <2>2
<1>13. /\ \A x \in Objects : n.live[x] <=> m.live[x] /\ x # o
       /\ n.space[o] = NoSpace /\ \A x \in Objects \ {o} : n.space[x] = m.space[x]
  BY <1>5, <1>10
<1>14. ASSUME NEW y \in Objects
       PROVE  n.ref_count[y] = Cardinality(Entries(e, y)) + Cardinality(Shadows(n, y))
                                 + Cardinality(Faults(first, y))
  <2>1. /\ IsFiniteSet(Shadows(m, y))
        /\ Cardinality(Entries(e, y)) \in Nat /\ Cardinality(Shadows(m, y)) \in Nat
        /\ Cardinality(Faults(first, y)) \in Nat
        /\ m.ref_count[y] = Cardinality(Entries(e, y)) + Cardinality(Shadows(m, y))
                             + Cardinality(Faults(first, y))
    BY <1>1, CountsFinite, ReferredLive
  <2>2. CASE y = c
    <3>1. Shadows(n, y) = Shadows(m, y) \ {o} /\ o \in Shadows(m, y)
      BY <1>10, <1>13, <2>2 DEF Shadows
    <3>2. Cardinality(Shadows(n, y)) = Cardinality(Shadows(m, y)) - 1
      <4> DEFINE D == Shadows(m, y)
      <4>1. IsFiniteSet(D) /\ o \in D /\ Shadows(n, y) = D \ {o}
        BY <2>1, <3>1
      <4> HIDE DEF D
      <4>2. Cardinality(D \ {o}) = Cardinality(D) - 1
        BY <4>1, FS_RemoveElement
      <4> QED
        BY <4>1, <4>2 DEF D
    <3>3. n.ref_count[y] = m.ref_count[y] - 1
      BY <1>9, <1>10, <2>2
    <3> QED
      BY <2>1, <3>2, <3>3
  <2>3. CASE y # c
    <3>1. Shadows(n, y) = Shadows(m, y)
      BY <1>10, <1>13, <2>3 DEF Shadows
    <3> QED
      BY <1>9, <1>10, <2>1, <2>3, <3>1
  <2> QED
    BY <2>2, <2>3
<1>15. ASSUME NEW y \in Objects
       PROVE  /\ n.ref_count[y] > 0 => n.live[y]
              /\ ~n.live[y] => PagesOf(n, y) = {} /\ n.space[y] = NoSpace
  <2>1. n.ref_count[y] > 0 => n.live[y]
    <3>1. n.ref_count[y] > 0 => m.ref_count[y] > 0
      <4>1. CASE y = c
        <5>1. y \in Objects /\ m.ref_count[y] >= 1 /\ m.ref_count[y] \in Nat
          BY <1>5, <1>6, <4>1
        <5> QED
          BY <5>1
      <4>2. CASE y # c
        BY <1>9, <1>10, <4>2
      <4> QED
        BY <4>1, <4>2
    <3>2. m.ref_count[y] > 0 => m.live[y] /\ y # o
      <4>1. m.ref_count[y] > 0 => m.live[y]
        BY <1>1 DEF Counted
      <4>2. ~(m.ref_count[o] > 0)
        OBVIOUS
      <4> QED
        BY <4>1, <4>2
    <3> QED
      BY <1>13, <3>1, <3>2
  <2>2. ASSUME ~n.live[y] PROVE PagesOf(n, y) = {} /\ n.space[y] = NoSpace
    <3>1. CASE y = o
      <4>1. \A p \in Pages : n.object[p] # o
        BY <1>12, VMPageAssumption
      <4> QED
        BY <1>13, <3>1, <4>1 DEF PagesOf
    <3>2. CASE y # o
      <4>1. ~m.live[y]
        BY <1>13, <2>2, <3>2
      <4>2. \A p \in Pages : m.object[p] # y
        BY <1>1, <4>1 DEF Counted, PagesOf
      <4>3. \A p \in Pages : n.object[p] \in {m.object[p], NoObject} /\ y # NoObject
        BY <1>12, VMPageAssumption
      <4> QED
        BY <1>1, <1>13, <3>2, <4>1, <4>2, <4>3 DEF PagesOf
    <3> QED
      BY <3>1, <3>2
  <2> QED
    BY <2>1, <2>2
<1>16. Acyclic(n)
  <2>1. SUFFICES ASSUME NEW S, S # {}, \A y \in S : y \in Objects /\ n.live[y]
                 PROVE  \E y \in S : n.shadow[y] \notin S
    BY AcyclicFrom
  <2>2. \A y \in S : y \in Objects /\ m.live[y]
    BY <1>13, <2>1
  <2> QED
    BY <1>1, <1>10, <2>1, <2>2, AcyclicOf
<1>17. Counted(n, e, first)
  BY <1>14, <1>15 DEF Counted, Entries, Shadows, Faults
<1>18. ObjectsOK(n, e, first)
  BY <1>15, <1>16, <1>17 DEF ObjectsOK
<1>19. n.offset = m.offset /\ n.mapped = m.mapped
  BY <1>3, <1>10
<1> QED
  BY <1>10, <1>11, <1>12, <1>18, <1>19 DEF n

(* The pages of other objects stay.                                        *)
LEMMA TerminatedSpares ==
  ASSUME NEW m \in Memories, NEW o \in Objects, NEW p \in Pages, m.object[p] # o
  PROVE  Keeps(m, Terminated(m, o), p) /\ Terminated(m, o).object[p] = m.object[p]
<1> DEFINE P == PagesOf(m, o)
           f == FreePages(m, P)
           n == Terminated(m, o)
<1>1. P \in SUBSET Pages /\ p \notin P
  BY DEF PagesOf
<1>2. /\ n.object = f.object /\ n.offset = f.offset /\ n.busy = f.busy
      /\ n.active = f.active /\ n.reclaimable = f.reclaimable
  BY DEF Terminated
<1> HIDE DEF P, n
<1>3. /\ f.object = [q \in Pages |-> IF q \in P THEN NoObject ELSE m.object[q]]
      /\ f.busy = [q \in Pages |-> m.busy[q] /\ q \notin P]
      /\ f.active = [q \in Pages |-> m.active[q] /\ q \notin P]
      /\ f.reclaimable = [q \in Pages |-> m.reclaimable[q] /\ q \notin P]
      /\ f.offset = m.offset
  BY <1>1, FreePagesDoes
<1> HIDE DEF f
<1>4. m.busy[p] \in BOOLEAN /\ m.active[p] \in BOOLEAN /\ m.reclaimable[p] \in BOOLEAN
  BY DEF Memories
<1>5. n.object[p] = m.object[p]
  BY <1>1, <1>2, <1>3
<1>6. n.busy[p] = m.busy[p] /\ n.active[p] = m.active[p] /\ n.reclaimable[p] = m.reclaimable[p]
  BY <1>1, <1>2, <1>3, <1>4
<1>7. Keeps(m, n, p)
  BY <1>2, <1>3, <1>5, <1>6 DEF Keeps, Free
<1> QED
  BY <1>5, <1>7 DEF n

(***************************************************************************)
(* The steps of a fault.                                                   *)
(***************************************************************************)

(* A thread takes a step, alone or with a wakeup of those who wait for a   *)
(* page; whose reference changes.                                          *)
LEMMA MovedAlone ==
  ASSUME NEW h \in [Threads -> ThreadRecords], NEW t \in Threads, NEW r \in ThreadRecords,
         NEW h2, h2 = [h EXCEPT ![t] = r]
  PROVE  Moved(h, t, r, h2)
BY DEF Moved

(* A sleeper that is woken looks the map up again.                         *)
LEMMA WokenIs ==
  ASSUME NEW g \in ThreadRecords, g.pc \in {"sleep_page", "sleep_free"}
  PROVE  [g EXCEPT !.pc = "lookup"] \in ThreadRecords /\ Woken(g, [g EXCEPT !.pc = "lookup"])
BY DEF ThreadRecords, Woken

(* A step of one thread that wakes the waiters of a page moves the         *)
(* threads.                                                                *)
LEMMA MovedWaking ==
  ASSUME NEW h \in [Threads -> ThreadRecords], NEW t \in Threads, NEW r \in ThreadRecords,
         NEW c, NEW h2,
         h2 = [[u \in Threads |-> IF h[u].pc = "sleep_page" /\ h[u].page = c
                                    THEN [h[u] EXCEPT !.pc = "lookup"] ELSE h[u]]
                 EXCEPT ![t] = r]
  PROVE  Moved(h, t, r, h2)
<1> DEFINE g == [u \in Threads |-> IF h[u].pc = "sleep_page" /\ h[u].page = c
                                     THEN [h[u] EXCEPT !.pc = "lookup"] ELSE h[u]]
<1>1. ASSUME NEW u \in Threads
      PROVE  g[u] \in ThreadRecords /\ (g[u] = h[u] \/ Woken(h[u], g[u]))
  <2>1. h[u] \in ThreadRecords
    OBVIOUS
  <2> QED
    BY <2>1, WokenIs
<1>2. DOMAIN g = Threads /\ h2 = [g EXCEPT ![t] = r]
  OBVIOUS
<1> HIDE DEF g
<1>3. h2 \in [Threads -> ThreadRecords] /\ h2[t] = r /\ \A u \in Threads \ {t} : h2[u] = g[u]
  <2>1. g \in [Threads -> ThreadRecords]
    <3>1. g = [u \in Threads |-> g[u]]
      BY DEF g
    <3> QED
      BY <1>1, <3>1
  <2> QED
    BY <1>2, <2>1
<1> QED
  BY <1>1, <1>3 DEF Moved

(* What the step of one thread does to the objects faults refer to.        *)
LEMMA FirstMoved ==
  ASSUME NEW h \in [Threads -> ThreadRecords], NEW t \in Threads, NEW r, NEW h2,
         Moved(h, t, r, h2)
  PROVE  /\ First(h2) = [First(h) EXCEPT ![t] = r.first]
         /\ r.first = h[t].first => First(h2) = First(h)
<1>1. \A u \in Threads \ {t} : h2[u].first = h[u].first
  BY DEF Moved, Woken
<1>2. h2[t].first = r.first
  BY DEF Moved
<1> QED
  BY <1>1, <1>2 DEF First

(* The part of the invariant a thread sees.                                *)
LEMMA ThreadNow ==
  ASSUME IInv, NEW t \in Threads
  PROVE  /\ mem \in Memories /\ entry \in EntryMaps /\ DOMAIN entry = DOMAIN InitEntry
         /\ th \in [Threads -> ThreadRecords] /\ th[t] \in ThreadRecords
         /\ dm \in DaemonRecords /\ Queued(mem) /\ ThreadOK(mem, th[t])
         /\ lock \in Threads \cup {Daemon, NoOne}
         /\ lock = t <=> th[t].pc \in Locking
         /\ th[t].pc \in Holds =>
              \A u \in Threads \ {t} : th[u].pc \in Holds => th[u].page # th[t].page
         /\ ObjectsOK(mem, entry, First(th))
         /\ First(th)[t] = th[t].first /\ DOMAIN First(th) = Threads
         /\ th[t].first \in Objects => mem.live[th[t].first]
<1>1. /\ mem \in Memories /\ entry \in EntryMaps /\ DOMAIN entry = DOMAIN InitEntry
      /\ th \in [Threads -> ThreadRecords] /\ dm \in DaemonRecords /\ Queued(mem)
      /\ ThreadsOK(mem, th) /\ LocksOK(lock, th, dm) /\ ObjectsOK(mem, entry, First(th))
      /\ lock \in Threads \cup {Daemon, NoOne}
  BY DEF IInv, Sound, EntryMaps
<1>2. /\ ThreadOK(mem, th[t])
      /\ lock = t <=> th[t].pc \in Locking
      /\ th[t].pc \in Holds =>
              \A u \in Threads \ {t} : th[u].pc \in Holds => th[u].page # th[t].page
  BY <1>1 DEF ThreadsOK, LocksOK
<1>3. First(th)[t] = th[t].first /\ DOMAIN First(th) = Threads
  BY DEF First
<1>4. th[t].first \in Objects => mem.live[th[t].first]
  BY <1>1, <1>3, ReferredLive DEF ObjectsOK
<1> QED
  BY <1>1, <1>2, <1>3, <1>4

(* A wakeup of the daemon either finds it asleep or does nothing.          *)
LEMMA WakeIs ==
  ASSUME dm \in DaemonRecords, WakeDaemon \/ dm' = dm
  PROVE  Poked(dm, dm')
BY DEF WakeDaemon, Poked, DaemonRecords

(* A step of a thread that leaves the memory alone.                        *)
LEMMA QuietAction ==
  ASSUME NEW m, NEW e, NEW l, NEW h, NEW d, Sound(m, e, l, h, d),
         NEW l2, NEW h2, NEW d2, NEW t \in Threads, NEW r,
         Moved(h, t, r, h2), Locked(l, l2, t, r), Poked(d, d2), r.first = h[t].first,
         ThreadOK(m, r),
         r.pc \in Holds => \A u \in Threads \ {t} : h[u].pc \in Holds => h[u].page # r.page
  PROVE  Sound(m, e, l2, h2, d2)
<1>1. /\ m \in Memories /\ e \in EntryMaps /\ h \in [Threads -> ThreadRecords]
      /\ Queued(m) /\ ObjectsOK(m, e, First(h)) /\ DaemonOK(m, d)
  BY DEF Sound
<1>2. Spared(m, m, h, t, d)
  BY <1>1 DEF Spared, Keeps, DaemonOK
<1>3. ObjectsOK(m, e, First(h2))
  BY <1>1, FirstMoved
<1> QED
  BY <1>1, <1>2, <1>3, ThreadAction

-----------------------------------------------------------------------------

(* A new fault keeps the invariant.                                        *)
LEMMA FaultKeeps ==
  ASSUME IInv, NEW t \in Threads, NEW f \in Offsets, NEW w \in BOOLEAN, Fault(t, f, w)
  PROVE  IInv'
<1> DEFINE r == [th[t] EXCEPT !.pc = "lookup", !.offset = f, !.write = w]
<1>1. /\ th \in [Threads -> ThreadRecords] /\ th[t] \in ThreadRecords
      /\ ThreadOK(mem, th[t]) /\ (lock = t <=> th[t].pc \in Locking)
      /\ stored \in [Objects -> SUBSET Offsets]
  BY ThreadNow DEF IInv
<1>2. r \in ThreadRecords /\ r.pc = "lookup" /\ r.first = th[t].first
  BY <1>1 DEF ThreadRecords
<1>3. th' = [th EXCEPT ![t] = r] /\ th[t].pc = "idle"
  BY DEF Fault, Step
<1> HIDE DEF r
<1>4. Moved(th, t, r, th')
  BY <1>1, <1>2, <1>3, MovedAlone
<1>5. ThreadOK(mem, r) /\ r.pc \notin Holds
  BY <1>1, <1>2, <1>3 DEF ThreadOK, Holds, Works, Outside
<1>6. Locked(lock, lock, t, r) /\ Poked(dm, dm)
  BY <1>1, <1>2, <1>3 DEF Locked, Locking, Poked
<1>7. Sound(mem, entry, lock, th', dm)
  BY <1>2, <1>4, <1>5, <1>6, QuietAction DEF IInv
<1> QED
  BY <1>1, <1>7 DEF IInv, Fault

(* The start of the search, at the first object, keeps the invariant.      *)
LEMMA EnterKeeps ==
  ASSUME IInv, NEW t \in Threads, Enter(t)
  PROVE  IInv'
<1> DEFINE r == [th[t] EXCEPT !.pc = "search"]
<1>1. /\ th \in [Threads -> ThreadRecords] /\ th[t] \in ThreadRecords
      /\ ThreadOK(mem, th[t]) /\ (lock = t <=> th[t].pc \in Locking)
      /\ stored \in [Objects -> SUBSET Offsets]
  BY ThreadNow DEF IInv
<1>2. r \in ThreadRecords /\ r.pc = "search" /\ r.first = th[t].first
  BY <1>1 DEF ThreadRecords
<1>3. th' = [th EXCEPT ![t] = r] /\ th[t].pc = "enter" /\ lock = NoOne /\ lock' = t
  BY DEF Enter, Step
<1> HIDE DEF r
<1>4. Moved(th, t, r, th')
  BY <1>1, <1>2, <1>3, MovedAlone
<1>5. ThreadOK(mem, r) /\ r.pc \notin Holds
  BY <1>1, <1>2, <1>3 DEF ThreadOK, Holds, Works, Outside
<1>6. Locked(lock, lock', t, r) /\ Poked(dm, dm)
  BY <1>1, <1>2, <1>3 DEF Locked, Locking, Poked
<1>7. Sound(mem, entry, lock', th', dm)
  BY <1>2, <1>4, <1>5, <1>6, QuietAction DEF IInv
<1> QED
  BY <1>1, <1>7 DEF IInv, Enter

(* Going to sleep for a busy page keeps the invariant.                     *)
LEMMA AwaitKeeps ==
  ASSUME IInv, NEW t \in Threads, Await(t)
  PROVE  IInv'
<1> DEFINE r == [th[t] EXCEPT !.pc = IF mem.busy[th[t].page] THEN "sleep_page" ELSE "lookup"]
<1>1. /\ th \in [Threads -> ThreadRecords] /\ th[t] \in ThreadRecords
      /\ ThreadOK(mem, th[t]) /\ (lock = t <=> th[t].pc \in Locking)
      /\ stored \in [Objects -> SUBSET Offsets]
  BY ThreadNow DEF IInv
<1>2. r \in ThreadRecords /\ r.pc \in {"sleep_page", "lookup"} /\ r.first = th[t].first
  BY <1>1 DEF ThreadRecords
<1>3. th' = [th EXCEPT ![t] = r] /\ th[t].pc = "await"
  BY DEF Await, Step
<1> HIDE DEF r
<1>4. Moved(th, t, r, th')
  BY <1>1, <1>2, <1>3, MovedAlone
<1>5. ThreadOK(mem, r) /\ r.pc \notin Holds
  BY <1>1, <1>2, <1>3 DEF ThreadOK, Holds, Works, Outside
<1>6. Locked(lock, lock, t, r) /\ Poked(dm, dm)
  BY <1>1, <1>2, <1>3 DEF Locked, Locking, Poked
<1>7. Sound(mem, entry, lock, th', dm)
  BY <1>2, <1>4, <1>5, <1>6, QuietAction DEF IInv
<1> QED
  BY <1>1, <1>7 DEF IInv, Await

(* Going to sleep for memory keeps the invariant.                          *)
LEMMA AwaitMemoryKeeps ==
  ASSUME IInv, NEW t \in Threads, AwaitMemory(t)
  PROVE  IInv'
<1> DEFINE r == [th[t] EXCEPT !.pc = "sleep_free"]
<1>1. /\ th \in [Threads -> ThreadRecords] /\ th[t] \in ThreadRecords /\ dm \in DaemonRecords
      /\ ThreadOK(mem, th[t]) /\ (lock = t <=> th[t].pc \in Locking)
      /\ stored \in [Objects -> SUBSET Offsets]
  BY ThreadNow DEF IInv
<1>2. r \in ThreadRecords /\ r.pc = "sleep_free" /\ r.first = th[t].first
  BY <1>1 DEF ThreadRecords
<1>3. th' = [th EXCEPT ![t] = r] /\ th[t].pc = "short"
  BY DEF AwaitMemory, Step
<1> HIDE DEF r
<1>4. Moved(th, t, r, th')
  BY <1>1, <1>2, <1>3, MovedAlone
<1>5. ThreadOK(mem, r) /\ r.pc \notin Holds
  BY <1>1, <1>2, <1>3 DEF ThreadOK, Holds, Works, Outside
<1>6. Locked(lock, lock, t, r) /\ Poked(dm, dm')
  BY <1>1, <1>2, <1>3, WakeIs DEF Locked, Locking, AwaitMemory
<1>7. Sound(mem, entry, lock, th', dm')
  BY <1>2, <1>4, <1>5, <1>6, QuietAction DEF IInv
<1> QED
  BY <1>1, <1>7 DEF IInv, AwaitMemory

(* The walk to the next object of the chain keeps the invariant.           *)
LEMMA MoveOnKeeps ==
  ASSUME IInv, NEW t \in Threads, MoveOn(t)
  PROVE  IInv'
<1> DEFINE r == [th[t] EXCEPT !.object = mem.shadow[th[t].object]]
<1>1. /\ th \in [Threads -> ThreadRecords] /\ th[t] \in ThreadRecords /\ mem \in Memories
      /\ ThreadOK(mem, th[t]) /\ (lock = t <=> th[t].pc \in Locking)
      /\ stored \in [Objects -> SUBSET Offsets]
  BY ThreadNow DEF IInv
<1>2. th[t].pc = "search" /\ th[t].object # NoObject
  BY DEF MoveOn, Searching
<1>3. mem.shadow[th[t].object] \in Objects \cup {NoObject}
  <2>1. th[t].object \in Objects /\ mem.shadow \in [Objects -> Objects \cup {NoObject}]
    BY <1>1, <1>2 DEF ThreadRecords, Memories
  <2> QED
    BY <2>1
<1>4. r \in ThreadRecords /\ r.pc = "search" /\ r.first = th[t].first
  BY <1>1, <1>2, <1>3 DEF ThreadRecords
<1>5. th' = [th EXCEPT ![t] = r]
  BY DEF MoveOn, Step
<1> HIDE DEF r
<1>6. Moved(th, t, r, th')
  BY <1>1, <1>4, <1>5, MovedAlone
<1>7. ThreadOK(mem, r) /\ r.pc \notin Holds
  BY <1>1, <1>2, <1>4 DEF ThreadOK, Holds, Works, Outside
<1>8. Locked(lock, lock, t, r) /\ Poked(dm, dm)
  BY <1>1, <1>2, <1>4 DEF Locked, Poked
<1>9. Sound(mem, entry, lock, th', dm)
  BY <1>4, <1>6, <1>7, <1>8, QuietAction DEF IInv
<1> QED
  BY <1>1, <1>9 DEF IInv, MoveOn

(* The page a search sees is the one of its object and offset.             *)
LEMMA SeenIs ==
  ASSUME NEW t \in Threads, Seen(t) # NoPage
  PROVE  /\ th[t].object # NoObject
         /\ Seen(t) \in Pages /\ mem.object[Seen(t)] = th[t].object
         /\ mem.offset[Seen(t)] = th[t].offset
<1>1. /\ th[t].object # NoObject
      /\ Resident(mem, th[t].object, th[t].offset) # {}
      /\ Seen(t) = CHOOSE p \in Resident(mem, th[t].object, th[t].offset) : TRUE
  BY DEF Seen, Lookup
<1>2. Seen(t) \in Resident(mem, th[t].object, th[t].offset)
  BY <1>1
<1> QED
  BY <1>1, <1>2 DEF Resident

(* Finding a page that is not busy keeps the invariant.                    *)
LEMMA FindKeeps ==
  ASSUME IInv, NEW t \in Threads, Find(t)
  PROVE  IInv'
<1> DEFINE p == Seen(t)
           r == [th[t] EXCEPT !.pc = "found", !.page = p]
<1>1. /\ th \in [Threads -> ThreadRecords] /\ th[t] \in ThreadRecords /\ mem \in Memories
      /\ ThreadOK(mem, th[t]) /\ (lock = t <=> th[t].pc \in Locking)
      /\ stored \in [Objects -> SUBSET Offsets]
  BY ThreadNow DEF IInv
<1>2. th[t].pc = "search" /\ lock = t /\ p # NoPage /\ ~mem.busy[p]
  BY DEF Find, Searching
<1>3. p \in Pages /\ p \notin Free(mem) /\ mem.offset[p] = th[t].offset
  BY <1>2, SeenIs DEF Free
<1>4. /\ r \in ThreadRecords /\ r.pc = "found" /\ r.first = th[t].first
      /\ r.page = p /\ r.offset = th[t].offset
  BY <1>1, <1>2, <1>3 DEF ThreadRecords
<1>5. th' = [th EXCEPT ![t] = r]
  BY DEF Find, Step
<1> HIDE DEF r, p
<1>6. Moved(th, t, r, th')
  BY <1>1, <1>4, <1>5, MovedAlone
<1>7. ThreadOK(mem, r)
  BY <1>1, <1>2, <1>3, <1>4 DEF ThreadOK, Works, Outside
<1>8. ASSUME NEW u \in Threads \ {t}, th[u].pc \in Holds PROVE th[u].page # p
  <2>1. ThreadOK(mem, th[u]) /\ (lock = u <=> th[u].pc \in Locking)
    BY ThreadNow
  <2>2. th[u].pc \in Works
    BY <1>2, <1>8, <2>1 DEF Holds, Locking
  <2> QED
    BY <1>2, <1>8, <2>1, <2>2 DEF ThreadOK
<1>9. Locked(lock, lock, t, r) /\ Poked(dm, dm)
  BY <1>1, <1>2, <1>4 DEF Locked, Locking, Poked
<1>10. Sound(mem, entry, lock, th', dm)
  BY <1>4, <1>6, <1>7, <1>8, <1>9, QuietAction DEF IInv
<1> QED
  BY <1>1, <1>10 DEF IInv, Find

(* The call of the pager keeps the invariant.                              *)
LEMMA PagerGetKeeps ==
  ASSUME IInv, NEW t \in Threads, PagerGet(t)
  PROVE  IInv'
<1> PICK there \in BOOLEAN :
      th' = [th EXCEPT ![t] = [th[t] EXCEPT !.pc = IF there THEN "got" ELSE "not_there"]]
  BY DEF PagerGet, Step
<1> DEFINE r == [th[t] EXCEPT !.pc = IF there THEN "got" ELSE "not_there"]
<1>1. /\ th \in [Threads -> ThreadRecords] /\ th[t] \in ThreadRecords
      /\ ThreadOK(mem, th[t]) /\ (lock = t <=> th[t].pc \in Locking)
      /\ th[t].pc \in Holds =>
           \A u \in Threads \ {t} : th[u].pc \in Holds => th[u].page # th[t].page
      /\ stored \in [Objects -> SUBSET Offsets]
  BY ThreadNow DEF IInv
<1>2. /\ r \in ThreadRecords /\ r.pc \in {"got", "not_there"} /\ r.first = th[t].first
      /\ r.page = th[t].page /\ r.offset = th[t].offset /\ r.object = th[t].object
  BY <1>1 DEF ThreadRecords
<1>3. th' = [th EXCEPT ![t] = r] /\ th[t].pc = "pagein"
  BY DEF PagerGet, Step
<1> HIDE DEF r
<1>4. Moved(th, t, r, th')
  BY <1>1, <1>2, <1>3, MovedAlone
<1>5. ThreadOK(mem, r)
  BY <1>1, <1>2, <1>3 DEF ThreadOK, Holds, Works, Outside
<1>6. \A u \in Threads \ {t} : th[u].pc \in Holds => th[u].page # r.page
  BY <1>1, <1>2, <1>3 DEF Holds, Works
<1>7. Locked(lock, lock, t, r) /\ Poked(dm, dm)
  BY <1>1, <1>2, <1>3 DEF Locked, Locking, Poked
<1>8. Sound(mem, entry, lock, th', dm)
  BY <1>2, <1>4, <1>5, <1>6, <1>7, QuietAction DEF IInv
<1> QED
  BY <1>1, <1>8 DEF IInv, PagerGet

(* vm_map_lookup.                                                          *)
LEMMA LookedUpIs ==
  ASSUME IInv, NEW t \in Threads, NEW r \in LookedUp(t)
  PROVE  /\ r.mem \in Memories /\ SamePages(mem, r.mem) /\ r.entry \in EntryMaps
         /\ DOMAIN r.entry = DOMAIN InitEntry
         /\ ObjectsOK(r.mem, r.entry, First(th))
         /\ r.object \in Objects /\ r.mem.live[r.object] /\ r.prot \in BOOLEAN
         /\ \A y \in Objects : mem.live[y] =>
              r.mem.pageout_in_progress[y] = mem.pageout_in_progress[y]
<1> DEFINE x == EntryOf[MapOf[t]]
           o == entry[x].object
<1>1. /\ mem \in Memories /\ entry \in EntryMaps /\ DOMAIN entry = DOMAIN InitEntry
      /\ ObjectsOK(mem, entry, First(th))
  BY ThreadNow
<1>2. x \in DOMAIN entry
  BY <1>1, VMFaultAssumption
<1>3. o \in Objects /\ entry[x].needs_copy \in BOOLEAN
  BY <1>1, <1>2 DEF EntryMaps
<1>4. mem.live[o]
  BY <1>1, <1>2, <1>3, ReferredLive DEF ObjectsOK
<1>5. CASE ~Copies(t)
  <2>1. r = [entry |-> entry, mem |-> mem, object |-> o, prot |-> ~entry[x].needs_copy]
    BY <1>5 DEF LookedUp
  <2>2. r.entry = entry /\ r.mem = mem /\ r.object = o /\ r.prot \in BOOLEAN
    BY <2>1
  <2> QED
    BY <1>1, <1>3, <1>4, <2>2 DEF SamePages
<1>6. CASE Copies(t)
  <2>1. PICK n \in {y \in Objects : Unlocked(x) /\ ~mem.live[y]} :
          r = [entry |-> [entry EXCEPT ![x] = [object |-> n, needs_copy |-> FALSE]],
               mem |-> MakeShadow(mem, n, o), object |-> n, prot |-> TRUE]
    BY <1>6 DEF LookedUp
  <2>2. n \in Objects /\ ~mem.live[n]
    BY <2>1
  <2>3. /\ r.entry = [entry EXCEPT ![x] = [object |-> n, needs_copy |-> FALSE]]
        /\ r.mem = MakeShadow(mem, n, o) /\ r.object = n /\ r.prot \in BOOLEAN
    BY <2>1
  <2> HIDE DEF x
  <2>4. /\ r.mem \in Memories /\ SamePages(mem, r.mem) /\ r.entry \in EntryMaps
        /\ r.mem.live[n] /\ ObjectsOK(r.mem, r.entry, First(th))
        /\ \A y \in Objects : mem.live[y] =>
             r.mem.pageout_in_progress[y] = mem.pageout_in_progress[y]
    <3> DEFINE n1 == MakeShadow(mem, n, o)
               g1 == [entry EXCEPT ![x] = [object |-> n, needs_copy |-> FALSE]]
    <3>1. /\ n1 \in Memories /\ SamePages(mem, n1) /\ g1 \in EntryMaps /\ n1.live[n]
          /\ \A y \in Objects : mem.live[y] =>
               /\ n1.pageout_in_progress[y] = mem.pageout_in_progress[y]
               /\ n1.space[y] = mem.space[y]
          /\ ObjectsOK(n1, g1, First(th))
      BY ZenonT(60), <1>1, <1>2, <2>2, MakeShadowDoes
    <3>2. r.mem = n1 /\ r.entry = g1
      BY <2>3
    <3> QED
      BY <3>1, <3>2
  <2> QED
    BY <2>2, <2>3, <2>4 DEF EntryMaps
<1> QED
  BY <1>5, <1>6

(* Two steps that leave the pages alone, in a row, do so together.         *)
LEMMA SamePagesTwice ==
  ASSUME NEW m, NEW k, NEW n, SamePages(m, k), SamePages(k, n)
  PROVE  SamePages(m, n)
BY DEF SamePages

(* A step that moves no page.                                              *)
LEMMA SparedSame ==
  ASSUME NEW m, NEW e, NEW l, NEW h, NEW d, Sound(m, e, l, h, d), NEW t \in Threads, NEW n,
         SamePages(m, n),
         \A o \in Objects : m.pageout_in_progress[o] /\ m.live[o] => n.pageout_in_progress[o]
  PROVE  Spared(m, n, h, t, d)
<1>1. \A p \in Pages : Keeps(m, n, p) /\ n.object[p] = m.object[p]
  BY SamePagesKeep
<1>2. /\ {} \in SUBSET Pages
      /\ \A x \in {} : x \in Free(m) \/ (h[t].pc \in Holds /\ x = h[t].page)
      /\ \A p \in Pages \ {} : Keeps(m, n, p) /\ n.object[p] = m.object[p]
  BY <1>1
<1> QED
  BY <1>2, SparedBut

(* The lookup of the map, which may make a shadow, keeps the invariant.    *)
LEMMA LookupMapKeeps ==
  ASSUME IInv, NEW t \in Threads, LookupMap(t)
  PROVE  IInv'
<1>1. /\ th \in [Threads -> ThreadRecords] /\ th[t] \in ThreadRecords /\ mem \in Memories
      /\ ThreadOK(mem, th[t]) /\ (lock = t <=> th[t].pc \in Locking)
      /\ First(th)[t] = th[t].first /\ DOMAIN First(th) = Threads
      /\ Queued(mem)
  BY ThreadNow
<1>2. PICK q \in LookedUp(t) :
        /\ mem' = Reference(q.mem, q.object)
        /\ entry' = q.entry
        /\ Step(t, [th[t] EXCEPT !.pc = "enter", !.first = q.object, !.object = q.object,
                                 !.page = NoPage, !.prot = q.prot, !.locked = TRUE])
  BY DEF LookupMap
<1> DEFINE r == [th[t] EXCEPT !.pc = "enter", !.first = q.object, !.object = q.object,
                              !.page = NoPage, !.prot = q.prot, !.locked = TRUE]
<1>3. th' = [th EXCEPT ![t] = r] /\ th[t].pc = "lookup"
  BY <1>2 DEF LookupMap, Step
<1>4. /\ q.mem \in Memories /\ SamePages(mem, q.mem) /\ q.entry \in EntryMaps
      /\ DOMAIN q.entry = DOMAIN InitEntry
      /\ ObjectsOK(q.mem, q.entry, First(th))
      /\ q.object \in Objects /\ q.mem.live[q.object] /\ q.prot \in BOOLEAN
      /\ \A y \in Objects : mem.live[y] =>
           q.mem.pageout_in_progress[y] = mem.pageout_in_progress[y]
  BY LookedUpIs
<1>5. r \in ThreadRecords /\ r.pc = "enter" /\ r.first = q.object
  BY <1>1, <1>4 DEF ThreadRecords
<1> HIDE DEF r
<1>6. First(th)[t] = NoObject
  BY <1>1, <1>3 DEF ThreadOK, Outside
<1> DEFINE n == Reference(q.mem, q.object)
<1>7. /\ n \in Memories /\ SamePages(q.mem, n)
      /\ n.pageout_in_progress = q.mem.pageout_in_progress
      /\ ObjectsOK(n, q.entry, [First(th) EXCEPT ![t] = q.object])
  <2> DEFINE k == q.mem
             e == q.entry
             f == First(th)
             o == q.object
  <2>1. /\ k \in Memories /\ DOMAIN e = DOMAIN InitEntry /\ DOMAIN f = Threads
        /\ ObjectsOK(k, e, f) /\ f[t] = NoObject /\ o \in Objects /\ k.live[o]
        /\ n = Reference(k, o)
    BY <1>1, <1>4, <1>6
  <2> HIDE DEF k, e, f, o, n
  <2>2. /\ n \in Memories /\ SamePages(k, n)
        /\ n.pageout_in_progress = k.pageout_in_progress
        /\ ObjectsOK(n, e, [f EXCEPT ![t] = o])
    BY <2>1, ReferenceDoes
  <2> QED
    BY <2>2 DEF k, e, f, o
<1> HIDE DEF n
<1>8. Moved(th, t, r, th')
  BY <1>1, <1>3, <1>5, MovedAlone
<1>9. First(th') = [First(th) EXCEPT ![t] = q.object]
  BY <1>1, <1>5, <1>8, FirstMoved
<1>10. SamePages(mem, n) /\ Queued(n)
  BY <1>1, <1>4, <1>7, SamePagesTwice, SamePagesKeep
<1>11. Spared(mem, n, th, t, dm)
  BY <1>4, <1>7, <1>10, SparedSame DEF IInv
<1>12. ThreadOK(n, r) /\ r.pc \notin Holds
  BY <1>4, <1>5, VMPageAssumption DEF ThreadOK, Holds, Works, Outside
<1>13. Locked(lock, lock, t, r) /\ Poked(dm, dm)
  BY <1>1, <1>3, <1>5 DEF Locked, Locking, Poked
<1>14. Sound(n, q.entry, lock, th', dm)
  BY <1>4, <1>7, <1>8, <1>9, <1>10, <1>11, <1>12, <1>13, ThreadAction DEF IInv
<1>15. mem' = n /\ entry' = q.entry /\ lock' = lock /\ dm' = dm /\ stored' = stored
  BY <1>2 DEF LookupMap, n
<1> QED
  BY <1>14, <1>15 DEF IInv

(* The second lookup, after the page is found, keeps the invariant.        *)
LEMMA LookupAgainKeeps ==
  ASSUME IInv, NEW t \in Threads, LookupAgain(t)
  PROVE  IInv'
<1>1. /\ th \in [Threads -> ThreadRecords] /\ th[t] \in ThreadRecords /\ mem \in Memories
      /\ ThreadOK(mem, th[t]) /\ (lock = t <=> th[t].pc \in Locking)
      /\ th[t].pc \in Holds =>
           \A u \in Threads \ {t} : th[u].pc \in Holds => th[u].page # th[t].page
      /\ Queued(mem)
  BY ThreadNow
<1>2. PICK q \in LookedUp(t) :
        /\ mem' = q.mem
        /\ entry' = q.entry
        /\ Step(t, [th[t] EXCEPT !.pc = IF q.object = th[t].first THEN "same" ELSE "changed",
                                 !.prot = q.prot, !.locked = TRUE])
  BY DEF LookupAgain
<1> DEFINE r == [th[t] EXCEPT !.pc = IF q.object = th[t].first THEN "same" ELSE "changed",
                              !.prot = q.prot, !.locked = TRUE]
<1>3. th' = [th EXCEPT ![t] = r] /\ th[t].pc = "relookup"
  BY <1>2 DEF LookupAgain, Step
<1>4. /\ q.mem \in Memories /\ SamePages(mem, q.mem) /\ q.entry \in EntryMaps
      /\ ObjectsOK(q.mem, q.entry, First(th))
      /\ q.prot \in BOOLEAN
      /\ \A y \in Objects : mem.live[y] =>
           q.mem.pageout_in_progress[y] = mem.pageout_in_progress[y]
  BY LookedUpIs
<1>5. /\ r \in ThreadRecords /\ r.pc \in {"same", "changed"} /\ r.first = th[t].first
      /\ r.page = th[t].page /\ r.offset = th[t].offset
  BY <1>1, <1>4 DEF ThreadRecords
<1> HIDE DEF r
<1>6. Moved(th, t, r, th')
  BY <1>1, <1>3, <1>5, MovedAlone
<1>7. First(th') = First(th)
  BY <1>1, <1>5, <1>6, FirstMoved
<1>8. /\ Queued(q.mem) /\ Free(q.mem) = Free(mem)
      /\ \A p \in Pages : Keeps(mem, q.mem, p)
  BY <1>1, <1>4, SamePagesKeep
<1>9. Spared(mem, q.mem, th, t, dm)
  BY <1>4, SparedSame DEF IInv
<1>10. ThreadOK(q.mem, r)
  BY <1>1, <1>3, <1>5, <1>8 DEF ThreadOK, Holds, Works, Outside, Keeps, OffQueues
<1>11. \A u \in Threads \ {t} : th[u].pc \in Holds => th[u].page # r.page
  BY <1>1, <1>3, <1>5 DEF Holds, Works
<1>12. Locked(lock, lock, t, r) /\ Poked(dm, dm)
  BY <1>1, <1>3, <1>5 DEF Locked, Locking, Poked
<1>13. Sound(q.mem, q.entry, lock, th', dm)
  BY <1>4, <1>6, <1>7, <1>8, <1>9, <1>10, <1>11, <1>12, ThreadAction DEF IInv
<1>14. mem' = q.mem /\ entry' = q.entry /\ lock' = lock /\ dm' = dm /\ stored' = stored
  BY <1>2 DEF LookupAgain
<1> QED
  BY <1>13, <1>14 DEF IInv

(* unlock, vm_object_deallocate, vm_map_lookup_done and nothing else.      *)
LEMMA GivenUpIs ==
  ASSUME IInv, NEW t \in Threads
  PROVE  /\ GivenUp(t) \in ThreadRecords /\ GivenUp(t).first = NoObject
         /\ GivenUp(t).page = th[t].page /\ GivenUp(t).offset = th[t].offset
<1>1. th[t] \in ThreadRecords
  BY ThreadNow
<1> QED
  BY <1>1 DEF GivenUp, ThreadRecords

(* Letting go of the first object ends its paging and may end the object.  *)
LEMMA LetGoDoes ==
  ASSUME IInv, NEW t \in Threads, th[t].pc \notin Outside,
         NEW m \in Memories, NEW e, DOMAIN e = DOMAIN InitEntry, ObjectsOK(m, e, First(th))
  PROVE  LET n == LetGo(m, t) IN
         /\ n \in Memories /\ SamePages(m, n)
         /\ n.pageout_in_progress = m.pageout_in_progress
         /\ ObjectsOK(n, e, [First(th) EXCEPT ![t] = NoObject])
<1> DEFINE f == First(th)
           o == th[t].first
<1>1. th[t] \in ThreadRecords /\ ThreadOK(mem, th[t]) /\ f[t] = o /\ DOMAIN f = Threads
  BY ThreadNow
<1>2. o \in Objects
  BY <1>1 DEF ThreadOK, ThreadRecords
<1>3. ObjectsOK(m, e, f) /\ LetGo(m, t) = Unreference(m, o)
  BY DEF LetGo
<1> HIDE DEF f, o
<1> DEFINE n == Unreference(m, o)
<1>4. /\ m \in Memories /\ DOMAIN e = DOMAIN InitEntry /\ DOMAIN f = Threads
      /\ ObjectsOK(m, e, f) /\ f[t] = o /\ o \in Objects /\ n = Unreference(m, o)
  BY <1>1, <1>2, <1>3
<1> HIDE DEF n
<1>5. /\ n \in Memories /\ SamePages(m, n)
      /\ n.pageout_in_progress = m.pageout_in_progress
      /\ ObjectsOK(n, e, [f EXCEPT ![t] = NoObject])
  <2>1. n \in Memories
    BY <1>4, UnreferenceDoes
  <2>2. SamePages(m, n)
    BY <1>4, UnreferenceDoes
  <2>3. n.pageout_in_progress = m.pageout_in_progress
    BY <1>4 DEF Unreference
  <2>4. ObjectsOK(n, e, [f EXCEPT ![t] = NoObject])
    BY <1>4, UnreferenceDoes
  <2> QED
    BY <2>1, <2>2, <2>3, <2>4
<1> QED
  BY <1>3, <1>5 DEF f, n

(* Finding a busy page, and backing out, keeps the invariant.              *)
LEMMA FindBusyKeeps ==
  ASSUME IInv, NEW t \in Threads, FindBusy(t)
  PROVE  IInv'
<1> DEFINE r == [GivenUp(t) EXCEPT !.pc = "await", !.page = Seen(t)]
           n == LetGo(mem, t)
<1>1. /\ th \in [Threads -> ThreadRecords] /\ mem \in Memories /\ entry \in EntryMaps
      /\ (lock = t <=> th[t].pc \in Locking) /\ DOMAIN entry = DOMAIN InitEntry
      /\ ObjectsOK(mem, entry, First(th)) /\ Queued(mem)
  BY ThreadNow
<1>2. th[t].pc = "search" /\ lock = t /\ lock' = NoOne /\ Seen(t) \in Pages
  BY SeenIs DEF FindBusy, Searching
<1>3. r \in ThreadRecords /\ r.pc = "await" /\ r.first = NoObject
  BY <1>2, GivenUpIs DEF ThreadRecords
<1>4. th' = [th EXCEPT ![t] = r]
  BY DEF FindBusy, Step
<1> HIDE DEF r
<1>5. /\ n \in Memories /\ SamePages(mem, n)
      /\ n.pageout_in_progress = mem.pageout_in_progress
      /\ ObjectsOK(n, entry, [First(th) EXCEPT ![t] = NoObject])
  BY <1>1, <1>2, LetGoDoes DEF Outside
<1>6. mem' = n
  BY DEF FindBusy
<1> HIDE DEF n
<1>7. Moved(th, t, r, th')
  BY <1>1, <1>3, <1>4, MovedAlone
<1>8. First(th') = [First(th) EXCEPT ![t] = NoObject]
  BY <1>1, <1>3, <1>7, FirstMoved
<1>9. Queued(n) /\ Spared(mem, n, th, t, dm)
  BY <1>1, <1>5, SamePagesKeep, SparedSame DEF IInv
<1>10. ThreadOK(n, r) /\ r.pc \notin Holds
  BY <1>3 DEF ThreadOK, Holds, Works, Outside
<1>11. Locked(lock, NoOne, t, r) /\ Poked(dm, dm)
  BY <1>2, <1>3, VMFaultAssumption DEF Locked, Locking, Poked
<1>12. Sound(n, entry, NoOne, th', dm)
  BY <1>1, <1>5, <1>7, <1>8, <1>9, <1>10, <1>11, ThreadAction DEF IInv
<1> QED
  BY <1>2, <1>6, <1>12 DEF IInv, FindBusy

(* Finding no free page keeps the invariant.                               *)
LEMMA NoMemoryKeeps ==
  ASSUME IInv, NEW t \in Threads, NoMemory(t)
  PROVE  IInv'
<1> DEFINE r == [GivenUp(t) EXCEPT !.pc = "short", !.page = NoPage]
           n == LetGo(mem, t)
<1>1. /\ th \in [Threads -> ThreadRecords] /\ mem \in Memories /\ entry \in EntryMaps
      /\ (lock = t <=> th[t].pc \in Locking) /\ DOMAIN entry = DOMAIN InitEntry
      /\ ObjectsOK(mem, entry, First(th)) /\ Queued(mem)
  BY ThreadNow
<1>2. th[t].pc = "search" /\ lock = t /\ lock' = NoOne
  BY DEF NoMemory, Searching
<1>3. r \in ThreadRecords /\ r.pc = "short" /\ r.first = NoObject
  BY <1>2, GivenUpIs DEF ThreadRecords
<1>4. th' = [th EXCEPT ![t] = r]
  BY DEF NoMemory, Step
<1> HIDE DEF r
<1>5. /\ n \in Memories /\ SamePages(mem, n)
      /\ n.pageout_in_progress = mem.pageout_in_progress
      /\ ObjectsOK(n, entry, [First(th) EXCEPT ![t] = NoObject])
  BY <1>1, <1>2, LetGoDoes DEF Outside
<1>6. mem' = n
  BY DEF NoMemory
<1> HIDE DEF n
<1>7. Moved(th, t, r, th')
  BY <1>1, <1>3, <1>4, MovedAlone
<1>8. First(th') = [First(th) EXCEPT ![t] = NoObject]
  BY <1>1, <1>3, <1>7, FirstMoved
<1>9. Queued(n) /\ Spared(mem, n, th, t, dm)
  BY <1>1, <1>5, SamePagesKeep, SparedSame DEF IInv
<1>10. ThreadOK(n, r) /\ r.pc \notin Holds
  BY <1>3 DEF ThreadOK, Holds, Works, Outside
<1>11. Locked(lock, NoOne, t, r) /\ Poked(dm, dm)
  BY <1>2, <1>3, VMFaultAssumption DEF Locked, Locking, Poked
<1>12. Sound(n, entry, NoOne, th', dm)
  BY <1>1, <1>5, <1>7, <1>8, <1>9, <1>10, <1>11, ThreadAction DEF IInv
<1> QED
  BY <1>2, <1>6, <1>12 DEF IInv, NoMemory

(* vm_page_alloc in a live object.                                         *)
LEMMA AllocObjects ==
  ASSUME NEW m \in Memories, Queued(m), NEW e, NEW first, ObjectsOK(m, e, first),
         NEW p \in Free(m), NEW o \in Objects, m.live[o], NEW f \in Offsets
  PROVE  LET n == Alloc(m, p, o, f) IN
         /\ n \in Memories /\ Queued(n) /\ ObjectsOK(n, e, first)
         /\ p \in Pages /\ p \notin Free(n) /\ n.offset[p] = f /\ n.busy[p] /\ OffQueues(n, p)
         /\ n.object[p] = o /\ n.live = m.live
         /\ n.pageout_in_progress = m.pageout_in_progress
         /\ \A q \in Pages \ {p} : Keeps(m, n, q) /\ n.object[q] = m.object[q]
<1> DEFINE n == Alloc(m, p, o, f)
<1>1. /\ p \in Pages /\ m.object \in [Pages -> Objects \cup {NoObject}]
      /\ m.offset \in [Pages -> Offsets] /\ m.busy \in [Pages -> BOOLEAN]
      /\ m.active \in [Pages -> BOOLEAN] /\ m.reclaimable \in [Pages -> BOOLEAN]
  BY DEF Free, Memories
<1>2. /\ n \in Memories
      /\ n.object = [m.object EXCEPT ![p] = o] /\ n.offset = [m.offset EXCEPT ![p] = f]
      /\ n.busy = [m.busy EXCEPT ![p] = TRUE]
      /\ n.active = [m.active EXCEPT ![p] = FALSE]
      /\ n.reclaimable = [m.reclaimable EXCEPT ![p] = FALSE]
      /\ SameObjects(m, n) /\ Queued(n)
  <2>1. p \in Pages /\ p \in Free(m)
    BY <1>1
  <2> QED
    BY <2>1, AllocDoes
<1> HIDE DEF n
<1>3. /\ n.object[p] = o /\ n.offset[p] = f /\ n.busy[p] /\ OffQueues(n, p)
      /\ \A q \in Pages \ {p} : n.object[q] = m.object[q] /\ n.offset[q] = m.offset[q]
            /\ n.busy[q] = m.busy[q] /\ n.active[q] = m.active[q]
            /\ n.reclaimable[q] = m.reclaimable[q]
  BY <1>1, <1>2 DEF OffQueues
<1>4. p \notin Free(n)
  BY <1>3, VMPageAssumption DEF Free
<1>5. \A q \in Pages \ {p} : Keeps(m, n, q) /\ n.object[q] = m.object[q]
  BY <1>3 DEF Keeps, Free
<1>6. \A q \in Pages : \/ n.object[q] \in {m.object[q], NoObject}
                       \/ n.object[q] \in Objects /\ m.live[n.object[q]]
  BY <1>3
<1>7. ObjectsOK(n, e, first)
  BY <1>2, <1>6, ObjectsKept DEF SameObjects
<1> QED
  BY <1>1, <1>2, <1>3, <1>4, <1>5, <1>7 DEF SameObjects, n

(* Taking a page to read into keeps the invariant.                         *)
LEMMA StartPageinKeeps ==
  ASSUME IInv, NEW t \in Threads, StartPagein(t)
  PROVE  IInv'
<1>1. /\ th \in [Threads -> ThreadRecords] /\ th[t] \in ThreadRecords /\ mem \in Memories
      /\ entry \in EntryMaps /\ dm \in DaemonRecords
      /\ ThreadOK(mem, th[t])
      /\ ObjectsOK(mem, entry, First(th)) /\ Queued(mem)
  BY ThreadNow
<1>2. PICK p \in Free(mem) :
        /\ mem' = Alloc(mem, p, th[t].object, th[t].offset)
        /\ Step(t, [th[t] EXCEPT !.pc = "pagein", !.page = p, !.locked = FALSE])
  BY DEF StartPagein
<1>3. /\ th[t].pc = "search" /\ lock = t /\ lock' = NoOne /\ th[t].object # NoObject
      /\ mem.space[th[t].object] # NoSpace
  BY DEF StartPagein, Searching
<1>4. th[t].object \in Objects /\ mem.live[th[t].object] /\ th[t].offset \in Offsets
  BY <1>1, <1>3 DEF ThreadRecords, ObjectsOK
<1> DEFINE r == [th[t] EXCEPT !.pc = "pagein", !.page = p, !.locked = FALSE]
           n == Alloc(mem, p, th[t].object, th[t].offset)
<1>5. /\ n \in Memories /\ Queued(n) /\ ObjectsOK(n, entry, First(th))
      /\ p \in Pages /\ p \notin Free(n) /\ n.offset[p] = th[t].offset
      /\ n.busy[p] /\ OffQueues(n, p)
      /\ n.pageout_in_progress = mem.pageout_in_progress
      /\ \A q \in Pages \ {p} : Keeps(mem, n, q) /\ n.object[q] = mem.object[q]
  BY <1>1, <1>2, <1>4, AllocObjects
<1>6. mem' = n /\ th' = [th EXCEPT ![t] = r]
  BY <1>2 DEF Step
<1>7. /\ r \in ThreadRecords /\ r.pc = "pagein" /\ r.first = th[t].first
      /\ r.page = p /\ r.offset = th[t].offset /\ r.object = th[t].object
  BY <1>1, <1>5 DEF ThreadRecords
<1> HIDE DEF n, r
<1>8. Moved(th, t, r, th')
  BY <1>1, <1>6, <1>7, MovedAlone
<1>9. First(th') = First(th)
  BY <1>1, <1>7, <1>8, FirstMoved
<1>10. Spared(mem, n, th, t, dm)
  <2>1. /\ {p} \in SUBSET Pages
        /\ \A x \in {p} : x \in Free(mem) \/ (th[t].pc \in Holds /\ x = th[t].page)
    BY <1>2, <1>5
  <2> QED
    BY <1>5, <2>1, SparedBut DEF IInv
<1>11. ThreadOK(n, r)
  BY <1>1, <1>3, <1>4, <1>5, <1>7 DEF ThreadOK, Works, Outside
<1>12. \A u \in Threads \ {t} : th[u].pc \in Holds => th[u].page # r.page
  BY <1>2, <1>5, <1>7, Apart DEF IInv
<1>13. Locked(lock, lock', t, r) /\ Poked(dm, dm')
  <2>1. WakeDaemon \/ dm' = dm
    BY DEF StartPagein, PokeDaemon
  <2> QED
    BY <1>1, <1>3, <1>7, <2>1, WakeIs, VMFaultAssumption DEF Locked, Locking
<1>14. Sound(n, entry, lock', th', dm')
  BY <1>1, <1>5, <1>8, <1>9, <1>10, <1>11, <1>12, <1>13, ThreadAction DEF IInv
<1> QED
  BY <1>6, <1>14 DEF IInv, StartPagein

(***************************************************************************)
(* Steps that touch one page.                                              *)
(***************************************************************************)

(* A memory in which only page p, which stays where it belongs, changed.   *)
Only(m, n, p) ==
  /\ n.object = m.object /\ n.offset = m.offset /\ SameObjects(m, n)
  /\ \A q \in Pages \ {p} : /\ n.busy[q] = m.busy[q] /\ n.active[q] = m.active[q]
                            /\ n.reclaimable[q] = m.reclaimable[q]

(* A step that touches one page leaves every other page and the objects.   *)
LEMMA OnlyKeeps ==
  ASSUME NEW m \in Memories, NEW n \in Memories, NEW p, Only(m, n, p)
  PROVE  /\ Free(n) = Free(m)
         /\ \A q \in Pages \ {p} : Keeps(m, n, q) /\ n.object[q] = m.object[q]
         /\ n.pageout_in_progress = m.pageout_in_progress
         /\ \A e, first : ObjectsOK(m, e, first) => ObjectsOK(n, e, first)
<1>1. Free(n) = Free(m)
  BY DEF Only, Free
<1>2. \A q \in Pages \ {p} : Keeps(m, n, q) /\ n.object[q] = m.object[q]
  BY <1>1 DEF Only, Keeps
<1>3. \A e, first : ObjectsOK(m, e, first) => ObjectsOK(n, e, first)
  <2>1. TAKE e, first
  <2>2. HAVE ObjectsOK(m, e, first)
  <2> QED
    BY <2>2, ObjectsKept DEF Only, SameObjects
<1> QED
  BY <1>1, <1>2, <1>3 DEF Only, SameObjects

(* Two steps that touch the same page, in a row, touch only that page.     *)
LEMMA OnlyTwice ==
  ASSUME NEW m, NEW k, NEW n, NEW p, Only(m, k, p), Only(k, n, p)
  PROVE  Only(m, n, p)
BY DEF Only, SameObjects

(* Setting or clearing busy touches one page.                              *)
LEMMA SetBusyOnly ==
  ASSUME NEW m \in Memories, NEW p \in Pages, NEW b \in BOOLEAN
  PROVE  LET n == SetBusy(m, p, b) IN
         /\ n \in Memories /\ Only(m, n, p) /\ (Queued(m) => Queued(n))
         /\ n.busy[p] = b /\ n.active = m.active /\ n.reclaimable = m.reclaimable
         /\ n.mapped = m.mapped
<1>1. m.busy \in [Pages -> BOOLEAN]
  BY DEF Memories
<1> DEFINE n == SetBusy(m, p, b)
<1>2. /\ n \in Memories /\ n.busy = [m.busy EXCEPT ![p] = b]
      /\ n.object = m.object /\ n.offset = m.offset /\ n.active = m.active
      /\ n.reclaimable = m.reclaimable /\ n.mapped = m.mapped /\ SameObjects(m, n)
      /\ Queued(m) => Queued(n)
  BY SetBusyDoes
<1> HIDE DEF n
<1>3. n.busy[p] = b /\ \A q \in Pages \ {p} : n.busy[q] = m.busy[q]
  BY <1>1, <1>2
<1> QED
  BY <1>2, <1>3 DEF n, Only

(* Taking a page off its queue touches that page.                          *)
LEMMA DequeueOnly ==
  ASSUME NEW m \in Memories, NEW p \in Pages
  PROVE  LET n == Dequeue(m, {p}) IN
         /\ n \in Memories /\ Only(m, n, p) /\ (Queued(m) => Queued(n))
         /\ n.busy = m.busy /\ OffQueues(n, p) /\ n.mapped = m.mapped
<1>1. m.active \in [Pages -> BOOLEAN] /\ m.reclaimable \in [Pages -> BOOLEAN]
  BY DEF Memories
<1> DEFINE n == Dequeue(m, {p})
<1>2. /\ n \in Memories
      /\ n.active = [q \in Pages |-> m.active[q] /\ q \notin {p}]
      /\ n.reclaimable = [q \in Pages |-> m.reclaimable[q] /\ q \notin {p}]
      /\ n.object = m.object /\ n.offset = m.offset /\ n.busy = m.busy
      /\ n.mapped = m.mapped /\ SameObjects(m, n)
      /\ Queued(m) => Queued(n)
  <2>1. {p} \in SUBSET Pages
    OBVIOUS
  <2> QED
    BY <2>1, DequeueDoes
<1> HIDE DEF n
<1>3. OffQueues(n, p)
  BY <1>2 DEF OffQueues
<1>4. ASSUME NEW q \in Pages \ {p}
      PROVE  n.active[q] = m.active[q] /\ n.reclaimable[q] = m.reclaimable[q]
  BY <1>1, <1>2
<1> QED
  BY <1>2, <1>3, <1>4 DEF n, Only

(* Activating a page touches that page.                                    *)
LEMMA ActivateOnly ==
  ASSUME NEW m \in Memories, NEW p \in Pages
  PROVE  LET n == Activate(m, p) IN
         /\ n \in Memories /\ Only(m, n, p)
         /\ Queued(m) /\ p \notin Free(m) /\ OffQueues(m, p) => Queued(n)
         /\ n.busy = m.busy /\ n.active[p] /\ n.mapped = m.mapped
<1>1. m.active \in [Pages -> BOOLEAN]
  BY DEF Memories
<1> DEFINE n == Activate(m, p)
<1>2. /\ n \in Memories
      /\ n.active = [m.active EXCEPT ![p] = TRUE]
      /\ n.object = m.object /\ n.offset = m.offset /\ n.busy = m.busy
      /\ n.reclaimable = m.reclaimable /\ n.mapped = m.mapped /\ SameObjects(m, n)
      /\ Queued(m) /\ p \notin Free(m) /\ OffQueues(m, p) => Queued(n)
  BY ActivateDoes
<1> HIDE DEF n
<1>3. n.active[p] /\ \A q \in Pages \ {p} : n.active[q] = m.active[q]
  BY <1>1, <1>2
<1> QED
  BY <1>2, <1>3 DEF n, Only

(* vm_page_free of one page.                                               *)
LEMMA FreePageDoes ==
  ASSUME NEW m \in Memories, NEW p \in Pages
  PROVE  LET n == FreePages(m, {p}) IN
         /\ n \in Memories /\ (Queued(m) => Queued(n)) /\ SameObjects(m, n)
         /\ p \in Free(n) /\ ~n.busy[p] /\ OffQueues(n, p) /\ n.mapped = m.mapped
         /\ \A q \in Pages \ {p} : Keeps(m, n, q) /\ n.object[q] = m.object[q]
         /\ \A e, first : ObjectsOK(m, e, first) => ObjectsOK(n, e, first)
<1>1. /\ m.active \in [Pages -> BOOLEAN] /\ m.reclaimable \in [Pages -> BOOLEAN]
      /\ m.busy \in [Pages -> BOOLEAN]
  BY DEF Memories
<1> DEFINE n == FreePages(m, {p})
<1>2. /\ n \in Memories
      /\ n.object = [q \in Pages |-> IF q \in {p} THEN NoObject ELSE m.object[q]]
      /\ n.busy = [q \in Pages |-> m.busy[q] /\ q \notin {p}]
      /\ n.active = [q \in Pages |-> m.active[q] /\ q \notin {p}]
      /\ n.reclaimable = [q \in Pages |-> m.reclaimable[q] /\ q \notin {p}]
      /\ n.offset = m.offset /\ n.mapped = m.mapped /\ SameObjects(m, n)
      /\ Queued(m) => Queued(n)
  <2>1. {p} \in SUBSET Pages
    OBVIOUS
  <2> QED
    BY <2>1, FreePagesDoes
<1> HIDE DEF n
<1>3. p \in Free(n) /\ ~n.busy[p] /\ OffQueues(n, p)
  BY <1>2 DEF OffQueues, Free
<1>4. ASSUME NEW q \in Pages \ {p}
      PROVE  Keeps(m, n, q) /\ n.object[q] = m.object[q]
  <2>1. n.active[q] = m.active[q] /\ n.reclaimable[q] = m.reclaimable[q] /\ n.busy[q] = m.busy[q]
    BY <1>1, <1>2
  <2>2. n.object[q] = m.object[q] /\ n.offset[q] = m.offset[q]
    BY <1>2
  <2> QED
    BY <2>1, <2>2 DEF Keeps, Free
<1>5. \A q \in Pages : n.object[q] \in {m.object[q], NoObject}
  BY <1>2
<1>6. \A e, first : ObjectsOK(m, e, first) => ObjectsOK(n, e, first)
  <2>1. TAKE e, first
  <2>2. HAVE ObjectsOK(m, e, first)
  <2> QED
    BY <1>2, <1>5, <2>2, ObjectsKept DEF SameObjects
<1> QED
  BY <1>2, <1>3, <1>4, <1>6 DEF n

(* A step that changes the thread's own page only.                         *)
LEMMA OwnPageSpared ==
  ASSUME NEW m, NEW e, NEW l, NEW h, NEW d, Sound(m, e, l, h, d),
         NEW t \in Threads, h[t].pc \in Holds, NEW n,
         \A q \in Pages \ {h[t].page} : Keeps(m, n, q) /\ n.object[q] = m.object[q],
         n.pageout_in_progress = m.pageout_in_progress
  PROVE  Spared(m, n, h, t, d)
<1> DEFINE T == {h[t].page}
<1>1. h[t].page \in Pages
  BY DEF Sound, ThreadsOK, ThreadOK
<1>2. /\ T \in SUBSET Pages
      /\ \A x \in T : x \in Free(m) \/ (h[t].pc \in Holds /\ x = h[t].page)
      /\ \A q \in Pages \ T : Keeps(m, n, q) /\ n.object[q] = m.object[q]
      /\ \A o \in Objects : m.pageout_in_progress[o] /\ m.live[o] => n.pageout_in_progress[o]
  BY <1>1
<1> HIDE DEF T
<1> QED
  BY <1>2, SparedBut

(* Zero filling a page of the first object keeps the invariant.            *)
LEMMA ZeroFillKeeps ==
  ASSUME IInv, NEW t \in Threads, ZeroFill(t)
  PROVE  IInv'
<1>1. /\ th \in [Threads -> ThreadRecords] /\ th[t] \in ThreadRecords /\ mem \in Memories
      /\ entry \in EntryMaps /\ dm \in DaemonRecords
      /\ ThreadOK(mem, th[t]) /\ (th[t].first \in Objects => mem.live[th[t].first])
      /\ ObjectsOK(mem, entry, First(th)) /\ Queued(mem)
  BY ThreadNow
<1>2. PICK p \in Free(mem) :
        /\ mem' = SetBusy(Alloc(mem, p, th[t].first, th[t].offset), p, FALSE)
        /\ Step(t, [th[t] EXCEPT !.pc = "found", !.page = p])
  BY DEF ZeroFill
<1>3. th[t].pc = "search" /\ lock = t
  BY DEF ZeroFill, Searching
<1>4. th[t].first \in Objects /\ mem.live[th[t].first] /\ th[t].offset \in Offsets
  BY <1>1, <1>3 DEF ThreadRecords, ThreadOK, Outside
<1> DEFINE r == [th[t] EXCEPT !.pc = "found", !.page = p]
           k == Alloc(mem, p, th[t].first, th[t].offset)
           n == SetBusy(k, p, FALSE)
<1>5. /\ k \in Memories /\ Queued(k) /\ ObjectsOK(k, entry, First(th))
      /\ p \in Pages /\ p \notin Free(k) /\ k.offset[p] = th[t].offset
      /\ k.pageout_in_progress = mem.pageout_in_progress
      /\ \A q \in Pages \ {p} : Keeps(mem, k, q) /\ k.object[q] = mem.object[q]
  BY <1>1, <1>2, <1>4, AllocObjects
<1> HIDE DEF k
<1>6. n \in Memories /\ Only(k, n, p) /\ Queued(n) /\ n.busy[p] = FALSE
  BY <1>5, SetBusyOnly
<1>7. mem' = n /\ th' = [th EXCEPT ![t] = r]
  BY <1>2 DEF Step, k
<1> HIDE DEF n
<1>8. /\ Free(n) = Free(k) /\ ObjectsOK(n, entry, First(th))
      /\ n.pageout_in_progress = mem.pageout_in_progress
      /\ \A q \in Pages \ {p} : Keeps(mem, n, q) /\ n.object[q] = mem.object[q]
  <2>1. /\ Free(n) = Free(k) /\ ObjectsOK(n, entry, First(th))
        /\ n.pageout_in_progress = k.pageout_in_progress
        /\ \A q \in Pages \ {p} : Keeps(k, n, q) /\ n.object[q] = k.object[q]
    BY <1>5, <1>6, OnlyKeeps
  <2> QED
    BY <1>5, <2>1 DEF Keeps
<1>9. /\ r \in ThreadRecords /\ r.pc = "found" /\ r.first = th[t].first
      /\ r.page = p /\ r.offset = th[t].offset
  BY <1>1, <1>5 DEF ThreadRecords
<1> HIDE DEF r
<1>10. Moved(th, t, r, th')
  BY <1>1, <1>7, <1>9, MovedAlone
<1>11. First(th') = First(th)
  BY <1>1, <1>9, <1>10, FirstMoved
<1>12. Spared(mem, n, th, t, dm)
  <2>1. /\ {p} \in SUBSET Pages
        /\ \A x \in {p} : x \in Free(mem) \/ (th[t].pc \in Holds /\ x = th[t].page)
    BY <1>2, <1>5
  <2> QED
    BY <1>8, <2>1, SparedBut DEF IInv
<1>13. ThreadOK(n, r)
  <2>1. n.offset[p] = th[t].offset
    BY <1>5, <1>6 DEF Only
  <2> QED
    BY <1>1, <1>3, <1>5, <1>6, <1>8, <1>9, <2>1 DEF ThreadOK, Works, Outside
<1>14. \A u \in Threads \ {t} : th[u].pc \in Holds => th[u].page # r.page
  BY <1>2, <1>5, <1>9, Apart DEF IInv
<1>15. Locked(lock, lock, t, r) /\ Poked(dm, dm')
  <2>1. WakeDaemon \/ dm' = dm
    BY DEF ZeroFill, PokeDaemon
  <2> QED
    BY <1>1, <1>3, <1>9, <2>1, WakeIs DEF Locked, Locking
<1>16. Sound(n, entry, lock, th', dm')
  BY <1>1, <1>6, <1>8, <1>10, <1>11, <1>12, <1>13, <1>14, <1>15, ThreadAction DEF IInv
<1> QED
  BY <1>7, <1>16 DEF IInv, ZeroFill

(* The answer of a pager that has the page keeps the invariant.            *)
LEMMA PagedInKeeps ==
  ASSUME IInv, NEW t \in Threads, PagedIn(t)
  PROVE  IInv'
<1> DEFINE p == th[t].page
           r == [th[t] EXCEPT !.pc = "found"]
           n == SetBusy(mem, p, FALSE)
<1>1. /\ th \in [Threads -> ThreadRecords] /\ th[t] \in ThreadRecords /\ mem \in Memories
      /\ entry \in EntryMaps /\ ThreadOK(mem, th[t])
      /\ ObjectsOK(mem, entry, First(th)) /\ Queued(mem)
      /\ th[t].pc \in Holds =>
           \A u \in Threads \ {t} : th[u].pc \in Holds => th[u].page # th[t].page
  BY ThreadNow
<1>2. th[t].pc = "got" /\ lock = NoOne /\ lock' = t /\ mem' = n
  BY DEF PagedIn
<1>3. p \in Pages /\ p \notin Free(mem) /\ mem.offset[p] = th[t].offset /\ th[t].pc \in Holds
  BY <1>1, <1>2 DEF ThreadOK, Holds, Works
<1>4. n \in Memories /\ Only(mem, n, p) /\ Queued(n) /\ n.busy[p] = FALSE
  BY <1>1, <1>3, SetBusyOnly
<1>5. /\ r \in ThreadRecords /\ r.pc = "found" /\ r.first = th[t].first
      /\ r.page = p /\ r.offset = th[t].offset
  BY <1>1 DEF ThreadRecords
<1>6. Moved(th, t, r, th')
  <2>1. StepWaking(t, r, p)
    BY DEF PagedIn
  <2> HIDE DEF r, p
  <2> QED
    BY <1>1, <1>5, <2>1, MovedWaking DEF StepWaking, PageWaitersWoken
<1> HIDE DEF r, n
<1>7. First(th') = First(th)
  BY <1>1, <1>5, <1>6, FirstMoved
<1>8. /\ Free(n) = Free(mem) /\ ObjectsOK(n, entry, First(th))
      /\ n.pageout_in_progress = mem.pageout_in_progress
      /\ \A q \in Pages \ {p} : Keeps(mem, n, q) /\ n.object[q] = mem.object[q]
  BY <1>1, <1>4, OnlyKeeps
<1>9. Spared(mem, n, th, t, dm)
  BY <1>3, <1>8, OwnPageSpared DEF IInv
<1>10. ThreadOK(n, r)
  <2>1. n.offset[p] = th[t].offset
    BY <1>3, <1>4 DEF Only
  <2> QED
    BY <1>1, <1>2, <1>3, <1>4, <1>5, <1>8, <2>1 DEF ThreadOK, Works, Outside
<1>11. \A u \in Threads \ {t} : th[u].pc \in Holds => th[u].page # r.page
  BY <1>1, <1>3, <1>5
<1>12. Locked(lock, lock', t, r) /\ Poked(dm, dm)
  BY <1>1, <1>2, <1>5 DEF Locked, Locking, Poked
<1>13. Sound(n, entry, lock', th', dm)
  BY <1>1, <1>4, <1>6, <1>7, <1>8, <1>9, <1>10, <1>11, <1>12, ThreadAction DEF IInv
<1> QED
  BY <1>2, <1>13 DEF IInv, PagedIn

(* The answer of a pager that has not the page keeps the invariant.        *)
LEMMA NotThereKeeps ==
  ASSUME IInv, NEW t \in Threads, NotThere(t)
  PROVE  IInv'
<1> DEFINE p == th[t].page
           r == [th[t] EXCEPT !.pc = "search", !.page = NoPage,
                              !.object = mem.shadow[th[t].object]]
           n == FreePages(mem, {p})
<1>1. /\ th \in [Threads -> ThreadRecords] /\ th[t] \in ThreadRecords /\ mem \in Memories
      /\ entry \in EntryMaps /\ ThreadOK(mem, th[t])
      /\ ObjectsOK(mem, entry, First(th)) /\ Queued(mem)
  BY ThreadNow
<1>2. th[t].pc = "not_there" /\ lock = NoOne /\ lock' = t /\ mem' = n
  BY DEF NotThere
<1>3. p \in Pages /\ th[t].object \in Objects /\ th[t].pc \in Holds
  BY <1>1, <1>2 DEF ThreadOK, Holds, Works
<1>4. /\ n \in Memories /\ Queued(n) /\ SameObjects(mem, n)
      /\ \A q \in Pages \ {p} : Keeps(mem, n, q) /\ n.object[q] = mem.object[q]
      /\ ObjectsOK(n, entry, First(th))
  BY <1>1, <1>3, FreePageDoes
<1>5. mem.shadow[th[t].object] \in Objects \cup {NoObject}
  <2>1. mem.shadow \in [Objects -> Objects \cup {NoObject}]
    BY <1>1 DEF Memories
  <2> QED
    BY <1>3, <2>1
<1>6. r \in ThreadRecords /\ r.pc = "search" /\ r.first = th[t].first
  BY <1>1, <1>5 DEF ThreadRecords
<1>7. Moved(th, t, r, th')
  <2>1. StepWaking(t, r, p)
    BY DEF NotThere
  <2> HIDE DEF r, p
  <2> QED
    BY <1>1, <1>6, <2>1, MovedWaking DEF StepWaking, PageWaitersWoken
<1> HIDE DEF r, n
<1>8. First(th') = First(th)
  BY <1>1, <1>6, <1>7, FirstMoved
<1>9. Spared(mem, n, th, t, dm)
  BY <1>3, <1>4, OwnPageSpared DEF IInv, SameObjects
<1>10. ThreadOK(n, r) /\ r.pc \notin Holds
  BY <1>1, <1>2, <1>6 DEF ThreadOK, Holds, Works, Outside
<1>11. Locked(lock, lock', t, r) /\ Poked(dm, dm)
  BY <1>1, <1>2, <1>6 DEF Locked, Locking, Poked
<1>12. Sound(n, entry, lock', th', dm)
  BY <1>1, <1>4, <1>7, <1>8, <1>9, <1>10, <1>11, ThreadAction DEF IInv
<1> QED
  BY <1>2, <1>12 DEF IInv, NotThere

(* Taking the page that was found keeps the invariant.                     *)
LEMMA TakeKeeps ==
  ASSUME IInv, NEW t \in Threads, Take(t)
  PROVE  IInv'
<1> DEFINE p == th[t].page
           b == ~th[t].locked
           r == [th[t] EXCEPT !.pc = IF th[t].locked THEN "copy" ELSE "relookup"]
           k == Dequeue(mem, {p})
           n == SetBusy(k, p, b)
<1>1. /\ th \in [Threads -> ThreadRecords] /\ th[t] \in ThreadRecords /\ mem \in Memories
      /\ entry \in EntryMaps /\ ThreadOK(mem, th[t])
      /\ ObjectsOK(mem, entry, First(th)) /\ Queued(mem)
      /\ th[t].pc \in Holds =>
           \A u \in Threads \ {t} : th[u].pc \in Holds => th[u].page # th[t].page
  BY ThreadNow
<1>2. /\ th[t].pc = "found" /\ lock = t /\ mem' = n /\ th' = [th EXCEPT ![t] = r]
      /\ lock' = IF th[t].locked THEN t ELSE NoOne
  BY DEF Take, Step
<1>3. /\ p \in Pages /\ p \notin Free(mem) /\ mem.offset[p] = th[t].offset
      /\ th[t].pc \in Holds /\ b \in BOOLEAN
  BY <1>1, <1>2 DEF ThreadOK, Holds, Works
<1>4. k \in Memories /\ Only(mem, k, p) /\ Queued(k) /\ OffQueues(k, p)
  BY <1>1, <1>3, DequeueOnly
<1> HIDE DEF k
<1>5. /\ n \in Memories /\ Only(k, n, p) /\ Queued(n) /\ n.busy[p] = b
      /\ n.active = k.active /\ n.reclaimable = k.reclaimable
  BY ZenonT(60), <1>3, <1>4, SetBusyOnly
<1> HIDE DEF n
<1>6. Only(mem, n, p) /\ OffQueues(n, p)
  BY <1>4, <1>5, OnlyTwice DEF OffQueues
<1>7. /\ r \in ThreadRecords /\ r.first = th[t].first
      /\ r.pc = IF th[t].locked THEN "copy" ELSE "relookup"
      /\ r.page = p /\ r.offset = th[t].offset
  BY <1>1 DEF ThreadRecords
<1> HIDE DEF r
<1>8. Moved(th, t, r, th')
  BY <1>1, <1>2, <1>7, MovedAlone
<1>9. First(th') = First(th)
  BY <1>1, <1>7, <1>8, FirstMoved
<1>10. /\ Free(n) = Free(mem) /\ ObjectsOK(n, entry, First(th))
       /\ n.pageout_in_progress = mem.pageout_in_progress
       /\ \A q \in Pages \ {p} : Keeps(mem, n, q) /\ n.object[q] = mem.object[q]
  BY <1>1, <1>5, <1>6, OnlyKeeps
<1>11. Spared(mem, n, th, t, dm)
  BY <1>3, <1>10, OwnPageSpared DEF IInv
<1>12. ThreadOK(n, r)
  <2>1. n.offset[p] = th[t].offset
    BY <1>3, <1>6 DEF Only
  <2> QED
    BY <1>1, <1>2, <1>3, <1>5, <1>6, <1>7, <1>10, <2>1 DEF ThreadOK, Works, Outside
<1>13. \A u \in Threads \ {t} : th[u].pc \in Holds => th[u].page # r.page
  BY <1>1, <1>3, <1>7
<1>14. Locked(lock, lock', t, r) /\ Poked(dm, dm)
  BY <1>1, <1>2, <1>7, VMFaultAssumption DEF Locked, Locking, Poked
<1>15. Sound(n, entry, lock', th', dm)
  BY <1>1, <1>5, <1>8, <1>9, <1>10, <1>11, <1>12, <1>13, <1>14, ThreadAction DEF IInv
<1> QED
  BY <1>2, <1>15 DEF IInv, Take

(* Finding the map unchanged keeps the invariant.                          *)
LEMMA MapUnchangedKeeps ==
  ASSUME IInv, NEW t \in Threads, MapUnchanged(t)
  PROVE  IInv'
<1> DEFINE p == th[t].page
           r == [th[t] EXCEPT !.pc = "copy"]
           n == SetBusy(mem, p, FALSE)
<1>1. /\ th \in [Threads -> ThreadRecords] /\ th[t] \in ThreadRecords /\ mem \in Memories
      /\ entry \in EntryMaps /\ ThreadOK(mem, th[t])
      /\ ObjectsOK(mem, entry, First(th)) /\ Queued(mem)
      /\ th[t].pc \in Holds =>
           \A u \in Threads \ {t} : th[u].pc \in Holds => th[u].page # th[t].page
  BY ThreadNow
<1>2. th[t].pc = "same" /\ lock = NoOne /\ lock' = t /\ mem' = n
  BY DEF MapUnchanged
<1>3. /\ p \in Pages /\ p \notin Free(mem) /\ mem.offset[p] = th[t].offset
      /\ th[t].pc \in Holds /\ OffQueues(mem, p)
  BY <1>1, <1>2 DEF ThreadOK, Holds, Works
<1>4. /\ n \in Memories /\ Only(mem, n, p) /\ Queued(n) /\ n.busy[p] = FALSE
      /\ n.active = mem.active /\ n.reclaimable = mem.reclaimable
  <2>1. n \in Memories /\ Only(mem, n, p) /\ Queued(n) /\ n.busy[p] = FALSE
    BY <1>1, <1>3, SetBusyOnly
  <2>2. n.active = mem.active /\ n.reclaimable = mem.reclaimable
    BY DEF SetBusy
  <2> QED
    BY <2>1, <2>2
<1>5. /\ r \in ThreadRecords /\ r.pc = "copy" /\ r.first = th[t].first
      /\ r.page = p /\ r.offset = th[t].offset
  BY <1>1 DEF ThreadRecords
<1>6. Moved(th, t, r, th')
  <2>1. StepWaking(t, r, p)
    BY DEF MapUnchanged
  <2> HIDE DEF r, p
  <2> QED
    BY <1>1, <1>5, <2>1, MovedWaking DEF StepWaking, PageWaitersWoken
<1> HIDE DEF r, n
<1>7. First(th') = First(th)
  BY <1>1, <1>5, <1>6, FirstMoved
<1>8. /\ Free(n) = Free(mem) /\ ObjectsOK(n, entry, First(th))
      /\ n.pageout_in_progress = mem.pageout_in_progress
      /\ \A q \in Pages \ {p} : Keeps(mem, n, q) /\ n.object[q] = mem.object[q]
  BY <1>1, <1>4, OnlyKeeps
<1>9. Spared(mem, n, th, t, dm)
  BY <1>3, <1>8, OwnPageSpared DEF IInv
<1>10. ThreadOK(n, r)
  <2>1. n.offset[p] = th[t].offset /\ OffQueues(n, p)
    BY <1>3, <1>4 DEF Only, OffQueues
  <2> QED
    BY <1>1, <1>2, <1>3, <1>4, <1>5, <1>8, <2>1 DEF ThreadOK, Works, Outside
<1>11. \A u \in Threads \ {t} : th[u].pc \in Holds => th[u].page # r.page
  BY <1>1, <1>3, <1>5
<1>12. Locked(lock, lock', t, r) /\ Poked(dm, dm)
  BY <1>1, <1>2, <1>5 DEF Locked, Locking, Poked
<1>13. Sound(n, entry, lock', th', dm)
  BY <1>1, <1>4, <1>6, <1>7, <1>8, <1>9, <1>10, <1>11, <1>12, ThreadAction DEF IInv
<1> QED
  BY <1>2, <1>13 DEF IInv, MapUnchanged

(* The page is no longer busy and goes on the active queue, and the        *)
(* reference of the fault is given up.                                     *)
LEMMA ReleaseDoes ==
  ASSUME IInv, NEW t \in Threads, th[t].pc \in {"changed", "finish"}
  PROVE  LET p == th[t].page
             n == LetGo(Activate(SetBusy(mem, p, FALSE), p), t) IN
         /\ n \in Memories /\ Queued(n) /\ Spared(mem, n, th, t, dm)
         /\ ObjectsOK(n, entry, [First(th) EXCEPT ![t] = NoObject])
<1> DEFINE p == th[t].page
           k == SetBusy(mem, p, FALSE)
           j == Activate(k, p)
           n == LetGo(j, t)
<1>1. /\ mem \in Memories /\ DOMAIN entry = DOMAIN InitEntry
      /\ ThreadOK(mem, th[t]) /\ ObjectsOK(mem, entry, First(th)) /\ Queued(mem)
  BY ThreadNow
<1>2. p \in Pages /\ p \notin Free(mem) /\ OffQueues(mem, p) /\ th[t].pc \in Holds
  BY <1>1 DEF ThreadOK, Holds, Works
<1>3. k \in Memories /\ Only(mem, k, p) /\ Queued(k)
  BY <1>1, <1>2, SetBusyOnly
<1>4. OffQueues(k, p)
  <2>1. k.active = mem.active /\ k.reclaimable = mem.reclaimable
    BY DEF SetBusy
  <2> QED
    BY <1>2, <2>1 DEF OffQueues
<1> HIDE DEF k
<1>5. p \notin Free(k)
  BY <1>1, <1>2, <1>3, OnlyKeeps
<1>6. j \in Memories /\ Only(k, j, p) /\ Queued(j)
  BY <1>2, <1>3, <1>4, <1>5, ActivateOnly
<1> HIDE DEF j
<1>7. Only(mem, j, p)
  BY <1>3, <1>6, OnlyTwice
<1>8. /\ ObjectsOK(j, entry, First(th)) /\ j.pageout_in_progress = mem.pageout_in_progress
      /\ \A q \in Pages \ {p} : Keeps(mem, j, q) /\ j.object[q] = mem.object[q]
  BY <1>1, <1>6, <1>7, OnlyKeeps
<1>9. /\ n \in Memories /\ SamePages(j, n)
      /\ n.pageout_in_progress = j.pageout_in_progress
      /\ ObjectsOK(n, entry, [First(th) EXCEPT ![t] = NoObject])
  BY <1>1, <1>6, <1>8, LetGoDoes DEF Outside
<1> HIDE DEF n
<1>10. Queued(n) /\ \A q \in Pages : Keeps(j, n, q) /\ n.object[q] = j.object[q]
  BY <1>6, <1>9, SamePagesKeep
<1>11. \A q \in Pages \ {p} : Keeps(mem, n, q) /\ n.object[q] = mem.object[q]
  BY <1>8, <1>10 DEF Keeps
<1>12. Spared(mem, n, th, t, dm)
  BY <1>2, <1>8, <1>9, <1>11, OwnPageSpared DEF IInv
<1> QED
  BY <1>9, <1>10, <1>12 DEF n, j, k

(* Finding the map changed gives the page up and keeps the invariant.      *)
LEMMA MapChangedKeeps ==
  ASSUME IInv, NEW t \in Threads, MapChanged(t)
  PROVE  IInv'
<1> DEFINE p == th[t].page
           r == [GivenUp(t) EXCEPT !.pc = "lookup", !.page = NoPage]
           n == LetGo(Activate(SetBusy(mem, p, FALSE), p), t)
<1>1. /\ th \in [Threads -> ThreadRecords] /\ entry \in EntryMaps
      /\ (lock = t <=> th[t].pc \in Locking)
  BY ThreadNow
<1>2. th[t].pc = "changed" /\ mem' = n
  BY DEF MapChanged
<1>3. /\ n \in Memories /\ Queued(n) /\ Spared(mem, n, th, t, dm)
      /\ ObjectsOK(n, entry, [First(th) EXCEPT ![t] = NoObject])
  BY <1>2, ReleaseDoes
<1>4. r \in ThreadRecords /\ r.pc = "lookup" /\ r.first = NoObject
  BY GivenUpIs DEF ThreadRecords
<1>5. Moved(th, t, r, th')
  <2>1. StepWaking(t, r, p)
    BY DEF MapChanged
  <2> HIDE DEF r, p
  <2> QED
    BY <1>1, <1>4, <2>1, MovedWaking DEF StepWaking, PageWaitersWoken
<1> HIDE DEF r, n
<1>6. First(th') = [First(th) EXCEPT ![t] = NoObject]
  BY <1>1, <1>4, <1>5, FirstMoved
<1>7. ThreadOK(n, r) /\ r.pc \notin Holds
  BY <1>4 DEF ThreadOK, Holds, Works, Outside
<1>8. Locked(lock, lock, t, r) /\ Poked(dm, dm)
  BY <1>1, <1>2, <1>4 DEF Locked, Locking, Poked
<1>9. Sound(n, entry, lock, th', dm)
  BY <1>1, <1>3, <1>5, <1>6, <1>7, <1>8, ThreadAction DEF IInv
<1> QED
  BY <1>2, <1>9 DEF IInv, MapChanged

(* The end of the fault keeps the invariant.                               *)
LEMMA FinishKeeps ==
  ASSUME IInv, NEW t \in Threads, Finish(t)
  PROVE  IInv'
<1> DEFINE p == th[t].page
           r == Idle
           n == LetGo(Activate(SetBusy(mem, p, FALSE), p), t)
<1>1. /\ th \in [Threads -> ThreadRecords] /\ entry \in EntryMaps
      /\ (lock = t <=> th[t].pc \in Locking)
  BY ThreadNow
<1>2. th[t].pc = "finish" /\ mem' = n
  BY DEF Finish
<1>3. /\ n \in Memories /\ Queued(n) /\ Spared(mem, n, th, t, dm)
      /\ ObjectsOK(n, entry, [First(th) EXCEPT ![t] = NoObject])
  BY <1>2, ReleaseDoes
<1>4. r \in ThreadRecords /\ r.pc = "idle" /\ r.first = NoObject
  <2>1. (CHOOSE f \in Offsets : TRUE) \in Offsets
    BY VMFaultAssumption
  <2> QED
    BY <2>1 DEF Idle, ThreadRecords
<1>5. Moved(th, t, r, th')
  <2>1. StepWaking(t, r, p)
    BY DEF Finish
  <2> HIDE DEF r, p
  <2> QED
    BY <1>1, <1>4, <2>1, MovedWaking DEF StepWaking, PageWaitersWoken
<1> HIDE DEF r, n
<1>6. First(th') = [First(th) EXCEPT ![t] = NoObject]
  BY <1>1, <1>4, <1>5, FirstMoved
<1>7. ThreadOK(n, r) /\ r.pc \notin Holds
  BY <1>4 DEF ThreadOK, Holds, Works, Outside
<1>8. Locked(lock, lock, t, r) /\ Poked(dm, dm)
  BY <1>1, <1>2, <1>4 DEF Locked, Locking, Poked
<1>9. Sound(n, entry, lock, th', dm)
  BY <1>1, <1>3, <1>5, <1>6, <1>7, <1>8, ThreadAction DEF IInv
<1> QED
  BY <1>2, <1>9 DEF IInv, Finish

(* Entering the page in the physical map keeps the invariant.              *)
LEMMA EnterPmapKeeps ==
  ASSUME IInv, NEW t \in Threads, EnterPmap(t)
  PROVE  IInv'
<1> DEFINE p == th[t].page
           r == [th[t] EXCEPT !.pc = "finish"]
           n == PmapEnter(mem, MapOf[t], p, th[t].prot)
<1>1. /\ th \in [Threads -> ThreadRecords] /\ th[t] \in ThreadRecords /\ mem \in Memories
      /\ entry \in EntryMaps /\ ThreadOK(mem, th[t])
      /\ ObjectsOK(mem, entry, First(th)) /\ Queued(mem)
      /\ lock = t <=> th[t].pc \in Locking
      /\ th[t].pc \in Holds =>
           \A u \in Threads \ {t} : th[u].pc \in Holds => th[u].page # th[t].page
  BY ThreadNow
<1>2. th[t].pc = "map" /\ mem' = n /\ th' = [th EXCEPT ![t] = r]
  BY DEF EnterPmap, Step
<1>3. /\ p \in Pages /\ th[t].pc \in Holds /\ MapOf[t] \in Maps /\ th[t].prot \in BOOLEAN
  BY <1>1, <1>2, VMFaultAssumption DEF ThreadOK, Holds, Works, ThreadRecords
<1>4. /\ n \in Memories
      /\ n.object = mem.object /\ n.offset = mem.offset /\ n.active = mem.active
      /\ n.reclaimable = mem.reclaimable /\ n.busy = mem.busy /\ SameObjects(mem, n)
  <2>1. n \in Memories
    BY <1>1, <1>3, PmapEnterDoes
  <2> QED
    BY <2>1 DEF PmapEnter, SameObjects
<1>5. Queued(n)
  BY <1>1, <1>3, PmapEnterDoes
<1> HIDE DEF n
<1>6. /\ r \in ThreadRecords /\ r.pc = "finish" /\ r.first = th[t].first
      /\ r.page = p /\ r.offset = th[t].offset
  BY <1>1 DEF ThreadRecords
<1> HIDE DEF r
<1>7. Moved(th, t, r, th')
  BY <1>1, <1>2, <1>6, MovedAlone
<1>8. First(th') = First(th)
  BY <1>1, <1>6, <1>7, FirstMoved
<1>9. Only(mem, n, p)
  BY <1>4 DEF Only
<1>10. /\ Free(n) = Free(mem) /\ ObjectsOK(n, entry, First(th))
       /\ n.pageout_in_progress = mem.pageout_in_progress
       /\ \A q \in Pages \ {p} : Keeps(mem, n, q) /\ n.object[q] = mem.object[q]
  BY <1>1, <1>4, <1>9, OnlyKeeps
<1>11. Spared(mem, n, th, t, dm)
  BY <1>3, <1>10, OwnPageSpared DEF IInv
<1>12. ThreadOK(n, r)
  BY <1>1, <1>2, <1>3, <1>4, <1>6, <1>10 DEF ThreadOK, Works, Holds, Outside, OffQueues
<1>13. \A u \in Threads \ {t} : th[u].pc \in Holds => th[u].page # r.page
  BY <1>1, <1>3, <1>6
<1>14. Locked(lock, lock, t, r) /\ Poked(dm, dm)
  BY <1>1, <1>2, <1>6 DEF Locked, Locking, Poked
<1>15. Sound(n, entry, lock, th', dm)
  BY <1>1, <1>4, <1>5, <1>7, <1>8, <1>10, <1>11, <1>12, <1>13, <1>14, ThreadAction DEF IInv
<1> QED
  BY <1>2, <1>15 DEF IInv, EnterPmap

(***************************************************************************)
(* Steps that collapse.                                                    *)
(***************************************************************************)

(* The part of the invariant a thread sees, of any memory.                 *)
LEMMA SoundNow ==
  ASSUME NEW m, NEW e, NEW l, NEW h, NEW d, Sound(m, e, l, h, d), NEW t \in Threads
  PROVE  /\ m \in Memories /\ e \in EntryMaps /\ DOMAIN e = DOMAIN InitEntry
         /\ h \in [Threads -> ThreadRecords] /\ h[t] \in ThreadRecords
         /\ d \in DaemonRecords /\ Queued(m) /\ ThreadOK(m, h[t])
         /\ l = t <=> h[t].pc \in Locking
         /\ h[t].pc \in Holds =>
              \A u \in Threads \ {t} : h[u].pc \in Holds => h[u].page # h[t].page
         /\ ObjectsOK(m, e, First(h))
         /\ First(h)[t] = h[t].first /\ DOMAIN First(h) = Threads
         /\ h[t].first \in Objects => m.live[h[t].first]
<1>1. /\ m \in Memories /\ e \in EntryMaps /\ DOMAIN e = DOMAIN InitEntry
      /\ h \in [Threads -> ThreadRecords] /\ d \in DaemonRecords /\ Queued(m)
      /\ ThreadsOK(m, h) /\ LocksOK(l, h, d) /\ ObjectsOK(m, e, First(h))
  BY DEF Sound, EntryMaps
<1>2. /\ ThreadOK(m, h[t])
      /\ l = t <=> h[t].pc \in Locking
      /\ h[t].pc \in Holds =>
              \A u \in Threads \ {t} : h[u].pc \in Holds => h[u].page # h[t].page
  BY <1>1 DEF ThreadsOK, LocksOK
<1>3. First(h)[t] = h[t].first /\ DOMAIN First(h) = Threads
  BY DEF First
<1>4. h[t].first \in Objects => m.live[h[t].first]
  BY <1>1, <1>3, ReferredLive DEF ObjectsOK
<1> QED
  BY <1>1, <1>2, <1>3, <1>4

(* vm_object_collapse, when it frees nobody's page.                        *)
LEMMA CollapseSound ==
  ASSUME NEW m, NEW e, NEW l, NEW h, NEW d, Sound(m, e, l, h, d),
         NEW o \in Objects, m.live[o],
         \A t \in Threads : h[t].pc \in Holds => h[t].page \notin Free(Collapse(m, o)),
         d.pc = "scan" /\ d.cur # NoPage => m.object[d.cur] = o
  PROVE  LET n == Collapse(m, o) IN Sound(n, e, l, h, d) /\ Shrunk(m, n, o)
<1> DEFINE n == Collapse(m, o)
<1>1. /\ m \in Memories /\ e \in EntryMaps /\ DOMAIN e = DOMAIN InitEntry
      /\ Queued(m) /\ ThreadsOK(m, h) /\ DaemonOK(m, d) /\ ObjectsOK(m, e, First(h))
      /\ d \in DaemonRecords
  BY DEF Sound, EntryMaps
<1>2. n \in Memories /\ Queued(n) /\ ObjectsOK(n, e, First(h)) /\ Shrunk(m, n, o)
  BY <1>1, CollapseDoes
<1>3. \A t \in Threads : h[t].pc \in Holds => h[t].page \notin Free(n)
  OBVIOUS
<1> HIDE DEF n
<1>4. /\ n.offset = m.offset /\ n.pageout_in_progress = m.pageout_in_progress
      /\ \A p \in Pages \ Free(n) :
           /\ p \notin Free(m)
           /\ n.busy[p] = m.busy[p] /\ n.active[p] = m.active[p]
           /\ n.reclaimable[p] = m.reclaimable[p]
      /\ \A p \in Pages \ Free(m) :
           m.object[p] = o \/ m.pageout_in_progress[m.object[p]] => n.object[p] = m.object[p]
  BY <1>2 DEF Shrunk
<1>5. ASSUME NEW t \in Threads PROVE ThreadOK(n, h[t])
  <2>1. ThreadOK(m, h[t])
    BY <1>1 DEF ThreadsOK
  <2> QED
    BY <1>3, <1>4, <2>1 DEF ThreadOK, OffQueues
<1>6. ThreadsOK(n, h)
  BY <1>1, <1>5 DEF ThreadsOK
<1>7. ASSUME NEW p \in Pages, m.reclaimable[p],
             m.object[p] = o \/ m.pageout_in_progress[m.object[p]]
      PROVE  n.object[p] = m.object[p] /\ n.reclaimable[p] /\ n.busy[p] = m.busy[p]
  <2>1. p \notin Free(m)
    BY <1>1, <1>7 DEF Queued, OffQueues
  <2>2. n.object[p] = m.object[p]
    BY <1>4, <1>7, <2>1
  <2>3. p \notin Free(n)
    BY <2>1, <2>2 DEF Free
  <2> QED
    BY <1>4, <1>7, <2>2, <2>3
<1>8. DaemonOK(n, d)
  <2>1. d.cur # NoPage => d.cur \in Pages
    BY <1>1 DEF DaemonRecords
  <2>2. d.pc = "scan" /\ d.cur # NoPage => n.reclaimable[d.cur]
    BY <1>1, <1>7, <2>1 DEF DaemonOK
  <2>3. ASSUME d.pc \in Writes
        PROVE  /\ d.cur \in Pages /\ n.busy[d.cur] /\ n.reclaimable[d.cur]
               /\ d.object \in Objects /\ n.object[d.cur] = d.object
               /\ n.pageout_in_progress[d.object]
    BY <1>1, <1>4, <1>7, <2>3 DEF DaemonOK
  <2> QED
    BY <1>1, <2>2, <2>3 DEF DaemonOK
<1>9. Sound(n, e, l, h, d)
  BY <1>2, <1>6, <1>8 DEF Sound
<1> QED
  BY <1>2, <1>9 DEF n

(* The collapse of a thread that copies a page.                            *)
LEMMA CollapsedSound ==
  ASSUME IInv, NEW t \in Threads, Copying(t), NotOwn(t), th[t].write, ~Frees(th[t].first)
  PROVE  Sound(Collapsed(t), entry, lock, th, dm)
<1> DEFINE o == th[t].first
<1>1. /\ th[t] \in ThreadRecords /\ ThreadOK(mem, th[t])
      /\ o \in Objects => mem.live[o]
  BY ThreadNow
<1>2. th[t].pc = "copy" /\ lock = t
  BY DEF Copying
<1>3. o \in Objects /\ mem.live[o]
  BY <1>1, <1>2 DEF ThreadOK, Outside, ThreadRecords
<1>5. \A u \in Threads : th[u].pc \in Holds => th[u].page \notin Free(Collapse(mem, o))
  BY DEF Frees
<1>6. dm.pc # "scan"
  BY <1>2, VMFaultAssumption DEF IInv, Sound, LocksOK
<1>7. Sound(mem, entry, lock, th, dm) /\ Collapsed(t) = Collapse(mem, o)
  BY DEF IInv, Collapsed
<1> HIDE DEF o
<1> QED
  BY <1>3, <1>5, <1>6, <1>7, CollapseSound

(* Using the page of the first object keeps the invariant.                 *)
LEMMA UsePageKeeps ==
  ASSUME IInv, ~PageTaken, NEW t \in Threads, UsePage(t)
  PROVE  IInv'
<1> DEFINE k == IF NotOwn(t) /\ th[t].write THEN Collapsed(t) ELSE mem
           p == th[t].page
           r == [th[t] EXCEPT !.pc = "map", !.prot = th[t].prot /\ (NotOwn(t) => th[t].write)]
           n == SetBusy(k, p, TRUE)
<1>1. Copying(t) /\ mem' = n /\ lock' = NoOne /\ th' = [th EXCEPT ![t] = r]
  BY DEF UsePage, Step
<1>2. Sound(k, entry, lock, th, dm)
  BY <1>1, CollapsedSound DEF IInv, PageTaken
<1> HIDE DEF k
<1>3. /\ th \in [Threads -> ThreadRecords] /\ th[t] \in ThreadRecords /\ k \in Memories
      /\ entry \in EntryMaps /\ ThreadOK(k, th[t])
      /\ ObjectsOK(k, entry, First(th)) /\ Queued(k)
      /\ th[t].pc \in Holds =>
           \A u \in Threads \ {t} : th[u].pc \in Holds => th[u].page # th[t].page
  BY <1>2, SoundNow
<1>4. th[t].pc = "copy" /\ lock = t
  BY <1>1 DEF Copying
<1>5. /\ p \in Pages /\ p \notin Free(k) /\ k.offset[p] = th[t].offset
      /\ th[t].pc \in Holds /\ OffQueues(k, p)
  BY <1>3, <1>4 DEF ThreadOK, Holds, Works
<1>6. /\ n \in Memories /\ Only(k, n, p) /\ Queued(n) /\ n.busy[p] = TRUE
  BY <1>3, <1>5, SetBusyOnly
<1>7. n.active = k.active /\ n.reclaimable = k.reclaimable
  BY DEF SetBusy
<1> HIDE DEF n
<1>8. /\ r \in ThreadRecords /\ r.pc = "map" /\ r.first = th[t].first
      /\ r.page = p /\ r.offset = th[t].offset
  <2>1. (th[t].prot /\ (NotOwn(t) => th[t].write)) \in BOOLEAN
    BY <1>3 DEF ThreadRecords
  <2> QED
    BY <1>3, <2>1 DEF ThreadRecords
<1> HIDE DEF r
<1>9. Moved(th, t, r, th')
  BY <1>1, <1>3, <1>8, MovedAlone
<1>10. First(th') = First(th)
  BY <1>3, <1>8, <1>9, FirstMoved
<1>11. /\ Free(n) = Free(k) /\ ObjectsOK(n, entry, First(th))
      /\ n.pageout_in_progress = k.pageout_in_progress
      /\ \A q \in Pages \ {p} : Keeps(k, n, q) /\ n.object[q] = k.object[q]
  BY <1>3, <1>6, OnlyKeeps
<1>12. Spared(k, n, th, t, dm)
  BY <1>2, <1>5, <1>11, OwnPageSpared
<1>13. ThreadOK(n, r)
  <2>1. n.offset[p] = th[t].offset /\ OffQueues(n, p)
    BY <1>5, <1>6, <1>7 DEF Only, OffQueues
  <2> QED
    BY <1>3, <1>4, <1>5, <1>6, <1>8, <1>11, <2>1 DEF ThreadOK, Works, Outside
<1>14. \A u \in Threads \ {t} : th[u].pc \in Holds => th[u].page # r.page
  BY <1>3, <1>5, <1>8
<1>15. Locked(lock, NoOne, t, r) /\ Poked(dm, dm)
  BY <1>3, <1>4, <1>8, VMFaultAssumption DEF Locked, Locking, Poked
<1>16. Sound(n, entry, NoOne, th', dm)
  BY <1>2, <1>3, <1>6, <1>9, <1>10, <1>11, <1>12, <1>13, <1>14, <1>15, ThreadAction
<1> QED
  BY <1>1, <1>16 DEF IInv, UsePage

(* The new page is filled, the old one goes its way.                       *)
LEMMA CopyDoes ==
  ASSUME NEW m \in Memories, Queued(m), NEW e, NEW first, ObjectsOK(m, e, first),
         NEW old \in Pages, old \notin Free(m), OffQueues(m, old),
         NEW new \in Free(m), NEW o \in Objects, m.live[o], NEW f \in Offsets,
         NEW bit \in BOOLEAN, NEW single \in BOOLEAN
  PROVE  LET c == Alloc(m, new, o, f)
             n == IF single THEN Activate(c, old)
                  ELSE Reclaim(PmapRemoveAll(c, old, bit), old)
         IN
         /\ n \in Memories /\ Queued(n) /\ ObjectsOK(n, e, first)
         /\ new \in Pages /\ new # old
         /\ new \notin Free(n) /\ n.offset[new] = f /\ n.busy[new] /\ OffQueues(n, new)
         /\ n.pageout_in_progress = m.pageout_in_progress
         /\ \A q \in Pages \ {old, new} : Keeps(m, n, q) /\ n.object[q] = m.object[q]
<1> DEFINE c == Alloc(m, new, o, f)
           k == PmapRemoveAll(c, old, bit)
           n == IF single THEN Activate(c, old) ELSE Reclaim(k, old)
<1>1. /\ c \in Memories /\ Queued(c) /\ ObjectsOK(c, e, first)
      /\ new \in Pages /\ new \notin Free(c) /\ c.offset[new] = f /\ c.busy[new]
      /\ OffQueues(c, new)
      /\ c.pageout_in_progress = m.pageout_in_progress
      /\ \A q \in Pages \ {new} : Keeps(m, c, q) /\ c.object[q] = m.object[q]
  BY AllocObjects
<1>2. new # old
  OBVIOUS
<1>3. OffQueues(c, old) /\ old \notin Free(c)
  BY <1>1, <1>2 DEF Keeps, OffQueues
<1> HIDE DEF c
<1>4. n \in Memories /\ Queued(n) /\ Only(c, n, old)
  <2>1. CASE single
    BY <1>1, <1>3, <2>1, ActivateOnly
  <2>2. CASE ~single
    <3>1. /\ k \in Memories /\ Queued(k)
          /\ k.object = c.object /\ k.offset = c.offset /\ k.active = c.active
          /\ k.reclaimable = c.reclaimable /\ k.busy = c.busy /\ SameObjects(c, k)
      <4>1. k \in Memories /\ Queued(k)
        BY <1>1, PmapRemoveAllDoes
      <4> QED
        BY <4>1 DEF PmapRemoveAll, SameObjects
    <3> HIDE DEF k
    <3>2. n = k
      BY <1>3, <2>2, <3>1 DEF Reclaim, OffQueues
    <3> QED
      BY <3>1, <3>2 DEF Only
  <2> QED
    BY <2>1, <2>2
<1> HIDE DEF n
<1>5. /\ Free(n) = Free(c) /\ ObjectsOK(n, e, first)
      /\ n.pageout_in_progress = c.pageout_in_progress
      /\ \A q \in Pages \ {old} : Keeps(c, n, q) /\ n.object[q] = c.object[q]
  BY <1>1, <1>4, OnlyKeeps
<1>6. \A q \in Pages \ {old, new} : Keeps(m, n, q) /\ n.object[q] = m.object[q]
  BY <1>1, <1>5 DEF Keeps
<1>7. new \notin Free(n) /\ n.offset[new] = f /\ n.busy[new] /\ OffQueues(n, new)
  BY <1>1, <1>2, <1>5 DEF Keeps, OffQueues
<1> QED
  BY <1>1, <1>2, <1>4, <1>5, <1>6, <1>7 DEF c, k, n

(* Copying the page into the first object, and the collapse after it, keep *)
(* the invariant.                                                          *)
LEMMA CopyPageKeeps ==
  ASSUME IInv, ~PageTaken, NEW t \in Threads, CopyPage(t)
  PROVE  IInv'
<1> DEFINE k == Collapsed(t)
           old == th[t].page
           single == SingleUse(MapOf[t])
<1>1. Copying(t) /\ NotOwn(t) /\ th[t].write /\ lock' = NoOne
  BY DEF CopyPage, MustCopy
<1>2. Sound(k, entry, lock, th, dm)
  BY <1>1, CollapsedSound DEF PageTaken
<1>3. PICK new \in Free(k), bit \in ModifyBits(mem, old) :
        LET copied == Alloc(k, new, th[t].first, th[t].offset)
        IN  /\ mem' = IF single THEN Activate(copied, old)
                      ELSE Reclaim(PmapRemoveAll(copied, old, bit), old)
            /\ Step(t, [th[t] EXCEPT !.pc = "map", !.page = new])
  BY DEF CopyPage
<1> DEFINE r == [th[t] EXCEPT !.pc = "map", !.page = new]
           c == Alloc(k, new, th[t].first, th[t].offset)
           n == IF single THEN Activate(c, old) ELSE Reclaim(PmapRemoveAll(c, old, bit), old)
<1>4. mem' = n /\ th' = [th EXCEPT ![t] = r]
  BY <1>3 DEF Step
<1> HIDE DEF k
<1>5. /\ th \in [Threads -> ThreadRecords] /\ th[t] \in ThreadRecords /\ k \in Memories
      /\ entry \in EntryMaps /\ ThreadOK(k, th[t]) /\ dm \in DaemonRecords
      /\ ObjectsOK(k, entry, First(th)) /\ Queued(k)
      /\ th[t].first \in Objects => k.live[th[t].first]
  BY <1>2, SoundNow
<1>6. th[t].pc = "copy" /\ lock = t
  BY <1>1 DEF Copying
<1>7. /\ old \in Pages /\ old \notin Free(k) /\ th[t].offset \in Offsets
      /\ th[t].pc \in Holds /\ OffQueues(k, old)
      /\ th[t].first \in Objects /\ k.live[th[t].first]
  BY <1>5, <1>6 DEF ThreadOK, Holds, Works, ThreadRecords, Outside
<1>8. bit \in BOOLEAN /\ single \in BOOLEAN
  BY DEF ModifyBits, SingleUse
<1> HIDE DEF single, old
<1>9. /\ n \in Memories /\ Queued(n) /\ ObjectsOK(n, entry, First(th))
      /\ new \in Pages /\ new # old
      /\ new \notin Free(n) /\ n.offset[new] = th[t].offset /\ n.busy[new] /\ OffQueues(n, new)
      /\ n.pageout_in_progress = k.pageout_in_progress
      /\ \A q \in Pages \ {old, new} : Keeps(k, n, q) /\ n.object[q] = k.object[q]
  BY <1>3, <1>5, <1>7, <1>8, CopyDoes
<1> HIDE DEF n
<1>10. /\ r \in ThreadRecords /\ r.pc = "map" /\ r.first = th[t].first
       /\ r.page = new /\ r.offset = th[t].offset
  BY <1>5, <1>9 DEF ThreadRecords
<1> HIDE DEF r
<1>11. Moved(th, t, r, th')
  BY <1>4, <1>5, <1>10, MovedAlone
<1>12. First(th') = First(th)
  BY <1>5, <1>10, <1>11, FirstMoved
<1>13. Spared(k, n, th, t, dm)
  <2>1. /\ {old, new} \in SUBSET Pages
        /\ \A x \in {old, new} : x \in Free(k) \/ (th[t].pc \in Holds /\ x = th[t].page)
    BY <1>3, <1>7, <1>9 DEF old
  <2> QED
    BY <1>2, <1>9, <2>1, SparedBut
<1>14. ThreadOK(n, r)
  BY <1>5, <1>6, <1>9, <1>10 DEF ThreadOK, Works, Outside
<1>15. \A u \in Threads \ {t} : th[u].pc \in Holds => th[u].page # r.page
  BY <1>2, <1>3, <1>9, <1>10, Apart
<1>16. Locked(lock, NoOne, t, r) /\ Poked(dm, dm')
  <2>1. WakeDaemon \/ dm' = dm
    BY DEF CopyPage, PokeDaemon
  <2> QED
    BY <1>5, <1>6, <1>10, <2>1, WakeIs, VMFaultAssumption DEF Locked, Locking
<1>17. Sound(n, entry, NoOne, th', dm')
  BY <1>2, <1>5, <1>9, <1>11, <1>12, <1>13, <1>14, <1>15, <1>16, ThreadAction
<1> QED
  BY <1>1, <1>4, <1>17 DEF IInv, CopyPage

(* Finding no page to copy into keeps the invariant.                       *)
LEMMA CopyNoMemoryKeeps ==
  ASSUME IInv, ~PageTaken, NEW t \in Threads, CopyNoMemory(t)
  PROVE  IInv'
<1> DEFINE k == Collapsed(t)
           p == th[t].page
           j == Activate(k, p)
           n == LetGo(j, t)
           r == [GivenUp(t) EXCEPT !.pc = "short", !.page = NoPage]
<1>1. /\ Copying(t) /\ NotOwn(t) /\ th[t].write /\ lock' = NoOne
      /\ mem' = n /\ th' = [th EXCEPT ![t] = r]
  BY DEF CopyNoMemory, MustCopy, Step
<1>2. Sound(k, entry, lock, th, dm)
  BY <1>1, CollapsedSound DEF PageTaken
<1> HIDE DEF k
<1>3. /\ th \in [Threads -> ThreadRecords] /\ k \in Memories
      /\ entry \in EntryMaps /\ ThreadOK(k, th[t]) /\ DOMAIN entry = DOMAIN InitEntry
      /\ ObjectsOK(k, entry, First(th)) /\ Queued(k)
  BY <1>2, SoundNow
<1>4. th[t].pc = "copy" /\ lock = t
  BY <1>1 DEF Copying
<1>5. p \in Pages /\ p \notin Free(k) /\ th[t].pc \in Holds /\ OffQueues(k, p)
  BY <1>3, <1>4 DEF ThreadOK, Holds, Works
<1>6. j \in Memories /\ Only(k, j, p) /\ Queued(j)
  BY <1>3, <1>5, ActivateOnly
<1> HIDE DEF j
<1>7. /\ ObjectsOK(j, entry, First(th)) /\ j.pageout_in_progress = k.pageout_in_progress
      /\ \A q \in Pages \ {p} : Keeps(k, j, q) /\ j.object[q] = k.object[q]
  BY <1>3, <1>6, OnlyKeeps
<1>8. /\ n \in Memories /\ SamePages(j, n)
      /\ n.pageout_in_progress = j.pageout_in_progress
      /\ ObjectsOK(n, entry, [First(th) EXCEPT ![t] = NoObject])
  BY <1>3, <1>4, <1>6, <1>7, LetGoDoes DEF Outside
<1> HIDE DEF n
<1>9. Queued(n) /\ \A q \in Pages : Keeps(j, n, q) /\ n.object[q] = j.object[q]
  BY <1>6, <1>8, SamePagesKeep
<1>10. \A q \in Pages \ {p} : Keeps(k, n, q) /\ n.object[q] = k.object[q]
  BY <1>7, <1>9 DEF Keeps
<1>11. Spared(k, n, th, t, dm)
  BY <1>2, <1>5, <1>7, <1>8, <1>10, OwnPageSpared
<1>12. r \in ThreadRecords /\ r.pc = "short" /\ r.first = NoObject
  BY GivenUpIs DEF ThreadRecords
<1> HIDE DEF r
<1>13. Moved(th, t, r, th')
  BY <1>1, <1>3, <1>12, MovedAlone
<1>14. First(th') = [First(th) EXCEPT ![t] = NoObject]
  BY <1>3, <1>12, <1>13, FirstMoved
<1>15. ThreadOK(n, r) /\ r.pc \notin Holds
  BY <1>12 DEF ThreadOK, Holds, Works, Outside
<1>16. Locked(lock, NoOne, t, r) /\ Poked(dm, dm)
  BY <1>4, <1>12, VMFaultAssumption DEF Locked, Locking, Poked
<1>17. Sound(n, entry, NoOne, th', dm)
  BY <1>2, <1>3, <1>8, <1>9, <1>11, <1>13, <1>14, <1>15, <1>16, ThreadAction
<1> QED
  BY <1>1, <1>17 DEF IInv, CopyNoMemory

(***************************************************************************)
(* The steps of the daemon.                                                *)
(***************************************************************************)

(* A step of the daemon.                                                   *)
LEMMA DaemonAction ==
  ASSUME NEW m, NEW e, NEW l, NEW h, NEW d, Sound(m, e, l, h, d),
         NEW n \in Memories, NEW l2, NEW h2 \in [Threads -> ThreadRecords],
         NEW d2 \in DaemonRecords,
         \A u \in Threads : h2[u] = h[u] \/ Woken(h[u], h2[u]),
         \A u \in Threads : h[u].pc \in Holds => Keeps(m, n, h[u].page),
         l2 = l \/ {l, l2} \subseteq {Daemon, NoOne},
         l2 = Daemon <=> d2.pc \in {"scan", "refill"},
         Queued(n), DaemonOK(n, d2), ObjectsOK(n, e, First(h))
  PROVE  Sound(n, e, l2, h2, d2)
<1>1. /\ h \in [Threads -> ThreadRecords] /\ e \in EntryMaps
      /\ ThreadsOK(m, h) /\ LocksOK(l, h, d) /\ l \in Threads \cup {Daemon, NoOne}
  BY DEF Sound
<1>2. ASSUME NEW u \in Threads, Woken(h[u], h2[u])
      PROVE  ThreadOK(n, h2[u]) /\ h2[u].pc \notin Holds
  <2>1. h[u].first = NoObject
    BY <1>1, <1>2 DEF ThreadsOK, ThreadOK, Woken, Outside
  <2> QED
    BY <1>2, <2>1 DEF ThreadOK, Woken, Holds, Works, Outside
<1>3. ASSUME NEW u \in Threads, h2[u] = h[u] PROVE ThreadOK(n, h2[u])
  <2>1. ThreadOK(m, h[u])
    BY <1>1 DEF ThreadsOK
  <2>2. h[u].pc \in Holds => Keeps(m, n, h[u].page)
    OBVIOUS
  <2> QED
    BY <1>3, <2>1, <2>2 DEF ThreadOK, Keeps, OffQueues
<1>4. ASSUME NEW u \in Threads, h2[u].pc \in Holds PROVE h2[u] = h[u]
  BY <1>2, <1>4
<1>5. ThreadsOK(n, h2)
  <2>1. \A u \in Threads : ThreadOK(n, h2[u])
    BY <1>2, <1>3
  <2> QED
    BY <1>1, <1>4, <2>1 DEF ThreadsOK
<1>6. LocksOK(l2, h2, d2)
  <2>1. ASSUME NEW u \in Threads PROVE l2 = u <=> h2[u].pc \in Locking
    <3>1. l2 = u <=> l = u
      BY VMFaultAssumption
    <3>2. h2[u].pc \in Locking <=> h[u].pc \in Locking
      BY DEF Woken, Locking
    <3> QED
      BY <1>1, <3>1, <3>2 DEF LocksOK
  <2> QED
    BY <2>1 DEF LocksOK
<1>7. First(h2) = First(h)
  BY DEF First, Woken
<1>8. l2 \in Threads \cup {Daemon, NoOne}
  BY <1>1
<1> QED
  BY <1>1, <1>5, <1>6, <1>7, <1>8 DEF Sound

(* The daemon's part of the invariant.                                     *)
LEMMA DaemonNow ==
  ASSUME NEW m, NEW e, NEW l, NEW h, NEW d, Sound(m, e, l, h, d)
  PROVE  /\ m \in Memories /\ h \in [Threads -> ThreadRecords] /\ d \in DaemonRecords
         /\ Queued(m) /\ DaemonOK(m, d) /\ ObjectsOK(m, e, First(h))
         /\ l \in Threads \cup {Daemon, NoOne}
         /\ l = Daemon <=> d.pc \in {"scan", "refill"}
         /\ \A u \in Threads : h[u] = h[u] \/ Woken(h[u], h[u])
         /\ \A u \in Threads : h[u].pc \in Holds => h[u].page \in Pages /\ Keeps(m, m, h[u].page)
BY DEF Sound, LocksOK, ThreadsOK, ThreadOK, Keeps

(* A page on a queue that the daemon looks at is nobody's.                 *)
LEMMA QueuedApart ==
  ASSUME NEW m, NEW e, NEW l, NEW h, NEW d, Sound(m, e, l, h, d),
         NEW p \in Pages, m.active[p] \/ m.reclaimable[p],
         l = Daemon \/ m.busy[p],
         NEW t \in Threads, h[t].pc \in Holds
  PROVE  h[t].page # p
<1>1. ThreadOK(m, h[t]) /\ LocksOK(l, h, d)
  BY DEF Sound, ThreadsOK
<1>2. SUFFICES ASSUME h[t].page = p PROVE FALSE
  OBVIOUS
<1>3. h[t].pc = "found" /\ l = t
  BY <1>1, <1>2 DEF ThreadOK, OffQueues, LocksOK, Locking
<1>4. ~m.busy[p]
  BY <1>1, <1>2, <1>3 DEF ThreadOK, Works
<1> QED
  BY <1>3, <1>4, VMFaultAssumption

(* The page after one of a queue is another of the queue, if any.          *)
LEMMA AfterIs ==
  ASSUME NEW q \in Seq(Pages), IsInjective(q), NEW p \in Range(q)
  PROVE  After(q, p) = NoPage \/ (After(q, p) \in Range(q) /\ After(q, p) # p)
<1> DEFINE i == CHOOSE i \in DOMAIN q : q[i] = p
<1>1. DOMAIN q = 1 .. Len(q) /\ Len(q) \in Nat
  OBVIOUS
<1>2. i \in DOMAIN q /\ q[i] = p
  <2>1. \E j \in DOMAIN q : q[j] = p
    BY DEF Range
  <2> QED
    BY <2>1
<1>3. After(q, p) = IF i = Len(q) THEN NoPage ELSE q[i + 1]
  BY DEF After
<1> HIDE DEF i
<1>4. CASE i # Len(q)
  <2>1. i + 1 \in DOMAIN q /\ i + 1 # i
    BY <1>1, <1>2, <1>4
  <2>2. q[i + 1] \in Range(q) /\ q[i + 1] # p
    BY <1>2, <2>1 DEF Range, IsInjective
  <2> QED
    BY <1>3, <1>4, <2>2
<1> QED
  BY <1>3, <1>4

-----------------------------------------------------------------------------

(* The start of a scan of the reclaim queue keeps the invariant.           *)
LEMMA StartScanKeeps ==
  ASSUME IInv, StartScan
  PROVE  IInv'
<1>1. /\ mem \in Memories /\ th \in [Threads -> ThreadRecords] /\ dm \in DaemonRecords
      /\ Queued(mem) /\ DaemonOK(mem, dm) /\ ObjectsOK(mem, entry, First(th))
      /\ \A u \in Threads : th[u] = th[u] \/ Woken(th[u], th[u])
      /\ \A u \in Threads : th[u].pc \in Holds => th[u].page \in Pages /\ Keeps(mem, mem, th[u].page)
  BY DaemonNow DEF IInv
<1> DEFINE c == IF mem.reclaimq = <<>> THEN NoPage ELSE Head(mem.reclaimq)
<1>2. /\ dm' = [dm EXCEPT !.pc = "scan", !.freed = FALSE, !.cur = c]
      /\ lock = NoOne /\ lock' = Daemon
  BY DEF StartScan
<1>3. c \in Pages \cup {NoPage} /\ (c # NoPage => mem.reclaimable[c])
  <2>1. CASE mem.reclaimq # <<>>
    <3>1. /\ mem.reclaimq \in Seq(Pages) /\ Range(mem.reclaimq) = {p \in Pages : mem.reclaimable[p]}
      BY <1>1 DEF Queued, QueueOf
    <3>2. 1 \in DOMAIN mem.reclaimq /\ c = mem.reclaimq[1]
      BY <2>1, <3>1
    <3> QED
      BY <3>1, <3>2 DEF Range
  <2> QED
    BY <2>1
<1> HIDE DEF c
<1>4. dm' \in DaemonRecords /\ dm'.pc = "scan" /\ dm'.cur = c
  BY <1>1, <1>2, <1>3 DEF DaemonRecords
<1>5. DaemonOK(mem, dm')
  BY <1>3, <1>4 DEF DaemonOK, Writes
<1>6. Sound(mem, entry, lock', th, dm')
  BY <1>1, <1>2, <1>4, <1>5, DaemonAction DEF IInv
<1> QED
  BY <1>6 DEF IInv, StartScan

(* Every page the scan passes by, frees or reactivates keeps the           *)
(* invariant.                                                              *)
LEMMA PassByKeeps ==
  ASSUME IInv, PassBy
  PROVE  IInv'
<1>1. /\ mem \in Memories /\ th \in [Threads -> ThreadRecords] /\ dm \in DaemonRecords
      /\ Queued(mem) /\ DaemonOK(mem, dm) /\ ObjectsOK(mem, entry, First(th))
      /\ lock = Daemon <=> dm.pc \in {"scan", "refill"}
      /\ \A u \in Threads : th[u] = th[u] \/ Woken(th[u], th[u])
      /\ \A u \in Threads : th[u].pc \in Holds => th[u].page \in Pages /\ Keeps(mem, mem, th[u].page)
  BY DaemonNow DEF IInv
<1> DEFINE p == dm.cur
           c == After(mem.reclaimq, p)
           n == IF mem.clean[p] THEN FreePages(mem, {p}) ELSE mem
<1>2. /\ dm.pc = "scan" /\ p # NoPage /\ mem' = n
      /\ dm' = [dm EXCEPT !.cur = c, !.freed = dm.freed \/ mem.clean[p]]
  BY DEF PassBy, Scanning
<1>3. p \in Pages /\ mem.reclaimable[p] /\ lock = Daemon
  BY <1>1, <1>2 DEF DaemonOK, DaemonRecords
<1>4. c = NoPage \/ (c \in Pages /\ mem.reclaimable[c] /\ c # p)
  <2>1. /\ mem.reclaimq \in Seq(Pages) /\ IsInjective(mem.reclaimq)
        /\ Range(mem.reclaimq) = {q \in Pages : mem.reclaimable[q]}
    BY <1>1 DEF Queued, QueueOf
  <2>2. p \in Range(mem.reclaimq)
    BY <1>3, <2>1
  <2> HIDE DEF p
  <2> QED
    BY <2>1, <2>2, AfterIs
<1>5. /\ n \in Memories /\ Queued(n) /\ ObjectsOK(n, entry, First(th))
      /\ \A q \in Pages \ {p} : Keeps(mem, n, q)
  <2>1. CASE mem.clean[p]
    BY <1>1, <1>3, <2>1, FreePageDoes
  <2>2. CASE ~mem.clean[p]
    BY <1>1, <2>2 DEF Keeps
  <2> QED
    BY <2>1, <2>2
<1> HIDE DEF n
<1>6. ASSUME NEW u \in Threads, th[u].pc \in Holds PROVE Keeps(mem, n, th[u].page)
  <2>1. th[u].page # p
    BY <1>3, <1>6, QueuedApart DEF IInv
  <2> QED
    BY <1>1, <1>5, <1>6, <2>1
<1> HIDE DEF c
<1>7. dm' \in DaemonRecords /\ dm'.pc = "scan" /\ dm'.cur = c
  <2>1. mem.clean[p] \in BOOLEAN
    BY <1>1, <1>3 DEF Memories
  <2> QED
    BY <1>1, <1>2, <1>4, <2>1 DEF DaemonRecords
<1>8. DaemonOK(n, dm')
  BY <1>4, <1>5, <1>7 DEF DaemonOK, Writes, Keeps
<1>9. Sound(n, entry, lock, th, dm')
  BY <1>1, <1>3, <1>5, <1>6, <1>7, <1>8, DaemonAction DEF IInv
<1> QED
  BY <1>2, <1>9 DEF IInv, PassBy

(* Waking those who wait for memory moves sleepers only.                   *)
LEMMA FreeWaitersMoved ==
  ASSUME th \in [Threads -> ThreadRecords]
  PROVE  /\ FreeWaitersWoken \in [Threads -> ThreadRecords]
         /\ \A u \in Threads : \/ FreeWaitersWoken[u] = th[u]
                               \/ Woken(th[u], FreeWaitersWoken[u])
<1>1. ASSUME NEW u \in Threads
      PROVE  /\ FreeWaitersWoken[u] \in ThreadRecords
             /\ FreeWaitersWoken[u] = th[u] \/ Woken(th[u], FreeWaitersWoken[u])
  BY WokenIs DEF FreeWaitersWoken
<1>2. FreeWaitersWoken = [u \in Threads |-> FreeWaitersWoken[u]]
  BY DEF FreeWaitersWoken
<1> QED
  BY <1>1, <1>2

(* Waking those who wait for a page moves sleepers only.                   *)
LEMMA PageWaitersMoved ==
  ASSUME th \in [Threads -> ThreadRecords], NEW p
  PROVE  /\ PageWaitersWoken(p) \in [Threads -> ThreadRecords]
         /\ \A u \in Threads : \/ PageWaitersWoken(p)[u] = th[u]
                               \/ Woken(th[u], PageWaitersWoken(p)[u])
<1>1. ASSUME NEW u \in Threads
      PROVE  /\ PageWaitersWoken(p)[u] \in ThreadRecords
             /\ PageWaitersWoken(p)[u] = th[u] \/ Woken(th[u], PageWaitersWoken(p)[u])
  BY WokenIs DEF PageWaitersWoken
<1>2. PageWaitersWoken(p) = [u \in Threads |-> PageWaitersWoken(p)[u]]
  BY DEF PageWaitersWoken
<1> QED
  BY <1>1, <1>2

(* The start of a pageout, with its collapse, keeps the invariant.         *)
LEMMA StartPageoutKeeps ==
  ASSUME IInv, ~PageTaken, StartPageout
  PROVE  IInv'
<1> DEFINE p == dm.cur
           o == mem.object[p]
           k == Collapse(mem, o)
           b == SetBusy(k, p, TRUE)
           n == [b EXCEPT !.pageout_in_progress[o] = TRUE]
<1>1. /\ mem \in Memories /\ th \in [Threads -> ThreadRecords] /\ dm \in DaemonRecords
      /\ Queued(mem) /\ DaemonOK(mem, dm) /\ ObjectsOK(mem, entry, First(th))
      /\ lock = Daemon <=> dm.pc \in {"scan", "refill"}
  BY DaemonNow DEF IInv
<1>2. /\ dm.pc = "scan" /\ p # NoPage /\ mem' = n /\ lock' = NoOne
      /\ th' = FreeWaitersWoken
      /\ dm' = [dm EXCEPT !.pc = "pager", !.object = o]
      /\ ~mem.clean[p] /\ mem.laundry[p] /\ Scanning
  BY DEF StartPageout, Scanning
<1>3. p \in Pages /\ mem.reclaimable[p] /\ lock = Daemon
  BY <1>1, <1>2 DEF DaemonOK, DaemonRecords
<1>4. o \in Objects /\ mem.live[o]
  <2>1. p \notin Free(mem)
    BY <1>1, <1>3 DEF Queued, OffQueues
  <2>2. o \in Objects
    BY <1>1, <1>3, <2>1 DEF Free, Memories
  <2> QED
    BY <1>1, <1>3, <2>2 DEF ObjectsOK, Counted, PagesOf
<1>6. \A u \in Threads : th[u].pc \in Holds => th[u].page \notin Free(k)
  BY DEF PageTaken, Frees
<1>7. Sound(k, entry, lock, th, dm) /\ Shrunk(mem, k, o)
  <2>1. Sound(mem, entry, lock, th, dm) /\ (dm.pc = "scan" /\ dm.cur # NoPage => mem.object[dm.cur] = o)
    BY DEF IInv
  <2> HIDE DEF o
  <2> QED
    BY <1>4, <1>6, <2>1, CollapseSound
<1>8. k.object[p] = o
  BY <1>1, <1>3, <1>7 DEF Shrunk, Queued, OffQueues
<1> HIDE DEF o, k
<1>9. /\ k \in Memories /\ Queued(k) /\ DaemonOK(k, dm) /\ ObjectsOK(k, entry, First(th))
      /\ \A u \in Threads : th[u].pc \in Holds => th[u].page \in Pages
  BY <1>7, DaemonNow
<1>10. k.reclaimable[p]
  BY <1>2, <1>9 DEF DaemonOK
<1>11. /\ b \in Memories /\ Only(k, b, p) /\ Queued(b) /\ b.busy[p] = TRUE
  BY <1>3, <1>9, SetBusyOnly
<1>12. b.reclaimable = k.reclaimable
  BY DEF SetBusy
<1> HIDE DEF b
<1>13. /\ n \in Memories /\ n.pageout_in_progress[o] /\ SamePages(b, n)
       /\ n.live = b.live /\ n.ref_count = b.ref_count /\ n.shadow = b.shadow
       /\ n.space = b.space
  BY <1>4, <1>11 DEF Memories, SamePages
<1> HIDE DEF n
<1>14. ObjectsOK(n, entry, First(th)) /\ \A q \in Pages \ {p} : Keeps(k, n, q)
  <2>1. ObjectsOK(b, entry, First(th)) /\ \A q \in Pages \ {p} : Keeps(k, b, q)
    BY <1>9, <1>11, OnlyKeeps
  <2>2. \A q \in Pages : Keeps(b, n, q) /\ n.object[q] = b.object[q]
    BY <1>13, SamePagesKeep
  <2>3. ObjectsOK(n, entry, First(th))
    BY <1>11, <1>13, <2>1, <2>2, ObjectsKept
  <2> QED
    BY <2>1, <2>2, <2>3 DEF Keeps
<1>15. Queued(n)
  BY <1>11, <1>13, SamePagesKeep
<1>16. ASSUME NEW u \in Threads, th[u].pc \in Holds PROVE Keeps(k, n, th[u].page)
  <2>1. th[u].page # p
    BY <1>3, <1>7, <1>10, <1>16, QueuedApart
  <2> QED
    BY <1>9, <1>14, <1>16, <2>1
<1>17. dm' \in DaemonRecords /\ dm'.pc = "pager" /\ dm'.cur = p /\ dm'.object = o
  BY <1>1, <1>2, <1>4 DEF DaemonRecords
<1>18. DaemonOK(n, dm')
  <2>1. n.busy[p] /\ n.reclaimable[p] /\ n.object[p] = o
    BY <1>8, <1>10, <1>11, <1>12, <1>13 DEF SamePages, Only
  <2> QED
    BY <1>3, <1>4, <1>13, <1>17, <2>1 DEF DaemonOK, Writes
<1>19. /\ th' \in [Threads -> ThreadRecords]
       /\ \A u \in Threads : th'[u] = th[u] \/ Woken(th[u], th'[u])
  BY <1>1, <1>2, FreeWaitersMoved
<1>20. Sound(n, entry, lock', th', dm')
  BY <1>2, <1>3, <1>7, <1>13, <1>14, <1>15, <1>16, <1>17, <1>18, <1>19,
     VMFaultAssumption, DaemonAction
<1> QED
  BY <1>2, <1>20 DEF IInv, StartPageout

(* A step of the daemon that leaves memory, lock and threads alone.        *)
LEMMA DaemonQuiet ==
  ASSUME NEW m, NEW e, NEW l, NEW h, NEW d, Sound(m, e, l, h, d),
         NEW d2 \in DaemonRecords,
         d2.pc \in {"scan", "refill"} <=> d.pc \in {"scan", "refill"},
         DaemonOK(m, d2)
  PROVE  Sound(m, e, l, h, d2)
<1>1. /\ m \in Memories /\ h \in [Threads -> ThreadRecords]
      /\ Queued(m) /\ ObjectsOK(m, e, First(h))
      /\ l = Daemon <=> d.pc \in {"scan", "refill"}
      /\ \A u \in Threads : h[u] = h[u] \/ Woken(h[u], h[u])
      /\ \A u \in Threads : h[u].pc \in Holds => h[u].page \in Pages /\ Keeps(m, m, h[u].page)
  BY DaemonNow
<1> QED
  BY <1>1, DaemonAction

(* The look at the pager of the object keeps the invariant.                *)
LEMMA LookAtPagerKeeps ==
  ASSUME IInv, LookAtPager
  PROVE  IInv'
<1>1. dm \in DaemonRecords /\ DaemonOK(mem, dm)
  BY DaemonNow DEF IInv
<1>2. /\ dm.pc = "pager"
      /\ dm' = [dm EXCEPT !.pc = IF mem.space[dm.object] = NoSpace THEN "allocate" ELSE "put"]
  BY DEF LookAtPager
<1>3. /\ dm' \in DaemonRecords /\ dm'.pc \in {"allocate", "put"}
      /\ dm'.cur = dm.cur /\ dm'.object = dm.object
  BY <1>1, <1>2 DEF DaemonRecords
<1>4. DaemonOK(mem, dm')
  BY <1>1, <1>2, <1>3 DEF DaemonOK, Writes
<1>5. Sound(mem, entry, lock, th, dm')
  BY <1>2, <1>3, <1>4, DaemonQuiet DEF IInv
<1> QED
  BY <1>5 DEF IInv, LookAtPager

(* That the default pager has no space keeps the invariant.                *)
LEMMA NoPagingSpaceKeeps ==
  ASSUME IInv, NoPagingSpace
  PROVE  IInv'
<1>1. dm \in DaemonRecords /\ DaemonOK(mem, dm)
  BY DaemonNow DEF IInv
<1>2. dm.pc = "allocate" /\ dm' = [dm EXCEPT !.pc = "written"]
  BY DEF NoPagingSpace
<1>3. /\ dm' \in DaemonRecords /\ dm'.pc = "written"
      /\ dm'.cur = dm.cur /\ dm'.object = dm.object
  BY <1>1, <1>2 DEF DaemonRecords
<1>4. DaemonOK(mem, dm')
  BY <1>1, <1>2, <1>3 DEF DaemonOK, Writes
<1>5. Sound(mem, entry, lock, th, dm')
  BY <1>2, <1>3, <1>4, DaemonQuiet DEF IInv
<1> QED
  BY <1>5 DEF IInv, NoPagingSpace

(* Giving the object a pager keeps the invariant.                          *)
LEMMA SetPagerKeeps ==
  ASSUME IInv, SetPager
  PROVE  IInv'
<1> DEFINE s == CHOOSE s \in Unused : TRUE
           o == dm.object
           n == [mem EXCEPT !.space[o] = s]
<1>1. /\ mem \in Memories /\ dm \in DaemonRecords /\ th \in [Threads -> ThreadRecords]
      /\ Queued(mem) /\ DaemonOK(mem, dm) /\ ObjectsOK(mem, entry, First(th))
      /\ lock = Daemon <=> dm.pc \in {"scan", "refill"}
      /\ \A u \in Threads : th[u] = th[u] \/ Woken(th[u], th[u])
      /\ \A u \in Threads : th[u].pc \in Holds => th[u].page \in Pages
  BY DaemonNow DEF IInv
<1>2. /\ dm.pc = "allocate" /\ dm' = [dm EXCEPT !.pc = "put"] /\ mem' = n /\ s \in Objects
      /\ stored' = [stored EXCEPT ![s] = {}] /\ stored \in [Objects -> SUBSET Offsets]
  BY DEF SetPager, Unused, IInv
<1> HIDE DEF s
<1>3. o \in Objects /\ dm.cur \in Pages /\ mem.object[dm.cur] = o
  BY <1>1, <1>2 DEF DaemonOK, Writes
<1>4. mem.live[o]
  BY <1>1, <1>3 DEF ObjectsOK, Counted, PagesOf
<1>5. /\ n \in Memories /\ SamePages(mem, n)
      /\ n.live = mem.live /\ n.ref_count = mem.ref_count /\ n.shadow = mem.shadow
      /\ n.pageout_in_progress = mem.pageout_in_progress
      /\ n.space = [mem.space EXCEPT ![o] = s]
  BY <1>1, <1>2, <1>3 DEF Memories, SamePages, NoSpace
<1> HIDE DEF n
<1>6. Queued(n) /\ \A q \in Pages : Keeps(mem, n, q) /\ n.object[q] = mem.object[q]
  BY <1>1, <1>5, SamePagesKeep
<1>7. ObjectsOK(n, entry, First(th))
  <2>1. Counted(n, entry, First(th)) /\ Acyclic(n)
    <3>1. Acyclic(n)
      BY <1>1, <1>5 DEF ObjectsOK, Acyclic
    <3>2. \A x \in Objects : PagesOf(n, x) = PagesOf(mem, x)
      BY <1>5 DEF SamePages, PagesOf
    <3>3. Counted(n, entry, First(th))
      <4>1. Counted(mem, entry, First(th))
        BY <1>1 DEF ObjectsOK
      <4>2. \A x \in Objects : Shadows(n, x) = Shadows(mem, x)
        BY <1>5 DEF Shadows
      <4> QED
        BY <1>5, <3>2, <4>1, <4>2 DEF Counted, Shadows
    <3> QED
      BY <3>1, <3>3
  <2>2. mem.space \in [Objects -> Objects \cup {NoSpace}]
    BY <1>1 DEF Memories
  <2>3. \A x \in Objects \ {o} : n.space[x] = mem.space[x]
    BY <1>5, <2>2
  <2> QED
    BY <1>1, <1>4, <1>5, <2>1, <2>3 DEF ObjectsOK
<1>8. /\ dm' \in DaemonRecords /\ dm'.pc = "put" /\ dm'.cur = dm.cur /\ dm'.object = o
  BY <1>1, <1>2 DEF DaemonRecords
<1>9. DaemonOK(n, dm')
  BY <1>1, <1>2, <1>3, <1>5, <1>6, <1>8 DEF DaemonOK, Writes, Keeps
<1>10. \A u \in Threads : th[u].pc \in Holds => Keeps(mem, n, th[u].page)
  BY <1>1, <1>6
<1>11. Sound(n, entry, lock, th, dm')
  BY <1>1, <1>2, <1>5, <1>6, <1>7, <1>8, <1>9, <1>10, DaemonAction DEF IInv
<1>12. stored' \in [Objects -> SUBSET Offsets]
  BY <1>2
<1> QED
  BY <1>2, <1>11, <1>12 DEF IInv, SetPager

(* The write to the pager keeps the invariant.                             *)
LEMMA PagerPutKeeps ==
  ASSUME IInv, PagerPut
  PROVE  IInv'
<1> DEFINE p == dm.cur
           n == [mem EXCEPT !.clean[p] = TRUE, !.laundry[p] = FALSE, !.modified[p] = FALSE]
<1>1. /\ mem \in Memories /\ dm \in DaemonRecords /\ th \in [Threads -> ThreadRecords]
      /\ Queued(mem) /\ DaemonOK(mem, dm) /\ ObjectsOK(mem, entry, First(th))
      /\ lock = Daemon <=> dm.pc \in {"scan", "refill"}
      /\ \A u \in Threads : th[u] = th[u] \/ Woken(th[u], th[u])
      /\ \A u \in Threads : th[u].pc \in Holds => th[u].page \in Pages
  BY DaemonNow DEF IInv
<1>2. /\ dm.pc = "put" /\ dm' = [dm EXCEPT !.pc = "written"] /\ mem' = n
      /\ stored' = [stored EXCEPT ![mem.space[dm.object]] = @ \cup {mem.offset[p]}]
      /\ stored \in [Objects -> SUBSET Offsets]
  BY DEF PagerPut, IInv
<1>3. p \in Pages
  BY <1>1, <1>2 DEF DaemonOK, Writes
<1>4. n \in Memories /\ SamePages(mem, n) /\ SameObjects(mem, n)
  BY <1>1, <1>3 DEF Memories, SamePages, SameObjects
<1> HIDE DEF n
<1>5. Queued(n) /\ \A q \in Pages : Keeps(mem, n, q) /\ n.object[q] = mem.object[q]
  BY <1>1, <1>4, SamePagesKeep
<1>6. ObjectsOK(n, entry, First(th))
  BY <1>1, <1>4, <1>5, ObjectsKept DEF SameObjects
<1>7. /\ dm' \in DaemonRecords /\ dm'.pc = "written" /\ dm'.cur = p /\ dm'.object = dm.object
  BY <1>1, <1>2 DEF DaemonRecords
<1>8. DaemonOK(n, dm')
  BY <1>1, <1>2, <1>3, <1>4, <1>5, <1>7 DEF DaemonOK, Writes, Keeps, SameObjects
<1>9. \A u \in Threads : th[u].pc \in Holds => Keeps(mem, n, th[u].page)
  BY <1>1, <1>5
<1>10. Sound(n, entry, lock, th, dm')
  BY <1>1, <1>2, <1>4, <1>5, <1>6, <1>7, <1>8, <1>9, DaemonAction DEF IInv
<1>11. stored' \in [Objects -> SUBSET Offsets]
  <2>1. mem.offset[p] \in Offsets
    BY <1>1, <1>3 DEF Memories
  <2> QED
    BY <1>2, <2>1
<1> QED
  BY <1>2, <1>10, <1>11 DEF IInv, PagerPut

(* The end of the pageout keeps the invariant.                             *)
LEMMA EndPageoutKeeps ==
  ASSUME IInv, EndPageout
  PROVE  IInv'
<1> DEFINE p == dm.cur
           c == After(mem.reclaimq, p)
           b == SetBusy(mem, p, FALSE)
           n == [b EXCEPT !.pageout_in_progress[dm.object] = FALSE]
<1>1. /\ mem \in Memories /\ dm \in DaemonRecords /\ th \in [Threads -> ThreadRecords]
      /\ Queued(mem) /\ DaemonOK(mem, dm) /\ ObjectsOK(mem, entry, First(th))
      /\ \A u \in Threads : th[u].pc \in Holds => th[u].page \in Pages
  BY DaemonNow DEF IInv
<1>2. /\ dm.pc = "written" /\ lock = NoOne /\ lock' = Daemon /\ mem' = n
      /\ th' = PageWaitersWoken(p)
  BY DEF EndPageout
<1>3. p \in Pages /\ mem.busy[p] /\ mem.reclaimable[p] /\ dm.object \in Objects
  BY <1>1, <1>2 DEF DaemonOK, Writes
<1>4. dm' = [dm EXCEPT !.pc = "scan", !.cur = c, !.object = NoObject]
  BY <1>3 DEF EndPageout
<1>5. c = NoPage \/ (c \in Pages /\ mem.reclaimable[c] /\ c # p)
  <2>1. /\ mem.reclaimq \in Seq(Pages) /\ IsInjective(mem.reclaimq)
        /\ Range(mem.reclaimq) = {q \in Pages : mem.reclaimable[q]}
    BY <1>1 DEF Queued, QueueOf
  <2>2. p \in Range(mem.reclaimq)
    BY <1>3, <2>1
  <2> HIDE DEF p
  <2> QED
    BY <2>1, <2>2, AfterIs
<1> HIDE DEF c
<1>6. /\ b \in Memories /\ Only(mem, b, p) /\ Queued(b)
  BY <1>1, <1>3, SetBusyOnly
<1> HIDE DEF b
<1>7. /\ n \in Memories /\ SamePages(b, n)
      /\ n.live = b.live /\ n.ref_count = b.ref_count /\ n.shadow = b.shadow
      /\ n.space = b.space
  BY <1>3, <1>6 DEF Memories, SamePages
<1> HIDE DEF n
<1>8. /\ ObjectsOK(b, entry, First(th))
      /\ \A q \in Pages \ {p} : Keeps(mem, b, q)
  BY <1>1, <1>6, OnlyKeeps
<1>9. Queued(n) /\ \A q \in Pages : Keeps(b, n, q) /\ n.object[q] = b.object[q]
  BY <1>6, <1>7, SamePagesKeep
<1>10. ObjectsOK(n, entry, First(th))
  BY <1>6, <1>7, <1>8, <1>9, ObjectsKept
<1>11. \A q \in Pages \ {p} : Keeps(mem, n, q)
  BY <1>8, <1>9 DEF Keeps
<1>12. ASSUME NEW u \in Threads, th[u].pc \in Holds PROVE Keeps(mem, n, th[u].page)
  <2>1. th[u].page # p
    BY <1>3, <1>12, QueuedApart DEF IInv
  <2> QED
    BY <1>1, <1>11, <1>12, <2>1
<1>13. dm' \in DaemonRecords /\ dm'.pc = "scan" /\ dm'.cur = c
  BY <1>1, <1>4, <1>5 DEF DaemonRecords
<1>14. DaemonOK(n, dm')
  BY <1>5, <1>11, <1>13 DEF DaemonOK, Writes, Keeps
<1>15. /\ th' \in [Threads -> ThreadRecords]
       /\ \A u \in Threads : th'[u] = th[u] \/ Woken(th[u], th'[u])
  BY <1>1, <1>2, PageWaitersMoved
<1>16. Sound(n, entry, lock', th', dm')
  BY <1>2, <1>7, <1>9, <1>10, <1>12, <1>13, <1>14, <1>15, DaemonAction DEF IInv
<1> QED
  BY <1>2, <1>16 DEF IInv, EndPageout

(* The end of the scan keeps the invariant.                                *)
LEMMA EndScanKeeps ==
  ASSUME IInv, EndScan
  PROVE  IInv'
<1>1. mem \in Memories /\ dm \in DaemonRecords /\ DaemonOK(mem, dm)
  BY DaemonNow DEF IInv
<1> DEFINE short == ReclaimTarget - Len(mem.reclaimq)
           x == IF short <= 0 /\ ~dm.freed THEN 1 ELSE short
<1>2. dm.pc = "scan" /\ dm' = [dm EXCEPT !.pc = "refill", !.cur = NoPage, !.shortage = x]
  BY DEF EndScan
<1>3. x \in Int
  BY <1>1, VMFaultAssumption DEF Memories
<1> HIDE DEF x
<1>4. dm' \in DaemonRecords /\ dm'.pc = "refill"
  BY <1>1, <1>2, <1>3 DEF DaemonRecords
<1>5. DaemonOK(mem, dm')
  BY <1>4 DEF DaemonOK, Writes
<1>6. Sound(mem, entry, lock, th, dm')
  BY <1>2, <1>4, <1>5, DaemonQuiet DEF IInv
<1> QED
  BY <1>6 DEF IInv, EndScan

(* Moving a page from the active to the reclaim queue keeps the invariant. *)
LEMMA RefillKeeps ==
  ASSUME IInv, Refill
  PROVE  IInv'
<1> DEFINE p == Head(mem.activeq)
<1>1. /\ mem \in Memories /\ dm \in DaemonRecords /\ th \in [Threads -> ThreadRecords]
      /\ Queued(mem) /\ DaemonOK(mem, dm) /\ ObjectsOK(mem, entry, First(th))
      /\ lock = Daemon <=> dm.pc \in {"scan", "refill"}
      /\ \A u \in Threads : th[u] = th[u] \/ Woken(th[u], th[u])
      /\ \A u \in Threads : th[u].pc \in Holds => th[u].page \in Pages
  BY DaemonNow DEF IInv
<1>2. PICK bit \in ModifyBits(mem, p) : mem' = Reclaim(PmapRemoveAll(mem, p, bit), p)
  BY DEF Refill
<1>3. dm.pc = "refill" /\ mem.activeq # <<>> /\ dm' = [dm EXCEPT !.shortage = dm.shortage - 1]
  BY DEF Refill
<1>4. p \in Pages /\ mem.active[p] /\ bit \in BOOLEAN
  <2>1. mem.activeq \in Seq(Pages) /\ Range(mem.activeq) = {q \in Pages : mem.active[q]}
    BY <1>1 DEF Queued, QueueOf
  <2>2. 1 \in DOMAIN mem.activeq /\ p = mem.activeq[1]
    BY <1>3, <2>1
  <2> QED
    BY <2>1, <2>2 DEF Range, ModifyBits
<1> HIDE DEF p
<1> DEFINE k == PmapRemoveAll(mem, p, bit)
           n == Reclaim(k, p)
<1>5. /\ k \in Memories /\ Queued(k)
      /\ k.object = mem.object /\ k.offset = mem.offset /\ k.active = mem.active
      /\ k.reclaimable = mem.reclaimable /\ k.busy = mem.busy /\ SameObjects(mem, k)
  <2>1. k \in Memories /\ Queued(k)
    BY <1>1, <1>4, PmapRemoveAllDoes
  <2> QED
    BY <2>1 DEF PmapRemoveAll, SameObjects
<1>6. mem' = n
  BY <1>2
<1> HIDE DEF k
<1>7. /\ n \in Memories /\ Queued(n)
      /\ \A q \in Pages \ {p} : /\ n.active[q] = k.active[q]
                                /\ n.reclaimable[q] = k.reclaimable[q]
      /\ n.object = k.object /\ n.offset = k.offset /\ n.busy = k.busy /\ SameObjects(k, n)
  BY <1>4, <1>5, ReclaimDoes
<1> HIDE DEF n
<1>8. Only(mem, n, p)
  BY <1>5, <1>7 DEF Only, SameObjects
<1>9. /\ ObjectsOK(n, entry, First(th))
      /\ \A q \in Pages \ {p} : Keeps(mem, n, q)
  BY <1>1, <1>7, <1>8, OnlyKeeps
<1>10. ASSUME NEW u \in Threads, th[u].pc \in Holds PROVE Keeps(mem, n, th[u].page)
  <2>1. th[u].page # p
    BY <1>1, <1>3, <1>4, <1>10, QueuedApart DEF IInv
  <2> QED
    BY <1>1, <1>9, <1>10, <2>1
<1>11. dm' \in DaemonRecords /\ dm'.pc = "refill"
  <2>1. dm.shortage - 1 \in Int
    BY <1>1 DEF DaemonRecords
  <2> QED
    BY <1>1, <1>3, <2>1 DEF DaemonRecords
<1>12. DaemonOK(n, dm')
  BY <1>11 DEF DaemonOK, Writes
<1>13. Sound(n, entry, lock, th, dm')
  BY <1>1, <1>3, <1>7, <1>9, <1>10, <1>11, <1>12, DaemonAction DEF IInv
<1> QED
  BY <1>6, <1>13 DEF IInv, Refill

(* The end of the refill keeps the invariant.                              *)
LEMMA EndRefillKeeps ==
  ASSUME IInv, EndRefill
  PROVE  IInv'
<1>1. /\ mem \in Memories /\ dm \in DaemonRecords /\ th \in [Threads -> ThreadRecords]
      /\ Queued(mem) /\ DaemonOK(mem, dm) /\ ObjectsOK(mem, entry, First(th))
      /\ lock = Daemon <=> dm.pc \in {"scan", "refill"}
      /\ \A u \in Threads : th[u] = th[u] \/ Woken(th[u], th[u])
      /\ \A u \in Threads : th[u].pc \in Holds => Keeps(mem, mem, th[u].page)
  BY DaemonNow DEF IInv
<1>2. /\ dm.pc = "refill" /\ lock' = NoOne
      /\ dm' = [dm EXCEPT !.pc = "rest", !.shortage = 0, !.freed = FALSE]
  BY DEF EndRefill
<1>3. dm' \in DaemonRecords /\ dm'.pc = "rest"
  <2>1. dm \in DaemonRecords /\ 0 \in Int /\ FALSE \in BOOLEAN
    BY <1>1
  <2>2. dm' = [dm EXCEPT !.pc = "rest", !.shortage = 0, !.freed = FALSE]
    BY <1>2
  <2> QED
    BY <2>1, <2>2 DEF DaemonRecords
<1>4. DaemonOK(mem, dm')
  BY <1>3 DEF DaemonOK, Writes
<1>5. /\ lock' = lock \/ {lock, lock'} \subseteq {Daemon, NoOne}
      /\ lock' = Daemon <=> dm'.pc \in {"scan", "refill"}
  BY <1>1, <1>2, <1>3, VMFaultAssumption
<1>6. Sound(mem, entry, lock, th, dm)
  BY DEF IInv
<1>7. Sound(mem, entry, lock', th, dm')
  BY <1>1, <1>3, <1>4, <1>5, <1>6, DaemonAction
<1> QED
  BY <1>7 DEF IInv, EndRefill

(* Going back to sleep keeps the invariant.                                *)
LEMMA RestKeeps ==
  ASSUME IInv, Rest
  PROVE  IInv'
<1>1. /\ mem \in Memories /\ dm \in DaemonRecords /\ th \in [Threads -> ThreadRecords]
      /\ Queued(mem) /\ DaemonOK(mem, dm) /\ ObjectsOK(mem, entry, First(th))
      /\ \A u \in Threads : th[u].pc \in Holds => Keeps(mem, mem, th[u].page)
  BY DaemonNow DEF IInv
<1>2. /\ dm.pc = "rest" /\ lock = NoOne /\ th' = FreeWaitersWoken
      /\ dm' = [dm EXCEPT !.pc = "asleep"]
  BY DEF Rest
<1>3. dm' \in DaemonRecords /\ dm'.pc = "asleep"
  BY <1>1, <1>2 DEF DaemonRecords
<1>4. DaemonOK(mem, dm')
  BY <1>3 DEF DaemonOK, Writes
<1>5. /\ th' \in [Threads -> ThreadRecords]
      /\ \A u \in Threads : th'[u] = th[u] \/ Woken(th[u], th'[u])
  BY <1>1, <1>2, FreeWaitersMoved
<1>6. Sound(mem, entry, lock, th', dm')
  BY <1>1, <1>2, <1>3, <1>4, <1>5, VMFaultAssumption, DaemonAction DEF IInv
<1> QED
  BY <1>6 DEF IInv, Rest

(* The end of an object, and of those below that it alone held, keeps the  *)
(* invariant.                                                              *)
LEMMA TerminateKeeps ==
  ASSUME IInv, ~PageTaken, NEW o \in Objects, Terminate(o)
  PROVE  IInv'
<1> DEFINE n == Terminated(mem, o)
<1>1. /\ mem \in Memories /\ dm \in DaemonRecords /\ th \in [Threads -> ThreadRecords]
      /\ Queued(mem) /\ DaemonOK(mem, dm) /\ ObjectsOK(mem, entry, First(th))
      /\ lock = Daemon <=> dm.pc \in {"scan", "refill"}
      /\ \A u \in Threads : th[u] = th[u] \/ Woken(th[u], th[u])
      /\ \A u \in Threads : th[u].pc \in Holds => th[u].page \in Pages
  BY DaemonNow DEF IInv
<1>2. /\ lock = NoOne /\ mem.live[o] /\ mem.ref_count[o] = 0
      /\ ~mem.pageout_in_progress[o] /\ mem' = n
  BY DEF Terminate
<1>3. DOMAIN entry = DOMAIN InitEntry
  BY DEF IInv, Sound, EntryMaps
<1>4. /\ n \in Memories /\ Queued(n) /\ ObjectsOK(n, entry, First(th))
      /\ n.pageout_in_progress = mem.pageout_in_progress
      /\ \A p \in Pages : mem.object[p] # o => Keeps(mem, n, p) /\ n.object[p] = mem.object[p]
  <2>1. /\ n \in Memories /\ Queued(n) /\ ObjectsOK(n, entry, First(th))
        /\ \A p \in Pages : mem.object[p] # o => Keeps(mem, n, p) /\ n.object[p] = mem.object[p]
    <3>1. n \in Memories /\ Queued(n)
      BY <1>1, <1>2, <1>3, TerminatedDoes
    <3>2. ObjectsOK(n, entry, First(th))
      BY <1>1, <1>2, <1>3, TerminatedDoes
    <3>3. ASSUME NEW p \in Pages
          PROVE  mem.object[p] # o => Keeps(mem, n, p) /\ n.object[p] = mem.object[p]
      BY <1>1, TerminatedSpares
    <3> QED
      BY <3>1, <3>2, <3>3
  <2>2. n.pageout_in_progress = mem.pageout_in_progress
    BY DEF Terminated, FreePages, Dequeue
  <2> QED
    BY <2>1, <2>2
<1> HIDE DEF n
<1>5. \A u \in Threads : th[u].pc \in Holds => Keeps(mem, n, th[u].page)
  BY <1>1, <1>2, <1>4 DEF PageTaken
<1>6. DaemonOK(n, dm)
  <2>1. dm.pc # "scan"
    BY <1>1, <1>2, VMFaultAssumption
  <2>2. dm.pc \in Writes => mem.object[dm.cur] # o /\ dm.cur \in Pages
    BY <1>1, <1>2 DEF DaemonOK
  <2> QED
    BY <1>1, <1>4, <2>1, <2>2 DEF DaemonOK, Keeps
<1>7. Sound(n, entry, lock, th, dm)
  BY <1>1, <1>2, <1>4, <1>5, <1>6, DaemonAction DEF IInv
<1> QED
  BY <1>2, <1>7 DEF IInv, Terminate

(***************************************************************************)
(* The invariant is inductive.                                             *)
(***************************************************************************)

(* The invariant holds at first.                                           *)
LEMMA InitSound == Init => IInv
<1> SUFFICES ASSUME Init PROVE IInv
  OBVIOUS
<1>1. /\ mem = InitMem /\ stored = InitStored /\ entry = InitEntry /\ lock = NoOne
      /\ th = [t \in Threads |-> Idle]
      /\ dm = [pc |-> "asleep", cur |-> NoPage, object |-> NoObject,
               freed |-> FALSE, shortage |-> 0]
  BY DEF Init
<1>2. Idle \in ThreadRecords /\ Idle.pc = "idle" /\ Idle.first = NoObject
  <2>1. (CHOOSE f \in Offsets : TRUE) \in Offsets
    BY VMFaultAssumption
  <2> QED
    BY <2>1 DEF Idle, ThreadRecords
<1>3. th \in [Threads -> ThreadRecords] /\ \A t \in Threads : th[t] = Idle
  BY <1>1, <1>2
<1>4. First(th) = [t \in Threads |-> NoObject]
  BY <1>2, <1>3 DEF First
<1>5. ThreadsOK(mem, th)
  BY <1>2, <1>3 DEF ThreadsOK, ThreadOK, Holds, Works, Outside
<1>6. LocksOK(lock, th, dm)
  BY <1>1, <1>2, <1>3, VMFaultAssumption DEF LocksOK, Locking
<1>7. dm \in DaemonRecords /\ DaemonOK(mem, dm)
  BY <1>1 DEF DaemonRecords, DaemonOK, Writes
<1>8. mem \in Memories /\ Queued(mem)
  BY <1>1, InitMemAssumption, FiledIsQueued
<1>9. ObjectsOK(mem, entry, First(th))
  BY <1>1, <1>4, InitMemAssumption DEF ObjectsOK
<1>10. entry \in EntryMaps /\ stored \in [Objects -> SUBSET Offsets]
  BY <1>1, VMFaultAssumption DEF EntryMaps
<1> QED
  BY <1>1, <1>3, <1>5, <1>6, <1>7, <1>8, <1>9, <1>10 DEF IInv, Sound

(* Every step keeps the invariant, unless it is PageTaken.                 *)
LEMMA NextKeeps == IInv /\ [Next]_vars /\ [~PageTaken]_vars => IInv'
<1> SUFFICES ASSUME IInv, Next, ~PageTaken PROVE IInv'
  BY DEF IInv, vars
<1>1. ASSUME NEW t \in Threads, Handle(t) PROVE IInv'
  BY <1>1, LookupMapKeeps, EnterKeeps, FindBusyKeeps, AwaitKeeps, FindKeeps, MoveOnKeeps,
     StartPageinKeeps, ZeroFillKeeps, NoMemoryKeeps, AwaitMemoryKeeps, PagerGetKeeps,
     PagedInKeeps, NotThereKeeps, TakeKeeps, LookupAgainKeeps, MapUnchangedKeeps,
     MapChangedKeeps, UsePageKeeps, CopyPageKeeps, CopyNoMemoryKeeps, EnterPmapKeeps,
     FinishKeeps DEF Handle
<1>2. ASSUME NEW t \in Threads, NEW f \in Offsets, NEW w \in BOOLEAN, Fault(t, f, w)
      PROVE  IInv'
  BY <1>2, FaultKeeps
<1>3. CASE Pageout
  BY <1>3, StartScanKeeps, PassByKeeps, StartPageoutKeeps, LookAtPagerKeeps, SetPagerKeeps,
     NoPagingSpaceKeeps, PagerPutKeeps, EndPageoutKeeps, EndScanKeeps, RefillKeeps,
     EndRefillKeeps, RestKeeps DEF Pageout
<1>4. ASSUME NEW o \in Objects, Terminate(o) PROVE IInv'
  BY <1>4, TerminateKeeps
<1> QED
  BY <1>1, <1>2, <1>3, <1>4 DEF Next

(* The invariant holds until a page is taken.                              *)
LEMMA Inductive == Spec => []IInv \/ <><<PageTaken>>_vars
<1> QED
  BY InitSound, NextKeeps, PTL DEF Spec

(* What the invariant says of types, queues, busy pages and references.    *)
LEMMA SoundImplies ==
  ASSUME IInv
  PROVE  TypeOK /\ FlagsTellQueue /\ BusyPageKept /\ ReferencesExact
<1>1. TypeOK
  BY DEF IInv, Sound, TypeOK, EntryMaps, DaemonRecords
<1>2. mem \in Memories /\ Queued(mem) /\ DaemonOK(mem, dm) /\ ObjectsOK(mem, entry, First(th))
      /\ ThreadsOK(mem, th) /\ dm \in DaemonRecords
  BY DEF IInv, Sound
<1>3. FlagsTellQueue
  BY <1>2, FiledIsQueued DEF FlagsTellQueue
<1>4. ReferencesExact
  BY <1>2 DEF ObjectsOK, ReferencesExact, First
<1>5. BusyPageKept
  <2>1. ASSUME NEW t \in Threads, WorksOn(t)
        PROVE  LET p == th[t].page
               IN  /\ p \notin Free(mem) /\ mem.offset[p] = th[t].offset
                   /\ mem.busy[p] /\ ~mem.active[p] /\ ~mem.reclaimable[p]
                   /\ \A u \in Threads \ {t} : WorksOn(u) => th[u].page # p
    <3>1. th[t].pc \in Works /\ ThreadOK(mem, th[t])
      BY <1>2, <2>1 DEF WorksOn, Works, ThreadsOK
    <3>2. \A u \in Threads \ {t} : WorksOn(u) => th[u].page # th[t].page
      BY <1>2, <3>1 DEF WorksOn, Works, Holds, ThreadsOK
    <3> QED
      BY <3>1, <3>2 DEF ThreadOK, Holds, Works, OffQueues
  <2>2. ASSUME Writing
        PROVE  /\ mem.busy[dm.cur] /\ mem.reclaimable[dm.cur]
               /\ mem.object[dm.cur] = dm.object
               /\ mem.live[dm.object] /\ mem.pageout_in_progress[dm.object]
    <3>1. /\ dm.cur \in Pages /\ mem.busy[dm.cur] /\ mem.reclaimable[dm.cur]
          /\ dm.object \in Objects /\ mem.object[dm.cur] = dm.object
          /\ mem.pageout_in_progress[dm.object]
      BY <1>2, <2>2 DEF Writing, Writes, DaemonOK
    <3>2. mem.live[dm.object]
      BY <1>2, <3>1 DEF ObjectsOK, Counted, PagesOf
    <3> QED
      BY <3>1, <3>2
  <2> QED
    BY <1>2, <2>1, <2>2 DEF BusyPageKept, DaemonOK
<1> QED
  BY <1>1, <1>3, <1>4, <1>5

(* Every page, object, fault and the daemon are in the states their types  *)
(* allow, unless a collapse or the end of an object takes a page that a    *)
(* fault works on (PageTaken).                                             *)
THEOREM TypesRight == Spec => []TypeOK \/ <><<PageTaken>>_vars
BY Inductive, SoundImplies, PTL

(* The flags of a page tell which queue it is on, and a free page is on    *)
(* none: what every routine of vm_resident.c that moves a page relies on.  *)
(* PageTaken apart.                                                        *)
THEOREM QueuesFiled == Spec => []FlagsTellQueue \/ <><<PageTaken>>_vars
BY Inductive, SoundImplies, PTL

(* A page a fault or a pageout has made busy stays the page of its object  *)
(* and its alone until it is done with it (invariant 1 of vm_fault),       *)
(* unless a step takes it by a collapse or the end of an object: no other  *)
(* step of the other faults, of the daemon or of the map's users does.     *)
THEOREM BusyPagesKept == Spec => []BusyPageKept \/ <><<PageTaken>>_vars
BY Inductive, SoundImplies, PTL

(* The reference count of an object counts the entries, shadows and faults *)
(* that refer to it, through collapses, bypasses and terminations, so no   *)
(* object ends too soon and none is left behind.  PageTaken apart.         *)
THEOREM ReferencesRight == Spec => []ReferencesExact \/ <><<PageTaken>>_vars
BY Inductive, SoundImplies, PTL

(***************************************************************************)
(* The second layer: no page is lost, and none reclaimable is mapped.      *)
(***************************************************************************)

(***************************************************************************)
(* Where pages are: in a list, free, busy, or in the hands of a thread     *)
(* that has the lock; and that a reclaimable page is in no physical map.   *)
(***************************************************************************)
Carry == {"found", "copy"}

Laid(m, p) == m.busy[p] \/ p \in Free(m) \/ m.active[p] \/ m.reclaimable[p]

Quiet(m, p) == m.reclaimable[p] => m.mapped[p] = {}

AllLaid(m, h) ==
  \A p \in Pages : Laid(m, p) \/ \E t \in Threads : h[t].pc \in Carry /\ h[t].page = p

AllQuiet(m) == \A p \in Pages : Quiet(m, p)

(* From m to n no page but those of S is lost.                             *)
Lays(m, n, S) ==
  \A p \in Pages : /\ Quiet(m, p) => Quiet(n, p)
                   /\ p \notin S /\ Laid(m, p) => Laid(n, p)

Orderly == /\ AllQuiet(mem) => AllQuiet(mem')
           /\ AllLaid(mem, th) => AllLaid(mem', th')

(* One change after the other.                                             *)
LEMMA LaysOn ==
  ASSUME NEW m, NEW k, NEW n, NEW S, Lays(m, k, S), Lays(k, n, S)
  PROVE  Lays(m, n, S)
BY DEF Lays

(* More pages may be lost.                                                 *)
LEMMA LaysBut ==
  ASSUME NEW m, NEW n, NEW R, NEW S, Lays(m, n, R), R \subseteq S
  PROVE  Lays(m, n, S)
BY DEF Lays

(* Pages stay.                                                             *)
LEMMA LaysSame ==
  ASSUME NEW m, NEW n, SamePages(m, n), NEW S
  PROVE  Lays(m, n, S)
BY DEF Lays, SamePages, Laid, Quiet, Free

(* A page is marked busy, or no longer busy.                               *)
LEMMA LaysBusy ==
  ASSUME NEW m \in Memories, NEW p \in Pages, NEW b \in BOOLEAN
  PROVE  /\ Lays(m, SetBusy(m, p, b), {p})
         /\ b => Laid(SetBusy(m, p, b), p) /\ Lays(m, SetBusy(m, p, b), {})
<1> DEFINE n == SetBusy(m, p, b)
<1>1. /\ n.busy = [m.busy EXCEPT ![p] = b]
      /\ n.object = m.object /\ n.active = m.active
      /\ n.reclaimable = m.reclaimable /\ n.mapped = m.mapped
  BY SetBusyDoes
<1>2. \A q \in Pages \ {p} : n.busy[q] = m.busy[q]
  BY <1>1 DEF Memories
<1>3. b => n.busy[p]
  BY <1>1 DEF Memories
<1> HIDE DEF n
<1>4. Lays(m, n, {p}) /\ (b => Laid(n, p) /\ Lays(m, n, {}))
  BY <1>1, <1>2, <1>3 DEF Lays, Laid, Quiet, Free
<1> QED
  BY <1>4 DEF n

(* A page is allocated.                                                    *)
LEMMA LaysAlloc ==
  ASSUME NEW m \in Memories, NEW p \in Pages, NEW o \in Objects, NEW f \in Offsets
  PROVE  Lays(m, Alloc(m, p, o, f), {}) /\ Laid(Alloc(m, p, o, f), p)
<1> DEFINE n == Alloc(m, p, o, f)
<1>1. /\ n.object = [m.object EXCEPT ![p] = o]
      /\ n.busy = [m.busy EXCEPT ![p] = TRUE]
      /\ n.active = [m.active EXCEPT ![p] = FALSE]
      /\ n.reclaimable = [m.reclaimable EXCEPT ![p] = FALSE]
  BY DEF Memories, Alloc
<1>0. n.mapped = m.mapped
  BY DEF Memories, Alloc
<1>2. /\ n.busy[p] /\ ~n.reclaimable[p]
      /\ \A q \in Pages \ {p} : /\ n.busy[q] = m.busy[q] /\ n.active[q] = m.active[q]
                                /\ n.reclaimable[q] = m.reclaimable[q]
                                /\ n.object[q] = m.object[q]
  BY <1>1 DEF Memories
<1> HIDE DEF n
<1>3. Lays(m, n, {}) /\ Laid(n, p)
  BY <1>0, <1>1, <1>2 DEF Lays, Laid, Quiet, Free
<1> QED
  BY <1>3 DEF n

(* Pages leave the paging queues.                                          *)
LEMMA LaysDequeue ==
  ASSUME NEW m \in Memories, NEW p \in Pages
  PROVE  Lays(m, Dequeue(m, {p}), {p})
<1> DEFINE n == Dequeue(m, {p})
<1>1. /\ n.active = [q \in Pages |-> m.active[q] /\ q \notin {p}]
      /\ n.reclaimable = [q \in Pages |-> m.reclaimable[q] /\ q \notin {p}]
      /\ n.object = m.object /\ n.busy = m.busy /\ n.mapped = m.mapped
  BY DequeueDoes
<1>2. \A q \in Pages : /\ n.reclaimable[q] => m.reclaimable[q]
                       /\ q # p /\ m.active[q] => n.active[q]
                       /\ q # p /\ m.reclaimable[q] => n.reclaimable[q]
  BY <1>1
<1> HIDE DEF n
<1>3. Lays(m, n, {p})
  BY <1>1, <1>2 DEF Lays, Laid, Quiet, Free
<1> QED
  BY <1>3 DEF n

(* Pages are freed.                                                        *)
LEMMA LaysFree ==
  ASSUME NEW m \in Memories, NEW S \in SUBSET Pages
  PROVE  Lays(m, FreePages(m, S), {})
<1> DEFINE n == FreePages(m, S)
<1>1. /\ n.object = [p \in Pages |-> IF p \in S THEN NoObject ELSE m.object[p]]
      /\ n.busy = [p \in Pages |-> m.busy[p] /\ p \notin S]
      /\ n.active = [p \in Pages |-> m.active[p] /\ p \notin S]
      /\ n.reclaimable = [p \in Pages |-> m.reclaimable[p] /\ p \notin S]
      /\ n.mapped = m.mapped
  BY FreePagesDoes
<1>2. \A p \in S : p \in Free(n) /\ ~n.reclaimable[p]
  BY <1>1 DEF Free
<1>3. \A p \in Pages \ S : /\ n.object[p] = m.object[p]
                           /\ n.busy[p] <=> m.busy[p]
                           /\ n.active[p] <=> m.active[p]
                           /\ n.reclaimable[p] <=> m.reclaimable[p]
  BY ZenonT(60), <1>1
<1> HIDE DEF n
<1>4. Lays(m, n, {})
  BY <1>1, <1>2, <1>3 DEF Lays, Laid, Quiet, Free
<1> QED
  BY <1>4 DEF n

(* A page becomes active.                                                  *)
LEMMA LaysActivate ==
  ASSUME NEW m \in Memories, NEW p \in Pages
  PROVE  Lays(m, Activate(m, p), {}) /\ Laid(Activate(m, p), p)
<1> DEFINE n == Activate(m, p)
<1>1. /\ n.active = [m.active EXCEPT ![p] = TRUE]
      /\ n.object = m.object /\ n.busy = m.busy
      /\ n.reclaimable = m.reclaimable /\ n.mapped = m.mapped
  BY ActivateDoes
<1>2. n.active[p] /\ \A q \in Pages \ {p} : n.active[q] = m.active[q]
  BY <1>1 DEF Memories
<1> HIDE DEF n
<1>3. Lays(m, n, {}) /\ Laid(n, p)
  BY <1>1, <1>2 DEF Lays, Laid, Quiet, Free
<1> QED
  BY <1>3 DEF n

(* A page is taken out of the physical maps and, if it was active, becomes *)
(* reclaimable.                                                            *)
LEMMA LaysReclaim ==
  ASSUME NEW m \in Memories, NEW p \in Pages, NEW bit \in BOOLEAN
  PROVE  Lays(m, Reclaim(PmapRemoveAll(m, p, bit), p), {})
<1> DEFINE k == PmapRemoveAll(m, p, bit)
           n == Reclaim(k, p)
<1>1. /\ k \in Memories /\ k.mapped = [m.mapped EXCEPT ![p] = {}]
      /\ k.object = m.object /\ k.active = m.active
      /\ k.reclaimable = m.reclaimable /\ k.busy = m.busy
  BY PmapRemoveAllDoes
<1>2. k.mapped[p] = {} /\ \A q \in Pages \ {p} : k.mapped[q] = m.mapped[q]
  BY <1>1 DEF Memories
<1> HIDE DEF k
<1>3. Lays(m, k, {})
  BY <1>1, <1>2 DEF Lays, Laid, Quiet, Free
<1>4. CASE k.active[p]
  <2>1. /\ ~n.active[p] /\ n.reclaimable[p]
        /\ \A q \in Pages \ {p} : /\ n.active[q] = k.active[q]
                                  /\ n.reclaimable[q] = k.reclaimable[q]
        /\ n.object = k.object /\ n.busy = k.busy /\ n.mapped = k.mapped
    BY <1>1, <1>4, ReclaimDoes
  <2> HIDE DEF n
  <2>2. Lays(k, n, {})
    BY <1>2, <2>1 DEF Lays, Laid, Quiet, Free
  <2> QED
    BY <1>3, <2>2, LaysOn DEF n, k
<1>5. CASE ~k.active[p]
  BY <1>3, <1>5 DEF Reclaim, k
<1> QED
  BY <1>4, <1>5

(* An object is collapsed.                                                 *)
LEMMA LaysShrunk ==
  ASSUME NEW m, NEW n, Queued(n), NEW o, Shrunk(m, n, o)
  PROVE  Lays(m, n, {})
<1>1. ASSUME NEW p \in Free(n) PROVE Laid(n, p) /\ Quiet(n, p)
  BY DEF Queued, OffQueues, Laid, Quiet, Free
<1>2. ASSUME NEW p \in Pages \ Free(n)
      PROVE  (Laid(m, p) => Laid(n, p)) /\ (Quiet(m, p) => Quiet(n, p))
  BY DEF Shrunk, Laid, Quiet
<1> QED
  BY <1>1, <1>2 DEF Lays

(* A thread moves on; a page that is lost from the lists is in its hands.  *)
LEMMA ThreadLays ==
  ASSUME th \in [Threads -> ThreadRecords], NEW t \in Threads, NEW r,
         Step(t, r) \/ \E c : StepWaking(t, r, c),
         NEW S, Lays(mem, mem', S),
         \A p \in S : Laid(mem', p) \/ (r.pc \in Carry /\ r.page = p),
         th[t].pc \in Carry => \/ Laid(mem', th[t].page)
                               \/ r.pc \in Carry /\ r.page = th[t].page
  PROVE  Orderly
<1>1. th'[t] = r
  BY PageWaitersMoved DEF Step, StepWaking
<1>2. \A u \in Threads \ {t} : th'[u] = th[u] \/ Woken(th[u], th'[u])
  <2>1. CASE Step(t, r)
    BY <2>1 DEF Step
  <2>2. ASSUME NEW c, StepWaking(t, r, c)
        PROVE  \A u \in Threads \ {t} : th'[u] = th[u] \/ Woken(th[u], th'[u])
    <3>1. \A u \in Threads \ {t} : th'[u] = PageWaitersWoken(c)[u]
      BY <2>2, PageWaitersMoved DEF StepWaking
    <3> QED
      BY <3>1, PageWaitersMoved
  <2> QED
    BY <2>1, <2>2
<1>3. ASSUME AllLaid(mem, th), NEW p \in Pages
      PROVE  Laid(mem', p) \/ \E u \in Threads : th'[u].pc \in Carry /\ th'[u].page = p
  <2>1. CASE Laid(mem, p)
    BY <1>1, <2>1 DEF Lays
  <2>2. ASSUME NEW u \in Threads, th[u].pc \in Carry, th[u].page = p
        PROVE  Laid(mem', p) \/ \E v \in Threads : th'[v].pc \in Carry /\ th'[v].page = p
    <3>1. CASE u = t
      BY <1>1, <2>2, <3>1
    <3>2. CASE u # t
      <4>1. th'[u] = th[u]
        BY <1>2, <2>2, <3>2 DEF Woken, Carry
      <4> QED
        BY <2>2, <4>1
    <3> QED
      BY <3>1, <3>2
  <2> QED
    BY <1>3, <2>1, <2>2 DEF AllLaid
<1> QED
  BY <1>3 DEF Orderly, AllLaid, AllQuiet, Lays

(* A thread moves on, and no page is changed.                              *)
LEMMA QuietLays ==
  ASSUME IInv, NEW t \in Threads, th[t].pc \notin Carry, SamePages(mem, mem'),
         NEW r, Step(t, r)
  PROVE  Orderly
<1>1. th \in [Threads -> ThreadRecords]
  BY DEF IInv, Sound
<1>2. Lays(mem, mem', {})
  BY LaysSame
<1> QED
  BY <1>1, <1>2, ThreadLays

(* The steps of a search that change no page.                              *)
LEMMA SearchLays ==
  ASSUME IInv, NEW t \in Threads,
         \/ \E f \in Offsets, w \in BOOLEAN : Fault(t, f, w)
         \/ Enter(t) \/ Await(t) \/ Find(t) \/ MoveOn(t) \/ AwaitMemory(t) \/ PagerGet(t)
  PROVE  Orderly
<1>1. SamePages(mem, mem')
  <2>1. mem' = mem
    BY DEF Fault, Enter, Await, Find, MoveOn, AwaitMemory, PagerGet
  <2> QED
    BY <2>1 DEF SamePages
<1>2. th[t].pc \notin Carry
  BY DEF Fault, Enter, Await, Find, MoveOn, AwaitMemory, PagerGet, Searching, Carry
<1>3. \E r : Step(t, r)
  BY DEF Fault, Enter, Await, Find, MoveOn, AwaitMemory, PagerGet
<1> QED
  BY <1>1, <1>2, <1>3, QuietLays

(* A fault gives up, or looks up the map: references change, pages do not. *)
LEMMA LookupLays ==
  ASSUME IInv, NEW t \in Threads,
         FindBusy(t) \/ NoMemory(t) \/ LookupMap(t) \/ LookupAgain(t)
  PROVE  Orderly
<1>1. SamePages(mem, mem')
  <2>1. CASE FindBusy(t) \/ NoMemory(t)
    <3>1. mem \in Memories
      BY ThreadNow
    <3>2. mem' = Unreference(mem, th[t].first)
      BY <2>1 DEF FindBusy, NoMemory, LetGo
    <3> QED
      BY <3>1, <3>2 DEF Memories, Unreference, SamePages
  <2>2. CASE LookupMap(t)
    <3>1. PICK r \in LookedUp(t) : mem' = Reference(r.mem, r.object)
      BY <2>2 DEF LookupMap
    <3>2. SamePages(mem, r.mem)
      BY LookedUpIs
    <3> QED
      BY <3>1, <3>2 DEF Reference, SamePages
  <2>3. CASE LookupAgain(t)
    <3>1. PICK r \in LookedUp(t) : mem' = r.mem
      BY <2>3 DEF LookupAgain
    <3> QED
      BY <3>1, LookedUpIs
  <2> QED
    BY <2>1, <2>2, <2>3
<1>2. th[t].pc \notin Carry
  BY DEF FindBusy, NoMemory, LookupMap, LookupAgain, Searching, Carry
<1>3. \E r : Step(t, r)
  BY DEF FindBusy, NoMemory, LookupMap, LookupAgain
<1> QED
  BY <1>1, <1>2, <1>3, QuietLays

(* A new page is busy, or in the hands of the thread that zero-fills it.   *)
LEMMA StartPageinLays ==
  ASSUME IInv, NEW t \in Threads, StartPagein(t)
  PROVE  Orderly
<1>1. th \in [Threads -> ThreadRecords] /\ mem \in Memories /\ th[t] \in ThreadRecords
  BY ThreadNow
<1>2. th[t].pc \notin Carry /\ th[t].object \in Objects /\ th[t].offset \in Offsets
  BY <1>1 DEF StartPagein, Searching, Carry, ThreadRecords
<1>3. PICK p \in Free(mem) : /\ mem' = Alloc(mem, p, th[t].object, th[t].offset)
                             /\ \E r : Step(t, r)
  BY DEF StartPagein
<1>4. Lays(mem, mem', {})
  BY <1>1, <1>2, <1>3, LaysAlloc DEF Free
<1> QED
  BY <1>1, <1>2, <1>3, <1>4, ThreadLays

(* Zero filling a page loses none and maps none that is reclaimable.       *)
LEMMA ZeroFillLays ==
  ASSUME IInv, NEW t \in Threads, ZeroFill(t)
  PROVE  Orderly
<1>1. /\ th \in [Threads -> ThreadRecords] /\ mem \in Memories /\ th[t] \in ThreadRecords
      /\ ThreadOK(mem, th[t])
  BY ThreadNow
<1>2. th[t].pc = "search"
  BY DEF ZeroFill, Searching
<1>3. th[t].first \in Objects /\ th[t].offset \in Offsets
  BY <1>1, <1>2 DEF ThreadRecords, ThreadOK, Outside
<1>4. PICK p \in Free(mem) :
        /\ mem' = SetBusy(Alloc(mem, p, th[t].first, th[t].offset), p, FALSE)
        /\ Step(t, [th[t] EXCEPT !.pc = "found", !.page = p])
  BY DEF ZeroFill
<1> DEFINE k == Alloc(mem, p, th[t].first, th[t].offset)
           r == [th[t] EXCEPT !.pc = "found", !.page = p]
<1>5. p \in Pages /\ k \in Memories /\ Lays(mem, k, {})
  BY <1>1, <1>3, LaysAlloc, AllocDoes DEF Free
<1>6. r.pc = "found" /\ r.page = p
  BY <1>1 DEF ThreadRecords
<1> HIDE DEF k, r
<1>7. Lays(k, SetBusy(k, p, FALSE), {p})
  BY <1>5, LaysBusy
<1>10. Lays(mem, k, {p})
  BY <1>5, LaysBut
<1>8. Lays(mem, mem', {p})
  BY <1>4, <1>7, <1>10, LaysOn DEF k
<1>9. Step(t, r)
  BY <1>4 DEF r
<1> QED
  BY <1>1, <1>2, <1>6, <1>8, <1>9, ThreadLays DEF Carry

(* The page has come, or is let go since there is nothing.                 *)
LEMMA PageinLays ==
  ASSUME IInv, NEW t \in Threads, PagedIn(t) \/ NotThere(t)
  PROVE  Orderly
<1>1. /\ th \in [Threads -> ThreadRecords] /\ mem \in Memories /\ th[t] \in ThreadRecords
      /\ ThreadOK(mem, th[t])
  BY ThreadNow
<1>2. th[t].pc \in {"got", "not_there"}
  BY DEF PagedIn, NotThere
<1>3. th[t].page \in Pages /\ th[t].pc \notin Carry
  BY <1>1, <1>2 DEF ThreadOK, Holds, Works, Carry
<1>4. CASE PagedIn(t)
  <2> DEFINE r == [th[t] EXCEPT !.pc = "found"]
  <2>1. r.pc \in Carry /\ r.page = th[t].page
    BY <1>1 DEF ThreadRecords, Carry
  <2>2. \E c : StepWaking(t, r, c)
    BY <1>4 DEF PagedIn
  <2> HIDE DEF r
  <2>3. Lays(mem, mem', {th[t].page})
    BY <1>1, <1>3, <1>4, LaysBusy DEF PagedIn
  <2> QED
    BY <1>1, <1>3, <2>1, <2>2, <2>3, ThreadLays
<1>5. CASE NotThere(t)
  <2>1. \E r, c : StepWaking(t, r, c)
    BY <1>5 DEF NotThere
  <2>2. Lays(mem, mem', {})
    BY <1>1, <1>3, <1>5, LaysFree DEF NotThere
  <2> QED
    BY <1>1, <1>3, <2>1, <2>2, ThreadLays
<1> QED
  BY <1>4, <1>5

(* A page that is taken off its queue is in the thread's hands, or busy.   *)
LEMMA TakeLays ==
  ASSUME IInv, NEW t \in Threads, Take(t)
  PROVE  Orderly
<1> DEFINE p == th[t].page
           k == Dequeue(mem, {p})
           b == ~th[t].locked
           r == [th[t] EXCEPT !.pc = IF th[t].locked THEN "copy" ELSE "relookup"]
<1>1. /\ th \in [Threads -> ThreadRecords] /\ mem \in Memories /\ th[t] \in ThreadRecords
      /\ ThreadOK(mem, th[t])
  BY ThreadNow
<1>2. th[t].pc = "found" /\ mem' = SetBusy(k, p, b) /\ Step(t, r)
  BY DEF Take
<1>3. p \in Pages /\ b \in BOOLEAN /\ th[t].locked \in BOOLEAN
  BY <1>1, <1>2 DEF ThreadOK, Holds, ThreadRecords
<1>4. k \in Memories /\ Lays(mem, k, {p})
  BY <1>1, <1>3, LaysDequeue, DequeueDoes
<1>5. r.page = p /\ (th[t].locked => r.pc \in Carry)
  BY <1>1 DEF ThreadRecords, Carry
<1> HIDE DEF k, r, p
<1>6. /\ Lays(k, SetBusy(k, p, b), {p})
      /\ b => Laid(SetBusy(k, p, b), p)
  BY <1>3, <1>4, LaysBusy
<1> HIDE DEF b
<1>7. Lays(mem, mem', {p})
  BY <1>2, <1>4, <1>6, LaysOn
<1>8. Laid(mem', p) \/ (r.pc \in Carry /\ r.page = p)
  BY <1>2, <1>3, <1>5, <1>6 DEF b
<1> QED
  BY <1>1, <1>2, <1>7, <1>8, ThreadLays DEF p

(* With the map as it was the thread has the page in its hands.            *)
LEMMA MapUnchangedLays ==
  ASSUME IInv, NEW t \in Threads, MapUnchanged(t)
  PROVE  Orderly
<1> DEFINE r == [th[t] EXCEPT !.pc = "copy"]
<1>1. /\ th \in [Threads -> ThreadRecords] /\ mem \in Memories /\ th[t] \in ThreadRecords
      /\ ThreadOK(mem, th[t])
  BY ThreadNow
<1>2. th[t].pc = "same" /\ mem' = SetBusy(mem, th[t].page, FALSE)
  BY DEF MapUnchanged
<1>6. \E c : StepWaking(t, r, c)
  BY DEF MapUnchanged
<1>3. th[t].page \in Pages /\ th[t].pc \notin Carry
  BY <1>1, <1>2 DEF ThreadOK, Holds, Works, Carry
<1>4. r.pc \in Carry /\ r.page = th[t].page
  BY <1>1 DEF ThreadRecords, Carry
<1> HIDE DEF r
<1>5. Lays(mem, mem', {th[t].page})
  BY <1>1, <1>2, <1>3, LaysBusy
<1> QED
  BY <1>1, <1>3, <1>4, <1>5, <1>6, ThreadLays

(* A page that is no longer busy is active.                                *)
LEMMA ReleaseLays ==
  ASSUME IInv, NEW t \in Threads, MapChanged(t) \/ Finish(t)
  PROVE  Orderly
<1> DEFINE p == th[t].page
           k == SetBusy(mem, p, FALSE)
           j == Activate(k, p)
<1>1. /\ th \in [Threads -> ThreadRecords] /\ mem \in Memories /\ th[t] \in ThreadRecords
      /\ ThreadOK(mem, th[t])
  BY ThreadNow
<1>2. /\ th[t].pc \in {"changed", "finish"} /\ mem' = LetGo(j, t)
      /\ \E r, c : StepWaking(t, r, c)
  BY DEF MapChanged, Finish
<1>3. p \in Pages /\ th[t].pc \notin Carry
  BY <1>1, <1>2 DEF ThreadOK, Holds, Works, Carry
<1>4. k \in Memories /\ Lays(mem, k, {p})
  BY <1>1, <1>3, LaysBusy, SetBusyDoes
<1> HIDE DEF p, k
<1>5. Lays(k, j, {}) /\ Laid(j, p)
  BY <1>3, <1>4, LaysActivate
<1> HIDE DEF j
<1>6. SamePages(j, mem')
  BY <1>2 DEF LetGo, Unreference, SamePages
<1>7. Laid(mem', p)
  BY <1>5, <1>6 DEF SamePages, Laid, Free
<1>8. Lays(mem, mem', {p})
  BY <1>4, <1>5, <1>6, LaysOn, LaysBut, LaysSame
<1> QED
  BY <1>1, <1>2, <1>3, <1>7, <1>8, ThreadLays

(* What is there after the collapse a thread that copies may make.         *)
LEMMA CollapsedLays ==
  ASSUME IInv, NEW t \in Threads, Copying(t)
  PROVE  /\ mem \in Memories /\ th \in [Threads -> ThreadRecords] /\ th[t] \in ThreadRecords
         /\ th[t].pc = "copy" /\ th[t].page \in Pages
         /\ th[t].first \in Objects /\ th[t].offset \in Offsets
         /\ Collapsed(t) \in Memories /\ Lays(mem, Collapsed(t), {})
<1> DEFINE o == th[t].first
           n == Collapse(mem, o)
<1>1. /\ mem \in Memories /\ th \in [Threads -> ThreadRecords] /\ th[t] \in ThreadRecords
      /\ ThreadOK(mem, th[t]) /\ Queued(mem) /\ ObjectsOK(mem, entry, First(th))
      /\ DOMAIN entry = DOMAIN InitEntry
      /\ o \in Objects => mem.live[o]
  BY ThreadNow
<1>2. th[t].pc = "copy"
  BY DEF Copying
<1>3. th[t].page \in Pages /\ o \in Objects /\ th[t].offset \in Offsets
  BY <1>1, <1>2 DEF ThreadOK, Holds, Outside, ThreadRecords
<1>4. n \in Memories /\ Queued(n) /\ Shrunk(mem, n, o)
  BY <1>1, <1>3, CollapseDoes
<1>5. Collapsed(t) = n
  BY DEF Collapsed
<1> HIDE DEF n
<1>6. Lays(mem, n, {})
  BY <1>4, LaysShrunk
<1> QED
  BY <1>1, <1>2, <1>3, <1>4, <1>5, <1>6

(* The page that is used is busy.                                          *)
LEMMA UsePageLays ==
  ASSUME IInv, NEW t \in Threads, UsePage(t)
  PROVE  Orderly
<1> DEFINE p == th[t].page
           k == IF NotOwn(t) /\ th[t].write THEN Collapsed(t) ELSE mem
<1>1. Copying(t) /\ mem' = SetBusy(k, p, TRUE) /\ \E r : Step(t, r)
  BY DEF UsePage
<1>2. /\ mem \in Memories /\ th \in [Threads -> ThreadRecords] /\ p \in Pages
      /\ Collapsed(t) \in Memories /\ Lays(mem, Collapsed(t), {})
  BY <1>1, CollapsedLays
<1>3. k \in Memories /\ Lays(mem, k, {})
  <2>1. Lays(mem, mem, {})
    BY DEF Lays
  <2> QED
    BY <1>2, <2>1
<1> HIDE DEF k, p
<1>4. Lays(k, mem', {}) /\ Laid(mem', p)
  BY <1>1, <1>2, <1>3, LaysBusy
<1>5. Lays(mem, mem', {})
  BY <1>3, <1>4, LaysOn
<1>6. /\ \E r : Step(t, r)
      /\ Laid(mem', th[t].page)
  BY <1>1, <1>4 DEF p
<1> QED
  BY <1>2, <1>5, <1>6, ThreadLays

(* The original of a copy is active, if only one map has the entry.        *)
LEMMA CopyPageLays ==
  ASSUME IInv, NEW t \in Threads, CopyPage(t)
  PROVE  /\ AllQuiet(mem) => AllQuiet(mem')
         /\ SingleUse(MapOf[t]) => Orderly
<1> DEFINE old == th[t].page
           k == Collapsed(t)
<1>1. Copying(t)
  BY DEF CopyPage
<1>2. /\ mem \in Memories /\ th \in [Threads -> ThreadRecords] /\ th[t] \in ThreadRecords
      /\ th[t].pc = "copy" /\ old \in Pages
      /\ th[t].first \in Objects /\ th[t].offset \in Offsets
      /\ k \in Memories /\ Lays(mem, k, {})
  BY <1>1, CollapsedLays
<1>3. ModifyBits(mem, old) \subseteq BOOLEAN
  BY DEF ModifyBits
<1>4. PICK new \in Free(k), bit \in BOOLEAN :
        /\ mem' = IF SingleUse(MapOf[t])
                    THEN Activate(Alloc(k, new, th[t].first, th[t].offset), old)
                    ELSE Reclaim(PmapRemoveAll(Alloc(k, new, th[t].first, th[t].offset), old, bit), old)
        /\ Step(t, [th[t] EXCEPT !.pc = "map", !.page = new])
  BY <1>3 DEF CopyPage
<1> DEFINE c == Alloc(k, new, th[t].first, th[t].offset)
           r == [th[t] EXCEPT !.pc = "map", !.page = new]
<1>5. Step(t, r) /\ mem' = IF SingleUse(MapOf[t]) THEN Activate(c, old)
                           ELSE Reclaim(PmapRemoveAll(c, old, bit), old)
  BY <1>4
<1> HIDE DEF old, k
<1>6. new \in Pages
  BY DEF Free
<1>7. c \in Memories /\ Lays(k, c, {})
  BY <1>2, <1>6, LaysAlloc, AllocDoes
<1> HIDE DEF c, r
<1>8. Lays(mem, c, {})
  BY <1>2, <1>7, LaysOn
<1>9. /\ Lays(c, Activate(c, old), {}) /\ Laid(Activate(c, old), old)
      /\ Lays(c, Reclaim(PmapRemoveAll(c, old, bit), old), {})
  BY <1>2, <1>7, LaysActivate, LaysReclaim
<1>10. Lays(c, mem', {})
  BY <1>5, <1>9
<1>11. Lays(mem, mem', {})
  BY <1>8, <1>10, LaysOn
<1>12. ASSUME SingleUse(MapOf[t]) PROVE Orderly
  <2>1. Laid(mem', old)
    BY <1>5, <1>9, <1>12
  <2> QED
    BY <1>2, <1>5, <1>11, <2>1, ThreadLays DEF old
<1> QED
  BY <1>11, <1>12 DEF AllQuiet, Lays

(* So it is when there is no memory for the copy.                          *)
LEMMA CopyNoMemoryLays ==
  ASSUME IInv, NEW t \in Threads, CopyNoMemory(t)
  PROVE  Orderly
<1> DEFINE p == th[t].page
           k == Collapsed(t)
           j == Activate(k, p)
<1>1. Copying(t) /\ mem' = LetGo(j, t) /\ \E r : Step(t, r)
  BY DEF CopyNoMemory
<1>2. /\ mem \in Memories /\ th \in [Threads -> ThreadRecords] /\ p \in Pages
      /\ k \in Memories /\ Lays(mem, k, {})
  BY <1>1, CollapsedLays
<1> HIDE DEF k, p
<1>3. Lays(k, j, {}) /\ Laid(j, p) /\ j \in Memories
  BY <1>2, LaysActivate, ActivateDoes
<1> HIDE DEF j
<1>4. SamePages(j, mem')
  BY <1>1, <1>3 DEF LetGo, Unreference, SamePages, Memories
<1>5. Laid(mem', p)
  BY <1>3, <1>4 DEF SamePages, Laid, Free
<1>6. Lays(mem, j, {}) /\ Lays(j, mem', {})
  BY <1>2, <1>3, <1>4, LaysOn, LaysSame
<1>7. Lays(mem, mem', {})
  BY <1>6, LaysOn
<1> QED
  BY <1>1, <1>2, <1>5, <1>7, ThreadLays DEF p

(* The page a thread enters into a map is not reclaimable.                 *)
LEMMA EnterPmapLays ==
  ASSUME IInv, NEW t \in Threads, EnterPmap(t)
  PROVE  Orderly
<1> DEFINE p == th[t].page
           n == PmapEnter(mem, MapOf[t], p, th[t].prot)
<1>1. /\ th \in [Threads -> ThreadRecords] /\ mem \in Memories /\ th[t] \in ThreadRecords
      /\ ThreadOK(mem, th[t])
  BY ThreadNow
<1>2. th[t].pc = "map" /\ mem' = n /\ \E r : Step(t, r)
  BY DEF EnterPmap
<1>3. p \in Pages /\ OffQueues(mem, p) /\ th[t].pc \notin Carry
  BY <1>1, <1>2 DEF ThreadOK, Holds, Works, Carry
<1>4. MapOf[t] \in Maps /\ th[t].prot \in BOOLEAN
  BY <1>1, VMFaultAssumption DEF ThreadRecords
<1>5. /\ \A q \in Pages : q # p => n.mapped[q] \subseteq mem.mapped[q]
      /\ n.object = mem.object /\ n.active = mem.active
      /\ n.reclaimable = mem.reclaimable /\ n.busy = mem.busy
  BY <1>1, <1>3, <1>4, PmapEnterDoes
<1> HIDE DEF n, p
<1>6. Lays(mem, n, {})
  BY <1>3, <1>5 DEF Lays, Laid, Quiet, OffQueues, Free
<1> QED
  BY <1>1, <1>2, <1>3, <1>6, ThreadLays

(* The daemon, or the end of an object: no thread's page changes hands.    *)
LEMMA OthersLay ==
  ASSUME th \in [Threads -> ThreadRecords], Lays(mem, mem', {}),
         th' = th \/ th' = FreeWaitersWoken \/ \E p : th' = PageWaitersWoken(p)
  PROVE  Orderly
<1>1. \A u \in Threads : th'[u] = th[u] \/ Woken(th[u], th'[u])
  BY FreeWaitersMoved, PageWaitersMoved
<1>2. \A u \in Threads : th[u].pc \in Carry => th'[u] = th[u]
  BY <1>1 DEF Woken, Carry
<1> QED
  BY <1>2 DEF Orderly, AllLaid, AllQuiet, Lays

(* The steps in which the daemon changes no list.                          *)
LEMMA DaemonLays ==
  ASSUME IInv, StartScan \/ LookAtPager \/ SetPager \/ NoPagingSpace \/ PagerPut
               \/ EndScan \/ EndRefill \/ Rest
  PROVE  Orderly
<1>1. mem \in Memories /\ th \in [Threads -> ThreadRecords]
  BY DEF IInv, Sound
<1>2. CASE SetPager
  <2>1. SamePages(mem, mem') /\ th' = th
    BY <1>1, <1>2 DEF SetPager, SamePages, Memories
  <2> QED
    BY <1>1, <2>1, LaysSame, OthersLay
<1>3. CASE PagerPut
  <2>1. SamePages(mem, mem') /\ th' = th
    BY <1>1, <1>3 DEF PagerPut, SamePages, Memories
  <2> QED
    BY <1>1, <2>1, LaysSame, OthersLay
<1>4. CASE StartScan \/ LookAtPager \/ NoPagingSpace \/ EndScan \/ EndRefill \/ Rest
  <2>1. mem' = mem /\ (th' = th \/ th' = FreeWaitersWoken)
    BY <1>4 DEF StartScan, LookAtPager, NoPagingSpace, EndScan, EndRefill, Rest
  <2>2. SamePages(mem, mem')
    BY <2>1 DEF SamePages
  <2> QED
    BY <1>1, <2>1, <2>2, LaysSame, OthersLay
<1> QED
  BY <1>2, <1>3, <1>4

(* The steps in which it does.                                             *)
LEMMA PassByLays ==
  ASSUME IInv, PassBy
  PROVE  Orderly
<1>1. mem \in Memories /\ th \in [Threads -> ThreadRecords] /\ dm \in DaemonRecords
  BY DEF IInv, Sound
<1>2. dm.cur \in Pages /\ th' = th
  BY <1>1 DEF PassBy, Scanning, DaemonRecords
<1>3. Lays(mem, FreePages(mem, {dm.cur}), {})
  BY <1>1, <1>2, LaysFree
<1>4. Lays(mem, mem, {})
  BY DEF Lays
<1>5. Lays(mem, mem', {})
  BY <1>3, <1>4 DEF PassBy
<1> QED
  BY <1>1, <1>2, <1>5, OthersLay

(* The start of a pageout loses no page: it is busy, and still on the      *)
(* queue.                                                                  *)
LEMMA StartPageoutLays ==
  ASSUME IInv, StartPageout
  PROVE  Orderly
<1> DEFINE p == dm.cur
           o == mem.object[p]
           k == Collapse(mem, o)
           j == SetBusy(k, p, TRUE)
<1>1. /\ mem \in Memories /\ th \in [Threads -> ThreadRecords] /\ dm \in DaemonRecords
      /\ Queued(mem) /\ ObjectsOK(mem, entry, First(th)) /\ entry \in EntryMaps
      /\ DaemonOK(mem, dm)
  BY DEF IInv, Sound
<1>2. /\ p \in Pages /\ dm.pc = "scan" /\ th' = FreeWaitersWoken
      /\ mem' = [j EXCEPT !.pageout_in_progress[o] = TRUE]
  BY <1>1 DEF StartPageout, Scanning, DaemonRecords
<1>3. mem.reclaimable[p]
  BY <1>1, <1>2, VMPageAssumption DEF DaemonOK
<1>4. o \in Objects
  BY <1>1, <1>2, <1>3 DEF Queued, OffQueues, Free, Memories
<1>5. mem.live[o]
  BY <1>1, <1>2, <1>4 DEF ObjectsOK, Counted, PagesOf
<1>6. DOMAIN entry = DOMAIN InitEntry
  BY <1>1 DEF EntryMaps
<1>7. k \in Memories /\ Queued(k) /\ Shrunk(mem, k, o)
  BY <1>1, <1>4, <1>5, <1>6, CollapseDoes
<1> HIDE DEF p, o, k
<1>8. Lays(mem, k, {})
  BY <1>7, LaysShrunk
<1>9. j \in Memories /\ Lays(k, j, {})
  BY <1>2, <1>7, LaysBusy, SetBusyDoes
<1> HIDE DEF j
<1>10. SamePages(j, mem')
  BY <1>2, <1>9 DEF SamePages, Memories
<1>11. Lays(mem, j, {}) /\ Lays(j, mem', {})
  BY <1>8, <1>9, <1>10, LaysOn, LaysSame
<1>12. Lays(mem, mem', {})
  BY <1>11, LaysOn
<1> QED
  BY <1>1, <1>2, <1>12, OthersLay

(* The end of a pageout leaves its page on one of the queues.              *)
LEMMA EndPageoutLays ==
  ASSUME IInv, EndPageout
  PROVE  Orderly
<1> DEFINE p == dm.cur
           j == SetBusy(mem, p, FALSE)
<1>1. /\ mem \in Memories /\ th \in [Threads -> ThreadRecords] /\ DaemonOK(mem, dm)
  BY DEF IInv, Sound
<1>2. /\ dm.pc = "written" /\ th' = PageWaitersWoken(p)
      /\ mem' = [j EXCEPT !.pageout_in_progress[dm.object] = FALSE]
  BY DEF EndPageout
<1>3. p \in Pages /\ mem.reclaimable[p]
  BY <1>1, <1>2 DEF DaemonOK, Writes
<1> HIDE DEF p
<1>4. /\ j \in Memories /\ j.busy = [mem.busy EXCEPT ![p] = FALSE]
      /\ j.object = mem.object /\ j.active = mem.active
      /\ j.reclaimable = mem.reclaimable /\ j.mapped = mem.mapped
  BY <1>1, <1>3, SetBusyDoes
<1> HIDE DEF j
<1>5. \A q \in Pages \ {p} : j.busy[q] = mem.busy[q]
  BY <1>1, <1>4 DEF Memories
<1>6. Lays(mem, j, {})
  BY <1>3, <1>4, <1>5 DEF Lays, Laid, Quiet, Free
<1>7. SamePages(j, mem')
  BY <1>2, <1>4 DEF SamePages, Memories
<1>8. Lays(j, mem', {})
  BY <1>7, LaysSame
<1>9. Lays(mem, mem', {})
  BY <1>6, <1>8, LaysOn
<1> QED
  BY <1>1, <1>2, <1>9, OthersLay

(* Refilling the reclaim queue unmaps the page that it puts there.         *)
LEMMA RefillLays ==
  ASSUME IInv, Refill
  PROVE  Orderly
<1> DEFINE p == Head(mem.activeq)
<1>1. mem \in Memories /\ th \in [Threads -> ThreadRecords]
  BY DEF IInv, Sound
<1>2. mem.activeq \in Seq(Pages) /\ mem.activeq # <<>> /\ th' = th
  BY <1>1 DEF Refill, Memories
<1>3. p \in Pages
  BY <1>2
<1>4. ModifyBits(mem, p) \subseteq BOOLEAN
  BY DEF ModifyBits
<1>5. PICK bit \in BOOLEAN : mem' = Reclaim(PmapRemoveAll(mem, p, bit), p)
  BY <1>4 DEF Refill
<1> HIDE DEF p
<1>6. Lays(mem, mem', {})
  BY <1>1, <1>3, <1>5, LaysReclaim
<1> QED
  BY <1>1, <1>2, <1>6, OthersLay

(* The end of an object frees its pages.                                   *)
LEMMA TerminateLays ==
  ASSUME IInv, NEW o \in Objects, Terminate(o)
  PROVE  Orderly
<1> DEFINE j == FreePages(mem, PagesOf(mem, o))
<1>1. mem \in Memories /\ th \in [Threads -> ThreadRecords]
  BY DEF IInv, Sound
<1>2. mem' = Terminated(mem, o) /\ th' = th
  BY DEF Terminate
<1>3. PagesOf(mem, o) \in SUBSET Pages
  BY DEF PagesOf
<1>4. j \in Memories /\ Lays(mem, j, {})
  BY <1>1, <1>3, LaysFree, FreePagesDoes
<1>5. mem' = [j EXCEPT !.live[o] = FALSE, !.space[o] = NoSpace,
              !.ref_count = [x \in Objects |-> @[x] - (IF x = mem.shadow[o] THEN 1 ELSE 0)]]
  BY <1>2 DEF Terminated
<1> HIDE DEF j
<1>6. SamePages(j, mem')
  BY <1>4, <1>5 DEF SamePages, Memories
<1>7. Lays(j, mem', {})
  BY <1>6, LaysSame
<1>8. Lays(mem, mem', {})
  BY <1>4, <1>7, LaysOn
<1> QED
  BY <1>1, <1>2, <1>8, OthersLay

(* At first no page is busy, and every page is in a list.                  *)
LEMMA InitOrderly ==
  Init => AllQuiet(mem) /\ AllLaid(mem, th)
BY InitMemAssumption DEF Init, AllQuiet, Quiet, AllLaid, Laid, AtRest, Listed

(* No step maps a reclaimable page.                                        *)
LEMMA NextQuiet == IInv /\ [Next]_vars => (AllQuiet(mem) => AllQuiet(mem)')
<1> SUFFICES ASSUME IInv, [Next]_vars PROVE AllQuiet(mem) => AllQuiet(mem')
  BY DEF AllQuiet, Quiet
<1>1. ASSUME NEW t \in Threads, Handle(t), ~CopyPage(t) PROVE Orderly
  BY <1>1, SearchLays, LookupLays, StartPageinLays, ZeroFillLays, PageinLays, TakeLays,
     MapUnchangedLays, ReleaseLays, UsePageLays, CopyNoMemoryLays, EnterPmapLays DEF Handle
<1>2. ASSUME NEW t \in Threads, NEW f \in Offsets, NEW w \in BOOLEAN, Fault(t, f, w)
      PROVE  Orderly
  BY <1>2, SearchLays
<1>3. CASE Pageout
  BY <1>3, DaemonLays, PassByLays, StartPageoutLays, EndPageoutLays, RefillLays
     DEF Pageout, Orderly
<1>4. ASSUME NEW o \in Objects, Terminate(o) PROVE Orderly
  BY <1>4, TerminateLays
<1>5. ASSUME NEW t \in Threads, CopyPage(t) PROVE AllQuiet(mem) => AllQuiet(mem')
  BY <1>5, CopyPageLays
<1>6. CASE UNCHANGED vars
  BY <1>6 DEF vars
<1> QED
  BY <1>1, <1>2, <1>3, <1>4, <1>5, <1>6 DEF Next, Orderly

(* Nor does one lose a page, if every entry is one map's own.              *)
LEMMA NextLaid ==
  IInv /\ (\A k \in Maps : SingleUse(k)) /\ [Next]_vars
    => (AllLaid(mem, th) => AllLaid(mem, th)')
<1> SUFFICES ASSUME IInv, \A k \in Maps : SingleUse(k), [Next]_vars
             PROVE  AllLaid(mem, th) => AllLaid(mem', th')
  BY DEF AllLaid, Laid, Free
<1>1. ASSUME NEW t \in Threads, Handle(t), ~CopyPage(t) PROVE Orderly
  BY <1>1, SearchLays, LookupLays, StartPageinLays, ZeroFillLays, PageinLays, TakeLays,
     MapUnchangedLays, ReleaseLays, UsePageLays, CopyNoMemoryLays, EnterPmapLays DEF Handle
<1>2. ASSUME NEW t \in Threads, NEW f \in Offsets, NEW w \in BOOLEAN, Fault(t, f, w)
      PROVE  Orderly
  BY <1>2, SearchLays
<1>3. CASE Pageout
  BY <1>3, DaemonLays, PassByLays, StartPageoutLays, EndPageoutLays, RefillLays
     DEF Pageout, Orderly
<1>4. ASSUME NEW o \in Objects, Terminate(o) PROVE Orderly
  BY <1>4, TerminateLays
<1>5. ASSUME NEW t \in Threads, CopyPage(t) PROVE Orderly
  <2>1. SingleUse(MapOf[t])
    BY VMFaultAssumption
  <2> QED
    BY <1>5, <2>1, CopyPageLays
<1>6. CASE UNCHANGED vars
  BY <1>6 DEF vars
<1> QED
  BY <1>1, <1>2, <1>3, <1>4, <1>5, <1>6 DEF Next, Orderly

(* A reclaimable page is in no physical map (vm_page.h:106), PageTaken     *)
(* apart.                                                                  *)
THEOREM ReclaimableUnmapped == Spec => []ReclaimUnmapped \/ <><<PageTaken>>_vars
<1>1. AllQuiet(mem) => ReclaimUnmapped
  BY DEF AllQuiet, Quiet, ReclaimUnmapped
<1> QED
  BY <1>1, InitOrderly, Inductive, NextQuiet, PTL DEF Spec

(* If every entry is one map's own, no page is lost, PageTaken apart.      *)
THEOREM PagesInLists ==
  ASSUME \A k \in Maps : SingleUse(k)
  PROVE  Spec => []InAList \/ <><<PageTaken>>_vars
<1>1. IInv /\ AllLaid(mem, th) => InAList
  <2> SUFFICES ASSUME IInv, AllLaid(mem, th), lock = NoOne PROVE Listed(mem)
    BY DEF InAList
  <2>1. \A t \in Threads : th[t].pc \notin Carry
    BY VMFaultAssumption DEF IInv, Sound, LocksOK, Locking, Carry
  <2> QED
    BY <2>1 DEF AllLaid, Laid, Listed
<1>2. IInv /\ [Next]_vars => (AllLaid(mem, th) => AllLaid(mem, th)')
  BY NextLaid
<1> QED
  BY <1>1, <1>2, InitOrderly, Inductive, PTL DEF Spec

-----------------------------------------------------------------------------
(***************************************************************************)
(* Paging spaces.  Every space of m is one of n.                           *)
(***************************************************************************)
Homes(m, n) ==
  \A o \in Objects : m.space[o] # NoSpace => \E x \in Objects : n.space[x] = m.space[o]

(* The daemon has seen that an object has no pager and gives it one        *)
(* without the lock (vm_pageout.c:260), though it has got one meanwhile.   *)
LatePager == SetPager /\ mem.space[dm.object] # NoSpace

(* What happens to pages and counts leaves every object its space.         *)
LEMMA SpacesUntouched ==
  /\ \A m, S : Dequeue(m, S).space = m.space /\ FreePages(m, S).space = m.space
  /\ \A m, p : Activate(m, p).space = m.space /\ Reclaim(m, p).space = m.space
  /\ \A m, p, b : SetBusy(m, p, b).space = m.space /\ PmapRemoveAll(m, p, b).space = m.space
  /\ \A m, p, o, f : Alloc(m, p, o, f).space = m.space
  /\ \A m, k, p, b : PmapEnter(m, k, p, b).space = m.space
  /\ \A m, o : Reference(m, o).space = m.space /\ Unreference(m, o).space = m.space
<1>1. \A m, S : Dequeue(m, S).space = m.space
  BY DEF Dequeue
<1>2. \A m, S : FreePages(m, S).space = m.space
  BY <1>1 DEF FreePages
<1>3. \A m, p : Activate(m, p).space = m.space
  BY DEF Activate
<1>4. \A m, p : Reclaim(m, p).space = m.space
  BY <1>1 DEF Reclaim
<1>5. \A m, p, b : SetBusy(m, p, b).space = m.space /\ PmapRemoveAll(m, p, b).space = m.space
  BY DEF SetBusy, PmapRemoveAll
<1>6. \A m, p, o, f : Alloc(m, p, o, f).space = m.space
  BY DEF Alloc
<1>7. \A m, k, p, b : PmapEnter(m, k, p, b).space = m.space
  BY DEF PmapEnter
<1>8. \A m, o : Reference(m, o).space = m.space /\ Unreference(m, o).space = m.space
  BY DEF Reference, Unreference
<1> QED
  BY <1>1, <1>2, <1>3, <1>4, <1>5, <1>6, <1>7, <1>8

(* A collapse moves a space or leaves it.                                  *)
LEMMA CollapseHomes ==
  ASSUME IInv, NEW o \in Objects, mem.live[o]
  PROVE  Homes(mem, Collapse(mem, o))
<1>1. /\ mem \in Memories /\ Queued(mem) /\ ObjectsOK(mem, entry, First(th))
      /\ DOMAIN entry = DOMAIN InitEntry
  BY DEF IInv, Sound, EntryMaps
<1>2. Shrunk(mem, Collapse(mem, o), o)
  BY <1>1, CollapseDoes
<1> QED
  BY <1>2 DEF Shrunk, Homes

(* So does that of the object of a thread that is to copy.                 *)
LEMMA CollapsedHomes ==
  ASSUME IInv, NEW t \in Threads, Copying(t)
  PROVE  Homes(mem, Collapsed(t))
<1>1. /\ th[t] \in ThreadRecords /\ ThreadOK(mem, th[t])
      /\ th[t].first \in Objects => mem.live[th[t].first]
  BY ThreadNow
<1>2. th[t].first \in Objects /\ mem.live[th[t].first]
  BY <1>1 DEF Copying, ThreadOK, Outside, ThreadRecords
<1> QED
  BY <1>2, CollapseHomes DEF Collapsed

(* A new object takes the place of none that has a space.                  *)
LEMMA LookedUpHomes ==
  ASSUME IInv, NEW t \in Threads, NEW r \in LookedUp(t)
  PROVE  Homes(mem, r.mem)
<1>1. /\ mem \in Memories /\ \A o \in Objects : ~mem.live[o] => mem.space[o] = NoSpace
  BY DEF IInv, Sound, ObjectsOK
<1>2. CASE r.mem = mem
  BY <1>2 DEF Homes
<1>3. CASE r.mem # mem
  <2> DEFINE o == entry[EntryOf[MapOf[t]]].object
  <2>1. Copies(t)
    BY <1>3 DEF LookedUp
  <2>2. \E n \in Objects : /\ ~mem.live[n]
                           /\ r = [entry |-> [entry EXCEPT ![EntryOf[MapOf[t]]] =
                                              [object |-> n, needs_copy |-> FALSE]],
                                   mem |-> MakeShadow(mem, n, o), object |-> n, prot |-> TRUE]
    BY <2>1, Zenon DEF LookedUp
  <2>3. PICK n \in Objects : ~mem.live[n] /\ r.mem = MakeShadow(mem, n, o)
    BY <2>2
  <2> HIDE DEF o
  <2>4. \A x \in Objects \ {n} : r.mem.space[x] = mem.space[x]
    BY <1>1, <2>3 DEF MakeShadow, Memories
  <2> QED
    BY <1>1, <2>3, <2>4 DEF Homes
<1> QED
  BY <1>2, <1>3

(* A page that is to be paged out is one of an object that is there.       *)
LEMMA ScannedLive ==
  ASSUME IInv, StartPageout
  PROVE  mem.object[dm.cur] \in Objects /\ mem.live[mem.object[dm.cur]]
<1> DEFINE p == dm.cur
<1>1. /\ mem \in Memories /\ dm \in DaemonRecords /\ DaemonOK(mem, dm)
      /\ Queued(mem) /\ ObjectsOK(mem, entry, First(th))
  BY DEF IInv, Sound
<1>2. p \in Pages /\ mem.reclaimable[p]
  BY <1>1 DEF StartPageout, Scanning, DaemonOK, DaemonRecords
<1>3. mem.object[p] \in Objects
  BY <1>1, <1>2 DEF Queued, OffQueues, Free, Memories
<1> QED
  BY <1>1, <1>2, <1>3 DEF ObjectsOK, Counted, PagesOf

(* The steps of a thread.                                                  *)
LEMMA HandleHomes ==
  ASSUME IInv, NEW t \in Threads, Handle(t)
  PROVE  Homes(mem, mem')
<1>1. CASE \/ Enter(t) \/ Await(t) \/ Find(t) \/ MoveOn(t) \/ AwaitMemory(t) \/ PagerGet(t)
  <2>1. mem' = mem
    BY <1>1 DEF Enter, Await, Find, MoveOn, AwaitMemory, PagerGet
  <2> QED
    BY <2>1 DEF Homes
<1>2. CASE LookupMap(t)
  <2>1. PICK r \in LookedUp(t) : mem' = Reference(r.mem, r.object)
    BY <1>2 DEF LookupMap
  <2> QED
    BY <2>1, LookedUpHomes, SpacesUntouched DEF Homes
<1>3. CASE LookupAgain(t)
  <2>1. PICK r \in LookedUp(t) : mem' = r.mem
    BY <1>3 DEF LookupAgain
  <2> QED
    BY <2>1, LookedUpHomes
<1>4. CASE FindBusy(t) \/ NoMemory(t)
  <2>1. mem'.space = mem.space
    BY <1>4, SpacesUntouched DEF FindBusy, NoMemory, LetGo
  <2> QED
    BY <2>1 DEF Homes
<1>5. CASE StartPagein(t) \/ ZeroFill(t)
  <2> SUFFICES mem'.space = mem.space
    BY DEF Homes
  <2>1. CASE StartPagein(t)
    <3>1. PICK p \in Free(mem) : mem' = Alloc(mem, p, th[t].object, th[t].offset)
      BY <2>1 DEF StartPagein
    <3> QED
      BY <3>1, SpacesUntouched
  <2>2. CASE ZeroFill(t)
    <3>1. PICK p \in Free(mem) :
            mem' = SetBusy(Alloc(mem, p, th[t].first, th[t].offset), p, FALSE)
      BY <2>2 DEF ZeroFill
    <3>2. Alloc(mem, p, th[t].first, th[t].offset).space = mem.space
      BY SpacesUntouched
    <3> QED
      BY <3>1, <3>2 DEF SetBusy
  <2> QED
    BY <1>5, <2>1, <2>2
<1>6. CASE PagedIn(t) \/ NotThere(t) \/ Take(t) \/ MapUnchanged(t) \/ EnterPmap(t)
  <2> SUFFICES mem'.space = mem.space
    BY DEF Homes
  <2> DEFINE p == th[t].page
  <2>1. Dequeue(mem, {p}).space = mem.space
    BY SpacesUntouched
  <2>2. \/ \E b : mem' = SetBusy(mem, p, b)
        \/ mem' = FreePages(mem, {p})
        \/ \E b : mem' = SetBusy(Dequeue(mem, {p}), p, b)
        \/ \E k, b : mem' = PmapEnter(mem, k, p, b)
    BY <1>6, Zenon DEF PagedIn, NotThere, Take, MapUnchanged, EnterPmap
  <2> QED
    BY <2>1, <2>2, SpacesUntouched
<1>7. CASE MapChanged(t) \/ Finish(t)
  <2> SUFFICES mem'.space = mem.space
    BY DEF Homes
  <2> DEFINE k == SetBusy(mem, th[t].page, FALSE)
             j == Activate(k, th[t].page)
  <2>1. mem' = Unreference(j, th[t].first)
    BY <1>7 DEF MapChanged, Finish, LetGo
  <2>2. k.space = mem.space
    BY DEF SetBusy
  <2> HIDE DEF k
  <2>3. j.space = k.space
    BY SpacesUntouched
  <2> HIDE DEF j
  <2> QED
    BY <2>1, <2>2, <2>3, SpacesUntouched
<1>8. CASE UsePage(t) \/ CopyPage(t) \/ CopyNoMemory(t)
  <2>1. Homes(mem, Collapsed(t)) /\ Homes(mem, mem)
    BY <1>8, CollapsedHomes DEF UsePage, CopyPage, CopyNoMemory, Homes
  <2>2. mem'.space = mem.space \/ mem'.space = Collapsed(t).space
    <3>1. CASE UsePage(t)
      <4>1. \E k \in {Collapsed(t), mem} : mem' = SetBusy(k, th[t].page, TRUE)
        BY <3>1 DEF UsePage
      <4> QED
        BY <4>1 DEF SetBusy
    <3>2. CASE CopyPage(t)
      BY <3>2, SpacesUntouched DEF CopyPage
    <3>3. CASE CopyNoMemory(t)
      BY <3>3, SpacesUntouched DEF CopyNoMemory, LetGo
    <3> QED
      BY <1>8, <3>1, <3>2, <3>3
  <2> QED
    BY <2>1, <2>2 DEF Homes
<1> QED
  BY <1>1, <1>2, <1>3, <1>4, <1>5, <1>6, <1>7, <1>8 DEF Handle

(* Those of the daemon, unless the pager it sets comes late.               *)
LEMMA PageoutHomes ==
  ASSUME IInv, Pageout, ~LatePager
  PROVE  Homes(mem, mem')
<1>1. mem \in Memories /\ dm \in DaemonRecords /\ DaemonOK(mem, dm)
  BY DEF IInv, Sound
<1>2. CASE StartScan \/ LookAtPager \/ NoPagingSpace \/ EndScan \/ EndRefill \/ Rest
  <2>1. mem' = mem
    BY <1>2 DEF StartScan, LookAtPager, NoPagingSpace, EndScan, EndRefill, Rest
  <2> QED
    BY <2>1 DEF Homes
<1>3. CASE PassBy \/ PagerPut \/ EndPageout \/ Refill
  <2> SUFFICES mem'.space = mem.space
    BY DEF Homes
  <2>1. CASE PassBy
    BY <2>1, SpacesUntouched DEF PassBy
  <2>2. CASE PagerPut
    BY <1>1, <2>2 DEF PagerPut, Memories
  <2>3. CASE EndPageout
    <3>1. mem'.space = SetBusy(mem, dm.cur, FALSE).space
      BY <2>3 DEF EndPageout
    <3> QED
      BY <3>1 DEF SetBusy
  <2>4. CASE Refill
    <3> DEFINE p == Head(mem.activeq)
    <3>1. PICK bit : mem' = Reclaim(PmapRemoveAll(mem, p, bit), p)
      BY <2>4 DEF Refill
    <3>2. PmapRemoveAll(mem, p, bit).space = mem.space
      BY SpacesUntouched
    <3> QED
      BY <3>1, <3>2, SpacesUntouched
  <2> QED
    BY <1>3, <2>1, <2>2, <2>3, <2>4
<1>4. CASE StartPageout
  <2> DEFINE o == mem.object[dm.cur]
  <2>1. o \in Objects /\ mem.live[o]
    BY <1>4, ScannedLive
  <2>2. Homes(mem, Collapse(mem, o))
    BY <2>1, CollapseHomes
  <2>3. mem'.space = SetBusy(Collapse(mem, o), dm.cur, TRUE).space
    BY <1>4 DEF StartPageout
  <2>4. mem'.space = Collapse(mem, o).space
    BY <2>3 DEF SetBusy
  <2> QED
    BY <2>2, <2>4 DEF Homes
<1>5. CASE SetPager
  <2>1. mem.space[dm.object] = NoSpace
    BY <1>5 DEF LatePager
  <2>2. \A x \in Objects \ {dm.object} : mem'.space[x] = mem.space[x]
    BY <1>1, <1>5 DEF SetPager, Memories
  <2> QED
    BY <2>1, <2>2 DEF Homes
<1> QED
  BY <1>2, <1>3, <1>4, <1>5, Zenon DEF Pageout

(* An object that ends was referred to by nobody.                          *)
LEMMA TerminateHomes ==
  ASSUME IInv, NEW o \in Objects, Terminate(o), NEW x \in Objects, mem.ref_count[x] > 0
  PROVE  mem'.space[x] = mem.space[x]
<1>1. mem \in Memories
  BY DEF IInv, Sound
<1>2. x # o
  BY DEF Terminate
<1>3. FreePages(mem, PagesOf(mem, o)).space = mem.space
  BY SpacesUntouched
<1> DEFINE j == FreePages(mem, PagesOf(mem, o))
<1>4. mem'.space = [j.space EXCEPT ![o] = NoSpace]
  BY DEF Terminate, Terminated
<1> QED
  BY <1>1, <1>2, <1>3, <1>4 DEF Memories

(* Only a late pager loses a space that somebody may still read.           *)
LEMMA NextHomes == IInv /\ [Next]_vars => [SpaceLost => LatePager]_vars
<1> SUFFICES ASSUME IInv, Next, ~LatePager, NEW o \in Objects,
                    mem.space[o] # NoSpace, mem.ref_count[o] > 0
             PROVE  \E x \in Objects : mem'.space[x] = mem.space[o]
  BY DEF SpaceLost
<1>1. CASE \E t \in Threads : Handle(t)
  BY <1>1, HandleHomes DEF Homes
<1>2. CASE \E t \in Threads, f \in Offsets, w \in BOOLEAN : Fault(t, f, w)
  BY <1>2 DEF Fault
<1>3. CASE Pageout
  BY <1>3, PageoutHomes DEF Homes
<1>4. CASE \E e \in Objects : Terminate(e)
  BY <1>4, TerminateHomes
<1> QED
  BY <1>1, <1>2, <1>3, <1>4 DEF Next

(* An object that is referred to keeps its paging space or hands it on to  *)
(* the one that absorbs it, whatever faults, collapses and page-outs       *)
(* interleave: the one step that loses one is that of the daemon that sets *)
(* a pager where there is one by then (vm_pageout.c:253-260).  PageTaken   *)
(* apart.                                                                  *)
THEOREM SpacesLostLate == Spec => [][SpaceLost => LatePager]_vars \/ <><<PageTaken>>_vars
BY Inductive, NextHomes, PTL DEF Spec
==============================================================================
