------------------------------- MODULE VMMap -------------------------------
(***************************************************************************)
(* Address maps, vm/vm_map.c, with the memory objects and physical maps    *)
(* behind them.  A map is a list of entries; an entry refers to a range of *)
(* an object, or of a sharing map whose entries do.  A copy is made by     *)
(* letting two entries refer to one object and both need a copy; the first *)
(* write through one of them puts a new object in front of the old one.    *)
(*                                                                         *)
(* Each operation holds the lock of its maps throughout and is one step.   *)
(* Addresses and offsets count pages, a page is the value it holds, and an *)
(* object or sharing map is free when nothing is counted to refer to it.   *)
(* Pagers, wiring, the lookup hint and the page queues are left out.       *)
(***************************************************************************)
EXTENDS Naturals, SequencesExt, FiniteSetsExt

CONSTANTS
  Tasks, ShareMaps, Objects, NoObject, NoPage, NoMapping,
  Size,            \* each map goes from 0 up to Size
  Values,          \* what tasks store; pages hold 0 at first
  (* the calls tasks make, the ranges as start and end                     *)
  Allocates,       \* <<task, start, end>>
  Deallocates,     \* <<task, start, end>>
  Inherits,        \* <<task, start, end, inheritance>>
  Protects,        \* <<task, start, end, write, set_max>>
  Forks,           \* <<parent, child>>
  Copies,          \* <<task, start, end, other task, give it up>>
  Exits,           \* the tasks that may end
  Users,           \* the tasks whose memory is used
  FirstTasks       \* the sets of tasks there may be at first

VARIABLE vm

Addresses == 0 .. Size - 1
Offsets == 0 .. 2 * Size
Maps == Tasks \cup ShareMaps

EntryType ==
  [start : Addresses, end : 1 .. Size, is_a_map : BOOLEAN,
   object : Objects \cup ShareMaps \cup {NoObject}, offset : Offsets,
   needs_copy : BOOLEAN, copy_on_write : BOOLEAN,
   inheritance : {"SHARE", "COPY", "NONE"}, write : BOOLEAN, max_write : BOOLEAN]

NoMap == [ref_count |-> 0, entries |-> <<>>]

FreeObject == [ref_count |-> 0, shadow |-> NoObject, shadow_offset |-> 0, size |-> 0,
               page |-> [f \in Offsets |-> NoPage]]

Unmapped == [a \in Addresses |-> NoMapping]

-----------------------------------------------------------------------------
(* Objects, vm/vm_object.c.                                                *)

ObjectReference(v, o) ==
  IF o = NoObject THEN v ELSE [v EXCEPT !.object[o].ref_count = @ + 1]

Locations == (Objects \cup {NoObject}) \X Nat

(* what is behind x, an object and an offset in it                         *)
Behind(v, x) == <<v.object[x[1]].shadow, x[2] + v.object[x[1]].shadow_offset>>

(* where the first page is in x and behind it, NoObject if there is none   *)
FirstPage(v, x) ==
  LET first[y \in Locations] ==
        IF y[1] = NoObject THEN y
        ELSE IF v.object[y[1]].page[y[2]] # NoPage THEN y ELSE first[Behind(v, y)]
  IN  first[x]

(* vm_object_deallocate: an object that loses its last reference is        *)
(* terminated, and with it its reference to its shadow                     *)
ObjectDeallocate(v, o) ==
  LET last[x \in Objects \cup {NoObject}] ==
        IF x = NoObject THEN {}
        ELSE IF v.object[x].ref_count = 1 THEN {x} \cup last[v.object[x].shadow] ELSE {}
      gone == last[o]
      Loses(x) == x = o \/ \E y \in gone : v.object[y].shadow = x
  IN  [v EXCEPT !.object = [x \in Objects |->
         IF x \in gone THEN FreeObject
         ELSE IF Loses(x) THEN [@[x] EXCEPT !.ref_count = @ - 1] ELSE @[x]]]

(* pmap_remove_all of the pages at P, pairs of an object and an offset     *)
PmapRemoveAll(v, P) ==
  [v EXCEPT !.pmap = [t \in Tasks |-> [a \in Addresses |->
     IF @[t][a] # NoMapping /\ <<@[t][a].object, @[t][a].offset>> \in P
     THEN NoMapping ELSE @[t][a]]]]

(* vm_object_page_remove                                                   *)
PageRemove(v, o, s, e) ==
  LET unmapped == PmapRemoveAll(v, {o} \X (s .. e - 1))
  IN  [unmapped EXCEPT !.object[o].page = [f \in Offsets |->
         IF f \in s .. e - 1 THEN NoPage ELSE @[f]]]

(* whether the page at f of the backing object b is seen through o         *)
Stays(v, o, b, f) ==
  LET d == v.object[o].shadow_offset IN
  /\ v.object[b].page[f] # NoPage /\ d <= f /\ f - d <= v.object[o].size
  /\ v.object[o].page[f - d] = NoPage

(* the pages that stay are renamed, wherever they are mapped               *)
Merge(v, o, b) ==
  LET d == v.object[o].shadow_offset
      moves(f) == f + d \in Offsets /\ Stays(v, o, b, f + d)
  IN  [v EXCEPT
        !.object[o] = [@ EXCEPT !.page = [f \in Offsets |-> IF moves(f) THEN v.object[b].page[f + d] ELSE @[f]],
                                !.shadow = v.object[b].shadow,
                                !.shadow_offset = @ + v.object[b].shadow_offset],
        !.object[b] = FreeObject,
        !.pmap = [t \in Tasks |-> [a \in Addresses |->
           IF @[t][a] # NoMapping /\ @[t][a].object = b /\ Stays(v, o, b, @[t][a].offset)
           THEN [@[t][a] EXCEPT !.object = o, !.offset = @ - d] ELSE @[t][a]]]]

Bypass(v, o, b) ==
  LET next == v.object[b].shadow
      shadowed == ObjectReference(
        [v EXCEPT !.object[o].shadow = next, !.object[o].shadow_offset = @ + v.object[b].shadow_offset], next)
  IN  ObjectDeallocate(shadowed, b)

CollapseOnce(v, o) ==
  LET b == v.object[o].shadow IN
  IF b = NoObject THEN v
  ELSE IF v.object[b].ref_count = 1 THEN Merge(v, o, b)
  ELSE IF \A f \in Offsets : ~Stays(v, o, b, f) THEN Bypass(v, o, b)
  ELSE v

(* vm_object_collapse, whose loop takes an object out of the chain a round *)
Collapse(v, o) ==
  LET round[k \in 0 .. Cardinality(Objects)] ==
        IF k = 0 THEN v ELSE CollapseOnce(round[k - 1], o)
  IN  IF o = NoObject THEN v ELSE round[Cardinality(Objects)]

-----------------------------------------------------------------------------
(* Entries.                                                                *)

Entries(v, m) == v.map[m].entries

(* vm_map_lookup_entry: the place of the entry that holds a, if any        *)
Holding(v, m, a) ==
  {i \in DOMAIN Entries(v, m) : Entries(v, m)[i].start <= a /\ a < Entries(v, m)[i].end}

Place(v, m, a) == CHOOSE i \in Holding(v, m, a) : TRUE

EntryAt(v, m, a) == Entries(v, m)[Place(v, m, a)]

Within(v, m, s, e) == SelectSeq(Entries(v, m), LAMBDA x : s <= x.start /\ x.end <= e)

Vacant(v, m, s, e) == \A a \in s .. e - 1 : Holding(v, m, a) = {}

(* vm_map_entry_link                                                       *)
EntryLink(v, m, after_where, x) ==
  [v EXCEPT !.map[m].entries = InsertAt(@, after_where + 1, x)]

MapReference(v, m) == [v EXCEPT !.map[m].ref_count = @ + 1]

Refer(v, x) == IF x.is_a_map THEN MapReference(v, x.object) ELSE ObjectReference(v, x.object)

(* Mutated: the new entry is not counted.                                  *)
ClipUncounted(v, m, a) ==
  LET inside == {i \in Holding(v, m, a) : Entries(v, m)[i].start < a}
      i == CHOOSE j \in inside : TRUE
      x == Entries(v, m)[i]
  IN  IF inside = {} THEN v
      ELSE [v EXCEPT !.map[m].entries =
               InsertAt([@ EXCEPT ![i].end = a], i + 1,
                        [x EXCEPT !.start = a, !.offset = @ + (a - x.start)])]

(* vm_map_clip_start and _end: an entry that a lies inside is split at a   *)
Clip(v, m, a) ==
  LET inside == {i \in Holding(v, m, a) : Entries(v, m)[i].start < a}
      i == CHOOSE j \in inside : TRUE
      x == Entries(v, m)[i]
  IN  IF inside = {} THEN v
      ELSE Refer([v EXCEPT !.map[m].entries =
                    InsertAt([@ EXCEPT ![i].end = a], i + 1,
                             [x EXCEPT !.start = a, !.offset = @ + (a - x.start)])], x)

ClipRange(v, m, s, e) == Clip(Clip(v, m, s), m, e)

(* pmap_remove and pmap_protect                                            *)
PmapRemove(v, t, s, e) ==
  [v EXCEPT !.pmap[t] = [a \in Addresses |-> IF a \in s .. e - 1 THEN NoMapping ELSE @[a]]]

PmapProtect(v, t, s, e, write) ==
  [v EXCEPT !.pmap[t] = [a \in Addresses |->
     IF a \in s .. e - 1 /\ @[a] # NoMapping THEN [@[a] EXCEPT !.write = write] ELSE @[a]]]

(* vm_map_deallocate of a sharing map: with the last reference its pages   *)
(* go from every physical map and its entries are deleted                  *)
ShareMapDeallocate(v, m) ==
  LET Drop(w, x) ==
        ObjectDeallocate(
          PmapRemoveAll(w, {x.object} \X (x.offset .. x.offset + (x.end - x.start) - 1)), x.object)
  IN  IF v.map[m].ref_count > 1 THEN [v EXCEPT !.map[m].ref_count = @ - 1]
      ELSE FoldLeft(Drop, [v EXCEPT !.map[m] = NoMap], Entries(v, m))

(* vm_map_entry_delete                                                     *)
Release(v, x) ==
  IF x.is_a_map THEN ShareMapDeallocate(v, x.object) ELSE ObjectDeallocate(v, x.object)

(* vm_map_delete of a task's map                                           *)
Delete(v, t, s, e) ==
  LET clipped == ClipRange(v, t, s, e)
      kept == SelectSeq(Entries(clipped, t), LAMBDA x : ~(s <= x.start /\ x.end <= e))
  IN  FoldLeft(Release, PmapRemove([clipped EXCEPT !.map[t].entries = kept], t, s, e),
               Within(clipped, t, s, e))

Plain(x) == ~x.is_a_map /\ x.inheritance = "COPY" /\ x.write /\ x.max_write

(* vm_map_insert of zero-fill memory: the entry before it is extended when *)
(* it has no object, or the only reference to one                          *)
Insert(v, t, s, e) ==
  LET before == Cardinality({i \in DOMAIN Entries(v, t) : Entries(v, t)[i].start < s})
      x == Entries(v, t)[before]
      extends == before > 0 /\ x.end = s /\ Plain(x)
      extended == [v EXCEPT !.map[t].entries[before].end = e]
      from == x.offset + (s - x.start)
      to == x.offset + (e - x.start)
  IN  IF extends /\ x.object = NoObject THEN extended
      ELSE IF extends /\ v.object[x.object].ref_count = 1
      THEN [PageRemove(extended, x.object, from, to) EXCEPT
              !.object[x.object].size = Max({@, to})]
      ELSE EntryLink(v, t, before,
             [start |-> s, end |-> e, is_a_map |-> FALSE, object |-> NoObject, offset |-> 0,
              needs_copy |-> FALSE, copy_on_write |-> FALSE, inheritance |-> "COPY",
              write |-> TRUE, max_write |-> TRUE])

(* Mutated: the entry after the place is not looked at.                    *)
FitsAtEnds(v, t, n) ==
  {a \in {0} \cup {Entries(v, t)[i].end : i \in DOMAIN Entries(v, t)} :
     a + n <= Size}

(* vm_map_find: where n pages of t may be put, first of all at the least   *)
Fits(v, t, n) ==
  {a \in {0} \cup {Entries(v, t)[i].end : i \in DOMAIN Entries(v, t)} :
     a + n <= Size /\ Vacant(v, t, a, a + n)}

-----------------------------------------------------------------------------
(* Copies.                                                                 *)

(* Mutated: the pages stay writable for the task that had them.            *)
CopyEntryWritable(v, t, i, u, j) ==
  LET x == Entries(v, t)[i]
      marked == [Collapse(v, x.object) EXCEPT !.map[t].entries[i].needs_copy = TRUE,
                                              !.map[t].entries[i].copy_on_write = TRUE]
      copied == [marked EXCEPT !.map[u].entries[j] =
                   [@ EXCEPT !.needs_copy = TRUE, !.copy_on_write = TRUE,
                             !.object = x.object, !.offset = x.offset]]
  IN  ObjectDeallocate(ObjectReference(copied, x.object), Entries(v, u)[j].object)

(* vm_map_copy_entry: entry j of u becomes a copy of i of t                *)
CopyEntry(v, t, i, u, j) ==
  LET x == Entries(v, t)[i]
      collapsed == Collapse(v, x.object)
      marked == IF x.needs_copy THEN collapsed
                ELSE [PmapProtect(collapsed, t, x.start, x.end, FALSE) EXCEPT
                        !.map[t].entries[i].needs_copy = TRUE,
                        !.map[t].entries[i].copy_on_write = TRUE]
      copied == [marked EXCEPT !.map[u].entries[j] =
                   [@ EXCEPT !.needs_copy = TRUE,
                             !.copy_on_write = Entries(marked, t)[i].copy_on_write,
                             !.object = x.object, !.offset = x.offset]]
  IN  ObjectDeallocate(ObjectReference(copied, x.object), Entries(v, u)[j].object)

(* vm_map_copy of s .. e of t to d of u, between two maps none of whose    *)
(* entries there is shared                                                 *)
CopyRange(v, t, s, e, u, d) ==
  LET clipped == ClipRange(ClipRange(v, t, s, e), u, d, d + (e - s))
      CopyOne(w, x) ==
        LET to == d + (x.start - s)
            ready == Clip(w, u, to + (x.end - x.start))
        IN  CopyEntry(ready, t, Place(ready, t, x.start), u, Place(ready, u, to))
  IN  FoldLeft(CopyOne, clipped, Within(clipped, t, s, e))

NewShareMap(v) == CHOOSE m \in ShareMaps : v.map[m].ref_count = 0

LinkLast(v, m, x) == EntryLink(v, m, Len(Entries(v, m)), x)

(* the entry is moved to a sharing map of its own                          *)
MakeShared(v, p, i) ==
  LET x == Entries(v, p)[i]
      m == NewShareMap(v)
  IN  IF x.is_a_map THEN v
      ELSE [v EXCEPT !.map[m] = [ref_count |-> 1, entries |-> <<x>>],
                     !.map[p].entries[i] = [x EXCEPT !.is_a_map = TRUE, !.object = m,
                                                     !.offset = x.start]]

(* what vm_map_fork does with entry i of p                                 *)
ForkEntry(v, p, c, i) ==
  LET x == Entries(v, p)[i]
      shared == MakeShared(v, p, i)
      cloned == LinkLast(v, c, [x EXCEPT !.object = NoObject, !.is_a_map = FALSE])
  IN  CASE x.inheritance = "NONE"  -> v
        [] x.inheritance = "SHARE" ->
             LinkLast(MapReference(shared, Entries(shared, p)[i].object), c, Entries(shared, p)[i])
        [] x.inheritance = "COPY"  -> CopyEntry(cloned, p, i, c, Len(Entries(cloned, c)))

ForkMap(v, p, c) ==
  LET ForkOne(w, i) == ForkEntry(w, p, c, i)
  IN  FoldLeft(ForkOne, [v EXCEPT !.map[c].ref_count = 1], [i \in DOMAIN Entries(v, p) |-> i])

-----------------------------------------------------------------------------
(* Faults.                                                                 *)

(* where vm_map_lookup finds the entry for a of t that refers to an object *)
Backing(v, t, a) ==
  LET x == EntryAt(v, t, a) IN
  IF x.is_a_map THEN <<x.object, (a - x.start) + x.offset>> ELSE <<t, a>>

(* vm_map_lookup: a write to an entry that needs a copy puts a new object  *)
(* n in front, and an entry with none gets n                               *)
LookedUp(v, m, b, write, n) ==
  LET i == Place(v, m, b)
      x == Entries(v, m)[i]
      shadows == write /\ x.needs_copy /\ x.object # NoObject
      created == [FreeObject EXCEPT !.ref_count = 1, !.size = x.end - x.start,
                                    !.shadow = x.object,
                                    !.shadow_offset = IF shadows THEN x.offset ELSE 0]
      looked == [v EXCEPT !.map[m].entries[i].needs_copy = @ /\ ~write]
  IN  IF shadows
      THEN [looked EXCEPT !.object[n] = created, !.map[m].entries[i].object = n,
                          !.map[m].entries[i].offset = 0]
      ELSE IF x.object = NoObject
      THEN [looked EXCEPT !.object[n] = created, !.map[m].entries[i].object = n]
      ELSE looked

Enter(v, t, a, o, f, write) ==
  [v EXCEPT !.pmap[t][a] = [object |-> o, offset |-> f, write |-> write]]

(* Mutated: the page stays mapped in those who share the map.              *)
CopyUpMapped(v, o, f, page, single_use) ==
  [v EXCEPT !.object[o].page[f] = v.object[page[1]].page[page[2]]]

(* the page of another object is copied to the first, where all uses of it *)
(* must be flushed if others share the map                                 *)
CopyUp(v, o, f, page, single_use) ==
  [(IF single_use THEN v ELSE PmapRemoveAll(v, {page})) EXCEPT
     !.object[o].page[f] = v.object[page[1]].page[page[2]]]

(* vm_fault                                                                *)
FaultIn(v, t, a, write, n) ==
  LET main == EntryAt(v, t, a)
      m == Backing(v, t, a)[1]
      b == Backing(v, t, a)[2]
      looked == LookedUp(v, m, b, write, n)
      x == EntryAt(looked, m, b)
      o == x.object
      f == (b - x.start) + x.offset
      prot == main.write /\ ~x.needs_copy
      single_use == ~main.is_a_map \/ looked.map[m].ref_count = 1
      page == FirstPage(looked, <<o, f>>)
      collapsed == Collapse(looked, o)
  IN  IF page[1] = NoObject
      THEN Enter([looked EXCEPT !.object[o].page[f] = 0], t, a, o, f, prot)
      ELSE IF page = <<o, f>> THEN Enter(looked, t, a, o, f, prot)
      ELSE IF ~write THEN Enter(looked, t, a, page[1], page[2], FALSE)
      ELSE IF collapsed.object[o].page[f] # NoPage THEN Enter(collapsed, t, a, o, f, prot)
      ELSE Enter(CopyUp(collapsed, o, f, page, single_use), t, a, o, f, prot)

-----------------------------------------------------------------------------
(* The calls.                                                              *)

Alive(t) == vm.map[t].ref_count > 0

(* vm_allocate at an address                                               *)
Allocate(t, s, e) ==
  /\ Alive(t) /\ Vacant(vm, t, s, e)
  /\ vm' = Insert(vm, t, s, e)

(* vm_deallocate                                                           *)
Deallocate(t, s, e) ==
  /\ Alive(t)
  /\ vm' = Delete(vm, t, s, e)

(* vm_map_inherit                                                          *)
Inherit(t, s, e, inheritance) ==
  LET clipped == ClipRange(vm, t, s, e) IN
  /\ Alive(t)
  /\ vm' = [clipped EXCEPT !.map[t].entries = [i \in DOMAIN @ |->
              IF s <= @[i].start /\ @[i].end <= e
              THEN [@[i] EXCEPT !.inheritance = inheritance] ELSE @[i]]]

(* the physical map follows a change of the protection of an entry: that   *)
(* of the first entry says whether pages are copy-on-write, or, for shared *)
(* memory, those of the sharing map, up to their ends                      *)
PmapFollows(v, t, x, first, write) ==
  LET Shared(w, y) ==
        PmapProtect(w, t, (Max({y.start, x.offset}) - x.offset) + x.start,
                    (Max({y.end, x.offset + (x.end - x.start)}) - x.offset) + x.start,
                    write /\ ~y.copy_on_write)
      reached == SelectSeq(Entries(v, x.object),
                   LAMBDA y : y.end > x.offset /\ y.start < x.offset + (x.end - x.start))
  IN  IF x.is_a_map THEN FoldLeft(Shared, v, reached)
      ELSE PmapProtect(v, t, x.start, x.end, write /\ ~first.copy_on_write)

ProtectOne(v, t, x, first, write, set_max) ==
  LET new == IF set_max THEN x.write /\ write ELSE write
      set == [v EXCEPT !.map[t].entries[Place(v, t, x.start)] =
                [@ EXCEPT !.write = new, !.max_write = IF set_max THEN write ELSE @]]
  IN  IF new = x.write THEN set ELSE PmapFollows(set, t, x, first, new)

(* vm_map_protect, refused where the maximum does not allow it             *)
Protect(t, s, e, write, set_max) ==
  LET clipped == ClipRange(vm, t, s, e)
      hit == Within(clipped, t, s, e)
      One(w, x) == ProtectOne(w, t, x, hit[1], write, set_max)
  IN  /\ Alive(t)
      /\ write => \A i \in DOMAIN hit : hit[i].max_write
      /\ vm' = FoldLeft(One, clipped, hit)

(* vm_map_fork; memory that is shared by a sharing map is not to be copied *)
Fork(p, c) ==
  /\ Alive(p) /\ ~Alive(c)
  /\ \A i \in DOMAIN Entries(vm, p) :
       ~(Entries(vm, p)[i].is_a_map /\ Entries(vm, p)[i].inheritance = "COPY")
  /\ Cardinality({i \in DOMAIN Entries(vm, p) :
                    Entries(vm, p)[i].inheritance = "SHARE" /\ ~Entries(vm, p)[i].is_a_map})
       <= Cardinality({m \in ShareMaps : ~Alive(m)})
  /\ vm' = ForkMap(vm, p, c)

(* vm_map_deallocate of the map of a task that ends                        *)
Exit(t) ==
  /\ Alive(t)
  /\ vm' = [Delete(vm, t, 0, Size) EXCEPT !.map[t] = NoMap]

(* MoveMemory, accent/vmdata.c: memory is allocated anywhere in the other  *)
(* map and the copy made there, or not if the source has holes; from a map *)
(* of its own the kernel copies what it put there                          *)
Copy(t, s, e, u, dealloc) ==
  LET fits == Fits(vm, u, e - s)
      d == Min(fits)
      allocated == Insert(vm, u, d, d + (e - s))
      copied == CopyRange(allocated, t, s, e, u, d)
      whole == \A a \in s .. e - 1 : Holding(vm, t, a) # {}
  IN  /\ Alive(t) /\ Alive(u) /\ fits # {}
      /\ \A i \in UNION {Holding(vm, t, a) : a \in s .. e - 1} : ~Entries(vm, t)[i].is_a_map
      /\ t \in Users \/ whole
      /\ vm' = IF ~whole THEN allocated ELSE IF dealloc THEN Delete(copied, t, s, e) ELSE copied

Allowed(t, a, write) == vm.pmap[t][a] # NoMapping /\ (write => vm.pmap[t][a].write)

(* a fault is needed where there is no mapping that allows the access; the *)
(* object n is there if one is to be allocated                             *)
Fault(t, a, write, n) ==
  /\ Alive(t) /\ Holding(vm, t, a) # {} /\ (write => EntryAt(vm, t, a).write)
  /\ ~Allowed(t, a, write) /\ vm.object[n].ref_count = 0
  /\ vm' = FaultIn(vm, t, a, write, n)

(* the processor stores through the physical map                           *)
Store(t, a, value) ==
  /\ Allowed(t, a, TRUE)
  /\ vm' = [vm EXCEPT !.object[vm.pmap[t][a].object].page[vm.pmap[t][a].offset] = value]

Init ==
  \E T \in FirstTasks :
    vm = [map |-> [m \in Maps |-> IF m \in T THEN [NoMap EXCEPT !.ref_count = 1] ELSE NoMap],
          object |-> [o \in Objects |-> FreeObject],
          pmap |-> [t \in Tasks |-> Unmapped]]

Next ==
  \/ \E c \in Allocates : Allocate(c[1], c[2], c[3])
  \/ \E c \in Deallocates : Deallocate(c[1], c[2], c[3])
  \/ \E c \in Inherits : Inherit(c[1], c[2], c[3], c[4])
  \/ \E c \in Protects : Protect(c[1], c[2], c[3], c[4], c[5])
  \/ \E c \in Forks : Fork(c[1], c[2])
  \/ \E c \in Copies : Copy(c[1], c[2], c[3], c[4], c[5])
  \/ \E t \in Exits : Exit(t)
  \/ \E t \in Users, a \in Addresses, write \in BOOLEAN, n \in Objects : Fault(t, a, write, n)
  \/ \E t \in Users, a \in Addresses, value \in Values : Store(t, a, value)

Spec == Init /\ [][Next]_vm

-----------------------------------------------------------------------------
(* where a fault of t at a would look                                      *)
Origin(t, a) ==
  LET b == Backing(vm, t, a)
      x == EntryAt(vm, b[1], b[2])
  IN  <<x.object, (b[2] - x.start) + x.offset>>

valueAt[x \in Locations] == IF x[1] = NoObject THEN 0 ELSE vm.object[x[1]].page[x[2]]

(* what t finds at a: through the physical map if a is mapped there, else  *)
(* where a fault would look, zero if there is no page                      *)
Seen(t, a) ==
  IF vm.pmap[t][a] # NoMapping
  THEN vm.object[vm.pmap[t][a].object].page[vm.pmap[t][a].offset]
  ELSE valueAt[FirstPage(vm, Origin(t, a))]

Sharers(t, a) ==
  IF ~EntryAt(vm, t, a).is_a_map THEN {<<t, a>>}
  ELSE {<<u, b>> \in Tasks \X Addresses :
          Holding(vm, u, b) # {} /\ Backing(vm, u, b) = Backing(vm, t, a)}

Abs == INSTANCE AbstractMemory WITH
  NoMemory <- NoPage,
  memory <- [t \in Tasks |-> [a \in Addresses |->
    IF Holding(vm, t, a) = {} THEN NoPage
    ELSE [val |-> Seen(t, a), sharers |-> Sharers(t, a),
          inherit |-> EntryAt(vm, t, a).inheritance, writable |-> EntryAt(vm, t, a).write]]]

(* The maps, objects and physical maps behind them are tasks' memories: a  *)
(* copy that is put off until somebody writes, vm_map_copy_entry and       *)
(* vm_map_lookup, cannot be told from one made at once.                    *)
AbsSpec == Abs!Spec

(* The entries of a map are well-formed, in order and disjoint.            *)
TypeOK ==
  /\ \A m \in Maps :
       /\ vm.map[m].ref_count \in Nat
       /\ \A i \in DOMAIN Entries(vm, m) :
            /\ Entries(vm, m)[i] \in EntryType
            /\ Entries(vm, m)[i].start < Entries(vm, m)[i].end
            /\ i > 1 => Entries(vm, m)[i - 1].end <= Entries(vm, m)[i].start
  /\ \A o \in Objects :
       vm.object[o] \in [ref_count : Nat, shadow : Objects \cup {NoObject},
                         shadow_offset : Offsets, size : Offsets,
                         page : [Offsets -> Values \cup {0, NoPage}]]
  /\ \A t \in Tasks, a \in Addresses :
       vm.pmap[t][a] \in {NoMapping} \cup [object : Objects, offset : Offsets, write : BOOLEAN]

(* ref_count is the number of entries and shadows that refer to an object, *)
(* or of task entries that refer to a sharing map, through clipping, forks,*)
(* collapses and deletions: neither is freed under somebody nor lost.      *)
ReferencesExact ==
  LET entries == {<<m, i>> \in Maps \X (1 .. Size) : i \in DOMAIN Entries(vm, m)}
      Referring(x) == Cardinality({r \in entries : Entries(vm, r[1])[r[2]].object = x})
  IN  /\ \A o \in Objects :
           vm.object[o].ref_count =
             Referring(o) + Cardinality({p \in Objects : vm.object[p].shadow = o})
      /\ \A m \in ShareMaps : vm.map[m].ref_count = Referring(m)

(* A page is mapped only where a fault at the address would find that same *)
(* page, and for writing only if it is the entry's own and not to be       *)
(* copied: vm_fault enters pages that a later copy, collapse, protection   *)
(* or deallocation must take out of the physical maps again.               *)
MappingsSound ==
  \A t \in Tasks, a \in Addresses : vm.pmap[t][a] # NoMapping =>
    LET here == vm.pmap[t][a]
        b == Backing(vm, t, a)
    IN  /\ Holding(vm, t, a) # {}
        /\ FirstPage(vm, Origin(t, a)) = <<here.object, here.offset>>
        /\ here.write => /\ here.object = EntryAt(vm, b[1], b[2]).object
                         /\ ~EntryAt(vm, b[1], b[2]).needs_copy
                         /\ EntryAt(vm, t, a).write

(* vm_allocate "allocates zero fill memory" (vm/vm_user.c): newly          *)
(* allocated memory reads zero.                                            *)
ZeroFilled ==
  [][\A c \in Allocates : Allocate(c[1], c[2], c[3]) =>
       \A a \in c[2] .. c[3] - 1 : Seen(c[1], a)' = 0]_vm
=============================================================================
