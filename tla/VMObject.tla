------------------------------ MODULE VMObject ------------------------------
(***************************************************************************)
(* Memory objects, vm/vm_object.c: reference counts, shadows, paging       *)
(* spaces, and vm_object_collapse, in the same record as the pages.  All   *)
(* objects have the same size and shadow each other at offset 0.           *)
(***************************************************************************)
EXTENDS VMPage

CONSTANTS ReadOnly        \* objects that may not be modified (texts)

NoSpace == NoObject       \* pager = vm_pager_null; the paging spaces are
                          \* numbered by the objects

Memories ==
  [object : [Pages -> Objects \cup {NoObject}], offset : [Pages -> Offsets],
   active : [Pages -> BOOLEAN], reclaimable : [Pages -> BOOLEAN],
   busy : [Pages -> BOOLEAN], clean : [Pages -> BOOLEAN],
   laundry : [Pages -> BOOLEAN], modified : [Pages -> BOOLEAN],
   mapped : [Pages -> SUBSET (Maps \X Offsets)],
   activeq : Seq(Pages), reclaimq : Seq(Pages),
   live : [Objects -> BOOLEAN], ref_count : [Objects -> Nat],
   shadow : [Objects -> Objects \cup {NoObject}],
   space : [Objects -> Objects \cup {NoSpace}],
   pageout_in_progress : [Objects -> BOOLEAN]]

PagesOf(mem, o) == {p \in Pages : mem.object[p] = o}

(* Mutated: nothing is counted.                                            *)
ReferenceNone(mem, o) == mem

Reference(mem, o) == [mem EXCEPT !.ref_count[o] = @ + 1]

(* What vm_object_deallocate does first.                                   *)
Unreference(mem, o) == [mem EXCEPT !.ref_count[o] = @ - 1]

(* Mutated: the object goes, the reference to its shadow stays.            *)
TerminatedAlone(mem, o) ==
  [FreePages(mem, PagesOf(mem, o)) EXCEPT !.live[o] = FALSE, !.space[o] = NoSpace]

(* Then, if that was the last reference: vm_object_terminate, and the      *)
(* reference to the shadow is given up.                                    *)
Terminated(mem, o) ==
  [FreePages(mem, PagesOf(mem, o)) EXCEPT
     !.live[o] = FALSE, !.space[o] = NoSpace,
     !.ref_count = [x \in Objects |-> @[x] - (IF x = mem.shadow[o] THEN 1 ELSE 0)]]

(* vm_object_shadow: n is a new object, the reference to o moves to it     *)
MakeShadow(mem, n, o) ==
  [mem EXCEPT !.live[n] = TRUE, !.ref_count[n] = 1, !.shadow[n] = o,
              !.space[n] = NoSpace, !.pageout_in_progress[n] = FALSE]

-----------------------------------------------------------------------------
(***************************************************************************)
(* vm_object_collapse.  With one reference the backing object's pages and  *)
(* paging space move to the parent, unless the parent has a page of its    *)
(* own there, and the backing object is gone; with more, the parent        *)
(* bypasses a backing object all of whose pages it hides.                  *)
(***************************************************************************)
Collapsible(mem, o) ==
  LET b == mem.shadow[o]
  IN  b # NoObject /\ mem.space[o] = NoSpace /\ b \notin ReadOnly
      /\ ~mem.pageout_in_progress[b]

Hidden(mem, o) ==
  {p \in PagesOf(mem, mem.shadow[o]) : Resident(mem, o, mem.offset[p]) # {}}

(* Mutated: the pager of the backing object is not moved.                  *)
MergeSpaceless(mem, o) ==
  LET b     == mem.shadow[o]
      moved == Rename(FreePages(mem, Hidden(mem, o)),
                      PagesOf(mem, b) \ Hidden(mem, o), o)
  IN  [moved EXCEPT !.space[b] = NoSpace, !.shadow[o] = mem.shadow[b],
                    !.ref_count[b] = 0, !.live[b] = FALSE]

Merge(mem, o) ==
  LET b     == mem.shadow[o]
      moved == Rename(FreePages(mem, Hidden(mem, o)),
                      PagesOf(mem, b) \ Hidden(mem, o), o)
  IN  [moved EXCEPT !.space = [@ EXCEPT ![o] = mem.space[b], ![b] = NoSpace],
                    !.shadow[o] = mem.shadow[b],
                    !.ref_count[b] = 0, !.live[b] = FALSE]

Bypassable(mem, o) == /\ mem.space[mem.shadow[o]] = NoSpace
                      /\ Hidden(mem, o) = PagesOf(mem, mem.shadow[o])

Bypass(mem, o) ==
  LET b == mem.shadow[o]
      c == mem.shadow[b]
  IN  [mem EXCEPT !.shadow[o] = c,
                  !.ref_count = [x \in Objects |-> @[x] + (IF x = c THEN 1 ELSE 0)
                                                       - (IF x = b THEN 1 ELSE 0)]]

CollapseOnce(mem, o) ==
  CASE ~Collapsible(mem, o)                   -> mem
    [] Collapsible(mem, o) /\ mem.ref_count[mem.shadow[o]] = 1 -> Merge(mem, o)
    [] Collapsible(mem, o) /\ mem.ref_count[mem.shadow[o]] # 1 /\ Bypassable(mem, o)
                                              -> Bypass(mem, o)
    [] OTHER                                  -> mem

(* the loop ends: each round takes an object out of the chain              *)
Collapse(mem, o) ==
  LET round[n \in 0 .. Cardinality(Objects)] ==
        IF n = 0 THEN mem ELSE CollapseOnce(round[n - 1], o)
  IN  round[Cardinality(Objects)]
=============================================================================
