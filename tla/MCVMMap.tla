------------------------------ MODULE MCVMMap ------------------------------
(* Two pages of memory.  At first there is a parent, which may fork, or a  *)
(* task and the map ipc, which holds the memory of the messages the task   *)
(* sends to itself.                                                        *)
EXTENDS VMMap

CONSTANTS parent, child, ipc

Beginnings == {{parent}, {child, ipc}}

(* nobody allocates behind memory that has a shadow, and protections       *)
(* change one page at a time                                               *)
ParentBoth == {<<parent, 0, 2>>, <<child, 0, 1>>}
ChildBoth == {<<child, 0, 2>>}
ShareFirst == {<<parent, 0, 1, "SHARE">>}
ChildFirst == {<<child, 0, 1, FALSE, FALSE>>, <<child, 0, 1, TRUE, FALSE>>}
Family == {<<parent, child>>}
ToSelf == {<<child, 0, 1, ipc, FALSE>>, <<child, 0, 1, ipc, TRUE>>, <<ipc, 0, 1, child, TRUE>>}

(* a child that puts new memory where it gave some up                      *)
ChildAgain == {<<parent, 0, 2>>, <<child, 1, 2>>}
ChildSecond == {<<child, 1, 2>>}
Nothing == {}

Symmetry == Permutations(Objects)
=============================================================================
