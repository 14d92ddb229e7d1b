----------------------------- MODULE MCVMFault -----------------------------
(* Instances of VMFault: B is the object of the tasks' entries, with data  *)
(* in its paging space or in that of D behind it; the others are there to  *)
(* become its shadows.                                                     *)
EXTENDS VMFault

CONSTANTS B, D, m1, m2, t1, t2, o1, o2

(* two tasks after a fork: each entry refers to B and needs a copy         *)
Forked == [e \in {m1, m2} |-> [object |-> B, needs_copy |-> TRUE]]

OneMap == [t \in Threads |-> m1]
OwnEntries == [m \in Maps |-> m]

(* one thread reads what the other writes, and writes a page of its own    *)
LiveTouch == {<<t1, o1, FALSE>>, <<t1, o2, TRUE>>, <<t2, o1, TRUE>>}
(* one reads while the other writes elsewhere or there                     *)
LastTouch == {<<t1, o1, FALSE>>, <<t2, o1, TRUE>>, <<t2, o2, TRUE>>}

Start(space) ==
  [object |-> [p \in Pages |-> NoObject],
   offset |-> [p \in Pages |-> CHOOSE f \in Offsets : TRUE],
   active |-> [p \in Pages |-> FALSE], reclaimable |-> [p \in Pages |-> FALSE],
   busy |-> [p \in Pages |-> FALSE], clean |-> [p \in Pages |-> TRUE],
   laundry |-> [p \in Pages |-> FALSE], modified |-> [p \in Pages |-> FALSE],
   mapped |-> [p \in Pages |-> {}], activeq |-> <<>>, reclaimq |-> <<>>,
   live |-> [o \in Objects |-> o = B],
   ref_count |-> [o \in Objects |-> IF o = B THEN 2 ELSE 0],
   shadow |-> [o \in Objects |-> NoObject],
   space |-> [o \in Objects |-> IF o = B THEN space ELSE NoSpace],
   pageout_in_progress |-> [o \in Objects |-> FALSE]]

Paged == Start(B)
(* a task whose object B has no page and shadows D, paged out              *)
Alone == [e \in {m1} |-> [object |-> B, needs_copy |-> TRUE]]
Below == [Start(NoSpace) EXCEPT !.ref_count = [o \in Objects |-> IF o \in {B, D} THEN 1 ELSE 0],
                                !.live[D] = TRUE, !.shadow[B] = D, !.space[D] = D]
StoredBelow == [o \in Objects |-> IF o = D THEN Offsets ELSE {}]
(* the same task, whose B was paged out too: each object has a space, and  *)
(* what is in it is elsewhere                                              *)
Lacking == [Below EXCEPT !.space[B] = B]
LackTouch == {<<t1, o1, TRUE>>, <<t1, o2, TRUE>>, <<t2, o1, TRUE>>}
StoredElsewhere == [o \in Objects |-> IF o \in {B, D} THEN Offsets \ {o1, o2} ELSE {}]

StoredAtO1 == [o \in Objects |-> IF o = B THEN {o1} ELSE {}]
Nothing == {}
=============================================================================
