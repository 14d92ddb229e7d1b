--------------------------- MODULE AbstractMemory ---------------------------
(***************************************************************************)
(* What vm/vm_map.c promises of the memory of tasks: each has its own,     *)
(* new memory is zero, a fork copies, shares or leaves out what the        *)
(* inheritance says, and a store is seen by those who share the place and  *)
(* by nobody else, however late memory is copied in fact.                  *)
(***************************************************************************)
EXTENDS Naturals

CONSTANTS
  Tasks, Addresses, Values, NoMemory,
  (* the calls tasks make, as in VMMap                                     *)
  Allocates, Deallocates, Inherits, Protects, Forks, Copies, Exits

VARIABLE
  memory        \* memory[t][a]: what is at a of t; the places that share it;
                \* what a fork does with it; whether t may store there

(* the places of P become what new says and no other changes               *)
Becomes(m, P, new(_, _)) ==
  [t \in Tasks |-> [a \in Addresses |-> IF <<t, a>> \in P THEN new(t, a) ELSE m[t][a]]]

(* the memory at P goes                                                    *)
Without(m, P) ==
  [t \in Tasks |-> [a \in Addresses |->
     IF <<t, a>> \in P \/ m[t][a] = NoMemory THEN NoMemory
     ELSE [m[t][a] EXCEPT !.sharers = @ \ P]]]

Init == memory = [t \in Tasks |-> [a \in Addresses |-> NoMemory]]

Held(m, t) == {a \in Addresses : m[t][a] # NoMemory}

Allocate(m, n, t, S) ==
  /\ S \cap Held(m, t) = {}
  /\ n = Becomes(m, {t} \X S, LAMBDA u, a :
           [val |-> 0, sharers |-> {<<u, a>>}, inherit |-> "COPY", writable |-> TRUE])

Deallocate(m, n, t, S) == n = Without(m, {t} \X S)

Store(m, n, t, a, v) ==
  /\ a \in Held(m, t) /\ m[t][a].writable
  /\ n = Becomes(m, m[t][a].sharers, LAMBDA u, b : [m[u][b] EXCEPT !.val = v])

Inherit(m, n, t, S, i) ==
  n = Becomes(m, {t} \X (S \cap Held(m, t)), LAMBDA u, a : [m[u][a] EXCEPT !.inherit = i])

Protect(m, n, t, S, w) ==
  n = Becomes(m, {t} \X (S \cap Held(m, t)), LAMBDA u, a : [m[u][a] EXCEPT !.writable = w])

(* the memory of c begins as what p leaves it, with the sharers p has      *)
Fork(m, n, p, c) ==
  LET left == {a \in Held(m, p) : m[p][a].inherit # "NONE"}
      shared == {a \in left : m[p][a].inherit = "SHARE"}
      Sharers(t, a) ==
        {<<c, b>> : b \in {x \in shared : <<t, a>> \in m[p][x].sharers}}
  IN  /\ Held(m, c) = {}
      /\ n = [t \in Tasks |-> [a \in Addresses |->
           IF t = c
           THEN IF a \notin left THEN NoMemory
                ELSE [m[p][a] EXCEPT !.sharers = {<<c, a>>} \cup (IF a \in shared THEN @ ELSE {})]
           ELSE IF m[t][a] = NoMemory THEN NoMemory
           ELSE [m[t][a] EXCEPT !.sharers = @ \cup Sharers(t, a)]]]

(* s .. e of t is copied to d of u, and given up or not                    *)
Copy(m, n, t, s, e, u, d, move) ==
  LET to == d .. d + (e - s)
      copied == Becomes(m, {u} \X to, LAMBDA x, a :
                  [val |-> m[t][s + (a - d)].val, sharers |-> {<<u, a>>},
                   inherit |-> "COPY", writable |-> TRUE])
  IN  /\ s .. e \subseteq Held(m, t) /\ to \subseteq Addresses \ Held(m, u)
      /\ n = IF move THEN Without(copied, {t} \X (s .. e)) ELSE copied

Pages(c) == c[2] .. c[3] - 1

Step(m, n) ==
  \/ \E c \in Allocates : Allocate(m, n, c[1], Pages(c))
  \/ \E c \in Deallocates : Deallocate(m, n, c[1], Pages(c))
  \/ \E t \in Exits : Deallocate(m, n, t, Addresses)
  \/ \E c \in Inherits : Inherit(m, n, c[1], Pages(c), c[4])
  \/ \E c \in Protects : Protect(m, n, c[1], Pages(c), c[4])
  \/ \E t \in Tasks, a \in Addresses, v \in Values : Store(m, n, t, a, v)
  \/ \E c \in Forks : Fork(m, n, c[1], c[2])
  \/ \E c \in Copies, d \in Addresses :
       \/ Allocate(m, n, c[4], d .. d + (c[3] - c[2]) - 1)
       \/ Copy(m, n, c[1], c[2], c[3] - 1, c[4], d, c[5])

(* most of what the kernel does changes nothing                            *)
Next == \E before \in {memory}, after \in {memory'} : after = before \/ Step(before, after)

Spec == Init /\ [][Next]_memory
=============================================================================
