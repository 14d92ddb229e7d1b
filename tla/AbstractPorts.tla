---------------------------- MODULE AbstractPorts ----------------------------
(***************************************************************************)
(* What accent/accent.c promises of a port: while it exists it is one      *)
(* queue of messages, received in the order they were sent, except that an *)
(* emergency message is received first; a message leaves the queue when it *)
(* is received, when the port goes, or when the sender that waited for     *)
(* room in vain ends its call and takes it back, and in no other way.      *)
(***************************************************************************)
EXTENDS Naturals, Sequences

CONSTANTS Ports, KMsgs
VARIABLES open, pending,
          urgent,     \* which messages are emergency messages: their senders say
          givenUp     \* <<q, m>>: q has waited in vain with m and is to end its call

Has(p, m) == \E i \in 1 .. Len(pending[p]) : pending[p][i] = m
NotPending(m) == \A p \in Ports : ~Has(p, m)

Init == pending = [p \in Ports |-> <<>>] /\ open \subseteq Ports

Create(p) == /\ p \notin open
             /\ open' = open \cup {p}
             /\ UNCHANGED pending

Put(p, m) == /\ p \in open /\ NotPending(m) /\ m \notin urgent
             /\ pending' = [pending EXCEPT ![p] = Append(@, m)]
             /\ UNCHANGED open

PutFirst(p, m) == /\ p \in open /\ NotPending(m) /\ m \in urgent
                  /\ pending' = [pending EXCEPT ![p] = <<m>> \o @]
                  /\ UNCHANGED open

Take(p) == /\ p \in open /\ pending[p] # <<>>
           /\ pending' = [pending EXCEPT ![p] = Tail(@)]
           /\ UNCHANGED open

TakeBack(p, send) ==
  /\ p \in open /\ Has(p, send[2])
  /\ pending' = [pending EXCEPT ![p] = SelectSeq(@, LAMBDA x : x # send[2])]
  /\ givenUp' = givenUp \ {send}
  /\ UNCHANGED open

Destroy(p) == /\ p \in open
              /\ open' = open \ {p}
              /\ pending' = [pending EXCEPT ![p] = <<>>]

(* Each of these changes something; that is said first, as what a step     *)
(* that changes nothing need not be compared with all of them.             *)
Next == /\ <<open, pending>>' # <<open, pending>>
        /\ \E p \in Ports :
             \/ Create(p) \/ Take(p) \/ Destroy(p)
             \/ \E m \in KMsgs : Put(p, m) \/ PutFirst(p, m)
             \/ \E send \in givenUp : TakeBack(p, send)

Spec == Init /\ [][Next]_<<open, pending>>
=============================================================================
