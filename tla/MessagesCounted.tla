-------------------------- MODULE MessagesCounted ---------------------------
(***************************************************************************)
(* NumQueued is exact and a full port's messages move up: what every step  *)
(* of Messages does to the number of messages at each port.  It holds as   *)
(* long as a receive finds the port whose message it took still its own    *)
(* when it has the port's lock: TPReceive lets the process's lock go       *)
(* before it takes that one (accent/accent.c:772-780).                     *)
(*                                                                         *)
(* And no wake-up is lost: what every step does to those that sleep, and   *)
(* to what will wake them (Remembering, in the second part).               *)
(*                                                                         *)
(* And no right is lost on its way: where every step leaves the rights in  *)
(* transit, and the messages and calls that carry them (Conveying, in the  *)
(* third part).                                                            *)
(***************************************************************************)
EXTENDS MessagesProofs

(* The process that took a message has the receive right of its port until *)
(* it has the port's lock.  Its own calls see to that, but not a DelPort   *)
(* that another process comes too late with (accent/vmipc.c:559-624).      *)
ReceiverStays ==
  \A q \in Procs : At(q, "Taken") =>
    PortArray[Top(q).port].InUse /\ PortArray[Top(q).port].Receiver = q

(* A port takes one message at least. AllocatePort sees to that            *)
(* (accent/accint.c:174); SetBackLog does not.                             *)
Positive == /\ \A b \in Backlogs : b.backlog >= 1
            /\ \A p \in Ports : InitPort[p].InUse => InitPort[p].Backlog >= 1

(* a message taken by a receive that does not have the port's lock yet;    *)
(* one that is taken or will be, and one that is at a port at all          *)
Takes(q, m) == At(q, "Taken") /\ Top(q).kmsg = m
Ahead(m) == (\E q \in AllProcs : m \in Range(Inbox(q))) \/ (\E q \in Procs : Takes(q, m))
Pending(m) == Ahead(m) \/ \E p \in Ports : m \in Range(Second(p))

(* what NumQueued counts                                                   *)
Due(p) == {m \in KMsgs : Pending(m) /\ kmsg[m].RemotePort = p /\ ~kmsg[m].emerg}

(* no frame of a stack is that of a message being taken                    *)
Bare(st) == \A i \in 1 .. Len(st) : st[i].do # "Taken"

-----------------------------------------------------------------------------
(* Messages are where their port's receiver will find them; a secondary    *)
(* queue has none that were sent with emergency.                           *)
Homed ==
  /\ \A q \in AllProcs : \A m \in Range(Inbox(q)) :
       PortArray[kmsg[m].RemotePort].InUse /\ PortArray[kmsg[m].RemotePort].Receiver = q
  /\ \A p \in Ports : \A m \in Range(Second(p)) : kmsg[m].RemotePort = p /\ ~kmsg[m].emerg
  /\ \A q \in Procs : \A m \in KMsgs : Takes(q, m) => Top(q).port = kmsg[m].RemotePort

(* A message is being taken only by a call that has nothing else to do.    *)
Aside == \A q \in Procs : IF At(q, "Taken") THEN Tail(stack[q]) = <<>> ELSE Bare(stack[q])

Exact == \A p \in Ports : /\ PortArray[p].NumQueued \in Nat
                          /\ PortArray[p].InUse => PortArray[p].NumQueued = Cardinality(Due(p))

(* What is kept of the counts, if MInv is and ReceiverStays: Homed is      *)
(* needed to know that what leaves an inbox leaves its port, and Aside     *)
(* that no message comes to be taken when another call returns.            *)
Counting == Homed /\ Aside /\ Exact

(* A secondary queue has a message before it; and ports have room for one. *)
Fed == \A p \in Ports : Second(p) # <<>> => \E m \in KMsgs : Ahead(m) /\ kmsg[m].RemotePort = p
Roomy == \A p \in Ports : PortArray[p].InUse => PortArray[p].Backlog >= 1
Moving == Fed /\ Roomy

(* what is shown of a step                                                 *)
CountsKept == Counting' /\ (Positive /\ Moving => Moving')

-----------------------------------------------------------------------------
(* Stacks.                                                                 *)

(* A stack with a message being taken on top is not bare.                  *)
LEMMA BareTop ==
  ASSUME Typed, NEW q \in Procs, Bare(stack[q])
  PROVE  ~At(q, "Taken")
<1>1. stack[q] \in Seq(Frames)
  BY DEF Typed
<1>2. stack[q] # <<>> => 1 \in 1 .. Len(stack[q]) /\ Head(stack[q]) = stack[q][1]
  BY <1>1, EmptySeq, LenProperties
<1> QED
  BY <1>2 DEF Bare, At, Top


(* Frames put over a bare stack, or in place of the message taken, leave   *)
(* it bare if they are.                                                    *)
LEMMA Goes ==
  ASSUME Typed, Aside, NEW q \in Procs, stack[q] # <<>>, NEW S, NEW s \in Seq(S), Bare(s), Then(q, s)
  PROVE  /\ \A r \in Procs \ {q} : stack'[r] = stack[r]
         /\ Bare(stack'[q])
<1> DEFINE t == Tail(stack[q])
           T == S \cup Frames
<1>1. stack \in [Procs -> Seq(Frames)]
  BY DEF Typed
<1>2. stack'[q] = s \o t /\ \A r \in Procs \ {q} : stack'[r] = stack[r]
  BY <1>1 DEF Then
<1>3. Len(stack[q]) \in Nat \ {0} /\ t \in Seq(Frames) /\ Len(t) = Len(stack[q]) - 1
      /\ \A i \in 1 .. Len(t) : t[i] = stack[q][i + 1]
  BY <1>1, EmptySeq, LenProperties, HeadTailProperties
<1>4. Bare(t)
  <2>1. CASE t = <<>>
    <3> HIDE DEF t
    <3> QED
      BY <2>1 DEF Bare
  <2>2. CASE Bare(stack[q])
    <3> HIDE DEF t
    <3>1. \A i \in 1 .. Len(t) : i + 1 \in 1 .. Len(stack[q])
      BY <1>3
    <3> QED
      BY <1>3, <2>2, <3>1 DEF Bare
  <2> QED
    BY <2>1, <2>2 DEF Aside
<1> HIDE DEF t
<1>5. s \in Seq(T) /\ t \in Seq(T)
  BY <1>3, SeqDef
<1> HIDE DEF T
<1>6. /\ Len(s) \in Nat /\ Len(t) \in Nat /\ Len(s \o t) = Len(s) + Len(t)
      /\ \A i \in 1 .. Len(s) + Len(t) :
           (s \o t)[i] = IF i <= Len(s) THEN s[i] ELSE t[i - Len(s)]
  BY <1>5, LenProperties, ConcatProperties
<1>7. Bare(s \o t)
  <2>1. ASSUME NEW i \in 1 .. Len(s \o t)
        PROVE  (s \o t)[i].do # "Taken"
    <3>1. i <= Len(s) => i \in 1 .. Len(s)
      BY <1>6
    <3>2. ~(i <= Len(s)) => i - Len(s) \in 1 .. Len(t)
      BY <1>6
    <3>3. i \in 1 .. Len(s) + Len(t)
      BY <1>6
    <3> QED
      BY <1>4, <1>6, <3>1, <3>2, <3>3 DEF Bare
  <2> QED
    BY <2>1 DEF Bare
<1> QED
  BY <1>2, <1>7


(* Plain frames are bare.                                                  *)
LEMMA PlainBare == ASSUME NEW s \in Seq(Plain) PROVE Bare(s)
<1>1. \A i \in 1 .. Len(s) : s[i] \in Plain
  BY ElementOfSeq
<1> QED
  BY <1>1 DEF Bare, Plain, Holding


(* For none, one and two frames.                                           *)
LEMMA GoesFew ==
  ASSUME Typed, Aside, NEW q \in Procs, stack[q] # <<>>,
         \/ Then(q, <<>>)
         \/ \E f : f.do # "Taken" /\ Then(q, <<f>>)
         \/ \E f, g : f.do # "Taken" /\ g.do # "Taken" /\ Then(q, <<f, g>>)
  PROVE  /\ \A r \in Procs \ {q} : stack'[r] = stack[r]
         /\ Bare(stack'[q])
<1>1. CASE Then(q, <<>>)
  <2>1. <<>> \in Seq({})
    OBVIOUS
  <2>2. Bare(<<>>)
    BY DEF Bare
  <2> QED
    BY <1>1, <2>1, <2>2, Goes
<1>2. ASSUME NEW f, f.do # "Taken", Then(q, <<f>>)
      PROVE  /\ \A r \in Procs \ {q} : stack'[r] = stack[r]
             /\ Bare(stack'[q])
  <2>1. <<f>> \in Seq({f})
    OBVIOUS
  <2>2. Bare(<<f>>)
    BY <1>2 DEF Bare
  <2> QED
    BY <1>2, <2>1, <2>2, Goes
<1>3. ASSUME NEW f, NEW g, f.do # "Taken", g.do # "Taken", Then(q, <<f, g>>)
      PROVE  /\ \A r \in Procs \ {q} : stack'[r] = stack[r]
             /\ Bare(stack'[q])
  <2>1. <<f, g>> \in Seq({f, g})
    OBVIOUS
  <2>2. Bare(<<f, g>>)
    BY <1>3 DEF Bare
  <2> QED
    BY <1>3, <2>1, <2>2, Goes
<1> QED
  BY <1>1, <1>2, <1>3


(* And when a call returns.                                                *)
LEMMA GoesBack ==
  ASSUME Typed, NEW q \in Procs, Return(q)
  PROVE  /\ \A r \in Procs \ {q} : stack'[r] = stack[r]
         /\ Bare(stack'[q])
<1>1. stack \in [Procs -> Seq(Frames)]
  BY DEF Typed
<1>2. stack'[q] = <<>> /\ \A r \in Procs \ {q} : stack'[r] = stack[r]
  BY <1>1 DEF Return
<1> QED
  BY <1>2 DEF Bare


(* A message at a port is not free and in the hands of no call but one     *)
(* that takes it.                                                          *)
LEMMA PendingAlone ==
  ASSUME MInv, NEW m \in KMsgs, Pending(m)
  PROVE  /\ m \notin FreeKMsgQ
         /\ \A q \in Procs : Holds(stack[q], m) => Takes(q, m)
<1>1. CASE \E q \in AllProcs : m \in Range(Inbox(q))
  <2>1. PICK q \in AllProcs : m \in Range(Inbox(q))
    BY <1>1
  <2>2. In(m, "primary", q) /\ "primary" \in Kinds /\ q \in Slots
    BY <2>1, Numbers DEF In, Kinds
  <2> QED
    BY <2>2, Alone
<1>2. CASE \E p \in Ports : m \in Range(Second(p))
  <2>1. PICK p \in Ports : m \in Range(Second(p))
    BY <1>2
  <2>2. In(m, "secondary", p) /\ "secondary" \in Kinds /\ p \in Slots
    BY <2>1, Numbers DEF In, Kinds
  <2> QED
    BY <2>2, Alone
<1>3. CASE \E q \in Procs : Takes(q, m)
  <2>1. PICK q \in Procs : Takes(q, m)
    BY <1>3
  <2>2. Holds(stack[q], m)
    BY <2>1, TopHeld DEF Takes, At, Holding
  <2> QED
    BY <2>1, <2>2, HeldAlone
<1> QED
  BY <1>1, <1>2, <1>3 DEF Pending, Ahead


(* It goes to a port.                                                      *)
LEMMA PendingTo ==
  ASSUME MInv, NEW m \in KMsgs, Pending(m)
  PROVE  kmsg[m].RemotePort \in Ports
<1>1. ASSUME NEW q \in Procs, Posts(stack[q], m)
      PROVE  FALSE
  <2>1. Holds(stack[q], m)
    BY <1>1 DEF Posts, Holds, Holding
  <2>2. Takes(q, m)
    BY <2>1, PendingAlone
  <2>3. Head(stack[q]).do = "Taken" /\ Head(stack[q]).kmsg = m /\ stack[q] # <<>>
    BY <2>2 DEF Takes, At, Top
  <2>4. Posts(Tail(stack[q]), m) /\ ~Holds(Tail(stack[q]), m)
    BY <1>1, <2>3, Popped DEF Top, Holding
  <2> QED
    BY <2>4 DEF Posts, Holds, Holding
<1> QED
  BY <1>1, PendingAlone DEF MInv, Addressed


-----------------------------------------------------------------------------
(* Steps that move no message from or to a port.                           *)

(* a port's record, as far as the counts go, is the same after the step    *)
Alike(p) ==
  /\ Second(p)' = Second(p)
  /\ PortArray'[p].InUse = PortArray[p].InUse
  /\ PortArray'[p].Receiver = PortArray[p].Receiver
  /\ PortArray'[p].NumQueued = PortArray[p].NumQueued
  /\ Positive /\ PortArray[p].Backlog >= 1 => PortArray'[p].Backlog >= 1


(* A step of q that takes nothing changes who takes what nowhere.          *)
LEMMA TakesStay ==
  ASSUME Typed, Typed', NEW q \in Procs, \A r \in Procs \ {q} : stack'[r] = stack[r],
         Bare(stack[q]), Bare(stack'[q])
  PROVE  /\ \A r \in Procs, m \in KMsgs : Takes(r, m)' <=> Takes(r, m)
         /\ \A r \in Procs, m \in KMsgs : Takes(r, m) => Top(r)' = Top(r)
         /\ Aside => Aside'
<1>1. ~At(q, "Taken")
  BY BareTop
<1>2. ~At(q, "Taken")'
  <2>1. stack'[q] \in Seq(Frames)
    BY DEF Typed
  <2>2. stack'[q] # <<>> => 1 \in 1 .. Len(stack'[q]) /\ Head(stack'[q]) = stack'[q][1]
    BY <2>1, EmptySeq, LenProperties
  <2> QED
    BY <2>2 DEF Bare, At, Top
<1>3. \A r \in Procs \ {q} : (At(r, "Taken")' <=> At(r, "Taken")) /\ Top(r)' = Top(r)
  BY DEF At, Top
<1> QED
  BY <1>1, <1>2, <1>3 DEF Takes, Aside


(* Nor the counts, if queues, ports and the messages in them stay.         *)
LEMMA StillKeeps ==
  ASSUME MInv, Typed', Counting, NEW q \in Procs,
         \A r \in Procs \ {q} : stack'[r] = stack[r], Bare(stack[q]), Bare(stack'[q]),
         \A p \in Ports : Alike(p),
         \A r \in AllProcs : Inbox(r)' = Inbox(r),
         \A m \in KMsgs : \/ m \in FreeKMsgQ \/ Holds(stack[q], m)
                          \/ kmsg'[m].RemotePort = kmsg[m].RemotePort /\ kmsg'[m].emerg = kmsg[m].emerg
  PROVE  CountsKept
<1>1. /\ \A r \in Procs, m \in KMsgs : Takes(r, m)' <=> Takes(r, m)
      /\ \A r \in Procs, m \in KMsgs : Takes(r, m) => Top(r)' = Top(r)
      /\ Aside'
  BY TakesStay DEF MInv, Counting
<1>2. \A m \in KMsgs : (Ahead(m)' <=> Ahead(m)) /\ (Pending(m)' <=> Pending(m))
  BY <1>1 DEF Alike, Ahead, Pending
<1>3. ASSUME NEW m \in KMsgs, Pending(m)
      PROVE  kmsg'[m].RemotePort = kmsg[m].RemotePort /\ kmsg'[m].emerg = kmsg[m].emerg
  <2>1. ~Takes(q, m)
    BY BareTop DEF Takes, MInv
  <2> QED
    BY <1>3, <2>1, PendingAlone
<1>4. \A p \in Ports : Due(p)' = Due(p)
  BY <1>2, <1>3 DEF Due
<1>5. /\ \A r \in AllProcs : Range(Inbox(r)) \subseteq KMsgs
      /\ \A p \in Ports : Range(Second(p)) \subseteq KMsgs
  BY QueuesTyped DEF MInv
<1>6. Homed'
  <2>1. ASSUME NEW r \in AllProcs, NEW m \in Range(Inbox(r)')
        PROVE  PortArray'[kmsg'[m].RemotePort].InUse /\ PortArray'[kmsg'[m].RemotePort].Receiver = r
    <3>1. m \in KMsgs /\ m \in Range(Inbox(r)) /\ Pending(m)
      BY <1>5 DEF Pending, Ahead
    <3>2. kmsg'[m].RemotePort = kmsg[m].RemotePort
      BY <1>3, <3>1
    <3>3. kmsg[m].RemotePort \in Ports
      BY <3>1, PendingTo
    <3> QED
      BY <3>1, <3>2, <3>3 DEF Alike, Counting, Homed
  <2>2. ASSUME NEW p \in Ports, NEW m \in Range(Second(p)')
        PROVE  kmsg'[m].RemotePort = p /\ ~kmsg'[m].emerg
    <3>1. m \in KMsgs /\ m \in Range(Second(p)) /\ Pending(m)
      BY <1>5 DEF Alike, Pending
    <3> QED
      BY <1>3, <3>1 DEF Counting, Homed
  <2>3. ASSUME NEW r \in Procs, NEW m \in KMsgs, Takes(r, m)'
        PROVE  Top(r)'.port = kmsg'[m].RemotePort
    <3>1. Takes(r, m) /\ Pending(m)
      BY <1>1, <2>3 DEF Pending, Ahead
    <3> QED
      BY <1>1, <1>3, <3>1 DEF Counting, Homed
  <2> QED
    BY <2>1, <2>2, <2>3 DEF Homed
<1>7. Exact'
  BY <1>4 DEF Alike, Counting, Exact
<1>8. Fed => Fed'
  <2>1. ASSUME Fed, NEW p \in Ports, Second(p)' # <<>>
        PROVE  \E m \in KMsgs : Ahead(m)' /\ kmsg'[m].RemotePort = p
    <3>1. PICK m \in KMsgs : Ahead(m) /\ kmsg[m].RemotePort = p
      BY <2>1 DEF Alike, Fed
    <3> QED
      BY <1>2, <1>3, <3>1 DEF Pending
  <2> QED
    BY <2>1 DEF Fed
<1>9. Positive /\ Roomy => Roomy'
  BY DEF Alike, Roomy
<1> QED
  BY <1>1, <1>6, <1>7, <1>8, <1>9 DEF CountsKept, Counting, Moving

(* q takes a frame off that is not of a message being taken: then its      *)
(* stack is bare.                                                          *)
LEMMA BareUnder ==
  ASSUME Aside, NEW q \in Procs, ~At(q, "Taken")
  PROVE  Bare(stack[q])
BY DEF Aside


(* The record of a port but for what the counts are about.                 *)
LEMMA AlikeIs ==
  ASSUME Typed, NEW p \in Ports, NEW c \in PortRecords,
         c.SecondaryMsgQ = PortArray[p].SecondaryMsgQ, c.InUse = PortArray[p].InUse,
         c.NumQueued = PortArray[p].NumQueued, c.Receiver = PortArray[p].Receiver,
         Positive /\ PortArray[p].Backlog >= 1 => c.Backlog >= 1,
         PortArray' = [PortArray EXCEPT ![p] = c]
  PROVE  \A x \in Ports : Alike(x)
<1>1. /\ PortArray'[p] = c
      /\ \A x \in Ports \ {p} : PortArray'[x] = PortArray[x]
  BY DEF Typed
<1> QED
  BY <1>1 DEF Alike, Second


(* Its owner, its senders, its lock, ...                                   *)
LEMMA AlikeFields ==
  ASSUME Typed, NEW p \in Ports,
         \/ \E o \in AllProcs : PortArray' = [PortArray EXCEPT ![p].Owner = o]
         \/ \E S \in SUBSET Procs : PortArray' = [PortArray EXCEPT ![p].Senders = S]
         \/ PortArray' = [PortArray EXCEPT ![p].Locked = ~PortArray[p].Locked]
         \/ \E n \in Nat : PortArray' = [PortArray EXCEPT ![p].Backlog = n] /\ (Positive => n >= 1)
         \/ UNCHANGED PortArray
  PROVE  \A x \in Ports : Alike(x)
<1>1. PortArray[p] \in PortRecords
  BY DEF Typed
<1>2. ASSUME NEW o \in AllProcs, PortArray' = [PortArray EXCEPT ![p].Owner = o]
      PROVE  \A x \in Ports : Alike(x)
  <2> DEFINE c == [PortArray[p] EXCEPT !.Owner = o]
  <2>1. /\ c \in PortRecords
        /\ c.SecondaryMsgQ = PortArray[p].SecondaryMsgQ /\ c.InUse = PortArray[p].InUse
        /\ c.NumQueued = PortArray[p].NumQueued /\ c.Receiver = PortArray[p].Receiver
        /\ c.Backlog = PortArray[p].Backlog
    BY <1>1 DEF PortRecords
  <2>2. PortArray' = [PortArray EXCEPT ![p] = c]
    BY <1>2
  <2> HIDE DEF c
  <2> QED
    BY <2>1, <2>2, AlikeIs
<1>3. ASSUME NEW S \in SUBSET Procs, PortArray' = [PortArray EXCEPT ![p].Senders = S]
      PROVE  \A x \in Ports : Alike(x)
  <2> DEFINE c == [PortArray[p] EXCEPT !.Senders = S]
  <2>1. /\ c \in PortRecords
        /\ c.SecondaryMsgQ = PortArray[p].SecondaryMsgQ /\ c.InUse = PortArray[p].InUse
        /\ c.NumQueued = PortArray[p].NumQueued /\ c.Receiver = PortArray[p].Receiver
        /\ c.Backlog = PortArray[p].Backlog
    BY <1>1 DEF PortRecords
  <2>2. PortArray' = [PortArray EXCEPT ![p] = c]
    BY <1>3
  <2> HIDE DEF c
  <2> QED
    BY <2>1, <2>2, AlikeIs
<1>4. CASE PortArray' = [PortArray EXCEPT ![p].Locked = ~PortArray[p].Locked]
  <2> DEFINE b == ~PortArray[p].Locked
             c == [PortArray[p] EXCEPT !.Locked = b]
  <2>1. b \in BOOLEAN
    OBVIOUS
  <2>2. PortArray' = [PortArray EXCEPT ![p] = c]
    BY <1>4
  <2> HIDE DEF b
  <2>3. /\ c \in PortRecords
        /\ c.SecondaryMsgQ = PortArray[p].SecondaryMsgQ /\ c.InUse = PortArray[p].InUse
        /\ c.NumQueued = PortArray[p].NumQueued /\ c.Receiver = PortArray[p].Receiver
        /\ c.Backlog = PortArray[p].Backlog
    BY <1>1, <2>1 DEF PortRecords
  <2> HIDE DEF c
  <2> QED
    BY <2>2, <2>3, AlikeIs
<1>5. ASSUME NEW n \in Nat, PortArray' = [PortArray EXCEPT ![p].Backlog = n], Positive => n >= 1
      PROVE  \A x \in Ports : Alike(x)
  <2> DEFINE c == [PortArray[p] EXCEPT !.Backlog = n]
  <2>1. /\ c \in PortRecords
        /\ c.SecondaryMsgQ = PortArray[p].SecondaryMsgQ /\ c.InUse = PortArray[p].InUse
        /\ c.NumQueued = PortArray[p].NumQueued /\ c.Receiver = PortArray[p].Receiver
        /\ c.Backlog = n
    BY <1>1 DEF PortRecords
  <2>2. PortArray' = [PortArray EXCEPT ![p] = c]
    BY <1>5
  <2> HIDE DEF c
  <2> QED
    BY <1>5, <2>1, <2>2, AlikeIs
<1>6. CASE UNCHANGED PortArray
  BY <1>6 DEF Alike, Second
<1> QED
  BY <1>2, <1>3, <1>4, <1>5, <1>6


(* A message's answer is taken out of it, or it is made free.              *)
LEMMA MessageStays ==
  ASSUME Typed, NEW m \in KMsgs,
         Free(m) \/ kmsg' = [kmsg EXCEPT ![m].What = "DONT_WAKE"] \/ UNCHANGED kmsg
  PROVE  \A x \in KMsgs \ {m} : kmsg'[x].RemotePort = kmsg[x].RemotePort /\ kmsg'[x].emerg = kmsg[x].emerg
BY DEF Typed, Free

(* The pieces that pass ownership and rights on, and those that wake.      *)
LEMMA GivesCounted ==
  ASSUME MInv, MInv', Counting, NEW q \in Procs,
         GiveOwnership(q) \/ WakeReceiver(q) \/ WakeForMsg(q)
  PROVE  CountsKept
<1>1. stack[q] # <<>> /\ ~At(q, "Taken") /\ Then(q, <<>>) /\ UNCHANGED kmsg
  BY DEF GiveOwnership, WakeReceiver, WakeForMsg, At
<1>2. Bare(stack[q]) /\ Bare(stack'[q]) /\ \A r \in Procs \ {q} : stack'[r] = stack[r]
  BY <1>1, BareUnder, GoesFew DEF MInv, Counting
<1>3. Top(q) \in Frames
  BY <1>1, Popped
<1>4. CASE GiveOwnership(q)
  <2>1. Top(q).port \in Ports /\ Top(q).to \in AllProcs
    BY <1>3, <1>4, FrameIs DEF GiveOwnership, At
  <2>2. UNCHANGED ProcArray /\ PortArray' = [PortArray EXCEPT ![Top(q).port].Owner = Top(q).to]
    BY <1>4 DEF GiveOwnership
  <2>3. \A x \in Ports : Alike(x)
    BY <2>1, <2>2, AlikeFields DEF MInv
  <2> QED
    BY <1>1, <1>2, <2>2, <2>3, StillKeeps DEF MInv, Inbox
<1>5. CASE WakeReceiver(q) \/ WakeForMsg(q)
  <2>1. Top(q).to \in AllProcs
    BY <1>3, <1>5, FrameIs DEF WakeReceiver, WakeForMsg, At
  <2>2. UNCHANGED PortArray /\ ProcArray' \in {ProcArray, IPCWakeup(ProcArray, Top(q).to)}
    BY <1>5 DEF WakeReceiver, WakeForMsg
  <2>3. \A r \in AllProcs : Inbox(r)' = Inbox(r)
    BY <2>1, <2>2, WakeupIs DEF MInv, Inbox
  <2>4. \A x \in Ports : Alike(x)
    BY <2>2 DEF Alike, Second
  <2> QED
    BY <1>1, <1>2, <2>3, <2>4, StillKeeps DEF MInv
<1> QED
  BY <1>4, <1>5


(* Send rights to the ports of a message's header count for nothing.       *)
LEMMA GTransAlike ==
  ASSUME MInv, NEW q \in Procs, NEW S, FastGTrans(q, S) \/ UNCHANGED PortArray
  PROVE  \A x \in Ports : Alike(x)
<1>1. CASE FastGTrans(q, S)
  BY <1>1, GTransIs DEF MInv, Alike
<1>2. CASE UNCHANGED PortArray
  BY <1>2 DEF Alike, Second
<1> QED
  BY <1>1, <1>2


(* Those that leave plain frames: GTran, RemPort and Scan.                 *)
LEMMA PlainCounted ==
  ASSUME MInv, MInv', Counting, NEW q \in Procs, GTran(q) \/ RemPort(q) \/ Scan(q)
  PROVE  CountsKept
<1>1. /\ stack[q] # <<>> /\ ~At(q, "Taken") /\ Top(q).do \in {"GTran", "RemPort", "Scan"}
      /\ UNCHANGED <<ProcArray, kmsg>>
      /\ \/ UNCHANGED PortArray
         \/ /\ Top(q).do \in {"GTran", "RemPort"}
            /\ FastGTran(q, Top(q).port) \/ Forget(q, Top(q).port)
  BY DEF GTran, RemPort, Scan, At
<1>2. PICK s \in Seq(Plain) : Then(q, s)
  BY GTranFrames, RemPortFrames, ScanFrames
<1>3. Bare(stack[q]) /\ Bare(stack'[q]) /\ \A r \in Procs \ {q} : stack'[r] = stack[r]
  BY <1>1, <1>2, PlainBare, BareUnder, Goes DEF MInv, Counting
<1>4. \A x \in Ports : Alike(x)
  <2>1. CASE UNCHANGED PortArray
    BY <2>1 DEF Alike, Second
  <2>2. CASE /\ Top(q).do \in {"GTran", "RemPort"}
             /\ FastGTran(q, Top(q).port) \/ Forget(q, Top(q).port)
    <3> DEFINE p == Top(q).port
    <3>1. p \in Ports
      BY <1>1, <2>2, Popped, FrameIs
    <3> HIDE DEF p
    <3>2. PortArray[p].Senders \in SUBSET Procs
      BY <3>1 DEF MInv, Typed, PortRecords
    <3>3. \E S \in SUBSET Procs : PortArray' = [PortArray EXCEPT ![p].Senders = S]
      BY <2>2, <3>2 DEF FastGTran, Forget, p
    <3> QED
      BY <3>1, <3>3, AlikeFields DEF MInv
  <2> QED
    BY <1>1, <2>1, <2>2
<1> QED
  BY <1>1, <1>3, <1>4, StillKeeps DEF MInv, Inbox


(* The end of a wait, and a signal during it.                              *)
LEMMA WaitsCounted ==
  ASSUME MInv, MInv', Counting, NEW q \in Procs,
         Sent(q) \/ GiveUp(q) \/ Interrupt(q) \/ asleepexpire(q)
  PROVE  CountsKept
<1>1. /\ stack[q] # <<>> /\ Top(q).do \in {"FullWait", "MsgWait"} /\ ~At(q, "Taken")
      /\ UNCHANGED <<PortArray, kmsg>>
      /\ ProcArray' \in {ProcArray, [ProcArray EXCEPT ![q].State = "TIMED_OUT"]}
      /\ Return(q) \/ UNCHANGED stack \/ Then(q, <<[Top(q) EXCEPT !.signalled = TRUE]>>)
  BY DEF Sent, GiveUp, Interrupt, asleepexpire, Sleeping, At
<1>2. [Top(q) EXCEPT !.signalled = TRUE].do # "Taken"
  BY <1>1, Popped, FrameIs
<1>3. Bare(stack[q])
  BY <1>1, BareUnder DEF Counting
<1>4. Bare(stack'[q]) /\ \A r \in Procs \ {q} : stack'[r] = stack[r]
  BY <1>1, <1>2, <1>3, GoesBack, GoesFew DEF MInv, Counting
<1>5. \A r \in AllProcs : Inbox(r)' = Inbox(r)
  <2>1. q \in AllProcs
    BY Numbers
  <2> QED
    BY <1>1, <2>1, StateIs DEF MInv, Inbox
<1>6. \A x \in Ports : Alike(x)
  BY <1>1 DEF Alike, Second
<1> QED
  BY <1>1, <1>3, <1>4, <1>5, <1>6, StillKeeps DEF MInv


(* The calls that begin a walk over rights, lock a port or set a backlog.  *)
LEMMA CallsCounted ==
  ASSUME MInv, MInv', Counting,
         \/ \E d \in Deallocates : DeallocatePort(d.proc, d.port)
         \/ \E q \in Mortals : Suicide(q)
         \/ \E l \in Locks : TPLockPorts(l)
         \/ \E b \in Backlogs : SetBackLog(b)
  PROVE  CountsKept
<1>1. /\ \A d \in Deallocates \cup Locks \cup Backlogs : d.proc \in Procs /\ d.port \in Ports
      /\ \A b \in Backlogs : b.backlog \in Nat
      /\ Mortals \subseteq Procs
  BY MessagesAssumption
<1>2. stack \in [Procs -> Seq(Frames)]
  BY DEF MInv, Typed
<1>3. Bare(<<>>) /\ \A f : f.do # "Taken" => Bare(<<f>>)
  BY DEF Bare
<1>4. ASSUME NEW d \in Deallocates, DeallocatePort(d.proc, d.port)
      PROVE  CountsKept
  <2>1. d.proc \in Procs
    BY <1>1
  <2> DEFINE q == d.proc
             f == [do |-> "RemPort", port |-> d.port]
  <2>2. stack[q] = <<>> /\ stack' = [stack EXCEPT ![q] = <<f>>] /\ UNCHANGED <<PortArray, ProcArray, kmsg>>
    BY <1>4 DEF DeallocatePort
  <2>3. f.do # "Taken"
    OBVIOUS
  <2> HIDE DEF f, q
  <2>4. q \in Procs
    BY <2>1 DEF q
  <2>5. Bare(stack[q]) /\ Bare(stack'[q]) /\ \A r \in Procs \ {q} : stack'[r] = stack[r]
    BY <1>2, <1>3, <2>2, <2>3, <2>4
  <2>6. \A x \in Ports : Alike(x)
    BY <2>2 DEF Alike, Second
  <2> QED
    BY <2>2, <2>4, <2>5, <2>6, StillKeeps DEF MInv, Inbox
<1>5. ASSUME NEW q \in Mortals, Suicide(q)
      PROVE  CountsKept
  <2> DEFINE f == [do |-> "Scan", next |-> 1, haveports |-> FALSE]
  <2>1. q \in Procs /\ q \in AllProcs
    BY <1>1, Numbers
  <2>2. /\ stack[q] = <<>> /\ stack' = [stack EXCEPT ![q] = <<f>>] /\ UNCHANGED <<PortArray, kmsg>>
        /\ ProcArray' = [ProcArray EXCEPT ![q].Active = FALSE, ![q].State = "NOT_WAITING"]
    BY <1>5 DEF Suicide
  <2>3. f.do # "Taken"
    OBVIOUS
  <2> HIDE DEF f
  <2>4. Bare(stack[q]) /\ Bare(stack'[q]) /\ \A r \in Procs \ {q} : stack'[r] = stack[r]
    BY <1>2, <1>3, <2>1, <2>2, <2>3
  <2>5. \A x \in Ports : Alike(x)
    BY <2>2 DEF Alike, Second
  <2>6. \A r \in AllProcs : Inbox(r)' = Inbox(r)
    BY <2>1, <2>2 DEF MInv, Typed, ProcRecords, Inbox
  <2> QED
    BY <2>1, <2>2, <2>4, <2>5, <2>6, StillKeeps DEF MInv
<1>6. ASSUME NEW q \in Procs, stack[q] = <<>>, UNCHANGED <<ProcArray, kmsg, stack>>, \A x \in Ports : Alike(x)
      PROVE  CountsKept
  BY <1>3, <1>6, StillKeeps DEF MInv, Inbox
<1>7. ASSUME NEW l \in Locks, TPLockPorts(l)
      PROVE  CountsKept
  <2>1. /\ l.proc \in Procs /\ l.port \in Ports /\ stack[l.proc] = <<>>
        /\ UNCHANGED <<ProcArray, kmsg, stack>>
        /\ PortArray' = [PortArray EXCEPT ![l.port].Locked = ~PortArray[l.port].Locked]
    BY <1>1, <1>7 DEF TPLockPorts, Idle
  <2>2. \A x \in Ports : Alike(x)
    BY <2>1, AlikeFields DEF MInv
  <2> QED
    BY <1>6, <2>1, <2>2
<1>8. ASSUME NEW b \in Backlogs, SetBackLog(b)
      PROVE  CountsKept
  <2>1. /\ b.proc \in Procs /\ b.port \in Ports /\ b.backlog \in Nat /\ stack[b.proc] = <<>>
        /\ UNCHANGED <<ProcArray, kmsg, stack>>
        /\ PortArray' = [PortArray EXCEPT ![b.port].Backlog = b.backlog]
        /\ Positive => b.backlog >= 1
    BY <1>1, <1>8 DEF SetBackLog, Idle, Positive
  <2>2. \A x \in Ports : Alike(x)
    BY <2>1, AlikeFields DEF MInv
  <2> QED
    BY <1>6, <2>1, <2>2
<1> QED
  BY <1>4, <1>5, <1>7, <1>8

(* A step that makes the message in hand free, or does not look at it, and *)
(* lets ports and queues be.                                               *)
LEMMA InHandCounted ==
  ASSUME MInv, MInv', Counting, NEW q \in Procs, NEW m \in KMsgs,
         m \in FreeKMsgQ \/ Holds(stack[q], m), ~At(q, "Taken"),
         \A r \in Procs \ {q} : stack'[r] = stack[r], Bare(stack'[q]),
         \A x \in KMsgs \ {m} : kmsg'[x].RemotePort = kmsg[x].RemotePort /\ kmsg'[x].emerg = kmsg[x].emerg,
         \A p \in Ports : Alike(p), \A r \in AllProcs : Inbox(r)' = Inbox(r)
  PROVE  CountsKept
<1>1. Bare(stack[q])
  BY BareUnder DEF Counting
<1> QED
  BY <1>1, StillKeeps DEF MInv


(* Sequences of one and of two, as the code's IFs put them together.       *)
LEMMA Joined ==
  ASSUME NEW f, NEW g
  PROVE  /\ <<>> \o <<>> = <<>> /\ <<>> \o <<g>> = <<g>> /\ <<f>> \o <<>> = <<f>>
         /\ <<f>> \o <<g>> = <<f, g>>
<1>1. <<f>> \in Seq({f, g}) /\ <<g>> \in Seq({f, g}) /\ <<>> \in Seq({f, g})
  OBVIOUS
<1>2. <<f>> \o <<g>> = Append(<<f>>, g)
  BY <1>1, AppendIsConcat
<1>3. Append(<<f>>, g) = <<f, g>>
  <2> DEFINE a == Append(<<f>>, g)
             b == <<f, g>>
  <2>1. /\ a \in Seq({f, g}) /\ b \in Seq({f, g}) /\ Len(a) = 2 /\ Len(b) = 2
        /\ \A i \in 1 .. 2 : a[i] = b[i]
    OBVIOUS
  <2> HIDE DEF a, b
  <2>2. a = b
    BY <2>1, SeqEqual
  <2> QED
    BY <2>2 DEF a, b
<1> QED
  BY <1>1, <1>2, <1>3, ConcatEmptySeq


(* What the pieces of SendKernelMsg do: nothing more, go on with another   *)
(* frame, or make a message.                                               *)
LEMMA KernelMsgIs ==
  ASSUME MInv, NEW q \in Procs, SendKernelMsg(q) \/ PackMsg(q)
  PROVE  /\ stack[q] # <<>> /\ Top(q).do \in {"SendKernelMsg", "PackMsg"} /\ ~At(q, "Taken")
         /\ UNCHANGED <<PortArray, ProcArray>>
         /\ \/ Then(q, <<>>) /\ UNCHANGED <<kmsg, FreeKMsgQ>>
            \/ \E f : f.do = "PackMsg" /\ Then(q, <<f>>) /\ UNCHANGED <<kmsg, FreeKMsgQ>>
            \/ \E m \in FreeKMsgQ : \E c : /\ c.What = "DONT_WAKE" /\ c.ID = Top(q).id
                                           /\ c.type = TypeOf(Top(q).id) /\ c.port = Top(q).port
                                           /\ Allocate(m, c) /\ Then(q, <<Frame("QueueMsg", m)>>)
<1>1. CASE SendKernelMsg(q)
  <2> DEFINE f == [Top(q) EXCEPT !.do = "PackMsg"]
  <2>1. /\ stack[q] # <<>> /\ Top(q).do = "SendKernelMsg"
        /\ UNCHANGED <<PortArray, ProcArray, kmsg, FreeKMsgQ>>
        /\ Then(q, <<f>>) \/ Then(q, <<>>)
    BY <1>1 DEF SendKernelMsg, At
  <2>2. f.do = "PackMsg"
    <3>1. Top(q) \in [do : {"SendKernelMsg", "PackMsg"}, to : Procs, id : IDs, port : Ports]
      BY <2>1, TopIs DEF MInv, Frames
    <3> QED
      BY <3>1
  <2> HIDE DEF f
  <2> QED
    BY <2>1, <2>2 DEF At
<1>2. CASE PackMsg(q)
  <2> DEFINE f == Top(q)
             c == Message(f.id, ProcArray[f.to].DataPort, NullPort, TRUE, TypeOf(f.id), f.port)
  <2>1. /\ stack[q] # <<>> /\ f.do = "PackMsg" /\ UNCHANGED <<PortArray, ProcArray>>
        /\ \/ Then(q, <<>>) /\ UNCHANGED <<kmsg, FreeKMsgQ>>
           \/ \E m \in FreeKMsgQ : Allocate(m, c) /\ Then(q, <<Frame("QueueMsg", m)>>)
    BY <1>2 DEF PackMsg, At
  <2>2. c.What = "DONT_WAKE" /\ c.ID = f.id /\ c.type = TypeOf(f.id) /\ c.port = f.port
    BY DEF Message
  <2> HIDE DEF c
  <2> QED
    BY <2>1, <2>2 DEF At
<1> QED
  BY <1>1, <1>2


(* A new message is in the hands of the call that makes it.                *)
LEMMA SendKernelMsgCounted ==
  ASSUME MInv, MInv', Counting, NEW q \in Procs, SendKernelMsg(q) \/ PackMsg(q)
  PROVE  CountsKept
<1>1. stack[q] # <<>> /\ ~At(q, "Taken") /\ UNCHANGED <<PortArray, ProcArray>>
  BY KernelMsgIs
<1>2. \A p \in Ports : Alike(p)
  BY <1>1 DEF Alike, Second
<1>3. CASE (Then(q, <<>>) \/ \E f : f.do = "PackMsg" /\ Then(q, <<f>>)) /\ UNCHANGED kmsg
  <2>1. Bare(stack'[q]) /\ \A r \in Procs \ {q} : stack'[r] = stack[r]
    BY <1>1, <1>3, GoesFew DEF MInv, Counting
  <2>2. Bare(stack[q])
    BY <1>1, BareUnder DEF Counting
  <2> QED
    BY <1>1, <1>2, <1>3, <2>1, <2>2, StillKeeps DEF MInv, Inbox
<1>4. ASSUME NEW m \in FreeKMsgQ, NEW c, Allocate(m, c), Then(q, <<Frame("QueueMsg", m)>>)
      PROVE  CountsKept
  <2>1. Frame("QueueMsg", m).do # "Taken"
    BY DEF Frame
  <2>2. Bare(stack'[q]) /\ \A r \in Procs \ {q} : stack'[r] = stack[r]
    BY <1>1, <1>4, <2>1, GoesFew DEF MInv, Counting
  <2>3. m \in KMsgs /\ \A x \in KMsgs \ {m} : kmsg'[x] = kmsg[x]
    BY <1>4 DEF Allocate, MInv, Typed
  <2> QED
    BY <1>1, <1>2, <2>2, <2>3, InHandCounted DEF Inbox
<1> QED
  BY <1>3, <1>4, KernelMsgIs


(* msg_send's too.                                                         *)
LEMMA TPSendCounted ==
  ASSUME MInv, MInv', Counting, NEW s \in Sends, TPSend(s)
  PROVE  CountsKept
<1> DEFINE q == s.proc
<1>1. q \in Procs
  BY MessagesAssumption
<1>2. PICK m \in FreeKMsgQ :
        /\ \E c : Allocate(m, c)
        /\ stack' = [stack EXCEPT ![q] = SendFrames(m, s.how, s.type)]
        /\ UNCHANGED <<PortArray, ProcArray>> /\ stack[q] = <<>>
  BY DEF TPSend, SendFrames, Idle
<1> HIDE DEF q
<1>3. m \in KMsgs /\ \A x \in KMsgs \ {m} : kmsg'[x] = kmsg[x]
  BY <1>2 DEF Allocate, MInv, Typed
<1>4. stack \in [Procs -> Seq(Frames)]
  BY DEF MInv, Typed
<1>5. \A r \in Procs \ {q} : stack'[r] = stack[r]
  BY <1>2, <1>4
<1>6. stack'[q] = SendFrames(m, s.how, s.type)
  BY <1>1, <1>2, <1>4
<1>7. Bare(SendFrames(m, s.how, s.type))
  <2> DEFINE f == Frame("LTran", m)
             g == [do |-> "Post", kmsg |-> m, how |-> s.how]
  <2>1. f.do # "Taken" /\ g.do # "Taken"
    BY DEF Frame
  <2>2. SendFrames(m, s.how, s.type) = IF s.type = "none" THEN <<>> \o <<g>> ELSE <<f>> \o <<g>>
    BY DEF SendFrames
  <2> HIDE DEF f, g
  <2>3. <<>> \o <<g>> = <<g>> /\ <<f>> \o <<g>> = <<f, g>>
    BY Joined
  <2>4. Bare(<<g>>) /\ Bare(<<f, g>>)
    BY <2>1 DEF Bare
  <2> QED
    BY <2>2, <2>3, <2>4
<1>8. ~At(q, "Taken")
  BY <1>2 DEF At
<1>9. \A p \in Ports : Alike(p)
  BY <1>2 DEF Alike, Second
<1> QED
  BY <1>1, <1>2, <1>3, <1>5, <1>6, <1>7, <1>8, <1>9, InHandCounted DEF Inbox


(* LTran, and a Post that fails.                                           *)
LEMMA FailsCounted ==
  ASSUME MInv, MInv', Counting, NEW q \in Procs, LTran(q) \/ PostNowhere(q) \/ PostRefused(q)
  PROVE  CountsKept
<1> DEFINE m == Top(q).kmsg
<1>1. /\ stack[q] # <<>> /\ Top(q).do \in {"LTran", "Post"} /\ ~At(q, "Taken")
      /\ UNCHANGED <<PortArray, ProcArray>>
  BY DEF LTran, PostNowhere, PostRefused, Posting, At
<1>2. m \in KMsgs /\ Holds(stack[q], m)
  BY <1>1, TopHeld DEF Holding
<1>3. \A p \in Ports : Alike(p)
  BY <1>1 DEF Alike, Second
<1>4. CASE Free(m) /\ Return(q)
  <2>1. Bare(stack'[q]) /\ \A r \in Procs \ {q} : stack'[r] = stack[r]
    BY <1>4, GoesBack DEF MInv
  <2> HIDE DEF m
  <2>2. \A x \in KMsgs \ {m} : kmsg'[x].RemotePort = kmsg[x].RemotePort /\ kmsg'[x].emerg = kmsg[x].emerg
    BY <1>2, <1>4, MessageStays DEF MInv
  <2> QED
    BY <1>1, <1>2, <1>3, <2>1, <2>2, InHandCounted DEF Inbox
<1>5. CASE /\ kmsg' = [kmsg EXCEPT ![m].type = "none", ![m].port = NullPort]
           /\ Then(q, <<>>)
  <2>1. Bare(stack'[q]) /\ \A r \in Procs \ {q} : stack'[r] = stack[r]
    BY <1>1, <1>5, GoesFew DEF MInv, Counting
  <2> HIDE DEF m
  <2>2. \A x \in KMsgs \ {m} : kmsg'[x] = kmsg[x]
    BY <1>5 DEF MInv, Typed
  <2> QED
    BY <1>1, <1>2, <1>3, <2>1, <2>2, InHandCounted DEF Inbox
<1>6. ASSUME NEW f, NEW g, NEW type, f.do # "Taken", g.do # "Taken", UNCHANGED kmsg,
             Then(q, (IF type \in {"TypePtOwnership", "TypePtAll"} THEN <<f>> ELSE <<>>)
                     \o (IF type \in {"TypePtReceive", "TypePtAll"} THEN <<g>> ELSE <<>>))
      PROVE  CountsKept
  <2>1. /\ <<>> \o <<>> = <<>> /\ <<>> \o <<g>> = <<g>> /\ <<f>> \o <<>> = <<f>>
        /\ <<f>> \o <<g>> = <<f, g>>
    BY Joined
  <2>2. Then(q, <<>>) \/ Then(q, <<f>>) \/ Then(q, <<g>>) \/ Then(q, <<f, g>>)
    BY <1>6, <2>1
  <2>3. Bare(stack'[q]) /\ \A r \in Procs \ {q} : stack'[r] = stack[r]
    BY <1>1, <1>6, <2>2, GoesFew DEF MInv, Counting
  <2> QED
    BY <1>1, <1>2, <1>3, <1>6, <2>3, InHandCounted DEF Inbox
<1>7. CASE LTran(q)
  <2> DEFINE p == kmsg[m].port
             f == Give("GiveOwnership", p, RIGHTS_IN_TRANSIT)
             g == Give("GiveReceiveRights", p, RIGHTS_IN_TRANSIT)
             type == kmsg[m].type
             s == (IF type \in {"TypePtOwnership", "TypePtAll"} THEN <<f>> ELSE <<>>)
                     \o (IF type \in {"TypePtReceive", "TypePtAll"} THEN <<g>> ELSE <<>>)
  <2>1. f.do # "Taken" /\ g.do # "Taken"
    BY DEF Give
  <2>2. \/ Free(m) /\ Return(q)
        \/ kmsg' = [kmsg EXCEPT ![m].type = "none", ![m].port = NullPort] /\ Then(q, <<>>)
        \/ UNCHANGED kmsg /\ Then(q, s)
    BY <1>7 DEF LTran
  <2> HIDE DEF f, g, type
  <2> QED
    BY <1>4, <1>5, <1>6, <2>1, <2>2
<1> QED
  BY <1>4, <1>7 DEF PostNowhere, PostRefused


(* The pieces that end a message, answer it and copy it out, and Notify.   *)
LEMMA EndsCounted ==
  ASSUME MInv, MInv', Counting, NEW q \in Procs,
         Release(q) \/ Answer(q) \/ CopyOut(q)
  PROVE  CountsKept
<1> DEFINE m == Top(q).kmsg
           to == kmsg[m].RemotePort
           who == kmsg[m].WakeupProc
<1>1. stack[q] # <<>> /\ Top(q).do \in {"Release", "Answer", "CopyOut"} /\ ~At(q, "Taken")
  BY DEF Release, Answer, CopyOut, At
<1>2. m \in KMsgs /\ Holds(stack[q], m) /\ to \in Ports /\ who \in AllProcs
  <2>1. m \in KMsgs /\ Holds(stack[q], m) /\ to \in Ports
    BY <1>1, TopHeld DEF Holding
  <2>2. who \in AllProcs
    BY <2>1 DEF MInv, Typed, MessageRecords
  <2> QED
    BY <2>1, <2>2
<1>3. /\ \/ UNCHANGED PortArray
         \/ FastGTrans(q, {kmsg[m].LocalPort, to})
         \/ FastGTran(who, to) /\ who \in Procs
      /\ ProcArray' \in {ProcArray, IPCWakeup(ProcArray, who)}
      /\ Free(m) \/ kmsg' = [kmsg EXCEPT ![m].What = "DONT_WAKE"] \/ UNCHANGED kmsg
  <2>1. kmsg[m].What = "SEND_ACK" => who \in Procs
    BY <1>2 DEF MInv, Typed
  <2> QED
    BY <2>1 DEF Release, Answer, CopyOut, SendAcknowledge
<1>4. \/ Then(q, <<>>)
      \/ \E f : f.do # "Taken" /\ Then(q, <<f>>)
      \/ \E f, g : f.do # "Taken" /\ g.do # "Taken" /\ Then(q, <<f, g>>)
  <2> DEFINE n == Notice(who, "M_MsgAccepted", to)
             c == Frame("CopyOut", m)
             e == Frame("Release", m)
             g == [do |-> "GTran", type |-> kmsg[m].type, port |-> kmsg[m].port]
             t == Top(q)
  <2>1. n.do # "Taken" /\ c.do # "Taken" /\ e.do # "Taken" /\ g.do # "Taken" /\ t.do # "Taken"
    BY <1>1 DEF Notice, Frame
  <2>2. \/ Then(q, <<>>) \/ Then(q, <<c>>) \/ Then(q, <<e>>)
        \/ Then(q, <<n, t>>) \/ Then(q, <<n, c>>) \/ Then(q, <<g, e>>)
    BY DEF Release, Answer, CopyOut
  <2> HIDE DEF n, c, e, g, t
  <2> QED
    BY <2>1, <2>2
<1>5. Bare(stack'[q]) /\ \A r \in Procs \ {q} : stack'[r] = stack[r]
  BY <1>1, <1>4, GoesFew DEF MInv, Counting
<1> HIDE DEF m, to, who
<1>6. \A p \in Ports : Alike(p)
  <2>1. PortArray[to].Senders \in SUBSET Procs
    BY <1>2 DEF MInv, Typed, PortRecords
  <2>2. CASE FastGTran(who, to) /\ who \in Procs
    <3>1. \E S \in SUBSET Procs : PortArray' = [PortArray EXCEPT ![to].Senders = S]
      BY <2>1, <2>2 DEF FastGTran
    <3> QED
      BY <1>2, <3>1, AlikeFields DEF MInv
  <2> QED
    BY <1>3, <2>2, GTransAlike
<1>7. \A r \in AllProcs : Inbox(r)' = Inbox(r)
  BY <1>2, <1>3, WakeupIs DEF MInv, Inbox
<1>8. \A x \in KMsgs \ {m} : kmsg'[x].RemotePort = kmsg[x].RemotePort /\ kmsg'[x].emerg = kmsg[x].emerg
  BY <1>2, <1>3, MessageStays DEF MInv
<1> QED
  BY <1>1, <1>2, <1>5, <1>6, <1>7, <1>8, InHandCounted


(* Telling holders of send rights.                                         *)
LEMMA NotifyCounted ==
  ASSUME MInv, MInv', Counting, NEW q \in Procs, Notify(q)
  PROVE  CountsKept
<1> DEFINE p == Top(q).port
<1>1. /\ stack[q] # <<>> /\ Top(q).do = "Notify" /\ ~At(q, "Taken")
      /\ UNCHANGED <<ProcArray, kmsg>>
      /\ \E j : PortArray' = [PortArray EXCEPT ![p].Senders = @ \ {j}]
      /\ \/ Then(q, <<>>)
         \/ \E j : Then(q, <<Notice(j, "M_PortDeleted", p), [Top(q) EXCEPT !.next = j + 1]>>)
  BY DEF Notify, Forget, At
<1>2. Top(q) \in [do : {"Notify"}, port : Ports, next : 1 .. NumProcs]
  BY <1>1, Popped, FrameIs
<1>3. \A j : Notice(j, "M_PortDeleted", p).do # "Taken" /\ [Top(q) EXCEPT !.next = j + 1].do # "Taken"
  BY <1>1, <1>2 DEF Notice
<1>4. Bare(stack[q]) /\ Bare(stack'[q]) /\ \A r \in Procs \ {q} : stack'[r] = stack[r]
  BY <1>1, <1>3, GoesFew, BareUnder DEF MInv, Counting
<1>5. p \in Ports
  BY <1>2
<1> HIDE DEF p
<1>6. PortArray[p].Senders \in SUBSET Procs
  BY <1>5 DEF MInv, Typed, PortRecords
<1>7. UNCHANGED PortArray \/ \E S \in SUBSET Procs : PortArray' = [PortArray EXCEPT ![p].Senders = S]
  BY <1>1, <1>6
<1>8. \A x \in Ports : Alike(x)
  BY <1>5, <1>7, AlikeFields DEF MInv
<1> QED
  BY <1>1, <1>4, <1>8, StillKeeps DEF MInv, Inbox

-----------------------------------------------------------------------------
(* Steps that move messages.                                               *)

(* How many messages are at a port: one that comes counts one more, and    *)
(* one that goes one less.                                                 *)
LEMMA DueSize ==
  ASSUME NEW p, NEW m
  PROVE  /\ Cardinality(Due(p)) \in Nat
         /\ Cardinality(Due(p) \cup {m}) = IF m \in Due(p) THEN Cardinality(Due(p)) ELSE Cardinality(Due(p)) + 1
         /\ Cardinality(Due(p) \ {m}) = IF m \in Due(p) THEN Cardinality(Due(p)) - 1 ELSE Cardinality(Due(p))
<1>1. IsFiniteSet(KMsgs) /\ Due(p) \in SUBSET KMsgs
  BY PortsAssumption DEF Due
<1> HIDE DEF Due
<1>2. IsFiniteSet(Due(p))
  BY <1>1, FS_Subset
<1> QED
  BY <1>2, FS_CardinalityType, FS_AddElement, FS_RemoveElement


(* One port's number and secondary queue change, and nothing else that     *)
(* counts.                                                                 *)
LEMMA NumberIs ==
  ASSUME Typed, NEW p \in Ports, NEW c,
         c.InUse = PortArray[p].InUse, c.Receiver = PortArray[p].Receiver,
         c.Backlog = PortArray[p].Backlog, PortArray' = [PortArray EXCEPT ![p] = c]
  PROVE  /\ \A x \in Ports : /\ PortArray'[x].InUse = PortArray[x].InUse
                             /\ PortArray'[x].Receiver = PortArray[x].Receiver
                             /\ PortArray'[x].Backlog = PortArray[x].Backlog
         /\ \A x \in Ports \ {p} : /\ Second(x)' = Second(x)
                                   /\ PortArray'[x].NumQueued = PortArray[x].NumQueued
         /\ Second(p)' = c.SecondaryMsgQ /\ PortArray'[p].NumQueued = c.NumQueued
<1>1. PortArray'[p] = c /\ \A x \in Ports \ {p} : PortArray'[x] = PortArray[x]
  BY DEF Typed
<1> QED
  BY <1>1 DEF Second


(* The messages at ports are all there is to the counts: if one message m  *)
(* comes to port p, or goes, or none does, the number may say so.          *)
LEMMA ExactKept ==
  ASSUME Exact, NEW p \in Ports, NEW m \in KMsgs,
         \A x \in Ports : PortArray'[x].InUse = PortArray[x].InUse,
         \A x \in Ports \ {p} : PortArray'[x].NumQueued = PortArray[x].NumQueued /\ Due(x)' = Due(x),
         PortArray[p].InUse,
         \/ Due(p)' = Due(p) /\ PortArray'[p].NumQueued = PortArray[p].NumQueued
         \/ /\ Due(p)' = Due(p) \cup {m} /\ m \notin Due(p)
            /\ PortArray'[p].NumQueued = PortArray[p].NumQueued + 1
         \/ /\ Due(p)' = Due(p) \ {m} /\ m \in Due(p)
            /\ PortArray'[p].NumQueued = PortArray[p].NumQueued - 1
  PROVE  Exact'
<1>1. PortArray[p].NumQueued = Cardinality(Due(p)) /\ PortArray[p].NumQueued \in Nat
  BY DEF Exact
<1>2. PortArray'[p].NumQueued = Cardinality(Due(p)')
  BY <1>1, DueSize
<1>3. PortArray'[p].NumQueued \in Nat
  <2>1. m \in Due(p) => PortArray[p].NumQueued # 0
    <3>1. m \in Due(p) => Cardinality(Due(p) \ {m}) = Cardinality(Due(p)) - 1
      BY DueSize
    <3>2. IsFiniteSet(Due(p) \ {m})
      <4>1. IsFiniteSet(KMsgs) /\ Due(p) \ {m} \in SUBSET KMsgs
        BY PortsAssumption DEF Due
      <4> QED
        BY <4>1, FS_Subset
    <3>3. Cardinality(Due(p) \ {m}) \in Nat
      BY <3>2, FS_CardinalityType
    <3> QED
      BY <1>1, <3>1, <3>3
  <2> QED
    BY <1>1, <2>1
<1> QED
  BY <1>2, <1>3 DEF Exact


(* A message in hand arrives in the queue of its port's receiver.          *)
LEMMA Arrives ==
  ASSUME MInv, Typed', Counting, NEW q \in Procs, NEW m \in KMsgs, Holds(stack[q], m), ~At(q, "Taken"),
         NEW p \in Ports, p = kmsg[m].RemotePort, PortArray[p].InUse,
         \A r \in Procs \ {q} : stack'[r] = stack[r], Bare(stack'[q]),
         \A r \in AllProcs : Range(Inbox(r)') = IF r = PortArray[p].Receiver THEN Range(Inbox(r)) \cup {m}
                                               ELSE Range(Inbox(r)),
         PortArray' = Counted(m, p), UNCHANGED kmsg
  PROVE  CountsKept
<1> DEFINE n == IF kmsg[m].emerg THEN PortArray[p].NumQueued ELSE PortArray[p].NumQueued + 1
<1>1. Bare(stack[q])
  BY BareUnder DEF Counting
<1>2. /\ \A r \in Procs, x \in KMsgs : Takes(r, x)' <=> Takes(r, x)
      /\ \A r \in Procs, x \in KMsgs : Takes(r, x) => Top(r)' = Top(r)
      /\ Aside'
  BY <1>1, TakesStay DEF MInv, Counting
<1>3. ~Takes(q, m)
  BY DEF Takes
<1>4. ~Pending(m)
  BY <1>3, PendingAlone
<1>5. PortArray[p].Receiver \in AllProcs /\ PortArray[p].NumQueued \in Int /\ Second(p) \in Seq(KMsgs)
  BY QueuesTyped DEF MInv, Typed, PortRecords
<1> DEFINE c == [PortArray[p] EXCEPT !.NumQueued = n]
<1>6. PortArray' = [PortArray EXCEPT ![p] = c]
  BY DEF Counted
<1> HIDE DEF n
<1>6a. PortArray[p] \in PortRecords
  BY DEF MInv, Typed
<1>7. /\ c.InUse = PortArray[p].InUse /\ c.Receiver = PortArray[p].Receiver
      /\ c.Backlog = PortArray[p].Backlog /\ c.SecondaryMsgQ = Second(p) /\ c.NumQueued = n
  BY <1>6a DEF PortRecords, Second
<1> HIDE DEF c
<1>8. /\ \A x \in Ports : /\ PortArray'[x].InUse = PortArray[x].InUse
                          /\ PortArray'[x].Receiver = PortArray[x].Receiver
                          /\ PortArray'[x].Backlog = PortArray[x].Backlog
                          /\ Second(x)' = Second(x)
      /\ \A x \in Ports \ {p} : PortArray'[x].NumQueued = PortArray[x].NumQueued
      /\ PortArray'[p].NumQueued = n
  <2>1. /\ \A x \in Ports : /\ PortArray'[x].InUse = PortArray[x].InUse
                            /\ PortArray'[x].Receiver = PortArray[x].Receiver
                            /\ PortArray'[x].Backlog = PortArray[x].Backlog
        /\ \A x \in Ports \ {p} : /\ Second(x)' = Second(x)
                                  /\ PortArray'[x].NumQueued = PortArray[x].NumQueued
        /\ Second(p)' = c.SecondaryMsgQ /\ PortArray'[p].NumQueued = c.NumQueued
    BY <1>6, <1>7, NumberIs DEF MInv
  <2> QED
    BY <1>7, <2>1 DEF Second
<1>9. \A x \in KMsgs : (Ahead(x)' <=> Ahead(x) \/ x = m) /\ (Pending(x)' <=> Pending(x) \/ x = m)
  BY <1>2, <1>5, <1>8 DEF Ahead, Pending
<1>10. \A x \in Ports : Due(x)' = IF x = p /\ ~kmsg[m].emerg THEN Due(x) \cup {m} ELSE Due(x)
  BY <1>9 DEF Due
<1>11. Exact'
  <2>1. m \notin Due(p)
    BY <1>4 DEF Due
  <2> QED
    BY <1>8, <1>10, <2>1, ExactKept DEF Counting, n
<1>12. Homed'
  <2>1. \A r \in AllProcs : \A x \in Range(Inbox(r)') : x = m \/ (x \in KMsgs /\ x \in Range(Inbox(r)) /\ Pending(x))
    <3>1. \A r \in AllProcs : Range(Inbox(r)) \subseteq KMsgs
      BY QueuesTyped DEF MInv
    <3>2. \A r \in AllProcs : \A x \in Range(Inbox(r)) : Pending(x)
      BY DEF Pending, Ahead
    <3> QED
      BY <3>1, <3>2
  <2>2. \A r \in AllProcs : m \in Range(Inbox(r)') => r = PortArray[p].Receiver
    BY <1>4 DEF Pending, Ahead
  <2>3. \A r \in AllProcs : \A x \in Range(Inbox(r)') :
          PortArray'[kmsg[x].RemotePort].InUse /\ PortArray'[kmsg[x].RemotePort].Receiver = r
    BY <1>8, <2>1, <2>2, PendingTo DEF Counting, Homed
  <2> QED
    BY <1>2, <1>8, <2>3 DEF Counting, Homed
<1>13. Moving => Moving'
  BY <1>8, <1>9 DEF Moving, Fed, Roomy
<1> QED
  BY <1>2, <1>11, <1>12, <1>13 DEF CountsKept, Counting

(* QueueMsg has a message arrive, or makes it free, ...                    *)
LEMMA QueueMsgCounted ==
  ASSUME MInv, MInv', Counting, NEW q \in Procs, QueueMsg(q)
  PROVE  CountsKept
<1> DEFINE m == Top(q).kmsg
           p == kmsg[m].RemotePort
           f == [do |-> "WakeForMsg", to |-> PortArray[p].Receiver]
<1>1. stack[q] # <<>> /\ Top(q).do = "QueueMsg" /\ ~At(q, "Taken")
  BY DEF QueueMsg, At
<1>2. m \in KMsgs /\ Holds(stack[q], m) /\ p \in Ports
  BY <1>1, TopHeld DEF Holding
<1>3. f.do # "Taken" /\ (Then(q, <<>>) \/ Then(q, <<f>>))
  BY DEF QueueMsg
<1>4. Bare(stack'[q]) /\ \A r \in Procs \ {q} : stack'[r] = stack[r]
  BY <1>1, <1>3, GoesFew DEF MInv, Counting
<1>5. CASE Free(m) /\ UNCHANGED <<PortArray, ProcArray>>
  <2> HIDE DEF m
  <2>1. \A x \in KMsgs \ {m} : kmsg'[x].RemotePort = kmsg[x].RemotePort /\ kmsg'[x].emerg = kmsg[x].emerg
    BY <1>2, <1>5, MessageStays DEF MInv
  <2>2. \A x \in Ports : Alike(x)
    BY <1>5 DEF Alike, Second
  <2> QED
    BY <1>1, <1>2, <1>4, <1>5, <2>1, <2>2, InHandCounted DEF Inbox
<1>6. CASE PortArray[p].InUse /\ ProcArray' = Queued(m, p) /\ PortArray' = Counted(m, p) /\ UNCHANGED kmsg
  <2>1. \A r \in AllProcs : m \notin Range(Inbox(r))
    BY <1>2, HeldAlone
  <2>2. \A r \in AllProcs : Range(Inbox(r)') = IF r = PortArray[p].Receiver THEN Range(Inbox(r)) \cup {m}
                                              ELSE Range(Inbox(r))
    BY <1>2, <1>6, <2>1, QueuedIs DEF Inbox
  <2>3. p = kmsg[m].RemotePort
    OBVIOUS
  <2> HIDE DEF m, p
  <2> QED
    BY <1>1, <1>2, <1>4, <1>6, <2>2, <2>3, Arrives DEF MInv
<1> QED
  BY <1>5, <1>6 DEF QueueMsg


(* ... and so does Post.                                                   *)
LEMMA PostCounted ==
  ASSUME MInv, MInv', Counting, NEW q \in Procs, Post(q)
  PROVE  CountsKept
<1> DEFINE m == Top(q).kmsg
           p == kmsg[m].RemotePort
           to == PortArray[p].Receiver
           queued == Queued(m, p)
<1>1. /\ stack[q] # <<>> /\ Top(q).do = "Post" /\ ~At(q, "Taken") /\ Return(q)
      /\ p # NullPort /\ PortArray[p].InUse
      /\ ProcArray' = IF ProcArray[to].State = "MSG_WAIT" THEN IPCWakeup(queued, to) ELSE queued
      /\ PortArray' = Counted(m, p) /\ UNCHANGED kmsg
  BY DEF Post, Posting, At
<1>2. m \in KMsgs /\ Holds(stack[q], m)
  BY <1>1, TopHeld DEF Holding
<1>3. p \in Ports
  BY <1>1, <1>2 DEF MInv, Typed, MessageRecords
<1>4. to \in AllProcs
  BY <1>3 DEF MInv, Typed, PortRecords
<1>5. Bare(stack'[q]) /\ \A r \in Procs \ {q} : stack'[r] = stack[r]
  BY <1>1, GoesBack DEF MInv
<1>6. \A r \in AllProcs : m \notin Range(Inbox(r))
  BY <1>2, HeldAlone
<1>7. /\ queued \in [AllProcs -> ProcRecords]
      /\ \A r \in AllProcs : Range(queued[r].MsgsWaiting) =
                               IF r = to THEN Range(Inbox(r)) \cup {m} ELSE Range(Inbox(r))
  BY <1>2, <1>3, <1>6, QueuedIs
<1>8. p = kmsg[m].RemotePort /\ to = PortArray[p].Receiver
  OBVIOUS
<1> HIDE DEF m, p, to
<1>9. \A r \in AllProcs : ProcArray'[r].MsgsWaiting = queued[r].MsgsWaiting
  <2> HIDE DEF queued
  <2> QED
    BY <1>1, <1>4, <1>7 DEF IPCWakeup, ProcRecords, Waiting
<1>10. \A r \in AllProcs : Range(Inbox(r)') = IF r = PortArray[p].Receiver THEN Range(Inbox(r)) \cup {m}
                                             ELSE Range(Inbox(r))
  BY <1>7, <1>8, <1>9 DEF Inbox
<1> QED
  BY <1>1, <1>2, <1>3, <1>5, <1>8, <1>10, Arrives DEF MInv


(* A message that waits in a full port's secondary queue is counted, and   *)
(* one that counts before it is there: the port has room for one.          *)
LEMMA PostLaterCounted ==
  ASSUME MInv, MInv', Counting, NEW q \in Procs, PostLater(q)
  PROVE  CountsKept
<1>0. /\ Top(q).kmsg \in KMsgs /\ Holds(stack[q], Top(q).kmsg)
      /\ kmsg[Top(q).kmsg].RemotePort \in Ports
  <2>1. At(q, "Post") /\ kmsg[Top(q).kmsg].RemotePort # NullPort
    BY DEF PostLater, Posting
  <2>2. Top(q).kmsg \in KMsgs /\ Holds(stack[q], Top(q).kmsg)
    BY <2>1, TopHeld DEF At, Holding
  <2> QED
    BY <2>1, <2>2 DEF MInv, Typed, MessageRecords
<1> SUFFICES ASSUME NEW m \in KMsgs, m = Top(q).kmsg, NEW p \in Ports, p = kmsg[m].RemotePort
             PROVE  CountsKept
  BY <1>0
<1> DEFINE what == IF Top(q).how = "Reply" THEN "SEND_ACK" ELSE "WAKE_ME"
           g == [do |-> "FullWait", kmsg |-> m, port |-> p, how |-> Top(q).how, signalled |-> FALSE]
           s == Append(Second(p), m)
           n == PortArray[p].NumQueued + 1
           c == [PortArray[p] EXCEPT !.SecondaryMsgQ = s, !.NumQueued = n]
<1>1. /\ stack[q] # <<>> /\ Top(q).do = "Post" /\ ~At(q, "Taken")
      /\ p # NullPort /\ PortArray[p].InUse /\ ~Room(m, p)
      /\ PortArray' = [PortArray EXCEPT ![p].SecondaryMsgQ = Append(@, m), ![p].NumQueued = @ + 1]
      /\ kmsg' = [kmsg EXCEPT ![m].WakeupProc = q, ![m].What = what]
      /\ ProcArray' \in {ProcArray, [ProcArray EXCEPT ![q].State = "FULL_WAIT"]}
      /\ Return(q) \/ Then(q, <<g>>)
  BY DEF PostLater, Posting, At
<1>2. Holds(stack[q], m)
  BY <1>0
<1>4. g.do # "Taken"
  OBVIOUS
<1>5. Bare(stack[q]) /\ Bare(stack'[q]) /\ \A r \in Procs \ {q} : stack'[r] = stack[r]
  BY <1>1, <1>4, BareUnder, GoesBack, GoesFew DEF MInv, Counting
<1> HIDE DEF g
<1>6. /\ \A r \in Procs, x \in KMsgs : Takes(r, x)' <=> Takes(r, x)
      /\ \A r \in Procs, x \in KMsgs : Takes(r, x) => Top(r)' = Top(r)
      /\ Aside'
  BY <1>5, TakesStay DEF MInv, Counting
<1>7. ~Pending(m)
  BY <1>1, <1>2, PendingAlone DEF Takes
<1>8. \A r \in AllProcs : Inbox(r)' = Inbox(r)
  <2>1. q \in AllProcs /\ "FULL_WAIT" \in {"NOT_WAITING", "TIMED_OUT"} \cup Waiting
    BY Numbers DEF Waiting
  <2> QED
    BY <1>1, <2>1, StateIs DEF MInv, Inbox
<1>9. \A x \in KMsgs : kmsg'[x].RemotePort = kmsg[x].RemotePort /\ kmsg'[x].emerg = kmsg[x].emerg
  <2> HIDE DEF what
  <2>1. kmsg \in [KMsgs -> MessageRecords]
    BY DEF MInv, Typed
  <2>2. kmsg' = [kmsg EXCEPT ![m].WakeupProc = q, ![m].What = what]
    BY <1>1
  <2> QED
    BY <2>1, <2>2 DEF MessageRecords
<1>10. PortArray[p] \in PortRecords /\ Second(p) \in Seq(KMsgs)
  BY QueuesTyped DEF MInv, Typed
<1>11. s \in Seq(KMsgs) /\ Range(s) = Range(Second(p)) \cup {m}
  BY <1>2, <1>10, RangeAppend
<1>12. PortArray' = [PortArray EXCEPT ![p] = c]
  BY <1>1, <1>10 DEF MInv, Typed, PortRecords, Second
<1> HIDE DEF s, n
<1>13. /\ c.InUse = PortArray[p].InUse /\ c.Receiver = PortArray[p].Receiver
       /\ c.Backlog = PortArray[p].Backlog /\ c.SecondaryMsgQ = s /\ c.NumQueued = n
  BY <1>10 DEF PortRecords
<1> HIDE DEF c
<1>14. /\ \A x \in Ports : /\ PortArray'[x].InUse = PortArray[x].InUse
                           /\ PortArray'[x].Receiver = PortArray[x].Receiver
                           /\ PortArray'[x].Backlog = PortArray[x].Backlog
       /\ \A x \in Ports \ {p} : /\ Second(x)' = Second(x)
                                 /\ PortArray'[x].NumQueued = PortArray[x].NumQueued
       /\ Second(p)' = s /\ PortArray'[p].NumQueued = n
  <2>1. /\ \A x \in Ports : /\ PortArray'[x].InUse = PortArray[x].InUse
                            /\ PortArray'[x].Receiver = PortArray[x].Receiver
                            /\ PortArray'[x].Backlog = PortArray[x].Backlog
        /\ \A x \in Ports \ {p} : /\ Second(x)' = Second(x)
                                  /\ PortArray'[x].NumQueued = PortArray[x].NumQueued
        /\ Second(p)' = c.SecondaryMsgQ /\ PortArray'[p].NumQueued = c.NumQueued
    BY <1>12, <1>13, NumberIs DEF MInv
  <2> QED
    BY <1>13, <2>1
<1>14a. \A y \in Ports : Range(Second(y)') = IF y = p THEN Range(Second(y)) \cup {m} ELSE Range(Second(y))
  <2>1. Range(Second(p)') = Range(Second(p)) \cup {m}
    BY <1>11, <1>14
  <2>2. ASSUME NEW y \in Ports \ {p} PROVE Range(Second(y)') = Range(Second(y))
    BY <1>14
  <2> QED
    BY <2>1, <2>2
<1>15. \A x \in KMsgs : (Ahead(x)' <=> Ahead(x)) /\ (Pending(x)' <=> Pending(x) \/ x = m)
  <2>1. \A x \in KMsgs : Ahead(x)' <=> Ahead(x)
    BY <1>6, <1>8 DEF Ahead
  <2>2. \A x \in KMsgs : (\E y \in Ports : x \in Range(Second(y)')) <=> x = m \/ \E y \in Ports : x \in Range(Second(y))
    BY <1>14a
  <2> QED
    BY <2>1, <2>2 DEF Pending
<1>16. ~kmsg[m].emerg /\ ~(PortArray[p].NumQueued < PortArray[p].Backlog)
  BY <1>1 DEF Room
<1>17. \A x \in Ports : Due(x)' = IF x = p THEN Due(x) \cup {m} ELSE Due(x)
  BY <1>2, <1>9, <1>15, <1>16 DEF Due
<1>18. Exact'
  <2>1. m \notin Due(p)
    BY <1>7 DEF Due
  <2> QED
    BY <1>1, <1>2, <1>14, <1>17, <2>1, ExactKept DEF Counting, n
<1>19. /\ \A r \in AllProcs : Range(Inbox(r)) \subseteq KMsgs
       /\ \A x \in Ports : Range(Second(x)) \subseteq KMsgs
  BY QueuesTyped DEF MInv
<1>20. Homed'
  <2>1. \A r \in AllProcs : \A x \in Range(Inbox(r)) : Pending(x)
    BY DEF Pending, Ahead
  <2>2. \A r \in AllProcs : \A x \in Range(Inbox(r)') :
          PortArray'[kmsg'[x].RemotePort].InUse /\ PortArray'[kmsg'[x].RemotePort].Receiver = r
    BY <1>8, <1>9, <1>14, <1>19, <2>1, PendingTo DEF Counting, Homed
  <2>3. \A y \in Ports : \A x \in Range(Second(y)') : kmsg'[x].RemotePort = y /\ ~kmsg'[x].emerg
    BY <1>2, <1>9, <1>14a, <1>16, <1>19 DEF Counting, Homed
  <2> QED
    BY <1>6, <1>9, <2>2, <2>3 DEF Counting, Homed
<1>21. Moving => Moving'
  <2>1. ASSUME Moving PROVE \E x \in KMsgs : Ahead(x) /\ kmsg[x].RemotePort = p
    <3>1. PortArray[p].NumQueued = Cardinality(Due(p)) /\ PortArray[p].NumQueued \in Nat
          /\ PortArray[p].Backlog >= 1 /\ PortArray[p].Backlog \in Nat
      BY <1>1, <1>10, <2>1 DEF Counting, Exact, Moving, Roomy, PortRecords
    <3>2. Cardinality(Due(p)) # 0
      BY <1>16, <3>1
    <3>3. Due(p) # {}
      BY <3>2, FS_EmptySet
    <3>4. PICK x \in KMsgs : Pending(x) /\ kmsg[x].RemotePort = p
      BY <3>3 DEF Due
    <3>5. CASE Ahead(x)
      BY <3>4, <3>5
    <3>6. CASE \E y \in Ports : x \in Range(Second(y))
      <4>1. x \in Range(Second(p))
        BY <3>4, <3>6 DEF Counting, Homed
      <4>2. Second(p) # <<>>
        BY <1>10, <4>1, RangeEmpty
      <4> QED
        BY <2>1, <4>2 DEF Moving, Fed
    <3> QED
      BY <3>4, <3>5, <3>6 DEF Pending
  <2> QED
    BY <1>9, <1>14, <1>15, <2>1 DEF Moving, Fed, Roomy
<1> QED
  BY <1>6, <1>18, <1>20, <1>21 DEF CountsKept, Counting

(* A message that is no more at its port is counted out.                   *)
LEMMA Leaves ==
  ASSUME Exact, NEW p \in Ports, PortArray[p].InUse, NEW m \in KMsgs, Pending(m),
         kmsg[m].RemotePort = p,
         \A x \in KMsgs : Pending(x)' <=> Pending(x) /\ x # m,
         \A x \in KMsgs \ {m} : kmsg'[x].RemotePort = kmsg[x].RemotePort /\ kmsg'[x].emerg = kmsg[x].emerg,
         \A x \in Ports : PortArray'[x].InUse = PortArray[x].InUse,
         \A x \in Ports \ {p} : PortArray'[x].NumQueued = PortArray[x].NumQueued,
         PortArray'[p].NumQueued = IF kmsg[m].emerg THEN PortArray[p].NumQueued
                                   ELSE PortArray[p].NumQueued - 1
  PROVE  Exact'
<1>1. \A x \in Ports : Due(x)' = Due(x) \ {m}
  BY DEF Due
<1>2. \A x \in Ports : m \in Due(x) <=> x = p /\ ~kmsg[m].emerg
  BY DEF Due
<1>3. ASSUME NEW x \in Ports, m \notin Due(x) PROVE Due(x)' = Due(x)
  BY <1>1, <1>3
<1>4. CASE kmsg[m].emerg
  <2>1. \A x \in Ports : Due(x)' = Due(x)
    BY <1>2, <1>3, <1>4
  <2> QED
    BY <1>4, <2>1, ExactKept
<1>5. CASE ~kmsg[m].emerg
  <2>1. Due(p)' = Due(p) \ {m} /\ m \in Due(p)
    BY <1>1, <1>2, <1>5
  <2>2. \A x \in Ports \ {p} : Due(x)' = Due(x)
    BY <1>2, <1>3
  <2> QED
    BY <1>5, <2>1, <2>2, ExactKept
<1> QED
  BY <1>4, <1>5


(* A send that is taken back takes its message out of the secondary queue, *)
(* if it is there still.                                                   *)
LEMMA WithdrawCounts ==
  ASSUME MInv, MInv', Counting, NEW q \in Procs, Withdraw(q)
  PROVE  CountsKept
<1>0. Top(q).kmsg \in KMsgs /\ Top(q).port \in Ports
  <2>1. stack[q] # <<>> /\ Top(q).do = "FullWait"
    BY DEF Withdraw, At
  <2> QED
    BY <2>1, Popped, FrameIs
<1> SUFFICES ASSUME NEW m \in KMsgs, m = Top(q).kmsg, NEW p \in Ports, p = Top(q).port
             PROVE  CountsKept
  BY <1>0
<1>1. ~At(q, "Taken") /\ Return(q) /\ UNCHANGED ProcArray
  BY DEF Withdraw, At
<1>2. Bare(stack[q]) /\ Bare(stack'[q]) /\ \A r \in Procs \ {q} : stack'[r] = stack[r]
  BY <1>1, BareUnder, GoesBack DEF MInv, Counting
<1>3. CASE UNCHANGED <<PortArray, kmsg>>
  <2>1. \A x \in Ports : Alike(x)
    BY <1>3 DEF Alike, Second
  <2> QED
    BY <1>1, <1>2, <1>3, <2>1, StillKeeps DEF MInv, Inbox
<1>4. CASE /\ InSeq(m, PortArray[p].SecondaryMsgQ) /\ Free(m)
           /\ PortArray' = [PortArray EXCEPT ![p].SecondaryMsgQ = Without(@, m), ![p].NumQueued = @ - 1]
  <2> DEFINE s == Without(Second(p), m)
             n == PortArray[p].NumQueued - 1
             c == [PortArray[p] EXCEPT !.SecondaryMsgQ = s, !.NumQueued = n]
  <2>1. PortArray[p] \in PortRecords /\ Second(p) \in Seq(KMsgs)
    BY QueuesTyped DEF MInv, Typed
  <2>2. PortArray' = [PortArray EXCEPT ![p] = c]
    BY <1>4, <2>1 DEF MInv, Typed, PortRecords, Second
  <2>3. m \in Range(Second(p)) /\ Range(s) = Range(Second(p)) \ {m}
    <3>1. DOMAIN Second(p) = 1 .. Len(Second(p))
      BY <2>1, LenProperties
    <3>2. \E i \in 1 .. Len(Second(p)) : Second(p)[i] = m
      BY <1>4 DEF InSeq, Second
    <3>3. m \in Range(Second(p))
      BY <3>1, <3>2 DEF Range
    <3> QED
      BY <2>1, <3>3, WithoutIs
  <2> HIDE DEF s, n
  <2>4. /\ c.InUse = PortArray[p].InUse /\ c.Receiver = PortArray[p].Receiver
        /\ c.Backlog = PortArray[p].Backlog /\ c.SecondaryMsgQ = s /\ c.NumQueued = n
    BY <2>1 DEF PortRecords
  <2> HIDE DEF c
  <2>5. /\ \A x \in Ports : /\ PortArray'[x].InUse = PortArray[x].InUse
                            /\ PortArray'[x].Receiver = PortArray[x].Receiver
                            /\ PortArray'[x].Backlog = PortArray[x].Backlog
        /\ \A x \in Ports \ {p} : /\ Second(x)' = Second(x)
                                  /\ PortArray'[x].NumQueued = PortArray[x].NumQueued
        /\ Second(p)' = c.SecondaryMsgQ /\ PortArray'[p].NumQueued = c.NumQueued
    BY <2>2, <2>4, NumberIs DEF MInv
  <2>6. PortArray[p].InUse
    BY <2>1, <2>3, RangeEmpty DEF MInv, Closed
  <2>7. /\ \A y \in Procs : ~Holds(stack[y], m)
        /\ \A y \in AllProcs : m \notin Range(Inbox(y))
        /\ \A y \in Ports : m \in Range(Second(y)) => y = p
    <3>1. In(m, "secondary", p) /\ "secondary" \in Kinds /\ p \in Slots
      BY <2>3, Numbers DEF In, Kinds
    <3> QED
      BY <3>1, Alone
  <2>8. \A y \in Procs : ~Takes(y, m)
    BY <2>7, TopHeld DEF Takes, At, Holding
  <2>9. /\ \A r \in Procs, x \in KMsgs : Takes(r, x)' <=> Takes(r, x)
        /\ \A r \in Procs, x \in KMsgs : Takes(r, x) => Top(r)' = Top(r)
        /\ Aside'
    BY <1>2, TakesStay DEF MInv, Counting
  <2>10. \A r \in AllProcs : Inbox(r)' = Inbox(r)
    BY <1>1 DEF Inbox
  <2>11. \A y \in Ports, x \in KMsgs : x \in Range(Second(y)') <=> x \in Range(Second(y)) /\ x # m
    <3>1. \A x \in KMsgs : x \in Range(Second(p)') <=> x \in Range(Second(p)) /\ x # m
      BY <2>3, <2>4, <2>5
    <3>2. ASSUME NEW y \in Ports \ {p}, NEW x \in KMsgs
          PROVE  x \in Range(Second(y)') <=> x \in Range(Second(y)) /\ x # m
      BY <2>5, <2>7
    <3>3. \A y \in Ports \ {p}, x \in KMsgs : x \in Range(Second(y)') <=> x \in Range(Second(y)) /\ x # m
      BY <3>2
    <3> QED
      BY <3>1, <3>3
  <2>12. \A x \in KMsgs : /\ Ahead(x)' <=> Ahead(x)
                          /\ Pending(x)' <=> Pending(x) /\ x # m
    <3>1. \A x \in KMsgs : Ahead(x)' <=> Ahead(x)
      BY <2>9, <2>10 DEF Ahead
    <3>2. ~Ahead(m)
      BY <2>7, <2>8 DEF Ahead
    <3> QED
      BY <2>11, <3>1, <3>2 DEF Pending
  <2>13. Pending(m) /\ ~Ahead(m) /\ kmsg[m].RemotePort = p /\ ~kmsg[m].emerg
    BY <2>3, <2>7, <2>8 DEF Pending, Ahead, Counting, Homed
  <2>14. \A x \in KMsgs \ {m} : kmsg'[x].RemotePort = kmsg[x].RemotePort /\ kmsg'[x].emerg = kmsg[x].emerg
    BY <1>4, MessageStays DEF MInv
  <2>15. Exact'
    BY <2>4, <2>5, <2>6, <2>12, <2>13, <2>14, Leaves DEF Counting, n
  <2>16. Homed'
    <3>1. /\ \A r \in AllProcs : Range(Inbox(r)) \subseteq KMsgs
          /\ \A x \in Ports : Range(Second(x)') \subseteq KMsgs
      <4>1. /\ \A r \in AllProcs : Range(Inbox(r)) \subseteq KMsgs
            /\ \A x \in Ports : Range(Second(x)) \subseteq KMsgs
        BY QueuesTyped DEF MInv
      <4>2. Range(Second(p)') \subseteq KMsgs
        BY <2>3, <2>4, <2>5, <4>1
      <4>3. \A x \in Ports \ {p} : Range(Second(x)') \subseteq KMsgs
        BY <2>5, <4>1
      <4> QED
        BY <4>1, <4>2, <4>3
    <3>2. \A r \in AllProcs : \A x \in Range(Inbox(r)) : x \in KMsgs \ {m} /\ Pending(x)
      BY <2>7, <3>1 DEF Pending, Ahead
    <3>3. \A r \in AllProcs : \A x \in Range(Inbox(r)') :
            PortArray'[kmsg'[x].RemotePort].InUse /\ PortArray'[kmsg'[x].RemotePort].Receiver = r
      BY <2>5, <2>10, <2>14, <3>2, PendingTo DEF Counting, Homed
    <3>4. \A y \in Ports : \A x \in Range(Second(y)') : kmsg'[x].RemotePort = y /\ ~kmsg'[x].emerg
      BY <2>11, <2>14, <3>1 DEF Counting, Homed
    <3>5. \A r \in Procs, x \in KMsgs : Takes(r, x)' => Top(r)'.port = kmsg'[x].RemotePort
      BY <2>8, <2>9, <2>14 DEF Counting, Homed
    <3> QED
      BY <3>3, <3>4, <3>5 DEF Homed
  <2>17. Moving => Moving'
    <3>1. \A y \in Ports : Second(y)' # <<>> => Second(y) # <<>>
      <4>1. Second(p) # <<>>
        BY <2>1, <2>3, RangeEmpty
      <4> QED
        BY <2>5, <4>1
    <3>2. ASSUME Fed, NEW y \in Ports, Second(y)' # <<>>
          PROVE  \E x \in KMsgs : Ahead(x)' /\ kmsg'[x].RemotePort = y
      <4>1. PICK x \in KMsgs : Ahead(x) /\ kmsg[x].RemotePort = y
        BY <3>1, <3>2 DEF Fed
      <4> QED
        BY <2>12, <2>13, <2>14, <4>1
    <3>3. Fed => Fed'
      BY <3>2 DEF Fed
    <3> QED
      BY <2>5, <3>3 DEF Moving, Roomy
  <2> QED
    BY <2>9, <2>15, <2>16, <2>17 DEF CountsKept, Counting
<1> QED
  BY <1>3, <1>4 DEF Withdraw

(* A receive takes a message out of the process's inbox: it counts till    *)
(* the receive has the port's lock.                                        *)
LEMMA TakeCounted ==
  ASSUME MInv, Typed', Counting, NEW q \in Procs, ~At(q, "Taken"), NEW m \in Range(Inbox(q)),
         ProcArray' = [ProcArray EXCEPT ![q].MsgsWaiting = Without(@, m)],
         stack' = [stack EXCEPT ![q] = <<[do |-> "Taken", kmsg |-> m, port |-> kmsg[m].RemotePort]>>],
         UNCHANGED <<PortArray, kmsg>>
  PROVE  CountsKept
<1> DEFINE f == [do |-> "Taken", kmsg |-> m, port |-> kmsg[m].RemotePort]
<1>1. q \in AllProcs /\ Inbox(q) \in Seq(KMsgs) /\ m \in KMsgs
  BY Numbers, QueuesTyped DEF MInv
<1>2. \A r \in AllProcs : Range(Inbox(r)') = IF r = q THEN Range(Inbox(r)) \ {m} ELSE Range(Inbox(r))
  <2>1. Inbox(q)' = Without(Inbox(q), m)
    BY <1>1 DEF Inbox, MInv, Typed, ProcRecords
  <2>2. Range(Inbox(q)') = Range(Inbox(q)) \ {m}
    BY <1>1, <2>1, WithoutIs
  <2>3. ASSUME NEW r \in AllProcs \ {q} PROVE Inbox(r)' = Inbox(r)
    BY DEF Inbox, MInv, Typed
  <2> QED
    BY <1>1, <2>2, <2>3
<1>3. \A r \in AllProcs : m \in Range(Inbox(r)) => r = q
  <2>1. In(m, "primary", q) /\ "primary" \in Kinds /\ q \in Slots
    BY <1>1, Numbers DEF In, Kinds
  <2> QED
    BY <1>1, <2>1, Alone
<1>4. f.do = "Taken" /\ f.kmsg = m /\ f.port = kmsg[m].RemotePort
  OBVIOUS
<1>5. stack \in [Procs -> Seq(Frames)] /\ stack' = [stack EXCEPT ![q] = <<f>>]
  BY DEF MInv, Typed
<1> HIDE DEF f
<1>6. stack'[q] = <<f>> /\ \A r \in Procs \ {q} : stack'[r] = stack[r]
  BY <1>5
<1>7. Head(<<f>>) = f /\ Tail(<<f>>) = <<>> /\ <<f>> # <<>>
  OBVIOUS
<1>8. At(q, "Taken")' /\ Top(q)' = f
  BY <1>4, <1>6, <1>7 DEF At, Top
<1>9. /\ \A r \in Procs \ {q} : (At(r, "Taken")' <=> At(r, "Taken")) /\ Top(r)' = Top(r)
      /\ \A r \in Procs, x \in KMsgs : Takes(r, x)' <=> Takes(r, x) \/ (r = q /\ x = m)
  BY <1>4, <1>6, <1>8 DEF At, Top, Takes
<1>10. Aside'
  <2>1. Tail(stack'[q]) = <<>>
    BY <1>6, <1>7
  <2> QED
    BY <1>6, <1>8, <1>9, <2>1 DEF Counting, Aside
<1>11. \A x \in KMsgs : (Ahead(x)' <=> Ahead(x)) /\ (Pending(x)' <=> Pending(x))
  <2>1. \A x \in KMsgs : Ahead(x)' <=> Ahead(x)
    BY <1>1, <1>2, <1>3, <1>9 DEF Ahead
  <2> QED
    BY <2>1 DEF Pending, Second
<1>12. \A x \in Ports : Due(x)' = Due(x) /\ Second(x)' = Second(x)
  BY <1>11 DEF Due, Second
<1>13. Homed'
  <2>1. \A r \in AllProcs : \A x \in Range(Inbox(r)') : x \in Range(Inbox(r))
    BY <1>2
  <2>2. \A r \in Procs, x \in KMsgs : Takes(r, x)' => Top(r)'.port = kmsg[x].RemotePort
    <3>1. ASSUME NEW r \in Procs \ {q}, NEW x \in KMsgs, Takes(r, x)'
          PROVE  Top(r)'.port = kmsg[x].RemotePort
      BY <1>9, <3>1 DEF Counting, Homed
    <3>2. ASSUME NEW x \in KMsgs, Takes(q, x)'
          PROVE  Top(q)'.port = kmsg[x].RemotePort
      BY <1>4, <1>8, <3>2 DEF Takes
    <3> QED
      BY <3>1, <3>2
  <2> QED
    BY <1>12, <2>1, <2>2 DEF Counting, Homed
<1>14. Exact' /\ (Moving => Moving')
  BY <1>11, <1>12 DEF Counting, Exact, Moving, Fed, Roomy
<1> QED
  BY <1>10, <1>13, <1>14 DEF CountsKept, Counting


(* Look takes one, or none.                                                *)
LEMMA LookCounted ==
  ASSUME MInv, MInv', Counting, NEW q \in Procs, ~At(q, "Taken"), NEW r, Look(q, r),
         UNCHANGED <<PortArray, kmsg>>
  PROVE  CountsKept
<1> DEFINE waiting == ProcArray[q].MsgsWaiting
           found == {i \in 1 .. Len(waiting) : Wanted(waiting[i], r)}
           k == CHOOSE i \in found : \A j \in found : i <= j
<1>1. CASE found # {}
  <2>1. /\ ProcArray' = [ProcArray EXCEPT ![q].MsgsWaiting = Without(@, waiting[k])]
        /\ stack' = [stack EXCEPT ![q] =
             <<[do |-> "Taken", kmsg |-> waiting[k], port |-> kmsg[waiting[k]].RemotePort]>>]
    BY <1>1 DEF Look
  <2>2. waiting \in Seq(KMsgs) /\ waiting = Inbox(q)
    BY QueuesTyped, Numbers DEF MInv, Inbox
  <2>3. Len(waiting) \in Nat /\ DOMAIN waiting = 1 .. Len(waiting)
    BY <2>2, LenProperties
  <2>4. k \in found
    <3>1. found \in SUBSET (0 .. Len(waiting))
      BY <2>3
    <3> HIDE DEF found
    <3>2. \E i \in found : \A j \in found : i <= j
      BY <1>1, <2>3, <3>1, LeastUpto
    <3> QED
      BY <3>2
  <2> HIDE DEF k
  <2>5. PICK m \in Range(Inbox(q)) : m = waiting[k]
    BY <2>2, <2>3, <2>4 DEF Range
  <2> QED
    BY <2>1, <2>5, TakeCounted DEF MInv
<1>2. CASE found = {}
  <2> DEFINE g == [do |-> "MsgWait", for |-> r, how |-> r.how, signalled |-> FALSE]
  <2>1. \/ ProcArray' = [ProcArray EXCEPT ![q].State = "TIMED_OUT"] /\ Return(q)
        \/ ProcArray' = [ProcArray EXCEPT ![q].State = "MSG_WAIT"] /\ stack' = [stack EXCEPT ![q] = <<g>>]
    BY <1>2 DEF Look
  <2>2. Bare(stack'[q]) /\ \A x \in Procs \ {q} : stack'[x] = stack[x]
    <3>1. g.do # "Taken" /\ stack \in [Procs -> Seq(Frames)]
      BY DEF MInv, Typed
    <3> HIDE DEF g
    <3>2. Bare(<<g>>) /\ Bare(<<>>)
      BY <3>1 DEF Bare
    <3>3. stack' = [stack EXCEPT ![q] = <<g>>] \/ stack' = [stack EXCEPT ![q] = <<>>]
      BY <2>1 DEF Return
    <3> QED
      BY <3>1, <3>2, <3>3
  <2>3. \A x \in AllProcs : Inbox(x)' = Inbox(x)
    <3>1. q \in AllProcs /\ {"TIMED_OUT", "MSG_WAIT"} \subseteq {"NOT_WAITING", "TIMED_OUT"} \cup Waiting
      BY Numbers DEF Waiting
    <3>2. PICK s \in {"NOT_WAITING", "TIMED_OUT"} \cup Waiting :
            ProcArray' = [ProcArray EXCEPT ![q].State = s]
      BY <2>1, <3>1
    <3> QED
      BY <3>1, <3>2, StateIs DEF MInv
  <2>4. Bare(stack[q]) /\ \A x \in Ports : Alike(x)
    BY BareUnder DEF Counting, Alike, Second
  <2> QED
    BY <2>2, <2>3, <2>4, StillKeeps DEF MInv
<1> QED
  BY <1>1, <1>2


(* TPReceive looks at once and LookAgain after a wait.                     *)
LEMMA ReceivesCounted ==
  ASSUME MInv, MInv', Counting,
         (\E r \in Receives : TPReceive(r)) \/ \E q \in Procs : LookAgain(q)
  PROVE  CountsKept
<1>1. ASSUME NEW r \in Receives, TPReceive(r) PROVE CountsKept
  <2>1. r.proc \in Procs
    BY MessagesAssumption
  <2>2. ~At(r.proc, "Taken") /\ UNCHANGED <<PortArray, kmsg>>
    BY <1>1 DEF TPReceive, Idle, At
  <2>3. PICK l : Look(r.proc, l)
    BY <1>1 DEF TPReceive
  <2> QED
    BY <2>1, <2>2, <2>3, LookCounted
<1>2. ASSUME NEW q \in Procs, LookAgain(q) PROVE CountsKept
  <2>1. ~At(q, "Taken") /\ Look(q, Top(q).for) /\ UNCHANGED <<PortArray, kmsg>>
    BY <1>2 DEF LookAgain, At
  <2>2. PICK l : Look(q, l)
    BY <2>1
  <2> QED
    BY <2>1, <2>2, LookCounted
<1> QED
  BY <1>1, <1>2

(* When the receive has the port's lock its message is counted out and the *)
(* first of the secondary queue goes to the inbox that the port's messages *)
(* go to: here it matters that the process is the port's receiver still.   *)
LEMMA MoveUpCounted ==
  ASSUME MInv, MInv', Counting, ReceiverStays, NEW q \in Procs, MoveUp(q)
  PROVE  CountsKept
<1>0. /\ At(q, "Taken") /\ stack[q] # <<>>
      /\ Top(q).kmsg \in KMsgs /\ Top(q).port \in Ports /\ Holds(stack[q], Top(q).kmsg)
  <2>1. stack[q] # <<>> /\ At(q, "Taken") /\ Top(q).do = "Taken"
    BY DEF MoveUp, At
  <2> QED
    BY <2>1, Popped, FrameIs, TopHeld DEF Holding
<1> SUFFICES ASSUME NEW m \in KMsgs, m = Top(q).kmsg, NEW p \in Ports, p = Top(q).port
             PROVE  CountsKept
  BY <1>0
<1> DEFINE more == Second(p)
           n == IF kmsg[m].emerg THEN PortArray[p].NumQueued ELSE PortArray[p].NumQueued - 1
           rest == IF more = <<>> THEN more ELSE Tail(more)
           c == [PortArray[p] EXCEPT !.NumQueued = n, !.SecondaryMsgQ = rest]
           U == IF more = <<>> THEN {} ELSE {Head(more)}
           f == Frame(IF kmsg[m].What = "DONT_WAKE" THEN "CopyOut" ELSE "Answer", m)
<1>1. /\ Then(q, <<f>>) /\ UNCHANGED kmsg
      /\ PortArray' = [PortArray EXCEPT ![p].NumQueued = IF kmsg[m].emerg THEN @ ELSE @ - 1,
                                        ![p].SecondaryMsgQ = IF more = <<>> THEN @ ELSE Tail(@)]
      /\ ProcArray' = IF more = <<>> THEN ProcArray
                      ELSE [ProcArray EXCEPT ![q].MsgsWaiting = Append(@, Head(more))]
  BY DEF MoveUp, Second
<1>2. f.do # "Taken"
  BY DEF Frame
<1> HIDE DEF f
<1>3. Bare(stack'[q]) /\ \A r \in Procs \ {q} : stack'[r] = stack[r]
  BY <1>0, <1>1, <1>2, GoesFew DEF MInv, Counting
<1>4. PortArray[p].InUse /\ PortArray[p].Receiver = q /\ Takes(q, m)
  BY <1>0 DEF ReceiverStays, Takes
<1>5. kmsg[m].RemotePort = p
  BY <1>4 DEF Counting, Homed
<1>6. /\ \A r \in Procs : Takes(r, m) => r = q
      /\ \A r \in AllProcs : m \notin Range(Inbox(r))
      /\ \A y \in Ports : m \notin Range(Second(y))
  <2>1. \A r \in Procs : Takes(r, m) => Holds(stack[r], m)
    BY TopHeld DEF Takes, At, Holding
  <2> QED
    BY <1>0, <2>1, HeldAlone
<1>7. /\ \A r \in Procs, x \in KMsgs : Takes(r, x)' <=> Takes(r, x) /\ r # q
      /\ Aside' /\ \A r \in Procs \ {q} : Top(r)' = Top(r)
  <2>1. ~At(q, "Taken")'
    <3>1. stack'[q] \in Seq(Frames)
      BY DEF MInv, Typed
    <3>2. stack'[q] # <<>> => 1 \in 1 .. Len(stack'[q]) /\ Head(stack'[q]) = stack'[q][1]
      BY <3>1, EmptySeq, LenProperties
    <3> QED
      BY <1>3, <3>2 DEF Bare, At, Top
  <2>2. \A r \in Procs \ {q} : (At(r, "Taken")' <=> At(r, "Taken")) /\ Top(r)' = Top(r)
    BY <1>3 DEF At, Top
  <2>3. Aside'
    BY <1>3, <2>1, <2>2 DEF Counting, Aside
  <2> QED
    BY <2>1, <2>2, <2>3 DEF Takes
<1>9. PortArray[p] \in PortRecords /\ more \in Seq(KMsgs) /\ IsInjective(more) /\ q \in AllProcs
      /\ Inbox(q) \in Seq(KMsgs)
  BY Numbers, QueuesTyped DEF MInv, Typed, Once
<1>10. /\ rest \in Seq(KMsgs) /\ Range(rest) = Range(more) \ U /\ U \subseteq Range(more)
  BY <1>9, RangeTail
<1>11. PortArray' = [PortArray EXCEPT ![p] = c]
  BY <1>1, <1>9 DEF MInv, Typed, PortRecords, Second
<1> HIDE DEF rest, n
<1>12. /\ c.InUse = PortArray[p].InUse /\ c.Receiver = PortArray[p].Receiver
       /\ c.Backlog = PortArray[p].Backlog /\ c.SecondaryMsgQ = rest /\ c.NumQueued = n
  BY <1>9 DEF PortRecords
<1> HIDE DEF c
<1>13. /\ \A x \in Ports : /\ PortArray'[x].InUse = PortArray[x].InUse
                           /\ PortArray'[x].Receiver = PortArray[x].Receiver
                           /\ PortArray'[x].Backlog = PortArray[x].Backlog
       /\ \A x \in Ports \ {p} : /\ Second(x)' = Second(x)
                                 /\ PortArray'[x].NumQueued = PortArray[x].NumQueued
       /\ Second(p)' = rest /\ PortArray'[p].NumQueued = n
  <2>1. /\ \A x \in Ports : /\ PortArray'[x].InUse = PortArray[x].InUse
                            /\ PortArray'[x].Receiver = PortArray[x].Receiver
                            /\ PortArray'[x].Backlog = PortArray[x].Backlog
        /\ \A x \in Ports \ {p} : /\ Second(x)' = Second(x)
                                  /\ PortArray'[x].NumQueued = PortArray[x].NumQueued
        /\ Second(p)' = c.SecondaryMsgQ /\ PortArray'[p].NumQueued = c.NumQueued
    BY <1>11, <1>12, NumberIs DEF MInv
  <2> QED
    BY <1>12, <2>1
<1>14. \A r \in AllProcs : Range(Inbox(r)') = IF r = q THEN Range(Inbox(r)) \cup U ELSE Range(Inbox(r))
  <2>1. CASE more = <<>>
    BY <1>1, <2>1 DEF Inbox
  <2>2. CASE more # <<>>
    <3>1. Head(more) \in KMsgs /\ U = {Head(more)}
      BY <1>9, <2>2
    <3>2. Inbox(q)' = Append(Inbox(q), Head(more))
      BY <1>1, <1>9, <2>2 DEF Inbox, MInv, Typed, ProcRecords
    <3>3. Range(Inbox(q)') = Range(Inbox(q)) \cup U
      BY <1>9, <3>1, <3>2, RangeAppend
    <3>4. ASSUME NEW r \in AllProcs \ {q} PROVE Inbox(r)' = Inbox(r)
      BY <1>1 DEF Inbox, MInv, Typed
    <3> QED
      BY <3>3, <3>4
  <2> QED
    BY <2>1, <2>2
<1>15. /\ \A x \in U : x \in KMsgs /\ x # m /\ kmsg[x].RemotePort = p
       /\ \A x \in U : \A y \in Ports : x \in Range(Second(y)) => y = p
  <2>1. \A x \in Range(more) : x \in KMsgs /\ kmsg[x].RemotePort = p
    BY QueuesTyped DEF MInv, Counting, Homed
  <2> QED
    BY <1>6, <1>10, <2>1 DEF Counting, Homed
<1> HIDE DEF U
<1>16. \A x \in KMsgs : \A y \in Ports :
         x \in Range(Second(y)') <=> x \in Range(Second(y)) /\ x \notin U
  <2>1. \A x \in KMsgs : x \in Range(Second(p)') <=> x \in Range(Second(p)) /\ x \notin U
    BY <1>10, <1>13
  <2>2. ASSUME NEW x \in KMsgs, NEW y \in Ports \ {p}
        PROVE  x \in Range(Second(y)') <=> x \in Range(Second(y)) /\ x \notin U
    BY <1>13, <1>15
  <2>3. \A x \in KMsgs : \A y \in Ports \ {p} :
          x \in Range(Second(y)') <=> x \in Range(Second(y)) /\ x \notin U
    BY <2>2
  <2> QED
    BY <2>1, <2>3
<1>17. \A x \in KMsgs : Ahead(x)' <=> (Ahead(x) /\ x # m) \/ x \in U
  <2>1. ASSUME NEW x \in KMsgs
        PROVE  (\E r \in AllProcs : x \in Range(Inbox(r)')) <=> (\E r \in AllProcs : x \in Range(Inbox(r))) \/ x \in U
    BY <1>9, <1>14
  <2>2. ASSUME NEW x \in KMsgs
        PROVE  (\E r \in Procs : Takes(r, x)') <=> (\E r \in Procs : Takes(r, x)) /\ x # m
    <3>1. Takes(q, x) => x = m
      BY <1>4 DEF Takes
    <3> QED
      BY <1>6, <1>7, <3>1
  <2>3. \A r \in AllProcs : m \notin Range(Inbox(r))
    BY <1>6
  <2> QED
    BY <2>1, <2>2, <2>3 DEF Ahead
<1>18. \A x \in KMsgs : Pending(x)' <=> Pending(x) /\ x # m
  <2>1. \A x \in U : Pending(x) /\ x # m
    BY <1>10, <1>15 DEF Pending
  <2>2. m \notin U /\ \A y \in Ports : m \notin Range(Second(y))
    BY <1>6, <1>15
  <2> QED
    BY <1>16, <1>17, <2>1, <2>2 DEF Pending
<1>19. Exact'
  <2>1. Pending(m)
    BY <1>4 DEF Pending, Ahead
  <2>2. \A x \in KMsgs \ {m} : kmsg'[x].RemotePort = kmsg[x].RemotePort /\ kmsg'[x].emerg = kmsg[x].emerg
    BY <1>1
  <2>3. PortArray'[p].NumQueued = IF kmsg[m].emerg THEN PortArray[p].NumQueued
                                  ELSE PortArray[p].NumQueued - 1
    BY <1>13 DEF n
  <2> QED
    BY <1>4, <1>5, <1>13, <1>18, <2>1, <2>2, <2>3, Leaves DEF Counting
<1>20. Homed'
  <2>1. /\ \A r \in AllProcs : Range(Inbox(r)) \subseteq KMsgs
        /\ \A x \in Ports : Range(Second(x)) \subseteq KMsgs
    BY QueuesTyped DEF MInv
  <2>2. ASSUME NEW r \in AllProcs, NEW x \in Range(Inbox(r)')
        PROVE  PortArray'[kmsg[x].RemotePort].InUse /\ PortArray'[kmsg[x].RemotePort].Receiver = r
    <3>1. CASE x \in U
      <4>1. kmsg[x].RemotePort = p /\ x \in KMsgs
        BY <1>15, <3>1
      <4>2. r = q
        <5>1. CASE r # q
          <6>1. x \in Range(Inbox(r))
            BY <1>14, <2>2, <5>1
          <6> QED
            BY <1>4, <4>1, <5>1, <6>1 DEF Counting, Homed
        <5> QED
          BY <5>1
      <4> QED
        BY <1>4, <1>13, <4>1, <4>2
    <3>2. CASE x \notin U
      <4>1. x \in Range(Inbox(r)) /\ x \in KMsgs
        BY <1>14, <2>1, <2>2, <3>2
      <4>2. kmsg[x].RemotePort \in Ports
        BY <4>1, PendingTo DEF Pending, Ahead
      <4> QED
        BY <1>13, <4>1, <4>2 DEF Counting, Homed
    <3> QED
      BY <3>1, <3>2
  <2>3. \A y \in Ports : \A x \in Range(Second(y)') : x \in Range(Second(y))
    <3>1. \A x \in Range(Second(p)') : x \in Range(Second(p))
      BY <1>10, <1>13
    <3>2. \A y \in Ports \ {p} : Second(y)' = Second(y)
      BY <1>13
    <3> QED
      BY <3>1, <3>2
  <2>4. \A y \in Ports : \A x \in Range(Second(y)') : kmsg'[x].RemotePort = y /\ ~kmsg'[x].emerg
    BY <1>1, <2>3 DEF Counting, Homed
  <2>5. \A r \in Procs, x \in KMsgs : Takes(r, x)' => Top(r)'.port = kmsg'[x].RemotePort
    BY <1>1, <1>7 DEF Counting, Homed
  <2>6. \A r \in AllProcs : \A x \in Range(Inbox(r)') :
          PortArray'[kmsg'[x].RemotePort].InUse /\ PortArray'[kmsg'[x].RemotePort].Receiver = r
    BY <1>1, <2>2
  <2> QED
    BY <2>4, <2>5, <2>6 DEF Homed
<1>21. Moving => Moving'
  <2>1. ASSUME Fed, NEW y \in Ports, Second(y)' # <<>>
        PROVE  \E x \in KMsgs : Ahead(x)' /\ kmsg'[x].RemotePort = y
    <3>1. CASE y = p
      <4>1. more # <<>>
        <5>1. CASE more = <<>>
          BY <1>13, <2>1, <3>1, <5>1 DEF rest
        <5> QED
          BY <5>1
      <4>2. Head(more) \in U
        BY <4>1 DEF U
      <4> QED
        BY <1>1, <1>15, <1>17, <3>1, <4>2
    <3>2. CASE y # p
      <4>1. Second(y) # <<>>
        BY <1>13, <2>1, <3>2
      <4>2. PICK x \in KMsgs : Ahead(x) /\ kmsg[x].RemotePort = y
        BY <2>1, <4>1 DEF Fed
      <4> QED
        BY <1>1, <1>5, <1>17, <3>2, <4>2
    <3> QED
      BY <3>1, <3>2
  <2>2. Fed => Fed'
    BY <2>1 DEF Fed
  <2> QED
    BY <1>13, <2>2 DEF Moving, Roomy
<1> QED
  BY <1>7, <1>19, <1>20, <1>21 DEF CountsKept, Counting

(* The port's messages follow its receive right, and are counted still.    *)
LEMMA GiveReceiveRightsCounted ==
  ASSUME MInv, MInv', Counting, NEW q \in Procs, GiveReceiveRights(q)
  PROVE  CountsKept
<1>0. stack[q] # <<>> /\ ~At(q, "Taken") /\ Top(q).port \in Ports
  BY Popped, FrameIs DEF GiveReceiveRights, At
<1> SUFFICES ASSUME NEW p \in Ports, p = Top(q).port PROVE CountsKept
  BY <1>0
<1> DEFINE M == Range(Primary(p))
           to == Top(q).to
           f == [do |-> "IPCWakeup", to |-> to]
<1>1. f.do # "Taken" /\ Then(q, <<f>>) /\ UNCHANGED kmsg
  BY DEF GiveReceiveRights
<1> HIDE DEF f
<1>2. Bare(stack[q]) /\ Bare(stack'[q]) /\ \A r \in Procs \ {q} : stack'[r] = stack[r]
  BY <1>0, <1>1, BareUnder, GoesFew DEF MInv, Counting
<1>3. /\ \A r \in Procs, x \in KMsgs : Takes(r, x)' <=> Takes(r, x)
      /\ \A r \in Procs, x \in KMsgs : Takes(r, x) => Top(r)' = Top(r)
      /\ Aside'
  BY <1>2, TakesStay DEF MInv, Counting
<1>4. /\ \A x \in M : x \in KMsgs
      /\ \A x \in KMsgs : \A r \in AllProcs :
           x \in Range(Inbox(r)') <=> IF x \in M THEN r = to ELSE x \in Range(Inbox(r))
      /\ \A x \in Ports : /\ PortArray'[x].InUse = PortArray[x].InUse /\ Second(x)' = Second(x)
                          /\ PortArray'[x].NumQueued = PortArray[x].NumQueued
                          /\ PortArray'[x].Backlog = PortArray[x].Backlog
                          /\ PortArray'[x].Receiver = IF x = p THEN to ELSE PortArray[x].Receiver
  BY RightsFollowed
<1>5. PortArray[p].Receiver \in AllProcs /\ to \in AllProcs
  <2>1. to \in AllProcs
    BY <1>0, Popped, FrameIs DEF GiveReceiveRights, At
  <2> QED
    BY <2>1 DEF MInv, Typed, PortRecords
<1>6. M = Range(Inbox(PortArray[p].Receiver)) \cap MsgsTo(p)
  BY PrimaryIs DEF MInv
<1> HIDE DEF M, to
<1>7. \A x \in KMsgs : (Ahead(x)' <=> Ahead(x)) /\ (Pending(x)' <=> Pending(x))
  <2>1. ASSUME NEW x \in KMsgs
        PROVE  (\E r \in AllProcs : x \in Range(Inbox(r)')) <=> \E r \in AllProcs : x \in Range(Inbox(r))
    BY <1>4, <1>5, <1>6
  <2>2. \A x \in KMsgs : Ahead(x)' <=> Ahead(x)
    BY <1>3, <2>1 DEF Ahead
  <2> QED
    BY <1>4, <2>2 DEF Pending
<1>8. \A x \in Ports : Due(x)' = Due(x)
  BY <1>1, <1>7 DEF Due
<1>9. Homed'
  <2>1. /\ \A r \in AllProcs : Range(Inbox(r)') \subseteq KMsgs
        /\ \A y \in Ports : Range(Second(y)) \subseteq KMsgs
    <3>1. ASSUME NEW r \in AllProcs PROVE Range(Inbox(r)') \subseteq KMsgs
      <4>1. Inbox(r)' \in Seq(KMsgs)
        BY DEF MInv, Typed, Inbox, ProcRecords
      <4> QED
        BY <4>1, LenProperties, ElementOfSeq DEF Range
    <3> QED
      BY <3>1, QueuesTyped DEF MInv
  <2>2. ASSUME NEW r \in AllProcs, NEW x \in Range(Inbox(r)')
        PROVE  PortArray'[kmsg[x].RemotePort].InUse /\ PortArray'[kmsg[x].RemotePort].Receiver = r
    <3>1. x \in KMsgs
      BY <2>1, <2>2
    <3>2. CASE x \in M
      <4>1. r = to /\ kmsg[x].RemotePort = p /\ x \in Range(Inbox(PortArray[p].Receiver))
        BY <1>4, <1>6, <2>2, <3>1, <3>2 DEF MsgsTo
      <4>2. PortArray[p].InUse
        BY <1>5, <4>1 DEF Counting, Homed
      <4> QED
        BY <1>4, <4>1, <4>2
    <3>3. CASE x \notin M
      <4>1. x \in Range(Inbox(r))
        BY <1>4, <2>2, <3>1, <3>3
      <4>2. /\ PortArray[kmsg[x].RemotePort].InUse /\ PortArray[kmsg[x].RemotePort].Receiver = r
            /\ kmsg[x].RemotePort \in Ports
        BY <3>1, <4>1, PendingTo DEF Pending, Ahead, Counting, Homed
      <4>3. kmsg[x].RemotePort # p
        BY <1>6, <3>1, <3>3, <4>1, <4>2 DEF MsgsTo
      <4> QED
        BY <1>4, <4>2, <4>3
    <3> QED
      BY <3>2, <3>3
  <2>3. \A r \in Procs, x \in KMsgs : Takes(r, x)' => Top(r)'.port = kmsg'[x].RemotePort
    BY <1>1, <1>3 DEF Counting, Homed
  <2>4. \A y \in Ports : \A x \in Range(Second(y)') : kmsg'[x].RemotePort = y /\ ~kmsg'[x].emerg
    BY <1>1, <1>4 DEF Counting, Homed
  <2>5. \A r \in AllProcs : \A x \in Range(Inbox(r)') :
          PortArray'[kmsg'[x].RemotePort].InUse /\ PortArray'[kmsg'[x].RemotePort].Receiver = r
    BY <1>1, <2>2
  <2> QED
    BY <2>3, <2>4, <2>5 DEF Homed
<1>10. Exact'
  BY <1>4, <1>8 DEF Counting, Exact
<1>11. Moving => Moving'
  BY <1>1, <1>4, <1>7 DEF Moving, Fed, Roomy
<1> QED
  BY <1>3, <1>9, <1>10, <1>11 DEF CountsKept, Counting

(* DelPort's frames are none of a message being taken.                     *)
LEMMA ReleaseBare ==
  ASSUME NEW queued \in Seq(KMsgs), NEW p
  PROVE  LET s == Append([i \in 1 .. Len(queued) |-> Frame("Release", queued[i])],
                         [do |-> "Notify", port |-> p, next |-> 1]) IN
         \E S : s \in Seq(S) /\ Bare(s) /\ \A x \in S : x.do \in {"Release", "Notify"}
<1> DEFINE f == [i \in 1 .. Len(queued) |-> Frame("Release", queued[i])]
           g == [do |-> "Notify", port |-> p, next |-> 1]
           L == Len(queued)
           S == {f[i] : i \in 1 .. L} \cup {g}
           s == Append(f, g)
<1>1. L \in Nat
  BY LenProperties
<1>2. /\ g.do = "Notify" /\ g \in S
      /\ \A i \in 1 .. L : f[i].do = "Release" /\ f[i] \in S
  BY DEF Frame
<1>2a. \A x \in S : x.do \in {"Release", "Notify"}
  BY <1>2
<1>3. f \in Seq(S) /\ Len(f) = L
  <2>1. f = [i \in 1 .. L |-> f[i]]
    OBVIOUS
  <2> HIDE DEF f, S
  <2>2. f \in [1 .. L -> S]
    BY <1>2, <2>1
  <2>3. f \in Seq(S)
    BY <1>1, <2>2, IsASeq
  <2> QED
    BY <1>1, <2>2, <2>3, LenProperties
<1> HIDE DEF f, g, S, L
<1>4. /\ s \in Seq(S) /\ Len(s) = L + 1
      /\ \A i \in 1 .. L : s[i] = f[i]
      /\ s[L + 1] = g
  BY <1>2, <1>3, AppendProperties
<1> HIDE DEF s
<1>5. Bare(s)
  <2>1. \A i \in 1 .. Len(s) : i \in 1 .. L \/ i = L + 1
    BY <1>1, <1>4
  <2> QED
    BY <1>2, <1>4, <2>1 DEF Bare
<1> QED
  BY <1>2a, <1>4, <1>5 DEF s, f, g


(* A port that goes out of use takes the messages that it counts with it,  *)
(* and only those: no inbox but its receiver's has any.                    *)
LEMMA DelPortCounted ==
  ASSUME MInv, MInv', Counting, NEW q \in Procs, DelPort(q)
  PROVE  CountsKept
<1>0. stack[q] # <<>> /\ ~At(q, "Taken") /\ Top(q).port \in Ports
  BY Popped, FrameIs DEF DelPort, At
<1> SUFFICES ASSUME NEW p \in Ports, p = Top(q).port PROVE CountsKept
  BY <1>0
<1> DEFINE queued == Primary(p) \o PortArray[p].SecondaryMsgQ
           M == Range(queued)
<1>1. UNCHANGED kmsg
  BY DEF DelPort
<1>2. CASE ~PortArray[p].InUse
  <2>1. Then(q, <<>>) /\ UNCHANGED <<PortArray, ProcArray>>
    BY <1>2 DEF DelPort
  <2>2. Bare(stack[q]) /\ Bare(stack'[q]) /\ \A r \in Procs \ {q} : stack'[r] = stack[r]
    BY <1>0, <2>1, BareUnder, GoesFew DEF MInv, Counting
  <2>3. \A x \in Ports : Alike(x)
    BY <2>1 DEF Alike, Second
  <2> QED
    BY <1>1, <2>1, <2>2, <2>3, StillKeeps DEF MInv, Inbox
<1>3. CASE PortArray[p].InUse
  <2> DEFINE s == Append([i \in 1 .. Len(queued) |-> Frame("Release", queued[i])],
                         [do |-> "Notify", port |-> p, next |-> 1])
  <2>1. Then(q, s)
    BY <1>3 DEF DelPort
  <2>2. /\ queued \in Seq(KMsgs) /\ \A x \in M : x \in KMsgs
        /\ M = (Range(Inbox(PortArray[p].Receiver)) \cap MsgsTo(p)) \cup Range(Second(p))
    BY <1>3, PortCleared
  <2>3. \A x \in Ports : /\ PortArray'[x].InUse <=> x # p /\ PortArray[x].InUse
                         /\ Second(x)' = IF x = p THEN <<>> ELSE Second(x)
                         /\ PortArray'[x].NumQueued = PortArray[x].NumQueued
                         /\ PortArray'[x].Receiver = PortArray[x].Receiver
                         /\ PortArray'[x].Backlog = PortArray[x].Backlog
    BY <1>3, PortCleared
  <2>4. /\ \A x \in KMsgs : \A y \in AllProcs :
             x \in Range(Inbox(y)') <=> x \notin M /\ x \in Range(Inbox(y))
        /\ \A x \in KMsgs : \A y \in Ports :
             x \in Range(Second(y)') <=> x \notin M /\ x \in Range(Second(y))
    BY <1>3, PortCleared
  <2> HIDE DEF queued
  <2>5. PICK S : s \in Seq(S) /\ Bare(s)
    BY <2>2, ReleaseBare
  <2> HIDE DEF s
  <2>6. Bare(stack[q]) /\ Bare(stack'[q]) /\ \A r \in Procs \ {q} : stack'[r] = stack[r]
    BY <1>0, <2>1, <2>5, BareUnder, Goes DEF MInv, Counting
  <2>7. /\ \A r \in Procs, x \in KMsgs : Takes(r, x)' <=> Takes(r, x)
        /\ \A r \in Procs, x \in KMsgs : Takes(r, x) => Top(r)' = Top(r)
        /\ Aside'
    BY <2>6, TakesStay DEF MInv, Counting
  <2> HIDE DEF M
  <2>8. \A x \in M : kmsg[x].RemotePort = p
    BY <2>2 DEF Counting, Homed, MsgsTo
  <2>9. \A x \in KMsgs \ M : (Ahead(x)' <=> Ahead(x)) /\ (Pending(x)' <=> Pending(x))
    BY <2>4, <2>7 DEF Ahead, Pending
  <2>10. \A y \in Ports \ {p} : Due(y)' = Due(y)
    BY <1>1, <2>8, <2>9 DEF Due
  <2>11. Exact'
    BY <2>3, <2>10 DEF Counting, Exact
  <2>12. /\ \A r \in AllProcs : \A x \in Range(Inbox(r)') : x \in KMsgs
         /\ \A y \in Ports : \A x \in Range(Second(y)') : x \in KMsgs
    <3>1. /\ \A r \in AllProcs : Inbox(r)' \in Seq(KMsgs)
          /\ \A y \in Ports : Second(y)' \in Seq(KMsgs)
      BY DEF MInv, Typed, Inbox, Second, ProcRecords, PortRecords
    <3>2. ASSUME NEW z \in Seq(KMsgs) PROVE Range(z) \subseteq KMsgs
      BY LenProperties, ElementOfSeq DEF Range
    <3> QED
      BY <3>1, <3>2
  <2>13. Homed'
    <3>1. ASSUME NEW r \in AllProcs, NEW x \in Range(Inbox(r)')
          PROVE  PortArray'[kmsg'[x].RemotePort].InUse /\ PortArray'[kmsg'[x].RemotePort].Receiver = r
      <4>1. x \in KMsgs /\ x \in Range(Inbox(r)) /\ x \notin M
        BY <2>4, <2>12, <3>1
      <4>2. /\ PortArray[kmsg[x].RemotePort].InUse /\ PortArray[kmsg[x].RemotePort].Receiver = r
            /\ kmsg[x].RemotePort \in Ports
        BY <4>1, PendingTo DEF Pending, Ahead, Counting, Homed
      <4>3. kmsg[x].RemotePort # p
        BY <2>2, <4>1, <4>2 DEF MsgsTo
      <4> QED
        BY <1>1, <2>3, <4>2, <4>3
    <3>2. \A y \in Ports : \A x \in Range(Second(y)') : kmsg'[x].RemotePort = y /\ ~kmsg'[x].emerg
      BY <1>1, <2>4, <2>12 DEF Counting, Homed
    <3>3. \A r \in Procs, x \in KMsgs : Takes(r, x)' => Top(r)'.port = kmsg'[x].RemotePort
      BY <1>1, <2>7 DEF Counting, Homed
    <3> QED
      BY <3>1, <3>2, <3>3 DEF Homed
  <2>14. Moving => Moving'
    <3>1. ASSUME Fed, NEW y \in Ports, Second(y)' # <<>>
          PROVE  \E x \in KMsgs : Ahead(x)' /\ kmsg'[x].RemotePort = y
      <4>1. y # p /\ Second(y) # <<>>
        BY <2>3, <3>1
      <4>2. PICK x \in KMsgs : Ahead(x) /\ kmsg[x].RemotePort = y
        BY <3>1, <4>1 DEF Fed
      <4> QED
        BY <1>1, <2>8, <2>9, <4>1, <4>2
    <3>2. Fed => Fed'
      BY <3>1 DEF Fed
    <3> QED
      BY <2>3, <3>2 DEF Moving, Roomy
  <2> QED
    BY <2>7, <2>11, <2>13, <2>14 DEF CountsKept, Counting
<1> QED
  BY <1>2, <1>3


(* A port that is made anew has no messages: none can be in an inbox or    *)
(* being taken, its receiver having it still.                              *)
LEMMA OpenedCounted ==
  ASSUME MInv, Counting, ReceiverStays, NEW p \in Ports, NEW q \in Procs, ~PortArray[p].InUse,
         PortArray' = [PortArray EXCEPT ![p] = NewPort(q, ActualDefaultBacklog)],
         \A r \in AllProcs : Inbox(r)' = Inbox(r), UNCHANGED <<kmsg, stack>>
  PROVE  CountsKept
<1> DEFINE n == NewPort(q, ActualDefaultBacklog)
<1>1. n.SecondaryMsgQ = <<>> /\ n.NumQueued = 0 /\ n.Backlog = 1 /\ n.InUse = TRUE
  BY DEF NewPort, ActualDefaultBacklog
<1> HIDE DEF n
<1>2. PortArray'[p] = n /\ \A x \in Ports \ {p} : PortArray'[x] = PortArray[x]
  BY DEF MInv, Typed, n
<1>3. \A x \in Ports : Second(x)' = Second(x)
  BY <1>1, <1>2 DEF MInv, Closed, Second
<1>4. \A r \in Procs, x \in KMsgs : (Takes(r, x)' <=> Takes(r, x)) /\ Top(r)' = Top(r)
  BY DEF Takes, At, Top
<1>5. \A x \in KMsgs : (Ahead(x)' <=> Ahead(x)) /\ (Pending(x)' <=> Pending(x))
  BY <1>3, <1>4 DEF Ahead, Pending
<1>6. \A x \in KMsgs : Pending(x) => kmsg[x].RemotePort # p
  <2>1. ASSUME NEW x \in KMsgs, kmsg[x].RemotePort = p, NEW r \in AllProcs, x \in Range(Inbox(r))
        PROVE  FALSE
    BY <2>1 DEF Counting, Homed
  <2>2. ASSUME NEW x \in KMsgs, kmsg[x].RemotePort = p, NEW r \in Procs, Takes(r, x)
        PROVE  FALSE
    BY <2>2 DEF Counting, Homed, Takes, ReceiverStays
  <2>3. ASSUME NEW x \in KMsgs, kmsg[x].RemotePort = p, NEW y \in Ports, x \in Range(Second(y))
        PROVE  FALSE
    <3>1. y = p /\ Second(y) = <<>>
      BY <2>3 DEF Counting, Homed, MInv, Closed
    <3>2. Range(<<>>) = {}
      BY DEF Range
    <3> QED
      BY <2>3, <3>1, <3>2
  <2> QED
    BY <2>1, <2>2, <2>3 DEF Pending, Ahead
<1>7. /\ \A x \in Ports : Due(x)' = Due(x)
      /\ Due(p) = {}
  BY <1>5, <1>6 DEF Due
<1>8. Exact'
  <2>1. Cardinality({}) = 0
    BY FS_EmptySet
  <2>2. /\ PortArray'[p].NumQueued \in Nat
        /\ PortArray'[p].NumQueued = Cardinality(Due(p)')
    <3>1. PortArray'[p].NumQueued = 0
      BY <1>1, <1>2
    <3>2. Due(p)' = {}
      BY <1>7
    <3> QED
      BY <2>1, <3>1, <3>2
  <2>3. \A x \in Ports \ {p} : /\ PortArray'[x].NumQueued \in Nat
                               /\ PortArray'[x].InUse => PortArray'[x].NumQueued = Cardinality(Due(x)')
    BY <1>2, <1>7 DEF Counting, Exact
  <2> QED
    BY <2>2, <2>3 DEF Exact
<1>9. Homed'
  <2>1. ASSUME NEW r \in AllProcs, NEW x \in Range(Inbox(r))
        PROVE  PortArray'[kmsg[x].RemotePort].InUse /\ PortArray'[kmsg[x].RemotePort].Receiver = r
    <3>1. x \in KMsgs
      BY QueuesTyped DEF MInv
    <3>2. kmsg[x].RemotePort \in Ports /\ kmsg[x].RemotePort # p
      BY <1>6, <3>1, PendingTo DEF Pending, Ahead
    <3> QED
      BY <1>2, <3>2 DEF Counting, Homed
  <2> QED
    BY <1>3, <1>4, <2>1 DEF Counting, Homed
<1>10. Aside'
  BY DEF Counting, Aside, At, Top, Bare
<1>11. Moving => Moving'
  BY <1>1, <1>2, <1>3, <1>5 DEF Moving, Fed, Roomy
<1> QED
  BY <1>8, <1>9, <1>10, <1>11 DEF CountsKept, Counting

(* A port on the free list is not in use.                                  *)
LEMMA NextPort ==
  ASSUME MInv, FreePortQ # <<>>
  PROVE  Head(FreePortQ) \in Ports /\ ~PortArray[Head(FreePortQ)].InUse
<1> DEFINE p == Head(FreePortQ)
<1>1. p \in Range(FreePortQ)
  BY RangeTail DEF MInv, Typed, Once
<1>2. p \in Ports
  BY <1>1, QueuesTyped DEF MInv
<1>3. PortIn(p, "free", 0) /\ "free" \in PortKinds /\ 0 \in Slots
  BY <1>1, Numbers DEF PortIn, PortKinds
<1> HIDE DEF p
<1>4. ~PortArray[p].InUse
  BY <1>2, <1>3, PortAlone
<1> QED
  BY <1>2, <1>4 DEF p


(* A process that is forked is nowhere, and gets a port if there is one.   *)
LEMMA ActivateIs ==
  ASSUME NEW parent, Activate(parent, ActualDefaultBacklog)
  PROVE  /\ FreeProcQ # <<>> /\ stack[parent] = <<>> /\ UNCHANGED <<kmsg, FreeKMsgQ, stack>>
         /\ \/ UNCHANGED PortArray
            \/ /\ FreePortQ # <<>>
               /\ PortArray' = [PortArray EXCEPT ![Head(FreePortQ)] =
                                  NewPort(Head(FreeProcQ), ActualDefaultBacklog)]
         /\ \E n : /\ n.MsgsWaiting = <<>> /\ n.State = "NOT_WAITING" /\ n.Active
                   /\ ProcArray' = [ProcArray EXCEPT ![Head(FreeProcQ)] = n]
<1> DEFINE p == IF FreePortQ = <<>> THEN NullPort ELSE Head(FreePortQ)
           n == [MsgsWaiting |-> <<>>, Active |-> TRUE, State |-> "NOT_WAITING", DataPort |-> p]
<1>1. /\ FreeProcQ # <<>> /\ stack[parent] = <<>> /\ UNCHANGED <<kmsg, FreeKMsgQ, stack>>
      /\ ProcArray' = [ProcArray EXCEPT ![Head(FreeProcQ)] = n]
      /\ \/ /\ p \in Ports
            /\ PortArray' = [PortArray EXCEPT ![p] = NewPort(Head(FreeProcQ), ActualDefaultBacklog)]
         \/ UNCHANGED PortArray
  BY DEF Activate
<1>2. n.MsgsWaiting = <<>> /\ n.State = "NOT_WAITING" /\ n.Active
  OBVIOUS
<1>3. p \in Ports => FreePortQ # <<>> /\ p = Head(FreePortQ)
  BY Numbers
<1> HIDE DEF n, p
<1> QED
  BY <1>1, <1>2, <1>3


(* A process gets a new port with AllocatePort, and when it is forked:     *)
(* then its record is used again, with no messages in it.                  *)
LEMMA OpensCounted ==
  ASSUME MInv, MInv', Counting, ReceiverStays, Reused,
         \/ \E q \in Allocators : AllocatePort(q, ActualDefaultBacklog)
         \/ \E q \in Forkers : Activate(q, ActualDefaultBacklog)
  PROVE  CountsKept
<1>1. ASSUME FreePortQ # <<>> PROVE Head(FreePortQ) \in Ports /\ ~PortArray[Head(FreePortQ)].InUse
  BY <1>1, NextPort
<1>2. ASSUME NEW q \in Allocators, AllocatePort(q, ActualDefaultBacklog) PROVE CountsKept
  <2>1. q \in Procs
    BY MessagesAssumption
  <2>2. /\ FreePortQ # <<>>
        /\ PortArray' = [PortArray EXCEPT ![Head(FreePortQ)] = NewPort(q, ActualDefaultBacklog)]
        /\ UNCHANGED <<ProcArray, kmsg, stack>>
    BY <1>2 DEF AllocatePort
  <2>3. PICK p \in Ports : p = Head(FreePortQ) /\ ~PortArray[p].InUse
    BY <1>1, <2>2
  <2> QED
    BY <2>1, <2>2, <2>3, OpenedCounted DEF Inbox
<1>3. ASSUME NEW parent \in Forkers, Activate(parent, ActualDefaultBacklog) PROVE CountsKept
  <2>1. PICK n : /\ FreeProcQ # <<>> /\ n.MsgsWaiting = <<>>
                 /\ ProcArray' = [ProcArray EXCEPT ![Head(FreeProcQ)] = n]
                 /\ UNCHANGED <<kmsg, stack>>
                 /\ \/ UNCHANGED PortArray
                    \/ /\ FreePortQ # <<>>
                       /\ PortArray' = [PortArray EXCEPT ![Head(FreePortQ)] =
                                          NewPort(Head(FreeProcQ), ActualDefaultBacklog)]
    BY <1>3, ActivateIs
  <2>2. FreeProcQ \in Seq(Procs)
    BY DEF MInv, Typed
  <2>3. PICK q \in Procs : q = Head(FreeProcQ) /\ q \in Members(FreeProcQ)
    <3>1. Len(FreeProcQ) \in Nat \ {0} /\ Head(FreeProcQ) = FreeProcQ[1] /\ Head(FreeProcQ) \in Procs
      BY <2>1, <2>2, EmptySeq, LenProperties, HeadTailProperties
    <3> QED
      BY <3>1 DEF Members
  <2>6. \A r \in AllProcs : Inbox(r)' = Inbox(r)
    <3>1. Inbox(q) = <<>>
      BY <2>3 DEF Reused
    <3>2. q \in AllProcs /\ ProcArray \in [AllProcs -> ProcRecords] /\ ProcArray' = [ProcArray EXCEPT ![q] = n]
      BY <2>1, <2>3, Numbers DEF MInv, Typed
    <3>3. ProcArray'[q] = n /\ \A r \in AllProcs \ {q} : ProcArray'[r] = ProcArray[r]
      BY <3>2
    <3> QED
      BY <2>1, <3>1, <3>3 DEF Inbox
  <2>7. CASE UNCHANGED PortArray
    <3>1. \A p \in Ports : Alike(p)
      BY <2>7 DEF Alike, Second
    <3>2. parent \in Procs /\ stack[parent] = <<>>
      BY <1>3, MessagesAssumption DEF Activate
    <3>3. Bare(stack[parent]) /\ Bare(stack'[parent])
      BY <2>1, <3>2 DEF Bare
    <3> QED
      BY <2>1, <2>6, <3>1, <3>2, <3>3, StillKeeps DEF MInv
  <2>8. CASE /\ FreePortQ # <<>>
             /\ PortArray' = [PortArray EXCEPT ![Head(FreePortQ)] =
                                NewPort(Head(FreeProcQ), ActualDefaultBacklog)]
    <3>1. PICK p \in Ports : p = Head(FreePortQ) /\ ~PortArray[p].InUse
      BY <1>1, <2>8
    <3> QED
      BY <2>1, <2>3, <2>6, <2>8, <3>1, OpenedCounted
  <2> QED
    BY <2>1, <2>7, <2>8
<1> QED
  BY <1>2, <1>3


-----------------------------------------------------------------------------
(* All steps.                                                              *)

(* The system calls, ...                                                   *)
LEMMA AllCallsCounted ==
  ASSUME MInv, MInv', Counting, ReceiverStays, Reused, Calls
  PROVE  CountsKept
<1>1. CASE \E s \in Sends : TPSend(s)
  BY <1>1, TPSendCounted
<1>2. CASE \E r \in Receives : TPReceive(r)
  BY <1>2, ReceivesCounted
<1>3. CASE \/ \E d \in Deallocates : DeallocatePort(d.proc, d.port)
           \/ \E q \in Mortals : Suicide(q)
           \/ \E l \in Locks : TPLockPorts(l)
           \/ \E b \in Backlogs : SetBackLog(b)
  BY <1>3, CallsCounted
<1>4. CASE \/ \E q \in Allocators : AllocatePort(q, ActualDefaultBacklog)
           \/ \E q \in Forkers : Activate(q, ActualDefaultBacklog)
  BY <1>4, OpensCounted
<1> QED
  BY <1>1, <1>2, <1>3, <1>4 DEF Calls


(* ... the pieces of them, ...                                             *)
LEMMA PiecesCounted ==
  ASSUME MInv, MInv', Counting, ReceiverStays, NEW q \in Procs, Proceed(q)
  PROVE  CountsKept
<1>1. CASE GiveOwnership(q) \/ WakeReceiver(q) \/ WakeForMsg(q)
  BY <1>1, GivesCounted
<1>2. CASE GiveReceiveRights(q)
  BY <1>2, GiveReceiveRightsCounted
<1>3. CASE GTran(q) \/ RemPort(q) \/ Scan(q)
  BY <1>3, PlainCounted
<1>4. CASE SendKernelMsg(q) \/ PackMsg(q)
  BY <1>4, SendKernelMsgCounted
<1>5. CASE QueueMsg(q)
  BY <1>5, QueueMsgCounted
<1>6. CASE DelPort(q)
  BY <1>6, DelPortCounted
<1>7. CASE Release(q) \/ Answer(q) \/ CopyOut(q)
  BY <1>7, EndsCounted
<1>8. CASE Notify(q)
  BY <1>8, NotifyCounted
<1>9. CASE LTran(q) \/ PostNowhere(q) \/ PostRefused(q)
  BY <1>9, FailsCounted
<1>10. CASE Post(q)
  BY <1>10, PostCounted
<1>11. CASE PostLater(q)
  BY <1>11, PostLaterCounted
<1>12. CASE Sent(q) \/ GiveUp(q)
  BY <1>12, WaitsCounted
<1>13. CASE Withdraw(q)
  BY <1>13, WithdrawCounts
<1>14. CASE LookAgain(q)
  BY <1>14, ReceivesCounted
<1>15. CASE MoveUp(q)
  BY <1>15, MoveUpCounted
<1> QED
  BY <1>1, <1>2, <1>3, <1>4, <1>5, <1>6, <1>7, <1>8, <1>9, <1>10, <1>11, <1>12, <1>13, <1>14, <1>15
     DEF Proceed, PortSteps


(* ... and all steps.                                                      *)
LEMMA StepCounted ==
  ASSUME MInv, Counting, ReceiverStays, Reused, [Next]_ipc
  PROVE  MInv' /\ CountsKept
<1>1. MInv'
  BY StepKeeps
<1>2. CASE Calls
  BY <1>1, <1>2, AllCallsCounted
<1>3. CASE \E q \in Procs : Proceed(q)
  BY <1>1, <1>3, PiecesCounted
<1>4. CASE \E q \in Procs : asleepexpire(q) \/ Interrupt(q)
  BY <1>1, <1>4, WaitsCounted
<1>5. CASE UNCHANGED ipc
  <2>1. UNCHANGED <<PortArray, ProcArray, kmsg, stack>>
    BY <1>5 DEF ipc
  <2>2. /\ \A q \in AllProcs : Inbox(q)' = Inbox(q)
        /\ \A p \in Ports : Second(p)' = Second(p)
        /\ \A q \in Procs : Top(q)' = Top(q) /\ At(q, "Taken")' = At(q, "Taken")
    BY <2>1 DEF At, Top, Inbox, Second
  <2>3. \A q \in Procs, m \in KMsgs : Takes(q, m)' <=> Takes(q, m)
    BY <2>2 DEF Takes
  <2>4. \A m \in KMsgs : Ahead(m)' <=> Ahead(m)
    BY <2>2, <2>3 DEF Ahead
  <2>5. \A m \in KMsgs : Pending(m)' <=> Pending(m)
    BY <2>2, <2>4 DEF Pending
  <2>6. \A p \in Ports : Due(p)' = Due(p)
    <3> SUFFICES ASSUME NEW p \in Ports
                 PROVE  {m \in KMsgs : Pending(m)' /\ kmsg'[m].RemotePort = p /\ ~kmsg'[m].emerg}
                        = {m \in KMsgs : Pending(m) /\ kmsg[m].RemotePort = p /\ ~kmsg[m].emerg}
      BY DEF Due
    <3>1. kmsg' = kmsg
      BY <2>1
    <3> QED
      BY <2>5, <3>1
  <2>7. Exact'
    BY <2>1, <2>6 DEF Counting, Exact
  <2>8. Homed'
    BY <2>1, <2>2, <2>3 DEF Counting, Homed
  <2>9. Aside'
    BY <2>1, <2>2 DEF Counting, Aside, Bare
  <2>10. Moving => Moving'
    BY <2>1, <2>2, <2>4 DEF Moving, Fed, Roomy
  <2> QED
    BY <1>1, <2>7, <2>8, <2>9, <2>10 DEF CountsKept, Counting
<1> QED
  BY <1>1, <1>2, <1>3, <1>4, <1>5 DEF Next


(* Nothing is queued to begin with.                                        *)
LEMMA BegunCounted ==
  ASSUME Init
  PROVE  Counting /\ (Positive => Moving)
<1>1. /\ \A q \in AllProcs : Inbox(q) = <<>>
      /\ \A p \in Ports : Second(p) = <<>> /\ PortArray[p].NumQueued = 0
      /\ \A q \in Procs : stack[q] = <<>>
  BY MessagesAssumption DEF Init, Inbox, Second
<1>2. Range(<<>>) = {} /\ Bare(<<>>)
  BY DEF Range, Bare
<1>3. \A q \in Procs : ~At(q, "Taken") /\ Bare(stack[q])
  BY <1>1, <1>2 DEF At
<1>4. \A m \in KMsgs : ~Pending(m)
  BY <1>1, <1>2, <1>3 DEF Pending, Ahead, Takes
<1>5. \A p \in Ports : Due(p) = {}
  BY <1>4 DEF Due
<1>6. Exact
  <2>1. Cardinality({}) = 0
    BY FS_EmptySet
  <2>2. \A p \in Ports : Cardinality(Due(p)) = 0
    BY <1>5, <2>1
  <2> QED
    BY <1>1, <2>2 DEF Exact
<1>7. Homed /\ Aside
  BY <1>1, <1>2, <1>3 DEF Homed, Aside, Takes
<1>8. Positive => Moving
  BY <1>1 DEF Init, Positive, Moving, Fed, Roomy
<1> QED
  BY <1>6, <1>7, <1>8 DEF Counting


-----------------------------------------------------------------------------
(* What Counting says of the properties of Messages.                       *)

(* The elements of a sequence, as Messages says it.                        *)
LEMMA MembersAre == ASSUME NEW S, NEW s \in Seq(S) PROVE Members(s) = Range(s) /\ Members(s) \subseteq S
<1>1. DOMAIN s = 1 .. Len(s) /\ \A i \in 1 .. Len(s) : s[i] \in S
  BY LenProperties, ElementOfSeq
<1> QED
  BY <1>1 DEF Members, Range


(* A port in use counts what is in its receiver's inbox for it, in its     *)
(* secondary queue, and taken from it.                                     *)
LEMMA DueIs ==
  ASSUME MInv, Homed, NEW p \in Ports, PortArray[p].InUse
  PROVE  Due(p) = {m \in Members(Primary(p)) \cup Members(PortArray[p].SecondaryMsgQ) \cup TakenFrom(p) :
                     ~kmsg[m].emerg}
<1> DEFINE to == PortArray[p].Receiver
           here == Members(Primary(p)) \cup Members(PortArray[p].SecondaryMsgQ) \cup TakenFrom(p)
<1>1. to \in AllProcs
  BY DEF MInv, Typed, PortRecords
<1>2. Members(Primary(p)) = Range(Inbox(to)) \cap MsgsTo(p)
  BY PrimaryIs, MembersAre DEF MInv
<1>3. Members(PortArray[p].SecondaryMsgQ) = Range(Second(p)) /\ Range(Second(p)) \subseteq KMsgs
  BY QueuesTyped, MembersAre DEF MInv, Second
<1>4. TakenFrom(p) = {m \in KMsgs : \E q \in Procs : Takes(q, m) /\ kmsg[m].RemotePort = p}
  BY DEF TakenFrom, Takes, Homed
<1>5. ASSUME NEW m \in here PROVE m \in KMsgs /\ Pending(m) /\ kmsg[m].RemotePort = p
  <2>1. CASE m \in Range(Inbox(to)) \cap MsgsTo(p)
    BY <1>1, <2>1 DEF Pending, Ahead, MsgsTo
  <2>2. CASE m \in Range(Second(p))
    BY <1>3, <2>2 DEF Pending, Homed
  <2>3. CASE m \in TakenFrom(p)
    BY <1>4, <2>3 DEF Pending, Ahead
  <2> QED
    BY <1>2, <1>3, <1>5, <2>1, <2>2, <2>3
<1>6. ASSUME NEW m \in KMsgs, Pending(m), kmsg[m].RemotePort = p PROVE m \in here
  <2>1. CASE \E q \in AllProcs : m \in Range(Inbox(q))
    BY <1>2, <1>6, <2>1 DEF Homed, MsgsTo
  <2>2. CASE \E q \in Procs : Takes(q, m)
    BY <1>4, <1>6, <2>2
  <2>3. CASE \E y \in Ports : m \in Range(Second(y))
    BY <1>3, <1>6, <2>3 DEF Homed
  <2> QED
    BY <1>6, <2>1, <2>2, <2>3 DEF Pending, Ahead
<1> HIDE DEF here
<1>7. Due(p) = {m \in here : ~kmsg[m].emerg}
  BY <1>5, <1>6 DEF Due
<1> QED
  BY <1>7 DEF here


(* So NumQueued is exact; and everything is of its type.                   *)
LEMMA CountsAre ==
  ASSUME MInv, Counting
  PROVE  TypeOK /\ NumQueuedExact
<1>1. NumQueuedExact
  BY DueIs DEF Counting, Exact, NumQueuedExact
<1>2. /\ \A p \in Ports : Members(PortArray[p].SecondaryMsgQ) \subseteq KMsgs
      /\ \A q \in AllProcs : Members(ProcArray[q].MsgsWaiting) \subseteq KMsgs
      /\ \A q \in Procs : Members(stack[q]) \subseteq Frames
  <2>1. /\ \A p \in Ports : PortArray[p].SecondaryMsgQ \in Seq(KMsgs)
        /\ \A q \in AllProcs : ProcArray[q].MsgsWaiting \in Seq(KMsgs)
        /\ \A q \in Procs : stack[q] \in Seq(Frames)
    BY DEF MInv, Typed, PortRecords, ProcRecords
  <2> QED
    BY <2>1, MembersAre
<1>3. \A p \in Ports :
        /\ PortArray[p].Receiver \in AllProcs /\ PortArray[p].Owner \in AllProcs
        /\ PortArray[p].Senders \subseteq Procs /\ PortArray[p].Backlog \in Nat
        /\ PortArray[p].NumQueued \in Nat
  BY DEF MInv, Typed, PortRecords, Counting, Exact
<1>4. \A q \in AllProcs :
        /\ ProcArray[q].State \in {"NOT_WAITING", "TIMED_OUT"} \cup Waiting
        /\ ProcArray[q].DataPort \in Ports \cup {NullPort}
  BY DEF MInv, Typed, ProcRecords
<1>5. \A m \in KMsgs : kmsg[m].ID \in IDs /\ kmsg[m].type \in Rights
  BY DEF MInv, Typed, MessageRecords
<1>6. TypeOK
  BY <1>2, <1>3, <1>4, <1>5 DEF TypeOK, MInv, Typed
<1> QED
  BY <1>1, <1>6


(* And a message that waits in a secondary queue has one before it.        *)
LEMMA FedMovesUp ==
  ASSUME MInv, Homed, Fed
  PROVE  SecondaryMovesUp
<1>1. ASSUME NEW p \in Ports, PortArray[p].InUse, Second(p) # <<>>, Primary(p) = <<>>
      PROVE  TakenFrom(p) # {}
  <2>1. PICK m \in KMsgs : Ahead(m) /\ kmsg[m].RemotePort = p
    BY <1>1 DEF Fed
  <2>2. Range(Inbox(PortArray[p].Receiver)) \cap MsgsTo(p) = {}
    BY <1>1, PrimaryIs, RangeEmpty DEF MInv
  <2>3. PICK q \in Procs : Takes(q, m)
    BY <2>1, <2>2 DEF Ahead, Homed, MsgsTo
  <2>4. At(q, "Taken") /\ Top(q).kmsg = m /\ Top(q).port = p
    BY <2>1, <2>3 DEF Takes, Homed
  <2> QED
    BY <2>4 DEF TakenFrom
<1> QED
  BY <1>1 DEF SecondaryMovesUp, Second


(* NumQueued is exact at every port in use, whatever is sent, received,    *)
(* withdrawn, moved and deleted, as long as a receive has its port still   *)
(* when it comes to have its lock; and it is never negative.               *)
THEOREM CountsExact == Spec /\ []Reused /\ []ReceiverStays => [](TypeOK /\ NumQueuedExact)
<1>1. Init => MInv /\ Counting
  BY Begun, BegunCounted
<1>2. MInv /\ Counting /\ ReceiverStays /\ Reused /\ [Next]_ipc => MInv' /\ Counting'
  BY StepCounted DEF CountsKept
<1>3. MInv /\ Counting => TypeOK /\ NumQueuedExact
  BY CountsAre
<1> QED
  BY <1>1, <1>2, <1>3, PTL DEF Spec


(* The records, queues and counts stay of their types; in particular no    *)
(* NumQueued goes below zero, which needs all of CountsExact.              *)
COROLLARY MessagesTyped == Spec /\ []Reused /\ []ReceiverStays => []TypeOK
<1>1. TypeOK /\ NumQueuedExact => TypeOK
  OBVIOUS
<1> QED
  BY <1>1, CountsExact, PTL


(* A message in the secondary queue of a port has one before it that will  *)
(* be received and move it up, if every port has room for one message.     *)
(* Without that a sender may wait at an empty port for ever, which         *)
(* SetBackLog allows.                                                      *)
THEOREM SecondariesMoveUp ==
  ASSUME Positive
  PROVE  Spec /\ []Reused /\ []ReceiverStays => []SecondaryMovesUp
<1>1. Init => MInv /\ Counting /\ Moving
  BY Begun, BegunCounted
<1>2. MInv /\ Counting /\ Moving /\ ReceiverStays /\ Reused /\ [Next]_ipc
        => MInv' /\ Counting' /\ Moving'
  BY StepCounted DEF CountsKept
<1>3. MInv /\ Counting /\ Moving => SecondaryMovesUp
  BY FedMovesUp DEF Counting, Moving
<1> QED
  BY <1>1, <1>2, <1>3, PTL DEF Spec

-----------------------------------------------------------------------------
(* Sleepers are remembered.                                                *)

(* A send that is given up takes no other sender's message back. TPSend    *)
(* looks for the structure it queued (accent/accent.c:575), which may have *)
(* been received, made free and queued for another sender in the meantime. *)
OwnWithdrawn ==
  \A q \in Procs : LET f == Top(q) IN
    /\ At(q, "FullWait") /\ Ended(q)
    /\ InSeq(f.kmsg, PortArray[f.port].SecondaryMsgQ) /\ kmsg[f.kmsg].What = "WAKE_ME"
    => kmsg[f.kmsg].WakeupProc = q

Waits == {"FullWait", "MsgWait"}
Unposted == {"LTran", "Post", "QueueMsg"}

(* r is about to be told that a message has come for it                    *)
Wakes(q, r) == (At(q, "WakeForMsg") \/ At(q, "IPCWakeup")) /\ Top(q).to = r

(* the message a sender sleeps for will wake it; and there is none that a  *)
(* receiver wants, or it will be told                                      *)
Remembered(q) ==
  /\ At(q, "FullWait") => LET m == Top(q).kmsg IN
       m \notin FreeKMsgQ /\ kmsg[m].What = "WAKE_ME" /\ kmsg[m].WakeupProc = q
  /\ At(q, "MsgWait") => \/ \A m \in Range(Inbox(q)) : ~Wanted(m, Top(q).for)
                         \/ \E r \in Procs : Wakes(r, q)

(* Nobody waits in a call under something else; a message that is not      *)
(* posted yet wakes nobody; and only a sender is said to wait for room.    *)
Uncovered == \A q \in Procs : stack[q] # <<>> =>
               \A f \in Members(Tail(stack[q])) : f.do \notin Waits
Unanswered == \A q \in Procs : \A f \in Members(stack[q]) :
                f.do \in Unposted => kmsg[f.kmsg].What = "DONT_WAKE"
Waited(q) == /\ Sleeping(q) => Remembered(q)
             /\ At(q, "MsgWait") => ProcArray[q].State # "FULL_WAIT"
Remembering == Uncovered /\ Unanswered /\ \A q \in Procs : Waited(q)

-----------------------------------------------------------------------------
(* The frames of a stack.                                                  *)

(* The top frame and those below it.                                       *)
LEMMA MembersParts ==
  ASSUME NEW S, NEW s \in Seq(S), s # <<>>
  PROVE  /\ Head(s) \in Members(s)
         /\ \A f \in Members(Tail(s)) : f \in Members(s)
<1>1. /\ Len(s) \in Nat \ {0} /\ Head(s) = s[1] /\ Len(Tail(s)) = Len(s) - 1
      /\ \A i \in 1 .. Len(Tail(s)) : Tail(s)[i] = s[i + 1]
  BY EmptySeq, LenProperties, HeadTailProperties
<1>2. \A i \in 1 .. Len(Tail(s)) : i + 1 \in 1 .. Len(s)
  BY <1>1
<1>3. 1 \in 1 .. Len(s)
  BY <1>1
<1> QED
  BY <1>1, <1>2, <1>3 DEF Members


(* Frames put over others.                                                 *)
LEMMA MembersJoined ==
  ASSUME NEW S, NEW s \in Seq(S), NEW t \in Seq(S)
  PROVE  \A f \in Members(s \o t) : f \in Members(s) \/ f \in Members(t)
<1>1. /\ Len(s) \in Nat /\ Len(t) \in Nat /\ Len(s \o t) = Len(s) + Len(t)
      /\ \A i \in 1 .. Len(s) + Len(t) :
           (s \o t)[i] = IF i <= Len(s) THEN s[i] ELSE t[i - Len(s)]
  BY LenProperties, ConcatProperties
<1>2. ASSUME NEW i \in 1 .. Len(s \o t)
      PROVE  (s \o t)[i] \in Members(s) \/ (s \o t)[i] \in Members(t)
  <2>1. (i <= Len(s) => i \in 1 .. Len(s)) /\ (~(i <= Len(s)) => i - Len(s) \in 1 .. Len(t))
    BY <1>1
  <2>2. i \in 1 .. Len(s) + Len(t)
    BY <1>1
  <2> QED
    BY <1>1, <2>1, <2>2 DEF Members
<1> QED
  BY <1>2 DEF Members


(* What is on a stack after a piece leaves frames s: no wait comes up.     *)
LEMMA Puts ==
  ASSUME Typed, Uncovered, NEW q \in Procs, stack[q] # <<>>, NEW S, NEW s \in Seq(S), Then(q, s)
  PROVE  /\ \A r \in Procs \ {q} : stack'[r] = stack[r]
         /\ \A f \in Members(stack'[q]) :
              f \in Members(s) \/ (f \in Members(stack[q]) /\ f.do \notin Waits)
<1> DEFINE t == Tail(stack[q])
           T == S \cup Frames
<1>1. stack \in [Procs -> Seq(Frames)]
  BY DEF Typed
<1>2. stack'[q] = s \o t /\ \A r \in Procs \ {q} : stack'[r] = stack[r]
  BY <1>1 DEF Then
<1>3. t \in Seq(Frames) /\ \A f \in Members(t) : f \in Members(stack[q]) /\ f.do \notin Waits
  BY <1>1, MembersParts, HeadTailProperties DEF Uncovered
<1> HIDE DEF t
<1>4. s \in Seq(T) /\ t \in Seq(T)
  BY <1>3, SeqDef
<1> HIDE DEF T
<1> QED
  BY <1>2, <1>3, <1>4, MembersJoined


(* For none, one and two frames, of F; and when the call returns.          *)
LEMMA PutsFew ==
  ASSUME Typed, Uncovered, NEW q \in Procs, stack[q] # <<>>, NEW F,
         \/ Return(q)
         \/ Then(q, <<>>)
         \/ \E f \in F : Then(q, <<f>>)
         \/ \E f, g \in F : Then(q, <<f, g>>)
  PROVE  /\ \A r \in Procs \ {q} : stack'[r] = stack[r]
         /\ \A f \in Members(stack'[q]) :
              f \in F \/ (f \in Members(stack[q]) /\ f.do \notin Waits)
<1>1. CASE Return(q)
  <2>1. stack'[q] = <<>> /\ \A r \in Procs \ {q} : stack'[r] = stack[r]
    BY <1>1 DEF Typed, Return
  <2>2. Members(<<>>) = {}
    BY DEF Members
  <2> QED
    BY <2>1, <2>2
<1>2. ASSUME NEW s \in Seq(F), Then(q, s)
      PROVE  /\ \A r \in Procs \ {q} : stack'[r] = stack[r]
             /\ \A f \in Members(stack'[q]) :
                  f \in F \/ (f \in Members(stack[q]) /\ f.do \notin Waits)
  <2>1. \A f \in Members(s) : f \in F
    BY MembersAre
  <2>2. /\ \A r \in Procs \ {q} : stack'[r] = stack[r]
        /\ \A f \in Members(stack'[q]) :
              f \in Members(s) \/ (f \in Members(stack[q]) /\ f.do \notin Waits)
    BY <1>2, Puts
  <2> QED
    BY <2>1, <2>2
<1>3. /\ <<>> \in Seq(F) /\ \A f \in F : <<f>> \in Seq(F)
      /\ \A f, g \in F : <<f, g>> \in Seq(F)
  OBVIOUS
<1> QED
  BY <1>1, <1>2, <1>3

-----------------------------------------------------------------------------
(* What a step of q does to the sleep of others.                           *)

(* A message that is to wake another does so or stays what it is, ...      *)
Spares(q) ==
  \A m \in KMsgs : m \notin FreeKMsgQ /\ kmsg[m].What = "WAKE_ME" =>
    \/ kmsg[m].WakeupProc = q
    \/ ProcArray'[kmsg[m].WakeupProc].State \notin Waiting
    \/ m \notin FreeKMsgQ' /\ kmsg'[m].What = "WAKE_ME" /\ kmsg'[m].WakeupProc = kmsg[m].WakeupProc

(* ... no message comes to wake anybody, ...                               *)
Hushed == \A m \in KMsgs : kmsg'[m].What \in {kmsg[m].What, "DONT_WAKE"}

(* ... nobody else begins to wait, ...                                     *)
Rouses(q) == \A r \in Procs \ {q} : ProcArray'[r].State \in Waiting =>
                                    ProcArray'[r].State = ProcArray[r].State

(* ... and a message that comes to another is told to it.                  *)
Same(m) == LET p == kmsg[m].RemotePort IN
           kmsg'[m].RemotePort = p /\ PortArray'[p].Locked = PortArray[p].Locked
Delivers(q) ==
  \A r \in Procs \ {q} : ProcArray'[r].State = "MSG_WAIT" =>
    \/ Wakes(q, r)'
    \/ ~Wakes(q, r) /\ \A m \in Range(Inbox(r)') : m \in Range(Inbox(r)) /\ Same(m)


(* Such a step leaves everybody remembered if it does so for q.            *)
LEMMA Undisturbed ==
  ASSUME MInv, Remembering, NEW q \in Procs,
         \A r \in Procs \ {q} : stack'[r] = stack[r],
         stack'[q] # <<>> => \A f \in Members(Tail(stack'[q])) : f.do \notin Waits,
         \A f \in Members(stack'[q]) : f.do \in Unposted => kmsg'[f.kmsg].What = "DONT_WAKE",
         \A m \in KMsgs : kmsg'[m].What \in {kmsg[m].What, "DONT_WAKE"} \/ Holds(stack[q], m),
         Spares(q), Rouses(q), Delivers(q), Waited(q)'
  PROVE  Remembering'
<1>1. Uncovered'
  BY DEF Remembering, Uncovered
<1>2. Unanswered'
  <2>1. ASSUME NEW r \in Procs \ {q}, NEW f \in Members(stack[r]), f.do \in Unposted
        PROVE  kmsg'[f.kmsg].What = "DONT_WAKE"
    <3>1. PICK i \in 1 .. Len(stack[r]) : f = stack[r][i]
      BY <2>1 DEF Members
    <3>2. f \in Frames /\ f.do \in Holding
      <4>1. stack[r] \in Seq(Frames)
        BY DEF MInv, Typed
      <4> QED
        BY <2>1, <3>1, <4>1, ElementOfSeq DEF Unposted, Holding
    <3>3. f.kmsg \in KMsgs /\ Holds(stack[r], f.kmsg)
      BY <3>1, <3>2, FrameIs DEF Holds
    <3>4. ~Holds(stack[q], f.kmsg)
      BY <3>3, HeldAlone
    <3>5. kmsg[f.kmsg].What = "DONT_WAKE"
      BY <2>1 DEF Remembering, Unanswered
    <3> QED
      BY <3>3, <3>4, <3>5
  <2> QED
    BY <2>1 DEF Unanswered
<1>3. ASSUME NEW r \in Procs \ {q}
      PROVE  Waited(r)'
  <2>1. stack'[r] = stack[r] /\ r \in AllProcs
    BY Numbers
  <2>2. /\ At(r, "FullWait")' <=> At(r, "FullWait")
        /\ At(r, "MsgWait")' <=> At(r, "MsgWait")
        /\ Top(r)' = Top(r)
    BY <2>1 DEF At, Top
  <2>3. At(r, "MsgWait") => ProcArray'[r].State # "FULL_WAIT"
    BY DEF Remembering, Waited, Rouses, Waiting
  <2>4. ASSUME Sleeping(r)' PROVE Sleeping(r) /\ ProcArray'[r].State = ProcArray[r].State
    BY <2>2, <2>4 DEF Sleeping, Rouses
  <2>5. ASSUME Sleeping(r)', At(r, "FullWait")
        PROVE  LET m == Top(r).kmsg IN
               m \notin FreeKMsgQ' /\ kmsg'[m].What = "WAKE_ME" /\ kmsg'[m].WakeupProc = r
    <3>1. stack[r] # <<>> /\ Top(r).do = "FullWait"
      BY <2>5 DEF At
    <3>2. Top(r).kmsg \in KMsgs
      BY <3>1, Popped, FrameIs
    <3>3. LET m == Top(r).kmsg IN m \notin FreeKMsgQ /\ kmsg[m].What = "WAKE_ME" /\ kmsg[m].WakeupProc = r
      BY <2>4, <2>5 DEF Remembering, Waited, Remembered
    <3>4. ProcArray'[r].State \in Waiting
      BY <2>5 DEF Sleeping
    <3> QED
      BY <3>2, <3>3, <3>4 DEF Spares
  <2>6. ASSUME Sleeping(r)', At(r, "MsgWait")
        PROVE  \/ \A m \in Range(Inbox(r)') : ~Wanted(m, Top(r).for)'
               \/ \E w \in Procs : Wakes(w, r)'
    <3>1. ProcArray'[r].State = "MSG_WAIT"
      BY <2>3, <2>6 DEF Sleeping, Waiting
    <3>2. CASE Wakes(q, r)'
      BY <3>2
    <3>3. CASE ~Wakes(q, r) /\ \A m \in Range(Inbox(r)') : m \in Range(Inbox(r)) /\ Same(m)
      <4>1. CASE \A m \in Range(Inbox(r)) : ~Wanted(m, Top(r).for)
        <5>1. ASSUME NEW m \in Range(Inbox(r)') PROVE ~Wanted(m, Top(r).for)'
          BY <2>2, <3>3, <4>1 DEF Same, Wanted
        <5> QED
          BY <5>1
      <4>2. CASE \E w \in Procs : Wakes(w, r)
        <5>1. PICK w \in Procs \ {q} : Wakes(w, r)
          BY <3>3, <4>2
        <5>2. Wakes(w, r)'
          BY <5>1 DEF Wakes, At, Top
        <5> QED
          BY <5>2
      <4> QED
        BY <2>4, <2>6, <4>1, <4>2 DEF Remembering, Waited, Remembered
    <3> QED
      BY <3>1, <3>2, <3>3 DEF Delivers
  <2> QED
    BY <2>2, <2>3, <2>5, <2>6 DEF Waited, Remembered
<1> QED
  BY <1>1, <1>2, <1>3 DEF Remembering


(* It does when q itself does not wait after the step.                     *)
LEMMA Passes ==
  ASSUME MInv, Typed', Remembering, NEW q \in Procs,
         \A r \in Procs \ {q} : stack'[r] = stack[r],
         \A f \in Members(stack'[q]) : /\ f.do \notin Waits
                                       /\ f.do \in Unposted => \/ f \in Members(stack[q])
                                                               \/ kmsg'[f.kmsg].What = "DONT_WAKE",
         Hushed, Spares(q), Rouses(q), Delivers(q)
  PROVE  Remembering'
<1>1. stack[q] \in Seq(Frames) /\ stack'[q] \in Seq(Frames)
  BY DEF MInv, Typed
<1>2. stack'[q] # <<>> => /\ Head(stack'[q]) \in Members(stack'[q])
                          /\ \A f \in Members(Tail(stack'[q])) : f \in Members(stack'[q])
  BY <1>1, MembersParts
<1>3. Waited(q)'
  BY <1>2 DEF Waited, Sleeping, At, Top, Waits
<1>4. \A f \in Members(stack'[q]) : f.do \in Unposted => kmsg'[f.kmsg].What = "DONT_WAKE"
  <2>1. ASSUME NEW f \in Members(stack'[q]), f.do \in Unposted
        PROVE  kmsg'[f.kmsg].What = "DONT_WAKE"
    <3>1. f \in Frames
      BY <1>1, MembersAre
    <3>2. f.kmsg \in KMsgs
      BY <2>1, <3>1, FrameIs DEF Unposted, Holding
    <3> QED
      BY <2>1, <3>2 DEF Remembering, Unanswered, Hushed
  <2> QED
    BY <2>1
<1> QED
  BY <1>2, <1>3, <1>4, Undisturbed DEF Hushed


-----------------------------------------------------------------------------
(* How the actions do that.                                                *)

(* q returns, or leaves frames that do not wait or post                    *)
Calling(q) ==
  \/ Return(q)
  \/ \E S : (\A f \in S : f.do \notin Waits \cup Unposted) /\ \E s \in Seq(S) : Then(q, s)


(* Then everybody is remembered.                                           *)
LEMMA GoesOn ==
  ASSUME MInv, Typed', Remembering, NEW q \in Procs, stack[q] # <<>>,
         Calling(q),
         Hushed, Spares(q), Rouses(q), Delivers(q)
  PROVE  Remembering'
<1>1. Typed /\ Uncovered
  BY DEF MInv, Remembering
<1>2. /\ \A r \in Procs \ {q} : stack'[r] = stack[r]
      /\ \A f \in Members(stack'[q]) : f.do \notin Waits /\ (f.do \in Unposted => f \in Members(stack[q]))
  <2>1. CASE Return(q)
    <3>1. stack'[q] = <<>> /\ \A r \in Procs \ {q} : stack'[r] = stack[r]
      BY <1>1, <2>1 DEF Typed, Return
    <3>2. Members(<<>>) = {}
      BY DEF Members
    <3> QED
      BY <3>1, <3>2
  <2>2. ASSUME NEW S, \A f \in S : f.do \notin Waits \cup Unposted, NEW s \in Seq(S), Then(q, s)
        PROVE  /\ \A r \in Procs \ {q} : stack'[r] = stack[r]
               /\ \A f \in Members(stack'[q]) :
                    f.do \notin Waits /\ (f.do \in Unposted => f \in Members(stack[q]))
    <3>1. \A f \in Members(s) : f.do \notin Waits \cup Unposted
      BY <2>2, MembersAre
    <3>2. /\ \A r \in Procs \ {q} : stack'[r] = stack[r]
          /\ \A f \in Members(stack'[q]) :
               f \in Members(s) \/ (f \in Members(stack[q]) /\ f.do \notin Waits)
      BY <1>1, <2>2, Puts
    <3> QED
      BY <3>1, <3>2
  <2> QED
    BY <2>1, <2>2 DEF Calling
<1> QED
  BY <1>2, Passes


(* It leaves such if they are plain, or none, or one or two of another     *)
(* kind.                                                                   *)
LEMMA CallingFew ==
  ASSUME NEW q,
         \/ Return(q)
         \/ \E s \in Seq(Plain) : Then(q, s)
         \/ Then(q, <<>>)
         \/ \E f : f.do \notin Waits \cup Unposted /\ Then(q, <<f>>)
         \/ \E f, g : {f.do, g.do} \cap (Waits \cup Unposted) = {} /\ Then(q, <<f, g>>)
  PROVE  Calling(q)
<1>1. \A f \in Plain : f.do \notin Waits \cup Unposted
  BY DEF Plain, Waits, Unposted, Lasts, Holding
<1>2. CASE Return(q) \/ \E s \in Seq(Plain) : Then(q, s)
  BY <1>1, <1>2 DEF Calling
<1>3. CASE Then(q, <<>>)
  <2>1. <<>> \in Seq({})
    OBVIOUS
  <2> QED
    BY <1>3, <2>1 DEF Calling
<1>4. ASSUME NEW f, f.do \notin Waits \cup Unposted, Then(q, <<f>>) PROVE Calling(q)
  <2>1. <<f>> \in Seq({f})
    OBVIOUS
  <2> QED
    BY <1>4, <2>1 DEF Calling
<1>5. ASSUME NEW f, NEW g, {f.do, g.do} \cap (Waits \cup Unposted) = {}, Then(q, <<f, g>>)
      PROVE  Calling(q)
  <2>1. <<f, g>> \in Seq({f, g})
    OBVIOUS
  <2>2. \A h \in {f, g} : h.do \notin Waits \cup Unposted
    BY <1>5
  <2> QED
    BY <1>5, <2>1, <2>2 DEF Calling
<1> QED
  BY <1>2, <1>3, <1>4, <1>5


(* A message made free or answered: whoever it is to wake must be awake.   *)
LEMMA Settles ==
  ASSUME Typed, NEW q \in Procs, NEW m \in KMsgs,
         Free(m) \/ (kmsg' = [kmsg EXCEPT ![m].What = "DONT_WAKE"] /\ UNCHANGED FreeKMsgQ),
         kmsg[m].What = "WAKE_ME" =>
           kmsg[m].WakeupProc = q \/ ProcArray'[kmsg[m].WakeupProc].State \notin Waiting
  PROVE  Spares(q) /\ Hushed
<1>1. /\ kmsg'[m].What = "DONT_WAKE"
      /\ \A x \in KMsgs \ {m} : kmsg'[x] = kmsg[x] /\ (x \in FreeKMsgQ' <=> x \in FreeKMsgQ)
  BY DEF Typed, Free, NoMessage, Message, MessageRecords
<1> QED
  BY <1>1 DEF Spares, Hushed


(* A message made of a free structure.                                     *)
LEMMA Forms ==
  ASSUME Typed, NEW q \in Procs, NEW m \in KMsgs, NEW c, c.What = "DONT_WAKE", Allocate(m, c)
  PROVE  Spares(q) /\ Hushed /\ kmsg'[m].What = "DONT_WAKE"
<1>1. /\ kmsg'[m] = c /\ m \in FreeKMsgQ
      /\ \A x \in KMsgs \ {m} : kmsg'[x] = kmsg[x] /\ (x \in FreeKMsgQ' <=> x \in FreeKMsgQ)
  BY DEF Typed, Allocate
<1> QED
  BY <1>1 DEF Spares, Hushed


(* No message comes to the inbox of another that will not be told, and     *)
(* none there changes, nor does the lock of its port; and whom q was to    *)
(* wake is awake.                                                          *)
LEMMA Undelivered ==
  ASSUME MInv, Homed, NEW q \in Procs,
         \A r \in Procs \ {q} : ProcArray'[r].State = "MSG_WAIT" =>
           Wakes(q, r)' \/ Range(Inbox(r)') \subseteq Range(Inbox(r)),
         \A p \in Ports : \/ PortArray'[p].Locked = PortArray[p].Locked
                          \/ ~PortArray[p].InUse \/ PortArray[p].Receiver = q,
         \A m \in KMsgs : \/ kmsg'[m].RemotePort = kmsg[m].RemotePort
                          \/ m \in FreeKMsgQ \/ Holds(stack[q], m)
                          \/ \A r \in AllProcs : m \notin Range(Inbox(r)),
         \A r \in Procs : Wakes(q, r) => ProcArray'[r].State # "MSG_WAIT"
  PROVE  Delivers(q)
<1>1. ASSUME NEW r \in Procs \ {q}, NEW m \in Range(Inbox(r))
      PROVE  Same(m)
  <2>1. r \in AllProcs /\ m \in Range(Inbox(r))
    BY <1>1, Numbers
  <2>2. m \in KMsgs /\ Pending(m)
    BY <2>1, QueuesTyped DEF MInv, Pending, Ahead
  <2>3. /\ kmsg[m].RemotePort \in Ports /\ PortArray[kmsg[m].RemotePort].InUse
        /\ PortArray[kmsg[m].RemotePort].Receiver = r
    BY <2>1, <2>2, PendingTo DEF Homed
  <2>4. m \notin FreeKMsgQ /\ ~Holds(stack[q], m)
    <3>1. m \notin FreeKMsgQ
      BY <2>2, PendingAlone
    <3>2. ~Holds(stack[q], m)
      BY <2>1, <2>2, HeldAlone
    <3> QED
      BY <3>1, <3>2
  <2> QED
    BY <2>1, <2>2, <2>3, <2>4 DEF Same
<1>2. ASSUME NEW r \in Procs \ {q}, ProcArray'[r].State = "MSG_WAIT", ~Wakes(q, r)'
      PROVE  ~Wakes(q, r) /\ \A m \in Range(Inbox(r)') : m \in Range(Inbox(r)) /\ Same(m)
  BY <1>1, <1>2
<1> QED
  BY <1>2 DEF Delivers


(* A step that changes no process's record.                                *)
LEMMA Stays ==
  ASSUME MInv, Typed', Homed, Remembering, NEW q \in Procs, stack[q] # <<>>,
         Top(q).do \notin {"WakeForMsg", "IPCWakeup"},
         Calling(q),
         UNCHANGED ProcArray,
         \A p \in Ports : PortArray'[p].Locked = PortArray[p].Locked,
         \A m \in KMsgs : \/ kmsg'[m].RemotePort = kmsg[m].RemotePort
                          \/ m \in FreeKMsgQ \/ Holds(stack[q], m),
         Hushed, Spares(q)
  PROVE  Remembering'
<1>1. Rouses(q)
  BY DEF Rouses
<1>2. Delivers(q)
  <2>1. \A r : ~Wakes(q, r)
    BY DEF Wakes, At
  <2>2. \A r \in Procs : Inbox(r)' = Inbox(r)
    BY DEF Inbox
  <2> QED
    BY <2>1, <2>2, Undelivered
<1> QED
  BY <1>1, <1>2, GoesOn


(* The lock of a port stays, whatever else in its record changes.          *)
LEMMA LockedStays ==
  ASSUME Typed, NEW p \in Ports,
         \/ \E c : PortArray' = [PortArray EXCEPT ![p].Owner = c]
         \/ \E c : PortArray' = [PortArray EXCEPT ![p].Receiver = c]
         \/ \E c : PortArray' = [PortArray EXCEPT ![p].Senders = c]
         \/ \E c : PortArray' = [PortArray EXCEPT ![p].Backlog = c]
         \/ \E c : PortArray' = [PortArray EXCEPT ![p].NumQueued = c]
         \/ \E c, d : PortArray' = [PortArray EXCEPT ![p].SecondaryMsgQ = c, ![p].NumQueued = d]
         \/ \E c, d : PortArray' = [PortArray EXCEPT ![p].NumQueued = c, ![p].SecondaryMsgQ = d]
         \/ \E c, d : PortArray' = [PortArray EXCEPT ![p].InUse = c, ![p].SecondaryMsgQ = d]
         \/ UNCHANGED PortArray
  PROVE  \A x \in Ports : PortArray'[x].Locked = PortArray[x].Locked
<1>1. /\ PortArray \in [Ports -> PortRecords] /\ PortArray[p] \in PortRecords
      /\ \A c : /\ [PortArray[p] EXCEPT !.Owner = c].Locked = PortArray[p].Locked
                /\ [PortArray[p] EXCEPT !.Receiver = c].Locked = PortArray[p].Locked
                /\ [PortArray[p] EXCEPT !.Senders = c].Locked = PortArray[p].Locked
                /\ [PortArray[p] EXCEPT !.Backlog = c].Locked = PortArray[p].Locked
                /\ [PortArray[p] EXCEPT !.NumQueued = c].Locked = PortArray[p].Locked
  BY DEF Typed, PortRecords
<1>2. \A c, d : /\ [PortArray[p] EXCEPT !.SecondaryMsgQ = c, !.NumQueued = d].Locked = PortArray[p].Locked
                /\ [PortArray[p] EXCEPT !.NumQueued = c, !.SecondaryMsgQ = d].Locked = PortArray[p].Locked
                /\ [PortArray[p] EXCEPT !.InUse = c, !.SecondaryMsgQ = d].Locked = PortArray[p].Locked
  BY <1>1 DEF PortRecords
<1>3. ASSUME NEW c, c.Locked = PortArray[p].Locked, PortArray' = [PortArray EXCEPT ![p] = c]
      PROVE  \A x \in Ports : PortArray'[x].Locked = PortArray[x].Locked
  BY <1>1, <1>3
<1>4. ASSUME NEW c, PortArray' = [PortArray EXCEPT ![p].Owner = c]
      PROVE  \A x \in Ports : PortArray'[x].Locked = PortArray[x].Locked
  BY <1>1, <1>3, <1>4
<1>5. ASSUME NEW c, PortArray' = [PortArray EXCEPT ![p].Receiver = c]
      PROVE  \A x \in Ports : PortArray'[x].Locked = PortArray[x].Locked
  BY <1>1, <1>3, <1>5
<1>6. ASSUME NEW c, PortArray' = [PortArray EXCEPT ![p].Senders = c]
      PROVE  \A x \in Ports : PortArray'[x].Locked = PortArray[x].Locked
  BY <1>1, <1>3, <1>6
<1>7. ASSUME NEW c, PortArray' = [PortArray EXCEPT ![p].Backlog = c]
      PROVE  \A x \in Ports : PortArray'[x].Locked = PortArray[x].Locked
  BY <1>1, <1>3, <1>7
<1>8. ASSUME NEW c, PortArray' = [PortArray EXCEPT ![p].NumQueued = c]
      PROVE  \A x \in Ports : PortArray'[x].Locked = PortArray[x].Locked
  BY <1>1, <1>3, <1>8
<1>9. ASSUME NEW c, NEW d, PortArray' = [PortArray EXCEPT ![p].SecondaryMsgQ = c, ![p].NumQueued = d]
      PROVE  \A x \in Ports : PortArray'[x].Locked = PortArray[x].Locked
  <2> DEFINE e == [PortArray[p] EXCEPT !.SecondaryMsgQ = c, !.NumQueued = d]
  <2>1. e.Locked = PortArray[p].Locked
    BY <1>2
  <2>2. PortArray' = [PortArray EXCEPT ![p] = e]
    BY <1>9
  <2> HIDE DEF e
  <2> QED
    BY <1>3, <2>1, <2>2
<1>10. ASSUME NEW c, NEW d, PortArray' = [PortArray EXCEPT ![p].NumQueued = c, ![p].SecondaryMsgQ = d]
      PROVE  \A x \in Ports : PortArray'[x].Locked = PortArray[x].Locked
  <2> DEFINE e == [PortArray[p] EXCEPT !.NumQueued = c, !.SecondaryMsgQ = d]
  <2>1. e.Locked = PortArray[p].Locked
    BY <1>2
  <2>2. PortArray' = [PortArray EXCEPT ![p] = e]
    BY <1>10
  <2> HIDE DEF e
  <2> QED
    BY <1>3, <2>1, <2>2
<1>11. ASSUME NEW c, NEW d, PortArray' = [PortArray EXCEPT ![p].InUse = c, ![p].SecondaryMsgQ = d]
      PROVE  \A x \in Ports : PortArray'[x].Locked = PortArray[x].Locked
  <2> DEFINE e == [PortArray[p] EXCEPT !.InUse = c, !.SecondaryMsgQ = d]
  <2>1. e.Locked = PortArray[p].Locked
    BY <1>2
  <2>2. PortArray' = [PortArray EXCEPT ![p] = e]
    BY <1>11
  <2> HIDE DEF e
  <2> QED
    BY <1>3, <2>1, <2>2
<1> QED
  BY <1>4, <1>5, <1>6, <1>7, <1>8, <1>9, <1>10, <1>11


(* So it does when a message is counted.                                   *)
LEMMA CountedLocked ==
  ASSUME Typed, NEW m, NEW p \in Ports, PortArray' = Counted(m, p)
  PROVE  \A x \in Ports : PortArray'[x].Locked = PortArray[x].Locked
<1>1. \E c : PortArray' = [PortArray EXCEPT ![p].NumQueued = c]
  <2> DEFINE c == IF kmsg[m].emerg THEN PortArray[p].NumQueued ELSE PortArray[p].NumQueued + 1
  <2>1. PortArray' = [PortArray EXCEPT ![p].NumQueued = c]
    BY DEF Counted, Typed
  <2> QED
    BY <2>1
<1> QED
  BY <1>1, LockedStays


(* The pieces that pass on ownership and rights and leave plain frames.    *)
LEMMA PlainRemembered ==
  ASSUME MInv, MInv', Homed, Remembering, NEW q \in Procs,
         GiveOwnership(q) \/ GTran(q) \/ RemPort(q) \/ Scan(q)
  PROVE  Remembering'
<1>1. /\ stack[q] # <<>> /\ Top(q).do \in {"GiveOwnership", "GTran", "RemPort", "Scan"}
      /\ UNCHANGED <<ProcArray, kmsg, FreeKMsgQ>>
      /\ \/ UNCHANGED PortArray
         \/ /\ Top(q).do \in {"GiveOwnership", "GTran", "RemPort"}
            /\ \/ PortArray' = [PortArray EXCEPT ![Top(q).port].Owner = Top(q).to]
               \/ FastGTran(q, Top(q).port) \/ Forget(q, Top(q).port)
  BY DEF GiveOwnership, GTran, RemPort, Scan, At
<1>2. Calling(q)
  <2>1. GiveOwnership(q) => Then(q, <<>>)
    BY DEF GiveOwnership
  <2> QED
    BY <2>1, CallingFew, GTranFrames, RemPortFrames, ScanFrames
<1>3. \A x \in Ports : PortArray'[x].Locked = PortArray[x].Locked
  <2>1. CASE UNCHANGED PortArray
    BY <2>1
  <2>2. CASE ~UNCHANGED PortArray
    <3>1. Top(q).port \in Ports
      BY <1>1, <2>2, Popped, FrameIs
    <3> QED
      BY <1>1, <2>2, <3>1, LockedStays DEF MInv, FastGTran, Forget
  <2> QED
    BY <2>1, <2>2
<1>4. Hushed /\ Spares(q)
  BY <1>1 DEF Hushed, Spares
<1>5. Typed' /\ Top(q).do \notin {"WakeForMsg", "IPCWakeup"}
  BY <1>1 DEF MInv
<1> QED
  BY <1>1, <1>2, <1>3, <1>4, <1>5, Stays


(* The end of a wait.                                                      *)
LEMMA EndRemembered ==
  ASSUME MInv, MInv', Homed, Remembering, NEW q \in Procs, Sent(q) \/ GiveUp(q)
  PROVE  Remembering'
<1>1. /\ stack[q] # <<>> /\ Top(q).do \in {"FullWait", "MsgWait"} /\ Return(q)
      /\ UNCHANGED <<PortArray, ProcArray, kmsg, FreeKMsgQ>>
  BY DEF Sent, GiveUp, At
<1>2. Hushed /\ Spares(q)
  BY <1>1 DEF Hushed, Spares
<1>3. Typed' /\ Top(q).do \notin {"WakeForMsg", "IPCWakeup"} /\ Calling(q)
  BY <1>1, CallingFew DEF MInv
<1> QED
  BY <1>1, <1>2, <1>3, Stays


(* The holders of a port are told that it is deleted.                      *)
LEMMA NotifyRemembered ==
  ASSUME MInv, MInv', Homed, Remembering, NEW q \in Procs, Notify(q)
  PROVE  Remembering'
<1> DEFINE p == Top(q).port
<1>1. /\ stack[q] # <<>> /\ Top(q).do = "Notify"
      /\ UNCHANGED <<ProcArray, kmsg, FreeKMsgQ>>
      /\ \E S : PortArray' = [PortArray EXCEPT ![p].Senders = S]
      /\ \/ Then(q, <<>>)
         \/ \E j : Then(q, <<Notice(j, "M_PortDeleted", p), [Top(q) EXCEPT !.next = j + 1]>>)
  BY DEF Notify, Forget, At
<1>2. Top(q) \in [do : {"Notify"}, port : Ports, next : 1 .. NumProcs]
  BY <1>1, Popped, FrameIs
<1>3. \A j : {Notice(j, "M_PortDeleted", p).do, [Top(q) EXCEPT !.next = j + 1].do}
               \cap (Waits \cup Unposted) = {}
  BY <1>1, <1>2 DEF Notice, Waits, Unposted
<1>4. Calling(q)
  BY <1>1, <1>3, CallingFew
<1>5. p \in Ports
  BY <1>2
<1> HIDE DEF p
<1>6. \A x \in Ports : PortArray'[x].Locked = PortArray[x].Locked
  BY <1>1, <1>5, LockedStays DEF MInv
<1>7. Hushed /\ Spares(q) /\ Typed' /\ Top(q).do \notin {"WakeForMsg", "IPCWakeup"}
  BY <1>1 DEF Hushed, Spares, MInv
<1> QED
  BY <1>1, <1>4, <1>6, <1>7, Stays


(* The message is copied out.                                              *)
LEMMA CopyOutRemembered ==
  ASSUME MInv, MInv', Homed, Remembering, NEW q \in Procs, CopyOut(q)
  PROVE  Remembering'
<1> DEFINE m == Top(q).kmsg
           f == [do |-> "GTran", type |-> kmsg[m].type, port |-> kmsg[m].port]
           g == Frame("Release", m)
<1>1. /\ stack[q] # <<>> /\ Top(q).do = "CopyOut" /\ UNCHANGED <<ProcArray, kmsg, FreeKMsgQ>>
      /\ FastGTrans(q, {kmsg[m].LocalPort, kmsg[m].RemotePort}) \/ UNCHANGED PortArray
      /\ Then(q, <<g>>) \/ Then(q, <<f, g>>)
  BY DEF CopyOut, At
<1>2. {f.do, g.do} \cap (Waits \cup Unposted) = {} /\ g.do \notin Waits \cup Unposted
  BY DEF Frame, Waits, Unposted
<1> HIDE DEF f, g, m
<1>4. Calling(q)
  BY <1>1, <1>2, CallingFew
<1>5. \A x \in Ports : PortArray'[x].Locked = PortArray[x].Locked
  BY <1>1, GTransIs DEF MInv
<1>6. Hushed /\ Spares(q) /\ Typed' /\ Top(q).do \notin {"WakeForMsg", "IPCWakeup"}
  BY <1>1 DEF Hushed, Spares, MInv
<1> QED
  BY <1>1, <1>4, <1>5, <1>6, Stays


(* Whoever is woken does not wait after, and no inbox is changed.          *)
LEMMA WokenIs ==
  ASSUME Typed, NEW to \in AllProcs, ProcArray' = ProcArray \/ ProcArray' = IPCWakeup(ProcArray, to)
  PROVE  /\ \A r \in AllProcs : Inbox(r)' = Inbox(r)
         /\ \A r \in AllProcs : ProcArray'[r].State \in Waiting => ProcArray'[r].State = ProcArray[r].State
         /\ ProcArray' = IPCWakeup(ProcArray, to) => ProcArray'[to].State \notin Waiting
<1>1. \A r \in AllProcs : Inbox(r)' = Inbox(r)
  BY WakeupIs DEF Inbox
<1>2. ProcArray \in [AllProcs -> ProcRecords]
  BY DEF Typed
<1>3. CASE ProcArray' = IPCWakeup(ProcArray, to)
  <2>1. /\ \A r \in AllProcs \ {to} : ProcArray'[r] = ProcArray[r]
        /\ ProcArray[to].State \in Waiting => ProcArray'[to].State = "NOT_WAITING"
        /\ ProcArray[to].State \notin Waiting => ProcArray'[to] = ProcArray[to]
    BY <1>2, <1>3 DEF IPCWakeup, ProcRecords
  <2> QED
    BY <1>1, <2>1 DEF Waiting
<1>4. CASE ProcArray' = ProcArray /\ ProcArray' # IPCWakeup(ProcArray, to)
  BY <1>1, <1>4
<1> QED
  BY <1>3, <1>4


(* The wakeups that come after something was queued.                       *)
LEMMA WakesRemembered ==
  ASSUME MInv, MInv', Homed, Remembering, NEW q \in Procs, WakeReceiver(q) \/ WakeForMsg(q)
  PROVE  Remembering'
<1> DEFINE to == Top(q).to
<1>1. /\ stack[q] # <<>> /\ Top(q).do \in {"IPCWakeup", "WakeForMsg"} /\ Then(q, <<>>)
      /\ UNCHANGED <<PortArray, kmsg, FreeKMsgQ>>
      /\ \/ ProcArray' = IPCWakeup(ProcArray, to)
         \/ ProcArray' = ProcArray /\ ProcArray[to].State # "MSG_WAIT"
  BY DEF WakeReceiver, WakeForMsg, At
<1>2. to \in AllProcs
  BY <1>1, Popped, FrameIs
<1>3. /\ \A r \in AllProcs : Inbox(r)' = Inbox(r)
      /\ \A r \in AllProcs : ProcArray'[r].State \in Waiting => ProcArray'[r].State = ProcArray[r].State
      /\ ProcArray' = IPCWakeup(ProcArray, to) => ProcArray'[to].State \notin Waiting
  BY <1>1, <1>2, WokenIs DEF MInv
<1>4. Rouses(q)
  BY <1>3, Numbers DEF Rouses
<1>5. \A r \in Procs : Wakes(q, r) => ProcArray'[r].State # "MSG_WAIT"
  BY <1>1, <1>3 DEF Wakes, Waiting
<1>6. Delivers(q)
  BY <1>1, <1>3, <1>5, Undelivered, Numbers
<1>7. Hushed /\ Spares(q)
  BY <1>1 DEF Hushed, Spares
<1>8. Calling(q) /\ Typed'
  BY <1>1, CallingFew DEF MInv
<1> QED
  BY <1>1, <1>4, <1>6, <1>7, <1>8, GoesOn


(* A frame that is left alone is the top one.                              *)
LEMMA LeftOnTop ==
  ASSUME Typed, NEW q \in Procs, stack[q] # <<>>, NEW f, Then(q, <<f>>)
  PROVE  stack'[q] # <<>> /\ Top(q)' = f
<1> DEFINE t == Tail(stack[q])
           T == {f} \cup Frames
<1>1. stack'[q] = <<f>> \o t /\ t \in Seq(Frames)
  BY HeadTailProperties DEF Typed, Then
<1> HIDE DEF t
<1>2. t \in Seq(T) /\ <<f>> \in Seq(T) /\ Len(<<f>>) = 1 /\ <<f>>[1] = f
  BY <1>1, SeqDef
<1> HIDE DEF T
<1>3. /\ Len(t) \in Nat /\ <<f>> \o t \in Seq(T) /\ Len(<<f>> \o t) = 1 + Len(t)
      /\ \A i \in 1 .. 1 + Len(t) : (<<f>> \o t)[i] = IF i <= 1 THEN <<f>>[i] ELSE t[i - 1]
  BY <1>2, LenProperties, ConcatProperties
<1>4. (<<f>> \o t)[1] = f
  BY <1>2, <1>3
<1>5. <<f>> \o t # <<>> /\ Head(<<f>> \o t) = f
  BY <1>3, <1>4, EmptySeq, HeadTailProperties
<1> QED
  BY <1>1, <1>5 DEF Top


(* Inboxes have messages after the step.                                   *)
LEMMA InboxMessages == ASSUME MInv' PROVE \A r \in AllProcs : Range(Inbox(r)') \subseteq KMsgs
<1>1. \A r \in AllProcs : Inbox(r)' \in Seq(KMsgs)
  BY DEF MInv, Typed, Inbox, ProcRecords
<1> QED
  BY <1>1, LenProperties, ElementOfSeq DEF Range


(* The messages of a port come to its new receiver, who will be woken.     *)
LEMMA GiveReceiveRightsRemembered ==
  ASSUME MInv, MInv', Homed, Remembering, NEW q \in Procs, GiveReceiveRights(q)
  PROVE  Remembering'
<1> DEFINE p == Top(q).port
           to == Top(q).to
           f == [do |-> "IPCWakeup", to |-> to]
<1>1. /\ stack[q] # <<>> /\ Top(q).do = "GiveReceiveRights" /\ Then(q, <<f>>)
      /\ UNCHANGED <<kmsg, FreeKMsgQ>>
      /\ PortArray' = [PortArray EXCEPT ![p].Receiver = to]
  BY DEF GiveReceiveRights, At
<1>2. p \in Ports /\ to \in AllProcs
  BY <1>1, Popped, FrameIs
<1>3. \A r \in Procs : ProcArray'[r].State = ProcArray[r].State
  <2> DEFINE old == PortArray[p].Receiver
             left == [ProcArray EXCEPT ![old].MsgsWaiting = Those(@, KMsgs \ MsgsTo(p))]
  <2>1. /\ \A r \in AllProcs : left[r].State = ProcArray[r].State
        /\ left \in [AllProcs -> [MsgsWaiting : {left[r].MsgsWaiting : r \in AllProcs}, Active : BOOLEAN,
                                  DataPort : Ports \cup {NullPort},
                                  State : {"NOT_WAITING", "TIMED_OUT"} \cup Waiting]]
    BY DEF MInv, Typed, ProcRecords
  <2>2. ProcArray' = [left EXCEPT ![to].MsgsWaiting = @ \o Primary(p)]
    BY DEF GiveReceiveRights
  <2> HIDE DEF left
  <2> QED
    BY <1>2, <2>1, <2>2, Numbers
<1>4. \A x \in Ports : PortArray'[x].Locked = PortArray[x].Locked
  BY <1>1, <1>2, LockedStays DEF MInv
<1>5. Rouses(q)
  BY <1>3 DEF Rouses
<1>6. Delivers(q)
  <2>1. ASSUME NEW r \in Procs \ {q}
        PROVE  Wakes(q, r)' \/ Range(Inbox(r)') \subseteq Range(Inbox(r))
    <3>1. CASE r = to
      <4>1. stack'[q] # <<>> /\ Top(q)' = f
        BY <1>1, LeftOnTop DEF MInv
      <4> QED
        BY <3>1, <4>1 DEF Wakes, At
    <3>2. CASE r # to
      <4>1. \A x \in KMsgs : \A y \in AllProcs :
              x \in Range(Inbox(y)') <=> IF x \in Range(Primary(p)) THEN y = to ELSE x \in Range(Inbox(y))
        BY RightsFollowed
      <4>2. r \in AllProcs /\ Range(Inbox(r)') \subseteq KMsgs
        BY InboxMessages, Numbers
      <4> QED
        BY <3>2, <4>1, <4>2
    <3> QED
      BY <3>1, <3>2
  <2>2. \A r : ~Wakes(q, r)
    BY <1>1 DEF Wakes, At
  <2> QED
    BY <1>1, <1>4, <2>1, <2>2, Undelivered
<1>7. Hushed /\ Spares(q)
  BY <1>1 DEF Hushed, Spares
<1>8. Calling(q) /\ Typed'
  <2>1. f.do \notin Waits \cup Unposted
    BY DEF Waits, Unposted
  <2> HIDE DEF f
  <2> QED
    BY <1>1, <2>1, CallingFew DEF MInv
<1> QED
  BY <1>1, <1>5, <1>6, <1>7, <1>8, GoesOn


(* A port that is deleted: its messages are set aside, with their senders. *)
LEMMA DelPortRemembered ==
  ASSUME MInv, MInv', Homed, Remembering, NEW q \in Procs, DelPort(q)
  PROVE  Remembering'
<1> DEFINE p == Top(q).port
           r == PortArray[p].Receiver
           queued == Primary(p) \o PortArray[p].SecondaryMsgQ
           s == Append([i \in 1 .. Len(queued) |-> Frame("Release", queued[i])],
                       [do |-> "Notify", port |-> p, next |-> 1])
<1>1. /\ stack[q] # <<>> /\ Top(q).do = "DelPort" /\ UNCHANGED <<kmsg, FreeKMsgQ>>
      /\ \/ Then(q, <<>>) /\ UNCHANGED <<PortArray, ProcArray>>
         \/ /\ PortArray[p].InUse /\ Then(q, s)
            /\ PortArray' = [PortArray EXCEPT ![p].InUse = FALSE, ![p].SecondaryMsgQ = <<>>]
            /\ ProcArray' = [ProcArray EXCEPT ![r].MsgsWaiting = Those(@, KMsgs \ MsgsTo(p))]
  BY DEF DelPort, At
<1>2. p \in Ports
  BY <1>1, Popped, FrameIs
<1>3. Hushed /\ Spares(q) /\ Typed' /\ Top(q).do \notin {"WakeForMsg", "IPCWakeup"}
  BY <1>1 DEF Hushed, Spares, MInv
<1>4. CASE Then(q, <<>>) /\ UNCHANGED <<PortArray, ProcArray>>
  BY <1>1, <1>3, <1>4, CallingFew, Stays
<1>5. CASE PortArray[p].InUse /\ Then(q, s)
  <2>1. PortArray' = [PortArray EXCEPT ![p].InUse = FALSE, ![p].SecondaryMsgQ = <<>>]
        /\ ProcArray' = [ProcArray EXCEPT ![r].MsgsWaiting = Those(@, KMsgs \ MsgsTo(p))]
    BY <1>5 DEF DelPort
  <2>2. queued \in Seq(KMsgs)
    BY <1>5, PortCleared
  <2>3. \A x \in KMsgs : \A y \in AllProcs : x \in Range(Inbox(y)') => x \in Range(Inbox(y))
    BY <1>5, PortCleared
  <2> HIDE DEF queued
  <2>4. Calling(q)
    <3>1. PICK S : s \in Seq(S) /\ \A x \in S : x.do \in {"Release", "Notify"}
      BY <2>2, ReleaseBare
    <3>2. \A x \in S : x.do \notin Waits \cup Unposted
      BY <3>1 DEF Waits, Unposted
    <3> QED
      BY <1>5, <3>1, <3>2 DEF Calling
  <2> HIDE DEF s
  <2>5. \A x \in Ports : PortArray'[x].Locked = PortArray[x].Locked
    BY <1>2, <2>1, LockedStays DEF MInv
  <2>6. \A y \in AllProcs : ProcArray'[y].State = ProcArray[y].State
    BY <2>1 DEF MInv, Typed, ProcRecords
  <2>7. \A y \in AllProcs : Range(Inbox(y)') \subseteq Range(Inbox(y))
    BY <2>3, InboxMessages
  <2>8. Rouses(q)
    BY <2>6, Numbers DEF Rouses
  <2>9. \A y : ~Wakes(q, y)
    BY <1>1 DEF Wakes, At
  <2>10. Delivers(q)
    BY <1>1, <2>5, <2>7, <2>9, Undelivered, Numbers
  <2> QED
    BY <1>1, <1>3, <2>4, <2>8, <2>10, GoesOn
<1> QED
  BY <1>1, <1>4, <1>5


(* A message of a port that is gone: its sender is woken or told.          *)
LEMMA ReleaseRemembered ==
  ASSUME MInv, MInv', Homed, Remembering, NEW q \in Procs, Release(q)
  PROVE  Remembering'
<1> DEFINE m == Top(q).kmsg
           to == kmsg[m].WakeupProc
           n == Notice(to, "M_MsgAccepted", kmsg[m].RemotePort)
<1>1. /\ stack[q] # <<>> /\ Top(q).do = "Release" /\ ~\E y : Wakes(q, y)
  BY DEF Release, At, Wakes
<1>2. m \in KMsgs /\ Holds(stack[q], m) /\ kmsg[m].RemotePort \in Ports
  BY <1>1, TopHeld DEF Holding
<1>3. kmsg[m].What # "DONT_WAKE" => to \in AllProcs
  BY <1>2, Numbers DEF MInv, Typed
<1>4. n.do \notin Waits \cup Unposted /\ Top(q).do \notin Waits \cup Unposted
  BY <1>1 DEF Notice, Waits, Unposted
<1>5. CASE /\ kmsg[m].What = "SEND_ACK" /\ SendAcknowledge(q, m) /\ UNCHANGED <<ProcArray, FreeKMsgQ>>
           /\ Then(q, <<n, Top(q)>>)
  <2> HIDE DEF n
  <2>1. Calling(q) /\ Typed'
    BY <1>4, <1>5, CallingFew DEF MInv
  <2>2. /\ FastGTran(to, kmsg[m].RemotePort)
        /\ kmsg' = [kmsg EXCEPT ![m].What = "DONT_WAKE"]
    BY <1>5 DEF SendAcknowledge
  <2> HIDE DEF m, to
  <2>3. Hushed /\ Spares(q)
    BY <1>2, <1>5, <2>2, Settles DEF MInv
  <2>4. \A x \in Ports : PortArray'[x].Locked = PortArray[x].Locked
    BY <1>2, <2>2, LockedStays DEF MInv, FastGTran
  <2>5. \A x \in KMsgs : kmsg'[x].RemotePort = kmsg[x].RemotePort
    BY <1>2, <2>2, AnsweredIs DEF MInv
  <2> QED
    BY <1>1, <1>5, <2>1, <2>3, <2>4, <2>5, Stays
<1>6. CASE /\ kmsg[m].What # "SEND_ACK"
           /\ ProcArray' = IF kmsg[m].What = "WAKE_ME" THEN IPCWakeup(ProcArray, to) ELSE ProcArray
           /\ Free(m) /\ Then(q, <<>>) /\ UNCHANGED PortArray
  <2>1. Calling(q) /\ Typed'
    BY <1>6, CallingFew DEF MInv
  <2> HIDE DEF m, to
  <2>2. /\ \A y \in AllProcs : Inbox(y)' = Inbox(y)
        /\ \A y \in AllProcs : ProcArray'[y].State \in Waiting => ProcArray'[y].State = ProcArray[y].State
        /\ kmsg[m].What = "WAKE_ME" => ProcArray'[to].State \notin Waiting
    <3>1. CASE kmsg[m].What = "WAKE_ME"
      <4>1. ProcArray' = IPCWakeup(ProcArray, to) /\ to \in AllProcs
        BY <1>3, <1>6, <3>1
      <4> QED
        BY <4>1, WokenIs DEF MInv
    <3>2. CASE kmsg[m].What # "WAKE_ME"
      BY <1>6, <3>2 DEF Inbox
    <3> QED
      BY <3>1, <3>2
  <2>3. Hushed /\ Spares(q)
    BY <1>2, <1>6, <2>2, Settles DEF MInv, to
  <2>4. Rouses(q)
    BY <2>2, Numbers DEF Rouses
  <2>5. \A x \in KMsgs : kmsg'[x].RemotePort = kmsg[x].RemotePort \/ Holds(stack[q], x)
    BY <1>2, <1>6, MessageStays DEF MInv
  <2>6. Delivers(q)
    BY <1>1, <1>6, <2>2, <2>5, Undelivered, Numbers
  <2> QED
    BY <1>1, <2>1, <2>3, <2>4, <2>6, GoesOn
<1> QED
  BY <1>5, <1>6 DEF Release


(* The same when a message is received.                                    *)
LEMMA AnswerRemembered ==
  ASSUME MInv, MInv', Homed, Remembering, NEW q \in Procs, Answer(q)
  PROVE  Remembering'
<1> DEFINE m == Top(q).kmsg
           to == kmsg[m].WakeupProc
           n == Notice(to, "M_MsgAccepted", kmsg[m].RemotePort)
           f == Frame("CopyOut", m)
<1>1. /\ stack[q] # <<>> /\ Top(q).do = "Answer" /\ UNCHANGED FreeKMsgQ /\ ~\E y : Wakes(q, y)
  BY DEF Answer, At, Wakes
<1>2. m \in KMsgs /\ Holds(stack[q], m) /\ kmsg[m].RemotePort \in Ports
  BY <1>1, TopHeld DEF Holding
<1>3. kmsg[m].What # "DONT_WAKE" => to \in AllProcs
  BY <1>2, Numbers DEF MInv, Typed
<1>4. n.do \notin Waits \cup Unposted /\ f.do \notin Waits \cup Unposted
  BY <1>1 DEF Notice, Frame, Waits, Unposted
<1>5. CASE /\ kmsg[m].What = "SEND_ACK" /\ SendAcknowledge(q, m) /\ UNCHANGED ProcArray
           /\ Then(q, <<n, f>>)
  <2> HIDE DEF n, f
  <2>1. Calling(q) /\ Typed'
    BY <1>4, <1>5, CallingFew DEF MInv
  <2>2. /\ FastGTran(to, kmsg[m].RemotePort)
        /\ kmsg' = [kmsg EXCEPT ![m].What = "DONT_WAKE"]
    BY <1>5 DEF SendAcknowledge
  <2> HIDE DEF m, to
  <2>3. Hushed /\ Spares(q)
    <3>1. kmsg[m].What # "WAKE_ME" /\ UNCHANGED FreeKMsgQ /\ Typed
      BY <1>1, <1>5 DEF MInv
    <3> QED
      BY <1>2, <2>2, <3>1, Settles
  <2>4. \A x \in Ports : PortArray'[x].Locked = PortArray[x].Locked
    BY <1>2, <2>2, LockedStays DEF MInv, FastGTran
  <2>5. \A x \in KMsgs : kmsg'[x].RemotePort = kmsg[x].RemotePort
    BY <1>2, <2>2, AnsweredIs DEF MInv
  <2> QED
    BY <1>1, <1>5, <2>1, <2>3, <2>4, <2>5, Stays
<1>6. CASE /\ kmsg[m].What = "WAKE_ME" /\ ProcArray' = IPCWakeup(ProcArray, to)
           /\ kmsg' = [kmsg EXCEPT ![m].What = "DONT_WAKE"] /\ Then(q, <<f>>) /\ UNCHANGED PortArray
  <2> HIDE DEF f
  <2>1. Calling(q) /\ Typed'
    BY <1>4, <1>6, CallingFew DEF MInv
  <2> HIDE DEF m, to
  <2>2. /\ \A y \in AllProcs : Inbox(y)' = Inbox(y)
        /\ \A y \in AllProcs : ProcArray'[y].State \in Waiting => ProcArray'[y].State = ProcArray[y].State
        /\ ProcArray'[to].State \notin Waiting
    <3>1. to \in AllProcs
      BY <1>3, <1>6
    <3> QED
      BY <1>6, <3>1, WokenIs DEF MInv
  <2>3. Hushed /\ Spares(q)
    <3>1. ProcArray'[kmsg[m].WakeupProc].State \notin Waiting /\ UNCHANGED FreeKMsgQ /\ Typed
      BY <1>1, <2>2 DEF MInv, to
    <3> QED
      BY <1>2, <1>6, <3>1, Settles
  <2>4. Rouses(q)
    BY <2>2, Numbers DEF Rouses
  <2>5. \A x \in KMsgs : kmsg'[x].RemotePort = kmsg[x].RemotePort
    BY <1>2, <1>6, AnsweredIs DEF MInv
  <2>6. Delivers(q)
    <3>1. \A y \in Procs : Range(Inbox(y)') \subseteq Range(Inbox(y)) /\ ~Wakes(q, y)
      BY <1>1, <2>2, Numbers
    <3>2. \A x \in Ports : PortArray'[x].Locked = PortArray[x].Locked
      BY <1>6
    <3> QED
      BY <2>5, <3>1, <3>2, Undelivered
  <2> QED
    BY <1>1, <2>1, <2>3, <2>4, <2>6, GoesOn
<1> QED
  BY <1>5, <1>6 DEF Answer


(* A new message of the kernel's wakes nobody.                             *)
LEMMA SendKernelMsgRemembered ==
  ASSUME MInv, MInv', Homed, Remembering, NEW q \in Procs, SendKernelMsg(q) \/ PackMsg(q)
  PROVE  Remembering'
<1>1. /\ stack[q] # <<>> /\ Top(q).do \in {"SendKernelMsg", "PackMsg"}
      /\ UNCHANGED <<PortArray, ProcArray>> /\ Typed /\ Uncovered /\ Typed'
  BY KernelMsgIs DEF MInv, Remembering
<1>2. CASE /\ Then(q, <<>>) \/ \E f : f.do = "PackMsg" /\ Then(q, <<f>>)
           /\ UNCHANGED <<kmsg, FreeKMsgQ>>
  <2>1. Hushed /\ Spares(q) /\ Top(q).do \notin {"WakeForMsg", "IPCWakeup"}
    BY <1>1, <1>2 DEF Hushed, Spares
  <2>2. Calling(q)
    <3>1. "PackMsg" \notin Waits \cup Unposted
      BY DEF Waits, Unposted
    <3> QED
      BY <1>2, <3>1, CallingFew
  <2> QED
    BY <1>1, <1>2, <2>1, <2>2, Stays
<1>3. ASSUME NEW m \in FreeKMsgQ, NEW c, c.What = "DONT_WAKE", Allocate(m, c),
             Then(q, <<Frame("QueueMsg", m)>>)
      PROVE  Remembering'
  <2> DEFINE f == Frame("QueueMsg", m)
  <2>1. f.do \notin Waits /\ f.kmsg = m
    BY DEF Frame, Waits
  <2>2. Then(q, <<f>>)
    BY <1>3
  <2> HIDE DEF f
  <2>3. m \in KMsgs
    BY DEF MInv, Typed
  <2>4. Hushed /\ Spares(q) /\ kmsg'[m].What = "DONT_WAKE"
    BY <1>1, <1>3, <2>3, Forms
  <2>5. /\ \A r \in Procs \ {q} : stack'[r] = stack[r]
        /\ \A g \in Members(stack'[q]) : g \in {f} \/ (g \in Members(stack[q]) /\ g.do \notin Waits)
    <3>1. \E g \in {f} : Then(q, <<g>>)
      BY <2>2
    <3> QED
      BY <1>1, <3>1, PutsFew
  <2>6. \A x \in KMsgs : kmsg'[x].RemotePort = kmsg[x].RemotePort \/ x \in FreeKMsgQ
    BY <1>3 DEF Allocate
  <2>7. Rouses(q)
    BY <1>1 DEF Rouses
  <2>8. ~\E y : Wakes(q, y)
    BY <1>1 DEF Wakes, At
  <2>9. \A y \in Procs : Inbox(y)' = Inbox(y)
    BY <1>1 DEF Inbox
  <2>10. Delivers(q)
    BY <1>1, <2>6, <2>8, <2>9, Undelivered
  <2> QED
    BY <1>1, <2>1, <2>4, <2>5, <2>7, <2>10, Passes
<1> QED
  BY <1>2, <1>3, KernelMsgIs


(* The message of a piece that has still to post it wakes nobody.          *)
LEMMA TopUnanswered ==
  ASSUME MInv, Remembering, NEW q \in Procs, stack[q] # <<>>, Top(q).do \in Unposted
  PROVE  kmsg[Top(q).kmsg].What = "DONT_WAKE"
<1>1. stack[q] \in Seq(Frames)
  BY DEF MInv, Typed
<1>2. Top(q) \in Members(stack[q])
  BY <1>1, MembersParts DEF Top
<1> QED
  BY <1>2 DEF Remembering, Unanswered


(* So nobody sleeps for a message that is not posted, ...                  *)
LEMMA FailsRemembered ==
  ASSUME MInv, MInv', Homed, Remembering, NEW q \in Procs, LTran(q) \/ PostNowhere(q) \/ PostRefused(q)
  PROVE  Remembering'
<1> DEFINE m == Top(q).kmsg
<1>1. /\ stack[q] # <<>> /\ Top(q).do \in {"LTran", "Post"} /\ UNCHANGED <<PortArray, ProcArray>>
      /\ Top(q).do \notin {"WakeForMsg", "IPCWakeup"} /\ Typed /\ Typed'
  BY DEF LTran, PostNowhere, PostRefused, Posting, At, MInv
<1>2. m \in KMsgs /\ Holds(stack[q], m) /\ kmsg[m].What = "DONT_WAKE"
  BY <1>1, TopHeld, TopUnanswered DEF Holding, Unposted
<1>3. CASE Free(m) /\ Return(q)
  <2> HIDE DEF m
  <2>1. Spares(q) /\ Hushed
    BY <1>1, <1>2, <1>3, Settles
  <2>2. \A x \in KMsgs : kmsg'[x].RemotePort = kmsg[x].RemotePort \/ Holds(stack[q], x)
    BY <1>1, <1>2, <1>3, MessageStays
  <2> QED
    BY <1>1, <1>3, <2>1, <2>2, CallingFew, Stays
<1>4. CASE /\ kmsg' = [kmsg EXCEPT ![m].type = "none", ![m].port = NullPort] /\ UNCHANGED FreeKMsgQ
           /\ Then(q, <<>>)
  <2> HIDE DEF m
  <2> DEFINE c == [kmsg[m] EXCEPT !.type = "none", !.port = NullPort]
  <2>1. kmsg[m] \in MessageRecords /\ kmsg' = [kmsg EXCEPT ![m] = c]
    BY <1>1, <1>2, <1>4 DEF Typed
  <2>2. c.What = kmsg[m].What /\ c.WakeupProc = kmsg[m].WakeupProc /\ c.RemotePort = kmsg[m].RemotePort
    BY <2>1 DEF MessageRecords
  <2> HIDE DEF c
  <2>3. \A x \in KMsgs : /\ kmsg'[x].What = kmsg[x].What /\ kmsg'[x].WakeupProc = kmsg[x].WakeupProc
                         /\ kmsg'[x].RemotePort = kmsg[x].RemotePort
    BY <1>1, <2>1, <2>2 DEF Typed
  <2>4. Spares(q) /\ Hushed
    BY <1>4, <2>3 DEF Spares, Hushed
  <2> QED
    BY <1>1, <1>4, <2>3, <2>4, CallingFew, Stays
<1>5. ASSUME NEW f, NEW g, NEW type, {f.do, g.do} \cap (Waits \cup Unposted) = {},
             UNCHANGED <<kmsg, FreeKMsgQ>>,
             Then(q, (IF type \in {"TypePtOwnership", "TypePtAll"} THEN <<f>> ELSE <<>>)
                     \o (IF type \in {"TypePtReceive", "TypePtAll"} THEN <<g>> ELSE <<>>))
      PROVE  Remembering'
  <2>1. /\ <<>> \o <<>> = <<>> /\ <<>> \o <<g>> = <<g>> /\ <<f>> \o <<>> = <<f>>
        /\ <<f>> \o <<g>> = <<f, g>>
    BY Joined
  <2>2. Then(q, <<>>) \/ Then(q, <<f>>) \/ Then(q, <<g>>) \/ Then(q, <<f, g>>)
    BY <1>5, <2>1
  <2>3. Calling(q)
    BY <1>5, <2>2, CallingFew
  <2>4. Spares(q) /\ Hushed
    BY <1>5 DEF Spares, Hushed
  <2> QED
    BY <1>1, <1>5, <2>3, <2>4, Stays
<1>6. CASE LTran(q)
  <2> DEFINE p == kmsg[m].port
             f == Give("GiveOwnership", p, RIGHTS_IN_TRANSIT)
             g == Give("GiveReceiveRights", p, RIGHTS_IN_TRANSIT)
             type == kmsg[m].type
             s == (IF type \in {"TypePtOwnership", "TypePtAll"} THEN <<f>> ELSE <<>>)
                     \o (IF type \in {"TypePtReceive", "TypePtAll"} THEN <<g>> ELSE <<>>)
  <2>1. {f.do, g.do} \cap (Waits \cup Unposted) = {}
    BY DEF Give, Waits, Unposted
  <2>2. \/ Free(m) /\ Return(q)
        \/ /\ kmsg' = [kmsg EXCEPT ![m].type = "none", ![m].port = NullPort] /\ UNCHANGED FreeKMsgQ
           /\ Then(q, <<>>)
        \/ UNCHANGED <<kmsg, FreeKMsgQ>> /\ Then(q, s)
    BY <1>6 DEF LTran
  <2> HIDE DEF f, g, type
  <2> QED
    BY <1>3, <1>4, <1>5, <2>1, <2>2
<1> QED
  BY <1>3, <1>6 DEF PostNowhere, PostRefused


(* ... and whom a message comes to is woken by the post itself ...         *)
LEMMA PostRemembered ==
  ASSUME MInv, MInv', Homed, Remembering, NEW q \in Procs, Post(q)
  PROVE  Remembering'
<1> DEFINE m == Top(q).kmsg
           p == kmsg[m].RemotePort
           to == PortArray[p].Receiver
           queued == Queued(m, p)
<1>1. /\ stack[q] # <<>> /\ Top(q).do = "Post" /\ Return(q) /\ p # NullPort
      /\ ProcArray' = IF ProcArray[to].State = "MSG_WAIT" THEN IPCWakeup(queued, to) ELSE queued
      /\ PortArray' = Counted(m, p) /\ UNCHANGED <<kmsg, FreeKMsgQ>>
  BY DEF Post, Posting, At
<1>2. m \in KMsgs /\ Holds(stack[q], m)
  BY <1>1, TopHeld DEF Holding
<1>3. p \in Ports
  BY <1>1, <1>2 DEF MInv, Typed, MessageRecords
<1>4. to \in AllProcs
  BY <1>3 DEF MInv, Typed, PortRecords
<1>5. \A r \in AllProcs : m \notin Range(Inbox(r))
  BY <1>2, HeldAlone
<1>6. /\ queued \in [AllProcs -> ProcRecords]
      /\ \A r \in AllProcs :
           /\ Range(queued[r].MsgsWaiting) = IF r = to THEN Range(Inbox(r)) \cup {m} ELSE Range(Inbox(r))
           /\ queued[r].State = ProcArray[r].State
  BY <1>2, <1>3, <1>5, QueuedIs
<1>7. \A x \in Ports : PortArray'[x].Locked = PortArray[x].Locked
  BY <1>1, <1>3, CountedLocked DEF MInv
<1> HIDE DEF m, p, to, queued
<1>8. /\ \A r \in AllProcs : ProcArray'[r].MsgsWaiting = queued[r].MsgsWaiting
      /\ \A r \in AllProcs \ {to} : ProcArray'[r].State = ProcArray[r].State
      /\ ProcArray'[to].State # "MSG_WAIT"
      /\ ProcArray'[to].State \in Waiting => ProcArray'[to].State = ProcArray[to].State
  <2>1. CASE ProcArray[to].State = "MSG_WAIT"
    <3>1. ProcArray' = [queued EXCEPT ![to].State = "NOT_WAITING"]
      BY <1>1, <1>4, <1>6, <2>1 DEF IPCWakeup, Waiting
    <3> QED
      BY <1>4, <1>6, <3>1 DEF ProcRecords, Waiting
  <2>2. CASE ProcArray[to].State # "MSG_WAIT"
    BY <1>1, <1>4, <1>6, <2>2
  <2> QED
    BY <2>1, <2>2
<1>9. Rouses(q)
  BY <1>4, <1>8, Numbers DEF Rouses
<1>10. ASSUME NEW r \in Procs, ProcArray'[r].State = "MSG_WAIT"
       PROVE  Range(Inbox(r)') \subseteq Range(Inbox(r))
  BY <1>6, <1>8, <1>10, Numbers DEF Inbox
<1>11. ~\E y : Wakes(q, y)
  BY <1>1 DEF Wakes, At
<1>12. Delivers(q)
  BY <1>1, <1>7, <1>10, <1>11, Undelivered
<1>13. Spares(q) /\ Hushed /\ Typed' /\ Calling(q)
  BY <1>1, CallingFew DEF Spares, Hushed, MInv
<1> QED
  BY <1>1, <1>9, <1>12, <1>13, GoesOn


(* ... or will be by QueueMsg.                                             *)
LEMMA QueueMsgRemembered ==
  ASSUME MInv, MInv', Homed, Remembering, NEW q \in Procs, QueueMsg(q)
  PROVE  Remembering'
<1> DEFINE m == Top(q).kmsg
           p == kmsg[m].RemotePort
           to == PortArray[p].Receiver
           f == [do |-> "WakeForMsg", to |-> to]
<1>1. /\ stack[q] # <<>> /\ Top(q).do = "QueueMsg" /\ Typed /\ Typed'
      /\ Top(q).do \notin {"WakeForMsg", "IPCWakeup"}
  BY DEF QueueMsg, At, MInv
<1>2. m \in KMsgs /\ Holds(stack[q], m) /\ p \in Ports /\ kmsg[m].What = "DONT_WAKE"
  BY <1>1, TopHeld, TopUnanswered DEF Holding, Unposted
<1>3. CASE Free(m) /\ Then(q, <<>>) /\ UNCHANGED <<PortArray, ProcArray>>
  <2> HIDE DEF m
  <2>1. Spares(q) /\ Hushed
    BY <1>1, <1>2, <1>3, Settles
  <2>2. \A x \in KMsgs : kmsg'[x].RemotePort = kmsg[x].RemotePort \/ Holds(stack[q], x)
    BY <1>1, <1>2, <1>3, MessageStays
  <2> QED
    BY <1>1, <1>3, <2>1, <2>2, CallingFew, Stays
<1>4. CASE /\ ProcArray' = Queued(m, p) /\ PortArray' = Counted(m, p) /\ Then(q, <<f>>)
           /\ UNCHANGED <<kmsg, FreeKMsgQ>>
  <2>1. \A r \in AllProcs : m \notin Range(Inbox(r))
    BY <1>2, HeldAlone
  <2>2. \A r \in AllProcs :
          /\ Range(Inbox(r)') = IF r = to THEN Range(Inbox(r)) \cup {m} ELSE Range(Inbox(r))
          /\ ProcArray'[r].State = ProcArray[r].State
    BY <1>2, <1>4, <2>1, QueuedIs DEF Inbox
  <2>3. \A x \in Ports : PortArray'[x].Locked = PortArray[x].Locked
    BY <1>1, <1>2, <1>4, CountedLocked
  <2>4. stack'[q] # <<>> /\ Top(q)' = f
    BY <1>1, <1>4, LeftOnTop
  <2>5. f.do = "WakeForMsg" /\ f.to = to /\ f.do \notin Waits \cup Unposted
    BY DEF Waits, Unposted
  <2> HIDE DEF f, to, m
  <2>6. Calling(q)
    BY <1>4, <2>5, CallingFew
  <2>7. Rouses(q)
    BY <2>2, Numbers DEF Rouses
  <2>8. \A r \in Procs : Wakes(q, r)' \/ Range(Inbox(r)') \subseteq Range(Inbox(r))
    BY <2>2, <2>4, <2>5, Numbers DEF Wakes, At
  <2>9. ~\E y : Wakes(q, y)
    BY <1>1 DEF Wakes, At
  <2>10. Delivers(q)
    BY <1>4, <2>3, <2>8, <2>9, Undelivered
  <2>11. Spares(q) /\ Hushed
    BY <1>4 DEF Spares, Hushed
  <2> QED
    BY <1>1, <2>6, <2>7, <2>10, <2>11, GoesOn
<1> QED
  BY <1>3, <1>4 DEF QueueMsg


(* A frame that is a whole stack.                                          *)
LEMMA WholeStack ==
  ASSUME Typed, NEW q \in Procs, NEW g,
         \/ stack' = [stack EXCEPT ![q] = <<g>>]
         \/ stack[q] # <<>> /\ Tail(stack[q]) = <<>> /\ Then(q, <<g>>)
  PROVE  /\ \A r \in Procs \ {q} : stack'[r] = stack[r]
         /\ stack'[q] # <<>> /\ Top(q)' = g /\ Members(Tail(stack'[q])) = {}
         /\ \A f \in Members(stack'[q]) : f = g
<1>1. <<g>> \in Seq({g}) /\ Len(<<g>>) = 1 /\ <<g>>[1] = g /\ Head(<<g>>) = g /\ Tail(<<g>>) = <<>>
  OBVIOUS
<1>2. stack'[q] = <<g>> /\ \A r \in Procs \ {q} : stack'[r] = stack[r]
  <2>1. CASE stack' = [stack EXCEPT ![q] = <<g>>]
    BY <2>1 DEF Typed
  <2>2. CASE Tail(stack[q]) = <<>> /\ Then(q, <<g>>)
    <3>1. <<g>> \o <<>> = <<g>>
      BY <1>1, ConcatEmptySeq
    <3> QED
      BY <2>2, <3>1 DEF Typed, Then
  <2> QED
    BY <2>1, <2>2
<1>3. Members(<<>>) = {}
  BY DEF Members
<1>4. \A f \in Members(<<g>>) : f = g
  <2>1. \A i \in 1 .. Len(<<g>>) : i = 1
    BY <1>1
  <2> QED
    BY <1>1, <2>1 DEF Members
<1> QED
  BY <1>1, <1>2, <1>3, <1>4 DEF Top


(* A new state of one process.                                             *)
LEMMA StateSet ==
  ASSUME Typed, NEW q \in AllProcs, NEW s, ProcArray' = [ProcArray EXCEPT ![q].State = s]
  PROVE  \A r \in AllProcs : ProcArray'[r].State = IF r = q THEN s ELSE ProcArray[r].State
BY DEF Typed, ProcRecords


(* A sender that goes to sleep leaves a message that says so.              *)
LEMMA PostLaterRemembered ==
  ASSUME MInv, MInv', Homed, Remembering, NEW q \in Procs, PostLater(q)
  PROVE  Remembering'
<1> DEFINE m == Top(q).kmsg
           p == kmsg[m].RemotePort
           what == IF Top(q).how = "Reply" THEN "SEND_ACK" ELSE "WAKE_ME"
           g == [do |-> "FullWait", kmsg |-> m, port |-> p, how |-> Top(q).how, signalled |-> FALSE]
<1>1. /\ stack[q] # <<>> /\ Top(q).do = "Post" /\ p # NullPort /\ UNCHANGED FreeKMsgQ
      /\ PortArray' = [PortArray EXCEPT ![p].SecondaryMsgQ = Append(@, m), ![p].NumQueued = @ + 1]
      /\ kmsg' = [kmsg EXCEPT ![m].WakeupProc = q, ![m].What = what]
      /\ \/ what = "SEND_ACK" /\ Return(q) /\ UNCHANGED ProcArray
         \/ /\ what = "WAKE_ME" /\ Then(q, <<g>>)
            /\ ProcArray' = [ProcArray EXCEPT ![q].State = "FULL_WAIT"]
  BY DEF PostLater, Posting, At
<1>2. m \in KMsgs /\ Holds(stack[q], m) /\ kmsg[m].What = "DONT_WAKE" /\ m \notin FreeKMsgQ
  BY <1>1, TopHeld, TopUnanswered, HeldAlone DEF Holding, Unposted
<1>3. p \in Ports
  BY <1>1, <1>2 DEF MInv, Typed, MessageRecords
<1>4. g.do = "FullWait" /\ g.kmsg = m
  OBVIOUS
<1> HIDE DEF g, what
<1>5. Typed /\ Tail(stack[q]) = <<>>
  BY <1>1, LastIs DEF MInv, Lasts
<1>6. \A x \in Ports : PortArray'[x].Locked = PortArray[x].Locked
  <2> DEFINE c == Append(PortArray[p].SecondaryMsgQ, m)
             d == PortArray[p].NumQueued + 1
  <2>1. PortArray' = [PortArray EXCEPT ![p].SecondaryMsgQ = c, ![p].NumQueued = d]
    BY <1>1, <1>3 DEF MInv, Typed, PortRecords
  <2> HIDE DEF c, d
  <2> QED
    BY <1>3, <2>1, LockedStays DEF MInv
<1> HIDE DEF m, p
<1>7. /\ \A x \in KMsgs \ {m} : kmsg'[x] = kmsg[x]
      /\ kmsg'[m].What = what /\ kmsg'[m].WakeupProc = q
  BY <1>1, <1>2 DEF MInv, Typed, MessageRecords
<1>8. \A x \in KMsgs : kmsg'[x].RemotePort = kmsg[x].RemotePort \/ Holds(stack[q], x)
  BY <1>2, <1>7
<1>9. /\ Spares(q)
      /\ \A x \in KMsgs : kmsg'[x].What \in {kmsg[x].What, "DONT_WAKE"} \/ Holds(stack[q], x)
  BY <1>1, <1>2, <1>7 DEF Spares
<1>10. /\ Rouses(q) /\ \A r \in AllProcs : Inbox(r)' = Inbox(r)
       /\ what = "WAKE_ME" => ProcArray'[q].State = "FULL_WAIT"
  <2>1. CASE what = "SEND_ACK" /\ UNCHANGED ProcArray
    BY <2>1 DEF Rouses, Inbox
  <2>2. CASE what = "WAKE_ME" /\ ProcArray' = [ProcArray EXCEPT ![q].State = "FULL_WAIT"]
    <3>1. q \in AllProcs /\ "FULL_WAIT" \in {"NOT_WAITING", "TIMED_OUT"} \cup Waiting
      BY Numbers DEF Waiting
    <3>2. \A r \in AllProcs : /\ Inbox(r)' = Inbox(r)
                               /\ ProcArray'[r].State = IF r = q THEN "FULL_WAIT" ELSE ProcArray[r].State
      BY <2>2, <3>1, StateIs, StateSet DEF MInv
    <3> QED
      BY <3>1, <3>2, Numbers DEF Rouses
  <2> QED
    BY <1>1, <2>1, <2>2
<1>11. ~\E y : Wakes(q, y)
  BY <1>1 DEF Wakes, At
<1>12. Delivers(q)
  BY <1>6, <1>8, <1>10, <1>11, Undelivered, Numbers
<1>13. CASE what = "SEND_ACK" /\ Return(q)
  <2>1. stack'[q] = <<>> /\ \A r \in Procs \ {q} : stack'[r] = stack[r]
    BY <1>5, <1>13 DEF Typed, Return
  <2>2. Members(<<>>) = {}
    BY DEF Members
  <2>3. Waited(q)'
    BY <2>1 DEF Waited, Sleeping, At
  <2> QED
    BY <1>9, <1>10, <1>12, <2>1, <2>2, <2>3, Undisturbed
<1>14. CASE what = "WAKE_ME" /\ Then(q, <<g>>)
  <2>1. /\ \A r \in Procs \ {q} : stack'[r] = stack[r]
        /\ stack'[q] # <<>> /\ Top(q)' = g /\ Members(Tail(stack'[q])) = {}
        /\ \A f \in Members(stack'[q]) : f = g
    BY <1>1, <1>5, <1>14, WholeStack
  <2>2. Waited(q)'
    BY <1>1, <1>2, <1>4, <1>7, <1>14, <2>1 DEF Waited, Remembered, At
  <2>3. g.do \notin Unposted
    BY <1>4 DEF Unposted
  <2> QED
    BY <1>9, <1>10, <1>12, <2>1, <2>2, <2>3, Undisturbed
<1> QED
  BY <1>1, <1>13, <1>14


(* A send that is given up takes its own message back, or nothing.         *)
LEMMA WithdrawRemembered ==
  ASSUME MInv, MInv', Homed, Remembering, OwnWithdrawn, NEW q \in Procs, Withdraw(q)
  PROVE  Remembering'
<1> DEFINE m == Top(q).kmsg
           p == Top(q).port
<1>1. /\ stack[q] # <<>> /\ Top(q).do = "FullWait" /\ Return(q) /\ UNCHANGED ProcArray
      /\ Top(q).do \notin {"WakeForMsg", "IPCWakeup"} /\ Typed /\ Typed' /\ Ended(q) /\ At(q, "FullWait")
      /\ \/ UNCHANGED <<PortArray, kmsg, FreeKMsgQ>>
         \/ /\ InSeq(m, PortArray[p].SecondaryMsgQ) /\ Free(m)
            /\ PortArray' = [PortArray EXCEPT ![p].SecondaryMsgQ = Without(@, m), ![p].NumQueued = @ - 1]
  BY DEF Withdraw, At, MInv
<1>2. m \in KMsgs /\ p \in Ports
  BY <1>1, Popped, FrameIs
<1>3. Calling(q)
  BY <1>1, CallingFew
<1>4. CASE UNCHANGED <<PortArray, kmsg, FreeKMsgQ>>
  <2>1. Spares(q) /\ Hushed
    BY <1>4 DEF Spares, Hushed
  <2> QED
    BY <1>1, <1>3, <1>4, <2>1, Stays
<1>5. CASE /\ InSeq(m, PortArray[p].SecondaryMsgQ) /\ Free(m)
           /\ PortArray' = [PortArray EXCEPT ![p].SecondaryMsgQ = Without(@, m), ![p].NumQueued = @ - 1]
  <2>1. kmsg[m].What = "WAKE_ME" => kmsg[m].WakeupProc = q
    BY <1>1, <1>5 DEF OwnWithdrawn
  <2>2. \A y \in AllProcs : m \notin Range(Inbox(y))
    <3>1. Second(p) \in Seq(KMsgs)
      BY <1>1, <1>2, QueuesTyped
    <3>2. DOMAIN Second(p) = 1 .. Len(Second(p)) /\ \E i \in 1 .. Len(Second(p)) : Second(p)[i] = m
      BY <1>5, <3>1, LenProperties DEF InSeq, Second
    <3>3. In(m, "secondary", p) /\ "secondary" \in Kinds /\ p \in Slots
      BY <1>2, <3>2, Numbers DEF In, Kinds, Range
    <3> QED
      BY <1>2, <3>3, Alone
  <2> DEFINE c == Without(PortArray[p].SecondaryMsgQ, m)
             d == PortArray[p].NumQueued - 1
  <2>3. PortArray' = [PortArray EXCEPT ![p].SecondaryMsgQ = c, ![p].NumQueued = d]
    BY <1>1, <1>2, <1>5 DEF Typed, PortRecords
  <2> HIDE DEF c, d
  <2>4. \A x \in Ports : PortArray'[x].Locked = PortArray[x].Locked
    BY <1>1, <1>2, <2>3, LockedStays
  <2> HIDE DEF m
  <2>5. Spares(q) /\ Hushed
    BY <1>1, <1>2, <1>5, <2>1, Settles
  <2>6. Rouses(q) /\ \A r \in Procs : Inbox(r)' = Inbox(r)
    BY <1>1 DEF Rouses, Inbox
  <2>7. \A x \in KMsgs \ {m} : kmsg'[x] = kmsg[x]
    BY <1>1, <1>2, <1>5 DEF Typed, Free
  <2>8. \A x \in KMsgs : \/ kmsg'[x].RemotePort = kmsg[x].RemotePort
                         \/ \A r \in AllProcs : x \notin Range(Inbox(r))
    BY <2>2, <2>7
  <2>9. \A r : ~Wakes(q, r)
    BY <1>1 DEF Wakes, At
  <2>10. Delivers(q)
    BY <2>4, <2>6, <2>8, <2>9, Undelivered
  <2> QED
    BY <1>1, <1>3, <2>5, <2>6, <2>10, GoesOn
<1> QED
  BY <1>1, <1>4, <1>5

(* A receive finds a message, or goes on without one, or sleeps when there *)
(* is none that it wants.                                                  *)
LEMMA LookRemembered ==
  ASSUME MInv, MInv', Homed, Remembering, NEW q \in Procs, stack[q] = <<>> \/ At(q, "MsgWait"),
         NEW r, Look(q, r), UNCHANGED <<PortArray, kmsg, FreeKMsgQ>>
  PROVE  Remembering'
<1> DEFINE waiting == ProcArray[q].MsgsWaiting
           found == {i \in 1 .. Len(waiting) : Wanted(waiting[i], r)}
           k == CHOOSE i \in found : \A j \in found : i <= j
           f == [do |-> "Taken", kmsg |-> waiting[k], port |-> kmsg[waiting[k]].RemotePort]
           g == [do |-> "MsgWait", for |-> r, how |-> r.how, signalled |-> FALSE]
<1>1. \/ /\ found # {}
         /\ ProcArray' = [ProcArray EXCEPT ![q].MsgsWaiting = Without(@, waiting[k])]
         /\ stack' = [stack EXCEPT ![q] = <<f>>]
      \/ ProcArray' = [ProcArray EXCEPT ![q].State = "TIMED_OUT"] /\ Return(q)
      \/ /\ found = {}
         /\ ProcArray' = [ProcArray EXCEPT ![q].State = "MSG_WAIT"]
         /\ stack' = [stack EXCEPT ![q] = <<g>>]
  BY DEF Look
<1>2. /\ f.do = "Taken" /\ f.do \notin Waits /\ f.do \notin Unposted
      /\ g.do = "MsgWait" /\ g.for = r /\ g.do \notin Unposted
  BY DEF Waits, Unposted
<1> HIDE DEF f, g, k
<1>3. Typed /\ Typed' /\ q \in AllProcs
  BY Numbers DEF MInv
<1>4. Spares(q) /\ Hushed
  BY DEF Spares, Hushed
<1>5. \A x : ~Wakes(q, x)
  BY DEF Wakes, At
<1>6. ASSUME \A x \in AllProcs \ {q} : Inbox(x)' = Inbox(x)
      PROVE  Delivers(q)
  BY <1>5, <1>6, Undelivered, Numbers
<1>7. CASE /\ ProcArray' = [ProcArray EXCEPT ![q].MsgsWaiting = Without(@, waiting[k])]
           /\ stack' = [stack EXCEPT ![q] = <<f>>]
  <2>1. \A x \in AllProcs \ {q} : ProcArray'[x] = ProcArray[x]
    BY <1>3, <1>7 DEF Typed
  <2>2. Rouses(q) /\ Delivers(q)
    BY <1>6, <2>1, Numbers DEF Rouses, Inbox
  <2>3. /\ \A x \in Procs \ {q} : stack'[x] = stack[x]
        /\ \A x \in Members(stack'[q]) : x = f
    BY <1>3, <1>7, WholeStack
  <2> QED
    BY <1>2, <1>3, <1>4, <2>2, <2>3, Passes
<1>8. CASE ProcArray' = [ProcArray EXCEPT ![q].State = "TIMED_OUT"] /\ Return(q)
  <2>1. \A x \in AllProcs \ {q} : ProcArray'[x] = ProcArray[x]
    BY <1>3, <1>8 DEF Typed
  <2>2. Rouses(q) /\ Delivers(q)
    BY <1>6, <2>1, Numbers DEF Rouses, Inbox
  <2>3. /\ \A x \in Procs \ {q} : stack'[x] = stack[x]
        /\ stack'[q] = <<>> /\ Members(<<>>) = {}
    BY <1>3, <1>8 DEF Typed, Return, Members
  <2> QED
    BY <1>3, <1>4, <2>2, <2>3, Passes
<1>9. CASE /\ found = {}
           /\ ProcArray' = [ProcArray EXCEPT ![q].State = "MSG_WAIT"]
           /\ stack' = [stack EXCEPT ![q] = <<g>>]
  <2>1. "MSG_WAIT" \in {"NOT_WAITING", "TIMED_OUT"} \cup Waiting
    BY DEF Waiting
  <2>2. \A x \in AllProcs : /\ Inbox(x)' = Inbox(x)
                            /\ ProcArray'[x].State = IF x = q THEN "MSG_WAIT" ELSE ProcArray[x].State
    BY <1>3, <1>9, <2>1, StateIs, StateSet
  <2>3. Rouses(q) /\ Delivers(q)
    BY <1>6, <2>2, Numbers DEF Rouses
  <2>4. /\ \A x \in Procs \ {q} : stack'[x] = stack[x]
        /\ stack'[q] # <<>> /\ Top(q)' = g /\ Members(Tail(stack'[q])) = {}
        /\ \A x \in Members(stack'[q]) : x = g
    BY <1>3, <1>9, WholeStack
  <2>5. ASSUME NEW m \in Range(Inbox(q)') PROVE ~Wanted(m, r)'
    <3>1. waiting \in Seq(KMsgs) /\ waiting = Inbox(q)
      BY <1>3, QueuesTyped DEF MInv, Inbox
    <3>2. DOMAIN waiting = 1 .. Len(waiting)
      BY <3>1, LenProperties
    <3>3. PICK i \in 1 .. Len(waiting) : m = waiting[i]
      BY <1>3, <2>2, <3>1, <3>2 DEF Range
    <3>4. ~Wanted(m, r)
      BY <1>9, <3>3
    <3> QED
      BY <3>4 DEF Wanted
  <2>6. Remembered(q)'
    BY <1>2, <2>4, <2>5 DEF Remembered, At
  <2>7. Waited(q)'
    BY <1>3, <2>2, <2>6 DEF Waited
  <2> QED
    BY <1>2, <1>4, <2>3, <2>4, <2>7, Undisturbed DEF Hushed
<1> QED
  BY <1>1, <1>7, <1>8, <1>9


(* TPReceive looks at once and LookAgain after a wait.                     *)
LEMMA ReceivesRemembered ==
  ASSUME MInv, MInv', Homed, Remembering,
         (\E r \in Receives : TPReceive(r)) \/ \E q \in Procs : LookAgain(q)
  PROVE  Remembering'
<1>1. ASSUME NEW r \in Receives, TPReceive(r) PROVE Remembering'
  <2>1. r.proc \in Procs
    BY MessagesAssumption
  <2>2. stack[r.proc] = <<>> /\ UNCHANGED <<PortArray, kmsg, FreeKMsgQ>>
    BY <1>1 DEF TPReceive, Idle
  <2>3. PICK l : Look(r.proc, l)
    BY <1>1 DEF TPReceive
  <2> QED
    BY <2>1, <2>2, <2>3, LookRemembered
<1>2. ASSUME NEW q \in Procs, LookAgain(q) PROVE Remembering'
  <2>1. At(q, "MsgWait") /\ Look(q, Top(q).for) /\ UNCHANGED <<PortArray, kmsg, FreeKMsgQ>>
    BY <1>2 DEF LookAgain
  <2>2. PICK l : Look(q, l)
    BY <2>1
  <2> QED
    BY <2>1, <2>2, LookRemembered
<1> QED
  BY <1>1, <1>2


(* What moves up comes to the process that receives, which is awake.       *)
LEMMA MoveUpRemembered ==
  ASSUME MInv, MInv', Homed, Remembering, NEW q \in Procs, MoveUp(q)
  PROVE  Remembering'
<1> DEFINE p == Top(q).port
           m == Top(q).kmsg
           more == PortArray[p].SecondaryMsgQ
           f == Frame(IF kmsg[m].What = "DONT_WAKE" THEN "CopyOut" ELSE "Answer", m)
<1>1. /\ stack[q] # <<>> /\ Top(q).do = "Taken" /\ Then(q, <<f>>) /\ UNCHANGED <<kmsg, FreeKMsgQ>>
      /\ PortArray' = [PortArray EXCEPT ![p].NumQueued = IF kmsg[m].emerg THEN @ ELSE @ - 1,
                                        ![p].SecondaryMsgQ = IF more = <<>> THEN @ ELSE Tail(@)]
      /\ ProcArray' = IF more = <<>> THEN ProcArray
                      ELSE [ProcArray EXCEPT ![q].MsgsWaiting = Append(@, Head(more))]
  BY DEF MoveUp, At
<1>2. p \in Ports /\ q \in AllProcs /\ Typed /\ Typed'
  BY <1>1, Popped, FrameIs, Numbers DEF MInv
<1>3. f.do \notin Waits \cup Unposted
  BY DEF Frame, Waits, Unposted
<1> HIDE DEF f
<1>4. Calling(q)
  BY <1>1, <1>3, CallingFew
<1>5. \A x \in Ports : PortArray'[x].Locked = PortArray[x].Locked
  <2> DEFINE c == IF kmsg[m].emerg THEN PortArray[p].NumQueued ELSE PortArray[p].NumQueued - 1
             d == IF more = <<>> THEN more ELSE Tail(more)
  <2>1. PortArray' = [PortArray EXCEPT ![p].NumQueued = c, ![p].SecondaryMsgQ = d]
    BY <1>1, <1>2 DEF Typed, PortRecords
  <2> HIDE DEF c, d
  <2> QED
    BY <1>2, <2>1, LockedStays
<1>6. \A x \in AllProcs \ {q} : ProcArray'[x] = ProcArray[x]
  BY <1>1, <1>2 DEF Typed
<1>7. \A x \in AllProcs \ {q} : Inbox(x)' = Inbox(x)
  BY <1>6 DEF Inbox
<1>8. \A x : ~Wakes(q, x)
  BY <1>1 DEF Wakes, At
<1>9. Delivers(q)
  BY <1>1, <1>5, <1>7, <1>8, Undelivered, Numbers
<1>10. Rouses(q) /\ Hushed /\ Spares(q)
  BY <1>1, <1>6, Numbers DEF Rouses, Hushed, Spares
<1> QED
  BY <1>1, <1>2, <1>4, <1>9, <1>10, GoesOn


(* A wait that times out or is interrupted is no sleep any more.           *)
LEMMA CutShortRemembered ==
  ASSUME MInv, MInv', Homed, Remembering, NEW q \in Procs, asleepexpire(q) \/ Interrupt(q)
  PROVE  Remembering'
<1>1. /\ stack[q] # <<>> /\ Top(q).do \in Waits /\ UNCHANGED <<PortArray, kmsg, FreeKMsgQ>>
      /\ Typed /\ Typed' /\ q \in AllProcs
  BY Numbers DEF asleepexpire, Interrupt, Sleeping, At, Waits, MInv
<1>2. Spares(q) /\ Hushed
  BY <1>1 DEF Spares, Hushed
<1>3. \A x : ~Wakes(q, x)
  BY <1>1 DEF Wakes, At, Waits
<1>4. CASE asleepexpire(q)
  <2>1. ProcArray' = [ProcArray EXCEPT ![q].State = "TIMED_OUT"] /\ UNCHANGED stack
    BY <1>4 DEF asleepexpire
  <2>2. \A x \in AllProcs : /\ Inbox(x)' = Inbox(x)
                            /\ ProcArray'[x].State = IF x = q THEN "TIMED_OUT" ELSE ProcArray[x].State
    BY <1>1, <2>1, StateIs, StateSet
  <2>3. Rouses(q) /\ Delivers(q)
    BY <1>1, <1>3, <2>2, Undelivered, Numbers DEF Rouses
  <2>4. Waited(q)'
    BY <1>1, <2>2 DEF Waited, Sleeping, Waiting
  <2>5. /\ \A f \in Members(Tail(stack'[q])) : f.do \notin Waits
        /\ \A f \in Members(stack'[q]) : f.do \in Unposted => kmsg'[f.kmsg].What = "DONT_WAKE"
    BY <1>1, <2>1 DEF Remembering, Uncovered, Unanswered
  <2> QED
    BY <1>2, <2>1, <2>3, <2>4, <2>5, Undisturbed DEF Hushed
<1>5. CASE Interrupt(q)
  <2> DEFINE g == [Top(q) EXCEPT !.signalled = TRUE]
  <2>1. Then(q, <<g>>) /\ UNCHANGED ProcArray
    BY <1>5 DEF Interrupt
  <2>2. g.signalled /\ g.do = Top(q).do
    BY <1>1, Popped, FrameIs DEF Waits
  <2>3. Tail(stack[q]) = <<>>
    BY <1>1, LastIs DEF Lasts, Waits
  <2> HIDE DEF g
  <2>4. /\ \A r \in Procs \ {q} : stack'[r] = stack[r]
        /\ stack'[q] # <<>> /\ Top(q)' = g /\ Members(Tail(stack'[q])) = {}
        /\ \A f \in Members(stack'[q]) : f = g
    BY <1>1, <2>1, <2>3, WholeStack
  <2>5. Rouses(q) /\ Delivers(q)
    BY <1>1, <1>3, <2>1, Undelivered DEF Rouses, Inbox
  <2>6. Waited(q)'
    <3>1. ~Sleeping(q)'
      BY <2>2, <2>4 DEF Sleeping
    <3>2. At(q, "MsgWait")' => At(q, "MsgWait")
      BY <1>1, <2>2, <2>4 DEF At
    <3> QED
      BY <2>1, <3>1, <3>2 DEF Remembering, Waited
  <2>7. g.do \notin Unposted
    BY <1>1, <2>2 DEF Waits, Unposted
  <2> QED
    BY <1>2, <2>4, <2>5, <2>6, <2>7, Undisturbed DEF Hushed
<1> QED
  BY <1>4, <1>5


-----------------------------------------------------------------------------
(* The calls.                                                              *)

(* A call by q that puts no more on its stack than a frame that does not   *)
(* wait.                                                                   *)
LEMMA CallRemembered ==
  ASSUME MInv, MInv', Homed, Remembering, NEW q \in Procs, stack[q] = <<>>,
         \/ UNCHANGED stack
         \/ \E f : f.do \notin Waits \cup Unposted /\ stack' = [stack EXCEPT ![q] = <<f>>],
         UNCHANGED <<kmsg, FreeKMsgQ>>, Rouses(q),
         \A r \in AllProcs : Inbox(r)' = Inbox(r),
         \A p \in Ports : \/ PortArray'[p].Locked = PortArray[p].Locked
                          \/ ~PortArray[p].InUse \/ PortArray[p].Receiver = q
  PROVE  Remembering'
<1>1. Spares(q) /\ Hushed /\ Typed /\ Typed'
  BY DEF Spares, Hushed, MInv
<1>2. \A x : ~Wakes(q, x)
  BY DEF Wakes, At
<1>3. Delivers(q)
  BY <1>2, Undelivered, Numbers
<1>4. CASE UNCHANGED stack
  <2>1. Members(<<>>) = {} /\ stack'[q] = <<>>
    BY <1>4 DEF Members
  <2> QED
    BY <1>1, <1>3, <1>4, <2>1, Passes
<1>5. ASSUME NEW f, f.do \notin Waits \cup Unposted, stack' = [stack EXCEPT ![q] = <<f>>]
      PROVE  Remembering'
  <2>1. /\ \A r \in Procs \ {q} : stack'[r] = stack[r]
        /\ \A x \in Members(stack'[q]) : x = f
    BY <1>1, <1>5, WholeStack
  <2> QED
    BY <1>1, <1>3, <1>5, <2>1, Passes
<1> QED
  BY <1>4, <1>5


(* TPSend copies in a message that wakes nobody.                           *)
LEMMA TPSendRemembered ==
  ASSUME MInv, MInv', Homed, Remembering, NEW s \in Sends, TPSend(s)
  PROVE  Remembering'
<1> DEFINE q == s.proc
<1>1. q \in Procs
  BY MessagesAssumption
<1>2. PICK m \in FreeKMsgQ :
        /\ \E c : c.What = "DONT_WAKE" /\ Allocate(m, c)
        /\ stack' = [stack EXCEPT ![q] = SendFrames(m, s.how, s.type)]
        /\ UNCHANGED <<PortArray, ProcArray>> /\ stack[q] = <<>>
  BY DEF TPSend, SendFrames, Idle, Message
<1> HIDE DEF q
<1>3. Typed /\ Typed' /\ m \in KMsgs /\ \A x \in KMsgs \ {m} : kmsg'[x] = kmsg[x]
  BY <1>2 DEF Allocate, MInv, Typed
<1>4. Spares(q) /\ Hushed /\ kmsg'[m].What = "DONT_WAKE"
  BY <1>1, <1>2, <1>3, Forms
<1>5. stack'[q] = SendFrames(m, s.how, s.type) /\ \A r \in Procs \ {q} : stack'[r] = stack[r]
  BY <1>1, <1>2, <1>3 DEF Typed
<1>6. \A x \in Members(SendFrames(m, s.how, s.type)) : x.do \in {"LTran", "Post"} /\ x.kmsg = m
  <2> DEFINE f == Frame("LTran", m)
             g == [do |-> "Post", kmsg |-> m, how |-> s.how]
  <2>1. f.do = "LTran" /\ f.kmsg = m /\ g.do = "Post" /\ g.kmsg = m
    BY DEF Frame
  <2>2. SendFrames(m, s.how, s.type) = IF s.type = "none" THEN <<>> \o <<g>> ELSE <<f>> \o <<g>>
    BY DEF SendFrames
  <2> HIDE DEF f, g
  <2>3. <<>> \in Seq({f, g}) /\ <<f>> \in Seq({f, g}) /\ <<g>> \in Seq({f, g})
    OBVIOUS
  <2>4. SendFrames(m, s.how, s.type) \in Seq({f, g})
    BY <2>2, <2>3, ConcatProperties
  <2> QED
    BY <2>1, <2>4, MembersAre
<1>7. Rouses(q) /\ Delivers(q)
  <2>1. \A x : ~Wakes(q, x)
    BY <1>2 DEF Wakes, At
  <2>2. \A x \in KMsgs : kmsg'[x].RemotePort = kmsg[x].RemotePort \/ x \in FreeKMsgQ
    BY <1>2, <1>3
  <2> QED
    BY <1>1, <1>2, <2>1, <2>2, Undelivered DEF Rouses, Inbox
<1>8. \A x \in Members(stack'[q]) : x.do \notin Waits /\ kmsg'[x.kmsg].What = "DONT_WAKE"
  BY <1>4, <1>5, <1>6 DEF Waits
<1> QED
  BY <1>1, <1>3, <1>4, <1>5, <1>7, <1>8, Passes


(* The calls that begin a walk over rights, lock a port or set a backlog.  *)
LEMMA CallsRemembered ==
  ASSUME MInv, MInv', Homed, Remembering,
         \/ \E d \in Deallocates : DeallocatePort(d.proc, d.port)
         \/ \E q \in Mortals : Suicide(q)
         \/ \E l \in Locks : TPLockPorts(l)
         \/ \E b \in Backlogs : SetBackLog(b)
  PROVE  Remembering'
<1>1. /\ \A d \in Deallocates \cup Locks \cup Backlogs : d.proc \in Procs /\ d.port \in Ports
      /\ Mortals \subseteq Procs /\ Typed
  BY MessagesAssumption DEF MInv
<1>2. ASSUME NEW d \in Deallocates, DeallocatePort(d.proc, d.port)
      PROVE  Remembering'
  <2>1. d.proc \in Procs
    BY <1>1
  <2> DEFINE q == d.proc
             f == [do |-> "RemPort", port |-> d.port]
  <2>2. /\ stack[q] = <<>> /\ stack' = [stack EXCEPT ![q] = <<f>>]
        /\ UNCHANGED <<PortArray, ProcArray, kmsg, FreeKMsgQ>>
    BY <1>2 DEF DeallocatePort
  <2>3. f.do \notin Waits \cup Unposted
    BY DEF Waits, Unposted
  <2> HIDE DEF f, q
  <2>4. q \in Procs
    BY <2>1 DEF q
  <2>5. Rouses(q) /\ \A r \in AllProcs : Inbox(r)' = Inbox(r)
    BY <2>2 DEF Rouses, Inbox
  <2> QED
    BY <2>2, <2>3, <2>4, <2>5, CallRemembered
<1>3. ASSUME NEW q \in Mortals, Suicide(q)
      PROVE  Remembering'
  <2> DEFINE f == [do |-> "Scan", next |-> 1, haveports |-> FALSE]
  <2>1. q \in Procs /\ q \in AllProcs
    BY <1>1, Numbers
  <2>2. /\ stack[q] = <<>> /\ stack' = [stack EXCEPT ![q] = <<f>>]
        /\ UNCHANGED <<PortArray, kmsg, FreeKMsgQ>>
        /\ ProcArray' = [ProcArray EXCEPT ![q].Active = FALSE, ![q].State = "NOT_WAITING"]
    BY <1>3 DEF Suicide
  <2>3. f.do \notin Waits \cup Unposted
    BY DEF Waits, Unposted
  <2> HIDE DEF f
  <2>4. Rouses(q) /\ \A r \in AllProcs : Inbox(r)' = Inbox(r)
    <3>1. \A r \in AllProcs : Inbox(r)' = Inbox(r)
      BY <1>1, <2>1, <2>2 DEF Typed, ProcRecords, Inbox
    <3>2. \A r \in AllProcs \ {q} : ProcArray'[r] = ProcArray[r]
      BY <1>1, <2>1, <2>2 DEF Typed
    <3> QED
      BY <3>1, <3>2, Numbers DEF Rouses
  <2> QED
    BY <2>1, <2>2, <2>3, <2>4, CallRemembered
<1>4. ASSUME NEW l \in Locks, TPLockPorts(l)
      PROVE  Remembering'
  <2>1. /\ l.proc \in Procs /\ l.port \in Ports /\ stack[l.proc] = <<>>
        /\ PortArray[l.port].Receiver = l.proc
        /\ UNCHANGED <<ProcArray, kmsg, FreeKMsgQ, stack>>
        /\ PortArray' = [PortArray EXCEPT ![l.port].Locked = ~PortArray[l.port].Locked]
    BY <1>1, <1>4 DEF TPLockPorts, Idle
  <2>2. \A p \in Ports \ {l.port} : PortArray'[p] = PortArray[p]
    BY <1>1, <2>1 DEF Typed
  <2>3. \A p \in Ports : PortArray'[p].Locked = PortArray[p].Locked \/ PortArray[p].Receiver = l.proc
    BY <2>1, <2>2
  <2>4. Rouses(l.proc) /\ \A r \in AllProcs : Inbox(r)' = Inbox(r)
    BY <2>1 DEF Rouses, Inbox
  <2> QED
    BY <2>1, <2>3, <2>4, CallRemembered
<1>5. ASSUME NEW b \in Backlogs, SetBackLog(b)
      PROVE  Remembering'
  <2>1. /\ b.proc \in Procs /\ b.port \in Ports /\ stack[b.proc] = <<>>
        /\ UNCHANGED <<ProcArray, kmsg, FreeKMsgQ, stack>>
        /\ PortArray' = [PortArray EXCEPT ![b.port].Backlog = b.backlog]
    BY <1>1, <1>5 DEF SetBackLog, Idle
  <2>2. \A p \in Ports : PortArray'[p].Locked = PortArray[p].Locked
    BY <1>1, <2>1, LockedStays
  <2>3. Rouses(b.proc) /\ \A r \in AllProcs : Inbox(r)' = Inbox(r)
    BY <2>1 DEF Rouses, Inbox
  <2> QED
    BY <2>1, <2>2, <2>3, CallRemembered
<1> QED
  BY <1>2, <1>3, <1>4, <1>5


(* AllocatePort, and the fork of a process that sleeps for nothing yet.    *)
LEMMA OpensRemembered ==
  ASSUME MInv, MInv', Homed, Remembering, Reused,
         \/ \E q \in Allocators : AllocatePort(q, ActualDefaultBacklog)
         \/ \E q \in Forkers : Activate(q, ActualDefaultBacklog)
  PROVE  Remembering'
<1>1. Allocators \subseteq Procs /\ Forkers \subseteq Procs /\ Typed
  BY MessagesAssumption DEF MInv
<1>2. ASSUME NEW p \in Ports, ~PortArray[p].InUse, NEW c, PortArray' = [PortArray EXCEPT ![p] = c]
      PROVE  \A x \in Ports : PortArray'[x].Locked = PortArray[x].Locked \/ ~PortArray[x].InUse
  <2>1. \A x \in Ports \ {p} : PortArray'[x] = PortArray[x]
    BY <1>1, <1>2 DEF Typed
  <2> QED
    BY <1>2, <2>1
<1>3. ASSUME NEW q \in Allocators, AllocatePort(q, ActualDefaultBacklog)
      PROVE  Remembering'
  <2>1. /\ FreePortQ # <<>> /\ stack[q] = <<>> /\ q \in Procs
        /\ PortArray' = [PortArray EXCEPT ![Head(FreePortQ)] = NewPort(q, ActualDefaultBacklog)]
        /\ UNCHANGED <<ProcArray, kmsg, FreeKMsgQ, stack>>
    BY <1>1, <1>3 DEF AllocatePort
  <2>2. \A x \in Ports : PortArray'[x].Locked = PortArray[x].Locked \/ ~PortArray[x].InUse
    BY <1>2, <2>1, NextPort
  <2>3. Rouses(q) /\ \A r \in AllProcs : Inbox(r)' = Inbox(r)
    BY <2>1 DEF Rouses, Inbox
  <2> QED
    BY <2>1, <2>2, <2>3, CallRemembered
<1>4. ASSUME NEW parent \in Forkers, Activate(parent, ActualDefaultBacklog)
      PROVE  Remembering'
  <2>1. PICK n : /\ FreeProcQ # <<>> /\ stack[parent] = <<>> /\ parent \in Procs
                 /\ n.MsgsWaiting = <<>> /\ n.State = "NOT_WAITING"
                 /\ ProcArray' = [ProcArray EXCEPT ![Head(FreeProcQ)] = n]
                 /\ \/ UNCHANGED PortArray
                    \/ /\ FreePortQ # <<>>
                       /\ PortArray' = [PortArray EXCEPT ![Head(FreePortQ)] =
                                          NewPort(Head(FreeProcQ), ActualDefaultBacklog)]
                 /\ UNCHANGED <<kmsg, FreeKMsgQ, stack>>
    BY <1>1, <1>4, ActivateIs
  <2>2. FreeProcQ \in Seq(Procs)
    BY <1>1 DEF Typed
  <2>3. PICK q \in Procs : q = Head(FreeProcQ) /\ q \in Members(FreeProcQ)
    BY <2>1, <2>2, MembersParts, MembersAre
  <2>5. ProcArray'[q] = n /\ \A r \in AllProcs \ {q} : ProcArray'[r] = ProcArray[r]
    BY <1>1, <2>1, <2>3, Numbers DEF Typed
  <2>6. \A r \in AllProcs : Inbox(r)' = Inbox(r)
    BY <2>1, <2>3, <2>5 DEF Reused, Inbox
  <2>7. Rouses(parent)
    BY <2>1, <2>5, Numbers DEF Rouses, Waiting
  <2>8. \A x \in Ports : PortArray'[x].Locked = PortArray[x].Locked \/ ~PortArray[x].InUse
    BY <1>2, <2>1, NextPort
  <2> QED
    BY <2>1, <2>6, <2>7, <2>8, CallRemembered
<1> QED
  BY <1>3, <1>4


(* The pieces of the calls, ...                                            *)
LEMMA PiecesRemembered ==
  ASSUME MInv, MInv', Homed, Remembering, OwnWithdrawn, NEW q \in Procs, Proceed(q)
  PROVE  Remembering'
<1>1. CASE GiveOwnership(q) \/ GTran(q) \/ RemPort(q) \/ Scan(q)
  BY <1>1, PlainRemembered
<1>2. CASE GiveReceiveRights(q)
  BY <1>2, GiveReceiveRightsRemembered
<1>3. CASE WakeReceiver(q) \/ WakeForMsg(q)
  BY <1>3, WakesRemembered
<1>4. CASE SendKernelMsg(q) \/ PackMsg(q)
  BY <1>4, SendKernelMsgRemembered
<1>5. CASE QueueMsg(q)
  BY <1>5, QueueMsgRemembered
<1>6. CASE DelPort(q)
  BY <1>6, DelPortRemembered
<1>7. CASE Release(q)
  BY <1>7, ReleaseRemembered
<1>8. CASE Notify(q)
  BY <1>8, NotifyRemembered
<1>9. CASE LTran(q) \/ PostNowhere(q) \/ PostRefused(q)
  BY <1>9, FailsRemembered
<1>10. CASE Post(q)
  BY <1>10, PostRemembered
<1>11. CASE PostLater(q)
  BY <1>11, PostLaterRemembered
<1>12. CASE Sent(q) \/ GiveUp(q)
  BY <1>12, EndRemembered
<1>13. CASE Withdraw(q)
  BY <1>13, WithdrawRemembered
<1>14. CASE LookAgain(q)
  BY <1>14, ReceivesRemembered
<1>15. CASE MoveUp(q)
  BY <1>15, MoveUpRemembered
<1>16. CASE Answer(q)
  BY <1>16, AnswerRemembered
<1>17. CASE CopyOut(q)
  BY <1>17, CopyOutRemembered
<1> QED
  BY <1>1, <1>2, <1>3, <1>4, <1>5, <1>6, <1>7, <1>8, <1>9, <1>10, <1>11, <1>12, <1>13, <1>14, <1>15,
     <1>16, <1>17 DEF Proceed, PortSteps


(* ... and all steps.                                                      *)
LEMMA StepRemembered ==
  ASSUME MInv, MInv', Homed, Remembering, Reused, OwnWithdrawn, [Next]_ipc
  PROVE  Remembering'
<1>1. CASE \E s \in Sends : TPSend(s)
  BY <1>1, TPSendRemembered
<1>2. CASE \E r \in Receives : TPReceive(r)
  BY <1>2, ReceivesRemembered
<1>3. CASE \/ \E d \in Deallocates : DeallocatePort(d.proc, d.port)
           \/ \E q \in Mortals : Suicide(q)
           \/ \E l \in Locks : TPLockPorts(l)
           \/ \E b \in Backlogs : SetBackLog(b)
  BY <1>3, CallsRemembered
<1>4. CASE \/ \E q \in Allocators : AllocatePort(q, ActualDefaultBacklog)
           \/ \E q \in Forkers : Activate(q, ActualDefaultBacklog)
  BY <1>4, OpensRemembered
<1>5. CASE \E q \in Procs : Proceed(q)
  BY <1>5, PiecesRemembered
<1>6. CASE \E q \in Procs : asleepexpire(q) \/ Interrupt(q)
  BY <1>6, CutShortRemembered
<1>7. CASE UNCHANGED ipc
  <2>1. UNCHANGED <<PortArray, ProcArray, kmsg, FreeKMsgQ, stack>>
    BY <1>7 DEF ipc
  <2>2. Uncovered' /\ Unanswered'
    BY <2>1 DEF Remembering, Uncovered, Unanswered
  <2>3. \A q \in Procs : Waited(q)'
    <3>1. \A q, r \in Procs : Wakes(q, r)' <=> Wakes(q, r)
      BY <2>1 DEF Wakes, At, Top
    <3>2. \A m, f : Wanted(m, f)' <=> Wanted(m, f)
      BY <2>1 DEF Wanted
    <3>3. \A q \in Procs : /\ Top(q)' = Top(q) /\ Inbox(q)' = Inbox(q) /\ Sleeping(q)' = Sleeping(q)
                           /\ At(q, "FullWait")' = At(q, "FullWait") /\ At(q, "MsgWait")' = At(q, "MsgWait")
      BY <2>1 DEF At, Top, Inbox, Sleeping
    <3> QED
      BY <2>1, <3>1, <3>2, <3>3 DEF Remembering, Waited, Remembered
  <2> QED
    BY <2>2, <2>3 DEF Remembering
<1> QED
  BY <1>1, <1>2, <1>3, <1>4, <1>5, <1>6, <1>7 DEF Next, Calls


(* Nobody sleeps to begin with.                                            *)
LEMMA BegunRemembered == Init => Remembering
<1> SUFFICES ASSUME Init PROVE Remembering
  OBVIOUS
<1>1. \A q \in Procs : stack[q] = <<>>
  BY DEF Init
<1>2. Members(<<>>) = {}
  BY DEF Members
<1>3. \A q \in Procs : Waited(q)
  BY <1>1 DEF Waited, Sleeping, At
<1> QED
  BY <1>1, <1>2, <1>3 DEF Remembering, Uncovered, Unanswered


(* What it says of those that sleep.                                       *)
LEMMA RememberedAre ==
  ASSUME MInv, Remembering
  PROVE  SleeperRemembered
<1> SUFFICES ASSUME NEW q \in Procs, Sleeping(q)
             PROVE  /\ At(q, "FullWait") =>
                         LET m == kmsg[Top(q).kmsg] IN
                         Top(q).kmsg \notin FreeKMsgQ /\ m.What = "WAKE_ME" /\ m.WakeupProc = q
                    /\ At(q, "MsgWait") =>
                         \/ \A m \in Members(ProcArray[q].MsgsWaiting) : ~Wanted(m, Top(q).for)
                         \/ \E r \in Procs : (At(r, "WakeForMsg") \/ At(r, "IPCWakeup")) /\ Top(r).to = q
  BY DEF SleeperRemembered
<1>1. Remembered(q)
  BY DEF Remembering, Waited
<1>2. Members(ProcArray[q].MsgsWaiting) = Range(Inbox(q))
  BY QueuesTyped, Numbers, MembersAre DEF MInv, Inbox
<1> QED
  BY <1>1, <1>2 DEF Remembered, Wakes


(* No wake-up is lost: the message of a sender that sleeps says to wake    *)
(* it, and a process that sleeps for a message has none that it wants      *)
(* unless it is about to be told, as long as a send takes back no message  *)
(* but its own.                                                            *)
THEOREM SleepersRemembered ==
  Spec /\ []Reused /\ []ReceiverStays /\ []OwnWithdrawn => []SleeperRemembered
<1>1. Init => MInv /\ Counting /\ Remembering
  BY Begun, BegunCounted, BegunRemembered
<1>2. MInv /\ Counting /\ Remembering /\ ReceiverStays /\ Reused /\ OwnWithdrawn /\ [Next]_ipc
        => MInv' /\ Counting' /\ Remembering'
  BY StepCounted, StepRemembered DEF CountsKept, Counting
<1>3. MInv /\ Remembering => SleeperRemembered
  BY RememberedAre
<1> QED
  BY <1>1, <1>2, <1>3, PTL DEF Spec

-----------------------------------------------------------------------------
(* A right in transit is on its way.                                       *)

(* The receive right and the ownership of a port; the types of message     *)
(* that carry it, the piece that gives it and who has it.                  *)
Sides == {"Receiver", "Owner"}
TypesOf(x) == IF x = "Receiver" THEN {"TypePtReceive", "TypePtAll"} ELSE {"TypePtOwnership", "TypePtAll"}
GiveOf(x) == IF x = "Receiver" THEN "GiveReceiveRights" ELSE "GiveOwnership"
HolderOf(p, x) == IF x = "Receiver" THEN PortArray[p].Receiver ELSE PortArray[p].Owner
Gives == {"GiveOwnership", "GiveReceiveRights"}

(* a right in transit, a message it is in, and one that it needs           *)
Underway(p, x) == PortArray[p].InUse /\ HolderOf(p, x) = RIGHTS_IN_TRANSIT
Bears(m, p, x) == kmsg[m].type \in TypesOf(x) /\ kmsg[m].port = p
Needed(m) == \E p \in Ports, x \in Sides : Underway(p, x) /\ Bears(m, p, x)

(* a message in a queue; one that a call has copied in and has not copied  *)
(* out yet; and what a call does to give the right to a process            *)
Filed(m) == (\E q \in AllProcs : m \in Range(Inbox(q))) \/ \E p \in Ports : m \in Range(Second(p))
Bringing == {"Post", "QueueMsg", "Taken", "Answer", "CopyOut"}
Brings(q, m) == /\ \A f \in Members(stack[q]) : f.do # "LTran"
                /\ \E f \in Members(stack[q]) : f.do \in Bringing /\ f.kmsg = m
Shipped(m) == Filed(m) \/ \E q \in Procs : Brings(q, m)
Hands(f, p, x) == \/ f.do = "GTran" /\ f.port = p /\ f.type \in TypesOf(x)
                  \/ f.do = GiveOf(x) /\ f.port = p /\ f.to # RIGHTS_IN_TRANSIT
OnItsWay(p, x) == \/ \E m \in KMsgs : Shipped(m) /\ Bears(m, p, x)
                  \/ \E q \in Procs : \E f \in Members(stack[q]) : Hands(f, p, x)

(* MKMsgFree does not look at rights in the message. No message that has   *)
(* one in transit is destroyed: sent or queued to a port that is not there *)
(* or is full, taken back, queued at a port that is deleted, or received   *)
(* where it does not fit in.                                               *)
Undestroyed ==
  \A q \in Procs : LET f == Top(q) IN
    /\ At(q, "Post") /\ Needed(f.kmsg) =>
         Posting(q) /\ (f.how # "DontWait" \/ Room(f.kmsg, kmsg[f.kmsg].RemotePort))
    /\ At(q, "QueueMsg") /\ Needed(f.kmsg) => PortArray[kmsg[f.kmsg].RemotePort].InUse
    /\ At(q, "FullWait") /\ Ended(q) /\ InSeq(f.kmsg, PortArray[f.port].SecondaryMsgQ) => ~Needed(f.kmsg)
    /\ At(q, "DelPort") /\ PortArray[f.port].InUse =>
         \A m \in Members(Primary(f.port)) \cup Members(PortArray[f.port].SecondaryMsgQ) : ~Needed(m)
    /\ At(q, "CopyOut") /\ Needed(f.kmsg) => [proc |-> q, type |-> kmsg[f.kmsg].type] \notin Cramped

(* No right is in transit to begin with.                                   *)
Settled == \A p \in Ports : InitPort[p].InUse =>
             RIGHTS_IN_TRANSIT \notin {InitPort[p].Receiver, InitPort[p].Owner}

(* A right in transit is on its way; one that is about to go into transit  *)
(* goes with a message that the same call will post; and only a process    *)
(* that is alive receives.                                                 *)
Carried == \A p \in Ports, x \in Sides : Underway(p, x) => OnItsWay(p, x)
Departs(q) == \A x \in Sides : \A f \in Members(stack[q]) :
                f.do = GiveOf(x) /\ f.to = RIGHTS_IN_TRANSIT =>
                  \E g \in Members(stack[q]) : g.do = "Post" /\ Bears(g.kmsg, f.port, x)
Receivings == {"Taken", "MsgWait", "Answer", "CopyOut", "GTran"}
Alive(q) == (\E f \in Members(stack[q]) : f.do \in Receivings) => ProcArray[q].Active
Conveying == Carried /\ \A q \in Procs : Departs(q) /\ Alive(q)

-----------------------------------------------------------------------------
(* What a step of q does to rights in transit.                             *)

(* the right in a message is the same after the step; and a message that   *)
(* q brings or that is filed is so after it, or the right is in q's hands  *)
Unaltered(m) == kmsg'[m].type = kmsg[m].type /\ kmsg'[m].port = kmsg[m].port
GetsOut(f, m) == f.do = "GTran" /\ f.type = kmsg[m].type /\ f.port = kmsg[m].port
Onward(q, m) == \/ Unaltered(m) /\ (Filed(m)' \/ Brings(q, m)')
                \/ \E f \in Members(stack'[q]) : GetsOut(f, m)

(* A frame on a stack holds what its kind does.                            *)
LEMMA MemberHolds ==
  ASSUME Typed, NEW q \in Procs, NEW f \in Members(stack[q])
  PROVE  /\ f \in Frames
         /\ f.do \in Holding => f.kmsg \in KMsgs /\ Holds(stack[q], f.kmsg)
<1>1. stack[q] \in Seq(Frames)
  BY DEF Typed
<1>2. PICK i \in 1 .. Len(stack[q]) : f = stack[q][i]
  BY DEF Members
<1>3. f \in Frames
  BY <1>1, <1>2, ElementOfSeq
<1> QED
  BY <1>2, <1>3, FrameIs DEF Holds


(* A message in a queue is not free and in the hands of no call.           *)
LEMMA FiledAlone ==
  ASSUME MInv, NEW m \in KMsgs, Filed(m)
  PROVE  m \notin FreeKMsgQ /\ \A q \in Procs : ~Holds(stack[q], m)
<1>1. CASE \E q \in AllProcs : m \in Range(Inbox(q))
  <2>1. PICK q \in AllProcs : m \in Range(Inbox(q))
    BY <1>1
  <2>2. In(m, "primary", q) /\ "primary" \in Kinds /\ q \in Slots
    BY <2>1, Numbers DEF In, Kinds
  <2> QED
    BY <2>2, Alone
<1>2. CASE \E p \in Ports : m \in Range(Second(p))
  <2>1. PICK p \in Ports : m \in Range(Second(p))
    BY <1>2
  <2>2. In(m, "secondary", p) /\ "secondary" \in Kinds /\ p \in Slots
    BY <2>1, Numbers DEF In, Kinds
  <2> QED
    BY <2>2, Alone
<1> QED
  BY <1>1, <1>2 DEF Filed


(* A step that loses no message that is needed and lets no right out of    *)
(* its hands keeps every right on its way.                                 *)
LEMMA Conveyed ==
  ASSUME MInv, Conveying, NEW q \in Procs,
         \A r \in Procs \ {q} : stack'[r] = stack[r],
         \A r \in Procs \ {q} : ProcArray[r].Active => ProcArray'[r].Active,
         \A m \in KMsgs : Unaltered(m) \/ m \in FreeKMsgQ \/ Holds(stack[q], m) \/ Filed(m),
         \A m \in KMsgs : Needed(m) /\ (Filed(m) \/ Brings(q, m)) => Onward(q, m),
         \A p \in Ports, x \in Sides : \A f \in Members(stack[q]) :
           Hands(f, p, x) /\ Underway(p, x)' => \E g \in Members(stack'[q]) : Hands(g, p, x),
         \A p \in Ports, x \in Sides : Underway(p, x)' => Underway(p, x) \/ OnItsWay(p, x)',
         Departs(q)', Alive(q)'
  PROVE  Conveying'
<1>1. ASSUME NEW r \in Procs \ {q}, NEW m \in KMsgs, Holds(stack[r], m)
      PROVE  Unaltered(m)
  <2>1. m \notin FreeKMsgQ /\ ~Holds(stack[q], m)
    BY <1>1, HeldAlone
  <2>2. ~Filed(m)
    BY <1>1, FiledAlone
  <2> QED
    BY <2>1, <2>2
<1>2. ASSUME NEW r \in Procs \ {q}, NEW m \in KMsgs, Brings(r, m)
      PROVE  Brings(r, m)' /\ Unaltered(m)
  <2>1. Brings(r, m)'
    BY <1>2 DEF Brings
  <2>2. Holds(stack[r], m)
    <3>1. PICK f \in Members(stack[r]) : f.do \in Bringing /\ f.kmsg = m
      BY <1>2 DEF Brings
    <3>2. f.do \in Holding
      BY <3>1 DEF Bringing, Holding
    <3> QED
      BY <3>1, <3>2, MemberHolds DEF MInv
  <2> QED
    BY <1>1, <2>1, <2>2
<1>3. ASSUME NEW p \in Ports, NEW x \in Sides, Underway(p, x)', Underway(p, x)
      PROVE  OnItsWay(p, x)'
  <2>1. OnItsWay(p, x)
    BY <1>3 DEF Conveying, Carried
  <2>2. ASSUME NEW m \in KMsgs, Shipped(m), Bears(m, p, x)
        PROVE  OnItsWay(p, x)'
    <3>1. CASE \E r \in Procs \ {q} : Brings(r, m)
      <4>1. PICK r \in Procs \ {q} : Brings(r, m)
        BY <3>1
      <4>2. Brings(r, m)' /\ Unaltered(m)
        BY <1>2, <4>1
      <4>3. Shipped(m)' /\ Bears(m, p, x)'
        BY <2>2, <4>2 DEF Shipped, Bears, Unaltered
      <4> QED
        BY <4>3 DEF OnItsWay
    <3>2. CASE Filed(m) \/ Brings(q, m)
      <4>1. Onward(q, m)
        BY <1>3, <2>2, <3>2 DEF Needed
      <4>2. CASE Unaltered(m) /\ (Filed(m)' \/ Brings(q, m)')
        <5>1. Shipped(m)' /\ Bears(m, p, x)'
          BY <2>2, <4>2 DEF Shipped, Bears, Unaltered
        <5> QED
          BY <5>1 DEF OnItsWay
      <4>3. ASSUME NEW f \in Members(stack'[q]), GetsOut(f, m)
            PROVE  OnItsWay(p, x)'
        <5>1. Hands(f, p, x)
          BY <2>2, <4>3 DEF Hands, GetsOut, Bears
        <5> QED
          BY <4>3, <5>1 DEF OnItsWay
      <4> QED
        BY <4>1, <4>2, <4>3 DEF Onward
    <3> QED
      BY <2>2, <3>1, <3>2 DEF Shipped
  <2>3. ASSUME NEW r \in Procs, NEW f \in Members(stack[r]), Hands(f, p, x)
        PROVE  OnItsWay(p, x)'
    <3>1. CASE r = q
      <4>1. PICK g \in Members(stack'[q]) : Hands(g, p, x)
        BY <1>3, <2>3, <3>1
      <4> QED
        BY <4>1 DEF OnItsWay
    <3>2. CASE r # q
      <4>1. f \in Members(stack'[r])
        BY <2>3, <3>2
      <4> QED
        BY <2>3, <4>1 DEF OnItsWay
    <3> QED
      BY <3>1, <3>2
  <2> QED
    BY <2>1, <2>2, <2>3 DEF OnItsWay
<1>4. Carried'
  BY <1>3 DEF Carried
<1>5. ASSUME NEW r \in Procs \ {q} PROVE Departs(r)' /\ Alive(r)'
  <2>1. stack'[r] = stack[r]
    OBVIOUS
  <2>2. Departs(r) /\ Alive(r)
    BY DEF Conveying
  <2>3. \A g \in Members(stack[r]) : g.do = "Post" => Unaltered(g.kmsg)
    BY <1>1, MemberHolds DEF MInv, Holding
  <2>4. \A g \in Members(stack[r]), p \in Ports, x \in Sides :
          g.do = "Post" /\ Bears(g.kmsg, p, x) => Bears(g.kmsg, p, x)'
    BY <2>3 DEF Unaltered, Bears
  <2>5. Departs(r)'
    <3>1. ASSUME NEW x \in Sides, NEW f \in Members(stack[r]), f.do = GiveOf(x), f.to = RIGHTS_IN_TRANSIT
          PROVE  \E g \in Members(stack[r]) : g.do = "Post" /\ Bears(g.kmsg, f.port, x)'
      <4>1. f.port \in Ports
        BY <3>1, MemberHolds, FrameIs DEF MInv, GiveOf
      <4> QED
        BY <2>2, <2>4, <3>1, <4>1 DEF Departs
    <3> QED
      BY <2>1, <3>1 DEF Departs
  <2>6. Alive(r)'
    BY <2>1, <2>2 DEF Alive
  <2> QED
    BY <2>5, <2>6
<1> QED
  BY <1>4, <1>5 DEF Conveying


(* The frames of a stack before and after a piece leaves frames s.         *)
LEMMA MembersThen ==
  ASSUME Typed, NEW q \in Procs, stack[q] # <<>>, NEW S, NEW s \in Seq(S), Then(q, s)
  PROVE  /\ \A r \in Procs \ {q} : stack'[r] = stack[r]
         /\ Members(stack'[q]) = Members(s) \cup Members(Tail(stack[q]))
         /\ Members(stack[q]) = {Top(q)} \cup Members(Tail(stack[q]))
<1> DEFINE t == Tail(stack[q])
           T == S \cup Frames
<1>1. stack \in [Procs -> Seq(Frames)]
  BY DEF Typed
<1>2. stack'[q] = s \o t /\ \A r \in Procs \ {q} : stack'[r] = stack[r]
  BY <1>1 DEF Then
<1>3. /\ Len(stack[q]) \in Nat \ {0} /\ Head(stack[q]) = stack[q][1]
      /\ t \in Seq(Frames) /\ Len(t) = Len(stack[q]) - 1
      /\ \A i \in 1 .. Len(t) : t[i] = stack[q][i + 1]
  BY <1>1, EmptySeq, LenProperties, HeadTailProperties
<1> HIDE DEF t
<1>4. s \in Seq(T) /\ t \in Seq(T)
  BY <1>3, SeqDef
<1> HIDE DEF T
<1>5. /\ Len(s) \in Nat /\ Len(t) \in Nat /\ Len(s \o t) = Len(s) + Len(t)
      /\ \A i \in 1 .. Len(s) + Len(t) :
           (s \o t)[i] = IF i <= Len(s) THEN s[i] ELSE t[i - Len(s)]
  BY <1>4, LenProperties, ConcatProperties
<1>6. \A f \in Members(s \o t) : f \in Members(s) \/ f \in Members(t)
  BY <1>4, MembersJoined
<1>7. \A f \in Members(s) : f \in Members(s \o t)
  <2>1. \A i \in 1 .. Len(s) : i \in 1 .. Len(s \o t) /\ (s \o t)[i] = s[i]
    BY <1>5
  <2> QED
    BY <2>1 DEF Members
<1>8. \A f \in Members(t) : f \in Members(s \o t)
  <2>1. \A i \in 1 .. Len(t) : i + Len(s) \in 1 .. Len(s \o t) /\ (s \o t)[i + Len(s)] = t[i]
    BY <1>5
  <2> QED
    BY <2>1 DEF Members
<1>9. \A f : f \in Members(stack[q]) <=> f = Top(q) \/ f \in Members(t)
  <2>1. /\ \A i \in 1 .. Len(stack[q]) : i = 1 \/ (i - 1 \in 1 .. Len(t) /\ stack[q][i] = t[i - 1])
        /\ \A i \in 1 .. Len(t) : i + 1 \in 1 .. Len(stack[q]) /\ stack[q][i + 1] = t[i]
        /\ 1 \in 1 .. Len(stack[q])
    <3> DEFINE n == Len(stack[q])
               k == Len(t)
               st == stack[q]
    <3>1. n \in Nat \ {0} /\ k \in Nat /\ k = n - 1 /\ \A i \in 1 .. k : t[i] = st[i + 1]
      BY <1>3, <1>5
    <3> HIDE DEF n, k, st
    <3>2. ASSUME NEW i \in 1 .. n, i # 1 PROVE i - 1 \in 1 .. k /\ st[i] = t[i - 1]
      <4>1. i - 1 \in 1 .. k /\ (i - 1) + 1 = i
        BY <3>1, <3>2
      <4> QED
        BY <3>1, <4>1
    <3>3. \A i \in 1 .. k : i + 1 \in 1 .. n /\ st[i + 1] = t[i]
      BY <3>1
    <3>4. 1 \in 1 .. n
      BY <3>1
    <3> QED
      BY <3>2, <3>3, <3>4 DEF n, k, st
  <2>2. Top(q) = stack[q][1]
    BY <1>3 DEF Top
  <2> QED
    BY <2>1, <2>2 DEF Members
<1> QED
  BY <1>2, <1>6, <1>7, <1>8, <1>9 DEF t


(* A call that returns when nothing is left below its piece leaves nothing.*)
LEMMA ReturnsThen ==
  ASSUME Typed, NEW q \in Procs, Tail(stack[q]) = <<>>, Return(q)
  PROVE  Then(q, <<>>)
<1>1. <<>> \o <<>> = <<>>
  BY Joined
<1> QED
  BY <1>1 DEF Return, Then


(* Few frames.                                                             *)
LEMMA MembersFew ==
  ASSUME NEW f, NEW g
  PROVE  Members(<<>>) = {} /\ Members(<<f>>) = {f} /\ Members(<<f, g>>) = {f, g}
<1>1. Members(<<>>) = {}
  BY DEF Members
<1>2. Members(<<f>>) = {f}
  <2>1. Len(<<f>>) = 1 /\ <<f>>[1] = f
    OBVIOUS
  <2>2. 1 .. 1 = {1}
    OBVIOUS
  <2> QED
    BY <2>1, <2>2 DEF Members
<1>3. Members(<<f, g>>) = {f, g}
  <2>1. Len(<<f, g>>) = 2 /\ <<f, g>>[1] = f /\ <<f, g>>[2] = g
    OBVIOUS
  <2>2. 1 .. 2 = {1, 2}
    OBVIOUS
  <2> QED
    BY <2>1, <2>2 DEF Members
<1> QED
  BY <1>1, <1>2, <1>3


(* frames that a piece may leave without more ado                          *)
Sober(q, f) == /\ f.do # "LTran"
               /\ f.do \in Gives => f.to # RIGHTS_IN_TRANSIT
               /\ f.do \in Receivings => Top(q).do \in Receivings

(* A piece that leaves such frames, and passes on what its own had in      *)
(* hand, keeps every right on its way.                                     *)
LEMMA Forwards ==
  ASSUME MInv, Conveying, NEW q \in Procs, stack[q] # <<>>, Top(q).do # "LTran",
         NEW S, NEW s \in Seq(S), Then(q, s), \A f \in Members(s) : Sober(q, f),
         \A r \in Procs : ProcArray[r].Active => ProcArray'[r].Active,
         \A m \in KMsgs : \/ Unaltered(m) \/ m \in FreeKMsgQ \/ (Filed(m) /\ ~Needed(m))
                          \/ Top(q).do \in Holding /\ m = Top(q).kmsg,
         \A m \in KMsgs : Filed(m) /\ Needed(m) => Filed(m)',
         \A m \in KMsgs : Top(q).do \in Bringing /\ Top(q).kmsg = m /\ Needed(m) =>
           \/ Unaltered(m) /\ (Filed(m)' \/ \E f \in Members(s) : f.do \in Bringing /\ f.kmsg = m)
           \/ \E f \in Members(s) : GetsOut(f, m),
         \A p \in Ports, x \in Sides :
           Hands(Top(q), p, x) /\ Underway(p, x)' => \E g \in Members(s) : Hands(g, p, x),
         \A p \in Ports, x \in Sides : Underway(p, x)' =>
           \/ Underway(p, x)
           \/ Top(q).do = GiveOf(x) /\ Top(q).port = p /\ Top(q).to = RIGHTS_IN_TRANSIT
  PROVE  Conveying'
<1> DEFINE t == Tail(stack[q])
<1>1. /\ \A r \in Procs \ {q} : stack'[r] = stack[r]
      /\ Members(stack'[q]) = Members(s) \cup Members(t)
      /\ Members(stack[q]) = {Top(q)} \cup Members(t)
  BY MembersThen DEF MInv
<1>2. /\ \A f \in Members(t) : f.do # "LTran"
      /\ Top(q).do \in Holding => \A f \in Members(t) : f.do \in Holding => f.kmsg # Top(q).kmsg
      /\ Top(q).do = "Post" => Members(t) = {}
  <2>1. stack[q] \in Seq(Frames) /\ StackOK(stack[q])
    BY DEF MInv, Typed, Stacks
  <2>2. /\ \A i \in 1 .. Len(t) : t[i].do # "LTran"
        /\ Head(stack[q]).do \in Lasts => t = <<>>
        /\ Head(stack[q]).do \in Holding \ {"LTran"} => ~Holds(t, Head(stack[q]).kmsg)
    BY <2>1, TailIs
  <2> HIDE DEF t
  <2>3. Members(<<>>) = {}
    BY DEF Members
  <2> QED
    BY <2>2, <2>3 DEF Members, Holds, Top, Lasts
<1> HIDE DEF t
<1>3. \A f \in Members(stack[q]) \cup Members(stack'[q]) : f.do # "LTran"
  BY <1>1, <1>2 DEF Sober
<1>4. \A m : Brings(q, m)' <=> \E f \in Members(stack'[q]) : f.do \in Bringing /\ f.kmsg = m
  BY <1>3 DEF Brings
<1>5. \A m \in KMsgs : Unaltered(m) \/ m \in FreeKMsgQ \/ Holds(stack[q], m) \/ Filed(m)
  BY <1>1, MemberHolds DEF MInv
<1>6. ASSUME NEW m \in KMsgs, Holds(stack[q], m)
      PROVE  Unaltered(m) \/ (Top(q).do \in Holding /\ m = Top(q).kmsg)
  <2>1. m \notin FreeKMsgQ /\ ~Filed(m)
    BY <1>6, HeldAlone, FiledAlone
  <2> QED
    BY <2>1
<1>7. ASSUME NEW f \in Members(t), f.do \in Holding PROVE Unaltered(f.kmsg)
  <2>1. f.kmsg \in KMsgs /\ Holds(stack[q], f.kmsg)
    BY <1>1, <1>7, MemberHolds DEF MInv
  <2> QED
    BY <1>2, <1>6, <1>7, <2>1
<1>8. ASSUME NEW m \in KMsgs, Needed(m), Filed(m) \/ Brings(q, m)
      PROVE  Onward(q, m)
  <2>1. CASE Filed(m)
    <3>1. m \notin FreeKMsgQ /\ ~Holds(stack[q], m)
      BY <2>1, FiledAlone
    <3>2. ~(Top(q).do \in Holding /\ m = Top(q).kmsg)
      BY <1>1, <3>1, MemberHolds DEF MInv
    <3> QED
      BY <1>8, <2>1, <3>1, <3>2 DEF Onward
  <2>2. CASE Brings(q, m)
    <3>1. PICK f \in Members(stack[q]) : f.do \in Bringing /\ f.kmsg = m
      BY <2>2 DEF Brings
    <3>2. CASE f = Top(q)
      <4>1. \/ Unaltered(m) /\ (Filed(m)' \/ \E g \in Members(s) : g.do \in Bringing /\ g.kmsg = m)
            \/ \E g \in Members(s) : GetsOut(g, m)
        BY <1>8, <3>1, <3>2
      <4> QED
        BY <1>1, <1>4, <4>1 DEF Onward
    <3>3. CASE f \in Members(t)
      <4>1. Unaltered(m) /\ Brings(q, m)'
        BY <1>1, <1>4, <1>7, <3>1, <3>3 DEF Bringing, Holding
      <4> QED
        BY <4>1 DEF Onward
    <3> QED
      BY <1>1, <3>2, <3>3
  <2> QED
    BY <1>8, <2>1, <2>2
<1>9. ASSUME NEW p \in Ports, NEW x \in Sides, NEW f \in Members(stack[q]), Hands(f, p, x), Underway(p, x)'
      PROVE  \E g \in Members(stack'[q]) : Hands(g, p, x)
  BY <1>1, <1>9
<1>10. ASSUME NEW x \in Sides, NEW f \in Members(stack[q]), f.do = GiveOf(x), f.to = RIGHTS_IN_TRANSIT
       PROVE  \E g \in Members(t) : g.do = "Post" /\ Bears(g.kmsg, f.port, x)' /\ g.kmsg \in KMsgs
  <2>1. PICK g \in Members(stack[q]) : g.do = "Post" /\ Bears(g.kmsg, f.port, x)
    BY <1>10 DEF Conveying, Departs
  <2>2. g # Top(q)
    <3>1. Top(q).do = "Post" => f = Top(q)
      BY <1>1, <1>2
    <3> QED
      BY <1>10, <2>1, <3>1 DEF GiveOf
  <2>3. g \in Members(t) /\ Unaltered(g.kmsg)
    BY <1>1, <1>7, <2>1, <2>2 DEF Holding
  <2>4. g.kmsg \in KMsgs
    BY <2>1, MemberHolds DEF MInv, Holding
  <2> QED
    BY <2>1, <2>3, <2>4 DEF Bears, Unaltered
<1>11. Departs(q)'
  <2>1. ASSUME NEW x \in Sides, NEW f \in Members(stack'[q]), f.do = GiveOf(x), f.to = RIGHTS_IN_TRANSIT
        PROVE  \E g \in Members(stack'[q]) : g.do = "Post" /\ Bears(g.kmsg, f.port, x)'
    <3>1. f \notin Members(s)
      BY <2>1 DEF Sober, Gives, GiveOf
    <3>2. f \in Members(stack[q])
      BY <1>1, <3>1
    <3>3. PICK g \in Members(t) : g.do = "Post" /\ Bears(g.kmsg, f.port, x)'
      BY <1>10, <2>1, <3>2
    <3> QED
      BY <1>1, <3>3
  <2> QED
    BY <2>1 DEF Departs
<1>12. Alive(q)'
  <2>1. ASSUME NEW f \in Members(stack'[q]), f.do \in Receivings PROVE ProcArray'[q].Active
    <3>1. \E g \in Members(stack[q]) : g.do \in Receivings
      BY <1>1, <2>1 DEF Sober
    <3> QED
      BY <3>1 DEF Conveying, Alive
  <2> QED
    BY <2>1 DEF Alive
<1>13. ASSUME NEW p \in Ports, NEW x \in Sides, Underway(p, x)'
       PROVE  Underway(p, x) \/ OnItsWay(p, x)'
  <2>1. SUFFICES ASSUME Top(q).do = GiveOf(x), Top(q).port = p, Top(q).to = RIGHTS_IN_TRANSIT
                 PROVE  OnItsWay(p, x)'
    BY <1>13
  <2>2. PICK g \in Members(t) : g.do = "Post" /\ Bears(g.kmsg, p, x)' /\ g.kmsg \in KMsgs
    BY <1>1, <1>10, <2>1
  <2>3. Brings(q, g.kmsg)'
    BY <1>1, <1>4, <2>2 DEF Bringing
  <2> QED
    BY <2>2, <2>3 DEF OnItsWay, Shipped
<1> QED
  BY <1>1, <1>5, <1>8, <1>9, <1>11, <1>12, <1>13, Conveyed


(* What becomes of the rights of a port when its record changes.           *)
RightsSame == \A p \in Ports : /\ PortArray'[p].InUse => PortArray[p].InUse
                               /\ PortArray'[p].Receiver = PortArray[p].Receiver
                               /\ PortArray'[p].Owner = PortArray[p].Owner

LEMMA RightsStay ==
  ASSUME Typed, NEW p \in Ports,
         \/ \E c : PortArray' = [PortArray EXCEPT ![p].Locked = c]
         \/ \E c : PortArray' = [PortArray EXCEPT ![p].Senders = c]
         \/ \E c : PortArray' = [PortArray EXCEPT ![p].Backlog = c]
         \/ \E c : PortArray' = [PortArray EXCEPT ![p].NumQueued = c]
         \/ \E c, d : PortArray' = [PortArray EXCEPT ![p].SecondaryMsgQ = c, ![p].NumQueued = d]
         \/ \E c, d : PortArray' = [PortArray EXCEPT ![p].NumQueued = c, ![p].SecondaryMsgQ = d]
         \/ \E d : PortArray' = [PortArray EXCEPT ![p].InUse = FALSE, ![p].SecondaryMsgQ = d]
         \/ UNCHANGED PortArray
  PROVE  RightsSame
<1>1. PortArray \in [Ports -> PortRecords]
  BY DEF Typed
<1>2. \A x \in Ports : PortArray[x] \in PortRecords
  BY <1>1
<1>3. CASE UNCHANGED PortArray
  BY <1>3 DEF RightsSame
<1>4. ASSUME NEW c, PortArray' = [PortArray EXCEPT ![p].Locked = c] PROVE RightsSame
  BY <1>1, <1>2, <1>4 DEF RightsSame, PortRecords
<1>5. ASSUME NEW c, PortArray' = [PortArray EXCEPT ![p].Senders = c] PROVE RightsSame
  BY <1>1, <1>2, <1>5 DEF RightsSame, PortRecords
<1>6. ASSUME NEW c, PortArray' = [PortArray EXCEPT ![p].Backlog = c] PROVE RightsSame
  BY <1>1, <1>2, <1>6 DEF RightsSame, PortRecords
<1>7. ASSUME NEW c, PortArray' = [PortArray EXCEPT ![p].NumQueued = c] PROVE RightsSame
  BY <1>1, <1>2, <1>7 DEF RightsSame, PortRecords
<1>8. ASSUME NEW c, NEW d,
             \/ PortArray' = [PortArray EXCEPT ![p].SecondaryMsgQ = c, ![p].NumQueued = d]
             \/ PortArray' = [PortArray EXCEPT ![p].NumQueued = c, ![p].SecondaryMsgQ = d]
      PROVE RightsSame
  <2> DEFINE R == PortArray[p]
             S == [R EXCEPT !.SecondaryMsgQ = c, !.NumQueued = d]
             N == [R EXCEPT !.NumQueued = c, !.SecondaryMsgQ = d]
  <2>1. /\ S.InUse = R.InUse /\ S.Receiver = R.Receiver /\ S.Owner = R.Owner
        /\ N.InUse = R.InUse /\ N.Receiver = R.Receiver /\ N.Owner = R.Owner
    BY <1>2 DEF PortRecords
  <2>2. PortArray' = [PortArray EXCEPT ![p] = S] \/ PortArray' = [PortArray EXCEPT ![p] = N]
    BY <1>8
  <2> HIDE DEF S, N
  <2> QED
    BY <1>1, <2>1, <2>2 DEF RightsSame
<1>9. ASSUME NEW d, PortArray' = [PortArray EXCEPT ![p].InUse = FALSE, ![p].SecondaryMsgQ = d] PROVE RightsSame
  <2> DEFINE R == PortArray[p]
             S == [R EXCEPT !.InUse = FALSE, !.SecondaryMsgQ = d]
  <2>1. S.InUse = FALSE /\ S.Receiver = R.Receiver /\ S.Owner = R.Owner
    BY <1>2 DEF PortRecords
  <2>2. PortArray' = [PortArray EXCEPT ![p] = S]
    BY <1>9
  <2> HIDE DEF S
  <2> QED
    BY <1>1, <2>1, <2>2 DEF RightsSame
<1> QED
  BY <1>3, <1>4, <1>5, <1>6, <1>7, <1>8, <1>9


(* A right is in transit after the step only if it was before.             *)
LEMMA NotUnderway ==
  ASSUME RightsSame
  PROVE  \A p \in Ports, x \in Sides : Underway(p, x)' => Underway(p, x)
BY DEF RightsSame, Underway, HolderOf


(* Queues that are as they were hold what they did.                        *)
LEMMA FiledStays ==
  ASSUME \A r \in AllProcs : Inbox(r)' = Inbox(r), \A p \in Ports : Second(p)' = Second(p)
  PROVE  \A m : Filed(m)' <=> Filed(m)
BY DEF Filed


(* A step in which no frame moves.                                         *)
LEMMA Rests ==
  ASSUME MInv, Conveying, NEW q \in Procs, UNCHANGED <<stack, kmsg>>,
         \A r \in Procs : ProcArray[r].Active => ProcArray'[r].Active,
         \A m \in KMsgs : Filed(m) => Filed(m)',
         \A p \in Ports, x \in Sides : Underway(p, x)' => Underway(p, x)
  PROVE  Conveying'
<1>1. \A m \in KMsgs : Unaltered(m) /\ (Brings(q, m) => Brings(q, m)')
  BY DEF Unaltered, Brings
<1>2. \A m \in KMsgs : Filed(m) \/ Brings(q, m) => Onward(q, m)
  BY <1>1 DEF Onward
<1>3. Departs(q)' /\ Alive(q)'
  <2>1. Departs(q) /\ Alive(q)
    BY DEF Conveying
  <2> QED
    BY <2>1 DEF Departs, Alive, Bears
<1> QED
  BY <1>1, <1>2, <1>3, Conveyed

(* The frames that a piece of q leaves.                                    *)
PutsOn(q, F) == \E S : \E s \in Seq(S) : Then(q, s) /\ F = Members(s)

LEMMA PutsOnFew ==
  ASSUME MInv, NEW q \in Procs, NEW F,
         \/ F = {} /\ Then(q, <<>>)
         \/ F = {} /\ Return(q) /\ Tail(stack[q]) = <<>>
         \/ \E f : F = {f} /\ Then(q, <<f>>)
         \/ \E f, g : F = {f, g} /\ Then(q, <<f, g>>)
         \/ \E s \in Seq(Plain) : F = Members(s) /\ Then(q, s)
  PROVE  PutsOn(q, F)
<1>1. CASE F = {} /\ Then(q, <<>>)
  <2>1. <<>> \in Seq({})
    OBVIOUS
  <2>2. Members(<<>>) = {}
    BY MembersFew, Zenon
  <2> QED
    BY <1>1, <2>1, <2>2 DEF PutsOn
<1>2. CASE F = {} /\ Return(q) /\ Tail(stack[q]) = <<>>
  <2>1. Then(q, <<>>)
    BY <1>2, ReturnsThen DEF MInv
  <2> QED
    BY <1>1, <1>2, <2>1
<1>3. ASSUME NEW f, F = {f}, Then(q, <<f>>)
      PROVE  PutsOn(q, F)
  <2>1. <<f>> \in Seq({f})
    OBVIOUS
  <2>2. Members(<<f>>) = {f}
    BY MembersFew, Zenon
  <2> QED
    BY <1>3, <2>1, <2>2 DEF PutsOn
<1>4. ASSUME NEW f, NEW g, F = {f, g}, Then(q, <<f, g>>)
      PROVE  PutsOn(q, F)
  <2>1. <<f, g>> \in Seq({f, g})
    OBVIOUS
  <2>2. Members(<<f, g>>) = {f, g}
    BY MembersFew, Zenon
  <2> QED
    BY <1>4, <2>1, <2>2 DEF PutsOn
<1>5. CASE \E s \in Seq(Plain) : F = Members(s) /\ Then(q, s)
  BY <1>5 DEF PutsOn
<1> QED
  BY <1>1, <1>2, <1>3, <1>4, <1>5


(* What a step does to messages but for those of M: it changes those that  *)
(* nobody has or needs, and files what was.                                *)
OthersStay(M) ==
  /\ \A m \in KMsgs : Unaltered(m) \/ m \in FreeKMsgQ \/ (Filed(m) /\ ~Needed(m)) \/ m \in M
  /\ \A m \in KMsgs : Filed(m) /\ Needed(m) => Filed(m)'
ActiveStay == \A r \in Procs : ProcArray[r].Active => ProcArray'[r].Active

(* A piece that has no message to pass on and no right to give.            *)
PutsSober(q, F) == PutsOn(q, F) /\ \A f \in F : Sober(q, f)
Apart == {"LTran", "GTran"} \cup Gives \cup Bringing

LEMMA SoberFew ==
  ASSUME MInv, NEW q \in Procs,
         \/ Then(q, <<>>)
         \/ \E f : Sober(q, f) /\ Then(q, <<f>>)
         \/ \E f, g : Sober(q, f) /\ Sober(q, g) /\ Then(q, <<f, g>>)
  PROVE  \E F : PutsSober(q, F)
<1>1. CASE Then(q, <<>>)
  <2>1. PutsOn(q, {})
    BY <1>1, PutsOnFew
  <2> QED
    BY <2>1 DEF PutsSober
<1>2. ASSUME NEW f, Sober(q, f), Then(q, <<f>>) PROVE \E F : PutsSober(q, F)
  <2>1. PutsOn(q, {f})
    BY <1>2, PutsOnFew
  <2> QED
    BY <1>2, <2>1 DEF PutsSober
<1>3. ASSUME NEW f, NEW g, Sober(q, f), Sober(q, g), Then(q, <<f, g>>) PROVE \E F : PutsSober(q, F)
  <2>1. PutsOn(q, {f, g})
    BY <1>3, PutsOnFew
  <2> QED
    BY <1>3, <2>1 DEF PutsSober
<1> QED
  BY <1>1, <1>2, <1>3

LEMMA Bypasses ==
  ASSUME MInv, Conveying, NEW q \in Procs, stack[q] # <<>>, Top(q).do \notin Apart,
         NEW F, PutsSober(q, F),
         ActiveStay, RightsSame,
         OthersStay({}) \/ (Top(q).do \in Holding /\ OthersStay({Top(q).kmsg}))
  PROVE  Conveying'
<1>0. PICK S : \E s \in Seq(S) : Then(q, s) /\ F = Members(s)
  BY DEF PutsSober, PutsOn
<1>1. PICK s \in Seq(S) : Then(q, s) /\ F = Members(s)
  BY <1>0
<1>2. \A p \in Ports, x \in Sides : ~Hands(Top(q), p, x)
  BY DEF Hands, Gives, GiveOf, Apart
<1>3. /\ \A m \in KMsgs : \/ Unaltered(m) \/ m \in FreeKMsgQ \/ (Filed(m) /\ ~Needed(m))
                          \/ Top(q).do \in Holding /\ m = Top(q).kmsg
      /\ \A m \in KMsgs : Filed(m) /\ Needed(m) => Filed(m)'
  BY DEF OthersStay
<1>4. Top(q).do \notin {"LTran"} \cup Bringing /\ \A f \in Members(s) : Sober(q, f)
  BY <1>1 DEF Apart, PutsSober
<1> QED
  BY <1>1, <1>2, <1>3, <1>4, NotUnderway, Forwards DEF ActiveStay


(* A piece that passes the message on that it has.                         *)
LEMMA PassesOn ==
  ASSUME MInv, Conveying, NEW q \in Procs, stack[q] # <<>>, Top(q).do \in Bringing,
         NEW F, PutsSober(q, F),
         ActiveStay, RightsSame, NEW m, m = Top(q).kmsg, OthersStay({m}),
         Needed(m) => \/ Unaltered(m) /\ (Filed(m)' \/ \E f \in F : f.do \in Bringing /\ f.kmsg = m)
                      \/ \E f \in F : GetsOut(f, m)
  PROVE  Conveying'
<1>0. PICK S : \E s \in Seq(S) : Then(q, s) /\ F = Members(s)
  BY DEF PutsSober, PutsOn
<1>1. PICK s \in Seq(S) : Then(q, s) /\ F = Members(s)
  BY <1>0
<1>2. \A p \in Ports, x \in Sides : ~Hands(Top(q), p, x)
  BY DEF Hands, Bringing, GiveOf
<1>3. /\ \A x \in KMsgs : \/ Unaltered(x) \/ x \in FreeKMsgQ \/ (Filed(x) /\ ~Needed(x))
                          \/ Top(q).do \in Holding /\ x = Top(q).kmsg
      /\ \A x \in KMsgs : Filed(x) /\ Needed(x) => Filed(x)'
  BY DEF OthersStay, Bringing, Holding
<1>4. Top(q).do # "LTran" /\ \A f \in Members(s) : Sober(q, f)
  BY <1>1 DEF Bringing, PutsSober
<1>5. \A x \in KMsgs : Top(q).do \in Bringing /\ Top(q).kmsg = x /\ Needed(x) =>
           \/ Unaltered(x) /\ (Filed(x)' \/ \E f \in Members(s) : f.do \in Bringing /\ f.kmsg = x)
           \/ \E f \in Members(s) : GetsOut(f, x)
  BY <1>1
<1> QED
  BY <1>1, <1>2, <1>3, <1>4, <1>5, NotUnderway, Forwards DEF ActiveStay

(* Queues and messages as they were.                                       *)
LEMMA QueuesStay ==
  ASSUME \A r \in AllProcs : Inbox(r)' = Inbox(r), \A p \in Ports : Second(p)' = Second(p),
         NEW M, \A x \in KMsgs \ M : Unaltered(x) \/ x \in FreeKMsgQ
  PROVE  OthersStay(M)
BY FiledStays DEF OthersStay

LEMMA Unchanging ==
  ASSUME UNCHANGED kmsg
  PROVE  \A x : Unaltered(x)
BY DEF Unaltered


(* Nothing that tells who has a port is changed with its senders.          *)
LEMMA SendersStay ==
  ASSUME Typed, NEW p \in Ports, NEW c, PortArray' = [PortArray EXCEPT ![p].Senders = c]
  PROVE  RightsSame /\ \A x \in Ports : Second(x)' = Second(x)
<1>1. RightsSame
  BY RightsStay
<1>2. \A x \in Ports : Second(x)' = Second(x)
  BY DEF Typed, PortRecords, Second
<1> QED
  BY <1>1, <1>2


(* The wakeups.                                                            *)
LEMMA WakesConveyed ==
  ASSUME MInv, Conveying, NEW q \in Procs, WakeReceiver(q) \/ WakeForMsg(q)
  PROVE  Conveying'
<1> DEFINE to == Top(q).to
<1>1. /\ stack[q] # <<>> /\ Top(q).do \in {"IPCWakeup", "WakeForMsg"} /\ Then(q, <<>>)
      /\ UNCHANGED <<PortArray, kmsg, FreeKMsgQ>>
      /\ ProcArray' = IPCWakeup(ProcArray, to) \/ ProcArray' = ProcArray
  BY DEF WakeReceiver, WakeForMsg, At
<1>2. to \in AllProcs
  BY <1>1, Popped, FrameIs
<1>3. /\ \A r \in AllProcs : Inbox(r)' = Inbox(r)
      /\ \A r \in AllProcs : ProcArray'[r].Active = ProcArray[r].Active
  BY <1>1, <1>2, WokenIs, WakeupIs DEF MInv
<1>4. OthersStay({})
  BY <1>1, <1>3, QueuesStay, Unchanging DEF Second
<1>5. PutsSober(q, {}) /\ ActiveStay /\ RightsSame
  BY <1>1, <1>3, PutsOnFew, Numbers DEF PutsSober, ActiveStay, RightsSame
<1>6. Top(q).do \notin Apart
  BY <1>1 DEF Apart, Gives, Bringing
<1> QED
  BY <1>1, <1>4, <1>5, <1>6, Bypasses


(* The end of a wait, and its interruption.                                *)
LEMMA EndConveyed ==
  ASSUME MInv, Conveying, NEW q \in Procs, Sent(q) \/ GiveUp(q) \/ Interrupt(q)
  PROVE  Conveying'
<1> DEFINE g == [Top(q) EXCEPT !.signalled = TRUE]
<1>1. /\ stack[q] # <<>> /\ Top(q).do \in {"FullWait", "MsgWait"}
      /\ Return(q) \/ Then(q, <<g>>)
      /\ UNCHANGED <<PortArray, ProcArray, kmsg, FreeKMsgQ>>
  BY DEF Sent, GiveUp, Interrupt, Sleeping, At
<1>2. g.do = Top(q).do
  BY <1>1, Popped, FrameIs
<1>3. Sober(q, g)
  BY <1>1, <1>2 DEF Sober, Gives, Receivings
<1> HIDE DEF g
<1>4. Tail(stack[q]) = <<>>
  BY <1>1, LastIs DEF Lasts
<1>5. PutsSober(q, {}) \/ PutsSober(q, {g})
  BY <1>1, <1>3, <1>4, PutsOnFew DEF PutsSober
<1>6. OthersStay({}) /\ ActiveStay /\ RightsSame
  BY <1>1, QueuesStay, Unchanging DEF Second, Inbox, ActiveStay, RightsSame
<1>7. Top(q).do \notin Apart
  BY <1>1 DEF Apart, Gives, Bringing
<1> QED
  BY <1>1, <1>5, <1>6, <1>7, Bypasses


(* A process gives up its rights to a port, or to all ports one by one.     *)
LEMMA RemPortConveyed ==
  ASSUME MInv, Conveying, NEW q \in Procs, RemPort(q)
  PROVE  Conveying'
<1> DEFINE p == Top(q).port
           Released(other, id, right) ==
             IF other = RIGHTS_IN_TRANSIT THEN <<Give(right, p, NO_PROCESS)>>
             ELSE IF ProcArray[other].Active THEN <<Notice(other, id, p)>>
             ELSE <<Give(right, p, NO_PROCESS), Delete(p)>>
<1>1. /\ stack[q] # <<>> /\ Top(q).do = "RemPort" /\ Forget(q, p)
      /\ UNCHANGED <<ProcArray, kmsg, FreeKMsgQ>>
      /\ \/ Then(q, <<>>) \/ Then(q, <<Delete(p)>>)
         \/ \E o, id : \E right \in Gives : Then(q, Released(o, id, right))
  BY DEF RemPort, At, Gives
<1>2. \/ Then(q, <<>>) \/ Then(q, <<Delete(p)>>)
      \/ \E right \in Gives : \/ Then(q, <<Give(right, p, NO_PROCESS)>>)
                             \/ Then(q, <<Give(right, p, NO_PROCESS), Delete(p)>>)
      \/ \E o, id : Then(q, <<Notice(o, id, p)>>)
  BY <1>1
<1>3. /\ Sober(q, Delete(p)) /\ \A o, id : Sober(q, Notice(o, id, p))
      /\ \A right \in Gives : Sober(q, Give(right, p, NO_PROCESS))
  <2>1. NO_PROCESS # RIGHTS_IN_TRANSIT
    BY PortsAssumption DEF NO_PROCESS, RIGHTS_IN_TRANSIT
  <2> QED
    BY <2>1 DEF Sober, Delete, Notice, Give, Gives, Receivings
<1>4. \E F : PutsSober(q, F)
  BY <1>2, <1>3, SoberFew
<1>5. OthersStay({}) /\ ActiveStay /\ RightsSame
  <2>1. p \in Ports
    BY <1>1, Popped, FrameIs
  <2>2. RightsSame /\ \A x \in Ports : Second(x)' = Second(x)
    BY <1>1, <2>1, SendersStay DEF MInv, Forget
  <2> QED
    BY <1>1, <2>2, QueuesStay, Unchanging DEF Inbox, ActiveStay
<1>6. Top(q).do \notin Apart
  BY <1>1 DEF Apart, Gives, Bringing
<1> QED
  BY <1>1, <1>4, <1>5, <1>6, Bypasses

LEMMA ScanConveyed ==
  ASSUME MInv, Conveying, NEW q \in Procs, Scan(q)
  PROVE  Conveying'
<1> DEFINE f == Top(q)
           p == f.next
           r == [do |-> "RemPort", port |-> p]
           a == [f EXCEPT !.next = p + 1, !.haveports = TRUE]
           b == [f EXCEPT !.next = p + 1]
           c == [f EXCEPT !.next = 1, !.haveports = FALSE]
<1>1. /\ stack[q] # <<>> /\ f.do = "Scan" /\ UNCHANGED <<PortArray, ProcArray, kmsg, FreeKMsgQ>>
      /\ Then(q, <<>>) \/ Then(q, <<b>>) \/ Then(q, <<c>>) \/ Then(q, <<r, a>>)
  BY DEF Scan, At
<1>2. f \in [do : {"Scan"}, next : 1 .. NumPorts, haveports : BOOLEAN]
  BY <1>1, Popped, FrameIs
<1>3. a.do = "Scan" /\ b.do = "Scan" /\ c.do = "Scan" /\ r.do = "RemPort"
  BY <1>2
<1> HIDE DEF f, r, a, b, c
<1>4. Sober(q, a) /\ Sober(q, b) /\ Sober(q, c) /\ Sober(q, r)
  BY <1>3 DEF Sober, Gives, Receivings
<1>5. \E F : PutsSober(q, F)
  BY <1>1, <1>4, SoberFew
<1>6. OthersStay({}) /\ ActiveStay /\ RightsSame
  BY <1>1, QueuesStay, Unchanging DEF Second, Inbox, ActiveStay, RightsSame
<1>7. Top(q).do \notin Apart
  BY <1>1 DEF Apart, Gives, Bringing, f
<1> QED
  BY <1>1, <1>5, <1>6, <1>7, Bypasses


(* The holders of a port are told that it is deleted.                      *)
LEMMA NotifyConveyed ==
  ASSUME MInv, Conveying, NEW q \in Procs, Notify(q)
  PROVE  Conveying'
<1> DEFINE p == Top(q).port
           g(j) == [Top(q) EXCEPT !.next = j + 1]
<1>1. /\ stack[q] # <<>> /\ Top(q).do = "Notify"
      /\ UNCHANGED <<ProcArray, kmsg, FreeKMsgQ>>
      /\ \E j : PortArray' = [PortArray EXCEPT ![p].Senders = @ \ {j}]
      /\ \/ Then(q, <<>>)
         \/ \E j : Then(q, <<Notice(j, "M_PortDeleted", p), g(j)>>)
  BY DEF Notify, Forget, At
<1>2. Top(q) \in [do : {"Notify"}, port : Ports, next : 1 .. NumProcs]
  BY <1>1, Popped, FrameIs
<1>3. \A j : Sober(q, Notice(j, "M_PortDeleted", p)) /\ Sober(q, g(j))
  BY <1>1, <1>2 DEF Notice, Sober, Gives, Receivings
<1>4. p \in Ports
  BY <1>2
<1> HIDE DEF p, g
<1>5. \E F : PutsSober(q, F)
  BY <1>1, <1>3, SoberFew
<1>6. RightsSame /\ \A x \in Ports : Second(x)' = Second(x)
  BY <1>1, <1>4, SendersStay DEF MInv
<1>7. OthersStay({}) /\ ActiveStay
  BY <1>1, <1>6, QueuesStay, Unchanging DEF Inbox, ActiveStay
<1>8. Top(q).do \notin Apart
  BY <1>1 DEF Apart, Gives, Bringing
<1> QED
  BY <1>1, <1>5, <1>7, <1>6, <1>8, Bypasses


(* Counting a message changes no right; a second queue and a count set.    *)
LEMMA CountedRights ==
  ASSUME Typed, NEW m, NEW p \in Ports, PortArray' = Counted(m, p)
  PROVE  RightsSame
<1> DEFINE c == IF kmsg[m].emerg THEN PortArray[p].NumQueued ELSE PortArray[p].NumQueued + 1
<1>1. PortArray' = [PortArray EXCEPT ![p].NumQueued = c]
  BY DEF Typed, Counted
<1> HIDE DEF c
<1> QED
  BY <1>1, RightsStay

LEMMA SecondSet ==
  ASSUME Typed, NEW p \in Ports, NEW c, NEW d,
         \/ PortArray' = [PortArray EXCEPT ![p].SecondaryMsgQ = c, ![p].NumQueued = d]
         \/ PortArray' = [PortArray EXCEPT ![p].NumQueued = d, ![p].SecondaryMsgQ = c]
  PROVE  \A y \in Ports : Second(y)' = IF y = p THEN c ELSE Second(y)
<1> DEFINE N == [PortArray[p] EXCEPT !.SecondaryMsgQ = c, !.NumQueued = d]
           L == [PortArray[p] EXCEPT !.NumQueued = d, !.SecondaryMsgQ = c]
<1>1. N.SecondaryMsgQ = c /\ L.SecondaryMsgQ = c
  <2>1. PortArray[p] \in PortRecords
    BY DEF Typed
  <2> QED
    BY <2>1 DEF PortRecords
<1>2. PortArray' = [PortArray EXCEPT ![p] = N] \/ PortArray' = [PortArray EXCEPT ![p] = L]
  OBVIOUS
<1> HIDE DEF N, L
<1> QED
  BY <1>1, <1>2 DEF Typed, Second


(* A message that is freed is the only one that a piece changes.           *)
LEMMA FreesOne ==
  ASSUME Typed, NEW m \in KMsgs, Free(m),
         \A r \in AllProcs : Inbox(r)' = Inbox(r), \A p \in Ports : Second(p)' = Second(p)
  PROVE  OthersStay({m})
<1>1. \A x \in KMsgs \ {m} : Unaltered(x)
  BY FreeIs DEF Unaltered
<1> QED
  BY <1>1, QueuesStay


(* A message of a port that is gone.                                       *)
LEMMA ReleaseConveyed ==
  ASSUME MInv, Conveying, NEW q \in Procs, Release(q)
  PROVE  Conveying'
<1> DEFINE m == Top(q).kmsg
           to == kmsg[m].WakeupProc
           n == Notice(to, "M_MsgAccepted", kmsg[m].RemotePort)
<1>1. /\ stack[q] # <<>> /\ Top(q).do = "Release"
      /\ \/ /\ SendAcknowledge(q, m) /\ UNCHANGED ProcArray /\ Then(q, <<n, Top(q)>>)
         \/ /\ ProcArray' = IF kmsg[m].What = "WAKE_ME" THEN IPCWakeup(ProcArray, to) ELSE ProcArray
            /\ Free(m) /\ UNCHANGED PortArray /\ Then(q, <<>>)
  BY DEF Release, At
<1>2. m \in KMsgs /\ kmsg[m].RemotePort \in Ports
  BY <1>1, TopHeld DEF Holding
<1>3. Sober(q, n) /\ Sober(q, Top(q))
  BY <1>1 DEF Sober, Notice, Gives, Receivings
<1> HIDE DEF n
<1>4. \E F : PutsSober(q, F)
  BY <1>1, <1>3, SoberFew
<1>5. Top(q).do \notin Apart /\ Top(q).do \in Holding
  BY <1>1 DEF Apart, Gives, Bringing, Holding
<1>6. CASE SendAcknowledge(q, m) /\ UNCHANGED ProcArray
  <2>1. /\ FastGTran(to, kmsg[m].RemotePort)
        /\ kmsg' = [kmsg EXCEPT ![m].What = "DONT_WAKE"]
    BY <1>6 DEF SendAcknowledge
  <2>2. RightsSame /\ \A x \in Ports : Second(x)' = Second(x)
    BY <1>2, <2>1, SendersStay DEF MInv, FastGTran
  <2>3. \A x \in KMsgs : Unaltered(x)
    BY <1>2, <2>1, AnsweredIs DEF MInv, Unaltered
  <2>4. OthersStay({}) /\ ActiveStay
    BY <1>6, <2>2, <2>3, QueuesStay DEF Inbox, ActiveStay
  <2> QED
    BY <1>1, <1>4, <1>5, <2>2, <2>4, Bypasses
<1>7. CASE /\ ProcArray' = IF kmsg[m].What = "WAKE_ME" THEN IPCWakeup(ProcArray, to) ELSE ProcArray
           /\ Free(m) /\ UNCHANGED PortArray
  <2>1. \A y \in AllProcs : Inbox(y)' = Inbox(y) /\ ProcArray'[y].Active = ProcArray[y].Active
    <3>1. CASE kmsg[m].What = "WAKE_ME"
      <4>1. ProcArray' = IPCWakeup(ProcArray, to) /\ to \in AllProcs
        BY <1>2, <1>7, <3>1, Numbers DEF MInv, Typed
      <4> QED
        BY <4>1, WakeupIs DEF MInv, Inbox
    <3>2. CASE kmsg[m].What # "WAKE_ME"
      BY <1>7, <3>2 DEF Inbox
    <3> QED
      BY <3>1, <3>2
  <2> HIDE DEF m
  <2>2. OthersStay({m})
    BY <1>2, <1>7, <2>1, FreesOne DEF MInv, Second
  <2>3. ActiveStay /\ RightsSame
    BY <1>7, <2>1, Numbers DEF ActiveStay, RightsSame
  <2> QED
    BY <1>1, <1>4, <1>5, <2>2, <2>3, Bypasses DEF m
<1> QED
  BY <1>1, <1>6, <1>7


(* The kernel makes a message.                                             *)
LEMMA SendKernelMsgConveyed ==
  ASSUME MInv, Conveying, NEW q \in Procs, SendKernelMsg(q) \/ PackMsg(q)
  PROVE  Conveying'
<1>1. /\ stack[q] # <<>> /\ Top(q).do \in {"SendKernelMsg", "PackMsg"}
      /\ UNCHANGED <<PortArray, ProcArray>>
      /\ \/ Then(q, <<>>) /\ UNCHANGED kmsg
         \/ \E f : f.do = "PackMsg" /\ Then(q, <<f>>) /\ UNCHANGED kmsg
         \/ \E m \in FreeKMsgQ : \E c : Allocate(m, c) /\ Then(q, <<Frame("QueueMsg", m)>>)
  BY KernelMsgIs
<1>2. /\ \A m : Sober(q, Frame("QueueMsg", m))
      /\ \A f : f.do = "PackMsg" => Sober(q, f)
  BY DEF Sober, Frame, Gives, Receivings
<1>3. \E F : PutsSober(q, F)
  BY <1>1, <1>2, SoberFew
<1>4. \A x \in KMsgs : Unaltered(x) \/ x \in FreeKMsgQ
  BY <1>1 DEF Unaltered, Allocate, MInv, Typed
<1>5. OthersStay({}) /\ ActiveStay /\ RightsSame
  BY <1>1, <1>4, QueuesStay DEF Inbox, Second, ActiveStay, RightsSame
<1>6. Top(q).do \notin Apart
  BY <1>1 DEF Apart, Gives, Bringing
<1> QED
  BY <1>1, <1>3, <1>5, <1>6, Bypasses


(* A send that is given up.                                                *)
LEMMA WithdrawConveyed ==
  ASSUME MInv, Conveying, Undestroyed, NEW q \in Procs, Withdraw(q)
  PROVE  Conveying'
<1> DEFINE m == Top(q).kmsg
           p == Top(q).port
<1>1. /\ stack[q] # <<>> /\ Top(q).do = "FullWait" /\ Return(q) /\ UNCHANGED ProcArray
      /\ Typed /\ Ended(q) /\ At(q, "FullWait")
      /\ \/ UNCHANGED <<PortArray, kmsg, FreeKMsgQ>>
         \/ /\ InSeq(m, PortArray[p].SecondaryMsgQ) /\ Free(m)
            /\ PortArray' = [PortArray EXCEPT ![p].SecondaryMsgQ = Without(@, m), ![p].NumQueued = @ - 1]
  BY DEF Withdraw, At, MInv
<1>2. m \in KMsgs /\ p \in Ports
  BY <1>1, Popped, FrameIs
<1>3. \E F : PutsSober(q, F)
  <2>1. Tail(stack[q]) = <<>>
    BY <1>1, LastIs DEF Lasts
  <2> QED
    BY <1>1, <2>1, ReturnsThen, SoberFew
<1>4. Top(q).do \notin Apart /\ ActiveStay
  BY <1>1 DEF Apart, Gives, Bringing, ActiveStay
<1>5. CASE UNCHANGED <<PortArray, kmsg, FreeKMsgQ>>
  <2>1. OthersStay({}) /\ RightsSame
    BY <1>1, <1>5, QueuesStay, Unchanging DEF Inbox, Second, RightsSame
  <2> QED
    BY <1>1, <1>3, <1>4, <2>1, Bypasses
<1>6. CASE /\ InSeq(m, PortArray[p].SecondaryMsgQ) /\ Free(m)
           /\ PortArray' = [PortArray EXCEPT ![p].SecondaryMsgQ = Without(@, m), ![p].NumQueued = @ - 1]
  <2>1. ~Needed(m)
    BY <1>1, <1>6 DEF Undestroyed
  <2>2. Second(p) \in Seq(KMsgs) /\ m \in Range(Second(p))
    <3>1. Second(p) \in Seq(KMsgs)
      BY <1>1, <1>2, QueuesTyped
    <3>2. DOMAIN Second(p) = 1 .. Len(Second(p)) /\ \E i \in 1 .. Len(Second(p)) : Second(p)[i] = m
      BY <1>6, <3>1, LenProperties DEF InSeq, Second
    <3> QED
      BY <3>1, <3>2 DEF Range
  <2>3. Filed(m)
    BY <1>2, <2>2 DEF Filed
  <2> DEFINE c == Without(PortArray[p].SecondaryMsgQ, m)
             d == PortArray[p].NumQueued - 1
  <2>4. PortArray' = [PortArray EXCEPT ![p].SecondaryMsgQ = c, ![p].NumQueued = d]
    BY <1>1, <1>2, <1>6 DEF Typed, PortRecords
  <2>5. Range(c) = Range(Second(p)) \ {m}
    BY <2>2, WithoutIs DEF Second
  <2> HIDE DEF c, d
  <2>6. RightsSame
    BY <1>1, <1>2, <2>4, RightsStay
  <2>7. \A y \in Ports : Second(y)' = IF y = p THEN c ELSE Second(y)
    BY <1>1, <1>2, <2>4, SecondSet
  <2> HIDE DEF m, p
  <2>8. \A x \in KMsgs \ {m} : Unaltered(x)
    BY <1>1, <1>2, <1>6, FreeIs DEF Unaltered
  <2>9. \A x \in KMsgs \ {m} : Filed(x) => Filed(x)'
    BY <1>1, <2>5, <2>7 DEF Filed, Inbox
  <2>10. OthersStay({})
    BY <2>1, <2>3, <2>8, <2>9 DEF OthersStay
  <2> QED
    BY <1>1, <1>3, <1>4, <2>6, <2>10, Bypasses
<1> QED
  BY <1>1, <1>5, <1>6


(* A port is deleted.                                                      *)
LEMMA DelPortConveyed ==
  ASSUME MInv, Conveying, Undestroyed, NEW q \in Procs, DelPort(q)
  PROVE  Conveying'
<1> DEFINE p == Top(q).port
           r == PortArray[p].Receiver
           queued == Primary(p) \o PortArray[p].SecondaryMsgQ
           s == Append([i \in 1 .. Len(queued) |-> Frame("Release", queued[i])],
                       [do |-> "Notify", port |-> p, next |-> 1])
<1>1. /\ stack[q] # <<>> /\ Top(q).do = "DelPort" /\ UNCHANGED <<kmsg, FreeKMsgQ>>
      /\ \/ Then(q, <<>>) /\ UNCHANGED <<PortArray, ProcArray>>
         \/ PortArray[p].InUse /\ Then(q, s)
  BY DEF DelPort, At
<1>2. p \in Ports /\ Top(q).do \notin Apart
  BY <1>1, Popped, FrameIs DEF Apart, Gives, Bringing
<1>3. CASE Then(q, <<>>) /\ UNCHANGED <<PortArray, ProcArray>>
  <2>1. OthersStay({}) /\ ActiveStay /\ RightsSame
    BY <1>1, <1>3, QueuesStay, Unchanging DEF Inbox, Second, ActiveStay, RightsSame
  <2>2. \E F : PutsSober(q, F)
    BY <1>3, SoberFew
  <2> QED
    BY <1>1, <1>2, <2>1, <2>2, Bypasses
<1>4. CASE PortArray[p].InUse /\ Then(q, s)
  <2>1. PortArray' = [PortArray EXCEPT ![p].InUse = FALSE, ![p].SecondaryMsgQ = <<>>]
    BY <1>4 DEF DelPort
  <2>2. /\ queued \in Seq(KMsgs)
        /\ Range(queued) = (Range(Inbox(r)) \cap MsgsTo(p)) \cup Range(Second(p))
        /\ \A x \in AllProcs : ProcArray'[x].Active = ProcArray[x].Active
        /\ \A x \in KMsgs : \A y \in AllProcs :
             x \in Range(Inbox(y)') <=> x \notin Range(queued) /\ x \in Range(Inbox(y))
        /\ \A x \in KMsgs : \A y \in Ports :
             x \in Range(Second(y)') <=> x \notin Range(queued) /\ x \in Range(Second(y))
    BY <1>4, PortCleared
  <2>3. \A x \in Range(queued) : ~Needed(x)
    <3>1. \A x \in Members(Primary(p)) \cup Members(PortArray[p].SecondaryMsgQ) : ~Needed(x)
      BY <1>1, <1>4 DEF Undestroyed, At
    <3>2. Members(Primary(p)) = Range(Primary(p)) /\ Members(Second(p)) = Range(Second(p))
      BY <1>2, PrimaryIs, QueuesTyped, MembersAre DEF MInv
    <3>3. Range(Primary(p)) = Range(Inbox(r)) \cap MsgsTo(p)
      BY <1>2, PrimaryIs DEF MInv
    <3> HIDE DEF queued
    <3> QED
      BY <2>2, <3>1, <3>2, <3>3 DEF Second
  <2> HIDE DEF queued
  <2>4. PutsSober(q, Members(s))
    <3>1. PICK S : s \in Seq(S) /\ \A x \in S : x.do \in {"Release", "Notify"}
      BY <2>2, ReleaseBare
    <3> HIDE DEF s
    <3>2. PutsOn(q, Members(s))
      BY <1>4, <3>1 DEF PutsOn
    <3>3. Members(s) \subseteq S
      BY <3>1, MembersAre
    <3> QED
      BY <3>1, <3>2, <3>3 DEF PutsSober, Sober, Gives, Receivings
  <2>5. RightsSame
    BY <1>2, <2>1, RightsStay DEF MInv
  <2>6. \A x \in KMsgs \ Range(queued) : Filed(x) => Filed(x)'
    BY <2>2 DEF Filed
  <2>7. OthersStay({}) /\ ActiveStay
    BY <1>1, <2>2, <2>3, <2>6, Unchanging, Numbers DEF OthersStay, ActiveStay
  <2> QED
    BY <1>1, <1>2, <2>4, <2>5, <2>7, Bypasses
<1> QED
  BY <1>1, <1>3, <1>4


(* A piece that gives a right to a process or to nobody.                   *)
LEMMA GivesOn ==
  ASSUME MInv, Conveying, NEW q \in Procs, stack[q] # <<>>, NEW x \in Sides, Top(q).do = GiveOf(x),
         NEW F, PutsSober(q, F), ActiveStay, OthersStay({}),
         \A p \in Ports, y \in Sides :
           Underway(p, y)' => IF y = x /\ p = Top(q).port THEN Top(q).to = RIGHTS_IN_TRANSIT
                              ELSE Underway(p, y)
  PROVE  Conveying'
<1>0. PICK S : \E s \in Seq(S) : Then(q, s) /\ F = Members(s)
  BY DEF PutsSober, PutsOn
<1>1. PICK s \in Seq(S) : Then(q, s) /\ F = Members(s)
  BY <1>0
<1>2. \A p \in Ports, y \in Sides : ~(Hands(Top(q), p, y) /\ Underway(p, y)')
  BY DEF Hands, GiveOf, Sides
<1>3. /\ \A m \in KMsgs : Unaltered(m) \/ m \in FreeKMsgQ \/ (Filed(m) /\ ~Needed(m))
      /\ \A m \in KMsgs : Filed(m) /\ Needed(m) => Filed(m)'
  BY DEF OthersStay
<1>4. Top(q).do \notin {"LTran"} \cup Bringing /\ \A f \in Members(s) : Sober(q, f)
  BY <1>1 DEF GiveOf, Bringing, PutsSober
<1> QED
  BY <1>1, <1>2, <1>3, <1>4, Forwards DEF ActiveStay


LEMMA GiveOwnershipConveyed ==
  ASSUME MInv, Conveying, NEW q \in Procs, GiveOwnership(q)
  PROVE  Conveying'
<1> DEFINE p == Top(q).port
           to == Top(q).to
<1>1. /\ stack[q] # <<>> /\ Top(q).do = "GiveOwnership" /\ Then(q, <<>>)
      /\ UNCHANGED <<ProcArray, kmsg>>
      /\ PortArray' = [PortArray EXCEPT ![p].Owner = to]
  BY DEF GiveOwnership, At
<1>2. p \in Ports /\ to \in AllProcs /\ "Owner" \in Sides /\ Top(q).do = GiveOf("Owner")
  BY <1>1, Popped, FrameIs DEF Sides, GiveOf
<1>3. \A y \in Ports : Second(y)' = Second(y)
  BY <1>1, <1>2, OwnerIs DEF MInv
<1>4. /\ \A y \in Ports \ {p} : PortArray'[y] = PortArray[y]
      /\ PortArray'[p].Receiver = PortArray[p].Receiver /\ PortArray'[p].Owner = to
      /\ PortArray'[p].InUse = PortArray[p].InUse
  BY <1>1, <1>2 DEF MInv, Typed, PortRecords
<1>5. OthersStay({}) /\ ActiveStay
  BY <1>1, <1>3, QueuesStay, Unchanging DEF Inbox, ActiveStay
<1>6. \A y \in Ports, x \in Sides :
        Underway(y, x)' => IF x = "Owner" /\ y = p THEN to = RIGHTS_IN_TRANSIT ELSE Underway(y, x)
  BY <1>4 DEF Underway, HolderOf, Sides
<1>7. \E F : PutsSober(q, F)
  BY <1>1, SoberFew
<1> QED
  BY <1>1, <1>2, <1>5, <1>6, <1>7, GivesOn


LEMMA GiveReceiveRightsConveyed ==
  ASSUME MInv, Conveying, NEW q \in Procs, GiveReceiveRights(q)
  PROVE  Conveying'
<1> DEFINE p == Top(q).port
           to == Top(q).to
           f == [do |-> "IPCWakeup", to |-> to]
<1>1. /\ stack[q] # <<>> /\ Top(q).do = "GiveReceiveRights" /\ Then(q, <<f>>)
      /\ UNCHANGED <<kmsg, FreeKMsgQ>>
      /\ PortArray' = [PortArray EXCEPT ![p].Receiver = to]
  BY DEF GiveReceiveRights, At
<1>2. p \in Ports /\ to \in AllProcs /\ "Receiver" \in Sides /\ Top(q).do = GiveOf("Receiver")
  BY <1>1, Popped, FrameIs DEF Sides, GiveOf
<1>3. /\ \A x \in KMsgs : \A r \in AllProcs :
           x \in Range(Inbox(r)') <=> IF x \in Range(Primary(p)) THEN r = to ELSE x \in Range(Inbox(r))
      /\ \A x \in Ports : Second(x)' = Second(x)
      /\ \A r \in AllProcs : ProcArray'[r].Active = ProcArray[r].Active
  BY RightsFollowed
<1>4. /\ \A y \in Ports \ {p} : PortArray'[y] = PortArray[y]
      /\ PortArray'[p].Owner = PortArray[p].Owner /\ PortArray'[p].Receiver = to
      /\ PortArray'[p].InUse = PortArray[p].InUse
  BY <1>1, <1>2 DEF MInv, Typed, PortRecords
<1>5. \A x \in KMsgs : Filed(x) => Filed(x)'
  BY <1>2, <1>3 DEF Filed
<1>6. OthersStay({}) /\ ActiveStay
  BY <1>1, <1>3, <1>5, Unchanging, Numbers DEF OthersStay, ActiveStay
<1>7. \A y \in Ports, x \in Sides :
        Underway(y, x)' => IF x = "Receiver" /\ y = p THEN to = RIGHTS_IN_TRANSIT ELSE Underway(y, x)
  BY <1>4 DEF Underway, HolderOf, Sides
<1>8. \E F : PutsSober(q, F)
  <2>1. Sober(q, f)
    BY DEF Sober, Gives, Receivings
  <2> QED
    BY <1>1, <2>1, SoberFew
<1> QED
  BY <1>1, <1>2, <1>6, <1>7, <1>8, GivesOn


LEMMA AppendedFew ==
  ASSUME NEW f, NEW g
  PROVE  Append(<<>>, g) = <<g>> /\ Append(<<f>>, g) = <<f, g>>
<1>1. <<f>> \in Seq({f, g}) /\ <<>> \in Seq({f, g}) /\ g \in {f, g}
  OBVIOUS
<1>2. Append(<<f>>, g) = <<f>> \o <<g>> /\ Append(<<>>, g) = <<>> \o <<g>>
  BY <1>1, AppendIsConcat
<1> QED
  BY <1>2, Joined


(* A received message gives a right to q, and another that nobody has.     *)
LEMMA GTranConveyed ==
  ASSUME MInv, Conveying, NEW q \in Procs, GTran(q)
  PROVE  Conveying'
<1> DEFINE p == Top(q).port
           type == Top(q).type
           own == Give("GiveOwnership", p, q)
           receive == Give("GiveReceiveRights", p, q)
<1>1. stack[q] # <<>> /\ Top(q).do = "GTran" /\ FastGTran(q, p) /\ UNCHANGED <<ProcArray, kmsg>>
  BY DEF GTran, At
<1>2. p \in Ports /\ type \in Rights /\ q # RIGHTS_IN_TRANSIT /\ Top(q) \in Members(stack[q])
  BY <1>1, Popped, FrameIs, MembersParts, Numbers DEF Top, MInv, Typed
<1>3. ProcArray[q].Active
  BY <1>1, <1>2 DEF Conveying, Alive, Receivings
<1>4. PICK s \in {<<>>, <<own>>, <<receive>>, <<own, receive>>, <<receive, own>>} :
        /\ Then(q, s)
        /\ type \in {"TypePtOwnership", "TypePtAll"} => s \in {<<own>>, <<own, receive>>, <<receive, own>>}
        /\ type \in {"TypePtReceive", "TypePtAll"} => s \in {<<receive>>, <<own, receive>>, <<receive, own>>}
  <2> DEFINE Grant(other, field, id) ==
               IF PortArray[p][field] # NO_PROCESS THEN <<>>
               ELSE IF ProcArray[q].Active THEN <<Give(other, p, q)>>
               ELSE <<Give(other, p, RIGHTS_IN_TRANSIT), Notice(q, id, p)>>
  <2>1. Then(q, CASE type = "TypePtOwnership" ->
                        Append(Grant("GiveReceiveRights", "Receiver", "M_ReceiveRights"), own)
                  [] type = "TypePtReceive" ->
                        Append(Grant("GiveOwnership", "Owner", "M_OwnershipRights"), receive)
                  [] type = "TypePtAll" -> <<own, receive>>
                  [] OTHER -> <<>>)
    BY DEF GTran
  <2>2. /\ Grant("GiveReceiveRights", "Receiver", "M_ReceiveRights") \in {<<>>, <<receive>>}
        /\ Grant("GiveOwnership", "Owner", "M_OwnershipRights") \in {<<>>, <<own>>}
    BY <1>3
  <2> HIDE DEF Grant, own, receive
  <2>3. /\ Append(<<>>, own) = <<own>> /\ Append(<<receive>>, own) = <<receive, own>>
        /\ Append(<<>>, receive) = <<receive>> /\ Append(<<own>>, receive) = <<own, receive>>
    BY AppendedFew
  <2>4. CASE type = "TypePtOwnership"
    BY <2>1, <2>2, <2>3, <2>4
  <2>5. CASE type = "TypePtReceive"
    BY <2>1, <2>2, <2>3, <2>5
  <2>6. CASE type = "TypePtAll"
    BY <2>1, <2>6
  <2>7. CASE type \notin {"TypePtOwnership", "TypePtReceive", "TypePtAll"}
    BY <2>1, <2>7
  <2> QED
    BY <2>4, <2>5, <2>6, <2>7
<1>5. Sober(q, own) /\ Sober(q, receive)
  BY <1>2 DEF Sober, Give, Gives, Receivings
<1>6. /\ \A x : Hands(own, p, "Owner") /\ Hands(receive, p, "Receiver")
      /\ \A y, x : Hands(Top(q), y, x) => y = p /\ type \in TypesOf(x)
  BY <1>1, <1>2 DEF Hands, Give, GiveOf
<1> HIDE DEF own, receive
<1>7. /\ s \in Seq({own, receive})
      /\ Members(s) \subseteq {own, receive}
      /\ type \in {"TypePtOwnership", "TypePtAll"} => own \in Members(s)
      /\ type \in {"TypePtReceive", "TypePtAll"} => receive \in Members(s)
  <2>1. /\ Members(<<>>) = {} /\ Members(<<own>>) = {own} /\ Members(<<own, receive>>) = {own, receive}
    BY MembersFew, Zenon
  <2>2. Members(<<receive>>) = {receive} /\ Members(<<receive, own>>) = {own, receive}
    <3>1. Members(<<receive>>) = {receive} /\ Members(<<receive, own>>) = {receive, own}
      BY MembersFew, Zenon
    <3> QED
      BY <3>1
  <2>3. s \in Seq({own, receive})
    <3>1. /\ <<>> \in Seq({own, receive}) /\ <<own>> \in Seq({own, receive})
          /\ <<receive>> \in Seq({own, receive}) /\ <<own, receive>> \in Seq({own, receive})
          /\ <<receive, own>> \in Seq({own, receive})
      OBVIOUS
    <3> QED
      BY <1>4, <3>1
  <2>4. Members(s) \subseteq {own, receive}
    BY <1>4, <2>1, <2>2
  <2>5. /\ type \in {"TypePtOwnership", "TypePtAll"} => own \in Members(s)
        /\ type \in {"TypePtReceive", "TypePtAll"} => receive \in Members(s)
    BY <1>4, <2>1, <2>2
  <2> QED
    BY <2>3, <2>4, <2>5
<1>8. \A y \in Ports, x \in Sides :
        Hands(Top(q), y, x) /\ Underway(y, x)' => \E g \in Members(s) : Hands(g, y, x)
  BY <1>6, <1>7 DEF Sides, TypesOf
<1>9. RightsSame /\ \A x \in Ports : Second(x)' = Second(x)
  BY <1>1, <1>2, SendersStay DEF MInv, FastGTran
<1>10. OthersStay({})
  BY <1>1, <1>9, QueuesStay, Unchanging DEF Inbox
<1>11. /\ \A m \in KMsgs : Unaltered(m)
       /\ \A m \in KMsgs : Filed(m) /\ Needed(m) => Filed(m)'
       /\ \A r \in Procs : ProcArray[r].Active => ProcArray'[r].Active
       /\ Top(q).do \notin {"LTran"} \cup Bringing
  BY <1>1, <1>10, Unchanging DEF OthersStay, Bringing
<1>12. \A f \in Members(s) : Sober(q, f)
  BY <1>5, <1>7
<1> QED
  BY <1>1, <1>4, <1>7, <1>8, <1>9, <1>11, <1>12, NotUnderway, Forwards


(* A message that cannot be posted, or queued, is destroyed; it has no     *)
(* right in transit.                                                       *)
LEMMA FailConveyed ==
  ASSUME MInv, Conveying, Undestroyed, NEW q \in Procs, PostNowhere(q) \/ PostRefused(q)
  PROVE  Conveying'
<1> DEFINE m == Top(q).kmsg
<1>1. /\ stack[q] # <<>> /\ Top(q).do = "Post" /\ Return(q) /\ Free(m)
      /\ UNCHANGED <<PortArray, ProcArray>>
  BY DEF PostNowhere, PostRefused, Posting, At
<1>2. m \in KMsgs /\ Tail(stack[q]) = <<>>
  BY <1>1, TopHeld, LastIs DEF Holding, Lasts
<1>3. ~Needed(m)
  BY DEF Undestroyed, PostNowhere, PostRefused, Posting
<1> HIDE DEF m
<1>4. OthersStay({m})
  BY <1>1, <1>2, FreesOne DEF MInv, Inbox, Second
<1>5. ActiveStay /\ RightsSame /\ Top(q).do \in Bringing
  BY <1>1 DEF ActiveStay, RightsSame, Bringing
<1>6. \E F : PutsSober(q, F)
  BY <1>1, <1>2, ReturnsThen, SoberFew DEF MInv
<1> QED
  BY <1>1, <1>3, <1>4, <1>5, <1>6, PassesOn DEF m


(* A message that is put in a queue is filed; and what was there is.       *)
LEMMA FiledMore ==
  ASSUME \A r \in AllProcs : Range(Inbox(r)) \subseteq Range(Inbox(r))',
         \A p \in Ports : Range(Second(p)) \subseteq Range(Second(p))'
  PROVE  \A x : Filed(x) => Filed(x)'
BY DEF Filed

LEMMA FiledThere ==
  ASSUME NEW x, \/ \E r \in AllProcs : x \in Range(Inbox(r))'
                \/ \E p \in Ports : x \in Range(Second(p))'
  PROVE  Filed(x)'
BY DEF Filed

(* A piece that puts its message in a queue.                               *)
LEMMA Files ==
  ASSUME MInv, Conveying, NEW q \in Procs, stack[q] # <<>>, Top(q).do \in Bringing,
         NEW F, PutsSober(q, F), ActiveStay, RightsSame, NEW m, m = Top(q).kmsg,
         \A x \in KMsgs : Unaltered(x), \A x : Filed(x) => Filed(x)', Filed(m)'
  PROVE  Conveying'
<1>1. m \in KMsgs /\ OthersStay({m})
  BY TopHeld DEF OthersStay, Bringing, Holding
<1> QED
  BY <1>1, PassesOn


(* A message that is posted is in its receiver's queue, ...                *)
LEMMA PostConveyed ==
  ASSUME MInv, Conveying, NEW q \in Procs, Post(q)
  PROVE  Conveying'
<1> DEFINE m == Top(q).kmsg
           p == kmsg[m].RemotePort
           to == PortArray[p].Receiver
           queued == Queued(m, p)
<1>1. /\ stack[q] # <<>> /\ Top(q).do = "Post" /\ Return(q) /\ p # NullPort
      /\ ProcArray' = IF ProcArray[to].State = "MSG_WAIT" THEN IPCWakeup(queued, to) ELSE queued
      /\ PortArray' = Counted(m, p) /\ UNCHANGED <<kmsg, FreeKMsgQ>>
  BY DEF Post, Posting, At
<1>2. m \in KMsgs /\ Holds(stack[q], m) /\ Tail(stack[q]) = <<>>
  BY <1>1, TopHeld, LastIs DEF Holding, Lasts
<1>3. p \in Ports
  BY <1>1, <1>2 DEF MInv, Typed, MessageRecords
<1>4. to \in AllProcs
  BY <1>3 DEF MInv, Typed, PortRecords
<1>5. \A r \in AllProcs : m \notin Range(Inbox(r))
  BY <1>2, HeldAlone
<1>6. /\ queued \in [AllProcs -> ProcRecords]
      /\ \A r \in AllProcs :
           /\ Range(queued[r].MsgsWaiting) = IF r = to THEN Range(Inbox(r)) \cup {m} ELSE Range(Inbox(r))
           /\ queued[r].Active = ProcArray[r].Active
  BY <1>2, <1>3, <1>5, QueuedIs
<1>7. RightsSame /\ \A x \in Ports : Second(x)' = Second(x)
  BY <1>1, <1>2, <1>3, CountedIs, CountedRights DEF MInv
<1> HIDE DEF m, p, to, queued
<1>8. \A r \in AllProcs : /\ ProcArray'[r].MsgsWaiting = queued[r].MsgsWaiting
                          /\ ProcArray'[r].Active = queued[r].Active
  <2>1. CASE ProcArray[to].State = "MSG_WAIT"
    <3>1. ProcArray' = [queued EXCEPT ![to].State = "NOT_WAITING"] \/ ProcArray' = queued
      BY <1>1, <1>4, <1>6, <2>1 DEF IPCWakeup, Waiting
    <3> QED
      BY <1>4, <1>6, <3>1 DEF ProcRecords
  <2>2. CASE ProcArray[to].State # "MSG_WAIT"
    BY <1>1, <2>2
  <2> QED
    BY <2>1, <2>2
<1> PICK n \in KMsgs : n = m
  BY <1>2
<1> PICK u \in AllProcs : u = to
  BY <1>4
<1>9. Filed(n)' /\ \A x : Filed(x) => Filed(x)'
  <2>1. \A r \in AllProcs : Range(Inbox(r))' = IF r = u THEN Range(Inbox(r)) \cup {n} ELSE Range(Inbox(r))
    BY <1>6, <1>8 DEF Inbox
  <2>2. n \in Range(Inbox(u))'
    BY <2>1
  <2>3. Filed(n)'
    BY <2>2, FiledThere
  <2>4. \A r \in AllProcs : Range(Inbox(r)) \subseteq Range(Inbox(r))'
    BY <2>1
  <2>5. \A x \in Ports : Range(Second(x)) \subseteq Range(Second(x))'
    BY <1>7
  <2> QED
    BY <2>3, <2>4, <2>5, FiledMore
<1>10. ActiveStay /\ \A x \in KMsgs : Unaltered(x)
  BY <1>1, <1>6, <1>8, Unchanging, Numbers DEF ActiveStay
<1>11. \E F : PutsSober(q, F)
  BY <1>1, <1>2, ReturnsThen, SoberFew DEF MInv
<1>12. Top(q).do \in Bringing
  BY <1>1 DEF Bringing
<1> QED
  BY <1>1, <1>7, <1>9, <1>10, <1>11, <1>12, Files DEF m


(* ... or will be by QueueMsg, ...                                         *)
LEMMA QueueMsgConveyed ==
  ASSUME MInv, Conveying, Undestroyed, NEW q \in Procs, QueueMsg(q)
  PROVE  Conveying'
<1> DEFINE m == Top(q).kmsg
           p == kmsg[m].RemotePort
           to == PortArray[p].Receiver
           f == [do |-> "WakeForMsg", to |-> to]
<1>1. /\ stack[q] # <<>> /\ Top(q).do = "QueueMsg" /\ Typed
      /\ \/ ~PortArray[p].InUse /\ Free(m) /\ Then(q, <<>>) /\ UNCHANGED <<PortArray, ProcArray>>
         \/ /\ ProcArray' = Queued(m, p) /\ PortArray' = Counted(m, p) /\ Then(q, <<f>>)
            /\ UNCHANGED <<kmsg, FreeKMsgQ>>
  BY DEF QueueMsg, At, MInv
<1>2. m \in KMsgs /\ Holds(stack[q], m) /\ p \in Ports /\ Top(q).do \in Bringing
  BY <1>1, TopHeld DEF Holding, Bringing
<1>3. \E F : PutsSober(q, F)
  <2>1. Sober(q, f)
    BY DEF Sober, Gives, Receivings
  <2> QED
    BY <1>1, <2>1, SoberFew
<1>4. CASE ~PortArray[p].InUse /\ Free(m) /\ UNCHANGED <<PortArray, ProcArray>>
  <2>1. ~Needed(m)
    BY <1>1, <1>4 DEF Undestroyed, At
  <2> HIDE DEF m
  <2>2. OthersStay({m}) /\ ActiveStay /\ RightsSame
    BY <1>1, <1>2, <1>4, FreesOne DEF Inbox, Second, ActiveStay, RightsSame
  <2> QED
    BY <1>1, <1>2, <1>3, <2>1, <2>2, PassesOn DEF m
<1>5. CASE ProcArray' = Queued(m, p) /\ PortArray' = Counted(m, p) /\ UNCHANGED <<kmsg, FreeKMsgQ>>
  <2>1. \A r \in AllProcs : m \notin Range(Inbox(r))
    BY <1>2, HeldAlone
  <2>2. \A r \in AllProcs :
          /\ Range(Inbox(r)') = IF r = to THEN Range(Inbox(r)) \cup {m} ELSE Range(Inbox(r))
          /\ ProcArray'[r].Active = ProcArray[r].Active
    BY <1>2, <1>5, <2>1, QueuedIs DEF Inbox
  <2>3. RightsSame /\ \A x \in Ports : Second(x)' = Second(x)
    BY <1>1, <1>2, <1>5, CountedIs, CountedRights
  <2>4. to \in AllProcs
    BY <1>1, <1>2 DEF Typed, PortRecords
  <2> HIDE DEF to, m
  <2> PICK n \in KMsgs : n = m
    BY <1>2
  <2> PICK u \in AllProcs : u = to
    BY <2>4
  <2>5. Filed(n)' /\ \A x : Filed(x) => Filed(x)'
    <3>1. n \in Range(Inbox(u))'
      BY <2>2
    <3>2. Filed(n)'
      BY <3>1, FiledThere
    <3>3. \A r \in AllProcs : Range(Inbox(r)) \subseteq Range(Inbox(r))'
      BY <2>2
    <3>4. \A x \in Ports : Range(Second(x)) \subseteq Range(Second(x))'
      BY <2>3
    <3> QED
      BY <3>2, <3>3, <3>4, FiledMore
  <2>6. ActiveStay /\ \A x \in KMsgs : Unaltered(x)
    BY <1>5, <2>2, Unchanging, Numbers DEF ActiveStay
  <2> QED
    BY <1>1, <1>2, <1>3, <2>3, <2>5, <2>6, Files DEF m
<1> QED
  BY <1>1, <1>4, <1>5


(* ... or waits in the port's second queue.                                *)
LEMMA PostLaterConveyed ==
  ASSUME MInv, Conveying, NEW q \in Procs, PostLater(q)
  PROVE  Conveying'
<1> DEFINE m == Top(q).kmsg
           p == kmsg[m].RemotePort
           what == IF Top(q).how = "Reply" THEN "SEND_ACK" ELSE "WAKE_ME"
           g == [do |-> "FullWait", kmsg |-> m, port |-> p, how |-> Top(q).how, signalled |-> FALSE]
<1>1. /\ stack[q] # <<>> /\ Top(q).do = "Post" /\ p # NullPort /\ UNCHANGED FreeKMsgQ
      /\ PortArray' = [PortArray EXCEPT ![p].SecondaryMsgQ = Append(@, m), ![p].NumQueued = @ + 1]
      /\ kmsg' = [kmsg EXCEPT ![m].WakeupProc = q, ![m].What = what]
      /\ \/ Return(q) /\ UNCHANGED ProcArray
         \/ Then(q, <<g>>) /\ ProcArray' = [ProcArray EXCEPT ![q].State = "FULL_WAIT"]
  BY DEF PostLater, Posting, At
<1>2. m \in KMsgs /\ Tail(stack[q]) = <<>> /\ Typed
  BY <1>1, TopHeld, LastIs DEF Holding, Lasts, MInv
<1>3. p \in Ports
  BY <1>1, <1>2 DEF Typed, MessageRecords
<1>4. \E F : PutsSober(q, F)
  <2>1. Sober(q, g)
    BY DEF Sober, Gives, Receivings
  <2> HIDE DEF g
  <2> QED
    BY <1>1, <1>2, <2>1, ReturnsThen, SoberFew
<1> HIDE DEF g, what
<1> DEFINE c == Append(PortArray[p].SecondaryMsgQ, m)
           d == PortArray[p].NumQueued + 1
<1>5. PortArray' = [PortArray EXCEPT ![p].SecondaryMsgQ = c, ![p].NumQueued = d]
  BY <1>1, <1>2, <1>3 DEF Typed, PortRecords
<1>6. Range(c) = Range(Second(p)) \cup {m}
  BY <1>2, <1>3, QueuesTyped, RangeAppend DEF Second
<1> HIDE DEF c, d
<1>7. RightsSame
  BY <1>2, <1>3, <1>5, RightsStay
<1>8. \A y \in Ports : Second(y)' = IF y = p THEN c ELSE Second(y)
  BY <1>2, <1>3, <1>5, SecondSet
<1> HIDE DEF m, p
<1>9. \A x \in KMsgs : Unaltered(x)
  <2>1. \A x \in KMsgs : kmsg[x] \in MessageRecords
    BY <1>2 DEF Typed
  <2> QED
    BY <1>1, <1>2, <2>1 DEF Typed, MessageRecords, Unaltered
<1>10. \A r \in AllProcs : Inbox(r)' = Inbox(r) /\ ProcArray'[r].Active = ProcArray[r].Active
  <2>1. CASE UNCHANGED ProcArray
    BY <2>1 DEF Inbox
  <2>2. CASE ProcArray' = [ProcArray EXCEPT ![q].State = "FULL_WAIT"]
    <3>1. q \in AllProcs /\ "FULL_WAIT" \in {"NOT_WAITING", "TIMED_OUT"} \cup Waiting
      BY Numbers DEF Waiting
    <3> QED
      BY <1>2, <2>2, <3>1, StateIs
  <2> QED
    BY <1>1, <2>1, <2>2
<1> PICK n \in KMsgs : n = m
  BY <1>2
<1> PICK u \in Ports : u = p
  BY <1>3
<1>11. Filed(n)' /\ \A x : Filed(x) => Filed(x)'
  <2>1. n \in Range(Second(u))'
    BY <1>6, <1>8
  <2>2. Filed(n)'
    BY <2>1, FiledThere
  <2>3. \A r \in AllProcs : Range(Inbox(r)) \subseteq Range(Inbox(r))'
    BY <1>10
  <2>4. \A y \in Ports : Range(Second(y)) \subseteq Range(Second(y))'
    BY <1>6, <1>8
  <2> QED
    BY <2>2, <2>3, <2>4, FiledMore
<1>12. ActiveStay /\ Top(q).do \in Bringing
  BY <1>1, <1>10, Numbers DEF ActiveStay, Bringing
<1> QED
  BY <1>1, <1>4, <1>7, <1>9, <1>11, <1>12, Files DEF m

(* A receive moves a message up and goes on with its own, ...              *)
LEMMA MoveUpConveyed ==
  ASSUME MInv, Conveying, NEW q \in Procs, MoveUp(q)
  PROVE  Conveying'
<1> DEFINE p == Top(q).port
           m == Top(q).kmsg
           more == PortArray[p].SecondaryMsgQ
           f == Frame(IF kmsg[m].What = "DONT_WAKE" THEN "CopyOut" ELSE "Answer", m)
<1>1. /\ stack[q] # <<>> /\ Top(q).do = "Taken" /\ Then(q, <<f>>) /\ UNCHANGED <<kmsg, FreeKMsgQ>>
      /\ PortArray' = [PortArray EXCEPT ![p].NumQueued = IF kmsg[m].emerg THEN @ ELSE @ - 1,
                                        ![p].SecondaryMsgQ = IF more = <<>> THEN @ ELSE Tail(@)]
      /\ ProcArray' = IF more = <<>> THEN ProcArray
                      ELSE [ProcArray EXCEPT ![q].MsgsWaiting = Append(@, Head(more))]
  BY DEF MoveUp, At
<1>2. p \in Ports /\ q \in AllProcs /\ Typed /\ m \in KMsgs /\ Top(q).do \in Bringing
  BY <1>1, Popped, FrameIs, TopHeld, Numbers DEF MInv, Holding, Bringing
<1>3. Sober(q, f) /\ f.do \in Bringing /\ f.kmsg = m
  BY <1>1 DEF Frame, Sober, Gives, Receivings, Bringing
<1> HIDE DEF f
<1>4. PutsSober(q, {f})
  BY <1>1, <1>3, PutsOnFew DEF PutsSober
<1> DEFINE c == IF kmsg[m].emerg THEN PortArray[p].NumQueued ELSE PortArray[p].NumQueued - 1
           d == IF more = <<>> THEN more ELSE Tail(more)
<1>5. PortArray' = [PortArray EXCEPT ![p].NumQueued = c, ![p].SecondaryMsgQ = d]
  BY <1>1, <1>2 DEF Typed, PortRecords
<1> HIDE DEF c
<1>6. RightsSame /\ \A y \in Ports : Second(y)' = IF y = p THEN d ELSE Second(y)
  <2> HIDE DEF d
  <2> QED
    BY <1>2, <1>5, RightsStay, SecondSet
<1>7. \A r \in AllProcs : ProcArray'[r].Active = ProcArray[r].Active
  BY <1>1, <1>2 DEF Typed, ProcRecords
<1>8. \A r \in AllProcs : Range(Inbox(r)) \subseteq Range(Inbox(r)')
  <2>1. CASE more = <<>>
    BY <1>1, <2>1 DEF Inbox
  <2>2. CASE more # <<>>
    <3>1. Second(p) \in Seq(KMsgs) /\ Inbox(q) \in Seq(KMsgs) /\ more = Second(p)
      BY <1>2, QueuesTyped DEF Second
    <3>2. Head(more) \in KMsgs
      BY <2>2, <3>1, HeadTailProperties
    <3>3. Range(Append(Inbox(q), Head(more))) = Range(Inbox(q)) \cup {Head(more)}
      BY <3>1, <3>2, RangeAppend
    <3>4. \A r \in AllProcs : Inbox(r)' = IF r = q THEN Append(Inbox(q), Head(more)) ELSE Inbox(r)
      BY <1>1, <1>2, <2>2 DEF Typed, ProcRecords, Inbox
    <3> QED
      BY <3>3, <3>4
  <2> QED
    BY <2>1, <2>2
<1>9. \A x \in Range(Second(p)) : x \in Range(d) \/ x \in Range(Inbox(q)')
  <2>1. CASE more = <<>>
    BY <2>1 DEF Second
  <2>2. CASE more # <<>>
    <3>1. Second(p) \in Seq(KMsgs) /\ Inbox(q) \in Seq(KMsgs) /\ more = Second(p) /\ IsInjective(more)
      BY <1>2, QueuesTyped DEF Second, MInv, Once
    <3>2. Head(more) \in KMsgs /\ Range(Tail(more)) = Range(more) \ {Head(more)}
      BY <2>2, <3>1, HeadTailProperties, RangeTail
    <3>3. Range(Append(Inbox(q), Head(more))) = Range(Inbox(q)) \cup {Head(more)}
      BY <3>1, <3>2, RangeAppend
    <3>4. Inbox(q)' = Append(Inbox(q), Head(more))
      BY <1>1, <1>2, <2>2 DEF Typed, ProcRecords, Inbox
    <3> QED
      BY <2>2, <3>1, <3>2, <3>3, <3>4
  <2> QED
    BY <2>1, <2>2
<1> HIDE DEF d, more, m
<1>10. \A x : Filed(x) => Filed(x)'
  <2>1. ASSUME NEW x, NEW r \in AllProcs, x \in Range(Inbox(r)) PROVE Filed(x)'
    BY <1>8, <2>1, FiledThere
  <2>2. ASSUME NEW x, NEW y \in Ports, x \in Range(Second(y)) PROVE Filed(x)'
    <3>1. x \in Range(Second(y))' \/ x \in Range(Inbox(q))'
      BY <1>6, <1>9, <2>2
    <3> QED
      BY <1>2, <3>1, FiledThere
  <2> QED
    BY <2>1, <2>2 DEF Filed
<1>11. ActiveStay /\ (\A x \in KMsgs : Unaltered(x)) /\ OthersStay({m})
  BY <1>1, <1>7, <1>10, Unchanging, Numbers DEF ActiveStay, OthersStay
<1> QED
  BY <1>1, <1>2, <1>3, <1>4, <1>6, <1>11, PassesOn DEF m


(* ... answers its sender ...                                              *)
LEMMA AnswerConveyed ==
  ASSUME MInv, Conveying, NEW q \in Procs, Answer(q)
  PROVE  Conveying'
<1> DEFINE m == Top(q).kmsg
           to == kmsg[m].WakeupProc
           n == Notice(to, "M_MsgAccepted", kmsg[m].RemotePort)
           f == Frame("CopyOut", m)
<1>1. /\ stack[q] # <<>> /\ Top(q).do = "Answer"
      /\ kmsg' = [kmsg EXCEPT ![m].What = "DONT_WAKE"]
      /\ \/ /\ kmsg[m].What = "WAKE_ME" /\ ProcArray' = IPCWakeup(ProcArray, to)
            /\ Then(q, <<f>>) /\ UNCHANGED PortArray
         \/ /\ FastGTran(to, kmsg[m].RemotePort) /\ UNCHANGED ProcArray /\ Then(q, <<n, f>>)
  BY DEF Answer, At, SendAcknowledge
<1>2. m \in KMsgs /\ kmsg[m].RemotePort \in Ports /\ Top(q).do \in Bringing
  BY <1>1, TopHeld DEF Holding, Bringing
<1>3. Sober(q, n) /\ Sober(q, f) /\ f.do \in Bringing /\ f.kmsg = m
  BY <1>1 DEF Notice, Frame, Sober, Gives, Receivings, Bringing
<1> HIDE DEF f, n
<1>4. PICK F : PutsSober(q, F) /\ f \in F
  <2>1. CASE Then(q, <<f>>)
    <3>1. PutsSober(q, {f})
      BY <1>3, <2>1, PutsOnFew DEF PutsSober
    <3> QED
      BY <3>1
  <2>2. CASE Then(q, <<n, f>>)
    <3>1. PutsOn(q, {n, f})
      BY <2>2, PutsOnFew
    <3>2. PutsSober(q, {n, f})
      BY <1>3, <3>1 DEF PutsSober
    <3> QED
      BY <3>2
  <2> QED
    BY <1>1, <2>1, <2>2
<1>5. \A x \in KMsgs : Unaltered(x)
  BY <1>1, <1>2, AnsweredIs DEF MInv, Unaltered
<1>6. RightsSame /\ (\A x \in Ports : Second(x)' = Second(x))
      /\ \A r \in AllProcs : Inbox(r)' = Inbox(r) /\ ProcArray'[r].Active = ProcArray[r].Active
  <2>1. CASE FastGTran(to, kmsg[m].RemotePort) /\ UNCHANGED ProcArray
    <3>1. RightsSame /\ \A x \in Ports : Second(x)' = Second(x)
      BY <1>2, <2>1, SendersStay DEF MInv, FastGTran
    <3> QED
      BY <2>1, <3>1 DEF Inbox
  <2>2. CASE kmsg[m].What = "WAKE_ME" /\ ProcArray' = IPCWakeup(ProcArray, to) /\ UNCHANGED PortArray
    <3>1. to \in AllProcs
      BY <1>2, <2>2, Numbers DEF MInv, Typed
    <3> QED
      BY <2>2, <3>1, WakeupIs DEF MInv, Inbox, Second, RightsSame
  <2> QED
    BY <1>1, <2>1, <2>2
<1> HIDE DEF m, to
<1>7. OthersStay({m}) /\ ActiveStay
  BY <1>5, <1>6, QueuesStay, Numbers DEF ActiveStay
<1> QED
  BY <1>1, <1>2, <1>3, <1>4, <1>5, <1>6, <1>7, PassesOn DEF m


(* ... and copies out the right that the message has.                      *)
LEMMA CopyOutConveyed ==
  ASSUME MInv, Conveying, Undestroyed, NEW q \in Procs, CopyOut(q)
  PROVE  Conveying'
<1> DEFINE m == Top(q).kmsg
           f == [do |-> "GTran", type |-> kmsg[m].type, port |-> kmsg[m].port]
           g == Frame("Release", m)
<1>1. /\ stack[q] # <<>> /\ Top(q).do = "CopyOut" /\ UNCHANGED <<ProcArray, kmsg, FreeKMsgQ>>
      /\ FastGTrans(q, {kmsg[m].LocalPort, kmsg[m].RemotePort}) \/ UNCHANGED PortArray
      /\ \/ (kmsg[m].type = "none" \/ ~Needed(m)) /\ Then(q, <<g>>)
         \/ Then(q, <<f, g>>)
  BY DEF CopyOut, Undestroyed, At
<1>2. m \in KMsgs /\ Top(q).do \in Bringing
  BY <1>1, TopHeld DEF Holding, Bringing
<1>3. Sober(q, f) /\ Sober(q, g) /\ GetsOut(f, m)
  BY <1>1 DEF Frame, Sober, Gives, Receivings, GetsOut
<1>4. kmsg[m].type = "none" => ~Needed(m)
  BY DEF Needed, Bears, TypesOf
<1> HIDE DEF f, g, m
<1>5. PICK F : PutsSober(q, F) /\ (f \in F \/ ~Needed(m))
  <2>1. CASE (kmsg[m].type = "none" \/ ~Needed(m)) /\ Then(q, <<g>>)
    <3>1. PutsOn(q, {g})
      BY <2>1, PutsOnFew
    <3>2. PutsSober(q, {g})
      BY <1>3, <3>1 DEF PutsSober
    <3> QED
      BY <1>4, <2>1, <3>2
  <2>2. CASE Then(q, <<f, g>>)
    <3>1. PutsOn(q, {f, g})
      BY <2>2, PutsOnFew
    <3>2. PutsSober(q, {f, g})
      BY <1>3, <3>1 DEF PutsSober
    <3> QED
      BY <3>2
  <2> QED
    BY <1>1, <2>1, <2>2
<1>6. RightsSame /\ \A x \in Ports : Second(x)' = Second(x)
  BY <1>1, GTransIs DEF MInv, RightsSame, Second
<1>7. OthersStay({m}) /\ ActiveStay
  BY <1>1, <1>6, QueuesStay, Unchanging DEF Inbox, ActiveStay
<1> QED
  BY <1>1, <1>2, <1>3, <1>5, <1>6, <1>7, PassesOn DEF m

-----------------------------------------------------------------------------
(* The calls.                                                              *)

(* Who brings and gives nothing and loses no message that is filed keeps   *)
(* every right on its way, if what it goes on with does.                   *)
LEMMA Renews ==
  ASSUME MInv, Conveying, NEW q \in Procs,
         \A r \in Procs \ {q} : stack'[r] = stack[r],
         \A r \in Procs \ {q} : ProcArray[r].Active => ProcArray'[r].Active,
         \A m : ~Brings(q, m), \A f \in Members(stack[q]) : f.do \notin {"GTran"} \cup Gives,
         \A m \in KMsgs : Unaltered(m) \/ m \in FreeKMsgQ \/ Holds(stack[q], m),
         \A m \in KMsgs : Filed(m) => Filed(m)' \/ Brings(q, m)',
         RightsSame, Departs(q)', Alive(q)'
  PROVE  Conveying'
<1>1. ASSUME NEW m \in KMsgs, Filed(m) PROVE Onward(q, m)
  <2>1. m \notin FreeKMsgQ /\ ~Holds(stack[q], m)
    BY <1>1, FiledAlone
  <2> QED
    BY <1>1, <2>1 DEF Onward
<1>2. \A p \in Ports, x \in Sides : \A f \in Members(stack[q]) : ~Hands(f, p, x)
  BY DEF Hands, Gives, GiveOf
<1> QED
  BY <1>1, <1>2, NotUnderway, Conveyed


(* What copies a message in has nothing under it but what posts it.        *)
LEMMA LTranUnder ==
  ASSUME MInv, NEW q \in Procs, At(q, "LTran")
  PROVE  /\ \A f \in Members(stack[q]) : f.do \in {"LTran", "Post"}
         /\ Top(q) \in Members(stack[q])
         /\ \E f \in Members(Tail(stack[q])) : f.do = "Post" /\ f.kmsg = Top(q).kmsg
<1> DEFINE st == stack[q]
<1>1. st \in Seq(Frames) /\ StackOK(st) /\ st # <<>> /\ Head(st).do = "LTran"
  BY DEF MInv, Typed, Stacks, At, Top
<1> HIDE DEF st
<1>2. Len(st) \in Nat \ {0} /\ Head(st) = st[1] /\ Len(Tail(st)) = Len(st) - 1
      /\ \A i \in 1 .. Len(Tail(st)) : Tail(st)[i] = st[i + 1]
  BY <1>1, HeadTailProperties, EmptySeq
<1>3. 1 \in 1 .. Len(st)
  BY <1>2
<1>4. Len(st) = 2 /\ st[2].do = "Post" /\ st[2].kmsg = st[1].kmsg /\ st[1].do = "LTran"
  BY <1>1, <1>2, <1>3 DEF StackOK
<1>5. \A i \in 1 .. Len(st) : st[i].do \in {"LTran", "Post"}
  <2>1. \A i \in 1 .. Len(st) : i = 1 \/ i = 2
    BY <1>4
  <2> QED
    BY <1>4, <2>1
<1>6. 1 \in 1 .. Len(Tail(st)) /\ Tail(st)[1] = st[2]
  BY <1>2, <1>4
<1>7. Tail(st)[1] \in Members(Tail(st)) /\ st[1] \in Members(st)
  BY <1>3, <1>6 DEF Members
<1> QED
  BY <1>2, <1>4, <1>5, <1>6, <1>7 DEF st, Members, Top


(* A right that goes into transit goes with the message that is posted     *)
(* next.                                                                   *)
LEMMA LTranConveyed ==
  ASSUME MInv, Conveying, NEW q \in Procs, LTran(q)
  PROVE  Conveying'
<1> DEFINE m == Top(q).kmsg
           p == kmsg[m].port
           type == kmsg[m].type
           f == Give("GiveOwnership", p, RIGHTS_IN_TRANSIT)
           g == Give("GiveReceiveRights", p, RIGHTS_IN_TRANSIT)
           s == (IF type \in {"TypePtOwnership", "TypePtAll"} THEN <<f>> ELSE <<>>)
                   \o (IF type \in {"TypePtReceive", "TypePtAll"} THEN <<g>> ELSE <<>>)
<1>1. /\ At(q, "LTran") /\ stack[q] # <<>> /\ Top(q).do = "LTran" /\ UNCHANGED <<PortArray, ProcArray>>
      /\ \/ /\ kmsg' = [kmsg EXCEPT ![m].type = "none", ![m].port = NullPort] /\ Then(q, <<>>)
         \/ UNCHANGED kmsg /\ Then(q, s)
         \/ Free(m) /\ Return(q)
  BY DEF LTran, At
<1>2. m \in KMsgs /\ Holds(stack[q], m)
  BY <1>1, LTranStack
<1>3. /\ \A e \in Members(stack[q]) : e.do \in {"LTran", "Post"}
      /\ Top(q) \in Members(stack[q])
      /\ \E e \in Members(Tail(stack[q])) : e.do = "Post" /\ e.kmsg = m
  BY <1>1, LTranUnder
<1>4. /\ \A x : ~Brings(q, x)
      /\ \A e \in Members(stack[q]) : e.do \notin {"GTran"} \cup Gives
  BY <1>1, <1>3 DEF Brings, Gives
<1>5. /\ f.do = "GiveOwnership" /\ f.port = p /\ g.do = "GiveReceiveRights" /\ g.port = p
  BY DEF Give
<1>6. \/ s = <<>>
      \/ s = <<f>> /\ type \in TypesOf("Owner")
      \/ s = <<g>> /\ type \in TypesOf("Receiver")
      \/ s = <<f, g>> /\ type \in TypesOf("Owner") /\ type \in TypesOf("Receiver")
  <2> HIDE DEF f, g, type
  <2>1. /\ <<>> \o <<>> = <<>> /\ <<>> \o <<g>> = <<g>> /\ <<f>> \o <<>> = <<f>>
        /\ <<f>> \o <<g>> = <<f, g>>
    BY Joined
  <2> QED
    BY <2>1 DEF TypesOf
<1>7. \A x \in KMsgs : Unaltered(x) \/ Holds(stack[q], x)
  BY <1>1, <1>2, <1>3 DEF MInv, Typed, Free, Unaltered
<1>8. \A x : Filed(x) => Filed(x)'
  BY <1>1, FiledStays DEF Inbox, Second
<1>9. RightsSame /\ \A r \in Procs : ProcArray[r].Active => ProcArray'[r].Active
  BY <1>1 DEF RightsSame
<1> HIDE DEF s, f, g
<1>10. ASSUME NEW S, NEW u \in Seq(S), Then(q, u),
              \A e \in Members(u) : \/ e = f /\ type \in TypesOf("Owner") /\ UNCHANGED kmsg
                                    \/ e = g /\ type \in TypesOf("Receiver") /\ UNCHANGED kmsg
       PROVE  Conveying'
  <2>1. /\ \A r \in Procs \ {q} : stack'[r] = stack[r]
        /\ Members(stack'[q]) = Members(u) \cup Members(Tail(stack[q]))
        /\ Members(stack[q]) = {Top(q)} \cup Members(Tail(stack[q]))
    BY <1>1, <1>10, MembersThen DEF MInv
  <2>2. PICK e \in Members(stack'[q]) : e.do = "Post" /\ e.kmsg = m
    BY <1>3, <2>1
  <2>3. \A d \in Members(stack'[q]) : d \in Members(u) \/ d.do \in {"LTran", "Post"}
    BY <1>3, <2>1
  <2>4. Departs(q)'
    <3> SUFFICES ASSUME NEW x \in Sides, NEW d \in Members(stack'[q]), d.do = GiveOf(x)
                 PROVE  Bears(e.kmsg, d.port, x)'
      BY <2>2 DEF Departs
    <3>1. d \in Members(u)
      BY <2>3 DEF GiveOf
    <3>2. CASE d = f /\ type \in TypesOf("Owner") /\ UNCHANGED kmsg
      <4>1. x = "Owner"
        BY <1>5, <3>2 DEF Sides, GiveOf
      <4> QED
        BY <1>5, <2>2, <3>2, <4>1 DEF Bears
    <3>3. CASE d = g /\ type \in TypesOf("Receiver") /\ UNCHANGED kmsg
      <4>1. x = "Receiver"
        BY <1>5, <3>3 DEF Sides, GiveOf
      <4> QED
        BY <1>5, <2>2, <3>3, <4>1 DEF Bears
    <3> QED
      BY <1>10, <3>1, <3>2, <3>3
  <2>5. Alive(q)'
    BY <1>5, <1>10, <2>3 DEF Alive, Receivings
  <2> QED
    BY <1>4, <1>7, <1>8, <1>9, <2>1, <2>4, <2>5, Renews
<1>11. CASE Then(q, <<>>)
  <2>1. <<>> \in Seq({}) /\ \A e : e \notin Members(<<>>)
    BY DEF Members
  <2> QED
    BY <1>10, <1>11, <2>1
<1>12. CASE UNCHANGED kmsg /\ Then(q, s)
  <2>1. CASE s = <<>>
    BY <1>11, <1>12, <2>1
  <2>2. CASE s = <<f>> /\ type \in TypesOf("Owner")
    <3>1. Members(<<f>>) = {f}
      BY MembersFew, Zenon
    <3>2. <<f>> \in Seq({f})
      OBVIOUS
    <3> QED
      BY <1>10, <1>12, <2>2, <3>1, <3>2
  <2>3. CASE s = <<g>> /\ type \in TypesOf("Receiver")
    <3>1. Members(<<g>>) = {g}
      BY MembersFew, Zenon
    <3>2. <<g>> \in Seq({g})
      OBVIOUS
    <3> QED
      BY <1>10, <1>12, <2>3, <3>1, <3>2
  <2>4. CASE s = <<f, g>> /\ type \in TypesOf("Owner") /\ type \in TypesOf("Receiver")
    <3>1. Members(<<f, g>>) = {f, g}
      BY MembersFew, Zenon
    <3>2. <<f, g>> \in Seq({f, g})
      OBVIOUS
    <3> QED
      BY <1>10, <1>12, <2>4, <3>1, <3>2
  <2> QED
    BY <1>6, <2>1, <2>2, <2>3, <2>4
<1>13. CASE Free(m) /\ Return(q)
  <2>1. stack'[q] = <<>> /\ \A r \in Procs \ {q} : stack'[r] = stack[r]
    BY <1>13 DEF Return, MInv, Typed
  <2>2. \A e : e \notin Members(stack'[q])
    BY <2>1 DEF Members
  <2>3. Departs(q)' /\ Alive(q)'
    BY <2>2 DEF Departs, Alive
  <2> QED
    BY <1>4, <1>7, <1>8, <1>9, <2>1, <2>3, Renews
<1> QED
  BY <1>1, <1>11, <1>12, <1>13

(* A receive has the message in hand that it takes; only a process that is *)
(* alive receives.                                                         *)
LEMMA LookConveyed ==
  ASSUME MInv, Conveying, NEW q \in Procs, ProcArray[q].Active, stack[q] = <<>> \/ At(q, "MsgWait"),
         NEW r, Look(q, r), UNCHANGED <<PortArray, kmsg, FreeKMsgQ>>
  PROVE  Conveying'
<1> DEFINE waiting == ProcArray[q].MsgsWaiting
           found == {i \in 1 .. Len(waiting) : Wanted(waiting[i], r)}
           k == CHOOSE i \in found : \A j \in found : i <= j
           m == waiting[k]
           f == [do |-> "Taken", kmsg |-> m, port |-> kmsg[m].RemotePort]
           g == [do |-> "MsgWait", for |-> r, how |-> r.how, signalled |-> FALSE]
<1>1. \/ /\ ProcArray' = [ProcArray EXCEPT ![q].MsgsWaiting = Without(@, m)]
         /\ stack' = [stack EXCEPT ![q] = <<f>>]
      \/ ProcArray' = [ProcArray EXCEPT ![q].State = "TIMED_OUT"] /\ Return(q)
      \/ /\ ProcArray' = [ProcArray EXCEPT ![q].State = "MSG_WAIT"]
         /\ stack' = [stack EXCEPT ![q] = <<g>>]
  BY DEF Look
<1>2. f.do = "Taken" /\ f.kmsg = m /\ g.do = "MsgWait"
  OBVIOUS
<1> HIDE DEF f, g, m
<1>3. Typed /\ q \in AllProcs
  BY Numbers DEF MInv
<1>4. \A x \in Members(stack[q]) : x.do = "MsgWait"
  <2>1. CASE stack[q] = <<>>
    BY <2>1 DEF Members
  <2>2. CASE stack[q] # <<>> /\ Top(q).do = "MsgWait"
    <3>1. Tail(stack[q]) = <<>>
      BY <2>2, LastIs DEF Lasts
    <3>2. stack[q] \in Seq(Frames)
      BY <1>3 DEF Typed
    <3>3. Len(stack[q]) = 1 /\ stack[q][1] = Top(q)
      <4>1. /\ Len(stack[q]) \in Nat \ {0}
            /\ Len(Tail(stack[q])) = Len(stack[q]) - 1
            /\ Head(stack[q]) = stack[q][1]
        BY <2>2, <3>2, EmptySeq, HeadTailProperties
      <4>2. Len(Tail(stack[q])) = 0
        <5>1. Len(<<>>) = 0
          OBVIOUS
        <5> QED
          BY <3>1, <5>1, Zenon
      <4>3. Len(stack[q]) = 1
        BY <4>1, <4>2
      <4> QED
        BY <4>1, <4>3 DEF Top
    <3>4. \A i \in 1 .. Len(stack[q]) : stack[q][i] = Top(q)
      BY <3>3
    <3> QED
      BY <2>2, <3>4 DEF Members
  <2> QED
    BY <2>1, <2>2 DEF At
<1>5. /\ \A x : ~Brings(q, x)
      /\ \A x \in Members(stack[q]) : x.do \notin {"GTran"} \cup Gives
  BY <1>4 DEF Brings, Bringing, Gives
<1>6. (\A x \in KMsgs : Unaltered(x)) /\ RightsSame
  BY Unchanging DEF RightsSame
<1>7. \A x \in AllProcs : ProcArray'[x].Active = ProcArray[x].Active
  BY <1>1, <1>3 DEF Typed, ProcRecords
<1>8. /\ \A x \in Procs \ {q} : stack'[x] = stack[x]
      /\ \/ stack'[q] = <<f>> /\ ProcArray' = [ProcArray EXCEPT ![q].MsgsWaiting = Without(@, m)]
         \/ stack'[q] \in {<<>>, <<g>>} /\ \A x \in AllProcs : Inbox(x)' = Inbox(x)
  <2>1. CASE /\ ProcArray' = [ProcArray EXCEPT ![q].MsgsWaiting = Without(@, m)]
             /\ stack' = [stack EXCEPT ![q] = <<f>>]
    BY <1>3, <2>1 DEF Typed
  <2>2. CASE ProcArray' = [ProcArray EXCEPT ![q].State = "TIMED_OUT"] /\ Return(q)
    <3>1. \A x \in AllProcs : Inbox(x)' = Inbox(x)
      BY <1>3, <2>2 DEF Typed, ProcRecords, Inbox
    <3> QED
      BY <1>3, <2>2, <3>1 DEF Typed, Return
  <2>3. CASE /\ ProcArray' = [ProcArray EXCEPT ![q].State = "MSG_WAIT"]
             /\ stack' = [stack EXCEPT ![q] = <<g>>]
    <3>1. \A x \in AllProcs : Inbox(x)' = Inbox(x)
      BY <1>3, <2>3 DEF Typed, ProcRecords, Inbox
    <3> QED
      BY <1>3, <2>3, <3>1 DEF Typed
  <2> QED
    BY <1>1, <2>1, <2>2, <2>3
<1>9. Members(<<>>) = {} /\ Members(<<f>>) = {f} /\ Members(<<g>>) = {g}
  BY MembersFew, Zenon
<1>10. \A x \in Members(stack'[q]) : x.do \in {"Taken", "MsgWait"}
  BY <1>2, <1>8, <1>9
<1>11. ASSUME NEW x, Filed(x) PROVE Filed(x)' \/ Brings(q, x)'
  <2>1. CASE \A y \in AllProcs : Inbox(y)' = Inbox(y)
    BY <1>11, <2>1, FiledStays DEF Second
  <2>2. CASE stack'[q] = <<f>> /\ ProcArray' = [ProcArray EXCEPT ![q].MsgsWaiting = Without(@, m)]
    <3>1. CASE x = m
      <4>1. \A e \in Members(stack'[q]) : e.do # "LTran"
        BY <1>10
      <4>2. f \in Members(stack'[q]) /\ f.do \in Bringing /\ f.kmsg = x
        BY <1>2, <1>9, <2>2, <3>1 DEF Bringing
      <4> QED
        BY <4>1, <4>2 DEF Brings
    <3>2. CASE x # m
      <4>1. \A y \in AllProcs : Inbox(y)' = IF y = q THEN Without(Inbox(q), m) ELSE Inbox(y)
        BY <1>3, <2>2 DEF Typed, ProcRecords, Inbox
      <4>2. Range(Without(Inbox(q), m)) = Range(Inbox(q)) \ {m}
        BY <1>3, QueuesTyped, WithoutIs
      <4>3. \A y \in AllProcs : x \in Range(Inbox(y)) => x \in Range(Inbox(y))'
        BY <3>2, <4>1, <4>2
      <4>4. \A p \in Ports : x \in Range(Second(p)) => x \in Range(Second(p))'
        BY DEF Second
      <4> QED
        BY <1>11, <4>3, <4>4 DEF Filed
    <3> QED
      BY <3>1, <3>2
  <2> QED
    BY <1>8, <2>1, <2>2
<1>12. Departs(q)' /\ Alive(q)'
  <2>1. Departs(q)'
    BY <1>10 DEF Departs, GiveOf
  <2>2. Alive(q)'
    BY <1>3, <1>7 DEF Alive
  <2> QED
    BY <2>1, <2>2
<1>13. \A x \in Procs \ {q} : ProcArray[x].Active => ProcArray'[x].Active
  BY <1>7, Numbers
<1> QED
  BY <1>5, <1>6, <1>8, <1>11, <1>12, <1>13, Renews


LEMMA ReceivesConveyed ==
  ASSUME MInv, Conveying,
         (\E r \in Receives : TPReceive(r)) \/ \E q \in Procs : LookAgain(q)
  PROVE  Conveying'
<1>1. ASSUME NEW r \in Receives, TPReceive(r) PROVE Conveying'
  <2>1. r.proc \in Procs
    BY MessagesAssumption
  <2>2. stack[r.proc] = <<>> /\ ProcArray[r.proc].Active /\ UNCHANGED <<PortArray, kmsg, FreeKMsgQ>>
    BY <1>1 DEF TPReceive, Idle
  <2>3. PICK l : Look(r.proc, l)
    BY <1>1 DEF TPReceive
  <2> QED
    BY <2>1, <2>2, <2>3, LookConveyed
<1>2. ASSUME NEW q \in Procs, LookAgain(q) PROVE Conveying'
  <2>1. At(q, "MsgWait") /\ Look(q, Top(q).for) /\ UNCHANGED <<PortArray, kmsg, FreeKMsgQ>>
    BY <1>2 DEF LookAgain
  <2>2. PICK l : Look(q, l)
    BY <2>1
  <2>3. ProcArray[q].Active
    <3>1. stack[q] \in Seq(Frames) /\ stack[q] # <<>> /\ Top(q).do = "MsgWait"
      BY <2>1 DEF At, MInv, Typed
    <3>2. Top(q) \in Members(stack[q])
      BY <3>1, MembersParts DEF Top
    <3> QED
      BY <3>1, <3>2 DEF Conveying, Alive, Receivings
  <2> QED
    BY <2>1, <2>2, <2>3, LookConveyed
<1> QED
  BY <1>1, <1>2


(* A call by q that begins with frames of F.                               *)
LEMMA BeginsConveyed ==
  ASSUME MInv, Conveying, NEW q \in Procs, stack[q] = <<>>,
         \A r \in Procs \ {q} : stack'[r] = stack[r],
         \A f \in Members(stack'[q]) : f.do \in {"LTran", "Post", "RemPort", "Scan"},
         \A m \in KMsgs : Unaltered(m) \/ m \in FreeKMsgQ, UNCHANGED PortArray,
         \A r \in AllProcs : Inbox(r)' = Inbox(r),
         \A r \in Procs \ {q} : ProcArray[r].Active => ProcArray'[r].Active
  PROVE  Conveying'
<1>1. \A f : f \notin Members(stack[q])
  BY DEF Members
<1>2. \A m : ~Brings(q, m)
  BY <1>1 DEF Brings
<1>3. RightsSame /\ \A m : Filed(m) => Filed(m)'
  BY FiledStays DEF Second, RightsSame
<1>4. Departs(q)'
  BY DEF Departs, GiveOf
<1>5. Alive(q)'
  BY DEF Alive, Receivings
<1> QED
  BY <1>1, <1>2, <1>3, <1>4, <1>5, Renews


LEMMA TPSendConveyed ==
  ASSUME MInv, Conveying, NEW s \in Sends, TPSend(s)
  PROVE  Conveying'
<1> DEFINE q == s.proc
<1>1. q \in Procs
  BY MessagesAssumption
<1>2. PICK m \in FreeKMsgQ :
        /\ \E c : Allocate(m, c)
        /\ stack' = [stack EXCEPT ![q] = SendFrames(m, s.how, s.type)]
        /\ UNCHANGED <<PortArray, ProcArray>> /\ stack[q] = <<>>
  BY DEF TPSend, SendFrames, Idle
<1> HIDE DEF q
<1>3. Typed /\ \A x \in KMsgs \ {m} : kmsg'[x] = kmsg[x]
  BY <1>2 DEF Allocate, MInv, Typed
<1>4. stack'[q] = SendFrames(m, s.how, s.type) /\ \A r \in Procs \ {q} : stack'[r] = stack[r]
  BY <1>1, <1>2, <1>3 DEF Typed
<1>5. \A x \in Members(SendFrames(m, s.how, s.type)) : x.do \in {"LTran", "Post"}
  <2> DEFINE f == Frame("LTran", m)
             g == [do |-> "Post", kmsg |-> m, how |-> s.how]
  <2>1. f.do = "LTran" /\ g.do = "Post"
    BY DEF Frame
  <2>2. SendFrames(m, s.how, s.type) = IF s.type = "none" THEN <<>> \o <<g>> ELSE <<f>> \o <<g>>
    BY DEF SendFrames
  <2> HIDE DEF f, g
  <2>3. <<>> \in Seq({f, g}) /\ <<f>> \in Seq({f, g}) /\ <<g>> \in Seq({f, g})
    OBVIOUS
  <2>4. SendFrames(m, s.how, s.type) \in Seq({f, g})
    BY <2>2, <2>3, ConcatProperties
  <2> QED
    BY <2>1, <2>4, MembersAre
<1>6. \A x \in KMsgs : Unaltered(x) \/ x \in FreeKMsgQ
  BY <1>2, <1>3 DEF Unaltered
<1> QED
  BY <1>1, <1>2, <1>4, <1>5, <1>6, BeginsConveyed DEF Inbox


(* The other calls, and a wait that times out.                             *)
LEMMA CallsConveyed ==
  ASSUME MInv, Conveying,
         \/ \E d \in Deallocates : DeallocatePort(d.proc, d.port)
         \/ \E q \in Mortals : Suicide(q)
         \/ \E l \in Locks : TPLockPorts(l)
         \/ \E b \in Backlogs : SetBackLog(b)
         \/ \E q \in Procs : asleepexpire(q)
  PROVE  Conveying'
<1>1. /\ \A d \in Deallocates \cup Locks \cup Backlogs : d.proc \in Procs /\ d.port \in Ports
      /\ Mortals \subseteq Procs /\ Typed
  BY MessagesAssumption DEF MInv
<1>2. \A m \in KMsgs : UNCHANGED kmsg => Unaltered(m)
  BY Unchanging
<1>3. ASSUME NEW d \in Deallocates, DeallocatePort(d.proc, d.port)
      PROVE  Conveying'
  <2> DEFINE f == [do |-> "RemPort", port |-> d.port]
  <2>1. /\ d.proc \in Procs /\ stack[d.proc] = <<>> /\ stack' = [stack EXCEPT ![d.proc] = <<f>>]
        /\ UNCHANGED <<PortArray, ProcArray, kmsg>>
    BY <1>1, <1>3 DEF DeallocatePort
  <2>2. f.do = "RemPort"
    OBVIOUS
  <2> HIDE DEF f
  <2>3. /\ \A r \in Procs \ {d.proc} : stack'[r] = stack[r]
        /\ \A x \in Members(stack'[d.proc]) : x = f
    BY <1>1, <2>1, WholeStack
  <2>4. \A x \in Members(stack'[d.proc]) : x.do \in {"LTran", "Post", "RemPort", "Scan"}
    BY <2>2, <2>3
  <2> QED
    BY <1>2, <2>1, <2>3, <2>4, BeginsConveyed DEF Inbox
<1>4. ASSUME NEW q \in Mortals, Suicide(q)
      PROVE  Conveying'
  <2> DEFINE f == [do |-> "Scan", next |-> 1, haveports |-> FALSE]
  <2>1. /\ q \in Procs /\ q \in AllProcs /\ stack[q] = <<>> /\ stack' = [stack EXCEPT ![q] = <<f>>]
        /\ UNCHANGED <<PortArray, kmsg>>
        /\ ProcArray' = [ProcArray EXCEPT ![q].Active = FALSE, ![q].State = "NOT_WAITING"]
    BY <1>1, <1>4, Numbers DEF Suicide
  <2>2. f.do = "Scan"
    OBVIOUS
  <2> HIDE DEF f
  <2>3. \A r \in AllProcs : Inbox(r)' = Inbox(r)
    BY <1>1, <2>1 DEF Typed, ProcRecords, Inbox
  <2>4. \A r \in Procs \ {q} : ProcArray[r].Active => ProcArray'[r].Active
    BY <1>1, <2>1, Numbers DEF Typed
  <2>5. /\ \A r \in Procs \ {q} : stack'[r] = stack[r]
        /\ \A x \in Members(stack'[q]) : x = f
    BY <1>1, <2>1, WholeStack
  <2>6. \A x \in Members(stack'[q]) : x.do \in {"LTran", "Post", "RemPort", "Scan"}
    BY <2>2, <2>5
  <2> QED
    BY <1>2, <2>1, <2>3, <2>4, <2>5, <2>6, BeginsConveyed
<1>5. ASSUME NEW q \in Procs, UNCHANGED <<stack, kmsg>>, RightsSame,
             \A p \in Ports : Second(p)' = Second(p),
             \A r \in AllProcs : Inbox(r)' = Inbox(r) /\ ProcArray'[r].Active = ProcArray[r].Active
      PROVE  Conveying'
  <2>1. \A m : Filed(m) => Filed(m)'
    BY <1>5, FiledStays
  <2>2. \A r \in Procs : ProcArray[r].Active => ProcArray'[r].Active
    BY <1>5, Numbers
  <2> QED
    BY <1>5, <2>1, <2>2, NotUnderway, Rests
<1>6. ASSUME NEW l \in Locks, TPLockPorts(l)
      PROVE  Conveying'
  <2>1. /\ l.proc \in Procs /\ l.port \in Ports /\ UNCHANGED <<ProcArray, kmsg, stack>>
        /\ PortArray' = [PortArray EXCEPT ![l.port].Locked = ~PortArray[l.port].Locked]
    BY <1>1, <1>6 DEF TPLockPorts
  <2>2. RightsSame
    BY <1>1, <2>1, RightsStay
  <2>3. \A p \in Ports : Second(p)' = Second(p)
    BY <1>1, <2>1 DEF Typed, PortRecords, Second
  <2> QED
    BY <1>5, <2>1, <2>2, <2>3 DEF Inbox
<1>7. ASSUME NEW b \in Backlogs, SetBackLog(b)
      PROVE  Conveying'
  <2>1. /\ b.proc \in Procs /\ b.port \in Ports /\ UNCHANGED <<ProcArray, kmsg, stack>>
        /\ PortArray' = [PortArray EXCEPT ![b.port].Backlog = b.backlog]
    BY <1>1, <1>7 DEF SetBackLog
  <2>2. RightsSame
    BY <1>1, <2>1, RightsStay
  <2>3. \A p \in Ports : Second(p)' = Second(p)
    BY <1>1, <2>1 DEF Typed, PortRecords, Second
  <2> QED
    BY <1>5, <2>1, <2>2, <2>3 DEF Inbox
<1>8. ASSUME NEW q \in Procs, asleepexpire(q)
      PROVE  Conveying'
  <2>1. ProcArray' = [ProcArray EXCEPT ![q].State = "TIMED_OUT"] /\ UNCHANGED <<stack, kmsg, PortArray>>
    BY <1>8 DEF asleepexpire
  <2>2. q \in AllProcs
    BY Numbers
  <2>3. \A r \in AllProcs : Inbox(r)' = Inbox(r) /\ ProcArray'[r].Active = ProcArray[r].Active
    BY <1>1, <2>1, <2>2, StateIs
  <2> QED
    BY <1>5, <2>1, <2>3 DEF RightsSame, Second
<1> QED
  BY <1>3, <1>4, <1>6, <1>7, <1>8


(* A port is allocated with both rights in the hands of a process; one     *)
(* that is made by a fork had no messages.                                 *)
LEMMA OpensConveyed ==
  ASSUME MInv, Conveying, Reused,
         \/ \E q \in Allocators : AllocatePort(q, ActualDefaultBacklog)
         \/ \E q \in Forkers : Activate(q, ActualDefaultBacklog)
  PROVE  Conveying'
<1>1. Allocators \subseteq Procs /\ Forkers \subseteq Procs /\ Typed
  BY MessagesAssumption DEF MInv
<1>2. ASSUME NEW q \in Procs, NEW b, FreePortQ # <<>>,
             PortArray' = [PortArray EXCEPT ![Head(FreePortQ)] = NewPort(q, b)]
      PROVE  /\ \A p \in Ports, x \in Sides : Underway(p, x)' => Underway(p, x)
             /\ \A p \in Ports : Range(Second(p)) \subseteq Range(Second(p)')
  <2> DEFINE n == Head(FreePortQ)
             c == NewPort(q, b)
  <2>1. n \in Ports /\ ~PortArray[n].InUse
    BY <1>2, NextPort
  <2>2. c.Receiver = q /\ c.Owner = q /\ q # RIGHTS_IN_TRANSIT
    BY Numbers DEF NewPort
  <2> HIDE DEF n, c
  <2>3. PortArray'[n] = c /\ \A p \in Ports \ {n} : PortArray'[p] = PortArray[p]
    BY <1>1, <1>2, <2>1 DEF Typed, n, c
  <2>4. \A p \in Ports, x \in Sides : Underway(p, x)' => Underway(p, x)
    BY <2>2, <2>3 DEF Underway, HolderOf
  <2>5. Range(Second(n)) = {}
    <3>1. Second(n) = <<>>
      BY <2>1 DEF MInv, Closed
    <3> QED
      BY <3>1 DEF Range
  <2>6. \A p \in Ports : Range(Second(p)) \subseteq Range(Second(p)')
    BY <2>3, <2>5 DEF Second
  <2> QED
    BY <2>4, <2>6
<1>3. ASSUME NEW q \in Procs, UNCHANGED <<stack, kmsg>>,
             \A p \in Ports, x \in Sides : Underway(p, x)' => Underway(p, x),
             \A p \in Ports : Range(Second(p)) \subseteq Range(Second(p)'),
             \A r \in AllProcs : Inbox(r)' = Inbox(r),
             \A r \in Procs : ProcArray[r].Active => ProcArray'[r].Active
      PROVE  Conveying'
  <2>1. \A m : Filed(m) => Filed(m)'
    BY <1>3, FiledMore
  <2> QED
    BY <1>3, <2>1, Rests
<1>4. ASSUME NEW q \in Allocators, AllocatePort(q, ActualDefaultBacklog)
      PROVE  Conveying'
  <2>1. /\ FreePortQ # <<>> /\ q \in Procs /\ UNCHANGED <<ProcArray, kmsg, stack>>
        /\ PortArray' = [PortArray EXCEPT ![Head(FreePortQ)] = NewPort(q, ActualDefaultBacklog)]
    BY <1>1, <1>4 DEF AllocatePort
  <2>2. /\ \A p \in Ports, x \in Sides : Underway(p, x)' => Underway(p, x)
        /\ \A p \in Ports : Range(Second(p)) \subseteq Range(Second(p)')
    BY <1>2, <2>1
  <2> QED
    BY <1>3, <2>1, <2>2 DEF Inbox
<1>5. ASSUME NEW parent \in Forkers, Activate(parent, ActualDefaultBacklog)
      PROVE  Conveying'
  <2>1. PICK n : /\ FreeProcQ # <<>> /\ parent \in Procs
                 /\ n.MsgsWaiting = <<>> /\ n.Active
                 /\ ProcArray' = [ProcArray EXCEPT ![Head(FreeProcQ)] = n]
                 /\ \/ UNCHANGED PortArray
                    \/ /\ FreePortQ # <<>>
                       /\ PortArray' = [PortArray EXCEPT ![Head(FreePortQ)] =
                                          NewPort(Head(FreeProcQ), ActualDefaultBacklog)]
                 /\ UNCHANGED <<kmsg, stack>>
    BY <1>1, <1>5, ActivateIs
  <2>2. FreeProcQ \in Seq(Procs)
    BY <1>1 DEF Typed
  <2>3. PICK q \in Procs : q = Head(FreeProcQ) /\ q \in Members(FreeProcQ)
    BY <2>1, <2>2, MembersParts, MembersAre
  <2>5. ProcArray'[q] = n /\ \A r \in AllProcs \ {q} : ProcArray'[r] = ProcArray[r]
    BY <1>1, <2>1, <2>3, Numbers DEF Typed
  <2>6. \A r \in AllProcs : Inbox(r)' = Inbox(r)
    BY <2>1, <2>3, <2>5 DEF Reused, Inbox
  <2>7. \A r \in Procs : ProcArray[r].Active => ProcArray'[r].Active
    BY <2>1, <2>5, Numbers
  <2>8. /\ \A p \in Ports, x \in Sides : Underway(p, x)' => Underway(p, x)
        /\ \A p \in Ports : Range(Second(p)) \subseteq Range(Second(p)')
    <3>1. CASE UNCHANGED PortArray
      BY <3>1 DEF Underway, HolderOf, Second
    <3> QED
      BY <1>2, <2>1, <2>3, <3>1
  <2> QED
    BY <1>3, <2>1, <2>6, <2>7, <2>8
<1> QED
  BY <1>4, <1>5


-----------------------------------------------------------------------------
(* The pieces of the calls, ...                                            *)
LEMMA PiecesConveyed ==
  ASSUME MInv, Conveying, Undestroyed, NEW q \in Procs, Proceed(q)
  PROVE  Conveying'
<1>1. CASE GiveOwnership(q)
  BY <1>1, GiveOwnershipConveyed
<1>2. CASE GiveReceiveRights(q)
  BY <1>2, GiveReceiveRightsConveyed
<1>3. CASE WakeReceiver(q) \/ WakeForMsg(q)
  BY <1>3, WakesConveyed
<1>4. CASE GTran(q)
  BY <1>4, GTranConveyed
<1>5. CASE SendKernelMsg(q) \/ PackMsg(q)
  BY <1>5, SendKernelMsgConveyed
<1>6. CASE QueueMsg(q)
  BY <1>6, QueueMsgConveyed
<1>7. CASE RemPort(q)
  BY <1>7, RemPortConveyed
<1>8. CASE DelPort(q)
  BY <1>8, DelPortConveyed
<1>9. CASE Release(q)
  BY <1>9, ReleaseConveyed
<1>10. CASE Notify(q)
  BY <1>10, NotifyConveyed
<1>11. CASE Scan(q)
  BY <1>11, ScanConveyed
<1>12. CASE LTran(q)
  BY <1>12, LTranConveyed
<1>13. CASE PostNowhere(q) \/ PostRefused(q)
  BY <1>13, FailConveyed
<1>14. CASE Post(q)
  BY <1>14, PostConveyed
<1>15. CASE PostLater(q)
  BY <1>15, PostLaterConveyed
<1>16. CASE Sent(q) \/ GiveUp(q)
  BY <1>16, EndConveyed
<1>17. CASE Withdraw(q)
  BY <1>17, WithdrawConveyed
<1>18. CASE LookAgain(q)
  BY <1>18, ReceivesConveyed
<1>19. CASE MoveUp(q)
  BY <1>19, MoveUpConveyed
<1>20. CASE Answer(q)
  BY <1>20, AnswerConveyed
<1>21. CASE CopyOut(q)
  BY <1>21, CopyOutConveyed
<1> QED
  BY <1>1, <1>2, <1>3, <1>4, <1>5, <1>6, <1>7, <1>8, <1>9, <1>10, <1>11, <1>12, <1>13, <1>14, <1>15,
     <1>16, <1>17, <1>18, <1>19, <1>20, <1>21 DEF Proceed, PortSteps


(* ... and all steps.                                                      *)
LEMMA StepConveyed ==
  ASSUME MInv, Conveying, Reused, Undestroyed, [Next]_ipc
  PROVE  Conveying'
<1>1. CASE \E s \in Sends : TPSend(s)
  BY <1>1, TPSendConveyed
<1>2. CASE \E r \in Receives : TPReceive(r)
  BY <1>2, ReceivesConveyed
<1>3. CASE \/ \E d \in Deallocates : DeallocatePort(d.proc, d.port)
           \/ \E q \in Mortals : Suicide(q)
           \/ \E l \in Locks : TPLockPorts(l)
           \/ \E b \in Backlogs : SetBackLog(b)
           \/ \E q \in Procs : asleepexpire(q)
  BY <1>3, CallsConveyed
<1>4. CASE \/ \E q \in Allocators : AllocatePort(q, ActualDefaultBacklog)
           \/ \E q \in Forkers : Activate(q, ActualDefaultBacklog)
  BY <1>4, OpensConveyed
<1>5. CASE \E q \in Procs : Proceed(q)
  BY <1>5, PiecesConveyed
<1>6. CASE \E q \in Procs : Interrupt(q)
  BY <1>6, EndConveyed
<1>7. CASE UNCHANGED ipc
  <2>1. UNCHANGED <<PortArray, ProcArray, kmsg, stack>>
    BY <1>7 DEF ipc
  <2>2. /\ \A m : Filed(m)' <=> Filed(m)
        /\ \A m, q : Brings(q, m)' <=> Brings(q, m)
        /\ \A p, x : Underway(p, x)' <=> Underway(p, x)
        /\ \A m, p, x : Bears(m, p, x)' <=> Bears(m, p, x)
    BY <2>1, FiledStays DEF Underway, HolderOf, Inbox, Second, Brings, Bears
  <2>3. \A m : Shipped(m)' <=> Shipped(m)
    BY <2>2 DEF Shipped
  <2>4. \A p, x : OnItsWay(p, x)' <=> OnItsWay(p, x)
    BY <2>1, <2>2, <2>3 DEF OnItsWay
  <2>5. \A q : (Departs(q)' <=> Departs(q)) /\ (Alive(q)' <=> Alive(q))
    BY <2>1, <2>2 DEF Departs, Alive
  <2> QED
    BY <2>2, <2>4, <2>5 DEF Conveying, Carried
<1> QED
  BY <1>1, <1>2, <1>3, <1>4, <1>5, <1>6, <1>7 DEF Next, Calls


LEMMA BegunConveyed ==
  ASSUME Init, Settled
  PROVE  Conveying
<1>1. PortArray = InitPort /\ \A q \in Procs : stack[q] = <<>>
  BY DEF Init
<1>2. \A f : f \notin Members(<<>>)
  BY DEF Members
<1>3. \A p \in Ports, x \in Sides : ~Underway(p, x)
  BY <1>1 DEF Settled, Underway, HolderOf
<1> QED
  BY <1>1, <1>2, <1>3 DEF Conveying, Carried, Departs, Alive


(* What it says of rights in transit.                                      *)
LEMMA ConveyedAre ==
  ASSUME MInv, Conveying
  PROVE  TransitCarried
<1>1. ASSUME NEW m \in KMsgs, Shipped(m) PROVE m \notin FreeKMsgQ
  <2>1. CASE Filed(m)
    BY <2>1, FiledAlone
  <2>2. ASSUME NEW q \in Procs, Brings(q, m) PROVE m \notin FreeKMsgQ
    <3>1. PICK f \in Members(stack[q]) : f.do \in Bringing /\ f.kmsg = m
      BY <2>2 DEF Brings
    <3>2. Holds(stack[q], m)
      BY <3>1, MemberHolds DEF MInv, Bringing, Holding
    <3> QED
      BY <3>2, HeldAlone
  <2> QED
    BY <1>1, <2>1, <2>2 DEF Shipped
<1>2. ASSUME NEW p \in Ports, NEW x \in Sides, Underway(p, x)
      PROVE  \/ \E m \in KMsgs \ FreeKMsgQ : kmsg[m].type \in TypesOf(x) /\ kmsg[m].port = p
             \/ \E q \in Procs : \E i \in 1 .. Len(stack[q]) : LET f == stack[q][i] IN
                  \/ f.do = "GTran" /\ f.port = p /\ f.type \in TypesOf(x)
                  \/ f.do = GiveOf(x) /\ f.port = p
  <2>1. OnItsWay(p, x)
    BY <1>2 DEF Conveying, Carried
  <2>2. CASE \E m \in KMsgs : Shipped(m) /\ Bears(m, p, x)
    BY <1>1, <2>2 DEF Bears
  <2>3. ASSUME NEW q \in Procs, NEW f \in Members(stack[q]), Hands(f, p, x)
        PROVE  \E i \in 1 .. Len(stack[q]) : LET e == stack[q][i] IN
                  \/ e.do = "GTran" /\ e.port = p /\ e.type \in TypesOf(x)
                  \/ e.do = GiveOf(x) /\ e.port = p
    <3>1. PICK i \in 1 .. Len(stack[q]) : f = stack[q][i]
      BY DEF Members
    <3> QED
      BY <2>3, <3>1 DEF Hands
  <2> QED
    BY <2>1, <2>2, <2>3 DEF OnItsWay
<1>3. Carries("TypePtReceive", "Receiver")
  <2> SUFFICES ASSUME NEW p \in Ports, PortArray[p].InUse, PortArray[p].Receiver = RIGHTS_IN_TRANSIT
               PROVE  \/ \E m \in KMsgs \ FreeKMsgQ :
                           kmsg[m].type \in {"TypePtReceive", "TypePtAll"} /\ kmsg[m].port = p
                      \/ \E q \in Procs : \E i \in 1 .. Len(stack[q]) : LET f == stack[q][i] IN
                           \/ f.do = "GTran" /\ f.port = p /\ f.type \in {"TypePtReceive", "TypePtAll"}
                           \/ f.do = "GiveReceiveRights" /\ f.port = p
    BY DEF Carries
  <2>1. "Receiver" \in Sides /\ Underway(p, "Receiver")
    BY DEF Sides, Underway, HolderOf
  <2> QED
    BY <1>2, <2>1 DEF TypesOf, GiveOf
<1>4. Carries("TypePtOwnership", "Owner")
  <2> SUFFICES ASSUME NEW p \in Ports, PortArray[p].InUse, PortArray[p].Owner = RIGHTS_IN_TRANSIT
               PROVE  \/ \E m \in KMsgs \ FreeKMsgQ :
                           kmsg[m].type \in {"TypePtOwnership", "TypePtAll"} /\ kmsg[m].port = p
                      \/ \E q \in Procs : \E i \in 1 .. Len(stack[q]) : LET f == stack[q][i] IN
                           \/ f.do = "GTran" /\ f.port = p /\ f.type \in {"TypePtOwnership", "TypePtAll"}
                           \/ f.do = "GiveOwnership" /\ f.port = p
    BY DEF Carries
  <2>1. "Owner" \in Sides /\ Underway(p, "Owner")
    BY DEF Sides, Underway, HolderOf
  <2> QED
    BY <1>2, <2>1 DEF TypesOf, GiveOf
<1> QED
  BY <1>3, <1>4 DEF TransitCarried


(* No right is lost on its way: a receive right or an ownership that no    *)
(* process has because LTran put it into transit is in a message that will *)
(* be received, or in the hands of a call that gives it to somebody, as    *)
(* long as no message with such a right is destroyed.                      *)
THEOREM RightsCarried ==
  ASSUME Settled
  PROVE  Spec /\ []Reused /\ []Undestroyed => []TransitCarried
<1>1. Init => MInv /\ Conveying
  BY Begun, BegunConveyed
<1>2. MInv /\ Conveying /\ Reused /\ Undestroyed /\ [Next]_ipc => MInv' /\ Conveying'
  BY StepKeeps, StepConveyed
<1>3. MInv /\ Conveying => TransitCarried
  BY ConveyedAre
<1> QED
  BY <1>1, <1>2, <1>3, PTL DEF Spec

=============================================================================
