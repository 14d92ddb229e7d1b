------------------------- MODULE MessagesInvariant --------------------------
(***************************************************************************)
(* What Messages keeps true of its queues, in a form that every step       *)
(* preserves: MInv, with the lemmas about frames, stacks and queues by     *)
(* which MessagesProofs shows it of each action.                           *)
(***************************************************************************)
EXTENDS Messages, QueueTheorems

(* numbers for processes and ports, and 0 for the free queues              *)
Slots == 0 .. NumProcs + NumPorts


(* the primary queue of a process, and the secondary queue of a port       *)
Inbox(q) == ProcArray[q].MsgsWaiting
Second(p) == PortArray[p].SecondaryMsgQ

(* what a stack has in hand: messages, a port that it will make free, and  *)
(* a message whose posting it has still to do                              *)
Holds(st, m) == \E i \in 1 .. Len(st) : st[i].do \in Holding /\ st[i].kmsg = m
Ending(st, p) == \E i \in 1 .. Len(st) : st[i].do = "Notify" /\ st[i].port = p
Posts(st, m) == \E i \in 1 .. Len(st) : st[i].do = "Post" /\ st[i].kmsg = m


(* Message m is in place i of a kind: free, in the hands of process i's    *)
(* call, in the inbox of i, or in the secondary queue of port i.           *)
Kinds == {"free", "call", "primary", "secondary"}
In(m, kind, i) ==
  \/ kind = "free" /\ i = 0 /\ m \in FreeKMsgQ
  \/ kind = "call" /\ i \in Procs /\ Holds(stack[i], m)
  \/ kind = "primary" /\ i \in AllProcs /\ m \in Range(Inbox(i))
  \/ kind = "secondary" /\ i \in Ports /\ m \in Range(Second(i))

(* No message structure is in two places; and none is nowhere.             *)
Lone == \A m \in KMsgs : \A k, l \in Kinds : \A i, j \in Slots :
          In(m, k, i) /\ In(m, l, j) => k = l /\ i = j
Somewhere == \A m \in KMsgs : \E k \in Kinds, i \in Slots : In(m, k, i)


(* The same for ports: a port is in use, free, or about to be free when    *)
(* process i has told its last holder.                                     *)
PortKinds == {"use", "free", "ends"}
PortIn(p, kind, i) ==
  \/ kind = "use" /\ i = 0 /\ PortArray[p].InUse
  \/ kind = "free" /\ i = 0 /\ p \in Range(FreePortQ)
  \/ kind = "ends" /\ i \in Procs /\ Ending(stack[i], p)
PortPlaced ==
  \A p \in Ports :
    /\ \E k \in PortKinds, i \in Slots : PortIn(p, k, i)
    /\ \A k, l \in PortKinds : \A i, j \in Slots :
         PortIn(p, k, i) /\ PortIn(p, l, j) => k = l /\ i = j


(* No queue has the same thing twice.                                      *)
Once == /\ \A q \in AllProcs : IsInjective(Inbox(q))
        /\ \A p \in Ports : IsInjective(Second(p))
        /\ IsInjective(FreePortQ)


(* Frames under which there is no other: those that return from the call.  *)
Lasts == {"Post", "FullWait", "MsgWait"}

(* A stack has a message in hand once, but for the pair of frames that     *)
(* copy a message in and then post it, which are a whole stack; nothing    *)
(* lies under a frame that returns; and it ends a port once.               *)
StackOK(st) ==
  /\ \A i, j \in 1 .. Len(st) :
       i < j /\ st[i].do \in Holding /\ st[j].do \in Holding /\ st[i].kmsg = st[j].kmsg =>
         st[i].do = "LTran"
  /\ \A i \in 1 .. Len(st) :
       st[i].do = "LTran" => i = 1 /\ Len(st) = 2 /\ st[2].do = "Post" /\ st[2].kmsg = st[1].kmsg
  /\ \A i \in 1 .. Len(st) : st[i].do \in Lasts => i = Len(st)
  /\ \A i, j \in 1 .. Len(st) :
       st[i].do = "Notify" /\ st[j].do = "Notify" /\ st[i].port = st[j].port => i = j
Stacks == \A q \in Procs : StackOK(stack[q])


(* a kmsg structure                                                        *)
MessageRecords ==
  [ID : IDs, RemotePort : Ports \cup {NullPort}, LocalPort : Ports \cup {NullPort},
   emerg : BOOLEAN, type : Rights, port : Ports \cup {NullPort},
   What : {"DONT_WAKE", "WAKE_ME", "SEND_ACK"}, WakeupProc : AllProcs]


(* Every record, queue and frame is of its kind; only processes are        *)
(* active; a right in a message is to a port, and who is to be told of it  *)
(* is a process.                                                           *)
Typed ==
  /\ PortArray \in [Ports -> PortRecords] /\ ProcArray \in [AllProcs -> ProcRecords]
  /\ kmsg \in [KMsgs -> MessageRecords] /\ FreeKMsgQ \in SUBSET KMsgs
  /\ FreePortQ \in Seq(Ports) /\ FreeProcQ \in Seq(Procs)
  /\ stack \in [Procs -> Seq(Frames)]
  /\ \A q \in AllProcs : ProcArray[q].Active => q \in Procs
  /\ \A m \in KMsgs : /\ kmsg[m].type # "none" => kmsg[m].port \in Ports
                      /\ kmsg[m].What # "DONT_WAKE" => kmsg[m].WakeupProc \in Procs


(* A message goes to a port, unless it is free or the send that will find  *)
(* out has still to be done: TPSend does not look at NullPort before it    *)
(* posts.                                                                  *)
Addressed ==
  \A m \in KMsgs : \/ kmsg[m].RemotePort \in Ports
                   \/ m \in FreeKMsgQ
                   \/ \E q \in Procs : Posts(stack[q], m)


(* LTran runs for a message that has a right in its body.                  *)
Carrying == \A q \in Procs : At(q, "LTran") => kmsg[Top(q).kmsg].type # "none"


(* A port not in use has an empty secondary queue, so making it anew loses *)
(* nothing.                                                                *)
Closed == \A p \in Ports : ~PortArray[p].InUse => Second(p) = <<>>


(* The inductive invariant. Lone, Once and PortPlaced are what is wanted;  *)
(* Stacks and Typed are needed to know what a step takes off a stack,      *)
(* Addressed to know that QueueMsg and MoveUp have a port, Carrying that   *)
(* LTran has, and Closed that AllocatePort has.                            *)
MInv == Typed /\ Lone /\ PortPlaced /\ Once /\ Stacks /\ Addressed /\ Carrying /\ Closed


(* what is shown of a step                                                 *)
Kept == MInv' /\ (Somewhere => Somewhere')


(* A process record that is free to be used again has no messages. The     *)
(* comment on MsgsWaiting at accent/vax/impl_proc.h:87 says that the queue *)
(* is left as it is when a record is used again; unxIPCActivate makes it   *)
(* empty (accent/vmipc.c:274), so a message still in it is lost. It does   *)
(* not matter when no process forks.                                       *)
Reused == Forkers = {} \/ \A q \in Members(FreeProcQ) : Inbox(q) = <<>>


-----------------------------------------------------------------------------
(* The sets of numbers and records the model is built from.                *)

(* Process and port numbers: those of no process are no process's.         *)
LEMMA Numbers ==
  /\ Procs \subseteq AllProcs /\ AllProcs \subseteq Slots /\ Ports \subseteq Slots
  /\ 0 \in Slots /\ NullPort \notin Ports
  /\ NO_PROCESS \in AllProcs \ Procs /\ RIGHTS_IN_TRANSIT \in AllProcs \ Procs
  /\ Procs \subseteq Int /\ Ports \subseteq Int /\ 1 \in 1 .. NumPorts /\ 1 \in 1 .. NumProcs
BY PortsAssumption
   DEF Procs, AllProcs, Slots, Ports, NullPort, NO_PROCESS, RIGHTS_IN_TRANSIT, LAST_USED_PROCESS


(* A frame of a kind has the fields of that kind.                          *)
LEMMA FrameIs ==
  ASSUME NEW f \in Frames
  PROVE  /\ f.do \in Holding \cup {"FullWait"} => f.kmsg \in KMsgs
         /\ f.do \in {"FullWait", "Taken", "GTran", "GiveOwnership", "GiveReceiveRights",
                      "SendKernelMsg", "PackMsg", "RemPort", "DelPort", "Notify"} => f.port \in Ports
         /\ f.do \in {"GiveOwnership", "GiveReceiveRights", "IPCWakeup", "WakeForMsg"} =>
              f.to \in AllProcs
         /\ f.do = "GTran" => f.type \in Rights
         /\ f.do \in {"SendKernelMsg", "PackMsg"} => f.to \in Procs /\ f.id \in IDs
         /\ f.do = "Post" => f.how \in {"Wait", "Timed", "DontWait", "Reply"}
         /\ f.do = "FullWait" =>
              f \in [do : {"FullWait"}, kmsg : KMsgs, port : Ports, how : {"Wait", "Timed"},
                     signalled : BOOLEAN]
         /\ f.do = "MsgWait" =>
              f \in [do : {"MsgWait"},
                     for : Receives \cup {[r EXCEPT !.local = NullPort] : r \in Receives},
                     how : {"Wait", "Timed"}, signalled : BOOLEAN]
         /\ f.do = "Notify" => f \in [do : {"Notify"}, port : Ports, next : 1 .. NumProcs]
         /\ f.do = "Scan" => f \in [do : {"Scan"}, next : 1 .. NumPorts, haveports : BOOLEAN]
BY DEF Frames, Holding


(* What the actions put on stacks are frames.                              *)
LEMMA FramesMade ==
  /\ \A do \in {"LTran", "QueueMsg", "Release", "Answer", "CopyOut"}, m \in KMsgs :
       Frame(do, m) \in Frames
  /\ \A m \in KMsgs, how \in {"Wait", "Timed", "DontWait", "Reply"} :
       [do |-> "Post", kmsg |-> m, how |-> how] \in Frames
  /\ \A m \in KMsgs, p \in Ports, how \in {"Wait", "Timed"}, b \in BOOLEAN :
       [do |-> "FullWait", kmsg |-> m, port |-> p, how |-> how, signalled |-> b] \in Frames
  /\ \A m \in KMsgs, p \in Ports : [do |-> "Taken", kmsg |-> m, port |-> p] \in Frames
  /\ \A t \in Rights, p \in Ports : [do |-> "GTran", type |-> t, port |-> p] \in Frames
  /\ \A do \in {"GiveOwnership", "GiveReceiveRights"}, p \in Ports, to \in AllProcs :
       Give(do, p, to) \in Frames
  /\ \A do \in {"IPCWakeup", "WakeForMsg"}, to \in AllProcs : [do |-> do, to |-> to] \in Frames
  /\ \A to \in Procs, id \in IDs, p \in Ports :
       /\ Notice(to, id, p) \in Frames
       /\ [do |-> "PackMsg", to |-> to, id |-> id, port |-> p] \in Frames
  /\ \A p \in Ports : Delete(p) \in Frames /\ [do |-> "RemPort", port |-> p] \in Frames
  /\ \A p \in Ports, n \in 1 .. NumProcs : [do |-> "Notify", port |-> p, next |-> n] \in Frames
  /\ \A n \in 1 .. NumPorts, b \in BOOLEAN :
       [do |-> "Scan", next |-> n, haveports |-> b] \in Frames
BY DEF Frames, Frame, Give, Notice, Delete


(* So is what a receive that waits puts there.                             *)
LEMMA WaitFrames ==
  /\ \A for \in Receives \cup {[r EXCEPT !.local = NullPort] : r \in Receives},
        how \in {"Wait", "Timed"}, b \in BOOLEAN :
       [do |-> "MsgWait", for |-> for, how |-> how, signalled |-> b] \in Frames
BY DEF Frames


(* Without takes one message out of a queue.                               *)
LEMMA WithoutIs ==
  ASSUME NEW s \in Seq(KMsgs), NEW m
  PROVE  /\ Without(s, m) \in Seq(KMsgs)
         /\ Range(Without(s, m)) = Range(s) \ {m}
         /\ IsInjective(s) => IsInjective(Without(s, m))
<1>1. Range(s) \subseteq KMsgs
  BY LenProperties, ElementOfSeq DEF Range
<1> QED
  BY <1>1, ThoseIs DEF Without


(* Primary(p) is the messages to p in its receiver's inbox.                *)
LEMMA PrimaryIs ==
  ASSUME Typed, NEW p \in Ports
  PROVE  /\ Primary(p) \in Seq(KMsgs)
         /\ Range(Primary(p)) = Range(Inbox(PortArray[p].Receiver)) \cap MsgsTo(p)
         /\ IsInjective(Inbox(PortArray[p].Receiver)) => IsInjective(Primary(p))
<1>1. Inbox(PortArray[p].Receiver) \in Seq(KMsgs)
  BY DEF Typed, Inbox, PortRecords, ProcRecords
<1> QED
  BY <1>1, ThoseIs DEF Primary, Inbox


(* The queues are sequences of messages and of ports.                      *)
LEMMA QueuesTyped ==
  ASSUME Typed
  PROVE  /\ \A q \in AllProcs : Inbox(q) \in Seq(KMsgs) /\ Range(Inbox(q)) \subseteq KMsgs
         /\ \A p \in Ports : Second(p) \in Seq(KMsgs) /\ Range(Second(p)) \subseteq KMsgs
         /\ Range(FreePortQ) \subseteq Ports
<1>1. /\ \A q \in AllProcs : Inbox(q) \in Seq(KMsgs)
      /\ \A p \in Ports : Second(p) \in Seq(KMsgs)
      /\ FreePortQ \in Seq(Ports)
  BY DEF Typed, Inbox, Second, PortRecords, ProcRecords
<1>2. ASSUME NEW S, NEW s \in Seq(S) PROVE Range(s) \subseteq S
  BY LenProperties, ElementOfSeq DEF Range
<1> QED
  BY <1>1, <1>2


-----------------------------------------------------------------------------
(* What stacks of frames hold.                                             *)

(* What is below the top frame of a stack, and what the top adds to it.    *)
LEMMA TailIs ==
  ASSUME NEW st \in Seq(Frames), st # <<>>, StackOK(st)
  PROVE  /\ Head(st) \in Frames /\ Tail(st) \in Seq(Frames) /\ StackOK(Tail(st))
         /\ Head(st).do \in Lasts => Tail(st) = <<>>
         /\ \A i \in 1 .. Len(Tail(st)) : Tail(st)[i].do # "LTran"
         /\ \A m : Holds(st, m) <=> Holds(Tail(st), m) \/ (Head(st).do \in Holding /\ Head(st).kmsg = m)
         /\ \A p : Ending(st, p) <=> Ending(Tail(st), p) \/ (Head(st).do = "Notify" /\ Head(st).port = p)
         /\ \A m : Posts(st, m) <=> Posts(Tail(st), m) \/ (Head(st).do = "Post" /\ Head(st).kmsg = m)
         /\ Head(st).do \in Holding \ {"LTran"} => ~Holds(Tail(st), Head(st).kmsg)
         /\ Head(st).do = "LTran" => Posts(Tail(st), Head(st).kmsg)
         /\ Head(st).do = "Notify" => ~Ending(Tail(st), Head(st).port)
<1> DEFINE t == Tail(st)
<1>1. /\ Len(st) \in Nat \ {0} /\ Head(st) = st[1] /\ st[1] \in Frames
      /\ t \in Seq(Frames) /\ Len(t) = Len(st) - 1
      /\ \A i \in 1 .. Len(t) : t[i] = st[i + 1]
  BY HeadTailProperties, EmptySeq, LenProperties
<1> HIDE DEF t
<1>2. Len(st) = 1 => t = <<>>
  BY <1>1, EmptySeq
<1>3. \A i \in 1 .. Len(st) : i = 1 \/ (i - 1 \in 1 .. Len(t) /\ st[i] = t[i - 1])
  BY <1>1
<1>4. \A i \in 1 .. Len(t) : i + 1 \in 1 .. Len(st) /\ i + 1 # 1 /\ t[i] = st[i + 1]
  BY <1>1
<1>5. StackOK(t) /\ \A i \in 1 .. Len(t) : t[i].do # "LTran"
  <2>1. \A i \in 1 .. Len(t) : t[i].do # "LTran"
    BY <1>4 DEF StackOK
  <2>2. ASSUME NEW i \in 1 .. Len(t), NEW j \in 1 .. Len(t), i < j,
               t[i].do \in Holding, t[j].do \in Holding, t[i].kmsg = t[j].kmsg
        PROVE  FALSE
    <3>1. i + 1 < j + 1 /\ st[i + 1].do # "LTran"
      BY <1>1, <1>4, <2>1, <2>2
    <3> QED
      BY <1>4, <2>2, <3>1 DEF StackOK
  <2>3. ASSUME NEW i \in 1 .. Len(t), t[i].do \in Lasts PROVE i = Len(t)
    <3>1. i + 1 = Len(st)
      BY <1>4, <2>3 DEF StackOK
    <3> QED
      BY <1>1, <3>1
  <2>4. ASSUME NEW i \in 1 .. Len(t), NEW j \in 1 .. Len(t),
               t[i].do = "Notify", t[j].do = "Notify", t[i].port = t[j].port
        PROVE  i = j
    <3>1. i + 1 = j + 1
      BY <1>4, <2>4 DEF StackOK
    <3> QED
      BY <3>1
  <2> QED
    BY <2>1, <2>2, <2>3, <2>4 DEF StackOK
<1>6. Head(st).do \in Lasts => t = <<>>
  BY <1>1, <1>2 DEF StackOK
<1>7. 1 \in 1 .. Len(st)
  BY <1>1
<1>8. \A m : Holds(st, m) <=> Holds(t, m) \/ (Head(st).do \in Holding /\ Head(st).kmsg = m)
  BY <1>1, <1>3, <1>4, <1>7 DEF Holds
<1>9. \A p : Ending(st, p) <=> Ending(t, p) \/ (Head(st).do = "Notify" /\ Head(st).port = p)
  BY <1>1, <1>3, <1>4, <1>7 DEF Ending
<1>10. \A m : Posts(st, m) <=> Posts(t, m) \/ (Head(st).do = "Post" /\ Head(st).kmsg = m)
  BY <1>1, <1>3, <1>4, <1>7 DEF Posts
<1>11. Head(st).do \in Holding \ {"LTran"} => ~Holds(t, Head(st).kmsg)
  BY <1>1, <1>4, <1>7 DEF Holds, StackOK
<1>12. Head(st).do = "LTran" => Posts(t, Head(st).kmsg)
  BY <1>1, <1>4, <1>7 DEF Posts, StackOK
<1>13. Head(st).do = "Notify" => ~Ending(t, Head(st).port)
  BY <1>1, <1>4, <1>7 DEF Ending, StackOK
<1> QED
  BY <1>1, <1>5, <1>6, <1>8, <1>9, <1>10, <1>11, <1>12, <1>13 DEF t


(* Frames pushed on a stack: what both hold, if they have nothing in       *)
(* common.                                                                 *)
LEMMA ConcatIs ==
  ASSUME NEW f \in Seq(Frames), NEW t \in Seq(Frames), StackOK(f), StackOK(t),
         \A i \in 1 .. Len(f) : f[i].do # "LTran", \A i \in 1 .. Len(t) : t[i].do # "LTran",
         t = <<>> \/ \A i \in 1 .. Len(f) : f[i].do \notin Lasts,
         \A m \in KMsgs : ~(Holds(f, m) /\ Holds(t, m)),
         \A p \in Ports : ~(Ending(f, p) /\ Ending(t, p))
  PROVE  /\ f \o t \in Seq(Frames) /\ StackOK(f \o t)
         /\ \A i \in 1 .. Len(f \o t) : (f \o t)[i].do # "LTran"
         /\ \A m : Holds(f \o t, m) <=> Holds(f, m) \/ Holds(t, m)
         /\ \A p : Ending(f \o t, p) <=> Ending(f, p) \/ Ending(t, p)
         /\ \A m : Posts(f \o t, m) <=> Posts(f, m) \/ Posts(t, m)
<1> DEFINE c == f \o t
           L == Len(f)
<1>1. /\ c \in Seq(Frames) /\ Len(c) = L + Len(t)
      /\ \A i \in 1 .. L + Len(t) : c[i] = IF i <= L THEN f[i] ELSE t[i - L]
  BY ConcatProperties
<1>2. L \in Nat /\ Len(t) \in Nat
  BY LenProperties
<1> HIDE DEF c, L
<1>3. \A i \in 1 .. Len(c) : (i \in 1 .. L /\ c[i] = f[i])
                             \/ (i > L /\ i - L \in 1 .. Len(t) /\ c[i] = t[i - L])
  BY <1>1, <1>2
<1>4. \A i \in 1 .. L : i \in 1 .. Len(c) /\ c[i] = f[i]
  BY <1>1, <1>2
<1>5. \A i \in 1 .. Len(t) : i + L \in 1 .. Len(c) /\ c[i + L] = t[i]
  <2>1. \A i \in 1 .. Len(t) : i + L - L = i /\ ~(i + L <= L)
    BY <1>2
  <2> QED
    BY <1>1, <1>2, <2>1
<1>6. \A m : Holds(c, m) <=> Holds(f, m) \/ Holds(t, m)
  <2>1. ASSUME NEW m, Holds(c, m) PROVE Holds(f, m) \/ Holds(t, m)
    <3>1. PICK i \in 1 .. Len(c) : c[i].do \in Holding /\ c[i].kmsg = m
      BY <2>1 DEF Holds
    <3> QED
      BY <1>3, <3>1 DEF Holds, L
  <2>2. ASSUME NEW m, Holds(f, m) PROVE Holds(c, m)
    BY <1>4, <2>2 DEF Holds, L
  <2>3. ASSUME NEW m, Holds(t, m) PROVE Holds(c, m)
    BY <1>5, <2>3 DEF Holds
  <2> QED
    BY <2>1, <2>2, <2>3
<1>7. \A p : Ending(c, p) <=> Ending(f, p) \/ Ending(t, p)
  <2>1. ASSUME NEW p, Ending(c, p) PROVE Ending(f, p) \/ Ending(t, p)
    <3>1. PICK i \in 1 .. Len(c) : c[i].do = "Notify" /\ c[i].port = p
      BY <2>1 DEF Ending
    <3> QED
      BY <1>3, <3>1 DEF Ending, L
  <2>2. ASSUME NEW p, Ending(f, p) PROVE Ending(c, p)
    BY <1>4, <2>2 DEF Ending, L
  <2>3. ASSUME NEW p, Ending(t, p) PROVE Ending(c, p)
    BY <1>5, <2>3 DEF Ending
  <2> QED
    BY <2>1, <2>2, <2>3
<1>8. \A m : Posts(c, m) <=> Posts(f, m) \/ Posts(t, m)
  <2>1. ASSUME NEW m, Posts(c, m) PROVE Posts(f, m) \/ Posts(t, m)
    <3>1. PICK i \in 1 .. Len(c) : c[i].do = "Post" /\ c[i].kmsg = m
      BY <2>1 DEF Posts
    <3> QED
      BY <1>3, <3>1 DEF Posts, L
  <2>2. ASSUME NEW m, Posts(f, m) PROVE Posts(c, m)
    BY <1>4, <2>2 DEF Posts, L
  <2>3. ASSUME NEW m, Posts(t, m) PROVE Posts(c, m)
    BY <1>5, <2>3 DEF Posts
  <2> QED
    BY <2>1, <2>2, <2>3
<1>9. \A i \in 1 .. Len(c) : c[i].do # "LTran"
  BY <1>3 DEF L
<1>10. \A i \in 1 .. Len(c) : c[i] \in Frames
  BY <1>1, ElementOfSeq
<1>11. ASSUME NEW i \in 1 .. Len(c), NEW j \in 1 .. Len(c), i < j,
              c[i].do \in Holding, c[j].do \in Holding, c[i].kmsg = c[j].kmsg
       PROVE  FALSE
  <2>1. c[i].kmsg \in KMsgs
    BY <1>10, <1>11, FrameIs
  <2>2. CASE i \in 1 .. L /\ j \in 1 .. L
    BY <1>4, <1>11, <2>2 DEF StackOK, L
  <2>3. CASE i \in 1 .. L /\ j \notin 1 .. L
    <3>1. c[i] = f[i] /\ i \in 1 .. Len(f)
      BY <1>4, <2>3 DEF L
    <3>2. c[j] = t[j - L] /\ j - L \in 1 .. Len(t)
      BY <1>3, <2>3
    <3>3. Holds(f, c[i].kmsg)
      BY <1>11, <3>1 DEF Holds
    <3>4. Holds(t, c[i].kmsg)
      BY <1>11, <3>2 DEF Holds
    <3> QED
      BY <2>1, <3>3, <3>4
  <2>4. CASE i \notin 1 .. L
    <3>1. i - L \in 1 .. Len(t) /\ c[i] = t[i - L] /\ i > L
      BY <1>3, <2>4
    <3>2. j > L /\ i - L < j - L
      BY <1>2, <1>11, <3>1
    <3>3. j - L \in 1 .. Len(t) /\ c[j] = t[j - L]
      BY <1>2, <1>3, <3>2
    <3> QED
      BY <1>11, <3>1, <3>2, <3>3 DEF StackOK
  <2> QED
    BY <2>2, <2>3, <2>4
<1>12. ASSUME NEW i \in 1 .. Len(c), c[i].do \in Lasts PROVE i = Len(c)
  <2>1. CASE i \in 1 .. L
    <3>1. t = <<>> /\ Len(t) = 0
      BY <1>4, <1>12, <2>1 DEF L
    <3>2. i = L
      BY <1>4, <1>12, <2>1 DEF StackOK, L
    <3> QED
      BY <1>1, <1>2, <3>1, <3>2
  <2>2. CASE i \notin 1 .. L
    <3>1. i - L \in 1 .. Len(t) /\ t[i - L].do \in Lasts
      BY <1>3, <1>12, <2>2
    <3>2. i - L = Len(t)
      BY <3>1 DEF StackOK
    <3> QED
      BY <1>1, <1>2, <3>2
  <2> QED
    BY <2>1, <2>2
<1>13. ASSUME NEW i \in 1 .. Len(c), NEW j \in 1 .. Len(c),
              c[i].do = "Notify", c[j].do = "Notify", c[i].port = c[j].port
       PROVE  i = j
  <2>1. c[i].port \in Ports
    BY <1>10, <1>13, FrameIs
  <2>2. CASE i \in 1 .. L /\ j \in 1 .. L
    BY <1>4, <1>13, <2>2 DEF StackOK, L
  <2>3. ASSUME NEW k \in {i, j}, NEW l \in {i, j}, k \in 1 .. L, l \notin 1 .. L
        PROVE  FALSE
    <3>1. k \in 1 .. Len(f) /\ c[k] = f[k]
      BY <1>4, <2>3 DEF L
    <3>2. l - L \in 1 .. Len(t) /\ c[l] = t[l - L]
      BY <1>3, <2>3
    <3>3. /\ c[k].do = "Notify" /\ c[k].port = c[i].port
          /\ c[l].do = "Notify" /\ c[l].port = c[i].port
      BY <1>13, <2>3
    <3>4. Ending(f, c[i].port)
      BY <3>1, <3>3 DEF Ending
    <3>5. Ending(t, c[i].port)
      BY <3>2, <3>3 DEF Ending
    <3> QED
      BY <2>1, <3>4, <3>5
  <2>4. CASE i \notin 1 .. L /\ j \notin 1 .. L
    <3>1. i - L \in 1 .. Len(t) /\ j - L \in 1 .. Len(t) /\ c[i] = t[i - L] /\ c[j] = t[j - L]
      BY <1>2, <1>3, <1>13, <2>4
    <3>2. i - L = j - L
      BY <1>13, <3>1 DEF StackOK
    <3> QED
      BY <1>2, <3>2
  <2> QED
    BY <2>2, <2>3, <2>4
<1>14. StackOK(c)
  BY <1>9, <1>11, <1>12, <1>13 DEF StackOK
<1> QED
  BY <1>1, <1>6, <1>7, <1>8, <1>9, <1>14 DEF c


(* frames that have no message in hand, do not return and end no port      *)
Plain == {f \in Frames : f.do \notin Holding \cup Lasts \cup {"Notify"}}


(* Plain frames hold nothing.                                              *)
LEMMA PlainStack ==
  ASSUME NEW s \in Seq(Plain)
  PROVE  /\ s \in Seq(Frames) /\ StackOK(s)
         /\ \A i \in 1 .. Len(s) : s[i].do \notin Lasts \cup {"LTran"}
         /\ \A m : ~Holds(s, m) /\ ~Posts(s, m)
         /\ \A p : ~Ending(s, p)
<1>1. s \in Seq(Frames)
  BY SeqMonotonic DEF Plain
<1>2. \A i \in 1 .. Len(s) : s[i] \in Plain
  BY ElementOfSeq
<1>3. \A i \in 1 .. Len(s) : s[i].do \notin Holding \cup Lasts \cup {"Notify", "LTran"}
  BY <1>2 DEF Plain, Holding
<1> QED
  BY <1>1, <1>3 DEF StackOK, Holds, Posts, Ending, Lasts


(* A stack of one frame holds what that frame does.                        *)
LEMMA OneFrame ==
  ASSUME NEW f \in Frames, f.do # "LTran"
  PROVE  /\ <<f>> \in Seq(Frames) /\ StackOK(<<f>>)
         /\ \A i \in 1 .. Len(<<f>>) : <<f>>[i] = f
         /\ \A m : Holds(<<f>>, m) <=> f.do \in Holding /\ f.kmsg = m
         /\ \A m : Posts(<<f>>, m) <=> f.do = "Post" /\ f.kmsg = m
         /\ \A p : Ending(<<f>>, p) <=> f.do = "Notify" /\ f.port = p
<1> DEFINE s == <<f>>
<1>1. s \in Seq(Frames) /\ Len(s) = 1 /\ s[1] = f
  OBVIOUS
<1> HIDE DEF s
<1> QED
  BY <1>1 DEF StackOK, Holds, Posts, Ending, s


(* A plain frame above another holds what that one does.                   *)
LEMMA TwoFrames ==
  ASSUME NEW f \in Plain, NEW g \in Frames, g.do # "LTran"
  PROVE  /\ <<f, g>> \in Seq(Frames) /\ StackOK(<<f, g>>)
         /\ \A i \in 1 .. Len(<<f, g>>) : <<f, g>>[i] \in {f, g}
         /\ \A m : Holds(<<f, g>>, m) <=> g.do \in Holding /\ g.kmsg = m
         /\ \A m : Posts(<<f, g>>, m) <=> g.do = "Post" /\ g.kmsg = m
         /\ \A p : Ending(<<f, g>>, p) <=> g.do = "Notify" /\ g.port = p
<1> DEFINE s == <<f, g>>
<1>1. s \in Seq(Frames) /\ Len(s) = 2 /\ s[1] = f /\ s[2] = g
  BY DEF Plain
<1>2. f.do \notin Holding \cup Lasts \cup {"Notify", "LTran"}
  BY DEF Plain, Holding
<1> HIDE DEF s
<1>3. \A i \in 1 .. Len(s) : i \in {1, 2}
  BY <1>1
<1>4. 1 \in 1 .. Len(s) /\ 2 \in 1 .. Len(s)
  BY <1>1
<1>5. StackOK(s)
  BY <1>1, <1>2, <1>3 DEF StackOK, Lasts
<1>6. \A m : Holds(s, m) <=> g.do \in Holding /\ g.kmsg = m
  BY <1>1, <1>2, <1>3, <1>4 DEF Holds
<1>7. \A m : Posts(s, m) <=> g.do = "Post" /\ g.kmsg = m
  BY <1>1, <1>2, <1>3, <1>4 DEF Posts, Lasts
<1>8. \A p : Ending(s, p) <=> g.do = "Notify" /\ g.port = p
  BY <1>1, <1>2, <1>3, <1>4 DEF Ending
<1> QED
  BY <1>1, <1>3, <1>5, <1>6, <1>7, <1>8 DEF s


(* An empty stack holds nothing.                                           *)
LEMMA NoFrames ==
  /\ <<>> \in Seq(Frames) /\ StackOK(<<>>)
  /\ \A m : ~Holds(<<>>, m) /\ ~Posts(<<>>, m)
  /\ \A p : ~Ending(<<>>, p)
BY DEF StackOK, Holds, Posts, Ending


-----------------------------------------------------------------------------
(* Parts of the invariant: what they say, and what leaves them true.       *)

(* Addressed stays true of messages that keep their address or get one.    *)
LEMMA AddressedKept ==
  ASSUME Addressed,
         \A m \in KMsgs : \/ kmsg'[m].RemotePort \in Ports
                          \/ m \in FreeKMsgQ'
                          \/ /\ kmsg'[m].RemotePort = kmsg[m].RemotePort
                             /\ m \notin FreeKMsgQ
                             /\ \A r \in Procs : Posts(stack[r], m) => Posts(stack'[r], m)
  PROVE  Addressed'
BY DEF Addressed


(* Carrying stays true if the process that moves is not in LTran after,    *)
(* and what others have in hand keeps its right.                           *)
LEMMA CarryingKept ==
  ASSUME MInv, NEW q \in Procs,
         \A r \in Procs \ {q} : stack'[r] = stack[r],
         \/ ~At(q, "LTran")'
         \/ stack'[q] = stack[q] /\ UNCHANGED kmsg
         \/ kmsg'[Top(q)'.kmsg].type # "none",
         \A r \in Procs \ {q} : \A m \in KMsgs :
           Holds(stack[r], m) => kmsg'[m].type = kmsg[m].type
  PROVE  Carrying'
<1> SUFFICES ASSUME NEW r \in Procs, At(r, "LTran")'
             PROVE  (kmsg[Top(r).kmsg].type # "none")'
  BY DEF Carrying
<1> SUFFICES ASSUME r # q \/ (stack'[r] = stack[r] /\ UNCHANGED kmsg)
             PROVE  (kmsg[Top(r).kmsg].type # "none")'
  OBVIOUS
<1>1. stack'[r] = stack[r] /\ At(r, "LTran")
  BY DEF At, Top
<1>2. Head(stack[r]) \in Frames /\ Holds(stack[r], Head(stack[r]).kmsg)
  BY <1>1, TailIs DEF MInv, Typed, Stacks, At, Top, Holding
<1>3. Head(stack[r]).kmsg \in KMsgs
  BY <1>1, <1>2, FrameIs DEF At, Top, Holding
<1>4. kmsg'[Head(stack[r]).kmsg].type = kmsg[Head(stack[r]).kmsg].type
  BY <1>1, <1>2, <1>3
<1> QED
  BY <1>1, <1>4 DEF MInv, Carrying, Top


(* PortPlaced stays true if no port is opened, closed, freed or taken.     *)
LEMMA PortsStay ==
  ASSUME PortPlaced,
         \A p \in Ports : PortArray'[p].InUse = PortArray[p].InUse, UNCHANGED FreePortQ,
         \A r \in Procs, p \in Ports : Ending(stack'[r], p) <=> Ending(stack[r], p)
  PROVE  PortPlaced'
<1>1. \A p \in Ports, l \in PortKinds, j \in Slots : PortIn(p, l, j)' <=> PortIn(p, l, j)
  BY DEF PortIn
<1> QED
  BY <1>1 DEF PortPlaced


(* A message that is somewhere is nowhere else.                            *)
LEMMA Alone ==
  ASSUME MInv, NEW m \in KMsgs, NEW k \in Kinds, NEW i \in Slots, In(m, k, i)
  PROVE  /\ m \in FreeKMsgQ => k = "free"
         /\ \A r \in Procs : Holds(stack[r], m) => k = "call" /\ i = r
         /\ \A r \in AllProcs : m \in Range(Inbox(r)) => k = "primary" /\ i = r
         /\ \A p \in Ports : m \in Range(Second(p)) => k = "secondary" /\ i = p
<1>1. \A l \in Kinds, j \in Slots : In(m, l, j) => l = k /\ j = i
  BY DEF MInv, Lone
<1>2. /\ m \in FreeKMsgQ => In(m, "free", 0)
      /\ \A r \in Procs : Holds(stack[r], m) => In(m, "call", r)
      /\ \A r \in AllProcs : m \in Range(Inbox(r)) => In(m, "primary", r)
      /\ \A p \in Ports : m \in Range(Second(p)) => In(m, "secondary", p)
  BY DEF In
<1> QED
  BY <1>1, <1>2, Numbers DEF Kinds


(* A message in the hands of a process is nowhere else.                    *)
LEMMA HeldAlone ==
  ASSUME MInv, NEW q \in Procs, NEW m \in KMsgs, Holds(stack[q], m)
  PROVE  /\ m \notin FreeKMsgQ
         /\ \A r \in Procs : Holds(stack[r], m) => r = q
         /\ \A r \in AllProcs : m \notin Range(Inbox(r))
         /\ \A p \in Ports : m \notin Range(Second(p))
BY Alone, Numbers DEF In, Kinds


(* A port that is in use, free or ending is nothing else.                  *)
LEMMA PortAlone ==
  ASSUME MInv, NEW p \in Ports, NEW k \in PortKinds, NEW i \in Slots, PortIn(p, k, i)
  PROVE  /\ PortArray[p].InUse => k = "use"
         /\ p \in Range(FreePortQ) => k = "free"
         /\ \A r \in Procs : Ending(stack[r], p) => k = "ends" /\ i = r
<1>1. \A l \in PortKinds, j \in Slots : PortIn(p, l, j) => l = k /\ j = i
  BY DEF MInv, PortPlaced
<1>2. /\ PortArray[p].InUse => PortIn(p, "use", 0)
      /\ p \in Range(FreePortQ) => PortIn(p, "free", 0)
      /\ \A r \in Procs : Ending(stack[r], p) => PortIn(p, "ends", r)
  BY DEF PortIn
<1> QED
  BY <1>1, <1>2, Numbers DEF PortKinds


-----------------------------------------------------------------------------
(* What the stack of a process holds before and after its piece.           *)

(* The top of a process's stack is a frame.                                *)
LEMMA TopIs ==
  ASSUME Typed, NEW q \in Procs, stack[q] # <<>>
  PROVE  /\ Top(q) \in Frames /\ Tail(stack[q]) \in Seq(Frames)
         /\ Top(q).do \notin Holding \cup Lasts \cup {"Notify"} => Top(q) \in Plain
BY HeadTailProperties DEF Typed, Top, Plain


(* A frame that returns is a whole stack.                                  *)
LEMMA LastIs ==
  ASSUME MInv, NEW q \in Procs, stack[q] # <<>>, Top(q).do \in Lasts
  PROVE  /\ Tail(stack[q]) = <<>>
         /\ \A m : Holds(stack[q], m) <=> Top(q).do = "Post" /\ Top(q).kmsg = m
         /\ \A m : Posts(stack[q], m) <=> Top(q).do = "Post" /\ Top(q).kmsg = m
         /\ \A p : ~Ending(stack[q], p)
<1> DEFINE st == stack[q]
<1>1. st \in Seq(Frames) /\ StackOK(st)
  BY DEF MInv, Typed, Stacks
<1> HIDE DEF st
<1>2. st # <<>> /\ Head(st).do \in Lasts
  BY DEF Top, st
<1>3. /\ Tail(st) = <<>>
      /\ \A m : Holds(st, m) <=> Holds(Tail(st), m) \/ (Head(st).do \in Holding /\ Head(st).kmsg = m)
      /\ \A p : Ending(st, p) <=> Ending(Tail(st), p) \/ (Head(st).do = "Notify" /\ Head(st).port = p)
      /\ \A m : Posts(st, m) <=> Posts(Tail(st), m) \/ (Head(st).do = "Post" /\ Head(st).kmsg = m)
  BY <1>1, <1>2, TailIs
<1>4. Head(st).do \in Holding <=> Head(st).do = "Post"
  BY <1>2 DEF Lasts, Holding
<1>5. Head(st).do # "Notify"
  BY <1>2 DEF Lasts
<1>6. \A m : ~Holds(Tail(st), m) /\ ~Posts(Tail(st), m) /\ ~Ending(Tail(st), m)
  BY <1>3, NoFrames
<1> QED
  BY <1>3, <1>4, <1>5, <1>6 DEF st, Top


(* What a process holds is held by its top frame or by those below.        *)
LEMMA Popped ==
  ASSUME MInv, NEW q \in Procs, stack[q] # <<>>
  PROVE  /\ Top(q) \in Frames
         /\ \A m : Holds(stack[q], m) <=>
              Holds(Tail(stack[q]), m) \/ (Top(q).do \in Holding /\ Top(q).kmsg = m)
         /\ \A p : Ending(stack[q], p) <=>
              Ending(Tail(stack[q]), p) \/ (Top(q).do = "Notify" /\ Top(q).port = p)
         /\ \A m : Posts(stack[q], m) <=>
              Posts(Tail(stack[q]), m) \/ (Top(q).do = "Post" /\ Top(q).kmsg = m)
         /\ Top(q).do \in Holding \ {"LTran"} => ~Holds(Tail(stack[q]), Top(q).kmsg)
         /\ Top(q).do = "Notify" => ~Ending(Tail(stack[q]), Top(q).port)
BY TailIs DEF MInv, Typed, Stacks, Top


(* A piece that ends and leaves frames s: the stack holds what s and the   *)
(* rest do.                                                                *)
LEMMA Pushed ==
  ASSUME Typed, Stacks, NEW q \in Procs, stack[q] # <<>>,
         NEW s \in Seq(Frames), StackOK(s),
         \A i \in 1 .. Len(s) : s[i].do # "LTran",
         Tail(stack[q]) = <<>> \/ \A i \in 1 .. Len(s) : s[i].do \notin Lasts,
         \A m \in KMsgs : ~(Holds(s, m) /\ Holds(Tail(stack[q]), m)),
         \A p \in Ports : ~(Ending(s, p) /\ Ending(Tail(stack[q]), p)),
         Then(q, s)
  PROVE  /\ stack' \in [Procs -> Seq(Frames)] /\ Stacks'
         /\ \A r \in Procs \ {q} : stack'[r] = stack[r]
         /\ ~At(q, "LTran")'
         /\ \A m : Holds(stack'[q], m) <=> Holds(s, m) \/ Holds(Tail(stack[q]), m)
         /\ \A p : Ending(stack'[q], p) <=> Ending(s, p) \/ Ending(Tail(stack[q]), p)
         /\ \A m : Posts(stack'[q], m) <=> Posts(s, m) \/ Posts(Tail(stack[q]), m)
<1> DEFINE t == Tail(stack[q])
           c == s \o t
<1>1. stack \in [Procs -> Seq(Frames)] /\ StackOK(stack[q])
  BY DEF Typed, Stacks
<1>2. /\ t \in Seq(Frames) /\ StackOK(t)
      /\ \A i \in 1 .. Len(t) : t[i].do # "LTran"
  BY <1>1, TailIs
<1> HIDE DEF t
<1>3. /\ c \in Seq(Frames) /\ StackOK(c)
      /\ \A i \in 1 .. Len(c) : c[i].do # "LTran"
      /\ \A m : Holds(c, m) <=> Holds(s, m) \/ Holds(t, m)
      /\ \A p : Ending(c, p) <=> Ending(s, p) \/ Ending(t, p)
      /\ \A m : Posts(c, m) <=> Posts(s, m) \/ Posts(t, m)
  BY <1>2, ConcatIs DEF t
<1>4. stack' = [stack EXCEPT ![q] = c]
  BY DEF Then, t
<1> HIDE DEF c
<1>5. stack' \in [Procs -> Seq(Frames)] /\ stack'[q] = c /\ \A r \in Procs \ {q} : stack'[r] = stack[r]
  BY <1>1, <1>3, <1>4
<1>6. Stacks'
  BY <1>3, <1>5 DEF Stacks
<1>7. ~At(q, "LTran")'
  <2>1. c # <<>> => 1 \in 1 .. Len(c) /\ Head(c) = c[1]
    BY <1>3, EmptySeq
  <2> QED
    BY <1>3, <1>5, <2>1 DEF At, Top
<1> QED
  BY <1>3, <1>5, <1>6, <1>7 DEF t


(* A call that returns holds nothing.                                      *)
LEMMA Returned ==
  ASSUME Typed, Stacks, NEW q \in Procs, Return(q)
  PROVE  /\ stack' \in [Procs -> Seq(Frames)] /\ Stacks'
         /\ \A r \in Procs \ {q} : stack'[r] = stack[r]
         /\ ~At(q, "LTran")' /\ stack'[q] = <<>>
BY NoFrames DEF Typed, Stacks, Return, At


(* A stack that becomes a single frame.                                    *)
LEMMA Replaced ==
  ASSUME MInv, NEW q \in Procs, NEW f \in Frames, f.do # "LTran",
         stack' = [stack EXCEPT ![q] = <<f>>]
  PROVE  /\ stack' \in [Procs -> Seq(Frames)] /\ Stacks'
         /\ \A r \in Procs \ {q} : stack'[r] = stack[r]
         /\ ~At(q, "LTran")'
         /\ \A m : Holds(stack'[q], m) <=> f.do \in Holding /\ f.kmsg = m
         /\ \A m : Posts(stack'[q], m) <=> f.do = "Post" /\ f.kmsg = m
         /\ \A p : Ending(stack'[q], p) <=> f.do = "Notify" /\ f.port = p
<1>1. /\ stack'[q] = <<f>> /\ \A r \in Procs \ {q} : stack'[r] = stack[r]
      /\ stack' \in [Procs -> Seq(Frames)]
  BY OneFrame DEF MInv, Typed
<1>2. Stacks'
  BY <1>1, OneFrame DEF MInv, Stacks
<1>3. ~At(q, "LTran")'
  BY <1>1 DEF At, Top
<1> QED
  BY <1>1, <1>2, <1>3, OneFrame


(* A piece that had nothing in hand leaves frames s that do.               *)
LEMMA PlainMove ==
  ASSUME MInv, NEW q \in Procs, stack[q] # <<>>, Top(q) \in Plain,
         NEW s \in Seq(Frames), StackOK(s),
         \A i \in 1 .. Len(s) : s[i].do \notin Lasts \cup {"LTran"},
         \A m \in KMsgs : Holds(s, m) => ~Holds(stack[q], m),
         \A p \in Ports : Ending(s, p) => ~Ending(stack[q], p),
         Then(q, s)
  PROVE  /\ stack' \in [Procs -> Seq(Frames)] /\ Stacks'
         /\ \A r \in Procs \ {q} : stack'[r] = stack[r]
         /\ ~At(q, "LTran")'
         /\ \A m : Holds(stack'[q], m) <=> Holds(s, m) \/ Holds(stack[q], m)
         /\ \A m : Posts(stack[q], m) => Posts(stack'[q], m)
         /\ \A p : Ending(stack'[q], p) <=> Ending(s, p) \/ Ending(stack[q], p)
<1>1. Top(q).do \notin Holding \cup Lasts \cup {"Notify", "Post"}
  BY DEF Plain, Lasts
<1>2. /\ \A m : Holds(stack[q], m) <=> Holds(Tail(stack[q]), m)
      /\ \A m : Posts(stack[q], m) <=> Posts(Tail(stack[q]), m)
      /\ \A p : Ending(stack[q], p) <=> Ending(Tail(stack[q]), p)
  BY <1>1, Popped
<1>3. /\ \A m \in KMsgs : ~(Holds(s, m) /\ Holds(Tail(stack[q]), m))
      /\ \A p \in Ports : ~(Ending(s, p) /\ Ending(Tail(stack[q]), p))
  BY <1>2
<1>4. /\ stack' \in [Procs -> Seq(Frames)] /\ Stacks'
      /\ \A r \in Procs \ {q} : stack'[r] = stack[r]
      /\ ~At(q, "LTran")'
      /\ \A m : Holds(stack'[q], m) <=> Holds(s, m) \/ Holds(Tail(stack[q]), m)
      /\ \A p : Ending(stack'[q], p) <=> Ending(s, p) \/ Ending(Tail(stack[q]), p)
      /\ \A m : Posts(stack'[q], m) <=> Posts(s, m) \/ Posts(Tail(stack[q]), m)
  BY <1>3, Pushed DEF MInv
<1> QED
  BY <1>2, <1>4


(* A frame with a message in hand holds a message that goes to a port,     *)
(* unless it has still to be posted.                                       *)
LEMMA TopHeld ==
  ASSUME MInv, NEW q \in Procs, stack[q] # <<>>, Top(q).do \in Holding
  PROVE  /\ Top(q).kmsg \in KMsgs /\ Holds(stack[q], Top(q).kmsg)
         /\ Top(q).do \notin {"LTran", "Post"} => kmsg[Top(q).kmsg].RemotePort \in Ports
<1> DEFINE m == Top(q).kmsg
<1>1. m \in KMsgs /\ Holds(stack[q], m)
  BY Popped, FrameIs
<1>2. ASSUME Top(q).do \notin {"LTran", "Post"} PROVE kmsg[m].RemotePort \in Ports
  <2>1. ASSUME NEW r \in Procs, Posts(stack[r], m) PROVE FALSE
    <3>1. Holds(stack[r], m)
      BY <2>1 DEF Posts, Holds, Holding
    <3>2. r = q
      BY <1>1, <3>1, HeldAlone
    <3>3. Posts(Tail(stack[q]), m)
      BY <1>2, <2>1, <3>2, Popped
    <3>4. Holds(Tail(stack[q]), m)
      BY <3>3 DEF Posts, Holds, Holding
    <3> QED
      BY <1>2, <3>4, Popped
  <2>2. m \notin FreeKMsgQ
    BY <1>1, HeldAlone
  <2> QED
    BY <1>1, <2>1, <2>2 DEF MInv, Addressed
<1> QED
  BY <1>1, <1>2


(* A piece that lets its message go leaves the rest of what the stack      *)
(* holds.                                                                  *)
LEMMA Dropped ==
  ASSUME MInv, NEW q \in Procs, stack[q] # <<>>, Top(q).do \in Holding \ {"LTran"},
         NEW s \in Seq(Plain), Then(q, s)
  PROVE  /\ stack' \in [Procs -> Seq(Frames)] /\ Stacks'
         /\ \A r \in Procs \ {q} : stack'[r] = stack[r]
         /\ ~At(q, "LTran")'
         /\ \A m : Holds(stack'[q], m) <=> m # Top(q).kmsg /\ Holds(stack[q], m)
         /\ \A m : m # Top(q).kmsg /\ Posts(stack[q], m) => Posts(stack'[q], m)
         /\ \A p : Ending(stack'[q], p) <=> Ending(stack[q], p)
<1>1. /\ s \in Seq(Frames) /\ StackOK(s)
      /\ \A i \in 1 .. Len(s) : s[i].do \notin Lasts \cup {"LTran"}
      /\ \A m : ~Holds(s, m) /\ ~Posts(s, m)
      /\ \A p : ~Ending(s, p)
  BY PlainStack
<1>2. /\ stack' \in [Procs -> Seq(Frames)] /\ Stacks'
      /\ \A r \in Procs \ {q} : stack'[r] = stack[r]
      /\ ~At(q, "LTran")'
      /\ \A m : Holds(stack'[q], m) <=> Holds(Tail(stack[q]), m)
      /\ \A p : Ending(stack'[q], p) <=> Ending(Tail(stack[q]), p)
      /\ \A m : Posts(stack'[q], m) <=> Posts(Tail(stack[q]), m)
  BY <1>1, Pushed DEF MInv
<1>3. Top(q).do # "Notify"
  BY DEF Holding
<1> QED
  BY <1>2, <1>3, Popped


(* A piece that keeps its message in hand leaves what the stack holds as   *)
(* it is.                                                                  *)
LEMMA InHand ==
  ASSUME MInv, NEW q \in Procs, stack[q] # <<>>, Top(q).do \in Holding \ {"LTran", "Post"},
         NEW s \in Seq(Frames), StackOK(s), \A i \in 1 .. Len(s) : s[i].do \notin Lasts \cup {"LTran"},
         \A m : Holds(s, m) <=> m = Top(q).kmsg, \A p : ~Ending(s, p),
         Then(q, s)
  PROVE  /\ stack' \in [Procs -> Seq(Frames)] /\ Stacks'
         /\ \A r \in Procs \ {q} : stack'[r] = stack[r]
         /\ ~At(q, "LTran")'
         /\ \A m : Holds(stack'[q], m) <=> Holds(stack[q], m)
         /\ \A m : Posts(stack[q], m) => Posts(stack'[q], m)
         /\ \A p : Ending(stack'[q], p) <=> Ending(stack[q], p)
<1>1. Top(q).do # "Notify"
  BY DEF Holding
<1>2. \A m : ~(Holds(s, m) /\ Holds(Tail(stack[q]), m))
  BY Popped
<1>3. /\ stack' \in [Procs -> Seq(Frames)] /\ Stacks'
      /\ \A r \in Procs \ {q} : stack'[r] = stack[r]
      /\ ~At(q, "LTran")'
      /\ \A m : Holds(stack'[q], m) <=> Holds(s, m) \/ Holds(Tail(stack[q]), m)
      /\ \A p : Ending(stack'[q], p) <=> Ending(s, p) \/ Ending(Tail(stack[q]), p)
      /\ \A m : Posts(stack'[q], m) <=> Posts(s, m) \/ Posts(Tail(stack[q]), m)
  BY <1>2, Pushed DEF MInv
<1>4. /\ \A m : Holds(stack[q], m) <=> Holds(Tail(stack[q]), m) \/ Top(q).kmsg = m
      /\ \A m : Posts(stack[q], m) <=> Posts(Tail(stack[q]), m)
      /\ \A p : Ending(stack[q], p) <=> Ending(Tail(stack[q]), p)
  BY <1>1, Popped
<1> QED
  BY <1>3, <1>4


-----------------------------------------------------------------------------
(* The whole invariant, by what becomes of messages and ports.             *)

(* The messages M go to place d of kind k and all others stay.             *)
MoveTo(M, k, d) ==
  /\ M \subseteq KMsgs
  /\ \/ k = "free" /\ d = 0
     \/ k = "call" /\ d \in Procs
     \/ k = "primary" /\ d \in AllProcs
     \/ k = "secondary" /\ d \in Ports
  /\ \A x \in KMsgs : x \in FreeKMsgQ' <=> IF x \in M THEN k = "free" ELSE x \in FreeKMsgQ
  /\ \A x \in KMsgs : \A r \in Procs :
       Holds(stack'[r], x) <=> IF x \in M THEN k = "call" /\ r = d ELSE Holds(stack[r], x)
  /\ \A x \in KMsgs : \A r \in AllProcs :
       x \in Range(Inbox(r)') <=> IF x \in M THEN k = "primary" /\ r = d ELSE x \in Range(Inbox(r))
  /\ \A x \in KMsgs : \A p \in Ports :
       x \in Range(Second(p)') <=> IF x \in M THEN k = "secondary" /\ p = d ELSE x \in Range(Second(p))


(* Messages that move to one place stay in one place.                      *)
LEMMA Moves ==
  ASSUME MInv, Typed', Stacks', Once', Addressed', Carrying', Closed', PortPlaced',
         NEW M, NEW k, NEW d, MoveTo(M, k, d)
  PROVE  Kept
<1>1. d \in Slots /\ k \in Kinds
  BY Numbers DEF Kinds, MoveTo
<1>2. ASSUME NEW m \in KMsgs, NEW l \in Kinds, NEW j \in Slots
      PROVE  In(m, l, j)' <=> IF m \in M THEN l = k /\ j = d ELSE In(m, l, j)
  BY DEF In, Kinds, MoveTo
<1>3. \A m \in KMsgs, l \in Kinds, j \in Slots :
        In(m, l, j)' <=> IF m \in M THEN l = k /\ j = d ELSE In(m, l, j)
  BY <1>2, Zenon
<1>4. Lone'
  BY <1>3 DEF MInv, Lone
<1>5. Somewhere => Somewhere'
  BY <1>1, <1>3 DEF Somewhere
<1> QED
  BY <1>4, <1>5 DEF Kept, MInv


(* Port p becomes in use, free or ending and all others stay.              *)
PortMoveTo(p, k, d) ==
  /\ p \in Ports
  /\ \/ k = "use" /\ d = 0
     \/ k = "free" /\ d = 0
     \/ k = "ends" /\ d \in Procs
  /\ \A x \in Ports : PortArray'[x].InUse <=> IF x = p THEN k = "use" ELSE PortArray[x].InUse
  /\ \A x \in Ports : x \in Range(FreePortQ') <=> IF x = p THEN k = "free" ELSE x \in Range(FreePortQ)
  /\ \A x \in Ports : \A r \in Procs :
       Ending(stack'[r], x) <=> IF x = p THEN k = "ends" /\ r = d ELSE Ending(stack[r], x)


(* A port that moves to one place stays in one place.                      *)
LEMMA PortMoves ==
  ASSUME PortPlaced, NEW p, NEW k, NEW d, PortMoveTo(p, k, d)
  PROVE  PortPlaced'
<1>1. d \in Slots /\ k \in PortKinds
  BY Numbers DEF PortKinds, PortMoveTo
<1>2. ASSUME NEW x \in Ports, NEW l \in PortKinds, NEW j \in Slots
      PROVE  PortIn(x, l, j)' <=> IF x = p THEN l = k /\ j = d ELSE PortIn(x, l, j)
  BY DEF PortIn, PortKinds, PortMoveTo
<1>3. \A x \in Ports, l \in PortKinds, j \in Slots :
        PortIn(x, l, j)' <=> IF x = p THEN l = k /\ j = d ELSE PortIn(x, l, j)
  BY <1>2, Zenon
<1> QED
  BY <1>1, <1>3 DEF PortPlaced


(* A step that moves no message and no port keeps the invariant.           *)
LEMMA Quiet ==
  ASSUME MInv, Typed', Stacks', NEW q \in Procs,
         \A r \in Procs \ {q} : stack'[r] = stack[r],
         ~At(q, "LTran")' \/ (stack'[q] = stack[q] /\ UNCHANGED kmsg),
         \A m \in KMsgs : Holds(stack'[q], m) <=> Holds(stack[q], m),
         \A m \in KMsgs : Posts(stack[q], m) => Posts(stack'[q], m),
         \A p \in Ports : Ending(stack'[q], p) <=> Ending(stack[q], p),
         \A r \in AllProcs : Inbox(r)' = Inbox(r),
         \A p \in Ports : /\ Second(p)' = Second(p)
                          /\ PortArray'[p].InUse = PortArray[p].InUse,
         \A m \in KMsgs : /\ kmsg'[m].RemotePort = kmsg[m].RemotePort
                          /\ kmsg'[m].type = kmsg[m].type \/ Holds(stack[q], m),
         UNCHANGED <<FreeKMsgQ, FreePortQ>>
  PROVE  Kept
<1>1. Once'
  BY DEF MInv, Once
<1>2. Addressed'
  BY AddressedKept DEF MInv
<1>3. Carrying'
  <2>1. \A r \in Procs \ {q} : \A m \in KMsgs : Holds(stack[r], m) => kmsg'[m].type = kmsg[m].type
    BY HeldAlone
  <2> QED
    BY <2>1, CarryingKept
<1>4. PortPlaced'
  BY PortsStay DEF MInv
<1>5. \A r \in Procs : \A m \in KMsgs : Holds(stack'[r], m) <=> Holds(stack[r], m)
  OBVIOUS
<1>6. \A m \in KMsgs, l \in Kinds, j \in Slots : In(m, l, j)' <=> In(m, l, j)
  BY <1>5 DEF In
<1>7. Lone'
  BY <1>6 DEF MInv, Lone
<1>8. Somewhere => Somewhere'
  BY <1>6 DEF Somewhere
<1>9. Closed'
  BY DEF MInv, Closed
<1> QED
  BY <1>1, <1>2, <1>3, <1>4, <1>7, <1>8, <1>9 DEF Kept, MInv


(* A step that takes a plain frame off a stack, puts plain frames on it    *)
(* and changes at most fields of records that say where nothing is.        *)
LEMMA PlainStep ==
  ASSUME MInv, NEW q \in Procs, stack[q] # <<>>, Top(q) \in Plain,
         NEW s \in Seq(Plain), Then(q, s),
         stack' \in [Procs -> Seq(Frames)] => Typed',
         \A r \in AllProcs : Inbox(r)' = Inbox(r),
         \A p \in Ports : /\ Second(p)' = Second(p)
                          /\ PortArray'[p].InUse = PortArray[p].InUse,
         UNCHANGED <<kmsg, FreeKMsgQ, FreePortQ>>
  PROVE  Kept
<1>1. /\ s \in Seq(Frames) /\ StackOK(s)
      /\ \A i \in 1 .. Len(s) : s[i].do \notin Lasts \cup {"LTran"}
      /\ \A m : ~Holds(s, m) /\ ~Posts(s, m)
      /\ \A p : ~Ending(s, p)
  BY PlainStack
<1>2. /\ stack' \in [Procs -> Seq(Frames)] /\ Stacks'
      /\ \A r \in Procs \ {q} : stack'[r] = stack[r]
      /\ ~At(q, "LTran")'
      /\ \A m : Holds(stack'[q], m) <=> Holds(Tail(stack[q]), m)
      /\ \A p : Ending(stack'[q], p) <=> Ending(Tail(stack[q]), p)
      /\ \A m : Posts(stack'[q], m) <=> Posts(Tail(stack[q]), m)
  BY <1>1, Pushed DEF MInv
<1>3. /\ \A m : Holds(stack[q], m) <=> Holds(Tail(stack[q]), m)
      /\ \A p : Ending(stack[q], p) <=> Ending(Tail(stack[q]), p)
      /\ \A m : Posts(stack[q], m) <=> Posts(Tail(stack[q]), m)
  BY TailIs DEF MInv, Typed, Stacks, Top, Plain, Holding, Lasts
<1> QED
  BY <1>2, <1>3, Quiet


-----------------------------------------------------------------------------
(* What the model's operators do to the records.                           *)

(* IPCWakeup changes State alone.                                          *)
LEMMA WakeupIs ==
  ASSUME Typed, NEW to \in AllProcs
  PROVE  /\ IPCWakeup(ProcArray, to) \in [AllProcs -> ProcRecords]
         /\ \A r \in AllProcs : /\ IPCWakeup(ProcArray, to)[r].MsgsWaiting = Inbox(r)
                                /\ IPCWakeup(ProcArray, to)[r].Active = ProcArray[r].Active
                                /\ IPCWakeup(ProcArray, to)[r].DataPort = ProcArray[r].DataPort
BY DEF Typed, ProcRecords, IPCWakeup, Waiting, Inbox


(* A change of State is no more than that.                                 *)
LEMMA StateIs ==
  ASSUME Typed, NEW q \in AllProcs, NEW s \in {"NOT_WAITING", "TIMED_OUT"} \cup Waiting,
         ProcArray' = [ProcArray EXCEPT ![q].State = s]
  PROVE  /\ ProcArray' \in [AllProcs -> ProcRecords]
         /\ \A r \in AllProcs : /\ Inbox(r)' = Inbox(r)
                                /\ ProcArray'[r].Active = ProcArray[r].Active
                                /\ ProcArray'[r].DataPort = ProcArray[r].DataPort
BY DEF Typed, ProcRecords, Inbox


(* A change of one port's record that leaves its queue, its use, its       *)
(* receiver and its count.                                                 *)
LEMMA EntryIs ==
  ASSUME Typed, NEW p \in Ports, NEW c \in PortRecords,
         c.SecondaryMsgQ = PortArray[p].SecondaryMsgQ, c.InUse = PortArray[p].InUse,
         c.NumQueued = PortArray[p].NumQueued, c.Receiver = PortArray[p].Receiver,
         PortArray' = [PortArray EXCEPT ![p] = c]
  PROVE  /\ PortArray' \in [Ports -> PortRecords]
         /\ \A x \in Ports : /\ Second(x)' = Second(x)
                             /\ PortArray'[x].InUse = PortArray[x].InUse
                             /\ PortArray'[x].NumQueued = PortArray[x].NumQueued
                             /\ PortArray'[x].Receiver = PortArray[x].Receiver
<1>1. PortArray \in [Ports -> PortRecords]
  BY DEF Typed
<1>2. PortArray' \in [Ports -> PortRecords]
  BY <1>1
<1>3. \A x \in Ports : PortArray'[x] = IF x = p THEN c ELSE PortArray[x]
  BY <1>1
<1> QED
  BY <1>2, <1>3 DEF Second


(* FastGTran, Forget and Notify change Senders alone.                      *)
LEMMA SendersIs ==
  ASSUME Typed, NEW p \in Ports, NEW S \in SUBSET Procs,
         PortArray' = [PortArray EXCEPT ![p].Senders = S]
  PROVE  /\ PortArray' \in [Ports -> PortRecords]
         /\ \A x \in Ports : /\ Second(x)' = Second(x)
                             /\ PortArray'[x].InUse = PortArray[x].InUse
                             /\ PortArray'[x].NumQueued = PortArray[x].NumQueued
                             /\ PortArray'[x].Receiver = PortArray[x].Receiver
<1> DEFINE c == [PortArray[p] EXCEPT !.Senders = S]
<1>1. PortArray[p] \in PortRecords
  BY DEF Typed
<1>2. /\ c \in PortRecords /\ c.SecondaryMsgQ = PortArray[p].SecondaryMsgQ
      /\ c.InUse = PortArray[p].InUse /\ c.NumQueued = PortArray[p].NumQueued
      /\ c.Receiver = PortArray[p].Receiver
  BY <1>1 DEF PortRecords
<1>3. PortArray' = [PortArray EXCEPT ![p] = c]
  OBVIOUS
<1> HIDE DEF c
<1> QED
  BY <1>2, <1>3, EntryIs


(* FastGTrans changes Senders alone, and takes nobody's right.             *)
LEMMA GTransIs ==
  ASSUME Typed, NEW q \in Procs, NEW S, FastGTrans(q, S)
  PROVE  /\ PortArray' \in [Ports -> PortRecords]
         /\ \A x \in Ports : /\ Second(x)' = Second(x)
                             /\ PortArray'[x].InUse = PortArray[x].InUse
                             /\ PortArray'[x].NumQueued = PortArray[x].NumQueued
                             /\ PortArray'[x].Receiver = PortArray[x].Receiver
                             /\ PortArray'[x].Owner = PortArray[x].Owner
                             /\ PortArray'[x].Locked = PortArray[x].Locked
                             /\ PortArray'[x].Backlog = PortArray[x].Backlog
                             /\ PortArray[x].Senders \subseteq PortArray'[x].Senders
<1> DEFINE c(x) == [PortArray[x] EXCEPT !.Senders = @ \cup {q}]
<1>1. ASSUME NEW x \in Ports
      PROVE  /\ PortArray[x] \in PortRecords /\ c(x) \in PortRecords
             /\ c(x).SecondaryMsgQ = PortArray[x].SecondaryMsgQ /\ c(x).InUse = PortArray[x].InUse
             /\ c(x).NumQueued = PortArray[x].NumQueued /\ c(x).Receiver = PortArray[x].Receiver
             /\ c(x).Owner = PortArray[x].Owner /\ c(x).Locked = PortArray[x].Locked
             /\ c(x).Backlog = PortArray[x].Backlog
             /\ PortArray[x].Senders \subseteq c(x).Senders
  BY DEF Typed, PortRecords
<1>2. PortArray' = [x \in Ports |-> IF x \in S THEN c(x) ELSE PortArray[x]]
  BY DEF FastGTrans
<1> HIDE DEF c
<1>3. \A x \in Ports : PortArray'[x] = IF x \in S THEN c(x) ELSE PortArray[x]
  BY <1>2
<1>4. PortArray' \in [Ports -> PortRecords]
  BY <1>1, <1>2
<1> QED
  BY <1>1, <1>3, <1>4 DEF Second


(* GiveOwnership changes Owner alone.                                      *)
LEMMA OwnerIs ==
  ASSUME Typed, NEW p \in Ports, NEW o \in AllProcs,
         PortArray' = [PortArray EXCEPT ![p].Owner = o]
  PROVE  /\ PortArray' \in [Ports -> PortRecords]
         /\ \A x \in Ports : Second(x)' = Second(x) /\ PortArray'[x].InUse = PortArray[x].InUse
<1> DEFINE c == [PortArray[p] EXCEPT !.Owner = o]
<1>1. PortArray[p] \in PortRecords
  BY DEF Typed
<1>2. /\ c \in PortRecords /\ c.SecondaryMsgQ = PortArray[p].SecondaryMsgQ
      /\ c.InUse = PortArray[p].InUse /\ c.NumQueued = PortArray[p].NumQueued
      /\ c.Receiver = PortArray[p].Receiver
  BY <1>1 DEF PortRecords
<1>3. PortArray' = [PortArray EXCEPT ![p] = c]
  OBVIOUS
<1> HIDE DEF c
<1> QED
  BY <1>2, <1>3, EntryIs


(* TPLockPorts changes Locked alone.                                       *)
LEMMA LockedIs ==
  ASSUME Typed, NEW p \in Ports, PortArray' = [PortArray EXCEPT ![p].Locked = ~PortArray[p].Locked]
  PROVE  /\ PortArray' \in [Ports -> PortRecords]
         /\ \A x \in Ports : Second(x)' = Second(x) /\ PortArray'[x].InUse = PortArray[x].InUse
<1> DEFINE b == ~PortArray[p].Locked
           c == [PortArray[p] EXCEPT !.Locked = b]
<1>1. PortArray[p] \in PortRecords /\ b \in BOOLEAN
  BY DEF Typed
<1>3. PortArray' = [PortArray EXCEPT ![p] = c]
  OBVIOUS
<1> HIDE DEF b
<1>2. /\ c \in PortRecords /\ c.SecondaryMsgQ = PortArray[p].SecondaryMsgQ
      /\ c.InUse = PortArray[p].InUse /\ c.NumQueued = PortArray[p].NumQueued
      /\ c.Receiver = PortArray[p].Receiver
  BY <1>1 DEF PortRecords
<1> HIDE DEF c
<1> QED
  BY <1>2, <1>3, EntryIs


(* SetBackLog changes Backlog alone.                                       *)
LEMMA BacklogIs ==
  ASSUME Typed, NEW p \in Ports, NEW n \in Nat,
         PortArray' = [PortArray EXCEPT ![p].Backlog = n]
  PROVE  /\ PortArray' \in [Ports -> PortRecords]
         /\ \A x \in Ports : Second(x)' = Second(x) /\ PortArray'[x].InUse = PortArray[x].InUse
<1> DEFINE c == [PortArray[p] EXCEPT !.Backlog = n]
<1>1. PortArray[p] \in PortRecords
  BY DEF Typed
<1>2. /\ c \in PortRecords /\ c.SecondaryMsgQ = PortArray[p].SecondaryMsgQ
      /\ c.InUse = PortArray[p].InUse /\ c.NumQueued = PortArray[p].NumQueued
      /\ c.Receiver = PortArray[p].Receiver
  BY <1>1 DEF PortRecords
<1>3. PortArray' = [PortArray EXCEPT ![p] = c]
  OBVIOUS
<1> HIDE DEF c
<1> QED
  BY <1>2, <1>3, EntryIs


(* Free adds one message to the free ones and clears its record.           *)
LEMMA FreeIs ==
  ASSUME Typed, NEW m \in KMsgs, Free(m)
  PROVE  /\ kmsg' \in [KMsgs -> MessageRecords] /\ FreeKMsgQ' \in SUBSET KMsgs
         /\ \A x \in KMsgs \ {m} : kmsg'[x] = kmsg[x]
         /\ \A x \in KMsgs : x \in FreeKMsgQ' <=> x = m \/ x \in FreeKMsgQ
         /\ \A x \in KMsgs : /\ kmsg'[x].type # "none" => kmsg'[x].port \in Ports
                             /\ kmsg'[x].What # "DONT_WAKE" => kmsg'[x].WakeupProc \in Procs
<1>1. NoMessage \in MessageRecords /\ NoMessage.type = "none" /\ NoMessage.What = "DONT_WAKE"
  BY Numbers DEF NoMessage, Message, MessageRecords, IDs, Rights
<1>2. kmsg \in [KMsgs -> MessageRecords] /\ FreeKMsgQ \in SUBSET KMsgs
  BY DEF Typed
<1>3. kmsg' = [kmsg EXCEPT ![m] = NoMessage] /\ FreeKMsgQ' = FreeKMsgQ \cup {m}
  BY DEF Free
<1> HIDE DEF NoMessage
<1>4. \A x \in KMsgs : kmsg'[x] = IF x = m THEN NoMessage ELSE kmsg[x]
  BY <1>2, <1>3
<1>5. kmsg' \in [KMsgs -> MessageRecords]
  BY <1>1, <1>2, <1>3
<1> QED
  BY <1>1, <1>2, <1>3, <1>4, <1>5 DEF Typed


(* Allocate takes one free message and fills its record.                   *)
LEMMA AllocateIs ==
  ASSUME Typed, NEW m \in KMsgs, NEW id \in IDs, NEW to \in Ports \cup {NullPort},
         NEW local \in Ports \cup {NullPort}, NEW emerg \in BOOLEAN, NEW type \in Rights, NEW port \in Ports \cup {NullPort},
         type # "none" => port \in Ports,
         Allocate(m, Message(id, to, local, emerg, type, port))
  PROVE  /\ kmsg' \in [KMsgs -> MessageRecords] /\ FreeKMsgQ' \in SUBSET KMsgs
         /\ kmsg'[m].RemotePort = to /\ kmsg'[m].type = type
         /\ \A x \in KMsgs \ {m} : kmsg'[x] = kmsg[x]
         /\ m \in FreeKMsgQ
         /\ \A x \in KMsgs : x \in FreeKMsgQ' <=> x # m /\ x \in FreeKMsgQ
         /\ \A x \in KMsgs : /\ kmsg'[x].type # "none" => kmsg'[x].port \in Ports
                             /\ kmsg'[x].What # "DONT_WAKE" => kmsg'[x].WakeupProc \in Procs
<1> DEFINE c == Message(id, to, local, emerg, type, port)
<1>1. /\ c \in MessageRecords /\ c.type = type /\ c.What = "DONT_WAKE" /\ c.RemotePort = to
      /\ c.port = port
  BY Numbers DEF Message, MessageRecords
<1>2. kmsg \in [KMsgs -> MessageRecords] /\ FreeKMsgQ \in SUBSET KMsgs
  BY DEF Typed
<1>3. m \in FreeKMsgQ /\ kmsg' = [kmsg EXCEPT ![m] = c] /\ FreeKMsgQ' = FreeKMsgQ \ {m}
  BY DEF Allocate
<1> HIDE DEF c
<1>4. \A x \in KMsgs : kmsg'[x] = IF x = m THEN c ELSE kmsg[x]
  BY <1>2, <1>3
<1>5. kmsg' \in [KMsgs -> MessageRecords]
  BY <1>1, <1>2, <1>3
<1> QED
  BY <1>1, <1>2, <1>3, <1>4, <1>5 DEF Typed


(* Once answered, a message says no more whom to wake; the rest of it      *)
(* stays.                                                                  *)
LEMMA AnsweredIs ==
  ASSUME Typed, NEW m \in KMsgs, kmsg' = [kmsg EXCEPT ![m].What = "DONT_WAKE"]
  PROVE  /\ kmsg' \in [KMsgs -> MessageRecords]
         /\ \A x \in KMsgs : /\ kmsg'[x].RemotePort = kmsg[x].RemotePort
                             /\ kmsg'[x].type = kmsg[x].type /\ kmsg'[x].port = kmsg[x].port
                             /\ kmsg'[x].WakeupProc = kmsg[x].WakeupProc
                             /\ kmsg'[x].What # "DONT_WAKE" => kmsg'[x].What = kmsg[x].What
<1> DEFINE c == [kmsg[m] EXCEPT !.What = "DONT_WAKE"]
<1>1. kmsg \in [KMsgs -> MessageRecords]
  BY DEF Typed
<1>2. /\ c \in MessageRecords /\ c.RemotePort = kmsg[m].RemotePort /\ c.type = kmsg[m].type
      /\ c.port = kmsg[m].port /\ c.WakeupProc = kmsg[m].WakeupProc /\ c.What = "DONT_WAKE"
  BY <1>1 DEF MessageRecords
<1>3. kmsg' = [kmsg EXCEPT ![m] = c]
  OBVIOUS
<1> HIDE DEF c
<1>4. kmsg' \in [KMsgs -> MessageRecords]
  BY <1>1, <1>2, <1>3
<1>5. \A x \in KMsgs : kmsg'[x] = IF x = m THEN c ELSE kmsg[x]
  BY <1>1, <1>3
<1> QED
  BY <1>2, <1>4, <1>5


(* QueueMsg's Queued adds the message to the receiver's inbox, wherever in *)
(* it, and changes no other.                                               *)
LEMMA QueuedIs ==
  ASSUME MInv, NEW m \in KMsgs, NEW p \in Ports, \A r \in AllProcs : m \notin Range(Inbox(r))
  PROVE  LET queued == Queued(m, p) IN
         /\ queued \in [AllProcs -> ProcRecords]
         /\ \A r \in AllProcs :
              /\ Range(queued[r].MsgsWaiting) =
                   IF r = PortArray[p].Receiver THEN Range(Inbox(r)) \cup {m} ELSE Range(Inbox(r))
              /\ IsInjective(queued[r].MsgsWaiting)
              /\ queued[r].Active = ProcArray[r].Active /\ queued[r].DataPort = ProcArray[r].DataPort
              /\ queued[r].State = ProcArray[r].State
<1> DEFINE to == PortArray[p].Receiver
           s == IF kmsg[m].emerg THEN <<m>> \o Inbox(to) ELSE Append(Inbox(to), m)
<1>1. to \in AllProcs
  BY DEF MInv, Typed, PortRecords
<1>2. \A r \in AllProcs : Inbox(r) \in Seq(KMsgs) /\ IsInjective(Inbox(r))
  BY QueuesTyped DEF MInv, Once
<1> HIDE DEF to
<1>3. s \in Seq(KMsgs) /\ Range(s) = Range(Inbox(to)) \cup {m} /\ IsInjective(s)
  <2>1. CASE kmsg[m].emerg
    <3>1. <<m>> \in Seq(KMsgs) /\ Range(<<m>>) = {m} /\ IsInjective(<<m>>)
      BY DEF Range, IsInjective
    <3>2. Range(<<m>>) \cap Range(Inbox(to)) = {}
      BY <1>1, <3>1
    <3> DEFINE one == <<m>>
    <3> HIDE DEF one
    <3>4. one \in Seq(KMsgs) /\ IsInjective(one) /\ Range(one) \cap Range(Inbox(to)) = {}
      BY <1>1, <1>2, <3>1, <3>2 DEF one
    <3>5. Inbox(to) \in Seq(KMsgs) /\ IsInjective(Inbox(to))
      BY <1>1, <1>2
    <3>3. /\ one \o Inbox(to) \in Seq(KMsgs)
          /\ Range(one \o Inbox(to)) = Range(one) \cup Range(Inbox(to))
          /\ IsInjective(one \o Inbox(to))
      BY <3>4, <3>5, RangeConcat
    <3> QED
      BY <2>1, <3>1, <3>3 DEF one
  <2>2. CASE ~kmsg[m].emerg
    BY <1>1, <1>2, <2>2, RangeAppend
  <2> QED
    BY <2>1, <2>2
<1>4. Queued(m, p) = [ProcArray EXCEPT ![to].MsgsWaiting = s]
  BY DEF Queued, to, Inbox
<1> HIDE DEF s
<1>5. ProcArray \in [AllProcs -> ProcRecords]
  BY DEF MInv, Typed
<1>6. Queued(m, p) \in [AllProcs -> ProcRecords]
  BY <1>1, <1>3, <1>4, <1>5 DEF ProcRecords
<1>7. \A r \in AllProcs \ {to} : Queued(m, p)[r] = ProcArray[r]
  BY <1>4, <1>5
<1>8. /\ Queued(m, p)[to].MsgsWaiting = s
      /\ Queued(m, p)[to].Active = ProcArray[to].Active
      /\ Queued(m, p)[to].DataPort = ProcArray[to].DataPort
      /\ Queued(m, p)[to].State = ProcArray[to].State
  BY <1>1, <1>4, <1>5 DEF ProcRecords
<1> QED
  BY <1>2, <1>3, <1>6, <1>7, <1>8 DEF Inbox, to


(* Counted changes NumQueued alone.                                        *)
LEMMA CountedIs ==
  ASSUME Typed, NEW m \in KMsgs, NEW p \in Ports, PortArray' = Counted(m, p)
  PROVE  /\ PortArray' \in [Ports -> PortRecords]
         /\ \A x \in Ports : /\ Second(x)' = Second(x)
                             /\ PortArray'[x].InUse = PortArray[x].InUse
                             /\ PortArray'[x].Receiver = PortArray[x].Receiver
<1>1. PICK n \in Int : PortArray' = [PortArray EXCEPT ![p].NumQueued = n]
  <2>1. PortArray[p].NumQueued \in Int
    BY DEF Typed, PortRecords
  <2> DEFINE n == IF kmsg[m].emerg THEN PortArray[p].NumQueued ELSE PortArray[p].NumQueued + 1
  <2>2. n \in Int
    BY <2>1
  <2>3. PortArray' = [PortArray EXCEPT ![p].NumQueued = n]
    BY DEF Counted
  <2> HIDE DEF n
  <2> QED
    BY <2>2, <2>3
<1>2. PortArray' \in [Ports -> PortRecords]
  <2>1. [PortArray[p] EXCEPT !.NumQueued = n] \in PortRecords
    <3>1. PortArray[p] \in PortRecords
      BY DEF Typed
    <3> QED
      BY <3>1 DEF PortRecords
  <2> QED
    BY <1>1, <2>1 DEF Typed
<1>3. \A x \in Ports \ {p} : PortArray'[x] = PortArray[x]
  BY <1>1 DEF Typed
<1>4. /\ PortArray'[p].SecondaryMsgQ = PortArray[p].SecondaryMsgQ
      /\ PortArray'[p].InUse = PortArray[p].InUse /\ PortArray'[p].Receiver = PortArray[p].Receiver
  BY <1>1 DEF Typed, PortRecords
<1> QED
  BY <1>2, <1>3, <1>4 DEF Second


-----------------------------------------------------------------------------
(* The beginning, and what the invariant says of the properties.           *)

(* Init: all messages are free, the ports not in use are free, and nobody  *)
(* is in a call.                                                           *)
LEMMA Begun ==
  ASSUME Init
  PROVE  MInv /\ Somewhere
<1> USE DEF Init
<1>1. PortArray \in [Ports -> PortRecords] /\ ProcArray \in [AllProcs -> ProcRecords]
  BY MessagesAssumption
<1>2. \A q \in AllProcs : Inbox(q) = <<>>
  BY MessagesAssumption DEF Inbox
<1>3. \A p \in Ports : Second(p) = <<>>
  BY MessagesAssumption DEF Second
<1>4. Range(<<>>) = {} /\ IsInjective(<<>>)
  BY DEF Range, IsInjective
<1>5. /\ FreePortQ \in Seq(Ports) /\ IsInjective(FreePortQ)
      /\ Range(FreePortQ) = {p \in Ports : ~PortArray[p].InUse}
  <2> DEFINE s == [p \in Ports |-> p]
             S == {p \in Ports : ~InitPort[p].InUse}
  <2>1. s \in Seq(Ports) /\ IsInjective(s) /\ Range(s) = Ports
    <3>1. NumPorts - 1 \in Nat /\ Ports = 1 .. NumPorts - 1
      BY PortsAssumption DEF Ports
    <3>2. s \in [1 .. NumPorts - 1 -> Ports]
      BY <3>1
    <3>3. s \in Seq(Ports)
      BY <3>1, <3>2, SeqDef
    <3>4. IsInjective(s) /\ Range(s) = Ports
      BY DEF IsInjective, Range
    <3> QED
      BY <3>3, <3>4
  <2>2. FreePortQ = Those(s, S)
    OBVIOUS
  <2> HIDE DEF s, Init
  <2>3. FreePortQ \in Seq(Ports) /\ Range(FreePortQ) = Ports \cap S /\ IsInjective(FreePortQ)
    BY <2>1, <2>2, ThoseIs
  <2>4. \A p \in Ports : PortArray[p].InUse <=> InitPort[p].InUse
    BY DEF Init
  <2> QED
    BY <2>3, <2>4
<1>6. FreeProcQ \in Seq(Procs)
  <2> DEFINE T == 1 .. LAST_USED_PROCESS
             s == [i \in T |-> i]
             S == {q \in Procs : ~InitProc[q].Active}
  <2>1. LAST_USED_PROCESS \in Nat
    BY PortsAssumption DEF LAST_USED_PROCESS
  <2>2. s \in Seq(T)
    BY <2>1, SeqDef
  <2>3. FreeProcQ = Those(s, S)
    OBVIOUS
  <2> HIDE DEF s, Init, T
  <2>4. FreeProcQ \in Seq(T) /\ Range(FreeProcQ) \subseteq Procs
    BY <2>2, <2>3, ThoseIs
  <2>5. /\ Len(FreeProcQ) \in Nat
        /\ \A i \in 1 .. Len(FreeProcQ) : FreeProcQ[i] \in Procs
    BY <2>4, LenProperties DEF Range
  <2>6. FreeProcQ = [i \in 1 .. Len(FreeProcQ) |-> FreeProcQ[i]]
    BY <2>4, LenProperties
  <2> QED
    BY <2>5, <2>6, SeqDef
<1>7. kmsg \in [KMsgs -> MessageRecords] /\ \A m \in KMsgs : kmsg[m].type = "none" /\ kmsg[m].What = "DONT_WAKE"
  BY Numbers DEF NoMessage, Message, MessageRecords, IDs, Rights
<1>8. stack \in [Procs -> Seq(Frames)] /\ \A q \in Procs : stack[q] = <<>>
  BY NoFrames
<1>9. Typed
  BY <1>1, <1>5, <1>6, <1>7, <1>8, MessagesAssumption DEF Typed
<1>10. Once /\ Closed
  BY <1>2, <1>3, <1>4, <1>5 DEF Once, Closed
<1>11. Stacks /\ Addressed /\ Carrying
  BY <1>8, NoFrames DEF Stacks, Addressed, Carrying, At
<1>12. \A m \in KMsgs, k \in Kinds, i \in Slots : In(m, k, i) <=> k = "free" /\ i = 0
  <2>1. ASSUME NEW m \in KMsgs, NEW k \in Kinds, NEW i \in Slots
        PROVE  In(m, k, i) <=> k = "free" /\ i = 0
    BY <1>2, <1>3, <1>4, <1>8, NoFrames DEF In
  <2> QED
    BY <2>1, Zenon
<1>13. "free" \in Kinds /\ 0 \in Slots
  BY Numbers DEF Kinds
<1> HIDE DEF Init
<1>14. Lone /\ Somewhere
  BY <1>12, <1>13 DEF Lone, Somewhere
<1>15. PortPlaced
  <2>1. \A r \in Procs, p \in Ports : ~Ending(stack[r], p)
    BY <1>8, NoFrames
  <2>2. ASSUME NEW p \in Ports
        PROVE  /\ \E k \in PortKinds, i \in Slots : PortIn(p, k, i)
               /\ \A k, l \in PortKinds : \A i, j \in Slots :
                    PortIn(p, k, i) /\ PortIn(p, l, j) => k = l /\ i = j
    BY <1>5, <1>13, <2>1 DEF PortIn, PortKinds
  <2> QED
    BY <2>2 DEF PortPlaced
<1> QED
  BY <1>9, <1>10, <1>11, <1>14, <1>15 DEF MInv


(* Every message structure is in one place at most.                        *)
NeverTwice == \A m \in KMsgs : IsFiniteSet(Places(m)) /\ Cardinality(Places(m)) <= 1


(* where something is in a queue                                           *)
Index(s, x) == CHOOSE i \in 1 .. Len(s) : s[i] = x

(* the element of Places(m) that In(m, kind, i) stands for                 *)
Place(m, kind, i) ==
  CASE kind = "free" -> <<"free">>
    [] kind = "call" -> <<"call", i>>
    [] kind = "primary" -> <<<<"primary", i>>, Index(Inbox(i), m), m>>
    [] kind = "secondary" -> <<<<"secondary", i>>, Index(Second(i), m), m>>


(* In a queue with nothing twice a message has one index.                  *)
LEMMA IndexIs ==
  ASSUME NEW s \in Seq(KMsgs), IsInjective(s), NEW x
  PROVE  /\ x \in Range(s) => Index(s, x) \in 1 .. Len(s) /\ s[Index(s, x)] = x
         /\ \A i \in 1 .. Len(s) : s[i] = x => x \in Range(s) /\ i = Index(s, x)
<1>1. DOMAIN s = 1 .. Len(s)
  BY LenProperties
<1>2. x \in Range(s) => \E i \in 1 .. Len(s) : s[i] = x
  BY <1>1 DEF Range
<1>3. (\E i \in 1 .. Len(s) : s[i] = x) => Index(s, x) \in 1 .. Len(s) /\ s[Index(s, x)] = x
  BY DEF Index
<1>4. \A i, j \in 1 .. Len(s) : s[i] = s[j] => i = j
  BY <1>1 DEF IsInjective
<1>5. \A i \in 1 .. Len(s) : s[i] = x => x \in Range(s)
  BY <1>1 DEF Range
<1> QED
  BY <1>2, <1>3, <1>4, <1>5


(* Places(m), as KMsgInOnePlace counts them, are the places that In has.   *)
LEMMA PlacesAre ==
  ASSUME MInv, NEW m \in KMsgs
  PROVE  /\ \A k \in Kinds, i \in Slots : In(m, k, i) => Place(m, k, i) \in Places(m)
         /\ \A x \in Places(m) : \E k \in Kinds, i \in Slots : In(m, k, i) /\ x = Place(m, k, i)
<1>1. \A q \in AllProcs : Inbox(q) \in Seq(KMsgs) /\ IsInjective(Inbox(q))
  BY QueuesTyped DEF MInv, Once
<1>2. \A p \in Ports : Second(p) \in Seq(KMsgs) /\ IsInjective(Second(p))
  BY QueuesTyped DEF MInv, Once
<1>3. \A x : x \in Places(m) <=>
        \/ x = <<"free">> /\ m \in FreeKMsgQ
        \/ \E q \in Procs : x = <<"call", q>> /\ Holds(stack[q], m)
        \/ \E q \in AllProcs : \E i \in 1 .. Len(Inbox(q)) : x = <<<<"primary", q>>, i, m>> /\ Inbox(q)[i] = m
        \/ \E p \in Ports : \E i \in 1 .. Len(Second(p)) : x = <<<<"secondary", p>>, i, m>> /\ Second(p)[i] = m
  <2>1. ASSUME NEW s, NEW name, NEW x
        PROVE  x \in {y \in Queue(s, name) : y[3] = m} <=>
                 \E i \in 1 .. Len(s) : x = <<name, i, m>> /\ s[i] = m
    BY DEF Queue
  <2>2. \A q \in Procs : HeldBy(m, q) <=> Holds(stack[q], m)
    BY DEF HeldBy, Holds
  <2>3. ASSUME NEW x
        PROVE  /\ x \in UNION {{y \in Queue(ProcArray[q].MsgsWaiting, <<"primary", q>>) : y[3] = m} : q \in AllProcs} <=>
                    \E q \in AllProcs : \E i \in 1 .. Len(Inbox(q)) :
                      x = <<<<"primary", q>>, i, m>> /\ Inbox(q)[i] = m
               /\ x \in UNION {{y \in Queue(PortArray[p].SecondaryMsgQ, <<"secondary", p>>) : y[3] = m} : p \in Ports} <=>
                    \E p \in Ports : \E i \in 1 .. Len(Second(p)) :
                      x = <<<<"secondary", p>>, i, m>> /\ Second(p)[i] = m
               /\ x \in {<<"free">> : y \in FreeKMsgQ \cap {m}} <=> x = <<"free">> /\ m \in FreeKMsgQ
               /\ x \in {<<"call", q>> : q \in {r \in Procs : HeldBy(m, r)}} <=>
                    \E q \in Procs : x = <<"call", q>> /\ Holds(stack[q], m)
    <3>1. x \in UNION {{y \in Queue(ProcArray[q].MsgsWaiting, <<"primary", q>>) : y[3] = m} : q \in AllProcs} <=>
            \E q \in AllProcs : \E i \in 1 .. Len(Inbox(q)) :
              x = <<<<"primary", q>>, i, m>> /\ Inbox(q)[i] = m
      <4> DEFINE S(q) == {y \in Queue(ProcArray[q].MsgsWaiting, <<"primary", q>>) : y[3] = m}
      <4>1. ASSUME NEW q \in AllProcs
            PROVE  x \in S(q) <=> \E i \in 1 .. Len(Inbox(q)) : x = <<<<"primary", q>>, i, m>> /\ Inbox(q)[i] = m
        BY <2>1 DEF Inbox
      <4> HIDE DEF S
      <4>2. x \in UNION {S(q) : q \in AllProcs} <=> \E q \in AllProcs : x \in S(q)
        OBVIOUS
      <4>3. x \in UNION {S(q) : q \in AllProcs} <=>
              \E q \in AllProcs : \E i \in 1 .. Len(Inbox(q)) :
                x = <<<<"primary", q>>, i, m>> /\ Inbox(q)[i] = m
        BY <4>1, <4>2, Zenon
      <4> QED
        BY <4>3 DEF S
    <3>2. x \in UNION {{y \in Queue(PortArray[p].SecondaryMsgQ, <<"secondary", p>>) : y[3] = m} : p \in Ports} <=>
            \E p \in Ports : \E i \in 1 .. Len(Second(p)) :
              x = <<<<"secondary", p>>, i, m>> /\ Second(p)[i] = m
      <4> DEFINE S(p) == {y \in Queue(PortArray[p].SecondaryMsgQ, <<"secondary", p>>) : y[3] = m}
      <4>1. ASSUME NEW p \in Ports
            PROVE  x \in S(p) <=> \E i \in 1 .. Len(Second(p)) : x = <<<<"secondary", p>>, i, m>> /\ Second(p)[i] = m
        BY <2>1 DEF Second
      <4> HIDE DEF S
      <4>2. x \in UNION {S(p) : p \in Ports} <=> \E p \in Ports : x \in S(p)
        OBVIOUS
      <4>3. x \in UNION {S(p) : p \in Ports} <=>
              \E p \in Ports : \E i \in 1 .. Len(Second(p)) :
                x = <<<<"secondary", p>>, i, m>> /\ Second(p)[i] = m
        BY <4>1, <4>2, Zenon
      <4> QED
        BY <4>3 DEF S
    <3>3. x \in {<<"free">> : y \in FreeKMsgQ \cap {m}} <=> x = <<"free">> /\ m \in FreeKMsgQ
      OBVIOUS
    <3>4. x \in {<<"call", q>> : q \in {r \in Procs : HeldBy(m, r)}} <=>
            \E q \in Procs : x = <<"call", q>> /\ Holds(stack[q], m)
      BY <2>2
    <3> QED
      BY <3>1, <3>2, <3>3, <3>4, Zenon
  <2>4. ASSUME NEW x
        PROVE  x \in Places(m) <=>
                 \/ x \in {<<"call", q>> : q \in {r \in Procs : HeldBy(m, r)}}
                 \/ x \in UNION {{y \in Queue(ProcArray[q].MsgsWaiting, <<"primary", q>>) : y[3] = m} : q \in AllProcs}
                 \/ x \in UNION {{y \in Queue(PortArray[p].SecondaryMsgQ, <<"secondary", p>>) : y[3] = m} : p \in Ports}
                 \/ x \in {<<"free">> : y \in FreeKMsgQ \cap {m}}
    BY DEF Places
  <2> QED
    BY <2>3, <2>4, Zenon
<1>4. ASSUME NEW k \in Kinds, NEW i \in Slots, In(m, k, i)
      PROVE  Place(m, k, i) \in Places(m)
  <2>1. CASE k = "free"
    BY <1>3, <1>4, <2>1 DEF Place, In
  <2>2. CASE k = "call"
    <3>1. Place(m, k, i) = <<"call", i>> /\ i \in Procs /\ Holds(stack[i], m)
      BY <1>4, <2>2 DEF Place, In
    <3> QED
      BY <1>3, <3>1
  <2>3. CASE k = "primary"
    <3>1. Place(m, k, i) = <<<<"primary", i>>, Index(Inbox(i), m), m>> /\ i \in AllProcs /\ m \in Range(Inbox(i))
      BY <1>4, <2>3 DEF Place, In
    <3>2. Index(Inbox(i), m) \in 1 .. Len(Inbox(i)) /\ Inbox(i)[Index(Inbox(i), m)] = m
      BY <1>1, <3>1, IndexIs
    <3> QED
      BY <1>3, <3>1, <3>2
  <2>4. CASE k = "secondary"
    <3>1. Place(m, k, i) = <<<<"secondary", i>>, Index(Second(i), m), m>> /\ i \in Ports /\ m \in Range(Second(i))
      BY <1>4, <2>4 DEF Place, In
    <3>2. Index(Second(i), m) \in 1 .. Len(Second(i)) /\ Second(i)[Index(Second(i), m)] = m
      BY <1>2, <3>1, IndexIs
    <3> QED
      BY <1>3, <3>1, <3>2
  <2> QED
    BY <2>1, <2>2, <2>3, <2>4 DEF Kinds
<1>5. ASSUME NEW x \in Places(m)
      PROVE  \E k \in Kinds, i \in Slots : In(m, k, i) /\ x = Place(m, k, i)
  <2>1. {"free", "call", "primary", "secondary"} = Kinds
    BY DEF Kinds
  <2>2. CASE x = <<"free">> /\ m \in FreeKMsgQ
    <3>1. In(m, "free", 0) /\ x = Place(m, "free", 0)
      BY <2>2 DEF In, Place
    <3> QED
      BY <2>1, <3>1, Numbers
  <2>3. ASSUME NEW q \in Procs, x = <<"call", q>>, Holds(stack[q], m)
        PROVE  \E k \in Kinds, i \in Slots : In(m, k, i) /\ x = Place(m, k, i)
    <3>1. In(m, "call", q) /\ x = Place(m, "call", q)
      BY <2>3 DEF In, Place
    <3> QED
      BY <2>1, <3>1, Numbers
  <2>4. ASSUME NEW q \in AllProcs, NEW i \in 1 .. Len(Inbox(q)), x = <<<<"primary", q>>, i, m>>, Inbox(q)[i] = m
        PROVE  \E k \in Kinds, j \in Slots : In(m, k, j) /\ x = Place(m, k, j)
    <3>1. m \in Range(Inbox(q)) /\ i = Index(Inbox(q), m)
      BY <1>1, <2>4, IndexIs
    <3>2. In(m, "primary", q) /\ x = Place(m, "primary", q)
      BY <2>4, <3>1 DEF In, Place
    <3> QED
      BY <2>1, <3>2, Numbers
  <2>5. ASSUME NEW p \in Ports, NEW i \in 1 .. Len(Second(p)), x = <<<<"secondary", p>>, i, m>>, Second(p)[i] = m
        PROVE  \E k \in Kinds, j \in Slots : In(m, k, j) /\ x = Place(m, k, j)
    <3>1. m \in Range(Second(p)) /\ i = Index(Second(p), m)
      BY <1>2, <2>5, IndexIs
    <3>2. In(m, "secondary", p) /\ x = Place(m, "secondary", p)
      BY <2>5, <3>1 DEF In, Place
    <3> QED
      BY <2>1, <3>2, Numbers
  <2> QED
    BY <1>3, <2>2, <2>3, <2>4, <2>5
<1> QED
  BY <1>4, <1>5


(* So a message is in one place at most, and in one if it is not lost.     *)
LEMMA PlacesCounted ==
  ASSUME MInv
  PROVE  NeverTwice /\ (Somewhere => \A m \in KMsgs : KMsgInOnePlace(m))
<1> SUFFICES ASSUME NEW m \in KMsgs
             PROVE  /\ IsFiniteSet(Places(m)) /\ Cardinality(Places(m)) <= 1
                    /\ Somewhere => Cardinality(Places(m)) = 1
  BY DEF NeverTwice, KMsgInOnePlace
<1>1. \A x, y \in Places(m) : x = y
  <2> SUFFICES ASSUME NEW x \in Places(m), NEW y \in Places(m)
               PROVE  x = y
    OBVIOUS
  <2>1. PICK k \in Kinds, i \in Slots : In(m, k, i) /\ x = Place(m, k, i)
    BY PlacesAre
  <2>2. PICK l \in Kinds, j \in Slots : In(m, l, j) /\ y = Place(m, l, j)
    BY PlacesAre
  <2>3. k = l /\ i = j
    BY <2>1, <2>2 DEF MInv, Lone
  <2> QED
    BY <2>1, <2>2, <2>3
<1>2. Places(m) = {} \/ \E x : Places(m) = {x}
  BY <1>1
<1>3. Somewhere => Places(m) # {}
  BY PlacesAre DEF Somewhere
<1>4. \A x : /\ IsFiniteSet({}) /\ Cardinality({}) = 0
             /\ IsFiniteSet({x}) /\ Cardinality({x}) = 1
  BY FS_EmptySet, FS_Singleton
<1>5. IsFiniteSet(Places(m)) /\ Cardinality(Places(m)) = IF Places(m) = {} THEN 0 ELSE 1
  BY <1>2, <1>4
<1> QED
  BY <1>3, <1>5


(* And a port is in use, or free once, or one call is about to make it     *)
(* free.                                                                   *)
LEMMA PortsCounted ==
  ASSUME MInv, NEW p \in Ports
  PROVE  PortInOnePlace(p)
<1> DEFINE ends == {q \in Procs : Ending(stack[q], p)}
           free == {i \in 1 .. Len(FreePortQ) : FreePortQ[i] = p}
<1>1. FreePortQ \in Seq(Ports) /\ DOMAIN FreePortQ = 1 .. Len(FreePortQ) /\ IsInjective(FreePortQ)
  BY LenProperties DEF MInv, Typed, Once
<1>2. /\ p \notin Range(FreePortQ) => free = {}
      /\ p \in Range(FreePortQ) => \E i : free = {i}
  <2>1. free # {} <=> p \in Range(FreePortQ)
    BY <1>1 DEF Range
  <2>2. \A i, j \in free : i = j
    BY <1>1 DEF IsInjective
  <2> QED
    BY <2>1, <2>2
<1>3. PortInOnePlace(p) <=> Cardinality(ends) + Cardinality(free) = IF PortArray[p].InUse THEN 0 ELSE 1
  BY DEF PortInOnePlace, Ending
<1>4. /\ Cardinality({}) = 0
      /\ \A x : Cardinality({x}) = 1
  BY FS_EmptySet, FS_Singleton
<1> HIDE DEF free
<1>5. PICK k \in PortKinds, i \in Slots : PortIn(p, k, i)
  BY DEF MInv, PortPlaced
<1>6. /\ PortArray[p].InUse => k = "use"
      /\ p \in Range(FreePortQ) => k = "free"
      /\ \A r \in Procs : Ending(stack[r], p) => k = "ends" /\ i = r
  BY <1>5, PortAlone
<1>7. CASE k = "use"
  <2>1. PortArray[p].InUse /\ ends = {} /\ free = {}
    BY <1>2, <1>5, <1>6, <1>7 DEF PortIn
  <2> HIDE DEF ends
  <2> QED
    BY <1>3, <1>4, <2>1
<1>8. CASE k = "free"
  <2>1. ~PortArray[p].InUse /\ ends = {} /\ \E j : free = {j}
    BY <1>2, <1>5, <1>6, <1>8 DEF PortIn
  <2> HIDE DEF ends
  <2>2. Cardinality(ends) = 0
    BY <1>4, <2>1
  <2>3. PICK j : free = {j}
    BY <2>1
  <2>4. Cardinality(free) = 1
    BY <1>4, <2>3
  <2> QED
    BY <1>3, <2>1, <2>2, <2>4
<1>9. CASE k = "ends"
  <2>1. ~PortArray[p].InUse /\ ends = {i} /\ free = {}
    BY <1>2, <1>5, <1>6, <1>9 DEF PortIn
  <2> HIDE DEF ends
  <2> QED
    BY <1>3, <1>4, <2>1
<1> QED
  BY <1>7, <1>8, <1>9 DEF PortKinds

=============================================================================
