------------------------------ MODULE Messages ------------------------------
(***************************************************************************)
(* Sending and receiving, accent/accent.c, over Ports: TPSend, TPReceive   *)
(* and the waits in them (IPCWait and IPCWakeup of accent/acc_macro.h; how *)
(* a wait meets the dispatcher is in Dispatch.tla).  A full port's         *)
(* messages wait in its secondary queue and move up one by one as the port *)
(* is received from.                                                       *)
(***************************************************************************)
EXTENDS Ports

CONSTANTS
  Sends,        \* what may be sent: [proc, to, local, how, emerg, type, port]
  Receives,     \* what may be received: [proc, ports, local, how]
  Deallocates,  \* [proc, port] that may be deallocated
  Locks,        \* [proc, port] that may be locked and unlocked
  Backlogs,     \* [proc, port, backlog] that may be set
  Allocators, Forkers, Mortals,   \* processes that allocate a port, fork, exit
  Signalled,    \* processes whose waits signals may interrupt
  Cramped,      \* [proc, type] of the messages that may not fit in where they are received
  InitPort, InitProc,   \* the records to begin with
  Reserve       \* kmsgs that only the kernel's own messages use (a bound)

ActualDefaultBacklog == 1    \* a bound of the model

(* the records of ports and processes to begin with, nothing being queued  *)
PortRecords ==
  [InUse : BOOLEAN, Locked : BOOLEAN, Backlog : Nat, Receiver : AllProcs, Owner : AllProcs,
   SecondaryMsgQ : Seq(KMsgs), NumQueued : Int, Senders : SUBSET Procs]
ProcRecords ==
  [MsgsWaiting : Seq(KMsgs), Active : BOOLEAN, DataPort : Ports \cup {NullPort},
   State : {"NOT_WAITING", "TIMED_OUT"} \cup Waiting]

ASSUME MessagesAssumption ==
  /\ \A s \in Sends : /\ s.proc \in Procs /\ s.to \in Ports /\ s.emerg \in BOOLEAN
                      /\ s.local \in Ports \cup {NullPort}
                      /\ s.how \in {"Wait", "Timed", "DontWait", "Reply"}
                      /\ s.type \in Rights /\ s.port \in Ports \cup {NullPort}
                      /\ s.type # "none" => s.port \in Ports
  /\ Receives \subseteq [proc : Procs, ports : {"AllPts", "LocalPt", "DefaultPts"},
                        local : Ports \cup {NullPort}, how : {"Wait", "Timed", "Immediate"}]
  /\ \A d \in Deallocates \cup Locks \cup Backlogs : d.proc \in Procs /\ d.port \in Ports
  /\ \A b \in Backlogs : b.backlog \in Nat
  /\ Allocators \cup Forkers \cup Mortals \cup Signalled \subseteq Procs
  /\ InitPort \in [Ports -> PortRecords]
  /\ \A p \in Ports : InitPort[p].SecondaryMsgQ = <<>> /\ InitPort[p].NumQueued = 0
  /\ InitProc \in [AllProcs -> ProcRecords]
  /\ \A q \in AllProcs : /\ InitProc[q].MsgsWaiting = <<>>
                         /\ InitProc[q].Active => q \in Procs

Init == /\ PortArray = InitPort
        /\ ProcArray = InitProc
        /\ kmsg = [m \in KMsgs |-> NoMessage]
        /\ FreeKMsgQ = KMsgs
        /\ FreePortQ = Those([p \in Ports |-> p], {p \in Ports : ~InitPort[p].InUse})
        /\ FreeProcQ = Those([i \in 1 .. LAST_USED_PROCESS |-> i], {q \in Procs : ~InitProc[q].Active})
        /\ stack = [q \in Procs |-> <<>>]

Idle(q) == ProcArray[q].Active /\ stack[q] = <<>>

-----------------------------------------------------------------------------
(* TPSend: the message is copied in, the ports named by the process looked *)
(* up (FastLTran), then the rights in the body; the message is posted when *)
(* that is done.  how is Wait, Timed (Wait with a time), DontWait or Reply *)
FastLTran(q, p) == IF p \in Ports /\ q \in PortArray[p].Senders THEN p ELSE NullPort

TPSend(s) ==
  LET q == s.proc IN
      /\ Idle(q) /\ Cardinality(FreeKMsgQ) > Reserve
      /\ \E m \in FreeKMsgQ :
           /\ Allocate(m, Message("user", FastLTran(q, s.to), FastLTran(q, s.local),
                                  s.emerg, s.type, s.port))
           /\ stack' = [stack EXCEPT ![q] =
                (IF s.type = "none" THEN <<>> ELSE <<Frame("LTran", m)>>)
                \o <<[do |-> "Post", kmsg |-> m, how |-> s.how]>>]
      /\ UNCHANGED <<PortArray, ProcArray, FreePortQ, FreeProcQ>>

(* LTran: a right the process has goes into transit; without it the send   *)
(* fails with BadRights and the message is destroyed                       *)
LTran(q) ==
  LET m == Top(q).kmsg  p == kmsg[m].port  type == kmsg[m].type
      bad == \/ type \in {"TypePtOwnership", "TypePtAll"} /\ PortArray[p].Owner # q
             \/ type \in {"TypePtReceive", "TypePtAll"} /\ PortArray[p].Receiver # q
      owner == IF type \in {"TypePtOwnership", "TypePtAll"}
               THEN <<Give("GiveOwnership", p, RIGHTS_IN_TRANSIT)>> ELSE <<>>
      receive == IF type \in {"TypePtReceive", "TypePtAll"}
                 THEN <<Give("GiveReceiveRights", p, RIGHTS_IN_TRANSIT)>> ELSE <<>>
  IN  /\ At(q, "LTran")
      /\ \/ /\ q \notin PortArray[p].Senders        \* sent as NullPort
            /\ kmsg' = [kmsg EXCEPT ![m].type = "none", ![m].port = NullPort]
            /\ Then(q, <<>>)
            /\ UNCHANGED FreeKMsgQ
         \/ /\ q \in PortArray[p].Senders /\ ~bad
            /\ Then(q, owner \o receive)
            /\ UNCHANGED <<kmsg, FreeKMsgQ>>
         \/ /\ q \in PortArray[p].Senders /\ bad
            /\ Free(m)
            /\ Return(q)
      /\ UNCHANGED <<PortArray, ProcArray, FreePortQ, FreeProcQ>>

Posting(q) == /\ At(q, "Post")
              /\ kmsg[Top(q).kmsg].RemotePort # NullPort
              /\ PortArray[kmsg[Top(q).kmsg].RemotePort].InUse

(* NotAPort                                                                *)
PostNowhere(q) == /\ At(q, "Post") /\ ~Posting(q)
                  /\ Free(Top(q).kmsg)
                  /\ Return(q)
                  /\ UNCHANGED <<PortArray, ProcArray, FreePortQ, FreeProcQ>>

(* there is room: into the receiver's queue, and wake it                   *)
Post(q) ==
  LET m == Top(q).kmsg  p == kmsg[m].RemotePort  r == PortArray[p].Receiver
  IN  /\ Posting(q) /\ Room(m, p)
      /\ ProcArray' = IF ProcArray[r].State = "MSG_WAIT" THEN IPCWakeup(Queued(m, p), r)
                      ELSE Queued(m, p)
      /\ PortArray' = Counted(m, p)
      /\ Return(q)
      /\ UNCHANGED <<kmsg, FreeKMsgQ, FreePortQ, FreeProcQ>>

(* the port is full                                                        *)
PostRefused(q) ==
  LET m == Top(q).kmsg IN
  /\ Posting(q) /\ ~Room(m, kmsg[m].RemotePort) /\ Top(q).how = "DontWait"
  /\ Free(m)
  /\ Return(q)
  /\ UNCHANGED <<PortArray, ProcArray, FreePortQ, FreeProcQ>>

PostLater(q) ==
  LET m == Top(q).kmsg  p == kmsg[m].RemotePort  reply == Top(q).how = "Reply" IN
  /\ Posting(q) /\ ~Room(m, p) /\ Top(q).how # "DontWait"
  /\ PortArray' = [PortArray EXCEPT ![p].SecondaryMsgQ = Append(@, m), ![p].NumQueued = @ + 1]
  /\ kmsg' = [kmsg EXCEPT ![m].WakeupProc = q, ![m].What = IF reply THEN "SEND_ACK" ELSE "WAKE_ME"]
  /\ IF reply
     THEN Return(q) /\ UNCHANGED ProcArray
     ELSE /\ ProcArray' = [ProcArray EXCEPT ![q].State = "FULL_WAIT"]
          /\ Then(q, <<[do |-> "FullWait", kmsg |-> m, port |-> p, how |-> Top(q).how,
                      signalled |-> FALSE]>>)
  /\ UNCHANGED <<FreeKMsgQ, FreePortQ, FreeProcQ>>

(* the sender was woken: Success                                           *)
Sent(q) == /\ At(q, "FullWait") /\ ProcArray[q].State = "NOT_WAITING"
           /\ Return(q)
           /\ UNCHANGED <<PortArray, ProcArray, kmsg, FreeKMsgQ, FreePortQ, FreeProcQ>>

(* Mutated: the message is not counted out                                 *)
WithdrawCounted(q) ==
  LET f == Top(q) IN
  /\ At(q, "FullWait") /\ ProcArray[q].State = "TIMED_OUT"
  /\ IF InSeq(f.kmsg, PortArray[f.port].SecondaryMsgQ)
     THEN /\ PortArray' = [PortArray EXCEPT ![f.port].SecondaryMsgQ = Without(@, f.kmsg)]
          /\ Free(f.kmsg)
     ELSE UNCHANGED <<PortArray, kmsg, FreeKMsgQ>>
  /\ Return(q)
  /\ UNCHANGED <<ProcArray, FreePortQ, FreeProcQ>>

(* or timed out or interrupted: if the message is in the secondary queue   *)
(* still it is taken back; the call fails in any case                      *)
Ended(q) == ProcArray[q].State = "TIMED_OUT" \/ (Top(q).signalled /\ ProcArray[q].State \in Waiting)

Withdraw(q) ==
  LET f == Top(q) IN
  /\ At(q, "FullWait") /\ Ended(q)
  /\ IF InSeq(f.kmsg, PortArray[f.port].SecondaryMsgQ)
     THEN /\ PortArray' = [PortArray EXCEPT ![f.port].SecondaryMsgQ = Without(@, f.kmsg),
                                            ![f.port].NumQueued = @ - 1]
          /\ Free(f.kmsg)
     ELSE UNCHANGED <<PortArray, kmsg, FreeKMsgQ>>
  /\ Return(q)
  /\ UNCHANGED <<ProcArray, FreePortQ, FreeProcQ>>

-----------------------------------------------------------------------------
(* TPReceive looks for a message in the process's queue ...                *)
Wanted(m, r) ==
  LET p == kmsg[m].RemotePort IN
  CASE r.ports = "AllPts" -> TRUE
    [] r.ports = "LocalPt" -> p = r.local
    [] r.ports = "DefaultPts" -> ~PortArray[p].Locked

(* Mutated: the search goes on to the last one                             *)
LookLast(q, r) ==
  LET waiting == ProcArray[q].MsgsWaiting
      found == {i \in 1 .. Len(waiting) : Wanted(waiting[i], r)}
      m == waiting[CHOOSE i \in found : \A j \in found : i >= j]
  IN  IF found # {}
      THEN /\ ProcArray' = [ProcArray EXCEPT ![q].MsgsWaiting = Without(@, m)]
           /\ stack' = [stack EXCEPT ![q] = <<[do |-> "Taken", kmsg |-> m, port |-> kmsg[m].RemotePort]>>]
      ELSE IF r.how = "Immediate"
      THEN /\ ProcArray' = [ProcArray EXCEPT ![q].State = "TIMED_OUT"]
           /\ Return(q)
      ELSE /\ ProcArray' = [ProcArray EXCEPT ![q].State = "MSG_WAIT"]
           /\ stack' = [stack EXCEPT ![q] = <<[do |-> "MsgWait", for |-> r, how |-> r.how,
                                                      signalled |-> FALSE]>>]

Look(q, r) ==
  LET waiting == ProcArray[q].MsgsWaiting
      found == {i \in 1 .. Len(waiting) : Wanted(waiting[i], r)}
      m == waiting[CHOOSE i \in found : \A j \in found : i <= j]
  IN  IF found # {}
      THEN /\ ProcArray' = [ProcArray EXCEPT ![q].MsgsWaiting = Without(@, m)]
           /\ stack' = [stack EXCEPT ![q] = <<[do |-> "Taken", kmsg |-> m, port |-> kmsg[m].RemotePort]>>]
      ELSE IF r.how = "Immediate"
      THEN /\ ProcArray' = [ProcArray EXCEPT ![q].State = "TIMED_OUT"]
           /\ Return(q)
      ELSE /\ ProcArray' = [ProcArray EXCEPT ![q].State = "MSG_WAIT"]
           /\ stack' = [stack EXCEPT ![q] = <<[do |-> "MsgWait", for |-> r, how |-> r.how,
                                                      signalled |-> FALSE]>>]

TPReceive(r) == /\ Idle(r.proc)
                /\ Look(r.proc, [r EXCEPT !.local = FastLTran(r.proc, @)])
                /\ UNCHANGED <<PortArray, kmsg, FreeKMsgQ, FreePortQ, FreeProcQ>>

(* ... again after each wait ...                                           *)
LookAgain(q) == /\ At(q, "MsgWait") /\ ProcArray[q].State = "NOT_WAITING"
                /\ Look(q, Top(q).for)
                /\ UNCHANGED <<PortArray, kmsg, FreeKMsgQ, FreePortQ, FreeProcQ>>

(* ... that was not timed out or interrupted.                              *)
GiveUp(q) == /\ At(q, "MsgWait") /\ Ended(q)
             /\ Return(q)
             /\ UNCHANGED <<PortArray, ProcArray, kmsg, FreeKMsgQ, FreePortQ, FreeProcQ>>

(* The process's lock was let go; now with the port's one message moves up *)
(* from the secondary queue, to the queue of the process that receives.    *)
MoveUp(q) ==
  LET m == Top(q).kmsg  p == Top(q).port  more == PortArray[p].SecondaryMsgQ IN
  /\ At(q, "Taken")
  /\ PortArray' = [PortArray EXCEPT ![p].NumQueued = IF kmsg[m].emerg THEN @ ELSE @ - 1,
                                    ![p].SecondaryMsgQ = IF more = <<>> THEN @ ELSE Tail(@)]
  /\ ProcArray' = IF more = <<>> THEN ProcArray
                  ELSE [ProcArray EXCEPT ![q].MsgsWaiting = Append(@, Head(more))]
  /\ Then(q, <<Frame(IF kmsg[m].What = "DONT_WAKE" THEN "CopyOut" ELSE "Answer", m)>>)
  /\ UNCHANGED <<kmsg, FreeKMsgQ, FreePortQ, FreeProcQ>>

(* the sender is woken, or told that it may send again                     *)
Answer(q) ==
  LET m == Top(q).kmsg  who == kmsg[m].WakeupProc IN
  /\ At(q, "Answer")
  /\ \/ /\ kmsg[m].What = "WAKE_ME"
        /\ ProcArray' = IPCWakeup(ProcArray, who)
        /\ kmsg' = [kmsg EXCEPT ![m].What = "DONT_WAKE"]
        /\ Then(q, <<Frame("CopyOut", m)>>)
        /\ UNCHANGED PortArray
     \/ /\ kmsg[m].What = "SEND_ACK"
        /\ SendAcknowledge(q, m)
        /\ Then(q, <<Notice(who, "M_MsgAccepted", kmsg[m].RemotePort), Frame("CopyOut", m)>>)
        /\ UNCHANGED ProcArray
  /\ UNCHANGED <<FreeKMsgQ, FreePortQ, FreeProcQ>>

(* Mutated: the range of types that are rights begins too late             *)
CopyOutReceive(q) ==
  LET m == Top(q).kmsg IN
  /\ At(q, "CopyOut")
  /\ FastGTrans(q, {kmsg[m].LocalPort, kmsg[m].RemotePort})
  /\ Then(q, IF kmsg[m].type \in {"none", "TypePtOwnership"} THEN <<Frame("Release", m)>>
             ELSE <<[do |-> "GTran", type |-> kmsg[m].type, port |-> kmsg[m].port], Frame("Release", m)>>)
  /\ UNCHANGED <<ProcArray, kmsg, FreeKMsgQ, FreePortQ, FreeProcQ>>

(* the receiver gets send rights to the ports of the message's header, and *)
(* what right is in its body; but it may have no room for the message, or  *)
(* an address for it that is wrong, which is found out before the body is  *)
(* looked at: for a simple message even before the header is               *)
CopyOut(q) ==
  LET m == Top(q).kmsg
      header == FastGTrans(q, {kmsg[m].LocalPort, kmsg[m].RemotePort})
  IN  /\ At(q, "CopyOut")
      /\ \/ /\ header
            /\ Then(q, IF kmsg[m].type = "none" THEN <<Frame("Release", m)>>
                       ELSE <<[do |-> "GTran", type |-> kmsg[m].type, port |-> kmsg[m].port],
                              Frame("Release", m)>>)
         \/ /\ [proc |-> q, type |-> kmsg[m].type] \in Cramped
            /\ header \/ (kmsg[m].type = "none" /\ UNCHANGED PortArray)
            /\ Then(q, <<Frame("Release", m)>>)
      /\ UNCHANGED <<ProcArray, kmsg, FreeKMsgQ, FreePortQ, FreeProcQ>>

-----------------------------------------------------------------------------
Sleeping(q) == /\ At(q, "FullWait") \/ At(q, "MsgWait")
               /\ ProcArray[q].State \in Waiting /\ ~Top(q).signalled

(* asleepexpire, for a wait with a time                                    *)
asleepexpire(q) ==
  /\ Sleeping(q) /\ Top(q).how = "Timed"
  /\ ProcArray' = [ProcArray EXCEPT ![q].State = "TIMED_OUT"]
  /\ UNCHANGED <<PortArray, kmsg, FreeKMsgQ, FreePortQ, FreeProcQ, stack>>

(* a signal makes a waiting process runnable and leaves State as it is; it *)
(* may be woken yet before it looks                                        *)
Interrupt(q) ==
  /\ q \in Signalled /\ Sleeping(q)
  /\ Then(q, <<[Top(q) EXCEPT !.signalled = TRUE]>>)
  /\ UNCHANGED <<PortArray, ProcArray, kmsg, FreeKMsgQ, FreePortQ, FreeProcQ>>

(* TPLockPorts, for one port                                               *)
TPLockPorts(l) ==
  /\ Idle(l.proc) /\ l.proc \in PortArray[l.port].Senders
  /\ PortArray[l.port].Receiver = l.proc
  /\ PortArray' = [PortArray EXCEPT ![l.port].Locked = ~@]
  /\ UNCHANGED <<ProcArray, kmsg, FreeKMsgQ, FreePortQ, FreeProcQ, stack>>

(* SetBackLog takes no lock and moves no message                           *)
SetBackLog(b) ==
  /\ Idle(b.proc)
  /\ PortArray[b.port].Receiver = b.proc
  /\ PortArray' = [PortArray EXCEPT ![b.port].Backlog = b.backlog]
  /\ UNCHANGED <<ProcArray, kmsg, FreeKMsgQ, FreePortQ, FreeProcQ, stack>>

-----------------------------------------------------------------------------
(* the system calls a process may make                                     *)
Calls == \/ \E s \in Sends : TPSend(s)
         \/ \E r \in Receives : TPReceive(r)
         \/ \E d \in Deallocates : DeallocatePort(d.proc, d.port)
         \/ \E l \in Locks : TPLockPorts(l)
         \/ \E b \in Backlogs : SetBackLog(b)
         \/ \E q \in Allocators : AllocatePort(q, ActualDefaultBacklog)
         \/ \E q \in Forkers : Activate(q, ActualDefaultBacklog)
         \/ \E q \in Mortals : Suicide(q)

(* what a process in a call does next                                      *)
Proceed(q) == \/ PortSteps(q)
              \/ LTran(q) \/ PostNowhere(q) \/ Post(q) \/ PostRefused(q) \/ PostLater(q)
              \/ Sent(q) \/ Withdraw(q) \/ LookAgain(q) \/ GiveUp(q)
              \/ MoveUp(q) \/ Answer(q) \/ CopyOut(q)

Next == Calls \/ \E q \in Procs : Proceed(q) \/ asleepexpire(q) \/ Interrupt(q)

Spec == Init /\ [][Next]_ipc
(* a process in a call goes on, and one that received goes on to           *)
FairSpec == /\ Spec
            /\ \A q \in Procs : WF_ipc(Proceed(q))
            /\ \A r \in Receives : SF_ipc(TPReceive(r))

-----------------------------------------------------------------------------
(* Properties.                                                             *)

(* Every record and frame is of its kind.                                  *)
Frames ==
  [do : {"LTran", "QueueMsg", "Release", "Answer", "CopyOut"}, kmsg : KMsgs]
  \cup [do : {"Post"}, kmsg : KMsgs, how : {"Wait", "Timed", "DontWait", "Reply"}]
  \cup [do : {"FullWait"}, kmsg : KMsgs, port : Ports, how : {"Wait", "Timed"}, signalled : BOOLEAN]
  \cup [do : {"MsgWait"}, for : Receives \cup {[r EXCEPT !.local = NullPort] : r \in Receives},
         how : {"Wait", "Timed"}, signalled : BOOLEAN]
  \cup [do : {"Taken"}, kmsg : KMsgs, port : Ports]
  \cup [do : {"GTran"}, type : Rights, port : Ports]
  \cup [do : {"GiveOwnership", "GiveReceiveRights"}, port : Ports, to : AllProcs]
  \cup [do : {"IPCWakeup", "WakeForMsg"}, to : AllProcs]
  \cup [do : {"SendKernelMsg", "PackMsg"}, to : Procs, id : IDs, port : Ports]
  \cup [do : {"RemPort", "DelPort"}, port : Ports]
  \cup [do : {"Notify"}, port : Ports, next : 1 .. NumProcs]
  \cup [do : {"Scan"}, next : 1 .. NumPorts, haveports : BOOLEAN]

Members(s) == {s[i] : i \in 1 .. Len(s)}

TypeOK ==
  /\ \A p \in Ports :
       /\ PortArray[p].Receiver \in AllProcs /\ PortArray[p].Owner \in AllProcs
       /\ PortArray[p].Senders \subseteq Procs /\ PortArray[p].Backlog \in Nat
       /\ PortArray[p].NumQueued \in Nat /\ Members(PortArray[p].SecondaryMsgQ) \subseteq KMsgs
  /\ \A q \in AllProcs :
       /\ ProcArray[q].State \in {"NOT_WAITING", "TIMED_OUT"} \cup Waiting
       /\ ProcArray[q].DataPort \in Ports \cup {NullPort}
       /\ Members(ProcArray[q].MsgsWaiting) \subseteq KMsgs
  /\ \A m \in KMsgs : kmsg[m].ID \in IDs /\ kmsg[m].type \in Rights
  /\ FreeKMsgQ \subseteq KMsgs
  /\ \A q \in Procs : Members(stack[q]) \subseteq Frames

(* Nothing is lost and nothing is there twice, whatever moves between      *)
(* queues and whatever port or process goes away.  A kmsg structure is     *)
(* free, in one queue once, or in the hands of one process; a port is in   *)
(* use, free, or one call is about to make it free.                        *)
Holding == {"LTran", "Post", "QueueMsg", "Release", "Taken", "Answer", "CopyOut"}
HeldBy(m, q) == \E i \in 1 .. Len(stack[q]) : stack[q][i].do \in Holding /\ stack[q][i].kmsg = m
Queue(s, name) == {<<name, i, s[i]>> : i \in 1 .. Len(s)}
Places(m) ==
  LET calls == {<<"call", q>> : q \in {r \in Procs : HeldBy(m, r)}}
      primary == UNION {{y \in Queue(ProcArray[q].MsgsWaiting, <<"primary", q>>) : y[3] = m} : q \in AllProcs}
      secondary == UNION {{y \in Queue(PortArray[p].SecondaryMsgQ, <<"secondary", p>>) : y[3] = m} : p \in Ports}
      free == {<<"free">> : y \in FreeKMsgQ \cap {m}}
  IN  calls \cup primary \cup secondary \cup free
KMsgInOnePlace(m) == Cardinality(Places(m)) = 1
PortInOnePlace(p) ==
  LET ends == {q \in Procs : \E i \in 1 .. Len(stack[q]) :
                               stack[q][i].do = "Notify" /\ stack[q][i].port = p}
      free == {i \in 1 .. Len(FreePortQ) : FreePortQ[i] = p}
  IN  Cardinality(ends) + Cardinality(free) = IF PortArray[p].InUse THEN 0 ELSE 1
InOnePlace == (\A m \in KMsgs : KMsgInOnePlace(m)) /\ (\A p \in Ports : PortInOnePlace(p))

(* NumQueued is the number of messages at the port: those in its           *)
(* receiver's queue, those in the secondary queue, and those taken out of  *)
(* a queue by a receive that does not have the port's lock yet.  Receives, *)
(* withdrawn sends and moved rights change it each on their own.           *)
TakenFrom(p) == {m \in KMsgs : \E q \in Procs : At(q, "Taken") /\ Top(q).kmsg = m /\ Top(q).port = p}
NumQueuedExact ==
  \A p \in Ports : PortArray[p].InUse =>
    LET here == Members(Primary(p)) \cup Members(PortArray[p].SecondaryMsgQ) \cup TakenFrom(p)
    IN  PortArray[p].NumQueued = Cardinality({m \in here : ~kmsg[m].emerg})

(* Messages move up from a secondary queue only when the port is received  *)
(* from, so a message waiting there needs one before it that will be: in   *)
(* the receiver's queue, or just taken.                                    *)
SecondaryMovesUp ==
  \A p \in Ports : PortArray[p].InUse /\ PortArray[p].SecondaryMsgQ # <<>> =>
                     Primary(p) # <<>> \/ TakenFrom(p) # {}

(* Who sleeps is remembered.  The message of a sender that sleeps because  *)
(* its port is full still exists and says whom to wake; a process that     *)
(* sleeps for a message has none that it wants, unless somebody is about   *)
(* to wake it.                                                             *)
SleeperRemembered ==
  \A q \in Procs : Sleeping(q) =>
    /\ At(q, "FullWait") =>
         LET m == kmsg[Top(q).kmsg] IN
         Top(q).kmsg \notin FreeKMsgQ /\ m.What = "WAKE_ME" /\ m.WakeupProc = q
    /\ At(q, "MsgWait") =>
         \/ \A m \in Members(ProcArray[q].MsgsWaiting) : ~Wanted(m, Top(q).for)
         \/ \E r \in Procs : (At(r, "WakeForMsg") \/ At(r, "IPCWakeup")) /\ Top(r).to = q

(* A right that no process has because it is in transit is on its way: in  *)
(* a message that will be received, or in the hands of a call.             *)
Carries(right, field) ==
  \A p \in Ports : PortArray[p].InUse /\ PortArray[p][field] = RIGHTS_IN_TRANSIT =>
    \/ \E m \in KMsgs \ FreeKMsgQ : kmsg[m].type \in {right, "TypePtAll"} /\ kmsg[m].port = p
    \/ \E q \in Procs : \E i \in 1 .. Len(stack[q]) :
         LET f == stack[q][i] IN
         \/ f.do = "GTran" /\ f.port = p /\ f.type \in {right, "TypePtAll"}
         \/ f.do = (IF field = "Owner" THEN "GiveOwnership" ELSE "GiveReceiveRights") /\ f.port = p
TransitCarried == Carries("TypePtReceive", "Receiver") /\ Carries("TypePtOwnership", "Owner")

(* unxIPCSuicide comes to its end, though it goes over the ports until it  *)
(* finds none left that the process may send to, while others receive what *)
(* it has sent: their acknowledgments give it send rights again, to ports  *)
(* it has done with, and are sent to a process that is not active any more.*)
ExitEnds == \A q \in Mortals : ~ProcArray[q].Active /\ stack[q] # <<>> ~> stack[q] = <<>>

(* A sender that sleeps on a full port is woken if the port's messages are *)
(* received, or when the port goes away.                                   *)
SendEnds == \A q \in {s.proc : s \in Sends} : At(q, "FullWait") ~> ~At(q, "FullWait")

(* A port is destroyed only when no other process that is alive has a      *)
(* right to it, although what RemPort saw may not be so any more when      *)
(* DelPort runs, and the port may be another one by then.                  *)
NobodysPortDestroyed ==
  [][\A p \in Ports : \A q \in Procs :
       At(q, "DelPort") /\ Top(q).port = p /\ PortArray[p].InUse /\ ~PortArray'[p].InUse =>
         \A r \in {PortArray[p].Receiver, PortArray[p].Owner} \cap Procs :
           r = q \/ ~ProcArray[r].Active]_ipc

(* A port is one queue: a first-in, first-out queue in which emergency     *)
(* messages go first, whichever of the two queues of the code a message is *)
(* in and whoever holds the receive right.                                 *)
Abstract == INSTANCE AbstractPorts WITH
  open <- {p \in Ports : PortArray[p].InUse},
  urgent <- {m \in KMsgs : kmsg[m].emerg},
  givenUp <- {<<q, Top(q).kmsg>> : q \in {r \in Procs : At(r, "FullWait") /\ Ended(r)}},
  pending <- [p \in Ports |-> IF PortArray[p].InUse
                              THEN Primary(p) \o PortArray[p].SecondaryMsgQ ELSE <<>>]
AbsSpec == Abstract!Spec
=============================================================================
