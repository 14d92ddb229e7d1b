------------------------------- MODULE Ports -------------------------------
(***************************************************************************)
(* Ports and the rights to them, accent/vmipc.c: how a port is made, how   *)
(* its receive right and ownership pass from process to process, how the   *)
(* kernel tells processes of it, and how a port and a process come to      *)
(* their end.  Messages.tla has msg_send and msg_receive.                  *)
(*                                                                         *)
(* These routines call one another with no lock held; each piece that runs *)
(* under a port's lock (and, inside it, a process's) is one action, and    *)
(* what is left of the calls of a process is a stack of frames, the piece  *)
(* to execute next first.                                                  *)
(***************************************************************************)
EXTENDS Queues, FiniteSets

CONSTANTS NumProcs,       \* entries of ProcArray
          NumPorts,       \* entries of PortArray, 0 being NullPort
          KMsgs           \* the kmsg structures there are

NullPort == 0
Ports == 1 .. NumPorts - 1

(* kern_ipc.h: 0 and 1 are the kernel and the pager, the last two entries  *)
(* stand for rights that no process has                                    *)
RIGHTS_IN_TRANSIT == NumProcs - 1
NO_PROCESS        == NumProcs - 2
LAST_USED_PROCESS == NumProcs - 3
Procs    == 2 .. LAST_USED_PROCESS
AllProcs == Procs \cup {NO_PROCESS, RIGHTS_IN_TRANSIT}

ASSUME PortsAssumption == /\ NumProcs \in Nat /\ NumProcs >= 4 /\ NumPorts \in Nat \ {0}
                          /\ IsFiniteSet(KMsgs)

VARIABLES
  PortArray,    \* the port records
  ProcArray,    \* the process records; MsgsWaiting is the primary queue
  kmsg,         \* the contents of kmsg structures
  FreeKMsgQ, FreePortQ, FreeProcQ,
  stack         \* stack[q]: what q's calls into the kernel have still to do

ipc == <<PortArray, ProcArray, kmsg, FreeKMsgQ, FreePortQ, FreeProcQ, stack>>

Rights == {"none", "TypePt", "TypePtReceive", "TypePtOwnership", "TypePtAll"}
IDs == {"user", "M_PortDeleted", "M_ReceiveRights", "M_OwnershipRights", "M_MsgAccepted"}

(* a kmsg: where it goes, the sender's own port in its header, whether it  *)
(* is an emergency message, the right to a port in its body, and what to   *)
(* do for the sender when it is received                                   *)
Message(id, to, local, emerg, type, port) ==
  [ID |-> id, RemotePort |-> to, LocalPort |-> local, emerg |-> emerg,
   type |-> type, port |-> port, What |-> "DONT_WAKE", WakeupProc |-> NO_PROCESS]
NoMessage == Message("user", NullPort, NullPort, FALSE, "none", NullPort)

(* s without the message m                                                 *)
Without(s, m) == Those(s, KMsgs \ {m})
InSeq(m, s) == \E i \in 1 .. Len(s) : s[i] = m

(* a port's messages in its receiver's queue                               *)
MsgsTo(p) == {m \in KMsgs : kmsg[m].RemotePort = p}
Primary(p) == Those(ProcArray[PortArray[p].Receiver].MsgsWaiting, MsgsTo(p))

Running(q) == ProcArray[q].Active /\ stack[q] # <<>>
Top(q) == Head(stack[q])
At(q, do) == stack[q] # <<>> /\ Top(q).do = do

(* q's piece ends and leaves frames to be executed next; or its whole call *)
Then(q, frames) == stack' = [stack EXCEPT ![q] = frames \o Tail(@)]
Return(q) == stack' = [stack EXCEPT ![q] = <<>>]

Frame(do, m) == [do |-> do, kmsg |-> m]
Give(right, p, to) == [do |-> right, port |-> p, to |-> to]
Notice(to, id, p) == [do |-> "SendKernelMsg", to |-> to, id |-> id, port |-> p]
Delete(p) == [do |-> "DelPort", port |-> p]

(* IPCWakeup                                                               *)
Waiting == {"MSG_WAIT", "FULL_WAIT"}

(* Mutated: senders are not woken                                          *)
IPCWakeupReceivers(procs, q) ==
  IF procs[q].State = "MSG_WAIT" THEN [procs EXCEPT ![q].State = "NOT_WAITING"] ELSE procs

IPCWakeup(procs, q) ==
  IF procs[q].State \in Waiting THEN [procs EXCEPT ![q].State = "NOT_WAITING"] ELSE procs

(* KMsgDeallocateAll, MKMsgFree: the structure is free again; rights to    *)
(* ports in its body are not looked at                                     *)
Free(m) == /\ FreeKMsgQ' = FreeKMsgQ \cup {m}
           /\ kmsg' = [kmsg EXCEPT ![m] = NoMessage]

(* MKMsgAllocate takes a free structure or memory for a new one: any       *)
Allocate(m, contents) == /\ m \in FreeKMsgQ
                         /\ FreeKMsgQ' = FreeKMsgQ \ {m}
                         /\ kmsg' = [kmsg EXCEPT ![m] = contents]

(* FastGTran: q comes to have send rights; and RemPort takes them away     *)
FastGTran(q, p) == PortArray' = [PortArray EXCEPT ![p].Senders = @ \cup {q}]

(* the same for the ports of a set, of which it passes over NullPort       *)
FastGTrans(q, ports) ==
  PortArray' = [p \in Ports |-> IF p \in ports THEN [PortArray[p] EXCEPT !.Senders = @ \cup {q}]
                                ELSE PortArray[p]]

(* Mutated: never                                                          *)
ForgetNever(q, p) == UNCHANGED PortArray

Forget(q, p) == PortArray' = [PortArray EXCEPT ![p].Senders = @ \ {q}]

-----------------------------------------------------------------------------
(* NewPort: the port's record, its receiver and owner being q              *)
NewPort(q, backlog) ==
  [InUse |-> TRUE, Locked |-> FALSE, Backlog |-> backlog, Receiver |-> q, Owner |-> q,
   SecondaryMsgQ |-> <<>>, NumQueued |-> 0, Senders |-> {q}]

(* AllocatePort, for the process itself                                    *)
AllocatePort(q, backlog) ==
  /\ ProcArray[q].Active /\ stack[q] = <<>> /\ FreePortQ # <<>>
  /\ PortArray' = [PortArray EXCEPT ![Head(FreePortQ)] = NewPort(q, backlog)]
  /\ FreePortQ' = Tail(FreePortQ)
  /\ UNCHANGED <<ProcArray, kmsg, FreeKMsgQ, FreeProcQ, stack>>

(* unxIPCActivate, called by a process that forks.  When there is no port  *)
(* left NewPort says so, and the process has the null port for a data port.*)
Activate(parent, backlog) ==
  LET q == Head(FreeProcQ)
      p == IF FreePortQ = <<>> THEN NullPort ELSE Head(FreePortQ)
  IN  /\ ProcArray[parent].Active /\ stack[parent] = <<>> /\ FreeProcQ # <<>>
      /\ ProcArray' = [ProcArray EXCEPT ![q] =
                         [MsgsWaiting |-> <<>>, Active |-> TRUE, State |-> "NOT_WAITING", DataPort |-> p]]
      /\ FreeProcQ' = Tail(FreeProcQ)
      /\ \/ /\ p \in Ports
            /\ PortArray' = [PortArray EXCEPT ![p] = NewPort(q, backlog)]
            /\ FreePortQ' = Tail(FreePortQ)
         \/ p = NullPort /\ UNCHANGED <<PortArray, FreePortQ>>
      /\ UNCHANGED <<kmsg, FreeKMsgQ, stack>>

-----------------------------------------------------------------------------
(* GiveOwnership and GiveReceiveRights.  The messages follow the receive   *)
(* right to the new receiver's queue; a port's lock is held all the while. *)
GiveOwnership(q) ==
  LET f == Top(q) IN
  /\ At(q, "GiveOwnership")
  /\ PortArray' = [PortArray EXCEPT ![f.port].Owner = f.to]
  /\ Then(q, <<>>)
  /\ UNCHANGED <<ProcArray, kmsg, FreeKMsgQ, FreePortQ, FreeProcQ>>

GiveReceiveRights(q) ==
  LET f == Top(q)
      old == PortArray[f.port].Receiver
      left == [ProcArray EXCEPT ![old].MsgsWaiting = Those(@, KMsgs \ MsgsTo(f.port))]
  IN  /\ At(q, "GiveReceiveRights")
      /\ ProcArray' = [left EXCEPT ![f.to].MsgsWaiting = @ \o Primary(f.port)]
      /\ PortArray' = [PortArray EXCEPT ![f.port].Receiver = f.to]
      /\ Then(q, <<[do |-> "IPCWakeup", to |-> f.to]>>)
      /\ UNCHANGED <<kmsg, FreeKMsgQ, FreePortQ, FreeProcQ>>

(* the end of GiveReceiveRights, after the locks were let go               *)
WakeReceiver(q) ==
  /\ At(q, "IPCWakeup")
  /\ ProcArray' = IPCWakeup(ProcArray, Top(q).to)
  /\ Then(q, <<>>)
  /\ UNCHANGED <<PortArray, kmsg, FreeKMsgQ, FreePortQ, FreeProcQ>>

(* GTran: a received message gives q a right to a port                     *)
GTran(q) ==
  LET f == Top(q)  p == f.port
      Grant(other, field, id) ==    \* the other right, if no process has it
        IF PortArray[p][field] # NO_PROCESS THEN <<>>
        ELSE IF ProcArray[q].Active THEN <<Give(other, p, q)>>
        ELSE <<Give(other, p, RIGHTS_IN_TRANSIT), Notice(q, id, p)>>
  IN  /\ At(q, "GTran")
      /\ FastGTran(q, p)
      /\ Then(q, CASE f.type = "TypePtOwnership" ->
                        Append(Grant("GiveReceiveRights", "Receiver", "M_ReceiveRights"),
                               Give("GiveOwnership", p, q))
                   [] f.type = "TypePtReceive" ->
                        Append(Grant("GiveOwnership", "Owner", "M_OwnershipRights"),
                               Give("GiveReceiveRights", p, q))
                   [] f.type = "TypePtAll" ->
                        <<Give("GiveOwnership", p, q), Give("GiveReceiveRights", p, q)>>
                   [] OTHER -> <<>>)
      /\ UNCHANGED <<ProcArray, kmsg, FreeKMsgQ, FreePortQ, FreeProcQ>>

-----------------------------------------------------------------------------
(* SendKernelMsg looks whether the process is active, and with its lock    *)
(* released and taken again what its data port is; ...                     *)
TypeOf(id) == CASE id = "M_ReceiveRights" -> "TypePtReceive"
                [] id = "M_OwnershipRights" -> "TypePtOwnership"
                [] OTHER -> "none"

SendKernelMsg(q) ==
  LET f == Top(q) IN
  /\ At(q, "SendKernelMsg")
  /\ Then(q, IF ProcArray[f.to].Active THEN <<[f EXCEPT !.do = "PackMsg"]>> ELSE <<>>)
  /\ UNCHANGED <<PortArray, ProcArray, kmsg, FreeKMsgQ, FreePortQ, FreeProcQ>>

PackMsg(q) ==
  LET f == Top(q)  to == ProcArray[f.to].DataPort IN
  /\ At(q, "PackMsg")
  /\ \/ /\ to = NullPort                 \* QueueMsg: NotAPort
        /\ Then(q, <<>>)
        /\ UNCHANGED <<kmsg, FreeKMsgQ>>
     \/ /\ to # NullPort
        /\ \E m \in FreeKMsgQ :
             /\ Allocate(m, Message(f.id, to, NullPort, TRUE, TypeOf(f.id), f.port))
             /\ Then(q, <<Frame("QueueMsg", m)>>)
  /\ UNCHANGED <<PortArray, ProcArray, FreePortQ, FreeProcQ>>

(* ... with QueueMsg: an emergency message goes to the head of the queue   *)
(* and is not counted                                                      *)
Queued(m, p) ==
  [ProcArray EXCEPT ![PortArray[p].Receiver].MsgsWaiting =
                      IF kmsg[m].emerg THEN <<m>> \o @ ELSE Append(@, m)]

(* Mutated: the wrong messages are counted                                 *)
CountedEmergencies(m, p) ==
  [PortArray EXCEPT ![p].NumQueued = IF kmsg[m].emerg THEN @ + 1 ELSE @]

Counted(m, p) ==
  [PortArray EXCEPT ![p].NumQueued = IF kmsg[m].emerg THEN @ ELSE @ + 1]

(* Mutated: one too few                                                    *)
RoomLess(m, p) == PortArray[p].NumQueued + 1 < PortArray[p].Backlog \/ kmsg[m].emerg

Room(m, p) == PortArray[p].NumQueued < PortArray[p].Backlog \/ kmsg[m].emerg

QueueMsg(q) ==
  LET m == Top(q).kmsg  p == kmsg[m].RemotePort IN
  /\ At(q, "QueueMsg")
  /\ \/ /\ ~PortArray[p].InUse
        /\ Free(m)
        /\ Then(q, <<>>)
        /\ UNCHANGED <<PortArray, ProcArray>>
     \/ /\ PortArray[p].InUse
        /\ ProcArray' = Queued(m, p)
        /\ PortArray' = Counted(m, p)
        /\ Then(q, <<[do |-> "WakeForMsg", to |-> PortArray[p].Receiver]>>)
        /\ UNCHANGED <<kmsg, FreeKMsgQ>>
  /\ UNCHANGED <<FreePortQ, FreeProcQ>>

(* Mutated: wakes the wrong sort of waiter                                 *)
WakeForMsgSenders(q) ==
  LET to == Top(q).to IN
  /\ At(q, "WakeForMsg")
  /\ ProcArray' = IF ProcArray[to].State = "FULL_WAIT" THEN IPCWakeup(ProcArray, to) ELSE ProcArray
  /\ Then(q, <<>>)
  /\ UNCHANGED <<PortArray, kmsg, FreeKMsgQ, FreePortQ, FreeProcQ>>

(* QueueMsg lets the receiver's lock go, takes it again and looks          *)
WakeForMsg(q) ==
  LET to == Top(q).to IN
  /\ At(q, "WakeForMsg")
  /\ ProcArray' = IF ProcArray[to].State = "MSG_WAIT" THEN IPCWakeup(ProcArray, to) ELSE ProcArray
  /\ Then(q, <<>>)
  /\ UNCHANGED <<PortArray, kmsg, FreeKMsgQ, FreePortQ, FreeProcQ>>

-----------------------------------------------------------------------------
(* RemPort: process of gives up what rights it has to a port.  What is to  *)
(* be done is decided under the port's lock and done after.                *)
RemPort(q) ==
  LET p == Top(q).port  r == PortArray[p].Receiver  o == PortArray[p].Owner
      Released(other, id, right) ==      \* only the right of this name was q's
        IF other = RIGHTS_IN_TRANSIT THEN <<Give(right, p, NO_PROCESS)>>
        ELSE IF ProcArray[other].Active THEN <<Notice(other, id, p)>>
        ELSE <<Give(right, p, NO_PROCESS), Delete(p)>>
  IN  /\ At(q, "RemPort")
      /\ Forget(q, p)
      /\ Then(q, IF q \notin {r, o} THEN <<>>
                 ELSE IF r = o \/ NO_PROCESS \in {r, o} THEN <<Delete(p)>>
                 ELSE IF q = r THEN Released(o, "M_ReceiveRights", "GiveReceiveRights")
                 ELSE Released(r, "M_OwnershipRights", "GiveOwnership"))
      /\ UNCHANGED <<ProcArray, kmsg, FreeKMsgQ, FreePortQ, FreeProcQ>>

(* Mutated: forgets those in the secondary queue                           *)
DelPortPrimary(q) ==
  LET p == Top(q).port  r == PortArray[p].Receiver
      release == [i \in 1 .. Len(Primary(p)) |-> Frame("Release", Primary(p)[i])]
  IN  /\ At(q, "DelPort") /\ PortArray[p].InUse
      /\ PortArray' = [PortArray EXCEPT ![p].InUse = FALSE, ![p].SecondaryMsgQ = <<>>]
      /\ ProcArray' = [ProcArray EXCEPT ![r].MsgsWaiting = Those(@, KMsgs \ MsgsTo(p))]
      /\ Then(q, Append(release, [do |-> "Notify", port |-> p, next |-> 1]))
      /\ UNCHANGED <<kmsg, FreeKMsgQ, FreePortQ, FreeProcQ>>

(* DelPort: the messages queued at the port are set aside, ...             *)
DelPort(q) ==
  LET p == Top(q).port  r == PortArray[p].Receiver
      queued == Primary(p) \o PortArray[p].SecondaryMsgQ
      release == [i \in 1 .. Len(queued) |-> Frame("Release", queued[i])]
  IN  /\ At(q, "DelPort")
      /\ IF ~PortArray[p].InUse
         THEN Then(q, <<>>) /\ UNCHANGED <<PortArray, ProcArray>>
         ELSE /\ PortArray' = [PortArray EXCEPT ![p].InUse = FALSE, ![p].SecondaryMsgQ = <<>>]
              /\ ProcArray' = [ProcArray EXCEPT ![r].MsgsWaiting = Those(@, KMsgs \ MsgsTo(p))]
              /\ Then(q, Append(release, [do |-> "Notify", port |-> p, next |-> 1]))
      /\ UNCHANGED <<kmsg, FreeKMsgQ, FreePortQ, FreeProcQ>>

(* ... their senders are woken or told and they are destroyed, ...         *)
SendAcknowledge(q, m) ==
  /\ FastGTran(kmsg[m].WakeupProc, kmsg[m].RemotePort)
  /\ kmsg' = [kmsg EXCEPT ![m].What = "DONT_WAKE"]

Release(q) ==
  LET m == Top(q).kmsg IN
  /\ At(q, "Release")
  /\ \/ /\ kmsg[m].What = "SEND_ACK"
        /\ SendAcknowledge(q, m)
        /\ Then(q, <<Notice(kmsg[m].WakeupProc, "M_MsgAccepted", kmsg[m].RemotePort), Top(q)>>)
        /\ UNCHANGED <<ProcArray, FreeKMsgQ>>
     \/ /\ kmsg[m].What # "SEND_ACK"
        /\ ProcArray' = IF kmsg[m].What = "WAKE_ME" THEN IPCWakeup(ProcArray, kmsg[m].WakeupProc)
                        ELSE ProcArray
        /\ Free(m)
        /\ Then(q, <<>>)
        /\ UNCHANGED PortArray
  /\ UNCHANGED <<FreePortQ, FreeProcQ>>

(* ... the holders of send rights are told, one by one and with no lock,   *)
(* up to but not including the last process - each loses its right after   *)
(* it was told, when the loop goes on - and the port is free.              *)
Notify(q) ==
  LET p == Top(q).port  i == Top(q).next
      more == {j \in i .. LAST_USED_PROCESS - 1 : j \in PortArray[p].Senders}
      j == CHOOSE k \in more : \A l \in more : k <= l
  IN  /\ At(q, "Notify")
      /\ Forget(i - 1, p)
      /\ \/ /\ more # {}
            /\ Then(q, <<Notice(j, "M_PortDeleted", p), [Top(q) EXCEPT !.next = j + 1]>>)
            /\ UNCHANGED FreePortQ
         \/ /\ more = {}
            /\ FreePortQ' = Append(FreePortQ, p)
            /\ Then(q, <<>>)
      /\ UNCHANGED <<ProcArray, kmsg, FreeKMsgQ, FreeProcQ>>

-----------------------------------------------------------------------------
(* DeallocatePort: the message that asks for it carries a right to be      *)
(* deallocated, for which LTran calls RemPort                              *)
DeallocatePort(q, p) ==
  /\ ProcArray[q].Active /\ stack[q] = <<>> /\ q \in PortArray[p].Senders
  /\ stack' = [stack EXCEPT ![q] = <<[do |-> "RemPort", port |-> p]>>]
  /\ UNCHANGED <<PortArray, ProcArray, kmsg, FreeKMsgQ, FreePortQ, FreeProcQ>>

(* unxIPCSuicide goes over all ports until it finds none with its send     *)
(* right; then the process's record is free                                *)
Suicide(q) ==
  /\ ProcArray[q].Active /\ stack[q] = <<>>
  /\ ProcArray' = [ProcArray EXCEPT ![q].Active = FALSE, ![q].State = "NOT_WAITING"]
  /\ stack' = [stack EXCEPT ![q] = <<[do |-> "Scan", next |-> 1, haveports |-> FALSE]>>]
  /\ UNCHANGED <<PortArray, kmsg, FreeKMsgQ, FreePortQ, FreeProcQ>>

Scan(q) ==
  LET f == Top(q)  p == f.next IN
  /\ At(q, "Scan")
  /\ \/ /\ p \in Ports /\ PortArray[p].InUse /\ q \in PortArray[p].Senders
        /\ Then(q, <<[do |-> "RemPort", port |-> p],
                     [f EXCEPT !.next = p + 1, !.haveports = TRUE]>>)
        /\ UNCHANGED FreeProcQ
     \/ /\ p \in Ports /\ ~(PortArray[p].InUse /\ q \in PortArray[p].Senders)
        /\ Then(q, <<[f EXCEPT !.next = p + 1]>>)
        /\ UNCHANGED FreeProcQ
     \/ /\ p \notin Ports /\ f.haveports
        /\ Then(q, <<[f EXCEPT !.next = 1, !.haveports = FALSE]>>)
        /\ UNCHANGED FreeProcQ
     \/ /\ p \notin Ports /\ ~f.haveports
        /\ FreeProcQ' = Append(FreeProcQ, q)
        /\ Then(q, <<>>)
  /\ UNCHANGED <<PortArray, ProcArray, kmsg, FreeKMsgQ, FreePortQ>>

(* whatever a process's calls have left to do here                         *)
PortSteps(q) ==
  \/ GiveOwnership(q) \/ GiveReceiveRights(q) \/ WakeReceiver(q) \/ GTran(q)
  \/ SendKernelMsg(q) \/ PackMsg(q) \/ QueueMsg(q) \/ WakeForMsg(q)
  \/ RemPort(q) \/ DelPort(q) \/ Release(q) \/ Notify(q) \/ Scan(q)
=============================================================================
