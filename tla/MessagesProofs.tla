--------------------------- MODULE MessagesProofs ---------------------------
(***************************************************************************)
(* Proofs that no message structure and no port is ever in two places, and *)
(* that none is lost unless the record of a process is used again with     *)
(* messages in it.  One lemma shows of each action of Ports and Messages   *)
(* that it keeps MInv, the inductive invariant of MessagesInvariant.       *)
(***************************************************************************)
EXTENDS MessagesInvariant

(* GiveOwnership changes the owner and no queue.                           *)
LEMMA GiveOwnershipKeeps ==
  ASSUME MInv, NEW q \in Procs, GiveOwnership(q)
  PROVE  Kept
<1>1. Top(q) \in Plain /\ Top(q).port \in Ports /\ Top(q).to \in AllProcs /\ stack[q] # <<>>
  BY TopIs, FrameIs DEF MInv, GiveOwnership, At, Holding, Lasts
<1>2. /\ PortArray' = [PortArray EXCEPT ![Top(q).port].Owner = Top(q).to]
      /\ Then(q, <<>>) /\ UNCHANGED <<ProcArray, kmsg, FreeKMsgQ, FreePortQ, FreeProcQ>>
  BY DEF GiveOwnership
<1>3. PortArray' \in [Ports -> PortRecords]
  BY <1>1, <1>2, OwnerIs DEF MInv
<1>4. \A p \in Ports : Second(p)' = Second(p) /\ PortArray'[p].InUse = PortArray[p].InUse
  BY <1>1, <1>2, OwnerIs DEF MInv
<1>5. stack' \in [Procs -> Seq(Frames)] => Typed'
  BY <1>2, <1>3 DEF MInv, Typed
<1>6. <<>> \in Seq(Plain)
  OBVIOUS
<1> QED
  BY <1>1, <1>2, <1>4, <1>5, <1>6, PlainStep DEF Inbox


(* IPCWakeup after GiveReceiveRights, and WakeForMsg after QueueMsg, wake  *)
(* somebody.                                                               *)
LEMMA WakeReceiverKeeps ==
  ASSUME MInv, NEW q \in Procs, WakeReceiver(q) \/ WakeForMsg(q)
  PROVE  Kept
<1>1. Top(q) \in Plain /\ Top(q).to \in AllProcs /\ stack[q] # <<>>
  BY TopIs, FrameIs DEF MInv, WakeReceiver, WakeForMsg, At, Holding, Lasts
<1>2. /\ ProcArray' \in {ProcArray, IPCWakeup(ProcArray, Top(q).to)}
      /\ Then(q, <<>>) /\ UNCHANGED <<PortArray, kmsg, FreeKMsgQ, FreePortQ, FreeProcQ>>
  BY DEF WakeReceiver, WakeForMsg
<1>3. ProcArray' \in [AllProcs -> ProcRecords]
  BY <1>1, <1>2, WakeupIs DEF MInv, Typed
<1>4. \A r \in AllProcs : /\ Inbox(r)' = Inbox(r) /\ ProcArray'[r].Active = ProcArray[r].Active
                          /\ ProcArray'[r].DataPort = ProcArray[r].DataPort
  BY <1>1, <1>2, WakeupIs DEF MInv, Inbox
<1>5. stack' \in [Procs -> Seq(Frames)] => Typed'
  BY <1>2, <1>3, <1>4 DEF MInv, Typed
<1>6. <<>> \in Seq(Plain)
  OBVIOUS
<1> QED
  BY <1>1, <1>2, <1>4, <1>5, <1>6, PlainStep DEF Second


(* GTran leaves frames that give rights and send a notice, which hold      *)
(* nothing.                                                                *)
LEMMA GTranFrames ==
  ASSUME MInv, NEW q \in Procs, GTran(q)
  PROVE  \E s \in Seq(Plain) : Then(q, s)
<1> DEFINE f == Top(q)
           p == f.port
           Grant(other, field, id) ==
             IF PortArray[p][field] # NO_PROCESS THEN <<>>
             ELSE IF ProcArray[q].Active THEN <<Give(other, p, q)>>
             ELSE <<Give(other, p, RIGHTS_IN_TRANSIT), Notice(q, id, p)>>
           s == CASE f.type = "TypePtOwnership" ->
                        Append(Grant("GiveReceiveRights", "Receiver", "M_ReceiveRights"),
                               Give("GiveOwnership", p, q))
                   [] f.type = "TypePtReceive" ->
                        Append(Grant("GiveOwnership", "Owner", "M_OwnershipRights"),
                               Give("GiveReceiveRights", p, q))
                   [] f.type = "TypePtAll" ->
                        <<Give("GiveOwnership", p, q), Give("GiveReceiveRights", p, q)>>
                   [] OTHER -> <<>>
<1>1. p \in Ports
  BY TopIs, FrameIs DEF MInv, GTran, At, Holding, Lasts
<1>2. Then(q, s)
  BY DEF GTran
<1>3. s \in Seq(Plain)
  <2>1. \A do \in {"GiveOwnership", "GiveReceiveRights"}, to \in AllProcs : Give(do, p, to) \in Plain
    BY <1>1, FramesMade DEF Plain, Give, Holding, Lasts
  <2>2. \A id \in IDs : Notice(q, id, p) \in Plain
    BY <1>1, FramesMade DEF Plain, Notice, Holding, Lasts
  <2>3. q \in AllProcs /\ RIGHTS_IN_TRANSIT \in AllProcs
    BY Numbers
  <2>4. ASSUME NEW do \in {"GiveOwnership", "GiveReceiveRights"}, NEW field,
               NEW id \in {"M_ReceiveRights", "M_OwnershipRights"}
        PROVE  Grant(do, field, id) \in Seq(Plain)
    BY <2>1, <2>2, <2>3 DEF IDs
  <2>5. \A do \in {"GiveOwnership", "GiveReceiveRights"} : Give(do, p, q) \in Plain
    BY <2>1, <2>3
  <2> HIDE DEF Grant
  <2> QED
    BY <2>4, <2>5, AppendProperties
<1> HIDE DEF s
<1> QED
  BY <1>2, <1>3


(* So GTran moves no message and no port.                                  *)
LEMMA GTranKeeps ==
  ASSUME MInv, NEW q \in Procs, GTran(q)
  PROVE  Kept
<1> DEFINE p == Top(q).port
<1>1. Top(q) \in Plain /\ p \in Ports /\ stack[q] # <<>>
  BY TopIs, FrameIs DEF MInv, GTran, At, Holding, Lasts
<1>2. FastGTran(q, p) /\ UNCHANGED <<ProcArray, kmsg, FreeKMsgQ, FreePortQ, FreeProcQ>>
  BY DEF GTran
<1>3. PortArray' = [PortArray EXCEPT ![p].Senders = PortArray[p].Senders \cup {q}]
  BY <1>2 DEF FastGTran
<1>4. PortArray[p].Senders \cup {q} \in SUBSET Procs
  BY <1>1 DEF MInv, Typed, PortRecords
<1>5. /\ PortArray' \in [Ports -> PortRecords]
      /\ \A x \in Ports : Second(x)' = Second(x) /\ PortArray'[x].InUse = PortArray[x].InUse
  BY <1>1, <1>3, <1>4, SendersIs DEF MInv
<1>6. stack' \in [Procs -> Seq(Frames)] => Typed'
  BY <1>2, <1>5 DEF MInv, Typed
<1>7. PICK s \in Seq(Plain) : Then(q, s)
  BY GTranFrames
<1> QED
  BY <1>1, <1>2, <1>5, <1>6, <1>7, PlainStep DEF Inbox


(* RemPort leaves frames that hold nothing either.                         *)
LEMMA RemPortFrames ==
  ASSUME MInv, NEW q \in Procs, RemPort(q)
  PROVE  \E s \in Seq(Plain) : Then(q, s)
<1> DEFINE p == Top(q).port
           r == PortArray[p].Receiver
           o == PortArray[p].Owner
           Released(other, id, right) ==
             IF other = RIGHTS_IN_TRANSIT THEN <<Give(right, p, NO_PROCESS)>>
             ELSE IF ProcArray[other].Active THEN <<Notice(other, id, p)>>
             ELSE <<Give(right, p, NO_PROCESS), Delete(p)>>
           s == IF q \notin {r, o} THEN <<>>
                 ELSE IF r = o \/ NO_PROCESS \in {r, o} THEN <<Delete(p)>>
                 ELSE IF q = r THEN Released(o, "M_ReceiveRights", "GiveReceiveRights")
                 ELSE Released(r, "M_OwnershipRights", "GiveOwnership")
<1>1. p \in Ports
  BY TopIs, FrameIs DEF MInv, RemPort, At, Holding, Lasts
<1>2. r \in AllProcs /\ o \in AllProcs
  BY <1>1 DEF MInv, Typed, PortRecords
<1>3. Then(q, s)
  BY DEF RemPort
<1>4. s \in Seq(Plain)
  <2>1. \A do \in {"GiveOwnership", "GiveReceiveRights"}, to \in AllProcs : Give(do, p, to) \in Plain
    BY <1>1, FramesMade DEF Plain, Give, Holding, Lasts
  <2>2. \A to \in Procs, id \in IDs : Notice(to, id, p) \in Plain
    BY <1>1, FramesMade DEF Plain, Notice, Holding, Lasts
  <2>3. Delete(p) \in Plain
    BY <1>1, FramesMade DEF Plain, Delete, Holding, Lasts
  <2>4. NO_PROCESS \in AllProcs
    BY Numbers
  <2>5. \A other \in AllProcs : ProcArray[other].Active => other \in Procs
    BY DEF MInv, Typed
  <2>6. ASSUME NEW do \in {"GiveOwnership", "GiveReceiveRights"}, NEW other \in AllProcs,
               NEW id \in {"M_ReceiveRights", "M_OwnershipRights"}
        PROVE  Released(other, id, do) \in Seq(Plain)
    BY <2>1, <2>2, <2>3, <2>4, <2>5 DEF IDs
  <2> HIDE DEF Released, r, o
  <2> QED
    BY <1>2, <2>3, <2>6
<1> HIDE DEF s
<1> QED
  BY <1>3, <1>4


(* So RemPort moves no message and no port.                                *)
LEMMA RemPortKeeps ==
  ASSUME MInv, NEW q \in Procs, RemPort(q)
  PROVE  Kept
<1> DEFINE p == Top(q).port
<1>1. Top(q) \in Plain /\ p \in Ports /\ stack[q] # <<>>
  BY TopIs, FrameIs DEF MInv, RemPort, At, Holding, Lasts
<1>2. Forget(q, p) /\ UNCHANGED <<ProcArray, kmsg, FreeKMsgQ, FreePortQ, FreeProcQ>>
  BY DEF RemPort
<1>3. PortArray' = [PortArray EXCEPT ![p].Senders = PortArray[p].Senders \ {q}]
  BY <1>2 DEF Forget
<1>4. PortArray[p].Senders \ {q} \in SUBSET Procs
  BY <1>1 DEF MInv, Typed, PortRecords
<1>5. /\ PortArray' \in [Ports -> PortRecords]
      /\ \A x \in Ports : Second(x)' = Second(x) /\ PortArray'[x].InUse = PortArray[x].InUse
  BY <1>1, <1>3, <1>4, SendersIs DEF MInv
<1>6. stack' \in [Procs -> Seq(Frames)] => Typed'
  BY <1>2, <1>5 DEF MInv, Typed
<1>7. PICK s \in Seq(Plain) : Then(q, s)
  BY RemPortFrames
<1> QED
  BY <1>1, <1>2, <1>5, <1>6, <1>7, PlainStep DEF Inbox


(* unxIPCSuicide's pass over the ports leaves plain frames.                *)
LEMMA ScanFrames ==
  ASSUME MInv, NEW q \in Procs, Scan(q)
  PROVE  \E s \in Seq(Plain) : Then(q, s)
<1> DEFINE f == Top(q)
           p == f.next
<1>1. f \in [do : {"Scan"}, next : 1 .. NumPorts, haveports : BOOLEAN]
  BY TopIs, FrameIs DEF MInv, Scan, At, Holding, Lasts
<1>3. PICK s : /\ Then(q, s)
               /\ \/ /\ p \in Ports
                     /\ s = <<[do |-> "RemPort", port |-> p],
                              [f EXCEPT !.next = p + 1, !.haveports = TRUE]>>
                  \/ p \in Ports /\ s = <<[f EXCEPT !.next = p + 1]>>
                  \/ s = <<[f EXCEPT !.next = 1, !.haveports = FALSE]>>
                  \/ s = <<>>
  BY DEF Scan
<1>5. p + 1 \in 1 .. NumPorts \/ p \notin Ports
  BY <1>1, PortsAssumption DEF Ports
<1>6. s \in Seq(Plain)
  <2> DEFINE Scans == [do : {"Scan"}, next : 1 .. NumPorts, haveports : BOOLEAN]
  <2>1. Scans \subseteq Plain
    BY DEF Plain, Holding, Lasts, Frames
  <2>2. p \in Ports => [do |-> "RemPort", port |-> p] \in Plain
    BY FramesMade DEF Plain, Holding, Lasts
  <2> HIDE DEF f, p
  <2>3. ASSUME NEW n \in 1 .. NumPorts, NEW b \in BOOLEAN
        PROVE  [f EXCEPT !.next = n, !.haveports = b] \in Scans /\ [f EXCEPT !.next = n] \in Scans
    BY <1>1
  <2> HIDE DEF Scans
  <2>4. [f EXCEPT !.next = 1, !.haveports = FALSE] \in Plain
    BY <2>1, <2>3, Numbers
  <2>5. p \in Ports => /\ [f EXCEPT !.next = p + 1] \in Plain
                       /\ [f EXCEPT !.next = p + 1, !.haveports = TRUE] \in Plain
    BY <1>5, <2>1, <2>3
  <2>6. \A x, y \in Plain : <<>> \in Seq(Plain) /\ <<x>> \in Seq(Plain) /\ <<x, y>> \in Seq(Plain)
    OBVIOUS
  <2> QED
    BY <1>3, <2>2, <2>4, <2>5, <2>6
<1> QED
  BY <1>3, <1>6


(* It moves nothing; at its end the process's record is free.              *)
LEMMA ScanKeeps ==
  ASSUME MInv, NEW q \in Procs, Scan(q)
  PROVE  Kept
<1>1. Top(q) \in Plain /\ stack[q] # <<>>
  BY TopIs DEF MInv, Scan, At, Holding, Lasts
<1>2. UNCHANGED <<PortArray, ProcArray, kmsg, FreeKMsgQ, FreePortQ>>
  BY DEF Scan
<1>3. FreeProcQ' \in Seq(Procs)
  <2>1. FreeProcQ' \in {FreeProcQ, Append(FreeProcQ, q)}
    BY DEF Scan
  <2>2. FreeProcQ \in Seq(Procs)
    BY DEF MInv, Typed
  <2> QED
    BY <2>1, <2>2, AppendProperties
<1>4. PICK s \in Seq(Plain) : Then(q, s)
  BY ScanFrames
<1>5. stack' \in [Procs -> Seq(Frames)] => Typed'
  BY <1>2, <1>3 DEF MInv, Typed
<1> QED
  BY <1>1, <1>2, <1>4, <1>5, PlainStep DEF Inbox, Second


(* A wait times out: State alone.                                          *)
LEMMA asleepexpireKeeps ==
  ASSUME MInv, NEW q \in Procs, asleepexpire(q)
  PROVE  Kept
<1>1. /\ ProcArray' = [ProcArray EXCEPT ![q].State = "TIMED_OUT"]
      /\ UNCHANGED <<PortArray, kmsg, FreeKMsgQ, FreePortQ, FreeProcQ, stack>>
  BY DEF asleepexpire
<1>2. /\ ProcArray' \in [AllProcs -> ProcRecords]
      /\ \A r \in AllProcs : /\ Inbox(r)' = Inbox(r)
                             /\ ProcArray'[r].Active = ProcArray[r].Active
                             /\ ProcArray'[r].DataPort = ProcArray[r].DataPort
  BY <1>1, StateIs, Numbers DEF MInv
<1>3. Typed' /\ Stacks'
  BY <1>1, <1>2 DEF MInv, Typed, Stacks
<1> QED
  BY <1>1, <1>2, <1>3, Quiet DEF Second


(* TPLockPorts changes Locked alone.                                       *)
LEMMA TPLockPortsKeeps ==
  ASSUME MInv, NEW l \in Locks, TPLockPorts(l)
  PROVE  Kept
<1>1. l.proc \in Procs /\ l.port \in Ports
  BY MessagesAssumption
<1>2. /\ PortArray' = [PortArray EXCEPT ![l.port].Locked = ~PortArray[l.port].Locked]
      /\ UNCHANGED <<ProcArray, kmsg, FreeKMsgQ, FreePortQ, FreeProcQ, stack>>
  BY DEF TPLockPorts
<1>3. /\ PortArray' \in [Ports -> PortRecords]
      /\ \A x \in Ports : Second(x)' = Second(x) /\ PortArray'[x].InUse = PortArray[x].InUse
  BY <1>1, <1>2, LockedIs DEF MInv
<1>4. Typed' /\ Stacks'
  BY <1>2, <1>3 DEF MInv, Typed, Stacks
<1> QED
  BY <1>1, <1>2, <1>3, <1>4, Quiet DEF Inbox


(* SetBackLog changes Backlog alone.                                       *)
LEMMA SetBackLogKeeps ==
  ASSUME MInv, NEW b \in Backlogs, SetBackLog(b)
  PROVE  Kept
<1>1. b.proc \in Procs /\ b.port \in Ports /\ b.backlog \in Nat
  BY MessagesAssumption
<1>2. /\ PortArray' = [PortArray EXCEPT ![b.port].Backlog = b.backlog]
      /\ UNCHANGED <<ProcArray, kmsg, FreeKMsgQ, FreePortQ, FreeProcQ, stack>>
  BY DEF SetBackLog
<1>3. /\ PortArray' \in [Ports -> PortRecords]
      /\ \A x \in Ports : Second(x)' = Second(x) /\ PortArray'[x].InUse = PortArray[x].InUse
  BY <1>1, <1>2, BacklogIs DEF MInv
<1>4. Typed' /\ Stacks'
  BY <1>2, <1>3 DEF MInv, Typed, Stacks
<1> QED
  BY <1>1, <1>2, <1>3, <1>4, Quiet DEF Inbox


(* DeallocatePort begins with RemPort.                                     *)
LEMMA DeallocatePortKeeps ==
  ASSUME MInv, NEW q \in Procs, NEW p \in Ports, DeallocatePort(q, p)
  PROVE  Kept
<1> DEFINE f == [do |-> "RemPort", port |-> p]
<1>1. /\ stack[q] = <<>> /\ stack' = [stack EXCEPT ![q] = <<f>>]
      /\ UNCHANGED <<PortArray, ProcArray, kmsg, FreeKMsgQ, FreePortQ, FreeProcQ>>
  BY DEF DeallocatePort
<1>2. f \in Frames /\ f.do \notin Holding \cup {"LTran", "Notify", "Post"}
  BY FramesMade DEF Holding
<1> HIDE DEF f
<1>3. /\ stack' \in [Procs -> Seq(Frames)] /\ Stacks'
      /\ \A r \in Procs \ {q} : stack'[r] = stack[r]
      /\ ~At(q, "LTran")'
      /\ \A m : ~Holds(stack'[q], m)
      /\ \A x : ~Ending(stack'[q], x)
  BY <1>1, <1>2, Replaced
<1>4. Typed'
  BY <1>1, <1>3 DEF MInv, Typed
<1> QED
  BY <1>1, <1>3, <1>4, Quiet, NoFrames DEF Inbox, Second


(* unxIPCSuicide begins: the record is not active from here on, and keeps  *)
(* its messages.                                                           *)
LEMMA SuicideKeeps ==
  ASSUME MInv, NEW q \in Procs, Suicide(q)
  PROVE  Kept
<1> DEFINE f == [do |-> "Scan", next |-> 1, haveports |-> FALSE]
<1>1. /\ stack[q] = <<>> /\ stack' = [stack EXCEPT ![q] = <<f>>]
      /\ ProcArray' = [ProcArray EXCEPT ![q].Active = FALSE, ![q].State = "NOT_WAITING"]
      /\ UNCHANGED <<PortArray, kmsg, FreeKMsgQ, FreePortQ, FreeProcQ>>
  BY DEF Suicide
<1>2. f \in Frames /\ f.do \notin Holding \cup {"LTran", "Notify", "Post"}
  BY FramesMade, Numbers DEF Holding
<1> HIDE DEF f
<1>3. /\ stack' \in [Procs -> Seq(Frames)] /\ Stacks'
      /\ \A r \in Procs \ {q} : stack'[r] = stack[r]
      /\ ~At(q, "LTran")'
      /\ \A m : ~Holds(stack'[q], m)
      /\ \A x : ~Ending(stack'[q], x)
  BY <1>1, <1>2, Replaced
<1>4. /\ ProcArray' \in [AllProcs -> ProcRecords]
      /\ \A r \in AllProcs : /\ Inbox(r)' = Inbox(r)
                             /\ ProcArray'[r].DataPort = ProcArray[r].DataPort
                             /\ ProcArray'[r].Active => ProcArray[r].Active
  <2> DEFINE c == [ProcArray[q] EXCEPT !.Active = FALSE, !.State = "NOT_WAITING"]
  <2>1. ProcArray \in [AllProcs -> ProcRecords] /\ q \in AllProcs
    BY Numbers DEF MInv, Typed
  <2>2. /\ c \in ProcRecords /\ c.MsgsWaiting = ProcArray[q].MsgsWaiting
        /\ c.DataPort = ProcArray[q].DataPort /\ c.Active = FALSE
    BY <2>1 DEF ProcRecords
  <2>3. ProcArray' = [ProcArray EXCEPT ![q] = c]
    BY <1>1, <2>1
  <2> HIDE DEF c
  <2>4. ProcArray' \in [AllProcs -> ProcRecords]
    BY <2>1, <2>2, <2>3
  <2>5. \A r \in AllProcs : ProcArray'[r] = IF r = q THEN c ELSE ProcArray[r]
    BY <2>1, <2>3
  <2> QED
    BY <2>2, <2>4, <2>5 DEF Inbox
<1>5. Typed'
  BY <1>1, <1>3, <1>4 DEF MInv, Typed
<1> QED
  BY <1>1, <1>3, <1>4, <1>5, Quiet, NoFrames DEF Second


(* A wait that ends with nothing in hand: the sender was woken, or the     *)
(* receiver gave up.                                                       *)
LEMMA WaitEndKeeps ==
  ASSUME MInv, NEW q \in Procs, At(q, "FullWait") \/ At(q, "MsgWait"), Return(q),
         UNCHANGED <<PortArray, ProcArray, kmsg, FreeKMsgQ, FreePortQ, FreeProcQ>>
  PROVE  Kept
<1>1. /\ stack' \in [Procs -> Seq(Frames)] /\ Stacks'
      /\ \A r \in Procs \ {q} : stack'[r] = stack[r]
      /\ ~At(q, "LTran")' /\ stack'[q] = <<>>
  BY Returned DEF MInv
<1>2. stack[q] # <<>> /\ Head(stack[q]).do \in {"FullWait", "MsgWait"}
  BY DEF At, Top
<1>3. /\ \A m : ~Holds(stack[q], m) /\ ~Posts(stack[q], m)
      /\ \A p : ~Ending(stack[q], p)
  BY <1>2, LastIs DEF Lasts, Top
<1>4. Typed'
  BY <1>1 DEF MInv, Typed
<1> QED
  BY <1>1, <1>3, <1>4, Quiet, NoFrames DEF Inbox, Second


(* A signal marks the frame.                                               *)
LEMMA InterruptKeeps ==
  ASSUME MInv, NEW q \in Procs, Interrupt(q)
  PROVE  Kept
<1> DEFINE f == [Top(q) EXCEPT !.signalled = TRUE]
<1>1. /\ stack[q] # <<>> /\ Head(stack[q]).do \in {"FullWait", "MsgWait"} /\ Then(q, <<f>>)
      /\ UNCHANGED <<PortArray, ProcArray, kmsg, FreeKMsgQ, FreePortQ, FreeProcQ>>
  BY DEF Interrupt, Sleeping, At, Top
<1>2. Top(q) \in Frames /\ Tail(stack[q]) = <<>>
  BY <1>1, TopIs, TailIs DEF MInv, Typed, Stacks, Lasts
<1>3. f \in Frames /\ f.do \in {"FullWait", "MsgWait"}
  <2>1. CASE Top(q).do = "FullWait"
    <3>1. Top(q) \in [do : {"FullWait"}, kmsg : KMsgs, port : Ports, how : {"Wait", "Timed"},
                      signalled : BOOLEAN]
      BY <1>2, <2>1, FrameIs
    <3>2. f \in [do : {"FullWait"}, kmsg : KMsgs, port : Ports, how : {"Wait", "Timed"},
                 signalled : BOOLEAN]
      BY <3>1
    <3> HIDE DEF f
    <3> QED
      BY <3>2 DEF Frames
  <2>2. CASE Top(q).do = "MsgWait"
    <3> DEFINE Fors == Receives \cup {[r EXCEPT !.local = NullPort] : r \in Receives}
    <3>1. Top(q) \in [do : {"MsgWait"}, for : Fors, how : {"Wait", "Timed"}, signalled : BOOLEAN]
      BY <1>2, <2>2, FrameIs
    <3> HIDE DEF Fors
    <3>2. f \in [do : {"MsgWait"}, for : Fors, how : {"Wait", "Timed"}, signalled : BOOLEAN]
      BY <3>1
    <3> HIDE DEF f
    <3> QED
      BY <3>2 DEF Frames, Fors
  <2> QED
    BY <1>1, <2>1, <2>2 DEF Top
<1> HIDE DEF f
<1>4. stack' = [stack EXCEPT ![q] = <<f>>]
  <2>1. <<f>> \in Seq(Frames)
    BY <1>3
  <2>2. <<f>> \o <<>> = <<f>>
    BY <2>1, ConcatEmptySeq
  <2> QED
    BY <1>1, <1>2, <2>2 DEF Then
<1>5. f.do \notin Holding \cup {"LTran", "Notify", "Post"}
  BY <1>3 DEF Holding
<1>6. /\ stack' \in [Procs -> Seq(Frames)] /\ Stacks'
      /\ \A r \in Procs \ {q} : stack'[r] = stack[r]
      /\ ~At(q, "LTran")'
      /\ \A m : ~Holds(stack'[q], m)
      /\ \A x : ~Ending(stack'[q], x)
  BY <1>3, <1>4, <1>5, Replaced
<1>7. /\ \A m : ~Holds(stack[q], m) /\ ~Posts(stack[q], m)
      /\ \A p : ~Ending(stack[q], p)
  BY <1>1, LastIs DEF Lasts, Top
<1>8. Typed'
  BY <1>1, <1>6 DEF MInv, Typed
<1> QED
  BY <1>1, <1>6, <1>7, <1>8, Quiet DEF Inbox, Second


(* A message in hand becomes free.                                         *)
LEMMA ToFree ==
  ASSUME MInv, NEW q \in Procs, NEW m \in KMsgs, Holds(stack[q], m), Free(m),
         stack' \in [Procs -> Seq(Frames)], Stacks',
         \A r \in Procs \ {q} : stack'[r] = stack[r],
         ~At(q, "LTran")',
         \A x \in KMsgs : Holds(stack'[q], x) <=> x # m /\ Holds(stack[q], x),
         \A x \in KMsgs : x # m /\ Posts(stack[q], x) => Posts(stack'[q], x),
         \A p \in Ports : Ending(stack'[q], p) <=> Ending(stack[q], p),
         ProcArray' \in [AllProcs -> ProcRecords],
         \A r \in AllProcs : /\ Inbox(r)' = Inbox(r)
                             /\ ProcArray'[r].Active = ProcArray[r].Active
                             /\ ProcArray'[r].DataPort = ProcArray[r].DataPort,
         UNCHANGED <<PortArray, FreePortQ, FreeProcQ>>
  PROVE  Kept
<1>1. /\ kmsg' \in [KMsgs -> MessageRecords] /\ FreeKMsgQ' \in SUBSET KMsgs
      /\ \A x \in KMsgs \ {m} : kmsg'[x] = kmsg[x]
      /\ \A x \in KMsgs : x \in FreeKMsgQ' <=> x = m \/ x \in FreeKMsgQ
      /\ \A x \in KMsgs : /\ kmsg'[x].type # "none" => kmsg'[x].port \in Ports
                          /\ kmsg'[x].What # "DONT_WAKE" => kmsg'[x].WakeupProc \in Procs
  BY FreeIs DEF MInv
<1>2. /\ m \notin FreeKMsgQ
      /\ \A r \in Procs : Holds(stack[r], m) => r = q
      /\ \A r \in AllProcs : m \notin Range(Inbox(r))
      /\ \A p \in Ports : m \notin Range(Second(p))
  BY Alone, Numbers DEF In, Kinds
<1>3. Typed'
  BY <1>1 DEF MInv, Typed
<1>4. Once'
  BY DEF MInv, Once, Second
<1>5. Addressed'
  BY <1>1, AddressedKept DEF MInv
<1>6. Carrying'
  <2>1. \A r \in Procs \ {q} : \A x \in KMsgs : Holds(stack[r], x) => kmsg'[x].type = kmsg[x].type
    BY <1>1, <1>2
  <2> QED
    BY <2>1, CarryingKept
<1>7. PortPlaced'
  BY PortsStay DEF MInv
<1>8. MoveTo({m}, "free", 0)
  BY <1>1, <1>2 DEF Second, Inbox, MoveTo
<1>9. Closed'
  BY DEF MInv, Closed, Second
<1> QED
  BY <1>3, <1>4, <1>5, <1>6, <1>7, <1>8, <1>9, Moves


(* A free message comes into the hands of a process.                       *)
LEMMA FromFree ==
  ASSUME MInv, NEW q \in Procs, NEW m \in KMsgs, m \in FreeKMsgQ, Typed', Stacks',
         \A x \in KMsgs : x \in FreeKMsgQ' <=> x # m /\ x \in FreeKMsgQ,
         \A r \in Procs \ {q} : stack'[r] = stack[r],
         ~At(q, "LTran")' \/ kmsg'[Top(q)'.kmsg].type # "none",
         \A x \in KMsgs : Holds(stack'[q], x) <=> x = m \/ Holds(stack[q], x),
         \A x \in KMsgs : Posts(stack[q], x) => Posts(stack'[q], x),
         \A p \in Ports : Ending(stack'[q], p) <=> Ending(stack[q], p),
         \A x \in KMsgs \ {m} : kmsg'[x] = kmsg[x],
         kmsg'[m].RemotePort \in Ports \/ Posts(stack'[q], m),
         UNCHANGED <<PortArray, ProcArray, FreePortQ>>
  PROVE  Kept
<1>2. /\ \A r \in Procs : ~Holds(stack[r], m)
      /\ \A r \in AllProcs : m \notin Range(Inbox(r))
      /\ \A p \in Ports : m \notin Range(Second(p))
  BY Alone, Numbers DEF In, Kinds
<1>4. Once'
  BY DEF MInv, Once, Second, Inbox
<1>5. Addressed'
  BY DEF MInv, Addressed
<1>6. Carrying'
  <2>1. \A r \in Procs \ {q} : \A x \in KMsgs : Holds(stack[r], x) => kmsg'[x].type = kmsg[x].type
    BY <1>2
  <2> QED
    BY <2>1, CarryingKept
<1>7. PortPlaced'
  BY PortsStay DEF MInv
<1>8. MoveTo({m}, "call", q)
  BY <1>2 DEF Second, Inbox, MoveTo
<1>9. Closed'
  BY DEF MInv, Closed, Second
<1> QED
  BY <1>4, <1>5, <1>6, <1>7, <1>8, <1>9, Moves


(* SendAcknowledge leaves a notice above the frame that still has the      *)
(* message in hand.                                                        *)
LEMMA AcknowledgeKeeps ==
  ASSUME MInv, NEW q \in Procs, stack[q] # <<>>, NEW do \in {"Release", "CopyOut"},
         Top(q).do \in {"Release", "Answer"},
         kmsg[Top(q).kmsg].What = "SEND_ACK", SendAcknowledge(q, Top(q).kmsg),
         Then(q, <<Notice(kmsg[Top(q).kmsg].WakeupProc, "M_MsgAccepted", kmsg[Top(q).kmsg].RemotePort),
                   Frame(do, Top(q).kmsg)>>),
         UNCHANGED <<ProcArray, FreeKMsgQ, FreePortQ, FreeProcQ>>
  PROVE  Kept
<1> DEFINE m == Top(q).kmsg
           p == kmsg[m].RemotePort
           who == kmsg[m].WakeupProc
           f == Notice(who, "M_MsgAccepted", p)
           g == Frame(do, m)
<1>1. m \in KMsgs /\ p \in Ports
  BY TopHeld DEF Holding
<1>2. who \in Procs
  BY <1>1 DEF MInv, Typed
<1>3. f \in Plain
  BY <1>1, <1>2, FramesMade DEF Plain, Notice, Holding, Lasts, IDs
<1>4. g \in Frames /\ g.do \in Holding \ ({"LTran", "Notify"} \cup Lasts) /\ g.kmsg = m
  BY <1>1, FramesMade DEF Frame, Holding, Lasts
<1>5. /\ Then(q, <<f, g>>)
      /\ PortArray' = [PortArray EXCEPT ![p].Senders = PortArray[p].Senders \cup {who}]
      /\ kmsg' = [kmsg EXCEPT ![m].What = "DONT_WAKE"]
  BY DEF SendAcknowledge, FastGTran
<1>6. f.do \notin Lasts \cup {"LTran"}
  BY DEF Notice, Lasts
<1> HIDE DEF f, g, who
<1>7. /\ <<f, g>> \in Seq(Frames) /\ StackOK(<<f, g>>)
      /\ \A i \in 1 .. Len(<<f, g>>) : <<f, g>>[i] \in {f, g}
      /\ \A x : Holds(<<f, g>>, x) <=> x = m
      /\ \A x : ~Ending(<<f, g>>, x)
  BY <1>3, <1>4, TwoFrames
<1>8. \A i \in 1 .. Len(<<f, g>>) : <<f, g>>[i].do \notin Lasts \cup {"LTran"}
  BY <1>4, <1>6, <1>7
<1>9. Top(q).do \in Holding \ {"LTran", "Post"}
  BY DEF Holding
<1>10. /\ stack' \in [Procs -> Seq(Frames)] /\ Stacks'
       /\ \A r \in Procs \ {q} : stack'[r] = stack[r]
       /\ ~At(q, "LTran")'
       /\ \A x : Holds(stack'[q], x) <=> Holds(stack[q], x)
       /\ \A x : Posts(stack[q], x) => Posts(stack'[q], x)
       /\ \A x : Ending(stack'[q], x) <=> Ending(stack[q], x)
  BY <1>5, <1>7, <1>8, <1>9, InHand
<1>11. PortArray[p].Senders \cup {who} \in SUBSET Procs
  BY <1>1, <1>2 DEF MInv, Typed, PortRecords
<1> HIDE DEF p
<1>12. /\ PortArray' \in [Ports -> PortRecords]
       /\ \A x \in Ports : Second(x)' = Second(x) /\ PortArray'[x].InUse = PortArray[x].InUse
  BY <1>1, <1>5, <1>11, SendersIs DEF MInv
<1>13. /\ kmsg' \in [KMsgs -> MessageRecords]
       /\ \A x \in KMsgs : /\ kmsg'[x].RemotePort = kmsg[x].RemotePort
                           /\ kmsg'[x].type = kmsg[x].type /\ kmsg'[x].port = kmsg[x].port
                           /\ kmsg'[x].WakeupProc = kmsg[x].WakeupProc
                           /\ kmsg'[x].What # "DONT_WAKE" => kmsg'[x].What = kmsg[x].What
  BY <1>1, <1>5, AnsweredIs DEF MInv
<1>14. Typed'
  BY <1>10, <1>12, <1>13 DEF MInv, Typed
<1> QED
  <2>1. \A r \in AllProcs : Inbox(r)' = Inbox(r)
    BY DEF Inbox
  <2>2. \A x \in KMsgs : kmsg'[x].RemotePort = kmsg[x].RemotePort /\ kmsg'[x].type = kmsg[x].type
    BY <1>13
  <2> QED
    BY <1>10, <1>12, <1>14, <2>1, <2>2, Quiet


(* Release sends the acknowledgment first, or frees the message.           *)
LEMMA ReleaseKeeps ==
  ASSUME MInv, NEW q \in Procs, Release(q)
  PROVE  Kept
<1> DEFINE m == Top(q).kmsg
<1>1. stack[q] # <<>> /\ Top(q).do = "Release"
  BY DEF Release, At
<1>2. m \in KMsgs /\ Holds(stack[q], m) /\ Top(q) \in Frames
  BY <1>1, TopHeld, Popped DEF Holding
<1>3. CASE kmsg[m].What = "SEND_ACK"
  <2>1. Top(q) = Frame("Release", m)
    BY <1>1, <1>2 DEF Frames, Frame
  <2> QED
    BY <1>1, <1>3, <2>1, AcknowledgeKeeps DEF Release
<1>4. CASE kmsg[m].What # "SEND_ACK"
  <2>1. /\ Free(m) /\ Then(q, <<>>) /\ UNCHANGED <<PortArray, FreePortQ, FreeProcQ>>
        /\ ProcArray' = IF kmsg[m].What = "WAKE_ME" THEN IPCWakeup(ProcArray, kmsg[m].WakeupProc)
                        ELSE ProcArray
    BY <1>4 DEF Release
  <2>2. kmsg[m].What = "WAKE_ME" => kmsg[m].WakeupProc \in AllProcs
    BY <1>2, Numbers DEF MInv, Typed
  <2>3. /\ ProcArray' \in [AllProcs -> ProcRecords]
        /\ \A r \in AllProcs : /\ Inbox(r)' = Inbox(r)
                               /\ ProcArray'[r].Active = ProcArray[r].Active
                               /\ ProcArray'[r].DataPort = ProcArray[r].DataPort
    <3>1. CASE kmsg[m].What = "WAKE_ME"
      BY <2>1, <2>2, <3>1, WakeupIs DEF MInv, Inbox
    <3>2. CASE kmsg[m].What # "WAKE_ME"
      BY <2>1, <3>2 DEF MInv, Typed, Inbox
    <3> QED
      BY <3>1, <3>2
  <2>4. <<>> \in Seq(Plain)
    OBVIOUS
  <2>5. /\ stack' \in [Procs -> Seq(Frames)] /\ Stacks'
        /\ \A r \in Procs \ {q} : stack'[r] = stack[r]
        /\ ~At(q, "LTran")'
        /\ \A x : Holds(stack'[q], x) <=> x # m /\ Holds(stack[q], x)
        /\ \A x : x # m /\ Posts(stack[q], x) => Posts(stack'[q], x)
        /\ \A p : Ending(stack'[q], p) <=> Ending(stack[q], p)
    BY <1>1, <2>1, <2>4, Dropped DEF Holding
  <2> HIDE DEF m
  <2> QED
    BY <1>2, <2>1, <2>3, <2>5, ToFree
<1> QED
  BY <1>3, <1>4


(* SendKernelMsg goes on to PackMsg, or does nothing for a process that is *)
(* not active.                                                             *)
LEMMA SendKernelMsgKeeps ==
  ASSUME MInv, NEW q \in Procs, SendKernelMsg(q)
  PROVE  Kept
<1> DEFINE f == Top(q)
           g == [do |-> "PackMsg", to |-> f.to, id |-> f.id, port |-> f.port]
           s == IF ProcArray[f.to].Active THEN <<g>> ELSE <<>>
<1>1. /\ f \in Plain /\ f.port \in Ports /\ f.to \in Procs /\ f.id \in IDs /\ stack[q] # <<>>
      /\ f.do = "SendKernelMsg" /\ f \in Frames
  BY TopIs, FrameIs DEF MInv, SendKernelMsg, At, Holding, Lasts
<1>2. g \in Plain
  BY <1>1, FramesMade DEF Plain, Holding, Lasts
<1>3. [f EXCEPT !.do = "PackMsg"] = g
  <2>1. f \in [do : {"SendKernelMsg", "PackMsg"}, to : Procs, id : IDs, port : Ports]
    BY <1>1 DEF Frames
  <2> QED
    BY <2>1
<1>4. Then(q, s) /\ UNCHANGED <<PortArray, ProcArray, kmsg, FreeKMsgQ, FreePortQ, FreeProcQ>>
  BY <1>3 DEF SendKernelMsg
<1>5. s \in Seq(Plain)
  BY <1>2
<1>6. stack' \in [Procs -> Seq(Frames)] => Typed'
  BY <1>4 DEF MInv, Typed
<1> HIDE DEF s
<1> QED
  BY <1>1, <1>4, <1>5, <1>6, PlainStep DEF Inbox, Second


(* PackMsg takes a free message for QueueMsg, or does nothing for a        *)
(* process with no data port.                                              *)
LEMMA PackMsgKeeps ==
  ASSUME MInv, NEW q \in Procs, PackMsg(q)
  PROVE  Kept
<1> DEFINE f == Top(q)
           to == ProcArray[f.to].DataPort
<1>1. /\ f \in Plain /\ f.port \in Ports /\ f.to \in Procs /\ f.id \in IDs /\ stack[q] # <<>>
      /\ f.do \notin Holding \cup {"Notify", "Post", "LTran"}
  BY TopIs, FrameIs DEF MInv, PackMsg, At, Holding, Lasts
<1>2. UNCHANGED <<PortArray, ProcArray, FreePortQ, FreeProcQ>>
  BY DEF PackMsg
<1>3. CASE to = NullPort
  <2>1. Then(q, <<>>) /\ UNCHANGED <<kmsg, FreeKMsgQ>>
    BY <1>3 DEF PackMsg
  <2>2. <<>> \in Seq(Plain)
    OBVIOUS
  <2>3. stack' \in [Procs -> Seq(Frames)] => Typed'
    BY <1>2, <2>1 DEF MInv, Typed
  <2> QED
    BY <1>1, <1>2, <2>1, <2>2, <2>3, PlainStep DEF Inbox, Second
<1>4. CASE to # NullPort
  <2>1. PICK m \in FreeKMsgQ :
          /\ Allocate(m, Message(f.id, to, NullPort, TRUE, TypeOf(f.id), f.port))
          /\ Then(q, <<Frame("QueueMsg", m)>>)
    BY <1>4 DEF PackMsg
  <2>2. m \in KMsgs /\ f.to \in AllProcs
    BY <1>1, Numbers DEF MInv, Typed
  <2>3. to \in Ports
    BY <1>4, <2>2 DEF MInv, Typed, ProcRecords
  <2>4. TypeOf(f.id) \in Rights
    BY DEF TypeOf, Rights
  <2> HIDE DEF to, f
  <2>5. /\ kmsg' \in [KMsgs -> MessageRecords] /\ FreeKMsgQ' \in SUBSET KMsgs
        /\ kmsg'[m].RemotePort = to
        /\ \A x \in KMsgs \ {m} : kmsg'[x] = kmsg[x]
        /\ \A x \in KMsgs : x \in FreeKMsgQ' <=> x # m /\ x \in FreeKMsgQ
        /\ \A x \in KMsgs : /\ kmsg'[x].type # "none" => kmsg'[x].port \in Ports
                            /\ kmsg'[x].What # "DONT_WAKE" => kmsg'[x].WakeupProc \in Procs
    BY <1>1, <2>1, <2>2, <2>3, <2>4, AllocateIs DEF MInv
  <2> DEFINE g == Frame("QueueMsg", m)
  <2>6. g \in Frames /\ g.do \in Holding \ ({"LTran", "Notify", "Post"} \cup Lasts) /\ g.kmsg = m
    BY <2>2, FramesMade DEF Frame, Holding, Lasts
  <2>6a. Then(q, <<g>>)
    BY <2>1
  <2> HIDE DEF g
  <2>7. /\ <<g>> \in Seq(Frames) /\ StackOK(<<g>>)
        /\ \A i \in 1 .. Len(<<g>>) : <<g>>[i].do \notin Lasts \cup {"LTran"}
        /\ \A x : Holds(<<g>>, x) <=> x = m
        /\ \A x : ~Posts(<<g>>, x)
        /\ \A p : ~Ending(<<g>>, p)
    BY <2>6, OneFrame
  <2>8. /\ \A x : Holds(stack[q], x) <=> Holds(Tail(stack[q]), x)
        /\ \A x : Posts(stack[q], x) <=> Posts(Tail(stack[q]), x)
        /\ \A p : Ending(stack[q], p) <=> Ending(Tail(stack[q]), p)
    BY <1>1, Popped DEF f
  <2>9. ~Holds(stack[q], m)
    BY <2>1, <2>2, HeldAlone
  <2>10. \A x : ~(Holds(<<g>>, x) /\ Holds(Tail(stack[q]), x))
    BY <2>7, <2>8, <2>9
  <2>11. /\ stack' \in [Procs -> Seq(Frames)] /\ Stacks'
         /\ \A r \in Procs \ {q} : stack'[r] = stack[r]
         /\ ~At(q, "LTran")'
         /\ \A x : Holds(stack'[q], x) <=> Holds(<<g>>, x) \/ Holds(Tail(stack[q]), x)
         /\ \A p : Ending(stack'[q], p) <=> Ending(<<g>>, p) \/ Ending(Tail(stack[q]), p)
         /\ \A x : Posts(stack'[q], x) <=> Posts(<<g>>, x) \/ Posts(Tail(stack[q]), x)
    BY <1>1, <2>6a, <2>7, <2>10, Pushed DEF MInv
  <2>12. Typed'
    BY <1>2, <2>5, <2>11 DEF MInv, Typed
  <2>13. /\ \A x \in KMsgs : Holds(stack'[q], x) <=> x = m \/ Holds(stack[q], x)
         /\ \A x \in KMsgs : Posts(stack[q], x) => Posts(stack'[q], x)
         /\ \A p \in Ports : Ending(stack'[q], p) <=> Ending(stack[q], p)
    BY <2>7, <2>8, <2>11
  <2> QED
    BY <1>2, <2>1, <2>2, <2>3, <2>5, <2>11, <2>12, <2>13, FromFree
<1> QED
  BY <1>3, <1>4


(* A process in LTran has one message in hand, with a right in it, and the *)
(* stack is that and its posting.                                          *)
LEMMA LTranStack ==
  ASSUME MInv, NEW q \in Procs, At(q, "LTran")
  PROVE  /\ Top(q).kmsg \in KMsgs /\ Holds(stack[q], Top(q).kmsg)
         /\ kmsg[Top(q).kmsg].type # "none" /\ kmsg[Top(q).kmsg].port \in Ports
         /\ \A x : Holds(stack[q], x) <=> x = Top(q).kmsg
         /\ \A p : ~Ending(stack[q], p)
<1> DEFINE st == stack[q]
<1>1. st \in Seq(Frames) /\ StackOK(st) /\ st # <<>> /\ Head(st).do = "LTran"
  BY DEF MInv, Typed, Stacks, At, Top
<1> HIDE DEF st
<1>2. Len(st) \in Nat \ {0} /\ Head(st) = st[1]
  BY <1>1, HeadTailProperties, EmptySeq
<1>3. 1 \in 1 .. Len(st)
  BY <1>2
<1>4. Len(st) = 2 /\ st[2].do = "Post" /\ st[2].kmsg = st[1].kmsg /\ st[1].do = "LTran"
  BY <1>1, <1>2, <1>3 DEF StackOK
<1>5. \A i \in 1 .. Len(st) : st[i].do \in {"LTran", "Post"} /\ st[i].kmsg = st[1].kmsg
  <2>1. \A i \in 1 .. Len(st) : i = 1 \/ i = 2
    BY <1>4
  <2> QED
    BY <1>4, <2>1
<1>6. \A p : ~Ending(st, p)
  BY <1>5 DEF Ending
<1>7. \A x : Holds(st, x) <=> x = Head(st).kmsg
  BY <1>2, <1>3, <1>5 DEF Holds, Holding
<1>8. Top(q).kmsg \in KMsgs /\ Holds(stack[q], Top(q).kmsg)
  BY TopHeld DEF At, Holding
<1>9. kmsg[Top(q).kmsg].type # "none" /\ kmsg[Top(q).kmsg].port \in Ports
  BY <1>8 DEF MInv, Carrying, Typed
<1> QED
  BY <1>6, <1>7, <1>8, <1>9 DEF st, Top


(* LTran's piece ends: the posting is still to do.                         *)
LEMMA LTranDone ==
  ASSUME MInv, NEW q \in Procs, At(q, "LTran"), NEW s \in Seq(Plain), Then(q, s)
  PROVE  /\ stack' \in [Procs -> Seq(Frames)] /\ Stacks'
         /\ \A r \in Procs \ {q} : stack'[r] = stack[r]
         /\ ~At(q, "LTran")'
         /\ \A x : Holds(stack'[q], x) <=> Holds(stack[q], x)
         /\ \A x : Posts(stack[q], x) => Posts(stack'[q], x)
         /\ \A p : Ending(stack'[q], p) <=> Ending(stack[q], p)
<1>1. stack[q] # <<>> /\ Top(q).do = "LTran" /\ Top(q).do \notin {"Notify", "Post"}
  BY DEF At
<1>2. /\ s \in Seq(Frames) /\ StackOK(s)
      /\ \A i \in 1 .. Len(s) : s[i].do \notin Lasts \cup {"LTran"}
      /\ \A m : ~Holds(s, m) /\ ~Posts(s, m)
      /\ \A p : ~Ending(s, p)
  BY PlainStack
<1>3. /\ stack' \in [Procs -> Seq(Frames)] /\ Stacks'
      /\ \A r \in Procs \ {q} : stack'[r] = stack[r]
      /\ ~At(q, "LTran")'
      /\ \A m : Holds(stack'[q], m) <=> Holds(Tail(stack[q]), m)
      /\ \A p : Ending(stack'[q], p) <=> Ending(Tail(stack[q]), p)
      /\ \A m : Posts(stack'[q], m) <=> Posts(Tail(stack[q]), m)
  BY <1>1, <1>2, Pushed DEF MInv
<1>4. Posts(Tail(stack[q]), Top(q).kmsg)
  BY <1>1, TailIs DEF MInv, Typed, Stacks, Top
<1>5. Holds(Tail(stack[q]), Top(q).kmsg)
  BY <1>4 DEF Posts, Holds, Holding
<1>6. /\ \A m : Holds(stack[q], m) <=> Holds(Tail(stack[q]), m)
      /\ \A m : Posts(stack[q], m) <=> Posts(Tail(stack[q]), m)
      /\ \A p : Ending(stack[q], p) <=> Ending(Tail(stack[q]), p)
  BY <1>1, <1>5, Popped
<1> QED
  BY <1>3, <1>6


(* A call that frees its only message and returns.                         *)
LEMMA FreedAtEnd ==
  ASSUME MInv, NEW q \in Procs, NEW m \in KMsgs,
         \A x : Holds(stack[q], x) <=> x = m,
         \A p : ~Ending(stack[q], p),
         Free(m), Return(q), UNCHANGED <<PortArray, ProcArray, FreePortQ, FreeProcQ>>
  PROVE  Kept
<1>1. /\ stack' \in [Procs -> Seq(Frames)] /\ Stacks'
      /\ \A r \in Procs \ {q} : stack'[r] = stack[r]
      /\ ~At(q, "LTran")' /\ stack'[q] = <<>>
  BY Returned DEF MInv
<1>2. \A x : Posts(stack[q], x) => x = m
  BY DEF Posts, Holds, Holding
<1>3. /\ \A x : ~Holds(stack'[q], x) /\ ~Posts(stack'[q], x)
      /\ \A p : ~Ending(stack'[q], p)
  BY <1>1, NoFrames
<1>4. /\ ProcArray' \in [AllProcs -> ProcRecords]
      /\ \A r \in AllProcs : /\ Inbox(r)' = Inbox(r)
                             /\ ProcArray'[r].Active = ProcArray[r].Active
                             /\ ProcArray'[r].DataPort = ProcArray[r].DataPort
  BY DEF MInv, Typed, Inbox
<1> QED
  BY <1>1, <1>2, <1>3, <1>4, ToFree


(* LTran gives up the process's right, or makes it NullPort, or fails and  *)
(* frees the message.                                                      *)
LEMMA LTranKeeps ==
  ASSUME MInv, NEW q \in Procs, LTran(q)
  PROVE  Kept
<1> DEFINE m == Top(q).kmsg
           p == kmsg[m].port
           type == kmsg[m].type
           bad == \/ type \in {"TypePtOwnership", "TypePtAll"} /\ PortArray[p].Owner # q
                  \/ type \in {"TypePtReceive", "TypePtAll"} /\ PortArray[p].Receiver # q
           owner == IF type \in {"TypePtOwnership", "TypePtAll"}
                    THEN <<Give("GiveOwnership", p, RIGHTS_IN_TRANSIT)>> ELSE <<>>
           receive == IF type \in {"TypePtReceive", "TypePtAll"}
                      THEN <<Give("GiveReceiveRights", p, RIGHTS_IN_TRANSIT)>> ELSE <<>>
<1>1. At(q, "LTran") /\ UNCHANGED <<PortArray, ProcArray, FreePortQ, FreeProcQ>>
  BY DEF LTran
<1>2. /\ m \in KMsgs /\ Holds(stack[q], m) /\ p \in Ports
      /\ \A x : Holds(stack[q], x) <=> x = m
      /\ \A x : ~Ending(stack[q], x)
  BY <1>1, LTranStack
<1>3. ASSUME kmsg' = [kmsg EXCEPT ![m].type = "none", ![m].port = NullPort] \/ UNCHANGED kmsg,
             NEW s \in Seq(Plain), Then(q, s), UNCHANGED FreeKMsgQ
      PROVE  Kept
  <2>1. /\ stack' \in [Procs -> Seq(Frames)] /\ Stacks'
        /\ \A r \in Procs \ {q} : stack'[r] = stack[r]
        /\ ~At(q, "LTran")'
        /\ \A x : Holds(stack'[q], x) <=> Holds(stack[q], x)
        /\ \A x : Posts(stack[q], x) => Posts(stack'[q], x)
        /\ \A x : Ending(stack'[q], x) <=> Ending(stack[q], x)
    BY <1>1, <1>3, LTranDone
  <2> HIDE DEF m
  <2>2. /\ kmsg' \in [KMsgs -> MessageRecords]
        /\ \A x \in KMsgs : /\ kmsg'[x].RemotePort = kmsg[x].RemotePort
                            /\ x # m => kmsg'[x] = kmsg[x]
                            /\ kmsg'[x].type # "none" => kmsg'[x].port \in Ports
                            /\ kmsg'[x].What # "DONT_WAKE" => kmsg'[x].WakeupProc \in Procs
    <3>1. CASE UNCHANGED kmsg
      BY <3>1 DEF MInv, Typed
    <3>2. CASE kmsg' = [kmsg EXCEPT ![m].type = "none", ![m].port = NullPort]
      <4>1. kmsg \in [KMsgs -> MessageRecords] /\ "none" \in Rights
        BY DEF MInv, Typed, Rights
      <4> DEFINE c == [kmsg[m] EXCEPT !.type = "none", !.port = NullPort]
      <4>2. /\ c \in MessageRecords /\ c.type = "none" /\ c.RemotePort = kmsg[m].RemotePort
            /\ c.What = kmsg[m].What /\ c.WakeupProc = kmsg[m].WakeupProc
        BY <1>2, <4>1 DEF MessageRecords
      <4>3. kmsg' = [kmsg EXCEPT ![m] = c]
        BY <1>2, <3>2, <4>1
      <4> HIDE DEF c
      <4>4. kmsg' \in [KMsgs -> MessageRecords]
        BY <4>1, <4>2, <4>3
      <4>5. \A x \in KMsgs : kmsg'[x] = IF x = m THEN c ELSE kmsg[x]
        BY <4>1, <4>3
      <4> QED
        BY <4>2, <4>4, <4>5 DEF MInv, Typed
    <3> QED
      BY <1>3, <3>1, <3>2
  <2>3. Typed'
    BY <1>1, <1>3, <2>1, <2>2 DEF MInv, Typed
  <2>4. \A x \in KMsgs : /\ kmsg'[x].RemotePort = kmsg[x].RemotePort
                         /\ kmsg'[x].type = kmsg[x].type \/ Holds(stack[q], x)
    BY <1>2, <2>2
  <2> QED
    BY <1>1, <1>3, <2>1, <2>3, <2>4, Quiet DEF Inbox, Second
<1>4. \/ /\ kmsg' = [kmsg EXCEPT ![m].type = "none", ![m].port = NullPort]
         /\ Then(q, <<>>) /\ UNCHANGED FreeKMsgQ
      \/ Then(q, owner \o receive) /\ UNCHANGED <<kmsg, FreeKMsgQ>>
      \/ Free(m) /\ Return(q)
  BY DEF LTran
<1>5. owner \o receive \in Seq(Plain) /\ <<>> \in Seq(Plain)
  <2>1. \A do \in {"GiveOwnership", "GiveReceiveRights"} : Give(do, p, RIGHTS_IN_TRANSIT) \in Plain
    BY <1>2, FramesMade, Numbers DEF Plain, Give, Holding, Lasts
  <2>2. owner \in Seq(Plain) /\ receive \in Seq(Plain)
    BY <2>1
  <2> HIDE DEF owner, receive
  <2> QED
    BY <2>2, ConcatProperties
<1> HIDE DEF owner, receive, m
<1> QED
  BY <1>1, <1>2, <1>3, <1>4, <1>5, FreedAtEnd


(* PostNowhere and PostRefused free the message and fail.                  *)
LEMMA PostFailsKeeps ==
  ASSUME MInv, NEW q \in Procs, PostNowhere(q) \/ PostRefused(q)
  PROVE  Kept
<1>1. /\ stack[q] # <<>> /\ Top(q).do = "Post" /\ Free(Top(q).kmsg) /\ Return(q)
      /\ UNCHANGED <<PortArray, ProcArray, FreePortQ, FreeProcQ>>
  BY DEF PostNowhere, PostRefused, Posting, At
<1>2. /\ \A x : Holds(stack[q], x) <=> x = Top(q).kmsg
      /\ \A p : ~Ending(stack[q], p)
  BY <1>1, LastIs DEF Lasts
<1>3. Top(q).kmsg \in KMsgs
  BY <1>1, TopHeld DEF Holding
<1> QED
  BY <1>1, <1>2, <1>3, FreedAtEnd


-----------------------------------------------------------------------------
(* Sending.                                                                *)

(* the frames of TPSend                                                    *)
SendFrames(m, how, type) ==
  (IF type = "none" THEN <<>> ELSE <<Frame("LTran", m)>>)
  \o <<[do |-> "Post", kmsg |-> m, how |-> how]>>


(* They have the message in hand, and post it.                             *)
LEMMA SendStack ==
  ASSUME NEW m \in KMsgs, NEW how \in {"Wait", "Timed", "DontWait", "Reply"}, NEW type
  PROVE  LET s == SendFrames(m, how, type) IN
         /\ s \in Seq(Frames) /\ StackOK(s)
         /\ s # <<>> /\ Head(s).do = "LTran" => type # "none" /\ Head(s).kmsg = m
         /\ \A x : Holds(s, x) <=> x = m
         /\ Posts(s, m)
         /\ \A p : ~Ending(s, p)
<1> DEFINE s == SendFrames(m, how, type)
           f == Frame("LTran", m)
           g == [do |-> "Post", kmsg |-> m, how |-> how]
<1>1. f \in Frames /\ f.do = "LTran" /\ f.kmsg = m
  BY FramesMade DEF Frame
<1>2. g \in Frames /\ g.do = "Post" /\ g.kmsg = m
  BY FramesMade
<1>3. s = (IF type = "none" THEN <<>> ELSE <<f>>) \o <<g>>
  BY DEF SendFrames
<1> HIDE DEF f, g, s
<1>4. CASE type = "none"
  <2>1. s = <<g>>
    BY <1>2, <1>3, <1>4
  <2>2. Head(s) = g
    BY <2>1
  <2>3. g.do # "LTran" /\ g.do # "Notify" /\ g.do \in Holding
    BY <1>2 DEF Holding
  <2>4. /\ s \in Seq(Frames) /\ StackOK(s)
        /\ \A x : Holds(s, x) <=> g.do \in Holding /\ g.kmsg = x
        /\ \A x : Posts(s, x) <=> g.do = "Post" /\ g.kmsg = x
        /\ \A p : Ending(s, p) <=> g.do = "Notify" /\ g.port = p
    <3>1. /\ <<g>> \in Seq(Frames) /\ StackOK(<<g>>)
          /\ \A x : Holds(<<g>>, x) <=> g.do \in Holding /\ g.kmsg = x
          /\ \A x : Posts(<<g>>, x) <=> g.do = "Post" /\ g.kmsg = x
          /\ \A p : Ending(<<g>>, p) <=> g.do = "Notify" /\ g.port = p
      BY <1>2, <2>3, OneFrame
    <3> QED
      BY <2>1, <3>1
  <2> QED
    BY <1>2, <2>2, <2>3, <2>4 DEF s
<1>5. CASE type # "none"
  <2>1. s = <<f, g>>
    <3>1. <<f>> \in Seq(Frames) /\ Append(<<f>>, g) = <<f, g>>
      <4>1. <<f>> \in Seq(Frames) /\ <<f, g>> \in Seq(Frames)
        BY <1>1, <1>2
      <4> DEFINE a == Append(<<f>>, g)
                 c == <<f, g>>
      <4>2. a \in Seq(Frames) /\ Len(a) = 2 /\ a[1] = f /\ a[2] = g
        BY <1>2, <4>1, AppendProperties
      <4>3. c \in Seq(Frames) /\ Len(c) = 2 /\ c[1] = f /\ c[2] = g
        BY <4>1
      <4> HIDE DEF a, c
      <4>4. \A i \in 1 .. Len(a) : i = 1 \/ i = 2
        BY <4>2
      <4>5. a = c
        BY <4>2, <4>3, <4>4, SeqEqual
      <4> QED
        BY <4>1, <4>5 DEF a, c
    <3>2. Append(<<f>>, g) = <<f>> \o <<g>>
      BY <1>2, <3>1, AppendIsConcat
    <3> QED
      BY <1>3, <1>5, <3>1, <3>2
  <2>2. s \in Seq(Frames) /\ Len(s) = 2 /\ s[1] = f /\ s[2] = g /\ Head(s) = f
    BY <1>1, <1>2, <2>1
  <2>3. /\ 1 \in 1 .. Len(s) /\ 2 \in 1 .. Len(s)
        /\ \A i \in 1 .. Len(s) : i = 1 \/ i = 2
    BY <2>2
  <2>4. StackOK(s)
    BY <1>1, <1>2, <2>2, <2>3 DEF StackOK, Lasts, Holding
  <2>5. \A x : Holds(s, x) <=> x = m
    BY <1>1, <1>2, <2>2, <2>3 DEF Holds, Holding
  <2>6. Posts(s, m) /\ \A p : ~Ending(s, p)
    BY <1>1, <1>2, <2>2, <2>3 DEF Posts, Ending
  <2> QED
    BY <1>1, <1>5, <2>2, <2>4, <2>5, <2>6 DEF s
<1> QED
  BY <1>4, <1>5


(* TPSend fills a free message.                                            *)
LEMMA TPSendKeeps ==
  ASSUME MInv, NEW s \in Sends, TPSend(s)
  PROVE  Kept
<1> DEFINE q == s.proc
           to == FastLTran(q, s.to)
           local == FastLTran(q, s.local)
<1>1. /\ q \in Procs /\ {to, local} \subseteq Ports \cup {NullPort} /\ s.emerg \in BOOLEAN
      /\ s.how \in {"Wait", "Timed", "DontWait", "Reply"}
      /\ s.type \in Rights /\ s.port \in Ports \cup {NullPort}
      /\ s.type # "none" => s.port \in Ports
  BY MessagesAssumption DEF FastLTran
<1>2. PICK m \in FreeKMsgQ :
        /\ Allocate(m, Message("user", to, local, s.emerg, s.type, s.port))
        /\ stack' = [stack EXCEPT ![q] =
             (IF s.type = "none" THEN <<>> ELSE <<Frame("LTran", m)>>)
             \o <<[do |-> "Post", kmsg |-> m, how |-> s.how]>>]
  BY DEF TPSend
<1>3. stack[q] = <<>> /\ UNCHANGED <<PortArray, ProcArray, FreePortQ, FreeProcQ>>
  BY DEF TPSend, Idle
<1>4. m \in KMsgs /\ "user" \in IDs
  BY DEF MInv, Typed, IDs
<1> DEFINE t == SendFrames(m, s.how, s.type)
<1>6. /\ t \in Seq(Frames) /\ StackOK(t)
      /\ t # <<>> /\ Head(t).do = "LTran" => s.type # "none" /\ Head(t).kmsg = m
      /\ \A x : Holds(t, x) <=> x = m
      /\ Posts(t, m)
      /\ \A p : ~Ending(t, p)
  BY <1>1, <1>4, SendStack
<1> HIDE DEF t
<1>7. stack' = [stack EXCEPT ![q] = t]
  BY <1>2 DEF t, SendFrames
<1> HIDE DEF q, to, local
<1>8. /\ kmsg' \in [KMsgs -> MessageRecords] /\ FreeKMsgQ' \in SUBSET KMsgs
      /\ kmsg'[m].RemotePort = to /\ kmsg'[m].type = s.type
      /\ \A x \in KMsgs \ {m} : kmsg'[x] = kmsg[x]
      /\ \A x \in KMsgs : x \in FreeKMsgQ' <=> x # m /\ x \in FreeKMsgQ
      /\ \A x \in KMsgs : /\ kmsg'[x].type # "none" => kmsg'[x].port \in Ports
                          /\ kmsg'[x].What # "DONT_WAKE" => kmsg'[x].WakeupProc \in Procs
  <2> DEFINE emerg == s.emerg
             type == s.type
             port == s.port
  <2>1. Allocate(m, Message("user", to, local, emerg, type, port))
    BY <1>2
  <2>2. /\ to \in Ports \cup {NullPort} /\ local \in Ports \cup {NullPort}
        /\ emerg \in BOOLEAN /\ type \in Rights /\ port \in Ports \cup {NullPort}
        /\ type # "none" => port \in Ports
    BY <1>1
  <2> HIDE DEF emerg, type, port
  <2>3. /\ kmsg' \in [KMsgs -> MessageRecords] /\ FreeKMsgQ' \in SUBSET KMsgs
        /\ kmsg'[m].RemotePort = to /\ kmsg'[m].type = type
        /\ \A x \in KMsgs \ {m} : kmsg'[x] = kmsg[x]
        /\ \A x \in KMsgs : x \in FreeKMsgQ' <=> x # m /\ x \in FreeKMsgQ
        /\ \A x \in KMsgs : /\ kmsg'[x].type # "none" => kmsg'[x].port \in Ports
                            /\ kmsg'[x].What # "DONT_WAKE" => kmsg'[x].WakeupProc \in Procs
    BY <1>4, <2>1, <2>2, AllocateIs DEF MInv
  <2> QED
    BY <2>3 DEF type
<1>9. /\ stack' \in [Procs -> Seq(Frames)] /\ stack'[q] = t
      /\ \A r \in Procs \ {q} : stack'[r] = stack[r]
  BY <1>1, <1>6, <1>7 DEF MInv, Typed
<1>10. Stacks' /\ Typed'
  BY <1>3, <1>6, <1>8, <1>9 DEF MInv, Typed, Stacks
<1>11. At(q, "LTran")' => kmsg'[Top(q)'.kmsg].type # "none"
  BY <1>6, <1>8, <1>9 DEF At, Top
<1>12. /\ \A x \in KMsgs : Holds(stack'[q], x) <=> x = m \/ Holds(stack[q], x)
       /\ \A x \in KMsgs : Posts(stack[q], x) => Posts(stack'[q], x)
       /\ \A p \in Ports : Ending(stack'[q], p) <=> Ending(stack[q], p)
       /\ Posts(stack'[q], m)
  BY <1>3, <1>6, <1>9, NoFrames
<1> QED
  BY <1>1, <1>2, <1>3, <1>4, <1>8, <1>9, <1>10, <1>11, <1>12, FromFree


(* A message in hand goes to the inbox of a port's receiver.               *)
LEMMA ToPrimary ==
  ASSUME MInv, NEW q \in Procs, NEW m \in KMsgs, Holds(stack[q], m), NEW p \in Ports,
         stack' \in [Procs -> Seq(Frames)], Stacks',
         \A r \in Procs \ {q} : stack'[r] = stack[r],
         ~At(q, "LTran")',
         \A x \in KMsgs : Holds(stack'[q], x) <=> x # m /\ Holds(stack[q], x),
         \A x \in KMsgs : x # m /\ Posts(stack[q], x) => Posts(stack'[q], x),
         \A x \in Ports : Ending(stack'[q], x) <=> Ending(stack[q], x),
         kmsg[m].RemotePort \in Ports,
         ProcArray' \in [AllProcs -> ProcRecords],
         \A r \in AllProcs : /\ Inbox(r)' = Queued(m, p)[r].MsgsWaiting
                             /\ ProcArray'[r].Active = ProcArray[r].Active
                             /\ ProcArray'[r].DataPort = ProcArray[r].DataPort,
         PortArray' = Counted(m, p),
         UNCHANGED <<kmsg, FreeKMsgQ, FreePortQ, FreeProcQ>>
  PROVE  Kept
<1> DEFINE to == PortArray[p].Receiver
<1>1. /\ m \notin FreeKMsgQ
      /\ \A r \in Procs : Holds(stack[r], m) => r = q
      /\ \A r \in AllProcs : m \notin Range(Inbox(r))
      /\ \A x \in Ports : m \notin Range(Second(x))
  BY HeldAlone
<1>2. to \in AllProcs
  BY DEF MInv, Typed, PortRecords
<1>3. /\ PortArray' \in [Ports -> PortRecords]
      /\ \A x \in Ports : /\ Second(x)' = Second(x)
                          /\ PortArray'[x].InUse = PortArray[x].InUse
  BY CountedIs DEF MInv
<1>4. \A r \in AllProcs :
        /\ Range(Inbox(r)') = IF r = to THEN Range(Inbox(r)) \cup {m} ELSE Range(Inbox(r))
        /\ IsInjective(Inbox(r)')
  <2>1. \A r \in AllProcs :
          /\ Range(Queued(m, p)[r].MsgsWaiting) =
               IF r = to THEN Range(Inbox(r)) \cup {m} ELSE Range(Inbox(r))
          /\ IsInjective(Queued(m, p)[r].MsgsWaiting)
    <3>1. \A r \in AllProcs : m \notin Range(Inbox(r))
      BY <1>1
    <3>2. MInv /\ m \in KMsgs /\ p \in Ports
      OBVIOUS
    <3> QED
      BY ONLY <3>1, <3>2, QueuedIs DEF to
  <2> HIDE DEF to
  <2> QED
    BY <2>1
<1>5. Typed'
  BY <1>3 DEF MInv, Typed
<1>6. Once'
  BY <1>3, <1>4 DEF MInv, Once
<1>7. Addressed'
  BY AddressedKept DEF MInv
<1>8. Carrying'
  BY CarryingKept
<1>9. PortPlaced'
  BY <1>3, PortsStay DEF MInv
<1> HIDE DEF to
<1>10. MoveTo({m}, "primary", to)
  BY <1>1, <1>2, <1>3, <1>4 DEF MoveTo
<1>11. Closed'
  BY <1>3 DEF MInv, Closed
<1> QED
  BY <1>5, <1>6, <1>7, <1>8, <1>9, <1>10, <1>11, Moves


(* QueueMsg puts the message in the receiver's inbox, or frees it when the *)
(* port is gone.                                                           *)
LEMMA QueueMsgKeeps ==
  ASSUME MInv, NEW q \in Procs, QueueMsg(q)
  PROVE  Kept
<1> DEFINE m == Top(q).kmsg
           p == kmsg[m].RemotePort
           to == PortArray[p].Receiver
<1>1. stack[q] # <<>> /\ Top(q).do \in Holding \ {"LTran", "Post"} /\ UNCHANGED <<FreePortQ, FreeProcQ>>
  BY DEF QueueMsg, At, Holding
<1>2. m \in KMsgs /\ Holds(stack[q], m) /\ p \in Ports
  BY <1>1, TopHeld
<1>3. to \in AllProcs
  BY <1>2 DEF MInv, Typed, PortRecords
<1>4. PICK s \in Seq(Plain) :
        /\ Then(q, s)
        /\ \/ Free(m) /\ UNCHANGED <<PortArray, ProcArray>>
           \/ /\ ProcArray' = Queued(m, p) /\ PortArray' = Counted(m, p)
              /\ UNCHANGED <<kmsg, FreeKMsgQ>>
  <2>1. [do |-> "WakeForMsg", to |-> to] \in Plain
    BY <1>3, FramesMade DEF Plain, Holding, Lasts
  <2>2. <<>> \in Seq(Plain) /\ <<[do |-> "WakeForMsg", to |-> to]>> \in Seq(Plain)
    BY <2>1
  <2> QED
    BY <2>2 DEF QueueMsg
<1>5. /\ stack' \in [Procs -> Seq(Frames)] /\ Stacks'
      /\ \A r \in Procs \ {q} : stack'[r] = stack[r]
      /\ ~At(q, "LTran")'
      /\ \A x : Holds(stack'[q], x) <=> x # m /\ Holds(stack[q], x)
      /\ \A x : x # m /\ Posts(stack[q], x) => Posts(stack'[q], x)
      /\ \A x : Ending(stack'[q], x) <=> Ending(stack[q], x)
  BY <1>1, <1>4, Dropped
<1> HIDE DEF m, p
<1>6. CASE Free(m) /\ UNCHANGED <<PortArray, ProcArray>>
  <2>1. /\ ProcArray' \in [AllProcs -> ProcRecords]
        /\ \A r \in AllProcs : /\ Inbox(r)' = Inbox(r)
                               /\ ProcArray'[r].Active = ProcArray[r].Active
                               /\ ProcArray'[r].DataPort = ProcArray[r].DataPort
    BY <1>6 DEF MInv, Typed, Inbox
  <2> QED
    BY <1>1, <1>2, <1>5, <1>6, <2>1, ToFree
<1>7. CASE /\ ProcArray' = Queued(m, p) /\ PortArray' = Counted(m, p)
           /\ UNCHANGED <<kmsg, FreeKMsgQ>>
  <2>1. \A r \in AllProcs : m \notin Range(Inbox(r))
    BY <1>2, HeldAlone
  <2>2. /\ ProcArray' \in [AllProcs -> ProcRecords]
        /\ \A r \in AllProcs : /\ Inbox(r)' = Queued(m, p)[r].MsgsWaiting
                               /\ ProcArray'[r].Active = ProcArray[r].Active
                               /\ ProcArray'[r].DataPort = ProcArray[r].DataPort
    BY <1>2, <1>7, <2>1, QueuedIs DEF Inbox
  <2>3. kmsg[m].RemotePort \in Ports
    BY <1>2 DEF p
  <2> QED
    BY <1>1, <1>2, <1>5, <1>7, <2>2, <2>3, ToPrimary
<1> QED
  BY <1>4, <1>6, <1>7


(* Post does too, and wakes a receiver that waits.                         *)
LEMMA PostKeeps ==
  ASSUME MInv, NEW q \in Procs, Post(q)
  PROVE  Kept
<1> DEFINE m == Top(q).kmsg
           p == kmsg[m].RemotePort
           to == PortArray[p].Receiver
           queued == Queued(m, p)
<1>1. /\ stack[q] # <<>> /\ Top(q).do = "Post" /\ p # NullPort /\ Return(q)
      /\ ProcArray' = IF ProcArray[to].State = "MSG_WAIT" THEN IPCWakeup(queued, to) ELSE queued
      /\ PortArray' = Counted(m, p)
      /\ UNCHANGED <<kmsg, FreeKMsgQ, FreePortQ, FreeProcQ>>
  BY DEF Post, Posting, At
<1>2. m \in KMsgs /\ Holds(stack[q], m)
  BY <1>1, TopHeld DEF Holding
<1>3. p \in Ports
  BY <1>1, <1>2 DEF MInv, Typed, MessageRecords
<1>4. to \in AllProcs
  BY <1>3 DEF MInv, Typed, PortRecords
<1>5. /\ \A x : Holds(stack[q], x) <=> x = m
      /\ \A x : Posts(stack[q], x) <=> x = m
      /\ \A x : ~Ending(stack[q], x)
  BY <1>1, LastIs DEF Lasts
<1>6. /\ stack' \in [Procs -> Seq(Frames)] /\ Stacks'
      /\ \A r \in Procs \ {q} : stack'[r] = stack[r]
      /\ ~At(q, "LTran")' /\ stack'[q] = <<>>
  BY <1>1, Returned DEF MInv
<1>7. /\ \A x : ~Holds(stack'[q], x) /\ ~Posts(stack'[q], x)
      /\ \A x : ~Ending(stack'[q], x)
  BY <1>6, NoFrames
<1>8. \A r \in AllProcs : m \notin Range(Inbox(r))
  BY <1>2, HeldAlone
<1>9. /\ queued \in [AllProcs -> ProcRecords]
      /\ \A r \in AllProcs : /\ queued[r].Active = ProcArray[r].Active
                             /\ queued[r].DataPort = ProcArray[r].DataPort
  BY <1>2, <1>3, <1>8, QueuedIs
<1> HIDE DEF m, p, to
<1>10. /\ ProcArray' \in [AllProcs -> ProcRecords]
       /\ \A r \in AllProcs : /\ ProcArray'[r].MsgsWaiting = queued[r].MsgsWaiting
                              /\ ProcArray'[r].Active = queued[r].Active
                              /\ ProcArray'[r].DataPort = queued[r].DataPort
  <2> HIDE DEF queued
  <2> QED
    BY <1>1, <1>4, <1>9 DEF IPCWakeup, ProcRecords, Waiting
<1>11. \A r \in AllProcs : /\ Inbox(r)' = queued[r].MsgsWaiting
                           /\ ProcArray'[r].Active = ProcArray[r].Active
                           /\ ProcArray'[r].DataPort = ProcArray[r].DataPort
  BY <1>9, <1>10 DEF Inbox
<1>12. kmsg[m].RemotePort \in Ports
  BY <1>3 DEF p
<1> QED
  BY <1>1, <1>2, <1>3, <1>5, <1>6, <1>7, <1>10, <1>11, <1>12, ToPrimary


(* PostLater puts the message in the full port's secondary queue; the      *)
(* sender waits, or returns and is told later.                             *)
LEMMA PostLaterKeeps ==
  ASSUME MInv, NEW q \in Procs, PostLater(q)
  PROVE  Kept
<1> DEFINE m == Top(q).kmsg
           p == kmsg[m].RemotePort
           how == Top(q).how
           what == IF how = "Reply" THEN "SEND_ACK" ELSE "WAKE_ME"
           g == [do |-> "FullWait", kmsg |-> m, port |-> p, how |-> how, signalled |-> FALSE]
<1>1. /\ stack[q] # <<>> /\ Top(q).do = "Post" /\ p # NullPort /\ how # "DontWait"
      /\ PortArray' = [PortArray EXCEPT ![p].SecondaryMsgQ = Append(@, m), ![p].NumQueued = @ + 1]
      /\ kmsg' = [kmsg EXCEPT ![m].WakeupProc = q, ![m].What = what]
      /\ UNCHANGED <<FreeKMsgQ, FreePortQ, FreeProcQ>>
  BY DEF PostLater, Posting, At
<1>2. \/ how = "Reply" /\ Return(q) /\ UNCHANGED ProcArray
      \/ how # "Reply" /\ Then(q, <<g>>) /\ ProcArray' = [ProcArray EXCEPT ![q].State = "FULL_WAIT"]
  BY DEF PostLater
<1>3. m \in KMsgs /\ Holds(stack[q], m) /\ Top(q) \in Frames
  BY <1>1, TopHeld, Popped DEF Holding
<1>4. p \in Ports /\ how \in {"Wait", "Timed", "Reply"}
  BY <1>1, <1>3, FrameIs DEF MInv, Typed, MessageRecords
<1>5. /\ Tail(stack[q]) = <<>>
      /\ \A x : Holds(stack[q], x) <=> x = m
      /\ \A x : Posts(stack[q], x) <=> x = m
      /\ \A x : ~Ending(stack[q], x)
  BY <1>1, LastIs DEF Lasts
<1>6. /\ m \notin FreeKMsgQ
      /\ \A r \in Procs : Holds(stack[r], m) => r = q
      /\ \A r \in AllProcs : m \notin Range(Inbox(r))
      /\ \A x \in Ports : m \notin Range(Second(x))
  BY <1>3, HeldAlone
<1>7. /\ stack' \in [Procs -> Seq(Frames)] /\ Stacks'
      /\ \A r \in Procs \ {q} : stack'[r] = stack[r]
      /\ ~At(q, "LTran")'
      /\ \A x : ~Holds(stack'[q], x)
      /\ \A x : ~Ending(stack'[q], x)
  <2>1. CASE Return(q)
    BY <2>1, Returned, NoFrames DEF MInv
  <2>2. CASE Then(q, <<g>>) /\ how # "Reply"
    <3>1. g \in Frames /\ g.do \notin Holding \cup {"LTran", "Notify", "Post"}
      BY <1>3, <1>4, <2>2, FramesMade DEF Holding
    <3> HIDE DEF g
    <3>2. <<g>> \in Seq(Frames)
      BY <3>1
    <3>3. <<g>> \o <<>> = <<g>>
      BY <3>2, ConcatEmptySeq
    <3>4. stack' = [stack EXCEPT ![q] = <<g>>]
      BY <1>5, <2>2, <3>3 DEF Then
    <3> QED
      BY <3>1, <3>4, Replaced
  <2> QED
    BY <1>2, <2>1, <2>2
<1>8. /\ ProcArray' \in [AllProcs -> ProcRecords]
      /\ \A r \in AllProcs : /\ Inbox(r)' = Inbox(r)
                             /\ ProcArray'[r].Active = ProcArray[r].Active
                             /\ ProcArray'[r].DataPort = ProcArray[r].DataPort
  <2>1. CASE UNCHANGED ProcArray
    BY <2>1 DEF MInv, Typed, Inbox
  <2>2. CASE ProcArray' = [ProcArray EXCEPT ![q].State = "FULL_WAIT"]
    BY <2>2, StateIs, Numbers DEF MInv, Waiting
  <2> QED
    BY <1>2, <2>1, <2>2
<1> HIDE DEF m, p, how
<1>9. what \in {"SEND_ACK", "WAKE_ME"}
  OBVIOUS
<1>10. /\ kmsg' \in [KMsgs -> MessageRecords]
       /\ \A x \in KMsgs : /\ kmsg'[x].RemotePort = kmsg[x].RemotePort
                           /\ kmsg'[x].type = kmsg[x].type /\ kmsg'[x].port = kmsg[x].port
                           /\ x # m => kmsg'[x] = kmsg[x]
       /\ kmsg'[m].WakeupProc = q
  <2> HIDE DEF what
  <2> DEFINE c == [kmsg[m] EXCEPT !.WakeupProc = q, !.What = what]
  <2>1. kmsg \in [KMsgs -> MessageRecords] /\ q \in AllProcs
    BY Numbers DEF MInv, Typed
  <2>2. /\ c \in MessageRecords /\ c.RemotePort = kmsg[m].RemotePort /\ c.type = kmsg[m].type
        /\ c.port = kmsg[m].port /\ c.WakeupProc = q
    BY <1>3, <1>9, <2>1 DEF MessageRecords
  <2>3. kmsg' = [kmsg EXCEPT ![m] = c]
    BY <1>1, <1>3, <2>1
  <2> HIDE DEF c
  <2>4. kmsg' \in [KMsgs -> MessageRecords]
    BY <2>1, <2>2, <2>3
  <2>5. \A x \in KMsgs : kmsg'[x] = IF x = m THEN c ELSE kmsg[x]
    BY <2>1, <2>3
  <2> QED
    BY <1>3, <2>2, <2>4, <2>5
<1> DEFINE s == Append(Second(p), m)
<1>11. s \in Seq(KMsgs) /\ Range(s) = Range(Second(p)) \cup {m} /\ IsInjective(s)
  <2>1. Second(p) \in Seq(KMsgs) /\ IsInjective(Second(p)) /\ m \notin Range(Second(p))
    BY <1>4, <1>6, QueuesTyped DEF MInv, Once
  <2> QED
    BY <1>3, <2>1, RangeAppend
<1>12. /\ PortArray' \in [Ports -> PortRecords]
       /\ \A x \in Ports : PortArray'[x].InUse = PortArray[x].InUse
       /\ \A x \in Ports : Second(x)' = IF x = p THEN s ELSE Second(x)
  <2>1. PortArray' = [PortArray EXCEPT ![p].SecondaryMsgQ = s, ![p].NumQueued = @ + 1]
    BY <1>1 DEF Second
  <2> HIDE DEF s
  <2>2. PortArray \in [Ports -> PortRecords]
    BY DEF MInv, Typed
  <2>3. PortArray' = [PortArray EXCEPT ![p] =
                        [PortArray[p] EXCEPT !.SecondaryMsgQ = s, !.NumQueued = PortArray[p].NumQueued + 1]]
    BY <1>4, <2>1, <2>2 DEF PortRecords
  <2>4. PortArray[p] \in PortRecords /\ PortArray[p].NumQueued + 1 \in Int
    BY <1>4, <2>2 DEF PortRecords
  <2> DEFINE n == PortArray[p].NumQueued + 1
             c == [PortArray[p] EXCEPT !.SecondaryMsgQ = s, !.NumQueued = n]
  <2>5. c \in PortRecords /\ c.SecondaryMsgQ = s /\ c.InUse = PortArray[p].InUse
    <3> HIDE DEF n
    <3>1. n \in Int
      BY <2>4 DEF n
    <3> QED
      BY <1>11, <2>4, <3>1 DEF PortRecords
  <2>6. PortArray' = [PortArray EXCEPT ![p] = c]
    BY <2>3
  <2> HIDE DEF c
  <2> QED
    BY <1>4, <2>2, <2>5, <2>6 DEF Second
<1> HIDE DEF s
<1>13. Typed'
  <2>1. \A x \in KMsgs : /\ kmsg'[x].type # "none" => kmsg'[x].port \in Ports
                         /\ kmsg'[x].What # "DONT_WAKE" => kmsg'[x].WakeupProc \in Procs
    BY <1>10 DEF MInv, Typed
  <2>2. kmsg' \in [KMsgs -> MessageRecords]
    BY <1>10
  <2> QED
    BY <1>1, <1>7, <1>8, <1>12, <2>1, <2>2 DEF MInv, Typed
<1>14. Once'
  BY <1>1, <1>8, <1>11, <1>12 DEF MInv, Once
<1>15. Addressed'
  <2>1. kmsg'[m].RemotePort \in Ports
    BY <1>3, <1>4, <1>10 DEF p
  <2>2. \A r \in Procs : \A x \in KMsgs \ {m} : Posts(stack[r], x) => Posts(stack'[r], x)
    BY <1>5, <1>7
  <2> QED
    BY <1>1, <1>10, <2>1, <2>2 DEF MInv, Addressed
<1>16. Carrying'
  BY <1>7, <1>10, CarryingKept
<1>17. PortPlaced'
  BY <1>1, <1>5, <1>7, <1>12, PortsStay DEF MInv
<1>18. MoveTo({m}, "secondary", p)
  BY <1>1, <1>3, <1>4, <1>5, <1>6, <1>7, <1>8, <1>11, <1>12 DEF MoveTo
<1>19. Closed'
  BY <1>1, <1>12 DEF MInv, Closed, PostLater, Posting, p, m
<1> QED
  BY <1>7, <1>13, <1>14, <1>15, <1>16, <1>17, <1>18, <1>19, Moves


(* A sender that waited in vain takes its message out of the secondary     *)
(* queue, if it is there, and frees it.                                    *)
LEMMA WithdrawKeeps ==
  ASSUME MInv, NEW q \in Procs, Withdraw(q)
  PROVE  Kept
<1> DEFINE m == Top(q).kmsg
           p == Top(q).port
<1>1. /\ stack[q] # <<>> /\ Top(q).do = "FullWait" /\ Return(q)
      /\ UNCHANGED <<ProcArray, FreePortQ, FreeProcQ>>
  BY DEF Withdraw, At
<1>2. m \in KMsgs /\ p \in Ports
  BY <1>1, Popped, FrameIs
<1>3. CASE ~InSeq(m, PortArray[p].SecondaryMsgQ)
  <2>1. UNCHANGED <<PortArray, kmsg, FreeKMsgQ>>
    BY <1>3 DEF Withdraw
  <2> QED
    BY <1>1, <2>1, WaitEndKeeps DEF At
<1>4. CASE InSeq(m, PortArray[p].SecondaryMsgQ)
  <2>1. /\ PortArray' = [PortArray EXCEPT ![p].SecondaryMsgQ = Without(@, m), ![p].NumQueued = @ - 1]
        /\ Free(m)
    BY <1>4 DEF Withdraw
  <2>2. /\ \A x : ~Holds(stack[q], x) /\ ~Posts(stack[q], x)
        /\ \A x : ~Ending(stack[q], x)
    BY <1>1, LastIs DEF Lasts
  <2>3. /\ stack' \in [Procs -> Seq(Frames)] /\ Stacks'
        /\ \A r \in Procs \ {q} : stack'[r] = stack[r]
        /\ ~At(q, "LTran")'
        /\ \A x : ~Holds(stack'[q], x)
        /\ \A x : ~Ending(stack'[q], x)
    BY <1>1, Returned, NoFrames DEF MInv
  <2> HIDE DEF m, p
  <2>4. Second(p) \in Seq(KMsgs) /\ IsInjective(Second(p))
    BY <1>2, QueuesTyped DEF MInv, Once
  <2>5. m \in Range(Second(p))
    <3>1. PICK i \in 1 .. Len(Second(p)) : Second(p)[i] = m
      BY <1>4 DEF InSeq, Second
    <3>2. i \in DOMAIN Second(p)
      BY <2>4, LenProperties
    <3> QED
      BY <3>1, <3>2 DEF Range
  <2>6. In(m, "secondary", p) /\ "secondary" \in Kinds /\ p \in Slots
    BY <1>2, <2>5, Numbers DEF In, Kinds
  <2>7. /\ m \notin FreeKMsgQ
        /\ \A r \in Procs : ~Holds(stack[r], m)
        /\ \A r \in AllProcs : m \notin Range(Inbox(r))
        /\ \A x \in Ports : m \in Range(Second(x)) => x = p
    BY <1>2, <2>6, Alone
  <2>8. /\ kmsg' \in [KMsgs -> MessageRecords] /\ FreeKMsgQ' \in SUBSET KMsgs
        /\ \A x \in KMsgs \ {m} : kmsg'[x] = kmsg[x]
        /\ \A x \in KMsgs : x \in FreeKMsgQ' <=> x = m \/ x \in FreeKMsgQ
        /\ \A x \in KMsgs : /\ kmsg'[x].type # "none" => kmsg'[x].port \in Ports
                            /\ kmsg'[x].What # "DONT_WAKE" => kmsg'[x].WakeupProc \in Procs
    BY <1>2, <2>1, FreeIs DEF MInv
  <2> DEFINE s == Without(Second(p), m)
  <2>9. s \in Seq(KMsgs) /\ Range(s) = Range(Second(p)) \ {m} /\ IsInjective(s)
    BY <2>4, WithoutIs
  <2>10. /\ PortArray' \in [Ports -> PortRecords]
         /\ \A x \in Ports : PortArray'[x].InUse = PortArray[x].InUse
         /\ \A x \in Ports : Second(x)' = IF x = p THEN s ELSE Second(x)
    <3> DEFINE n == PortArray[p].NumQueued - 1
    <3>1. PortArray' = [PortArray EXCEPT ![p].SecondaryMsgQ = s, ![p].NumQueued = @ - 1]
      BY <2>1 DEF Second
    <3> HIDE DEF s
    <3>2. PortArray \in [Ports -> PortRecords]
      BY DEF MInv, Typed
    <3>3. PortArray' = [PortArray EXCEPT ![p] =
                          [PortArray[p] EXCEPT !.SecondaryMsgQ = s, !.NumQueued = n]]
      BY <1>2, <3>1, <3>2 DEF PortRecords
    <3>4. PortArray[p] \in PortRecords /\ n \in Int
      BY <1>2, <3>2 DEF PortRecords
    <3> HIDE DEF n
    <3> DEFINE c == [PortArray[p] EXCEPT !.SecondaryMsgQ = s, !.NumQueued = n]
    <3>5. c \in PortRecords /\ c.SecondaryMsgQ = s /\ c.InUse = PortArray[p].InUse
      BY <2>9, <3>4 DEF PortRecords
    <3>6. PortArray' = [PortArray EXCEPT ![p] = c]
      BY <3>3
    <3> HIDE DEF c
    <3> QED
      BY <1>2, <3>2, <3>5, <3>6 DEF Second
  <2> HIDE DEF s
  <2>11. Typed'
    BY <1>1, <2>3, <2>8, <2>10 DEF MInv, Typed
  <2>12. Once'
    BY <1>1, <2>9, <2>10 DEF MInv, Once, Inbox
  <2>13. Addressed'
    BY <2>2, <2>3, <2>8 DEF MInv, Addressed
  <2>14. Carrying'
    <3>1. \A r \in Procs \ {q} : \A x \in KMsgs : Holds(stack[r], x) => kmsg'[x].type = kmsg[x].type
      BY <2>7, <2>8
    <3> QED
      BY <2>3, <3>1, CarryingKept
  <2>15. PortPlaced'
    BY <1>1, <2>2, <2>3, <2>10, PortsStay DEF MInv
  <2>16. MoveTo({m}, "free", 0)
    BY <1>1, <1>2, <2>2, <2>3, <2>7, <2>8, <2>9, <2>10 DEF MoveTo, Inbox
  <2>17. Closed'
    <3>1. PortArray[p].InUse
      BY <1>2, <2>4, <2>5, RangeEmpty DEF MInv, Closed
    <3> QED
      BY <2>10, <3>1 DEF MInv, Closed
  <2> QED
    BY <2>3, <2>11, <2>12, <2>13, <2>14, <2>15, <2>16, <2>17, Moves
<1> QED
  BY <1>3, <1>4


-----------------------------------------------------------------------------
(* Receiving.                                                              *)

(* what a receive may look for: LocalPt of a port the process cannot       *)
(* receive from looks for NullPort                                         *)
Looks == Receives \cup {[r EXCEPT !.local = NullPort] : r \in Receives}


(* It waits, for a time or not, or does not wait.                          *)
LEMMA LooksAre ==
  ASSUME NEW r \in Looks
  PROVE  r.how \in {"Wait", "Timed", "Immediate"}
<1>1. Receives \subseteq [proc : Procs, ports : {"AllPts", "LocalPt", "DefaultPts"},
                          local : Ports \cup {NullPort}, how : {"Wait", "Timed", "Immediate"}]
  BY MessagesAssumption
<1> QED
  BY <1>1 DEF Looks


(* A receive that finds nothing changes State and waits or returns.        *)
LEMMA NoWaitKeeps ==
  ASSUME MInv, NEW q \in Procs,
         \A x : ~Holds(stack[q], x) /\ ~Posts(stack[q], x), \A p : ~Ending(stack[q], p),
         stack' \in [Procs -> Seq(Frames)], Stacks',
         \A r \in Procs \ {q} : stack'[r] = stack[r],
         ~At(q, "LTran")',
         \A x : ~Holds(stack'[q], x), \A p : ~Ending(stack'[q], p),
         NEW s \in {"NOT_WAITING", "TIMED_OUT"} \cup Waiting,
         ProcArray' = [ProcArray EXCEPT ![q].State = s],
         UNCHANGED <<PortArray, kmsg, FreeKMsgQ, FreePortQ, FreeProcQ>>
  PROVE  Kept
<1>1. /\ ProcArray' \in [AllProcs -> ProcRecords]
      /\ \A r \in AllProcs : /\ Inbox(r)' = Inbox(r)
                             /\ ProcArray'[r].Active = ProcArray[r].Active
                             /\ ProcArray'[r].DataPort = ProcArray[r].DataPort
  BY StateIs, Numbers DEF MInv
<1>2. Typed'
  BY <1>1 DEF MInv, Typed
<1> QED
  BY <1>1, <1>2, Quiet DEF Second


(* A receive takes a message out of the process's inbox.                   *)
LEMMA TakeKeeps ==
  ASSUME MInv, NEW q \in Procs,
         \A x : ~Holds(stack[q], x) /\ ~Posts(stack[q], x), \A p : ~Ending(stack[q], p),
         NEW m \in Range(Inbox(q)),
         ProcArray' = [ProcArray EXCEPT ![q].MsgsWaiting = Without(@, m)],
         stack' = [stack EXCEPT ![q] = <<[do |-> "Taken", kmsg |-> m, port |-> kmsg[m].RemotePort]>>],
         UNCHANGED <<PortArray, kmsg, FreeKMsgQ, FreePortQ, FreeProcQ>>
  PROVE  Kept
<1> DEFINE p == kmsg[m].RemotePort
           g == [do |-> "Taken", kmsg |-> m, port |-> p]
           s == Without(Inbox(q), m)
<1>1. q \in AllProcs /\ q \in Slots
  BY Numbers
<1>2. m \in KMsgs /\ Inbox(q) \in Seq(KMsgs) /\ IsInjective(Inbox(q))
  BY <1>1, QueuesTyped DEF MInv, Once
<1>3. In(m, "primary", q) /\ "primary" \in Kinds
  BY <1>1 DEF In, Kinds
<1>4. /\ m \notin FreeKMsgQ
      /\ \A r \in Procs : ~Holds(stack[r], m)
      /\ \A r \in AllProcs : m \in Range(Inbox(r)) => r = q
      /\ \A x \in Ports : m \notin Range(Second(x))
  BY <1>1, <1>2, <1>3, Alone
<1>5. p \in Ports
  <2>1. \A r \in Procs : ~Posts(stack[r], m)
    BY <1>4 DEF Posts, Holds, Holding
  <2> QED
    BY <1>2, <1>4, <2>1 DEF MInv, Addressed
<1>6. g \in Frames /\ g.do \in Holding \ {"LTran", "Notify", "Post"} /\ g.kmsg = m
  BY <1>2, <1>5, FramesMade DEF Holding
<1>7. stack' = [stack EXCEPT ![q] = <<g>>]
  OBVIOUS
<1> HIDE DEF g, p
<1>8. /\ stack' \in [Procs -> Seq(Frames)] /\ Stacks'
      /\ \A r \in Procs \ {q} : stack'[r] = stack[r]
      /\ ~At(q, "LTran")'
      /\ \A x : Holds(stack'[q], x) <=> x = m
      /\ \A x : ~Ending(stack'[q], x)
  BY <1>6, <1>7, Replaced
<1>9. s \in Seq(KMsgs) /\ Range(s) = Range(Inbox(q)) \ {m} /\ IsInjective(s)
  BY <1>2, WithoutIs
<1>10. ProcArray' = [ProcArray EXCEPT ![q].MsgsWaiting = s]
  BY DEF Inbox
<1> HIDE DEF s
<1>11. /\ ProcArray' \in [AllProcs -> ProcRecords]
       /\ \A r \in AllProcs : /\ Inbox(r)' = IF r = q THEN s ELSE Inbox(r)
                              /\ ProcArray'[r].Active = ProcArray[r].Active
                              /\ ProcArray'[r].DataPort = ProcArray[r].DataPort
  <2>1. ProcArray \in [AllProcs -> ProcRecords]
    BY DEF MInv, Typed
  <2>2. ProcArray' \in [AllProcs -> ProcRecords]
    BY <1>1, <1>9, <1>10, <2>1 DEF ProcRecords
  <2>3. \A r \in AllProcs \ {q} : ProcArray'[r] = ProcArray[r]
    BY <1>10, <2>1
  <2>4. /\ ProcArray'[q].MsgsWaiting = s /\ ProcArray'[q].Active = ProcArray[q].Active
        /\ ProcArray'[q].DataPort = ProcArray[q].DataPort
    BY <1>1, <1>10, <2>1 DEF ProcRecords
  <2> QED
    BY <2>2, <2>3, <2>4 DEF Inbox
<1>12. Typed'
  BY <1>8, <1>11 DEF MInv, Typed
<1>13. Once'
  BY <1>9, <1>11 DEF MInv, Once, Second
<1>14. Addressed'
  BY <1>8, AddressedKept DEF MInv
<1>15. Carrying'
  BY <1>8, CarryingKept
<1>16. PortPlaced'
  BY <1>8, PortsStay DEF MInv
<1>17. MoveTo({m}, "call", q)
  BY <1>1, <1>2, <1>4, <1>8, <1>9, <1>11 DEF MoveTo, Second
<1>18. Closed'
  BY DEF MInv, Closed, Second
<1> QED
  BY <1>8, <1>12, <1>13, <1>14, <1>15, <1>16, <1>17, <1>18, Moves


(* Look does one or the other.                                             *)
LEMMA LookKeeps ==
  ASSUME MInv, NEW q \in Procs, NEW r \in Looks, Look(q, r),
         \A x : ~Holds(stack[q], x) /\ ~Posts(stack[q], x), \A p : ~Ending(stack[q], p),
         UNCHANGED <<PortArray, kmsg, FreeKMsgQ, FreePortQ, FreeProcQ>>
  PROVE  Kept
<1> DEFINE waiting == ProcArray[q].MsgsWaiting
           found == {i \in 1 .. Len(waiting) : Wanted(waiting[i], r)}
           k == CHOOSE i \in found : \A j \in found : i <= j
           m == waiting[k]
<1>1. CASE found # {}
  <2>1. /\ ProcArray' = [ProcArray EXCEPT ![q].MsgsWaiting = Without(@, m)]
        /\ stack' = [stack EXCEPT ![q] = <<[do |-> "Taken", kmsg |-> m, port |-> kmsg[m].RemotePort]>>]
    BY <1>1 DEF Look
  <2>2. waiting \in Seq(KMsgs) /\ waiting = Inbox(q)
    BY QueuesTyped, Numbers DEF MInv, Inbox
  <2>3. Len(waiting) \in Nat /\ DOMAIN waiting = 1 .. Len(waiting)
    BY <2>2, LenProperties
  <2>4. found \in SUBSET (0 .. Len(waiting))
    BY <2>3
  <2>5. k \in found
    <3> HIDE DEF found
    <3>1. \E i \in found : \A j \in found : i <= j
      BY <1>1, <2>3, <2>4, LeastUpto
    <3> QED
      BY <3>1
  <2>6. m \in Range(Inbox(q))
    <3> HIDE DEF k
    <3> QED
      BY <2>2, <2>3, <2>5 DEF Range
  <2> HIDE DEF m
  <2> QED
    BY <2>1, <2>6, TakeKeeps
<1>2. CASE found = {} /\ r.how = "Immediate"
  <2>1. ProcArray' = [ProcArray EXCEPT ![q].State = "TIMED_OUT"] /\ Return(q)
    BY <1>2 DEF Look
  <2>2. /\ stack' \in [Procs -> Seq(Frames)] /\ Stacks'
        /\ \A x \in Procs \ {q} : stack'[x] = stack[x]
        /\ ~At(q, "LTran")'
        /\ \A x : ~Holds(stack'[q], x)
        /\ \A x : ~Ending(stack'[q], x)
    BY <2>1, Returned, NoFrames DEF MInv
  <2> QED
    BY <2>1, <2>2, NoWaitKeeps
<1>3. CASE found = {} /\ r.how # "Immediate"
  <2> DEFINE g == [do |-> "MsgWait", for |-> r, how |-> r.how, signalled |-> FALSE]
  <2>1. ProcArray' = [ProcArray EXCEPT ![q].State = "MSG_WAIT"] /\ stack' = [stack EXCEPT ![q] = <<g>>]
    BY <1>3 DEF Look
  <2>2. r.how \in {"Wait", "Timed"}
    BY <1>3, LooksAre
  <2>3. g \in Frames /\ g.do \notin Holding \cup {"LTran", "Notify", "Post"}
    BY <2>2, WaitFrames DEF Holding, Looks
  <2> HIDE DEF g
  <2>4. /\ stack' \in [Procs -> Seq(Frames)] /\ Stacks'
        /\ \A x \in Procs \ {q} : stack'[x] = stack[x]
        /\ ~At(q, "LTran")'
        /\ \A x : ~Holds(stack'[q], x)
        /\ \A x : ~Ending(stack'[q], x)
    BY <2>1, <2>3, Replaced
  <2>5. "MSG_WAIT" \in {"NOT_WAITING", "TIMED_OUT"} \cup Waiting
    BY DEF Waiting
  <2> QED
    BY <2>1, <2>4, <2>5, NoWaitKeeps
<1> QED
  BY <1>1, <1>2, <1>3


(* TPReceive looks at once, ...                                            *)
LEMMA TPReceiveKeeps ==
  ASSUME MInv, NEW r \in Receives, TPReceive(r)
  PROVE  Kept
<1>1. r.proc \in Procs
  BY MessagesAssumption
<1>2. PICK l \in Looks : Look(r.proc, l)
  <2> DEFINE l == [r EXCEPT !.local = FastLTran(r.proc, @)]
             n == [r EXCEPT !.local = NullPort]
  <2>1. Look(r.proc, r) \/ Look(r.proc, l)
    BY DEF TPReceive
  <2>2. r \in Looks /\ n \in Looks
    BY DEF Looks
  <2>3. l \in {r, n}
    <3>1. r.local \in Ports /\ r.proc \in PortArray[r.local].Senders => l = [r EXCEPT !.local = r.local]
      BY DEF FastLTran
    <3>2. ~(r.local \in Ports /\ r.proc \in PortArray[r.local].Senders) => l = n
      BY DEF FastLTran
    <3>3. [r EXCEPT !.local = r.local] = r
      BY MessagesAssumption
    <3> QED
      BY <3>1, <3>2, <3>3
  <2> HIDE DEF l, n
  <2> QED
    BY <2>1, <2>2, <2>3
<1>3. stack[r.proc] = <<>> /\ UNCHANGED <<PortArray, kmsg, FreeKMsgQ, FreePortQ, FreeProcQ>>
  BY DEF TPReceive, Idle
<1>4. /\ \A x : ~Holds(stack[r.proc], x) /\ ~Posts(stack[r.proc], x)
      /\ \A p : ~Ending(stack[r.proc], p)
  BY <1>3, NoFrames
<1> QED
  BY <1>1, <1>2, <1>3, <1>4, LookKeeps


(* ... and LookAgain after a wait.                                         *)
LEMMA LookAgainKeeps ==
  ASSUME MInv, NEW q \in Procs, LookAgain(q)
  PROVE  Kept
<1>1. /\ stack[q] # <<>> /\ Top(q).do = "MsgWait" /\ Look(q, Top(q).for)
      /\ UNCHANGED <<PortArray, kmsg, FreeKMsgQ, FreePortQ, FreeProcQ>>
  BY DEF LookAgain, At
<1>2. /\ \A x : ~Holds(stack[q], x) /\ ~Posts(stack[q], x)
      /\ \A p : ~Ending(stack[q], p)
  BY <1>1, LastIs DEF Lasts
<1>3. Top(q).for \in Looks
  <2>1. Top(q) \in [do : {"MsgWait"}, for : Looks, how : {"Wait", "Timed"}, signalled : BOOLEAN]
    BY <1>1, Popped, FrameIs DEF Looks
  <2> QED
    BY <2>1
<1> QED
  BY <1>1, <1>2, <1>3, LookKeeps


(* The frames between taking a message and copying it out keep it in hand. *)
LEMMA Delivered ==
  ASSUME MInv, NEW q \in Procs, stack[q] # <<>>, Top(q).do \in {"Taken", "Answer"},
         NEW do \in {"Answer", "CopyOut"}, Then(q, <<Frame(do, Top(q).kmsg)>>)
  PROVE  /\ stack' \in [Procs -> Seq(Frames)] /\ Stacks'
         /\ \A r \in Procs \ {q} : stack'[r] = stack[r]
         /\ ~At(q, "LTran")'
         /\ \A m : Holds(stack'[q], m) <=> Holds(stack[q], m)
         /\ \A m : Posts(stack[q], m) => Posts(stack'[q], m)
         /\ \A p : Ending(stack'[q], p) <=> Ending(stack[q], p)
<1> DEFINE m == Top(q).kmsg
           g == Frame(do, m)
<1>1. Top(q).do \in Holding \ {"LTran", "Post"}
  BY DEF Holding
<1>2. m \in KMsgs
  BY <1>1, TopHeld
<1>3. g \in Frames /\ g.do \in Holding \ ({"LTran", "Notify"} \cup Lasts) /\ g.kmsg = m
  BY <1>2, FramesMade DEF Frame, Holding, Lasts
<1>4. Then(q, <<g>>)
  OBVIOUS
<1> HIDE DEF g
<1>5. /\ <<g>> \in Seq(Frames) /\ StackOK(<<g>>)
      /\ \A i \in 1 .. Len(<<g>>) : <<g>>[i].do \notin Lasts \cup {"LTran"}
      /\ \A x : Holds(<<g>>, x) <=> x = m
      /\ \A p : ~Ending(<<g>>, p)
  BY <1>3, OneFrame
<1> QED
  BY <1>1, <1>4, <1>5, InHand


(* MoveUp takes the first message of the port's secondary queue to the     *)
(* inbox of the process that receives, whoever the port's receiver is by   *)
(* now.                                                                    *)
LEMMA MoveUpKeeps ==
  ASSUME MInv, NEW q \in Procs, MoveUp(q)
  PROVE  Kept
<1> DEFINE m == Top(q).kmsg
           p == Top(q).port
           more == PortArray[p].SecondaryMsgQ
           n == IF kmsg[m].emerg THEN PortArray[p].NumQueued ELSE PortArray[p].NumQueued - 1
           do == IF kmsg[m].What = "DONT_WAKE" THEN "CopyOut" ELSE "Answer"
           rest == IF more = <<>> THEN more ELSE Tail(more)
           c == [PortArray[p] EXCEPT !.NumQueued = n, !.SecondaryMsgQ = rest]
<1>1. /\ stack[q] # <<>> /\ Top(q).do = "Taken" /\ Then(q, <<Frame(do, m)>>)
      /\ UNCHANGED <<kmsg, FreeKMsgQ, FreePortQ, FreeProcQ>>
  BY DEF MoveUp, At
<1>2. /\ PortArray' = [PortArray EXCEPT ![p].NumQueued = IF kmsg[m].emerg THEN @ ELSE @ - 1,
                                        ![p].SecondaryMsgQ = IF more = <<>> THEN @ ELSE Tail(@)]
      /\ ProcArray' = IF more = <<>> THEN ProcArray
                      ELSE [ProcArray EXCEPT ![q].MsgsWaiting = Append(@, Head(more))]
  BY DEF MoveUp
<1>3. m \in KMsgs /\ p \in Ports
  BY <1>1, Popped, FrameIs DEF Holding
<1>4. do \in {"Answer", "CopyOut"}
  OBVIOUS
<1>5. /\ stack' \in [Procs -> Seq(Frames)] /\ Stacks'
      /\ \A r \in Procs \ {q} : stack'[r] = stack[r]
      /\ ~At(q, "LTran")'
      /\ \A x : Holds(stack'[q], x) <=> Holds(stack[q], x)
      /\ \A x : Posts(stack[q], x) => Posts(stack'[q], x)
      /\ \A x : Ending(stack'[q], x) <=> Ending(stack[q], x)
  BY <1>1, <1>4, Delivered
<1>6. PortArray \in [Ports -> PortRecords] /\ ProcArray \in [AllProcs -> ProcRecords] /\ q \in AllProcs
  BY Numbers DEF MInv, Typed
<1> HIDE DEF m, p, do
<1>7. n \in Int /\ PortArray[p] \in PortRecords
  BY <1>3, <1>6 DEF PortRecords
<1>8. PortArray' = [PortArray EXCEPT ![p] = c]
  BY <1>2, <1>3, <1>6 DEF PortRecords
<1> HIDE DEF n
<1>9. more \in Seq(KMsgs) /\ IsInjective(more) /\ more = Second(p)
  BY <1>3, QueuesTyped DEF MInv, Once, Second
<1>10. rest \in Seq(KMsgs) /\ IsInjective(rest)
  BY <1>9, RangeTail
<1> HIDE DEF rest
<1>11. c \in PortRecords /\ c.SecondaryMsgQ = rest /\ c.InUse = PortArray[p].InUse
  BY <1>7, <1>10 DEF PortRecords
<1> HIDE DEF c
<1>12. /\ PortArray' \in [Ports -> PortRecords]
       /\ \A x \in Ports : PortArray'[x].InUse = PortArray[x].InUse
       /\ \A x \in Ports : Second(x)' = IF x = p THEN rest ELSE Second(x)
  BY <1>3, <1>6, <1>8, <1>11 DEF Second
<1> HIDE DEF more
<1>13. CASE more = <<>>
  <2>1. rest = more /\ UNCHANGED ProcArray
    BY <1>2, <1>13 DEF rest
  <2>2. \A x \in Ports : Second(x)' = Second(x)
    BY <1>9, <1>12, <2>1
  <2>3. Typed'
    BY <1>1, <1>5, <1>12, <2>1 DEF MInv, Typed
  <2> QED
    BY <1>1, <1>5, <1>12, <2>1, <2>2, <2>3, Quiet DEF Inbox
<1>14. CASE more # <<>>
  <2> DEFINE h == Head(more)
             s == Append(Inbox(q), h)
  <2>1. h \in Range(more) /\ Range(rest) = Range(more) \ {h}
    BY <1>9, <1>14, RangeTail DEF rest
  <2>2. h \in KMsgs
    BY <1>3, <1>9, <2>1, QueuesTyped DEF MInv
  <2>3. In(h, "secondary", p) /\ "secondary" \in Kinds /\ p \in Slots
    BY <1>3, <1>9, <2>1, Numbers DEF In, Kinds
  <2>3a. ProcArray' = [ProcArray EXCEPT ![q].MsgsWaiting = s]
    BY <1>2, <1>14 DEF Inbox
  <2> HIDE DEF h
  <2>4. /\ h \notin FreeKMsgQ
        /\ \A r \in Procs : ~Holds(stack[r], h)
        /\ \A r \in AllProcs : h \notin Range(Inbox(r))
        /\ \A x \in Ports : h \in Range(Second(x)) => x = p
    BY <2>2, <2>3, Alone
  <2>5. s \in Seq(KMsgs) /\ Range(s) = Range(Inbox(q)) \cup {h} /\ IsInjective(s)
    <3>1. Inbox(q) \in Seq(KMsgs) /\ IsInjective(Inbox(q)) /\ h \notin Range(Inbox(q))
      BY <1>6, <2>4, QueuesTyped DEF MInv, Once
    <3> QED
      BY <2>2, <3>1, RangeAppend
  <2> HIDE DEF s
  <2>6. /\ ProcArray' \in [AllProcs -> ProcRecords]
        /\ \A r \in AllProcs : /\ Inbox(r)' = IF r = q THEN s ELSE Inbox(r)
                               /\ ProcArray'[r].Active = ProcArray[r].Active
                               /\ ProcArray'[r].DataPort = ProcArray[r].DataPort
    <3>1. ProcArray' \in [AllProcs -> ProcRecords]
      BY <1>6, <2>3a, <2>5 DEF ProcRecords
    <3>2. \A r \in AllProcs \ {q} : ProcArray'[r] = ProcArray[r]
      BY <1>6, <2>3a
    <3>3. /\ ProcArray'[q].MsgsWaiting = s /\ ProcArray'[q].Active = ProcArray[q].Active
          /\ ProcArray'[q].DataPort = ProcArray[q].DataPort
      BY <1>6, <2>3a DEF ProcRecords
    <3> QED
      BY <3>1, <3>2, <3>3 DEF Inbox
  <2>7. Typed'
    BY <1>1, <1>5, <1>12, <2>6 DEF MInv, Typed
  <2>8. Once'
    BY <1>1, <1>10, <1>12, <2>5, <2>6 DEF MInv, Once
  <2>9. Addressed'
    BY <1>1, <1>5, AddressedKept DEF MInv
  <2>10. Carrying'
    BY <1>1, <1>5, CarryingKept
  <2>11. PortPlaced'
    BY <1>1, <1>5, <1>12, PortsStay DEF MInv
  <2>12. MoveTo({h}, "primary", q)
    BY <1>1, <1>5, <1>6, <1>9, <1>12, <2>1, <2>2, <2>4, <2>5, <2>6 DEF MoveTo
  <2>13. Closed'
    BY <1>3, <1>9, <1>12, <1>14 DEF MInv, Closed
  <2> QED
    BY <1>5, <2>7, <2>8, <2>9, <2>10, <2>11, <2>12, <2>13, Moves
<1> QED
  BY <1>13, <1>14


(* Answer wakes the sender or acknowledges.                                *)
LEMMA AnswerKeeps ==
  ASSUME MInv, NEW q \in Procs, Answer(q)
  PROVE  Kept
<1> DEFINE m == Top(q).kmsg
           who == kmsg[m].WakeupProc
<1>1. stack[q] # <<>> /\ Top(q).do = "Answer" /\ UNCHANGED <<FreeKMsgQ, FreePortQ, FreeProcQ>>
  BY DEF Answer, At
<1>2. m \in KMsgs
  BY <1>1, TopHeld DEF Holding
<1>3. CASE kmsg[m].What = "WAKE_ME"
  <2>1. /\ ProcArray' = IPCWakeup(ProcArray, who)
        /\ kmsg' = [kmsg EXCEPT ![m].What = "DONT_WAKE"]
        /\ Then(q, <<Frame("CopyOut", m)>>) /\ UNCHANGED PortArray
    BY <1>3 DEF Answer
  <2>2. who \in AllProcs
    BY <1>2, <1>3, Numbers DEF MInv, Typed
  <2>3. /\ ProcArray' \in [AllProcs -> ProcRecords]
        /\ \A r \in AllProcs : /\ Inbox(r)' = Inbox(r)
                               /\ ProcArray'[r].Active = ProcArray[r].Active
                               /\ ProcArray'[r].DataPort = ProcArray[r].DataPort
    BY <2>1, <2>2, WakeupIs DEF MInv, Inbox
  <2>4. /\ kmsg' \in [KMsgs -> MessageRecords]
        /\ \A x \in KMsgs : /\ kmsg'[x].RemotePort = kmsg[x].RemotePort
                            /\ kmsg'[x].type = kmsg[x].type /\ kmsg'[x].port = kmsg[x].port
                            /\ kmsg'[x].WakeupProc = kmsg[x].WakeupProc
                            /\ kmsg'[x].What # "DONT_WAKE" => kmsg'[x].What = kmsg[x].What
    BY <1>2, <2>1, AnsweredIs DEF MInv
  <2>5. /\ stack' \in [Procs -> Seq(Frames)] /\ Stacks'
        /\ \A r \in Procs \ {q} : stack'[r] = stack[r]
        /\ ~At(q, "LTran")'
        /\ \A x : Holds(stack'[q], x) <=> Holds(stack[q], x)
        /\ \A x : Posts(stack[q], x) => Posts(stack'[q], x)
        /\ \A x : Ending(stack'[q], x) <=> Ending(stack[q], x)
    BY <1>1, <2>1, Delivered
  <2>a. \A x \in KMsgs : /\ kmsg'[x].type # "none" => kmsg'[x].port \in Ports
                         /\ kmsg'[x].What # "DONT_WAKE" => kmsg'[x].WakeupProc \in Procs
    <3>1. \A x \in KMsgs : /\ kmsg[x].type # "none" => kmsg[x].port \in Ports
                           /\ kmsg[x].What # "DONT_WAKE" => kmsg[x].WakeupProc \in Procs
      BY DEF MInv, Typed
    <3> QED
      BY <2>4, <3>1
  <2>6. Typed'
    BY <1>1, <2>1, <2>3, <2>4, <2>5, <2>a DEF MInv, Typed
  <2>7. \A x \in KMsgs : kmsg'[x].RemotePort = kmsg[x].RemotePort /\ kmsg'[x].type = kmsg[x].type
    BY <2>4
  <2> QED
    BY <1>1, <2>1, <2>3, <2>5, <2>6, <2>7, Quiet DEF Second
<1>4. CASE kmsg[m].What # "WAKE_ME"
  BY <1>1, <1>4, AcknowledgeKeeps DEF Answer
<1> QED
  BY <1>3, <1>4


(* CopyOut gives the receiver the rights in the message, which stays in    *)
(* hand until it is released.                                              *)
LEMMA CopyOutKeeps ==
  ASSUME MInv, NEW q \in Procs, CopyOut(q)
  PROVE  Kept
<1> DEFINE m == Top(q).kmsg
           f == [do |-> "GTran", type |-> kmsg[m].type, port |-> kmsg[m].port]
           g == Frame("Release", m)
<1>1. /\ stack[q] # <<>> /\ Top(q).do \in Holding \ {"LTran", "Post"}
      /\ FastGTrans(q, {kmsg[m].LocalPort, kmsg[m].RemotePort}) \/ UNCHANGED PortArray
      /\ UNCHANGED <<ProcArray, kmsg, FreeKMsgQ, FreePortQ, FreeProcQ>>
  BY DEF CopyOut, At, Holding
<1>1a. PICK s : Then(q, s) /\ (s = <<g>> \/ (kmsg[m].type # "none" /\ s = <<f, g>>))
  BY DEF CopyOut
<1>2. m \in KMsgs
  BY <1>1, TopHeld
<1>3. kmsg[m].type # "none" => f \in Plain
  <2>1. kmsg[m].type \in Rights
    BY <1>2 DEF MInv, Typed, MessageRecords
  <2>2. kmsg[m].type # "none" => kmsg[m].port \in Ports
    BY <1>2 DEF MInv, Typed
  <2> QED
    BY <2>1, <2>2, FramesMade DEF Plain, Holding, Lasts
<1>4. g \in Frames /\ g.do \in Holding \ ({"LTran", "Notify"} \cup Lasts) /\ g.kmsg = m
  BY <1>2, FramesMade DEF Frame, Holding, Lasts
<1>5. f.do \notin Lasts \cup {"LTran"}
  BY DEF Lasts
<1> HIDE DEF f, g
<1>8. /\ s \in Seq(Frames) /\ StackOK(s)
      /\ \A i \in 1 .. Len(s) : s[i].do \notin Lasts \cup {"LTran"}
      /\ \A x : Holds(s, x) <=> x = m
      /\ \A x : ~Ending(s, x)
  <2>1. CASE s = <<g>>
    <3>1. /\ <<g>> \in Seq(Frames) /\ StackOK(<<g>>)
          /\ \A i \in 1 .. Len(<<g>>) : <<g>>[i].do \notin Lasts \cup {"LTran"}
          /\ \A x : Holds(<<g>>, x) <=> x = m
          /\ \A x : ~Ending(<<g>>, x)
      BY <1>4, OneFrame
    <3> QED
      BY <2>1, <3>1
  <2>2. CASE kmsg[m].type # "none" /\ s = <<f, g>>
    <3>1. /\ <<f, g>> \in Seq(Frames) /\ StackOK(<<f, g>>)
          /\ \A i \in 1 .. Len(<<f, g>>) : <<f, g>>[i] \in {f, g}
          /\ \A x : Holds(<<f, g>>, x) <=> x = m
          /\ \A x : ~Ending(<<f, g>>, x)
      BY <1>3, <1>4, <2>2, TwoFrames
    <3>2. \A i \in 1 .. Len(<<f, g>>) : <<f, g>>[i].do \notin Lasts \cup {"LTran"}
      BY <1>4, <1>5, <3>1
    <3> QED
      BY <2>2, <3>1, <3>2
  <2> QED
    BY <1>1a, <2>1, <2>2
<1>9. /\ stack' \in [Procs -> Seq(Frames)] /\ Stacks'
      /\ \A r \in Procs \ {q} : stack'[r] = stack[r]
      /\ ~At(q, "LTran")'
      /\ \A x : Holds(stack'[q], x) <=> Holds(stack[q], x)
      /\ \A x : Posts(stack[q], x) => Posts(stack'[q], x)
      /\ \A x : Ending(stack'[q], x) <=> Ending(stack[q], x)
  BY <1>1, <1>1a, <1>8, InHand
<1>10. /\ PortArray' \in [Ports -> PortRecords]
       /\ \A x \in Ports : Second(x)' = Second(x) /\ PortArray'[x].InUse = PortArray[x].InUse
  BY <1>1, GTransIs DEF MInv, Typed, Second
<1>11. Typed'
  BY <1>1, <1>9, <1>10 DEF MInv, Typed
<1> QED
  BY <1>1, <1>9, <1>10, <1>11, Quiet DEF Inbox


(* GiveReceiveRights moves all the port's messages from the old receiver's *)
(* inbox to the new one's, which may be the same process, or none.         *)
LEMMA RightsFollowed ==
  ASSUME MInv, NEW q \in Procs, GiveReceiveRights(q)
  PROVE  /\ ProcArray' \in [AllProcs -> ProcRecords] /\ PortArray' \in [Ports -> PortRecords]
         /\ \A r \in AllProcs : /\ IsInjective(Inbox(r)')
                                /\ ProcArray'[r].Active = ProcArray[r].Active
                                /\ ProcArray'[r].DataPort = ProcArray[r].DataPort
         /\ \A x \in Range(Primary(Top(q).port)) :
              /\ x \in KMsgs /\ x \notin FreeKMsgQ
              /\ \A r \in Procs : ~Holds(stack[r], x)
              /\ \A y \in Ports : x \notin Range(Second(y))
         /\ \A x \in KMsgs : \A r \in AllProcs :
              x \in Range(Inbox(r)') <=> IF x \in Range(Primary(Top(q).port)) THEN r = Top(q).to
                                        ELSE x \in Range(Inbox(r))
         /\ \A x \in Ports : /\ PortArray'[x].InUse = PortArray[x].InUse /\ Second(x)' = Second(x)
                             /\ PortArray'[x].NumQueued = PortArray[x].NumQueued
                             /\ PortArray'[x].Backlog = PortArray[x].Backlog
                             /\ PortArray'[x].Receiver = IF x = Top(q).port THEN Top(q).to
                                                         ELSE PortArray[x].Receiver
<1> DEFINE p == Top(q).port
           to == Top(q).to
           old == PortArray[p].Receiver
           M == Range(Primary(p))
           stay == Those(Inbox(old), KMsgs \ MsgsTo(p))
           left == [ProcArray EXCEPT ![old].MsgsWaiting = stay]
           s == left[to].MsgsWaiting \o Primary(p)
<1>1. p \in Ports /\ to \in AllProcs /\ stack[q] # <<>>
  BY TopIs, FrameIs DEF MInv, GiveReceiveRights, At, Holding, Lasts
<1>2. /\ ProcArray' = [left EXCEPT ![to].MsgsWaiting = s]
      /\ PortArray' = [PortArray EXCEPT ![p].Receiver = to]
  BY DEF GiveReceiveRights, Inbox
<1>3. old \in AllProcs /\ ProcArray \in [AllProcs -> ProcRecords] /\ PortArray \in [Ports -> PortRecords]
  BY <1>1 DEF MInv, Typed, PortRecords
<1>4. /\ Primary(p) \in Seq(KMsgs) /\ IsInjective(Primary(p)) /\ M \subseteq KMsgs
      /\ M = Range(Inbox(old)) \cap MsgsTo(p)
  BY <1>1, <1>3, PrimaryIs, QueuesTyped DEF MInv, Once
<1>6. \A r \in AllProcs : Inbox(r) \in Seq(KMsgs) /\ IsInjective(Inbox(r)) /\ Range(Inbox(r)) \subseteq KMsgs
  BY QueuesTyped DEF MInv, Once
<1>7. stay \in Seq(KMsgs) /\ IsInjective(stay) /\ Range(stay) = Range(Inbox(old)) \ M
  <2>1. stay \in Seq(KMsgs) /\ IsInjective(stay) /\ Range(stay) = Range(Inbox(old)) \cap (KMsgs \ MsgsTo(p))
    BY <1>3, <1>6, ThoseIs
  <2> QED
    BY <1>3, <1>4, <1>6, <2>1
<1> HIDE DEF p, to, M, stay
<1>8. /\ left \in [AllProcs -> ProcRecords]
      /\ \A r \in AllProcs : /\ left[r].MsgsWaiting = IF r = old THEN stay ELSE Inbox(r)
                             /\ left[r].Active = ProcArray[r].Active
                             /\ left[r].DataPort = ProcArray[r].DataPort
  <2>1. left \in [AllProcs -> ProcRecords]
    BY <1>3, <1>7 DEF ProcRecords
  <2>2. \A r \in AllProcs \ {old} : left[r] = ProcArray[r]
    BY <1>3
  <2>3. /\ left[old].MsgsWaiting = stay /\ left[old].Active = ProcArray[old].Active
        /\ left[old].DataPort = ProcArray[old].DataPort
    BY <1>3 DEF ProcRecords
  <2> HIDE DEF left
  <2> QED
    BY <2>1, <2>2, <2>3 DEF Inbox
<1>9. \A x \in M : In(x, "primary", old)
  BY <1>3, <1>4 DEF In
<1>10. \A x \in M : /\ x \notin FreeKMsgQ
                    /\ \A r \in Procs : ~Holds(stack[r], x)
                    /\ \A r \in AllProcs : x \in Range(Inbox(r)) => r = old
                    /\ \A y \in Ports : x \notin Range(Second(y))
  <2>1. "primary" \in Kinds /\ old \in Slots
    BY <1>3, Numbers DEF Kinds
  <2> QED
    BY <1>4, <1>9, <2>1, Alone
<1> HIDE DEF left
<1>11. /\ s \in Seq(KMsgs) /\ IsInjective(s)
       /\ Range(s) = IF to = old THEN Range(Inbox(to)) ELSE Range(Inbox(to)) \cup M
  <2> DEFINE t == left[to].MsgsWaiting
  <2>1. t \in Seq(KMsgs) /\ IsInjective(t) /\ Range(t) = IF to = old THEN Range(Inbox(to)) \ M ELSE Range(Inbox(to))
    BY <1>1, <1>6, <1>7, <1>8
  <2>2. Range(t) \cap Range(Primary(p)) = {}
    BY <1>1, <1>10, <2>1 DEF M
  <2> HIDE DEF t
  <2>3. t \o Primary(p) \in Seq(KMsgs) /\ IsInjective(t \o Primary(p))
        /\ Range(t \o Primary(p)) = Range(t) \cup Range(Primary(p))
    BY <1>4, <2>1, <2>2, RangeConcat
  <2>4. Range(Primary(p)) = M /\ M \subseteq Range(Inbox(old))
    BY <1>4 DEF M
  <2>5. Range(t) \cup M = IF to = old THEN Range(Inbox(to)) ELSE Range(Inbox(to)) \cup M
    BY <2>1, <2>4
  <2> QED
    BY <2>3, <2>4, <2>5 DEF t
<1> HIDE DEF s, old
<1>12. /\ ProcArray' \in [AllProcs -> ProcRecords]
       /\ \A r \in AllProcs : /\ Inbox(r)' = IF r = to THEN s ELSE IF r = old THEN stay ELSE Inbox(r)
                              /\ ProcArray'[r].Active = ProcArray[r].Active
                              /\ ProcArray'[r].DataPort = ProcArray[r].DataPort
  <2>1. ProcArray' \in [AllProcs -> ProcRecords]
    BY <1>1, <1>2, <1>8, <1>11 DEF ProcRecords
  <2>2. \A r \in AllProcs \ {to} : ProcArray'[r] = left[r]
    BY <1>2, <1>8
  <2>3. /\ ProcArray'[to].MsgsWaiting = s /\ ProcArray'[to].Active = left[to].Active
        /\ ProcArray'[to].DataPort = left[to].DataPort
    BY <1>1, <1>2, <1>8 DEF ProcRecords
  <2> QED
    BY <1>1, <1>8, <2>1, <2>2, <2>3 DEF Inbox
<1>13. /\ PortArray' \in [Ports -> PortRecords]
       /\ \A x \in Ports : /\ PortArray'[x].InUse = PortArray[x].InUse /\ Second(x)' = Second(x)
                           /\ PortArray'[x].NumQueued = PortArray[x].NumQueued
                           /\ PortArray'[x].Backlog = PortArray[x].Backlog
                           /\ PortArray'[x].Receiver = IF x = p THEN to ELSE PortArray[x].Receiver
  <2>1. PortArray' \in [Ports -> PortRecords]
    BY <1>1, <1>2, <1>3 DEF PortRecords
  <2>2. \A x \in Ports \ {p} : PortArray'[x] = PortArray[x]
    BY <1>2, <1>3
  <2>3. /\ PortArray'[p].InUse = PortArray[p].InUse /\ PortArray'[p].SecondaryMsgQ = PortArray[p].SecondaryMsgQ
        /\ PortArray'[p].NumQueued = PortArray[p].NumQueued
        /\ PortArray'[p].Backlog = PortArray[p].Backlog /\ PortArray'[p].Receiver = to
    BY <1>1, <1>2, <1>3 DEF PortRecords
  <2> QED
    BY <2>1, <2>2, <2>3 DEF Second
<1>14. \A x \in KMsgs : \A r \in AllProcs :
         x \in Range(Inbox(r)') <=> IF x \in M THEN r = to ELSE x \in Range(Inbox(r))
  <2>1. \A r \in AllProcs : Range(Inbox(r)') = IF r = to THEN Range(s) ELSE IF r = old THEN Range(stay) ELSE Range(Inbox(r))
    BY <1>12
  <2>2. M \subseteq Range(Inbox(old))
    BY <1>4
  <2> QED
    BY <1>1, <1>7, <1>10, <1>11, <2>1, <2>2
<1>15. \A r \in AllProcs : IsInjective(Inbox(r)')
  BY <1>6, <1>7, <1>11, <1>12
<1> QED
  BY <1>4, <1>10, <1>12, <1>13, <1>14, <1>15 DEF p, to, M


(* So each of them is still in one place.                                  *)
LEMMA GiveReceiveRightsKeeps ==
  ASSUME MInv, NEW q \in Procs, GiveReceiveRights(q)
  PROVE  Kept
<1> DEFINE p == Top(q).port
           to == Top(q).to
           M == Range(Primary(p))
           g == [do |-> "IPCWakeup", to |-> to]
<1>1. Top(q) \in Plain /\ to \in AllProcs /\ stack[q] # <<>>
  BY TopIs, FrameIs DEF MInv, GiveReceiveRights, At, Holding, Lasts
<1>2. Then(q, <<g>>) /\ UNCHANGED <<kmsg, FreeKMsgQ, FreePortQ, FreeProcQ>>
  BY DEF GiveReceiveRights
<1>3. g \in Plain
  BY <1>1, FramesMade DEF Plain, Holding, Lasts
<1> HIDE DEF g
<1>4. /\ ProcArray' \in [AllProcs -> ProcRecords] /\ PortArray' \in [Ports -> PortRecords]
      /\ \A r \in AllProcs : /\ IsInjective(Inbox(r)')
                             /\ ProcArray'[r].Active = ProcArray[r].Active
                             /\ ProcArray'[r].DataPort = ProcArray[r].DataPort
      /\ \A x \in Ports : PortArray'[x].InUse = PortArray[x].InUse /\ Second(x)' = Second(x)
  BY RightsFollowed
<1>5. /\ \A x \in M : /\ x \in KMsgs /\ x \notin FreeKMsgQ
                     /\ \A r \in Procs : ~Holds(stack[r], x)
                     /\ \A y \in Ports : x \notin Range(Second(y))
      /\ \A x \in KMsgs : \A r \in AllProcs :
           x \in Range(Inbox(r)') <=> IF x \in M THEN r = to ELSE x \in Range(Inbox(r))
  BY RightsFollowed
<1> HIDE DEF p, to, M
<1>6. /\ stack' \in [Procs -> Seq(Frames)] /\ Stacks'
      /\ \A r \in Procs \ {q} : stack'[r] = stack[r]
      /\ ~At(q, "LTran")'
      /\ \A m : Holds(stack'[q], m) <=> Holds(stack[q], m)
      /\ \A m : Posts(stack[q], m) => Posts(stack'[q], m)
      /\ \A x : Ending(stack'[q], x) <=> Ending(stack[q], x)
  <2>1. <<g>> \in Seq(Plain)
    BY <1>3
  <2>2. /\ <<g>> \in Seq(Frames) /\ StackOK(<<g>>)
        /\ \A i \in 1 .. Len(<<g>>) : <<g>>[i].do \notin Lasts \cup {"LTran"}
        /\ \A m : ~Holds(<<g>>, m) /\ ~Posts(<<g>>, m)
        /\ \A x : ~Ending(<<g>>, x)
    BY <2>1, PlainStack
  <2> QED
    BY <1>1, <1>2, <2>2, PlainMove
<1>7. Typed'
  BY <1>2, <1>4, <1>6 DEF MInv, Typed
<1>8. Once'
  BY <1>2, <1>4 DEF MInv, Once
<1>9. Addressed'
  BY <1>2, <1>6, AddressedKept DEF MInv
<1>10. Carrying'
  BY <1>2, <1>6, CarryingKept
<1>11. Closed'
  BY <1>4 DEF MInv, Closed
<1>12. PortPlaced'
  BY <1>2, <1>4, <1>6, PortsStay DEF MInv
<1>13. MoveTo(M, "primary", to)
  BY <1>1, <1>2, <1>4, <1>5, <1>6 DEF MoveTo
<1> QED
  BY <1>6, <1>7, <1>8, <1>9, <1>10, <1>11, <1>12, <1>13, Moves


(* DelPort's frames have each message that was queued in hand, once, and   *)
(* end the port.                                                           *)
LEMMA ReleaseStack ==
  ASSUME NEW queued \in Seq(KMsgs), IsInjective(queued), NEW p \in Ports
  PROVE  LET s == Append([i \in 1 .. Len(queued) |-> Frame("Release", queued[i])],
                         [do |-> "Notify", port |-> p, next |-> 1]) IN
         /\ s \in Seq(Frames) /\ StackOK(s)
         /\ \A i \in 1 .. Len(s) : s[i].do \notin Lasts \cup {"LTran"}
         /\ \A m : Holds(s, m) <=> m \in Range(queued)
         /\ \A x : Ending(s, x) <=> x = p
<1> DEFINE f == [i \in 1 .. Len(queued) |-> Frame("Release", queued[i])]
           g == [do |-> "Notify", port |-> p, next |-> 1]
           s == Append(f, g)
           L == Len(queued)
<1>1. L \in Nat /\ DOMAIN queued = 1 .. L /\ \A i \in 1 .. L : queued[i] \in KMsgs
  BY LenProperties, ElementOfSeq
<1>2. g \in Frames /\ g.do = "Notify" /\ g.port = p
  BY FramesMade, Numbers
<1>3. \A i \in 1 .. L : f[i] \in Frames /\ f[i].do = "Release" /\ f[i].kmsg = queued[i]
  BY <1>1, FramesMade DEF Frame
<1>4. f \in Seq(Frames) /\ Len(f) = L
  <2>1. f = [i \in 1 .. L |-> f[i]]
    OBVIOUS
  <2> HIDE DEF f
  <2>2. f \in [1 .. L -> Frames]
    BY <1>3, <2>1
  <2>3. f \in Seq(Frames)
    BY <1>1, <2>2, IsASeq
  <2> QED
    BY <1>1, <2>2, <2>3, LenProperties
<1> HIDE DEF f, g, L
<1>5. /\ s \in Seq(Frames) /\ Len(s) = L + 1
      /\ \A i \in 1 .. L : s[i] = f[i]
      /\ s[L + 1] = g
  BY <1>2, <1>4, AppendProperties
<1> HIDE DEF s
<1>6. \A i \in 1 .. Len(s) : i \in 1 .. L \/ i = L + 1
  BY <1>1, <1>5
<1>7. /\ \A i \in 1 .. L : i \in 1 .. Len(s) /\ s[i].do = "Release" /\ s[i].kmsg = queued[i]
      /\ L + 1 \in 1 .. Len(s) /\ s[L + 1].do = "Notify" /\ s[L + 1].port = p
  BY <1>1, <1>2, <1>3, <1>5
<1>8. \A i \in 1 .. Len(s) : s[i].do \notin Lasts \cup {"LTran"}
  BY <1>6, <1>7 DEF Lasts
<1>9. \A m : Holds(s, m) <=> m \in Range(queued)
  <2>1. \A m : Holds(s, m) <=> \E i \in 1 .. L : queued[i] = m
    BY <1>6, <1>7 DEF Holds, Holding
  <2> QED
    BY <1>1, <2>1 DEF Range
<1>10. \A x : Ending(s, x) <=> x = p
  BY <1>6, <1>7 DEF Ending
<1>11. StackOK(s)
  <2>1. ASSUME NEW i \in 1 .. Len(s), NEW j \in 1 .. Len(s), i < j,
               s[i].do \in Holding, s[j].do \in Holding, s[i].kmsg = s[j].kmsg
        PROVE  FALSE
    <3>1. i \in 1 .. L /\ j \in 1 .. L
      BY <1>6, <1>7, <2>1 DEF Holding
    <3>2. queued[i] = queued[j]
      BY <1>7, <2>1, <3>1
    <3>3. i = j
      BY <1>1, <3>1, <3>2 DEF IsInjective
    <3> QED
      BY <2>1, <3>3
  <2>2. \A i, j \in 1 .. Len(s) : s[i].do = "Notify" /\ s[j].do = "Notify" => i = j
    BY <1>6, <1>7
  <2> QED
    BY <1>8, <2>1, <2>2 DEF StackOK
<1> QED
  BY <1>5, <1>8, <1>9, <1>10, <1>11 DEF s, f, g


(* DelPort takes the port's messages, those in both queues, out of them,   *)
(* and the port out of use.                                                *)
LEMMA PortCleared ==
  ASSUME MInv, NEW q \in Procs, DelPort(q), PortArray[Top(q).port].InUse
  PROVE  LET p == Top(q).port
             queued == Primary(p) \o PortArray[p].SecondaryMsgQ IN
         /\ p \in Ports /\ queued \in Seq(KMsgs) /\ IsInjective(queued)
         /\ \A x \in Range(queued) : /\ x \in KMsgs /\ x \notin FreeKMsgQ
                                    /\ \A y \in Procs : ~Holds(stack[y], x)
         /\ Range(queued) = (Range(Inbox(PortArray[p].Receiver)) \cap MsgsTo(p)) \cup Range(Second(p))
         /\ ProcArray' \in [AllProcs -> ProcRecords] /\ PortArray' \in [Ports -> PortRecords]
         /\ \A y \in AllProcs : /\ IsInjective(Inbox(y)')
                                /\ ProcArray'[y].Active = ProcArray[y].Active
                                /\ ProcArray'[y].DataPort = ProcArray[y].DataPort
         /\ \A x \in Ports : /\ PortArray'[x].InUse <=> x # p /\ PortArray[x].InUse
                             /\ Second(x)' = IF x = p THEN <<>> ELSE Second(x)
                             /\ PortArray'[x].NumQueued = PortArray[x].NumQueued
                             /\ PortArray'[x].Receiver = PortArray[x].Receiver
                             /\ PortArray'[x].Backlog = PortArray[x].Backlog
         /\ \A x \in KMsgs : \A y \in AllProcs :
              x \in Range(Inbox(y)') <=> x \notin Range(queued) /\ x \in Range(Inbox(y))
         /\ \A x \in KMsgs : \A y \in Ports :
              x \in Range(Second(y)') <=> x \notin Range(queued) /\ x \in Range(Second(y))
<1> DEFINE p == Top(q).port
           r == PortArray[p].Receiver
           queued == Primary(p) \o PortArray[p].SecondaryMsgQ
           M == Range(queued)
           stay == Those(Inbox(r), KMsgs \ MsgsTo(p))
<1>1. /\ PortArray' = [PortArray EXCEPT ![p].InUse = FALSE, ![p].SecondaryMsgQ = <<>>]
      /\ ProcArray' = [ProcArray EXCEPT ![r].MsgsWaiting = stay]
      /\ p \in Ports
  <2>1. p \in Ports
    BY Popped, FrameIs DEF DelPort, At
  <2> QED
    BY <2>1 DEF DelPort, Inbox
<1>2. r \in AllProcs /\ ProcArray \in [AllProcs -> ProcRecords] /\ PortArray \in [Ports -> PortRecords]
  BY <1>1 DEF MInv, Typed, PortRecords
<1>3. /\ Primary(p) \in Seq(KMsgs) /\ IsInjective(Primary(p))
      /\ Range(Primary(p)) = Range(Inbox(r)) \cap MsgsTo(p)
  BY <1>1, <1>2, PrimaryIs DEF MInv, Once
<1>4. Second(p) \in Seq(KMsgs) /\ IsInjective(Second(p)) /\ Range(Second(p)) \subseteq KMsgs
  BY <1>1, QueuesTyped DEF MInv, Once
<1>5. Inbox(r) \in Seq(KMsgs) /\ IsInjective(Inbox(r)) /\ Range(Inbox(r)) \subseteq KMsgs
  BY <1>2, QueuesTyped DEF MInv, Once
<1>6. \A x \in Range(Primary(p)) : /\ x \notin FreeKMsgQ
                                   /\ \A y \in Procs : ~Holds(stack[y], x)
                                   /\ \A y \in AllProcs : x \in Range(Inbox(y)) => y = r
                                   /\ \A y \in Ports : x \notin Range(Second(y))
  <2>1. \A x \in Range(Primary(p)) : x \in KMsgs /\ In(x, "primary", r)
    BY <1>2, <1>3, <1>5 DEF In
  <2>2. "primary" \in Kinds /\ r \in Slots
    BY <1>2, Numbers DEF Kinds
  <2> HIDE DEF r
  <2> QED
    BY <2>1, <2>2, Alone
<1>7. \A x \in Range(Second(p)) : /\ x \notin FreeKMsgQ
                                  /\ \A y \in Procs : ~Holds(stack[y], x)
                                  /\ \A y \in AllProcs : x \notin Range(Inbox(y))
                                  /\ \A y \in Ports : x \in Range(Second(y)) => y = p
  <2>1. \A x \in Range(Second(p)) : x \in KMsgs /\ In(x, "secondary", p)
    BY <1>1, <1>4 DEF In
  <2>2. "secondary" \in Kinds /\ p \in Slots
    BY <1>1, Numbers DEF Kinds
  <2> HIDE DEF p
  <2> QED
    BY <2>1, <2>2, Alone
<1>8. queued \in Seq(KMsgs) /\ IsInjective(queued) /\ M = Range(Primary(p)) \cup Range(Second(p))
  <2>1. Range(Primary(p)) \cap Range(Second(p)) = {}
    BY <1>1, <1>6
  <2>2. queued = Primary(p) \o Second(p)
    BY DEF Second
  <2> HIDE DEF p, queued
  <2> QED
    BY <1>3, <1>4, <2>1, <2>2, RangeConcat
<1>9. stay \in Seq(KMsgs) /\ IsInjective(stay) /\ Range(stay) = Range(Inbox(r)) \ M
  <2>1. stay \in Seq(KMsgs) /\ IsInjective(stay) /\ Range(stay) = Range(Inbox(r)) \cap (KMsgs \ MsgsTo(p))
    BY <1>5, ThoseIs
  <2>2. Range(Inbox(r)) \cap Range(Second(p)) = {}
    BY <1>2, <1>7
  <2> HIDE DEF stay, M, p, r
  <2> QED
    BY <1>3, <1>5, <1>8, <2>1, <2>2
<1>10. M \subseteq KMsgs
  BY <1>3, <1>4, <1>5, <1>8
<1>11. \A x \in M : x \notin FreeKMsgQ /\ \A y \in Procs : ~Holds(stack[y], x)
  BY <1>6, <1>7, <1>8
<1>11a. M = (Range(Inbox(r)) \cap MsgsTo(p)) \cup Range(Second(p))
  BY <1>3, <1>8
<1> HIDE DEF M, p, r, stay, queued
<1>12. /\ ProcArray' \in [AllProcs -> ProcRecords]
       /\ \A y \in AllProcs : /\ Inbox(y)' = IF y = r THEN stay ELSE Inbox(y)
                              /\ ProcArray'[y].Active = ProcArray[y].Active
                              /\ ProcArray'[y].DataPort = ProcArray[y].DataPort
  <2>1. ProcArray' \in [AllProcs -> ProcRecords]
    BY <1>1, <1>2, <1>9 DEF ProcRecords
  <2>2. \A y \in AllProcs \ {r} : ProcArray'[y] = ProcArray[y]
    BY <1>1, <1>2
  <2>3. /\ ProcArray'[r].MsgsWaiting = stay /\ ProcArray'[r].Active = ProcArray[r].Active
        /\ ProcArray'[r].DataPort = ProcArray[r].DataPort
    BY <1>1, <1>2 DEF ProcRecords
  <2> QED
    BY <2>1, <2>2, <2>3 DEF Inbox
<1>13. /\ PortArray' \in [Ports -> PortRecords]
       /\ \A x \in Ports : PortArray'[x].InUse <=> x # p /\ PortArray[x].InUse
       /\ \A x \in Ports : /\ Second(x)' = IF x = p THEN <<>> ELSE Second(x)
                           /\ PortArray'[x].NumQueued = PortArray[x].NumQueued
                           /\ PortArray'[x].Receiver = PortArray[x].Receiver
                           /\ PortArray'[x].Backlog = PortArray[x].Backlog
  <2> DEFINE c == [PortArray[p] EXCEPT !.InUse = FALSE, !.SecondaryMsgQ = <<>>]
  <2>1. /\ PortArray[p] \in PortRecords
        /\ PortArray' = [PortArray EXCEPT ![p] = c]
    BY <1>1, <1>2
  <2>2. <<>> \in Seq(KMsgs)
    OBVIOUS
  <2>3. /\ c \in PortRecords /\ c.InUse = FALSE /\ c.SecondaryMsgQ = <<>>
        /\ c.NumQueued = PortArray[p].NumQueued /\ c.Receiver = PortArray[p].Receiver
        /\ c.Backlog = PortArray[p].Backlog
    BY <2>1, <2>2 DEF PortRecords
  <2> HIDE DEF c
  <2>4. PortArray' \in [Ports -> PortRecords]
    BY <1>1, <1>2, <2>1, <2>3
  <2>5. \A x \in Ports \ {p} : PortArray'[x] = PortArray[x]
    BY <1>2, <2>1
  <2>6. PortArray'[p] = c
    BY <1>1, <1>2, <2>1
  <2> QED
    BY <2>3, <2>4, <2>5, <2>6 DEF Second
<1>14. \A x \in KMsgs : \A y \in AllProcs :
        x \in Range(Inbox(y)') <=> x \notin M /\ x \in Range(Inbox(y))
  <2>1. \A x \in M : \A y \in AllProcs : x \in Range(Inbox(y)) => y = r
    BY <1>6, <1>7, <1>8
  <2> QED
    BY <1>2, <1>9, <1>12, <2>1
<1>15. \A x \in KMsgs : \A y \in Ports :
        x \in Range(Second(y)') <=> x \notin M /\ x \in Range(Second(y))
  <2>1. \A x \in M : \A y \in Ports : x \in Range(Second(y)) => y = p
    BY <1>6, <1>7, <1>8
  <2>2. Range(<<>>) = {} /\ Range(Second(p)) \subseteq M
    BY <1>8 DEF Range
  <2> QED
    BY <1>1, <1>13, <2>1, <2>2
<1>16. \A y \in AllProcs : IsInjective(Inbox(y)')
  BY <1>9, <1>12 DEF MInv, Once
<1> QED
  BY <1>1, <1>8, <1>10, <1>11, <1>11a, <1>12, <1>13, <1>14, <1>15, <1>16 DEF p, queued, r, M


(* They are in its hands then, and in no other place.                      *)
LEMMA DelPortKeeps ==
  ASSUME MInv, NEW q \in Procs, DelPort(q)
  PROVE  Kept
<1> DEFINE p == Top(q).port
           queued == Primary(p) \o PortArray[p].SecondaryMsgQ
           M == Range(queued)
           s == Append([i \in 1 .. Len(queued) |-> Frame("Release", queued[i])],
                       [do |-> "Notify", port |-> p, next |-> 1])
<1>1. Top(q) \in Plain /\ p \in Ports /\ stack[q] # <<>>
  BY TopIs, FrameIs DEF MInv, DelPort, At, Holding, Lasts
<1>2. UNCHANGED <<kmsg, FreeKMsgQ, FreePortQ, FreeProcQ>>
  BY DEF DelPort
<1>3. CASE ~PortArray[p].InUse
  <2>1. Then(q, <<>>) /\ UNCHANGED <<PortArray, ProcArray>>
    BY <1>3 DEF DelPort
  <2>2. <<>> \in Seq(Plain)
    OBVIOUS
  <2>3. stack' \in [Procs -> Seq(Frames)] => Typed'
    BY <1>2, <2>1 DEF MInv, Typed
  <2> QED
    BY <1>1, <1>2, <2>1, <2>2, <2>3, PlainStep DEF Inbox, Second
<1>4. CASE PortArray[p].InUse
  <2>1. Then(q, s)
    BY <1>4 DEF DelPort
  <2>2. /\ queued \in Seq(KMsgs) /\ IsInjective(queued)
        /\ \A x \in M : /\ x \in KMsgs /\ x \notin FreeKMsgQ
                       /\ \A y \in Procs : ~Holds(stack[y], x)
        /\ ProcArray' \in [AllProcs -> ProcRecords] /\ PortArray' \in [Ports -> PortRecords]
        /\ \A y \in AllProcs : /\ IsInjective(Inbox(y)')
                               /\ ProcArray'[y].Active = ProcArray[y].Active
                               /\ ProcArray'[y].DataPort = ProcArray[y].DataPort
        /\ \A x \in Ports : /\ PortArray'[x].InUse <=> x # p /\ PortArray[x].InUse
                            /\ Second(x)' = IF x = p THEN <<>> ELSE Second(x)
    BY <1>4, PortCleared
  <2>3. /\ \A x \in KMsgs : \A y \in AllProcs :
             x \in Range(Inbox(y)') <=> x \notin M /\ x \in Range(Inbox(y))
        /\ \A x \in KMsgs : \A y \in Ports :
             x \in Range(Second(y)') <=> x \notin M /\ x \in Range(Second(y))
    BY <1>4, PortCleared
  <2> HIDE DEF queued
  <2>4. /\ s \in Seq(Frames) /\ StackOK(s)
        /\ \A i \in 1 .. Len(s) : s[i].do \notin Lasts \cup {"LTran"}
        /\ \A m : Holds(s, m) <=> m \in M
        /\ \A x : Ending(s, x) <=> x = p
    <3> HIDE DEF p
    <3> QED
      BY <1>1, <2>2, ReleaseStack
  <2> HIDE DEF s, M, p
  <2>5. /\ p \notin Range(FreePortQ)
        /\ \A y \in Procs : ~Ending(stack[y], p)
    <3>1. PortIn(p, "use", 0) /\ "use" \in PortKinds /\ 0 \in Slots
      BY <1>4, Numbers DEF PortIn, PortKinds
    <3> QED
      BY <1>1, <3>1, PortAlone
  <2>6. /\ stack' \in [Procs -> Seq(Frames)] /\ Stacks'
        /\ \A y \in Procs \ {q} : stack'[y] = stack[y]
        /\ ~At(q, "LTran")'
        /\ \A m : Holds(stack'[q], m) <=> Holds(s, m) \/ Holds(stack[q], m)
        /\ \A m : Posts(stack[q], m) => Posts(stack'[q], m)
        /\ \A x : Ending(stack'[q], x) <=> Ending(s, x) \/ Ending(stack[q], x)
    <3>1. \A x \in M : ~Holds(stack[q], x)
      BY <2>2
    <3> QED
      BY <1>1, <2>1, <2>4, <2>5, <3>1, PlainMove
  <2>7. Typed'
    BY <1>2, <2>2, <2>6 DEF MInv, Typed
  <2>8. Once'
    <3>1. IsInjective(<<>>)
      BY DEF IsInjective
    <3> QED
      BY <1>2, <2>2, <3>1 DEF MInv, Once
  <2>9. Addressed'
    BY <1>2, <2>6, AddressedKept DEF MInv
  <2>10. Carrying'
    BY <1>2, <2>6, CarryingKept
  <2>11. Closed'
    BY <2>2 DEF MInv, Closed
  <2>12. PortPlaced'
    <3>1. PortMoveTo(p, "ends", q)
      BY <1>1, <1>2, <2>2, <2>4, <2>5, <2>6 DEF PortMoveTo
    <3> QED
      BY <3>1, PortMoves DEF MInv
  <2>13. MoveTo(M, "call", q)
    BY <1>2, <2>2, <2>3, <2>4, <2>6 DEF MoveTo
  <2> QED
    BY <2>6, <2>7, <2>8, <2>9, <2>10, <2>11, <2>12, <2>13, Moves
<1> QED
  BY <1>3, <1>4


(* Notify tells the next holder, or frees the port when it has told the    *)
(* last.                                                                   *)
LEMMA NotifyKeeps ==
  ASSUME MInv, NEW q \in Procs, Notify(q)
  PROVE  Kept
<1> DEFINE f == Top(q)
           p == f.port
           more == {k \in f.next .. LAST_USED_PROCESS - 1 : k \in PortArray[p].Senders}
<1>1. /\ stack[q] # <<>> /\ f.do = "Notify" /\ p \in Ports
      /\ f \in [do : {"Notify"}, port : Ports, next : 1 .. NumProcs]
  BY TopIs, FrameIs DEF MInv, Notify, At
<1>2. /\ UNCHANGED <<ProcArray, kmsg, FreeKMsgQ, FreeProcQ>>
      /\ PortArray' \in [Ports -> PortRecords]
      /\ \A x \in Ports : Second(x)' = Second(x) /\ PortArray'[x].InUse = PortArray[x].InUse
  <2> DEFINE S == PortArray[p].Senders \ {f.next - 1}
  <2>1. S \in SUBSET Procs
    BY <1>1 DEF MInv, Typed, PortRecords
  <2>2. PortArray' = [PortArray EXCEPT ![p].Senders = S]
    BY DEF Notify, Forget
  <2>3. UNCHANGED <<ProcArray, kmsg, FreeKMsgQ, FreeProcQ>>
    BY DEF Notify
  <2> HIDE DEF S
  <2> QED
    BY <1>1, <2>1, <2>2, <2>3, SendersIs DEF MInv
<1>3. /\ f.do \notin Holding \cup Lasts
      /\ \A m : Holds(stack[q], m) <=> Holds(Tail(stack[q]), m)
      /\ \A m : Posts(stack[q], m) <=> Posts(Tail(stack[q]), m)
      /\ \A x : Ending(stack[q], x) <=> Ending(Tail(stack[q]), x) \/ p = x
      /\ ~Ending(Tail(stack[q]), p)
  BY <1>1, Popped DEF Holding, Lasts
<1>4. CASE more # {}
  <2>1. PICK j \in more : /\ Then(q, <<Notice(j, "M_PortDeleted", p), [f EXCEPT !.next = j + 1]>>)
                          /\ UNCHANGED FreePortQ
    <3> DEFINE j == CHOOSE k \in more : \A l \in more : k <= l
    <3>1. /\ Then(q, <<Notice(j, "M_PortDeleted", p), [f EXCEPT !.next = j + 1]>>)
          /\ UNCHANGED FreePortQ
      BY <1>4 DEF Notify
    <3>2. NumProcs \in Nat /\ more \in SUBSET (0 .. NumProcs)
      BY <1>1, PortsAssumption DEF LAST_USED_PROCESS
    <3> HIDE DEF more
    <3>3. \E k \in more : \A l \in more : k <= l
      BY <1>4, <3>2, LeastUpto
    <3> QED
      BY <3>1, <3>3
  <2>2. PortArray[p].Senders \subseteq Procs
    BY <1>1 DEF MInv, Typed, PortRecords
  <2>3. j \in Procs /\ j + 1 \in 1 .. NumProcs
    BY <1>1, <2>2, PortsAssumption DEF LAST_USED_PROCESS
  <2> DEFINE n == Notice(j, "M_PortDeleted", p)
             g == [f EXCEPT !.next = j + 1]
  <2>4. n \in Plain
    <3>1. n \in Frames
      BY <1>1, <2>3, FramesMade DEF IDs
    <3>2. n.do = "SendKernelMsg"
      BY DEF Notice
    <3> QED
      BY <3>1, <3>2 DEF Plain, Holding, Lasts
  <2>5. g \in Frames /\ g.do = "Notify" /\ g.port = p
    <3>1. g \in [do : {"Notify"}, port : Ports, next : 1 .. NumProcs] /\ g.do = "Notify" /\ g.port = p
      BY <1>1, <2>3
    <3> QED
      BY <3>1 DEF Frames
  <2>6. Then(q, <<n, g>>)
    BY <2>1
  <2> HIDE DEF n, g, f, p, more
  <2>9. /\ <<n, g>> \in Seq(Frames) /\ StackOK(<<n, g>>)
        /\ \A i \in 1 .. Len(<<n, g>>) : <<n, g>>[i].do \notin Lasts \cup {"LTran"}
        /\ \A m : ~Holds(<<n, g>>, m)
        /\ \A x : Ending(<<n, g>>, x) <=> x = p
    <3>1. n.do \notin Lasts \cup {"LTran"}
      BY <2>4 DEF Plain, Holding
    <3>2. g.do \notin Holding \cup Lasts \cup {"LTran"}
      BY <2>5 DEF Lasts, Holding
    <3> QED
      BY <2>4, <2>5, <3>1, <3>2, TwoFrames
  <2> DEFINE s == <<n, g>>
  <2> HIDE DEF s
  <2>10. /\ stack' \in [Procs -> Seq(Frames)] /\ Stacks'
         /\ \A r \in Procs \ {q} : stack'[r] = stack[r]
         /\ ~At(q, "LTran")'
         /\ \A m : Holds(stack'[q], m) <=> Holds(s, m) \/ Holds(Tail(stack[q]), m)
         /\ \A x : Ending(stack'[q], x) <=> Ending(s, x) \/ Ending(Tail(stack[q]), x)
         /\ \A m : Posts(stack'[q], m) <=> Posts(s, m) \/ Posts(Tail(stack[q]), m)
    <3>1. /\ s \in Seq(Frames) /\ StackOK(s)
          /\ \A i \in 1 .. Len(s) : s[i].do # "LTran" /\ s[i].do \notin Lasts
          /\ \A m \in KMsgs : ~(Holds(s, m) /\ Holds(Tail(stack[q]), m))
          /\ \A x \in Ports : ~(Ending(s, x) /\ Ending(Tail(stack[q]), x))
          /\ Then(q, s)
      BY <1>3, <2>6, <2>9 DEF s
    <3> QED
      BY <1>1, <3>1, Pushed DEF MInv
  <2>11. /\ \A m \in KMsgs : Holds(stack'[q], m) <=> Holds(stack[q], m)
         /\ \A m \in KMsgs : Posts(stack[q], m) => Posts(stack'[q], m)
         /\ \A x \in Ports : Ending(stack'[q], x) <=> Ending(stack[q], x)
    BY <1>3, <2>9, <2>10 DEF s
  <2>12. Typed'
    BY <1>2, <2>1, <2>10 DEF MInv, Typed
  <2> QED
    BY <1>2, <2>1, <2>10, <2>11, <2>12, Quiet DEF Inbox
<1>5. CASE more = {}
  <2>1. FreePortQ' = Append(FreePortQ, p) /\ Then(q, <<>>)
    BY <1>5 DEF Notify
  <2> HIDE DEF f, p, more
  <2>2. /\ ~PortArray[p].InUse /\ p \notin Range(FreePortQ)
        /\ \A r \in Procs \ {q} : ~Ending(stack[r], p)
    <3>1. PortIn(p, "ends", q) /\ "ends" \in PortKinds /\ q \in Slots
      BY <1>3, Numbers DEF PortIn, PortKinds
    <3> QED
      BY <1>1, <3>1, PortAlone
  <2>3. /\ FreePortQ' \in Seq(Ports) /\ IsInjective(FreePortQ')
        /\ Range(FreePortQ') = Range(FreePortQ) \cup {p}
    BY <1>1, <2>1, <2>2, RangeAppend DEF MInv, Typed, Once
  <2>4. /\ stack' \in [Procs -> Seq(Frames)] /\ Stacks'
        /\ \A r \in Procs \ {q} : stack'[r] = stack[r]
        /\ ~At(q, "LTran")'
        /\ \A m : Holds(stack'[q], m) <=> Holds(<<>>, m) \/ Holds(Tail(stack[q]), m)
        /\ \A x : Ending(stack'[q], x) <=> Ending(<<>>, x) \/ Ending(Tail(stack[q]), x)
        /\ \A m : Posts(stack'[q], m) <=> Posts(<<>>, m) \/ Posts(Tail(stack[q]), m)
    <3>1. /\ \A i \in 1 .. Len(<<>>) : <<>>[i].do # "LTran"
          /\ \A i \in 1 .. Len(<<>>) : <<>>[i].do \notin Lasts
      OBVIOUS
    <3> QED
      BY <1>1, <2>1, <3>1, NoFrames, Pushed DEF MInv
  <2>5. /\ \A r \in Procs : \A m : Holds(stack'[r], m) <=> Holds(stack[r], m)
        /\ \A r \in Procs : \A m : Posts(stack[r], m) => Posts(stack'[r], m)
        /\ \A r \in Procs : \A x : Ending(stack'[r], x) <=> x # p /\ Ending(stack[r], x)
    BY <1>3, <2>2, <2>4, NoFrames
  <2>6. Typed' /\ Once' /\ Closed'
    BY <1>2, <2>1, <2>3, <2>4 DEF MInv, Typed, Once, Closed, Inbox, Second
  <2>7. Addressed'
    BY <1>2, <2>5, AddressedKept DEF MInv, Addressed
  <2>8. Carrying'
    BY <1>2, <2>4, CarryingKept
  <2>9. PortPlaced'
    <3>1. PortMoveTo(p, "free", 0)
      BY <1>1, <1>2, <2>1, <2>2, <2>3, <2>5 DEF PortMoveTo
    <3> QED
      BY <3>1, PortMoves DEF MInv
  <2>10. MoveTo({}, "free", 0)
    BY <1>2, <2>1, <2>5 DEF MoveTo, Inbox, Second
  <2> QED
    BY <2>4, <2>6, <2>7, <2>8, <2>9, <2>10, Moves
<1> QED
  BY <1>4, <1>5


(* A port made anew comes off FreePortQ, is in use once and has no         *)
(* messages.                                                               *)
LEMMA PortOpened ==
  ASSUME MInv, NEW p, NEW q \in Procs, FreePortQ # <<>>, p = Head(FreePortQ),
         PortArray' = [PortArray EXCEPT ![p] = NewPort(q, ActualDefaultBacklog)],
         FreePortQ' = Tail(FreePortQ), UNCHANGED stack
  PROVE  /\ p \in Ports /\ PortArray' \in [Ports -> PortRecords]
         /\ FreePortQ' \in Seq(Ports) /\ IsInjective(FreePortQ')
         /\ \A x \in Ports : Second(x)' = Second(x)
         /\ Closed' /\ PortPlaced'
<1>1. FreePortQ \in Seq(Ports) /\ IsInjective(FreePortQ)
  BY DEF MInv, Typed, Once
<1>2. /\ p \in Range(FreePortQ) /\ FreePortQ' \in Seq(Ports)
      /\ Range(FreePortQ') = Range(FreePortQ) \ {p} /\ IsInjective(FreePortQ')
  BY <1>1, RangeTail
<1>3. p \in Ports
  BY <1>2, QueuesTyped DEF MInv
<1> DEFINE n == NewPort(q, ActualDefaultBacklog)
<1>4. n \in PortRecords /\ n.InUse = TRUE /\ n.SecondaryMsgQ = <<>>
  <2>1. <<>> \in Seq(KMsgs) /\ q \in AllProcs /\ {q} \in SUBSET Procs /\ 1 \in Nat /\ 0 \in Int
    BY Numbers
  <2> QED
    BY <2>1 DEF NewPort, PortRecords, ActualDefaultBacklog
<1> HIDE DEF n
<1>5. PortArray \in [Ports -> PortRecords] /\ PortArray' = [PortArray EXCEPT ![p] = n]
  BY DEF MInv, Typed, n
<1>6. /\ PortArray' \in [Ports -> PortRecords]
      /\ \A x \in Ports \ {p} : PortArray'[x] = PortArray[x]
      /\ PortArray'[p] = n
  BY <1>3, <1>4, <1>5
<1>7. ~PortArray[p].InUse /\ \A r \in Procs : ~Ending(stack[r], p)
  <2>1. PortIn(p, "free", 0) /\ "free" \in PortKinds /\ 0 \in Slots
    BY <1>2, Numbers DEF PortIn, PortKinds
  <2> QED
    BY <1>3, <2>1, PortAlone
<1>8. Second(p) = <<>>
  BY <1>3, <1>7 DEF MInv, Closed
<1>9. \A x \in Ports : Second(x)' = Second(x)
  BY <1>4, <1>6, <1>8 DEF Second
<1>10. Closed'
  BY <1>4, <1>6, <1>9 DEF MInv, Closed
<1>11. PortPlaced'
  <2>1. PortMoveTo(p, "use", 0)
    BY <1>2, <1>3, <1>4, <1>6, <1>7 DEF PortMoveTo
  <2> QED
    BY <2>1, PortMoves DEF MInv
<1> QED
  BY <1>2, <1>3, <1>6, <1>9, <1>10, <1>11


(* AllocatePort makes a port for the process.                              *)
LEMMA AllocatePortKeeps ==
  ASSUME MInv, NEW q \in Allocators, AllocatePort(q, ActualDefaultBacklog)
  PROVE  Kept
<1>1. q \in Procs
  BY MessagesAssumption
<1>2. /\ FreePortQ # <<>>
      /\ PortArray' = [PortArray EXCEPT ![Head(FreePortQ)] = NewPort(q, ActualDefaultBacklog)]
      /\ FreePortQ' = Tail(FreePortQ)
      /\ UNCHANGED <<ProcArray, kmsg, FreeKMsgQ, FreeProcQ, stack>>
  BY DEF AllocatePort
<1>3. /\ PortArray' \in [Ports -> PortRecords]
      /\ FreePortQ' \in Seq(Ports) /\ IsInjective(FreePortQ')
      /\ \A x \in Ports : Second(x)' = Second(x)
      /\ Closed' /\ PortPlaced'
  BY <1>1, <1>2, PortOpened
<1>4. Typed' /\ Once' /\ Stacks'
  BY <1>2, <1>3 DEF MInv, Typed, Once, Stacks, Inbox
<1>5. Addressed' /\ Carrying'
  BY <1>2 DEF MInv, Addressed, Carrying, At, Top
<1>6. MoveTo({}, "free", 0)
  BY <1>2, <1>3 DEF MoveTo, Inbox
<1> QED
  BY <1>3, <1>4, <1>5, <1>6, Moves


(* unxIPCActivate makes a port and empties the inbox of the process record *)
(* it takes: nothing comes to be in two places, and nothing is lost if     *)
(* that inbox was empty.                                                   *)
LEMMA ActivateKeeps ==
  ASSUME MInv, NEW parent \in Forkers, Activate(parent, ActualDefaultBacklog)
  PROVE  MInv' /\ (Somewhere /\ Reused => Somewhere')
<1> DEFINE q == Head(FreeProcQ)
           p == IF FreePortQ = <<>> THEN NullPort ELSE Head(FreePortQ)
           n == [MsgsWaiting |-> <<>>, Active |-> TRUE, State |-> "NOT_WAITING", DataPort |-> p]
<1>1. /\ FreeProcQ # <<>>
      /\ ProcArray' = [ProcArray EXCEPT ![q] = n]
      /\ \/ /\ p \in Ports
            /\ PortArray' = [PortArray EXCEPT ![p] = NewPort(q, ActualDefaultBacklog)]
            /\ FreePortQ' = Tail(FreePortQ)
         \/ p = NullPort /\ UNCHANGED <<PortArray, FreePortQ>>
      /\ FreeProcQ' = Tail(FreeProcQ) /\ UNCHANGED <<kmsg, FreeKMsgQ, stack>>
  BY DEF Activate
<1>2. FreeProcQ \in Seq(Procs)
  BY DEF MInv, Typed
<1>3. q \in Procs /\ q \in Members(FreeProcQ) /\ FreeProcQ' \in Seq(Procs)
  <2>1. Len(FreeProcQ) \in Nat \ {0} /\ q = FreeProcQ[1]
    BY <1>1, <1>2, EmptySeq, LenProperties
  <2> QED
    BY <1>1, <1>2, <2>1, HeadTailProperties DEF Members
<1>4. /\ p \in Ports \cup {NullPort} /\ PortArray' \in [Ports -> PortRecords]
      /\ FreePortQ' \in Seq(Ports) /\ IsInjective(FreePortQ')
      /\ \A x \in Ports : Second(x)' = Second(x)
      /\ Closed' /\ PortPlaced'
  <2> HIDE DEF q
  <2>1. CASE p = NullPort /\ UNCHANGED <<PortArray, FreePortQ>>
    BY <1>1, <2>1 DEF MInv, Typed, Once, Closed, PortPlaced, PortIn, Second
  <2>2. CASE p \in Ports /\ PortArray' = [PortArray EXCEPT ![p] = NewPort(q, ActualDefaultBacklog)]
                        /\ FreePortQ' = Tail(FreePortQ)
    <3>1. FreePortQ # <<>> /\ p = Head(FreePortQ)
      BY <2>2, Numbers
    <3> HIDE DEF p
    <3> QED
      BY <1>1, <1>3, <2>2, <3>1, PortOpened
  <2> QED
    BY <1>1, <2>1, <2>2
<1>5. /\ n \in ProcRecords /\ n.MsgsWaiting = <<>> /\ n.DataPort = p
  <2>1. <<>> \in Seq(KMsgs)
    OBVIOUS
  <2> HIDE DEF p
  <2> QED
    BY <1>4, <2>1 DEF ProcRecords
<1> HIDE DEF n, p, q
<1>6. /\ ProcArray' \in [AllProcs -> ProcRecords]
      /\ \A x \in AllProcs \ {q} : ProcArray'[x] = ProcArray[x]
      /\ ProcArray'[q] = n
  BY <1>1, <1>3, <1>5, Numbers DEF MInv, Typed
<1>7. \A x \in AllProcs : Inbox(x)' = IF x = q THEN <<>> ELSE Inbox(x)
  BY <1>5, <1>6 DEF Inbox
<1>8. Typed'
  <2>1. \A x \in AllProcs : ProcArray'[x].Active => x \in Procs
    BY <1>3, <1>4, <1>5, <1>6 DEF MInv, Typed
  <2> QED
    BY <1>1, <1>3, <1>4, <1>6, <2>1 DEF MInv, Typed
<1>9. Once' /\ Stacks'
  <2>1. IsInjective(<<>>)
    BY DEF IsInjective
  <2> QED
    BY <1>1, <1>4, <1>7, <2>1 DEF MInv, Once, Stacks
<1>10. Addressed' /\ Carrying'
  BY <1>1 DEF MInv, Addressed, Carrying, At, Top
<1>11. Lone'
  <2>1. ASSUME NEW m \in KMsgs, NEW k \in Kinds, NEW i \in Slots, In(m, k, i)'
        PROVE  In(m, k, i)
    <3>1. Range(<<>>) = {}
      BY DEF Range
    <3> QED
      BY <1>1, <1>4, <1>7, <2>1, <3>1 DEF In
  <2>2. \A m \in KMsgs, k \in Kinds, i \in Slots : In(m, k, i)' => In(m, k, i)
    BY <2>1, Zenon
  <2> QED
    BY <2>2 DEF MInv, Lone
<1>12. MInv'
  BY <1>4, <1>8, <1>9, <1>10, <1>11 DEF MInv
<1>13. ASSUME Reused PROVE Kept
  <2>1. Inbox(q) = <<>>
    BY <1>3, <1>13 DEF Reused
  <2>2. MoveTo({}, "free", 0)
    BY <1>1, <1>4, <1>7, <2>1 DEF MoveTo
  <2> QED
    BY <1>4, <1>8, <1>9, <1>10, <2>2, Moves
<1> QED
  BY <1>12, <1>13 DEF Kept


(* The system calls, ...                                                   *)
LEMMA CallsKeep ==
  ASSUME MInv, Calls
  PROVE  MInv' /\ (Somewhere /\ Reused => Somewhere')
<1>1. /\ \A d \in Deallocates : d.proc \in Procs /\ d.port \in Ports
      /\ Mortals \subseteq Procs
  BY MessagesAssumption
<1>2. CASE \E s \in Sends : TPSend(s)
  BY <1>2, TPSendKeeps DEF Kept
<1>3. CASE \E r \in Receives : TPReceive(r)
  BY <1>3, TPReceiveKeeps DEF Kept
<1>4. CASE \E d \in Deallocates : DeallocatePort(d.proc, d.port)
  BY <1>1, <1>4, DeallocatePortKeeps DEF Kept
<1>5. CASE \E l \in Locks : TPLockPorts(l)
  BY <1>5, TPLockPortsKeeps DEF Kept
<1>6. CASE \E b \in Backlogs : SetBackLog(b)
  BY <1>6, SetBackLogKeeps DEF Kept
<1>7. CASE \E q \in Allocators : AllocatePort(q, ActualDefaultBacklog)
  BY <1>7, AllocatePortKeeps DEF Kept
<1>8. CASE \E q \in Forkers : Activate(q, ActualDefaultBacklog)
  BY <1>8, ActivateKeeps
<1>9. CASE \E q \in Mortals : Suicide(q)
  BY <1>1, <1>9, SuicideKeeps DEF Kept
<1> QED
  BY <1>2, <1>3, <1>4, <1>5, <1>6, <1>7, <1>8, <1>9 DEF Calls


(* ... the pieces of Ports, ...                                            *)
LEMMA PortStepsKeep ==
  ASSUME MInv, NEW q \in Procs, PortSteps(q)
  PROVE  Kept
<1>1. CASE GiveOwnership(q)
  BY <1>1, GiveOwnershipKeeps
<1>2. CASE GiveReceiveRights(q)
  BY <1>2, GiveReceiveRightsKeeps
<1>3. CASE WakeReceiver(q) \/ WakeForMsg(q)
  BY <1>3, WakeReceiverKeeps
<1>4. CASE GTran(q)
  BY <1>4, GTranKeeps
<1>5. CASE SendKernelMsg(q)
  BY <1>5, SendKernelMsgKeeps
<1>6. CASE QueueMsg(q)
  BY <1>6, QueueMsgKeeps
<1>7. CASE RemPort(q)
  BY <1>7, RemPortKeeps
<1>8. CASE DelPort(q)
  BY <1>8, DelPortKeeps
<1>9. CASE Release(q)
  BY <1>9, ReleaseKeeps
<1>10. CASE Notify(q)
  BY <1>10, NotifyKeeps
<1>11. CASE Scan(q)
  BY <1>11, ScanKeeps
<1>12. CASE PackMsg(q)
  BY <1>12, PackMsgKeeps
<1> QED
  BY <1>1, <1>2, <1>3, <1>4, <1>5, <1>6, <1>7, <1>8, <1>9, <1>10, <1>11, <1>12 DEF PortSteps


(* ... the pieces of Messages, ...                                         *)
LEMMA ProceedKeeps ==
  ASSUME MInv, NEW q \in Procs, Proceed(q)
  PROVE  Kept
<1>1. CASE PortSteps(q)
  BY <1>1, PortStepsKeep
<1>2. CASE LTran(q)
  BY <1>2, LTranKeeps
<1>3. CASE PostNowhere(q) \/ PostRefused(q)
  BY <1>3, PostFailsKeeps
<1>4. CASE Post(q)
  BY <1>4, PostKeeps
<1>5. CASE PostLater(q)
  BY <1>5, PostLaterKeeps
<1>6. CASE Sent(q) \/ GiveUp(q)
  BY <1>6, WaitEndKeeps DEF Sent, GiveUp
<1>7. CASE Withdraw(q)
  BY <1>7, WithdrawKeeps
<1>8. CASE LookAgain(q)
  BY <1>8, LookAgainKeeps
<1>9. CASE MoveUp(q)
  BY <1>9, MoveUpKeeps
<1>10. CASE Answer(q)
  BY <1>10, AnswerKeeps
<1>11. CASE CopyOut(q)
  BY <1>11, CopyOutKeeps
<1> QED
  BY <1>1, <1>2, <1>3, <1>4, <1>5, <1>6, <1>7, <1>8, <1>9, <1>10, <1>11 DEF Proceed


(* ... and all steps.                                                      *)
LEMMA StepKeeps ==
  ASSUME MInv, [Next]_ipc
  PROVE  MInv' /\ (Somewhere /\ Reused => Somewhere')
<1>1. CASE Calls
  BY <1>1, CallsKeep
<1>2. CASE \E q \in Procs : Proceed(q)
  BY <1>2, ProceedKeeps DEF Kept
<1>3. CASE \E q \in Procs : asleepexpire(q)
  BY <1>3, asleepexpireKeeps DEF Kept
<1>4. CASE \E q \in Procs : Interrupt(q)
  BY <1>4, InterruptKeeps DEF Kept
<1>5. CASE UNCHANGED ipc
  <2>1. /\ UNCHANGED <<PortArray, ProcArray, kmsg, FreeKMsgQ, FreePortQ, FreeProcQ>>
        /\ UNCHANGED stack
    BY <1>5 DEF ipc
  <2>2. Typed' /\ Once' /\ Stacks' /\ Addressed' /\ Carrying' /\ Closed' /\ PortPlaced'
    BY <2>1 DEF MInv, Typed, Once, Stacks, Addressed, Carrying, Closed, PortPlaced, PortIn,
                Inbox, Second, At, Top
  <2>3. MoveTo({}, "free", 0)
    BY <2>1 DEF MoveTo, Inbox, Second
  <2> QED
    BY <2>2, <2>3, Moves DEF Kept
<1> QED
  BY <1>1, <1>2, <1>3, <1>4, <1>5 DEF Next


(* The inductive invariant holds.                                          *)
THEOREM MessagesSound == Spec => []MInv
<1>1. Init => MInv
  BY Begun
<1>2. MInv /\ [Next]_ipc => MInv'
  BY StepKeeps
<1> QED
  BY <1>1, <1>2, PTL DEF Spec


(* Whatever is sent, received, moved, withdrawn, deleted and forked in     *)
(* whatever order, no message structure is ever in two queues, or twice in *)
(* one, or in a queue and free or in the hands of a call, or in the hands  *)
(* of two calls; and every port is in use, free once, or about to be made  *)
(* free by exactly one call.                                               *)
THEOREM NothingTwice == Spec => [](NeverTwice /\ \A p \in Ports : PortInOnePlace(p))
<1>1. MInv => NeverTwice /\ \A p \in Ports : PortInOnePlace(p)
  BY PlacesCounted, PortsCounted
<1> QED
  BY <1>1, MessagesSound, PTL


(* And no message structure is lost as long as the records of processes    *)
(* that are used again have no messages left: TPSend, TPReceive and all    *)
(* they call leave every structure in exactly one place.                   *)
THEOREM NothingLost == Spec /\ []Reused => []InOnePlace
<1>1. Init => MInv /\ Somewhere
  BY Begun
<1>2. MInv /\ Somewhere /\ Reused /\ [Next]_ipc => MInv' /\ Somewhere'
  BY StepKeeps
<1>3. MInv /\ Somewhere => InOnePlace
  BY PlacesCounted, PortsCounted DEF InOnePlace
<1> QED
  BY <1>1, <1>2, <1>3, PTL DEF Spec


(* In particular, if no process forks.                                     *)
THEOREM NothingLostWithoutFork == ASSUME Forkers = {} PROVE Spec => []InOnePlace
<1>1. Spec => []Reused
  <2>1. Reused
    BY DEF Reused
  <2> QED
    BY <2>1, PTL
<1> QED
  BY <1>1, NothingLost, PTL
=============================================================================
