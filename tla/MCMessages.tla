----------------------------- MODULE MCMessages -----------------------------
(* Processes 2, 3 and 4; port 1 is the one that matters, 2, 3 and 4 are    *)
(* their data ports.                                                       *)
EXTENDS Messages, TLC

Users == {2, 3, 4}

Rec(q) == [MsgsWaiting |-> <<>>, Active |-> q \in Users, State |-> "NOT_WAITING",
           DataPort |-> IF q \in Users THEN q ELSE NullPort]
MCProc == [q \in AllProcs |-> Rec(q)]

Unused == [NewPort(NO_PROCESS, 1) EXCEPT !.InUse = FALSE, !.Senders = {}]
MCPort == [p \in Ports |-> IF p = 1 THEN [NewPort(2, 1) EXCEPT !.Senders = Users]
                           ELSE IF p \in Users THEN NewPort(p, 1) ELSE Unused]

Plain(q, to, how) == [proc |-> q, to |-> to, local |-> NullPort, how |-> how,
                      emerg |-> FALSE, type |-> "none", port |-> NullPort]
Read(q, how) == [proc |-> q, ports |-> "AllPts", local |-> NullPort, how |-> how]
None == {}

Carry(q, to, type) == [Plain(q, to, "Wait") EXCEPT !.type = type, !.port = 1]
RightsPort == [MCPort EXCEPT ![2].Senders = Users, ![3].Senders = Users]
Types == {"TypePtReceive", "TypePtOwnership", "TypePtAll"}
RightsSends == {Carry(2, 3, t) : t \in Types} \cup {Carry(3, 2, t) : t \in Types}
FailingSends == {Plain(3, 4, "DontWait"), [Carry(4, 3, "TypePtReceive") EXCEPT !.port = 3],
                 [Carry(2, 3, "TypePtOwnership") EXCEPT !.port = 4]}
AllSends == {Plain(3, 1, "Timed"), Plain(4, 1, "Reply"), Plain(4, 1, "DontWait")}
            \cup RightsSends \cup FailingSends
AllCramped == {[proc |-> 2, type |-> "none"]}
AllReceives == {Read(2, "Wait"), Read(3, "Timed"), Read(4, "Immediate")}

EndPort == [MCPort EXCEPT ![4].Senders = {2, 4}]
EndSends == {Plain(3, 1, "Wait"), Plain(3, 1, "Reply"), [Carry(2, 4, "TypePtReceive") EXCEPT !.local = 2]}
EndReceives == {Read(2, "Wait"), [Read(4, "Wait") EXCEPT !.ports = "DefaultPts"],
                [Read(4, "Wait") EXCEPT !.ports = "LocalPt", !.local = 4]}
EndDeallocates == {[proc |-> 2, port |-> 1]}
EndLocks == {[proc |-> 4, port |-> 1]}
EndBacklogs == {[proc |-> 4, port |-> 4, backlog |-> 2]}

(* Process 2, whose data port is 1, receives from port 2, hands that on to *)
(* 4, and may exit; 4 receives what 2 sent and acknowledges it; 3, which   *)
(* was forked when there were no ports left, sends.                        *)
LiveProc == [MCProc EXCEPT ![2].DataPort = 1, ![3].DataPort = NullPort, ![4].DataPort = 3]
LivePort == [p \in Ports |-> CASE p = 1 -> NewPort(2, 1)
                               [] p = 2 -> [NewPort(2, 1) EXCEPT !.Senders = {2, 3}]
                               [] p = 3 -> [NewPort(4, 1) EXCEPT !.Senders = {2, 4}]]
LiveSends == {Plain(3, 2, "Wait"), Plain(2, 3, "Reply"),
              [Plain(2, 3, "Wait") EXCEPT !.type = "TypePtReceive", !.port = 2]}
LiveReceives == {Read(2, "Wait"), Read(4, "Wait")}

StaleSends == {Carry(2, 4, "TypePtReceive")}
StaleReceives == {Read(4, "Wait")}
StaleDeallocates == {[proc |-> 4, port |-> 1]}

Symmetry == Permutations(KMsgs)
=============================================================================
