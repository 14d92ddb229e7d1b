---------------------------- MODULE AbstractRWLock ----------------------------
(***************************************************************************)
(* What a reader/writer lock with upgrade promises its clients, without    *)
(* fields, counters or spinning: any number of readers or one writer; at   *)
(* most one reader is upgrading, and it keeps its read access, so that     *)
(* what it read stays true, until it becomes the writer.                   *)
(***************************************************************************)
CONSTANT Threads

VARIABLE mode     \* "none", "read", "upgrading" or "write", of each thread

Holders(m) == {t \in Threads : mode[t] = m}

Become(t, from, to) == mode[t] = from /\ mode' = [mode EXCEPT ![t] = to]

Init == mode = [t \in Threads |-> "none"]

GrantRead(t)  == /\ Holders("write") \cup Holders("upgrading") = {}
                 /\ Become(t, "none", "read")
GrantWrite(t) == /\ \A u \in Threads : mode[u] = "none"
                 /\ Become(t, "none", "write")
StartUpgrade(t) == Holders("upgrading") = {} /\ Become(t, "read", "upgrading")
RefuseUpgrade(t) == Holders("upgrading") # {} /\ Become(t, "read", "none")
Upgraded(t) == /\ \A u \in Threads \ {t} : mode[u] = "none"
               /\ \/ Become(t, "upgrading", "write")
                  \/ Become(t, "read", "write")
Downgrade(t) == Become(t, "write", "read")
Release(t) == Become(t, "read", "none") \/ Become(t, "write", "none")

Next == \E t \in Threads :
          \/ GrantRead(t) \/ GrantWrite(t) \/ Release(t)
          \/ StartUpgrade(t) \/ RefuseUpgrade(t) \/ Upgraded(t) \/ Downgrade(t)

Spec == Init /\ [][Next]_mode
===============================================================================
