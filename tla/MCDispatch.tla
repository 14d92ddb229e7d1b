----------------------------- MODULE MCDispatch -----------------------------
(* Two processors, of which one is the master; one level for the priority  *)
(* of most processes and one for the idle threads.                         *)
EXTENDS Dispatch

AllThreads == Procs \cup Idles

OneChanges   == [p \in Procs |-> IF p = InitProc THEN {0, 5} ELSE {0}]
AllPriorities == (UNION {ProcPriorities[p] : p \in Procs}) \cup {IdlePri}

BothCPUs   == CPUs
MasterOnly == {Master}
=============================================================================
