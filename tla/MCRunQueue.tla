----------------------------- MODULE MCRunQueue -----------------------------
(* An instance of RunQueue for TLC.  With three levels, the priorities     *)
(* stand for a negative one (clamped), one in range and one too high.      *)
EXTENDS RunQueue, TLC

MCPriorities == {-1, 5, 40}

Symmetry == Permutations(Threads) \cup Permutations(CPUs)
=============================================================================
