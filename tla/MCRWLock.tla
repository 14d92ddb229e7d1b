------------------------------- MODULE MCRWLock -------------------------------
(* The instance of RWLock for TLC is its cfg's: three threads.  They are    *)
(* not declared symmetric, since the run checks liveness.                   *)
EXTENDS RWLock
===============================================================================
