------------------------------- MODULE RWLock -------------------------------
(***************************************************************************)
(* The reader/writer spin lock of sync/lock.c, multiprocessor build        *)
(* (NCPUS > 1).  A section between P(&l->interlock) and V(&l->interlock)   *)
(* is one step: every writer of the lock's fields holds the interlock.     *)
(* The busy-wait loops read the fields without it, one field per step.     *)
(* The local copies count, old_want and old_upgrade only decide where a    *)
(* thread goes next, so they live in its program counter.                  *)
(***************************************************************************)
EXTENDS Integers, FiniteSets

CONSTANT Threads      \* the threads of control that use one lock

ASSUME ThreadsFinite == IsFiniteSet(Threads)

VARIABLES
  read_count,     \* number of accepted readers
  want_write,     \* a writer owns, or is waiting for, the lock
  want_upgrade,   \* a read-to-write upgrade owns, or is waiting for, the lock
  pc              \* where each thread is

vars == <<read_count, want_write, want_upgrade, pc>>
lock == <<read_count, want_write, want_upgrade>>

Outside   == {"idle"}
ReadEntry == {"r_spin", "r_spin_up", "r_try"}
WriteBid  == {"w_spin", "w_try"}                   \* want_write not obtained
WriteWait == {"w_wait", "w_wait_up", "w_sample"}   \* want_write obtained
UpWait    == {"u_wait", "u_sample"}                \* want_upgrade obtained
Locations == Outside \cup ReadEntry \cup WriteBid \cup WriteWait \cup UpWait
               \cup {"reading", "writing", "upgraded"}

At(S) == {t \in Threads : pc[t] \in S}

Goto(t, from, to) == pc[t] = from /\ pc' = [pc EXCEPT ![t] = to]

(***************************************************************************)
(* lock_init                                                               *)
(***************************************************************************)
Init == /\ read_count = 0
        /\ want_write = FALSE
        /\ want_upgrade = FALSE
        /\ pc = [t \in Threads |-> "idle"]

(***************************************************************************)
(* lock_read                                                               *)
(***************************************************************************)
CallRead(t) == Goto(t, "idle", "r_spin") /\ UNCHANGED lock

ReadSpin(t) ==
  \/ ~want_write /\ Goto(t, "r_spin", "r_spin_up") /\ UNCHANGED lock
  \/ /\ Goto(t, "r_spin_up", IF want_upgrade THEN "r_spin" ELSE "r_try")
     /\ UNCHANGED lock

ReadAccept(t) ==
  /\ ~(want_write \/ want_upgrade)
  /\ Goto(t, "r_try", "reading")
  /\ read_count' = read_count + 1
  /\ UNCHANGED <<want_write, want_upgrade>>

ReadRetry(t) ==
  /\ want_write \/ want_upgrade
  /\ Goto(t, "r_try", "r_spin")
  /\ UNCHANGED lock

(***************************************************************************)
(* lock_write                                                              *)
(***************************************************************************)
CallWrite(t) == Goto(t, "idle", "w_spin") /\ UNCHANGED lock

WriteSpin(t) == ~want_write /\ Goto(t, "w_spin", "w_try") /\ UNCHANGED lock

\* Mutated: the waiting writer forgets upgrades in its interlocked sample.
AfterSampleReadersOnly == IF read_count > 0 THEN "w_wait" ELSE "writing"

AfterSample == IF read_count > 0 \/ want_upgrade THEN "w_wait" ELSE "writing"

WriteBit(t) ==
  /\ Goto(t, "w_try", IF want_write THEN "w_spin" ELSE AfterSample)
  /\ want_write' = TRUE
  /\ UNCHANGED <<read_count, want_upgrade>>

WriteWaitSpin(t) ==
  \/ read_count <= 0 /\ Goto(t, "w_wait", "w_wait_up") /\ UNCHANGED lock
  \/ /\ Goto(t, "w_wait_up", IF want_upgrade THEN "w_wait" ELSE "w_sample")
     /\ UNCHANGED lock

WriteSample(t) == Goto(t, "w_sample", AfterSample) /\ UNCHANGED lock

(***************************************************************************)
(* lock_read_to_write: a second upgrader gets TRUE and holds nothing       *)
(***************************************************************************)
AfterCount(count) == IF count > 0 THEN "u_wait" ELSE "upgraded"

\* Mutated: the upgrader waits for its own read hold too.
ReadToWriteKeepsCount(t) ==
  /\ read_count' = read_count
  /\ want_upgrade' = TRUE
  /\ Goto(t, "reading", IF want_upgrade THEN "idle" ELSE AfterCount(read_count))
  /\ UNCHANGED want_write

\* Mutated: the second upgrader is not refused.
ReadToWriteNeverRefused(t) ==
  /\ read_count' = read_count - 1
  /\ want_upgrade' = TRUE
  /\ Goto(t, "reading", AfterCount(read_count - 1))
  /\ UNCHANGED want_write

ReadToWrite(t) ==
  /\ read_count' = read_count - 1
  /\ want_upgrade' = TRUE
  /\ Goto(t, "reading",
          IF want_upgrade THEN "idle" ELSE AfterCount(read_count - 1))
  /\ UNCHANGED want_write

UpgradeSpin(t) ==
  read_count <= 0 /\ Goto(t, "u_wait", "u_sample") /\ UNCHANGED lock

UpgradeSample(t) ==
  Goto(t, "u_sample", AfterCount(read_count)) /\ UNCHANGED lock

(***************************************************************************)
(* lock_done and lock_write_to_read do not ask how the lock was obtained:  *)
(* they infer it from the fields.                                          *)
(***************************************************************************)
\* Mutated: the two bits are examined in the other order.
ReleaseWriteBitFirst ==
  IF want_write
    THEN want_write' = FALSE /\ UNCHANGED want_upgrade
    ELSE want_upgrade' = FALSE /\ UNCHANGED want_write

ReleaseWrite ==
  IF want_upgrade
    THEN want_upgrade' = FALSE /\ UNCHANGED want_write
    ELSE want_write' = FALSE /\ UNCHANGED want_upgrade

\* Mutated: every release is taken for a reader's.
DoneAlwaysReader(t) ==
  /\ pc[t] \in {"reading", "writing", "upgraded"}
  /\ pc' = [pc EXCEPT ![t] = "idle"]
  /\ read_count' = read_count - 1
  /\ UNCHANGED <<want_write, want_upgrade>>

Done(t) ==
  /\ pc[t] \in {"reading", "writing", "upgraded"}
  /\ pc' = [pc EXCEPT ![t] = "idle"]
  /\ \/ read_count > 0 /\ read_count' = read_count - 1
                       /\ UNCHANGED <<want_write, want_upgrade>>
     \/ read_count <= 0 /\ ReleaseWrite /\ UNCHANGED read_count

WriteToRead(t) ==
  /\ pc[t] \in {"writing", "upgraded"}
  /\ pc' = [pc EXCEPT ![t] = "reading"]
  /\ read_count' = read_count + 1
  /\ ReleaseWrite

-----------------------------------------------------------------------------
Waiting(t) == \/ ReadSpin(t) \/ ReadAccept(t) \/ ReadRetry(t)
              \/ WriteSpin(t) \/ WriteBit(t)
              \/ WriteWaitSpin(t) \/ WriteSample(t)
              \/ UpgradeSpin(t) \/ UpgradeSample(t)

Step(t) == \/ CallRead(t) \/ CallWrite(t)
           \/ Waiting(t)
           \/ ReadToWrite(t) \/ WriteToRead(t) \/ Done(t)

Next == \E t \in Threads : Step(t)

Spec == Init /\ [][Next]_vars

(***************************************************************************)
(* A processor that waits keeps executing its loop; a client that holds    *)
(* the lock again and again calls lock_done eventually.  Nobody is obliged *)
(* to call lock_read or lock_write, to upgrade or to downgrade.            *)
(***************************************************************************)
Fairness == \A t \in Threads : WF_vars(Waiting(t)) /\ SF_vars(Done(t))

FairSpec == Spec /\ Fairness

-----------------------------------------------------------------------------
TypeOK == /\ read_count \in Nat
          /\ want_write \in BOOLEAN
          /\ want_upgrade \in BOOLEAN
          /\ pc \in [Threads -> Locations]

AtMostOne(S) == \A t, u \in S : t = u

UpOwners    == At(UpWait \cup {"upgraded"})
WriteOwners == At(WriteWait \cup {"writing"})

(***************************************************************************)
(* A thread that lock_write or a successful lock_read_to_write returned to *)
(* is alone: no other such thread, no reader, and beside a writer no       *)
(* upgrader that still relies on what it read.                             *)
(***************************************************************************)
Exclusion == /\ AtMostOne(At({"writing", "upgraded"}))
             /\ At({"writing"}) # {} => At({"reading"}) = {} /\ UpOwners = {}
             /\ At({"upgraded"}) # {} => At({"reading"}) = {}

(***************************************************************************)
(* The fields lock_done and lock_write_to_read guess from tell the truth:  *)
(* read_count counts the readers, and each bit is set exactly while one    *)
(* thread owns it - none is leaked, and none is cleared for its owner.     *)
(***************************************************************************)
Accounting == /\ read_count = Cardinality(At({"reading"}))
              /\ want_upgrade <=> UpOwners # {}
              /\ want_write <=> WriteOwners # {}
              /\ AtMostOne(UpOwners)
              /\ AtMostOne(WriteOwners)

(***************************************************************************)
(* "Improved read-to-write upgrade to have priority over pure write"       *)
(* (lock.c:37): while an upgrade that was not refused waits, no other      *)
(* thread is let in, neither a writer that asked first nor a new reader,   *)
(* so what the upgrader read under its read lock is still true when it is  *)
(* granted.                                                                *)
(***************************************************************************)
UpgradeIsolated ==
  [][\A u \in Threads :
       pc[u] \in UpWait =>
         \A t \in Threads \ {u} :
           pc'[t] \in {"reading", "writing", "upgraded"} => pc'[t] = pc[t]]_vars

(***************************************************************************)
(* The lock of this module implements AbstractRWLock.                      *)
(***************************************************************************)
ModeAt(loc) == CASE loc = "reading"                -> "read"
                 [] loc \in UpWait                 -> "upgrading"
                 [] loc \in {"writing", "upgraded"} -> "write"
                 [] OTHER                          -> "none"

AbsMode == [t \in Threads |-> ModeAt(pc[t])]

Abs == INSTANCE AbstractRWLock WITH mode <- AbsMode

AbsSpec == Abs!Spec

(***************************************************************************)
(* An upgrade that was not refused is granted, and a writer that obtained  *)
(* want_write gets the lock: new readers are kept out, accepted readers    *)
(* and upgrades drain.                                                     *)
(***************************************************************************)
BidsServed ==
  \A t \in Threads : /\ pc[t] \in UpWait ~> pc[t] = "upgraded"
                     /\ pc[t] \in WriteWait ~> pc[t] = "writing"
=============================================================================
