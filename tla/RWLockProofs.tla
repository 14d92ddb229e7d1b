---------------------------- MODULE RWLockProofs ----------------------------
(***************************************************************************)
(* Proofs about RWLock for any finite set of threads.  The inductive       *)
(* invariant is Inv: exclusion alone is not inductive, because lock_done   *)
(* and the waiting loops decide from read_count and the two bits, so one   *)
(* must know whom those fields stand for (Accounting).                     *)
(***************************************************************************)
EXTENDS RWLock, FiniteSetTheorems, TLAPS

Inv == TypeOK /\ Accounting /\ Exclusion

(***************************************************************************)
(* How the number of readers follows one thread's move.                    *)
(***************************************************************************)
ReadersOf(f) == {t \in Threads : f[t] = "reading"}

(* The readers of any assignment of places are finitely many.              *)
LEMMA ReadersFinite ==
  ASSUME NEW f
  PROVE  IsFiniteSet(ReadersOf(f)) /\ Cardinality(ReadersOf(f)) \in Nat
BY ThreadsFinite, FS_Subset, FS_CardinalityType DEF ReadersOf

(* A thread that starts reading is one reader more (lock_read, and         *)
(* lock_write_to_read).                                                    *)
LEMMA ReaderEnters ==
  ASSUME NEW f \in [Threads -> Locations], NEW t \in Threads,
         f[t] # "reading"
  PROVE  Cardinality(ReadersOf([f EXCEPT ![t] = "reading"]))
           = Cardinality(ReadersOf(f)) + 1
<1>1. ReadersOf([f EXCEPT ![t] = "reading"]) = ReadersOf(f) \cup {t}
  BY DEF ReadersOf
<1>2. t \notin ReadersOf(f)
  BY DEF ReadersOf
<1> QED
  BY <1>1, <1>2, ReadersFinite, FS_AddElement

(* A reader that moves on is one reader fewer (lock_done,                  *)
(* lock_read_to_write).                                                    *)
LEMMA ReaderLeaves ==
  ASSUME NEW f \in [Threads -> Locations], NEW t \in Threads, NEW to,
         f[t] = "reading", to # "reading"
  PROVE  Cardinality(ReadersOf([f EXCEPT ![t] = to]))
           = Cardinality(ReadersOf(f)) - 1
<1>1. ReadersOf([f EXCEPT ![t] = to]) = ReadersOf(f) \ {t}
  BY DEF ReadersOf
<1>2. t \in ReadersOf(f)
  BY DEF ReadersOf
<1> QED
  BY <1>1, <1>2, ReadersFinite, FS_RemoveElement

(* Other moves leave the readers alone.                                    *)
LEMMA ReadersSame ==
  ASSUME NEW f \in [Threads -> Locations], NEW t \in Threads, NEW to,
         f[t] # "reading", to # "reading"
  PROVE  ReadersOf([f EXCEPT ![t] = to]) = ReadersOf(f)
BY DEF ReadersOf

(* A positive count means a reader, and no reader a zero count.            *)
LEMMA ReadersCount ==
  ASSUME NEW f
  PROVE  Cardinality(ReadersOf(f)) = 0 <=> ReadersOf(f) = {}
BY ReadersFinite, FS_EmptySet

-----------------------------------------------------------------------------
(***************************************************************************)
(* What a step does to the fields and to one thread's place; every step    *)
(* has the shape pc' = [pc EXCEPT ![t] = to].                              *)
(***************************************************************************)
LEMMA InitInv == Init => Inv
<1> SUFFICES ASSUME Init PROVE Inv
  OBVIOUS
<1> USE DEF Init, At
<1>1. TypeOK
  BY DEF TypeOK, Locations, Outside
<1>2. At({"reading"}) = {} /\ Cardinality(At({"reading"})) = 0
  BY FS_EmptySet
<1>3. Accounting
  BY <1>2 DEF Accounting, UpOwners, WriteOwners, UpWait, WriteWait, AtMostOne
<1>4. Exclusion
  BY DEF Exclusion, AtMostOne
<1> QED
  BY <1>1, <1>3, <1>4 DEF Inv

(* Steps among places that own no field leave the invariant alone (the     *)
(* entry loops of lock_read and lock_write).                               *)
LEMMA OutsideStep ==
  ASSUME Inv, NEW t \in Threads, UNCHANGED lock,
         pc' = [pc EXCEPT ![t] = pc'[t]],
         pc[t] \in Outside \cup ReadEntry \cup WriteBid,
         pc'[t] \in Outside \cup ReadEntry \cup WriteBid
  PROVE  Inv'
<1> USE DEF Inv, Outside, ReadEntry, WriteBid, WriteWait, UpWait
<1>1. /\ At({"reading"})' = At({"reading"})
      /\ At({"writing", "upgraded"})' = At({"writing", "upgraded"})
      /\ At({"writing"})' = At({"writing"})
      /\ At({"upgraded"})' = At({"upgraded"})
  BY DEF At, TypeOK
<1>2. UpOwners' = UpOwners /\ WriteOwners' = WriteOwners
  BY DEF At, UpOwners, WriteOwners, TypeOK
<1>3. TypeOK'
  BY DEF TypeOK, lock, Locations
<1>4. Accounting'
  BY <1>1, <1>2 DEF Accounting, lock, AtMostOne
<1>5. Exclusion'
  BY <1>1, <1>2 DEF Exclusion, AtMostOne
<1> QED
  BY <1>3, <1>4, <1>5

(* When the one thread that is alone gives write access up, the bit that   *)
(* lock_done and lock_write_to_read choose to clear is its own.            *)
LEMMA Released ==
  ASSUME Inv, NEW t \in Threads, NEW to \in {"idle", "reading"},
         pc[t] \in {"writing", "upgraded"},
         pc' = [pc EXCEPT ![t] = to],
         ReleaseWrite
  PROVE  /\ want_write' = (WriteOwners' # {})
         /\ want_upgrade' = (UpOwners' # {})
         /\ AtMostOne(UpOwners') /\ AtMostOne(WriteOwners')
<1> USE DEF Inv, WriteWait, UpWait
<1>1. CASE pc[t] = "upgraded"
  <2>1. UpOwners = {t} /\ UpOwners' = {} /\ WriteOwners' = WriteOwners
    BY <1>1 DEF UpOwners, WriteOwners, At, TypeOK, Accounting, AtMostOne
  <2>2. want_upgrade' = FALSE /\ want_write' = want_write
    BY <2>1 DEF ReleaseWrite, Accounting
  <2> QED
    BY <2>1, <2>2 DEF Accounting, AtMostOne, TypeOK
<1>2. CASE pc[t] = "writing"
  <2>1. UpOwners = {} /\ UpOwners' = {} /\ WriteOwners = {t} /\ WriteOwners' = {}
    BY <1>2 DEF UpOwners, WriteOwners, At, TypeOK, Accounting, AtMostOne,
                Exclusion
  <2>2. want_upgrade = FALSE /\ want_write' = FALSE /\ want_upgrade' = FALSE
    BY <2>1 DEF ReleaseWrite, Accounting, TypeOK
  <2> QED
    BY <2>1, <2>2 DEF AtMostOne
<1> QED
  BY <1>1, <1>2

LEMMA StepInv == Inv /\ [Next]_vars => Inv'
<1> SUFFICES ASSUME Inv, [Next]_vars PROVE Inv'
  OBVIOUS
<1> USE DEF Inv
<1>a. At({"reading"}) = ReadersOf(pc) /\ At({"reading"})' = ReadersOf(pc')
  BY DEF At, ReadersOf
<1>b. /\ read_count = Cardinality(ReadersOf(pc))
      /\ read_count \in Nat
      /\ read_count = 0 <=> ReadersOf(pc) = {}
  BY <1>a, ReadersCount DEF Accounting, TypeOK
<1> USE DEF Locations, Outside, ReadEntry, WriteBid, WriteWait, UpWait
<1>1. ASSUME NEW t \in Threads, CallRead(t) \/ ReadSpin(t) \/ ReadRetry(t)
                                 \/ CallWrite(t) \/ WriteSpin(t)
      PROVE  Inv'
  <2>1. /\ pc' = [pc EXCEPT ![t] = pc'[t]]
        /\ pc[t] \in Outside \cup ReadEntry \cup WriteBid
        /\ pc'[t] \in Outside \cup ReadEntry \cup WriteBid
    BY <1>1
    DEF CallRead, ReadSpin, ReadRetry, CallWrite, WriteSpin, Goto, TypeOK
  <2>2. UNCHANGED lock
    BY <1>1 DEF CallRead, ReadSpin, ReadRetry, CallWrite, WriteSpin
  <2> QED
    BY <2>1, <2>2, OutsideStep
<1>2. ASSUME NEW t \in Threads, ReadAccept(t) PROVE Inv'
  <2>1. pc[t] = "r_try" /\ pc' = [pc EXCEPT ![t] = "reading"]
        /\ read_count' = read_count + 1
        /\ ~want_write /\ ~want_upgrade
        /\ want_write' = want_write /\ want_upgrade' = want_upgrade
    BY <1>2 DEF ReadAccept, Goto
  <2>2. Cardinality(ReadersOf(pc')) = read_count + 1
    BY <1>b, <2>1, ReaderEnters DEF TypeOK
  <2>3. UpOwners = {} /\ WriteOwners = {} /\ UpOwners' = {} /\ WriteOwners' = {}
    BY <2>1 DEF At, UpOwners, WriteOwners, TypeOK, Accounting
  <2>4. TypeOK'
    BY <1>b, <2>1 DEF TypeOK
  <2>5. Accounting'
    BY <1>a, <2>1, <2>2, <2>3 DEF Accounting, AtMostOne
  <2>6. Exclusion'
    BY <2>3 DEF Exclusion, AtMostOne, UpOwners, WriteOwners, At
  <2> QED
    BY <2>4, <2>5, <2>6
<1>3. ASSUME NEW t \in Threads, WriteBit(t) PROVE Inv'
  <2>1. CASE want_write
    <3>1. pc' = [pc EXCEPT ![t] = "w_spin"] /\ pc[t] = "w_try" /\ UNCHANGED lock
      BY <1>3, <2>1 DEF WriteBit, Goto, lock, TypeOK
    <3> QED
      BY <3>1, OutsideStep DEF TypeOK
  <2>2. CASE ~want_write
    <3>1. /\ pc[t] = "w_try" /\ pc' = [pc EXCEPT ![t] = pc'[t]]
          /\ pc'[t] \in {"w_wait", "writing"}
          /\ pc'[t] = "writing" => read_count = 0 /\ ~want_upgrade
      BY <1>3, <2>2, <1>b DEF WriteBit, Goto, AfterSample, TypeOK
    <3>2. want_write' = TRUE /\ read_count' = read_count
          /\ want_upgrade' = want_upgrade
      BY <1>3 DEF WriteBit
    <3>3. ReadersOf(pc') = ReadersOf(pc)
      BY <3>1, ReadersSame DEF TypeOK
    <3>4. UpOwners' = UpOwners /\ WriteOwners = {} /\ WriteOwners' = {t}
      BY <2>2, <3>1 DEF At, UpOwners, WriteOwners, TypeOK, Accounting
    <3>5. Exclusion'
      BY <1>a, <1>b, <3>1, <3>3, <3>4
      DEF At, UpOwners, WriteOwners, TypeOK, Accounting, Exclusion, AtMostOne
    <3>6. TypeOK'
      BY <3>1, <3>2 DEF TypeOK
    <3> QED
      BY <1>a, <1>b, <3>2, <3>3, <3>4, <3>5, <3>6 DEF Accounting, AtMostOne
  <2> QED
    BY <2>1, <2>2
<1>4. ASSUME NEW t \in Threads, WriteWaitSpin(t) \/ WriteSample(t) PROVE Inv'
  <2>1. /\ pc[t] \in WriteWait /\ pc' = [pc EXCEPT ![t] = pc'[t]]
        /\ pc'[t] \in WriteWait \cup {"writing"}
        /\ pc'[t] = "writing" => read_count = 0 /\ ~want_upgrade
    BY <1>4, <1>b DEF WriteWaitSpin, WriteSample, Goto, AfterSample, TypeOK
  <2>2. UNCHANGED lock
    BY <1>4 DEF WriteWaitSpin, WriteSample
  <2>3. ReadersOf(pc') = ReadersOf(pc)
    BY <2>1, ReadersSame DEF TypeOK
  <2>4. UpOwners' = UpOwners /\ WriteOwners' = WriteOwners
    BY <2>1 DEF At, UpOwners, WriteOwners, TypeOK
  <2>5. Exclusion'
    BY <1>a, <1>b, <2>1, <2>3, <2>4
    DEF At, UpOwners, WriteOwners, TypeOK, Accounting, Exclusion, AtMostOne
  <2> QED
    BY <1>a, <1>b, <2>1, <2>2, <2>3, <2>4, <2>5
    DEF TypeOK, Accounting, lock, AtMostOne
<1>5. ASSUME NEW t \in Threads, ReadToWrite(t) PROVE Inv'
  <2>1. /\ pc[t] = "reading" /\ pc' = [pc EXCEPT ![t] = pc'[t]]
        /\ pc'[t] \in {"idle", "u_wait", "upgraded"}
        /\ (pc'[t] = "idle") <=> want_upgrade
        /\ pc'[t] = "upgraded" => read_count - 1 <= 0
    BY <1>5, <1>b DEF ReadToWrite, Goto, AfterCount, TypeOK
  <2>2. want_upgrade' = TRUE
        /\ read_count' = read_count - 1 /\ want_write' = want_write
    BY <1>5 DEF ReadToWrite
  <2>3. Cardinality(ReadersOf(pc')) = read_count - 1
    BY <1>b, <2>1, ReaderLeaves DEF TypeOK
  <2>4. read_count - 1 \in Nat
    BY <2>3, ReadersFinite
  <2>5. WriteOwners' = WriteOwners
    BY <2>1 DEF At, WriteOwners, TypeOK
  <2>6. /\ want_upgrade => UpOwners' = UpOwners
        /\ ~want_upgrade => UpOwners = {} /\ UpOwners' = {t}
    BY <2>1 DEF At, UpOwners, TypeOK, Accounting
  <2>7. At({"writing", "upgraded"}) = {}
    BY <2>1 DEF Exclusion, At
  <2>8. At({"writing", "upgraded"})' \subseteq {t} /\ At({"writing"})' = {}
    BY <2>1, <2>7 DEF At, TypeOK
  <2>9. pc'[t] = "upgraded" => ReadersOf(pc') = {}
    BY <2>1, <2>3, <2>4, ReadersCount DEF TypeOK
  <2>10. Exclusion'
    BY <1>a, <2>1, <2>8, <2>9 DEF Exclusion, AtMostOne, At, TypeOK
  <2> QED
    BY <1>a, <2>1, <2>2, <2>3, <2>4, <2>5, <2>6, <2>10
    DEF TypeOK, Accounting, AtMostOne
<1>6. ASSUME NEW t \in Threads, UpgradeSpin(t) \/ UpgradeSample(t) PROVE Inv'
  <2>1. /\ pc[t] \in UpWait /\ pc' = [pc EXCEPT ![t] = pc'[t]]
        /\ pc'[t] \in UpWait \cup {"upgraded"}
        /\ pc'[t] = "upgraded" => read_count = 0
    BY <1>6, <1>b DEF UpgradeSpin, UpgradeSample, Goto, AfterCount, TypeOK
  <2>2. UNCHANGED lock
    BY <1>6 DEF UpgradeSpin, UpgradeSample
  <2>3. ReadersOf(pc') = ReadersOf(pc)
    BY <2>1, ReadersSame DEF TypeOK
  <2>4. UpOwners' = UpOwners /\ WriteOwners' = WriteOwners
    BY <2>1 DEF At, UpOwners, WriteOwners, TypeOK
  <2>5. t \in UpOwners /\ At({"writing"}) = {} /\ At({"writing"})' = {}
    BY <2>1 DEF At, UpOwners, TypeOK, Exclusion
  <2>6. Exclusion'
    BY <1>a, <1>b, <2>1, <2>3, <2>4, <2>5
    DEF At, UpOwners, TypeOK, Accounting, Exclusion, AtMostOne
  <2> QED
    BY <1>a, <1>b, <2>1, <2>2, <2>3, <2>4, <2>6
    DEF TypeOK, Accounting, lock, AtMostOne
<1>7. ASSUME NEW t \in Threads, Done(t) PROVE Inv'
  <2>0. /\ pc[t] \in {"reading", "writing", "upgraded"}
        /\ pc' = [pc EXCEPT ![t] = "idle"]
    BY <1>7 DEF Done
  <2>1. CASE pc[t] = "reading"
    <3>1. read_count > 0
      BY <1>b, <2>1 DEF ReadersOf
    <3>2. read_count' = read_count - 1 /\ want_write' = want_write
          /\ want_upgrade' = want_upgrade
      BY <1>7, <1>b, <3>1 DEF Done
    <3>3. Cardinality(ReadersOf(pc')) = read_count - 1
      BY <1>b, <2>0, <2>1, ReaderLeaves DEF TypeOK
    <3>4. UpOwners' = UpOwners /\ WriteOwners' = WriteOwners
      BY <2>0, <2>1 DEF At, UpOwners, WriteOwners, TypeOK
    <3>5. At({"writing", "upgraded"}) = {} /\ At({"writing", "upgraded"})' = {}
      BY <2>0, <2>1 DEF Exclusion, At, TypeOK
    <3>6. TypeOK'
      BY <1>b, <2>0, <3>1, <3>2 DEF TypeOK
    <3>7. Accounting'
      BY <1>a, <3>2, <3>3, <3>4 DEF Accounting, AtMostOne
    <3>8. Exclusion'
      BY <3>5 DEF Exclusion, AtMostOne, At
    <3> QED
      BY <3>6, <3>7, <3>8
  <2>2. CASE pc[t] \in {"writing", "upgraded"}
    <3>1. read_count = 0 /\ ReadersOf(pc) = {}
      BY <1>a, <1>b, <2>2 DEF Exclusion, At
    <3>2. ReadersOf(pc') = {}
      BY <2>0, <3>1 DEF ReadersOf, TypeOK
    <3>3. ReleaseWrite /\ read_count' = read_count
      BY <1>7, <3>1 DEF Done
    <3>4. /\ want_write' = (WriteOwners' # {})
          /\ want_upgrade' = (UpOwners' # {})
          /\ AtMostOne(UpOwners') /\ AtMostOne(WriteOwners')
      BY <2>0, <2>2, <3>3, Released
    <3>5. Exclusion'
      BY <1>a, <2>0, <3>2
      DEF Exclusion, At, UpOwners, TypeOK, AtMostOne
    <3> QED
      BY <1>a, <1>b, <2>0, <3>1, <3>2, <3>3, <3>4, <3>5
      DEF TypeOK, Accounting, AtMostOne
  <2> QED
    BY <2>0, <2>1, <2>2
<1>8. ASSUME NEW t \in Threads, WriteToRead(t) PROVE Inv'
  <2>0. /\ pc[t] \in {"writing", "upgraded"}
        /\ pc' = [pc EXCEPT ![t] = "reading"]
        /\ read_count' = read_count + 1
        /\ ReleaseWrite
    BY <1>8 DEF WriteToRead
  <2>1. Cardinality(ReadersOf(pc')) = read_count + 1
    BY <1>b, <2>0, ReaderEnters DEF TypeOK
  <2>2. /\ want_write' = (WriteOwners' # {})
        /\ want_upgrade' = (UpOwners' # {})
        /\ AtMostOne(UpOwners') /\ AtMostOne(WriteOwners')
    BY <2>0, Released
  <2>3. At({"writing", "upgraded"})' = {}
    BY <2>0 DEF Exclusion, At, TypeOK, AtMostOne
  <2>4. Exclusion'
    BY <2>3 DEF Exclusion, At, AtMostOne
  <2>5. TypeOK'
    <3>1. want_write' \in BOOLEAN /\ want_upgrade' \in BOOLEAN
      BY <2>0, Zenon DEF TypeOK, ReleaseWrite
    <3>2. read_count' \in Nat /\ pc' \in [Threads -> Locations]
      BY <1>b, <2>0 DEF TypeOK
    <3> QED
      BY <3>1, <3>2 DEF TypeOK
  <2>6. Accounting'
    BY <1>a, <1>b, <2>0, <2>1, <2>2 DEF Accounting
  <2> QED
    BY <2>4, <2>5, <2>6
<1>9. CASE UNCHANGED vars
  BY <1>9 DEF vars, TypeOK, Accounting, Exclusion, AtMostOne, At,
              UpOwners, WriteOwners
<1> QED
  BY <1>1, <1>2, <1>3, <1>4, <1>5, <1>6, <1>7, <1>8, <1>9
  DEF Next, Step, Waiting

-----------------------------------------------------------------------------
(* The lock is in its right state whatever the clients do: the fields have *)
(* their types, count and bits stand for the right threads, and writers    *)
(* are alone.                                                              *)
THEOREM Invariance == Spec => []Inv
BY InitInv, StepInv, PTL DEF Spec

(* Type correctness: in particular read_count is never negative, so the    *)
(* read_count > 0 tests of lock_done are the exact tests they look like.   *)
THEOREM TypeCorrect == Spec => []TypeOK
BY Invariance, PTL DEF Inv

(* Mutual exclusion of writers among themselves and with readers.          *)
THEOREM MutualExclusion == Spec => []Exclusion
BY Invariance, PTL DEF Inv

(* No bit is leaked or stolen, no reader is miscounted.                    *)
THEOREM FieldsOwned == Spec => []Accounting
BY Invariance, PTL DEF Inv

-----------------------------------------------------------------------------
(***************************************************************************)
(* From here on: what a step may do, given Inv.                            *)
(***************************************************************************)

(* A pending upgrade shuts everybody else out for as long as it waits      *)
(* (UpgradeIsolated): no writer and no new reader gets in between its last *)
(* read and its first write.                                               *)
LEMMA IsolatedStep ==
  ASSUME Inv, [Next]_vars,
         NEW u \in Threads, pc[u] \in UpWait,
         NEW t \in Threads \ {u},
         pc'[t] \in {"reading", "writing", "upgraded"}
  PROVE  pc'[t] = pc[t]
<1> USE DEF Inv
<1>1. want_upgrade /\ u \in UpOwners /\ t # u
  BY DEF Accounting, UpOwners, At
<1>2. pc[t] \notin UpWait \cup {"writing", "upgraded"}
  BY <1>1 DEF Accounting, AtMostOne, Exclusion, UpOwners, At
<1>3. ASSUME NEW s \in Threads, s # t, Step(s) PROVE pc'[t] = pc[t]
  BY <1>3 DEF Step, Waiting, CallRead, ReadSpin, ReadAccept, ReadRetry,
       CallWrite, WriteSpin, WriteBit, WriteWaitSpin, WriteSample, ReadToWrite,
       UpgradeSpin, UpgradeSample, Done, WriteToRead, Goto, TypeOK
<1>4. CASE Step(t)
  <2>1. CASE pc[t] = "reading"
    BY <1>1, <1>4, <2>1 DEF Step, Waiting, CallRead, ReadSpin, ReadAccept,
       ReadRetry, CallWrite, WriteSpin, WriteBit, WriteWaitSpin, WriteSample,
       ReadToWrite, UpgradeSpin, UpgradeSample, Done, WriteToRead, Goto, TypeOK
  <2>2. CASE pc[t] # "reading"
    BY <1>1, <1>2, <1>4, <2>2 DEF Step, Waiting, CallRead, ReadSpin,
       ReadAccept, ReadRetry, CallWrite, WriteSpin, WriteBit, WriteWaitSpin,
       WriteSample, AfterSample, ReadToWrite, UpgradeSpin, UpgradeSample, Done,
       WriteToRead, Goto, TypeOK, UpWait
  <2> QED
    BY <2>1, <2>2
<1>5. CASE UNCHANGED vars
  BY <1>5 DEF vars
<1> QED
  BY <1>3, <1>4, <1>5 DEF Next

THEOREM UpgradesIsolated == Spec => UpgradeIsolated
<1>1. Inv /\ [Next]_vars =>
        [\A u \in Threads :
           pc[u] \in UpWait =>
             \A t \in Threads \ {u} :
               pc'[t] \in {"reading", "writing", "upgraded"}
                 => pc'[t] = pc[t]]_vars
  BY IsolatedStep
<1> QED
  BY <1>1, Invariance, PTL DEF Spec, UpgradeIsolated

(* The spin lock implements AbstractRWLock: each step of the code is a     *)
(* step of the abstract lock or invisible to its clients.                  *)
LEMMA AbsStep == Inv /\ [Next]_vars => [Abs!Next]_AbsMode
<1> SUFFICES ASSUME Inv, [Next]_vars PROVE [Abs!Next]_AbsMode
  OBVIOUS
<1> USE DEF Inv
<1> DEFINE Moved(t, to) == pc' = [pc EXCEPT ![t] = to]
<1>1. ASSUME NEW t \in Threads, NEW to, Moved(t, to),
             ModeAt(to) = ModeAt(pc[t])
      PROVE  UNCHANGED AbsMode
  BY <1>1 DEF AbsMode, TypeOK
<1>2. ASSUME NEW t \in Threads, NEW to, Moved(t, to)
      PROVE  /\ AbsMode[t] = ModeAt(pc[t])
             /\ AbsMode' = [AbsMode EXCEPT ![t] = ModeAt(to)]
  BY <1>2 DEF AbsMode, TypeOK
<1> HIDE DEF Moved
<1>q. UNCHANGED AbsMode \/ Abs!Next => [Abs!Next]_AbsMode
  OBVIOUS
<1> USE DEF Locations, Outside, ReadEntry, WriteBid, WriteWait, UpWait
<1>3. ASSUME NEW t \in Threads, ReadAccept(t) PROVE Abs!GrantRead(t)
  <2>1. pc[t] = "r_try" /\ Moved(t, "reading") /\ ~want_write /\ ~want_upgrade
    BY <1>3 DEF ReadAccept, Goto, Moved
  <2>2. UpOwners = {} /\ WriteOwners = {}
    BY <2>1 DEF Accounting
  <2>3. \A u \in Threads : AbsMode[u] \notin {"write", "upgrading"}
    BY <2>2 DEF UpOwners, WriteOwners, At, AbsMode, ModeAt, TypeOK
  <2> QED
    BY <1>2, <2>1, <2>3
    DEF Abs!GrantRead, Abs!Become, Abs!Holders, ModeAt
<1>4. ASSUME NEW t \in Threads, NEW from \in {"w_try", "w_sample"},
             Goto(t, from, AfterSample), ~(from = "w_try" /\ want_write)
      PROVE  UNCHANGED AbsMode \/ Abs!GrantWrite(t)
  <2>1. pc[t] = from /\ Moved(t, AfterSample)
    BY <1>4 DEF Goto, Moved
  <2>2. CASE read_count > 0 \/ want_upgrade
    BY <1>1, <2>1, <2>2 DEF AfterSample, ModeAt
  <2>3. CASE ~(read_count > 0 \/ want_upgrade)
    <3>1. UpOwners = {} /\ ReadersOf(pc) = {}
      BY <2>3, ReadersCount DEF Accounting, TypeOK, At, ReadersOf
    <3>2. At({"writing"}) = {}
      BY <1>4, <2>1 DEF Accounting, WriteOwners, At, AtMostOne
    <3>3. \A u \in Threads : AbsMode[u] = "none"
      BY <3>1, <3>2 DEF UpOwners, ReadersOf, At, AbsMode, ModeAt, TypeOK
    <3>4. AfterSample = "writing"
      BY <2>3 DEF AfterSample
    <3> QED
      BY <1>2, <2>1, <3>3, <3>4 DEF Abs!GrantWrite, Abs!Become, ModeAt
  <2> QED
    BY <2>2, <2>3
<1>5. ASSUME NEW t \in Threads, WriteBit(t) \/ WriteSample(t)
      PROVE  UNCHANGED AbsMode \/ Abs!GrantWrite(t)
  <2>1. CASE WriteSample(t) \/ (WriteBit(t) /\ ~want_write)
    BY <1>4, <2>1 DEF WriteBit, WriteSample
  <2>2. CASE WriteBit(t) /\ want_write
    <3>1. pc[t] = "w_try" /\ Moved(t, "w_spin")
      BY <2>2 DEF WriteBit, Goto, Moved
    <3> QED
      BY <1>1, <3>1 DEF ModeAt
  <2> QED
    BY <1>5, <2>1, <2>2
<1>6. ASSUME NEW t \in Threads, ReadToWrite(t)
      PROVE  Abs!RefuseUpgrade(t) \/ Abs!StartUpgrade(t) \/ Abs!Upgraded(t)
  <2>0. pc[t] = "reading" /\ AbsMode[t] = "read"
    BY <1>6 DEF ReadToWrite, Goto, AbsMode, ModeAt
  <2>w. At({"writing", "upgraded"}) = {}
    BY <2>0 DEF Exclusion, At
  <2>1. CASE want_upgrade
    <3>1. Moved(t, "idle")
      BY <1>6, <2>1 DEF ReadToWrite, Goto, Moved
    <3>2. \E u \in Threads : AbsMode[u] = "upgrading"
      BY <2>1, <2>w DEF Accounting, UpOwners, At, AbsMode, ModeAt
    <3> QED
      BY <1>2, <2>0, <3>1, <3>2
      DEF Abs!RefuseUpgrade, Abs!Become, Abs!Holders, ModeAt
  <2>2. CASE ~want_upgrade
    <3>0. Moved(t, AfterCount(read_count - 1))
      BY <1>6, <2>2 DEF ReadToWrite, Goto, Moved
    <3>1. UpOwners = {}
      BY <2>2 DEF Accounting
    <3>2. CASE read_count - 1 > 0
      <4>1. AfterCount(read_count - 1) = "u_wait"
        BY <3>2 DEF AfterCount
      <4>2. \A u \in Threads : AbsMode[u] # "upgrading"
        BY <3>1 DEF UpOwners, At, AbsMode, ModeAt
      <4> QED
        BY <1>2, <2>0, <3>0, <4>1, <4>2
        DEF Abs!StartUpgrade, Abs!Become, Abs!Holders, ModeAt
    <3>3. CASE ~(read_count - 1 > 0)
      <4>1. AfterCount(read_count - 1) = "upgraded"
        BY <3>3 DEF AfterCount
      <4>2. ReadersOf(pc) = {t}
        <5>1. At({"reading"}) = ReadersOf(pc)
          BY DEF At, ReadersOf
        <5>2. Cardinality(ReadersOf([pc EXCEPT ![t] = "idle"])) = read_count - 1
          BY <2>0, <5>1, ReaderLeaves DEF Accounting, TypeOK
        <5>3. read_count - 1 = 0
          BY <3>3, <5>2, ReadersFinite DEF TypeOK
        <5>4. ReadersOf([pc EXCEPT ![t] = "idle"]) = {}
          BY <5>2, <5>3, ReadersCount
        <5> QED
          BY <2>0, <5>4 DEF ReadersOf, TypeOK
      <4>3. \A u \in Threads \ {t} : AbsMode[u] = "none"
        BY <2>w, <3>1, <4>2
        DEF UpOwners, ReadersOf, At, AbsMode, ModeAt, TypeOK
      <4> QED
        BY <1>2, <2>0, <3>0, <4>1, <4>3
        DEF Abs!Upgraded, Abs!Become, ModeAt
    <3> QED
      BY <3>2, <3>3
  <2> QED
    BY <2>1, <2>2
<1>7. ASSUME NEW t \in Threads, UpgradeSpin(t) \/ UpgradeSample(t)
      PROVE  UNCHANGED AbsMode \/ Abs!Upgraded(t)
  <2>1. /\ pc[t] \in UpWait
        /\ \/ Moved(t, "u_sample") \/ Moved(t, "u_wait")
           \/ Moved(t, "upgraded") /\ ~(read_count > 0)
    BY <1>7 DEF UpgradeSpin, UpgradeSample, Goto, AfterCount, Moved
  <2>2. CASE Moved(t, "upgraded") /\ ~(read_count > 0)
    <3>1. ReadersOf(pc) = {}
      BY <2>2, ReadersCount DEF Accounting, TypeOK, At, ReadersOf
    <3>2. At({"writing"}) = {} /\ UpOwners = {t}
      BY <2>1 DEF Exclusion, Accounting, AtMostOne, UpOwners, At
    <3>3. \A u \in Threads \ {t} : AbsMode[u] = "none"
      BY <3>1, <3>2 DEF UpOwners, ReadersOf, At, AbsMode, ModeAt, TypeOK
    <3> QED
      BY <1>2, <2>1, <2>2, <3>3 DEF Abs!Upgraded, Abs!Become, ModeAt
  <2> QED
    BY <1>1, <2>1, <2>2 DEF ModeAt
<1>8. ASSUME NEW t \in Threads, Done(t) PROVE Abs!Release(t)
  <2>1. pc[t] \in {"reading", "writing", "upgraded"} /\ Moved(t, "idle")
    BY <1>8 DEF Done, Moved
  <2> QED
    BY <1>2, <2>1 DEF Abs!Release, Abs!Become, ModeAt
<1>9. ASSUME NEW t \in Threads, WriteToRead(t) PROVE Abs!Downgrade(t)
  <2>1. pc[t] \in {"writing", "upgraded"} /\ Moved(t, "reading")
    BY <1>9 DEF WriteToRead, Moved
  <2> QED
    BY <1>2, <2>1 DEF Abs!Downgrade, Abs!Become, ModeAt
<1>10. ASSUME NEW t \in Threads,
              CallRead(t) \/ ReadSpin(t) \/ ReadRetry(t) \/ CallWrite(t)
                \/ WriteSpin(t) \/ WriteWaitSpin(t)
       PROVE  UNCHANGED AbsMode
  <2>1. PICK to \in {"r_spin", "r_spin_up", "r_try", "w_spin", "w_try",
                     "w_wait", "w_wait_up", "w_sample"} :
           Moved(t, to) /\ pc[t] \in Outside \cup ReadEntry \cup WriteBid
                                       \cup WriteWait
    BY <1>10 DEF CallRead, ReadSpin, ReadRetry, CallWrite, WriteSpin,
                 WriteWaitSpin, Goto, Moved
  <2> QED
    BY <1>1, <2>1 DEF ModeAt
<1>11. CASE UNCHANGED vars
  BY <1>11 DEF vars, AbsMode
<1> QED
  BY <1>3, <1>5, <1>6, <1>7, <1>8, <1>9, <1>10, <1>11
  DEF Next, Step, Waiting, Abs!Next

THEOREM Refinement == Spec => AbsSpec
<1>1. Init => Abs!Init
  BY DEF Init, Abs!Init, AbsMode, ModeAt, UpWait
<1> QED
  BY <1>1, AbsStep, Invariance, PTL DEF Spec, AbsSpec, Abs!Spec
=============================================================================
