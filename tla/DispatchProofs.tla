--------------------------- MODULE DispatchProofs ---------------------------
(***************************************************************************)
(* Proofs about Dispatch for any numbers of processors and processes.      *)
(*                                                                         *)
(* The argument is about who has a thread.  The code says so nowhere: what *)
(* it looks at are th->runq, p_stat and active_threads, which are set at   *)
(* other moments than a thread really comes or goes.  The invariant says   *)
(* how far apart they may be.  The one place where a process is both       *)
(* queued and executed is a wakeup that meets it half asleep.  It is       *)
(* harmless on the master, because setrun uses the master's queue and the  *)
(* master does not choose until it has saved the process; on another       *)
(* processor the master may load the process before it is saved.  The      *)
(* theorems are about any processors that sleep and wake, and say that     *)
(* this, WokenHalfway, is the only thing that can go wrong.                *)
(***************************************************************************)
EXTENDS Dispatch, RunQueueProofs

(* A processor runs a thread from load_context until it has left the       *)
(* thread's context for good, and takes one from the moment it is chosen:  *)
(* a thread is had by who does either.                                     *)
Runs(c)  == at[c] \notin {"choose", "load"}
Takes(c) == at[c] \in {"cs_save", "cs_put", "load"}
Has(c, t) == (Runs(c) /\ exec[c] = t) \/ (Takes(c) /\ next[c] = t)

(* A processor is half way when it goes to save the context of a process   *)
(* that is not to be put on a run queue: the process sleeps, or was woken  *)
(* meanwhile.                                                              *)
Halfway(c) == at[c] = "save" /\ put[c] = NoQueue

(* A step that makes a sleeper runnable while a processor other than the   *)
(* master, whose context it still is, is half way.                         *)
WokenHalfway ==
  \E d \in CPUs \ {Master} :
    Halfway(d) /\ stat[exec[d]] = "SSLEEP" /\ stat'[exec[d]] = "SRUN"

(* A wakeup walks over a process that another processor has put on slpque  *)
(* and not yet made SSLEEP.                                                *)
SleeperMet ==
  \E c \in CPUs : \E d \in CPUs \ {c}, i \in Walked(c) :
    waking[c] # NoChan /\ at[d] = "slp" /\ exec[d] = slpque[i]

(* Where a processor is in the dispatcher says what it has: a process      *)
(* while that is being put to sleep or put back, its idle thread in        *)
(* idle_thread, and in active_threads what it runs. A wakeup is where      *)
(* interrupts are enabled.                                                 *)
Located ==
  \A c \in CPUs :
    /\ exec[c] \in Procs \cup {Idle(c)}
    /\ at[c] \in {"run", "save", "put", "choose", "slp", "ipc_spin", "ipc_lock"} =>
         exec[c] \in Procs
    /\ at[c] \in {"idle", "idle_choose"} => exec[c] = Idle(c)
    /\ at[c] \in {"cs_save", "cs_put"} => next[c] \in Procs /\ next[c] # exec[c]
    /\ at[c] = "load" => next[c] \in Procs \cup {Idle(c)}
    /\ Runs(c) => active[c] = exec[c]
    /\ at[c] = "load" => active[c] = next[c]
    /\ at[c] = "put" => put[c] \in RunQs
    /\ at[c] = "slp" => c \in UnixCPUs
    /\ waking[c] # NoChan =>
         c \in UnixCPUs /\ at[c] \in {"run", "idle", "save", "ipc_spin"}

(* Nobody is had by two processors.                                        *)
Apart == \A c, d \in CPUs : \A t \in Threads : Has(c, t) /\ Has(d, t) => c = d

(* Who has a thread has it alone: it is on no run queue, except that a     *)
(* process that is half way may be on the master's, which only the         *)
(* processor that is half way serves.                                      *)
OffQueue ==
  \A c \in CPUs, t \in Threads :
    Has(c, t) => \/ runq[t] = NoQueue
                 \/ c = Master /\ Halfway(c) /\ runq[t] = Master

(* A processor's idle thread is on its own queue or with it.               *)
HomeIdle ==
  \A c \in CPUs : /\ runq[Idle(c)] \in {c, NoQueue}
                  /\ runq[Idle(c)] = c \/ Has(c, Idle(c))

(* A process that is had is runnable, or it sleeps and is half way. If it  *)
(* sleeps for a message, its processor has its lock, so ipc_wakeup waits   *)
(* until its context is saved; if it sleeps on a channel, its processor    *)
(* is one that sleeps.                                                     *)
Running ==
  \A c \in CPUs, p \in Procs :
    Has(c, p) =>
      \/ stat[p] = "SRUN" /\ (Halfway(c) => runq[p] # NoQueue)
      \/ /\ Halfway(c) /\ stat[p] = "SSLEEP"
         /\ IF wchan[p] = NoChan THEN proclock[p] = c ELSE c \in UnixCPUs

(* What is on a run queue is runnable, and what is runnable is on a run    *)
(* queue or had.                                                           *)
Runnable ==
  \A p \in Procs : /\ runq[p] # NoQueue => stat[p] = "SRUN"
                   /\ stat[p] = "SRUN" => runq[p] # NoQueue \/ \E c \in CPUs : Has(c, p)

(* Whose context is not saved is executed by a processor that has not      *)
(* saved it yet.                                                           *)
Unsaved ==
  \A t \in Threads :
    ~saved[t] =>
      \E c \in CPUs : exec[c] = t /\ at[c] \notin {"put", "choose", "cs_put", "load"}

(* slpque has whom p_wchan says, and nobody twice; who is on it sleeps,    *)
(* or is just about to be made SSLEEP by its processor.                    *)
Sleepers ==
  /\ IsInjective(slpque)
  /\ \A p \in Procs : p \in Range(slpque) <=> wchan[p] # NoChan
  /\ \A p \in Procs :
       wchan[p] # NoChan => \/ stat[p] = "SSLEEP"
                            \/ \E c \in CPUs : at[c] = "slp" /\ exec[c] = p
  /\ \A c \in CPUs : at[c] = "slp" => wchan[exec[c]] # NoChan

(* Who sleeps without a channel waits for a message; who waits for a       *)
(* message is on no other queue, and if it is had, it is in ipc_wait or    *)
(* half way.                                                               *)
Waiting ==
  \A p \in Procs :
    /\ stat[p] = "SSLEEP" /\ wchan[p] = NoChan => msgwait[p]
    /\ msgwait[p] => stat[p] # "SIDL" /\ runq[p] = NoQueue /\ wchan[p] = NoChan
    /\ \A c \in CPUs : Has(c, p) /\ msgwait[p] =>
         Halfway(c) \/ (exec[c] = p /\ at[c] \in {"ipc_spin", "ipc_lock"})

(* The inductive invariant, RunQueue's Inv being a part of it.             *)
DInv == /\ Inv /\ TypeOK
        /\ Located /\ Apart /\ OffQueue /\ HomeIdle /\ Running /\ Runnable
        /\ Unsaved /\ Sleepers /\ Waiting

-----------------------------------------------------------------------------
(* What the names of processors, queues and threads have to do with one    *)
(* another.                                                                *)
LEMMA Names ==
  /\ Master \in CPUs /\ InitProc \in Procs
  /\ NoThread \notin Threads /\ NoThread \notin CPUs /\ NoChan \notin Channels
  /\ Global \in RunQs /\ NoQueue \notin RunQs
  /\ \A c \in CPUs : c \in RunQs /\ c # NoQueue /\ c # Global
  /\ \A p \in Procs : p \in Threads /\ p \notin Idles
  /\ \A c \in CPUs : Idle(c) \in Threads /\ Idle(c) \in Idles /\ Idle(c) \notin Procs
  /\ \A c, d \in CPUs : Idle(c) = Idle(d) => c = d
  /\ \A t \in Threads : t \in Procs \/ \E c \in CPUs : t = Idle(c)
  /\ \A p \in Procs : ProcPriorities[p] \subseteq Int
<1>1. \A c, d \in CPUs : Idle(c) = Idle(d) => c = d
  BY DEF Idle
<1>2. \A p \in Procs : ProcPriorities[p] \subseteq Int
  BY RunQueueAssumption, DispatchAssumption
<1> QED
  BY <1>1, <1>2, RunQueueAssumption, DispatchAssumption DEF RunQs, Idles

(* idle_thread puts the idle thread on its processor's queue: it is        *)
(* bound.                                                                  *)
LEMMA HomeQueue == \A c \in CPUs : Whichq(Idle(c)) = c
BY Names DEF Whichq, Idle

(* A processor that is not half way has its thread to itself, off the      *)
(* queues, and runnable.                                                   *)
LEMMA Mine ==
  ASSUME DInv, NEW c \in CPUs, NEW t \in Threads, Has(c, t)
  PROVE  /\ \A d \in CPUs : Has(d, t) => d = c
         /\ Halfway(c) \/ runq[t] = NoQueue
         /\ t \in Procs => Halfway(c) \/ stat[t] = "SRUN"
BY DEF DInv, Apart, OffQueue, Running, Halfway

(* What a processor finds on its queues nobody has: a process on the       *)
(* master's queue may be half way only at the master, who does not choose  *)
(* then.                                                                   *)
LEMMA Queued ==
  ASSUME DInv, NEW c \in CPUs, NEW t \in Threads, runq[t] \in {c, Global}, ~Halfway(c)
  PROVE  /\ \A d \in CPUs : ~Has(d, t)
         /\ t \in Procs \cup {Idle(c)}
         /\ t \in Procs => stat[t] = "SRUN"
         /\ t \in Procs => ~msgwait[t]
BY Names DEF DInv, OffQueue, HomeIdle, Runnable, Waiting

(* A process that is not runnable is on no queue, and who has it is half   *)
(* way.                                                                    *)
LEMMA Stopped ==
  ASSUME DInv, NEW p \in Procs, stat[p] # "SRUN"
  PROVE  /\ runq[p] = NoQueue
         /\ \A c \in CPUs : Has(c, p) => Halfway(c) /\ stat[p] = "SSLEEP"
         /\ \A c \in CPUs : Has(c, p) =>
              IF wchan[p] = NoChan THEN proclock[p] = c ELSE c \in UnixCPUs
<1>1. runq[p] = NoQueue
  BY DEF DInv, Runnable
<1>2. ASSUME NEW c \in CPUs, Has(c, p)
      PROVE  /\ Halfway(c) /\ stat[p] = "SSLEEP"
             /\ IF wchan[p] = NoChan THEN proclock[p] = c ELSE c \in UnixCPUs
  BY <1>2 DEF DInv, Running
<1> QED
  BY <1>1, <1>2

(* One lemma for each action follows: it keeps the invariant. A process    *)
(* gives up its processor with a queue to go to.                           *)
LEMMA YieldKeeps ==
  ASSUME DInv, NEW c \in CPUs, waking[c] = NoChan, Yield(c)
  PROVE  DInv'
<1> USE DEF Has, Runs, Takes, Halfway, rqvars, slpvars, ipcvars, cpuvars
<1>1. /\ at[c] = "run" /\ exec[c] \in Procs
      /\ at' = [at EXCEPT ![c] = "save"]
      /\ \E rq \in {Master, Global} : put' = [put EXCEPT ![c] = rq]
      /\ UNCHANGED <<rqvars, exec, next, active, saved, stat, slpvars, ipcvars>>
  BY DEF Yield, CallSwtch, Goto
<1>2. Inv'
  BY <1>1 DEF DInv, Inv, RQTypeOK, Placed, Counted, Hinted
<1>3. TypeOK'
  BY <1>1, <1>2, Names DEF DInv, Inv, TypeOK
<1>4. Located'
  BY <1>1 DEF DInv, Located
<1>5. Apart'
  BY <1>1 DEF DInv, Apart
<1>6. OffQueue'
  BY <1>1 DEF DInv, OffQueue
<1>7. HomeIdle'
  BY <1>1 DEF DInv, HomeIdle
<1>8. Running'
  BY <1>1, Names DEF DInv, TypeOK, Running
<1>9. Runnable'
  BY <1>1 DEF DInv, Runnable
<1>10. Unsaved'
  BY <1>1 DEF DInv, Unsaved
<1>11. Sleepers'
  BY <1>1 DEF DInv, Sleepers
<1>12. Waiting'
  BY <1>1 DEF DInv, Waiting
<1> QED
  BY <1>2, <1>3, <1>4, <1>5, <1>6, <1>7, <1>8, <1>9, <1>10, <1>11, <1>12 DEF DInv

(* save_context: a process that was half way is let go here. If it was     *)
(* woken meanwhile it is on a queue, if not it sleeps.                     *)
LEMMA SaveContextKeeps ==
  ASSUME DInv, NEW c \in CPUs, waking[c] = NoChan, SaveContext(c)
  PROVE  DInv'
<1> USE DEF Has, Runs, Takes, Halfway, rqvars, slpvars, ipcvars, cpuvars
<1>1. /\ at[c] = "save"
      /\ at' = [at EXCEPT ![c] = IF put[c] = NoQueue THEN "choose" ELSE "put"]
      /\ saved' = [saved EXCEPT ![exec[c]] = TRUE]
      /\ active' = [active EXCEPT ![c] = IF put[c] = NoQueue THEN NoThread ELSE @]
      /\ proclock' = [p \in Procs |-> IF proclock[p] = c THEN NoThread ELSE proclock[p]]
      /\ UNCHANGED <<rqvars, exec, next, put, stat, slpvars, msgwait>>
  BY DEF SaveContext, ReleaseProcLocks, Goto
<1>2. Inv'
  BY <1>1 DEF DInv, Inv, RQTypeOK, Placed, Counted, Hinted
<1>a. /\ exec[c] \in Procs
      /\ put[c] = NoQueue /\ stat[exec[c]] = "SRUN" => runq[exec[c]] # NoQueue
  BY <1>1 DEF DInv, Located, Running
<1>3. TypeOK'
  BY <1>1, <1>2 DEF DInv, Inv, TypeOK
<1>4. Located'
  BY <1>1 DEF DInv, TypeOK, Located
<1>5. Apart'
  BY <1>1 DEF DInv, Apart
<1>6. OffQueue'
  BY <1>1 DEF DInv, OffQueue
<1>7. HomeIdle'
  BY <1>1, <1>a, Names DEF DInv, HomeIdle
<1>8. Running'
  BY <1>1 DEF DInv, TypeOK, Running
<1>9. Runnable'
  <2>1. \A d \in CPUs, p \in Procs : Has(d, p) /\ ~(d = c /\ put[c] = NoQueue) => Has(d, p)'
    BY <1>1 DEF DInv
  <2>2. \A p \in Procs : Has(c, p) => p = exec[c]
    BY <1>1
  <2> QED
    BY <1>1, <1>a, <2>1, <2>2 DEF DInv, Runnable
<1>10. Unsaved'
  BY <1>1 DEF DInv, TypeOK, Unsaved
<1>11. Sleepers'
  BY <1>1 DEF DInv, Sleepers
<1>12. Waiting'
  BY <1>1 DEF DInv, Waiting
<1> QED
  BY <1>2, <1>3, <1>4, <1>5, <1>6, <1>7, <1>8, <1>9, <1>10, <1>11, <1>12 DEF DInv

(* set_runq by the processor that leaves a process: nobody else has it,    *)
(* and it is saved.                                                        *)
LEMMA PutBackKeeps ==
  ASSUME DInv, NEW c \in CPUs, waking[c] = NoChan, PutBack(c)
  PROVE  DInv'
<1> USE DEF Has, Runs, Takes, Halfway, rqvars, slpvars, ipcvars, cpuvars
<1>1. /\ at[c] = "put" /\ exec[c] \in Procs /\ put[c] \in RunQs
      /\ \E pr \in Int : SetRunq(exec[c], put[c], pr)
      /\ runq' = [runq EXCEPT ![exec[c]] = put[c]]
      /\ at' = [at EXCEPT ![c] = "choose"] /\ active' = [active EXCEPT ![c] = NoThread]
      /\ UNCHANGED <<exec, next, put, saved, stat, slpvars, ipcvars>>
  BY Names DEF PutBack, SetRunq, Goto, DInv, Located
<1>2. Inv'
  BY <1>1, Names, SetRunqKeeps DEF DInv
<1>a. /\ Has(c, exec[c]) /\ \A d \in CPUs : Has(d, exec[c]) => d = c
      /\ stat[exec[c]] = "SRUN" /\ ~Halfway(c)
  <2>1. exec[c] \in Threads /\ Has(c, exec[c]) /\ ~Halfway(c)
    BY <1>1, Names
  <2> QED
    BY <1>1, <2>1, Mine
<1>b. /\ \A x \in Threads : runq'[x] = IF x = exec[c] THEN put[c] ELSE runq[x]
      /\ \A d \in CPUs, x \in Threads : x # exec[c] => (Has(d, x) <=> Has(d, x)')
      /\ \A d \in CPUs : ~Has(d, exec[c])' /\ (Halfway(d) => Halfway(d)')
  BY <1>1, <1>a DEF DInv, TypeOK, RQTypeOK
<1>3. TypeOK'
  BY <1>1, <1>2 DEF DInv, Inv, TypeOK
<1>4. Located'
  BY <1>1 DEF DInv, TypeOK, Located
<1>5. Apart'
  BY <1>1 DEF DInv, Apart
<1>6. OffQueue'
  BY <1>1, <1>b DEF DInv, OffQueue
<1>7. HomeIdle'
  BY <1>1, Names DEF DInv, HomeIdle
<1>8. Running'
  BY <1>1, <1>a DEF DInv, Running
<1>9. Runnable'
  BY <1>1, <1>a, <1>b, Names DEF DInv, Runnable
<1>10. Unsaved'
  BY <1>1 DEF DInv, Unsaved
<1>11. Sleepers'
  BY <1>1 DEF DInv, Sleepers
<1>12. Waiting'
  BY <1>1 DEF DInv, Waiting
<1> QED
  BY <1>2, <1>3, <1>4, <1>5, <1>6, <1>7, <1>8, <1>9, <1>10, <1>11, <1>12 DEF DInv

(* choose_thread: what it takes off a queue nobody had.                    *)
LEMMA ChosenKeeps ==
  ASSUME DInv, NEW c \in CPUs, waking[c] = NoChan, Choose(c)
  PROVE  DInv'
<1> USE DEF Has, Runs, Takes, Halfway, rqvars, slpvars, ipcvars, cpuvars
<1>1. /\ at[c] = "choose" /\ Chosen(c) \in Threads /\ runq[Chosen(c)] \in {c, Global}
      /\ runq' = [runq EXCEPT ![Chosen(c)] = NoQueue]
      /\ at' = [at EXCEPT ![c] = "load"] /\ next' = [next EXCEPT ![c] = Chosen(c)]
      /\ active' = [active EXCEPT ![c] = Chosen(c)]
      /\ UNCHANGED <<exec, put, saved, stat, slpvars, ipcvars>>
  BY ChosenIs DEF Choose, ChooseThread, Take, Goto, DInv
<1>2. Inv'
  BY ChooseKeeps DEF Choose, DInv
<1>a. /\ \A d \in CPUs : ~Has(d, Chosen(c))
      /\ Chosen(c) \in Procs \cup {Idle(c)} /\ Chosen(c) # NoThread
      /\ Chosen(c) \in Procs => stat[Chosen(c)] = "SRUN" /\ ~msgwait[Chosen(c)]
  BY <1>1, Names, Queued
<1>b. /\ \A x \in Threads : runq'[x] = IF x = Chosen(c) THEN NoQueue ELSE runq[x]
      /\ \A d \in CPUs, x \in Threads : x # Chosen(c) => (Has(d, x) <=> Has(d, x)')
      /\ \E d \in CPUs : Takes(d)' /\ next'[d] = Chosen(c)
  BY <1>1 DEF DInv, TypeOK, RQTypeOK
<1>3. TypeOK'
  BY <1>1, <1>2 DEF DInv, Inv, TypeOK
<1>4. Located'
  BY <1>1, <1>a DEF DInv, TypeOK, Located
<1>5. Apart'
  BY <1>1, <1>a DEF DInv, TypeOK, Apart
<1>6. OffQueue'
  BY <1>1, <1>b DEF DInv, OffQueue
<1>7. HomeIdle'
  BY <1>1, Names DEF DInv, TypeOK, HomeIdle
<1>8. Running'
  BY <1>1, <1>a DEF DInv, TypeOK, Running
<1>9. Runnable'
  BY <1>1, <1>b DEF DInv, Runnable
<1>10. Unsaved'
  BY <1>1 DEF DInv, Unsaved
<1>11. Sleepers'
  BY <1>1 DEF DInv, Sleepers
<1>12. Waiting'
  BY <1>1, <1>a DEF DInv, TypeOK, Waiting
<1> QED
  BY <1>2, <1>3, <1>4, <1>5, <1>6, <1>7, <1>8, <1>9, <1>10, <1>11, <1>12 DEF DInv

(* load_context: from here on the chosen thread is unsaved.                *)
LEMMA LoadContextKeeps ==
  ASSUME DInv, NEW c \in CPUs, waking[c] = NoChan, LoadContext(c)
  PROVE  DInv'
<1> USE DEF Has, Runs, Takes, Halfway, rqvars, slpvars, ipcvars, cpuvars
<1>1. /\ at[c] = "load" /\ next[c] \in Procs \cup {Idle(c)}
      /\ at' = [at EXCEPT ![c] = IF next[c] \in Idles THEN "idle" ELSE "run"]
      /\ exec' = [exec EXCEPT ![c] = next[c]] /\ next' = [next EXCEPT ![c] = NoThread]
      /\ saved' = [saved EXCEPT ![next[c]] = FALSE]
      /\ UNCHANGED <<rqvars, put, active, stat, slpvars, ipcvars>>
  BY DEF LoadContext, Goto, DInv, Located
<1>2. Inv'
  BY <1>1 DEF DInv, Inv, RQTypeOK, Placed, Counted, Hinted
<1>a. /\ next[c] \in Idles <=> next[c] = Idle(c)
      /\ at'[c] = IF next[c] = Idle(c) THEN "idle" ELSE "run"
      /\ \A d \in CPUs \ {c} : at'[d] = at[d]
      /\ active[c] = next[c]
  BY <1>1, Names DEF DInv, TypeOK, Located
<1>3. TypeOK'
  BY <1>1, <1>2, Names DEF DInv, Inv, TypeOK
<1>4. Located'
  BY <1>1, <1>a DEF DInv, TypeOK, Located
<1>5. Apart'
  BY <1>1 DEF DInv, TypeOK, Apart
<1>6. OffQueue'
  BY <1>1 DEF DInv, TypeOK, OffQueue
<1>7. HomeIdle'
  BY <1>1 DEF DInv, TypeOK, HomeIdle
<1>8. Running'
  BY <1>1 DEF DInv, TypeOK, Running
<1>9. Runnable'
  BY <1>1 DEF DInv, TypeOK, Runnable
<1>10. Unsaved'
  BY <1>1 DEF DInv, TypeOK, Unsaved
<1>11. Sleepers'
  BY <1>1 DEF DInv, Sleepers
<1>12. Waiting'
  BY <1>1 DEF DInv, TypeOK, Waiting
<1> QED
  BY <1>2, <1>3, <1>4, <1>5, <1>6, <1>7, <1>8, <1>9, <1>10, <1>11, <1>12 DEF DInv

(* context_swtch, the first half: the thread left is saved while the       *)
(* processor has another one at hand.                                      *)
LEMMA CsSaveKeeps ==
  ASSUME DInv, NEW c \in CPUs, waking[c] = NoChan, CsSave(c)
  PROVE  DInv'
<1> USE DEF Has, Runs, Takes, Halfway, rqvars, slpvars, ipcvars, cpuvars
<1>1. /\ at[c] = "cs_save" /\ at' = [at EXCEPT ![c] = "cs_put"]
      /\ saved' = [saved EXCEPT ![exec[c]] = TRUE]
      /\ proclock' = [p \in Procs |-> IF proclock[p] = c THEN NoThread ELSE proclock[p]]
      /\ UNCHANGED <<rqvars, exec, next, put, active, stat, slpvars, msgwait>>
  BY DEF CsSave, ReleaseProcLocks, Goto
<1>2. Inv'
  BY <1>1 DEF DInv, Inv, RQTypeOK, Placed, Counted, Hinted
<1>3. TypeOK'
  BY <1>1, <1>2 DEF DInv, Inv, TypeOK
<1>4. Located'
  BY <1>1 DEF DInv, Located
<1>5. Apart'
  BY <1>1 DEF DInv, Apart
<1>6. OffQueue'
  BY <1>1 DEF DInv, OffQueue
<1>7. HomeIdle'
  BY <1>1 DEF DInv, HomeIdle
<1>8. Running'
  BY <1>1 DEF DInv, Running
<1>9. Runnable'
  BY <1>1 DEF DInv, Runnable
<1>10. Unsaved'
  BY <1>1 DEF DInv, TypeOK, Unsaved
<1>11. Sleepers'
  BY <1>1 DEF DInv, Sleepers
<1>12. Waiting'
  BY <1>1 DEF DInv, Waiting
<1> QED
  BY <1>2, <1>3, <1>4, <1>5, <1>6, <1>7, <1>8, <1>9, <1>10, <1>11, <1>12 DEF DInv

(* context_swtch, the second half: the thread left goes to its queue, a    *)
(* process to the global one, the idle thread to its processor's own;      *)
(* neither is on a queue yet.                                              *)
LEMMA CsPutKeeps ==
  ASSUME DInv, NEW c \in CPUs, waking[c] = NoChan, CsPut(c)
  PROVE  DInv'
<1> USE DEF Has, Runs, Takes, Halfway, rqvars, slpvars, ipcvars, cpuvars
<1>1. /\ at[c] = "cs_put" /\ active[c] = exec[c] /\ exec[c] \in Procs \cup {Idle(c)}
      /\ exec[c] \in Threads /\ Whichq(exec[c]) \in RunQs /\ pri[exec[c]] \in Int
      /\ exec[c] = Idle(c) => Whichq(exec[c]) = c
      /\ SetRunq(exec[c], Whichq(exec[c]), pri[exec[c]])
      /\ runq' = [runq EXCEPT ![exec[c]] = Whichq(exec[c])]
      /\ at' = [at EXCEPT ![c] = "load"] /\ active' = [active EXCEPT ![c] = next[c]]
      /\ UNCHANGED <<exec, next, put, saved, stat, slpvars, ipcvars>>
  <2>1. /\ at[c] = "cs_put" /\ active[c] = exec[c] /\ exec[c] \in Procs \cup {Idle(c)}
        /\ exec[c] \in Threads /\ pri[exec[c]] \in Int
    BY DEF CsPut, Goto, DInv, Located, TypeOK, RQTypeOK
  <2>2. exec[c] = Idle(c) => Whichq(exec[c]) = c
    BY HomeQueue
  <2>3. exec[c] \in Procs => Whichq(exec[c]) = Global
    BY Names DEF Whichq
  <2> QED
    BY <2>1, <2>2, <2>3, Names DEF CsPut, SetRunq, Goto
<1>2. Inv'
  BY <1>1, SetRunqKeeps DEF DInv
<1>a. /\ Has(c, exec[c]) /\ \A d \in CPUs : Has(d, exec[c]) => d = c
      /\ exec[c] \in Procs => stat[exec[c]] = "SRUN"
      /\ next[c] \in Procs /\ next[c] # exec[c]
  <2>1. Has(c, exec[c]) /\ ~Halfway(c)
    BY <1>1
  <2>2. next[c] \in Procs /\ next[c] # exec[c]
    BY <1>1 DEF DInv, Located
  <2> QED
    BY <1>1, <2>1, <2>2, Mine
<1>b. /\ \A x \in Threads : runq'[x] = IF x = exec[c] THEN Whichq(exec[c]) ELSE runq[x]
      /\ \A d \in CPUs, x \in Threads : x # exec[c] => (Has(d, x) <=> Has(d, x)')
      /\ \A d \in CPUs : ~Has(d, exec[c])' /\ (Halfway(d) => Halfway(d)')
  BY <1>1, <1>a DEF DInv, TypeOK, RQTypeOK
<1>3. TypeOK'
  BY <1>1, <1>2 DEF DInv, Inv, TypeOK
<1>4. Located'
  BY <1>1 DEF DInv, TypeOK, Located
<1>5. Apart'
  BY <1>1 DEF DInv, Apart
<1>6. OffQueue'
  BY <1>1, <1>b DEF DInv, OffQueue
<1>7. HomeIdle'
  <2>1. ASSUME NEW d \in CPUs
        PROVE  runq'[Idle(d)] \in {d, NoQueue} /\ (runq'[Idle(d)] = d \/ Has(d, Idle(d))')
    <3>1. Idle(d) \in Threads /\ (Idle(d) = exec[c] => d = c)
      BY <1>1, Names
    <3>2. /\ runq[Idle(d)] \in {d, NoQueue} /\ (runq[Idle(d)] = d \/ Has(d, Idle(d)))
      BY DEF DInv, HomeIdle
    <3>3. CASE Idle(d) = exec[c]
      BY <1>1, <1>b, <3>1, <3>3
    <3>4. CASE Idle(d) # exec[c]
      <4>1. Idle(d) \in Threads /\ Idle(d) # exec[c]
        BY <3>1, <3>4
      <4>2. runq'[Idle(d)] = runq[Idle(d)]
        BY <1>b, <4>1
      <4>3. Has(d, Idle(d)) => Has(d, Idle(d))'
        BY <1>1, <3>4
      <4> QED
        BY <3>2, <4>2, <4>3
    <3> QED
      BY <3>3, <3>4
  <2> QED
    BY <2>1 DEF HomeIdle
<1>8. Running'
  BY <1>1, <1>a DEF DInv, Running
<1>9. Runnable'
  BY <1>1, <1>a, <1>b, Names DEF DInv, Runnable
<1>10. Unsaved'
  BY <1>1 DEF DInv, Unsaved
<1>11. Sleepers'
  BY <1>1 DEF DInv, Sleepers
<1>12. Waiting'
  BY <1>1 DEF DInv, Waiting
<1> QED
  BY <1>2, <1>3, <1>4, <1>5, <1>6, <1>7, <1>8, <1>9, <1>10, <1>11, <1>12 DEF DInv

(* newproc switches to the child, which nobody had, on no queue before:    *)
(* it was SIDL.                                                            *)
LEMMA ForkKeeps ==
  ASSUME DInv, NEW c \in CPUs, NEW p \in Procs, waking[c] = NoChan, Fork(c, p)
  PROVE  DInv'
<1> USE DEF Has, Runs, Takes, Halfway, rqvars, slpvars, ipcvars, cpuvars
<1>1. /\ at[c] = "run" /\ exec[c] \in Procs /\ stat[p] = "SIDL"
      /\ at' = [at EXCEPT ![c] = "cs_save"] /\ next' = [next EXCEPT ![c] = p]
      /\ stat' = [stat EXCEPT ![p] = "SRUN"]
      /\ UNCHANGED <<rqvars, exec, put, active, saved, slpvars, ipcvars>>
  BY DEF Fork, CallContextSwtch, Goto
<1>2. Inv'
  BY <1>1 DEF DInv, Inv, RQTypeOK, Placed, Counted, Hinted
<1>a. /\ runq[p] = NoQueue /\ \A d \in CPUs : ~Has(d, p)
      /\ stat[exec[c]] = "SRUN"
  BY <1>1, Mine, Stopped
<1>3. TypeOK'
  BY <1>1, <1>2, Names DEF DInv, Inv, TypeOK
<1>4. Located'
  BY <1>1, <1>a DEF DInv, TypeOK, Located
<1>5. Apart'
  BY <1>1, <1>a DEF DInv, TypeOK, Apart
<1>6. OffQueue'
  BY <1>1, <1>a DEF DInv, TypeOK, OffQueue
<1>7. HomeIdle'
  BY <1>1 DEF DInv, HomeIdle
<1>8. Running'
  BY <1>1 DEF DInv, TypeOK, Running
<1>9. Runnable'
  BY <1>1 DEF DInv, TypeOK, Runnable
<1>10. Unsaved'
  BY <1>1 DEF DInv, Unsaved
<1>11. Sleepers'
  BY <1>1 DEF DInv, Sleepers
<1>12. Waiting'
  BY <1>1 DEF DInv, TypeOK, Waiting
<1> QED
  BY <1>2, <1>3, <1>4, <1>5, <1>6, <1>7, <1>8, <1>9, <1>10, <1>11, <1>12 DEF DInv

(* idle_thread looks at the counts without a lock and will choose.         *)
LEMMA IdleSpinKeeps ==
  ASSUME DInv, NEW c \in CPUs, waking[c] = NoChan, IdleSpin(c)
  PROVE  DInv'
<1> USE DEF Has, Runs, Takes, Halfway, rqvars, slpvars, ipcvars, cpuvars
<1>1. /\ at[c] = "idle" /\ at' = [at EXCEPT ![c] = "idle_choose"]
      /\ UNCHANGED <<rqvars, exec, next, put, active, saved, stat, slpvars, ipcvars>>
  BY DEF IdleSpin, Goto
<1>2. Inv'
  BY <1>1 DEF DInv, Inv, RQTypeOK, Placed, Counted, Hinted
<1>3. TypeOK'
  BY <1>1, <1>2 DEF DInv, Inv, TypeOK
<1>4. Located'
  BY <1>1 DEF DInv, Located
<1>5. Apart'
  BY <1>1 DEF DInv, Apart
<1>6. OffQueue'
  BY <1>1 DEF DInv, OffQueue
<1>7. HomeIdle'
  BY <1>1 DEF DInv, HomeIdle
<1>8. Running'
  BY <1>1 DEF DInv, Running
<1>9. Runnable'
  BY <1>1 DEF DInv, Runnable
<1>10. Unsaved'
  BY <1>1 DEF DInv, Unsaved
<1>11. Sleepers'
  BY <1>1 DEF DInv, Sleepers
<1>12. Waiting'
  BY <1>1 DEF DInv, Waiting
<1> QED
  BY <1>2, <1>3, <1>4, <1>5, <1>6, <1>7, <1>8, <1>9, <1>10, <1>11, <1>12 DEF DInv

(* sleep_and_unlock puts the process on slpque and lets go of the sleep    *)
(* lock.                                                                   *)
LEMMA SleepKeeps ==
  ASSUME DInv, NEW c \in CPUs, NEW ch \in Channels, waking[c] = NoChan, Sleep(c, ch)
  PROVE  DInv'
<1> USE DEF Has, Runs, Takes, Halfway, rqvars, slpvars, ipcvars, cpuvars
<1>1. /\ at[c] = "run" /\ exec[c] \in Procs /\ c \in UnixCPUs /\ stat[exec[c]] = "SRUN"
      /\ slpque' = Append(slpque, exec[c]) /\ wchan' = [wchan EXCEPT ![exec[c]] = ch]
      /\ at' = [at EXCEPT ![c] = "slp"]
      /\ UNCHANGED <<rqvars, exec, next, put, active, saved, stat, waking, ipcvars>>
  BY DEF Sleep, Goto, PanicSleep
<1>2. Inv'
  BY <1>1 DEF DInv, Inv, RQTypeOK, Placed, Counted, Hinted
<1>3. TypeOK'
  BY <1>1, <1>2 DEF DInv, Inv, TypeOK
<1>4. Located'
  BY <1>1 DEF DInv, Located
<1>5. Apart'
  BY <1>1 DEF DInv, Apart
<1>6. OffQueue'
  BY <1>1 DEF DInv, OffQueue
<1>7. HomeIdle'
  BY <1>1 DEF DInv, HomeIdle
<1>8. Running'
  BY <1>1 DEF DInv, Running
<1>9. Runnable'
  BY <1>1, Names DEF DInv, Runnable
<1>10. Unsaved'
  BY <1>1 DEF DInv, Unsaved
<1>11. Sleepers'
  <2>1. /\ slpque \in Seq(Threads) /\ exec[c] \in Threads /\ IsInjective(slpque)
        /\ exec[c] \notin Range(slpque)
    <3>1. exec[c] \in Threads /\ Has(c, exec[c]) /\ ~Halfway(c)
      BY <1>1, Names
    <3>2. \A d \in CPUs : Has(d, exec[c]) => d = c
      BY <3>1, Mine
    <3>3. wchan[exec[c]] = NoChan
      BY <1>1, <3>2 DEF DInv, Sleepers
    <3> QED
      BY <1>1, <3>1, <3>3, Names, SeqMonotonic DEF DInv, TypeOK, Sleepers
  <2>2. IsInjective(slpque') /\ Range(slpque') = Range(slpque) \cup {exec[c]}
    BY <1>1, <2>1, RangeAppend
  <2> QED
    BY <1>1, <2>2, Names DEF DInv, TypeOK, Sleepers
<1>12. Waiting'
  BY <1>1 DEF DInv, Waiting
<1> QED
  BY <1>2, <1>3, <1>4, <1>5, <1>6, <1>7, <1>8, <1>9, <1>10, <1>11, <1>12 DEF DInv

(* It makes the process SSLEEP, no wakeup having taken it in between,      *)
(* which would have panicked, and is half way.                             *)
LEMMA SleepStatKeeps ==
  ASSUME DInv, NEW c \in CPUs, waking[c] = NoChan, SleepStat(c)
  PROVE  DInv'
<1> USE DEF Has, Runs, Takes, Halfway, rqvars, slpvars, ipcvars, cpuvars
<1>1. /\ at[c] = "slp" /\ c \in UnixCPUs /\ exec[c] \in Procs
      /\ at' = [at EXCEPT ![c] = "save"] /\ put' = [put EXCEPT ![c] = NoQueue]
      /\ stat' = [stat EXCEPT ![exec[c]] = "SSLEEP"]
      /\ UNCHANGED <<rqvars, exec, next, active, saved, slpvars, ipcvars>>
  BY DEF SleepStat, CallSwtch, Goto, DInv, Located
<1>2. Inv'
  BY <1>1 DEF DInv, Inv, RQTypeOK, Placed, Counted, Hinted
<1>a. /\ runq[exec[c]] = NoQueue /\ \A d \in CPUs : Has(d, exec[c]) => d = c
      /\ wchan[exec[c]] # NoChan
  <2>1. exec[c] \in Threads /\ Has(c, exec[c]) /\ ~Halfway(c)
    BY <1>1, Names
  <2>2. wchan[exec[c]] # NoChan
    BY <1>1 DEF DInv, Sleepers
  <2> QED
    BY <2>1, <2>2, Mine
<1>3. TypeOK'
  BY <1>1, <1>2 DEF DInv, Inv, TypeOK
<1>4. Located'
  BY <1>1 DEF DInv, Located
<1>5. Apart'
  BY <1>1 DEF DInv, Apart
<1>6. OffQueue'
  BY <1>1 DEF DInv, OffQueue
<1>7. HomeIdle'
  BY <1>1 DEF DInv, HomeIdle
<1>8. Running'
  BY <1>1, <1>a DEF DInv, TypeOK, Running
<1>9. Runnable'
  BY <1>1, <1>a DEF DInv, Runnable
<1>10. Unsaved'
  BY <1>1 DEF DInv, Unsaved
<1>11. Sleepers'
  BY <1>1 DEF DInv, TypeOK, Sleepers
<1>12. Waiting'
  BY <1>1, <1>a DEF DInv, Waiting
<1> QED
  BY <1>2, <1>3, <1>4, <1>5, <1>6, <1>7, <1>8, <1>9, <1>10, <1>11, <1>12 DEF DInv

(* A wakeup begins, also in the middle of the switch of a process.         *)
LEMMA CallWakeupKeeps ==
  ASSUME DInv, NEW c \in CPUs, NEW ch \in Channels, CallWakeup(c, ch)
  PROVE  DInv'
<1> USE DEF Has, Runs, Takes, Halfway, rqvars, slpvars, ipcvars, cpuvars
<1>1. /\ c \in UnixCPUs /\ at[c] \in {"run", "idle", "save", "ipc_spin"}
      /\ waking' = [waking EXCEPT ![c] = ch]
      /\ UNCHANGED <<rqvars, cpuvars, stat, wchan, slpque, ipcvars>>
  BY DEF CallWakeup
<1>2. Inv'
  BY <1>1 DEF DInv, Inv, RQTypeOK, Placed, Counted, Hinted
<1>3. TypeOK'
  BY <1>1, <1>2 DEF DInv, Inv, TypeOK
<1>4. Located'
  BY <1>1 DEF DInv, Located
<1>5. Apart'
  BY <1>1 DEF DInv, Apart
<1>6. OffQueue'
  BY <1>1 DEF DInv, OffQueue
<1>7. HomeIdle'
  BY <1>1 DEF DInv, HomeIdle
<1>8. Running'
  BY <1>1 DEF DInv, Running
<1>9. Runnable'
  BY <1>1 DEF DInv, Runnable
<1>10. Unsaved'
  BY <1>1 DEF DInv, Unsaved
<1>11. Sleepers'
  BY <1>1 DEF DInv, Sleepers
<1>12. Waiting'
  BY <1>1 DEF DInv, Waiting
<1> QED
  BY <1>2, <1>3, <1>4, <1>5, <1>6, <1>7, <1>8, <1>9, <1>10, <1>11, <1>12 DEF DInv

(* IPCWait spins without a lock and only looks.                            *)
LEMMA IPCSpinKeeps ==
  ASSUME DInv, NEW c \in CPUs, waking[c] = NoChan, IPCSpin(c)
  PROVE  DInv'
<1> USE DEF Has, Runs, Takes, Halfway, rqvars, slpvars, ipcvars, cpuvars
<1>1. /\ at[c] = "ipc_spin" /\ at' = [at EXCEPT ![c] = "ipc_lock"]
      /\ UNCHANGED <<rqvars, exec, next, put, active, saved, stat, slpvars, ipcvars>>
  BY DEF IPCSpin, Goto
<1>2. Inv'
  BY <1>1 DEF DInv, Inv, RQTypeOK, Placed, Counted, Hinted
<1>3. TypeOK'
  BY <1>1, <1>2 DEF DInv, Inv, TypeOK
<1>4. Located'
  BY <1>1 DEF DInv, Located
<1>5. Apart'
  BY <1>1 DEF DInv, Apart
<1>6. OffQueue'
  BY <1>1 DEF DInv, OffQueue
<1>7. HomeIdle'
  BY <1>1 DEF DInv, HomeIdle
<1>8. Running'
  BY <1>1 DEF DInv, Running
<1>9. Runnable'
  BY <1>1 DEF DInv, Runnable
<1>10. Unsaved'
  BY <1>1 DEF DInv, Unsaved
<1>11. Sleepers'
  BY <1>1 DEF DInv, Sleepers
<1>12. Waiting'
  BY <1>1 DEF DInv, Waiting
<1> QED
  BY <1>2, <1>3, <1>4, <1>5, <1>6, <1>7, <1>8, <1>9, <1>10, <1>11, <1>12 DEF DInv

(* choose_thread by the idle thread, which does not find itself: it is     *)
(* with its processor, not queued.                                         *)
LEMMA IdleChooseKeeps ==
  ASSUME DInv, NEW c \in CPUs, waking[c] = NoChan, IdleChoose(c), Chosen(c) # NoThread
  PROVE  DInv'
<1> USE DEF Has, Runs, Takes, Halfway, rqvars, slpvars, ipcvars, cpuvars
<1>1. /\ at[c] = "idle_choose" /\ Chosen(c) \in Threads /\ runq[Chosen(c)] \in {c, Global}
      /\ runq' = [runq EXCEPT ![Chosen(c)] = NoQueue]
      /\ at' = [at EXCEPT ![c] = "cs_save"] /\ next' = [next EXCEPT ![c] = Chosen(c)]
      /\ UNCHANGED <<exec, put, active, saved, stat, slpvars, ipcvars>>
  BY ChosenIs DEF IdleChoose, ChooseThread, Take, CallContextSwtch, Goto, DInv
<1>2. Inv'
  BY ChooseKeeps DEF IdleChoose, DInv
<1>a. /\ \A d \in CPUs : ~Has(d, Chosen(c))
      /\ exec[c] = Idle(c) /\ Chosen(c) \in Procs /\ Chosen(c) # exec[c]
      /\ stat[Chosen(c)] = "SRUN" /\ ~msgwait[Chosen(c)]
  <2>1. exec[c] = Idle(c) /\ runq[Idle(c)] = NoQueue
    <3>1. exec[c] = Idle(c)
      BY <1>1 DEF DInv, Located
    <3>2. exec[c] \in Threads /\ Has(c, exec[c]) /\ ~Halfway(c)
      BY <1>1, <3>1, Names
    <3> QED
      BY <3>1, <3>2, Mine
  <2> QED
    BY <1>1, <2>1, Queued
<1>b. /\ \A x \in Threads : runq'[x] = IF x = Chosen(c) THEN NoQueue ELSE runq[x]
      /\ \A d \in CPUs, x \in Threads : x # Chosen(c) => (Has(d, x) <=> Has(d, x)')
      /\ \E d \in CPUs : Takes(d)' /\ next'[d] = Chosen(c)
  BY <1>1 DEF DInv, TypeOK, RQTypeOK
<1>3. TypeOK'
  BY <1>1, <1>2 DEF DInv, Inv, TypeOK
<1>4. Located'
  BY <1>1, <1>a DEF DInv, TypeOK, Located
<1>5. Apart'
  BY <1>1, <1>a DEF DInv, TypeOK, Apart
<1>6. OffQueue'
  BY <1>1, <1>b DEF DInv, OffQueue
<1>7. HomeIdle'
  BY <1>1, Names DEF DInv, TypeOK, HomeIdle
<1>8. Running'
  BY <1>1, <1>a DEF DInv, TypeOK, Running
<1>9. Runnable'
  BY <1>1, <1>b DEF DInv, Runnable
<1>10. Unsaved'
  BY <1>1 DEF DInv, Unsaved
<1>11. Sleepers'
  BY <1>1 DEF DInv, Sleepers
<1>12. Waiting'
  BY <1>1, <1>a DEF DInv, TypeOK, Waiting
<1> QED
  BY <1>2, <1>3, <1>4, <1>5, <1>6, <1>7, <1>8, <1>9, <1>10, <1>11, <1>12 DEF DInv

(* It finds nobody, another processor having been faster, and goes on      *)
(* idling.                                                                 *)
LEMMA IdleAgainKeeps ==
  ASSUME DInv, NEW c \in CPUs, waking[c] = NoChan, IdleChoose(c), Chosen(c) = NoThread
  PROVE  DInv'
<1> USE DEF Has, Runs, Takes, Halfway, rqvars, slpvars, ipcvars, cpuvars
<1>1. /\ at[c] = "idle_choose" /\ at' = [at EXCEPT ![c] = "idle"] /\ runq' = runq
      /\ UNCHANGED <<exec, next, put, active, saved, stat, slpvars, ipcvars>>
  BY DEF IdleChoose, ChooseThread, Goto
<1>2. Inv'
  BY ChooseKeeps DEF IdleChoose, DInv
<1>3. TypeOK'
  BY <1>1, <1>2 DEF DInv, Inv, TypeOK
<1>4. Located'
  BY <1>1 DEF DInv, Located
<1>5. Apart'
  BY <1>1 DEF DInv, Apart
<1>6. OffQueue'
  BY <1>1 DEF DInv, OffQueue
<1>7. HomeIdle'
  BY <1>1 DEF DInv, HomeIdle
<1>8. Running'
  BY <1>1 DEF DInv, Running
<1>9. Runnable'
  BY <1>1 DEF DInv, Runnable
<1>10. Unsaved'
  BY <1>1 DEF DInv, Unsaved
<1>11. Sleepers'
  BY <1>1 DEF DInv, Sleepers
<1>12. Waiting'
  BY <1>1 DEF DInv, Waiting
<1> QED
  BY <1>2, <1>3, <1>4, <1>5, <1>6, <1>7, <1>8, <1>9, <1>10, <1>11, <1>12 DEF DInv

(* ipc_wait: the process sleeps and the processor is half way, holding     *)
(* the process's lock.                                                     *)
LEMMA GoToSleepKeeps ==
  ASSUME DInv, NEW c \in CPUs, waking[c] = NoChan, at[c] \in {"run", "ipc_lock"},
         GoToSleep(c, at[c]), msgwait' = [msgwait EXCEPT ![exec[c]] = TRUE],
         UNCHANGED <<rqvars, slpvars>>
  PROVE  DInv'
<1> USE DEF Has, Runs, Takes, Halfway, rqvars, slpvars, ipcvars, cpuvars
<1>1. /\ at[c] \in {"run", "ipc_lock"} /\ exec[c] \in Procs
      /\ at' = [at EXCEPT ![c] = "save"] /\ put' = [put EXCEPT ![c] = NoQueue]
      /\ stat' = [stat EXCEPT ![exec[c]] = "SSLEEP"]
      /\ proclock' = [proclock EXCEPT ![exec[c]] = c]
      /\ msgwait' = [msgwait EXCEPT ![exec[c]] = TRUE]
      /\ UNCHANGED <<rqvars, exec, next, active, saved, slpvars>>
  BY DEF GoToSleep, CallSwtch, Goto, DInv, Located
<1>2. Inv'
  BY <1>1 DEF DInv, Inv, RQTypeOK, Placed, Counted, Hinted
<1>a. /\ runq[exec[c]] = NoQueue /\ \A d \in CPUs : Has(d, exec[c]) => d = c
      /\ stat[exec[c]] = "SRUN" /\ wchan[exec[c]] = NoChan
  <2>1. exec[c] \in Threads /\ Has(c, exec[c]) /\ ~Halfway(c)
    BY <1>1, Names
  <2>2. /\ runq[exec[c]] = NoQueue /\ \A d \in CPUs : Has(d, exec[c]) => d = c
        /\ stat[exec[c]] = "SRUN"
    BY <1>1, <2>1, Mine
  <2>3. wchan[exec[c]] = NoChan
    BY <1>1, <2>2, Names DEF DInv, Sleepers
  <2> QED
    BY <2>2, <2>3
<1>3. TypeOK'
  BY <1>1, <1>2 DEF DInv, Inv, TypeOK
<1>4. Located'
  BY <1>1 DEF DInv, Located
<1>5. Apart'
  BY <1>1 DEF DInv, Apart
<1>6. OffQueue'
  BY <1>1 DEF DInv, OffQueue
<1>7. HomeIdle'
  BY <1>1 DEF DInv, HomeIdle
<1>8. Running'
  BY <1>1, <1>a DEF DInv, TypeOK, Running
<1>9. Runnable'
  BY <1>1, <1>a DEF DInv, Runnable
<1>10. Unsaved'
  BY <1>1 DEF DInv, Unsaved
<1>11. Sleepers'
  BY <1>1 DEF DInv, Sleepers
<1>12. Waiting'
  BY <1>1, <1>a DEF DInv, TypeOK, Waiting
<1> QED
  BY <1>2, <1>3, <1>4, <1>5, <1>6, <1>7, <1>8, <1>9, <1>10, <1>11, <1>12 DEF DInv

(* IPCWait: the process waits, and spins or sleeps.                        *)
LEMMA IPCWaitKeeps ==
  ASSUME DInv, NEW c \in CPUs, waking[c] = NoChan, IPCWait(c), NothingElse(c)
  PROVE  DInv'
<1> USE DEF Has, Runs, Takes, Halfway, rqvars, slpvars, ipcvars, cpuvars
<1>1. /\ at[c] = "run" /\ exec[c] \in Procs
      /\ at' = [at EXCEPT ![c] = "ipc_spin"]
      /\ msgwait' = [msgwait EXCEPT ![exec[c]] = TRUE]
      /\ UNCHANGED <<rqvars, exec, next, put, active, saved, stat, proclock, slpvars>>
  BY DEF IPCWait, Goto, DInv, Located
<1>2. Inv'
  BY <1>1 DEF DInv, Inv, RQTypeOK, Placed, Counted, Hinted
<1>a. /\ runq[exec[c]] = NoQueue /\ \A d \in CPUs : Has(d, exec[c]) => d = c
      /\ stat[exec[c]] = "SRUN" /\ wchan[exec[c]] = NoChan
  <2>1. exec[c] \in Threads /\ Has(c, exec[c]) /\ ~Halfway(c)
    BY <1>1, Names
  <2>2. /\ runq[exec[c]] = NoQueue /\ \A d \in CPUs : Has(d, exec[c]) => d = c
        /\ stat[exec[c]] = "SRUN"
    BY <1>1, <2>1, Mine
  <2>3. wchan[exec[c]] = NoChan
    BY <1>1, <2>2, Names DEF DInv, Sleepers
  <2> QED
    BY <2>2, <2>3
<1>3. TypeOK'
  BY <1>1, <1>2 DEF DInv, Inv, TypeOK
<1>4. Located'
  BY <1>1 DEF DInv, Located
<1>5. Apart'
  BY <1>1 DEF DInv, Apart
<1>6. OffQueue'
  BY <1>1 DEF DInv, OffQueue
<1>7. HomeIdle'
  BY <1>1 DEF DInv, HomeIdle
<1>8. Running'
  BY <1>1 DEF DInv, Running
<1>9. Runnable'
  <2>1. \A d \in CPUs, x \in Procs : Has(d, x) => Has(d, x)'
    BY <1>1 DEF DInv
  <2> QED
    BY <1>1, <2>1 DEF DInv, Runnable
<1>10. Unsaved'
  BY <1>1 DEF DInv, Unsaved
<1>11. Sleepers'
  BY <1>1 DEF DInv, Sleepers
<1>12. Waiting'
  BY <1>1, <1>a DEF DInv, TypeOK, Waiting
<1> QED
  BY <1>2, <1>3, <1>4, <1>5, <1>6, <1>7, <1>8, <1>9, <1>10, <1>11, <1>12 DEF DInv

(* With the lock again it looks at its state and goes on, spins or         *)
(* sleeps.                                                                 *)
LEMMA IPCRelockKeeps ==
  ASSUME DInv, NEW c \in CPUs, waking[c] = NoChan, IPCRelock(c), ~msgwait[exec[c]]
  PROVE  DInv'
<1> USE DEF Has, Runs, Takes, Halfway, rqvars, slpvars, ipcvars, cpuvars
<1>1. /\ at[c] = "ipc_lock" /\ exec[c] \in Procs /\ ~msgwait[exec[c]]
      /\ at' = [at EXCEPT ![c] = "run"]
      /\ UNCHANGED <<rqvars, exec, next, put, active, saved, stat, slpvars, ipcvars>>
  BY DEF IPCRelock, Goto, DInv, Located
<1>2. Inv'
  BY <1>1 DEF DInv, Inv, RQTypeOK, Placed, Counted, Hinted
<1>3. TypeOK'
  BY <1>1, <1>2 DEF DInv, Inv, TypeOK
<1>4. Located'
  BY <1>1 DEF DInv, Located
<1>5. Apart'
  BY <1>1 DEF DInv, Apart
<1>6. OffQueue'
  BY <1>1 DEF DInv, OffQueue
<1>7. HomeIdle'
  BY <1>1 DEF DInv, HomeIdle
<1>8. Running'
  BY <1>1 DEF DInv, Running
<1>9. Runnable'
  BY <1>1, Names DEF DInv, Runnable
<1>10. Unsaved'
  BY <1>1 DEF DInv, Unsaved
<1>11. Sleepers'
  BY <1>1 DEF DInv, Sleepers
<1>12. Waiting'
  BY <1>1 DEF DInv, Waiting
<1> QED
  BY <1>2, <1>3, <1>4, <1>5, <1>6, <1>7, <1>8, <1>9, <1>10, <1>11, <1>12 DEF DInv

(* ipc_wakeup hands the processor to the process woken: that has been      *)
(* saved, since its lock is free.                                          *)
LEMMA HandOverKeeps ==
  ASSUME DInv, NEW c \in CPUs, NEW p \in Procs, waking[c] = NoChan, IPCWakeup(c, p), stat[p] = "SSLEEP"
  PROVE  DInv'
<1> USE DEF Has, Runs, Takes, Halfway, rqvars, slpvars, ipcvars, cpuvars
<1>1. /\ at[c] = "run" /\ exec[c] # p /\ proclock[p] = NoThread /\ msgwait[p]
      /\ stat[p] = "SSLEEP" /\ msgwait' = [msgwait EXCEPT ![p] = FALSE]
      /\ at' = [at EXCEPT ![c] = "cs_save"] /\ next' = [next EXCEPT ![c] = p]
      /\ stat' = [stat EXCEPT ![p] = "SRUN"] /\ proclock' = [proclock EXCEPT ![p] = c]
      /\ UNCHANGED <<rqvars, exec, put, active, saved, slpvars>>
  BY DEF IPCWakeup, CallContextSwtch, Goto
<1>2. Inv'
  BY <1>1 DEF DInv, Inv, RQTypeOK, Placed, Counted, Hinted
<1>a. /\ runq[p] = NoQueue /\ wchan[p] = NoChan /\ exec[c] \in Procs
      /\ \A d \in CPUs : ~Has(d, p)
  BY <1>1, Names, Stopped DEF DInv, Waiting, Located
<1>3. TypeOK'
  BY <1>1, <1>2, Names DEF DInv, Inv, TypeOK
<1>4. Located'
  BY <1>1 DEF DInv, TypeOK, Located
<1>5. Apart'
  BY <1>1, <1>a DEF DInv, TypeOK, Apart
<1>6. OffQueue'
  BY <1>1, <1>a DEF DInv, TypeOK, OffQueue
<1>7. HomeIdle'
  BY <1>1 DEF DInv, HomeIdle
<1>8. Running'
  BY <1>1, <1>a DEF DInv, TypeOK, Running
<1>9. Runnable'
  <2>1. \A d \in CPUs, x \in Procs : Has(d, x) => Has(d, x)'
    BY <1>1 DEF DInv
  <2> QED
    BY <1>1, <2>1 DEF DInv, TypeOK, Runnable
<1>10. Unsaved'
  BY <1>1 DEF DInv, Unsaved
<1>11. Sleepers'
  BY <1>1, <1>a DEF DInv, Sleepers
<1>12. Waiting'
  BY <1>1 DEF DInv, TypeOK, Waiting
<1> QED
  BY <1>2, <1>3, <1>4, <1>5, <1>6, <1>7, <1>8, <1>9, <1>10, <1>11, <1>12 DEF DInv

(* A message wakes a process that spins, or one that sleeps, to which the  *)
(* processor is handed over.                                               *)
LEMMA IPCWakeupKeeps ==
  ASSUME DInv, NEW c \in CPUs, NEW p \in Procs, waking[c] = NoChan, IPCWakeup(c, p), stat[p] # "SSLEEP"
  PROVE  DInv'
<1> USE DEF Has, Runs, Takes, Halfway, rqvars, slpvars, ipcvars, cpuvars
<1>1. /\ stat[p] # "SSLEEP" /\ msgwait' = [msgwait EXCEPT ![p] = FALSE]
      /\ UNCHANGED <<rqvars, cpuvars, stat, proclock, slpvars>>
  BY DEF IPCWakeup
<1>2. Inv'
  BY <1>1 DEF DInv, Inv, RQTypeOK, Placed, Counted, Hinted
<1>3. TypeOK'
  BY <1>1, <1>2 DEF DInv, Inv, TypeOK
<1>4. Located'
  BY <1>1 DEF DInv, Located
<1>5. Apart'
  BY <1>1 DEF DInv, Apart
<1>6. OffQueue'
  BY <1>1 DEF DInv, OffQueue
<1>7. HomeIdle'
  BY <1>1 DEF DInv, HomeIdle
<1>8. Running'
  BY <1>1 DEF DInv, Running
<1>9. Runnable'
  BY <1>1 DEF DInv, Runnable
<1>10. Unsaved'
  BY <1>1 DEF DInv, Unsaved
<1>11. Sleepers'
  BY <1>1 DEF DInv, Sleepers
<1>12. Waiting'
  BY <1>1 DEF DInv, Waiting
<1> QED
  BY <1>2, <1>3, <1>4, <1>5, <1>6, <1>7, <1>8, <1>9, <1>10, <1>11, <1>12 DEF DInv

(* a process or an interrupt wakes the first sleeper on its channel        *)
(* wakeup takes a sleeper off slpque and makes it runnable: if it is half  *)
(* way, it is on the master's queue before its context is saved, and the   *)
(* master is who has it, or it is WokenHalfway.                            *)
LEMMA WakeOneKeeps ==
  ASSUME DInv, NEW c \in CPUs, waking[c] # NoChan, ~PanicWakeup(c),
         Matches(c) # {}, WakeOne(c), ~WokenHalfway,
         UNCHANGED <<waking, cpuvars, ipcvars>>
  PROVE  DInv'
<1> USE DEF Has, Runs, Takes, Halfway, rqvars, slpvars, ipcvars, cpuvars
<1> DEFINE k == Least(Matches(c))
           p == slpque[k]
<1>a. /\ k \in DOMAIN slpque /\ p \in Procs /\ wchan[p] = waking[c]
      /\ \A m \in Matches(c) : k <= m
  <2>1. /\ slpque \in Seq(Procs) /\ DOMAIN slpque = 1 .. Len(slpque) /\ Len(slpque) \in Nat
    BY LenProperties DEF DInv, TypeOK
  <2>2. Matches(c) \subseteq 1 .. Len(slpque) /\ Matches(c) \subseteq Int
    BY <2>1 DEF Matches
  <2>3. IsFiniteSet(Matches(c))
    <3>1. 1 \in Int /\ Len(slpque) \in Int
      BY <2>1
    <3>2. IsFiniteSet(1 .. Len(slpque))
      BY <3>1, FS_Interval
    <3> QED
      BY <2>2, <3>2, FS_Subset
  <2>4. k \in Matches(c) /\ \A m \in Matches(c) : k <= m
    BY <2>2, <2>3, LeastOf
  <2> QED
    BY <2>1, <2>4, ElementOfSeq DEF Matches
<1>b. slpque' = Without(slpque, p)
  <2>1. \A i \in DOMAIN slpque : slpque[i] = p => i = k
    BY <1>a DEF DInv, Sleepers, IsInjective
  <2>2. slpque' = SubSeq(slpque, 1, k - 1) \o SubSeq(slpque, k + 1, Len(slpque))
    BY DEF WakeOne
  <2>3. k = CHOOSE i \in DOMAIN slpque : slpque[i] = p
    BY <2>1
  <2> HIDE DEF k
  <2> QED
    BY <1>a, <2>2, <2>3 DEF Without
<1> HIDE DEF k, p
<1>c. /\ slpque' \in Seq(Procs) /\ IsInjective(slpque') /\ Range(slpque') = Range(slpque) \ {p}
  BY <1>b, RangeWithout DEF DInv, TypeOK, Sleepers
<1>1. /\ c \in UnixCPUs /\ at[c] \in {"run", "idle", "save", "ipc_spin"}
      /\ stat[p] = "SSLEEP" /\ wchan[p] # NoChan /\ ~msgwait[p]
      /\ \E pr \in Int : SetRunq(p, Master, pr)
      /\ runq' = [runq EXCEPT ![p] = Master]
      /\ wchan' = [wchan EXCEPT ![p] = NoChan] /\ stat' = [stat EXCEPT ![p] = "SRUN"]
      /\ UNCHANGED <<cpuvars, waking, ipcvars>>
  <2>1. c \in UnixCPUs /\ at[c] \in {"run", "idle", "save", "ipc_spin"}
    BY DEF DInv, Located
  <2>2. wchan[p] # NoChan /\ stat[p] = "SSLEEP" /\ ~msgwait[p]
    BY <2>1, <1>a DEF DInv, Sleepers, Waiting, PanicWakeup, Walked, p
  <2>3. /\ \E pr \in ProcPriorities[p] : SetRunq(p, Master, pr)
        /\ wchan' = [wchan EXCEPT ![p] = NoChan] /\ stat' = [stat EXCEPT ![p] = "SRUN"]
    BY DEF WakeOne, k, p
  <2> QED
    BY <1>a, <2>1, <2>2, <2>3, Names DEF SetRunq
<1>2. Inv'
  BY <1>1, <1>a, Names, SetRunqKeeps DEF DInv
<1>d. /\ \A x \in Threads : runq'[x] = IF x = p THEN Master ELSE runq[x]
      /\ \A d \in CPUs, x \in Threads : Has(d, x) <=> Has(d, x)'
      /\ \A d \in CPUs : Has(d, p) => d = Master /\ Halfway(d)
      /\ runq[p] = NoQueue
  <2>1. \A x \in Threads : runq'[x] = IF x = p THEN Master ELSE runq[x]
    BY <1>1 DEF DInv, TypeOK, RQTypeOK
  <2>2. runq[p] = NoQueue /\ \A d \in CPUs : Has(d, p) => Halfway(d)
    BY <1>1, <1>a, Stopped
  <2>3. \A d \in CPUs : Has(d, p) => d = Master
    <3>1. stat'[p] = "SRUN"
      BY <1>1, <1>a DEF DInv, TypeOK
    <3> QED
      BY <1>1, <2>2, <3>1 DEF WokenHalfway
  <2> QED
    BY <1>1, <2>1, <2>2, <2>3
<1>3. TypeOK'
  BY <1>1, <1>2, <1>c DEF DInv, Inv, TypeOK
<1>4. Located'
  BY <1>1 DEF DInv, Located
<1>5. Apart'
  BY <1>1 DEF DInv, Apart
<1>6. OffQueue'
  BY <1>1, <1>d DEF DInv, OffQueue
<1>7. HomeIdle'
  BY <1>1, <1>d, Names DEF DInv, HomeIdle
<1>8. Running'
  BY <1>1, <1>d, Names DEF DInv, TypeOK, Running
<1>9. Runnable'
  BY <1>1, <1>d, Names DEF DInv, TypeOK, Runnable
<1>10. Unsaved'
  BY <1>1 DEF DInv, Unsaved
<1>11. Sleepers'
  <2>1. \A d \in CPUs : at[d] = "slp" => exec[d] # p
    BY <1>a, <1>d, Names
  <2>2. \A q \in Procs : wchan'[q] = IF q = p THEN NoChan ELSE wchan[q]
    BY <1>1 DEF DInv, TypeOK
  <2>3. \A q \in Procs : stat'[q] = IF q = p THEN "SRUN" ELSE stat[q]
    BY <1>1 DEF DInv, TypeOK
  <2>4. \A d \in CPUs : at[d] = "slp" => exec[d] \in Procs
    BY DEF DInv, Located
  <2> QED
    BY <1>1, <1>c, <2>1, <2>2, <2>3, <2>4 DEF DInv, Sleepers
<1>12. Waiting'
  BY <1>1, <1>d DEF DInv, TypeOK, Waiting
<1> QED
  BY <1>2, <1>3, <1>4, <1>5, <1>6, <1>7, <1>8, <1>9, <1>10, <1>11, <1>12 DEF DInv

(* wakeup returns                                                          *)
(* No sleeper is left on the channel.                                      *)
LEMMA WakeupEndKeeps ==
  ASSUME DInv, NEW c \in CPUs, waking' = [waking EXCEPT ![c] = NoChan],
         UNCHANGED <<rqvars, cpuvars, stat, wchan, slpque, ipcvars>>
  PROVE  DInv'
<1> USE DEF Has, Runs, Takes, Halfway, rqvars, slpvars, ipcvars, cpuvars
<1>2. Inv'
  BY DEF DInv, Inv, RQTypeOK, Placed, Counted, Hinted
<1>3. TypeOK'
  BY <1>2 DEF DInv, Inv, TypeOK
<1>4. Located'
  BY DEF DInv, Located
<1>5. (Apart /\ OffQueue /\ HomeIdle /\ Running /\ Runnable /\ Unsaved)'
  BY DEF DInv, Apart, OffQueue, HomeIdle, Running, Runnable, Unsaved
<1>6. (Sleepers /\ Waiting)'
  BY DEF DInv, Sleepers, Waiting
<1> QED
  BY <1>2, <1>3, <1>4, <1>5, <1>6 DEF DInv

(* schedcpu changes a priority, and takes a queued process to its new      *)
(* level.                                                                  *)
LEMMA SchedcpuKeeps ==
  ASSUME DInv, NEW p \in Procs, Schedcpu(p)
  PROVE  DInv'
<1> USE DEF Has, Runs, Takes, Halfway, rqvars, slpvars, ipcvars, cpuvars
<1>1. /\ stat[p] = "SRUN" /\ p \in Threads /\ runq[p] # NoQueue
      /\ \E pr \in Int : Requeue(p, Master, pr)
      /\ runq' = [runq EXCEPT ![p] = Master]
      /\ UNCHANGED <<cpuvars, stat, slpvars, ipcvars>>
  BY Names DEF Schedcpu, Requeue
<1>2. Inv'
  BY <1>1, Names, RequeueKeeps DEF DInv
<1>a. \A x \in Threads : runq'[x] = IF x = p THEN Master ELSE runq[x]
  BY <1>1 DEF DInv, TypeOK, RQTypeOK
<1>3. TypeOK'
  BY <1>1, <1>2 DEF DInv, Inv, TypeOK
<1>4. (Located /\ Apart /\ Unsaved /\ Sleepers)'
  BY <1>1 DEF DInv, Located, Apart, Unsaved, Sleepers
<1>5. OffQueue'
  BY <1>1 DEF DInv, OffQueue
<1>6. HomeIdle'
  BY <1>1, Names DEF DInv, HomeIdle
<1>7. Running'
  BY <1>1, Names DEF DInv, Running
<1>8. Runnable'
  BY <1>1, Names DEF DInv, Runnable
<1>9. Waiting'
  BY <1>1 DEF DInv, Waiting
<1> QED
  BY <1>2, <1>3, <1>4, <1>5, <1>6, <1>7, <1>8, <1>9 DEF DInv

-----------------------------------------------------------------------------
(* At first the processors are idle and one process is queued.             *)
LEMMA InitDInv == Init => DInv
<1> SUFFICES ASSUME Init PROVE DInv
  OBVIOUS
<1> USE DEF Has, Runs, Takes, Halfway
<1> DEFINE lv == Level(IdlePri)
<1>1. lv \in Levels /\ IdlePri \in Int /\ 0 \in 0 .. NRQS
  <2>1. IdlePri \in Int /\ 0 \in 0 .. NRQS
    BY RunQueueAssumption DEF IdlePri
  <2> QED
    BY <2>1, LevelIs
<1> HIDE DEF lv
<1>2. /\ queue = [rq \in RunQs |-> [l \in Levels |->
                    IF rq = Master /\ l = lv THEN <<Idle(Master)>> ELSE <<>>]]
      /\ low = [rq \in RunQs |-> 0]
      /\ count = [rq \in RunQs |-> IF rq = Master THEN 1 ELSE 0]
      /\ runq = [t \in Threads |-> IF t = Idle(Master) THEN Master ELSE NoQueue]
      /\ pri = [t \in Threads |-> IF t \in Idles THEN IdlePri ELSE 0]
  BY DEF Init, lv
<1>3. RQTypeOK
  <2>1. <<Idle(Master)>> \in Seq(Threads) /\ <<>> \in Seq(Threads)
    BY Names
  <2> QED
    BY <1>1, <1>2, <2>1, Names DEF RQTypeOK
<1>4. Placed(queue, runq, pri)
  <2> SUFFICES ASSUME NEW rq \in RunQs, NEW l \in Levels
               PROVE  /\ IsInjective(queue[rq][l])
                      /\ Range(queue[rq][l]) = Here(runq, pri, rq, l)
    BY DEF Placed
  <2>1. CASE rq = Master /\ l = lv
    <3>1. queue[rq][l] = <<Idle(Master)>>
      BY <1>1, <1>2, <2>1
    <3>2. IsInjective(<<Idle(Master)>>) /\ Range(<<Idle(Master)>>) = {Idle(Master)}
      BY DEF IsInjective, Range
    <3>3. Here(runq, pri, rq, l) = {Idle(Master)}
      BY <1>1, <1>2, <2>1, Names DEF Here, lv
    <3> QED
      BY <3>1, <3>2, <3>3
  <2>2. CASE ~(rq = Master /\ l = lv)
    <3>1. queue[rq][l] = <<>>
      BY <1>2, <2>2
    <3>2. IsInjective(<<>>) /\ Range(<<>>) = {}
      BY DEF IsInjective, Range
    <3>3. Here(runq, pri, rq, l) = {}
      BY <1>2, <2>2, Names DEF Here, lv
    <3> QED
      BY <3>1, <3>2, <3>3
  <2> QED
    BY <2>1, <2>2
<1>5. Counted(count, runq)
  <2> SUFFICES ASSUME NEW rq \in RunQs
               PROVE  count[rq] = Cardinality({t \in Threads : runq[t] = rq})
    BY DEF Counted
  <2>1. CASE rq = Master
    <3>1. {t \in Threads : runq[t] = rq} = {Idle(Master)} /\ count[rq] = 1
      BY <1>2, <2>1, Names
    <3> QED
      BY <3>1, FS_Singleton
  <2>2. CASE rq # Master
    <3>1. {t \in Threads : runq[t] = rq} = {} /\ count[rq] = 0
      BY <1>2, <2>2, Names
    <3> QED
      BY <3>1, FS_EmptySet
  <2> QED
    BY <2>1, <2>2
<1>6. Hinted(queue, low)
  BY <1>2, RunQueueAssumption DEF Hinted, Levels
<1>7. Inv
  BY <1>3, <1>4, <1>5, <1>6 DEF Inv
<1>8. TypeOK
  BY <1>3, Names DEF Init, TypeOK
<1>9. Located /\ Apart
  BY Names DEF Init, Located, Apart
<1>10. OffQueue /\ HomeIdle
  BY <1>2, Names DEF Init, OffQueue, HomeIdle
<1>11. Running /\ Runnable
  BY <1>2, Names DEF Init, Running, Runnable
<1>12. Unsaved
  BY Names DEF Init, Unsaved
<1>13. Sleepers
  <2>1. slpque = <<>> /\ wchan = [p \in Procs |-> NoChan] /\ \A c \in CPUs : at[c] # "slp"
    BY Names DEF Init
  <2>2. IsInjective(<<>>) /\ Range(<<>>) = {}
    BY DEF IsInjective, Range
  <2> QED
    BY <2>1, <2>2 DEF Sleepers
<1>14. Waiting
  BY <1>2 DEF Init, Waiting
<1> QED
  BY <1>7, <1>8, <1>9, <1>10, <1>11, <1>12, <1>13, <1>14 DEF DInv

(* Every step keeps the invariant, but one that is WokenHalfway.           *)
LEMMA StepDInv ==
  ASSUME DInv, [Next]_vars, [~WokenHalfway]_vars
  PROVE  DInv'
<1>0. CASE UNCHANGED vars
  <2> USE DEF Has, Runs, Takes, Halfway, vars, rqvars, slpvars, ipcvars, cpuvars
  <2>1. Inv'
    BY <1>0 DEF DInv, Inv, RQTypeOK, Placed, Counted, Hinted
  <2>2. (TypeOK /\ Located /\ Apart /\ OffQueue /\ HomeIdle)'
    BY <1>0, <2>1 DEF DInv, Inv, TypeOK, Located, Apart, OffQueue, HomeIdle
  <2>3. (Running /\ Runnable /\ Unsaved /\ Sleepers /\ Waiting)'
    BY <1>0 DEF DInv, Running, Runnable, Unsaved, Sleepers, Waiting
  <2> QED
    BY <2>1, <2>2, <2>3 DEF DInv
<1>1. ASSUME NEW c \in CPUs, Kernel(c) PROVE DInv'
  <2>1. waking[c] = NoChan
    BY <1>1 DEF Kernel
  <2>2. CASE SaveContext(c)
    BY <2>1, <2>2, SaveContextKeeps
  <2>3. CASE PutBack(c)
    BY <2>1, <2>3, PutBackKeeps
  <2>4. CASE Choose(c)
    BY <2>1, <2>4, ChosenKeeps
  <2>5. CASE LoadContext(c)
    BY <2>1, <2>5, LoadContextKeeps
  <2>6. CASE CsSave(c)
    BY <2>1, <2>6, CsSaveKeeps
  <2>7. CASE CsPut(c)
    BY <2>1, <2>7, CsPutKeeps
  <2>8. CASE IdleSpin(c)
    BY <2>1, <2>8, IdleSpinKeeps
  <2>9. CASE IdleChoose(c)
    BY <2>1, <2>9, IdleChooseKeeps, IdleAgainKeeps
  <2>10. CASE SleepStat(c)
    BY <2>1, <2>10, SleepStatKeeps
  <2>11. CASE IPCSpin(c)
    BY <2>1, <2>11, IPCSpinKeeps
  <2>12. CASE IPCRelock(c)
    <3>1. CASE msgwait[exec[c]]
      <4>1. /\ at[c] = "ipc_lock" /\ GoToSleep(c, at[c])
            /\ UNCHANGED <<rqvars, slpvars>> /\ msgwait' = msgwait
        BY <2>12, <3>1 DEF IPCRelock
      <4>2. msgwait' = [msgwait EXCEPT ![exec[c]] = TRUE]
        BY <3>1, <4>1 DEF DInv, TypeOK, Located
      <4> QED
        BY <2>1, <4>1, <4>2, GoToSleepKeeps
    <3>2. CASE ~msgwait[exec[c]]
      BY <2>1, <2>12, <3>2, IPCRelockKeeps
    <3> QED
      BY <3>1, <3>2
  <2> QED
    BY <1>1, <2>2, <2>3, <2>4, <2>5, <2>6, <2>7, <2>8, <2>9, <2>10, <2>11, <2>12
       DEF Kernel
<1>2. ASSUME NEW c \in CPUs, Wakeup(c) PROVE DInv'
  <2>1. CASE Matches(c) = {}
    BY <1>2, <2>1, WakeupEndKeeps DEF Wakeup
  <2>2. CASE Matches(c) # {}
    <3>1. /\ waking[c] # NoChan /\ ~PanicWakeup(c) /\ WakeOne(c)
          /\ UNCHANGED <<waking, cpuvars, ipcvars>>
      BY <1>2, <2>2 DEF Wakeup
    <3>2. CASE WokenHalfway
      BY <1>0, <3>2
    <3>3. CASE ~WokenHalfway
      BY <2>2, <3>1, <3>3, WakeOneKeeps
    <3> QED
      BY <3>2, <3>3
  <2> QED
    BY <2>1, <2>2
<1>3. ASSUME NEW c \in CPUs, Calls(c) PROVE DInv'
  <2>1. waking[c] = NoChan
    BY <1>3 DEF Calls
  <2>2. CASE Yield(c)
    BY <2>1, <2>2, YieldKeeps
  <2>3. CASE IPCWait(c)
    <3>1. CASE NothingElse(c)
      BY <2>1, <2>3, <3>1, IPCWaitKeeps
    <3>2. CASE ~NothingElse(c)
      <4>1. /\ at[c] = "run" /\ GoToSleep(c, at[c]) /\ UNCHANGED <<rqvars, slpvars>>
            /\ msgwait' = [msgwait EXCEPT ![exec[c]] = TRUE]
        BY <2>3, <3>2 DEF IPCWait
      <4> QED
        BY <2>1, <4>1, GoToSleepKeeps
    <3> QED
      BY <3>1, <3>2
  <2>4. ASSUME NEW p \in Procs, Fork(c, p) PROVE DInv'
    BY <2>1, <2>4, ForkKeeps
  <2>5. ASSUME NEW p \in Procs, IPCWakeup(c, p) PROVE DInv'
    BY <2>1, <2>5, HandOverKeeps, IPCWakeupKeeps
  <2>6. ASSUME NEW ch \in Channels, Sleep(c, ch) PROVE DInv'
    BY <2>1, <2>6, SleepKeeps
  <2>7. ASSUME NEW ch \in Channels, CallWakeup(c, ch) PROVE DInv'
    BY <2>7, CallWakeupKeeps
  <2> QED
    BY <1>3, <2>2, <2>3, <2>4, <2>5, <2>6, <2>7 DEF Calls
<1>4. ASSUME NEW p \in Procs, Schedcpu(p) PROVE DInv'
  BY <1>4, SchedcpuKeeps
<1> QED
  BY <1>0, <1>1, <1>2, <1>3, <1>4 DEF Next

(* The invariant holds in every state of an execution, for any numbers of  *)
(* processors and processes and whichever processors execute sleep and     *)
(* wakeup (sys/kern_synch.c), until a process is WokenHalfway.             *)
THEOREM DispatchInvariance == Spec => []DInv \/ <><<WokenHalfway>>_vars
<1>1. DInv /\ [Next]_vars /\ [~WokenHalfway]_vars => DInv'
  BY StepDInv
<1> QED
  BY InitDInv, <1>1, PTL DEF Spec

(* Every record of the dispatcher is of its kind, the run queues are       *)
(* consistent whatever the processors do to them, and an idle thread       *)
(* never leaves its processor, unless a process is WokenHalfway.           *)
THEOREM DispatchTyped == Spec => []TypeOK \/ <><<WokenHalfway>>_vars
<1>1. DInv => TypeOK
  BY DEF DInv
<1> QED
  BY DispatchInvariance, <1>1, PTL

(* No processor loads, with load_context, a context that has not been      *)
(* saved (unix_swtch, context_swtch and ipc_wakeup of sys/kern_synch.c),   *)
(* unless a wakeup makes a process runnable that a processor other than    *)
(* the master has put to sleep and not saved yet: whatever else they do    *)
(* at once, sleep and wakeup on any processor included.                    *)
THEOREM LoadedAreSaved == Spec => []LoadedSaved \/ <><<WokenHalfway>>_vars
<1>1. DInv => LoadedSaved
  BY Names DEF DInv, LoadedSaved, Located, Apart, Unsaved, Has, Runs, Takes
<1> QED
  BY DispatchInvariance, <1>1, PTL

(* A thread is on a run queue or with one processor and not both, and a    *)
(* runnable process is not lost between them, though unix_swtch puts it    *)
(* back after it has left it and wakeup puts it on a queue before it has   *)
(* left; unless a process is WokenHalfway.                                 *)
THEOREM ThreadsInOnePlace == Spec => []OnePlace \/ <><<WokenHalfway>>_vars
<1>1. ASSUME DInv PROVE OnePlace
  <2>1. ASSUME NEW c \in CPUs, NEW t, t \in Owns(c)
        PROVE  t \in Threads /\ Has(c, t)
    BY <1>1, <2>1, Names DEF Owns, Has, Runs, Takes, DInv, Located
  <2>2. ASSUME NEW c \in CPUs, NEW d \in CPUs \ {c} PROVE Owns(c) \cap Owns(d) = {}
    BY <1>1, <2>1 DEF DInv, Apart
  <2>3. ASSUME NEW c \in CPUs, NEW t \in Owns(c), runq[t] # NoQueue
        PROVE  c = Master /\ at[c] = "save" /\ runq[t] = Master
    BY <1>1, <2>1, <2>3 DEF DInv, OffQueue, Halfway
  <2>4. ASSUME NEW p \in Procs, stat[p] = "SRUN", runq[p] = NoQueue
        PROVE  \E c \in CPUs : \/ p \in Owns(c)
                               \/ exec[c] = p /\ at[c] \in {"put", "cs_put"}
    <3>1. PICK c \in CPUs : Has(c, p)
      BY <1>1, <2>4 DEF DInv, Runnable
    <3> QED
      BY <3>1 DEF Owns, Has, Runs, Takes
  <2> QED
    BY <2>2, <2>3, <2>4 DEF OnePlace
<1> QED
  BY DispatchInvariance, <1>1, PTL

(* A process that is SSLEEP is where a wakeup will find it: on slpque      *)
(* under its channel, or waiting for a message; unless one is              *)
(* WokenHalfway.                                                           *)
THEOREM NobodyIsForgotten == Spec => []NobodyForgotten \/ <><<WokenHalfway>>_vars
<1>1. DInv => NobodyForgotten
  BY DEF DInv, NobodyForgotten, Sleepers, Waiting, Range
<1> QED
  BY DispatchInvariance, <1>1, PTL

(* No processor gets to a panic of the dispatcher, set_runq of a thread    *)
(* that is queued, choose_thread without a result or a sleep of a process  *)
(* that is not running, unless a process is WokenHalfway; and the panic    *)
(* of wakeup (kern_synch.c:544) comes only where it walks over a process   *)
(* that another processor is putting to sleep.                             *)
THEOREM PanicsOfWakeup ==
  Spec => [](/\ \A c \in CPUs : NoPanicOf(c)
             /\ NoPanic \/ SleeperMet) \/ <><<WokenHalfway>>_vars
<1>1. ASSUME DInv, NEW c \in CPUs, at[c] = "put" PROVE ~PanicSetRunq(exec[c])
  BY <1>1, Names DEF DInv, OffQueue, Located, PanicSetRunq, Has, Runs, Takes, Halfway
<1>2. ASSUME DInv, NEW c \in CPUs, at[c] = "cs_put" PROVE ~PanicSetRunq(active[c])
  BY <1>2, Names DEF DInv, OffQueue, Located, PanicSetRunq, Has, Runs, Takes, Halfway
<1>3. ASSUME DInv, NEW c \in CPUs, at[c] = "choose" PROVE Chosen(c) # NoThread
  <2>1. exec[c] \in Procs
    BY <1>3 DEF DInv, Located
  <2>2. Idle(c) \in Threads /\ runq[Idle(c)] = c
    BY <1>3, <2>1, Names DEF DInv, HomeIdle, Has, Runs, Takes
  <2> QED
    BY <2>2, <1>3, SomeoneChosen DEF DInv
<1>4. ASSUME DInv, NEW c \in CPUs, at[c] = "run" PROVE ~PanicSleep(c)
  BY <1>4 DEF DInv, Located, Running, PanicSleep, Has, Runs, Takes, Halfway
<1>5. ASSUME DInv, NEW i \in DOMAIN slpque
      PROVE  LET p == slpque[i]
             IN  /\ runq[p] = NoQueue
                 /\ stat[p] # "SSLEEP" => \E d \in CPUs : at[d] = "slp" /\ exec[d] = p
  <2> DEFINE p == slpque[i]
  <2>1. p \in Procs /\ p \in Range(slpque)
    BY <1>5, LenProperties, ElementOfSeq DEF DInv, TypeOK, Range
  <2> HIDE DEF p
  <2>2. CASE stat[p] = "SSLEEP"
    BY <1>5, <2>1, <2>2, Stopped DEF p
  <2>3. CASE stat[p] # "SSLEEP"
    <3>1. PICK d \in CPUs : at[d] = "slp" /\ exec[d] = p
      BY <1>5, <2>1, <2>3 DEF DInv, Sleepers
    <3>2. p \in Threads /\ Has(d, p) /\ ~Halfway(d)
      BY <2>1, <3>1, Names DEF Has, Runs, Halfway
    <3> QED
      BY <1>5, <3>1, <3>2, Mine DEF p
  <2> QED
    BY <2>2, <2>3
<1>6. ASSUME DInv, NEW c \in CPUs PROVE NoPanicOf(c)
  BY <1>1, <1>2, <1>3, <1>4, <1>5, <1>6 DEF NoPanicOf, Matches, PanicSetRunq
<1>7. ASSUME DInv, NEW c \in CPUs, waking[c] # NoChan, PanicWakeup(c) PROVE SleeperMet
  <2>1. PICK i \in Walked(c) : i \in DOMAIN slpque /\ stat[slpque[i]] # "SSLEEP"
    BY <1>7 DEF PanicWakeup, Walked
  <2>2. PICK d \in CPUs : at[d] = "slp" /\ exec[d] = slpque[i]
    BY <1>5, <1>7, <2>1
  <2>3. d # c
    BY <1>7, <2>2 DEF DInv, Located
  <2> QED
    BY <1>7, <2>1, <2>2, <2>3 DEF SleeperMet
<1>8. DInv => (\A c \in CPUs : NoPanicOf(c)) /\ (NoPanic \/ SleeperMet)
  BY <1>6, <1>7 DEF NoPanic
<1> QED
  BY DispatchInvariance, <1>8, PTL

(* Where only the master executes sleep and wakeup no process is           *)
(* WokenHalfway: ipc_wait holds the lock of a process that sleeps for a    *)
(* message until it is saved.                                              *)
THEOREM MasterWakesWhole ==
  ASSUME UnixCPUs \subseteq {Master}
  PROVE  Spec => [][~WokenHalfway]_vars
<1>1. ASSUME DInv, Next PROVE ~WokenHalfway
  <2> SUFFICES ASSUME NEW d \in CPUs \ {Master}, Halfway(d), stat[exec[d]] = "SSLEEP",
                      stat'[exec[d]] = "SRUN"
               PROVE  FALSE
    BY DEF WokenHalfway
  <2> DEFINE p == exec[d]
  <2>1. p \in Procs /\ Has(d, p)
    BY <1>1 DEF DInv, Located, Halfway, Has, Runs
  <2>2. wchan[p] = NoChan /\ proclock[p] = d /\ d # NoThread
    BY <1>1, <2>1, Stopped, Names
  <2>3. ASSUME NEW c \in CPUs, waking[c] # NoChan, Matches(c) # {}, WakeOne(c)
        PROVE  stat'[p] = stat[p]
    <3> DEFINE q == slpque[Least(Matches(c))]
    <3>1. stat' = [stat EXCEPT ![q] = "SRUN"]
      BY <2>3 DEF WakeOne
    <3>2. /\ Matches(c) \subseteq 1 .. Len(slpque) /\ Matches(c) \subseteq Int
          /\ 1 .. Len(slpque) = DOMAIN slpque /\ Len(slpque) \in Int
      BY <1>1, LenProperties DEF DInv, TypeOK, Matches
    <3>3. IsFiniteSet(Matches(c))
      <4>1. IsFiniteSet(1 .. Len(slpque))
        BY <3>2, FS_Interval
      <4> QED
        BY <3>2, <4>1, FS_Subset
    <3>4. Least(Matches(c)) \in Matches(c)
      BY <2>3, <3>2, <3>3, LeastOf
    <3>5. wchan[q] = waking[c]
      BY <3>4 DEF Matches
    <3> HIDE DEF q
    <3> QED
      BY <1>1, <2>1, <2>2, <2>3, <3>1, <3>5 DEF DInv, TypeOK
  <2> HIDE DEF p
  <2>4. ASSUME NEW c \in CPUs, Wakeup(c) PROVE stat'[p] = stat[p]
    BY <2>3, <2>4 DEF Wakeup
  <2>5. ASSUME NEW c \in CPUs, NEW q \in Procs, Fork(c, q) PROVE stat'[p] = stat[p]
    BY <1>1, <2>1, <2>5 DEF Fork, DInv, TypeOK, p
  <2>6. ASSUME NEW c \in CPUs, NEW q \in Procs, IPCWakeup(c, q) PROVE stat'[p] = stat[p]
    <3>1. q # p /\ (stat' = [stat EXCEPT ![q] = "SRUN"] \/ stat' = stat)
      BY <2>2, <2>6 DEF IPCWakeup
    <3> QED
      BY <1>1, <2>1, <3>1 DEF DInv, TypeOK
  <2>7. ASSUME NEW c \in CPUs, SleepStat(c) \/ IPCWait(c) \/ IPCRelock(c)
        PROVE  stat'[p] = stat[p] \/ stat'[p] = "SSLEEP"
    <3>1. stat' = [stat EXCEPT ![exec[c]] = "SSLEEP"] \/ stat' = stat
      BY <2>7 DEF SleepStat, IPCWait, IPCRelock, GoToSleep
    <3> QED
      BY <1>1, <2>1, <3>1 DEF DInv, TypeOK
  <2>8. ASSUME NEW c \in CPUs, Kernel(c) PROVE stat'[p] = stat[p] \/ stat'[p] = "SSLEEP"
    BY <2>7, <2>8 DEF Kernel, SaveContext, PutBack, Choose, LoadContext, CsSave, CsPut,
                      IdleSpin, IdleChoose, IPCSpin
  <2>9. ASSUME NEW c \in CPUs, Calls(c) PROVE stat'[p] = stat[p] \/ stat'[p] = "SSLEEP"
    BY <2>5, <2>6, <2>7, <2>9 DEF Calls, Yield, Sleep, CallWakeup
  <2> QED
    BY <1>1, <2>4, <2>8, <2>9 DEF Next, Schedcpu, p
<1>2. DInv /\ [Next]_vars => [~WokenHalfway]_vars
  BY <1>1
<1>3. DInv /\ [Next]_vars => DInv'
  BY <1>2, StepDInv
<1> QED
  BY InitDInv, <1>2, <1>3, PTL DEF Spec
=============================================================================
