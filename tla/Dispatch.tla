------------------------------ MODULE Dispatch ------------------------------
(***************************************************************************)
(* Context switching on several processors: the dispatcher of              *)
(* sys/kern_synch.c (unix_swtch, ipc_wait, ipc_wakeup, context_swtch,      *)
(* idle_thread) over the run queues of kern/sched_prim.c, with the event   *)
(* queue of sleep_and_unlock and wakeup and the message waits of           *)
(* accent/acc_macro.h as the callers that put processes to sleep and make  *)
(* them run again.                                                         *)
(*                                                                         *)
(* A processor executes in the context of one thread until load_context.   *)
(* A step is code that runs under one lock, or between two of them; a      *)
(* processor whose code would panic takes no further step.                 *)
(* One hash slot of the event queue is modelled, with several channels in  *)
(* it; sleeps are those no signal interrupts (pri <= PZERO), every process *)
(* is in core (SLOAD) and no processor is told to halt (should_exit).      *)
(***************************************************************************)
EXTENDS RunQueue

CONSTANTS Procs, Master,
          InitProc,       \* the process that runs first, on the master
          Channels,       \* channels that hash to the slot of the model
          NoChan,         \* p_wchan = 0
          UnixCPUs,       \* processors that execute sleep and wakeup
          ProcPriorities  \* what p_pri of each may be when do_setrq copies it

Idle(c) == <<"idle", c>>
Idles   == {Idle(c) : c \in CPUs}

(* idle_thread is bound to its processor's queue and has the last priority *)
Whichq(t)  == IF t \in Idles THEN t[2] ELSE Global
IdlePri    == 4 * NRQS - 1

ASSUME DispatchAssumption ==
  /\ Threads = Procs \cup Idles
  /\ Procs \cap Idles = {}
  /\ Priorities = (UNION {ProcPriorities[p] : p \in Procs}) \cup {IdlePri}
  /\ InitProc \in Procs
  /\ Master \in CPUs
  /\ UnixCPUs \subseteq CPUs
  /\ NoChan \notin Channels
  /\ NoThread \notin CPUs     \* proclock[p] is either

VARIABLES
  at,       \* at[c]: where processor c executes
  exec,     \* exec[c]: the thread in whose context it executes
  next,     \* next[c]: the thread it is going to load
  put,      \* put[c]: the queue unix_swtch returns exec[c] to, or NoQueue
  active,   \* active_threads[c]: what current_thread() answers there
  saved,    \* saved[t]: t's state is stored: by save_context since it was
            \* loaded last, or by the fork that made it
  stat,     \* p_stat
  wchan,    \* p_wchan
  slpque,   \* the slot of the event queue
  waking,   \* waking[c]: the channel whose wakeup c is in, with sleep_lock
  msgwait,  \* msgwait[p]: ipcp->State says that p waits for a message
  proclock  \* proclock[p]: the processor that holds ipcp->ProcLock, or none

cpuvars == <<at, exec, next, put, active, saved>>
slpvars == <<wchan, slpque, waking>>
ipcvars == <<msgwait, proclock>>
vars    == <<rqvars, cpuvars, stat, slpvars, ipcvars>>

Goto(c, from, to) == at[c] = from /\ at' = [at EXCEPT ![c] = to]

(***************************************************************************)
(* The first process has started: the idle threads are on their            *)
(* processors' queues or execute there; the other processes are not there. *)
(***************************************************************************)
Init ==
  /\ queue = [rq \in RunQs |-> [l \in Levels |->
                IF rq = Master /\ l = Level(IdlePri) THEN <<Idle(Master)>> ELSE <<>>]]
  /\ low = [rq \in RunQs |-> 0]
  /\ count = [rq \in RunQs |-> IF rq = Master THEN 1 ELSE 0]
  /\ runq = [t \in Threads |-> IF t = Idle(Master) THEN Master ELSE NoQueue]
  /\ pri = [t \in Threads |-> IF t \in Idles THEN IdlePri ELSE 0]
  /\ exec = [c \in CPUs |-> IF c = Master THEN InitProc ELSE Idle(c)]
  /\ active = exec
  /\ at = [c \in CPUs |-> IF c = Master THEN "run" ELSE "idle"]
  /\ next = [c \in CPUs |-> NoThread]
  /\ put = [c \in CPUs |-> NoQueue]
  /\ saved = [t \in Threads |-> t \in (Procs \cup {Idle(Master)}) \ {InitProc}]
  /\ stat = [p \in Procs |-> IF p = InitProc THEN "SRUN" ELSE "SIDL"]
  /\ wchan = [p \in Procs |-> NoChan]
  /\ slpque = <<>>
  /\ waking = [c \in CPUs |-> NoChan]
  /\ msgwait = [p \in Procs |-> FALSE]
  /\ proclock = [p \in Procs |-> NoThread]

-----------------------------------------------------------------------------
(***************************************************************************)
(* unix_swtch: save_context, put the process on a queue, choose, load.     *)
(* ipc_wait is the same after it released the ipc lock with its context    *)
(* saved; ipc_wakeup and context_swtch know the thread they load.          *)
(***************************************************************************)
CallSwtch(c, from, rq) ==
  /\ Goto(c, from, "save")
  /\ put' = [put EXCEPT ![c] = rq]
  /\ UNCHANGED <<exec, next, active, saved>>

(* TPswtch, the trap code when runrun is set, and processes that move to   *)
(* the master                                                              *)
Yield(c) ==
  /\ exec[c] \in Procs
  /\ \E rq \in {Master, Global} : CallSwtch(c, "run", rq)
  /\ UNCHANGED <<rqvars, stat, slpvars, ipcvars>>

ReleaseProcLocks(c) ==
  proclock' = [p \in Procs |-> IF proclock[p] = c THEN NoThread ELSE proclock[p]]

(* Mutated: ipc_wait releases the lock first and saves the context later.  *)
SaveContextLate(c) ==
  /\ at[c] = "save"
  /\ IF \E p \in Procs : proclock[p] = c
       THEN ReleaseProcLocks(c) /\ UNCHANGED cpuvars
       ELSE /\ Goto(c, "save", IF put[c] = NoQueue THEN "choose" ELSE "put")
            /\ saved' = [saved EXCEPT ![exec[c]] = TRUE]
            /\ active' = [active EXCEPT ![c] =
                            IF put[c] = NoQueue THEN NoThread ELSE @]
            /\ UNCHANGED <<exec, next, put, proclock>>
  /\ UNCHANGED <<rqvars, stat, slpvars, msgwait>>

SaveContext(c) ==
  /\ Goto(c, "save", IF put[c] = NoQueue THEN "choose" ELSE "put")
  /\ saved' = [saved EXCEPT ![exec[c]] = TRUE]
  /\ active' = [active EXCEPT ![c] = IF put[c] = NoQueue THEN NoThread ELSE @]
  /\ ReleaseProcLocks(c)
  /\ UNCHANGED <<rqvars, exec, next, put, stat, slpvars, msgwait>>

(* do_setrq, which copies p_pri, under sched_lock                          *)
PutBack(c) ==
  /\ Goto(c, "put", "choose")
  /\ \E pr \in ProcPriorities[exec[c]] : SetRunq(exec[c], put[c], pr)
  /\ active' = [active EXCEPT ![c] = NoThread]
  /\ UNCHANGED <<exec, next, put, saved, stat, slpvars, ipcvars>>

Choose(c) ==
  /\ Goto(c, "choose", "load")
  /\ Chosen(c) # NoThread
  /\ ChooseThread(c)
  /\ next' = [next EXCEPT ![c] = Chosen(c)]
  /\ active' = [active EXCEPT ![c] = Chosen(c)]
  /\ UNCHANGED <<exec, put, saved, stat, slpvars, ipcvars>>

LoadContext(c) ==
  /\ Goto(c, "load", IF next[c] \in Idles THEN "idle" ELSE "run")
  /\ exec' = [exec EXCEPT ![c] = next[c]]
  /\ saved' = [saved EXCEPT ![next[c]] = FALSE]
  /\ next' = [next EXCEPT ![c] = NoThread]
  /\ UNCHANGED <<rqvars, put, active, stat, slpvars, ipcvars>>

(***************************************************************************)
(* context_swtch(th), from newproc and idle_thread, and ipc_wakeup(th):    *)
(* the caller goes back to its own or the global queue, th is loaded.      *)
(***************************************************************************)
CallContextSwtch(c, from, t) ==
  /\ Goto(c, from, "cs_save")
  /\ next' = [next EXCEPT ![c] = t]
  /\ UNCHANGED <<exec, put, active, saved>>

CsSave(c) ==
  /\ Goto(c, "cs_save", "cs_put")
  /\ saved' = [saved EXCEPT ![exec[c]] = TRUE]
  /\ ReleaseProcLocks(c)
  /\ UNCHANGED <<rqvars, exec, next, put, active, stat, slpvars, msgwait>>

(* Mutated: a processor leaves its idle thread on the global queue.        *)
CsPutGlobal(c) ==
  /\ Goto(c, "cs_put", "load")
  /\ SetRunq(active[c], Global, pri[active[c]])
  /\ active' = [active EXCEPT ![c] = next[c]]
  /\ UNCHANGED <<exec, next, put, saved, stat, slpvars, ipcvars>>

CsPut(c) ==
  /\ Goto(c, "cs_put", "load")
  /\ SetRunq(active[c], Whichq(active[c]), pri[active[c]])
  /\ active' = [active EXCEPT ![c] = next[c]]
  /\ UNCHANGED <<exec, next, put, saved, stat, slpvars, ipcvars>>

Fork(c, p) ==
  /\ c \in UnixCPUs /\ exec[c] \in Procs
  /\ stat[p] = "SIDL"
  /\ CallContextSwtch(c, "run", p)
  /\ stat' = [stat EXCEPT ![p] = "SRUN"]
  /\ UNCHANGED <<rqvars, slpvars, ipcvars>>

(***************************************************************************)
(* idle_thread: it looks at the counts without a lock, then chooses.       *)
(***************************************************************************)
IdleSpin(c) ==
  /\ count[c] # 0 \/ count[Global] # 0
  /\ Goto(c, "idle", "idle_choose")
  /\ UNCHANGED <<rqvars, exec, next, put, active, saved, stat, slpvars, ipcvars>>

IdleChoose(c) ==
  /\ at[c] = "idle_choose"
  /\ ChooseThread(c)
  /\ IF Chosen(c) = NoThread
       THEN Goto(c, "idle_choose", "idle")
            /\ UNCHANGED <<exec, next, put, active, saved>>
       ELSE CallContextSwtch(c, "idle_choose", Chosen(c))
  /\ UNCHANGED <<stat, slpvars, ipcvars>>

-----------------------------------------------------------------------------
(***************************************************************************)
(* sleep_and_unlock: on the event queue under sleep_lock, SSLEEP after it  *)
(* was released, unix_swtch later still.                                   *)
(***************************************************************************)
SleepLocked == \E c \in CPUs : waking[c] # NoChan

PanicSleep(c) == stat[exec[c]] # "SRUN"

Sleep(c, ch) ==
  /\ c \in UnixCPUs /\ exec[c] \in Procs
  /\ ~SleepLocked /\ ~PanicSleep(c)
  /\ Goto(c, "run", "slp")
  /\ wchan' = [wchan EXCEPT ![exec[c]] = ch]
  /\ slpque' = Append(slpque, exec[c])
  /\ UNCHANGED <<rqvars, exec, next, put, active, saved, stat, waking, ipcvars>>

SleepStat(c) ==
  /\ CallSwtch(c, "slp", NoQueue)
  /\ stat' = [stat EXCEPT ![exec[c]] = "SSLEEP"]
  /\ UNCHANGED <<rqvars, slpvars, ipcvars>>

(***************************************************************************)
(* wakeup, called by a process or from an interrupt, holds sleep_lock all  *)
(* along; each process it wakes is put on the master's queue under         *)
(* sched_lock.  Whatever it walks over must be asleep.                     *)
(***************************************************************************)
CallWakeup(c, ch) ==
  /\ c \in UnixCPUs /\ ~SleepLocked
  /\ at[c] \in {"run", "idle", "save", "ipc_spin"}
  /\ waking' = [waking EXCEPT ![c] = ch]
  /\ UNCHANGED <<rqvars, cpuvars, stat, wchan, slpque, ipcvars>>

Matches(c) == {i \in DOMAIN slpque : wchan[slpque[i]] = waking[c]}

Walked(c) == {i \in DOMAIN slpque : \A m \in Matches(c) : i <= m}

PanicWakeup(c) == \E i \in Walked(c) : stat[slpque[i]] # "SSLEEP"

WakeOne(c) ==
  LET k == Least(Matches(c))
      p == slpque[k]
  IN  /\ \E pr \in ProcPriorities[p] : SetRunq(p, Master, pr)
      /\ slpque' = SubSeq(slpque, 1, k - 1) \o SubSeq(slpque, k + 1, Len(slpque))
      /\ wchan' = [wchan EXCEPT ![p] = NoChan]
      /\ stat' = [stat EXCEPT ![p] = "SRUN"]

(* Mutated: the walk starts again although it found nobody to wake.        *)
WakeupRestarts(c) ==
  /\ waking[c] # NoChan /\ ~PanicWakeup(c)
  /\ IF Matches(c) = {}
       THEN UNCHANGED <<rqvars, stat, slpvars>>
       ELSE WakeOne(c) /\ UNCHANGED waking
  /\ UNCHANGED <<cpuvars, ipcvars>>

Wakeup(c) ==
  /\ waking[c] # NoChan /\ ~PanicWakeup(c)
  /\ IF Matches(c) = {}
       THEN /\ waking' = [waking EXCEPT ![c] = NoChan]
            /\ UNCHANGED <<rqvars, stat, wchan, slpque>>
       ELSE WakeOne(c) /\ UNCHANGED waking
  /\ UNCHANGED <<cpuvars, ipcvars>>

(* schedcpu, on the master's clock: a queued process whose priority has    *)
(* changed moves to its new level, and to the master's queue               *)
Schedcpu(p) ==
  /\ at[Master] \in {"run", "idle", "save", "ipc_spin"}
  /\ waking[Master] = NoChan
  /\ stat[p] = "SRUN"
  /\ \E pr \in ProcPriorities[p] : Level(pr) # Level(pri[p]) /\ Requeue(p, Master, pr)
  /\ UNCHANGED <<cpuvars, stat, slpvars, ipcvars>>

-----------------------------------------------------------------------------
(***************************************************************************)
(* IPCWait without a timeout and IPCWakeup.  A process that finds nothing  *)
(* else to run on its processor waits in a loop, without the lock; ipc_wait *)
(* holds the lock until the context is saved.                              *)
(***************************************************************************)
NothingElse(c) == count[c] <= 1 /\ count[Global] = 0

GoToSleep(c, from) ==
  /\ CallSwtch(c, from, NoQueue)
  /\ stat' = [stat EXCEPT ![exec[c]] = "SSLEEP"]
  /\ proclock' = [proclock EXCEPT ![exec[c]] = c]

IPCWait(c) ==
  /\ at[c] = "run"
  /\ proclock[exec[c]] = NoThread
  /\ msgwait' = [msgwait EXCEPT ![exec[c]] = TRUE]
  /\ IF NothingElse(c)
       THEN /\ Goto(c, "run", "ipc_spin")
            /\ UNCHANGED <<exec, next, put, active, saved, stat, proclock>>
       ELSE GoToSleep(c, "run")
  /\ UNCHANGED <<rqvars, slpvars>>

IPCSpin(c) ==
  /\ Goto(c, "ipc_spin", "ipc_lock")
  /\ ~msgwait[exec[c]] \/ ~NothingElse(c)
  /\ UNCHANGED <<rqvars, exec, next, put, active, saved, stat, slpvars, ipcvars>>

(* Mutated: the State that was read before the loop is not read again.     *)
IPCRelockStale(c) ==
  /\ at[c] = "ipc_lock" /\ proclock[exec[c]] = NoThread
  /\ GoToSleep(c, "ipc_lock")
  /\ UNCHANGED <<rqvars, slpvars, msgwait>>

IPCRelock(c) ==
  /\ at[c] = "ipc_lock" /\ proclock[exec[c]] = NoThread
  /\ IF msgwait[exec[c]]
       THEN GoToSleep(c, "ipc_lock")
       ELSE /\ Goto(c, "ipc_lock", "run")
            /\ UNCHANGED <<exec, next, put, active, saved, stat, proclock>>
  /\ UNCHANGED <<rqvars, slpvars, msgwait>>

IPCWakeup(c, p) ==
  /\ at[c] = "run"
  /\ exec[c] # p
  /\ proclock[p] = NoThread
  /\ msgwait[p]
  /\ msgwait' = [msgwait EXCEPT ![p] = FALSE]
  /\ IF stat[p] = "SSLEEP"
       THEN /\ CallContextSwtch(c, "run", p)
            /\ stat' = [stat EXCEPT ![p] = "SRUN"]
            /\ proclock' = [proclock EXCEPT ![p] = c]
       ELSE UNCHANGED <<cpuvars, stat, proclock>>
  /\ UNCHANGED <<rqvars, slpvars>>

-----------------------------------------------------------------------------
Kernel(c) ==    \* what a processor goes on with by itself
  /\ waking[c] = NoChan
  /\ \/ SaveContext(c) \/ PutBack(c) \/ Choose(c) \/ LoadContext(c)
     \/ CsSave(c) \/ CsPut(c)
     \/ IdleSpin(c) \/ IdleChoose(c)
     \/ SleepStat(c)
     \/ IPCSpin(c) \/ IPCRelock(c)

Calls(c) ==     \* what the process on it asks for
  /\ waking[c] = NoChan
  /\ \/ Yield(c) \/ IPCWait(c)
     \/ \E p \in Procs : Fork(c, p) \/ IPCWakeup(c, p)
     \/ \E ch \in Channels : Sleep(c, ch) \/ CallWakeup(c, ch)

Next == \/ \E c \in CPUs : Kernel(c) \/ Wakeup(c) \/ Calls(c)
        \/ \E p \in Procs : Schedcpu(p)

Spec == Init /\ [][Next]_vars

(***************************************************************************)
(* A processor that is in the kernel keeps executing; interrupts that call *)
(* wakeup return and leave it time between them.                           *)
(***************************************************************************)
FairSpec == Spec /\ \A c \in CPUs : SF_vars(Kernel(c)) /\ WF_vars(Wakeup(c))

-----------------------------------------------------------------------------
TypeOK ==
  /\ RQTypeOK
  /\ at \in [CPUs -> {"run", "idle", "idle_choose", "save", "put", "choose", "load",
                      "cs_save", "cs_put", "slp", "ipc_spin", "ipc_lock"}]
  /\ exec \in [CPUs -> Threads]
  /\ next \in [CPUs -> Threads \cup {NoThread}]
  /\ put \in [CPUs -> RunQs \cup {NoQueue}]
  /\ active \in [CPUs -> Threads \cup {NoThread}]
  /\ saved \in [Threads -> BOOLEAN]
  /\ stat \in [Procs -> {"SIDL", "SRUN", "SSLEEP"}]
  /\ wchan \in [Procs -> Channels \cup {NoChan}]
  /\ slpque \in Seq(Procs)
  /\ waking \in [CPUs -> Channels \cup {NoChan}]
  /\ msgwait \in [Procs -> BOOLEAN]
  /\ proclock \in [Procs -> CPUs \cup {NoThread}]

(***************************************************************************)
(* load_context "assumes that the process saved its state with             *)
(* save_context" (ca/loutil.s:718): nobody can have handed a thread out    *)
(* before the processor that ran it was through with it.                   *)
(***************************************************************************)
LoadedSaved == \A c \in CPUs : at[c] = "load" => saved[next[c]]

(***************************************************************************)
(* The threads a processor has for itself: the one it executes, until that *)
(* one's context is saved, and the one it took to load.                    *)
(***************************************************************************)
Owns(c) == {exec[c] : x \in IF at[c] \in {"put", "choose", "cs_put", "load"}
                              THEN {} ELSE {1}}
           \cup {next[c] : x \in IF at[c] \in {"cs_save", "cs_put", "load"}
                                   THEN {1} ELSE {}}

(***************************************************************************)
(* A thread is in one place, and a runnable one is somewhere: no two       *)
(* processors have it, and one that a processor has is on no run queue -   *)
(* save a sleeper that is woken before the master, which alone serves the  *)
(* queue it is put on, left it.  A runnable process is on a run queue, or  *)
(* a processor has it or is about to put it on one.                        *)
(***************************************************************************)
OnePlace ==
  /\ \A c \in CPUs :
       /\ \A d \in CPUs \ {c} : Owns(c) \cap Owns(d) = {}
       /\ \A t \in Owns(c) :
            runq[t] # NoQueue => c = Master /\ at[c] = "save" /\ runq[t] = Master
  /\ \A p \in Procs :
       stat[p] = "SRUN" =>
         \/ runq[p] # NoQueue
         \/ \E c \in CPUs : \/ p \in Owns(c)
                            \/ exec[c] = p /\ at[c] \in {"put", "cs_put"}

(***************************************************************************)
(* Nobody sleeps for nothing: a process that is asleep is on the event     *)
(* queue, where the wakeup it waits for looks, or its State still says     *)
(* that it waits for a message.  The window is between IPCWait's loop      *)
(* without the lock and its second look at State.                          *)
(***************************************************************************)
NobodyForgotten ==
  \A p \in Procs :
    stat[p] = "SSLEEP" =>
      IF wchan[p] = NoChan THEN msgwait[p] ELSE \E i \in DOMAIN slpque : slpque[i] = p

(***************************************************************************)
(* The firewalls of set_runq, unix_swtch, sleep and wakeup never fire: no  *)
(* processor is about to queue a thread that is queued already, finds no   *)
(* thread to load, puts a process to sleep that does not run, or walks     *)
(* over one on the event queue that is not asleep.                         *)
(***************************************************************************)
NoPanicOf(c) ==
  /\ at[c] = "put" => ~PanicSetRunq(exec[c])
  /\ at[c] = "cs_put" => ~PanicSetRunq(active[c])
  /\ at[c] = "choose" => Chosen(c) # NoThread
  /\ at[c] = "run" /\ c \in UnixCPUs => ~PanicSleep(c)
  /\ waking[c] # NoChan => \A i \in Matches(c) : ~PanicSetRunq(slpque[i])

NoPanic == \A c \in CPUs : NoPanicOf(c) /\ (waking[c] # NoChan => ~PanicWakeup(c))

(***************************************************************************)
(* A context switch, once begun, ends in a thread: nobody waits for a lock *)
(* for ever, and the thread a message was handed to with the processor     *)
(* gets to run.                                                            *)
(***************************************************************************)
SwitchEnds ==
  \A c \in CPUs : /\ at[c] \in {"save", "choose"} ~> at[c] \in {"run", "idle"}
                  /\ \A p \in Procs :
                       at[c] = "cs_save" /\ next[c] = p ~> exec[c] = p

(***************************************************************************)
(* A processor does not idle while there is work for it: while its idle    *)
(* thread executes and a process waits in its own queue, it comes to       *)
(* execute a process, and so it does for one that waits in the global      *)
(* queue, unless another processor takes that one first.  idle_thread's    *)
(* look at the counts sends it to choose_thread, which may find nothing    *)
(* and send it back, and the hints decide where choose_thread looks: it    *)
(* must not go to and fro between the two for ever.                        *)
(***************************************************************************)
IdleServes ==
  \A c \in CPUs :
    /\ (exec[c] = Idle(c) /\ \E p \in Procs : runq[p] = c) ~> exec[c] \in Procs
    /\ \A p \in Procs : (exec[c] = Idle(c) /\ runq[p] = Global)
                          ~> (exec[c] \in Procs \/ runq[p] # Global)
=============================================================================
