------------------------------ MODULE RunQueue ------------------------------
(***************************************************************************)
(* The run queues of kern/sched_prim.c: a global queue and one queue for   *)
(* each processor, each an array of NRQS priority levels with a hint, low, *)
(* below which all levels are empty, and a count.  set_runq and rem_runq   *)
(* run with sched_lock held for writing; choose_thread runs with sched_lock *)
(* held for reading and the locks of both queues it looks at, the global   *)
(* one among them, so each of the three is one step.                       *)
(***************************************************************************)
EXTENDS Integers, Sequences, FiniteSets, Functions

CONSTANTS Threads, CPUs,
          Global,         \* names global_runq; a CPU names its local_runq
          NoQueue,        \* RUN_QUEUE_NULL
          NoThread,       \* THREAD_NULL
          NRQS,           \* number of priority levels of a queue
          Priorities      \* the priorities threads may be given

ASSUME RunQueueAssumption ==
  /\ IsFiniteSet(Threads)
  /\ NRQS \in Nat \ {0}
  /\ Priorities \subseteq Int
  /\ Global \notin CPUs
  /\ NoQueue \notin CPUs \cup {Global}
  /\ NoThread \notin Threads

VARIABLES
  queue,    \* queue[rq][level]: the threads on that level, head first
  low,      \* rq->low
  count,    \* rq->count
  runq,     \* th->runq: the queue the thread is on, or NoQueue
  pri       \* th->pri

rqvars == <<queue, low, count, runq, pri>>

RunQs  == CPUs \cup {Global}
Levels == 0 .. NRQS - 1

(* rqinit: the queues are empty; thread_create: runq NULL, pri 0           *)
RQInit == /\ queue = [rq \in RunQs |-> [l \in Levels |-> <<>>]]
          /\ low = [rq \in RunQs |-> 0]
          /\ count = [rq \in RunQs |-> 0]
          /\ runq = [t \in Threads |-> NoQueue]
          /\ pri = [t \in Threads |-> 0]

Level(p) == LET w == p \div 4
            IN  IF w < 0 THEN 0 ELSE IF w >= NRQS THEN NRQS - 1 ELSE w

-----------------------------------------------------------------------------
(* Mutated: the hint is not lowered.                                       *)
SetRunqStaleHint(t, rq, p) ==
  /\ runq[t] = NoQueue
  /\ pri' = [pri EXCEPT ![t] = p]
  /\ queue' = [queue EXCEPT ![rq][Level(p)] = Append(@, t)]
  /\ low' = low
  /\ count' = [count EXCEPT ![rq] = @ + 1]
  /\ runq' = [runq EXCEPT ![t] = rq]

(***************************************************************************)
(* set_runq(th, rq), after its caller gave the thread priority p.  A thread *)
(* that is on a queue already is a panic: PanicSetRunq.                    *)
(***************************************************************************)
PanicSetRunq(t) == runq[t] # NoQueue

SetRunq(t, rq, p) ==
  /\ ~PanicSetRunq(t)
  /\ pri' = [pri EXCEPT ![t] = p]
  /\ queue' = [queue EXCEPT ![rq][Level(p)] = Append(@, t)]
  /\ low' = [low EXCEPT ![rq] = IF Level(p) < @ THEN Level(p) ELSE @]
  /\ count' = [count EXCEPT ![rq] = @ + 1]
  /\ runq' = [runq EXCEPT ![t] = rq]

(***************************************************************************)
(* rem_runq(th).  The level it names is wrong (always 0) but remqueue only *)
(* uses the links of the thread, so the thread leaves the level it is on.  *)
(***************************************************************************)
Without(s, t) ==
  IF \E i \in DOMAIN s : s[i] = t
    THEN LET i == CHOOSE i \in DOMAIN s : s[i] = t
         IN  SubSeq(s, 1, i - 1) \o SubSeq(s, i + 1, Len(s))
    ELSE s

(* Mutated: the thread is removed from level 0, as rem_runq's text says.   *)
UnlinkedLevel0(t, rq) ==
  [l \in Levels |-> IF l = 0 THEN Without(queue[rq][l], t) ELSE queue[rq][l]]

Unlinked(t, rq) == [l \in Levels |-> Without(queue[rq][l], t)]

(* Mutated: the count is left alone.                                       *)
RemRunqUncounted(t) ==
  /\ runq[t] # NoQueue
  /\ queue' = [queue EXCEPT ![runq[t]] = Unlinked(t, runq[t])]
  /\ runq' = [runq EXCEPT ![t] = NoQueue]
  /\ UNCHANGED <<low, count, pri>>

RemRunq(t) ==
  /\ runq[t] # NoQueue
  /\ queue' = [queue EXCEPT ![runq[t]] = Unlinked(t, runq[t])]
  /\ count' = [count EXCEPT ![runq[t]] = @ - 1]
  /\ runq' = [runq EXCEPT ![t] = NoQueue]
  /\ UNCHANGED <<low, pri>>

(***************************************************************************)
(* unix_remrq and unix_setrq in a row, as schedcpu does for a thread that  *)
(* waits on a level its priority p has left: one step under sched_lock.    *)
(***************************************************************************)
Requeue(t, rq, p) ==
  /\ runq[t] # NoQueue
  /\ pri' = [pri EXCEPT ![t] = p]
  /\ LET taken == [queue EXCEPT ![runq[t]] = Unlinked(t, runq[t])]
     IN  queue' = [taken EXCEPT ![rq][Level(p)] = Append(@, t)]
  /\ low' = [low EXCEPT ![rq] = IF Level(p) < @ THEN Level(p) ELSE @]
  /\ count' = [[count EXCEPT ![runq[t]] = @ - 1] EXCEPT ![rq] = @ + 1]
  /\ runq' = [runq EXCEPT ![t] = rq]

(***************************************************************************)
(* set_pri(th, p).  rem_runq has cleared th->runq when set_runq is called  *)
(* with it, so set_runq writes through a null run queue: the thread is on  *)
(* no queue afterwards.                                                    *)
(***************************************************************************)
SetPri(t, p) ==
  /\ pri' = [pri EXCEPT ![t] = p]
  /\ IF runq[t] = NoQueue
       THEN UNCHANGED <<queue, low, count, runq>>
       ELSE /\ queue' = [queue EXCEPT ![runq[t]] = Unlinked(t, runq[t])]
            /\ count' = [count EXCEPT ![runq[t]] = @ - 1]
            /\ runq' = [runq EXCEPT ![t] = NoQueue]
            /\ UNCHANGED low

-----------------------------------------------------------------------------
(***************************************************************************)
(* choose_thread() on processor c.  GlobalTop is i and LocalTop is j when  *)
(* the scans end; the local scan stops below i, so it takes the private    *)
(* queue only for a strictly better level.                                 *)
(***************************************************************************)
Busy(rq, from, to) == {l \in from .. to - 1 : queue[rq][l] # <<>>}

Least(S) == CHOOSE l \in S : \A m \in S : l <= m

GlobalTop == IF count[Global] > 0 /\ Busy(Global, low[Global], NRQS) # {}
               THEN Least(Busy(Global, low[Global], NRQS))
               ELSE NRQS

(* Mutated: the private queue is looked at when the global one is empty.   *)
PicksLocalIfAlone(c) ==
  count[c] > 0 /\ GlobalTop = NRQS /\ Busy(c, low[c], GlobalTop) # {}

LocalTop(c) == IF Busy(c, low[c], GlobalTop) # {}
                 THEN Least(Busy(c, low[c], GlobalTop))
                 ELSE IF low[c] < GlobalTop THEN GlobalTop ELSE low[c]

PicksLocal(c) == count[c] > 0 /\ Busy(c, low[c], GlobalTop) # {}

ChosenQ(c) == CASE PicksLocal(c)                        -> c
                [] ~PicksLocal(c) /\ GlobalTop < NRQS -> Global
                [] OTHER                               -> NoQueue

ChosenLevel(c) == IF PicksLocal(c) THEN LocalTop(c) ELSE GlobalTop

Chosen(c) == IF ChosenQ(c) = NoQueue
               THEN NoThread ELSE Head(queue[ChosenQ(c)][ChosenLevel(c)])

(* Mutated: the scan of the global queue leaves its hint one level on.     *)
NewHintsPast(c) ==
  low' = [low EXCEPT ![Global] = GlobalTop + 1,
                     ![c] = IF count[c] > 0 THEN LocalTop(c) ELSE NRQS]

(* Mutated: the scan leaves the hint beyond the level where it stopped.    *)
NewHintsBeyond(c) ==
  low' = [low EXCEPT ![Global] = IF GlobalTop < NRQS THEN GlobalTop + 1 ELSE NRQS,
                     ![c] = IF count[c] > 0 THEN LocalTop(c) ELSE NRQS]

NewHints(c) ==
  low' = [low EXCEPT ![Global] = GlobalTop,
                     ![c] = IF count[c] > 0 THEN LocalTop(c) ELSE NRQS]

(* Mutated: the thread is looked at and not taken off its queue.           *)
TakeLeft(c) ==
  LET rq == ChosenQ(c)
  IN  /\ queue' = queue
      /\ count' = [count EXCEPT ![rq] = @ - 1]
      /\ runq' = [runq EXCEPT ![Chosen(c)] = NoQueue]

Take(c) ==
  LET rq == ChosenQ(c)
  IN  /\ queue' = [queue EXCEPT ![rq][ChosenLevel(c)] = Tail(@)]
      /\ count' = [count EXCEPT ![rq] = @ - 1]
      /\ runq' = [runq EXCEPT ![Chosen(c)] = NoQueue]

ChooseThread(c) ==
  /\ NewHints(c)
  /\ UNCHANGED pri
  /\ IF Chosen(c) = NoThread THEN UNCHANGED <<queue, count, runq>> ELSE Take(c)

-----------------------------------------------------------------------------
RQNext == \/ \E t \in Threads, rq \in RunQs, p \in Priorities :
                SetRunq(t, rq, p) \/ Requeue(t, rq, p)
          \/ \E t \in Threads, p \in Priorities : SetPri(t, p)
          \/ \E t \in Threads : RemRunq(t)
          \/ \E c \in CPUs : ChooseThread(c)

RQSpec == RQInit /\ [][RQNext]_rqvars

-----------------------------------------------------------------------------
RQTypeOK == /\ queue \in [RunQs -> [Levels -> Seq(Threads)]]
            /\ low \in [RunQs -> 0 .. NRQS]
            /\ count \in [RunQs -> Int]
            /\ runq \in [Threads -> RunQs \cup {NoQueue}]
            /\ pri \in [Threads -> Int]

(***************************************************************************)
(* th->runq is where the thread is: a thread is on the level of its        *)
(* priority of that queue and on no other, once.  set_runq's firewall and  *)
(* rem_runq rely on it.                                                    *)
(***************************************************************************)

WhereItSays ==
  /\ \A rq \in RunQs, l \in Levels : \A i \in DOMAIN queue[rq][l] :
       LET t == queue[rq][l][i] IN runq[t] = rq /\ Level(pri[t]) = l
  /\ \A rq \in RunQs, l \in Levels : IsInjective(queue[rq][l])
  /\ \A t \in Threads : runq[t] # NoQueue =>
       \E i \in DOMAIN queue[runq[t]][Level(pri[t])] :
         queue[runq[t]][Level(pri[t])][i] = t

(***************************************************************************)
(* choose_thread starts its scans at low: no thread sits on a level above  *)
(* the hint's priority, or it would never be found.                        *)
(***************************************************************************)
HintBelow == \A rq \in RunQs, l \in Levels : l < low[rq] => queue[rq][l] = <<>>

(***************************************************************************)
(* choose_thread and idle_thread skip a queue whose count is 0: the count  *)
(* is the number of threads that say they are on the queue.                *)
(***************************************************************************)
CountExact == \A rq \in RunQs :
                count[rq] = Cardinality({t \in Threads : runq[t] = rq})

(***************************************************************************)
(* Whatever happened before, the thread choose_thread would pick now has   *)
(* the best priority of the two queues it looks at, and it picks one       *)
(* whenever there is one.                                                  *)
(***************************************************************************)
BestChosen ==
  \A c \in CPUs :
    /\ Chosen(c) = NoThread => count[c] = 0 /\ count[Global] = 0
    /\ Chosen(c) # NoThread =>
         \A t \in Threads : runq[t] \in {c, Global} =>
           Level(pri[Chosen(c)]) <= Level(pri[t])
=============================================================================
