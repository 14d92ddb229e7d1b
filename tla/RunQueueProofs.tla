--------------------------- MODULE RunQueueProofs ---------------------------
(***************************************************************************)
(* Proofs about RunQueue for any finite set of threads and any numbers of  *)
(* processors and levels.  The sequences of a queue are looked at as sets: *)
(* a level holds, once each, the threads that say they are there (Placed). *)
(* Placed, the counts and the hints are each kept by two moves of a        *)
(* thread, off its queue and onto a queue; the operations are made of      *)
(* these.                                                                  *)
(***************************************************************************)
EXTENDS RunQueue, QueueTheorems, FiniteSetTheorems, SequenceTheorems, TLAPS

Here(where, pr, rq, l) == {t \in Threads : where[t] = rq /\ Level(pr[t]) = l}

Queues == [RunQs -> [Levels -> Seq(Threads)]]

Placed(q, where, pr) ==
  \A rq \in RunQs, l \in Levels :
    IsInjective(q[rq][l]) /\ Range(q[rq][l]) = Here(where, pr, rq, l)

Counted(n, where) ==
  \A rq \in RunQs : n[rq] = Cardinality({t \in Threads : where[t] = rq})

Hinted(q, hint) == \A rq \in RunQs, l \in Levels : l < hint[rq] => q[rq][l] = <<>>

Inv == /\ RQTypeOK
       /\ Placed(queue, runq, pri)
       /\ Counted(count, runq)
       /\ Hinted(queue, low)

-----------------------------------------------------------------------------
(***************************************************************************)
(* Sequences without repetition as sets.                                   *)
(***************************************************************************)
(* remqueue of a thread from wherever it is, as rem_runq does              *)
LEMMA RangeWithout ==
  ASSUME NEW S, NEW s \in Seq(S), NEW t, IsInjective(s)
  PROVE  /\ Without(s, t) \in Seq(S)
         /\ Range(Without(s, t)) = Range(s) \ {t}
         /\ IsInjective(Without(s, t))
<1>1. Len(s) \in Nat /\ DOMAIN s = 1 .. Len(s) /\ \A i \in 1 .. Len(s) : s[i] \in S
  BY LenProperties, ElementOfSeq
<1>2. CASE ~\E i \in DOMAIN s : s[i] = t
  BY <1>2 DEF Without, Range
<1>3. CASE \E i \in DOMAIN s : s[i] = t
  <2> DEFINE k == CHOOSE i \in DOMAIN s : s[i] = t
             f == SubSeq(s, 1, k - 1)
             b == SubSeq(s, k + 1, Len(s))
             w == f \o b
  <2>1. k \in 1 .. Len(s) /\ s[k] = t
    BY <1>1, <1>3
  <2>2. Without(s, t) = w
    BY <1>3 DEF Without
  <2> HIDE DEF k
  <2>3. /\ f \in Seq(S) /\ Len(f) = k - 1
        /\ \A i \in 1 .. k - 1 : f[i] = s[i]
    <3>1. 1 \in Int /\ k - 1 \in Int /\ \A i \in 1 .. k - 1 : s[i] \in S
      BY <1>1, <2>1
    <3>2. /\ f \in Seq(S) /\ Len(f) = IF 1 <= k - 1 THEN k - 1 - 1 + 1 ELSE 0
          /\ \A i \in 1 .. k - 1 - 1 + 1 : f[i] = s[1 + i - 1]
      BY <3>1, SubSeqProperties
    <3> QED
      BY <3>2, <2>1
  <2>4. /\ b \in Seq(S) /\ Len(b) = Len(s) - k
        /\ \A i \in 1 .. Len(s) - k : b[i] = s[k + i]
    <3>1. k + 1 \in Int /\ Len(s) \in Int /\ \A i \in k + 1 .. Len(s) : s[i] \in S
      BY <1>1, <2>1
    <3>2. /\ b \in Seq(S)
          /\ Len(b) = IF k + 1 <= Len(s) THEN Len(s) - (k + 1) + 1 ELSE 0
          /\ \A i \in 1 .. Len(s) - (k + 1) + 1 : b[i] = s[k + 1 + i - 1]
      BY <3>1, SubSeqProperties
    <3>3. Len(b) = Len(s) - k
      <4> HIDE DEF b
      <4>1. Len(s) \in Nat /\ k \in 1 .. Len(s)
        BY <1>1, <2>1
      <4>2. Len(b) = IF k + 1 <= Len(s) THEN Len(s) - (k + 1) + 1 ELSE 0
        BY <3>2
      <4> QED
        BY <4>1, <4>2
    <3>4. ASSUME NEW i \in 1 .. Len(s) - k PROVE b[i] = s[k + i]
      <4>1. i \in 1 .. Len(s) - (k + 1) + 1 /\ k + 1 + i - 1 = k + i
        BY <1>1, <2>1
      <4> HIDE DEF b
      <4>2. b[i] = s[k + 1 + i - 1]
        BY <3>2, <4>1
      <4> QED
        BY <4>1, <4>2
    <3> QED
      BY <3>2, <3>3, <3>4
  <2>5. /\ w \in Seq(S) /\ Len(w) = Len(s) - 1 /\ DOMAIN w = 1 .. Len(s) - 1
        /\ \A i \in 1 .. Len(s) - 1 : w[i] = IF i < k THEN s[i] ELSE s[i + 1]
    <3> HIDE DEF f, b
    <3>1. /\ w \in Seq(S) /\ Len(w) = Len(f) + Len(b)
          /\ \A i \in 1 .. Len(f) + Len(b) :
               w[i] = IF i <= Len(f) THEN f[i] ELSE b[i - Len(f)]
      BY <2>3, <2>4, ConcatProperties
    <3>2. Len(f) + Len(b) = Len(s) - 1
      BY <1>1, <2>1, <2>3, <2>4
    <3>3. DOMAIN w = 1 .. Len(w)
      BY <3>1, LenProperties
    <3>4. ASSUME NEW i \in 1 .. Len(s) - 1
          PROVE  w[i] = IF i < k THEN s[i] ELSE s[i + 1]
      <4>1. CASE i < k
        BY <1>1, <2>1, <2>3, <3>1, <3>2, <4>1
      <4>2. CASE ~(i < k)
        <5>1. i - (k - 1) \in 1 .. Len(s) - k
          BY <1>1, <2>1, <4>2
        <5>2. w[i] = b[i - (k - 1)]
          BY <1>1, <2>1, <2>3, <3>1, <3>2, <4>2
        <5>3. b[i - (k - 1)] = s[k + (i - (k - 1))] /\ k + (i - (k - 1)) = i + 1
          BY <2>1, <2>4, <5>1
        <5> QED
          BY <4>2, <5>2, <5>3
      <4> QED
        BY <4>1, <4>2
    <3> QED
      BY <3>1, <3>2, <3>3, <3>4
  <2> HIDE DEF w
  <2>6. \A i, j \in 1 .. Len(s) : s[i] = s[j] => i = j
    BY <1>1 DEF IsInjective
  <2>7. Range(w) = Range(s) \ {t}
    <3>1. ASSUME NEW i \in DOMAIN w PROVE w[i] \in Range(s) /\ w[i] # t
      <4>1. i \in 1 .. Len(s) - 1 /\ i \in 1 .. Len(s) /\ i + 1 \in 1 .. Len(s)
        BY <1>1, <2>5
      <4>2. CASE i < k
        <5>1. w[i] = s[i] /\ i # k
          BY <2>1, <2>5, <4>1, <4>2
        <5> QED
          BY <1>1, <2>1, <2>6, <4>1, <5>1 DEF Range
      <4>3. CASE ~(i < k)
        <5>1. w[i] = s[i + 1] /\ i + 1 # k
          BY <2>1, <2>5, <4>1, <4>3
        <5> QED
          BY <1>1, <2>1, <2>6, <4>1, <5>1 DEF Range
      <4> QED
        BY <4>2, <4>3
    <3>2. ASSUME NEW i \in DOMAIN s, s[i] # t PROVE s[i] \in Range(w)
      <4>1. CASE i < k
        BY <1>1, <2>1, <2>5, <4>1 DEF Range
      <4>2. CASE ~(i < k)
        <5>1. i - 1 \in 1 .. Len(s) - 1 /\ ~(i - 1 < k)
          BY <1>1, <2>1, <3>2, <4>2
        <5>2. w[i - 1] = s[i - 1 + 1] /\ i - 1 + 1 = i
          BY <2>5, <5>1, <1>1
        <5> QED
          BY <2>5, <5>1, <5>2 DEF Range
      <4> QED
        BY <4>1, <4>2
    <3> QED
      BY <3>1, <3>2 DEF Range
  <2>8. IsInjective(w)
    <3> SUFFICES ASSUME NEW i \in 1 .. Len(s) - 1, NEW j \in 1 .. Len(s) - 1, w[i] = w[j]
                 PROVE  i = j
      BY <2>5 DEF IsInjective
    <3> QED
      BY <1>1, <2>1, <2>5, <2>6
  <2> QED
    BY <2>2, <2>5, <2>7, <2>8
<1> QED
  BY <1>2, <1>3

LEMMA LeastOf ==
  ASSUME NEW S \in SUBSET Int, IsFiniteSet(S), S # {}
  PROVE  Least(S) \in S /\ \A m \in S : Least(S) <= m
BY LeastExists DEF Least

LEMMA LeastIs ==
  ASSUME NEW S \in SUBSET Levels, S # {}
  PROVE  Least(S) \in S /\ \A m \in S : Least(S) <= m
<1>1. IsFiniteSet(Levels) /\ Levels \subseteq Int
  BY RunQueueAssumption, FS_Interval DEF Levels
<1> QED
  BY <1>1, FS_Subset, LeastOf

(* set_runq clamps every priority to a level                               *)
LEMMA LevelIs == \A p \in Int : Level(p) \in Levels
BY RunQueueAssumption, Z3 DEF Level, Levels

-----------------------------------------------------------------------------
(***************************************************************************)
(* The two moves: t leaves the queue it is on; t, which is on none, is     *)
(* entered in one.                                                         *)
(***************************************************************************)
LEMMA LeavePlaced ==
  ASSUME NEW q \in Queues, NEW where \in [Threads -> RunQs \cup {NoQueue}],
         NEW pr, Placed(q, where, pr),
         NEW t \in Threads, where[t] # NoQueue,
         NEW f \in [Levels -> Seq(Threads)],
         \A l \in Levels : f[l] = Without(q[where[t]][l], t)
  PROVE  /\ [q EXCEPT ![where[t]] = f] \in Queues
         /\ Placed([q EXCEPT ![where[t]] = f], [where EXCEPT ![t] = NoQueue], pr)
<1> DEFINE w == [where EXCEPT ![t] = NoQueue]
           u == [q EXCEPT ![where[t]] = f]
<1>1. where[t] \in RunQs
  OBVIOUS
<1>2. \A rq \in RunQs, l \in Levels :
        u[rq][l] = IF rq = where[t] THEN Without(q[rq][l], t) ELSE q[rq][l]
  BY <1>1 DEF Queues
<1>3. ASSUME NEW rq \in RunQs, NEW l \in Levels
      PROVE  /\ Without(q[rq][l], t) \in Seq(Threads)
             /\ IsInjective(Without(q[rq][l], t))
             /\ Range(Without(q[rq][l], t)) = Range(q[rq][l]) \ {t}
  <2>1. q[rq][l] \in Seq(Threads) /\ IsInjective(q[rq][l])
    BY DEF Queues, Placed
  <2> QED
    BY <2>1, RangeWithout
<1>4. u \in Queues
  BY <1>1 DEF Queues
<1>5. \A rq \in RunQs, l \in Levels : Here(w, pr, rq, l) = Here(where, pr, rq, l) \ {t}
  BY RunQueueAssumption DEF Here, RunQs
<1>6. ASSUME NEW rq \in RunQs, NEW l \in Levels
      PROVE  IsInjective(u[rq][l]) /\ Range(u[rq][l]) = Here(w, pr, rq, l)
  <2>1. IsInjective(q[rq][l]) /\ Range(q[rq][l]) = Here(where, pr, rq, l)
    BY DEF Placed
  <2>0. Here(w, pr, rq, l) = Here(where, pr, rq, l) \ {t}
    BY <1>5
  <2> HIDE DEF w
  <2>2. CASE rq = where[t]
    <3>1. u[rq][l] = Without(q[rq][l], t)
      BY <1>2, <2>2
    <3> QED
      BY <1>3, <2>0, <2>1, <3>1
  <2>3. CASE rq # where[t]
    <3>1. u[rq][l] = q[rq][l]
      BY <1>2, <2>3
    <3>2. Here(w, pr, rq, l) = Here(where, pr, rq, l)
      BY <2>0, <2>3 DEF Here
    <3> QED
      BY <2>1, <3>1, <3>2
  <2> QED
    BY <2>2, <2>3
<1> QED
  BY <1>4, <1>6 DEF Placed

LEMMA EnterPlaced ==
  ASSUME NEW q \in Queues, NEW where \in [Threads -> RunQs \cup {NoQueue}],
         NEW pr \in [Threads -> Int], Placed(q, where, pr),
         NEW t \in Threads, where[t] = NoQueue,
         NEW rq \in RunQs, NEW p \in Int, NEW u,
         u = [q EXCEPT ![rq][Level(p)] = Append(@, t)]
  PROVE  /\ u \in Queues
         /\ Placed(u, [where EXCEPT ![t] = rq], [pr EXCEPT ![t] = p])
<1> DEFINE w == [where EXCEPT ![t] = rq]
           n == [pr EXCEPT ![t] = p]
<1>0. Level(p) \in Levels
  BY LevelIs
<1>1. NoQueue \notin RunQs
  BY RunQueueAssumption DEF RunQs
<1>2. \A r \in RunQs, l \in Levels :
        u[r][l] = IF r = rq /\ l = Level(p) THEN Append(q[r][l], t) ELSE q[r][l]
  BY <1>0 DEF Queues
<1>3. ASSUME NEW r \in RunQs, NEW l \in Levels
      PROVE  /\ Append(q[r][l], t) \in Seq(Threads)
             /\ IsInjective(Append(q[r][l], t))
             /\ Range(Append(q[r][l], t)) = Range(q[r][l]) \cup {t}
  <2>1. q[r][l] \in Seq(Threads) /\ IsInjective(q[r][l]) /\ t \notin Range(q[r][l])
    BY <1>1 DEF Queues, Placed, Here
  <2> QED
    BY <2>1, RangeAppend
<1>4. u \in Queues
  BY <1>0, <1>3 DEF Queues
<1>5. ASSUME NEW r \in RunQs, NEW l \in Levels
      PROVE  Here(w, n, r, l) = IF r = rq /\ l = Level(p)
                                  THEN Here(where, pr, r, l) \cup {t}
                                  ELSE Here(where, pr, r, l)
  <2>1. n[t] = p /\ w[t] = rq
    OBVIOUS
  <2>2. \A x \in Threads \ {t} : n[x] = pr[x] /\ w[x] = where[x]
    OBVIOUS
  <2>3. t \notin Here(where, pr, r, l)
    BY <1>1 DEF Here
  <2> HIDE DEF w, n
  <2> QED
    BY <2>1, <2>2, <2>3 DEF Here
<1>6. ASSUME NEW r \in RunQs, NEW l \in Levels
      PROVE  IsInjective(u[r][l]) /\ Range(u[r][l]) = Here(w, n, r, l)
  <2>1. IsInjective(q[r][l]) /\ Range(q[r][l]) = Here(where, pr, r, l)
    BY DEF Placed
  <2> HIDE DEF w, n
  <2>2. CASE r = rq /\ l = Level(p)
    <3>1. /\ u[r][l] = Append(q[r][l], t)
          /\ Here(w, n, r, l) = Here(where, pr, r, l) \cup {t}
      BY <1>2, <1>5, <2>2
    <3> QED
      BY <1>3, <2>1, <3>1
  <2>3. CASE ~(r = rq /\ l = Level(p))
    <3>1. u[r][l] = q[r][l] /\ Here(w, n, r, l) = Here(where, pr, r, l)
      BY <1>2, <1>5, <2>3
    <3> QED
      BY <2>1, <3>1
  <2> QED
    BY <2>2, <2>3
<1> QED
  BY <1>4, <1>6 DEF Placed

(* set_pri and the priority of a thread that is on no queue                *)
LEMMA RepriPlaced ==
  ASSUME NEW q, NEW where, NEW pr \in [Threads -> Int], Placed(q, where, pr),
         NEW t \in Threads, where[t] = NoQueue, NEW p
  PROVE  Placed(q, where, [pr EXCEPT ![t] = p])
<1>1. NoQueue \notin RunQs
  BY RunQueueAssumption DEF RunQs
<1>2. \A rq \in RunQs, l \in Levels :
        Here(where, [pr EXCEPT ![t] = p], rq, l) = Here(where, pr, rq, l)
  BY <1>1 DEF Here
<1> QED
  BY <1>2 DEF Placed

LEMMA LeaveCounted ==
  ASSUME NEW n \in [RunQs -> Int], NEW where \in [Threads -> RunQs \cup {NoQueue}],
         Counted(n, where), NEW t \in Threads, where[t] # NoQueue
  PROVE  Counted([n EXCEPT ![where[t]] = @ - 1], [where EXCEPT ![t] = NoQueue])
<1> DEFINE w == [where EXCEPT ![t] = NoQueue]
<1> SUFFICES ASSUME NEW rq \in RunQs
             PROVE  [n EXCEPT ![where[t]] = @ - 1][rq]
                      = Cardinality({x \in Threads : w[x] = rq})
  BY DEF Counted
<1>1. n[rq] = Cardinality({x \in Threads : where[x] = rq})
  BY DEF Counted
<1>2. IsFiniteSet({x \in Threads : where[x] = rq})
  BY RunQueueAssumption, FS_Subset
<1>3. rq # NoQueue
  BY RunQueueAssumption DEF RunQs
<1>4. {x \in Threads : w[x] = rq} = {x \in Threads : where[x] = rq} \ {t}
  BY <1>3
<1>5. CASE rq = where[t]
  <2>1. t \in {x \in Threads : where[x] = rq}
    BY <1>5
  <2>2. Cardinality({x \in Threads : w[x] = rq}) = n[rq] - 1
    <3> DEFINE S == {x \in Threads : where[x] = rq}
    <3>1. IsFiniteSet(S) /\ t \in S /\ n[rq] = Cardinality(S)
          /\ {x \in Threads : w[x] = rq} = S \ {t}
      BY <1>1, <1>2, <1>4, <2>1
    <3> HIDE DEF S, w
    <3> QED
      BY <3>1, FS_RemoveElement
  <2> QED
    BY <1>5, <2>2
<1>6. CASE rq # where[t]
  <2>1. {x \in Threads : w[x] = rq} = {x \in Threads : where[x] = rq}
    BY <1>4, <1>6
  <2> QED
    BY <1>1, <1>6, <2>1
<1> QED
  BY <1>5, <1>6

LEMMA EnterCounted ==
  ASSUME NEW n \in [RunQs -> Int], NEW where \in [Threads -> RunQs \cup {NoQueue}],
         Counted(n, where), NEW t \in Threads, where[t] = NoQueue, NEW to \in RunQs
  PROVE  Counted([n EXCEPT ![to] = @ + 1], [where EXCEPT ![t] = to])
<1> DEFINE w == [where EXCEPT ![t] = to]
<1> SUFFICES ASSUME NEW rq \in RunQs
             PROVE  [n EXCEPT ![to] = @ + 1][rq]
                      = Cardinality({x \in Threads : w[x] = rq})
  BY DEF Counted
<1>1. n[rq] = Cardinality({x \in Threads : where[x] = rq})
  BY DEF Counted
<1>2. IsFiniteSet({x \in Threads : where[x] = rq})
  BY RunQueueAssumption, FS_Subset
<1>3. rq # NoQueue
  BY RunQueueAssumption DEF RunQs
<1>4. CASE rq = to
  <2>1. /\ {x \in Threads : w[x] = rq} = {x \in Threads : where[x] = rq} \cup {t}
        /\ t \notin {x \in Threads : where[x] = rq}
    BY <1>3, <1>4
  <2>2. Cardinality({x \in Threads : w[x] = rq}) = n[rq] + 1
    BY <1>1, <1>2, <2>1, FS_AddElement
  <2> QED
    BY <1>4, <2>2
<1>5. CASE rq # to
  <2>1. {x \in Threads : w[x] = rq} = {x \in Threads : where[x] = rq}
    BY <1>3, <1>5
  <2> QED
    BY <1>1, <1>5, <2>1
<1> QED
  BY <1>4, <1>5

LEMMA EnterHinted ==
  ASSUME NEW q \in Queues, NEW hint \in [RunQs -> 0 .. NRQS], Hinted(q, hint),
         NEW rq \in RunQs, NEW t, NEW p \in Int
  PROVE  LET h == [hint EXCEPT ![rq] = IF Level(p) < @ THEN Level(p) ELSE @]
         IN  /\ h \in [RunQs -> 0 .. NRQS]
             /\ Hinted([q EXCEPT ![rq][Level(p)] = Append(@, t)], h)
<1> DEFINE u == [q EXCEPT ![rq][Level(p)] = Append(@, t)]
           h == [hint EXCEPT ![rq] = IF Level(p) < @ THEN Level(p) ELSE @]
<1>1. Level(p) \in Levels /\ Levels \subseteq 0 .. NRQS /\ 0 .. NRQS \subseteq Int
  BY LevelIs, RunQueueAssumption DEF Levels
<1>2. \A r \in RunQs, l \in Levels :
        u[r][l] = IF r = rq /\ l = Level(p) THEN Append(q[r][l], t) ELSE q[r][l]
  BY <1>1 DEF Queues
<1>3. h \in [RunQs -> 0 .. NRQS]
  BY <1>1
<1>4. /\ h[rq] <= Level(p)
      /\ \A r \in RunQs : h[r] <= hint[r]
  <2>1. \A r \in RunQs : h[r] = IF r = rq /\ Level(p) < hint[r] THEN Level(p) ELSE hint[r]
    OBVIOUS
  <2>2. Level(p) \in Int /\ \A r \in RunQs : hint[r] \in Int
    BY <1>1
  <2> HIDE DEF h
  <2> QED
    BY <2>1, <2>2
<1>5. ASSUME NEW r \in RunQs, NEW l \in Levels, l < h[r] PROVE u[r][l] = <<>>
  <2>1. l < hint[r] /\ ~(r = rq /\ l = Level(p))
    BY <1>1, <1>3, <1>4, <1>5
  <2> QED
    BY <1>2, <2>1 DEF Hinted
<1> QED
  BY <1>3, <1>5 DEF Hinted

-----------------------------------------------------------------------------
(***************************************************************************)
(* What the scans of choose_thread find.                                   *)
(***************************************************************************)
(* a queue with count 0 is empty                                           *)
LEMMA CountedOut ==
  ASSUME Inv, NEW rq \in RunQs
  PROVE  /\ count[rq] \in Nat
         /\ count[rq] = 0 <=> \A t \in Threads : runq[t] # rq
         /\ count[rq] = 0 => \A l \in Levels : queue[rq][l] = <<>>
<1> DEFINE S == {t \in Threads : runq[t] = rq}
<1>1. IsFiniteSet(S)
  BY RunQueueAssumption, FS_Subset
<1>2. count[rq] = Cardinality(S)
  BY DEF Inv, Counted
<1>3. count[rq] \in Nat /\ (count[rq] = 0 <=> S = {})
  BY <1>1, <1>2, FS_CardinalityType, FS_EmptySet
<1>4. ASSUME S = {}, NEW l \in Levels PROVE queue[rq][l] = <<>>
  <2>1. queue[rq][l] \in Seq(Threads)
    BY DEF Inv, RQTypeOK
  <2>2. Range(queue[rq][l]) = {}
    BY <1>4 DEF Inv, Placed, Here
  <2> QED
    BY <2>1, <2>2, RangeEmpty
<1> QED
  BY <1>3, <1>4

(* the least busy level, where there is one, bounds the empty ones         *)
LEMMA Scan ==
  ASSUME Inv, NEW rq \in RunQs, NEW to \in 0 .. NRQS
  PROVE  LET B == Busy(rq, low[rq], to)
         IN  /\ B # {} => /\ Least(B) \in Levels /\ Least(B) < to
                          /\ queue[rq][Least(B)] # <<>>
                          /\ \A l \in Levels : l < Least(B) => queue[rq][l] = <<>>
             /\ B = {} => \A l \in Levels : l < to => queue[rq][l] = <<>>
<1> DEFINE B == Busy(rq, low[rq], to)
<1>1. low[rq] \in 0 .. NRQS /\ NRQS \in Nat
  BY RunQueueAssumption DEF Inv, RQTypeOK
<1>2. B \subseteq Levels /\ \A l \in B : l < to /\ queue[rq][l] # <<>>
  BY <1>1 DEF Busy, Levels
<1>3. \A l \in Levels : l < low[rq] => queue[rq][l] = <<>>
  BY DEF Inv, Hinted
<1>4. ASSUME NEW l \in Levels, l < to, l \notin B PROVE queue[rq][l] = <<>>
  <2>1. l < low[rq] \/ l \in low[rq] .. to - 1
    BY <1>1, <1>4 DEF Levels
  <2> QED
    BY <1>3, <1>4, <2>1 DEF Busy
<1> HIDE DEF B
<1>5. ASSUME B # {}
      PROVE  /\ Least(B) \in Levels /\ Least(B) < to /\ queue[rq][Least(B)] # <<>>
             /\ \A l \in Levels : l < Least(B) => queue[rq][l] = <<>>
  <2>1. Least(B) \in B /\ \A m \in B : Least(B) <= m
    BY <1>2, <1>5, LeastIs
  <2>2. Least(B) \in Levels /\ Least(B) < to /\ queue[rq][Least(B)] # <<>>
    BY <1>2, <2>1
  <2>3. ASSUME NEW l \in Levels, l < Least(B) PROVE l < to /\ l \notin B
    BY <1>1, <2>1, <2>2, <2>3 DEF Levels
  <2> QED
    BY <1>4, <2>2, <2>3
<1> QED
  BY <1>4, <1>5 DEF B

LEMMA GlobalScan ==
  ASSUME Inv
  PROVE  /\ GlobalTop \in 0 .. NRQS
         /\ GlobalTop < NRQS => GlobalTop \in Levels /\ queue[Global][GlobalTop] # <<>>
         /\ \A l \in Levels : l < GlobalTop => queue[Global][l] = <<>>
<1> DEFINE B == Busy(Global, low[Global], NRQS)
<1>1. Global \in RunQs /\ NRQS \in 0 .. NRQS /\ Levels \subseteq 0 .. NRQS
      /\ \A l \in Levels : l < NRQS
  BY RunQueueAssumption DEF RunQs, Levels
<1>2. /\ B # {} => /\ Least(B) \in Levels /\ queue[Global][Least(B)] # <<>>
                   /\ \A l \in Levels : l < Least(B) => queue[Global][l] = <<>>
      /\ B = {} => \A l \in Levels : l < NRQS => queue[Global][l] = <<>>
  BY <1>1, Scan
<1>3. CASE count[Global] > 0 /\ B # {}
  <2>1. GlobalTop = Least(B)
    BY <1>3 DEF GlobalTop
  <2> QED
    BY <1>1, <1>2, <1>3, <2>1
<1>4. CASE ~(count[Global] > 0 /\ B # {})
  <2>1. GlobalTop = NRQS
    BY <1>4 DEF GlobalTop
  <2>2. \A l \in Levels : queue[Global][l] = <<>>
    <3>1. CASE count[Global] > 0
      BY <1>1, <1>2, <1>4, <3>1
    <3>2. CASE ~(count[Global] > 0)
      <4>1. count[Global] = 0
        BY <1>1, <3>2, CountedOut
      <4> QED
        BY <1>1, <4>1, CountedOut
    <3> QED
      BY <3>1, <3>2
  <2>3. ~(NRQS < NRQS)
    BY RunQueueAssumption
  <2> QED
    BY <1>1, <2>1, <2>2, <2>3
<1> QED
  BY <1>3, <1>4

LEMMA LocalScan ==
  ASSUME Inv, NEW c \in CPUs
  PROVE  /\ LocalTop(c) \in 0 .. NRQS
         /\ PicksLocal(c) => /\ LocalTop(c) \in Levels /\ LocalTop(c) < GlobalTop
                             /\ queue[c][LocalTop(c)] # <<>>
         /\ ~PicksLocal(c) => \A l \in Levels : l < GlobalTop => queue[c][l] = <<>>
         /\ \A l \in Levels : l < LocalTop(c) => queue[c][l] = <<>>
<1> DEFINE B == Busy(c, low[c], GlobalTop)
<1>1. c \in RunQs /\ GlobalTop \in 0 .. NRQS /\ Levels \subseteq 0 .. NRQS
      /\ low[c] \in 0 .. NRQS
  BY GlobalScan, RunQueueAssumption DEF RunQs, Levels, Inv, RQTypeOK
<1>2. /\ B # {} => /\ Least(B) \in Levels /\ Least(B) < GlobalTop
                   /\ queue[c][Least(B)] # <<>>
                   /\ \A l \in Levels : l < Least(B) => queue[c][l] = <<>>
      /\ B = {} => \A l \in Levels : l < GlobalTop => queue[c][l] = <<>>
  BY <1>1, Scan
<1>3. CASE B # {}
  <2>1. LocalTop(c) = Least(B)
    BY <1>3 DEF LocalTop
  <2>2. ~PicksLocal(c) => \A l \in Levels : queue[c][l] = <<>>
    <3>1. count[c] \in Nat /\ (count[c] = 0 => \A l \in Levels : queue[c][l] = <<>>)
      BY <1>1, CountedOut
    <3> QED
      BY <1>3, <3>1 DEF PicksLocal
  <2> QED
    BY <1>1, <1>2, <1>3, <2>1, <2>2
<1>4. CASE B = {}
  <2>1. LocalTop(c) = IF low[c] < GlobalTop THEN GlobalTop ELSE low[c]
    BY <1>4 DEF LocalTop
  <2>2. ~PicksLocal(c)
    BY <1>4 DEF PicksLocal
  <2>3. \A l \in Levels : l < low[c] => queue[c][l] = <<>>
    BY <1>1 DEF Inv, Hinted
  <2> QED
    BY <1>1, <1>2, <1>4, <2>1, <2>2, <2>3
<1> QED
  BY <1>3, <1>4

(* choose_thread takes the head of a level that is not empty, unless both  *)
(* queues are empty                                                        *)
LEMMA ChosenIs ==
  ASSUME Inv, NEW c \in CPUs
  PROVE  /\ ChosenQ(c) # NoQueue =>
              /\ ChosenQ(c) \in {c, Global} /\ ChosenLevel(c) \in Levels
              /\ queue[ChosenQ(c)][ChosenLevel(c)] # <<>>
              /\ Chosen(c) = Head(queue[ChosenQ(c)][ChosenLevel(c)])
              /\ Chosen(c) \in Threads
              /\ runq[Chosen(c)] = ChosenQ(c)
              /\ Level(pri[Chosen(c)]) = ChosenLevel(c)
         /\ ChosenQ(c) = NoQueue => Chosen(c) = NoThread
         /\ Chosen(c) = NoThread <=> ~PicksLocal(c) /\ GlobalTop = NRQS
<1>1. c # NoQueue /\ Global # NoQueue /\ c \in RunQs /\ Global \in RunQs
  BY RunQueueAssumption DEF RunQs
<1>2. /\ PicksLocal(c) => ChosenQ(c) = c /\ ChosenLevel(c) = LocalTop(c)
      /\ ~PicksLocal(c) /\ GlobalTop < NRQS =>
           ChosenQ(c) = Global /\ ChosenLevel(c) = GlobalTop
      /\ ~PicksLocal(c) /\ ~(GlobalTop < NRQS) => ChosenQ(c) = NoQueue
  BY DEF ChosenQ, ChosenLevel
<1>3. ChosenQ(c) # NoQueue =>
        /\ ChosenQ(c) \in {c, Global} /\ ChosenLevel(c) \in Levels
        /\ queue[ChosenQ(c)][ChosenLevel(c)] # <<>>
  BY <1>2, GlobalScan, LocalScan
<1>4. ASSUME ChosenQ(c) # NoQueue
      PROVE  /\ Chosen(c) = Head(queue[ChosenQ(c)][ChosenLevel(c)])
             /\ Chosen(c) \in Threads /\ runq[Chosen(c)] = ChosenQ(c)
             /\ Level(pri[Chosen(c)]) = ChosenLevel(c)
  <2> DEFINE s == queue[ChosenQ(c)][ChosenLevel(c)]
  <2>1. s \in Seq(Threads) /\ IsInjective(s) /\ s # <<>>
        /\ Range(s) = Here(runq, pri, ChosenQ(c), ChosenLevel(c))
    BY <1>1, <1>3, <1>4 DEF Inv, RQTypeOK, Placed
  <2>2. Head(s) \in Range(s)
    BY <2>1, RangeTail
  <2>3. Chosen(c) = Head(s)
    BY <1>4 DEF Chosen
  <2> QED
    BY <2>1, <2>2, <2>3 DEF Here
<1>5. ChosenQ(c) = NoQueue => Chosen(c) = NoThread
  BY DEF Chosen
<1>6. GlobalTop < NRQS \/ GlobalTop = NRQS
  BY GlobalScan, RunQueueAssumption
<1>7. NoThread \notin Threads /\ ~(NRQS < NRQS)
  BY RunQueueAssumption
<1> QED
  BY <1>1, <1>2, <1>3, <1>4, <1>5, <1>6, <1>7

(* choose_thread finds a thread when one waits, and none that is better     *)
LEMMA SomeoneChosen ==
  ASSUME Inv, NEW c \in CPUs, NEW t \in Threads, runq[t] \in {c, Global}
  PROVE  /\ Chosen(c) # NoThread
         /\ Level(pri[Chosen(c)]) <= Level(pri[t])
<1> DEFINE l == Level(pri[t])
<1>0. /\ GlobalTop \in 0 .. NRQS /\ LocalTop(c) \in 0 .. NRQS /\ pri[t] \in Int
  BY GlobalScan, LocalScan DEF Inv, RQTypeOK
<1>a. l \in Levels
  BY <1>0, LevelIs
<1>1. /\ c \in RunQs /\ Global \in RunQs /\ l \in Levels /\ Levels \subseteq Int
      /\ l < NRQS /\ GlobalTop \in 0 .. NRQS /\ LocalTop(c) \in 0 .. NRQS
      /\ 0 .. NRQS \subseteq Int
  <2> HIDE DEF l
  <2> QED
    BY <1>0, <1>a, RunQueueAssumption DEF RunQs, Levels
<1>2. queue[runq[t]][l] # <<>>
  <2>1. queue[runq[t]][l] \in Seq(Threads)
        /\ Range(queue[runq[t]][l]) = Here(runq, pri, runq[t], l)
    BY <1>1 DEF Inv, RQTypeOK, Placed
  <2>2. t \in Range(queue[runq[t]][l])
    BY <2>1 DEF Here
  <2> QED
    BY <2>1, <2>2, RangeEmpty
<1> HIDE DEF l
<1>3. runq[t] = Global => GlobalTop <= l
  BY <1>1, <1>2, GlobalScan
<1>4. runq[t] = c => IF PicksLocal(c) THEN LocalTop(c) <= l ELSE GlobalTop <= l
  BY <1>1, <1>2, LocalScan
<1>5. PicksLocal(c) => LocalTop(c) < GlobalTop
  BY LocalScan
<1>6. IF PicksLocal(c) THEN LocalTop(c) <= l ELSE GlobalTop <= l
  BY <1>1, <1>3, <1>4, <1>5
<1>7. ChosenLevel(c) <= l
  BY <1>6 DEF ChosenLevel
<1>8. ~(~PicksLocal(c) /\ GlobalTop = NRQS)
  BY <1>1, <1>6
<1>9. Chosen(c) # NoThread
  BY <1>8, ChosenIs
<1> QED
  BY <1>7, <1>9, ChosenIs DEF l
-----------------------------------------------------------------------------
(***************************************************************************)
(* Each operation keeps Inv.                                               *)
(***************************************************************************)
LEMMA SetRunqKeeps ==
  ASSUME Inv, NEW t \in Threads, NEW rq \in RunQs, NEW p \in Int, SetRunq(t, rq, p)
  PROVE  Inv'
<1>1. /\ queue \in Queues /\ low \in [RunQs -> 0 .. NRQS] /\ count \in [RunQs -> Int]
      /\ runq \in [Threads -> RunQs \cup {NoQueue}] /\ pri \in [Threads -> Int]
      /\ Placed(queue, runq, pri) /\ Counted(count, runq) /\ Hinted(queue, low)
      /\ runq[t] = NoQueue
  BY DEF Inv, RQTypeOK, Queues, SetRunq, PanicSetRunq
<1>2. /\ queue' = [queue EXCEPT ![rq][Level(p)] = Append(@, t)]
      /\ low' = [low EXCEPT ![rq] = IF Level(p) < @ THEN Level(p) ELSE @]
      /\ count' = [count EXCEPT ![rq] = @ + 1]
      /\ runq' = [runq EXCEPT ![t] = rq] /\ pri' = [pri EXCEPT ![t] = p]
  BY DEF SetRunq
<1>3. queue' \in Queues /\ Placed(queue', runq', pri')
  BY <1>1, <1>2, EnterPlaced
<1>4. Counted(count', runq')
  BY <1>1, <1>2, EnterCounted
<1>5. low' \in [RunQs -> 0 .. NRQS] /\ Hinted(queue', low')
  BY <1>1, <1>2, EnterHinted
<1>6. RQTypeOK'
  BY <1>1, <1>2, <1>3, <1>5 DEF RQTypeOK, Queues
<1> QED
  BY <1>3, <1>4, <1>5, <1>6 DEF Inv

(* what rem_runq, and set_pri and schedcpu first, leave behind             *)
LEMMA LeaveKeeps ==
  ASSUME Inv, NEW t \in Threads, runq[t] # NoQueue, NEW u, NEW n, NEW w,
         u = [queue EXCEPT ![runq[t]] = Unlinked(t, runq[t])],
         n = [count EXCEPT ![runq[t]] = @ - 1],
         w = [runq EXCEPT ![t] = NoQueue]
  PROVE  /\ u \in Queues /\ Placed(u, w, pri) /\ Hinted(u, low)
         /\ n \in [RunQs -> Int] /\ Counted(n, w)
         /\ w \in [Threads -> RunQs \cup {NoQueue}]
<1>1. /\ queue \in Queues /\ low \in [RunQs -> Int] /\ count \in [RunQs -> Int]
      /\ runq \in [Threads -> RunQs \cup {NoQueue}] /\ runq[t] \in RunQs
      /\ Placed(queue, runq, pri) /\ Counted(count, runq) /\ Hinted(queue, low)
  BY RunQueueAssumption DEF Inv, RQTypeOK, Queues
<1> DEFINE f == Unlinked(t, runq[t])
<1>2. /\ f \in [Levels -> Seq(Threads)] /\ u = [queue EXCEPT ![runq[t]] = f]
      /\ \A l \in Levels : f[l] = Without(queue[runq[t]][l], t)
  <2>1. ASSUME NEW l \in Levels PROVE Without(queue[runq[t]][l], t) \in Seq(Threads)
    BY <1>1, RangeWithout DEF Queues, Placed
  <2> QED
    BY <2>1 DEF Unlinked
<1> HIDE DEF f
<1>3. /\ [queue EXCEPT ![runq[t]] = f] \in Queues
      /\ Placed([queue EXCEPT ![runq[t]] = f], [runq EXCEPT ![t] = NoQueue], pri)
  BY <1>1, <1>2, LeavePlaced
<1>4. Hinted([queue EXCEPT ![runq[t]] = f], low)
  <2>1. \A rq \in RunQs, l \in Levels :
          [queue EXCEPT ![runq[t]] = f][rq][l] =
            IF rq = runq[t] THEN Without(queue[rq][l], t) ELSE queue[rq][l]
    BY <1>1, <1>2 DEF Queues
  <2>2. Without(<<>>, t) = <<>>
    BY EmptySeq DEF Without
  <2> QED
    BY <1>1, <2>1, <2>2 DEF Hinted
<1>5. u \in Queues /\ Placed(u, w, pri) /\ Hinted(u, low)
  BY <1>2, <1>3, <1>4
<1>6. Counted(n, w)
  BY <1>1, LeaveCounted
<1>7. n \in [RunQs -> Int] /\ w \in [Threads -> RunQs \cup {NoQueue}]
  BY <1>1
<1> QED
  BY <1>5, <1>6, <1>7

LEMMA RemRunqKeeps ==
  ASSUME Inv, NEW t \in Threads, RemRunq(t)
  PROVE  Inv'
<1>1. /\ queue' \in Queues /\ Placed(queue', runq', pri) /\ Hinted(queue', low)
      /\ count' \in [RunQs -> Int] /\ Counted(count', runq')
      /\ runq' \in [Threads -> RunQs \cup {NoQueue}]
  BY LeaveKeeps DEF RemRunq
<1>2. low' = low /\ pri' = pri
  BY DEF RemRunq
<1> QED
  BY <1>1, <1>2 DEF Inv, RQTypeOK, Queues

LEMMA SetPriKeeps ==
  ASSUME Inv, NEW t \in Threads, NEW p \in Int, SetPri(t, p)
  PROVE  Inv'
<1>1. pri' = [pri EXCEPT ![t] = p] /\ low' = low /\ pri \in [Threads -> Int]
  BY DEF SetPri, Inv, RQTypeOK
<1>2. /\ queue' \in Queues /\ Placed(queue', runq', pri) /\ Hinted(queue', low)
      /\ count' \in [RunQs -> Int] /\ Counted(count', runq')
      /\ runq' \in [Threads -> RunQs \cup {NoQueue}] /\ runq'[t] = NoQueue
  <2>1. CASE runq[t] = NoQueue
    BY <2>1 DEF SetPri, Inv, RQTypeOK, Queues
  <2>2. CASE runq[t] # NoQueue
    <3>1. /\ queue' = [queue EXCEPT ![runq[t]] = Unlinked(t, runq[t])]
          /\ count' = [count EXCEPT ![runq[t]] = @ - 1]
          /\ runq' = [runq EXCEPT ![t] = NoQueue]
      BY <2>2 DEF SetPri
    <3>2. runq'[t] = NoQueue
      BY <3>1 DEF Inv, RQTypeOK
    <3> QED
      BY <2>2, <3>1, <3>2, LeaveKeeps
  <2> QED
    BY <2>1, <2>2
<1>3. Placed(queue', runq', pri')
  BY <1>1, <1>2, RepriPlaced
<1>4. pri' \in [Threads -> Int]
  BY <1>1
<1> QED
  BY <1>1, <1>2, <1>3, <1>4 DEF Inv, RQTypeOK, Queues

LEMMA RequeueKeeps ==
  ASSUME Inv, NEW t \in Threads, NEW rq \in RunQs, NEW p \in Int, Requeue(t, rq, p)
  PROVE  Inv'
<1> DEFINE u == [queue EXCEPT ![runq[t]] = Unlinked(t, runq[t])]
           n == [count EXCEPT ![runq[t]] = @ - 1]
           w == [runq EXCEPT ![t] = NoQueue]
<1>1. /\ runq[t] # NoQueue /\ pri \in [Threads -> Int] /\ low \in [RunQs -> 0 .. NRQS]
      /\ runq \in [Threads -> RunQs \cup {NoQueue}]
  BY DEF Requeue, Inv, RQTypeOK
<1>2. /\ u \in Queues /\ Placed(u, w, pri) /\ Hinted(u, low)
      /\ n \in [RunQs -> Int] /\ Counted(n, w)
      /\ w \in [Threads -> RunQs \cup {NoQueue}]
  BY <1>1, LeaveKeeps
<1>3. /\ queue' = [u EXCEPT ![rq][Level(p)] = Append(@, t)]
      /\ count' = [n EXCEPT ![rq] = @ + 1]
      /\ low' = [low EXCEPT ![rq] = IF Level(p) < @ THEN Level(p) ELSE @]
      /\ pri' = [pri EXCEPT ![t] = p]
  BY DEF Requeue
<1>4. runq' = [w EXCEPT ![t] = rq] /\ w[t] = NoQueue
  BY <1>1 DEF Requeue
<1> HIDE DEF u, n, w
<1>5. queue' \in Queues /\ Placed(queue', runq', pri')
  BY <1>1, <1>2, <1>3, <1>4, EnterPlaced
<1>6. Counted(count', runq')
  BY <1>2, <1>3, <1>4, EnterCounted
<1>7. low' \in [RunQs -> 0 .. NRQS] /\ Hinted(queue', low')
  BY <1>1, <1>2, <1>3, EnterHinted
<1>8. RQTypeOK'
  BY <1>1, <1>2, <1>3, <1>4, <1>5, <1>7 DEF RQTypeOK, Queues
<1> QED
  BY <1>5, <1>6, <1>7, <1>8 DEF Inv

(* choose_thread trims the hints to levels that nobody is below, and takes *)
(* the head of the level it chose                                          *)
LEMMA ChooseKeeps ==
  ASSUME Inv, NEW c \in CPUs, ChooseThread(c)
  PROVE  Inv'
<1>0. c \in RunQs /\ Global \in RunQs /\ c # Global
  BY RunQueueAssumption DEF RunQs
<1>1. /\ queue \in Queues /\ low \in [RunQs -> 0 .. NRQS] /\ count \in [RunQs -> Int]
      /\ runq \in [Threads -> RunQs \cup {NoQueue}] /\ pri \in [Threads -> Int]
      /\ Placed(queue, runq, pri) /\ Counted(count, runq) /\ Hinted(queue, low)
  BY DEF Inv, RQTypeOK, Queues
<1>2. /\ low' \in [RunQs -> 0 .. NRQS]
      /\ low'[Global] = GlobalTop
      /\ low'[c] = IF count[c] > 0 THEN LocalTop(c) ELSE NRQS
      /\ \A r \in RunQs \ {c, Global} : low'[r] = low[r]
  <2>1. GlobalTop \in 0 .. NRQS /\ LocalTop(c) \in 0 .. NRQS /\ NRQS \in 0 .. NRQS
    BY GlobalScan, LocalScan, RunQueueAssumption
  <2>2. low' = [low EXCEPT ![Global] = GlobalTop,
                           ![c] = IF count[c] > 0 THEN LocalTop(c) ELSE NRQS]
    BY DEF ChooseThread, NewHints
  <2> QED
    BY <1>0, <1>1, <2>1, <2>2
<1>3. pri' = pri
  BY DEF ChooseThread
<1>4. Hinted(queue, low')
  <2> SUFFICES ASSUME NEW r \in RunQs, NEW l \in Levels, l < low'[r]
               PROVE  queue[r][l] = <<>>
    BY DEF Hinted
  <2>1. CASE r = Global
    BY <1>2, <2>1, GlobalScan
  <2>2. CASE r = c
    <3>1. CASE count[c] > 0
      BY <1>2, <2>2, <3>1, LocalScan
    <3>2. CASE ~(count[c] > 0)
      BY <1>0, <2>2, <3>2, CountedOut
    <3> QED
      BY <3>1, <3>2
  <2>3. CASE r \notin {c, Global}
    BY <1>1, <1>2, <2>3 DEF Hinted
  <2> QED
    BY <2>1, <2>2, <2>3
<1>5. CASE Chosen(c) = NoThread
  <2>1. queue' = queue /\ count' = count /\ runq' = runq
    BY <1>5 DEF ChooseThread
  <2> QED
    BY <1>1, <1>2, <1>3, <1>4, <2>1 DEF Inv, RQTypeOK, Queues
<1>6. CASE Chosen(c) # NoThread
  <2> DEFINE rq == ChosenQ(c)
             lv == ChosenLevel(c)
             t  == Chosen(c)
             s  == queue[rq][lv]
  <2>1. /\ rq \in RunQs /\ lv \in Levels /\ s # <<>> /\ t = Head(s) /\ t \in Threads
        /\ runq[t] = rq /\ Level(pri[t]) = lv /\ rq # NoQueue
    BY <1>0, <1>6, ChosenIs, RunQueueAssumption DEF RunQs
  <2>2. /\ queue' = [queue EXCEPT ![rq][lv] = Tail(@)]
        /\ count' = [count EXCEPT ![rq] = @ - 1]
        /\ runq' = [runq EXCEPT ![t] = NoQueue]
    BY <1>6 DEF ChooseThread, Take
  <2> HIDE DEF rq, lv, t
  <2>3. /\ Tail(s) \in Seq(Threads) /\ IsInjective(Tail(s)) /\ Range(Tail(s)) = Range(s) \ {t}
    <3>1. s \in Seq(Threads) /\ IsInjective(s)
      BY <1>1, <2>1 DEF Queues, Placed
    <3> QED
      BY <2>1, <3>1, RangeTail
  <2>4. queue' \in Queues
    BY <1>1, <2>1, <2>2, <2>3 DEF Queues
  <2>5. \A r \in RunQs, l \in Levels :
          queue'[r][l] = IF r = rq /\ l = lv THEN Tail(s) ELSE queue[r][l]
    BY <1>1, <2>1, <2>2 DEF Queues
  <2>6. Counted(count', runq')
    BY <1>1, <2>1, <2>2, LeaveCounted
  <2>7. \A r \in RunQs, l \in Levels :
          Here(runq', pri, r, l) = Here(runq, pri, r, l) \ {t}
    BY <1>1, <2>1, <2>2, RunQueueAssumption DEF Here, RunQs
  <2>8. Placed(queue', runq', pri')
    <3> SUFFICES ASSUME NEW r \in RunQs, NEW l \in Levels
                 PROVE  /\ IsInjective(queue'[r][l])
                        /\ Range(queue'[r][l]) = Here(runq', pri, r, l)
      BY <1>3 DEF Placed
    <3>1. IsInjective(queue[r][l]) /\ Range(queue[r][l]) = Here(runq, pri, r, l)
      BY <1>1 DEF Placed
    <3>2. CASE r = rq /\ l = lv
      <4>1. queue'[r][l] = Tail(s) /\ s = queue[r][l]
        BY <2>5, <3>2
      <4> QED
        BY <2>3, <2>7, <3>1, <4>1
    <3>3. CASE ~(r = rq /\ l = lv)
      <4>1. queue'[r][l] = queue[r][l]
        BY <2>5, <3>3
      <4>2. t \notin Here(runq, pri, r, l)
        BY <2>1, <3>3 DEF Here
      <4> QED
        BY <2>7, <3>1, <4>1, <4>2
    <3> QED
      BY <3>2, <3>3
  <2>9. Hinted(queue', low')
    <3> SUFFICES ASSUME NEW r \in RunQs, NEW l \in Levels, l < low'[r]
                 PROVE  queue'[r][l] = <<>>
      BY DEF Hinted
    <3>1. queue[r][l] = <<>>
      BY <1>4 DEF Hinted
    <3>2. ~(r = rq /\ l = lv)
      BY <2>1, <3>1
    <3> QED
      BY <2>5, <3>1, <3>2
  <2>10. count' \in [RunQs -> Int] /\ runq' \in [Threads -> RunQs \cup {NoQueue}]
    BY <1>1, <2>1, <2>2
  <2>11. RQTypeOK'
    BY <1>1, <1>2, <1>3, <2>4, <2>10 DEF RQTypeOK, Queues
  <2> QED
    BY <2>6, <2>8, <2>9, <2>11 DEF Inv
<1> QED
  BY <1>5, <1>6

-----------------------------------------------------------------------------
LEMMA InitInv == RQInit => Inv
<1> SUFFICES ASSUME RQInit PROVE Inv
  OBVIOUS
<1>1. NoQueue \notin RunQs /\ 0 \in 0 .. NRQS
  BY RunQueueAssumption DEF RunQs
<1>2. RQTypeOK
  BY <1>1, EmptySeq DEF RQInit, RQTypeOK
<1>3. Placed(queue, runq, pri)
  <2>1. \A rq \in RunQs, l \in Levels : queue[rq][l] = <<>>
    BY DEF RQInit
  <2>2. IsInjective(<<>>) /\ Range(<<>>) = {}
    <3>1. <<>> \in Seq(Threads) /\ DOMAIN <<>> = {}
      BY EmptySeq
    <3> QED
      BY <3>1, RangeEmpty DEF IsInjective
  <2>3. \A rq \in RunQs, l \in Levels : Here(runq, pri, rq, l) = {}
    BY <1>1 DEF RQInit, Here
  <2> QED
    BY <2>1, <2>2, <2>3 DEF Placed
<1>4. Counted(count, runq)
  <2>1. \A rq \in RunQs : {t \in Threads : runq[t] = rq} = {} /\ count[rq] = 0
    BY <1>1 DEF RQInit
  <2> QED
    BY <2>1, FS_EmptySet DEF Counted
<1>5. Hinted(queue, low)
  BY DEF RQInit, Hinted
<1> QED
  BY <1>2, <1>3, <1>4, <1>5 DEF Inv

LEMMA StepInv == Inv /\ [RQNext]_rqvars => Inv'
<1> SUFFICES ASSUME Inv, [RQNext]_rqvars PROVE Inv'
  OBVIOUS
<1>1. Priorities \subseteq Int
  BY RunQueueAssumption
<1>2. ASSUME NEW t \in Threads, NEW rq \in RunQs, NEW p \in Priorities, SetRunq(t, rq, p)
      PROVE  Inv'
  BY <1>1, <1>2, SetRunqKeeps
<1>3. ASSUME NEW t \in Threads, NEW rq \in RunQs, NEW p \in Priorities, Requeue(t, rq, p)
      PROVE  Inv'
  BY <1>1, <1>3, RequeueKeeps
<1>4. ASSUME NEW t \in Threads, NEW p \in Priorities, SetPri(t, p) PROVE Inv'
  BY <1>1, <1>4, SetPriKeeps
<1>5. ASSUME NEW t \in Threads, RemRunq(t) PROVE Inv'
  BY <1>5, RemRunqKeeps
<1>6. ASSUME NEW c \in CPUs, ChooseThread(c) PROVE Inv'
  BY <1>6, ChooseKeeps
<1>7. CASE UNCHANGED rqvars
  BY <1>7 DEF Inv, RQTypeOK, Placed, Counted, Hinted, rqvars
<1> QED
  BY <1>2, <1>3, <1>4, <1>5, <1>6, <1>7 DEF RQNext

(***************************************************************************)
(* Every reachable state of the run queues satisfies the inductive         *)
(* invariant: levels, counts and hints agree with what the threads say.    *)
(***************************************************************************)
THEOREM Invariance == RQSpec => []Inv
BY InitInv, StepInv, PTL DEF RQSpec

(***************************************************************************)
(* Every reachable state of the run queues is well typed; the hints stay   *)
(* between 0 and NRQS.                                                     *)
(***************************************************************************)
THEOREM QueuesTyped == RQSpec => []RQTypeOK
<1>1. Inv => RQTypeOK
  BY DEF Inv
<1> QED
  BY Invariance, <1>1, PTL

(***************************************************************************)
(* th->runq says where a thread is: rem_runq and the firewall of set_runq  *)
(* can rely on it.                                                         *)
(***************************************************************************)
THEOREM ThreadsWhereTheySay == RQSpec => []WhereItSays
<1>1. ASSUME Inv PROVE WhereItSays
  <2>1. ASSUME NEW rq \in RunQs, NEW l \in Levels, NEW i \in DOMAIN queue[rq][l]
        PROVE  runq[queue[rq][l][i]] = rq /\ Level(pri[queue[rq][l][i]]) = l
    <3>1. queue[rq][l][i] \in Range(queue[rq][l])
      BY DEF Range
    <3>2. Range(queue[rq][l]) = Here(runq, pri, rq, l)
      BY <1>1 DEF Inv, Placed
    <3> QED
      BY <3>1, <3>2 DEF Here
  <2>2. \A rq \in RunQs, l \in Levels : IsInjective(queue[rq][l])
    BY <1>1 DEF Inv, Placed
  <2>3. ASSUME NEW t \in Threads, runq[t] # NoQueue
        PROVE  \E i \in DOMAIN queue[runq[t]][Level(pri[t])] :
                 queue[runq[t]][Level(pri[t])][i] = t
    <3>1. runq[t] \in RunQs /\ Level(pri[t]) \in Levels
      BY <1>1, <2>3, LevelIs DEF Inv, RQTypeOK
    <3>2. Range(queue[runq[t]][Level(pri[t])]) = Here(runq, pri, runq[t], Level(pri[t]))
      BY <1>1, <3>1 DEF Inv, Placed
    <3>3. t \in Range(queue[runq[t]][Level(pri[t])])
      BY <3>2 DEF Here
    <3> QED
      BY <3>3 DEF Range
  <2> QED
    BY <2>1, <2>2, <2>3 DEF WhereItSays
<1> QED
  BY Invariance, <1>1, PTL

(***************************************************************************)
(* No thread is hidden above the hint at which choose_thread starts.       *)
(***************************************************************************)
THEOREM HintsHideNobody == RQSpec => []HintBelow
<1>1. Inv => HintBelow
  BY DEF Inv, Hinted, HintBelow
<1> QED
  BY Invariance, <1>1, PTL

(***************************************************************************)
(* The counts that choose_thread and idle_thread go by are exact.          *)
(***************************************************************************)
THEOREM CountsExact == RQSpec => []CountExact
<1>1. Inv => CountExact
  BY DEF Inv, Counted, CountExact
<1> QED
  BY Invariance, <1>1, PTL

(***************************************************************************)
(* choose_thread finds a thread whenever its two queues have one, and one  *)
(* of the best priority level on both.                                     *)
(***************************************************************************)
THEOREM BestIsChosen == RQSpec => []BestChosen
<1>1. ASSUME Inv, NEW c \in CPUs, NEW t \in Threads, runq[t] \in {c, Global}
      PROVE  /\ Chosen(c) # NoThread
             /\ Level(pri[Chosen(c)]) <= Level(pri[t])
  BY <1>1, SomeoneChosen
<1>2. ASSUME Inv, NEW c \in CPUs, Chosen(c) = NoThread
      PROVE  count[c] = 0 /\ count[Global] = 0
  <2>1. \A t \in Threads : runq[t] # c /\ runq[t] # Global
    BY <1>1, <1>2
  <2>2. c \in RunQs /\ Global \in RunQs
    BY DEF RunQs
  <2> QED
    BY <1>2, <2>1, <2>2, CountedOut
<1>3. Inv => BestChosen
  BY <1>1, <1>2 DEF BestChosen
<1> QED
  BY Invariance, <1>3, PTL
=============================================================================
