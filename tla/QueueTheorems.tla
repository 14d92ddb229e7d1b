--------------------------- MODULE QueueTheorems ---------------------------
(***************************************************************************)
(* Queues as sets: what Append, Tail and concatenation do to the elements  *)
(* of a sequence (Range) and to there being no element twice (IsInjective).*)
(* And that there is a least integer in a finite set, with which what a    *)
(* recursive function computes is shown by its least counterexample, as it *)
(* is for Those.                                                           *)
(***************************************************************************)
EXTENDS Queues, FiniteSets, Functions,
        FiniteSetTheorems, SequenceTheorems, TLAPS

(* An empty queue is one without elements.                                 *)
LEMMA RangeEmpty ==
  ASSUME NEW S, NEW s \in Seq(S)
  PROVE  Range(s) = {} <=> s = <<>>
<1>1. DOMAIN s = 1 .. Len(s) /\ Len(s) \in Nat
  BY LenProperties
<1>2. s # <<>> => Len(s) \in Nat \ {0}
  BY EmptySeq
<1>3. s = <<>> => Range(s) = {}
  BY <1>1, EmptySeq DEF Range
<1>4. s # <<>> => s[1] \in Range(s)
  BY <1>1, <1>2 DEF Range
<1> QED
  BY <1>3, <1>4

(* Insertion at the tail.                                                  *)
LEMMA RangeAppend ==
  ASSUME NEW S, NEW s \in Seq(S), NEW t \in S
  PROVE  /\ Append(s, t) \in Seq(S)
         /\ Range(Append(s, t)) = Range(s) \cup {t}
         /\ IsInjective(s) /\ t \notin Range(s) => IsInjective(Append(s, t))
<1> DEFINE a == Append(s, t)
<1>1. /\ a \in Seq(S) /\ Len(a) = Len(s) + 1
      /\ \A i \in 1 .. Len(s) : a[i] = s[i]
      /\ a[Len(s) + 1] = t
  BY AppendProperties
<1>2. /\ Len(s) \in Nat /\ DOMAIN s = 1 .. Len(s) /\ DOMAIN a = 1 .. Len(s) + 1
  BY <1>1, LenProperties
<1> HIDE DEF a
<1>3. Range(a) = Range(s) \cup {t}
  <2>1. \A i \in DOMAIN a : a[i] \in Range(s) \cup {t}
    BY <1>1, <1>2 DEF Range
  <2>2. \A i \in DOMAIN s : i \in DOMAIN a /\ s[i] = a[i]
    BY <1>1, <1>2
  <2>3. t \in Range(a)
    BY <1>1, <1>2 DEF Range
  <2> QED
    BY <2>1, <2>2, <2>3 DEF Range
<1>4. ASSUME IsInjective(s), t \notin Range(s) PROVE IsInjective(a)
  <2> SUFFICES ASSUME NEW i \in 1 .. Len(s) + 1, NEW j \in 1 .. Len(s) + 1, a[i] = a[j]
               PROVE  i = j
    BY <1>2 DEF IsInjective
  <2>1. \A k \in 1 .. Len(s) : a[k] = s[k] /\ s[k] # t
    BY <1>1, <1>2, <1>4 DEF Range
  <2>2. \A k, m \in 1 .. Len(s) : s[k] = s[m] => k = m
    BY <1>2, <1>4 DEF IsInjective
  <2>3. CASE i \in 1 .. Len(s) /\ j \in 1 .. Len(s)
    BY <2>1, <2>2, <2>3
  <2>4. CASE ~(i \in 1 .. Len(s) /\ j \in 1 .. Len(s))
    BY <1>1, <1>2, <2>1, <2>4
  <2> QED
    BY <2>3, <2>4
<1> QED
  BY <1>1, <1>3, <1>4 DEF a

(* Removal of the head.                                                    *)
LEMMA RangeTail ==
  ASSUME NEW S, NEW s \in Seq(S), s # <<>>, IsInjective(s)
  PROVE  /\ Head(s) \in Range(s) /\ Tail(s) \in Seq(S)
         /\ Range(Tail(s)) = Range(s) \ {Head(s)}
         /\ IsInjective(Tail(s))
<1>1. /\ Len(s) \in Nat /\ DOMAIN s = 1 .. Len(s) /\ Len(s) # 0
  BY LenProperties, EmptySeq
<1>2. Head(s) = s[1]
  OBVIOUS
<1>3. /\ Tail(s) \in Seq(S) /\ Len(Tail(s)) = Len(s) - 1
      /\ \A i \in 1 .. Len(s) - 1 : Tail(s)[i] = s[i + 1]
  BY HeadTailProperties
<1>4. DOMAIN Tail(s) = 1 .. Len(s) - 1
  BY <1>3, LenProperties
<1>5. \A i, j \in 1 .. Len(s) : s[i] = s[j] => i = j
  BY <1>1 DEF IsInjective
<1> DEFINE r == Tail(s)
<1> HIDE DEF r
<1>6. Range(r) = Range(s) \ {s[1]}
  <2>1. ASSUME NEW i \in DOMAIN r PROVE r[i] \in Range(s) /\ r[i] # s[1]
    BY <1>1, <1>3, <1>4, <1>5 DEF Range, r
  <2>2. ASSUME NEW i \in DOMAIN s, s[i] # s[1] PROVE s[i] \in Range(r)
    <3>1. i - 1 \in DOMAIN r /\ r[i - 1] = s[i]
      BY <1>1, <1>3, <1>4, <2>2 DEF r
    <3> QED
      BY <3>1 DEF Range
  <2> QED
    BY <2>1, <2>2 DEF Range
<1>7. IsInjective(r)
  BY <1>1, <1>3, <1>4, <1>5 DEF IsInjective, r
<1>8. Head(s) \in Range(s)
  BY <1>1, <1>2 DEF Range
<1> QED
  BY <1>2, <1>3, <1>6, <1>7, <1>8 DEF r

(* Two queues that have nothing in common, one after the other.            *)
LEMMA RangeConcat ==
  ASSUME NEW S, NEW s \in Seq(S), NEW t \in Seq(S)
  PROVE  /\ s \o t \in Seq(S)
         /\ Range(s \o t) = Range(s) \cup Range(t)
         /\ IsInjective(s) /\ IsInjective(t) /\ Range(s) \cap Range(t) = {} =>
              IsInjective(s \o t)
<1> DEFINE c == s \o t
<1>1. /\ c \in Seq(S) /\ Len(c) = Len(s) + Len(t)
      /\ \A i \in 1 .. Len(s) + Len(t) : c[i] = IF i <= Len(s) THEN s[i] ELSE t[i - Len(s)]
  BY ConcatProperties
<1>2. /\ Len(s) \in Nat /\ Len(t) \in Nat /\ DOMAIN s = 1 .. Len(s)
      /\ DOMAIN t = 1 .. Len(t) /\ DOMAIN c = 1 .. Len(s) + Len(t)
  BY <1>1, LenProperties
<1> HIDE DEF c
<1>3. ASSUME NEW i \in DOMAIN c
      PROVE  c[i] \in (IF i <= Len(s) THEN Range(s) ELSE Range(t))
  <2>1. CASE i <= Len(s)
    BY <1>1, <1>2, <2>1 DEF Range
  <2>2. CASE ~(i <= Len(s))
    <3>1. i - Len(s) \in DOMAIN t /\ c[i] = t[i - Len(s)]
      BY <1>1, <1>2, <2>2
    <3> QED
      BY <2>2, <3>1 DEF Range
  <2> QED
    BY <2>1, <2>2
<1>4. Range(c) = Range(s) \cup Range(t)
  <2>1. ASSUME NEW i \in DOMAIN c PROVE c[i] \in Range(s) \cup Range(t)
    BY <1>3
  <2>2. ASSUME NEW i \in DOMAIN s PROVE s[i] \in Range(c)
    BY <1>1, <1>2 DEF Range
  <2>3. ASSUME NEW i \in DOMAIN t PROVE t[i] \in Range(c)
    <3>1. i + Len(s) \in DOMAIN c /\ c[i + Len(s)] = t[i]
      BY <1>1, <1>2
    <3> QED
      BY <3>1 DEF Range
  <2> QED
    BY <2>1, <2>2, <2>3 DEF Range
<1>5. ASSUME IsInjective(s), IsInjective(t), Range(s) \cap Range(t) = {},
             NEW i \in DOMAIN c, NEW j \in DOMAIN c, c[i] = c[j]
      PROVE  i = j
  <2>1. i <= Len(s) <=> j <= Len(s)
    BY <1>3, <1>5
  <2>3. CASE i <= Len(s) /\ j <= Len(s)
    BY <1>1, <1>2, <1>5, <2>3 DEF IsInjective
  <2>4. CASE i > Len(s) /\ j > Len(s)
    <3>1. i - Len(s) \in DOMAIN t /\ j - Len(s) \in DOMAIN t
      BY <1>2, <2>4
    <3>2. i - Len(s) = j - Len(s)
      BY <1>1, <1>2, <1>5, <2>4, <3>1 DEF IsInjective
    <3> QED
      BY <1>2, <3>2
  <2> QED
    BY <1>2, <1>5, <2>1, <2>3, <2>4
<1> QED
  BY <1>1, <1>4, <1>5 DEF c, IsInjective

(* A finite set of integers that is not empty has a least one: among its   *)
(* initial parts there is a smallest.                                      *)
LEMMA LeastExists ==
  ASSUME NEW S \in SUBSET Int, IsFiniteSet(S), S # {}
  PROVE  \E l \in S : \A m \in S : l <= m
<1> DEFINE Upto(l) == {m \in S : m <= l}
           F == {Upto(l) : l \in S}
<1>1. F \subseteq FiniteSubsetsOf(S)
  BY FS_FiniteSubsetsOfFinite
<1>2. PICK x \in F : \A y \in F : ~(<<y, x>> \in StrictSubsetOrdering(S))
  <2>1. F # {}
    OBVIOUS
  <2>2. IsWellFoundedOn(StrictSubsetOrdering(S), FiniteSubsetsOf(S))
    BY FS_StrictSubsetOrderingWellFounded
  <2> HIDE DEF F
  <2> QED
    BY <1>1, <2>1, <2>2, WFMin
<1>3. PICK l \in S : x = Upto(l)
  OBVIOUS
<1>4. ASSUME NEW m \in S, m < l PROVE FALSE
  <2>1. \A a \in S : a <= m => a <= l
    BY <1>4
  <2>2. l <= l /\ ~(l <= m)
    BY <1>4
  <2>3. Upto(m) \subseteq Upto(l) /\ l \in Upto(l) /\ l \notin Upto(m)
    BY <2>1, <2>2
  <2>4. <<Upto(m), x>> \in StrictSubsetOrdering(S)
    BY <1>3, <2>3 DEF StrictSubsetOrdering
  <2> QED
    BY <1>2, <2>4
<1>5. \A m \in S : l <= m
  BY <1>4
<1> QED
  BY <1>5

(* A set of numbers up to N that is not empty has a least one.             *)
LEMMA LeastUpto ==
  ASSUME NEW N \in Nat, NEW B \in SUBSET (0 .. N), B # {}
  PROVE  \E k \in B : \A j \in B : k <= j
<1>1. IsFiniteSet(0 .. N)
  BY FS_Interval
<1>2. IsFiniteSet(B)
  BY <1>1, FS_Subset
<1>3. B \in SUBSET Int
  OBVIOUS
<1> QED
  BY <1>2, <1>3, LeastExists

(* Those is the recursive function that its definition chooses.            *)
LEMMA ThoseExist ==
  ASSUME NEW T, NEW s \in Seq(T), NEW S
  PROVE  \E k : /\ k = [n \in 0 .. Len(s) |-> IF n = 0 THEN <<>>
                          ELSE IF s[n] \in S THEN Append(k[n - 1], s[n]) ELSE k[n - 1]]
                /\ Those(s, S) = k[Len(s)]
<1> DEFINE Rec(k, m) == k = [n \in 0 .. m |-> IF n = 0 THEN <<>>
                          ELSE IF s[n] \in S THEN Append(k[n - 1], s[n]) ELSE k[n - 1]]
           B == {m \in 0 .. Len(s) : ~\E k : Rec(k, m)}
<1> HIDE DEF Rec
<1>1. Len(s) \in Nat
  BY LenProperties
<1>2. B = {}
  <2>1. SUFFICES ASSUME B # {} PROVE FALSE
    OBVIOUS
  <2>2. PICK m \in B : \A j \in B : m <= j
    BY <1>1, <2>1, LeastUpto
  <2>3. m # 0
    <3> DEFINE z == [n \in 0 .. 0 |-> <<>>]
    <3>1. \A n \in 0 .. 0 : z[n] = IF n = 0 THEN <<>>
                          ELSE IF s[n] \in S THEN Append(z[n - 1], s[n]) ELSE z[n - 1]
      OBVIOUS
    <3>2. z = [n \in 0 .. 0 |-> z[n]]
      OBVIOUS
    <3> HIDE DEF z
    <3>3. Rec(z, 0)
      BY <3>1, <3>2, Zenon DEF Rec
    <3> QED
      BY <3>3, <2>2
  <2>4. PICK g : Rec(g, m - 1)
    BY <2>2, <2>3, <1>1
  <2> DEFINE h == [n \in 0 .. m |-> IF n < m THEN g[n] ELSE
                     IF s[n] \in S THEN Append(g[n - 1], s[n]) ELSE g[n - 1]]
  <2>5. \A n \in 0 .. m - 1 : g[n] = IF n = 0 THEN <<>>
                          ELSE IF s[n] \in S THEN Append(g[n - 1], s[n]) ELSE g[n - 1]
    BY <2>4 DEF Rec
  <2>6. \A n \in 0 .. m : h[n] = IF n = 0 THEN <<>>
                          ELSE IF s[n] \in S THEN Append(h[n - 1], s[n]) ELSE h[n - 1]
    BY <1>1, <2>2, <2>3, <2>5
  <2>7. Rec(h, m)
    <3> HIDE DEF h
    <3>1. h = [n \in 0 .. m |-> h[n]]
      BY DEF h
    <3> QED
      BY <2>6, <3>1, Zenon DEF Rec
  <2> QED
    BY <2>2, <2>7
<1>3. \E k : Rec(k, Len(s))
  BY <1>1, <1>2
<1>4. Rec(CHOOSE k : Rec(k, Len(s)), Len(s))
  BY <1>3
<1>5. Those(s, S) = (CHOOSE k : Rec(k, Len(s)))[Len(s)]
  BY DEF Those, Rec
<1> QED
  BY <1>4, <1>5 DEF Rec

(* Those(s, S) has exactly the elements of s in S, and none twice if s has *)
(* none twice.                                                             *)
LEMMA ThoseIs ==
  ASSUME NEW T, NEW s \in Seq(T), NEW S
  PROVE  /\ Those(s, S) \in Seq(T)
         /\ Range(Those(s, S)) = Range(s) \cap S
         /\ IsInjective(s) => IsInjective(Those(s, S))
<1>1. PICK k : /\ k = [n \in 0 .. Len(s) |-> IF n = 0 THEN <<>>
                          ELSE IF s[n] \in S THEN Append(k[n - 1], s[n]) ELSE k[n - 1]]
               /\ Those(s, S) = k[Len(s)]
  BY ThoseExist
<1>2. Len(s) \in Nat /\ DOMAIN s = 1 .. Len(s)
  BY LenProperties
<1>3. \A n \in 0 .. Len(s) : k[n] = IF n = 0 THEN <<>>
                          ELSE IF s[n] \in S THEN Append(k[n - 1], s[n]) ELSE k[n - 1]
  BY <1>1
<1> DEFINE Upto(n) == {s[i] : i \in 1 .. n} \cap S
           Good(n) == /\ k[n] \in Seq(T)
                      /\ Range(k[n]) = Upto(n)
                      /\ IsInjective(s) => IsInjective(k[n])
           B == {n \in 0 .. Len(s) : ~Good(n)}
<1>4. ASSUME NEW n \in 1 .. Len(s), Good(n - 1) PROVE Good(n)
  <2>1. s[n] \in T /\ n - 1 \in 0 .. Len(s) /\ n \in 0 .. Len(s)
    BY <1>2, ElementOfSeq
  <2>2. CASE s[n] \notin S
    <3>1. k[n] = k[n - 1]
      BY <1>2, <1>3, <2>1, <2>2
    <3>2. Upto(n) = Upto(n - 1)
      BY <1>2, <2>2
    <3> QED
      BY <1>4, <3>1, <3>2
  <2>3. CASE s[n] \in S
    <3>1. n # 0
      BY <1>2
    <3>1a. k[n] = Append(k[n - 1], s[n])
      BY <1>3, <2>1, <2>3, <3>1, Zenon
    <3>2. Upto(n) = Upto(n - 1) \cup {s[n]}
      BY <1>2, <2>3
    <3>3. IsInjective(s) => s[n] \notin Upto(n - 1)
      BY <1>2 DEF IsInjective
    <3> HIDE DEF Upto
    <3> QED
      BY <1>4, <2>1, <3>1a, <3>2, <3>3, RangeAppend
  <2> QED
    BY <2>2, <2>3
<1>5. Good(0)
  <2>1. 0 \in 0 .. Len(s)
    BY <1>2
  <2>2. k[0] = <<>>
    BY <1>3, <2>1, Zenon
  <2> QED
    BY <2>2 DEF Range, IsInjective
<1> HIDE DEF Good
<1>6. B = {}
  <2>1. SUFFICES ASSUME B # {} PROVE FALSE
    OBVIOUS
  <2>2. PICK n \in B : \A j \in B : n <= j
    BY <1>2, <2>1, LeastUpto
  <2>3. n \in 1 .. Len(s) /\ n - 1 \in 0 .. Len(s) /\ n - 1 \notin B
    BY <1>2, <1>5, <2>2
  <2> QED
    BY <1>4, <2>2, <2>3
<1>7. Good(Len(s))
  BY <1>2, <1>6
<1>8. Upto(Len(s)) = Range(s) \cap S
  BY <1>2 DEF Range
<1> QED
  BY <1>1, <1>7, <1>8 DEF Good
=============================================================================
