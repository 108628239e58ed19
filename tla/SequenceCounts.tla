---------------------------- MODULE SequenceCounts ----------------------------
(***************************************************************************)
(* How many elements of a sequence belong to a set, and how that number    *)
(* changes as the sequence does: what libuv's counts of requests are       *)
(* compared with.                                                          *)
(***************************************************************************)
EXTENDS Integers, Sequences, FiniteSets, FiniteSetTheorems, SequenceTheorems, TLAPS

Positions(s, S) == {i \in DOMAIN s : s[i] \in S}

HowMany(s, S) == Cardinality(Positions(s, S))

LEMMA CountType ==
  ASSUME NEW R, NEW s \in Seq(R), NEW S
  PROVE  /\ IsFiniteSet(Positions(s, S))
         /\ HowMany(s, S) \in Nat
         /\ HowMany(s, S) = 0 <=> \A i \in DOMAIN s : s[i] \notin S
<1>1. DOMAIN s = 1..Len(s) /\ Len(s) \in Nat
  BY LenProperties
<1>2. IsFiniteSet(1..Len(s))
  BY <1>1, FS_Interval
<1>3. IsFiniteSet(Positions(s, S))
  BY <1>1, <1>2, FS_Subset DEF Positions
<1>4. HowMany(s, S) \in Nat /\ (HowMany(s, S) = 0 <=> Positions(s, S) = {})
  BY <1>3, FS_CardinalityType, FS_EmptySet DEF HowMany
<1> QED
  BY <1>3, <1>4 DEF Positions

LEMMA CountNone ==
  ASSUME NEW S
  PROVE  HowMany(<<>>, S) = 0
<1>1. Positions(<<>>, S) = {}
  BY DEF Positions
<1> QED
  BY <1>1, FS_EmptySet DEF HowMany

(* The elements of s \o t in S: those of s, and those of t behind them. *)
LEMMA CountConcat ==
  ASSUME NEW R, NEW s \in Seq(R), NEW t \in Seq(R), NEW S
  PROVE  HowMany(s \o t, S) = HowMany(s, S) + HowMany(t, S)
<1> DEFINE n == Len(s)
           P == Positions(s, S)
           Q == Positions(t, S)
           moved == {n + i : i \in Q}
<1>1. /\ DOMAIN s = 1..n /\ n \in Nat
      /\ DOMAIN t = 1..Len(t) /\ Len(t) \in Nat
      /\ s \o t \in Seq(R) /\ DOMAIN (s \o t) = 1..(n + Len(t))
      /\ \A i \in 1..(n + Len(t)) : (s \o t)[i] = IF i <= n THEN s[i] ELSE t[i - n]
  BY LenProperties, ConcatProperties
<1>2. /\ IsFiniteSet(P) /\ IsFiniteSet(Q)
      /\ P \subseteq 1..n /\ Q \subseteq 1..Len(t)
  BY <1>1, CountType DEF Positions
<1> DEFINE f == [i \in Q |-> n + i]
<1>3. IsFiniteSet(moved) /\ Cardinality(moved) = Cardinality(Q)
  <2>1. f \in Bijection(Q, moved)
    BY <1>1, <1>2 DEF Bijection, Injection, Surjection, IsInjective
  <2>2. ExistsBijection(Q, moved)
    BY <2>1 DEF ExistsBijection
  <2> HIDE DEF Q, moved
  <2> QED
    BY <1>2, <2>2, FS_Bijection
<1>4. Positions(s \o t, S) = P \cup moved
  <2>1. ASSUME NEW i \in Positions(s \o t, S)
        PROVE  i \in P \cup moved
    <3>1. i \in 1..(n + Len(t)) /\ (s \o t)[i] \in S
      BY <1>1, <2>1 DEF Positions
    <3>2. CASE i <= n
      BY <1>1, <3>1, <3>2 DEF Positions
    <3>3. CASE ~(i <= n)
      <4>1. i - n \in 1..Len(t) /\ t[i - n] \in S /\ i = n + (i - n)
        BY <1>1, <3>1, <3>3
      <4>2. i - n \in Q
        BY <1>1, <4>1 DEF Positions
      <4> QED
        BY <4>1, <4>2
    <3> QED
      BY <3>2, <3>3
  <2>2. ASSUME NEW i \in P
        PROVE  i \in Positions(s \o t, S)
    <3>1. i \in 1..n /\ s[i] \in S
      BY <1>1, <2>2 DEF Positions
    <3>2. i \in 1..(n + Len(t)) /\ (s \o t)[i] = s[i]
      BY <1>1, <3>1
    <3> QED
      BY <1>1, <3>1, <3>2 DEF Positions
  <2>3. ASSUME NEW j \in Q
        PROVE  n + j \in Positions(s \o t, S)
    <3>1. j \in 1..Len(t) /\ t[j] \in S
      BY <1>1, <2>3 DEF Positions
    <3>2. n + j \in 1..(n + Len(t)) /\ ~(n + j <= n) /\ (n + j) - n = j
      BY <1>1, <3>1
    <3>3. (s \o t)[n + j] = t[j]
      BY <1>1, <3>2
    <3> QED
      BY <1>1, <3>1, <3>2, <3>3 DEF Positions
  <2> QED
    BY <2>1, <2>2, <2>3
<1>5. P \cap moved = {}
  BY <1>1, <1>2
<1>6. Cardinality(P \cup moved) = Cardinality(P) + Cardinality(moved)
  <2> HIDE DEF P, moved
  <2>1. Cardinality(P \cup moved)
          = Cardinality(P) + Cardinality(moved) - Cardinality(P \cap moved)
    BY <1>2, <1>3, FS_Union
  <2>2. Cardinality(P) \in Nat /\ Cardinality(moved) \in Nat /\ Cardinality({}) = 0
    BY <1>2, <1>3, FS_CardinalityType, FS_EmptySet
  <2>3. Cardinality(P \cap moved) = 0
    BY <1>5, FS_EmptySet
  <2> QED
    BY <2>1, <2>2, <2>3
<1> QED
  BY <1>3, <1>4, <1>6 DEF HowMany

LEMMA CountOne ==
  ASSUME NEW e, NEW S
  PROVE  HowMany(<<e>>, S) = IF e \in S THEN 1 ELSE 0
<1>1. Positions(<<e>>, S) = IF e \in S THEN {1} ELSE {}
  BY DEF Positions
<1> QED
  BY <1>1, FS_Singleton, FS_EmptySet DEF HowMany

LEMMA CountAppend ==
  ASSUME NEW R, NEW s \in Seq(R), NEW e \in R, NEW S
  PROVE  HowMany(Append(s, e), S) = HowMany(s, S) + IF e \in S THEN 1 ELSE 0
<1>1. <<e>> \in Seq(R) /\ Append(s, e) = s \o <<e>>
  BY AppendIsConcat
<1>2. HowMany(s \o <<e>>, S) = HowMany(s, S) + HowMany(<<e>>, S)
  BY <1>1, CountConcat
<1>3. HowMany(<<e>>, S) = IF e \in S THEN 1 ELSE 0
  BY CountOne
<1> QED
  BY <1>1, <1>2, <1>3

LEMMA CountTail ==
  ASSUME NEW R, NEW s \in Seq(R), s # <<>>, NEW S
  PROVE  /\ Head(s) \in R /\ Tail(s) \in Seq(R)
         /\ HowMany(s, S) = HowMany(Tail(s), S) + IF Head(s) \in S THEN 1 ELSE 0
<1>1. /\ Head(s) \in R /\ Tail(s) \in Seq(R)
      /\ Len(Tail(s)) = Len(s) - 1
      /\ \A i \in 1..Len(Tail(s)) : Tail(s)[i] = s[i + 1]
  BY HeadTailProperties
<1>2. <<Head(s)>> \in Seq(R) /\ Len(<<Head(s)>>) = 1
  BY <1>1
<1> DEFINE h == Head(s)
           u == <<h>> \o Tail(s)
<1>3. u = s
  <2>1. Len(s) \in Nat \ {0} /\ s[1] = h
    BY EmptySeq
  <2>2. /\ u \in Seq(R) /\ Len(u) = 1 + Len(Tail(s))
        /\ \A i \in 1..(1 + Len(Tail(s))) : u[i] = IF i <= 1 THEN <<h>>[i] ELSE Tail(s)[i - 1]
    BY <1>1, <1>2, ConcatProperties
  <2>3. ASSUME NEW i \in 1..Len(s)
        PROVE  u[i] = s[i]
    <3>1. CASE i = 1
      BY <1>1, <2>1, <2>2, <3>1
    <3>2. CASE i # 1
      <4>1. i - 1 \in 1..Len(Tail(s)) /\ (i - 1) + 1 = i /\ ~(i <= 1)
        BY <1>1, <2>1, <3>2
      <4>2. u[i] = Tail(s)[i - 1]
        BY <1>1, <2>1, <2>2, <4>1
      <4> QED
        BY <1>1, <4>1, <4>2
    <3> QED
      BY <3>1, <3>2
  <2>4. Len(u) = Len(s)
    BY <1>1, <2>1, <2>2
  <2> HIDE DEF u
  <2> QED
    BY <2>2, <2>3, <2>4, SeqEqual
<1>4. HowMany(u, S) = HowMany(<<h>>, S) + HowMany(Tail(s), S)
  BY <1>1, <1>2, CountConcat
<1>5. HowMany(<<h>>, S) = IF h \in S THEN 1 ELSE 0
  BY CountOne
<1>6. HowMany(Tail(s), S) \in Nat
  BY <1>1, CountType
<1> HIDE DEF u
<1> QED
  BY <1>1, <1>3, <1>4, <1>5, <1>6

LEMMA CountAll ==
  ASSUME NEW R, NEW s \in Seq(R), NEW S, \A i \in DOMAIN s : s[i] \in S
  PROVE  HowMany(s, S) = Len(s)
<1>1. DOMAIN s = 1..Len(s) /\ Len(s) \in Nat
  BY LenProperties
<1>2. Positions(s, S) = 1..Len(s)
  BY <1>1 DEF Positions
<1>3. Cardinality(1..Len(s)) = Len(s)
  <2> DEFINE n == Len(s)
  <2>1. n \in Nat /\ n \in Int /\ 1 \in Int
    BY <1>1
  <2> HIDE DEF n
  <2>2. Cardinality(1..n) = IF 1 > n THEN 0 ELSE n - 1 + 1
    BY <2>1, FS_Interval
  <2>3. Cardinality(1..n) = n
    BY <2>1, <2>2
  <2> QED
    BY <2>3 DEF n
<1> QED
  BY <1>2, <1>3 DEF HowMany
=============================================================================
