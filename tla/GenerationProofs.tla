--------------------------- MODULE GenerationProofs ---------------------------
(***************************************************************************)
(* How generated rows get their values, and why the values are right.      *)
(*                                                                         *)
(* 1. The order of insertion and the rows of a batch (Generation), for any *)
(*    tables, columns and configurations: the loop of build_insert_order   *)
(*    places every table once and after its sources unless the             *)
(*    associations form a cycle; so a table that is generated finds the    *)
(*    rows it refers to, and its foreign keys match them.                  *)
(*                                                                         *)
(* 2. The counter behind an INCR_FROM column (IncrCounter), for any runs,  *)
(*    batches and sizes of batches: reservations lie apart and below it.   *)
(*                                                                         *)
(* 3. The snowflake generator of a process (Snowflake), for any threads,   *)
(*    processes, bit widths and clocks: its numbers increase in the life   *)
(*    of a process, and repeat only across processes with the same machine *)
(*    bits or after the clock was set back.                                *)
(*                                                                         *)
(* The three do not interact: to Generation a value is the place it was    *)
(* made at, which stands for whatever the strategy of its column yields.   *)
(***************************************************************************)
EXTENDS Generation, IncrCounter, Snowflake,
        SequenceTheorems, FiniteSetTheorems, TLAPS

-------------------------------------------------------------------------------
(* Least numbers. *)

(* A set of numbers that is not empty has a least element. *)
LEMMA Least ==
  ASSUME NEW S \in SUBSET Nat, S # {}
  PROVE  \E m \in S : \A n \in S : m <= n
<1> DEFINE R == OpToRel(<, Nat)
<1>1. PICK m \in S : \A n \in S : ~(<<n, m>> \in R)
  <2> HIDE DEF R
  <2>1. IsWellFoundedOn(R, Nat)
    BY NatLessThanWellFounded, Zenon DEF R
  <2> QED
    BY <2>1, WFMin, Zenon
<1>2. \A n \in S : ~(n < m)
  BY <1>1, Zenon DEF R, OpToRel
<1>3. \A n \in S : m \in Nat /\ n \in Nat
  OBVIOUS
<1>4. \A n \in S : m <= n
  BY <1>2, <1>3
<1> QED
  BY <1>4

(* A set of numbers with 0 and the successor of each of its elements has   *)
(* all numbers.                                                            *)
LEMMA AllNumbers ==
  ASSUME NEW S \in SUBSET Nat, 0 \in S, \A n \in S : n + 1 \in S
  PROVE  \A n \in Nat : n \in S
<1> SUFFICES ASSUME Nat \ S # {} PROVE FALSE
  OBVIOUS
<1>1. PICK m \in Nat \ S : \A n \in Nat \ S : m <= n
  BY Least
<1>2. m - 1 \in Nat /\ ~(m <= m - 1) /\ (m - 1) + 1 = m
  BY <1>1
<1>3. m - 1 \in S
  BY <1>1, <1>2
<1> QED
  BY <1>1, <1>2, <1>3

(* A bounded set of numbers that is not empty has a greatest element. *)
LEMMA Greatest ==
  ASSUME NEW S \in SUBSET Nat, S # {}, NEW b \in Nat, \A n \in S : n <= b
  PROVE  \E m \in S : \A n \in S : n <= m
<1> DEFINE D == {b - n : n \in S}
<1>1. D \in SUBSET Nat /\ D # {}
  <2>1. \A n \in S : b - n \in Nat
    OBVIOUS
  <2> QED
    BY <2>1
<1> HIDE DEF D
<1>2. PICK d \in D : \A e \in D : d <= e
  BY <1>1, Least
<1>3. PICK m \in S : d = b - m
  BY <1>2 DEF D
<1>4. ASSUME NEW n \in S PROVE n <= m
  <2>1. b - n \in D
    BY DEF D
  <2>2. b - m <= b - n
    BY <1>2, <1>3, <2>1
  <2> QED
    BY <1>3, <2>2
<1> QED
  BY <1>4

-------------------------------------------------------------------------------
(* Sequences: their elements and whether one occurs twice. *)

(* The elements of a sequence and their positions. *)
LEMMA SeqFacts ==
  ASSUME NEW S, NEW s \in Seq(S)
  PROVE  DOMAIN s = 1..Len(s) /\ Len(s) \in Nat /\ \A i \in DOMAIN s : s[i] \in S
  OBVIOUS

(* A sequence that is continued by one element. *)
LEMMA AppendFacts ==
  ASSUME NEW S, NEW s \in Seq(S), NEW e \in S
  PROVE  /\ Append(s, e) \in Seq(S)
         /\ Len(Append(s, e)) = Len(s) + 1
         /\ Range(Append(s, e)) = Range(s) \cup {e}
         /\ IsInjective(s) /\ e \notin Range(s) => IsInjective(Append(s, e))
<1> DEFINE t == Append(s, e)
<1>1. /\ t \in Seq(S) /\ Len(t) = Len(s) + 1
      /\ \A i \in 1..Len(s) : t[i] = s[i]
      /\ t[Len(s) + 1] = e
  BY AppendProperties
<1>2. DOMAIN t = 1..(Len(s) + 1) /\ DOMAIN s = 1..Len(s) /\ Len(s) \in Nat
  BY <1>1
<1> HIDE DEF t
<1>3. Range(t) = Range(s) \cup {e}
  <2>1. ASSUME NEW x \in Range(t) PROVE x \in Range(s) \cup {e}
    <3>1. PICK i \in 1..(Len(s) + 1) : x = t[i]
      BY <1>2, <2>1 DEF Range
    <3>2. i \in 1..Len(s) \/ i = Len(s) + 1
      BY <1>2
    <3> QED
      BY <1>1, <1>2, <3>1, <3>2 DEF Range
  <2>2. ASSUME NEW x \in Range(s) PROVE x \in Range(t)
    <3>1. PICK i \in 1..Len(s) : x = s[i]
      BY <1>2, <2>2 DEF Range
    <3>2. i \in 1..(Len(s) + 1)
      BY <1>2
    <3> QED
      BY <1>1, <1>2, <3>1, <3>2 DEF Range
  <2>3. e \in Range(t)
    <3>1. Len(s) + 1 \in 1..(Len(s) + 1)
      BY <1>2
    <3> QED
      BY <1>1, <1>2, <3>1 DEF Range
  <2> QED
    BY <2>1, <2>2, <2>3
<1>4. ASSUME IsInjective(s), e \notin Range(s) PROVE IsInjective(t)
  <2> SUFFICES ASSUME NEW i \in 1..(Len(s) + 1), NEW j \in 1..(Len(s) + 1), t[i] = t[j]
               PROVE  i = j
    BY <1>2 DEF IsInjective
  <2>1. \A n \in 1..Len(s) : s[n] # e
    BY <1>2, <1>4 DEF Range
  <2>2. (i \in 1..Len(s) \/ i = Len(s) + 1) /\ (j \in 1..Len(s) \/ j = Len(s) + 1)
    BY <1>2
  <2>3. CASE i \in 1..Len(s) /\ j \in 1..Len(s)
    BY <1>1, <1>2, <1>4, <2>3 DEF IsInjective
  <2>4. CASE ~(i \in 1..Len(s) /\ j \in 1..Len(s))
    BY <1>1, <2>1, <2>2, <2>4
  <2> QED
    BY <2>3, <2>4
<1> QED
  BY <1>1, <1>3, <1>4 DEF t

(* A sequence without its first element. *)
LEMMA TailFacts ==
  ASSUME NEW S, NEW s \in Seq(S), s # <<>>
  PROVE  /\ Head(s) \in S /\ Tail(s) \in Seq(S)
         /\ Len(Tail(s)) = Len(s) - 1
         /\ Range(s) = {Head(s)} \cup Range(Tail(s))
         /\ IsInjective(s) => IsInjective(Tail(s)) /\ Head(s) \notin Range(Tail(s))
<1> DEFINE t == Tail(s)
<1>1. /\ Head(s) \in S /\ t \in Seq(S) /\ Len(t) = Len(s) - 1
      /\ \A i \in 1..Len(t) : t[i] = s[i + 1]
  BY HeadTailProperties
<1>2. Len(s) \in Nat \ {0} /\ DOMAIN s = 1..Len(s) /\ DOMAIN t = 1..(Len(s) - 1)
      /\ Head(s) = s[1]
  BY <1>1
<1>3. \A i \in 1..(Len(s) - 1) : t[i] = s[i + 1] /\ i + 1 \in 1..Len(s)
  BY <1>1, <1>2
<1>4. 1 \in 1..Len(s)
  BY <1>2
<1> HIDE DEF t
<1>5. Range(s) = {Head(s)} \cup Range(t)
  <2>1. ASSUME NEW x \in Range(s) PROVE x \in {Head(s)} \cup Range(t)
    <3>1. PICK i \in 1..Len(s) : x = s[i]
      BY <1>2, <2>1 DEF Range
    <3>2. CASE i = 1
      BY <1>2, <3>1, <3>2
    <3>3. CASE i # 1
      <4>1. i - 1 \in 1..(Len(s) - 1) /\ (i - 1) + 1 = i
        BY <1>2, <3>3
      <4>2. x = t[i - 1]
        BY <1>3, <3>1, <4>1
      <4> QED
        BY <1>2, <4>1, <4>2 DEF Range
    <3> QED
      BY <3>2, <3>3
  <2>2. ASSUME NEW x \in Range(t) PROVE x \in Range(s)
    BY <1>2, <1>3, <2>2 DEF Range
  <2>3. Head(s) \in Range(s)
    BY <1>2, <1>4 DEF Range
  <2> QED
    BY <2>1, <2>2, <2>3
<1>6. ASSUME IsInjective(s) PROVE IsInjective(t) /\ Head(s) \notin Range(t)
  <2>1. ASSUME NEW i \in 1..(Len(s) - 1), NEW j \in 1..(Len(s) - 1), t[i] = t[j]
        PROVE  i = j
    <3>1. i + 1 = j + 1
      BY <1>2, <1>3, <1>6, <2>1 DEF IsInjective
    <3> QED
      BY <1>2, <3>1
  <2>2. ASSUME NEW i \in 1..(Len(s) - 1), t[i] = Head(s) PROVE FALSE
    <3>1. i + 1 = 1
      BY <1>2, <1>3, <1>4, <1>6, <2>2 DEF IsInjective
    <3> QED
      BY <1>2, <3>1
  <2> QED
    BY <1>2, <2>1, <2>2 DEF IsInjective, Range
<1> QED
  BY <1>1, <1>5, <1>6 DEF t

(* Two sequences with no common element, one after the other. *)
LEMMA ConcatFacts ==
  ASSUME NEW S, NEW s \in Seq(S), NEW t \in Seq(S)
  PROVE  /\ s \o t \in Seq(S)
         /\ Range(s \o t) = Range(s) \cup Range(t)
         /\ IsInjective(s) /\ IsInjective(t) /\ Range(s) \cap Range(t) = {}
              => IsInjective(s \o t)
<1> DEFINE u == s \o t
<1>1. /\ u \in Seq(S) /\ Len(u) = Len(s) + Len(t)
      /\ \A i \in 1..(Len(s) + Len(t)) :
           u[i] = IF i <= Len(s) THEN s[i] ELSE t[i - Len(s)]
  BY ConcatProperties
<1>2. /\ DOMAIN u = 1..(Len(s) + Len(t)) /\ DOMAIN s = 1..Len(s)
      /\ DOMAIN t = 1..Len(t) /\ Len(s) \in Nat /\ Len(t) \in Nat
  BY <1>1
<1>3. Range(u) = Range(s) \cup Range(t)
  BY RangeConcatenation
<1> HIDE DEF u
<1>4. ASSUME IsInjective(s), IsInjective(t), Range(s) \cap Range(t) = {}
      PROVE  IsInjective(u)
  <2> SUFFICES ASSUME NEW i \in DOMAIN u, NEW j \in DOMAIN u, u[i] = u[j]
               PROVE  i = j
    BY DEF IsInjective
  <2>1. \A n \in DOMAIN u : \/ n \in 1..Len(s) /\ u[n] = s[n]
                            \/ n - Len(s) \in 1..Len(t) /\ u[n] = t[n - Len(s)]
    <3> SUFFICES ASSUME NEW n \in 1..(Len(s) + Len(t))
                 PROVE \/ n \in 1..Len(s) /\ u[n] = s[n]
                       \/ n - Len(s) \in 1..Len(t) /\ u[n] = t[n - Len(s)]
      BY <1>2
    <3>1. CASE n <= Len(s)
      BY <1>1, <1>2, <3>1
    <3>2. CASE ~(n <= Len(s))
      <4>1. n - Len(s) \in 1..Len(t)
        BY <1>2, <3>2
      <4> QED
        BY <1>1, <3>2, <4>1
    <3> QED
      BY <3>1, <3>2
  <2>2. \A a \in 1..Len(s), b \in 1..Len(t) : s[a] # t[b]
    BY <1>2, <1>4 DEF Range
  <2>3. CASE i \in 1..Len(s) /\ u[i] = s[i] /\ j \in 1..Len(s) /\ u[j] = s[j]
    BY <1>2, <1>4, <2>3 DEF IsInjective
  <2>4. CASE /\ i - Len(s) \in 1..Len(t) /\ u[i] = t[i - Len(s)]
             /\ j - Len(s) \in 1..Len(t) /\ u[j] = t[j - Len(s)]
    <3>1. i - Len(s) = j - Len(s)
      BY <1>2, <1>4, <2>4 DEF IsInjective
    <3> QED
      BY <1>2, <3>1
  <2> QED
    BY <2>1, <2>2, <2>3, <2>4
<1> QED
  BY <1>1, <1>3, <1>4 DEF u

(* A sequence without repetition is as long as it has elements. *)
LEMMA InjectiveLen ==
  ASSUME NEW S, NEW s \in Seq(S), IsInjective(s)
  PROVE  IsFiniteSet(Range(s)) /\ Cardinality(Range(s)) = Len(s)
<1>1. Len(s) \in Nat /\ DOMAIN s = 1..Len(s) /\ s \in [1..Len(s) -> Range(s)]
  BY DEF Range
<1>2. s \in Bijection(1..Len(s), Range(s))
  BY <1>1 DEF Bijection, Injection, Surjection, IsInjective, Range
<1>3. ExistsBijection(1..Len(s), Range(s))
  BY <1>2 DEF ExistsBijection
<1>4. IsFiniteSet(1..Len(s)) /\ Cardinality(1..Len(s)) = Len(s)
  BY <1>1, FS_Interval
<1> QED
  BY <1>3, <1>4, FS_Bijection

-------------------------------------------------------------------------------
(* Pick and Filter: positions of a sequence, in their order. *)

(* Number of positions up to i. *)
Rank(ps, i) == Cardinality({j \in ps : j <= i})

(* Ranks number the positions from 1, without gaps and in their order. *)
LEMMA RankFacts ==
  ASSUME NEW l \in Nat, NEW ps \in SUBSET (1..l)
  PROVE  /\ IsFiniteSet(ps) /\ Cardinality(ps) \in Nat
         /\ \A i \in ps : Rank(ps, i) \in 1..Cardinality(ps)
         /\ \A i, j \in ps : i < j => Rank(ps, i) < Rank(ps, j)
         /\ \A n \in 1..Cardinality(ps) : \E i \in ps : Rank(ps, i) = n
<1> DEFINE N == Cardinality(ps)
           below(i) == {j \in ps : j <= i}
<1>1. IsFiniteSet(ps) /\ N \in Nat
  <2>1. IsFiniteSet(1..l)
    BY FS_Interval
  <2> QED
    BY <2>1, FS_Subset, FS_CardinalityType
<1>2. \A i \in ps : i \in Nat
  OBVIOUS
<1>3. ASSUME NEW i \in ps
      PROVE  IsFiniteSet(below(i)) /\ Rank(ps, i) \in 1..N /\ i \in below(i)
  <2>1. below(i) \in SUBSET ps /\ i \in below(i)
    BY <1>2
  <2>2. /\ IsFiniteSet(below(i)) /\ Cardinality(below(i)) <= N
        /\ Cardinality(below(i)) \in Nat
    BY <1>1, <2>1, FS_Subset, FS_CardinalityType
  <2>3. Cardinality(below(i)) # 0
    BY <2>1, <2>2, FS_EmptySet
  <2>4. Rank(ps, i) = Cardinality(below(i))
    BY DEF Rank
  <2> HIDE DEF below, N
  <2> QED
    BY <1>1, <2>1, <2>2, <2>3, <2>4
<1>4. ASSUME NEW i \in ps, NEW j \in ps, i < j PROVE Rank(ps, i) < Rank(ps, j)
  <2>1. below(i) \in SUBSET below(j) /\ j \notin below(i) /\ j \in below(j)
    <3>1. \A n \in ps : n <= i => n <= j
      BY <1>2, <1>4
    <3>2. ~(j <= i) /\ j <= j
      BY <1>2, <1>4
    <3> QED
      BY <3>1, <3>2
  <2>2. IsFiniteSet(below(j))
    BY <1>3
  <2>3. /\ Cardinality(below(i)) <= Cardinality(below(j))
        /\ Cardinality(below(j)) # Cardinality(below(i))
    BY <2>1, <2>2, FS_Subset
  <2>4. Rank(ps, i) = Cardinality(below(i)) /\ Rank(ps, j) = Cardinality(below(j))
    BY DEF Rank
  <2>5. Rank(ps, i) \in 1..N /\ Rank(ps, j) \in 1..N
    BY <1>3
  <2> HIDE DEF below, N
  <2> QED
    BY <1>1, <2>3, <2>4, <2>5
<1> DEFINE f == [i \in ps |-> Rank(ps, i)]
<1>0. \A i \in ps : Rank(ps, i) \in Nat
  <2> HIDE DEF N, f, below
  <2>1. ASSUME NEW i \in ps PROVE Rank(ps, i) \in Nat
    <3>1. Rank(ps, i) \in 1..N
      BY <1>3
    <3> QED
      BY <1>1, <3>1
  <2> QED
    BY <2>1
<1>5. f \in Injection(ps, 1..N)
  <2>1. f \in [ps -> 1..N]
    BY <1>3
  <2>2. ASSUME NEW i \in ps, NEW j \in ps, f[i] = f[j] PROVE i = j
    <3>1. ~(i < j) /\ ~(j < i)
      <4>1. f[i] = Rank(ps, i) /\ f[j] = Rank(ps, j)
        OBVIOUS
      <4>2. Rank(ps, i) \in Nat /\ Rank(ps, j) \in Nat
        BY <1>0
      <4> HIDE DEF f
      <4>3. Rank(ps, i) = Rank(ps, j)
        BY <2>2, <4>1
      <4> QED
        BY <1>4, <4>2, <4>3
    <3> QED
      BY <1>2, <3>1
  <2> HIDE DEF f, N
  <2> QED
    BY <2>1, <2>2 DEF Injection, IsInjective
<1>6. f \in Surjection(ps, 1..N)
  <2>1. IsFiniteSet(1..N) /\ Cardinality(1..N) = N
    BY <1>1, FS_Interval
  <2> HIDE DEF f
  <2> QED
    BY <1>5, <2>1, FS_Injection
<1>7. \A n \in 1..N : \E i \in ps : f[i] = n
  BY <1>6 DEF Surjection
<1> QED
  BY <1>1, <1>3, <1>4, <1>7

(* Pick keeps the elements at the positions, each once and in order. *)
LEMMA PickFacts ==
  ASSUME NEW S, NEW s \in Seq(S), NEW ps \in SUBSET (1..Len(s))
  PROVE  /\ Pick(s, ps) \in Seq(S) /\ Len(Pick(s, ps)) = Cardinality(ps)
         /\ Range(Pick(s, ps)) = {s[i] : i \in ps}
         /\ (\A i, j \in ps : s[i] = s[j] => i = j) => IsInjective(Pick(s, ps))
         /\ \E f \in [1..Cardinality(ps) -> ps] :
              /\ \A n \in 1..Cardinality(ps) : Pick(s, ps)[n] = s[f[n]]
              /\ \A n, m \in 1..Cardinality(ps) : n < m => f[n] < f[m]
<1> DEFINE N == Cardinality(ps)
           f == [n \in 1..N |-> CHOOSE i \in ps : Rank(ps, i) = n]
           p == Pick(s, ps)
<1>1. /\ N \in Nat
      /\ \A i \in ps : Rank(ps, i) \in 1..N
      /\ \A i, j \in ps : i < j => Rank(ps, i) < Rank(ps, j)
      /\ \A n \in 1..N : \E i \in ps : Rank(ps, i) = n
  <2>1. Len(s) \in Nat
    OBVIOUS
  <2> QED
    BY <2>1, RankFacts
<1>2. p = [n \in 1..N |-> s[f[n]]]
  BY DEF Pick, Rank
<1>3. \A n \in 1..N : f[n] \in ps /\ Rank(ps, f[n]) = n
  BY <1>1
<1>4. f \in [1..N -> ps]
  BY <1>3
<1>5. \A i \in ps : i \in 1..Len(s) /\ s[i] \in S /\ i \in Nat
  OBVIOUS
<1> HIDE DEF f, p, N
<1>6. p \in [1..N -> S]
  BY <1>2, <1>3, <1>5
<1>7. p \in Seq(S) /\ Len(p) = N
  BY <1>1, <1>6
<1>8. \A i \in ps : \E n \in 1..N : f[n] = i
  <2> SUFFICES ASSUME NEW i \in ps PROVE f[Rank(ps, i)] = i
    BY <1>1
  <2>1. Rank(ps, i) \in 1..N
    BY <1>1
  <2>2. f[Rank(ps, i)] \in ps /\ Rank(ps, f[Rank(ps, i)]) = Rank(ps, i)
    BY <1>3, <2>1
  <2> DEFINE j == f[Rank(ps, i)]
  <2>3. j \in ps /\ Rank(ps, j) = Rank(ps, i) /\ Rank(ps, i) \in Nat
    BY <1>1, <2>1, <2>2
  <2> HIDE DEF j
  <2>4. ~(i < j) /\ ~(j < i)
    BY <1>1, <2>3
  <2>5. i = j
    BY <1>5, <2>3, <2>4
  <2> QED
    BY <2>5 DEF j
<1>9. Range(p) = {s[i] : i \in ps}
  <2>1. \A n \in 1..N : p[n] = s[f[n]]
    BY <1>2
  <2>2. Range(p) = {p[n] : n \in 1..N}
    BY <1>6 DEF Range
  <2>3. ASSUME NEW x \in Range(p) PROVE x \in {s[i] : i \in ps}
    <3>1. PICK n \in 1..N : x = p[n]
      BY <2>2, <2>3
    <3> QED
      BY <1>3, <2>1, <3>1
  <2>4. ASSUME NEW i \in ps PROVE s[i] \in Range(p)
    BY <1>8, <2>1, <2>2
  <2> QED
    BY <2>3, <2>4
<1>10. ASSUME \A i, j \in ps : s[i] = s[j] => i = j PROVE IsInjective(p)
  <2> SUFFICES ASSUME NEW n \in 1..N, NEW m \in 1..N, p[n] = p[m] PROVE n = m
    BY <1>6 DEF IsInjective
  <2>1. s[f[n]] = s[f[m]] /\ f[n] \in ps /\ f[m] \in ps
    BY <1>2, <1>3
  <2>2. f[n] = f[m]
    BY <1>10, <2>1
  <2> QED
    BY <1>3, <2>2
<1>11. ASSUME NEW n \in 1..N, NEW m \in 1..N, n < m PROVE f[n] < f[m]
  <2>1. f[n] \in ps /\ f[m] \in ps /\ Rank(ps, f[n]) = n /\ Rank(ps, f[m]) = m
    BY <1>3
  <2>2. f[n] \in Nat /\ f[m] \in Nat /\ n \in Nat /\ m \in Nat
    <3>1. f[n] \in Nat /\ f[m] \in Nat
      BY <1>5, <2>1
    <3> QED
      BY <1>1, <3>1
  <2>3. CASE f[m] < f[n]
    BY <1>1, <1>11, <2>1, <2>2, <2>3
  <2>4. CASE f[m] = f[n]
    BY <1>11, <2>1, <2>2, <2>4
  <2> QED
    BY <2>2, <2>3, <2>4
<1>12. \E g \in [1..N -> ps] : /\ \A n \in 1..N : p[n] = s[g[n]]
                               /\ \A n, m \in 1..N : n < m => g[n] < g[m]
  <2>1. \A n \in 1..N : p[n] = s[f[n]]
    BY <1>2
  <2> QED
    BY <1>4, <1>11, <2>1
<1> QED
  BY <1>7, <1>9, <1>10, <1>12 DEF p, N

(* Filter keeps exactly the elements of S, and no repetition appears. *)
LEMMA FilterFacts ==
  ASSUME NEW T, NEW s \in Seq(T), NEW S
  PROVE  /\ Filter(s, S) \in Seq(T)
         /\ Range(Filter(s, S)) = Range(s) \cap S
         /\ IsInjective(s) => IsInjective(Filter(s, S))
         /\ \E f \in [DOMAIN Filter(s, S) -> DOMAIN s] :
              /\ \A n \in DOMAIN Filter(s, S) : Filter(s, S)[n] = s[f[n]]
              /\ \A n, m \in DOMAIN Filter(s, S) : n < m => f[n] < f[m]
<1> DEFINE ps == {i \in DOMAIN s : s[i] \in S}
           p == Pick(s, ps)
<1>1. p = Filter(s, S) /\ DOMAIN s = 1..Len(s) /\ ps \in SUBSET (1..Len(s))
  BY DEF Filter
<1>2. \A i \in ps : i \in DOMAIN s /\ s[i] \in S
  OBVIOUS
<1>3. {s[i] : i \in ps} = Range(s) \cap S
  BY DEF Range
<1> HIDE DEF ps, p
<1>4. /\ p \in Seq(T) /\ Len(p) = Cardinality(ps)
      /\ Range(p) = {s[i] : i \in ps}
      /\ (\A i, j \in ps : s[i] = s[j] => i = j) => IsInjective(p)
  BY <1>1, PickFacts DEF p
<1>5. PICK f \in [1..Cardinality(ps) -> ps] :
        /\ \A n \in 1..Cardinality(ps) : p[n] = s[f[n]]
        /\ \A n, m \in 1..Cardinality(ps) : n < m => f[n] < f[m]
  BY <1>1, PickFacts DEF p
<1>6. DOMAIN p = 1..Cardinality(ps)
  BY <1>4
<1>7. IsInjective(s) => IsInjective(p)
  BY <1>2, <1>4 DEF IsInjective
<1>8. f \in [DOMAIN p -> DOMAIN s]
  BY <1>2, <1>5, <1>6
<1> QED
  BY <1>1, <1>3, <1>4, <1>5, <1>6, <1>7, <1>8

-------------------------------------------------------------------------------
(* The insert order: Kahn's algorithm. *)

(* What the lemmas need to know of a list of associations. *)
Linked(links) ==
  /\ Len(links) \in Nat /\ DOMAIN links = 1..Len(links)
  /\ \A i \in DOMAIN links : links[i].st \in Tables /\ links[i].dt \in Tables

(* The sources and the targets of a list of associations are tables. *)
LEMMA AssociationFacts ==
  ASSUME NEW links \in Seq(Association)
  PROVE  Linked(links)
<1>1. DOMAIN links = 1..Len(links) /\ Len(links) \in Nat
      /\ \A i \in DOMAIN links : links[i] \in Association
  BY SeqFacts
<1>2. \A i \in DOMAIN links : links[i].st \in Tables /\ links[i].dt \in Tables
  BY <1>1 DEF Association
<1> QED
  BY <1>1, <1>2 DEF Linked

(* Where the two names of the i-th association stand. *)
LEMMA Halves ==
  ASSUME NEW n \in Nat, NEW i \in 1..n
  PROVE  /\ i \in Nat /\ 2 * i \in 1..(2 * n + 1) /\ 2 * i + 1 \in 1..(2 * n + 1)
         /\ 2 * i # 1 /\ (2 * i) % 2 = 0 /\ (2 * i) \div 2 = i
         /\ 2 * i + 1 # 1 /\ (2 * i + 1) % 2 # 0 /\ (2 * i + 1) \div 2 = i
<1>1. i \in Nat /\ i >= 1 /\ i <= n
  OBVIOUS
<1>2. /\ 2 * i \in 1..(2 * n + 1) /\ 2 * i + 1 \in 1..(2 * n + 1)
      /\ 2 * i # 1 /\ 2 * i + 1 # 1
  BY <1>1
<1>3. (2 * i) % 2 = 0 /\ (2 * i) \div 2 = i
  BY <1>1
<1>4. (2 * i + 1) % 2 # 0 /\ (2 * i + 1) \div 2 = i
  BY <1>1
<1> QED
  BY <1>1, <1>2, <1>3, <1>4

(* Each table of the case is mentioned once, and no other. *)
LEMMA MentionedFacts ==
  ASSUME NEW links, Linked(links)
  PROVE  /\ Mentioned(links) \in Seq(Tables) /\ IsInjective(Mentioned(links))
         /\ Range(Mentioned(links)) = {Main} \cup {links[i].st : i \in DOMAIN links}
                                          \cup {links[i].dt : i \in DOMAIN links}
<1> DEFINE names == Names(links)
           l == 2 * Len(links) + 1
           ps == {i \in DOMAIN names : \A j \in 1..(i - 1) : names[j] # names[i]}
<1>1. /\ DOMAIN links = 1..Len(links) /\ Len(links) \in Nat /\ Main \in Tables
      /\ \A i \in DOMAIN links : links[i].st \in Tables /\ links[i].dt \in Tables
  BY BoundsAssumption DEF Linked
<1>2. l \in Nat /\ 1 \in 1..l
  BY <1>1
<1>3. ASSUME NEW i \in 1..l
      PROVE  \/ i = 1 /\ names[i] = Main
             \/ i \div 2 \in DOMAIN links /\ names[i] = links[i \div 2].st
             \/ i \div 2 \in DOMAIN links /\ names[i] = links[i \div 2].dt
  <2>1. i = 1 \/ i \div 2 \in 1..Len(links)
    BY <1>1
  <2> QED
    BY <1>1, <2>1 DEF Names
<1>4. ASSUME NEW i \in DOMAIN links
      PROVE  /\ 2 * i \in 1..l /\ 2 * i + 1 \in 1..l
             /\ names[2 * i] = links[i].st /\ names[2 * i + 1] = links[i].dt
  <2>1. /\ i \in Nat /\ 2 * i \in 1..l /\ 2 * i + 1 \in 1..l
        /\ 2 * i # 1 /\ (2 * i) % 2 = 0 /\ (2 * i) \div 2 = i
        /\ 2 * i + 1 # 1 /\ (2 * i + 1) % 2 # 0 /\ (2 * i + 1) \div 2 = i
    BY <1>1, Halves
  <2> QED
    BY <2>1 DEF Names
<1>5. DOMAIN names = 1..l /\ names[1] = Main
  BY <1>2 DEF Names
<1>6. names \in [1..l -> Tables]
  <2>1. names = [i \in 1..l |-> names[i]]
    BY DEF Names
  <2>2. \A i \in 1..l : names[i] \in Tables
    BY <1>1, <1>3
  <2> HIDE DEF names, l
  <2> QED
    BY <2>1, <2>2
<1> DEFINE all == {Main} \cup {links[i].st : i \in DOMAIN links}
                         \cup {links[i].dt : i \in DOMAIN links}
<1>7. \A i \in 1..l : names[i] \in all
  BY <1>3
<1>8. ASSUME NEW x \in all PROVE \E i \in 1..l : names[i] = x
  <2>1. CASE x = Main
    BY <1>2, <1>5, <2>1
  <2>2. CASE \E i \in DOMAIN links : x = links[i].st
    BY <1>4, <2>2
  <2>3. CASE \E i \in DOMAIN links : x = links[i].dt
    BY <1>4, <2>3
  <2> QED
    BY <2>1, <2>2, <2>3
<1> HIDE DEF names, l, all
<1>9. names \in Seq(Tables) /\ Len(names) = l
  BY <1>2, <1>6
<1>10. ps \in SUBSET (1..Len(names))
  BY <1>5, <1>9
<1>11. ASSUME NEW i \in ps, NEW j \in ps, names[i] = names[j] PROVE i = j
  <2>1. i \in Nat /\ j \in Nat /\ i >= 1 /\ j >= 1
    BY <1>2, <1>5
  <2>2. ~(j \in 1..(i - 1)) /\ ~(i \in 1..(j - 1))
    BY <1>11
  <2> QED
    BY <2>1, <2>2
<1>12. \A x \in all : \E i \in ps : names[i] = x
  <2> SUFFICES ASSUME NEW x \in all PROVE \E i \in ps : names[i] = x
    OBVIOUS
  <2> DEFINE at == {i \in 1..l : names[i] = x}
  <2>1. at \in SUBSET Nat /\ at # {}
    BY <1>2, <1>8
  <2>2. PICK m \in at : \A n \in at : m <= n
    BY <2>1, Least
  <2>3. \A j \in 1..(m - 1) : j \in 1..l /\ ~(m <= j)
    BY <1>2, <2>1, <2>2
  <2>4. \A j \in 1..(m - 1) : names[j] # names[m]
    BY <2>2, <2>3
  <2> QED
    BY <1>5, <2>2, <2>4
<1>13. \A i \in ps : i \in 1..l
  BY <1>5
<1>14. Mentioned(links) = Pick(names, ps)
  BY DEF Mentioned, names
<1> HIDE DEF ps
<1>15. /\ Pick(names, ps) \in Seq(Tables) /\ IsInjective(Pick(names, ps))
       /\ Range(Pick(names, ps)) = {names[i] : i \in ps}
  BY <1>9, <1>10, <1>11, PickFacts
<1>16. {names[i] : i \in ps} = all
  BY <1>7, <1>12, <1>13
<1> QED
  BY <1>14, <1>15, <1>16 DEF all

(* The sources of a table are mentioned, and so is a table with a source. *)
LEMMA SourcesMentioned ==
  ASSUME NEW links, Linked(links), NEW t, NEW u \in Sources(links, t)
  PROVE  u \in Range(Mentioned(links)) /\ t \in Range(Mentioned(links))
<1>1. PICK i \in DOMAIN links : links[i].dt = t /\ links[i].st = u
  BY DEF Sources
<1> QED
  BY <1>1, MentionedFacts

(* Placing n frees the tables it was the ends missing source of. *)
LEMMA FreedFacts ==
  ASSUME NEW links, Linked(links), NEW placed, NEW n
  PROVE  /\ Freed(links, placed, n) \in Seq(Tables) /\ IsInjective(Freed(links, placed, n))
         /\ \A t : t \in Range(Freed(links, placed, n)) <=>
                   /\ n \in Sources(links, t) /\ t \notin placed
                   /\ Sources(links, t) \subseteq placed
<1> DEFINE dts == [i \in DOMAIN links |-> links[i].dt]
           ends == {i \in DOMAIN links :
                      /\ links[i].st = n /\ links[i].dt \notin placed
                      /\ Sources(links, links[i].dt) \subseteq placed
                      /\ \A j \in DOMAIN links :
                           j > i => <<links[j].st, links[j].dt>> # <<n, links[i].dt>>}
           free(t) == /\ n \in Sources(links, t) /\ t \notin placed
                      /\ Sources(links, t) \subseteq placed
<1>1. /\ DOMAIN links = 1..Len(links) /\ Len(links) \in Nat
      /\ \A i \in DOMAIN links : links[i].st \in Tables /\ links[i].dt \in Tables
  BY DEF Linked
<1>2. dts \in [1..Len(links) -> Tables]
  BY <1>1
<1>3. dts \in Seq(Tables) /\ Len(dts) = Len(links) /\ ends \in SUBSET (1..Len(dts))
  <2>1. dts \in Seq(Tables) /\ Len(dts) = Len(links)
    BY <1>1, <1>2
  <2>2. ends \in SUBSET (1..Len(links))
    BY <1>1
  <2> HIDE DEF dts, ends
  <2> QED
    BY <2>1, <2>2
<1>4. ASSUME NEW i \in ends, NEW j \in ends, dts[i] = dts[j] PROVE i = j
  <2>1. /\ i \in DOMAIN links /\ j \in DOMAIN links /\ links[i].st = n /\ links[j].st = n
        /\ links[i].dt = links[j].dt
    BY <1>4
  <2>2. ~(j > i) /\ ~(i > j)
    BY <1>4, <2>1
  <2> QED
    BY <1>1, <2>1, <2>2
<1>5. ASSUME NEW i \in ends PROVE free(dts[i])
  <2>1. i \in DOMAIN links /\ links[i].st = n /\ dts[i] = links[i].dt
    BY <1>5
  <2>2. n \in Sources(links, links[i].dt)
    BY <2>1 DEF Sources
  <2> QED
    BY <1>5, <2>1, <2>2
<1>6. ASSUME NEW t, free(t) PROVE \E i \in ends : dts[i] = t
  <2> DEFINE at == {i \in DOMAIN links : links[i].st = n /\ links[i].dt = t}
  <2>1. at # {} /\ at \in SUBSET Nat /\ \A i \in at : i <= Len(links)
    BY <1>1, <1>6 DEF Sources
  <2>2. PICK m \in at : \A i \in at : i <= m
    BY <1>1, <2>1, Greatest
  <2>3. m \in DOMAIN links /\ links[m].st = n /\ links[m].dt = t /\ m \in Nat
    BY <2>1, <2>2
  <2>4. ASSUME NEW j \in DOMAIN links, j > m PROVE <<links[j].st, links[j].dt>> # <<n, t>>
    <3>1. j \notin at
      BY <1>1, <2>2, <2>3, <2>4
    <3> QED
      BY <3>1
  <2>5. m \in ends
    BY <1>6, <2>3, <2>4
  <2> QED
    BY <2>3, <2>5
<1>7. Freed(links, placed, n) = Pick(dts, ends)
  BY DEF Freed
<1> HIDE DEF dts, ends, free
<1>8. /\ Pick(dts, ends) \in Seq(Tables) /\ IsInjective(Pick(dts, ends))
      /\ Range(Pick(dts, ends)) = {dts[i] : i \in ends}
  <2>1. \A i, j \in ends : dts[i] = dts[j] => i = j
    BY <1>4
  <2>2. /\ Pick(dts, ends) \in Seq(Tables)
        /\ Range(Pick(dts, ends)) = {dts[i] : i \in ends}
        /\ (\A i, j \in ends : dts[i] = dts[j] => i = j) => IsInjective(Pick(dts, ends))
    BY <1>3, PickFacts
  <2> QED
    BY <2>1, <2>2
<1>9. \A t : t \in {dts[i] : i \in ends} <=> free(t)
  BY <1>5, <1>6
<1> QED
  BY <1>7, <1>8, <1>9 DEF free

(* The tables without a source are queued first. *)
LEMMA UnsourcedFacts ==
  ASSUME NEW links, Linked(links)
  PROVE  /\ Unsourced(links) \in Seq(Tables) /\ IsInjective(Unsourced(links))
         /\ \A t : t \in Range(Unsourced(links)) <=>
                   t \in Range(Mentioned(links)) /\ Sources(links, t) = {}
<1> DEFINE S == {t \in Tables : Sources(links, t) = {}}
           seen == Mentioned(links)
<1>1. seen \in Seq(Tables) /\ IsInjective(seen)
  BY MentionedFacts
<1>2. Range(seen) \subseteq Tables
  BY <1>1, RangeOfSeq
<1>3. Unsourced(links) = Filter(seen, S)
  BY DEF Unsourced
<1>4. \A t : t \in Range(seen) \cap S <=> t \in Range(seen) /\ Sources(links, t) = {}
  BY <1>2
<1> HIDE DEF S, seen
<1>5. /\ Filter(seen, S) \in Seq(Tables) /\ IsInjective(Filter(seen, S))
      /\ Range(Filter(seen, S)) = Range(seen) \cap S
  BY <1>1, FilterFacts
<1> QED
  BY <1>3, <1>4, <1>5 DEF seen

(* All tables an association list is about. *)
Seen(links) == Range(Mentioned(links))

SourcesBefore(links, out) ==
  \A i \in DOMAIN out : \A u \in Sources(links, out[i]) :
    \E j \in 1..(i - 1) : out[j] = u

(* What holds after each round of Kahn's algorithm. *)
Placing(links, queue, out) ==
  /\ queue \in Seq(Tables) /\ IsInjective(queue)
  /\ out \in Seq(Tables) /\ IsInjective(out)
  /\ Range(queue) \cap Range(out) = {}
  /\ \A t : t \in Range(queue) \cup Range(out)
              <=> t \in Seen(links) /\ Sources(links, t) \subseteq Range(out)
  /\ SourcesBefore(links, out)

(* Nothing is placed at first. *)
LEMMA PlacingInit ==
  ASSUME NEW links, Linked(links)
  PROVE  Placing(links, Unsourced(links), <<>>)
<1>1. /\ Unsourced(links) \in Seq(Tables) /\ IsInjective(Unsourced(links))
      /\ \A t : t \in Range(Unsourced(links)) <=> t \in Seen(links) /\ Sources(links, t) = {}
  BY UnsourcedFacts DEF Seen
<1>2. /\ <<>> \in Seq(Tables) /\ DOMAIN <<>> = {}
  OBVIOUS
<1>3. Range(<<>>) = {} /\ IsInjective(<<>>) /\ SourcesBefore(links, <<>>)
  BY <1>2 DEF Range, IsInjective, SourcesBefore
<1>4. \A t : Sources(links, t) \subseteq {} <=> Sources(links, t) = {}
  OBVIOUS
<1> QED
  BY <1>1, <1>2, <1>3, <1>4 DEF Placing

(* A round keeps it. *)
LEMMA PlacingStep ==
  ASSUME NEW links, Linked(links), NEW s, Placing(links, s.queue, s.out),
         s.queue # <<>>, NEW p, p = Place(links, s)
  PROVE  Placing(links, p.queue, p.out) /\ Len(p.out) = Len(s.out) + 1
<1> DEFINE queue == s.queue
           out == s.out
           n == Head(queue)
           rest == Tail(queue)
           more == Append(out, n)
           free == Freed(links, Range(more), n)
<1>0. p.queue = rest \o free /\ p.out = more
  <2>1. p = [queue |-> rest \o free, out |-> more]
    BY DEF Place
  <2> HIDE DEF rest, free, more
  <2> QED
    BY <2>1
<1> HIDE DEF queue, out
<1>1. /\ queue \in Seq(Tables) /\ IsInjective(queue)
      /\ out \in Seq(Tables) /\ IsInjective(out)
      /\ Range(queue) \cap Range(out) = {}
      /\ \A u : u \in Range(queue) \cup Range(out)
                  <=> u \in Seen(links) /\ Sources(links, u) \subseteq Range(out)
      /\ SourcesBefore(links, out) /\ queue # <<>>
  BY DEF Placing, queue, out
<1>2. /\ n \in Tables /\ rest \in Seq(Tables) /\ IsInjective(rest)
      /\ Range(queue) = {n} \cup Range(rest) /\ n \notin Range(rest)
  BY <1>1, TailFacts
<1>3. n \notin Range(out)
  BY <1>1, <1>2
<1>4. /\ more \in Seq(Tables) /\ IsInjective(more) /\ Len(more) = Len(out) + 1
      /\ Range(more) = Range(out) \cup {n}
  BY <1>1, <1>2, <1>3, AppendFacts
<1> HIDE DEF n, rest, more
<1>5. /\ free \in Seq(Tables) /\ IsInjective(free)
      /\ \A t : t \in Range(free) <=>
                n \in Sources(links, t) /\ t \notin Range(more)
                  /\ Sources(links, t) \subseteq Range(more)
  BY FreedFacts
<1> HIDE DEF free
<1>6. Range(rest) \cap Range(free) = {}
  <2> SUFFICES ASSUME NEW t \in Range(rest), t \in Range(free) PROVE FALSE
    OBVIOUS
  <2>1. Sources(links, t) \subseteq Range(out) /\ n \in Sources(links, t)
    BY <1>1, <1>2, <1>5
  <2> QED
    BY <1>3, <2>1
<1>7. /\ rest \o free \in Seq(Tables) /\ IsInjective(rest \o free)
      /\ Range(rest \o free) = Range(rest) \cup Range(free)
  BY <1>2, <1>5, <1>6, ConcatFacts
<1>8. Range(rest \o free) \cap Range(more) = {}
  BY <1>1, <1>2, <1>4, <1>5, <1>7
<1>9. ASSUME NEW u
      PROVE  u \in Range(rest \o free) \cup Range(more)
               <=> u \in Seen(links) /\ Sources(links, u) \subseteq Range(more)
  <2>1. u \in Range(rest \o free) \cup Range(more)
          <=> u \in Range(queue) \cup Range(out) \/ u \in Range(free)
    BY <1>2, <1>4, <1>7
  <2>2. ASSUME u \in Range(free) PROVE u \in Seen(links)
    <3>1. n \in Sources(links, u)
      BY <1>5, <2>2
    <3> QED
      BY <3>1, SourcesMentioned DEF Seen
  <2>3. ASSUME u \in Seen(links), Sources(links, u) \subseteq Range(more)
        PROVE  u \in Range(queue) \cup Range(out) \/ u \in Range(free)
    <3>1. CASE n \in Sources(links, u)
      BY <1>2, <1>4, <1>5, <2>3, <3>1
    <3>2. CASE n \notin Sources(links, u)
      <4>1. Sources(links, u) \subseteq Range(out)
        BY <1>4, <2>3, <3>2
      <4> QED
        BY <1>1, <2>3, <4>1
    <3> QED
      BY <3>1, <3>2
  <2>4. ASSUME u \in Range(queue) \cup Range(out)
        PROVE  u \in Seen(links) /\ Sources(links, u) \subseteq Range(more)
    BY <1>1, <1>4, <2>4
  <2> QED
    BY <1>5, <2>1, <2>2, <2>3, <2>4
<1>10. SourcesBefore(links, more)
  <2>1. /\ Len(out) \in Nat /\ DOMAIN out = 1..Len(out) /\ DOMAIN more = 1..(Len(out) + 1)
        /\ \A i \in 1..Len(out) : more[i] = out[i]
        /\ more[Len(out) + 1] = n
    BY <1>1, <1>2, <1>4, AppendProperties DEF more
  <2> SUFFICES ASSUME NEW i \in 1..(Len(out) + 1), NEW u \in Sources(links, more[i])
               PROVE  \E j \in 1..(i - 1) : more[j] = u
    BY <2>1 DEF SourcesBefore
  <2>2. CASE i \in 1..Len(out)
    <3>1. PICK j \in 1..(i - 1) : out[j] = u
      BY <1>1, <2>1, <2>2 DEF SourcesBefore
    <3>2. j \in 1..Len(out)
      BY <2>1, <2>2
    <3> QED
      BY <2>1, <3>1, <3>2
  <2>3. CASE i = Len(out) + 1
    <3>1. u \in Range(out)
      <4>1. n \in Range(queue)
        BY <1>2
      <4> QED
        BY <1>1, <2>1, <2>3, <4>1
    <3>2. PICK j \in 1..Len(out) : out[j] = u
      BY <2>1, <3>1 DEF Range
    <3>3. j \in 1..(i - 1)
      BY <2>1, <2>3
    <3> QED
      BY <2>1, <3>2, <3>3
  <2>4. i \in 1..Len(out) \/ i = Len(out) + 1
    BY <2>1
  <2> QED
    BY <2>2, <2>3, <2>4
<1> QED
  BY <1>0, <1>4, <1>7, <1>8, <1>9, <1>10 DEF Placing, out

(* The rounds of the algorithm, as the recursive function has them. *)
Rounds(links, rounds, f) ==
  f = [n \in 0..rounds |-> IF n = 0 THEN [queue |-> Unsourced(links), out |-> <<>>]
                                  ELSE Place(links, f[n - 1])]

(* There is such a function for any number of rounds. *)
LEMMA RoundsExist ==
  ASSUME NEW links, NEW rounds \in Nat
  PROVE  \E f : Rounds(links, rounds, f)
<1> DEFINE S == {l \in Nat : \E f : Rounds(links, l, f)}
           start == [queue |-> Unsourced(links), out |-> <<>>]
<1>1. 0 \in S
  <2> DEFINE f == [n \in 0..0 |-> start]
  <2>1. Rounds(links, 0, f)
    <3>1. \A n \in 0..0 : n = 0
      OBVIOUS
    <3>2. f = [n \in 0..0 |-> IF n = 0 THEN start ELSE Place(links, f[n - 1])]
      BY <3>1
    <3> QED
      BY <3>2 DEF Rounds
  <2> QED
    BY <2>1
<1>2. ASSUME NEW l \in S PROVE l + 1 \in S
  <2>1. PICK f : Rounds(links, l, f)
    OBVIOUS
  <2> DEFINE g == [n \in 0..(l + 1) |-> IF n = 0 THEN start ELSE Place(links, f[n - 1])]
  <2>2. l \in Nat
    OBVIOUS
  <2>3. \A n \in 0..l : f[n] = IF n = 0 THEN start ELSE Place(links, f[n - 1])
    BY <2>1 DEF Rounds
  <2>4. \A n \in 0..l : n \in 0..(l + 1)
    BY <2>2
  <2>5. \A n \in 0..l : g[n] = f[n]
    BY <2>3, <2>4
  <2>6. \A n \in 0..(l + 1) : n # 0 => n - 1 \in 0..l
    BY <2>2
  <2>7. \A n \in 0..(l + 1) : n # 0 => Place(links, f[n - 1]) = Place(links, g[n - 1])
    BY <2>5, <2>6
  <2>8. g = [n \in 0..(l + 1) |-> IF n = 0 THEN start ELSE Place(links, g[n - 1])]
    BY <2>7
  <2>9. Rounds(links, l + 1, g)
    BY <2>8 DEF Rounds
  <2> QED
    BY <2>2, <2>9
<1> HIDE DEF S
<1>3. S \in SUBSET Nat
  BY DEF S
<1>4. rounds \in S
  BY <1>1, <1>2, <1>3, AllNumbers
<1> QED
  BY <1>4 DEF S

(* A function that fits gives the insert order. *)
LEMMA OrderOfRounds ==
  ASSUME NEW links, Linked(links)
  PROVE  \E f : /\ Rounds(links, Len(Mentioned(links)), f)
                /\ InsertOrder(links) = f[Len(Mentioned(links))].out
<1> DEFINE rounds == Len(Mentioned(links))
           f == CHOOSE g : Rounds(links, rounds, g)
<1>1. rounds \in Nat
  BY MentionedFacts
<1>2. Rounds(links, rounds, f)
  BY <1>1, RoundsExist
<1>3. InsertOrder(links) = f[rounds].out
  BY DEF InsertOrder, Rounds
<1> HIDE DEF f, rounds
<1> QED
  BY <1>2, <1>3 DEF rounds

(* What a round does to the two sequences. *)
LEMMA RoundFacts ==
  ASSUME NEW links, NEW rounds \in Nat, NEW f, Rounds(links, rounds, f)
  PROVE  /\ f[0].queue = Unsourced(links) /\ f[0].out = <<>>
         /\ \A n \in 0..rounds : n # 0 => f[n] = Place(links, f[n - 1])
<1>1. \A n \in 0..rounds : f[n] = IF n = 0 THEN [queue |-> Unsourced(links), out |-> <<>>]
                                         ELSE Place(links, f[n - 1])
  BY DEF Rounds
<1>2. 0 \in 0..rounds
  OBVIOUS
<1>3. f[0] = [queue |-> Unsourced(links), out |-> <<>>]
  BY <1>1, <1>2
<1>4. \A n \in 0..rounds : n # 0 => f[n] = Place(links, f[n - 1])
  BY <1>1
<1> QED
  BY <1>3, <1>4

(* After n rounds n tables are placed, or none is left to be placed. *)
LEMMA RoundsPlace ==
  ASSUME NEW links, Linked(links), NEW rounds \in Nat, NEW f, Rounds(links, rounds, f)
  PROVE  /\ Placing(links, f[rounds].queue, f[rounds].out)
         /\ Len(f[rounds].out) = rounds \/ f[rounds].queue = <<>>
<1> DEFINE good(n) == /\ Placing(links, f[n].queue, f[n].out)
                      /\ Len(f[n].out) = n \/ f[n].queue = <<>>
           S == {n \in Nat : n <= rounds => good(n)}
<1>1. /\ f[0].queue = Unsourced(links) /\ f[0].out = <<>>
      /\ \A n \in 0..rounds : n # 0 => f[n] = Place(links, f[n - 1])
  BY RoundFacts
<1>2. good(0)
  <2>1. Len(<<>>) = 0
    OBVIOUS
  <2> QED
    BY <1>1, <2>1, PlacingInit
<1>3. ASSUME NEW n \in Nat, good(n), n + 1 <= rounds PROVE good(n + 1)
  <2>1. n + 1 \in 0..rounds /\ n + 1 # 0 /\ (n + 1) - 1 = n
    BY <1>3
  <2>2. f[n + 1] = Place(links, f[n])
    BY <1>1, <2>1
  <2>3. CASE f[n].queue = <<>>
    <3>1. f[n + 1] = f[n]
      BY <2>2, <2>3 DEF Place
    <3> QED
      BY <1>3, <2>3, <3>1
  <2>4. CASE f[n].queue # <<>>
    <3>1. Placing(links, f[n].queue, f[n].out) /\ Len(f[n].out) = n
      BY <1>3, <2>4
    <3>2. /\ Placing(links, f[n + 1].queue, f[n + 1].out)
          /\ Len(f[n + 1].out) = Len(f[n].out) + 1
      BY <2>2, <2>4, <3>1, PlacingStep
    <3> QED
      BY <3>1, <3>2
  <2> HIDE DEF good
  <2> QED
    BY <2>3, <2>4
<1> HIDE DEF good
<1>4. 0 \in S
  BY <1>2
<1>5. \A n \in S : n + 1 \in S
  <2> SUFFICES ASSUME NEW n \in Nat, n <= rounds => good(n), n + 1 <= rounds
               PROVE  good(n + 1)
    OBVIOUS
  <2>1. n <= rounds
    OBVIOUS
  <2> QED
    BY <1>3, <2>1
<1>6. S \in SUBSET Nat
  OBVIOUS
<1> HIDE DEF S
<1>7. rounds \in S
  BY <1>4, <1>5, <1>6, AllNumbers
<1> QED
  BY <1>7 DEF S, good

(* Placed are the tables whose sources are placed, after them. *)
LEMMA OrderPlaces ==
  ASSUME NEW links, Linked(links), NEW out, out = InsertOrder(links)
  PROVE  /\ out \in Seq(Tables) /\ IsInjective(out)
         /\ \A t : t \in Range(out)
                 <=> t \in Seen(links) /\ Sources(links, t) \subseteq Range(out)
         /\ SourcesBefore(links, out)
         /\ Range(out) = Seen(links) <=> Ordered(links)
<1> DEFINE rounds == Len(Mentioned(links))
<1>1. /\ Mentioned(links) \in Seq(Tables) /\ IsInjective(Mentioned(links))
      /\ rounds \in Nat
  BY MentionedFacts
<1>2. IsFiniteSet(Seen(links)) /\ Cardinality(Seen(links)) = rounds
  BY <1>1, InjectiveLen DEF Seen
<1>3. PICK f : Rounds(links, rounds, f) /\ out = f[rounds].out
  BY OrderOfRounds
<1>4. rounds \in Nat
  BY <1>1
<1>5. Ordered(links) <=> Len(out) = rounds
  BY DEF Ordered
<1> HIDE DEF rounds
<1>6. /\ Placing(links, f[rounds].queue, out)
      /\ Len(out) = rounds \/ f[rounds].queue = <<>>
  BY <1>3, <1>4, RoundsPlace
<1> DEFINE queue == f[rounds].queue
<1>7. /\ queue \in Seq(Tables)
      /\ out \in Seq(Tables) /\ IsInjective(out)
      /\ Range(queue) \cap Range(out) = {}
      /\ \A t : t \in Range(queue) \cup Range(out)
                  <=> t \in Seen(links) /\ Sources(links, t) \subseteq Range(out)
      /\ SourcesBefore(links, out)
  BY <1>6 DEF Placing
<1> HIDE DEF queue
<1>8. IsFiniteSet(Range(out)) /\ Cardinality(Range(out)) = Len(out)
  BY <1>7, InjectiveLen
<1>9. Range(out) \in SUBSET Seen(links)
  BY <1>7
<1>10. Range(out) = Seen(links) <=> Len(out) = rounds
  BY <1>2, <1>8, <1>9, FS_Subset
<1>11. Range(queue) = {}
  <2>1. CASE Len(out) = rounds
    BY <1>7, <1>10, <2>1
  <2>2. CASE queue = <<>>
    <3>1. DOMAIN <<>> = {}
      OBVIOUS
    <3> QED
      BY <2>2, <3>1 DEF Range
  <2> QED
    BY <1>6, <2>1, <2>2 DEF queue
<1> QED
  BY <1>5, <1>7, <1>10, <1>11

(* The algorithm places every table exactly when no cycle keeps some back. *)
LEMMA OrderedCyclic ==
  ASSUME NEW links, Linked(links)
  PROVE  Ordered(links) <=> ~Cyclic(links)
<1> DEFINE out == InsertOrder(links)
<1>1. /\ out \in Seq(Tables) /\ IsInjective(out)
      /\ \A t : t \in Range(out)
              <=> t \in Seen(links) /\ Sources(links, t) \subseteq Range(out)
      /\ SourcesBefore(links, out)
      /\ Range(out) = Seen(links) <=> Ordered(links)
  BY OrderPlaces
<1>2. Seen(links) \subseteq Tables
  BY MentionedFacts, RangeOfSeq DEF Seen
<1>3. \A t : \A u \in Sources(links, t) : u \in Seen(links) /\ t \in Seen(links)
  BY SourcesMentioned DEF Seen
<1>4. DOMAIN out = 1..Len(out) /\ Len(out) \in Nat
  BY <1>1
<1> HIDE DEF out
<1>5. ASSUME Ordered(links), Cyclic(links) PROVE FALSE
  <2>1. PICK ts \in SUBSET Tables :
          ts # {} /\ \A t \in ts : Sources(links, t) \cap ts # {}
    BY <1>5 DEF Cyclic
  <2> DEFINE at == {i \in DOMAIN out : out[i] \in ts}
  <2>2. \A t \in ts : t \in Range(out)
    BY <1>1, <1>3, <1>5, <2>1
  <2>3. at # {} /\ at \in SUBSET Nat
    BY <1>4, <2>1, <2>2 DEF Range
  <2>4. PICK m \in at : \A i \in at : m <= i
    BY <2>3, Least
  <2>5. m \in DOMAIN out /\ out[m] \in ts /\ m \in Nat
    BY <2>3, <2>4
  <2>6. PICK u \in Sources(links, out[m]) : u \in ts
    BY <2>1, <2>5
  <2>7. PICK j \in 1..(m - 1) : out[j] = u
    BY <1>1, <2>5, <2>6 DEF SourcesBefore
  <2>8. j \in DOMAIN out /\ ~(m <= j)
    BY <1>4, <2>5
  <2>9. j \in at
    BY <2>6, <2>7, <2>8
  <2> QED
    BY <2>4, <2>8, <2>9
<1>6. ASSUME ~Ordered(links) PROVE Cyclic(links)
  <2> DEFINE ts == Seen(links) \ Range(out)
  <2>1. ts \in SUBSET Tables /\ ts # {}
    BY <1>1, <1>2, <1>6
  <2>2. ASSUME NEW t \in ts PROVE Sources(links, t) \cap ts # {}
    <3>1. PICK u \in Sources(links, t) : u \notin Range(out)
      BY <1>1, <2>2
    <3> QED
      BY <1>3, <3>1
  <2> HIDE DEF ts
  <2> QED
    BY <2>1, <2>2 DEF Cyclic
<1> QED
  BY <1>5, <1>6

-------------------------------------------------------------------------------
(* The inductive invariant. *)

(* The batch that attempt n is at. *)
BatchOf(n) == ((n - 1) % NB) + 1

TypeInv ==
  /\ conf \in Configs /\ synced \subseteq Tables /\ stage \in Stages
  /\ k \in 0..2 * NB /\ faults \in 0..MaxFaults
  /\ order \in Seq(Tables) /\ todo \in Seq(Tables)
  /\ DOMAIN made \subseteq Tables
  /\ content = [t \in Tables |-> content[t]]
  /\ result \in [1..NB -> [Tables -> Results]]

(* What saving has checked and a synchronisation cannot undo. *)
Checked ==
  /\ Ordered(conf.assocs)
  /\ With(conf.main, "BAD") = {}
  /\ \A a \in Assocs : /\ a.st # a.dt /\ a.st \in Scope
                       /\ a.st = Main => a.sc \notin With(conf.main, "SKIP")
  /\ \A t \in DOMAIN conf.related : With(conf.related[t], "BAD") = {}

Running == {"ready", "batch", "starved", "raised", "done"}

(* What each stage has behind it. *)
Settled ==
  /\ stage \notin {"draft", "rejected"} => Checked
  /\ stage = "broken" => ~Prepared
  /\ stage \in Running => Prepared /\ order = InsertOrder(conf.assocs)
  /\ IF stage \in {"batch", "starved", "raised"} THEN k # 0 ELSE todo = <<>> /\ made = <<>>

At(ord, t) == CHOOSE i \in DOMAIN ord : ord[i] = t

(* s is in the order of ord. *)
Along(ord, s) == \A i, j \in DOMAIN s : i < j => At(ord, s[i]) < At(ord, s[j])

(* What is left of an attempt is in insert order and has not succeeded. *)
TodoInv ==
  /\ Along(order, todo) /\ Range(todo) \subseteq Range(order)
  /\ \A t \in Range(todo) : result[BatchOf(k)][t] # "ok"

(* The rows of a table: when they were made, of what, and their logs. *)
RowInv(t, r) ==
  /\ r.run \in 1..k
  /\ DOMAIN r.val = Listed(t) /\ Listed(t) \subseteq Cols[t]
  /\ \A c \in Listed(t) : r.val[c] \in Values
  /\ result[BatchOf(r.run)][t] = "ok" /\ result[BatchOf(r.run)][Main] = "ok"
  /\ t = Main => \A c \in Driver : r.val[c] = <<Main, c, BatchOf(r.run)>>

RowsInv == \A t \in Tables : \A r \in content[t] : RowInv(t, r)

(* One row of a table in a batch. *)
OnceInv ==
  \A t \in Tables : \A q, r \in content[t] : BatchOf(q.run) = BatchOf(r.run) => q = r

(* The rows of an attempt were made after what they refer to. *)
AfterInv ==
  \A a \in Assocs : \A r \in content[a.dt] : r.run = k => a.st \notin Range(todo)

(* A log says what happened. *)
LogInv ==
  \A b \in 1..NB : \A t \in Tables :
    /\ b > k => result[b][t] = "none"
    /\ result[b][t] = "ok" /\ Listed(t) # {} => \E q \in content[t] : BatchOf(q.run) = b
    /\ result[b][t] = "failed" =>
         ~Refused(t) /\ (faults > 0 \/ ~(Listed(t) \subseteq Cols[t]))

(* The rows in memory are those of tables the attempt is through with. *)
MadeInv ==
  \A u \in DOMAIN made :
    /\ u \notin Range(todo)
    /\ DOMAIN made[u] = Listed(u) /\ \A c \in Listed(u) : made[u][c] \in Values
    /\ result[BatchOf(k)][u] \in {"ok", "failed"}
    /\ result[BatchOf(k)][u] = "ok" /\ Listed(u) # {} =>
         \E q \in content[u] : q.val = made[u]

(* A table that the attempt has passed was inserted, or not generated. *)
PassedInv ==
  todo # <<>> =>
    \A u \in Range(order) \ Range(todo) :
      \/ result[BatchOf(k)][u] = "ok"
      \/ u # Main /\ (u \in DOMAIN made \/ Refused(u))

IInv ==
  /\ TypeInv /\ Settled /\ TodoInv /\ RowsInv /\ OnceInv /\ AfterInv /\ LogInv
  /\ MadeInv /\ PassedInv /\ ForeignKeysMatch /\ SamplesFindRows

-------------------------------------------------------------------------------
(* The configuration does not change, and nothing that depends on it alone. *)

(* The fields of the tables stay what they are. *)
LEMMA SameFields ==
  ASSUME conf' = conf
  PROVE  /\ Assocs' = Assocs /\ Scope' = Scope /\ Driver' = Driver
         /\ \A t : Fields(t)' = Fields(t) /\ Listed(t)' = Listed(t)
<1>1. Assocs' = Assocs
  BY DEF Assocs
<1>2. Scope' = Scope
  BY <1>1 DEF Scope
<1>3. Driver' = Driver
  BY DEF Driver
<1>4. ASSUME NEW t PROVE Fields(t)' = Fields(t)
  <2>1. \A c : InferStrategy(t, c)' = InferStrategy(t, c)
    BY DEF InferStrategy
  <2> QED
    BY <2>1 DEF Fields
<1>5. ASSUME NEW t PROVE Listed(t)' = Listed(t)
  BY <1>4 DEF Listed
<1> QED
  BY <1>1, <1>2, <1>3, <1>4, <1>5

(* Whether a table is refused, and what was checked, stays what it is. *)
LEMMA SameRefused ==
  ASSUME conf' = conf
  PROVE  /\ \A t : Refused(t)' <=> Refused(t)
         /\ Checked' <=> Checked
<1>1. /\ Assocs' = Assocs /\ Scope' = Scope /\ Driver' = Driver
      /\ \A t : Fields(t)' = Fields(t) /\ Listed(t)' = Listed(t)
  BY SameFields
<1>2. ASSUME NEW t PROVE Given(t)' = Given(t)
  <2>1. Into(t)' = Into(t)
    BY <1>1 DEF Into
  <2>2. Injected(t)' = Injected(t)
    BY <2>1 DEF Injected
  <2>3. Overridden(t)' = Overridden(t)
    BY <1>1 DEF Overridden
  <2> QED
    BY <2>2, <2>3 DEF Given
<1>3. ASSUME NEW t PROVE Refused(t)' <=> Refused(t)
  <2>1. DerivedCycle(t)' <=> DerivedCycle(t)
    BY <1>1 DEF DerivedCycle
  <2> QED
    BY <1>1, <1>2, <2>1 DEF Refused
<1>4. Checked' <=> Checked
  BY <1>1 DEF Checked
<1> QED
  BY <1>3, <1>4

(* Nor does a preparation come out differently. *)
LEMMA SamePrepared ==
  ASSUME conf' = conf, synced' = synced
  PROVE  Prepared' <=> Prepared
<1>1. /\ Assocs' = Assocs /\ Scope' = Scope
      /\ \A t : Fields(t)' = Fields(t)
  BY SameFields
<1>2. \A a : SourceUsable(a)' <=> SourceUsable(a)
  BY <1>1 DEF SourceUsable
<1> QED
  BY <1>1, <1>2 DEF Prepared

-------------------------------------------------------------------------------
(* The number of a batch. *)

(* First all batches, then all of them again. *)
LEMMA BatchNumbers ==
  ASSUME NEW n \in 1..2 * NB
  PROVE  BatchOf(n) \in 1..NB /\ BatchOf(n) = IF n <= NB THEN n ELSE n - NB
<1>1. NB \in Nat /\ NB > 0 /\ n \in Nat /\ 1 <= n /\ n <= 2 * NB
  BY BoundsAssumption
<1>2. CASE n <= NB
  <2>1. n - 1 \in 0..(NB - 1)
    BY <1>1, <1>2
  <2>2. (n - 1) % NB = n - 1
    BY <1>1, <2>1
  <2> QED
    BY <1>1, <1>2, <2>2 DEF BatchOf
<1>3. CASE n > NB
  <2>1. (n - NB) - 1 \in 0..(NB - 1)
    BY <1>1, <1>3
  <2>2. (n - 1) % NB = (n - NB) - 1
    <3> DEFINE m == (n - NB) - 1
    <3>1. m \in Int /\ 0 <= m /\ m < NB /\ n - 1 = NB * 1 + m
      BY <1>1, <2>1
    <3> HIDE DEF m
    <3>2. (NB * 1 + m) % NB = m
      BY <1>1, <3>1
    <3> QED
      BY <3>1, <3>2 DEF m
  <2> QED
    BY <1>1, <1>3, <2>2 DEF BatchOf
<1> QED
  BY <1>1, <1>2, <1>3

(* Attempts of the same batch have the same remainder. *)
LEMMA SameBatch ==
  ASSUME NEW n \in 1..2 * NB, NEW m \in 1..2 * NB, n % NB = m % NB
  PROVE  BatchOf(n) = BatchOf(m)
<1>1. NB \in Nat /\ NB > 0 /\ n \in Int /\ m \in Int
  BY BoundsAssumption
<1> DEFINE r(i) == IF i < NB THEN i ELSE IF i < 2 * NB THEN i - NB ELSE 0
<1>2. ASSUME NEW i \in 1..2 * NB PROVE i % NB = r(i)
  <2>1. i \in Int /\ 1 <= i /\ i <= 2 * NB
    BY <1>1
  <2>2. CASE i < NB
    BY <1>1, <2>1, <2>2
  <2>3. CASE ~(i < NB) /\ i < 2 * NB
    <3> DEFINE j == i - NB
    <3>1. j \in Int /\ 0 <= j /\ j < NB /\ i = NB * 1 + j
      BY <1>1, <2>1, <2>3
    <3> HIDE DEF j
    <3>2. (NB * 1 + j) % NB = j
      BY <1>1, <3>1
    <3> QED
      BY <1>1, <2>3, <3>1, <3>2 DEF j
  <2>4. CASE i = 2 * NB
    <3>1. (NB * 2) % NB = 0
      BY <1>1
    <3>2. i = NB * 2 /\ ~(i < NB) /\ ~(i < 2 * NB)
      BY <1>1, <2>4
    <3> QED
      BY <3>1, <3>2
  <2> QED
    BY <1>1, <2>1, <2>2, <2>3, <2>4
<1>3. r(n) = r(m)
  BY <1>2
<1>4. /\ BatchOf(n) = IF n <= NB THEN n ELSE n - NB
      /\ BatchOf(m) = IF m <= NB THEN m ELSE m - NB
  BY BatchNumbers
<1>5. n <= 2 * NB /\ m <= 2 * NB /\ 1 <= n /\ 1 <= m
  BY <1>1
<1> QED
  BY <1>1, <1>3, <1>4, <1>5

-------------------------------------------------------------------------------
(* The insert order of a prepared case. *)

(* What the proofs use of the order. *)
Orderly(ord) ==
  /\ ord \in Seq(Tables) /\ IsInjective(ord) /\ ord # <<>>
  /\ Range(ord) = Scope /\ ord[1] = Main
  /\ \A a \in Assocs : At(ord, a.st) < At(ord, a.dt)

(* The place of a table in a sequence without repetition. *)
LEMMA AtFacts ==
  ASSUME NEW ord \in Seq(Tables), IsInjective(ord)
  PROVE  /\ \A i \in DOMAIN ord : At(ord, ord[i]) = i
         /\ \A t \in Range(ord) : At(ord, t) \in DOMAIN ord /\ ord[At(ord, t)] = t
<1>1. ASSUME NEW i \in DOMAIN ord PROVE At(ord, ord[i]) = i
  <2>1. At(ord, ord[i]) \in DOMAIN ord /\ ord[At(ord, ord[i])] = ord[i]
    BY DEF At
  <2> QED
    BY <2>1 DEF IsInjective
<1>2. \A t \in Range(ord) : \E i \in DOMAIN ord : t = ord[i]
  BY DEF Range
<1> QED
  BY <1>1, <1>2

(* The associations of a configuration. *)
LEMMA ConfLinked ==
  ASSUME conf \in Configs
  PROVE  /\ Linked(conf.assocs)
         /\ \A a \in Assocs : \E i \in DOMAIN conf.assocs : a = conf.assocs[i]
         /\ \A i \in DOMAIN conf.assocs : conf.assocs[i] \in Assocs
         /\ \A a \in Assocs : a.st \in Tables /\ a.dt \in Tables
                                /\ a.sc \in Columns /\ a.dc \in Columns
         /\ DOMAIN conf.main \subseteq Columns
         /\ \A t \in DOMAIN conf.related : DOMAIN conf.related[t] \subseteq Columns
<1>1. conf.assocs \in Seq(Association)
  BY ConfigsAssumption
<1>2. Linked(conf.assocs)
  BY <1>1, AssociationFacts
<1>3. \A i \in DOMAIN conf.assocs : conf.assocs[i] \in Association
  BY <1>1, SeqFacts
<1>4. /\ \A a \in Assocs : \E i \in DOMAIN conf.assocs : a = conf.assocs[i]
      /\ \A i \in DOMAIN conf.assocs : conf.assocs[i] \in Assocs
  BY DEF Assocs, Range
<1>5. \A a \in Assocs : a \in Association
  BY <1>3, <1>4
<1>6. \A a \in Assocs : a.st \in Tables /\ a.dt \in Tables
                          /\ a.sc \in Columns /\ a.dc \in Columns
  BY <1>5 DEF Association
<1> QED
  BY <1>2, <1>4, <1>6, ConfigsAssumption

(* The order that a preparation computes. *)
LEMMA OrderFacts ==
  ASSUME conf \in Configs, Checked, NEW ord, ord = InsertOrder(conf.assocs)
  PROVE  Orderly(ord)
<1> DEFINE links == conf.assocs
<1>1. /\ Linked(links)
      /\ \A a \in Assocs : \E i \in DOMAIN links : a = links[i]
      /\ \A i \in DOMAIN links : links[i] \in Assocs
      /\ \A a \in Assocs : a.st \in Tables /\ a.dt \in Tables
  BY ConfLinked
<1>2. Ordered(links) /\ \A a \in Assocs : a.st \in Scope
  BY DEF Checked
<1>3. ord = InsertOrder(links)
  OBVIOUS
<1> HIDE DEF links
<1>4. /\ ord \in Seq(Tables) /\ IsInjective(ord)
      /\ Range(ord) = Seen(links)
      /\ SourcesBefore(links, ord)
  BY <1>1, <1>2, <1>3, OrderPlaces
<1>5. Seen(links) = Scope
  <2>1. Seen(links) = {Main} \cup {links[i].st : i \in DOMAIN links}
                         \cup {links[i].dt : i \in DOMAIN links}
    BY <1>1, MentionedFacts DEF Seen
  <2>2. \A i \in DOMAIN links : links[i].st \in Scope /\ links[i].dt \in Scope
    BY <1>1, <1>2 DEF Scope
  <2>3. \A u \in Scope : u = Main \/ \E i \in DOMAIN links : u = links[i].dt
    BY <1>1 DEF Scope
  <2>4. Main \in Scope
    BY DEF Scope
  <2> QED
    BY <2>1, <2>2, <2>3, <2>4
<1>6. \A a \in Assocs : a.st \in Sources(links, a.dt)
  BY <1>1 DEF Sources
<1>7. Main \in Range(ord)
  BY <1>4, <1>5 DEF Scope
<1>8. DOMAIN ord = 1..Len(ord) /\ Len(ord) \in Nat
  BY <1>4
<1>9. ord # <<>> /\ 1 \in DOMAIN ord
  <2>1. PICK i \in 1..Len(ord) : ord[i] = Main
    BY <1>7, <1>8 DEF Range
  <2> QED
    BY <1>8
<1>10. ord[1] = Main
  <2>1. Sources(links, ord[1]) = {}
    <3> SUFFICES ASSUME NEW u \in Sources(links, ord[1]) PROVE FALSE
      OBVIOUS
    <3>1. \E j \in 1..(1 - 1) : ord[j] = u
      BY <1>4, <1>9 DEF SourcesBefore
    <3> QED
      BY <3>1
  <2>2. ord[1] \in Scope
    BY <1>4, <1>5, <1>9 DEF Range
  <2>3. \A a \in Assocs : a.dt # ord[1]
    BY <1>6, <2>1
  <2> QED
    BY <2>2, <2>3 DEF Scope
<1>11. ASSUME NEW a \in Assocs PROVE At(ord, a.st) < At(ord, a.dt)
  <2>1. a.dt \in Range(ord)
    BY <1>4, <1>5 DEF Scope
  <2>2. PICK i \in 1..Len(ord) : ord[i] = a.dt
    BY <1>8, <2>1 DEF Range
  <2>3. PICK j \in 1..(i - 1) : ord[j] = a.st
    BY <1>4, <1>6, <1>8, <2>2 DEF SourcesBefore
  <2>4. j \in 1..Len(ord) /\ j < i
    BY <1>8
  <2>5. At(ord, ord[i]) = i /\ At(ord, ord[j]) = j
    BY <1>4, <1>8, <2>4, AtFacts
  <2> QED
    BY <2>2, <2>3, <2>4, <2>5
<1> QED
  BY <1>4, <1>5, <1>9, <1>10, <1>11 DEF Orderly

(* An order is along itself, and so is what is filtered out of it. *)
LEMMA AlongFilter ==
  ASSUME NEW ord \in Seq(Tables), IsInjective(ord), NEW S
  PROVE  Along(ord, ord) /\ Along(ord, Filter(ord, S))
<1>1. \A i \in DOMAIN ord : At(ord, ord[i]) = i
  BY AtFacts
<1>2. Along(ord, ord)
  BY <1>1 DEF Along
<1> DEFINE s == Filter(ord, S)
<1>3. PICK f \in [DOMAIN s -> DOMAIN ord] :
        /\ \A n \in DOMAIN s : s[n] = ord[f[n]]
        /\ \A n, m \in DOMAIN s : n < m => f[n] < f[m]
  BY FilterFacts
<1> HIDE DEF s
<1>4. \A n \in DOMAIN s : At(ord, s[n]) = f[n]
  BY <1>1, <1>3
<1>5. Along(ord, s)
  BY <1>3, <1>4 DEF Along
<1> QED
  BY <1>2, <1>5 DEF s

(* The head of what is left comes before the rest. *)
LEMMA AlongTail ==
  ASSUME NEW ord, NEW s \in Seq(Tables), s # <<>>, Along(ord, s)
  PROVE  /\ Along(ord, Tail(s))
         /\ \A u \in Range(Tail(s)) : At(ord, Head(s)) < At(ord, u)
<1> DEFINE t == Tail(s)
<1>1. /\ t \in Seq(Tables) /\ Len(t) = Len(s) - 1
      /\ \A i \in 1..Len(t) : t[i] = s[i + 1]
      /\ Len(s) \in Nat \ {0} /\ Head(s) = s[1] /\ DOMAIN s = 1..Len(s)
      /\ DOMAIN t = 1..(Len(s) - 1)
  BY HeadTailProperties
<1> HIDE DEF t
<1>2. ASSUME NEW i \in DOMAIN t
      PROVE  i + 1 \in DOMAIN s /\ t[i] = s[i + 1] /\ i \in Nat /\ 1 < i + 1
  BY <1>1
<1>3. 1 \in DOMAIN s
  BY <1>1
<1>4. Along(ord, t)
  <2> SUFFICES ASSUME NEW i \in DOMAIN t, NEW j \in DOMAIN t, i < j
               PROVE  At(ord, t[i]) < At(ord, t[j])
    BY DEF Along
  <2>1. i + 1 < j + 1
    BY <1>2
  <2> QED
    BY <1>2, <2>1 DEF Along
<1>5. \A u \in Range(t) : At(ord, Head(s)) < At(ord, u)
  <2> SUFFICES ASSUME NEW i \in DOMAIN t PROVE At(ord, s[1]) < At(ord, t[i])
    BY <1>1 DEF Range
  <2> QED
    BY <1>2, <1>3 DEF Along
<1> QED
  BY <1>4, <1>5 DEF t

-------------------------------------------------------------------------------
(* The table an attempt is at, and its log. *)

(* The order of a case that runs. *)
LEMMA RunningOrder ==
  ASSUME TypeInv, Settled, stage \in Running
  PROVE  /\ Orderly(order) /\ Prepared /\ Checked
         /\ \A a \in Assocs : a.st \in Range(order) /\ a.dt \in Range(order) /\ a.dt # Main
<1>1. Checked /\ Prepared /\ order = InsertOrder(conf.assocs)
  BY DEF Settled, Running
<1>2. conf \in Configs
  BY DEF TypeInv
<1>3. Orderly(order)
  BY <1>1, <1>2, OrderFacts
<1>4. \A a \in Assocs : a.st \in Range(order) /\ a.dt \in Range(order)
  <2>1. \A a \in Assocs : a.st \in Scope /\ a.dt \in Scope
    BY <1>1 DEF Checked, Scope
  <2> QED
    BY <1>3, <2>1 DEF Orderly
<1>5. ASSUME NEW a \in Assocs PROVE a.dt # Main
  <2>1. /\ order \in Seq(Tables) /\ IsInjective(order) /\ order # <<>> /\ order[1] = Main
        /\ At(order, a.st) < At(order, a.dt)
    BY <1>3 DEF Orderly
  <2>2. 1 \in DOMAIN order
    BY <2>1
  <2>3. At(order, Main) = 1
    BY <2>1, <2>2, AtFacts
  <2>4. At(order, a.st) \in DOMAIN order
    BY <1>4, <2>1, AtFacts
  <2>5. At(order, a.st) \in Nat \ {0}
    BY <2>1, <2>4
  <2> QED
    BY <2>1, <2>3, <2>5
<1> QED
  BY <1>1, <1>3, <1>4, <1>5

(* The table an attempt is at comes first of what is left. *)
LEMMA CurrentFacts ==
  ASSUME TypeInv, Settled, TodoInv, NEW t, Current(t)
  PROVE  /\ stage = "batch" /\ todo # <<>> /\ t \in Tables /\ t \in Range(todo)
         /\ k \in 1..2 * NB /\ BatchOf(k) \in 1..NB /\ Batch = BatchOf(k)
         /\ result[BatchOf(k)][t] # "ok"
         /\ Range(todo) = {t} \cup Range(Tail(todo)) /\ t \notin Range(Tail(todo))
         /\ Tail(todo) \in Seq(Tables) /\ Along(order, Tail(todo))
         /\ Main \in Range(todo) => t = Main
         /\ \A a \in Into(t) : a.st \notin Range(todo)
<1>1. stage = "batch" /\ todo # <<>> /\ t = Head(todo)
  BY DEF Current
<1>2. /\ todo \in Seq(Tables) /\ k \in 0..2 * NB /\ NB \in Nat \ {0}
  BY BoundsAssumption DEF TypeInv
<1>3. t \in Tables /\ Tail(todo) \in Seq(Tables) /\ Range(todo) = {t} \cup Range(Tail(todo))
  BY <1>1, <1>2, TailFacts
<1>4. k \in 1..2 * NB
  <2>1. k # 0
    BY <1>1 DEF Settled
  <2> QED
    BY <1>2, <2>1
<1>5. BatchOf(k) \in 1..NB /\ Batch = BatchOf(k)
  BY <1>4, BatchNumbers DEF Batch, BatchOf
<1>6. result[BatchOf(k)][t] # "ok"
  BY <1>3 DEF TodoInv
<1>7. Along(order, todo) /\ Range(todo) \subseteq Range(order)
  BY DEF TodoInv
<1>8. /\ Along(order, Tail(todo))
      /\ \A u \in Range(Tail(todo)) : At(order, t) < At(order, u)
  BY <1>1, <1>2, <1>7, AlongTail
<1>9. /\ Orderly(order)
      /\ \A a \in Assocs : a.st \in Range(order)
  BY <1>1, RunningOrder DEF Running
<1>10. \A u \in Range(order) : At(order, u) \in Nat \ {0}
  <2>1. order \in Seq(Tables) /\ IsInjective(order)
    BY <1>9 DEF Orderly
  <2>2. \A u \in Range(order) : At(order, u) \in DOMAIN order
    BY <2>1, AtFacts
  <2> QED
    BY <2>1, <2>2
<1>11. At(order, Main) = 1
  <2>1. order \in Seq(Tables) /\ IsInjective(order) /\ order # <<>> /\ order[1] = Main
    BY <1>9 DEF Orderly
  <2>2. 1 \in DOMAIN order
    BY <2>1
  <2> QED
    BY <2>1, <2>2, AtFacts
<1>12. t \notin Range(Tail(todo))
  BY <1>3, <1>7, <1>8, <1>10
<1>13. Main \in Range(todo) => t = Main
  BY <1>3, <1>7, <1>8, <1>10, <1>11
<1>14. ASSUME NEW a \in Into(t) PROVE a.st \notin Range(todo)
  <2>1. a \in Assocs /\ a.dt = t
    BY DEF Into
  <2>2. At(order, a.st) < At(order, t)
    BY <1>9, <2>1 DEF Orderly
  <2>3. At(order, a.st) \in Nat /\ At(order, t) \in Nat
    BY <1>3, <1>7, <1>9, <1>10, <2>1
  <2>4. \A u \in Range(todo) : At(order, u) \in Nat /\ (u = t \/ At(order, t) < At(order, u))
    BY <1>3, <1>7, <1>8, <1>10
  <2> QED
    BY <2>2, <2>3, <2>4
<1> QED
  BY <1>1, <1>3, <1>4, <1>5, <1>6, <1>8, <1>12, <1>13, <1>14

(* What the log of a table changes. *)
LEMMA LogFacts ==
  ASSUME TypeInv, Settled, TodoInv, NEW t, Current(t), NEW r \in Results, Log(t, r)
  PROVE  /\ result' \in [1..NB -> [Tables -> Results]]
         /\ \A b \in 1..NB, u \in Tables :
              b # BatchOf(k) \/ u \notin Range(todo) => result'[b][u] = result[b][u]
         /\ result'[BatchOf(k)][t] = r
         /\ \A u \in Range(todo) \ {t} :
              result'[BatchOf(k)][u] = IF t = Main /\ r # "ok" THEN "skipped"
                                       ELSE result[BatchOf(k)][u]
         /\ todo' \in Seq(Tables) /\ Along(order, todo')
         /\ Range(todo') \subseteq Range(todo) \ {t}
         /\ todo' # <<>> => ~(t = Main /\ r # "ok") /\ Range(todo) = {t} \cup Range(todo')
<1> DEFINE b0 == BatchOf(k)
<1>1. /\ t \in Tables /\ t \in Range(todo) /\ b0 \in 1..NB /\ Batch = b0
      /\ Range(todo) = {t} \cup Range(Tail(todo)) /\ t \notin Range(Tail(todo))
      /\ Tail(todo) \in Seq(Tables) /\ Along(order, Tail(todo))
  BY CurrentFacts
<1>2. result \in [1..NB -> [Tables -> Results]] /\ todo \in Seq(Tables)
  BY DEF TypeInv
<1>3. Range(todo) \subseteq Tables
  BY <1>2, RangeOfSeq
<1> HIDE DEF b0
<1>4. CASE t = Main /\ r # "ok"
  <2> DEFINE row == [u \in Tables |-> IF u = t THEN r
                                      ELSE IF u \in Range(todo) THEN "skipped"
                                      ELSE result[b0][u]]
  <2>1. result' = [result EXCEPT ![b0] = row] /\ todo' = <<>>
    BY <1>1, <1>4 DEF Log
  <2>2. row \in [Tables -> Results]
    BY <1>1, <1>2 DEF Results
  <2>3. /\ row[t] = r
        /\ \A u \in Range(todo) \ {t} : row[u] = "skipped"
        /\ \A u \in Tables : u \notin Range(todo) => row[u] = result[b0][u]
    BY <1>1, <1>3
  <2> HIDE DEF row
  <2>4. DOMAIN <<>> = {} /\ <<>> \in Seq(Tables)
    OBVIOUS
  <2>5. Range(todo') = {} /\ Along(order, todo') /\ todo' \in Seq(Tables)
    BY <2>1, <2>4 DEF Range, Along
  <2>6. /\ result' \in [1..NB -> [Tables -> Results]] /\ result'[b0] = row
        /\ \A b \in 1..NB : b # b0 => result'[b] = result[b]
    BY <1>1, <1>2, <2>1, <2>2
  <2> QED
    BY <1>1, <1>4, <2>1, <2>3, <2>5, <2>6 DEF b0
<1>5. CASE ~(t = Main /\ r # "ok")
  <2> DEFINE row == [result[b0] EXCEPT ![t] = r]
  <2>1. result' = [result EXCEPT ![b0] = row] /\ todo' = Tail(todo)
    BY <1>1, <1>5 DEF Log
  <2>2. row \in [Tables -> Results]
    BY <1>1, <1>2
  <2>3. row[t] = r /\ \A u \in Tables : u # t => row[u] = result[b0][u]
    BY <1>1, <1>2
  <2> HIDE DEF row
  <2>4. /\ result' \in [1..NB -> [Tables -> Results]] /\ result'[b0] = row
        /\ \A b \in 1..NB : b # b0 => result'[b] = result[b]
    BY <1>1, <1>2, <2>1, <2>2
  <2> QED
    BY <1>1, <1>3, <1>5, <2>1, <2>3, <2>4 DEF b0
<1> QED
  BY <1>4, <1>5

-------------------------------------------------------------------------------
(* Steps: types and stages. *)

(* The initial state. *)
LEMMA InitHolds ==
  ASSUME Init
  PROVE  IInv
<1>1. /\ conf \in Configs /\ synced = Tables /\ stage = "draft" /\ order = <<>>
      /\ k = 0 /\ todo = <<>> /\ made = <<>> /\ content = [t \in Tables |-> {}]
      /\ result = [b \in 1..NB |-> [t \in Tables |-> "none"]] /\ faults = 0
  BY DEF Init
<1>2. NB \in Nat \ {0} /\ MaxFaults \in Nat
  BY BoundsAssumption
<1>3. DOMAIN <<>> = {} /\ <<>> \in Seq(Tables)
  OBVIOUS
<1>4. Range(<<>>) = {}
  BY <1>3 DEF Range
<1>5. \A t \in Tables : content[t] = {}
  BY <1>1
<1>6. \A a \in Assocs : a.dt \in Tables
  BY <1>1, ConfLinked
<1>7. \A b \in 1..NB : \A t \in Tables : result[b][t] = "none"
  BY <1>1
<1>8. TypeInv
  <2>1. result \in [1..NB -> [Tables -> Results]]
    BY <1>1 DEF Results
  <2>2. k \in 0..2 * NB /\ faults \in 0..MaxFaults
    BY <1>1, <1>2
  <2> QED
    BY <1>1, <1>3, <2>1, <2>2 DEF TypeInv, Stages
<1>9. Settled
  BY <1>1 DEF Settled, Running
<1>10. TodoInv /\ PassedInv
  BY <1>1, <1>3, <1>4 DEF TodoInv, Along, PassedInv
<1>11. RowsInv /\ OnceInv
  BY <1>5 DEF RowsInv, OnceInv
<1>12. AfterInv /\ ForeignKeysMatch
  BY <1>5, <1>6 DEF AfterInv, ForeignKeysMatch
<1>13. LogInv /\ MadeInv
  BY <1>1, <1>3, <1>7 DEF LogInv, MadeInv
<1>14. SamplesFindRows
  BY <1>1 DEF SamplesFindRows
<1> QED
  BY <1>8, <1>9, <1>10, <1>11, <1>12, <1>13, <1>14 DEF IInv

(* Rows are added to a table that exists. *)
LEMMA ContentType ==
  ASSUME content = [u \in Tables |-> content[u]], NEW t, NEW rows,
         content' = [content EXCEPT ![t] = rows]
  PROVE  content' = [u \in Tables |-> content'[u]]
OBVIOUS

(* The rows in memory are of tables of the data source. *)
LEMMA MakeType ==
  ASSUME DOMAIN made \subseteq Tables, NEW t \in Tables, NEW row, Make(t, row)
  PROVE  /\ DOMAIN made' = DOMAIN made \cup {t} /\ DOMAIN made' \subseteq Tables
         /\ made'[t] = row /\ \A u \in DOMAIN made : u # t => made'[u] = made[u]
BY DEF Make

(* Types are kept: before a case runs. *)
LEMMA TypePrepare ==
  ASSUME TypeInv, Save \/ Prepare \/ (\E t \in Tables : Forget(t)) \/ UNCHANGED vars
  PROVE  TypeInv'
<1>1. UNCHANGED <<conf, k, todo, made, content, result, faults>>
  BY DEF Save, Prepare, Forget, vars
<1>2. synced' \subseteq Tables /\ stage' \in Stages
  BY DEF TypeInv, Save, Prepare, Forget, vars, Stages
<1>3. order' \in Seq(Tables)
  <2>1. InsertOrder(conf.assocs) \in Seq(Tables)
    <3>1. Linked(conf.assocs)
      BY ConfLinked DEF TypeInv
    <3> QED
      BY <3>1, OrderPlaces
  <2> QED
    BY <2>1 DEF TypeInv, Save, Prepare, Forget, vars
<1> QED
  BY <1>1, <1>2, <1>3 DEF TypeInv

(* Types are kept: around an attempt. *)
LEMMA TypeBatch ==
  ASSUME TypeInv, StartBatch \/ EndBatch \/ (\E t \in Tables : SampleEmpty(t) \/ CallFails(t))
  PROVE  TypeInv'
<1>1. UNCHANGED <<conf, synced, order, content, result, faults>>
  BY DEF StartBatch, EndBatch, SampleEmpty, CallFails
<1>2. stage' \in Stages
  BY DEF StartBatch, EndBatch, SampleEmpty, CallFails, Stages
<1>3. DOMAIN made' \subseteq Tables
  <2>1. made' = <<>> \/ made' = made
    BY DEF StartBatch, EndBatch, SampleEmpty, CallFails
  <2>2. DOMAIN <<>> = {}
    OBVIOUS
  <2> QED
    BY <2>1, <2>2 DEF TypeInv
<1>4. k' \in 0..2 * NB
  <2>1. k' = k \/ (k < 2 * NB /\ k' = k + 1)
    BY DEF StartBatch, EndBatch, SampleEmpty, CallFails
  <2>2. k \in 0..2 * NB /\ NB \in Nat
    BY BoundsAssumption DEF TypeInv
  <2> QED
    BY <2>1, <2>2
<1>5. todo' \in Seq(Tables)
  <2>1. order \in Seq(Tables) /\ todo \in Seq(Tables)
    BY DEF TypeInv
  <2> DEFINE S == {t \in Tables : result[k + 1 - NB][t] # "ok"}
  <2>2. todo' = todo \/ todo' = order \/ todo' = Filter(order, S)
    BY DEF StartBatch, EndBatch, SampleEmpty, CallFails
  <2> HIDE DEF S
  <2>3. Filter(order, S) \in Seq(Tables)
    BY <2>1, FilterFacts
  <2> QED
    BY <2>1, <2>2, <2>3
<1> QED
  BY <1>1, <1>2, <1>3, <1>4, <1>5 DEF TypeInv

(* Types are kept: in an attempt. *)
LEMMA TypeLog ==
  ASSUME TypeInv, Settled, TodoInv, NEW t \in Tables,
         GenerateRefused(t) \/ Insert(t) \/ InsertFails(t)
  PROVE  TypeInv'
<1>1. UNCHANGED <<conf, synced, stage, order, k>>
  BY DEF GenerateRefused, Insert, InsertFails
<1>2. Current(t) /\ \E r \in Results : Log(t, r)
  BY DEF GenerateRefused, Insert, InsertFails, Results
<1>3. result' \in [1..NB -> [Tables -> Results]] /\ todo' \in Seq(Tables)
  BY <1>2, LogFacts
<1>4. content' = [u \in Tables |-> content'[u]]
  <2>1. content' = content \/ \E rows : content' = [content EXCEPT ![t] = rows]
    BY DEF GenerateRefused, Insert, InsertFails
  <2> QED
    BY <2>1, ContentType DEF TypeInv
<1>5. DOMAIN made' \subseteq Tables
  <2>1. made' = made \/ \E row : Make(t, row)
    BY DEF GenerateRefused, Insert, InsertFails
  <2> QED
    BY <2>1, MakeType DEF TypeInv
<1>6. faults' \in 0..MaxFaults
  <2>1. faults' = faults \/ (faults < MaxFaults /\ faults' = faults + 1)
    BY DEF GenerateRefused, Insert, InsertFails
  <2>2. faults \in 0..MaxFaults /\ MaxFaults \in Nat
    BY BoundsAssumption DEF TypeInv
  <2> QED
    BY <2>1, <2>2
<1> QED
  BY <1>1, <1>3, <1>4, <1>5, <1>6 DEF TypeInv

(* What is accepted is checked. *)
LEMMA AcceptedChecked ==
  ASSUME Accepted
  PROVE  Checked
<1>1. /\ With(conf.main, "BAD") = {} /\ Ordered(conf.assocs)
      /\ \A a \in Assocs : AssociationValid(a)
      /\ \A t \in DOMAIN conf.related : RelatedValid(t)
  BY DEF Accepted
<1>2. \A t \in DOMAIN conf.related : With(conf.related[t], "BAD") = {}
  BY <1>1 DEF RelatedValid
<1>3. ASSUME NEW a \in Assocs
      PROVE  /\ a.st # a.dt /\ a.st \in Scope
             /\ a.st = Main => a.sc \notin With(conf.main, "SKIP")
  <2>1. AssociationValid(a)
    BY <1>1
  <2> HIDE DEF With
  <2> QED
    BY <2>1 DEF AssociationValid
<1> QED
  BY <1>1, <1>2, <1>3 DEF Checked

(* Each stage has behind it what it says. *)
LEMMA SettledStep ==
  ASSUME TypeInv, Settled, [Next]_vars
  PROVE  Settled'
<1>1. conf' = conf
  BY DEF Next, Save, Prepare, Forget, StartBatch, EndBatch, SampleEmpty, CallFails,
         GenerateRefused, Insert, InsertFails, vars
<1>2. Checked' <=> Checked
  BY <1>1, SameRefused
<1>3. CASE Save
  <2>1. stage' \in {"saved", "rejected"} /\ (stage' = "saved" => Accepted)
        /\ stage = "draft" /\ UNCHANGED <<todo, made>>
    BY <1>3 DEF Save
  <2>2. stage' \notin {"draft", "rejected"} => Checked'
    BY <1>2, <2>1, AcceptedChecked
  <2> QED
    BY <2>1, <2>2 DEF Settled, Running
<1>4. CASE \E t \in Tables : Forget(t)
  <2>1. stage' = stage /\ stage \in {"draft", "saved"} /\ UNCHANGED <<todo, made>>
    BY <1>4 DEF Forget
  <2> QED
    BY <1>2, <2>1 DEF Settled, Running
<1>5. CASE Prepare
  <2>1. /\ stage = "saved" /\ UNCHANGED <<synced, todo, made>>
        /\ Prepared => stage' = "ready" /\ order' = InsertOrder(conf.assocs)
        /\ ~Prepared => stage' = "broken"
    BY <1>5 DEF Prepare
  <2>2. Prepared' <=> Prepared
    BY <1>1, <2>1, SamePrepared
  <2> QED
    BY <1>1, <1>2, <2>1, <2>2 DEF Settled, Running
<1>6. CASE StartBatch \/ EndBatch \/ \E t \in Tables : SampleEmpty(t) \/ CallFails(t)
  <2>1. /\ stage \in {"ready", "batch"} /\ UNCHANGED <<synced, order>>
        /\ stage' \in Running
        /\ IF stage' \in {"batch", "starved", "raised"}
           THEN k' = k + 1 \/ (stage = "batch" /\ k' = k)
           ELSE todo' = <<>> /\ made' = <<>>
    BY <1>6 DEF StartBatch, EndBatch, SampleEmpty, CallFails, Current, Running
  <2>2. Prepared' <=> Prepared
    BY <1>1, <2>1, SamePrepared
  <2>3. k + 1 # 0
    BY BoundsAssumption DEF TypeInv
  <2> QED
    BY <1>1, <1>2, <2>1, <2>2, <2>3 DEF Settled, Running
<1>7. CASE \E t \in Tables : GenerateRefused(t) \/ Insert(t) \/ InsertFails(t)
  <2>1. stage = "batch" /\ UNCHANGED <<stage, synced, order, k>>
    BY <1>7 DEF GenerateRefused, Insert, InsertFails, Current
  <2>2. Prepared' <=> Prepared
    BY <1>1, <2>1, SamePrepared
  <2> QED
    BY <1>1, <1>2, <2>1, <2>2 DEF Settled, Running
<1>8. CASE UNCHANGED vars
  <2>1. UNCHANGED <<stage, synced, order, k, todo, made>>
    BY <1>8 DEF vars
  <2>2. Prepared' <=> Prepared
    BY <1>1, <2>1, SamePrepared
  <2> QED
    BY <1>1, <1>2, <2>1, <2>2 DEF Settled
<1> QED
  BY <1>3, <1>4, <1>5, <1>6, <1>7, <1>8 DEF Next

-------------------------------------------------------------------------------
(* Steps: rows and logs, outside of an attempt. *)

RunInv ==
  /\ TodoInv /\ RowsInv /\ OnceInv /\ AfterInv /\ LogInv /\ MadeInv /\ PassedInv
  /\ ForeignKeysMatch

(* A step that leaves the rows and the logs alone. *)
LEMMA QuietStep ==
  ASSUME TypeInv, RunInv,
         UNCHANGED <<conf, k, todo, content, result, faults>>,
         order' = order \/ todo = <<>>,
         made' = made \/ (made' = <<>> /\ todo = <<>>)
  PROVE  RunInv'
<1>1. /\ Assocs' = Assocs /\ Driver' = Driver
      /\ \A t : Listed(t)' = Listed(t)
  BY SameFields
<1>2. \A t : Refused(t)' <=> Refused(t)
  BY SameRefused
<1>3. DOMAIN <<>> = {}
  OBVIOUS
<1>4. TodoInv'
  <2>1. CASE order' = order
    BY <2>1 DEF RunInv, TodoInv
  <2>2. CASE todo = <<>>
    <3>1. todo' = <<>> /\ Range(todo') = {}
      BY <1>3, <2>2 DEF Range
    <3> QED
      BY <1>3, <3>1 DEF TodoInv, Along
  <2> QED
    BY <2>1, <2>2
<1>5. RowsInv'
  BY <1>1 DEF RunInv, RowsInv, RowInv
<1>6. OnceInv' /\ AfterInv'
  BY <1>1 DEF RunInv, OnceInv, AfterInv
<1>7. LogInv'
  BY <1>1, <1>2 DEF RunInv, LogInv
<1>8. MadeInv'
  BY <1>1, <1>3 DEF RunInv, MadeInv
<1>9. PassedInv'
  <2>1. CASE todo = <<>>
    BY <2>1 DEF PassedInv
  <2>2. CASE todo # <<>>
    BY <1>2, <2>2 DEF RunInv, PassedInv
  <2> QED
    BY <2>1, <2>2
<1>10. ForeignKeysMatch'
  BY <1>1 DEF RunInv, ForeignKeysMatch
<1> QED
  BY <1>4, <1>5, <1>6, <1>7, <1>8, <1>9, <1>10 DEF RunInv

(* Steps that leave the rows and the logs alone. *)
LEMMA QuietSteps ==
  ASSUME TypeInv, Settled, RunInv,
         \/ Save \/ Prepare \/ EndBatch \/ UNCHANGED vars
         \/ \E t \in Tables : Forget(t) \/ SampleEmpty(t) \/ CallFails(t)
  PROVE  RunInv'
<1>1. UNCHANGED <<conf, k, todo, content, result, faults>>
  BY DEF Save, Prepare, EndBatch, Forget, SampleEmpty, CallFails, vars
<1>2. order' = order \/ todo = <<>>
  BY DEF Save, Prepare, EndBatch, Forget, SampleEmpty, CallFails, vars, Settled
<1>3. made' = made \/ (made' = <<>> /\ todo = <<>>)
  BY DEF Save, Prepare, EndBatch, Forget, SampleEmpty, CallFails, vars
<1> QED
  BY <1>1, <1>2, <1>3, QuietStep

(* What an attempt is to insert: every table, or those without success. *)
LEMMA StartTodo ==
  ASSUME TypeInv, Settled, RunInv, StartBatch
  PROVE  /\ k' \in 1..2 * NB /\ k' = k + 1 /\ BatchOf(k') \in 1..NB
         /\ Along(order, todo') /\ Range(todo') \subseteq Range(order)
         /\ \A t \in Range(todo') : result[BatchOf(k')][t] # "ok"
         /\ \A t \in Range(order) \ Range(todo') : result[BatchOf(k')][t] = "ok"
<1>1. stage = "ready" /\ k < 2 * NB /\ k' = k + 1
  BY DEF StartBatch
<1>2. k \in Nat /\ NB \in Nat \ {0} /\ order \in Seq(Tables)
  BY BoundsAssumption DEF TypeInv
<1>3. k' \in 1..2 * NB
  BY <1>1, <1>2
<1>4. BatchOf(k') \in 1..NB /\ BatchOf(k') = IF k' <= NB THEN k' ELSE k' - NB
  BY <1>3, BatchNumbers
<1>5. Orderly(order)
  BY <1>1, RunningOrder DEF Running
<1>6. IsInjective(order)
  BY <1>5 DEF Orderly
<1>7. Range(order) \subseteq Tables
  BY <1>2, RangeOfSeq
<1>8. CASE k < NB
  <2>1. todo' = order
    BY <1>8 DEF StartBatch
  <2>2. Along(order, order)
    BY <1>2, <1>6, AlongFilter
  <2>3. BatchOf(k') = k + 1
    BY <1>1, <1>2, <1>4, <1>8
  <2>4. \A t \in Tables : result[BatchOf(k')][t] = "none"
    <3>1. BatchOf(k') > k
      BY <1>2, <2>3
    <3> QED
      BY <1>4, <3>1 DEF RunInv, LogInv
  <2> QED
    BY <1>1, <1>3, <1>4, <1>7, <2>1, <2>2, <2>4
<1>9. CASE ~(k < NB)
  <2> DEFINE S == {t \in Tables : result[k + 1 - NB][t] # "ok"}
  <2>1. todo' = Filter(order, S)
    BY <1>9 DEF StartBatch
  <2>2. BatchOf(k') = k + 1 - NB
    BY <1>1, <1>2, <1>4, <1>9
  <2>3. \A t \in Tables : t \in S <=> result[BatchOf(k')][t] # "ok"
    BY <2>2
  <2> HIDE DEF S
  <2>4. Along(order, todo')
    BY <1>2, <1>6, <2>1, AlongFilter
  <2>5. Range(todo') = Range(order) \cap S
    BY <1>2, <2>1, FilterFacts
  <2> QED
    BY <1>1, <1>3, <1>4, <1>7, <2>3, <2>4, <2>5
<1> QED
  BY <1>8, <1>9

(* The start of an attempt. *)
LEMMA StartStep ==
  ASSUME TypeInv, Settled, RunInv, StartBatch
  PROVE  RunInv'
<1>1. UNCHANGED <<conf, synced, order, content, result, faults>> /\ made' = <<>>
  BY DEF StartBatch
<1>2. /\ Assocs' = Assocs /\ Driver' = Driver
      /\ \A t : Listed(t)' = Listed(t)
  BY <1>1, SameFields
<1>3. \A t : Refused(t)' <=> Refused(t)
  BY <1>1, SameRefused
<1>4. /\ k' \in 1..2 * NB /\ k' = k + 1 /\ BatchOf(k') \in 1..NB
      /\ Along(order, todo') /\ Range(todo') \subseteq Range(order)
      /\ \A t \in Range(todo') : result[BatchOf(k')][t] # "ok"
      /\ \A t \in Range(order) \ Range(todo') : result[BatchOf(k')][t] = "ok"
  BY StartTodo
<1>5. k \in Nat /\ NB \in Nat
  BY BoundsAssumption DEF TypeInv
<1>6. TodoInv'
  BY <1>1, <1>4 DEF TodoInv
<1>7. RowsInv'
  <2> SUFFICES ASSUME NEW t \in Tables, NEW r \in content[t] PROVE RowInv(t, r)'
    BY <1>1 DEF RowsInv
  <2>1. RowInv(t, r)
    BY DEF RunInv, RowsInv
  <2>2. r.run \in 1..k'
    <3>1. r.run \in 1..k
      BY <2>1 DEF RowInv
    <3> QED
      BY <1>4, <1>5, <3>1
  <2> QED
    BY <1>1, <1>2, <2>1, <2>2 DEF RowInv
<1>8. OnceInv'
  BY <1>1 DEF RunInv, OnceInv
<1>9. AfterInv'
  <2> SUFFICES ASSUME NEW a \in Assocs, NEW r \in content[a.dt], r.run = k' PROVE FALSE
    BY <1>1, <1>2 DEF AfterInv
  <2>1. a.dt \in Tables
    BY ConfLinked DEF TypeInv
  <2>2. r.run \in 1..k
    BY <2>1 DEF RunInv, RowsInv, RowInv
  <2> QED
    BY <1>4, <1>5, <2>2
<1>10. LogInv'
  <2> SUFFICES ASSUME NEW b \in 1..NB, NEW t \in Tables
               PROVE
      /\ b > k' => result[b][t] = "none"
      /\ result[b][t] = "ok" /\ Listed(t) # {} => \E q \in content[t] : BatchOf(q.run) = b
      /\ result[b][t] = "failed" =>
           ~Refused(t) /\ (faults > 0 \/ ~(Listed(t) \subseteq Cols[t]))
    BY <1>1, <1>2, <1>3 DEF LogInv
  <2>1. b > k' => b > k
    BY <1>4, <1>5
  <2> QED
    BY <2>1 DEF RunInv, LogInv
<1>11. MadeInv'
  <2>1. DOMAIN made' = {}
    BY <1>1
  <2> QED
    BY <2>1 DEF MadeInv
<1>12. PassedInv'
  BY <1>1, <1>4 DEF PassedInv
<1>13. ForeignKeysMatch'
  <2> SUFFICES ASSUME NEW a \in Assocs, NEW r \in content[a.dt], a.dc \in DOMAIN r.val
               PROVE
      \/ \E q \in content[a.st] : q.val[a.sc] = r.val[a.dc]
      \/ a.st # Main /\ \/ result[((r.run - 1) % NB) + 1][a.st] = "failed"
                        \/ r.run <= NB /\ k' > NB /\ faults > 0
    BY <1>1, <1>2 DEF ForeignKeysMatch
  <2>1. k > NB => k' > NB
    BY <1>4, <1>5
  <2> QED
    BY <2>1 DEF RunInv, ForeignKeysMatch
<1> QED
  BY <1>6, <1>7, <1>8, <1>9, <1>10, <1>11, <1>12, <1>13 DEF RunInv

-------------------------------------------------------------------------------
(* Steps: a table of an attempt. *)

Outcomes == {"ok", "refused", "failed"}

(* Row that the attempt makes for t. *)
NewRow(t, row) == \E inj \in Injections(t) : row = RowOf(t, inj)

(* What the outcome r of table t does to the rows in the database. *)
RowsEffect(t, r) ==
  /\ \A u \in Tables : content[u] \subseteq content'[u]
  /\ \A u \in Tables : u # t \/ r # "ok" => content'[u] = content[u]
  /\ \A q \in content'[t] : q \in content[t] \/ (q.run = k /\ NewRow(t, q.val))
  /\ \A p, q \in content'[t] : p \notin content[t] /\ q \notin content[t] => p = q
  /\ r = "ok" => /\ Listed(t) \subseteq Cols[t]
                 /\ Listed(t) # {} => \E q \in content'[t] : q.run = k

(* What it does to the rows in memory. *)
MadeEffect(t, r) ==
  /\ \A u \in DOMAIN made' : u # t => u \in DOMAIN made /\ made'[u] = made[u]
  /\ DOMAIN made \subseteq DOMAIN made'
  /\ t \in DOMAIN made' <=> r # "refused"
  /\ r # "refused" => NewRow(t, made'[t])
  /\ r = "ok" /\ Listed(t) # {} => \E q \in content'[t] : q.val = made'[t]

Effect(t, r) ==
  /\ UNCHANGED <<conf, synced, stage, order, k>>
  /\ Current(t) /\ Log(t, r) /\ r \in Outcomes
  /\ RowsEffect(t, r) /\ MadeEffect(t, r)
  /\ Refused(t) <=> r = "refused"
  /\ (faults > 0 => faults' > 0)
  /\ r = "failed" => faults' > 0 \/ ~(Listed(t) \subseteq Cols[t])

(* A table that is refused. *)
LEMMA RefusedEffect ==
  ASSUME TypeInv, Settled, RunInv, NEW t \in Tables, GenerateRefused(t)
  PROVE  Effect(t, "refused")
<1>1. /\ Current(t) /\ Log(t, "refused") /\ Refused(t)
      /\ UNCHANGED <<conf, synced, stage, order, k, made, content, faults>>
  BY DEF GenerateRefused
<1>2. RowsEffect(t, "refused")
  BY <1>1 DEF RowsEffect
<1>3. t \notin DOMAIN made
  <2>1. t \in Range(todo)
    BY <1>1, CurrentFacts DEF RunInv
  <2> QED
    BY <2>1 DEF RunInv, MadeInv
<1>4. MadeEffect(t, "refused")
  BY <1>1, <1>3 DEF MadeEffect
<1>5. (faults > 0 => faults' > 0)
  BY <1>1, BoundsAssumption DEF TypeInv
<1> QED
  BY <1>1, <1>2, <1>4, <1>5 DEF Effect, Outcomes

(* A table that is inserted. *)
LEMMA InsertEffect ==
  ASSUME TypeInv, Settled, RunInv, NEW t \in Tables, Insert(t)
  PROVE  Effect(t, "ok")
<1>1. /\ Current(t) /\ Log(t, "ok") /\ ~Refused(t) /\ Listed(t) \subseteq Cols[t]
      /\ UNCHANGED <<conf, synced, stage, order, k, faults>>
  BY DEF Insert
<1>2. PICK inj \in Injections(t) :
        /\ Make(t, RowOf(t, inj))
        /\ content' = IF Listed(t) = {} THEN content
                      ELSE [content EXCEPT ![t] =
                              @ \cup {[run |-> k, val |-> RowOf(t, inj)]}]
  BY DEF Insert
<1> DEFINE row == RowOf(t, inj)
           new == [run |-> k, val |-> row]
<1>3. new.run = k /\ new.val = row
  OBVIOUS
<1>4. NewRow(t, row)
  BY DEF NewRow
<1>5. content = [u \in Tables |-> content[u]] /\ DOMAIN made \subseteq Tables
  BY DEF TypeInv
<1>6. IF Listed(t) = {} THEN content' = content
      ELSE content' = [content EXCEPT ![t] = content[t] \cup {new}]
  BY <1>2
<1> HIDE DEF row, new
<1>7. RowsEffect(t, "ok")
  <2>1. CASE Listed(t) = {}
    BY <1>1, <1>6, <2>1 DEF RowsEffect
  <2>2. CASE Listed(t) # {}
    <3>1. /\ content'[t] = content[t] \cup {new}
          /\ \A u \in Tables : u # t => content'[u] = content[u]
      BY <1>5, <1>6, <2>2
    <3> QED
      BY <1>1, <1>3, <1>4, <3>1 DEF RowsEffect
  <2> QED
    BY <2>1, <2>2
<1>8. MadeEffect(t, "ok")
  <2>1. Make(t, row)
    BY <1>2 DEF row
  <2>2. /\ DOMAIN made' = DOMAIN made \cup {t} /\ made'[t] = row
        /\ \A u \in DOMAIN made : u # t => made'[u] = made[u]
    BY <1>5, <2>1, MakeType
  <2>3. Listed(t) # {} => new \in content'[t]
    BY <1>5, <1>6
  <2> QED
    BY <1>3, <1>4, <2>2, <2>3 DEF MadeEffect
<1>9. (faults > 0 => faults' > 0)
  BY <1>1, BoundsAssumption DEF TypeInv
<1> QED
  BY <1>1, <1>7, <1>8, <1>9 DEF Effect, Outcomes

(* A table whose insert fails. *)
LEMMA FailsEffect ==
  ASSUME TypeInv, Settled, RunInv, NEW t \in Tables, InsertFails(t)
  PROVE  Effect(t, "failed")
<1>1. /\ Current(t) /\ Log(t, "failed") /\ ~Refused(t)
      /\ UNCHANGED <<conf, synced, stage, order, k, content>>
  BY DEF InsertFails
<1>2. PICK inj \in Injections(t) : Make(t, RowOf(t, inj))
  BY DEF InsertFails
<1>3. RowsEffect(t, "failed")
  BY <1>1 DEF RowsEffect
<1>4. MadeEffect(t, "failed")
  <2> DEFINE row == RowOf(t, inj)
  <2>1. NewRow(t, row)
    BY DEF NewRow
  <2>2. /\ DOMAIN made' = DOMAIN made \cup {t} /\ made'[t] = row
        /\ \A u \in DOMAIN made : u # t => made'[u] = made[u]
    BY <1>2, MakeType DEF TypeInv
  <2> HIDE DEF row
  <2> QED
    BY <2>1, <2>2 DEF MadeEffect
<1>5. (faults > 0 => faults' > 0) /\ (faults' > 0 \/ ~(Listed(t) \subseteq Cols[t]))
  <2>1. IF Listed(t) \subseteq Cols[t] THEN faults' = faults + 1 ELSE faults' = faults
    BY DEF InsertFails
  <2>2. faults \in Nat
    BY BoundsAssumption DEF TypeInv
  <2> QED
    BY <2>1, <2>2
<1> QED
  BY <1>1, <1>3, <1>4, <1>5 DEF Effect, Outcomes

(* What a row is made of. *)
LEMMA NewRowFacts ==
  ASSUME TypeInv, Settled, RunInv, NEW t \in Tables, Current(t), NEW row, NewRow(t, row)
  PROVE  /\ DOMAIN row = Listed(t) /\ \A c \in Listed(t) : row[c] \in Values
         /\ t = Main => \A c \in Driver : row[c] = <<Main, c, BatchOf(k)>>
         /\ \A a \in Into(t) : a.dc \in Listed(t) => row[a.dc] \in SourceValues(a)
<1>1. PICK inj \in Injections(t) : row = RowOf(t, inj)
  BY DEF NewRow
<1>2. /\ stage = "batch" /\ k \in 1..2 * NB /\ BatchOf(k) \in 1..NB /\ Batch = BatchOf(k)
  BY CurrentFacts DEF RunInv
<1>3. /\ Prepared /\ \A a \in Assocs : a.dt # Main
  BY <1>2, RunningOrder DEF Running
<1>4. conf \in Configs /\ NB \in Nat
  BY BoundsAssumption DEF TypeInv
<1>5. /\ \A a \in Assocs : /\ a.st \in Tables /\ a.dt \in Tables
                           /\ a.sc \in Columns /\ a.dc \in Columns
      /\ DOMAIN conf.main \subseteq Columns
      /\ \A u \in DOMAIN conf.related : DOMAIN conf.related[u] \subseteq Columns
  BY <1>4, ConfLinked
<1>6. Listed(t) \subseteq Columns
  <2>1. DOMAIN Fields(t) \subseteq Columns
    <3>1. Cols[t] \subseteq Columns
      BY DEF Columns
    <3> QED
      BY <1>5, <3>1 DEF Fields
  <2> QED
    BY <2>1 DEF Listed
<1>7. Driver \subseteq Listed(Main)
  BY DEF Driver, Listed, With, Fields
<1>8. \A b \in 1..NB : b \in 1..2 * NB
  BY <1>4
<1>9. Driver \subseteq Columns
  BY <1>5 DEF Driver, With
<1>10. ASSUME NEW a \in Into(t), NEW v \in SourceValues(a) PROVE v \in Values
  <2>1. a \in Assocs /\ a.sc \in Listed(a.st)
    BY <1>3 DEF Into, Prepared, SourceUsable, Listed
  <2>2. CASE a.st = Main /\ a.sc \in Driver
    BY <1>2, <1>5, <1>8, <2>1, <2>2 DEF SourceValues, Values
  <2>3. CASE ~(a.st = Main /\ a.sc \in Driver) /\ a.st \in DOMAIN made
    BY <2>1, <2>3 DEF SourceValues, RunInv, MadeInv
  <2>4. CASE ~(a.st = Main /\ a.sc \in Driver) /\ a.st \notin DOMAIN made
    <3>1. PICK r \in content[a.st] : v = r.val[a.sc]
      BY <2>4 DEF SourceValues
    <3>2. RowInv(a.st, r)
      BY <1>5, <2>1 DEF RunInv, RowsInv
    <3> QED
      BY <2>1, <3>1, <3>2 DEF RowInv
  <2> QED
    BY <2>2, <2>3, <2>4
<1>11. \A a \in Into(t) : inj[a.dc] \in SourceValues(a)
  BY DEF Injections
<1>12. DOMAIN row = Listed(t)
       /\ \A c \in Listed(t) : row[c] = IF c \in Overridden(t) THEN <<t, c, Batch>>
                                        ELSE IF c \in Injected(t) THEN inj[c] ELSE <<t, c, k>>
  BY <1>1 DEF RowOf
<1>13. ASSUME NEW c \in Listed(t) PROVE row[c] \in Values
  <2>1. c \in Columns
    BY <1>6
  <2>2. CASE c \in Overridden(t)
    BY <1>2, <1>8, <1>12, <2>1, <2>2 DEF Values
  <2>3. CASE c \notin Overridden(t) /\ c \in Injected(t)
    <3>1. PICK a \in Into(t) : c = a.dc
      BY <2>3 DEF Injected
    <3> QED
      BY <1>10, <1>11, <1>12, <2>3, <3>1
  <2>4. CASE c \notin Overridden(t) /\ c \notin Injected(t)
    BY <1>2, <1>12, <2>1, <2>4 DEF Values
  <2> QED
    BY <2>2, <2>3, <2>4
<1>14. t = Main => \A c \in Driver : row[c] = <<Main, c, BatchOf(k)>>
  BY <1>2, <1>7, <1>12 DEF Overridden
<1>15. ASSUME NEW a \in Into(t), a.dc \in Listed(t) PROVE row[a.dc] \in SourceValues(a)
  <2>1. a.dc \in Injected(t) /\ t # Main
    BY <1>3 DEF Into, Injected
  <2> QED
    BY <1>11, <1>12, <1>15, <2>1 DEF Overridden
<1> QED
  BY <1>12, <1>13, <1>14, <1>15

(* What a log leaves: successes, the tables passed, the order of the rest. *)
LEMMA Logged ==
  ASSUME TypeInv, Settled, RunInv, NEW t \in Tables, NEW r, Effect(t, r)
  PROVE  /\ BatchOf(k) \in 1..NB /\ k \in 1..2 * NB
         /\ t \in Range(todo) /\ result[BatchOf(k)][t] # "ok"
         /\ \A b \in 1..NB, u \in Tables :
              b # BatchOf(k) \/ u \notin Range(todo) => result'[b][u] = result[b][u]
         /\ \A b \in 1..NB, u \in Tables : result[b][u] = "ok" => result'[b][u] = "ok"
         /\ result'[BatchOf(k)][t] = r
         /\ \A u \in Range(todo) \ {t} :
              result'[BatchOf(k)][u] = IF t = Main /\ r # "ok" THEN "skipped"
                                       ELSE result[BatchOf(k)][u]
         /\ Along(order, todo') /\ Range(todo') \subseteq Range(todo) \ {t}
         /\ todo' # <<>> => ~(t = Main /\ r # "ok") /\ Range(todo) = {t} \cup Range(todo')
         /\ Range(todo) \subseteq Tables
<1>1. Current(t) /\ r \in Results /\ Log(t, r) /\ TodoInv
  BY DEF Effect, Outcomes, Results, RunInv
<1>2. /\ t \in Range(todo) /\ BatchOf(k) \in 1..NB /\ k \in 1..2 * NB
      /\ result[BatchOf(k)][t] # "ok"
  BY <1>1, CurrentFacts
<1>3. /\ \A b \in 1..NB, u \in Tables :
           b # BatchOf(k) \/ u \notin Range(todo) => result'[b][u] = result[b][u]
      /\ result'[BatchOf(k)][t] = r
      /\ \A u \in Range(todo) \ {t} :
           result'[BatchOf(k)][u] = IF t = Main /\ r # "ok" THEN "skipped"
                                    ELSE result[BatchOf(k)][u]
      /\ Along(order, todo') /\ Range(todo') \subseteq Range(todo) \ {t}
      /\ todo' # <<>> => ~(t = Main /\ r # "ok") /\ Range(todo) = {t} \cup Range(todo')
  BY <1>1, LogFacts
<1>4. \A u \in Range(todo) : result[BatchOf(k)][u] # "ok"
  BY <1>1 DEF TodoInv
<1>5. \A b \in 1..NB, u \in Tables : result[b][u] = "ok" => result'[b][u] = "ok"
  BY <1>3, <1>4
<1>6. Range(todo) \subseteq Tables
  BY RangeOfSeq DEF TypeInv
<1> QED
  BY <1>2, <1>3, <1>5, <1>6

(* The batch of a row, and what its logs say. *)
LEMMA RowFacts ==
  ASSUME TypeInv, RunInv, NEW u \in Tables, NEW r \in content[u]
  PROVE  /\ RowInv(u, r) /\ r.run \in 1..k /\ r.run \in 1..2 * NB /\ BatchOf(r.run) \in 1..NB
         /\ result[BatchOf(r.run)][u] = "ok" /\ result[BatchOf(r.run)][Main] = "ok"
<1>1. RowInv(u, r)
  BY DEF RunInv, RowsInv
<1>2. k \in 0..2 * NB /\ NB \in Nat
  BY BoundsAssumption DEF TypeInv
<1>3. r.run \in 1..2 * NB
  BY <1>1, <1>2 DEF RowInv
<1> QED
  BY <1>1, <1>3, BatchNumbers DEF RowInv

(* When a related table is inserted, the main one has been. *)
LEMMA MainFirst ==
  ASSUME TypeInv, Settled, RunInv, NEW t \in Tables, Current(t), t # Main
  PROVE  result[BatchOf(k)][Main] = "ok"
<1>1. stage = "batch" /\ todo # <<>> /\ Main \notin Range(todo)
  BY CurrentFacts DEF RunInv
<1>2. Main \in Range(order)
  <2>1. Orderly(order)
    BY <1>1, RunningOrder DEF Running
  <2> QED
    BY <2>1 DEF Orderly, Scope
<1> QED
  BY <1>1, <1>2 DEF RunInv, PassedInv

(* TodoInv is kept. *)
LEMMA TodoStep ==
  ASSUME TypeInv, Settled, RunInv, NEW t \in Tables, NEW r, Effect(t, r)
  PROVE  TodoInv'
<1>1. /\ \A u \in Range(todo) \ {t} :
           result'[BatchOf(k)][u] = IF t = Main /\ r # "ok" THEN "skipped"
                                    ELSE result[BatchOf(k)][u]
      /\ Along(order, todo') /\ Range(todo') \subseteq Range(todo) \ {t}
  BY Logged
<1>2. order' = order /\ k' = k
  BY DEF Effect
<1> QED
  BY <1>1, <1>2 DEF RunInv, TodoInv

(* RowsInv is kept. *)
LEMMA RowsStep ==
  ASSUME TypeInv, Settled, RunInv, NEW t \in Tables, NEW r, Effect(t, r)
  PROVE  RowsInv'
<1>1. /\ k \in 1..2 * NB /\ BatchOf(k) \in 1..NB
      /\ \A b \in 1..NB, u \in Tables : result[b][u] = "ok" => result'[b][u] = "ok"
      /\ result'[BatchOf(k)][t] = r
  BY Logged
<1>2. conf' = conf /\ k' = k /\ Current(t) /\ RowsEffect(t, r)
  BY DEF Effect
<1>3. /\ Driver' = Driver /\ \A u : Listed(u)' = Listed(u)
  BY <1>2, SameFields
<1> SUFFICES ASSUME NEW u \in Tables, NEW q \in content'[u] PROVE RowInv(u, q)'
  BY DEF RowsInv
<1>4. CASE q \in content[u]
  <2>1. /\ RowInv(u, q) /\ BatchOf(q.run) \in 1..NB
        /\ result[BatchOf(q.run)][u] = "ok" /\ result[BatchOf(q.run)][Main] = "ok"
    BY <1>4, RowFacts
  <2>2. result'[BatchOf(q.run)][u] = "ok" /\ result'[BatchOf(q.run)][Main] = "ok"
    BY <1>1, <2>1, BoundsAssumption
  <2> QED
    BY <1>2, <1>3, <2>1, <2>2 DEF RowInv
<1>5. CASE q \notin content[u]
  <2>1. u = t /\ r = "ok"
    BY <1>2, <1>5 DEF RowsEffect
  <2>2. /\ q.run = k /\ NewRow(t, q.val) /\ Listed(t) \subseteq Cols[t]
    BY <1>2, <1>5, <2>1 DEF RowsEffect
  <2>3. /\ DOMAIN q.val = Listed(t) /\ \A c \in Listed(t) : q.val[c] \in Values
        /\ t = Main => \A c \in Driver : q.val[c] = <<Main, c, BatchOf(k)>>
    BY <1>2, <2>2, NewRowFacts
  <2>4. result'[BatchOf(k)][Main] = "ok"
    <3>1. CASE t = Main
      BY <1>1, <2>1, <3>1
    <3>2. CASE t # Main
      BY <1>1, <1>2, <3>2, MainFirst, BoundsAssumption
    <3> QED
      BY <3>1, <3>2
  <2>5. q.run \in 1..k
    BY <1>1, <2>2
  <2> QED
    BY <1>1, <1>2, <1>3, <2>1, <2>2, <2>3, <2>4, <2>5 DEF RowInv
<1> QED
  BY <1>4, <1>5

(* OnceInv is kept. *)
LEMMA OnceStep ==
  ASSUME TypeInv, Settled, RunInv, NEW t \in Tables, NEW r, Effect(t, r)
  PROVE  OnceInv'
<1>1. result[BatchOf(k)][t] # "ok"
  BY Logged
<1>2. RowsEffect(t, r)
  BY DEF Effect
<1> SUFFICES ASSUME NEW u \in Tables, NEW p \in content'[u], NEW q \in content'[u],
                    BatchOf(p.run) = BatchOf(q.run)
             PROVE  p = q
  BY DEF OnceInv
<1>3. CASE p \in content[u] /\ q \in content[u]
  BY <1>3 DEF RunInv, OnceInv
<1>4. CASE p \notin content[u] \/ q \notin content[u]
  <2>1. u = t
    BY <1>2, <1>4 DEF RowsEffect
  <2>2. \A s \in content'[t] : s \notin content[t] => s.run = k
    BY <1>2 DEF RowsEffect
  <2>3. \A s \in content[t] : BatchOf(s.run) # BatchOf(k)
    <3>1. \A s \in content[t] : result[BatchOf(s.run)][t] = "ok"
      BY RowFacts
    <3> QED
      BY <1>1, <3>1
  <2>4. p \notin content[t] /\ q \notin content[t]
    BY <1>4, <2>1, <2>2, <2>3
  <2> QED
    BY <1>2, <2>1, <2>4 DEF RowsEffect
<1> QED
  BY <1>3, <1>4

(* AfterInv is kept. *)
LEMMA AfterStep ==
  ASSUME TypeInv, Settled, RunInv, NEW t \in Tables, NEW r, Effect(t, r)
  PROVE  AfterInv'
<1>1. Range(todo') \subseteq Range(todo)
  BY Logged
<1>2. conf' = conf /\ k' = k /\ Current(t) /\ RowsEffect(t, r)
  BY DEF Effect
<1>3. Assocs' = Assocs
  BY <1>2, SameFields
<1>4. \A a \in Into(t) : a.st \notin Range(todo)
  BY <1>2, CurrentFacts DEF RunInv
<1> SUFFICES ASSUME NEW a \in Assocs, NEW q \in content'[a.dt], q.run = k
             PROVE  a.st \notin Range(todo')
  BY <1>2, <1>3 DEF AfterInv
<1>5. a.dt \in Tables
  BY ConfLinked DEF TypeInv
<1>6. CASE q \in content[a.dt]
  BY <1>1, <1>6 DEF RunInv, AfterInv
<1>7. CASE q \notin content[a.dt]
  <2>1. a.dt = t
    BY <1>2, <1>5, <1>7 DEF RowsEffect
  <2> QED
    BY <1>1, <1>4, <2>1 DEF Into
<1> QED
  BY <1>6, <1>7

(* LogInv is kept. *)
LEMMA LogStep ==
  ASSUME TypeInv, Settled, RunInv, NEW t \in Tables, NEW r, Effect(t, r)
  PROVE  LogInv'
<1>1. /\ k \in 1..2 * NB /\ BatchOf(k) \in 1..NB
      /\ \A b \in 1..NB, u \in Tables :
           b # BatchOf(k) \/ u \notin Range(todo) => result'[b][u] = result[b][u]
      /\ result'[BatchOf(k)][t] = r
      /\ \A u \in Range(todo) \ {t} :
           result'[BatchOf(k)][u] = IF t = Main /\ r # "ok" THEN "skipped"
                                    ELSE result[BatchOf(k)][u]
  BY Logged
<1>2. /\ conf' = conf /\ k' = k /\ RowsEffect(t, r) /\ (faults > 0 => faults' > 0)
      /\ Refused(t) <=> r = "refused"
      /\ r = "failed" => faults' > 0 \/ ~(Listed(t) \subseteq Cols[t])
  BY DEF Effect
<1>3. \A u : Listed(u)' = Listed(u)
  BY <1>2, SameFields
<1>4. \A u : Refused(u)' <=> Refused(u)
  BY <1>2, SameRefused
<1>5. BatchOf(k) <= k
  <2>1. BatchOf(k) = IF k <= NB THEN k ELSE k - NB
    BY <1>1, BatchNumbers
  <2> QED
    BY <1>1, <2>1, BoundsAssumption
<1> SUFFICES ASSUME NEW b \in 1..NB, NEW u \in Tables
             PROVE
    /\ b > k => result'[b][u] = "none"
    /\ result'[b][u] = "ok" /\ Listed(u) # {} => \E q \in content'[u] : BatchOf(q.run) = b
    /\ result'[b][u] = "failed" =>
         ~Refused(u) /\ (faults' > 0 \/ ~(Listed(u) \subseteq Cols[u]))
  BY <1>2, <1>3, <1>4 DEF LogInv
<1>6. /\ b > k => result[b][u] = "none"
      /\ result[b][u] = "ok" /\ Listed(u) # {} => \E q \in content[u] : BatchOf(q.run) = b
      /\ result[b][u] = "failed" =>
           ~Refused(u) /\ (faults > 0 \/ ~(Listed(u) \subseteq Cols[u]))
  BY DEF RunInv, LogInv
<1>7. faults > 0 => faults' > 0
  BY <1>2
<1>8. content[u] \subseteq content'[u]
  BY <1>2 DEF RowsEffect
<1>9. CASE result'[b][u] = result[b][u]
  BY <1>6, <1>7, <1>8, <1>9
<1>10. CASE b = BatchOf(k) /\ u \in Range(todo) \ {t} /\ result'[b][u] = "skipped"
  <2>1. ~(b > k)
    BY <1>1, <1>5, <1>10
  <2> QED
    BY <1>10, <2>1
<1>11. CASE b = BatchOf(k) /\ u = t
  <2>1. ~(b > k)
    BY <1>1, <1>5, <1>11
  <2>2. r = "ok" /\ Listed(t) # {} => \E q \in content'[t] : BatchOf(q.run) = BatchOf(k)
    BY <1>2 DEF RowsEffect
  <2> QED
    BY <1>1, <1>2, <1>11, <2>1, <2>2
<1> QED
  BY <1>1, <1>9, <1>10, <1>11

(* MadeInv is kept. *)
LEMMA MadeStep ==
  ASSUME TypeInv, Settled, RunInv, NEW t \in Tables, NEW r, Effect(t, r)
  PROVE  MadeInv'
<1>1. /\ BatchOf(k) \in 1..NB /\ t \in Range(todo)
      /\ \A b \in 1..NB, u \in Tables :
           b # BatchOf(k) \/ u \notin Range(todo) => result'[b][u] = result[b][u]
      /\ result'[BatchOf(k)][t] = r
      /\ Range(todo') \subseteq Range(todo) \ {t}
  BY Logged
<1>2. /\ conf' = conf /\ k' = k /\ RowsEffect(t, r) /\ MadeEffect(t, r) /\ r \in Outcomes
      /\ Current(t)
  BY DEF Effect
<1>3. \A u : Listed(u)' = Listed(u)
  BY <1>2, SameFields
<1> SUFFICES ASSUME NEW u \in DOMAIN made'
             PROVE
    /\ u \notin Range(todo')
    /\ DOMAIN made'[u] = Listed(u) /\ \A c \in Listed(u) : made'[u][c] \in Values
    /\ result'[BatchOf(k)][u] \in {"ok", "failed"}
    /\ result'[BatchOf(k)][u] = "ok" /\ Listed(u) # {} =>
         \E q \in content'[u] : q.val = made'[u]
  BY <1>2, <1>3 DEF MadeInv
<1>4. CASE u # t
  <2>1. u \in DOMAIN made /\ made'[u] = made[u] /\ u \in Tables
    BY <1>2, <1>4 DEF MadeEffect, TypeInv
  <2>2. u \notin Range(todo) /\ result'[BatchOf(k)][u] = result[BatchOf(k)][u]
    BY <1>1, <2>1 DEF RunInv, MadeInv
  <2>3. content[u] \subseteq content'[u]
    BY <1>2, <2>1 DEF RowsEffect
  <2> QED
    BY <1>1, <2>1, <2>2, <2>3 DEF RunInv, MadeInv
<1>5. CASE u = t
  <2>1. r # "refused" /\ NewRow(t, made'[t])
    BY <1>2, <1>5 DEF MadeEffect
  <2>2. DOMAIN made'[t] = Listed(t) /\ \A c \in Listed(t) : made'[t][c] \in Values
    BY <1>2, <2>1, NewRowFacts
  <2>3. r \in {"ok", "failed"}
    BY <1>2, <2>1 DEF Outcomes
  <2>4. r = "ok" /\ Listed(t) # {} => \E q \in content'[t] : q.val = made'[t]
    BY <1>2 DEF MadeEffect
  <2> QED
    BY <1>1, <1>5, <2>2, <2>3, <2>4
<1> QED
  BY <1>4, <1>5

(* PassedInv is kept. *)
LEMMA PassedStep ==
  ASSUME TypeInv, Settled, RunInv, NEW t \in Tables, NEW r, Effect(t, r)
  PROVE  PassedInv'
<1>1. /\ BatchOf(k) \in 1..NB
      /\ \A b \in 1..NB, u \in Tables :
           b # BatchOf(k) \/ u \notin Range(todo) => result'[b][u] = result[b][u]
      /\ result'[BatchOf(k)][t] = r
      /\ todo' # <<>> => ~(t = Main /\ r # "ok") /\ Range(todo) = {t} \cup Range(todo')
  BY Logged
<1>2. /\ conf' = conf /\ k' = k /\ order' = order /\ MadeEffect(t, r) /\ r \in Outcomes
      /\ Refused(t) <=> r = "refused"
      /\ Current(t)
  BY DEF Effect
<1>3. \A u : Refused(u)' <=> Refused(u)
  BY <1>2, SameRefused
<1>4. todo # <<>> /\ Range(order) \subseteq Tables
  BY <1>2, RangeOfSeq DEF TypeInv, Current
<1> SUFFICES ASSUME todo' # <<>>, NEW u \in Range(order) \ Range(todo')
             PROVE  \/ result'[BatchOf(k)][u] = "ok"
                    \/ u # Main /\ (u \in DOMAIN made' \/ Refused(u))
  BY <1>2, <1>3 DEF PassedInv
<1>5. CASE u = t
  BY <1>1, <1>2, <1>5 DEF MadeEffect
<1>6. CASE u # t
  <2>1. u \notin Range(todo) /\ u \in Tables
    BY <1>1, <1>4, <1>6
  <2>2. result'[BatchOf(k)][u] = result[BatchOf(k)][u]
    BY <1>1, <2>1
  <2>3. DOMAIN made \subseteq DOMAIN made'
    BY <1>2 DEF MadeEffect
  <2> QED
    BY <1>4, <2>1, <2>2, <2>3 DEF RunInv, PassedInv
<1> QED
  BY <1>5, <1>6

(* What an injected value refers to. *)
LEMMA SourceFacts ==
  ASSUME TypeInv, Settled, RunInv, NEW t \in Tables, Current(t), NEW a \in Into(t),
         NEW v \in SourceValues(a)
  PROVE  \/ \E q \in content[a.st] : q.val[a.sc] = v
         \/ a.st # Main /\ result[BatchOf(k)][a.st] = "failed"
<1>1. /\ stage = "batch" /\ todo # <<>> /\ BatchOf(k) \in 1..NB /\ Batch = BatchOf(k)
      /\ a.st \notin Range(todo)
  BY CurrentFacts DEF RunInv
<1>2. /\ Prepared /\ a.dt # Main /\ a \in Assocs /\ a.dt = t
  BY <1>1, RunningOrder DEF Running, Into
<1>3. a.sc \in Listed(a.st) /\ a.st \in Tables
  BY <1>2, ConfLinked DEF Prepared, SourceUsable, Listed, TypeInv
<1>4. result[BatchOf(k)][Main] = "ok"
  BY <1>2, MainFirst
<1>5. CASE a.st = Main /\ a.sc \in Driver
  <2>1. v = <<Main, a.sc, BatchOf(k)>>
    BY <1>1, <1>5 DEF SourceValues
  <2>2. PICK q \in content[Main] : BatchOf(q.run) = BatchOf(k)
    BY <1>1, <1>3, <1>4, <1>5 DEF RunInv, LogInv
  <2>3. q.val[a.sc] = <<Main, a.sc, BatchOf(q.run)>>
    BY <1>3, <1>5 DEF RunInv, RowsInv, RowInv
  <2> QED
    BY <1>5, <2>1, <2>2, <2>3
<1>6. CASE ~(a.st = Main /\ a.sc \in Driver) /\ a.st \in DOMAIN made
  <2>1. /\ DOMAIN made[a.st] = Listed(a.st)
        /\ result[BatchOf(k)][a.st] \in {"ok", "failed"}
        /\ result[BatchOf(k)][a.st] = "ok" /\ Listed(a.st) # {} =>
             \E q \in content[a.st] : q.val = made[a.st]
    BY <1>6 DEF RunInv, MadeInv
  <2>2. v = made[a.st][a.sc]
    BY <1>3, <1>6, <2>1 DEF SourceValues
  <2> QED
    BY <1>3, <1>4, <2>1, <2>2
<1>7. CASE ~(a.st = Main /\ a.sc \in Driver) /\ a.st \notin DOMAIN made
  BY <1>7 DEF SourceValues
<1> QED
  BY <1>5, <1>6, <1>7

(* A failure of a source is what it was, or there has been a fault. *)
LEMMA FailureStays ==
  ASSUME TypeInv, Settled, RunInv, NEW t \in Tables, NEW r, Effect(t, r),
         NEW a \in Assocs, NEW q \in content[a.dt], a.st # Main,
         result[BatchOf(q.run)][a.st] = "failed"
  PROVE  \/ result'[BatchOf(q.run)][a.st] = "failed"
         \/ q.run <= NB /\ k > NB /\ faults' > 0
<1>1. /\ k \in 1..2 * NB /\ BatchOf(k) \in 1..NB /\ t \in Range(todo)
      /\ result[BatchOf(k)][t] # "ok"
      /\ \A b \in 1..NB, u \in Tables :
           b # BatchOf(k) \/ u \notin Range(todo) => result'[b][u] = result[b][u]
      /\ result'[BatchOf(k)][t] = r
      /\ \A u \in Range(todo) \ {t} :
           result'[BatchOf(k)][u] = IF t = Main /\ r # "ok" THEN "skipped"
                                    ELSE result[BatchOf(k)][u]
  BY Logged
<1>2. /\ conf' = conf /\ RowsEffect(t, r) /\ (faults > 0 => faults' > 0) /\ r \in Outcomes
      /\ Refused(t) <=> r = "refused"
  BY DEF Effect
<1>3. a.dt \in Tables /\ a.st \in Tables
  BY ConfLinked DEF TypeInv
<1>4. /\ q.run \in 1..k /\ q.run \in 1..2 * NB /\ BatchOf(q.run) \in 1..NB
      /\ result[BatchOf(q.run)][Main] = "ok"
  BY <1>3, RowFacts
<1>5. CASE BatchOf(q.run) # BatchOf(k) \/ a.st \notin Range(todo)
  BY <1>1, <1>3, <1>4, <1>5
<1>6. CASE BatchOf(q.run) = BatchOf(k) /\ a.st \in Range(todo)
  <2>1. q.run # k
    BY <1>6 DEF RunInv, AfterInv
  <2>2. q.run <= NB /\ k > NB
    <3>1. /\ BatchOf(k) = IF k <= NB THEN k ELSE k - NB
          /\ BatchOf(q.run) = IF q.run <= NB THEN q.run ELSE q.run - NB
      BY <1>1, <1>4, BatchNumbers
    <3>2. q.run \in Nat /\ k \in Nat /\ NB \in Nat /\ q.run <= k /\ q.run >= 1
      BY <1>1, <1>4, BoundsAssumption
    <3> QED
      BY <1>6, <2>1, <3>1, <3>2
  <2>3. ~Refused(a.st) /\ (faults > 0 \/ ~(Listed(a.st) \subseteq Cols[a.st]))
    BY <1>3, <1>4 DEF RunInv, LogInv
  <2>4. CASE faults > 0
    BY <1>2, <2>2, <2>4
  <2>5. CASE a.st = t /\ ~(Listed(t) \subseteq Cols[t])
    <3>1. r = "failed"
      BY <1>2, <2>3, <2>5 DEF RowsEffect, Outcomes
    <3> QED
      BY <1>1, <1>6, <2>5, <3>1
  <2>6. CASE a.st # t
    <3>1. t # Main
      BY <1>1, <1>4, <1>6
    <3> QED
      BY <1>1, <1>6, <2>6, <3>1
  <2> QED
    BY <2>3, <2>4, <2>5, <2>6
<1> QED
  BY <1>5, <1>6

(* ForeignKeysMatch is kept. *)
LEMMA ForeignKeysStep ==
  ASSUME TypeInv, Settled, RunInv, NEW t \in Tables, NEW r, Effect(t, r)
  PROVE  ForeignKeysMatch'
<1>1. /\ conf' = conf /\ k' = k /\ Current(t) /\ RowsEffect(t, r)
      /\ (faults > 0 => faults' > 0)
  BY DEF Effect
<1>2. Assocs' = Assocs
  BY <1>1, SameFields
<1> SUFFICES ASSUME NEW a \in Assocs, NEW q \in content'[a.dt], a.dc \in DOMAIN q.val
             PROVE
    \/ \E p \in content'[a.st] : p.val[a.sc] = q.val[a.dc]
    \/ a.st # Main /\ \/ result'[BatchOf(q.run)][a.st] = "failed"
                      \/ q.run <= NB /\ k > NB /\ faults' > 0
  BY <1>1, <1>2 DEF ForeignKeysMatch, BatchOf
<1>3. a.dt \in Tables /\ a.st \in Tables
  BY ConfLinked DEF TypeInv
<1>4. content[a.st] \subseteq content'[a.st]
  BY <1>1, <1>3 DEF RowsEffect
<1>5. CASE q \in content[a.dt]
  <2>1. \/ \E p \in content[a.st] : p.val[a.sc] = q.val[a.dc]
        \/ a.st # Main /\ \/ result[BatchOf(q.run)][a.st] = "failed"
                          \/ q.run <= NB /\ k > NB /\ faults > 0
    BY <1>5 DEF RunInv, ForeignKeysMatch, BatchOf
  <2>2. CASE a.st # Main /\ result[BatchOf(q.run)][a.st] = "failed"
    BY <1>5, <2>2, FailureStays
  <2> QED
    BY <1>1, <1>4, <2>1, <2>2
<1>6. CASE q \notin content[a.dt]
  <2>1. a.dt = t /\ q.run = k /\ NewRow(t, q.val) /\ a \in Into(t)
    BY <1>1, <1>3, <1>6 DEF RowsEffect, Into
  <2>2. /\ DOMAIN q.val = Listed(t)
        /\ a.dc \in Listed(t) => q.val[a.dc] \in SourceValues(a)
    BY <1>1, <2>1, NewRowFacts
  <2>3. \/ \E p \in content[a.st] : p.val[a.sc] = q.val[a.dc]
        \/ a.st # Main /\ result[BatchOf(k)][a.st] = "failed"
    BY <1>1, <2>1, <2>2, SourceFacts
  <2>4. result'[BatchOf(k)][a.st] = result[BatchOf(k)][a.st]
    <3>1. a.st \notin Range(todo)
      BY <1>1, <2>1, CurrentFacts DEF RunInv
    <3> QED
      BY <1>3, <3>1, Logged
  <2> QED
    BY <1>4, <2>1, <2>3, <2>4
<1> QED
  BY <1>5, <1>6

(* A sample without a row is one of a source that was refused. *)
LEMMA StarvedStep ==
  ASSUME TypeInv, Settled, RunInv, SamplesFindRows, [Next]_vars
  PROVE  SamplesFindRows'
<1>1. CASE \E t \in Tables : SampleEmpty(t)
  <2>1. PICK t \in Tables : SampleEmpty(t)
    BY <1>1
  <2>2. Current(t) /\ UNCHANGED <<conf, todo, content>>
    BY <2>1 DEF SampleEmpty
  <2>3. PICK a \in Into(t) : SourceValues(a) = {}
    BY <2>1 DEF SampleEmpty
  <2>4. /\ ~(a.st = Main /\ a.sc \in Driver) /\ a.st \notin DOMAIN made
    BY <2>3 DEF SourceValues
  <2>5. content[a.st] = {}
    BY <2>3, <2>4 DEF SourceValues
  <2>6. /\ stage = "batch" /\ todo # <<>> /\ a.st \notin Range(todo) /\ t = Head(todo)
        /\ BatchOf(k) \in 1..NB
    BY <2>2, CurrentFacts DEF RunInv, Current
  <2>7. Prepared /\ a \in Assocs /\ a.st \in Range(order)
    BY <2>6, RunningOrder DEF Running, Into
  <2>8. a.sc \in Listed(a.st) /\ a.st \in Tables
    BY <2>7, ConfLinked DEF Prepared, SourceUsable, Listed, TypeInv
  <2>9. result[BatchOf(k)][a.st] # "ok"
    BY <2>5, <2>6, <2>8 DEF RunInv, LogInv
  <2>10. a.st # Main /\ Refused(a.st)
    BY <2>4, <2>6, <2>7, <2>9 DEF RunInv, PassedInv
  <2>11. Into(t)' = Into(t) /\ (Refused(a.st)' <=> Refused(a.st))
    BY <2>2, SameFields, SameRefused DEF Into
  <2>12. todo' = todo /\ content' = content
    BY <2>2
  <2> QED
    BY <2>5, <2>6, <2>10, <2>11, <2>12 DEF SamplesFindRows
<1>2. CASE stage = "starved"
  <2>1. UNCHANGED vars
    BY <1>2 DEF Next, Save, Prepare, Forget, StartBatch, EndBatch, SampleEmpty, CallFails,
                GenerateRefused, Insert, InsertFails, Current
  <2>2. conf' = conf /\ todo' = todo /\ content' = content /\ stage' = stage
    BY <2>1 DEF vars
  <2>3. \A t : Into(t)' = Into(t) /\ (Refused(t)' <=> Refused(t))
    BY <2>2, SameFields, SameRefused DEF Into
  <2> QED
    BY <2>2, <2>3 DEF SamplesFindRows
<1>3. CASE stage # "starved" /\ ~\E t \in Tables : SampleEmpty(t)
  <2>1. stage' # "starved"
    BY <1>3 DEF Next, Save, Prepare, Forget, StartBatch, EndBatch, CallFails,
                GenerateRefused, Insert, InsertFails, vars
  <2> QED
    BY <2>1 DEF SamplesFindRows
<1> QED
  BY <1>1, <1>2, <1>3

-------------------------------------------------------------------------------
(* The theorems. *)

(* A table of an attempt keeps what holds of the run. *)
LEMMA EffectStep ==
  ASSUME TypeInv, Settled, RunInv, NEW t \in Tables, NEW r, Effect(t, r)
  PROVE  RunInv'
BY TodoStep, RowsStep, OnceStep, AfterStep, LogStep, MadeStep, PassedStep, ForeignKeysStep
   DEF RunInv

(* The invariant is inductive. *)
LEMMA Inductive ==
  ASSUME IInv, [Next]_vars
  PROVE  IInv'
<1>1. TypeInv /\ Settled /\ RunInv /\ TodoInv /\ SamplesFindRows
  BY DEF IInv, RunInv
<1>2. Settled'
  BY <1>1, SettledStep
<1>3. SamplesFindRows'
  BY <1>1, StarvedStep
<1>4. CASE Save \/ Prepare \/ (\E t \in Tables : Forget(t)) \/ UNCHANGED vars
  <2>1. TypeInv' /\ RunInv'
    BY <1>1, <1>4, TypePrepare, QuietSteps
  <2> QED
    BY <1>2, <1>3, <2>1 DEF IInv, RunInv
<1>5. CASE StartBatch
  <2>1. TypeInv' /\ RunInv'
    BY <1>1, <1>5, TypeBatch, StartStep
  <2> QED
    BY <1>2, <1>3, <2>1 DEF IInv, RunInv
<1>6. CASE EndBatch \/ \E t \in Tables : SampleEmpty(t) \/ CallFails(t)
  <2>1. TypeInv' /\ RunInv'
    BY <1>1, <1>6, TypeBatch, QuietSteps
  <2> QED
    BY <1>2, <1>3, <2>1 DEF IInv, RunInv
<1>7. CASE \E t \in Tables : GenerateRefused(t) \/ Insert(t) \/ InsertFails(t)
  <2>1. PICK t \in Tables : GenerateRefused(t) \/ Insert(t) \/ InsertFails(t)
    BY <1>7
  <2>2. TypeInv'
    BY <1>1, <2>1, TypeLog
  <2>3. PICK r : Effect(t, r)
    BY <1>1, <2>1, RefusedEffect, InsertEffect, FailsEffect
  <2>4. RunInv'
    BY <1>1, <2>3, EffectStep
  <2> QED
    BY <1>2, <1>3, <2>2, <2>4 DEF IInv, RunInv
<1> QED
  BY <1>4, <1>5, <1>6, <1>7 DEF Next

(* The invariant holds. *)
THEOREM Invariance == Spec => []IInv
<1>1. Init => IInv
  BY InitHolds
<1>2. IInv /\ [Next]_vars => IInv'
  BY Inductive
<1> QED
  BY <1>1, <1>2, PTL DEF Spec

(* Every row is made of values that somebody generated, and a batch has a  *)
(* table once.                                                             *)
LEMMA TypeHolds ==
  ASSUME IInv
  PROVE  TypeOK
<1>1. TypeInv /\ RunInv /\ TodoInv
  BY DEF IInv, RunInv
<1>2. /\ synced \subseteq Tables /\ stage \in Stages
      /\ k \in 0..2 * NB /\ faults \in 0..MaxFaults
      /\ DOMAIN made \subseteq Tables
      /\ result \in [1..NB -> [Tables -> Results]]
  BY <1>1 DEF TypeInv
<1>3. Range(todo) \subseteq Range(order) /\ Range(order) \subseteq Tables
  BY <1>1, RangeOfSeq DEF TodoInv, TypeInv
<1>4. \A t \in DOMAIN made : t \in Tables /\ \A c \in DOMAIN made[t] : made[t][c] \in Values
  BY <1>1, <1>2 DEF RunInv, MadeInv
<1>5. ASSUME NEW t \in Tables, NEW r \in content[t]
      PROVE  /\ r.run \in 1..k /\ DOMAIN r.val \subseteq Cols[t]
             /\ \A c \in DOMAIN r.val : r.val[c] \in Values
             /\ \A q \in content[t] : q.run % NB = r.run % NB => q = r
  <2>1. RowInv(t, r) /\ r.run \in 1..2 * NB
    BY <1>1, RowFacts
  <2>2. ASSUME NEW q \in content[t], q.run % NB = r.run % NB PROVE q = r
    <3>1. q.run \in 1..2 * NB
      BY <1>1, RowFacts
    <3>2. BatchOf(q.run) = BatchOf(r.run)
      BY <2>1, <2>2, <3>1, SameBatch
    <3> QED
      BY <1>1, <3>2 DEF RunInv, OnceInv
  <2> QED
    BY <2>1, <2>2 DEF RowInv
<1> QED
  BY <1>2, <1>3, <1>4, <1>5 DEF TypeOK

(* The order of a case is found when there is one, and is one. *)
LEMMA OrderHolds ==
  ASSUME IInv
  PROVE  OrderIsTopological
<1>1. TypeInv /\ Settled
  BY DEF IInv
<1>2. Ordered(conf.assocs) <=> ~Cyclic(conf.assocs)
  <2>1. Linked(conf.assocs)
    BY <1>1, ConfLinked DEF TypeInv
  <2> QED
    BY <2>1, OrderedCyclic
<1>3. ASSUME stage \in Running
      PROVE  /\ Range(order) = Scope /\ Len(order) = Cardinality(Scope)
             /\ Head(order) = Main
             /\ \A a \in Assocs : Position(a.st) < Position(a.dt)
  <2>1. Orderly(order)
    BY <1>1, <1>3, RunningOrder
  <2>2. /\ order \in Seq(Tables) /\ IsInjective(order) /\ order # <<>>
        /\ Range(order) = Scope /\ order[1] = Main
        /\ \A a \in Assocs : At(order, a.st) < At(order, a.dt)
    BY <2>1 DEF Orderly
  <2>3. Len(order) = Cardinality(Scope)
    BY <2>2, InjectiveLen
  <2>4. Head(order) = order[1]
    BY <2>2
  <2>5. \A t : Position(t) = At(order, t)
    BY DEF Position, At
  <2> QED
    BY <2>2, <2>3, <2>4, <2>5
<1> QED
  BY <1>2, <1>3 DEF OrderIsTopological, Running

(* An accepted case is prepared, but for the differences of the two checks. *)
LEMMA SavedHolds ==
  ASSUME IInv
  PROVE  SavedPrepares
<1> SUFFICES ASSUME stage = "broken"
             PROVE
    \/ \E t \in Scope \ synced : t # Main
    \/ \E a, b \in Assocs : /\ <<a.dt, a.dc>> = <<b.dt, b.dc>>
                            /\ <<a.st, a.sc>> # <<b.st, b.sc>>
    \/ \E a \in Assocs : a.st = Main /\ a.sc \notin DOMAIN conf.main
    \/ \E a \in Assocs : a.st # Main /\ a.sc \notin Listed(a.st)
    \/ \E x \in conf.clash : x[1] \in Scope \ DOMAIN conf.related
  BY DEF SavedPrepares
<1>1. Checked /\ ~Prepared
  BY DEF IInv, Settled
<1>2. CASE ~\A t \in Scope \ ({Main} \cup DOMAIN conf.related) : t \in synced
  BY <1>2
<1>3. CASE ~\A a, b \in Assocs : <<a.dt, a.dc>> = <<b.dt, b.dc>>
                                    => <<a.st, a.sc>> = <<b.st, b.sc>>
  BY <1>3
<1>4. CASE ~\A a \in Assocs : SourceUsable(a)
  <2>1. PICK a \in Assocs : a.sc \notin Listed(a.st)
    BY <1>4 DEF SourceUsable, Listed
  <2>2. CASE a.st = Main
    <3>1. a.sc \notin With(conf.main, "SKIP")
      BY <1>1, <2>2 DEF Checked
    <3>2. Fields(Main) = conf.main
      BY DEF Fields
    <3>3. a.sc \notin DOMAIN conf.main
      BY <2>1, <2>2, <3>1, <3>2 DEF Listed
    <3> QED
      BY <2>2, <3>3
  <2> QED
    BY <2>1, <2>2
<1>5. CASE ~\A t \in Scope : With(Fields(t), "BAD") = {}
  <2>1. PICK t \in Scope : With(Fields(t), "BAD") # {}
    BY <1>5
  <2>2. t # Main /\ t \notin DOMAIN conf.related
    BY <1>1, <2>1 DEF Checked, Fields
  <2>3. PICK c \in Cols[t] : InferStrategy(t, c) = "BAD"
    <3>1. Fields(t) = [c \in Cols[t] |-> [strat |-> InferStrategy(t, c), src |-> None]]
      BY <2>2 DEF Fields
    <3>2. PICK c \in DOMAIN Fields(t) : Fields(t)[c].strat = "BAD"
      BY <2>1 DEF With
    <3> QED
      BY <3>1, <3>2
  <2>4. <<t, c>> \in conf.clash
    BY <2>3 DEF InferStrategy
  <2>5. <<t, c>>[1] = t
    OBVIOUS
  <2> QED
    BY <2>1, <2>2, <2>4, <2>5
<1> QED
  BY <1>1, <1>2, <1>3, <1>4, <1>5 DEF Prepared

(* TypeOK, for every data source and configuration: no value of a row is   *)
(* missing or made up, however the attempts and retries end.               *)
THEOREM TypeCorrect == Spec => []TypeOK
<1>1. IInv => TypeOK
  BY TypeHolds
<1> QED
  BY <1>1, Invariance, PTL

(* Kahn's algorithm finds an order exactly when the associations have no   *)
(* cycle, and what a prepared task inserts is in such an order.            *)
THEOREM OrderCorrect == Spec => []OrderIsTopological
<1>1. IInv => OrderIsTopological
  BY OrderHolds
<1> QED
  BY <1>1, Invariance, PTL

(* A case that was accepted fails to be prepared for five reasons only. *)
THEOREM AcceptedPrepares == Spec => []SavedPrepares
<1>1. IInv => SavedPrepares
  BY SavedHolds
<1> QED
  BY <1>1, Invariance, PTL

(* Injected values are in rows of their source, but for failed inserts. *)
THEOREM ForeignKeysHold == Spec => []ForeignKeysMatch
<1>1. IInv => ForeignKeysMatch
  BY DEF IInv
<1> QED
  BY <1>1, Invariance, PTL

(* A sample of a source table finds a row, for any chain of associations,  *)
(* unless no row of the source can be generated (_source_values).          *)
THEOREM SamplesAreFed == Spec => []SamplesFindRows
<1>1. IInv => SamplesFindRows
  BY DEF IInv
<1> QED
  BY <1>1, Invariance, PTL

-------------------------------------------------------------------------------
(* The counter of a column.                                                *)


(* Reservations in the life of the present key lie below the counter and   *)
(* do not meet; those of earlier lives are past.                           *)
BelowCounter ==
  \A q \in Reserved :
    /\ era[q] <= expiries
    /\ era[q] = expiries => counter # NoKey /\ base[q] + Size[q[2]] <= counter
Apart ==
  \A p, q \in Reserved :
    era[p] = expiries /\ era[q] = expiries /\ p # q =>
      \/ base[p] + Size[p[2]] <= base[q]
      \/ base[q] + Size[q[2]] <= base[p]

(* A key with a life time exists; before its first expiry a run finds it   *)
(* at or above the start value.                                            *)
KeyThere ==
  /\ mortal => counter # NoKey
  /\ expiries = 0 =>
       /\ \A r \in Runs : phase[r] # "idle" => counter # NoKey
       /\ counter # NoKey => counter >= Start

(* In the first life, the reservations fill what lies below the counter.   *)
Filled ==
  expiries = 0 =>
    /\ \A q \in Reserved : base[q] >= Start
    /\ counter # NoKey =>
         \A n \in Start..(counter - 1) :
           \E q \in Reserved : base[q] <= n /\ n < base[q] + Size[q[2]]

CounterInv ==
  /\ IncrTypeOK
  /\ stored \subseteq Reserved
  /\ BelowCounter
  /\ Apart
  /\ KeyThere
  /\ Filled

(* The invariant holds before the first run. *)
LEMMA CounterInvInit == IncrInit => CounterInv
<1> SUFFICES ASSUME IncrInit PROVE CounterInv OBVIOUS
<1>1. IncrTypeOK BY DEF IncrInit, IncrTypeOK
<1>2. Reserved = {} BY DEF IncrInit, Reserved
<1>3. stored \subseteq Reserved BY DEF IncrInit
<1>4. BelowCounter /\ Apart BY <1>2 DEF BelowCounter, Apart
<1>5. KeyThere BY DEF IncrInit, KeyThere
<1>6. Filled BY <1>2 DEF IncrInit, Filled
<1> QED BY <1>1, <1>3, <1>4, <1>5, <1>6 DEF CounterInv

(* Starting a run keeps what was reserved. *)
LEMMA BeginKeeps == ASSUME CounterInv, NEW r \in Runs, Begin(r) PROVE CounterInv'
<1>1. IncrTypeOK' BY SizeAssumption DEF CounterInv, IncrTypeOK, Begin, NoKey
<1>2. Reserved' = Reserved BY DEF Begin, Reserved
<1>3. (stored \subseteq Reserved)' BY <1>2 DEF CounterInv, Begin
<1>4. BelowCounter' BY <1>2, SizeAssumption DEF CounterInv, BelowCounter, Begin, NoKey
<1>5. Apart' BY <1>2 DEF CounterInv, Apart, Begin
<1>6. KeyThere' BY SizeAssumption DEF CounterInv, IncrTypeOK, KeyThere, Begin, NoKey
<1>7. Filled'
  <2>1. CASE counter = NoKey /\ expiries = 0
    <3>1. counter' = Start /\ Reserved = {}
      BY <2>1 DEF CounterInv, IncrTypeOK, BelowCounter, Begin, Reserved, Pairs
    <3>2. Start..(counter' - 1) = {} BY <3>1, SizeAssumption
    <3> QED BY <3>1, <3>2, <1>2 DEF Filled
  <2>2. CASE ~(counter = NoKey /\ expiries = 0)
    BY <2>2, <1>2 DEF CounterInv, Filled, Begin
  <2> QED BY <2>1, <2>2
<1> QED BY <1>1, <1>3, <1>4, <1>5, <1>6, <1>7 DEF CounterInv

(* What a reservation does to the numbers reserved so far: it begins at    *)
(* the counter, or at 0 when the key is absent.                            *)
LEMMA ReserveFacts ==
  ASSUME CounterInv, NEW r \in Runs, NEW b \in Batches, Reserve(r, b)
  PROVE  /\ <<r, b>> \in Pairs /\ Size[b] \in Nat \ {0} /\ <<r, b>>[2] = b
         /\ counter' = base'[<<r, b>>] + Size[b]
         /\ base'[<<r, b>>] = Value
         /\ era'[<<r, b>>] = expiries
         /\ <<r, b>> \notin Reserved
         /\ Reserved' = Reserved \cup {<<r, b>>}
         /\ \A q \in Reserved : base'[q] = base[q] /\ era'[q] = era[q]
         /\ phase[r] = "run" /\ UNCHANGED <<mortal, phase, stored, expiries>>
<1>1. <<r, b>> \in Pairs /\ Size[b] \in Nat \ {0} /\ <<r, b>>[2] = b
  BY SizeAssumption DEF Pairs
<1>2. counter \in Nat \cup {NoKey} /\ base \in [Pairs -> Nat \cup {NoKey}]
      /\ era \in [Pairs -> Nat]
  BY DEF CounterInv, IncrTypeOK
<1>3. /\ phase[r] = "run" /\ base[<<r, b>>] = NoKey
      /\ counter' = Value + Size[b]
      /\ base' = [base EXCEPT ![<<r, b>>] = Value + Size[b] - Size[b]]
      /\ era' = [era EXCEPT ![<<r, b>>] = expiries]
      /\ UNCHANGED <<mortal, phase, stored, expiries>>
  BY DEF Reserve, Incrby
<1>4. Value \in Nat /\ Value + Size[b] - Size[b] = Value BY <1>1, <1>2 DEF NoKey, Value
<1>5. base'[<<r, b>>] = Value /\ \A q \in Pairs \ {<<r, b>>} : base'[q] = base[q]
  BY <1>1, <1>2, <1>3, <1>4
<1>6. era'[<<r, b>>] = expiries /\ \A q \in Pairs \ {<<r, b>>} : era'[q] = era[q]
  BY <1>1, <1>2, <1>3
<1>7. <<r, b>> \notin Reserved BY <1>3 DEF Reserved
<1>8. Reserved' = Reserved \cup {<<r, b>>}
  BY <1>1, <1>4, <1>5, <1>7 DEF Reserved, NoKey
<1>9. \A q \in Reserved : base'[q] = base[q] /\ era'[q] = era[q]
  BY <1>5, <1>6, <1>7 DEF Reserved
<1> QED BY <1>1, <1>3, <1>5, <1>6, <1>7, <1>8, <1>9

(* Reserving a range keeps the ranges apart and below the counter. *)
LEMMA ReserveKeeps ==
  ASSUME CounterInv, NEW r \in Runs, NEW b \in Batches, Reserve(r, b) PROVE CounterInv'
<1> DEFINE q0 == <<r, b>>
<1>0. /\ q0 \in Pairs /\ Size[b] \in Nat \ {0} /\ q0[2] = b
      /\ counter' = base'[q0] + Size[b]
      /\ base'[q0] = Value
      /\ era'[q0] = expiries
      /\ q0 \notin Reserved
      /\ Reserved' = Reserved \cup {q0}
      /\ \A q \in Reserved : base'[q] = base[q] /\ era'[q] = era[q]
      /\ phase[r] = "run" /\ UNCHANGED <<mortal, phase, stored, expiries>>
  BY ReserveFacts
<1> HIDE DEF q0
<1>a. /\ counter \in Nat \cup {NoKey} /\ expiries \in Nat
      /\ base'[q0] \in Nat /\ counter' \in Nat /\ counter' # NoKey
      /\ counter # NoKey => base'[q0] = counter
  BY <1>0 DEF CounterInv, IncrTypeOK, NoKey, Value
<1>b. \A q \in Reserved : q \in Pairs /\ base[q] \in Nat /\ era[q] \in Nat
                          /\ Size[q[2]] \in Nat \ {0}
  BY SizeAssumption DEF CounterInv, IncrTypeOK, Reserved, Pairs
<1>1. IncrTypeOK'
  <2>1. base' \in [Pairs -> Nat \cup {NoKey}] /\ era' \in [Pairs -> Nat]
    <3>1. /\ base' = [base EXCEPT ![q0] = base'[q0]]
          /\ era' = [era EXCEPT ![q0] = expiries]
      BY DEF Reserve, Incrby, CounterInv, IncrTypeOK, q0
    <3> QED BY <3>1, <1>0, <1>a DEF CounterInv, IncrTypeOK
  <2> QED BY <2>1, <1>0, <1>a DEF CounterInv, IncrTypeOK
<1>2. (stored \subseteq Reserved)' BY <1>0 DEF CounterInv
<1>3. BelowCounter' BY <1>0, <1>a, <1>b DEF CounterInv, BelowCounter
<1>4. Apart'
  <2>1. \A q \in Reserved : era[q] = expiries => base[q] + Size[q[2]] <= base'[q0]
    BY <1>0, <1>a, <1>b DEF CounterInv, BelowCounter
  <2> QED BY <2>1, <1>0 DEF CounterInv, Apart
<1>5. KeyThere' BY <1>0, <1>a, SizeAssumption DEF CounterInv, KeyThere
<1>6. Filled'
  <2> SUFFICES ASSUME expiries = 0 PROVE
        /\ \A q \in Reserved' : base'[q] >= Start
        /\ \A n \in Start..(counter' - 1) :
             \E q \in Reserved' : base'[q] <= n /\ n < base'[q] + Size[q[2]]
    BY <1>0 DEF Filled
  <2>1. counter # NoKey /\ counter \in Nat /\ base'[q0] = counter
    BY <1>0, <1>a DEF CounterInv, KeyThere
  <2>2. counter >= Start BY <2>1 DEF CounterInv, KeyThere
  <2>3. \A q \in Reserved' : base'[q] >= Start
    BY <2>1, <2>2, <1>0 DEF CounterInv, Filled
  <2>4. ASSUME NEW n \in Start..(counter' - 1)
        PROVE  \E q \in Reserved' : base'[q] <= n /\ n < base'[q] + Size[q[2]]
    <3>1. CASE n >= counter
      <4>1. base'[q0] <= n /\ n < base'[q0] + Size[q0[2]]
        BY <3>1, <2>1, <1>0, <1>a, SizeAssumption
      <4> QED BY <4>1, <1>0
    <3>2. CASE n < counter
      <4>1. n \in Start..(counter - 1) BY <3>2, <2>1, SizeAssumption
      <4>2. PICK q \in Reserved : base[q] <= n /\ n < base[q] + Size[q[2]]
        BY <4>1, <2>1 DEF CounterInv, Filled
      <4> QED BY <4>2, <1>0
    <3> QED BY <3>1, <3>2, <2>1, SizeAssumption
  <2> QED BY <2>3, <2>4
<1> QED BY <1>1, <1>2, <1>3, <1>4, <1>5, <1>6 DEF CounterInv

(* Storing rows leaves the reservations alone. *)
LEMMA StoreKeeps == ASSUME CounterInv, NEW q \in Pairs, Store(q) PROVE CounterInv'
<1>1. Reserved' = Reserved BY DEF Store, Reserved
<1>2. IncrTypeOK' BY DEF CounterInv, IncrTypeOK, Store
<1>3. (stored \subseteq Reserved)' BY <1>1 DEF CounterInv, Store
<1>4. BelowCounter' /\ Apart' /\ KeyThere' /\ Filled'
  BY <1>1 DEF CounterInv, Store, BelowCounter, Apart, KeyThere, Filled
<1> QED BY <1>2, <1>3, <1>4 DEF CounterInv

(* Ending a run may give the key a life time, and only if it exists. *)
LEMMA FinishKeeps == ASSUME CounterInv, NEW r \in Runs, Finish(r) PROVE CounterInv'
<1>1. Reserved' = Reserved BY DEF Finish, Reserved
<1>2. IncrTypeOK' BY DEF CounterInv, IncrTypeOK, Finish
<1>3. (stored \subseteq Reserved)' BY <1>1 DEF CounterInv, Finish
<1>4. BelowCounter' /\ Apart' /\ Filled'
  BY <1>1 DEF CounterInv, Finish, BelowCounter, Apart, Filled
<1>5. KeyThere' BY DEF CounterInv, IncrTypeOK, Finish, KeyThere
<1> QED BY <1>2, <1>3, <1>4, <1>5 DEF CounterInv

(* The expiry of the key makes all reservations past ones. *)
LEMMA ExpireKeeps == ASSUME CounterInv, Expire PROVE CounterInv'
<1>1. Reserved' = Reserved BY DEF Expire, Reserved
<1>2. IncrTypeOK'
  <2>1. counter' \in Nat \cup {NoKey} /\ mortal' \in BOOLEAN BY DEF Expire
  <2>2. expiries' \in Nat BY DEF CounterInv, IncrTypeOK, Expire
  <2> QED BY <2>1, <2>2 DEF CounterInv, IncrTypeOK, Expire
<1>3. (stored \subseteq Reserved)' BY <1>1 DEF CounterInv, Expire
<1>4. expiries \in Nat /\ expiries' = expiries + 1 /\ expiries' # 0 /\ ~mortal'
  BY DEF CounterInv, IncrTypeOK, Expire
<1>5. \A q \in Reserved' : era'[q] \in Nat /\ era'[q] <= expiries
  BY <1>1 DEF CounterInv, IncrTypeOK, BelowCounter, Expire, Reserved
<1>6. BelowCounter' /\ Apart' BY <1>4, <1>5 DEF BelowCounter, Apart
<1>7. KeyThere' /\ Filled' BY <1>4 DEF KeyThere, Filled
<1> QED BY <1>2, <1>3, <1>6, <1>7 DEF CounterInv

(* The invariant is inductive. *)
LEMMA CounterInvStep == CounterInv /\ [IncrNext]_incrVars => CounterInv'
<1> SUFFICES ASSUME CounterInv, [IncrNext]_incrVars PROVE CounterInv' OBVIOUS
<1>1. ASSUME NEW r \in Runs, Begin(r) PROVE CounterInv' BY <1>1, BeginKeeps
<1>2. ASSUME NEW r \in Runs, Finish(r) PROVE CounterInv' BY <1>2, FinishKeeps
<1>3. ASSUME NEW r \in Runs, NEW b \in Batches, Reserve(r, b) PROVE CounterInv'
  BY <1>3, ReserveKeeps
<1>4. ASSUME NEW q \in Pairs, Store(q) PROVE CounterInv' BY <1>4, StoreKeeps
<1>5. CASE Expire BY <1>5, ExpireKeeps
<1>6. CASE UNCHANGED incrVars
  BY <1>6 DEF incrVars, CounterInv, IncrTypeOK, Reserved, BelowCounter, Apart, KeyThere, Filled
<1> QED BY <1>1, <1>2, <1>3, <1>4, <1>5, <1>6 DEF IncrNext

(* The invariant holds of every behaviour. *)
LEMMA CounterInvariance == IncrSpec => []CounterInv
  BY CounterInvInit, CounterInvStep, PTL DEF IncrSpec

(* The state of the counter and of its runs keeps its shape. *)
THEOREM CounterTypeCorrect == IncrSpec => []IncrTypeOK
<1>1. CounterInv => IncrTypeOK BY DEF CounterInv
<1> QED BY <1>1, CounterInvariance, PTL

(* Rows that were inserted before the counter expired carry distinct       *)
(* numbers, none below the start value, for any runs and batches           *)
(* (prefetch_incr_range).                                                  *)
THEOREM RowsAreDistinct == IncrSpec => []StoredDistinct
<1>1. CounterInv => StoredDistinct
  <2> SUFFICES ASSUME CounterInv, expiries = 0, NEW q \in stored
               PROVE  /\ Numbers(q) \subseteq Start..(counter - 1)
                      /\ \A p \in stored \ {q} : Numbers(p) \cap Numbers(q) = {}
    BY DEF StoredDistinct
  <2>1. \A p \in stored :
          /\ p \in Reserved /\ era[p] = expiries /\ base[p] \in Nat
          /\ Size[p[2]] \in Nat \ {0}
    <3>1. \A p \in stored : p \in Reserved /\ p \in Pairs BY DEF CounterInv, Reserved
    <3>2. \A p \in Reserved : era[p] \in Nat /\ era[p] <= 0
      BY DEF CounterInv, IncrTypeOK, BelowCounter, Reserved
    <3>3. \A p \in Pairs : Size[p[2]] \in Nat \ {0} BY SizeAssumption DEF Pairs
    <3>4. \A p \in Reserved : base[p] \in Nat BY DEF CounterInv, IncrTypeOK, Reserved
    <3> QED BY <3>1, <3>2, <3>3, <3>4
  <2>2. counter \in Nat /\ base[q] >= Start /\ base[q] + Size[q[2]] <= counter
    BY <2>1 DEF CounterInv, IncrTypeOK, BelowCounter, Filled
  <2>3. Numbers(q) \subseteq Start..(counter - 1)
    BY <2>1, <2>2, SizeAssumption DEF Numbers
  <2>4. ASSUME NEW p \in stored \ {q} PROVE Numbers(p) \cap Numbers(q) = {}
    <3>1. \/ base[p] + Size[p[2]] <= base[q]
          \/ base[q] + Size[q[2]] <= base[p]
      BY <2>1 DEF CounterInv, Apart
    <3> QED BY <3>1, <2>1 DEF Numbers
  <2> QED BY <2>3, <2>4
<1> QED BY <1>1, CounterInvariance, PTL

(* Until the counter expires no number between the start value and the     *)
(* counter is skipped.                                                     *)
THEOREM NoNumberSkipped == IncrSpec => []NoneSkipped
<1>1. CounterInv => NoneSkipped
  <2> SUFFICES ASSUME CounterInv, expiries = 0, counter # NoKey
               PROVE  Start..(counter - 1) = UNION {Numbers(q) : q \in Reserved}
    BY DEF NoneSkipped
  <2>1. counter \in Nat BY DEF CounterInv, IncrTypeOK
  <2>2. \A q \in Reserved :
          /\ base[q] \in Nat /\ Size[q[2]] \in Nat \ {0}
          /\ base[q] >= Start /\ base[q] + Size[q[2]] <= counter
    <3>1. \A q \in Reserved : q \in Pairs /\ base[q] \in Nat /\ era[q] \in Nat
      BY DEF CounterInv, IncrTypeOK, Reserved
    <3>2. \A q \in Pairs : Size[q[2]] \in Nat \ {0} BY SizeAssumption DEF Pairs
    <3> QED BY <3>1, <3>2 DEF CounterInv, BelowCounter, Filled
  <2>3. ASSUME NEW n \in Start..(counter - 1)
        PROVE  \E q \in Reserved : n \in Numbers(q)
    <3>1. PICK q \in Reserved : base[q] <= n /\ n < base[q] + Size[q[2]]
      BY DEF CounterInv, Filled
    <3>2. n \in Int BY <2>1, SizeAssumption
    <3>3. n \in Numbers(q) BY <3>1, <3>2, <2>2 DEF Numbers
    <3> QED BY <3>3
  <2>4. ASSUME NEW q \in Reserved PROVE Numbers(q) \subseteq Start..(counter - 1)
    BY <2>1, <2>2, SizeAssumption DEF Numbers
  <2> QED BY <2>3, <2>4
<1> QED BY <1>1, CounterInvariance, PTL

(* The numbers in the table are distinct and without gaps of their own,    *)
(* for any runs, batches and sizes (prefetch_incr_range).                  *)
THEOREM NumbersAreWhole == IncrSpec => []NumbersWhole
  BY RowsAreDistinct, NoNumberSkipped, PTL DEF NumbersWhole

(* A step of the counter is a grant of fresh numbers, the forgetting of    *)
(* all grants, or invisible.                                               *)
LEMMA StepRefines == CounterInv /\ CounterInv' /\ [IncrNext]_incrVars => [Grants!Next]_Granted
<1> SUFFICES ASSUME CounterInv, CounterInv', [IncrNext]_incrVars PROVE Grants!Next \/ UNCHANGED Granted
  OBVIOUS
<1>1. ASSUME NEW r \in Runs, Begin(r) PROVE UNCHANGED Granted
  BY <1>1 DEF Begin, Granted, Live, Reserved, Numbers
<1>2. ASSUME NEW r \in Runs, Finish(r) PROVE UNCHANGED Granted
  BY <1>2 DEF Finish, Granted, Live, Reserved, Numbers
<1>3. ASSUME NEW q \in Pairs, Store(q) PROVE UNCHANGED Granted
  BY <1>3 DEF Store, Granted, Live, Reserved, Numbers
<1>4. CASE UNCHANGED incrVars
  BY <1>4 DEF incrVars, Granted, Live, Reserved, Numbers
<1>5. ASSUME Expire PROVE Grants!Forget
  <2>1. \A q \in Reserved' : era'[q] \in Nat /\ era'[q] <= expiries /\ expiries \in Nat
    BY <1>5 DEF CounterInv, IncrTypeOK, BelowCounter, Expire, Reserved
  <2>2. expiries' = expiries + 1 BY <1>5 DEF Expire
  <2>3. \A q \in Pairs : ~Live(q)' BY <2>1, <2>2 DEF Live
  <2> QED BY <2>3 DEF Granted, Grants!Forget
<1>6. ASSUME NEW r \in Runs, NEW b \in Batches, Reserve(r, b)
      PROVE  \E c \in Pairs : Grants!Grant(c)
  <2> DEFINE q0 == <<r, b>>
  <2>0. /\ q0 \in Pairs /\ Size[b] \in Nat \ {0} /\ q0[2] = b
        /\ counter' = base'[q0] + Size[b]
        /\ era'[q0] = expiries
        /\ q0 \notin Reserved
        /\ Reserved' = Reserved \cup {q0}
        /\ \A q \in Reserved : base'[q] = base[q] /\ era'[q] = era[q]
        /\ UNCHANGED expiries
    BY <1>6, ReserveFacts
  <2> HIDE DEF q0
  <2>1. \A q \in Reserved' : /\ base'[q] \in Nat /\ q \in Pairs
                             /\ Size[q[2]] \in Nat \ {0}
    <3>1. \A q \in Reserved' : base'[q] \in Nat /\ q \in Pairs
      BY DEF CounterInv, IncrTypeOK, Reserved
    <3>2. \A q \in Pairs : Size[q[2]] \in Nat \ {0} BY SizeAssumption DEF Pairs
    <3> QED BY <3>1, <3>2
  <2>2. /\ Granted[q0] = {}
        /\ Granted'[q0] = Numbers(q0)'
    BY <2>0 DEF Granted, Live
  <2>3. Numbers(q0)' # {} /\ Numbers(q0)' \subseteq Nat
    <3>1. base'[q0] \in Nat /\ q0 \in Reserved' BY <2>0, <2>1
    <3>2. base'[q0] \in Numbers(q0)' BY <3>1, <2>0 DEF Numbers
    <3> QED BY <3>1, <3>2, <2>0 DEF Numbers
  <2>4. ASSUME NEW d \in Pairs \ {q0}
        PROVE  Granted'[d] = Granted[d] /\ Granted[d] \cap Granted'[q0] = {}
    <3>1. Live(d)' = Live(d) /\ (Live(d) => Numbers(d)' = Numbers(d))
      BY <2>0 DEF Live, Numbers
    <3>2. Granted'[d] = Granted[d] BY <3>1 DEF Granted
    <3>3. Live(d) => Numbers(d)' \cap Numbers(q0)' = {}
      <4> SUFFICES ASSUME Live(d) PROVE Numbers(d)' \cap Numbers(q0)' = {}
        OBVIOUS
      <4>1. d \in Reserved' /\ q0 \in Reserved' /\ era'[d] = expiries' /\ era'[q0] = expiries'
        BY <2>0 DEF Live
      <4>2. \/ base'[d] + Size[d[2]] <= base'[q0]
            \/ base'[q0] + Size[q0[2]] <= base'[d]
        BY <4>1 DEF CounterInv, Apart
      <4> QED BY <4>1, <4>2, <2>1 DEF Numbers
    <3> QED BY <3>1, <3>2, <3>3, <2>2 DEF Granted
  <2>5. Granted' = [Granted EXCEPT ![q0] = Granted'[q0]]
    <3>1. \A d \in Pairs : Granted'[d] = [Granted EXCEPT ![q0] = Granted'[q0]][d]
      BY <2>4, <2>0 DEF Granted
    <3> QED BY <3>1 DEF Granted
  <2>6. Grants!Grant(q0) BY <2>2, <2>3, <2>4, <2>5 DEF Grants!Grant
  <2> QED BY <2>6, <2>0
<1>7. CASE IncrNext
  <2>1. CASE \E r \in Runs : Begin(r) \/ Finish(r) BY <2>1, <1>1, <1>2
  <2>2. CASE \E r \in Runs, b \in Batches : Reserve(r, b)
    BY <2>2, <1>6 DEF Grants!Next
  <2>3. CASE \E q \in Pairs : Store(q) BY <2>3, <1>3
  <2>4. CASE Expire BY <2>4, <1>5 DEF Grants!Next
  <2> QED BY <1>7, <2>1, <2>2, <2>3, <2>4 DEF IncrNext
<1> QED BY <1>4, <1>7

(* The counter implements grants of distinct numbers: whatever the runs    *)
(* and threads do, two reservations in the life of a key never meet.       *)
THEOREM CounterGrants == IncrSpec => GrantsDistinct
<1>1. IncrInit => Grants!Init
  BY DEF IncrInit, Grants!Init, Granted, Live, Reserved
<1> QED BY <1>1, StepRefines, CounterInvariance, PTL DEF IncrSpec, GrantsDistinct, Grants!Spec



-------------------------------------------------------------------------------
(* The fields of a number.                                                 *)

(* The number of a later millisecond is larger, whatever its other fields. *)
LEMMA Later ==
  ASSUME NEW a \in Nat, NEW b \in Nat, a < b,
         NEW m \in 0..(Machines - 1), NEW n \in 0..(Machines - 1),
         NEW s \in 0..(Sequences - 1), NEW r \in 0..(Sequences - 1)
  PROVE  Compose(a, m, s) < Compose(b, n, r)
<1> DEFINE x == a * Machines + m
           y == b * Machines + n
<1>1. Machines \in Nat /\ Sequences \in Nat BY BitsAssumption
<1>2. (a + 1) * Machines <= b * Machines BY <1>1
<1>3. (a + 1) * Machines = a * Machines + Machines BY <1>1
<1>4. a * Machines \in Nat /\ b * Machines \in Nat BY <1>1
<1>5. x \in Nat /\ y \in Nat /\ x + 1 <= y BY <1>1, <1>2, <1>3, <1>4
<1> HIDE DEF x, y
<1>6. (x + 1) * Sequences <= y * Sequences BY <1>1, <1>5
<1>7. (x + 1) * Sequences = x * Sequences + Sequences BY <1>1, <1>5
<1>8. x * Sequences \in Nat /\ y * Sequences \in Nat BY <1>1, <1>5
<1>9. x * Sequences + s < y * Sequences + r BY <1>1, <1>6, <1>7, <1>8
<1> QED BY <1>9 DEF Compose, x, y

(* In one millisecond the sequence decides. *)
LEMMA SameTime ==
  ASSUME NEW a \in Nat, NEW m \in 0..(Machines - 1),
         NEW s \in 0..(Sequences - 1), NEW r \in 0..(Sequences - 1), s < r
  PROVE  Compose(a, m, s) < Compose(a, m, r)
<1> DEFINE x == a * Machines + m
<1>1. Machines \in Nat /\ Sequences \in Nat BY BitsAssumption
<1>2. a * Machines \in Nat BY <1>1
<1>3. x \in Nat BY <1>1, <1>2
<1> HIDE DEF x
<1>4. x * Sequences \in Nat BY <1>1, <1>3
<1>5. x * Sequences + s < x * Sequences + r BY <1>1, <1>4
<1> QED BY <1>5 DEF Compose, x

(* A number tells its machine bits. *)
LEMMA MachineBits ==
  ASSUME NEW a \in Nat, NEW b \in Nat,
         NEW m \in 0..(Machines - 1), NEW n \in 0..(Machines - 1),
         NEW s \in 0..(Sequences - 1), NEW r \in 0..(Sequences - 1),
         Compose(a, m, s) = Compose(b, n, r)
  PROVE  m = n
<1> DEFINE x == a * Machines + m
           y == b * Machines + n
<1>1. Machines \in Nat /\ Sequences \in Nat BY BitsAssumption
<1>2. Compose(a, m, s) \in Int /\ Compose(b, n, r) \in Int
  <2>1. a * Machines \in Nat /\ b * Machines \in Nat BY <1>1
  <2>2. x \in Nat /\ y \in Nat BY <1>1, <2>1
  <2> HIDE DEF x, y
  <2>3. x * Sequences \in Nat /\ y * Sequences \in Nat BY <1>1, <2>2
  <2>4. x * Sequences + s \in Int /\ y * Sequences + r \in Int BY <1>1, <2>3
  <2> QED BY <2>4 DEF Compose, x, y
<1>3. ~(a < b) BY <1>2, Later
<1>4. ~(b < a) BY <1>2, Later
<1>5. a = b BY <1>3, <1>4
<1>6. a * Machines \in Nat BY <1>1
<1>7. x \in Nat /\ y \in Nat BY <1>1, <1>5, <1>6
<1>8. x * Sequences + s = y * Sequences + r BY DEF Compose
<1>9. x = y
  <2> HIDE DEF x, y
  <2>1. x * Sequences \in Nat /\ y * Sequences \in Nat BY <1>1, <1>7
  <2>2. CASE x < y
    <3>1. (x + 1) * Sequences <= y * Sequences BY <1>1, <1>7, <2>2
    <3>2. (x + 1) * Sequences = x * Sequences + Sequences BY <1>1, <1>7
    <3> QED BY <1>1, <1>8, <2>1, <3>1, <3>2
  <2>3. CASE y < x
    <3>1. (y + 1) * Sequences <= x * Sequences BY <1>1, <1>7, <2>3
    <3>2. (y + 1) * Sequences = y * Sequences + Sequences BY <1>1, <1>7
    <3> QED BY <1>1, <1>8, <2>1, <3>1, <3>2
  <2> QED BY <1>7, <2>2, <2>3
<1> QED BY <1>5, <1>6, <1>9

(* Numbers are natural. *)
LEMMA ComposeNat ==
  ASSUME NEW a \in Nat, NEW m \in 0..(Machines - 1), NEW s \in 0..(Sequences - 1)
  PROVE  Compose(a, m, s) \in Nat
<1>1. Machines \in Nat /\ Sequences \in Nat BY BitsAssumption
<1>2. a * Machines + m \in Nat BY <1>1
<1>3. (a * Machines + m) * Sequences \in Nat BY <1>1, <1>2
<1> QED BY <1>1, <1>3 DEF Compose

-------------------------------------------------------------------------------
(* Types.                                                                  *)

(* Machine bits derived from a pid are within their field. *)
LEMMA Masked ==
  ASSUME NEW n \in Nat PROVE n % Machines \in 0..(Machines - 1)
BY BitsAssumption

LEMMA ProcessOf == ASSUME NEW t \in Threads PROVE Process[t] \in Procs
BY BitsAssumption DEF Procs

LEMMA TypeInit == IdInit => IdTypeOK
<1> SUFFICES ASSUME IdInit PROVE IdTypeOK OBVIOUS
<1> USE BitsAssumption DEF IdInit, Times
<1>1. machine \in [Procs -> 0..(Machines - 1)]
  <2>1. {n % Machines : n \in Pids} \subseteq 0..(Machines - 1) BY Masked
  <2> QED BY <2>1
<1>2. now \in Times /\ back \in 0..MaxBack /\ restarts \in 0..MaxRestarts
      /\ last \in [Procs -> -1..MaxTime] /\ seq \in [Procs -> 0..(Sequences - 1)]
  OBVIOUS
<1>3. lock \in [Procs -> Threads \cup {NoThread}]
      /\ pc \in [Threads -> {"idle", "locked", "behind", "exhausted", "issue"}]
      /\ stamp \in [Threads -> Times] /\ newest \in [Procs -> Nat \cup {-1}]
      /\ used \in [Procs -> SUBSET Nat]
  OBVIOUS
<1> QED BY <1>1, <1>2, <1>3 DEF IdTypeOK

LEMMA TypeStep == IdTypeOK /\ [IdNext]_idVars => IdTypeOK'
<1> SUFFICES ASSUME IdTypeOK, [IdNext]_idVars PROVE IdTypeOK' OBVIOUS
<1> USE BitsAssumption DEF IdTypeOK, Times
<1>1. ASSUME NEW t \in Threads, Enter(t) PROVE IdTypeOK'
  BY <1>1, ProcessOf DEF Enter, GoTo
<1>2. ASSUME NEW t \in Threads, ReadClock(t) PROVE IdTypeOK'
  <2>1. Process[t] \in Procs BY ProcessOf
  <2>2. (seq[Process[t]] + 1) % Sequences \in 0..(Sequences - 1) /\ 0 \in 0..(Sequences - 1)
    BY <2>1
  <2>3. seq' \in [Procs -> 0..(Sequences - 1)] BY <1>2, <2>1, <2>2 DEF ReadClock
  <2>4. pc' \in [Threads -> {"idle", "locked", "behind", "exhausted", "issue"}]
    BY <1>2 DEF ReadClock, GoTo
  <2> QED BY <1>2, <2>3, <2>4 DEF ReadClock
<1>3. ASSUME NEW t \in Threads, WaitNextMs(t) PROVE IdTypeOK'
  BY <1>3, ProcessOf DEF WaitNextMs, GoTo
<1>4. ASSUME NEW t \in Threads, Issue(t) PROVE IdTypeOK'
  <2>1. Process[t] \in Procs /\ stamp[t] \in Nat BY ProcessOf
  <2>2. Compose(stamp[t], machine[Process[t]], seq[Process[t]]) \in Nat
    BY <2>1, ComposeNat
  <2>3. newest' \in [Procs -> Nat \cup {-1}] /\ used' \in [Procs -> SUBSET Nat]
    BY <1>4, <2>1, <2>2 DEF Issue
  <2>4. last' \in [Procs -> -1..MaxTime]
    BY <1>4, <2>1 DEF Issue
  <2> QED BY <1>4, <2>3, <2>4 DEF Issue, GoTo
<1>5. ASSUME NEW p \in Procs, Restart(p) PROVE IdTypeOK'
  <2>1. machine' \in [Procs -> 0..(Machines - 1)]
    <3>1. PICK n \in Pids : machine' = [machine EXCEPT ![p] = n % Machines]
      BY <1>5 DEF Restart
    <3>2. n % Machines \in 0..(Machines - 1) BY Masked
    <3> QED BY <3>1, <3>2
  <2>2. now' \in Times /\ restarts' \in 0..MaxRestarts /\ back' \in 0..MaxBack
    BY <1>5 DEF Restart
  <2>3. /\ last' \in [Procs -> -1..MaxTime] /\ seq' \in [Procs -> 0..(Sequences - 1)]
        /\ newest' \in [Procs -> Nat \cup {-1}] /\ used' \in [Procs -> SUBSET Nat]
    BY <1>5 DEF Restart
  <2>4. /\ lock' \in [Procs -> Threads \cup {NoThread}]
        /\ pc' \in [Threads -> {"idle", "locked", "behind", "exhausted", "issue"}]
        /\ stamp' \in [Threads -> Times]
    BY <1>5 DEF Restart
  <2> QED BY <2>1, <2>2, <2>3, <2>4
<1>6. CASE Tick BY <1>6 DEF Tick, genVars
<1>7. CASE SetBack BY <1>7 DEF SetBack, genVars
<1>8. CASE UNCHANGED idVars BY <1>8 DEF idVars
<1> QED BY <1>1, <1>2, <1>3, <1>4, <1>5, <1>6, <1>7, <1>8 DEF IdNext

-------------------------------------------------------------------------------
(* The inductive invariant.                                                *)

(* A thread inside next_id holds the lock of its process. *)
Locked == \A t \in Threads : pc[t] # "idle" => lock[Process[t]] = t

(* No thread of the process has moved the sequence on without issuing. *)
AtRest(p) == \A t \in Threads : Process[t] = p => pc[t] \notin {"exhausted", "issue"}

(* The newest number is made of the last timestamp and, unless a thread is *)
(* about to issue the next one, of the sequence.                           *)
NewestKept ==
  \A p \in Procs :
    /\ last[p] = -1 => newest[p] = -1
    /\ last[p] # -1 => \E s \in 0..(Sequences - 1) :
                         newest[p] = Compose(last[p], machine[p], s)
    /\ last[p] # -1 /\ AtRest(p) => newest[p] = Compose(last[p], machine[p], seq[p])

(* The number about to be issued is larger than the newest one. *)
NextIsLarger ==
  \A t \in Threads : LET p == Process[t] IN
    pc[t] = "issue" => newest[p] < Compose(stamp[t], machine[p], seq[p])

(* While the clock was never set back: the numbers of a process are of     *)
(* milliseconds that have come, those of its earlier lives of milliseconds *)
(* before any it will use, and the newest number is the largest.           *)
Before(p, a) ==
  newest[p] = -1 =>
    a < now /\ \A t \in Threads : Process[t] = p /\ pc[t] = "issue" => a < stamp[t]

InThePast ==
  back = 0 =>
    /\ \A t \in Threads : stamp[t] <= now
    /\ \A p \in Procs : \A id \in used[p] :
         \E a \in Times, m \in 0..(Machines - 1), s \in 0..(Sequences - 1) :
           id = Compose(a, m, s) /\ a <= now /\ Before(p, a)

NewestIsLargest ==
  \A p \in Procs : newest[p] # -1 /\ back = 0 => \A id \in used[p] : id <= newest[p]

(* Until a process restarts its numbers carry its machine bits. *)
Marked ==
  restarts = 0 =>
    \A p \in Procs : \A id \in used[p] :
      \E a \in Times, s \in 0..(Sequences - 1) : id = Compose(a, machine[p], s)

IdInv == /\ IdTypeOK /\ Locked /\ NewestKept /\ NextIsLarger
        /\ InThePast /\ NewestIsLargest /\ Marked

LEMMA InvInit == IdInit => IdInv
<1> SUFFICES ASSUME IdInit PROVE IdInv OBVIOUS
<1>1. IdTypeOK BY TypeInit
<1>2. Locked BY DEF IdInit, Locked
<1>3. NewestKept BY DEF IdInit, NewestKept
<1>4. NextIsLarger BY DEF IdInit, NextIsLarger
<1>5. InThePast BY DEF IdInit, InThePast
<1>6. NewestIsLargest BY DEF IdInit, NewestIsLargest
<1>7. Marked BY DEF IdInit, Marked
<1> QED BY <1>1, <1>2, <1>3, <1>4, <1>5, <1>6, <1>7 DEF IdInv

LEMMA LockedStep == ASSUME IdInv, [IdNext]_idVars PROVE Locked'
<1> USE DEF IdInv, IdTypeOK, Locked
<1>1. ASSUME NEW t \in Threads, Enter(t) PROVE Locked'
  <2> SUFFICES ASSUME NEW u \in Threads, pc'[u] # "idle"
               PROVE  lock'[Process[u]] = u
    OBVIOUS
  <2>1. Process[u] \in Procs /\ Process[t] \in Procs BY ProcessOf
  <2>2. CASE u = t BY <1>1, <2>1, <2>2 DEF Enter
  <2>3. CASE u # t
    <3>1. pc[u] # "idle" BY <1>1, <2>3 DEF Enter, GoTo
    <3>2. Process[u] # Process[t] BY <1>1, <3>1, BitsAssumption DEF Enter
    <3> QED BY <1>1, <2>1, <3>1, <3>2 DEF Enter
  <2> QED BY <2>2, <2>3
<1>2. ASSUME NEW t \in Threads, ReadClock(t) PROVE Locked'
  BY <1>2 DEF ReadClock, GoTo
<1>3. ASSUME NEW t \in Threads, WaitNextMs(t) PROVE Locked'
  BY <1>3 DEF WaitNextMs, GoTo
<1>4. ASSUME NEW t \in Threads, Issue(t) PROVE Locked'
  <2> SUFFICES ASSUME NEW u \in Threads, pc'[u] # "idle"
               PROVE  lock'[Process[u]] = u
    OBVIOUS
  <2>1. Process[u] \in Procs /\ Process[t] \in Procs BY ProcessOf
  <2>2. u # t /\ pc[u] # "idle" /\ pc[t] # "idle" BY <1>4 DEF Issue, GoTo
  <2>3. Process[u] # Process[t] BY <2>2
  <2> QED BY <1>4, <2>1, <2>2, <2>3 DEF Issue
<1>5. ASSUME NEW p \in Procs, Restart(p) PROVE Locked'
  BY <1>5, ProcessOf DEF Restart
<1>6. CASE Tick BY <1>6 DEF Tick, genVars
<1>7. CASE SetBack BY <1>7 DEF SetBack, genVars
<1>8. CASE UNCHANGED idVars BY <1>8 DEF idVars
<1> QED BY <1>1, <1>2, <1>3, <1>4, <1>5, <1>6, <1>7, <1>8 DEF IdNext

(* Only one thread of a process is inside next_id. *)
LEMMA Alone ==
  ASSUME Locked, NEW t \in Threads, NEW u \in Threads, Process[t] = Process[u],
         pc[t] # "idle", pc[u] # "idle"
  PROVE  t = u
BY DEF Locked

(* Without a wrap the next number of the sequence is the successor. *)
LEMMA Successor ==
  ASSUME NEW s \in 0..(Sequences - 1), (s + 1) % Sequences # 0
  PROVE  (s + 1) % Sequences = s + 1 /\ s + 1 \in 0..(Sequences - 1)
BY BitsAssumption

LEMMA NewestKeptStep == ASSUME IdInv, [IdNext]_idVars PROVE NewestKept'
<1> USE DEF IdInv, IdTypeOK, NewestKept
<1>1. ASSUME NEW t \in Threads, Enter(t) PROVE NewestKept'
  <2>1. \A p \in Procs : AtRest(p)' => AtRest(p) BY <1>1 DEF AtRest, Enter, GoTo
  <2> QED BY <1>1, <2>1 DEF Enter
<1>2. ASSUME NEW t \in Threads, ReadClock(t) PROVE NewestKept'
  <2>1. \A p \in Procs \ {Process[t]} : AtRest(p)' => AtRest(p)
    BY <1>2 DEF AtRest, ReadClock, GoTo
  <2>2. Process[t] \in Procs BY ProcessOf
  <2>3. AtRest(Process[t])
    BY <1>2, Alone DEF AtRest, ReadClock
  <2>4. AtRest(Process[t])' => seq' = seq
    BY <1>2 DEF AtRest, ReadClock, GoTo
  <2>5. \A p \in Procs \ {Process[t]} : seq'[p] = seq[p] BY <1>2, <2>2 DEF ReadClock
  <2>6. last' = last /\ machine' = machine /\ newest' = newest BY <1>2 DEF ReadClock
  <2>7. \A p \in Procs : AtRest(p)' => AtRest(p) /\ seq'[p] = seq[p]
    BY <2>1, <2>3, <2>4, <2>5
  <2> QED BY <2>6, <2>7
<1>3. ASSUME NEW t \in Threads, WaitNextMs(t) PROVE NewestKept'
  <2>1. \A p \in Procs \ {Process[t]} : AtRest(p)' => AtRest(p)
    BY <1>3 DEF AtRest, WaitNextMs, GoTo
  <2>2. ~AtRest(Process[t])' BY <1>3 DEF AtRest, WaitNextMs, GoTo
  <2>3. \A p \in Procs \ {Process[t]} : seq'[p] = seq[p] BY <1>3, ProcessOf DEF WaitNextMs
  <2>4. last' = last /\ machine' = machine /\ newest' = newest BY <1>3 DEF WaitNextMs
  <2> QED BY <2>1, <2>2, <2>3, <2>4
<1>4. ASSUME NEW t \in Threads, Issue(t) PROVE NewestKept'
  <2>1. Process[t] \in Procs /\ stamp[t] \in Nat BY ProcessOf DEF Times
  <2>2. \A p \in Procs \ {Process[t]} : AtRest(p)' => AtRest(p)
    BY <1>4 DEF AtRest, Issue, GoTo
  <2>3. \A p \in Procs \ {Process[t]} : last'[p] = last[p] /\ newest'[p] = newest[p]
    BY <1>4, <2>1 DEF Issue
  <2>4. machine' = machine /\ seq' = seq BY <1>4 DEF Issue
  <2>5. /\ last'[Process[t]] = stamp[t]
        /\ newest'[Process[t]] = Compose(stamp[t], machine[Process[t]], seq[Process[t]])
    BY <1>4, <2>1 DEF Issue
  <2>6. ASSUME NEW p \in Procs \ {Process[t]}
        PROVE  /\ last'[p] = -1 => newest'[p] = -1
               /\ last'[p] # -1 => \E s \in 0..(Sequences - 1) :
                                    newest'[p] = Compose(last'[p], machine'[p], s)
               /\ last'[p] # -1 /\ AtRest(p)' =>
                    newest'[p] = Compose(last'[p], machine'[p], seq'[p])
    BY <2>2, <2>3, <2>4
  <2>7. seq[Process[t]] \in 0..(Sequences - 1) /\ stamp[t] # -1 BY <2>1
  <2> QED BY <2>1, <2>4, <2>5, <2>6, <2>7
<1>5. ASSUME NEW p \in Procs, Restart(p) PROVE NewestKept'
  <2>1. \A q \in Procs \ {p} : AtRest(q)' => AtRest(q)
    BY <1>5 DEF AtRest, Restart
  <2>2. \A q \in Procs \ {p} : /\ last'[q] = last[q] /\ newest'[q] = newest[q]
                               /\ seq'[q] = seq[q] /\ machine'[q] = machine[q]
    BY <1>5 DEF Restart
  <2>3. last'[p] = -1 /\ newest'[p] = -1 BY <1>5 DEF Restart
  <2> QED BY <2>1, <2>2, <2>3
<1>6. CASE Tick BY <1>6 DEF Tick, genVars, AtRest
<1>7. CASE SetBack BY <1>7 DEF SetBack, genVars, AtRest
<1>8. CASE UNCHANGED idVars BY <1>8 DEF idVars, AtRest
<1> QED BY <1>1, <1>2, <1>3, <1>4, <1>5, <1>6, <1>7, <1>8 DEF IdNext

(* Any number of a millisecond after the last timestamp is a larger one. *)
LEMMA LaterIsLarger ==
  ASSUME IdInv, NEW p \in Procs, NEW a \in Nat, last[p] < a, NEW s \in 0..(Sequences - 1)
  PROVE  newest[p] < Compose(a, machine[p], s)
<1> USE DEF IdInv, IdTypeOK
<1>1. machine[p] \in 0..(Machines - 1) /\ last[p] \in -1..MaxTime OBVIOUS
<1>2. CASE last[p] = -1
  <2>1. Compose(a, machine[p], s) \in Nat BY <1>1, ComposeNat
  <2> QED BY <1>2, <2>1 DEF NewestKept
<1>3. CASE last[p] # -1
  <2>1. PICK r \in 0..(Sequences - 1) : newest[p] = Compose(last[p], machine[p], r)
    BY <1>3 DEF NewestKept
  <2>2. last[p] \in Nat BY <1>1, <1>3, BitsAssumption
  <2> QED BY <1>1, <2>1, <2>2, Later
<1> QED BY <1>2, <1>3

LEMMA NextIsLargerStep == ASSUME IdInv, [IdNext]_idVars PROVE NextIsLarger'
<1> USE DEF IdInv, IdTypeOK
<1> SUFFICES ASSUME NEW u \in Threads, pc'[u] = "issue"
             PROVE  newest'[Process[u]]
                      < Compose(stamp'[u], machine'[Process[u]], seq'[Process[u]])
  BY DEF NextIsLarger
<1>0. Process[u] \in Procs BY ProcessOf
<1>a. pc[u] = "issue" => newest[Process[u]]
                           < Compose(stamp[u], machine[Process[u]], seq[Process[u]])
  BY DEF NextIsLarger
<1>1. ASSUME NEW t \in Threads, Enter(t) PROVE pc[u] = "issue"
  BY <1>1 DEF Enter, GoTo
<1>2. ASSUME NEW t \in Threads, ReadClock(t)
      PROVE  newest'[Process[u]]
               < Compose(stamp'[u], machine'[Process[u]], seq'[Process[u]])
  <2>1. newest' = newest /\ machine' = machine /\ Process[t] \in Procs
    BY <1>2, ProcessOf DEF ReadClock
  <2>2. CASE u = t
    <3> DEFINE p == Process[t]
               next == IF now = last[p] THEN (seq[p] + 1) % Sequences ELSE 0
    <3>1. /\ now >= last[p] /\ stamp'[t] = now /\ seq'[p] = next
          /\ ~(now = last[p] /\ next = 0)
      <4>1. pc'[t] = "issue" /\ t \in DOMAIN pc BY <2>2
      <4>2. ~(now < last[p])
        <5>1. now < last[p] => pc'[t] = "behind" BY <1>2, <4>1 DEF ReadClock, GoTo
        <5> QED BY <4>1, <5>1
      <4>3. stamp'[t] = now BY <1>2 DEF ReadClock
      <4>4. seq' = [seq EXCEPT ![p] = next]
            /\ pc' = [pc EXCEPT ![t] = IF now = last[p] /\ next = 0 THEN "exhausted" ELSE "issue"]
        BY <1>2, <4>2 DEF ReadClock, GoTo
      <4>5. seq'[p] = next BY <2>1, <4>4
      <4>6. ~(now = last[p] /\ next = 0) BY <4>1, <4>4
      <4>7. now >= last[p] BY <2>1, <4>2, BitsAssumption DEF Times
      <4> QED BY <4>3, <4>5, <4>6, <4>7
    <3>2. now \in Nat /\ machine[p] \in 0..(Machines - 1) /\ seq[p] \in 0..(Sequences - 1)
      BY <2>1 DEF Times
    <3>3. CASE now = last[p]
      <4>1. last[p] # -1 BY <3>2, <3>3
      <4>2. AtRest(p) BY <1>2, Alone DEF AtRest, ReadClock
      <4>3. newest[p] = Compose(now, machine[p], seq[p])
        BY <2>1, <3>3, <4>1, <4>2 DEF NewestKept
      <4>4. seq'[p] = seq[p] + 1 /\ seq[p] + 1 \in 0..(Sequences - 1)
        BY <3>1, <3>2, <3>3, Successor
      <4>5. Compose(now, machine[p], seq[p]) < Compose(now, machine[p], seq[p] + 1)
        BY <3>2, <4>4, SameTime
      <4> QED BY <2>1, <2>2, <3>1, <4>3, <4>4, <4>5
    <3>4. CASE now # last[p]
      <4>1. last[p] < now BY <2>1, <3>1, <3>2, <3>4
      <4>2. 0 \in 0..(Sequences - 1) BY BitsAssumption
      <4>3. newest[p] < Compose(now, machine[p], 0)
        BY <2>1, <3>2, <4>1, <4>2, LaterIsLarger
      <4> QED BY <2>1, <2>2, <3>1, <3>4, <4>3
    <3> QED BY <3>3, <3>4
  <2>3. CASE u # t
    <3>1. pc[u] = "issue" /\ pc[t] # "idle" BY <1>2, <2>3 DEF ReadClock, GoTo
    <3>2. Process[u] # Process[t] BY <2>3, <3>1, Alone
    <3>3. stamp'[u] = stamp[u] /\ seq'[Process[u]] = seq[Process[u]]
      BY <1>0, <1>2, <2>1, <2>3, <3>2 DEF ReadClock
    <3> QED BY <1>a, <2>1, <3>1, <3>3
  <2> QED BY <2>2, <2>3
<1>3. ASSUME NEW t \in Threads, WaitNextMs(t)
      PROVE  newest'[Process[u]]
               < Compose(stamp'[u], machine'[Process[u]], seq'[Process[u]])
  <2>1. newest' = newest /\ machine' = machine /\ Process[t] \in Procs
    BY <1>3, ProcessOf DEF WaitNextMs
  <2>2. CASE u = t
    <3>1. /\ now > last[Process[t]] /\ stamp'[t] = now /\ seq'[Process[t]] = 0
          /\ now \in Nat /\ 0 \in 0..(Sequences - 1)
      BY <1>3, <2>1, BitsAssumption DEF WaitNextMs, Times
    <3>2. newest[Process[t]] < Compose(now, machine[Process[t]], 0)
      BY <2>1, <3>1, LaterIsLarger
    <3> QED BY <2>1, <2>2, <3>1, <3>2
  <2>3. CASE u # t
    <3>1. pc[u] = "issue" /\ pc[t] # "idle" BY <1>3, <2>3 DEF WaitNextMs, GoTo
    <3>2. Process[u] # Process[t] BY <2>3, <3>1, Alone
    <3>3. stamp'[u] = stamp[u] /\ seq'[Process[u]] = seq[Process[u]]
      BY <1>0, <1>3, <2>1, <2>3, <3>2 DEF WaitNextMs
    <3> QED BY <1>a, <2>1, <3>1, <3>3
  <2> QED BY <2>2, <2>3
<1>4. ASSUME NEW t \in Threads, Issue(t)
      PROVE  newest'[Process[u]]
               < Compose(stamp'[u], machine'[Process[u]], seq'[Process[u]])
  <2>1. Process[t] \in Procs BY ProcessOf
  <2>2. u # t /\ pc[u] = "issue" /\ pc[t] = "issue" BY <1>4 DEF Issue, GoTo
  <2>3. Process[u] # Process[t] BY <2>2, Alone
  <2>4. /\ newest'[Process[u]] = newest[Process[u]] /\ stamp'[u] = stamp[u]
        /\ machine' = machine /\ seq' = seq
    BY <1>0, <1>4, <2>1, <2>2, <2>3 DEF Issue
  <2> QED BY <1>a, <2>2, <2>4
<1>5. ASSUME NEW p \in Procs, Restart(p)
      PROVE  newest'[Process[u]]
               < Compose(stamp'[u], machine'[Process[u]], seq'[Process[u]])
  <2>1. Process[u] # p /\ pc[u] = "issue" BY <1>5 DEF Restart
  <2>2. /\ newest'[Process[u]] = newest[Process[u]] /\ stamp'[u] = stamp[u]
        /\ machine'[Process[u]] = machine[Process[u]] /\ seq'[Process[u]] = seq[Process[u]]
    BY <1>0, <1>5, <2>1 DEF Restart
  <2> QED BY <1>a, <2>1, <2>2
<1>6. CASE Tick BY <1>6, <1>a DEF Tick, genVars
<1>7. CASE SetBack BY <1>7, <1>a DEF SetBack, genVars
<1>8. CASE UNCHANGED idVars BY <1>8, <1>a DEF idVars
<1>9. ASSUME NEW t \in Threads, Enter(t)
      PROVE  newest'[Process[u]]
               < Compose(stamp'[u], machine'[Process[u]], seq'[Process[u]])
  BY <1>1, <1>9, <1>a DEF Enter
<1> QED BY <1>2, <1>3, <1>4, <1>5, <1>6, <1>7, <1>8, <1>9 DEF IdNext

(* Numbers are issued one at a time; nothing else adds any. *)
LEMMA UsedStays ==
  ASSUME IdInv, [IdNext]_idVars, \A t \in Threads : ~Issue(t)
  PROVE  used' = used
BY DEF IdNext, Enter, ReadClock, WaitNextMs, Tick, SetBack, Restart, idVars

(* What has passed stays passed as long as the clock is not set back. *)
LEMMA BeforeStays ==
  ASSUME IdInv, [IdNext]_idVars, back' = 0, \A t \in Threads : ~Issue(t),
         NEW p \in Procs, NEW a \in Times, a <= now, Before(p, a)
  PROVE  a <= now' /\ Before(p, a)'
<1> USE DEF IdInv, IdTypeOK, Before, Times
<1>0. MaxTime \in Nat BY BitsAssumption
<1>1. ASSUME NEW t \in Threads, Enter(t) PROVE a <= now' /\ Before(p, a)'
  BY <1>1 DEF Enter, GoTo
<1>2. ASSUME NEW t \in Threads, ReadClock(t) PROVE a <= now' /\ Before(p, a)'
  <2>1. now' = now /\ newest' = newest BY <1>2 DEF ReadClock
  <2>2. \A u \in Threads : pc'[u] = "issue" =>
          (u = t /\ stamp'[u] = now) \/ (pc[u] = "issue" /\ stamp'[u] = stamp[u])
    BY <1>2 DEF ReadClock, GoTo
  <2> QED BY <2>1, <2>2
<1>3. ASSUME NEW t \in Threads, WaitNextMs(t) PROVE a <= now' /\ Before(p, a)'
  <2>1. now' = now /\ newest' = newest BY <1>3 DEF WaitNextMs
  <2>2. \A u \in Threads : pc'[u] = "issue" =>
          (u = t /\ stamp'[u] = now) \/ (pc[u] = "issue" /\ stamp'[u] = stamp[u])
    BY <1>3 DEF WaitNextMs, GoTo
  <2> QED BY <2>1, <2>2
<1>5. ASSUME NEW q \in Procs, Restart(q) PROVE a <= now' /\ Before(p, a)'
  <2>1. now' = now + 1 BY <1>5 DEF Restart
  <2>2. a < now' BY <2>1, <1>0
  <2>3. ASSUME NEW u \in Threads, Process[u] = p, pc'[u] = "issue", newest'[p] = -1
        PROVE  a < stamp'[u]
    <3>1. p # q /\ pc[u] = "issue" /\ stamp'[u] = stamp[u] BY <1>5, <2>3 DEF Restart
    <3>2. newest[p] = -1 BY <1>5, <2>3, <3>1 DEF Restart
    <3> QED BY <2>3, <3>1, <3>2
  <2>4. a <= now' BY <2>1, <1>0
  <2>5. Before(p, a)' BY <2>2, <2>3
  <2> QED BY <2>4, <2>5
<1>6. CASE Tick BY <1>0, <1>6 DEF Tick, genVars
<1>7. CASE SetBack
  <2>1. back' = back + 1 /\ back \in Nat BY <1>7, BitsAssumption DEF SetBack
  <2> QED BY <2>1
<1>8. CASE UNCHANGED idVars BY <1>8 DEF idVars
<1> QED BY <1>1, <1>2, <1>3, <1>5, <1>6, <1>7, <1>8 DEF IdNext

LEMMA StampsStay ==
  ASSUME IdInv, [IdNext]_idVars, back' = 0, \A t \in Threads : stamp[t] <= now
  PROVE  \A t \in Threads : stamp'[t] <= now'
<1> USE DEF IdInv, IdTypeOK, Times
<1>0. MaxTime \in Nat /\ now \in Nat BY BitsAssumption
<1>1. ASSUME NEW t \in Threads, Enter(t) PROVE \A u \in Threads : stamp'[u] <= now'
  BY <1>1 DEF Enter
<1>2. ASSUME NEW t \in Threads, ReadClock(t) PROVE \A u \in Threads : stamp'[u] <= now'
  BY <1>2, <1>0 DEF ReadClock
<1>3. ASSUME NEW t \in Threads, WaitNextMs(t) PROVE \A u \in Threads : stamp'[u] <= now'
  BY <1>3, <1>0 DEF WaitNextMs
<1>4. ASSUME NEW t \in Threads, Issue(t) PROVE \A u \in Threads : stamp'[u] <= now'
  BY <1>4, <1>0 DEF Issue
<1>5. ASSUME NEW q \in Procs, Restart(q) PROVE \A u \in Threads : stamp'[u] <= now'
  BY <1>5, <1>0 DEF Restart
<1>6. CASE Tick BY <1>0, <1>6 DEF Tick, genVars
<1>7. CASE SetBack
  <2>1. back' = back + 1 /\ back \in Nat BY <1>7, BitsAssumption DEF SetBack
  <2> QED BY <2>1
<1>8. CASE UNCHANGED idVars BY <1>8 DEF idVars
<1> QED BY <1>1, <1>2, <1>3, <1>4, <1>5, <1>6, <1>7, <1>8 DEF IdNext

(* The clock is set back for good. *)
LEMMA BackStays == ASSUME IdInv, [IdNext]_idVars, back' = 0 PROVE back = 0
<1>1. back' \in {back, back + 1}
  BY DEF IdNext, Enter, ReadClock, WaitNextMs, Issue, Tick, SetBack, Restart, idVars
<1>2. back \in Nat BY BitsAssumption DEF IdInv, IdTypeOK
<1> QED BY <1>1, <1>2

(* The numbers after an issue. *)
LEMMA Issued ==
  ASSUME IdInv, NEW t \in Threads, Issue(t)
  PROVE  LET p == Process[t]
             id == Compose(stamp[t], machine[p], seq[p])
         IN  /\ p \in Procs /\ id \in Nat /\ newest'[p] = id /\ id > newest[p]
             /\ used'[p] = used[p] \cup {id}
             /\ \A q \in Procs \ {p} : used'[q] = used[q] /\ newest'[q] = newest[q]
<1> USE DEF IdInv, IdTypeOK
<1> DEFINE p == Process[t]
           id == Compose(stamp[t], machine[p], seq[p])
<1>1. p \in Procs BY ProcessOf
<1>2. id \in Nat BY <1>1, ComposeNat DEF Times
<1>3. newest'[p] = id /\ used'[p] = used[p] \cup {id} BY <1>1 DEF Issue
<1>4. newest[p] < id BY DEF NextIsLarger, Issue
<1>5. newest[p] \in Int BY <1>1
<1>6. \A q \in Procs \ {p} : used'[q] = used[q] /\ newest'[q] = newest[q]
  BY <1>1 DEF Issue
<1> HIDE DEF id
<1>7. id > newest[p] BY <1>2, <1>4, <1>5
<1> QED BY <1>1, <1>2, <1>3, <1>6, <1>7 DEF id

LEMMA InThePastStep == ASSUME IdInv, [IdNext]_idVars PROVE InThePast'
<1> USE DEF IdInv, IdTypeOK
<1> SUFFICES ASSUME back' = 0 PROVE
       /\ \A t \in Threads : stamp'[t] <= now'
       /\ \A p \in Procs : \A id \in used'[p] :
            \E a \in Times, m \in 0..(Machines - 1), s \in 0..(Sequences - 1) :
              id = Compose(a, m, s) /\ a <= now' /\ Before(p, a)'
  BY DEF InThePast, Times
<1>1. back = 0 BY BackStays
<1>2. \A t \in Threads : stamp'[t] <= now' BY <1>1, StampsStay DEF InThePast
<1>3. ASSUME NEW t \in Threads, Issue(t), NEW p \in Procs, NEW id \in used'[p]
      PROVE  \E a \in Times, m \in 0..(Machines - 1), s \in 0..(Sequences - 1) :
               id = Compose(a, m, s) /\ a <= now' /\ Before(p, a)'
  <2>0. Process[t] \in Procs BY ProcessOf
  <2>1. now' = now BY <1>3 DEF Issue
  <2>2. CASE id \in used[p]
    <3>1. PICK a \in Times, m \in 0..(Machines - 1), s \in 0..(Sequences - 1) :
                 id = Compose(a, m, s) /\ a <= now /\ Before(p, a)
      BY <1>1, <2>2 DEF InThePast
    <3>2. CASE p = Process[t]
      <4>1. newest'[p] # -1 BY <1>3, <3>2, Issued
      <4> QED BY <2>1, <3>1, <4>1 DEF Before
    <3>3. CASE p # Process[t]
      <4>1. newest'[p] = newest[p] BY <1>3, <3>3, Issued
      <4>2. \A u \in Threads : Process[u] = p => pc'[u] = pc[u] /\ stamp'[u] = stamp[u]
        BY <1>3, <3>3 DEF Issue, GoTo
      <4> QED BY <2>1, <3>1, <4>1, <4>2 DEF Before
    <3> QED BY <3>2, <3>3
  <2>3. CASE id \notin used[p]
    <3>1. p = Process[t] /\ id = Compose(stamp[t], machine[p], seq[p]) /\ newest'[p] # -1
      BY <1>3, <2>3, Issued
    <3>2. stamp[t] \in Times /\ stamp[t] <= now BY <1>1 DEF InThePast
    <3> QED BY <2>1, <3>1, <3>2 DEF Before
  <2> QED BY <2>2, <2>3
<1>4. ASSUME \A t \in Threads : ~Issue(t), NEW p \in Procs, NEW id \in used'[p]
      PROVE  \E a \in Times, m \in 0..(Machines - 1), s \in 0..(Sequences - 1) :
               id = Compose(a, m, s) /\ a <= now' /\ Before(p, a)'
  <2>1. id \in used[p] BY <1>4, UsedStays
  <2>2. PICK a \in Times, m \in 0..(Machines - 1), s \in 0..(Sequences - 1) :
               id = Compose(a, m, s) /\ a <= now /\ Before(p, a)
    BY <1>1, <2>1 DEF InThePast
  <2>3. a <= now' /\ Before(p, a)' BY <1>4, <2>2, BeforeStays
  <2> QED BY <2>2, <2>3
<1> QED BY <1>2, <1>3, <1>4

(* Numbers of earlier lives are smaller than the first of the next one. *)
LEMMA OlderIsSmaller ==
  ASSUME IdInv, back = 0, NEW t \in Threads, Issue(t), NEW id \in used[Process[t]]
  PROVE  id < Compose(stamp[t], machine[Process[t]], seq[Process[t]])
<1> USE DEF IdInv, IdTypeOK
<1> DEFINE p == Process[t]
<1>0. /\ p \in Procs /\ stamp[t] \in Nat /\ machine[p] \in 0..(Machines - 1)
      /\ seq[p] \in 0..(Sequences - 1) /\ used[p] \subseteq Nat
  BY ProcessOf DEF Times
<1>1. CASE newest[p] # -1
  <2>1. id <= newest[p] BY <1>0, <1>1 DEF NewestIsLargest
  <2>2. newest[p] < Compose(stamp[t], machine[p], seq[p]) BY DEF NextIsLarger, Issue
  <2>3. id \in Int /\ newest[p] \in Int BY <1>0
  <2>4. Compose(stamp[t], machine[p], seq[p]) \in Int BY <1>0, ComposeNat
  <2> QED BY <2>1, <2>2, <2>3, <2>4
<1>2. CASE newest[p] = -1
  <2>1. PICK a \in Times, m \in 0..(Machines - 1), s \in 0..(Sequences - 1) :
               id = Compose(a, m, s) /\ a <= now /\ Before(p, a)
    BY <1>0 DEF InThePast
  <2>2. a < stamp[t] /\ a \in Nat BY <1>2, <2>1 DEF Before, Issue, Times
  <2> QED BY <1>0, <2>1, <2>2, Later
<1> QED BY <1>1, <1>2

LEMMA NewestIsLargestStep == ASSUME IdInv, [IdNext]_idVars PROVE NewestIsLargest'
<1> USE DEF IdInv, IdTypeOK
<1> SUFFICES ASSUME NEW p \in Procs, newest'[p] # -1, back' = 0, NEW id \in used'[p]
             PROVE  id <= newest'[p]
  BY DEF NewestIsLargest
<1>1. back = 0 BY BackStays
<1>2. ASSUME NEW t \in Threads, Issue(t) PROVE id <= newest'[p]
  <2>1. CASE p = Process[t]
    <3> DEFINE n == Compose(stamp[t], machine[p], seq[p])
    <3>1. newest'[p] = n /\ n \in Nat /\ used'[p] = used[p] \cup {n}
      BY <1>2, <2>1, Issued
    <3>2. id \in used[p] => id < n BY <1>1, <1>2, <2>1, OlderIsSmaller
    <3>3. used[p] \subseteq Nat OBVIOUS
    <3> HIDE DEF n
    <3> QED BY <3>1, <3>2, <3>3
  <2>2. CASE p # Process[t]
    BY <1>1, <1>2, <2>2, Issued DEF NewestIsLargest
  <2> QED BY <2>1, <2>2
<1>3. CASE \A t \in Threads : ~Issue(t)
  <2>1. used' = used BY <1>3, UsedStays
  <2>2. newest'[p] = newest[p]
    BY <1>3 DEF IdNext, Enter, ReadClock, WaitNextMs, Tick, SetBack, Restart, idVars
  <2> QED BY <1>1, <2>1, <2>2 DEF NewestIsLargest
<1> QED BY <1>2, <1>3

LEMMA MarkedStep == ASSUME IdInv, [IdNext]_idVars PROVE Marked'
<1> USE DEF IdInv, IdTypeOK
<1> SUFFICES ASSUME restarts' = 0, NEW p \in Procs, NEW id \in used'[p]
             PROVE  \E a \in Times, s \in 0..(Sequences - 1) : id = Compose(a, machine'[p], s)
  BY DEF Marked, Times
<1>1. restarts = 0 /\ machine' = machine
  <2>1. restarts \in Nat BY BitsAssumption
  <2>2. \/ restarts' = restarts /\ machine' = machine
        \/ restarts' = restarts + 1
    BY DEF IdNext, Enter, ReadClock, WaitNextMs, Issue, Tick, SetBack, Restart, idVars
  <2> QED BY <2>1, <2>2
<1>2. CASE id \in used[p] BY <1>1, <1>2 DEF Marked
<1>3. CASE id \notin used[p]
  <2>1. PICK t \in Threads : Issue(t) BY <1>3, UsedStays
  <2>2. p = Process[t] /\ id = Compose(stamp[t], machine[p], seq[p])
    BY <1>3, <2>1, Issued
  <2> QED BY <1>1, <2>2
<1> QED BY <1>2, <1>3

LEMMA InvStep == IdInv /\ [IdNext]_idVars => IdInv'
  BY TypeStep, LockedStep, NewestKeptStep, NextIsLargerStep, InThePastStep,
     NewestIsLargestStep, MarkedStep DEF IdInv

LEMMA IdInvariance == IdSpec => []IdInv
  BY InvInit, InvStep, PTL DEF IdSpec

-------------------------------------------------------------------------------
(* The theorems.                                                           *)

(* The generators keep their shape: machine bits and sequence stay within  *)
(* their fields, for any widths (SnowflakeIdGenerator).                    *)
THEOREM GeneratorTypes == IdSpec => []IdTypeOK
<1>1. IdInv => IdTypeOK BY DEF IdInv
<1> QED BY <1>1, IdInvariance, PTL

(* In the life of a process numbers increase, whatever its threads and the *)
(* clock do (next_id).                                                     *)
THEOREM NumbersIncrease == IdSpec => IdsIncrease
<1>1. ASSUME IdInv, [IdNext]_idVars
      PROVE  [\A p \in Procs : newest'[p] \in {newest[p], -1} \/ newest'[p] > newest[p]]_idVars
  <2>1. ASSUME NEW t \in Threads, Issue(t), NEW p \in Procs
        PROVE  newest'[p] = newest[p] \/ newest'[p] > newest[p]
    BY <1>1, <2>1, Issued
  <2>2. ASSUME \A t \in Threads : ~Issue(t), NEW p \in Procs
        PROVE  newest'[p] \in {newest[p], -1}
    BY <1>1, <2>2 DEF IdNext, Enter, ReadClock, WaitNextMs, Tick, SetBack, Restart, idVars,
                      IdInv, IdTypeOK
  <2> QED BY <2>1, <2>2
<1> QED BY <1>1, IdInvariance, PTL DEF IdSpec, IdsIncrease

(* A number is issued twice only after the clock was set back or by two    *)
(* processes that share, or after a restart may share, the machine bits    *)
(* (_machine_bits).                                                        *)
THEOREM NumbersAreUnique == IdSpec => IdsUnique
<1>1. ASSUME IdInv, [IdNext]_idVars, NEW p \in Procs, NEW q \in Procs,
             newest'[p] \notin {newest[p], -1}, newest'[p] \in used[q],
             back = 0, ~(q # p /\ (machine[q] = machine[p] \/ restarts > 0))
      PROVE  FALSE
  <2> USE <1>1 DEF IdInv, IdTypeOK
  <2>1. PICK t \in Threads : Issue(t)
    BY DEF IdNext, Enter, ReadClock, WaitNextMs, Tick, SetBack, Restart, idVars
  <2>2. p = Process[t] BY <2>1, Issued
  <2> DEFINE n == Compose(stamp[t], machine[p], seq[p])
  <2>3. newest'[p] = n /\ n \in Nat BY <2>1, <2>2, Issued
  <2>4. CASE q = p
    <3>1. n < n BY <2>1, <2>2, <2>3, <2>4, OlderIsSmaller
    <3> HIDE DEF n
    <3> QED BY <2>3, <3>1
  <2>5. CASE q # p
    <3>1. machine[q] # machine[p] /\ restarts = 0
      BY <2>5, BitsAssumption
    <3>2. PICK a \in Times, s \in 0..(Sequences - 1) : n = Compose(a, machine[q], s)
      BY <2>3, <3>1 DEF Marked
    <3>3. /\ stamp[t] \in Nat /\ a \in Nat
          /\ machine[p] \in 0..(Machines - 1) /\ machine[q] \in 0..(Machines - 1)
          /\ seq[p] \in 0..(Sequences - 1)
      BY DEF Times
    <3>4. machine[q] = machine[p] BY <3>2, <3>3, MachineBits
    <3> QED BY <3>1, <3>4
  <2> QED BY <2>4, <2>5
<1>2. IdInv /\ [IdNext]_idVars =>
        [\A p, q \in Procs :
           newest'[p] \notin {newest[p], -1} /\ newest'[p] \in used[q] =>
             \/ back > 0
             \/ q # p /\ (machine[q] = machine[p] \/ restarts > 0)]_idVars
  <2>1. IdInv => back = 0 \/ back > 0 BY BitsAssumption DEF IdInv, IdTypeOK
  <2> QED BY <1>1, <2>1
<1> QED BY <1>2, IdInvariance, PTL DEF IdSpec, IdsUnique

===============================================================================
