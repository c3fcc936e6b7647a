--------------------------- MODULE CountingLemmas ---------------------------
(***************************************************************************)
(* Induction over the natural numbers in the form the provers can use, and    *)
(* what Subsequences computes.  A set of naturals that has an element has a    *)
(* least one, so a claim about every natural is proved by looking at the       *)
(* least number it fails for.                                                *)
(***************************************************************************)
EXTENDS Subsequences, SequencesExt, FiniteSetTheorems, WellFoundedInduction, TLAPS

(* The order of the naturals as a set of pairs. *)
LessNat == {ss \in Nat \X Nat : ss[1] < ss[2]}

(* It has no infinite descent. *)
LEMMA LessNatWellFounded == IsWellFoundedOn(LessNat, Nat)
BY NatLessThanWellFounded, Zenon DEF OpToRel, LessNat

(* The least element. *)
LEMMA LeastNat ==
  ASSUME NEW T, T \subseteq Nat, T # {}
  PROVE \E x \in T : \A y \in T : x <= y
<1>1. PICK x \in T : \A y \in T : ~(<<y, x>> \in LessNat)
  BY LessNatWellFounded, WFMin
<1>2. \A z, y \in Nat : y < z => <<y, z>> \in LessNat
  BY DEF LessNat
<1>3. \A y \in T : ~(y < x)
  BY <1>1, <1>2
<1>4. \A y \in T : y \in Nat /\ x \in Nat
  OBVIOUS
<1>5. \A y \in T : x <= y
  BY <1>3, <1>4
<1> QED BY <1>5

(* Induction: a set with 0 and the successor of each natural it holds has all   *)
(* of them.                                                                    *)
LEMMA AllNat ==
  ASSUME NEW T, 0 \in T, \A n \in Nat : n \in T => n + 1 \in T
  PROVE  Nat \subseteq T
<1> SUFFICES ASSUME Nat \ T # {} PROVE FALSE
  OBVIOUS
<1>1. PICK m \in Nat \ T : \A y \in Nat \ T : m <= y
  BY LeastNat
<1>2. m # 0 /\ m - 1 \in Nat
  BY <1>1
<1>3. m - 1 \in T
  BY <1>1, <1>2
<1> QED BY <1>1, <1>2, <1>3

(* The same for the numbers up to a bound. *)
LEMMA UpTo ==
  ASSUME NEW T, NEW N \in Nat, 0 \in T, \A n \in 0..(N - 1) : n \in T => n + 1 \in T
  PROVE  0..N \subseteq T
<1> DEFINE U == {n \in Nat : n <= N => n \in T}
<1>1. 0 \in U
  OBVIOUS
<1>2. \A n \in Nat : n \in U => n + 1 \in U
  OBVIOUS
<1> HIDE DEF U
<1>3. Nat \subseteq U
  BY <1>1, <1>2, AllNat
<1> QED BY <1>3 DEF U

-----------------------------------------------------------------------------
(* How many numbers of a set are not above i: zero before the first, one more    *)
(* at each of them, all of them at the end.                                     *)
LEMMA RankFacts ==
  ASSUME NEW N \in Nat, NEW K \in SUBSET (1..N)
  PROVE  /\ IsFiniteSet(K) /\ Cardinality(K) \in Nat
         /\ \A i \in Nat : Rank(K, i) \in Nat
         /\ Rank(K, 0) = 0 /\ Rank(K, N) = Cardinality(K)
         /\ \A i \in Nat : Rank(K, i + 1) = IF i + 1 \in K THEN Rank(K, i) + 1 ELSE Rank(K, i)
<1> DEFINE U(i) == {j \in K : j <= i}
<1>1. IsFiniteSet(1..N)
  BY FS_Interval
<1>2. IsFiniteSet(K)
  BY <1>1, FS_Subset
<1>3. ASSUME NEW i \in Nat PROVE IsFiniteSet(U(i))
  <2>1. U(i) \in SUBSET K
    OBVIOUS
  <2> QED BY <2>1, <1>2, FS_Subset
<1>4. ASSUME NEW i \in Nat PROVE Cardinality(U(i)) \in Nat
  BY <1>3, FS_CardinalityType
<1>a. \A j \in K : j \in Nat /\ 1 <= j /\ j <= N
  OBVIOUS
<1>5. U(0) = {} /\ U(N) = K
  <2>1. \A j \in K : ~(j <= 0) /\ j <= N
    BY <1>a
  <2> QED BY <2>1
<1>6. ASSUME NEW i \in Nat
      PROVE  Cardinality(U(i + 1)) = IF i + 1 \in K THEN Cardinality(U(i)) + 1 ELSE Cardinality(U(i))
  <2>1. CASE i + 1 \in K
    <3>0. \A j \in K : j <= i + 1 <=> (j <= i \/ j = i + 1)
      BY <1>a
    <3>1. U(i + 1) = U(i) \cup {i + 1} /\ i + 1 \notin U(i)
      <4>1. ~(i + 1 <= i)
        OBVIOUS
      <4> QED BY <2>1, <3>0, <4>1, Zenon
    <3>2. IsFiniteSet(U(i))
      BY <1>3
    <3> HIDE DEF U
    <3> QED BY <2>1, <3>1, <3>2, FS_AddElement
  <2>2. CASE i + 1 \notin K
    <3>0. \A j \in K : j <= i + 1 <=> j <= i
      BY <1>a, <2>2
    <3>1. U(i + 1) = U(i)
      BY <3>0
    <3> QED BY <2>2, <3>1
  <2> QED BY <2>1, <2>2
<1>7. Cardinality(K) \in Nat /\ Cardinality({}) = 0
  BY <1>2, FS_CardinalityType, FS_EmptySet
<1>8. \A i : Rank(K, i) = Cardinality(U(i))
  BY DEF Rank
<1> HIDE DEF U
<1> QED BY <1>2, <1>4, <1>5, <1>6, <1>7, <1>8

(* One position further. *)
LEMMA RankStep ==
  ASSUME NEW N \in Nat, NEW K \in SUBSET (1..N), NEW h \in Nat
  PROVE  Rank(K, h) \in Nat /\ Rank(K, h + 1) = IF h + 1 \in K THEN Rank(K, h) + 1 ELSE Rank(K, h)
BY RankFacts

(* It never falls. *)
LEMMA RankGrows ==
  ASSUME NEW N \in Nat, NEW K \in SUBSET (1..N), NEW i \in Nat, NEW d \in Nat
  PROVE  Rank(K, i) <= Rank(K, i + d)
<1> DEFINE T == {e \in Nat : Rank(K, i) <= Rank(K, i + e)}
<1>1. 0 \in T
  BY RankFacts
<1>2. ASSUME NEW e \in Nat, e \in T PROVE e + 1 \in T
  <2>1. i + e \in Nat /\ i + (e + 1) = (i + e) + 1
    OBVIOUS
  <2>2. /\ Rank(K, (i + e) + 1) = IF (i + e) + 1 \in K THEN Rank(K, i + e) + 1 ELSE Rank(K, i + e)
        /\ Rank(K, i + e) \in Nat /\ Rank(K, i) \in Nat
    BY <2>1, RankFacts
  <2>3. Rank(K, i) <= Rank(K, i + (e + 1))
    BY <2>1, <2>2, <1>2
  <2> QED BY <2>3
<1> HIDE DEF T
<1>3. d \in T
  BY <1>1, <1>2, AllNat
<1> QED BY <1>3 DEF T

(* Of two positions the first has the lower rank. *)
LEMMA RankOrders ==
  ASSUME NEW N \in Nat, NEW K \in SUBSET (1..N), NEW i \in K, NEW j \in K, i < j
  PROVE  Rank(K, i) < Rank(K, j)
<1> DEFINE h == j - 1
<1>1. h \in Nat /\ i \in Nat /\ h + 1 = j /\ h - i \in Nat /\ i + (h - i) = h
  OBVIOUS
<1> HIDE DEF h
<1>2. Rank(K, i) <= Rank(K, i + (h - i))
  BY <1>1, RankGrows
<1>3. Rank(K, h + 1) = Rank(K, h) + 1 /\ Rank(K, h) \in Nat /\ Rank(K, i) \in Nat
  BY <1>1, RankFacts
<1> QED BY <1>1, <1>2, <1>3

(* Every rank up to the number of positions is that of one of them, and Nth      *)
(* finds it.                                                                    *)
LEMMA NthIs ==
  ASSUME NEW N \in Nat, NEW K \in SUBSET (1..N), NEW n \in 1..Cardinality(K)
  PROVE  Nth(K, n) \in K /\ Rank(K, Nth(K, n)) = n
<1> DEFINE T == {m \in Nat : Rank(K, m) >= n}
<1>1. N \in T
  BY RankFacts
<1>2. PICK m \in T : \A y \in T : m <= y
  BY <1>1, LeastNat
<1>3. m # 0
  BY <1>2, RankFacts
<1> DEFINE h == m - 1
<1>4. h \in Nat /\ h + 1 = m /\ h \notin T
  BY <1>2, <1>3
<1>5. Rank(K, h) \in Nat /\ ~(Rank(K, h) >= n) /\ Rank(K, h + 1) >= n
  BY <1>2, <1>4, RankFacts
<1> HIDE DEF h, T
<1>6. Rank(K, h + 1) = IF h + 1 \in K THEN Rank(K, h) + 1 ELSE Rank(K, h)
  BY <1>4, RankFacts
<1>7. m \in K /\ Rank(K, m) = n
  BY <1>4, <1>5, <1>6
<1> DEFINE Q(i) == Rank(K, i) = n
<1>8. Nth(K, n) = CHOOSE i \in K : Q(i)
  BY DEF Nth
<1>9. \E i \in K : Q(i)
  BY <1>7
<1> HIDE DEF Q
<1>10. Nth(K, n) \in K /\ Q(Nth(K, n))
  BY <1>8, <1>9
<1> QED BY <1>10 DEF Q

(* A position is the one its rank names. *)
LEMMA NthOfRank ==
  ASSUME NEW N \in Nat, NEW K \in SUBSET (1..N), NEW i \in K
  PROVE  Rank(K, i) \in 1..Cardinality(K) /\ Nth(K, Rank(K, i)) = i
<1> DEFINE h == i - 1
<1>1. h \in Nat /\ i \in Nat /\ h + 1 = i /\ N - i \in Nat /\ i + (N - i) = N
  OBVIOUS
<1> HIDE DEF h
<1>2. Rank(K, h + 1) = Rank(K, h) + 1 /\ Rank(K, h) \in Nat
  BY <1>1, RankFacts
<1>3. Rank(K, i) <= Rank(K, i + (N - i)) /\ Rank(K, N) = Cardinality(K) /\ Cardinality(K) \in Nat
  BY <1>1, RankGrows, RankFacts
<1>4. Rank(K, i) \in 1..Cardinality(K)
  BY <1>1, <1>2, <1>3
<1>5. Nth(K, Rank(K, i)) \in K /\ Rank(K, Nth(K, Rank(K, i))) = Rank(K, i)
  BY <1>4, NthIs
<1> DEFINE x == Nth(K, Rank(K, i))
<1>6. x \in K /\ Rank(K, x) = Rank(K, i)
  BY <1>5
<1> HIDE DEF x
<1>7. Rank(K, i) \in Nat
  BY <1>1, RankFacts
<1>8. ~(x < i) /\ ~(i < x)
  <2>1. x < i => Rank(K, x) < Rank(K, i)
    BY <1>6, RankOrders
  <2>2. i < x => Rank(K, i) < Rank(K, x)
    BY <1>6, RankOrders
  <2> QED BY <2>1, <2>2, <1>6, <1>7
<1>9. x = i
  BY <1>6, <1>8
<1> QED BY <1>4, <1>9 DEF x

-----------------------------------------------------------------------------
(* f starts with b and goes on by step. *)
Recurs(f, b, n, step) == f[0] = b /\ \A i \in 1..n : f[i] = step[<<i, f[i - 1]>>]

(* step stays in S. *)
StepsIn(step, n, S) == \A i \in 1..n, x \in S : step[<<i, x>>] \in S

(* Recursion over 0..n: there is a function that starts with b and goes on by     *)
(* step.                                                                         *)
LEMMA Recursion ==
  ASSUME NEW S, NEW b \in S, NEW n \in Nat, NEW step, StepsIn(step, n, S)
  PROVE  \E f \in [0..n -> S] : Recurs(f, b, n, step)
<1> DEFINE P(f, m) == f[0] = b /\ \A i \in 1..m : f[i] = step[<<i, f[i - 1]>>]
           T == {m \in Nat : m <= n => \E f \in [0..m -> S] : P(f, m)}
<1>1. 0 \in T
  <2> DEFINE f == [i \in 0..0 |-> b]
  <2>1. f \in [0..0 -> S] /\ P(f, 0)
    OBVIOUS
  <2> HIDE DEF f, P
  <2> QED BY <2>1
<1>2. ASSUME NEW m \in Nat, m \in T PROVE m + 1 \in T
  <2>0. ASSUME m + 1 <= n PROVE \E f \in [0..(m + 1) -> S] : P(f, m + 1)
    <3>1. \E g \in [0..m -> S] : P(g, m)
      <4> HIDE DEF P
      <4> QED BY <1>2, <2>0
    <3>2. PICK g \in [0..m -> S] : P(g, m)
      BY <3>1
    <3> DEFINE f == [i \in 0..(m + 1) |-> IF i <= m THEN g[i] ELSE step[<<m + 1, g[m]>>]]
    <3>3. step[<<m + 1, g[m]>>] \in S
      BY <2>0 DEF StepsIn
    <3>4. f \in [0..(m + 1) -> S]
      BY <3>3
    <3>5. f[0] = b /\ f[m + 1] = step[<<m + 1, f[m]>>]
      <4>1. f[0] = g[0] /\ f[m] = g[m] /\ f[m + 1] = step[<<m + 1, g[m]>>]
        OBVIOUS
      <4> QED BY <3>2, <4>1
    <3>6. \A i \in 1..m : f[i] = step[<<i, f[i - 1]>>]
      BY <3>2
    <3> HIDE DEF f
    <3>7. \A i \in 1..(m + 1) : i \in 1..m \/ (i = m + 1 /\ i - 1 = m)
      OBVIOUS
    <3>8. \A i \in 1..(m + 1) : f[i] = step[<<i, f[i - 1]>>]
      BY <3>5, <3>6, <3>7
    <3>9. P(f, m + 1)
      BY <3>5, <3>8
    <3> HIDE DEF P
    <3> QED BY <3>4, <3>9
  <2> HIDE DEF P
  <2> QED BY <2>0
<1> HIDE DEF T
<1>3. n \in T
  BY <1>1, <1>2, AllNat
<1>4. \E f \in [0..n -> S] : P(f, n)
  <2> HIDE DEF P
  <2> QED BY <1>3 DEF T
<1> QED BY <1>4 DEF Recurs

(* FlattenSeq of a list of lists: the recursion behind it has a solution. *)
LEMMA FlattenIs ==
  ASSUME NEW S, NEW seqs \in Seq(Seq(S))
  PROVE  \E f \in [0..Len(seqs) -> Seq(S)] :
           /\ f[0] = <<>> /\ \A i \in 1..Len(seqs) : f[i] = f[i - 1] \o seqs[i]
           /\ FlattenSeq(seqs) = f[Len(seqs)]
<1> DEFINE n == Len(seqs)
           Rhs(f) == [i \in 1..n |-> IF i = 1 THEN seqs[i] ELSE f[i - 1] \o seqs[i]]
           F == CHOOSE f : f = Rhs(f)
           step == [p \in (1..n) \X Seq(S) |-> p[2] \o seqs[p[1]]]
<1>0. n \in Nat /\ \A i \in 1..n : seqs[i] \in Seq(S)
  OBVIOUS
<1>1. step \in [(1..n) \X Seq(S) -> Seq(S)]
  BY <1>0
<1>2. <<>> \in Seq(S)
  OBVIOUS
<1>3. \A i \in 1..n, q \in Seq(S) : step[<<i, q>>] = q \o seqs[i]
  OBVIOUS
<1> HIDE DEF step, n
<1>4. \E g \in [0..n -> Seq(S)] : g[0] = <<>> /\ \A i \in 1..n : g[i] = step[<<i, g[i - 1]>>]
  <2> DEFINE Q == Seq(S)
             e == <<>>
  <2>1. StepsIn(step, n, Q) /\ e \in Q /\ n \in Nat
    BY <1>0, <1>1, <1>2 DEF StepsIn
  <2> HIDE DEF Q, e
  <2>2. \E g \in [0..n -> Q] : Recurs(g, e, n, step)
    BY <2>1, Recursion
  <2> QED BY <2>2 DEF Q, e, Recurs
<1>5. PICK g \in [0..n -> Seq(S)] : g[0] = <<>> /\ \A i \in 1..n : g[i] = step[<<i, g[i - 1]>>]
  BY <1>4
<1>6. ASSUME NEW i \in 1..n PROVE g[i - 1] \in Seq(S) /\ g[i] = g[i - 1] \o seqs[i]
  <2>1. i - 1 \in 0..n
    BY <1>0
  <2>2. g[i - 1] \in Seq(S)
    BY <2>1
  <2> QED BY <2>2, <1>5, <1>3
<1> DEFINE h == [i \in 1..n |-> g[i]]
<1>7. h = Rhs(h)
  <2>1. \A q \in Seq(S) : <<>> \o q = q
    OBVIOUS
  <2>2. ASSUME NEW i \in 1..n PROVE g[i] = IF i = 1 THEN seqs[i] ELSE h[i - 1] \o seqs[i]
    <3>1. CASE i = 1
      <4>1. g[1] = g[0] \o seqs[1] /\ seqs[1] \in Seq(S)
        <5>0. g[i] = g[i - 1] \o seqs[i]
          BY <1>6
        <5>1. g[i] = g[i - 1] \o seqs[i] /\ seqs[i] \in Seq(S) /\ i - 1 = 0
          BY <3>1, <5>0, <1>0
        <5> QED BY <5>1, <3>1
      <4> QED BY <3>1, <4>1, <1>5, <2>1
    <3>2. CASE i # 1
      <4>1. i - 1 \in 1..n /\ h[i - 1] = g[i - 1]
        BY <3>2, <1>0
      <4> QED BY <3>2, <4>1, <1>6
    <3> QED BY <3>1, <3>2
  <2> QED BY <2>2
<1> HIDE DEF h
<1>8. F = Rhs(F)
  <2> HIDE DEF Rhs
  <2> QED BY <1>7
<1>9. FlattenSeq(seqs) = IF n = 0 THEN seqs ELSE F[n]
  BY DEF FlattenSeq, n
<1> HIDE DEF F
<1>10. \A i \in 1..n : F[i] = IF i = 1 THEN seqs[i] ELSE F[i - 1] \o seqs[i]
  BY <1>8
<1>11. \A i \in 1..n : F[i] = g[i]
  <2> DEFINE U == {i \in 0..n : i = 0 \/ F[i] = g[i]}
  <2>1. 0 \in U
    BY <1>0
  <2>2. ASSUME NEW i \in 0..(n - 1), i \in U PROVE i + 1 \in U
    <3>1. i + 1 \in 1..n /\ (i + 1) - 1 = i /\ i \in 0..n
      BY <1>0
    <3>2. CASE i = 0
      <4>1. 1 \in 1..n /\ 1 - 1 = 0
        BY <3>1, <3>2
      <4>2. g[1] = g[0] \o seqs[1] /\ seqs[1] \in Seq(S)
        BY <4>1, <1>6, <1>0
      <4>3. F[1] = seqs[1]
        BY <4>1, <1>10
      <4>4. g[1] = seqs[1]
        BY <4>2, <1>5
      <4> QED BY <4>3, <4>4, <3>1, <3>2
    <3>3. CASE i # 0
      <4>1. F[i + 1] = F[(i + 1) - 1] \o seqs[i + 1]
        <5>1. i + 1 # 1
          BY <3>3
        <5> DEFINE j == i + 1
        <5>2. j \in 1..n /\ j # 1
          BY <3>1, <5>1
        <5> HIDE DEF j
        <5>3. F[j] = F[j - 1] \o seqs[j]
          BY <5>2, <1>10
        <5> QED BY <5>3 DEF j
      <4>2. g[i + 1] = g[(i + 1) - 1] \o seqs[i + 1]
        BY <3>1, <1>6
      <4>3. F[i] = g[i]
        BY <2>2, <3>3
      <4>4. F[i + 1] = g[i + 1]
        BY <4>1, <4>2, <4>3, <3>1
      <4>5. i + 1 \in 0..n
        BY <3>1
      <4> QED BY <4>4, <4>5
    <3> QED BY <3>2, <3>3
  <2> HIDE DEF U
  <2>3. 0..n \subseteq U
    BY <2>1, <2>2, <1>0, UpTo
  <2> QED BY <2>3, <1>0 DEF U
<1>12. FlattenSeq(seqs) = g[n]
  <2>1. CASE n = 0
    <3>1. seqs = <<>>
      BY <2>1 DEF n
    <3> QED BY <2>1, <3>1, <1>9, <1>5
  <2>2. CASE n # 0
    BY <2>2, <1>9, <1>11, <1>0
  <2> QED BY <2>1, <2>2
<1> QED BY <1>5, <1>6, <1>12 DEF n

(* FlattenSeq of a list of lists is a list. *)
LEMMA FlattenSeqType ==
  ASSUME NEW S, NEW seqs \in Seq(Seq(S))
  PROVE  FlattenSeq(seqs) \in Seq(S)
<1>1. PICK f \in [0..Len(seqs) -> Seq(S)] : FlattenSeq(seqs) = f[Len(seqs)]
  BY FlattenIs
<1>2. Len(seqs) \in 0..Len(seqs)
  OBVIOUS
<1> QED BY <1>1, <1>2
=============================================================================
