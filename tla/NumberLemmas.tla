---------------------------- MODULE NumberLemmas ----------------------------
(***************************************************************************)
(* Facts the proofs of several modules rest on: numbers, functions defined *)
(* by recursion, orders, powers of two.                                    *)
(***************************************************************************)
EXTENDS Integers, FiniteSets, Ordering, FiniteSetTheorems, WellFoundedInduction, TLAPS

(* Induction, without a theorem about operators: a set of numbers that is   *)
(* not empty has a smallest one.  Used on the set of counterexamples.       *)
Less == {ss \in Nat \X Nat : ss[1] < ss[2]}

LEMMA LessIsWellFounded == IsWellFoundedOn(Less, Nat)
BY NatLessThanWellFounded DEF OpToRel, Less

LEMMA InLess ==
    ASSUME NEW a \in Nat, NEW b \in Nat, a < b
    PROVE  <<a, b>> \in Less
BY DEF Less

LEMMA SmallestOf ==
    ASSUME NEW T \in SUBSET Nat, T # {}
    PROVE  \E n \in T : \A m \in T : n <= m
<1>1. PICK n \in T : \A m \in T : ~ (<<m, n>> \in Less)
  BY LessIsWellFounded, WFMin
<1>2. ASSUME NEW m \in T PROVE n <= m
  <2>1. ~ (<<m, n>> \in Less)
    BY <1>1
  <2>2. ~ (m < n)
    BY <2>1, InLess
  <2>3. QED
    BY <2>2
<1>3. QED
  BY <1>2

(* A finite set of numbers has a largest one.                               *)
LEMMA LargestOf ==
    ASSUME NEW S \in SUBSET Nat, IsFiniteSet(S), S # {}
    PROVE  \E n \in S : \A m \in S : m <= n
<1> DEFINE HasLargest(T) == \E n \in T : \A m \in T : m <= n
           Unbounded     == {T \in SUBSET S : T # {} /\ ~HasLargest(T)}
           Sizes         == {k \in Nat : \E T \in Unbounded : Cardinality(T) = k}
<1>1. SUFFICES ASSUME Sizes # {} PROVE FALSE
  <2>1. \A T \in SUBSET S : Cardinality(T) \in Nat
    BY FS_Subset, FS_CardinalityType
  <2>2. QED
    BY <2>1
<1>2. PICK k \in Sizes : \A l \in Sizes : k <= l
  BY <1>1, SmallestOf
<1>3. PICK T \in Unbounded : Cardinality(T) = k
  OBVIOUS
<1>4. PICK x \in T : TRUE
  OBVIOUS
<1> DEFINE U == T \ {x}
<1>5. IsFiniteSet(T) /\ Cardinality(T) \in Nat
  BY FS_Subset, FS_CardinalityType
<1>6. Cardinality(U) = k - 1 /\ Cardinality(U) \in Nat /\ U \in SUBSET S
  BY <1>3, <1>5, FS_RemoveElement, FS_CardinalityType
<1>7. U = {} \/ HasLargest(U)
  <2>1. k - 1 \notin Sizes
    BY <1>2
  <2>2. U \notin Unbounded
    BY <1>6, <2>1
  <2>3. QED
    BY <1>6, <2>2
<1>8. HasLargest(T)
  <2>1. CASE U = {}
    BY <2>1
  <2>2. ASSUME NEW n \in U, \A m \in U : m <= n PROVE HasLargest(T)
    <3>1. CASE x <= n
      BY <2>2, <3>1
    <3>2. CASE n <= x
      BY <2>2, <3>2
    <3>3. QED
      BY <3>1, <3>2
  <2>3. QED
    BY <1>7, <2>1, <2>2
<1>9. QED
  BY <1>3, <1>8

------------------------------------------------------------------------------
(* Functions defined by recursion on 0..n, and induction on them.           *)
LEMMA UpTo ==
    ASSUME NEW n \in Nat, NEW T, 0 \in T, \A k \in 1..n : k - 1 \in T => k \in T
    PROVE  \A k \in 0..n : k \in T
<1> DEFINE Bad == {k \in 0..n : k \notin T}
<1>1. SUFFICES ASSUME Bad # {} PROVE FALSE
  OBVIOUS
<1>2. Bad \in SUBSET Nat
  OBVIOUS
<1>3. PICK k \in Bad : \A j \in Bad : k <= j
  BY <1>1, <1>2, SmallestOf
<1>4. k \in 1..n
  OBVIOUS
<1>5. k - 1 \in 0..n /\ ~(k <= k - 1)
  BY <1>4
<1>6. k - 1 \in T
  BY <1>3, <1>5
<1>7. QED
  BY <1>4, <1>6

Iterations(D, a, n, F) ==
    {g \in [0..n -> D] : g[0] = a /\ \A k \in 1..n : g[k] = F[k][g[k - 1]]}

(* There is a function with a given start and given steps.                  *)
LEMMA Recursion ==
    ASSUME NEW D, NEW a \in D, NEW n \in Nat, NEW F \in [1..n -> [D -> D]]
    PROVE  Iterations(D, a, n, F) # {}
<1> DEFINE Fits(g, j) == g[0] = a /\ \A k \in 1..j : g[k] = F[k][g[k - 1]]
           T == {j \in Nat : \E g \in [0..j -> D] : Fits(g, j)}
<1>1. 0 \in T
  <2>1. [k \in 0..0 |-> a] \in [0..0 -> D] /\ Fits([k \in 0..0 |-> a], 0)
    OBVIOUS
  <2>2. QED
    BY <2>1
<1>2. ASSUME NEW j \in 1..n, j - 1 \in T PROVE j \in T
  <2>1. PICK g \in [0..(j - 1) -> D] : Fits(g, j - 1)
    BY <1>2
  <2> DEFINE h == [k \in 0..j |-> IF k < j THEN g[k] ELSE F[j][g[j - 1]]]
  <2>2. j - 1 \in 0..(j - 1)
    OBVIOUS
  <2>3. g[j - 1] \in D
    BY <2>2
  <2>4. F[j][g[j - 1]] \in D
    BY <2>3
  <2>5. h \in [0..j -> D]
    <3>1. ASSUME NEW k \in 0..j PROVE h[k] \in D
      <4>1. CASE k < j
        <5>1. k \in 0..(j - 1)
          BY <4>1
        <5>2. QED
          BY <4>1, <5>1
      <4>2. CASE k = j
        BY <2>4, <4>2
      <4>3. QED
        BY <4>1, <4>2
    <3>2. QED
      BY <3>1
  <2>6. h[0] = a
    BY <2>1
  <2>7. ASSUME NEW k \in 1..j PROVE h[k] = F[k][h[k - 1]]
    <3>1. k - 1 \in 0..j /\ k - 1 < j
      OBVIOUS
    <3>2. h[k - 1] = g[k - 1]
      BY <3>1
    <3>3. CASE k < j
      <4>1. k \in 1..(j - 1) /\ k \in 0..j
        BY <3>3
      <4>2. h[k] = g[k]
        BY <3>3, <4>1
      <4>3. QED
        BY <2>1, <3>2, <4>1, <4>2
    <3>4. CASE k = j
      <4>1. h[j] = F[j][g[j - 1]]
        BY <1>2
      <4>2. QED
        BY <3>2, <3>4, <4>1
    <3>5. QED
      BY <3>3, <3>4
  <2>8. Fits(h, j)
    BY <2>6, <2>7
  <2> HIDE DEF Fits, h
  <2>9. QED
    BY <2>5, <2>8
<1> HIDE DEF T
<1>3. n \in T
  <2>1. \A k \in 0..n : k \in T
    BY <1>1, <1>2, UpTo
  <2>2. QED
    BY <2>1
<1>4. PICK g \in [0..n -> D] : Fits(g, n)
  BY <1>3 DEF T
<1>5. QED
  BY <1>4 DEF Iterations

------------------------------------------------------------------------------
(* Putting the members of a finite set in order.                            *)
TotalOrder(K, R) ==
    /\ \A x, y \in K : <<x, y>> \in R \/ <<y, x>> \in R
    /\ \A x, y \in K : <<x, y>> \in R /\ <<y, x>> \in R => x = y
    /\ \A x, y, z \in K : <<x, y>> \in R /\ <<y, z>> \in R => <<x, z>> \in R

Rank(K, R, x) == Cardinality({j \in K : <<j, x>> \in R})

(* Of two members, the later one has the higher rank.                       *)
LEMMA RankIsMonotonic ==
    ASSUME NEW K, IsFiniteSet(K), NEW R, TotalOrder(K, R),
           NEW x \in K, NEW y \in K, <<x, y>> \in R, x # y
    PROVE  Rank(K, R, x) < Rank(K, R, y)
<1> DEFINE X == {j \in K : <<j, x>> \in R}
           Y == {j \in K : <<j, y>> \in R}
<1>1. X \subseteq Y
  BY DEF TotalOrder
<1>2. y \in Y /\ y \notin X
  BY DEF TotalOrder
<1>3. IsFiniteSet(Y)
  BY FS_Subset
<1>4. IsFiniteSet(X)
  BY FS_Subset
<1> HIDE DEF X, Y
<1>5. Cardinality(X) \in Nat /\ Cardinality(Y) \in Nat
  BY <1>3, <1>4, FS_CardinalityType
<1>6. Cardinality(X) <= Cardinality(Y) /\ Cardinality(X) # Cardinality(Y)
  BY <1>1, <1>2, <1>3, FS_Subset
<1>7. Cardinality(X) < Cardinality(Y)
  BY <1>5, <1>6
<1>8. QED
  BY <1>7 DEF X, Y, Rank

(* A rank is one of the places 1..n.                                        *)
LEMMA RankIsPosition ==
    ASSUME NEW K, IsFiniteSet(K), NEW R, TotalOrder(K, R), NEW x \in K
    PROVE  Rank(K, R, x) \in 1..Cardinality(K)
<1> DEFINE X == {j \in K : <<j, x>> \in R}
<1>1. x \in X /\ X \subseteq K
  BY DEF TotalOrder
<1> HIDE DEF X
<1>2. IsFiniteSet(X) /\ Cardinality(X) <= Cardinality(K)
  BY <1>1, FS_Subset
<1>3. Cardinality(X) \in Nat /\ Cardinality(K) \in Nat
  BY <1>2, FS_CardinalityType
<1>4. Cardinality(X) # 0
  BY <1>1, <1>2, FS_EmptySet
<1>5. Cardinality(X) \in 1..Cardinality(K)
  BY <1>2, <1>3, <1>4
<1>6. QED
  BY <1>5 DEF X, Rank

(* InOrder lists each member once, at its rank.                             *)
LEMMA MembersInOrder ==
    ASSUME NEW K, IsFiniteSet(K), NEW R, TotalOrder(K, R)
    PROVE  /\ Cardinality(K) \in Nat
           /\ InOrder(K, R) \in [1..Cardinality(K) -> K]
           /\ \A x \in K : /\ Rank(K, R, x) \in 1..Cardinality(K)
                           /\ InOrder(K, R)[Rank(K, R, x)] = x
           /\ \A k \in 1..Cardinality(K) : Rank(K, R, InOrder(K, R)[k]) = k
           /\ \A k, l \in 1..Cardinality(K) :
                k < l => /\ <<InOrder(K, R)[k], InOrder(K, R)[l]>> \in R
                         /\ InOrder(K, R)[k] # InOrder(K, R)[l]
<1> DEFINE n == Cardinality(K)
           r == [x \in K |-> Rank(K, R, x)]
           s == InOrder(K, R)
<1>1. n \in Nat
  BY FS_CardinalityType
<1>2. \A x \in K : Rank(K, R, x) \in 1..n
  BY RankIsPosition
<1>3. \A x, y \in K : Rank(K, R, x) = Rank(K, R, y) => x = y
  <2>1. SUFFICES ASSUME NEW x \in K, NEW y \in K, Rank(K, R, x) = Rank(K, R, y), x # y
                 PROVE  FALSE
    OBVIOUS
  <2>2. Rank(K, R, x) < Rank(K, R, y) \/ Rank(K, R, y) < Rank(K, R, x)
    BY <2>1, RankIsMonotonic DEF TotalOrder
  <2>3. Rank(K, R, x) \in Nat /\ Rank(K, R, y) \in Nat
    BY <1>1, <1>2
  <2>4. QED
    BY <2>1, <2>2, <2>3
<1>4. \A k \in 1..n : \E x \in K : Rank(K, R, x) = k
  <2>1. r \in Injection(K, 1..n)
    BY <1>2, <1>3 DEF Injection, IsInjective
  <2>2. IsFiniteSet(1..n) /\ Cardinality(1..n) = n
    BY <1>1, FS_Interval
  <2>3. r \in Surjection(K, 1..n)
    BY <2>1, <2>2, FS_Injection
  <2>4. QED
    BY <2>3 DEF Surjection
<1>5. \A k \in 1..n : s[k] \in K /\ Rank(K, R, s[k]) = k
  <2>1. TAKE k \in 1..n
  <2>2. s[k] = CHOOSE i \in K : Rank(K, R, i) = k
    BY DEF InOrder, Rank
  <2>3. QED
    BY <1>4, <2>2
<1>6. s \in [1..n -> K]
  BY <1>5 DEF InOrder
<1>7. \A x \in K : s[Rank(K, R, x)] = x
  BY <1>2, <1>3, <1>5
<1>8. ASSUME NEW k \in 1..n, NEW l \in 1..n, k < l
      PROVE  <<s[k], s[l]>> \in R /\ s[k] # s[l]
  <2>1. s[k] \in K /\ s[l] \in K /\ Rank(K, R, s[k]) = k /\ Rank(K, R, s[l]) = l
    BY <1>5
  <2>2. s[k] # s[l]
    BY <2>1, <1>8
  <2>3. ASSUME <<s[l], s[k]>> \in R PROVE FALSE
    <3>1. Rank(K, R, s[l]) < Rank(K, R, s[k])
      BY <2>1, <2>2, <2>3, RankIsMonotonic
    <3>2. QED
      BY <1>8, <2>1, <3>1
  <2>4. QED
    BY <2>1, <2>2, <2>3 DEF TotalOrder
<1>9. QED
  BY <1>1, <1>2, <1>5, <1>6, <1>7, <1>8

(* Numbers in their own order.                                              *)
LEMMA UpwardIsOrder ==
    ASSUME NEW K \in SUBSET Nat
    PROVE  TotalOrder(K, Upward(K))
<1>1. \A x, y \in K : <<x, y>> \in Upward(K) <=> x <= y
  BY DEF Upward
<1>2. QED
  BY <1>1 DEF TotalOrder

(* Members of 1..n in their order are found no later than their own number, *)
(* and at it as long as none is missing.                                    *)
LEMMA PlacesInOrder ==
    ASSUME NEW n \in Nat, NEW K \in SUBSET (1..n)
    PROVE  LET at == InOrder(K, Upward(K))
           IN  /\ Cardinality(K) \in 0..n /\ DOMAIN at = 1..Cardinality(K)
               /\ \A k \in 1..Cardinality(K) : at[k] \in K /\ at[k] >= k
               /\ \A k, l \in 1..Cardinality(K) : k < l => at[k] # at[l]
               /\ \A i \in 1..n : 1..i \subseteq K => i \in 1..Cardinality(K) /\ at[i] = i
<1> DEFINE R == Upward(K)
           at == InOrder(K, R)
           c  == Cardinality(K)
<1>1. IsFiniteSet(1..n) /\ Cardinality(1..n) = n
  BY FS_Interval
<1>2. IsFiniteSet(K) /\ c \in 0..n
  <2>1. IsFiniteSet(K) /\ Cardinality(K) <= Cardinality(1..n)
    BY <1>1, FS_Subset, Zenon
  <2>2. Cardinality(K) \in Nat
    BY <2>1, FS_CardinalityType, Zenon
  <2>3. QED
    BY <1>1, <2>1, <2>2
<1>3. TotalOrder(K, R)
  BY UpwardIsOrder
<1>30. \A j, x \in K : <<j, x>> \in R <=> j <= x
  BY DEF Upward
<1> HIDE DEF R
<1>4. /\ at \in [1..c -> K]
      /\ \A x \in K : Rank(K, R, x) \in 1..c /\ at[Rank(K, R, x)] = x
      /\ \A k \in 1..c : Rank(K, R, at[k]) = k
      /\ \A k, l \in 1..c : k < l => at[k] # at[l]
  BY <1>2, <1>3, MembersInOrder
<1>6. ASSUME NEW x \in K
      PROVE  /\ Rank(K, R, x) <= x
             /\ 1..x \subseteq K => Rank(K, R, x) = x
  <2> DEFINE below == {j \in K : <<j, x>> \in R}
  <2>0. \A j : j \in below <=> j \in K /\ j <= x
    BY <1>30, Zenon
  <2> HIDE DEF below
  <2>9. \A j \in K : j \in 1..n
    BY Zenon
  <2>1. x \in Nat
    BY <2>9
  <2>2. below \subseteq 1..x /\ (1..x \subseteq K => 1..x \subseteq below)
    <3>1. ASSUME NEW j \in below PROVE j \in 1..x
      <4>1. j \in 1..n /\ j <= x
        BY <2>0, <2>9, Zenon
      <4>2. QED
        BY <2>1, <4>1
    <3>2. ASSUME NEW j \in 1..x, j \in K PROVE j \in below
      BY <2>0, <2>1, <3>2
    <3>3. QED
      BY <3>1, <3>2, Zenon
  <2>3. IsFiniteSet(1..x) /\ Cardinality(1..x) = x
    BY <2>1, FS_Interval
  <2>40. \A T \in SUBSET (1..x) : Cardinality(T) <= Cardinality(1..x)
    BY <2>3, FS_Subset
  <2>4. Cardinality(below) <= x /\ (1..x \subseteq K => Cardinality(below) = x)
    BY <2>1, <2>2, <2>3, <2>40
  <2>5. QED
    BY <2>4 DEF below, Rank
<1> HIDE DEF at, c
<1>7. ASSUME NEW i \in 1..n, 1..i \subseteq K PROVE i \in 1..c /\ at[i] = i
  <2>1. i \in K
    BY <1>7
  <2>2. QED
    BY <1>4, <1>6, <1>7, <2>1
<1>8. \A k \in 1..c : at[k] \in K /\ at[k] >= k
  <2>1. TAKE k \in 1..c
  <2>2. at[k] \in K /\ Rank(K, R, at[k]) = k
    BY <1>4
  <2>3. k <= at[k]
    BY <1>6, <2>2
  <2>5. QED
    BY <1>2, <2>2, <2>3
<1>9. QED
  BY <1>2, <1>4, <1>7, <1>8 DEF R, at, c

(* What Arranged takes out of a sequence, and at which places.              *)
LEMMA ArrangedSeq ==
    ASSUME NEW T, NEW s \in Seq(T), NEW K \in SUBSET DOMAIN s, NEW R, TotalOrder(K, R)
    PROVE  /\ IsFiniteSet(K) /\ Cardinality(K) \in Nat
           /\ Arranged(s, K, R) \in Seq(T)
           /\ Len(Arranged(s, K, R)) = Cardinality(K)
           /\ \A i \in K : \E k \in 1..Cardinality(K) : Arranged(s, K, R)[k] = s[i]
           /\ IsInjective(s) => IsInjective(Arranged(s, K, R))
           /\ \A k \in 1..Cardinality(K) : /\ InOrder(K, R)[k] \in K
                                           /\ Arranged(s, K, R)[k] = s[InOrder(K, R)[k]]
<1> DEFINE n  == Cardinality(K)
           at == InOrder(K, R)
           a  == Arranged(s, K, R)
<1>1. IsFiniteSet(K)
  <2>1. DOMAIN s = 1..Len(s) /\ Len(s) \in Nat
    OBVIOUS
  <2>2. IsFiniteSet(1..Len(s))
    BY <2>1, FS_Interval
  <2>3. QED
    BY <2>1, <2>2, FS_Subset
<1>2. /\ n \in Nat /\ at \in [1..n -> K]
      /\ \A x \in K : Rank(K, R, x) \in 1..n /\ at[Rank(K, R, x)] = x
      /\ \A k, l \in 1..n : k < l => at[k] # at[l]
  BY <1>1, MembersInOrder
<1> HIDE DEF n, at
<1>3. a = [k \in 1..n |-> s[at[k]]]
  BY <1>2 DEF Arranged, at
<1> HIDE DEF a
<1>4. \A k \in 1..n : at[k] \in K /\ s[at[k]] \in T
  BY <1>2
<1>5. a \in Seq(T) /\ Len(a) = n /\ DOMAIN a = 1..n
  BY <1>2, <1>3, <1>4
<1>6. \A i \in K : \E k \in 1..n : a[k] = s[i]
  BY <1>2, <1>3
<1>7. ASSUME IsInjective(s) PROVE IsInjective(a)
  <2>1. SUFFICES ASSUME NEW k \in 1..n, NEW l \in 1..n, a[k] = a[l] PROVE k = l
    BY <1>5 DEF IsInjective
  <2>2. at[k] = at[l]
    BY <1>3, <1>4, <1>7, <2>1 DEF IsInjective
  <2>3. QED
    BY <1>2, <2>2
<1>8. QED
  BY <1>1, <1>2, <1>3, <1>4, <1>5, <1>6, <1>7 DEF n, at, a

(* The part of a sequence at some positions.                                *)
LEMMA KeptSeq ==
    ASSUME NEW T, NEW s \in Seq(T), NEW K \in SUBSET DOMAIN s
    PROVE  /\ Kept(s, K) \in Seq(T)
           /\ \A i \in DOMAIN Kept(s, K) : \E n \in K : Kept(s, K)[i] = s[n]
<1>1. K \in SUBSET Nat
  OBVIOUS
<1>2. TotalOrder(K, Upward(K))
  BY <1>1, UpwardIsOrder
<1> DEFINE a == Arranged(s, K, Upward(K))
<1>3. /\ Cardinality(K) \in Nat /\ a \in Seq(T) /\ Len(a) = Cardinality(K)
      /\ \A k \in 1..Cardinality(K) : \E n \in K : a[k] = s[n]
  BY <1>2, ArrangedSeq
<1> HIDE DEF a
<1>4. DOMAIN a = 1..Cardinality(K)
  BY <1>3
<1>5. QED
  BY <1>3, <1>4 DEF Kept, a

------------------------------------------------------------------------------
(* The power of two that counts the subsets of a set of n elements doubles  *)
(* with each element.                                                       *)
SubsetsOf(n) == Cardinality(SUBSET (1..n))

LEMMA PowerIsSubsets == ASSUME NEW n \in Nat PROVE 2^n = SubsetsOf(n) /\ SubsetsOf(n) \in Nat
<1>1. IsFiniteSet(1..n) /\ Cardinality(1..n) = n
  BY FS_Interval
<1>2. Cardinality(SUBSET (1..n)) = 2^Cardinality(1..n) /\ IsFiniteSet(SUBSET (1..n))
  BY <1>1, FS_SUBSET
<1>3. QED
  BY <1>1, <1>2, FS_CardinalityType, Zenon DEF SubsetsOf

LEMMA SubsetsDouble ==
    ASSUME NEW n \in Nat
    PROVE  SubsetsOf(n + 1) = 2 * SubsetsOf(n)
<1> DEFINE A == SUBSET (1..n)
           B == {T \union {n + 1} : T \in A}
           f == [T \in A |-> T \union {n + 1}]
<1>1. SUBSET (1..(n + 1)) = A \union B
  <2>1. ASSUME NEW T \in SUBSET (1..(n + 1)) PROVE T \in A \union B
    <3>1. CASE n + 1 \in T
      <4>1. T \ {n + 1} \in A /\ T = (T \ {n + 1}) \union {n + 1}
        BY <3>1
      <4>2. QED
        BY <4>1
    <3>2. CASE n + 1 \notin T
      BY <3>2
    <3>3. QED
      BY <3>1, <3>2
  <2>2. ASSUME NEW T \in A PROVE T \subseteq 1..(n + 1) /\ T \union {n + 1} \subseteq 1..(n + 1)
    OBVIOUS
  <2>3. A \union B \subseteq SUBSET (1..(n + 1))
    BY <2>2
  <2>4. QED
    BY <2>1, <2>3
<1>2. A \cap B = {}
  OBVIOUS
<1>3. f \in Bijection(A, B)
  <2>1. f \in [A -> B] /\ \A b \in B : \E a \in A : f[a] = b
    OBVIOUS
  <2>2. ASSUME NEW a \in A, NEW b \in A, f[a] = f[b] PROVE a = b
    <3>1. a = f[a] \ {n + 1} /\ b = f[b] \ {n + 1}
      OBVIOUS
    <3>2. QED
      BY <2>2, <3>1
  <2>3. QED
    BY <2>1, <2>2 DEF Bijection, Injection, IsInjective, Surjection
<1>4. IsFiniteSet(A) /\ IsFiniteSet(1..n)
  <2>1. IsFiniteSet(1..n)
    BY FS_Interval
  <2>2. QED
    BY <2>1, FS_SUBSET
<1>5. IsFiniteSet(B) /\ Cardinality(B) = Cardinality(A)
  <2>1. ExistsBijection(A, B)
    BY <1>3 DEF ExistsBijection
  <2>2. QED
    BY <1>4, <2>1, FS_Bijection
<1>6. Cardinality(A \union B) = Cardinality(A) + Cardinality(A) /\ Cardinality(A) \in Nat
  <2> HIDE DEF A, B
  <2>1. Cardinality(A) \in Nat
    BY <1>4, FS_CardinalityType
  <2>2. Cardinality(A \union B) = Cardinality(A) + Cardinality(B) - Cardinality(A \cap B)
    BY <1>4, <1>5, FS_Union
  <2>3. Cardinality(A \cap B) = 0
    BY <1>2, FS_EmptySet, Zenon
  <2>4. Cardinality(B) = Cardinality(A)
    BY <1>5
  <2>5. QED
    BY <2>1, <2>2, <2>3, <2>4
<1>7. SubsetsOf(n + 1) = Cardinality(A \union B) /\ SubsetsOf(n) = Cardinality(A)
  BY <1>1 DEF SubsetsOf
<1>8. QED
  <2> HIDE DEF A, B
  <2>1. QED
    BY <1>6, <1>7

LEMMA SubsetsOfNone == SubsetsOf(0) = 1
<1>1. SUBSET (1..0) = {{}}
  OBVIOUS
<1>2. QED
  BY <1>1, FS_Singleton DEF SubsetsOf

LEMMA PowersOfTwo ==
    /\ 2^0 = 1
    /\ \A n \in Nat : 2^n \in Nat /\ 2^(n + 1) = 2 * 2^n
<1>1. 2^0 = 1
  BY PowerIsSubsets, SubsetsOfNone
<1>2. ASSUME NEW n \in Nat PROVE 2^n \in Nat /\ 2^(n + 1) = 2 * 2^n
  <2>1. n + 1 \in Nat
    OBVIOUS
  <2>2. 2^n = SubsetsOf(n) /\ SubsetsOf(n) \in Nat /\ 2^(n + 1) = SubsetsOf(n + 1)
    BY <2>1, PowerIsSubsets, Zenon
  <2>3. QED
    BY <2>2, SubsetsDouble, Zenon
<1>3. QED
  BY <1>1, <1>2
==============================================================================
