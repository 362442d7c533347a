----------------------------- MODULE OrderLemmas -----------------------------
(***************************************************************************)
(* Facts about enumerations in order, which the tables of the store are    *)
(* loaded in: every finite set whose elements have distinct keys has       *)
(* exactly one enumeration by increasing key.  The argument is by the rank *)
(* of an element, the number of elements whose key is not greater.         *)
(***************************************************************************)
EXTENDS Integers, FiniteSetTheorems, TLAPS

\* q lists elements by increasing key d.
Increasing(q, d) == \A i, j \in DOMAIN q : i < j => d[q[i]] < d[q[j]]

\* q lists the n elements of D by increasing key d.
Enumerates(q, n, D, d) ==
    /\ n \in Nat
    /\ q \in [1 .. n -> D]
    /\ Increasing(q, d)
    /\ \A x \in D : \E i \in 1 .. n : q[i] = x

\* The elements of D up to x, and their number.
UpTo(D, d, x) == {y \in D : d[y] <= d[x]}
Rank(D, d) == [x \in D |-> Cardinality(UpTo(D, d, x))]

Keyed(D, d) ==
    /\ IsFiniteSet(D)
    /\ d \in [D -> Int]
    /\ \A x, y \in D : d[x] = d[y] => x = y

\* A set of natural numbers that is not empty has a least element.
LEMMA Least ==
    ASSUME NEW T \in SUBSET Nat, T # {}
    PROVE  \E n \in T : \A m \in T : n <= m
<1> DEFINE R == OpToRel(<, Nat)
<1>1. IsWellFoundedOn(R, Nat)
  BY NatLessThanWellFounded
<1>2. \A x, y \in Nat : <<x, y>> \in R <=> x < y
  BY DEF OpToRel
<1> HIDE DEF R
<1>3. PICK n \in T : \A m \in T : ~(<<m, n>> \in R)
  BY <1>1, WFMin
<1>4. ASSUME NEW m \in T PROVE n <= m
  <2>1. m \in Nat /\ n \in Nat /\ ~(<<m, n>> \in R)
    BY <1>3
  <2>2. ~(m < n)
    BY <1>2, <2>1
  <2> QED BY <2>1, <2>2
<1> QED BY <1>4

LEMMA RankType ==
    ASSUME NEW D, NEW d, Keyed(D, d)
    PROVE  Rank(D, d) \in [D -> 1 .. Cardinality(D)]
<1> SUFFICES ASSUME NEW x \in D PROVE Cardinality(UpTo(D, d, x)) \in 1 .. Cardinality(D)
  BY DEF Rank
<1>1. d[x] \in Int /\ IsFiniteSet(D)
  BY DEF Keyed
<1>2. UpTo(D, d, x) \in SUBSET D /\ x \in UpTo(D, d, x)
  BY <1>1 DEF UpTo
<1>3. IsFiniteSet(UpTo(D, d, x)) /\ Cardinality(UpTo(D, d, x)) <= Cardinality(D)
  BY <1>1, <1>2, FS_Subset
<1>4. Cardinality(UpTo(D, d, x)) \in Nat /\ Cardinality(D) \in Nat
  BY <1>1, <1>3, FS_CardinalityType
<1>5. Cardinality(UpTo(D, d, x)) # 0
  BY <1>2, <1>3, FS_EmptySet
<1> QED BY <1>3, <1>4, <1>5

LEMMA RankIncreases ==
    ASSUME NEW D, NEW d, Keyed(D, d), NEW x \in D, NEW y \in D, d[x] < d[y]
    PROVE  Rank(D, d)[x] < Rank(D, d)[y]
<1> DEFINE X == UpTo(D, d, x)
           Y == UpTo(D, d, y)
<1>1. IsFiniteSet(D) /\ \A z \in D : d[z] \in Int
  BY DEF Keyed
<1>2. X \in SUBSET Y /\ Y \in SUBSET D /\ y \in Y /\ y \notin X
  BY <1>1 DEF UpTo
<1>3. Rank(D, d)[x] = Cardinality(X) /\ Rank(D, d)[y] = Cardinality(Y)
  BY DEF Rank
<1> HIDE DEF X, Y
<1>4. IsFiniteSet(Y)
  BY <1>1, <1>2, FS_Subset
<1>5. IsFiniteSet(X) /\ Cardinality(X) <= Cardinality(Y) /\ Cardinality(Y) # Cardinality(X)
  BY <1>2, <1>4, FS_Subset
<1>6. Cardinality(X) \in Nat /\ Cardinality(Y) \in Nat
  BY <1>4, <1>5, FS_CardinalityType
<1> QED BY <1>3, <1>5, <1>6

LEMMA RankBijective ==
    ASSUME NEW D, NEW d, Keyed(D, d)
    PROVE  /\ \A x, y \in D : Rank(D, d)[x] = Rank(D, d)[y] => x = y
           /\ \A i \in 1 .. Cardinality(D) : \E x \in D : Rank(D, d)[x] = i
<1> DEFINE r == Rank(D, d)
           n == Cardinality(D)
<1>1. r \in [D -> 1 .. n]
  BY RankType
<1>2. IsFiniteSet(D) /\ n \in Nat /\ (\A z \in D : d[z] \in Int)
  BY FS_CardinalityType DEF Keyed
<1>3. ASSUME NEW x \in D, NEW y \in D, r[x] = r[y] PROVE x = y
  <2>1. r[x] \in Int
    BY <1>1, <1>2
  <2>2. ~(d[x] < d[y]) /\ ~(d[y] < d[x])
    BY <1>3, <2>1, RankIncreases
  <2>3. d[x] = d[y]
    BY <1>2, <2>2
  <2> QED BY <2>3 DEF Keyed
<1> HIDE DEF r
<1>4. r \in Injection(D, 1 .. n)
  BY <1>1, <1>3 DEF Injection, IsInjective
<1>5. IsFiniteSet(1 .. n) /\ Cardinality(1 .. n) = n
  BY <1>2, FS_Interval
<1>6. r \in Surjection(D, 1 .. n)
  BY <1>4, <1>5, FS_Injection
<1> QED BY <1>3, <1>6 DEF Surjection, r

\* There is an enumeration by increasing key.
LEMMA EnumerationExists ==
    ASSUME NEW D, NEW d, Keyed(D, d)
    PROVE  \E q \in [1 .. Cardinality(D) -> D] : Increasing(q, d)
<1> DEFINE r == Rank(D, d)
           n == Cardinality(D)
           q == [i \in 1 .. n |-> CHOOSE x \in D : r[x] = i]
<1>1. \A i \in 1 .. n : q[i] \in D /\ r[q[i]] = i
  BY RankBijective
<1>2. q \in [1 .. n -> D]
  BY <1>1
<1>3. n \in Nat /\ \A z \in D : d[z] \in Int
  BY FS_CardinalityType DEF Keyed
<1> HIDE DEF q, r, n
<1>4. ASSUME NEW i \in 1 .. n, NEW j \in 1 .. n, i < j PROVE d[q[i]] < d[q[j]]
  <2>1. q[i] \in D /\ q[j] \in D /\ r[q[i]] = i /\ r[q[j]] = j
    BY <1>1
  <2>2. CASE d[q[j]] < d[q[i]]
    <3>1. r[q[j]] < r[q[i]]
      BY <2>1, <2>2, RankIncreases DEF r
    <3> QED BY <1>3, <1>4, <2>1, <3>1
  <2>3. CASE d[q[j]] = d[q[i]]
    <3>1. q[i] = q[j]
      BY <2>1, <2>3 DEF Keyed
    <3> QED BY <1>3, <1>4, <2>1, <3>1
  <2> QED BY <1>3, <2>1, <2>2, <2>3
<1>5. Increasing(q, d)
  BY <1>2, <1>4 DEF Increasing
<1> QED BY <1>2, <1>5 DEF n

\* It lists every element.
LEMMA EnumerationOnto ==
    ASSUME NEW D, NEW d, Keyed(D, d), NEW q \in [1 .. Cardinality(D) -> D],
           Increasing(q, d)
    PROVE  Enumerates(q, Cardinality(D), D, d)
<1> DEFINE n == Cardinality(D)
<1>1. IsFiniteSet(D) /\ n \in Nat /\ \A z \in D : d[z] \in Int
  BY FS_CardinalityType DEF Keyed
<1>2. ASSUME NEW i \in 1 .. n, NEW j \in 1 .. n, q[i] = q[j] PROVE i = j
  <2>1. ~(i < j) /\ ~(j < i)
    BY <1>1, <1>2 DEF Increasing
  <2> QED BY <1>1, <2>1
<1>3. q \in Injection(1 .. n, D)
  BY <1>2 DEF Injection, IsInjective
<1>4. Cardinality(1 .. n) = n
  BY <1>1, FS_Interval
<1>5. q \in Surjection(1 .. n, D)
  BY <1>1, <1>3, <1>4, FS_Injection
<1> QED BY <1>1, <1>5 DEF Surjection, Enumerates

\* The place of an element in an enumeration is its rank.
LEMMA PlaceIsRank ==
    ASSUME NEW D, NEW d, Keyed(D, d), NEW q, NEW n, Enumerates(q, n, D, d),
           NEW i \in 1 .. n
    PROVE  Rank(D, d)[q[i]] = i
<1>e. /\ n \in Nat /\ q \in [1 .. n -> D] /\ Increasing(q, d)
      /\ \A x \in D : \E j \in 1 .. n : q[j] = x
  BY DEF Enumerates
<1> USE <1>e
<1> DEFINE U == UpTo(D, d, q[i])
           f == [k \in 1 .. i |-> q[k]]
<1>1. \A z \in D : d[z] \in Int
  BY DEF Keyed
<1>2. \A k \in 1 .. i : k \in 1 .. n /\ q[k] \in D
  OBVIOUS
<1>3. ASSUME NEW k \in 1 .. i PROVE q[k] \in U
  <2>1. k = i \/ k < i
    OBVIOUS
  <2>2. d[q[k]] <= d[q[i]]
    BY <1>1, <1>2, <2>1 DEF Increasing
  <2> QED BY <1>2, <2>2 DEF UpTo
<1>4. ASSUME NEW x \in U PROVE \E k \in 1 .. i : q[k] = x
  <2>1. x \in D /\ d[x] <= d[q[i]]
    BY DEF UpTo
  <2>2. PICK k \in 1 .. n : q[k] = x
    BY <2>1
  <2>3. ~(i < k)
    <3> SUFFICES ASSUME i < k PROVE FALSE
      OBVIOUS
    <3>1. d[q[i]] < d[q[k]]
      BY DEF Increasing
    <3>2. d[q[i]] \in Int /\ d[q[k]] \in Int
      BY <1>1
    <3> QED BY <2>1, <2>2, <3>1, <3>2
  <2>4. k \in 1 .. i
    BY <2>3
  <2> QED BY <2>2, <2>4
<1>5. ASSUME NEW a \in 1 .. i, NEW b \in 1 .. i, q[a] = q[b] PROVE a = b
  <2>1. a \in 1 .. n /\ b \in 1 .. n /\ d[q[a]] \in Int
    BY <1>1, <1>2
  <2>2. ~(a < b) /\ ~(b < a)
    BY <1>5, <2>1 DEF Increasing
  <2> QED BY <2>2
<1>6. f \in [1 .. i -> U] /\ \A k \in 1 .. i : f[k] = q[k]
  BY <1>3
<1> HIDE DEF f, U
<1>7. f \in Injection(1 .. i, U) /\ f \in Surjection(1 .. i, U)
  BY <1>4, <1>5, <1>6 DEF Injection, Surjection, IsInjective
<1>8. ExistsBijection(1 .. i, U)
  BY <1>7 DEF ExistsBijection, Bijection
<1>9. Cardinality(U) = i
  BY <1>8, FS_CountingElements
<1> QED BY <1>2, <1>9 DEF Rank, U

\* There is only one.
LEMMA EnumerationUnique ==
    ASSUME NEW D, NEW d, Keyed(D, d), NEW p, NEW c, Enumerates(p, c, D, d),
           NEW q, NEW n, Enumerates(q, n, D, d)
    PROVE  p = q /\ n = c
<1> DEFINE r == Rank(D, d)
<1>1. /\ c \in Nat /\ p \in [1 .. c -> D] /\ n \in Nat /\ q \in [1 .. n -> D]
      /\ \A x \in D : \E i \in 1 .. c : p[i] = x
      /\ \A x \in D : \E i \in 1 .. n : q[i] = x
  BY DEF Enumerates
<1>3. \A i \in 1 .. n : r[q[i]] = i
  BY PlaceIsRank
<1>4. \A i \in 1 .. c : r[p[i]] = i
  BY PlaceIsRank
<1>6. \A x, y \in D : r[x] = r[y] => x = y
  BY RankBijective
<1> HIDE DEF r
<1>7. ASSUME n < c \/ c < n PROVE FALSE
  <2>1. CASE c < n
    <3>1. n \in 1 .. n /\ q[n] \in D
      BY <1>1, <2>1
    <3>2. PICK i \in 1 .. c : p[i] = q[n]
      BY <1>1, <3>1
    <3>3. r[p[i]] = i /\ r[q[n]] = n
      BY <1>3, <1>4, <3>1, <3>2
    <3>4. i = n
      BY <3>2, <3>3
    <3> QED BY <1>1, <2>1, <3>4
  <2>2. CASE n < c
    <3>1. c \in 1 .. c /\ p[c] \in D
      BY <1>1, <2>2
    <3>2. PICK i \in 1 .. n : q[i] = p[c]
      BY <1>1, <3>1
    <3>3. r[q[i]] = i /\ r[p[c]] = c
      BY <1>3, <1>4, <3>1, <3>2
    <3>4. i = c
      BY <3>2, <3>3
    <3> QED BY <1>1, <2>2, <3>4
  <2> QED BY <1>7, <2>1, <2>2
<1>8. n = c
  BY <1>1, <1>7
<1>9. ASSUME NEW i \in 1 .. n PROVE p[i] = q[i]
  <2>1. r[p[i]] = r[q[i]] /\ p[i] \in D /\ q[i] \in D
    BY <1>1, <1>3, <1>4, <1>8
  <2> QED BY <1>6, <2>1
<1> QED BY <1>1, <1>8, <1>9
=============================================================================
