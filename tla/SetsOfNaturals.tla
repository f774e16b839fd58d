---------------------------- MODULE SetsOfNaturals ----------------------------
(***************************************************************************)
(* Lemmas the proofs about several components need.  A property of every   *)
(* natural number up to a bound is proved from the first of them: the set  *)
(* of the numbers it fails for has no least member.                        *)
(***************************************************************************)
EXTENDS Integers, FiniteSets, FiniteSetTheorems, WellFoundedInduction, TLAPS

(* A set of natural numbers has a least member, and a bounded one also a   *)
(* greatest.                                                               *)
LEMMA Least ==
  ASSUME NEW T \in SUBSET Nat, T # {}
  PROVE  \E m \in T : \A n \in T : m <= n
<1> DEFINE R == {ss \in Nat \X Nat : ss[1] < ss[2]}
<1>1. IsWellFoundedOn(R, Nat)
  BY NatLessThanWellFounded DEF OpToRel
<1>2. \A m, n \in Nat : <<n, m>> \in R <=> n < m
  OBVIOUS
<1> HIDE DEF R
<1>3. PICK m \in T : \A n \in T : ~(<<n, m>> \in R)
  BY <1>1, WFMin
<1>4. ASSUME NEW n \in T PROVE m <= n
  <2>1. ~(n < m)
    BY <1>2, <1>3
  <2> QED BY <2>1
<1> QED BY <1>4

(* The greatest is the one whose distance to the bound is least.           *)
LEMMA Greatest ==
  ASSUME NEW N \in Nat, NEW T \in SUBSET (0..N), T # {}
  PROVE  \E m \in T : \A n \in T : n <= m
<1> DEFINE U == {N - n : n \in T}
<1>1. U \in SUBSET Nat /\ U # {}
  <2>1. \A n \in T : N - n \in Nat
    OBVIOUS
  <2> QED BY <2>1
<1>2. PICK u \in U : \A v \in U : u <= v
  BY <1>1, Least
<1>3. PICK m \in T : u = N - m
  OBVIOUS
<1>4. ASSUME NEW n \in T PROVE n <= m
  BY <1>2, <1>3
<1> QED BY <1>4

(* Induction up to a bound, and what it is most used for: a function       *)
(* defined by recursion over the indices of a list exists.                 *)
LEMMA InductionUpTo ==
  ASSUME NEW N \in Nat, NEW T, 0 \in T, \A n \in 1..N : n - 1 \in T => n \in T
  PROVE  \A n \in 0..N : n \in T
<1> DEFINE U == {n \in 0..N : n \notin T}
<1>1. SUFFICES ASSUME U # {} PROVE FALSE
  OBVIOUS
<1>2. PICK m \in U : \A n \in U : m <= n
  <2>1. U \in SUBSET Nat
    OBVIOUS
  <2> QED BY <1>1, <2>1, Least
<1>3. m \in 1..N /\ m - 1 \in 0..N /\ ~(m <= m - 1) /\ m \notin T
  BY <1>2
<1>4. m - 1 \in T
  BY <1>2, <1>3
<1> QED BY <1>3, <1>4

Computes(f, n, start, step) == f[0] = start /\ \A i \in 1..n : f[i] = step[i][f[i - 1]]

LEMMA RecursionUpTo ==
  ASSUME NEW N \in Nat, NEW S, NEW start \in S, NEW step \in [1..N -> [S -> S]]
  PROVE  \E f \in [0..N -> S] : Computes(f, N, start, step)
<1> USE DEF Computes
<1> DEFINE T == {n \in 0..N : \E f \in [0..n -> S] : Computes(f, n, start, step)}
<1>1. 0 \in T
  <2> DEFINE f == [i \in 0..0 |-> start]
  <2>1. f \in [0..0 -> S] /\ Computes(f, 0, start, step)
    OBVIOUS
  <2> HIDE DEF f
  <2>2. \E g \in [0..0 -> S] : Computes(g, 0, start, step)
    BY <2>1
  <2> QED BY <2>2
<1>2. ASSUME NEW n \in 1..N, n - 1 \in T PROVE n \in T
  <2>1. PICK f \in [0..(n - 1) -> S] : Computes(f, n - 1, start, step)
    BY <1>2
  <2> DEFINE g == [i \in 0..n |-> IF i = n THEN step[n][f[n - 1]] ELSE f[i]]
  <2>2. \A i \in 0..n : i = n \/ i \in 0..(n - 1)
    OBVIOUS
  <2>3. n - 1 \in 0..(n - 1) /\ n \in 0..N /\ n # 0
    OBVIOUS
  <2>4. step[n][f[n - 1]] \in S
    BY <2>3
  <2>5. g \in [0..n -> S]
    BY <2>2, <2>4
  <2>6. g[0] = start
    BY <2>1, <2>3
  <2>7. ASSUME NEW i \in 1..n PROVE g[i] = step[i][g[i - 1]]
    <3>1. i - 1 \in 0..(n - 1) /\ i - 1 # n /\ i - 1 \in 0..n /\ i \in 0..n
      OBVIOUS
    <3>2. g[i - 1] = f[i - 1]
      BY <3>1
    <3>3. CASE i = n
      BY <3>1, <3>2, <3>3
    <3>4. CASE i # n
      <4>1. i \in 1..(n - 1)
        BY <3>4
      <4>2. g[i] = f[i]
        BY <3>1, <3>4
      <4> QED BY <2>1, <3>2, <4>1, <4>2
    <3> QED BY <3>3, <3>4
  <2> QED BY <2>3, <2>5, <2>6, <2>7
<1>3. N \in T
  <2> HIDE DEF T
  <2>1. \A n \in 0..N : n \in T
    BY <1>1, <1>2, InductionUpTo
  <2> QED BY <2>1
<1> QED BY <1>3

(* A finite set of at least n members has a subset of exactly n.           *)
LEMMA SubsetOfSize ==
  ASSUME NEW S, IsFiniteSet(S), NEW n \in Nat, n <= Cardinality(S)
  PROVE  \E b \in SUBSET S : Cardinality(b) = n
<1> DEFINE Large == {b \in SUBSET S : Cardinality(b) >= n}
           Sizes == {Cardinality(b) : b \in Large}
<1>1. \A b \in SUBSET S : IsFiniteSet(b) /\ Cardinality(b) \in Nat
  BY FS_Subset, FS_CardinalityType
<1>2. S \in Large
  BY <1>1
<1>3. Sizes \in SUBSET Nat /\ Sizes # {}
  BY <1>1, <1>2
<1>4. PICK m \in Sizes : \A k \in Sizes : m <= k
  BY <1>3, Least
<1>5. PICK b \in Large : m = Cardinality(b)
  BY <1>4
<1>6. ASSUME Cardinality(b) # n PROVE FALSE
  <2>1. Cardinality(b) \in Nat /\ Cardinality(b) > n /\ IsFiniteSet(b)
    BY <1>1, <1>5, <1>6
  <2>2. b # {}
    BY <2>1, FS_EmptySet
  <2>3. PICK x \in b : TRUE
    BY <2>2
  <2>4. Cardinality(b \ {x}) = Cardinality(b) - 1
    BY <2>1, <2>3, FS_RemoveElement
  <2>5. b \ {x} \in Large
    BY <1>5, <2>1, <2>4
  <2>6. Cardinality(b \ {x}) \in Sizes
    BY <2>5
  <2> QED BY <1>4, <1>5, <2>1, <2>4, <2>6
<1> QED BY <1>5, <1>6

===============================================================================
