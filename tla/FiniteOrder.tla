---------------------------- MODULE FiniteOrder ----------------------------
(***************************************************************************)
(* Two facts about order that several proofs need: a set of numbers has a  *)
(* smallest one, and in a finite set each rank is taken once.              *)
(***************************************************************************)
EXTENDS Integers, FiniteSets, WellFoundedInduction, FiniteSetTheorems,
        FunctionTheorems, TLAPS

(***************************************************************************)
(* Induction on the natural numbers, as: the numbers without a property,   *)
(* if there are any, have a smallest one.                                  *)
(***************************************************************************)
Less == {ss \in Nat \X Nat : ss[1] < ss[2]}

LEMMA LessIsWellFounded == IsWellFoundedOn(Less, Nat)
<1>1. Less = OpToRel(<, Nat)
  BY Zenon DEF Less, OpToRel
<1> QED
  BY <1>1, NatLessThanWellFounded

LEMMA Smallest ==
  ASSUME NEW T, T \subseteq Nat, T # {}
  PROVE  \E x \in T : \A y \in T : x <= y
<1>1. PICK x \in T : \A y \in T : ~(<<y, x>> \in Less)
  BY LessIsWellFounded, WFMin
<1>2. \A y \in T : ~(y < x)
  BY <1>1 DEF Less
<1> QED
  BY <1>1, <1>2
-----------------------------------------------------------------------------
(***************************************************************************)
(* Ranks: the number of elements with a smaller key.  In a finite set      *)
(* whose elements have different keys, each rank is taken exactly once.    *)
(***************************************************************************)
Smaller(D, key, x) == {y \in D : key[y] < key[x]}

Rank(D, key, x) == Cardinality(Smaller(D, key, x))

LEMMA RankOrder ==
  ASSUME NEW D, IsFiniteSet(D), NEW key \in [D -> Int],
         NEW x \in D, NEW y \in D, key[x] < key[y]
  PROVE  Rank(D, key, x) < Rank(D, key, y)
<1> DEFINE X == Smaller(D, key, x)
           Y == Smaller(D, key, y)
<1>1. X \subseteq Y /\ x \in Y /\ x \notin X /\ Y \subseteq D
  BY DEF Smaller
<1> HIDE DEF X, Y
<1>2. IsFiniteSet(Y) /\ IsFiniteSet(X)
  BY <1>1, FS_Subset
<1>3. Cardinality(X) <= Cardinality(Y) /\ Cardinality(X) # Cardinality(Y)
  BY <1>1, <1>2, FS_Subset
<1>4. Cardinality(X) \in Nat /\ Cardinality(Y) \in Nat
  BY <1>2, FS_CardinalityType
<1>5. Cardinality(X) < Cardinality(Y)
  BY <1>3, <1>4
<1> QED
  BY <1>5 DEF Rank, X, Y

LEMMA RanksTaken ==
  ASSUME NEW D, IsFiniteSet(D), NEW key \in [D -> Int],
         \A x, y \in D : key[x] = key[y] => x = y
  PROVE  /\ \A x \in D : Rank(D, key, x) \in 0 .. Cardinality(D) - 1
         /\ \A x, y \in D : Rank(D, key, x) = Rank(D, key, y) => x = y
         /\ \A i \in 1 .. Cardinality(D) : \E x \in D : Rank(D, key, x) = i - 1
<1> DEFINE N == Cardinality(D)
           f == [x \in D |-> Rank(D, key, x)]
<1>1. N \in Nat
  BY FS_CardinalityType
<1>2. ASSUME NEW x \in D PROVE Rank(D, key, x) \in 0 .. N - 1
  <2>1. Smaller(D, key, x) \subseteq D \ {x}
    BY DEF Smaller
  <2>2. IsFiniteSet(D \ {x}) /\ Cardinality(D \ {x}) = N - 1
    BY FS_RemoveElement
  <2>3. Rank(D, key, x) \in Nat /\ Rank(D, key, x) <= N - 1
    BY <2>1, <2>2, FS_Subset, FS_CardinalityType DEF Rank
  <2> QED
    BY <1>1, <2>3
<1>3. \A x, y \in D : Rank(D, key, x) = Rank(D, key, y) => x = y
  <2> SUFFICES ASSUME NEW x \in D, NEW y \in D,
                      Rank(D, key, x) = Rank(D, key, y)
               PROVE  x = y
    OBVIOUS
  <2>1. Rank(D, key, x) \in Int /\ Rank(D, key, y) \in Int
    BY <1>1, <1>2
  <2>2. ~(key[x] < key[y]) /\ ~(key[y] < key[x])
    BY <2>1, RankOrder
  <2> QED
    BY <2>2
<1>4. f \in Injection(D, 0 .. N - 1)
  <2>1. f \in [D -> 0 .. N - 1]
    BY <1>2
  <2>2. \A x, y \in D : f[x] = f[y] => x = y
    BY <1>3
  <2> QED
    BY <2>1, <2>2, Fun_IsInj
<1>5. IsFiniteSet(0 .. N - 1) /\ Cardinality(0 .. N - 1) = N
  BY <1>1, FS_Interval
<1>6. f \in Surjection(D, 0 .. N - 1)
  <2> HIDE DEF f, N
  <2> QED
    BY <1>4, <1>5, FS_Injection DEF N
<1>7. ASSUME NEW i \in 1 .. N PROVE \E x \in D : Rank(D, key, x) = i - 1
  <2>1. i - 1 \in 0 .. N - 1
    BY <1>1
  <2>2. \E x \in D : f[x] = i - 1
    BY <1>6, <2>1 DEF Surjection
  <2> QED
    BY <2>2
<1> QED
  BY <1>2, <1>3, <1>7
=============================================================================
