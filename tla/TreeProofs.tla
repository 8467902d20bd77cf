----------------------------- MODULE TreeProofs -----------------------------
(***************************************************************************)
(* The binary search tree, for any keys, any values and trees of any size: *)
(* it stays a search tree, and its operations are those of a map.          *)
(***************************************************************************)
EXTENDS Tree, FiniteOrder, SequenceTheorems

-----------------------------------------------------------------------------
(***************************************************************************)
(* Positions, one turn after another.                                      *)
(***************************************************************************)
Turn == {"L", "R"}

Position == Seq(Turn)

LEMMA PrefixTurns ==
  ASSUME NEW p \in Position, NEW q \in Position
  PROVE  IsPrefix(p, q) <=>
           Len(p) <= Len(q) /\ \A j \in 1 .. Len(p) : p[j] = q[j]
<1>1. /\ Len(p) \in Nat /\ Len(q) \in Nat
      /\ \A j \in 1 .. Len(p) : p[j] \in Turn
      /\ \A j \in 1 .. Len(q) : q[j] \in Turn
  BY LenProperties, ElementOfSeq DEF Position
<1>2. ASSUME Len(p) <= Len(q)
      PROVE  SubSeq(p, 1, Len(p)) = SubSeq(q, 1, Len(p))
               <=> \A j \in 1 .. Len(p) : p[j] = q[j]
  <2> DEFINE a == SubSeq(p, 1, Len(p))
             b == SubSeq(q, 1, Len(p))
  <2>1. /\ a \in Position /\ Len(a) = Len(p)
        /\ \A j \in 1 .. Len(p) : a[j] = p[j]
    BY <1>1, SubSeqFull DEF Position
  <2>2. /\ b \in Position /\ Len(b) = Len(p)
        /\ \A j \in 1 .. Len(p) : b[j] = q[j]
    <3>1. \A j \in 1 .. Len(p) : q[j] \in Turn
      BY <1>1, <1>2
    <3> QED
      BY <1>1, <3>1, SubSeqProperties DEF Position
  <2> HIDE DEF a, b
  <2>3. (\A j \in 1 .. Len(p) : a[j] = b[j]) => a = b
    BY <2>1, <2>2, SeqEqual DEF Position
  <2>4. a = b <=> \A j \in 1 .. Len(p) : p[j] = q[j]
    BY <2>1, <2>2, <2>3
  <2> QED
    BY <2>4 DEF a, b
<1> QED
  BY <1>2 DEF IsPrefix

LEMMA ChildTurns ==
  ASSUME NEW p \in Position
  PROVE  /\ LeftOf(p) \in Position /\ RightOf(p) \in Position
         /\ Len(p) \in Nat
         /\ Len(LeftOf(p)) = Len(p) + 1 /\ Len(RightOf(p)) = Len(p) + 1
         /\ \A j \in 1 .. Len(p) : LeftOf(p)[j] = p[j] /\ RightOf(p)[j] = p[j]
         /\ LeftOf(p)[Len(p) + 1] = "L" /\ RightOf(p)[Len(p) + 1] = "R"
  BY DEF Position, Turn, LeftOf, RightOf

LEMMA CutTurns ==
  ASSUME NEW p \in Position, NEW m \in 0 .. Len(p)
  PROVE  /\ SubSeq(p, 1, m) \in Position
         /\ Len(SubSeq(p, 1, m)) = m
         /\ \A j \in 1 .. m : SubSeq(p, 1, m)[j] = p[j]
<1>1. Len(p) \in Nat /\ \A j \in 1 .. m : p[j] \in Turn
  BY LenProperties, ElementOfSeq DEF Position
<1> QED
  BY <1>1, SubSeqProperties DEF Position

LEMMA SamePosition ==
  ASSUME NEW p \in Position, NEW q \in Position,
         Len(p) = Len(q), \A j \in 1 .. Len(p) : p[j] = q[j]
  PROVE  p = q
  BY SeqEqual DEF Position

(***************************************************************************)
(* Positions as an order: p is above q, or q itself, when it is a prefix.  *)
(***************************************************************************)
LEMMA PrefixOrder ==
  ASSUME NEW p \in Position, NEW q \in Position, NEW r \in Position
  PROVE  /\ IsPrefix(p, p)
         /\ IsPrefix(p, q) /\ IsPrefix(q, r) => IsPrefix(p, r)
         /\ IsPrefix(p, q) /\ IsPrefix(q, p) => p = q
         /\ IsPrefix(p, r) /\ IsPrefix(q, r) => IsPrefix(p, q) \/ IsPrefix(q, p)
<1>1. Len(p) \in Nat /\ Len(q) \in Nat /\ Len(r) \in Nat
  BY LenProperties DEF Position
<1>2. IsPrefix(p, q) /\ IsPrefix(q, p) => p = q
  BY <1>1, PrefixTurns, SamePosition
<1>3. IsPrefix(p, q) /\ IsPrefix(q, r) => IsPrefix(p, r)
  BY <1>1, PrefixTurns
<1>4. IsPrefix(p, r) /\ IsPrefix(q, r) => IsPrefix(p, q) \/ IsPrefix(q, p)
  BY <1>1, PrefixTurns
<1> QED
  BY <1>1, <1>2, <1>3, <1>4, PrefixTurns

LEMMA RootIsTop ==
  /\ Root \in Position
  /\ \A p \in Position : IsPrefix(Root, p) /\ (IsPrefix(p, Root) => p = Root)
<1>1. Root \in Position /\ Len(Root) = 0
  BY EmptySeq DEF Root, Position
<1>2. \A p \in Position : IsPrefix(Root, p)
  <2> TAKE p \in Position
  <2>1. Len(p) \in Nat
    BY LenProperties DEF Position
  <2> QED
    BY <1>1, <2>1, PrefixTurns
<1> QED
  BY <1>1, <1>2, PrefixOrder

LEMMA ChildOrder ==
  ASSUME NEW p \in Position, NEW q \in Position
  PROVE  /\ IsPrefix(p, LeftOf(p)) /\ IsPrefix(p, RightOf(p))
         /\ ~IsPrefix(LeftOf(p), p) /\ ~IsPrefix(RightOf(p), p)
         /\ LeftOf(p) # p /\ RightOf(p) # p
         /\ IsPrefix(LeftOf(p), q) => IsPrefix(p, q)
         /\ IsPrefix(RightOf(p), q) => IsPrefix(p, q)
         /\ ~(IsPrefix(LeftOf(p), q) /\ IsPrefix(RightOf(p), q))
         /\ IsPrefix(p, q) =>
              p = q \/ IsPrefix(LeftOf(p), q) \/ IsPrefix(RightOf(p), q)
<1>1. /\ LeftOf(p) \in Position /\ RightOf(p) \in Position
      /\ Len(p) \in Nat /\ Len(q) \in Nat
      /\ Len(LeftOf(p)) = Len(p) + 1 /\ Len(RightOf(p)) = Len(p) + 1
      /\ \A j \in 1 .. Len(p) : LeftOf(p)[j] = p[j] /\ RightOf(p)[j] = p[j]
      /\ LeftOf(p)[Len(p) + 1] = "L" /\ RightOf(p)[Len(p) + 1] = "R"
  BY ChildTurns
<1>2. IsPrefix(p, LeftOf(p)) /\ IsPrefix(p, RightOf(p))
  BY <1>1, PrefixTurns
<1>3. ~IsPrefix(LeftOf(p), p) /\ ~IsPrefix(RightOf(p), p)
  BY <1>1, PrefixTurns
<1>4. LeftOf(p) # p /\ RightOf(p) # p
  BY <1>1
<1>5. /\ IsPrefix(LeftOf(p), q) => IsPrefix(p, q)
      /\ IsPrefix(RightOf(p), q) => IsPrefix(p, q)
  BY <1>1, <1>2, PrefixOrder
<1>6. /\ IsPrefix(LeftOf(p), q) => Len(p) + 1 <= Len(q) /\ q[Len(p) + 1] = "L"
      /\ IsPrefix(RightOf(p), q) => Len(p) + 1 <= Len(q) /\ q[Len(p) + 1] = "R"
  BY <1>1, PrefixTurns
<1>7. ASSUME IsPrefix(p, q), p # q
      PROVE  IsPrefix(LeftOf(p), q) \/ IsPrefix(RightOf(p), q)
  <2>1. Len(p) <= Len(q) /\ \A j \in 1 .. Len(p) : p[j] = q[j]
    BY <1>7, PrefixTurns
  <2>2. Len(p) # Len(q)
    BY <1>7, <2>1, SamePosition
  <2>3. Len(p) + 1 \in 1 .. Len(q)
    BY <1>1, <2>1, <2>2
  <2>4. q[Len(p) + 1] \in Turn
    BY <2>3, ElementOfSeq DEF Position
  <2>5. CASE q[Len(p) + 1] = "L"
    <3>1. \A j \in 1 .. Len(LeftOf(p)) : LeftOf(p)[j] = q[j]
      BY <1>1, <2>1, <2>5
    <3> QED
      BY <1>1, <2>3, <3>1, PrefixTurns
  <2>6. CASE q[Len(p) + 1] = "R"
    <3>1. \A j \in 1 .. Len(RightOf(p)) : RightOf(p)[j] = q[j]
      BY <1>1, <2>1, <2>6
    <3> QED
      BY <1>1, <2>3, <3>1, PrefixTurns
  <2> QED
    BY <2>4, <2>5, <2>6 DEF Turn
<1> QED
  BY <1>2, <1>3, <1>4, <1>5, <1>6, <1>7

(***************************************************************************)
(* Two positions of which none is above the other part at a third.         *)
(***************************************************************************)
Apart(c, p, q) == IsPrefix(LeftOf(c), p) /\ IsPrefix(RightOf(c), q)

LEMMA Parting ==
  ASSUME NEW p \in Position, NEW q \in Position,
         ~IsPrefix(p, q), ~IsPrefix(q, p)
  PROVE  \E c \in Position : Apart(c, p, q) \/ Apart(c, q, p)
<1>1. /\ Len(p) \in Nat /\ Len(q) \in Nat
      /\ \A j \in 1 .. Len(p) : p[j] \in Turn
      /\ \A j \in 1 .. Len(q) : q[j] \in Turn
  BY LenProperties, ElementOfSeq DEF Position
<1> DEFINE T == {j \in 1 .. Len(p) : j <= Len(q) /\ p[j] # q[j]}
<1>2. T \subseteq Nat /\ T # {}
  BY <1>1, PrefixTurns
<1>3. PICK m \in T : \A j \in T : m <= j
  <2> HIDE DEF T
  <2> QED
    BY <1>2, Smallest
<1>4. /\ m \in 1 .. Len(p) /\ m \in 1 .. Len(q) /\ p[m] # q[m]
      /\ \A j \in 1 .. m - 1 : p[j] = q[j]
  BY <1>1, <1>3
<1> DEFINE c == SubSeq(p, 1, m - 1)
<1>5. /\ c \in Position /\ Len(c) = m - 1
      /\ \A j \in 1 .. m - 1 : c[j] = p[j] /\ c[j] = q[j]
  <2>1. m - 1 \in 0 .. Len(p)
    BY <1>1, <1>4
  <2> QED
    BY <1>4, <2>1, CutTurns
<1> HIDE DEF c
<1>6. IsPrefix(c, p) /\ IsPrefix(c, q) /\ c # p /\ c # q
  BY <1>1, <1>4, <1>5, PrefixTurns
<1>7. /\ IsPrefix(LeftOf(c), p) \/ IsPrefix(RightOf(c), p)
      /\ IsPrefix(LeftOf(c), q) \/ IsPrefix(RightOf(c), q)
  BY <1>5, <1>6, ChildOrder
<1>8. /\ ~(IsPrefix(LeftOf(c), p) /\ IsPrefix(LeftOf(c), q))
      /\ ~(IsPrefix(RightOf(c), p) /\ IsPrefix(RightOf(c), q))
  <2>1. /\ LeftOf(c) \in Position /\ Len(LeftOf(c)) = m /\ LeftOf(c)[m] = "L"
        /\ RightOf(c) \in Position /\ Len(RightOf(c)) = m /\ RightOf(c)[m] = "R"
    <3>1. Len(c) + 1 = m
      BY <1>1, <1>4, <1>5
    <3> QED
      BY <1>5, <3>1, ChildTurns
  <2>2. m \in 1 .. m
    BY <1>4
  <2>3. /\ IsPrefix(LeftOf(c), p) => p[m] = "L"
        /\ IsPrefix(LeftOf(c), q) => q[m] = "L"
        /\ IsPrefix(RightOf(c), p) => p[m] = "R"
        /\ IsPrefix(RightOf(c), q) => q[m] = "R"
    BY <2>1, <2>2, PrefixTurns
  <2> QED
    BY <1>4, <2>3
<1> QED
  BY <1>5, <1>7, <1>8 DEF Apart

LEMMA FrontOfChild ==
  ASSUME NEW p \in Position
  PROVE  /\ Front(LeftOf(p)) = p /\ Front(RightOf(p)) = p
         /\ LeftOf(p) # Root /\ RightOf(p) # Root
  BY SubSeqFull DEF Front, LeftOf, RightOf, Root, Position, Turn

LEMMA ChildOfFront ==
  ASSUME NEW p \in Position, p # Root
  PROVE  /\ Front(p) \in Position /\ Len(Front(p)) = Len(p) - 1
         /\ IsPrefix(Front(p), p) /\ Front(p) # p
         /\ p = LeftOf(Front(p)) \/ p = RightOf(Front(p))
         /\ \A q \in Position : IsPrefix(q, p) => q = p \/ IsPrefix(q, Front(p))
<1>1. Len(p) \in Nat \ {0}
  BY EmptySeq DEF Position, Root
<1>2. /\ Front(p) \in Position /\ Len(Front(p)) = Len(p) - 1
      /\ \A j \in 1 .. Len(p) - 1 : Front(p)[j] = p[j]
  <2>1. Len(p) - 1 \in 0 .. Len(p)
    BY <1>1
  <2> QED
    BY <2>1, CutTurns DEF Front
<1>3. IsPrefix(Front(p), p)
  BY <1>1, <1>2, PrefixTurns
<1>4. ASSUME NEW q \in Position, IsPrefix(q, p), q # p
      PROVE  IsPrefix(q, Front(p))
  <2>1. Len(q) \in Nat /\ Len(q) <= Len(p) /\ \A j \in 1 .. Len(q) : q[j] = p[j]
    BY <1>4, PrefixTurns, LenProperties DEF Position
  <2>2. Len(q) # Len(p)
    BY <1>4, <2>1, SamePosition
  <2> QED
    BY <1>1, <1>2, <2>1, <2>2, PrefixTurns
<1>5. p = LeftOf(Front(p)) \/ p = RightOf(Front(p))
  <2>1. IsPrefix(LeftOf(Front(p)), p) \/ IsPrefix(RightOf(Front(p)), p)
    BY <1>1, <1>2, <1>3, ChildOrder
  <2>2. /\ Len(LeftOf(Front(p))) = Len(p) /\ Len(RightOf(Front(p))) = Len(p)
        /\ LeftOf(Front(p)) \in Position /\ RightOf(Front(p)) \in Position
    BY <1>1, <1>2, ChildTurns
  <2> QED
    BY <2>1, <2>2, PrefixTurns, SamePosition
<1> QED
  BY <1>1, <1>2, <1>3, <1>4, <1>5

(***************************************************************************)
(* The turn that p takes at a position above it.                           *)
(***************************************************************************)
LEMMA TurnBelow ==
  ASSUME NEW c \in Position, NEW p \in Position, IsPrefix(c, p), c # p
  PROVE  /\ Len(c) \in Nat /\ Len(p) \in Nat /\ Len(c) < Len(p)
         /\ SubSeq(p, 1, Len(c)) = c
         /\ p[Len(c) + 1] = "L" <=> IsPrefix(LeftOf(c), p)
         /\ p[Len(c) + 1] = "R" <=> IsPrefix(RightOf(c), p)
<1>1. /\ Len(c) \in Nat /\ Len(p) \in Nat /\ Len(c) <= Len(p)
      /\ \A j \in 1 .. Len(c) : c[j] = p[j]
  BY PrefixTurns, LenProperties DEF Position
<1>2. Len(c) # Len(p)
  BY <1>1, SamePosition
<1>3. SubSeq(p, 1, Len(c)) = c
  <2> DEFINE cut == SubSeq(p, 1, Len(c))
  <2>1. /\ cut \in Position /\ Len(cut) = Len(c)
        /\ \A j \in 1 .. Len(c) : cut[j] = p[j]
    <3>1. Len(c) \in 0 .. Len(p)
      BY <1>1
    <3> QED
      BY <3>1, CutTurns
  <2> HIDE DEF cut
  <2>2. cut = c
    BY <1>1, <2>1, SamePosition
  <2> QED
    BY <2>2 DEF cut
<1>4. /\ IsPrefix(LeftOf(c), p) => p[Len(c) + 1] = "L"
      /\ IsPrefix(RightOf(c), p) => p[Len(c) + 1] = "R"
  <2> DEFINE m == Len(c) + 1
  <2>1. /\ LeftOf(c) \in Position /\ Len(LeftOf(c)) = m /\ LeftOf(c)[m] = "L"
        /\ RightOf(c) \in Position /\ Len(RightOf(c)) = m /\ RightOf(c)[m] = "R"
    BY ChildTurns
  <2>2. m \in 1 .. m
    BY <1>1
  <2> HIDE DEF m
  <2>3. /\ IsPrefix(LeftOf(c), p) => p[m] = "L"
        /\ IsPrefix(RightOf(c), p) => p[m] = "R"
    BY <2>1, <2>2, PrefixTurns
  <2> QED
    BY <2>3 DEF m
<1>5. IsPrefix(LeftOf(c), p) \/ IsPrefix(RightOf(c), p)
  BY ChildOrder
<1> QED
  BY <1>1, <1>2, <1>3, <1>4, <1>5
-----------------------------------------------------------------------------
(***************************************************************************)
(* Search trees.                                                           *)
(***************************************************************************)
RootedNodes(n) == \A p \in DOMAIN n : p # Root => Front(p) \in DOMAIN n

Side(n, p, q) ==
  /\ IsPrefix(LeftOf(p), q) => n[q].key < n[p].key
  /\ IsPrefix(RightOf(p), q) => n[q].key > n[p].key

Nodes(n) ==
  /\ DOMAIN n \subseteq Position
  /\ IsFiniteSet(DOMAIN n)
  /\ \A p \in DOMAIN n : n[p].key \in Int
  /\ RootedNodes(n)

SearchTree(n) == Nodes(n) /\ \A p, q \in DOMAIN n : Side(n, p, q)

(***************************************************************************)
(* Whatever is above a node is a node.                                     *)
(***************************************************************************)
LEMMA AboveNode ==
  ASSUME NEW n, Nodes(n), NEW q \in DOMAIN n, NEW p \in Position, IsPrefix(p, q)
  PROVE  p \in DOMAIN n
<1> DEFINE Reach == {r \in DOMAIN n : IsPrefix(p, r)}
           T == {Len(r) : r \in Reach}
<1>1. DOMAIN n \subseteq Position /\ RootedNodes(n)
  BY DEF Nodes
<1>2. T \subseteq Nat /\ T # {}
  BY <1>1, LenProperties DEF Position
<1>3. PICK m \in T : \A j \in T : m <= j
  <2> HIDE DEF T
  <2> QED
    BY <1>2, Smallest
<1>4. PICK r \in Reach : Len(r) = m
  BY <1>3
<1>5. r \in Position /\ Len(r) \in Nat
  BY <1>1, <1>2, <1>4
<1>6. CASE r = p
  BY <1>4, <1>6
<1>7. CASE r # p
  <2>1. r # Root
    BY <1>4, <1>7, RootIsTop
  <2>2. Front(r) \in Reach /\ Len(Front(r)) = Len(r) - 1
    BY <1>1, <1>4, <1>5, <1>7, <2>1, ChildOfFront DEF RootedNodes
  <2> QED
    BY <1>3, <1>4, <1>5, <2>2
<1> QED
  BY <1>6, <1>7

(***************************************************************************)
(* A search tree holds each key once.                                      *)
(***************************************************************************)
LEMMA KeysApart ==
  ASSUME NEW n, SearchTree(n), NEW p \in DOMAIN n, NEW q \in DOMAIN n,
         n[p].key = n[q].key
  PROVE  p = q
<1>1. Nodes(n) /\ p \in Position /\ q \in Position /\ n[p].key \in Int
      /\ \A a, b \in DOMAIN n : Side(n, a, b)
  BY DEF SearchTree, Nodes
<1>2. ASSUME NEW a \in DOMAIN n, NEW b \in DOMAIN n, n[a].key = n[b].key,
             IsPrefix(a, b)
      PROVE  a = b
  <2>1. Side(n, a, b) /\ a \in Position /\ b \in Position /\ n[a].key \in Int
    BY <1>1 DEF Nodes
  <2> QED
    BY <1>2, <2>1, ChildOrder DEF Side
<1>3. ASSUME NEW c \in Position, NEW a \in DOMAIN n, NEW b \in DOMAIN n,
             Apart(c, a, b)
      PROVE  n[a].key < n[b].key
  <2>1. a \in Position /\ b \in Position
    BY <1>1 DEF Nodes
  <2>2. c \in DOMAIN n
    BY <1>1, <1>3, <2>1, AboveNode, ChildOrder DEF Apart
  <2>3. n[a].key < n[c].key /\ n[b].key > n[c].key
    BY <1>1, <1>3, <2>2 DEF Side, Apart
  <2> QED
    BY <1>1, <2>2, <2>3 DEF Nodes
<1>4. CASE IsPrefix(p, q) \/ IsPrefix(q, p)
  BY <1>2, <1>4
<1>5. CASE ~IsPrefix(p, q) /\ ~IsPrefix(q, p)
  BY <1>1, <1>3, <1>5, Parting
<1> QED
  BY <1>4, <1>5

(***************************************************************************)
(* The walk in terms of the positions above p.                             *)
(***************************************************************************)
Guided(n, top, k, p) ==
  /\ IsPrefix(top, p)
  /\ \A c \in Position : IsPrefix(top, c) /\ IsPrefix(c, p) /\ c # p =>
       /\ c \in DOMAIN n
       /\ n[c].key # k
       /\ IF k < n[c].key THEN IsPrefix(LeftOf(c), p) ELSE IsPrefix(RightOf(c), p)

LEMMA WalkIsGuided ==
  ASSUME NEW n, NEW top \in Position, NEW k, NEW p \in Position
  PROVE  OnWalk(n, top, k, p) <=> Guided(n, top, k, p)
<1>0. Len(top) \in Nat /\ Len(p) \in Nat
  BY LenProperties DEF Position
<1>1. ASSUME OnWalk(n, top, k, p)
      PROVE  Guided(n, top, k, p)
  <2>1. IsPrefix(top, p)
    BY <1>1 DEF OnWalk
  <2>2. ASSUME NEW c \in Position, IsPrefix(top, c), IsPrefix(c, p), c # p
        PROVE  /\ c \in DOMAIN n
               /\ n[c].key # k
               /\ IF k < n[c].key THEN IsPrefix(LeftOf(c), p)
                                  ELSE IsPrefix(RightOf(c), p)
    <3>1. /\ Len(c) \in Nat /\ Len(c) < Len(p) /\ SubSeq(p, 1, Len(c)) = c
          /\ p[Len(c) + 1] = "L" <=> IsPrefix(LeftOf(c), p)
          /\ p[Len(c) + 1] = "R" <=> IsPrefix(RightOf(c), p)
      BY <2>2, TurnBelow
    <3>2. Len(top) <= Len(c)
      BY <2>2, PrefixTurns
    <3>3. Len(c) + 1 \in Len(top) + 1 .. Len(p) /\ Len(c) + 1 - 1 = Len(c)
      BY <1>0, <3>1, <3>2
    <3> DEFINE Turns(q, j) == /\ q \in DOMAIN n
                              /\ n[q].key # k
                              /\ p[j] = IF k < n[q].key THEN "L" ELSE "R"
    <3>4. Turns(SubSeq(p, 1, Len(c) + 1 - 1), Len(c) + 1)
      BY <1>1, <3>3 DEF OnWalk
    <3>5. SubSeq(p, 1, Len(c) + 1 - 1) = c
      BY <3>1, <3>3
    <3>6. Turns(c, Len(c) + 1)
      <4> HIDE DEF Turns
      <4> QED
        BY <3>4, <3>5
    <3> QED
      BY <3>1, <3>6
  <2> QED
    BY <2>1, <2>2 DEF Guided
<1>2. ASSUME Guided(n, top, k, p)
      PROVE  OnWalk(n, top, k, p)
  <2>1. IsPrefix(top, p)
    BY <1>2 DEF Guided
  <2>2. ASSUME NEW j \in Len(top) + 1 .. Len(p)
        PROVE  LET q == SubSeq(p, 1, j - 1)
               IN  /\ q \in DOMAIN n
                   /\ n[q].key # k
                   /\ p[j] = IF k < n[q].key THEN "L" ELSE "R"
    <3> DEFINE q == SubSeq(p, 1, j - 1)
    <3>1. j - 1 \in 0 .. Len(p) /\ j - 1 < Len(p) /\ Len(top) <= j - 1
      BY <1>0
    <3>2. /\ q \in Position /\ Len(q) = j - 1
          /\ \A u \in 1 .. j - 1 : q[u] = p[u]
      BY <3>1, CutTurns
    <3> HIDE DEF q
    <3>3. IsPrefix(q, p) /\ q # p /\ IsPrefix(top, q)
      BY <1>0, <2>1, <3>1, <3>2, PrefixTurns
    <3>4. /\ q \in DOMAIN n
          /\ n[q].key # k
          /\ IF k < n[q].key THEN IsPrefix(LeftOf(q), p) ELSE IsPrefix(RightOf(q), p)
      BY <1>2, <3>2, <3>3 DEF Guided
    <3>5. /\ p[j] = "L" <=> IsPrefix(LeftOf(q), p)
          /\ p[j] = "R" <=> IsPrefix(RightOf(q), p)
      <4>1. Len(q) + 1 = j
        BY <3>1, <3>2
      <4> QED
        BY <3>2, <3>3, <4>1, TurnBelow
    <3>6. p[j] = IF k < n[q].key THEN "L" ELSE "R"
      BY <3>4, <3>5
    <3> QED
      BY <3>4, <3>6 DEF q
  <2> QED
    BY <2>1, <2>2 DEF OnWalk
<1> QED
  BY <1>1, <1>2

(***************************************************************************)
(* The walk for a key has exactly one end.                                 *)
(***************************************************************************)
WalkEnd(n, top, k, p) == Guided(n, top, k, p) /\ (p \in DOMAIN n => n[p].key = k)

LEMMA OneEnd ==
  ASSUME NEW n, NEW top \in Position, NEW k, NEW p \in Position, NEW q \in Position,
         WalkEnd(n, top, k, p), WalkEnd(n, top, k, q)
  PROVE  p = q
<1>1. ASSUME NEW a \in Position, NEW b \in Position,
             WalkEnd(n, top, k, a), WalkEnd(n, top, k, b), IsPrefix(a, b)
      PROVE  a = b
  BY <1>1 DEF WalkEnd, Guided
<1>2. ASSUME NEW c \in Position, NEW a \in Position, NEW b \in Position,
             WalkEnd(n, top, k, a), WalkEnd(n, top, k, b), Apart(c, a, b)
      PROVE  FALSE
  <2>1. /\ IsPrefix(c, a) /\ IsPrefix(c, b) /\ c # a /\ c # b
        /\ ~IsPrefix(RightOf(c), a) /\ ~IsPrefix(LeftOf(c), b)
    BY <1>2, ChildOrder DEF Apart
  <2>2. IsPrefix(top, a) /\ IsPrefix(top, b)
    BY <1>2 DEF WalkEnd, Guided
  <2>3. IsPrefix(top, c)
    <3>1. IsPrefix(top, c) \/ IsPrefix(c, top)
      BY <2>1, <2>2, PrefixOrder
    <3>2. ~IsPrefix(LeftOf(c), top) /\ ~IsPrefix(RightOf(c), top)
      BY <2>1, <2>2, ChildTurns, PrefixOrder
    <3> QED
      BY <3>1, <3>2, ChildOrder, PrefixOrder
  <2>4. k < n[c].key
    BY <1>2, <2>1, <2>3 DEF WalkEnd, Guided
  <2>5. ~(k < n[c].key)
    BY <1>2, <2>1, <2>3 DEF WalkEnd, Guided
  <2> QED
    BY <2>4, <2>5
<1> QED
  BY <1>1, <1>2, Parting

(***************************************************************************)
(* A walk that has not found its key at the node q goes on.                *)
(***************************************************************************)
LEMMA WalkGoesOn ==
  ASSUME NEW n, NEW top \in Position, NEW k, NEW q \in Position,
         Guided(n, top, k, q), q \in DOMAIN n, n[q].key # k
  PROVE  Guided(n, top, k, IF k < n[q].key THEN LeftOf(q) ELSE RightOf(q))
<1> DEFINE r == IF k < n[q].key THEN LeftOf(q) ELSE RightOf(q)
<1>1. /\ r \in Position /\ r # Root /\ IsPrefix(q, r) /\ Front(r) = q
  BY ChildTurns, ChildOrder, FrontOfChild
<1>2. IF k < n[q].key THEN r = LeftOf(q) ELSE r = RightOf(q)
  OBVIOUS
<1> HIDE DEF r
<1>3. IsPrefix(top, r)
  BY <1>1, PrefixOrder DEF Guided
<1>4. ASSUME NEW c \in Position, IsPrefix(top, c), IsPrefix(c, r), c # r
      PROVE  /\ c \in DOMAIN n
             /\ n[c].key # k
             /\ IF k < n[c].key THEN IsPrefix(LeftOf(c), r) ELSE IsPrefix(RightOf(c), r)
  <2>1. IsPrefix(c, q)
    BY <1>1, <1>4, ChildOfFront
  <2>2. CASE c = q
    BY <1>1, <1>2, <2>2, PrefixOrder
  <2>3. CASE c # q
    <3>1. /\ c \in DOMAIN n
          /\ n[c].key # k
          /\ IF k < n[c].key THEN IsPrefix(LeftOf(c), q) ELSE IsPrefix(RightOf(c), q)
      BY <1>4, <2>1, <2>3 DEF Guided
    <3> QED
      BY <1>1, <3>1, ChildTurns, PrefixOrder
  <2> QED
    BY <2>2, <2>3
<1>5. Guided(n, top, k, r)
  BY <1>3, <1>4 DEF Guided
<1> QED
  BY <1>5 DEF r

LEMMA EndExists ==
  ASSUME NEW n, Nodes(n), NEW top \in Position, top \in Places(n), NEW k
  PROVE  \E p \in Places(n) : p \in Position /\ WalkEnd(n, top, k, p)
<1> DEFINE At(m) == {p \in DOMAIN n : Guided(n, top, k, p) /\ Len(p) = m}
           T == {m \in Nat : m >= Len(top) /\ At(m) = {}}
<1>1. /\ DOMAIN n \subseteq Position /\ IsFiniteSet(DOMAIN n)
      /\ Len(top) \in Nat
  BY LenProperties DEF Nodes, Position
<1>2. T # {}
  <2> SUFFICES ASSUME T = {} PROVE FALSE
    OBVIOUS
  <2> DEFINE N == Cardinality(DOMAIN n)
             f == [j \in 0 .. N |-> CHOOSE p \in DOMAIN n : p \in At(Len(top) + j)]
  <2>1. N \in Nat
    BY <1>1, FS_CardinalityType
  <2> HIDE DEF N
  <2>2. ASSUME NEW j \in 0 .. N
        PROVE  f[j] \in DOMAIN n /\ Len(f[j]) = Len(top) + j
    <3>1. Len(top) + j \in Nat /\ Len(top) + j >= Len(top)
      BY <1>1, <2>1
    <3>2. \E p \in DOMAIN n : p \in At(Len(top) + j)
      BY <3>1
    <3> QED
      BY <3>2
  <2> HIDE DEF f
  <2>3. f \in [0 .. N -> DOMAIN n]
    BY <2>2 DEF f
  <2>4. \A j, l \in 0 .. N : f[j] = f[l] => j = l
    <3> TAKE j, l \in 0 .. N
    <3>1. Len(f[j]) = Len(top) + j /\ Len(f[l]) = Len(top) + l
      BY <2>2
    <3> QED
      BY <1>1, <2>1, <3>1
  <2>5. f \in Injection(0 .. N, DOMAIN n)
    BY <2>3, <2>4 DEF Injection, IsInjective
  <2>6. Cardinality(0 .. N) <= Cardinality(DOMAIN n)
    BY <1>1, <2>5, FS_Injection
  <2>7. Cardinality(0 .. N) = N + 1
    BY <2>1, FS_Interval
  <2> QED
    BY <2>1, <2>6, <2>7 DEF N
<1>3. PICK m \in T : \A j \in T : m <= j
  <2>1. T \subseteq Nat
    OBVIOUS
  <2> HIDE DEF T
  <2> QED
    BY <1>2, <2>1, Smallest
<1>4. CASE m = Len(top)
  <2>1. Guided(n, top, k, top)
    BY PrefixOrder DEF Guided
  <2>2. top \notin DOMAIN n
    BY <1>4, <2>1
  <2> QED
    BY <2>1, <2>2 DEF WalkEnd
<1>5. CASE m # Len(top)
  <2>1. m - 1 \in Nat /\ m - 1 >= Len(top) /\ ~(m <= m - 1)
    BY <1>1, <1>3, <1>5
  <2>2. PICK q : q \in At(m - 1)
    BY <1>3, <2>1
  <2>3. q \in DOMAIN n /\ Guided(n, top, k, q) /\ Len(q) = m - 1 /\ q \in Position
    BY <1>1, <2>2
  <2>4. CASE n[q].key = k
    BY <2>3, <2>4 DEF Places, WalkEnd
  <2>5. CASE n[q].key # k
    <3> DEFINE r == IF k < n[q].key THEN LeftOf(q) ELSE RightOf(q)
    <3>1. Guided(n, top, k, r)
      BY <2>3, <2>5, WalkGoesOn
    <3>2. r \in Places(n)
      BY <2>3 DEF Places
    <3>3. r \in Position /\ Len(r) = Len(q) + 1
      BY <2>3, ChildTurns
    <3>4. r \notin DOMAIN n
      <4>1. Len(q) + 1 = m
        BY <1>3, <2>3
      <4> HIDE DEF r
      <4> QED
        BY <1>3, <3>1, <3>3, <4>1
    <3> HIDE DEF r
    <3> QED
      BY <3>1, <3>2, <3>3, <3>4 DEF WalkEnd
  <2> QED
    BY <2>4, <2>5
<1> QED
  BY <1>4, <1>5

LEMMA PlacesArePositions ==
  ASSUME NEW n, DOMAIN n \subseteq Position
  PROVE  Places(n) \subseteq Position
  BY RootIsTop, ChildTurns DEF Places

LEMMA WalkEnds ==
  ASSUME NEW n, Nodes(n), NEW top \in Position, top \in Places(n), NEW k
  PROVE  /\ Walk(n, top, k) \in Places(n)
         /\ Walk(n, top, k) \in Position
         /\ WalkEnd(n, top, k, Walk(n, top, k))
         /\ \A p \in Position : WalkEnd(n, top, k, p) => Walk(n, top, k) = p
<1> DEFINE w == Walk(n, top, k)
<1>1. Places(n) \subseteq Position
  BY PlacesArePositions DEF Nodes
<1>2. \E p \in Places(n) :
        OnWalk(n, top, k, p) /\ (p \in DOMAIN n => n[p].key = k)
  BY <1>1, EndExists, WalkIsGuided DEF WalkEnd
<1>3. /\ w \in Places(n)
      /\ OnWalk(n, top, k, w) /\ (w \in DOMAIN n => n[w].key = k)
  BY <1>2, Zenon DEF Walk
<1> HIDE DEF w
<1>4. w \in Position /\ WalkEnd(n, top, k, w)
  BY <1>1, <1>3, WalkIsGuided DEF WalkEnd
<1>5. \A p \in Position : WalkEnd(n, top, k, p) => w = p
  BY <1>4, OneEnd
<1> QED
  BY <1>3, <1>4, <1>5 DEF w

(***************************************************************************)
(* From the root of a search tree the walk finds a key that is there.      *)
(***************************************************************************)
LEMMA WalkFinds ==
  ASSUME NEW n, SearchTree(n), NEW q \in DOMAIN n, NEW top \in Position,
         IsPrefix(top, q)
  PROVE  Walk(n, top, n[q].key) = q
<1>1. Nodes(n) /\ q \in Position /\ n[q].key \in Int
      /\ \A a, b \in DOMAIN n : Side(n, a, b)
  BY DEF SearchTree, Nodes
<1>2. top \in Places(n)
  BY <1>1, AboveNode DEF Places
<1>3. ASSUME NEW c \in Position, IsPrefix(top, c), IsPrefix(c, q), c # q
      PROVE  /\ c \in DOMAIN n
             /\ n[c].key # n[q].key
             /\ IF n[q].key < n[c].key THEN IsPrefix(LeftOf(c), q)
                                      ELSE IsPrefix(RightOf(c), q)
  <2>1. c \in DOMAIN n
    BY <1>1, <1>3, AboveNode
  <2>2. Side(n, c, q) /\ n[c].key \in Int
    BY <1>1, <2>1 DEF Nodes
  <2>3. IsPrefix(LeftOf(c), q) \/ IsPrefix(RightOf(c), q)
    BY <1>1, <1>3, ChildOrder
  <2> QED
    BY <1>1, <2>1, <2>2, <2>3 DEF Side
<1>4. WalkEnd(n, top, n[q].key, q)
  BY <1>3 DEF WalkEnd, Guided
<1> QED
  BY <1>1, <1>2, <1>4, WalkEnds
-----------------------------------------------------------------------------
(***************************************************************************)
(* The map a search tree represents has the value of each node under its   *)
(* key.                                                                    *)
(***************************************************************************)
LEMMA StoreValues ==
  ASSUME NEW t, SearchTree(t.node)
  PROVE  /\ DOMAIN StoreOf(t) = {t.node[p].key : p \in DOMAIN t.node}
         /\ \A p \in DOMAIN t.node : StoreOf(t)[t.node[p].key] = t.node[p].value
         /\ StoreOf(t) = [k \in DOMAIN StoreOf(t) |-> StoreOf(t)[k]]
<1>1. ASSUME NEW p \in DOMAIN t.node
      PROVE  StoreOf(t)[t.node[p].key] = t.node[p].value
  <2> DEFINE k == t.node[p].key
             q == CHOOSE r \in DOMAIN t.node : t.node[r].key = k
  <2>1. q \in DOMAIN t.node /\ t.node[q].key = k
    BY Zenon
  <2>2. q = p
    <3> HIDE DEF q
    <3> QED
      BY <2>1, KeysApart
  <2>3. StoreOf(t)[k] = t.node[q].value
    BY DEF StoreOf
  <2> QED
    BY <2>2, <2>3
<1> QED
  BY <1>1 DEF StoreOf

(***************************************************************************)
(* tree_get returns what the map holds (tree_get in source/tree.c).        *)
(***************************************************************************)
THEOREM GetIsGet ==
  ASSUME NEW t, SearchTree(t.node), NEW k \in Int
  PROVE  tree_get(t, k) = StoreGet(StoreOf(t), k)
<1> DEFINE n == t.node
           w == Walk(n, Root, k)
           S == StoreOf(t)
<1>1. Root \in Places(n) /\ Root \in Position /\ Nodes(n)
  BY RootIsTop DEF Places, SearchTree
<1>2. w \in DOMAIN n => n[w].key = k
  BY <1>1, WalkEnds DEF WalkEnd
<1>3. /\ DOMAIN S = {n[q].key : q \in DOMAIN n}
      /\ \A q \in DOMAIN n : S[n[q].key] = n[q].value
  BY StoreValues
<1>4. ASSUME NEW q \in DOMAIN n, n[q].key = k
      PROVE  w = q
  <2>1. q \in Position
    BY <1>1 DEF Nodes
  <2> QED
    BY <1>1, <1>4, <2>1, RootIsTop, WalkFinds
<1>5. tree_get(t, k) = IF w \in DOMAIN n THEN n[w].value ELSE NULL
  BY DEF tree_get
<1> HIDE DEF n, w, S
<1>6. k \in DOMAIN S <=> w \in DOMAIN n
  BY <1>2, <1>3, <1>4
<1>7. w \in DOMAIN n => S[k] = n[w].value
  BY <1>2, <1>3
<1>8. tree_get(t, k) = StoreGet(S, k)
  BY <1>5, <1>6, <1>7 DEF StoreGet
<1> QED
  BY <1>8 DEF S

(***************************************************************************)
(* Hanging the entry for k where the walk for k ends.                      *)
(***************************************************************************)
Hang(n, p, e) == [q \in DOMAIN n \cup {p} |-> IF q = p THEN e ELSE n[q]]

LEMMA HangKeepsSearchTree ==
  ASSUME NEW n, SearchTree(n), NEW k \in Int, NEW v
  PROVE  SearchTree(Hang(n, Walk(n, Root, k), Entry(k, v)))
<1> DEFINE p == Walk(n, Root, k)
           h == Hang(n, p, Entry(k, v))
<1>1. Nodes(n) /\ Root \in Position /\ Root \in Places(n)
  BY RootIsTop DEF SearchTree, Places
<1>2. /\ p \in Places(n) /\ p \in Position
      /\ Guided(n, Root, k, p) /\ (p \in DOMAIN n => n[p].key = k)
  BY <1>1, WalkEnds DEF WalkEnd
<1> HIDE DEF p
<1>3. /\ DOMAIN h = DOMAIN n \cup {p}
      /\ h[p].key = k
      /\ \A q \in DOMAIN n : h[q].key = n[q].key
  BY <1>2 DEF Hang, Entry
<1> HIDE DEF h
<1>4. Nodes(h)
  <2>1. IsFiniteSet(DOMAIN h)
    BY <1>1, <1>3, FS_AddElement DEF Nodes
  <2>2. p # Root => Front(p) \in DOMAIN n
    BY <1>1, <1>2, FrontOfChild DEF Places, Nodes, RootedNodes
  <2>3. RootedNodes(h)
    BY <1>1, <1>3, <2>2 DEF RootedNodes, Nodes
  <2> QED
    BY <1>1, <1>2, <1>3, <2>1, <2>3 DEF Nodes
<1>5. ASSUME NEW a \in DOMAIN n, NEW b \in DOMAIN n
      PROVE  Side(h, a, b)
  BY <1>3 DEF Side, SearchTree
<1>6. ASSUME NEW a \in DOMAIN n, p \notin DOMAIN n
      PROVE  Side(h, a, p)
  <2>1. a \in Position /\ n[a].key \in Int /\ a # p
    BY <1>1, <1>6 DEF Nodes
  <2>2. IsPrefix(a, p) =>
          /\ n[a].key # k
          /\ IF k < n[a].key THEN IsPrefix(LeftOf(a), p) ELSE IsPrefix(RightOf(a), p)
    BY <1>2, <2>1, RootIsTop DEF Guided
  <2> QED
    BY <1>2, <1>3, <2>1, <2>2, ChildOrder DEF Side
<1>7. ASSUME NEW b \in DOMAIN h, p \notin DOMAIN n
      PROVE  Side(h, p, b)
  <2>1. b \in Position
    BY <1>4 DEF Nodes
  <2>2. b # p => ~IsPrefix(p, b)
    BY <1>1, <1>2, <1>3, <1>7, AboveNode
  <2> QED
    BY <1>2, <2>1, <2>2, ChildOrder DEF Side
<1>8. \A a, b \in DOMAIN h : Side(h, a, b)
  BY <1>3, <1>5, <1>6, <1>7
<1>9. SearchTree(h)
  BY <1>4, <1>8 DEF SearchTree
<1> QED
  BY <1>9 DEF h, p

(***************************************************************************)
(* tree_put puts a key into the map (tree_put in source/tree.c), and the   *)
(* tree stays a search tree.                                               *)
(***************************************************************************)
LEMMA PutHangs ==
  ASSUME NEW t, NEW k, NEW v
  PROVE  tree_put(t, k, v).node = Hang(t.node, Walk(t.node, Root, k), Entry(k, v))
  BY DEF tree_put, Hang

THEOREM PutIsPut ==
  ASSUME NEW t, SearchTree(t.node), NEW k \in Int, NEW v
  PROVE  /\ SearchTree(tree_put(t, k, v).node)
         /\ StoreOf(tree_put(t, k, v)) = StorePut(StoreOf(t), k, v)
<1> DEFINE n == t.node
           u == tree_put(t, k, v)
           h == u.node
           p == Walk(n, Root, k)
           S == StoreOf(t)
           P == StoreOf(u)
<1>1. SearchTree(h)
  BY PutHangs, HangKeepsSearchTree
<1>2. p \in DOMAIN n => n[p].key = k
  BY RootIsTop, WalkEnds DEF Places, SearchTree, WalkEnd
<1>3. /\ DOMAIN h = DOMAIN n \cup {p}
      /\ h[p].key = k /\ h[p].value = v
      /\ \A q \in DOMAIN n : q # p => h[q] = n[q]
  <2>1. h = Hang(n, p, Entry(k, v))
    BY PutHangs
  <2> HIDE DEF n, h, p
  <2> QED
    BY <2>1 DEF Hang, Entry
<1>4. /\ DOMAIN S = {n[q].key : q \in DOMAIN n}
      /\ \A q \in DOMAIN n : S[n[q].key] = n[q].value
  BY StoreValues
<1>5. /\ DOMAIN P = {h[q].key : q \in DOMAIN h}
      /\ \A q \in DOMAIN h : P[h[q].key] = h[q].value
      /\ P = [x \in DOMAIN P |-> P[x]]
  BY <1>1, StoreValues
<1> HIDE DEF n, u, h, p, S, P
<1>6. DOMAIN P = DOMAIN S \cup {k}
  BY <1>2, <1>3, <1>4, <1>5
<1>7. ASSUME NEW x \in DOMAIN P
      PROVE  P[x] = IF x = k THEN v ELSE S[x]
  <2>1. PICK q \in DOMAIN h : h[q].key = x
    BY <1>5
  <2>2. CASE x = k
    BY <1>3, <1>5, <2>2
  <2>3. CASE x # k
    BY <1>3, <1>4, <1>5, <2>1, <2>3
  <2> QED
    BY <2>2, <2>3
<1>8. P = StorePut(S, k, v)
  BY <1>5, <1>6, <1>7 DEF StorePut
<1> QED
  BY <1>1, <1>8 DEF n, u, h, S, P
-----------------------------------------------------------------------------
(***************************************************************************)
(* A position below a, moved to the same place below b.                    *)
(***************************************************************************)
Graft(a, b, q) == b \o SubSeq(q, Len(a) + 1, Len(q))

LEMMA GraftTurns ==
  ASSUME NEW a \in Position, NEW b \in Position, NEW q \in Position, IsPrefix(a, q)
  PROVE  /\ Graft(a, b, q) \in Position
         /\ Len(Graft(a, b, q)) = Len(b) + Len(q) - Len(a)
         /\ \A j \in 1 .. Len(b) : Graft(a, b, q)[j] = b[j]
         /\ \A j \in Len(b) + 1 .. Len(b) + Len(q) - Len(a) :
              Graft(a, b, q)[j] = q[j - Len(b) + Len(a)]
         /\ IsPrefix(b, Graft(a, b, q))
<1> DEFINE tail == SubSeq(q, Len(a) + 1, Len(q))
<1>1. /\ Len(a) \in Nat /\ Len(b) \in Nat /\ Len(q) \in Nat /\ Len(a) <= Len(q)
      /\ \A j \in 1 .. Len(q) : q[j] \in Turn
  BY PrefixTurns, LenProperties, ElementOfSeq DEF Position
<1>2. /\ tail \in Position
      /\ Len(tail) = Len(q) - Len(a)
      /\ \A j \in 1 .. Len(q) - Len(a) : tail[j] = q[Len(a) + j]
  <2>1. \A j \in Len(a) + 1 .. Len(q) : q[j] \in Turn
    BY <1>1
  <2>2. /\ tail \in Seq(Turn)
        /\ Len(tail) = IF Len(a) + 1 <= Len(q) THEN Len(q) - (Len(a) + 1) + 1 ELSE 0
        /\ \A j \in 1 .. Len(q) - (Len(a) + 1) + 1 : tail[j] = q[Len(a) + 1 + j - 1]
    BY <1>1, <2>1, SubSeqProperties
  <2> HIDE DEF tail
  <2> QED
    BY <1>1, <2>2 DEF Position
<1> DEFINE g == Graft(a, b, q)
<1> HIDE DEF tail
<1>3. /\ g \in Position
      /\ Len(g) = Len(b) + Len(tail)
      /\ \A j \in 1 .. Len(b) + Len(tail) :
           g[j] = IF j <= Len(b) THEN b[j] ELSE tail[j - Len(b)]
  <2>1. g = b \o tail
    BY DEF Graft, tail
  <2> QED
    BY <1>2, <2>1, ConcatProperties DEF Position
<1> HIDE DEF g
<1>4. Len(g) = Len(b) + Len(q) - Len(a)
  BY <1>1, <1>2, <1>3
<1>5. \A j \in 1 .. Len(b) : g[j] = b[j]
  BY <1>1, <1>2, <1>3
<1>6. \A j \in Len(b) + 1 .. Len(b) + Len(q) - Len(a) : g[j] = q[j - Len(b) + Len(a)]
  <2> TAKE j \in Len(b) + 1 .. Len(b) + Len(q) - Len(a)
  <2>1. g[j] = tail[j - Len(b)]
    BY <1>1, <1>2, <1>3
  <2>2. /\ j - Len(b) \in 1 .. Len(q) - Len(a)
        /\ Len(a) + (j - Len(b)) = j - Len(b) + Len(a)
    BY <1>1
  <2> QED
    BY <1>2, <2>1, <2>2
<1>7. IsPrefix(b, g)
  BY <1>1, <1>3, <1>4, <1>5, PrefixTurns
<1> QED
  BY <1>3, <1>4, <1>5, <1>6, <1>7 DEF g

LEMMA GraftBack ==
  ASSUME NEW a \in Position, NEW b \in Position, NEW q \in Position, IsPrefix(a, q)
  PROVE  Graft(b, a, Graft(a, b, q)) = q
<1> DEFINE g == Graft(a, b, q)
           h == Graft(b, a, g)
<1>1. /\ Len(a) \in Nat /\ Len(b) \in Nat /\ Len(q) \in Nat /\ Len(a) <= Len(q)
      /\ \A j \in 1 .. Len(a) : a[j] = q[j]
  BY PrefixTurns, LenProperties DEF Position
<1>2. /\ g \in Position /\ Len(g) = Len(b) + Len(q) - Len(a) /\ IsPrefix(b, g)
      /\ \A j \in Len(b) + 1 .. Len(b) + Len(q) - Len(a) : g[j] = q[j - Len(b) + Len(a)]
  BY GraftTurns
<1> HIDE DEF g
<1>3. /\ h \in Position /\ Len(h) = Len(a) + Len(g) - Len(b)
      /\ \A j \in 1 .. Len(a) : h[j] = a[j]
      /\ \A j \in Len(a) + 1 .. Len(a) + Len(g) - Len(b) : h[j] = g[j - Len(a) + Len(b)]
  BY <1>2, GraftTurns, ZenonT(30)
<1> HIDE DEF h
<1>4. Len(h) = Len(q)
  BY <1>1, <1>2, <1>3
<1>5. ASSUME NEW j \in 1 .. Len(q)
      PROVE  h[j] = q[j]
  <2>1. CASE j <= Len(a)
    BY <1>1, <1>3, <2>1
  <2>2. CASE j > Len(a)
    <3> DEFINE m == j - Len(a) + Len(b)
    <3>1. /\ j \in Len(a) + 1 .. Len(a) + Len(g) - Len(b)
          /\ m \in Len(b) + 1 .. Len(b) + Len(q) - Len(a)
          /\ m - Len(b) + Len(a) = j
      BY <1>1, <1>2, <2>2
    <3> QED
      BY <1>2, <1>3, <3>1
  <2> QED
    BY <1>1, <2>1, <2>2
<1>6. h = q
  BY <1>3, <1>4, <1>5, SamePosition
<1> QED
  BY <1>6 DEF g, h

LEMMA GraftKeepsOrder ==
  ASSUME NEW a \in Position, NEW b \in Position, NEW q \in Position, NEW r \in Position,
         IsPrefix(a, q), IsPrefix(q, r)
  PROVE  IsPrefix(Graft(a, b, q), Graft(a, b, r))
<1> DEFINE g == Graft(a, b, q)
           h == Graft(a, b, r)
<1>1. /\ Len(a) \in Nat /\ Len(b) \in Nat /\ Len(q) \in Nat /\ Len(r) \in Nat
      /\ Len(a) <= Len(q) /\ Len(q) <= Len(r)
      /\ \A j \in 1 .. Len(q) : q[j] = r[j]
      /\ IsPrefix(a, r)
  BY PrefixTurns, PrefixOrder, LenProperties DEF Position
<1>2. /\ g \in Position /\ Len(g) = Len(b) + Len(q) - Len(a)
      /\ \A j \in 1 .. Len(b) : g[j] = b[j]
      /\ \A j \in Len(b) + 1 .. Len(b) + Len(q) - Len(a) : g[j] = q[j - Len(b) + Len(a)]
  BY GraftTurns, ZenonT(30)
<1>3. /\ h \in Position /\ Len(h) = Len(b) + Len(r) - Len(a)
      /\ \A j \in 1 .. Len(b) : h[j] = b[j]
      /\ \A j \in Len(b) + 1 .. Len(b) + Len(r) - Len(a) : h[j] = r[j - Len(b) + Len(a)]
  BY <1>1, GraftTurns, ZenonT(30)
<1> HIDE DEF g, h
<1>4. Len(g) <= Len(h)
  BY <1>1, <1>2, <1>3
<1>5. ASSUME NEW j \in 1 .. Len(g)
      PROVE  g[j] = h[j]
  <2>1. CASE j <= Len(b)
    BY <1>1, <1>2, <1>3, <2>1
  <2>2. CASE j > Len(b)
    <3>1. /\ j \in Len(b) + 1 .. Len(b) + Len(q) - Len(a)
          /\ j \in Len(b) + 1 .. Len(b) + Len(r) - Len(a)
          /\ j - Len(b) + Len(a) \in 1 .. Len(q)
      BY <1>1, <1>2, <2>2
    <3> QED
      BY <1>1, <1>2, <1>3, <3>1
  <2> QED
    BY <1>1, <2>1, <2>2
<1>6. IsPrefix(g, h)
  BY <1>2, <1>3, <1>4, <1>5, PrefixTurns
<1> QED
  BY <1>6 DEF g, h

LEMMA GraftOfChild ==
  ASSUME NEW a \in Position, NEW b \in Position, NEW q \in Position, IsPrefix(a, q)
  PROVE  /\ Graft(a, b, a) = b
         /\ Graft(a, b, LeftOf(q)) = LeftOf(Graft(a, b, q))
         /\ Graft(a, b, RightOf(q)) = RightOf(Graft(a, b, q))
<1>1. /\ Len(a) \in Nat /\ Len(b) \in Nat /\ Len(q) \in Nat /\ Len(a) <= Len(q)
  BY PrefixTurns, LenProperties DEF Position
<1>2. Graft(a, b, a) = b
  <2> DEFINE g == Graft(a, b, a)
  <2>1. IsPrefix(a, a)
    BY PrefixOrder
  <2>2. /\ g \in Position /\ Len(g) = Len(b) + Len(a) - Len(a)
        /\ \A j \in 1 .. Len(b) : g[j] = b[j]
    BY <2>1, GraftTurns
  <2> HIDE DEF g
  <2>3. g = b
    BY <1>1, <2>2, SamePosition
  <2> QED
    BY <2>3 DEF g
<1>3. ASSUME NEW d \in Position, NEW x, Len(d) = Len(q) + 1, IsPrefix(q, d),
             \A j \in 1 .. Len(q) : d[j] = q[j], d[Len(q) + 1] = x,
             NEW e \in Position, Len(e) = Len(Graft(a, b, q)) + 1,
             \A j \in 1 .. Len(Graft(a, b, q)) : e[j] = Graft(a, b, q)[j],
             e[Len(Graft(a, b, q)) + 1] = x
      PROVE  Graft(a, b, d) = e
  <2> DEFINE g == Graft(a, b, q)
             h == Graft(a, b, d)
  <2>1. /\ g \in Position /\ Len(g) = Len(b) + Len(q) - Len(a)
        /\ \A j \in 1 .. Len(b) : g[j] = b[j]
        /\ \A j \in Len(b) + 1 .. Len(b) + Len(q) - Len(a) :
             g[j] = q[j - Len(b) + Len(a)]
    BY GraftTurns, ZenonT(30)
  <2>2. IsPrefix(a, d)
    BY <1>3, PrefixOrder
  <2>3. /\ h \in Position /\ Len(h) = Len(b) + Len(d) - Len(a)
        /\ \A j \in 1 .. Len(b) : h[j] = b[j]
        /\ \A j \in Len(b) + 1 .. Len(b) + Len(d) - Len(a) :
             h[j] = d[j - Len(b) + Len(a)]
    BY <2>2, GraftTurns, ZenonT(30)
  <2>4. /\ Len(e) = Len(g) + 1 /\ \A j \in 1 .. Len(g) : e[j] = g[j]
        /\ e[Len(g) + 1] = x
    BY <1>3
  <2> HIDE DEF g, h
  <2>5. Len(h) = Len(e)
    <3>1. Len(d) = Len(q) + 1
      BY <1>3
    <3> QED
      BY <1>1, <2>1, <2>3, <2>4, <3>1
  <2>6. ASSUME NEW j \in 1 .. Len(e)
        PROVE  h[j] = e[j]
    <3>1. CASE j <= Len(b)
      BY <1>1, <2>1, <2>3, <2>4, <3>1
    <3>2. CASE j > Len(b) /\ j <= Len(g)
      <4>1. /\ j \in Len(b) + 1 .. Len(b) + Len(q) - Len(a)
            /\ j \in Len(b) + 1 .. Len(b) + Len(d) - Len(a)
            /\ j - Len(b) + Len(a) \in 1 .. Len(q)
            /\ j \in 1 .. Len(g)
        BY <1>1, <1>3, <2>1, <3>2
      <4> QED
        BY <1>3, <2>1, <2>3, <2>4, <4>1
    <3>3. CASE j = Len(g) + 1
      <4>1. /\ j \in Len(b) + 1 .. Len(b) + Len(d) - Len(a)
            /\ j - Len(b) + Len(a) = Len(q) + 1
        BY <1>1, <1>3, <2>1, <3>3
      <4> QED
        BY <1>3, <2>3, <2>4, <3>3, <4>1
    <3> QED
      BY <1>1, <2>1, <2>4, <3>1, <3>2, <3>3
  <2>7. h = e
    BY <2>3, <2>5, <2>6, SamePosition
  <2> QED
    BY <2>7 DEF h
<1>4. Graft(a, b, q) \in Position
  BY GraftTurns
<1> DEFINE g == Graft(a, b, q)
<1>5. Graft(a, b, LeftOf(q)) = LeftOf(g)
  <2>1. /\ LeftOf(q) \in Position /\ Len(LeftOf(q)) = Len(q) + 1
        /\ \A j \in 1 .. Len(q) : LeftOf(q)[j] = q[j]
        /\ LeftOf(q)[Len(q) + 1] = "L"
        /\ IsPrefix(q, LeftOf(q))
    BY ChildTurns, ChildOrder
  <2>2. /\ LeftOf(g) \in Position /\ Len(LeftOf(g)) = Len(g) + 1
        /\ \A j \in 1 .. Len(g) : LeftOf(g)[j] = g[j]
        /\ LeftOf(g)[Len(g) + 1] = "L"
    BY <1>4, ChildTurns
  <2> QED
    BY <1>3, <2>1, <2>2
<1>6. Graft(a, b, RightOf(q)) = RightOf(g)
  <2>1. /\ RightOf(q) \in Position /\ Len(RightOf(q)) = Len(q) + 1
        /\ \A j \in 1 .. Len(q) : RightOf(q)[j] = q[j]
        /\ RightOf(q)[Len(q) + 1] = "R"
        /\ IsPrefix(q, RightOf(q))
    BY ChildTurns, ChildOrder
  <2>2. /\ RightOf(g) \in Position /\ Len(RightOf(g)) = Len(g) + 1
        /\ \A j \in 1 .. Len(g) : RightOf(g)[j] = g[j]
        /\ RightOf(g)[Len(g) + 1] = "R"
    BY <1>4, ChildTurns
  <2> QED
    BY <1>3, <2>1, <2>2
<1> QED
  BY <1>2, <1>5, <1>6
-----------------------------------------------------------------------------
(***************************************************************************)
(* Unlinking a node that has at most one child: the nodes below the child  *)
(* move up to the place of the node, the others stay.                      *)
(***************************************************************************)
Child(n, p) == IF LeftOf(p) \in DOMAIN n THEN LeftOf(p) ELSE RightOf(p)

Moved(n, p, q) == IF IsPrefix(Child(n, p), q) THEN Graft(Child(n, p), p, q) ELSE q

OneChild(n, p) == ~(LeftOf(p) \in DOMAIN n /\ RightOf(p) \in DOMAIN n)

LEMMA Remaining ==
  ASSUME NEW n, Nodes(n), NEW p \in DOMAIN n, OneChild(n, p),
         NEW q \in DOMAIN n \ {p}
  PROVE  /\ p \in Position /\ q \in Position /\ Child(n, p) \in Position
         /\ IsPrefix(p, q) <=> IsPrefix(Child(n, p), q)
         /\ ~IsPrefix(Child(n, p), p) /\ IsPrefix(p, Child(n, p))
<1>1. p \in Position /\ q \in Position
  BY DEF Nodes
<1>2. /\ Child(n, p) \in Position
      /\ IsPrefix(Child(n, p), q) => IsPrefix(p, q)
      /\ ~IsPrefix(Child(n, p), p) /\ IsPrefix(p, Child(n, p))
  BY <1>1, ChildTurns, ChildOrder DEF Child
<1>3. ASSUME IsPrefix(p, q)
      PROVE  IsPrefix(Child(n, p), q)
  <2>1. LeftOf(p) \in Position /\ RightOf(p) \in Position
    BY <1>1, ChildTurns
  <2>2. IsPrefix(LeftOf(p), q) \/ IsPrefix(RightOf(p), q)
    BY <1>1, <1>3, ChildOrder
  <2>3. /\ IsPrefix(LeftOf(p), q) => LeftOf(p) \in DOMAIN n
        /\ IsPrefix(RightOf(p), q) => RightOf(p) \in DOMAIN n
    BY <2>1, AboveNode
  <2> QED
    BY <2>2, <2>3 DEF OneChild, Child
<1> QED
  BY <1>1, <1>2, <1>3

LEMMA UnlinkIs ==
  ASSUME NEW n, Nodes(n), NEW p \in DOMAIN n, OneChild(n, p)
  PROVE  /\ DOMAIN Unlink(n, p) = {Moved(n, p, q) : q \in DOMAIN n \ {p}}
         /\ \A q \in DOMAIN n \ {p} :
              /\ Moved(n, p, q) \in Position /\ Len(Moved(n, p, q)) <= Len(q)
              /\ Unlink(n, p)[Moved(n, p, q)] = n[q]
<1> DEFINE c == Child(n, p)
           above == {q \in DOMAIN n : ~IsPrefix(p, q)}
           below == {q \in DOMAIN n : IsPrefix(c, q)}
<1>1. Unlink(n, p) = [q \in above \cup {Graft(c, p, r) : r \in below} |->
                        IF q \in above THEN n[q] ELSE n[Graft(p, c, q)]]
  BY DEF Unlink, Graft, Child
<1>2. p \in Position /\ c \in Position /\ DOMAIN n \subseteq Position
      /\ IsPrefix(p, p) /\ ~IsPrefix(c, p)
  BY ChildTurns, ChildOrder, PrefixOrder DEF Nodes, Child
<1>3. \A q \in DOMAIN n \ {p} : q \in above <=> q \notin below
  BY Remaining
<1>4. above \subseteq DOMAIN n \ {p} /\ below \subseteq DOMAIN n \ {p}
  BY <1>2
<1>5. \A q \in DOMAIN n \ {p} :
        Moved(n, p, q) = IF q \in below THEN Graft(c, p, q) ELSE q
  BY DEF Moved
<1>6. \A q \in below : /\ Graft(c, p, q) \in Position
                       /\ Graft(c, p, q) \notin above
                       /\ Graft(p, c, Graft(c, p, q)) = q
                       /\ Len(Graft(c, p, q)) <= Len(q)
  <2> SUFFICES ASSUME NEW q \in below
               PROVE  /\ Graft(c, p, q) \in Position
                      /\ Graft(c, p, q) \notin above
                      /\ Graft(p, c, Graft(c, p, q)) = q
                      /\ Len(Graft(c, p, q)) <= Len(q)
    OBVIOUS
  <2>1. Len(c) = Len(p) + 1 /\ Len(p) \in Nat /\ Len(q) \in Nat
    BY <1>2, ChildTurns, LenProperties DEF Child, Position
  <2>2. Len(Graft(c, p, q)) = Len(p) + Len(q) - Len(c)
    BY <1>2, GraftTurns
  <2> QED
    BY <1>2, <2>1, <2>2, GraftTurns, GraftBack
<1> HIDE DEF c, above, below
<1>7. DOMAIN Unlink(n, p) = {Moved(n, p, q) : q \in DOMAIN n \ {p}}
  <2>1. DOMAIN Unlink(n, p) = above \cup {Graft(c, p, r) : r \in below}
    BY <1>1
  <2>2. ASSUME NEW x \in above \cup {Graft(c, p, r) : r \in below}
        PROVE  x \in {Moved(n, p, q) : q \in DOMAIN n \ {p}}
    BY <1>3, <1>4, <1>5
  <2>3. ASSUME NEW q \in DOMAIN n \ {p}
        PROVE  Moved(n, p, q) \in above \cup {Graft(c, p, r) : r \in below}
    BY <1>3, <1>5
  <2> QED
    BY <2>1, <2>2, <2>3
<1>8. ASSUME NEW q \in DOMAIN n \ {p}
      PROVE  /\ Moved(n, p, q) \in Position /\ Len(Moved(n, p, q)) <= Len(q)
             /\ Unlink(n, p)[Moved(n, p, q)] = n[q]
  <2>1. Len(q) \in Nat
    BY <1>2, LenProperties DEF Position
  <2> QED
    BY <1>1, <1>2, <1>3, <1>5, <1>6, <2>1
<1> QED
  BY <1>7, <1>8

(***************************************************************************)
(* Moving keeps what is above what, and on which side.                     *)
(***************************************************************************)
LEMMA MovedOrder ==
  ASSUME NEW n, Nodes(n), NEW p \in DOMAIN n, OneChild(n, p),
         NEW q \in DOMAIN n \ {p}, NEW r \in DOMAIN n \ {p}
  PROVE  /\ Moved(n, p, q) = Moved(n, p, r) => q = r
         /\ IsPrefix(LeftOf(Moved(n, p, q)), Moved(n, p, r)) => IsPrefix(LeftOf(q), r)
         /\ IsPrefix(RightOf(Moved(n, p, q)), Moved(n, p, r)) => IsPrefix(RightOf(q), r)
<1> DEFINE c == Child(n, p)
           up(s) == Graft(c, p, s)
<1>1. /\ p \in Position /\ c \in Position /\ q \in Position /\ r \in Position
      /\ IsPrefix(p, q) <=> IsPrefix(c, q)
      /\ IsPrefix(p, r) <=> IsPrefix(c, r)
      /\ ~IsPrefix(c, p) /\ IsPrefix(p, c)
  BY Remaining
<1>2. /\ IsPrefix(c, q) => /\ Moved(n, p, q) = up(q) /\ up(q) \in Position
                           /\ IsPrefix(p, up(q)) /\ Graft(p, c, up(q)) = q
      /\ IsPrefix(c, r) => /\ Moved(n, p, r) = up(r) /\ up(r) \in Position
                           /\ IsPrefix(p, up(r)) /\ Graft(p, c, up(r)) = r
      /\ ~IsPrefix(c, q) => Moved(n, p, q) = q
      /\ ~IsPrefix(c, r) => Moved(n, p, r) = r
  BY <1>1, GraftTurns, GraftBack DEF Moved
<1> HIDE DEF c, up
<1>3. LeftOf(q) \in Position /\ RightOf(q) \in Position
  BY <1>1, ChildTurns
<1>4. CASE IsPrefix(c, q) /\ IsPrefix(c, r)
  <2>1. /\ LeftOf(up(q)) \in Position /\ RightOf(up(q)) \in Position
        /\ IsPrefix(p, LeftOf(up(q))) /\ IsPrefix(p, RightOf(up(q)))
        /\ Graft(p, c, LeftOf(up(q))) = LeftOf(q)
        /\ Graft(p, c, RightOf(up(q))) = RightOf(q)
    BY <1>1, <1>2, <1>4, ChildTurns, ChildOrder, PrefixOrder, GraftOfChild
  <2>2. /\ IsPrefix(LeftOf(up(q)), up(r)) => IsPrefix(LeftOf(q), r)
        /\ IsPrefix(RightOf(up(q)), up(r)) => IsPrefix(RightOf(q), r)
    BY <1>1, <1>2, <1>4, <2>1, GraftKeepsOrder
  <2> QED
    BY <1>2, <1>4, <2>2
<1>5. CASE ~IsPrefix(c, q) /\ ~IsPrefix(c, r)
  BY <1>2, <1>5
<1>6. CASE IsPrefix(c, q) /\ ~IsPrefix(c, r)
  <2>1. ~IsPrefix(p, r) /\ IsPrefix(p, up(q)) /\ up(q) \in Position
    BY <1>1, <1>2, <1>6
  <2>2. ~IsPrefix(LeftOf(up(q)), r) /\ ~IsPrefix(RightOf(up(q)), r)
    BY <1>1, <2>1, ChildOrder, PrefixOrder
  <2> QED
    BY <1>2, <1>6, <2>1, <2>2
<1>7. CASE ~IsPrefix(c, q) /\ IsPrefix(c, r)
  <2>1. ~IsPrefix(p, q) /\ IsPrefix(p, up(r)) /\ up(r) \in Position
    BY <1>1, <1>2, <1>7
  <2>2. ASSUME NEW d \in Position, d = LeftOf(q) \/ d = RightOf(q),
               IsPrefix(d, up(r))
        PROVE  IsPrefix(d, r)
    <3>1. IsPrefix(d, p) \/ IsPrefix(p, d)
      BY <1>1, <2>1, <2>2, PrefixOrder
    <3>2. CASE IsPrefix(d, p)
      BY <1>1, <1>7, <2>2, <3>2, PrefixOrder
    <3>3. CASE IsPrefix(p, d)
      <4>1. p = d
        BY <1>1, <2>1, <2>2, <3>3, ChildOfFront, FrontOfChild
      <4> QED
        BY <1>1, <1>7, <2>2, <4>1
    <3> QED
      BY <3>1, <3>2, <3>3
  <2> QED
    BY <1>2, <1>3, <1>7, <2>1, <2>2
<1> QED
  BY <1>4, <1>5, <1>6, <1>7

LEMMA UnlinkKeepsNodes ==
  ASSUME NEW n, Nodes(n), NEW p \in DOMAIN n, OneChild(n, p)
  PROVE  /\ Nodes(Unlink(n, p))
         /\ Cardinality(DOMAIN Unlink(n, p)) = Cardinality(DOMAIN n) - 1
<1> DEFINE u == Unlink(n, p)
           D == DOMAIN n \ {p}
           c == Child(n, p)
           mv(q) == Moved(n, p, q)
<1>1. /\ DOMAIN u = {mv(q) : q \in D}
      /\ \A q \in D : mv(q) \in Position /\ u[mv(q)] = n[q]
  BY UnlinkIs
<1>2. \A q, r \in D : mv(q) = mv(r) => q = r
  BY MovedOrder
<1>3. p \in Position /\ c \in Position /\ D \subseteq Position
  BY ChildTurns DEF Nodes, Child
<1>4. \A q \in D : /\ IsPrefix(p, q) <=> IsPrefix(c, q)
                   /\ mv(q) = IF IsPrefix(c, q) THEN Graft(c, p, q) ELSE q
  BY Remaining DEF Moved
<1>5. ~IsPrefix(c, p) /\ IsPrefix(p, p) /\ IsPrefix(p, c)
  BY <1>3, ChildOrder, PrefixOrder DEF Child
<1>6. c = LeftOf(p) \/ c = RightOf(p)
  BY DEF Child
<1> HIDE DEF u, mv, c
<1>7. IsFiniteSet(DOMAIN u) /\ Cardinality(DOMAIN u) = Cardinality(DOMAIN n) - 1
  <2> DEFINE f == [q \in D |-> mv(q)]
  <2>1. f \in Bijection(D, DOMAIN u)
    <3>1. f \in [D -> DOMAIN u]
      BY <1>1
    <3>2. \A q, r \in D : f[q] = f[r] => q = r
      BY <1>2
    <3>3. \A x \in DOMAIN u : \E q \in D : f[q] = x
      BY <1>1
    <3> HIDE DEF f
    <3> QED
      BY <3>1, <3>2, <3>3 DEF Bijection, Injection, Surjection, IsInjective
  <2>2. ExistsBijection(D, DOMAIN u)
    BY <2>1 DEF ExistsBijection
  <2>3. IsFiniteSet(D) /\ Cardinality(D) = Cardinality(DOMAIN n) - 1
    BY FS_RemoveElement DEF Nodes
  <2> QED
    BY <2>2, <2>3, FS_Bijection
<1>8. ASSUME NEW q \in D, mv(q) # Root
      PROVE  Front(mv(q)) \in DOMAIN u
  <2>1. CASE ~IsPrefix(c, q)
    <3>1. mv(q) = q /\ q \in Position /\ ~IsPrefix(p, q) /\ q # Root
      BY <1>3, <1>4, <1>8, <2>1
    <3>2. Front(q) \in DOMAIN n /\ Front(q) \in Position /\ IsPrefix(Front(q), q)
      BY <1>3, <3>1, ChildOfFront DEF Nodes, RootedNodes
    <3>3. ~IsPrefix(p, Front(q))
      BY <1>3, <3>1, <3>2, PrefixOrder
    <3>4. Front(q) \in D
      BY <1>5, <3>2, <3>3
    <3>5. mv(Front(q)) = Front(q)
      BY <1>4, <3>3, <3>4
    <3> QED
      BY <1>1, <3>1, <3>4, <3>5
  <2>2. CASE q = c
    <3>1. mv(q) = p
      BY <1>3, <1>4, <2>2, PrefixOrder, GraftOfChild
    <3>2. /\ Front(p) \in DOMAIN n /\ Front(p) \in Position
          /\ IsPrefix(Front(p), p) /\ Front(p) # p
      BY <1>3, <1>8, <3>1, ChildOfFront DEF Nodes, RootedNodes
    <3>3. ~IsPrefix(p, Front(p))
      BY <1>3, <3>2, PrefixOrder
    <3>4. Front(p) \in D
      BY <3>2
    <3>5. mv(Front(p)) = Front(p)
      BY <1>4, <3>3, <3>4
    <3> QED
      BY <1>1, <3>1, <3>4, <3>5
  <2>3. CASE IsPrefix(c, q) /\ q # c
    <3> DEFINE a == Front(q)
    <3>1. q \in Position /\ q # Root
      BY <1>3, <2>3, RootIsTop
    <3>2. /\ a \in Position /\ a \in DOMAIN n /\ IsPrefix(c, a)
          /\ q = LeftOf(a) \/ q = RightOf(a)
      BY <1>3, <2>3, <3>1, ChildOfFront DEF Nodes, RootedNodes
    <3> HIDE DEF a
    <3>3. a \in D
      BY <1>5, <3>2
    <3>4. mv(a) = Graft(c, p, a) /\ mv(q) = Graft(c, p, q) /\ mv(a) \in Position
      BY <1>1, <1>4, <2>3, <3>2, <3>3
    <3>5. mv(q) = LeftOf(mv(a)) \/ mv(q) = RightOf(mv(a))
      BY <1>3, <3>2, <3>4, GraftOfChild
    <3>6. Front(mv(q)) = mv(a)
      BY <3>4, <3>5, FrontOfChild
    <3> QED
      BY <1>1, <3>3, <3>6
  <2> QED
    BY <2>1, <2>2, <2>3
<1>9. Nodes(u)
  <2>1. DOMAIN u \subseteq Position /\ \A x \in DOMAIN u : u[x].key \in Int
    BY <1>1 DEF Nodes
  <2>2. RootedNodes(u)
    BY <1>1, <1>8 DEF RootedNodes
  <2> QED
    BY <1>7, <2>1, <2>2 DEF Nodes
<1> QED
  BY <1>7, <1>9 DEF u

LEMMA UnlinkKeepsSearchTree ==
  ASSUME NEW n, Nodes(n), NEW p \in DOMAIN n, OneChild(n, p),
         \A q, r \in DOMAIN n \ {p} : Side(n, q, r)
  PROVE  SearchTree(Unlink(n, p))
<1> DEFINE u == Unlink(n, p)
           D == DOMAIN n \ {p}
           mv(q) == Moved(n, p, q)
<1>0. /\ DOMAIN u = {mv(q) : q \in D}
      /\ \A q \in D : u[mv(q)] = n[q]
  BY UnlinkIs
<1>1. Nodes(u)
  BY UnlinkKeepsNodes
<1>2. ASSUME NEW x \in DOMAIN u, NEW y \in DOMAIN u
      PROVE  Side(u, x, y)
  <2>1. PICK q \in D : x = mv(q) /\ u[x] = n[q]
    <3> HIDE DEF u, mv, D
    <3> QED
      BY <1>0
  <2>2. PICK r \in D : y = mv(r) /\ u[y] = n[r]
    <3> HIDE DEF u, mv, D
    <3> QED
      BY <1>0
  <2>3. /\ IsPrefix(LeftOf(x), y) => IsPrefix(LeftOf(q), r)
        /\ IsPrefix(RightOf(x), y) => IsPrefix(RightOf(q), r)
    BY <2>1, <2>2, MovedOrder
  <2>4. Side(n, q, r)
    OBVIOUS
  <2> QED
    BY <2>1, <2>2, <2>3, <2>4 DEF Side
<1> QED
  BY <1>1, <1>2 DEF SearchTree
-----------------------------------------------------------------------------
(***************************************************************************)
(* The leftmost node below top.                                            *)
(***************************************************************************)
OnLeftEdge(top, p) ==
  /\ IsPrefix(top, p)
  /\ \A c \in Position :
       IsPrefix(top, c) /\ IsPrefix(c, p) /\ c # p => IsPrefix(LeftOf(c), p)

LEMMA LeftTurns ==
  ASSUME NEW top \in Position, NEW p \in Position
  PROVE  OnLeftEdge(top, p) <=>
           IsPrefix(top, p) /\ \A i \in Len(top) + 1 .. Len(p) : p[i] = "L"
<1>0. Len(top) \in Nat /\ Len(p) \in Nat
  BY LenProperties DEF Position
<1>1. ASSUME OnLeftEdge(top, p), NEW i \in Len(top) + 1 .. Len(p)
      PROVE  p[i] = "L"
  <2> DEFINE c == SubSeq(p, 1, i - 1)
  <2>1. i - 1 \in 0 .. Len(p) /\ i - 1 < Len(p) /\ Len(top) <= i - 1
    BY <1>0
  <2>2. /\ c \in Position /\ Len(c) = i - 1
        /\ \A u \in 1 .. i - 1 : c[u] = p[u]
    BY <2>1, CutTurns
  <2> HIDE DEF c
  <2>3. IsPrefix(c, p) /\ c # p /\ IsPrefix(top, c)
    BY <1>0, <1>1, <2>1, <2>2, PrefixTurns DEF OnLeftEdge
  <2>4. p[Len(c) + 1] = "L"
    BY <1>1, <2>2, <2>3, TurnBelow DEF OnLeftEdge
  <2>5. Len(c) + 1 = i
    BY <2>1, <2>2
  <2> QED
    BY <2>4, <2>5
<1>2. ASSUME \A i \in Len(top) + 1 .. Len(p) : p[i] = "L",
             NEW c \in Position, IsPrefix(top, c), IsPrefix(c, p), c # p
      PROVE  IsPrefix(LeftOf(c), p)
  <2>1. /\ Len(c) \in Nat /\ Len(c) < Len(p) /\ Len(top) <= Len(c)
        /\ p[Len(c) + 1] = "L" <=> IsPrefix(LeftOf(c), p)
    BY <1>2, TurnBelow, PrefixTurns
  <2>2. Len(c) + 1 \in Len(top) + 1 .. Len(p)
    BY <1>0, <2>1
  <2> QED
    BY <1>2, <2>1, <2>2
<1> QED
  BY <1>1, <1>2 DEF OnLeftEdge

(***************************************************************************)
(* It exists: a walk for a key below all others ends below it.             *)
(***************************************************************************)
LEMMA LeftEdgeEnds ==
  ASSUME NEW n, Nodes(n), NEW top \in DOMAIN n
  PROVE  \E p \in DOMAIN n : OnLeftEdge(top, p) /\ LeftOf(p) \notin DOMAIN n
<1> DEFINE ones == [q \in DOMAIN n |-> [key |-> 1]]
<1>1. /\ DOMAIN ones = DOMAIN n /\ top \in Position
      /\ \A q \in DOMAIN n : ones[q].key = 1
  BY DEF Nodes
<1> HIDE DEF ones
<1>2. Nodes(ones) /\ top \in Places(ones)
  BY <1>1 DEF Nodes, RootedNodes, Places
<1>3. PICK w \in Position : w \in Places(ones) /\ WalkEnd(ones, top, 0, w)
  BY <1>1, <1>2, EndExists
<1>4. /\ w \notin DOMAIN n /\ IsPrefix(top, w)
      /\ \A c \in Position : IsPrefix(top, c) /\ IsPrefix(c, w) /\ c # w =>
           c \in DOMAIN n /\ IsPrefix(LeftOf(c), w)
  BY <1>1, <1>3 DEF WalkEnd, Guided
<1> DEFINE p == Front(w)
<1>5. /\ w # Root /\ p \in Position /\ IsPrefix(p, w) /\ p # w
      /\ w = LeftOf(p) \/ w = RightOf(p)
      /\ \A c \in Position : IsPrefix(c, w) => c = w \/ IsPrefix(c, p)
  BY <1>1, <1>4, RootIsTop, ChildOfFront
<1> HIDE DEF p
<1>6. IsPrefix(top, p)
  BY <1>1, <1>4, <1>5
<1>7. p \in DOMAIN n /\ IsPrefix(LeftOf(p), w)
  BY <1>4, <1>5, <1>6
<1>8. w = LeftOf(p)
  BY <1>5, <1>7, ChildTurns, ChildOrder, PrefixOrder
<1>9. ASSUME NEW c \in Position, IsPrefix(top, c), IsPrefix(c, p), c # p
      PROVE  IsPrefix(LeftOf(c), p)
  <2>1. IsPrefix(c, w) /\ c # w
    BY <1>5, <1>9, PrefixOrder
  <2>2. IsPrefix(LeftOf(c), w) /\ LeftOf(c) \in Position
    BY <1>4, <1>9, <2>1, ChildTurns
  <2>3. LeftOf(c) # w
    BY <1>5, <1>8, <1>9, FrontOfChild
  <2> QED
    BY <1>5, <2>2, <2>3
<1> QED
  BY <1>4, <1>6, <1>7, <1>8, <1>9 DEF OnLeftEdge

LEMMA LeftmostIs ==
  ASSUME NEW n, Nodes(n), NEW top \in DOMAIN n
  PROVE  /\ Leftmost(n, top) \in DOMAIN n
         /\ OnLeftEdge(top, Leftmost(n, top))
         /\ LeftOf(Leftmost(n, top)) \notin DOMAIN n
<1> DEFINE m == Leftmost(n, top)
<1>1. top \in Position /\ DOMAIN n \subseteq Position
  BY DEF Nodes
<1>2. \E p \in DOMAIN n :
        /\ IsPrefix(top, p)
        /\ \A i \in Len(top) + 1 .. Len(p) : p[i] = "L"
        /\ LeftOf(p) \notin DOMAIN n
  BY <1>1, LeftEdgeEnds, LeftTurns
<1>3. /\ m \in DOMAIN n
      /\ IsPrefix(top, m)
      /\ \A i \in Len(top) + 1 .. Len(m) : m[i] = "L"
      /\ LeftOf(m) \notin DOMAIN n
  BY <1>2, Zenon DEF Leftmost
<1> HIDE DEF m
<1>4. OnLeftEdge(top, m)
  BY <1>1, <1>3, LeftTurns
<1> QED
  BY <1>3, <1>4 DEF m

(***************************************************************************)
(* In a search tree it holds the least key below top.                      *)
(***************************************************************************)
LEMMA LeftmostIsLeast ==
  ASSUME NEW n, SearchTree(n), NEW top \in DOMAIN n, NEW m \in DOMAIN n,
         OnLeftEdge(top, m), LeftOf(m) \notin DOMAIN n,
         NEW q \in DOMAIN n, IsPrefix(top, q), q # m
  PROVE  n[m].key < n[q].key
<1>1. /\ Nodes(n) /\ top \in Position /\ m \in Position /\ q \in Position
      /\ \A a \in DOMAIN n : n[a].key \in Int
      /\ \A a, b \in DOMAIN n : Side(n, a, b)
      /\ IsPrefix(top, m)
  BY DEF SearchTree, Nodes, OnLeftEdge
<1>2. CASE IsPrefix(m, q)
  <2>1. ~IsPrefix(LeftOf(m), q)
    BY <1>1, AboveNode, ChildTurns
  <2>2. IsPrefix(RightOf(m), q)
    BY <1>1, <1>2, <2>1, ChildOrder
  <2> QED
    BY <1>1, <2>2 DEF Side
<1>3. CASE IsPrefix(q, m)
  BY <1>1, <1>3 DEF OnLeftEdge, Side
<1>4. ASSUME NEW c \in Position, Apart(c, m, q)
      PROVE  n[m].key < n[q].key
  <2>1. c \in DOMAIN n
    BY <1>1, <1>4, AboveNode, ChildOrder DEF Apart
  <2>2. Side(n, c, m) /\ Side(n, c, q)
    BY <1>1, <2>1
  <2> QED
    BY <1>1, <1>4, <2>1, <2>2 DEF Side, Apart
<1>5. ASSUME NEW c \in Position, Apart(c, q, m)
      PROVE  FALSE
  <2>1. /\ IsPrefix(c, q) /\ IsPrefix(c, m) /\ c # m /\ ~IsPrefix(LeftOf(c), m)
        /\ ~IsPrefix(RightOf(c), q)
    BY <1>1, <1>5, ChildOrder DEF Apart
  <2>2. IsPrefix(top, c)
    <3>1. IsPrefix(top, c) \/ IsPrefix(c, top)
      BY <1>1, <2>1, PrefixOrder
    <3>2. ~IsPrefix(LeftOf(c), top) /\ ~IsPrefix(RightOf(c), top)
      BY <1>1, <2>1, ChildTurns, PrefixOrder
    <3> QED
      BY <1>1, <3>1, <3>2, ChildOrder, PrefixOrder
  <2> QED
    BY <2>1, <2>2 DEF OnLeftEdge
<1> QED
  BY <1>1, <1>2, <1>3, <1>4, <1>5, Parting
-----------------------------------------------------------------------------
(***************************************************************************)
(* Deleting the entry of the node p.  With two children, p takes over the  *)
(* entry of the least node m on its right, and the walk for that key,      *)
(* which is in the tree twice then, still ends at m.                       *)
(***************************************************************************)
LEMMA CopiedNodes ==
  ASSUME NEW n, Nodes(n), NEW p \in DOMAIN n, NEW m \in DOMAIN n
  PROVE  LET copied == [n EXCEPT ![p] = n[m]]
         IN  /\ Nodes(copied) /\ DOMAIN copied = DOMAIN n
             /\ copied[p] = n[m]
             /\ \A q \in DOMAIN n : q # p => copied[q] = n[q]
<1> DEFINE copied == [n EXCEPT ![p] = n[m]]
<1>1. /\ DOMAIN copied = DOMAIN n
      /\ copied[p] = n[m]
      /\ \A q \in DOMAIN n : q # p => copied[q] = n[q]
  OBVIOUS
<1> HIDE DEF copied
<1>2. Nodes(copied)
  BY <1>1 DEF Nodes, RootedNodes
<1>3. /\ Nodes(copied) /\ DOMAIN copied = DOMAIN n
      /\ copied[p] = n[m]
      /\ \A q \in DOMAIN n : q # p => copied[q] = n[q]
  BY <1>1, <1>2
<1> QED
  BY <1>3 DEF copied

LEMMA WalkToLeast ==
  ASSUME NEW n, SearchTree(n), NEW copied, Nodes(copied),
         DOMAIN copied = DOMAIN n,
         NEW top \in DOMAIN n, NEW m \in DOMAIN n,
         OnLeftEdge(top, m), LeftOf(m) \notin DOMAIN n,
         \A q \in DOMAIN n : IsPrefix(top, q) => copied[q] = n[q]
  PROVE  Walk(copied, top, n[m].key) = m
<1>1. /\ Nodes(n) /\ top \in Position /\ m \in Position
      /\ \A a \in DOMAIN n : n[a].key \in Int
      /\ IsPrefix(top, m)
  BY DEF SearchTree, Nodes, OnLeftEdge
<1>2. ASSUME NEW c \in Position, IsPrefix(top, c), IsPrefix(c, m), c # m
      PROVE  /\ c \in DOMAIN copied
             /\ copied[c].key # n[m].key
             /\ n[m].key < copied[c].key
             /\ IsPrefix(LeftOf(c), m)
  <2>1. c \in DOMAIN n
    BY <1>1, <1>2, AboveNode
  <2>2. n[m].key < n[c].key
    BY <1>2, <2>1, LeftmostIsLeast
  <2>3. copied[c] = n[c]
    BY <1>2, <2>1
  <2>4. IsPrefix(LeftOf(c), m)
    BY <1>2 DEF OnLeftEdge
  <2> QED
    BY <1>1, <2>1, <2>2, <2>3, <2>4
<1>3. copied[m].key = n[m].key
  BY <1>1
<1>4. WalkEnd(copied, top, n[m].key, m)
  BY <1>1, <1>2, <1>3 DEF WalkEnd, Guided
<1>5. top \in Places(copied)
  BY DEF Places
<1> QED
  BY <1>1, <1>4, <1>5, WalkEnds

LEMMA CopiedSides ==
  ASSUME NEW n, SearchTree(n), NEW p \in DOMAIN n, NEW copied,
         NEW m \in DOMAIN n, RightOf(p) \in DOMAIN n,
         OnLeftEdge(RightOf(p), m), LeftOf(m) \notin DOMAIN n,
         copied[p] = n[m], \A q \in DOMAIN n : q # p => copied[q] = n[q],
         NEW a \in DOMAIN n \ {m}, NEW b \in DOMAIN n \ {m}
  PROVE  Side(copied, a, b)
<1>1. /\ DOMAIN n \subseteq Position /\ p \in Position /\ m \in Position
      /\ a \in Position /\ b \in Position
      /\ \A q \in DOMAIN n : n[q].key \in Int
      /\ \A q, r \in DOMAIN n : Side(n, q, r)
      /\ IsPrefix(RightOf(p), m)
  BY DEF SearchTree, Nodes, OnLeftEdge
<1>2. CASE a # p /\ b # p
  BY <1>1, <1>2 DEF Side
<1>3. CASE a = p /\ b = p
  BY <1>1, <1>3, ChildOrder DEF Side
<1>4. CASE a = p /\ b # p
  <2>1. IsPrefix(LeftOf(p), b) => n[b].key < n[m].key
    BY <1>1 DEF Side
  <2>2. IsPrefix(RightOf(p), b) => n[m].key < n[b].key
    BY LeftmostIsLeast
  <2> QED
    BY <1>1, <1>4, <2>1, <2>2 DEF Side
<1>5. CASE a # p /\ b = p
  <2>1. IsPrefix(p, m)
    BY <1>1, ChildOrder
  <2>2. LeftOf(a) \in Position /\ RightOf(a) \in Position
    BY <1>1, ChildTurns
  <2>3. /\ IsPrefix(LeftOf(a), p) => IsPrefix(LeftOf(a), m)
        /\ IsPrefix(RightOf(a), p) => IsPrefix(RightOf(a), m)
    BY <1>1, <2>1, <2>2, PrefixOrder
  <2> QED
    BY <1>1, <1>5, <2>3 DEF Side
<1> QED
  BY <1>2, <1>3, <1>4, <1>5

(***************************************************************************)
(* tree_del_node takes exactly the entry of p out of the search tree, and  *)
(* no node ends up deeper than some node was.                              *)
(***************************************************************************)
LEMMA DelNode ==
  ASSUME NEW n, SearchTree(n), NEW p \in DOMAIN n
  PROVE  LET d == tree_del_node(n, p)
         IN  /\ SearchTree(d)
             /\ Cardinality(DOMAIN d) = Cardinality(DOMAIN n) - 1
             /\ \A x \in DOMAIN d : \E q \in DOMAIN n \ {p} : d[x] = n[q]
             /\ \A q \in DOMAIN n \ {p} : \E x \in DOMAIN d : d[x] = n[q]
             /\ \A x \in DOMAIN d : \E q \in DOMAIN n : Len(x) <= Len(q)
<1> DEFINE d == tree_del_node(n, p)
<1>1. Nodes(n) /\ p \in Position /\ \A a, b \in DOMAIN n : Side(n, a, b)
  BY DEF SearchTree, Nodes
<1>2. CASE OneChild(n, p)
  <2>1. d = Unlink(n, p)
    BY <1>2 DEF tree_del_node, OneChild
  <2> HIDE DEF d
  <2>2. SearchTree(d) /\ Cardinality(DOMAIN d) = Cardinality(DOMAIN n) - 1
    BY <1>1, <1>2, <2>1, UnlinkKeepsNodes, UnlinkKeepsSearchTree
  <2>3. /\ DOMAIN d = {Moved(n, p, q) : q \in DOMAIN n \ {p}}
        /\ \A q \in DOMAIN n \ {p} : d[Moved(n, p, q)] = n[q]
        /\ \A q \in DOMAIN n \ {p} : Len(Moved(n, p, q)) <= Len(q)
    BY <1>1, <1>2, <2>1, UnlinkIs
  <2>4. \A x \in DOMAIN d : \E q \in DOMAIN n \ {p} : d[x] = n[q]
    BY <2>3
  <2>5. \A q \in DOMAIN n \ {p} : \E x \in DOMAIN d : d[x] = n[q]
    BY <2>3
  <2>6. \A x \in DOMAIN d : \E q \in DOMAIN n : Len(x) <= Len(q)
    BY <2>3
  <2> QED
    BY <2>2, <2>4, <2>5, <2>6 DEF d
<1>3. CASE ~OneChild(n, p)
  <2> DEFINE top == RightOf(p)
             m == Leftmost(n, top)
             copied == [n EXCEPT ![p] = n[m]]
             w == Walk(copied, top, n[m].key)
  <2>1. LeftOf(p) \in DOMAIN n /\ top \in DOMAIN n
    BY <1>3 DEF OneChild
  <2>2. d = Unlink(copied, w)
    BY <2>1 DEF tree_del_node
  <2>3. m \in DOMAIN n /\ OnLeftEdge(top, m) /\ LeftOf(m) \notin DOMAIN n
    BY <1>1, <2>1, LeftmostIs
  <2> HIDE DEF m
  <2>4. /\ Nodes(copied) /\ DOMAIN copied = DOMAIN n /\ copied[p] = n[m]
        /\ \A q \in DOMAIN n : q # p => copied[q] = n[q]
    BY <1>1, <2>3, CopiedNodes
  <2> HIDE DEF copied
  <2>5. ~IsPrefix(top, p) /\ IsPrefix(top, m) /\ m # p
    BY <1>1, <2>3, ChildOrder DEF OnLeftEdge
  <2>6. w = m
    BY <2>1, <2>3, <2>4, <2>5, WalkToLeast
  <2>7. OneChild(copied, m)
    BY <2>3, <2>4 DEF OneChild
  <2>8. \A a, b \in DOMAIN n \ {m} : Side(copied, a, b)
    BY <2>1, <2>3, <2>4, CopiedSides
  <2> HIDE DEF top, w, d
  <2>9. SearchTree(d) /\ Cardinality(DOMAIN d) = Cardinality(DOMAIN n) - 1
    BY <2>2, <2>3, <2>4, <2>6, <2>7, <2>8, UnlinkKeepsNodes, UnlinkKeepsSearchTree
  <2>10. /\ DOMAIN d = {Moved(copied, m, q) : q \in DOMAIN n \ {m}}
         /\ \A q \in DOMAIN n \ {m} : d[Moved(copied, m, q)] = copied[q]
         /\ \A q \in DOMAIN n \ {m} : Len(Moved(copied, m, q)) <= Len(q)
    <3>1. Nodes(copied) /\ m \in DOMAIN copied /\ OneChild(copied, m)
      BY <2>3, <2>4, <2>7
    <3>2. /\ DOMAIN Unlink(copied, m) =
               {Moved(copied, m, q) : q \in DOMAIN copied \ {m}}
          /\ \A q \in DOMAIN copied \ {m} :
               /\ Unlink(copied, m)[Moved(copied, m, q)] = copied[q]
               /\ Len(Moved(copied, m, q)) <= Len(q)
      BY <3>1, UnlinkIs
    <3>3. d = Unlink(copied, m) /\ DOMAIN copied = DOMAIN n
      BY <2>2, <2>4, <2>6
    <3> QED
      BY <3>2, <3>3
  <2>11. ASSUME NEW x \in DOMAIN d
         PROVE  \E q \in DOMAIN n \ {p} : d[x] = n[q]
    <3>1. PICK q \in DOMAIN n \ {m} : d[x] = copied[q]
      BY <2>10
    <3> QED
      BY <2>3, <2>4, <2>5, <3>1
  <2>12. ASSUME NEW q \in DOMAIN n \ {p}
         PROVE  \E x \in DOMAIN d : d[x] = n[q]
    <3>1. \E r \in DOMAIN n \ {m} : copied[r] = n[q]
      BY <2>4, <2>5
    <3> QED
      BY <2>10, <3>1
  <2>13. \A x \in DOMAIN d : \E q \in DOMAIN n : Len(x) <= Len(q)
    BY <2>10
  <2> QED
    BY <2>9, <2>11, <2>12, <2>13 DEF d
<1> QED
  BY <1>2, <1>3

(***************************************************************************)
(* tree_del takes a key out of the map (tree_del in source/tree.c), and    *)
(* the tree stays a search tree.                                           *)
(***************************************************************************)
THEOREM DelIsDel ==
  ASSUME NEW t, SearchTree(t.node), NEW k \in Int
  PROVE  /\ SearchTree(tree_del(t, k).node)
         /\ k \in DOMAIN StoreOf(t) =>
              StoreOf(tree_del(t, k)) = StoreDel(StoreOf(t), k)
         /\ k \notin DOMAIN StoreOf(t) => tree_del(t, k) = t
<1> DEFINE n == t.node
           u == tree_del(t, k)
           h == u.node
           p == Walk(n, Root, k)
           S == StoreOf(t)
           P == StoreOf(u)
<1>1. Root \in Places(n) /\ Root \in Position /\ Nodes(n)
  BY RootIsTop DEF Places, SearchTree
<1>2. p \in DOMAIN n => n[p].key = k
  BY <1>1, WalkEnds DEF WalkEnd
<1>3. ASSUME NEW q \in DOMAIN n, n[q].key = k
      PROVE  p = q
  <2>1. q \in Position
    BY <1>1 DEF Nodes
  <2> QED
    BY <1>1, <1>3, <2>1, RootIsTop, WalkFinds
<1>4. /\ DOMAIN S = {n[q].key : q \in DOMAIN n}
      /\ \A q \in DOMAIN n : S[n[q].key] = n[q].value
  BY StoreValues
<1>5. k \in DOMAIN S <=> p \in DOMAIN n
  <2> HIDE DEF n, p, S
  <2> QED
    BY <1>2, <1>3, <1>4
<1>6. CASE p \notin DOMAIN n
  <2>1. u = t
    BY <1>6 DEF tree_del
  <2> QED
    BY <1>5, <1>6, <2>1
<1>7. CASE p \in DOMAIN n
  <2>1. h = tree_del_node(n, p)
    BY <1>7 DEF tree_del
  <2>2. /\ SearchTree(h)
        /\ \A x \in DOMAIN h : \E q \in DOMAIN n \ {p} : h[x] = n[q]
        /\ \A q \in DOMAIN n \ {p} : \E x \in DOMAIN h : h[x] = n[q]
    <3> HIDE DEF p, h, n
    <3> QED
      BY <1>7, <2>1, DelNode DEF n
  <2>3. /\ DOMAIN P = {h[q].key : q \in DOMAIN h}
        /\ \A q \in DOMAIN h : P[h[q].key] = h[q].value
        /\ P = [x \in DOMAIN P |-> P[x]]
    BY <2>2, StoreValues
  <2> HIDE DEF n, u, h, p, S, P
  <2>4. ASSUME NEW x \in DOMAIN P
        PROVE  x \in DOMAIN S \ {k} /\ P[x] = S[x]
    <3>1. PICK y \in DOMAIN h : h[y].key = x
      BY <2>3
    <3>2. PICK q \in DOMAIN n \ {p} : h[y] = n[q]
      BY <2>2
    <3> QED
      BY <1>3, <1>4, <2>3, <3>1, <3>2
  <2>5. ASSUME NEW x \in DOMAIN S \ {k}
        PROVE  x \in DOMAIN P
    <3>1. PICK q \in DOMAIN n : n[q].key = x
      BY <1>4
    <3>2. PICK y \in DOMAIN h : h[y] = n[q]
      BY <1>2, <1>7, <2>2, <3>1
    <3> QED
      BY <2>3, <3>1, <3>2
  <2>6. P = StoreDel(S, k)
    BY <2>3, <2>4, <2>5 DEF StoreDel
  <2> QED
    BY <1>5, <1>7, <2>2, <2>6 DEF h, u, S, P
<1> QED
  BY <1>6, <1>7
LEMMA FoundKey ==
  ASSUME NEW t, SearchTree(t.node), NEW k \in Int
  PROVE  k \in DOMAIN StoreOf(t) <=> Walk(t.node, Root, k) \in DOMAIN t.node
<1> DEFINE n == t.node
           p == Walk(n, Root, k)
<1>1. Root \in Places(n) /\ Root \in Position /\ Nodes(n)
  BY RootIsTop DEF Places, SearchTree
<1>2. p \in DOMAIN n => n[p].key = k
  BY <1>1, WalkEnds DEF WalkEnd
<1>3. ASSUME NEW q \in DOMAIN n, n[q].key = k
      PROVE  p = q
  <2>1. q \in Position
    BY <1>1 DEF Nodes
  <2> QED
    BY <1>1, <1>3, <2>1, RootIsTop, WalkFinds
<1>4. DOMAIN StoreOf(t) = {n[q].key : q \in DOMAIN n}
  BY StoreValues
<1> HIDE DEF p
<1> QED
  BY <1>2, <1>3, <1>4 DEF p
-----------------------------------------------------------------------------
(***************************************************************************)
(* The counter is the number of nodes, and what the nodes hold is what was *)
(* put: both operations that change the tree keep this.                    *)
(***************************************************************************)
Counted(t) == t.size = Cardinality(DOMAIN t.node)

Holds(t, E) == \A p \in DOMAIN t.node : t.node[p] \in E

LEMMA NothingYet ==
  /\ SearchTree(tree_create.node) /\ Counted(tree_create)
  /\ \A E : Holds(tree_create, E)
  /\ StoreOf(tree_create) = EmptyStore
<1>1. DOMAIN tree_create.node = {} /\ tree_create.size = 0
  BY DEF tree_create
<1>2. SearchTree(tree_create.node)
  BY <1>1, FS_EmptySet DEF SearchTree, Nodes, RootedNodes
<1> QED
  BY <1>1, <1>2, FS_EmptySet DEF Counted, Holds, StoreOf, EmptyStore

LEMMA PutKeeps ==
  ASSUME NEW t, SearchTree(t.node), Counted(t), NEW E, Holds(t, E),
         NEW k \in Int, NEW v, Entry(k, v) \in E
  PROVE  LET u == tree_put(t, k, v)
         IN  SearchTree(u.node) /\ Counted(u) /\ Holds(u, E)
<1> DEFINE n == t.node
           p == Walk(n, Root, k)
           u == tree_put(t, k, v)
           h == u.node
<1>2. SearchTree(h)
  BY PutIsPut
<1>3. /\ h = [q \in DOMAIN n \cup {p} |-> IF q = p THEN Entry(k, v) ELSE n[q]]
      /\ u.size = t.size + (IF p \notin DOMAIN n THEN 1 ELSE 0)
  BY DEF tree_put
<1>4. IsFiniteSet(DOMAIN n) /\ t.size = Cardinality(DOMAIN n)
  BY DEF SearchTree, Nodes, Counted
<1>6. \A q \in DOMAIN n : n[q] \in E
  BY DEF Holds
<1> HIDE DEF n, p, h, u
<1>7. \A q \in DOMAIN h : h[q] \in E
  BY <1>3, <1>6
<1>8. u.size = Cardinality(DOMAIN h)
  <2>1. DOMAIN h = DOMAIN n \cup {p}
    BY <1>3
  <2>2. Cardinality(DOMAIN n) \in Nat
    BY <1>4, FS_CardinalityType
  <2>3. Cardinality(DOMAIN n \cup {p}) =
          IF p \in DOMAIN n THEN Cardinality(DOMAIN n) ELSE Cardinality(DOMAIN n) + 1
    BY <1>4, FS_AddElement
  <2> QED
    BY <1>3, <1>4, <2>1, <2>2, <2>3
<1> QED
  BY <1>2, <1>7, <1>8 DEF h, u, Counted, Holds

LEMMA DelKeeps ==
  ASSUME NEW t, SearchTree(t.node), Counted(t), NEW E, Holds(t, E), NEW k \in Int
  PROVE  LET u == tree_del(t, k)
         IN  SearchTree(u.node) /\ Counted(u) /\ Holds(u, E)
<1> DEFINE n == t.node
           p == Walk(n, Root, k)
           u == tree_del(t, k)
           d == tree_del_node(n, p)
<1>1. CASE p \notin DOMAIN n
  BY <1>1 DEF tree_del
<1>2. CASE p \in DOMAIN n
  <2>1. u = [node |-> d, size |-> t.size - 1]
    BY <1>2 DEF tree_del
  <2>2. \A q \in DOMAIN n : n[q] \in E
    BY DEF Holds
  <2>3. t.size = Cardinality(DOMAIN n)
    BY DEF Counted
  <2> HIDE DEF p
  <2>4. /\ SearchTree(d)
        /\ Cardinality(DOMAIN d) = Cardinality(DOMAIN n) - 1
        /\ \A x \in DOMAIN d : \E q \in DOMAIN n \ {p} : d[x] = n[q]
    BY <1>2, DelNode
  <2> HIDE DEF d, n, u
  <2>5. \A x \in DOMAIN d : d[x] \in E
    BY <2>2, <2>4
  <2>6. u.node = d /\ u.size = Cardinality(DOMAIN d)
    BY <2>1, <2>3, <2>4
  <2> QED
    BY <2>4, <2>5, <2>6 DEF u, Counted, Holds
<1> QED
  BY <1>1, <1>2
-----------------------------------------------------------------------------
(***************************************************************************)
(* The rank of a node among the nodes is that of its key among the keys.   *)
(***************************************************************************)
LEMMA RankOfKey ==
  ASSUME NEW D, IsFiniteSet(D), NEW key \in [D -> Int],
         \A x, y \in D : key[x] = key[y] => x = y, NEW x \in D
  PROVE  Cardinality({j \in {key[y] : y \in D} : j < key[x]}) = Rank(D, key, x)
<1> DEFINE X == Smaller(D, key, x)
           J == {j \in {key[y] : y \in D} : j < key[x]}
           f == [y \in X |-> key[y]]
<1>1. X \subseteq D /\ IsFiniteSet(X)
  BY FS_Subset DEF Smaller
<1>2. /\ \A y \in X : key[y] \in J
      /\ \A j \in J : \E y \in X : key[y] = j
  BY DEF Smaller
<1> HIDE DEF X, J
<1>3. f \in Bijection(X, J)
  <2>1. f \in [X -> J]
    BY <1>2
  <2>2. \A y, z \in X : f[y] = f[z] => y = z
    BY <1>1
  <2>3. \A j \in J : \E y \in X : f[y] = j
    BY <1>2
  <2> HIDE DEF f
  <2> QED
    BY <2>1, <2>2, <2>3, Fun_IsBij
<1>4. Cardinality(J) = Cardinality(X)
  BY <1>1, <1>3, FS_Bijection DEF ExistsBijection
<1> QED
  BY <1>4 DEF J, X, Rank

(***************************************************************************)
(* The inorder walk visits the nodes of a search tree in the order of      *)
(* their keys.                                                             *)
(***************************************************************************)
LEMMA AmongPrefixes ==
  ASSUME NEW c, NEW p \in Position
  PROVE  c \in Prefixes(p) <=> c \in Position /\ IsPrefix(c, p)
<1>1. Len(p) \in Nat
  BY LenProperties DEF Position
<1>2. ASSUME c \in Prefixes(p)
      PROVE  c \in Position /\ IsPrefix(c, p)
  <2>1. PICK m \in 0 .. Len(p) : c = SubSeq(p, 1, m)
    BY <1>2 DEF Prefixes
  <2>2. c \in Position /\ Len(c) = m /\ \A j \in 1 .. m : c[j] = p[j]
    BY <2>1, CutTurns
  <2> QED
    BY <1>1, <2>2, PrefixTurns
<1>3. ASSUME c \in Position, IsPrefix(c, p)
      PROVE  c \in Prefixes(p)
  <2> DEFINE cut == SubSeq(p, 1, Len(c))
  <2>1. Len(c) \in 0 .. Len(p) /\ \A j \in 1 .. Len(c) : c[j] = p[j]
    BY <1>1, <1>3, PrefixTurns, LenProperties DEF Position
  <2>2. /\ cut \in Position /\ Len(cut) = Len(c)
        /\ \A j \in 1 .. Len(c) : cut[j] = p[j]
    BY <2>1, CutTurns
  <2>3. cut \in Prefixes(p)
    BY <2>1 DEF Prefixes
  <2> HIDE DEF cut
  <2>4. cut = c
    BY <1>3, <2>1, <2>2, SamePosition
  <2> QED
    BY <2>3, <2>4
<1> QED
  BY <1>2, <1>3

LEMMA VisitedInOrder ==
  ASSUME NEW n, SearchTree(n), NEW p \in DOMAIN n, NEW q \in DOMAIN n
  PROVE  VisitedBefore(p, q) <=> n[p].key < n[q].key
<1>1. /\ Nodes(n) /\ p \in Position /\ q \in Position
      /\ \A a \in DOMAIN n : n[a].key \in Int
      /\ \A a, b \in DOMAIN n : Side(n, a, b)
      /\ \A a \in DOMAIN n : a \in Position
  BY DEF SearchTree, Nodes
<1>2. VisitedBefore(p, q) <=>
        /\ p # q
        /\ \E c \in Position : /\ IsPrefix(c, p)
                               /\ p = c \/ IsPrefix(LeftOf(c), p)
                               /\ q = c \/ IsPrefix(RightOf(c), q)
  BY <1>1, AmongPrefixes DEF VisitedBefore
<1>3. ASSUME NEW c \in Position, p # q, IsPrefix(c, p),
             p = c \/ IsPrefix(LeftOf(c), p), q = c \/ IsPrefix(RightOf(c), q)
      PROVE  n[p].key < n[q].key
  <2>1. c \in DOMAIN n
    BY <1>1, <1>3, AboveNode
  <2>2. Side(n, c, p) /\ Side(n, c, q)
    BY <1>1, <2>1
  <2>3. n[p].key \in Int /\ n[q].key \in Int /\ n[c].key \in Int
    BY <1>1, <2>1
  <2> QED
    BY <1>3, <2>2, <2>3 DEF Side
<1>4. ASSUME NEW c \in Position, Apart(c, q, p)
      PROVE  n[q].key < n[p].key
  <2>1. c \in DOMAIN n
    BY <1>1, <1>4, AboveNode, ChildOrder DEF Apart
  <2>2. Side(n, c, p) /\ Side(n, c, q)
    BY <1>1, <2>1
  <2>3. n[p].key \in Int /\ n[q].key \in Int /\ n[c].key \in Int
    BY <1>1, <2>1
  <2> QED
    BY <1>4, <2>2, <2>3 DEF Side, Apart
<1>5. ASSUME n[p].key < n[q].key
      PROVE  /\ p # q
             /\ \E c \in Position : /\ IsPrefix(c, p)
                                    /\ p = c \/ IsPrefix(LeftOf(c), p)
                                    /\ q = c \/ IsPrefix(RightOf(c), q)
  <2>1. n[p].key \in Int /\ n[q].key \in Int /\ p # q
    BY <1>1, <1>5
  <2>2. CASE IsPrefix(p, q)
    <3>1. ~IsPrefix(LeftOf(p), q)
      BY <1>1, <1>5, <2>1 DEF Side
    <3>2. IsPrefix(RightOf(p), q)
      BY <1>1, <2>1, <2>2, <3>1, ChildOrder
    <3> QED
      BY <1>1, <2>1, <3>2, PrefixOrder
  <2>3. CASE IsPrefix(q, p)
    <3>1. ~IsPrefix(RightOf(q), p)
      BY <1>1, <1>5, <2>1 DEF Side
    <3>2. IsPrefix(LeftOf(q), p)
      BY <1>1, <2>1, <2>3, <3>1, ChildOrder
    <3> QED
      BY <1>1, <2>1, <2>3, <3>2
  <2>4. CASE ~IsPrefix(p, q) /\ ~IsPrefix(q, p)
    <3>1. ~\E c \in Position : Apart(c, q, p)
      BY <1>4, <1>5, <2>1
    <3>2. PICK c \in Position : Apart(c, p, q)
      BY <1>1, <2>4, <3>1, Parting
    <3>3. IsPrefix(LeftOf(c), p) /\ IsPrefix(RightOf(c), q) /\ IsPrefix(c, p)
      BY <1>1, <3>2, ChildOrder DEF Apart
    <3> QED
      BY <2>1, <3>3
  <2> QED
    BY <2>2, <2>3, <2>4
<1> QED
  BY <1>2, <1>3, <1>5
-----------------------------------------------------------------------------
(***************************************************************************)
(* What tree_get_keys and tree_get_values return, position by position.    *)
(***************************************************************************)
LEMMA SizeIsNumberOfKeys ==
  ASSUME NEW t, SearchTree(t.node)
  PROVE  /\ Cardinality(DOMAIN t.node) \in Nat
         /\ Cardinality(DOMAIN StoreOf(t)) = Cardinality(DOMAIN t.node)
<1> DEFINE D == DOMAIN t.node
           f == [p \in D |-> t.node[p].key]
<1>1. IsFiniteSet(D)
  BY DEF SearchTree, Nodes
<1>2. \A p, q \in D : f[p] = f[q] => p = q
  BY KeysApart
<1>3. DOMAIN StoreOf(t) = {f[p] : p \in D}
  BY DEF StoreOf
<1> HIDE DEF f
<1>4. DOMAIN f = D
  BY DEF f
<1>5. f \in [D -> DOMAIN StoreOf(t)]
  <2>1. f = [p \in D |-> f[p]]
    BY DEF f
  <2> QED
    BY <1>3, <2>1
<1>6. f \in Bijection(D, DOMAIN StoreOf(t))
  BY <1>2, <1>3, <1>5, Fun_IsBij
<1> QED
  BY <1>1, <1>6, FS_Bijection, FS_CardinalityType DEF ExistsBijection

LEMMA KeyAt ==
  ASSUME NEW t, SearchTree(t.node),
         NEW i \in 1 .. Cardinality(DOMAIN t.node),
         NEW p, p = CHOOSE x \in DOMAIN t.node :
                      Cardinality({y \in DOMAIN t.node : VisitedBefore(y, x)}) = i - 1,
         NEW k, k = CHOOSE x \in DOMAIN StoreOf(t) :
                      Cardinality({y \in DOMAIN StoreOf(t) : KeyBefore(y, x)}) = i - 1
  PROVE  p \in DOMAIN t.node /\ t.node[p].key = k
<1> DEFINE n == t.node
           D == DOMAIN n
           K == DOMAIN StoreOf(t)
           key == [x \in D |-> n[x].key]
<1>1. /\ IsFiniteSet(D) /\ key \in [D -> Int]
      /\ \A x, y \in D : key[x] = key[y] => x = y
      /\ K = {key[x] : x \in D}
  <2>1. IsFiniteSet(D) /\ key \in [D -> Int]
    BY DEF SearchTree, Nodes
  <2>2. \A x, y \in D : key[x] = key[y] => x = y
    BY KeysApart
  <2>3. K = {key[x] : x \in D}
    BY DEF StoreOf
  <2> QED
    BY <2>1, <2>2, <2>3
<1>2. ASSUME NEW x \in D
      PROVE  Cardinality({y \in D : VisitedBefore(y, x)}) = Rank(D, key, x)
  <2>1. {y \in D : VisitedBefore(y, x)} = Smaller(D, key, x)
    BY VisitedInOrder DEF Smaller
  <2> QED
    BY <2>1 DEF Rank
<1>3. ASSUME NEW x \in D
      PROVE  Cardinality({j \in K : KeyBefore(j, key[x])}) = Rank(D, key, x)
  <2> HIDE DEF D, key, K
  <2>1. Cardinality({j \in {key[y] : y \in D} : j < key[x]}) = Rank(D, key, x)
    BY <1>1, RankOfKey
  <2> QED
    BY <1>1, <2>1 DEF KeyBefore
<1>4. /\ \A x, y \in D : Rank(D, key, x) = Rank(D, key, y) => x = y
      /\ \E x \in D : Rank(D, key, x) = i - 1
  <2> HIDE DEF key
  <2> QED
    BY <1>1, RanksTaken
<1>5. PICK x \in D : Rank(D, key, x) = i - 1
  BY <1>4
<1>6. p \in D /\ Rank(D, key, p) = i - 1
  <2>1. \E y \in D : Cardinality({z \in D : VisitedBefore(z, y)}) = i - 1
    BY <1>2, <1>5
  <2>2. p \in D /\ Cardinality({z \in D : VisitedBefore(z, p)}) = i - 1
    BY <2>1, Zenon
  <2> QED
    BY <1>2, <2>2
<1>7. k \in K /\ Cardinality({j \in K : KeyBefore(j, k)}) = i - 1
  <2>1. key[x] \in K /\ Cardinality({j \in K : KeyBefore(j, key[x])}) = i - 1
    <3> HIDE DEF K, key
    <3> QED
      BY <1>1, <1>3, <1>5
  <2>2. \E y \in K : Cardinality({j \in K : KeyBefore(j, y)}) = i - 1
    BY <2>1
  <2> QED
    BY <2>2, Zenon
<1>8. PICK y \in D : key[y] = k
  <2>1. k \in {key[z] : z \in D}
    BY <1>1, <1>7
  <2> HIDE DEF key
  <2> QED
    BY <2>1
<1>9. y = p
  <2>1. Cardinality({j \in K : KeyBefore(j, key[y])}) = Rank(D, key, y)
    BY <1>3
  <2>2. Cardinality({j \in K : KeyBefore(j, k)}) = i - 1
    BY <1>7
  <2> HIDE DEF K, key, D
  <2>3. Rank(D, key, y) = i - 1
    BY <1>8, <2>1, <2>2
  <2> QED
    BY <1>4, <1>6, <2>3
<1> QED
  BY <1>6, <1>8, <1>9

(***************************************************************************)
(* tree_get_keys returns the keys in order, tree_get_values their values.  *)
(***************************************************************************)
LEMMA KeysInOrder ==
  ASSUME NEW t, SearchTree(t.node)
  PROVE  /\ tree_get_keys(t) = KeysOf(StoreOf(t))
         /\ tree_get_values(t) = ValuesOf(StoreOf(t))
         /\ Len(inorder(t)) = Cardinality(DOMAIN t.node)
         /\ \A i \in 1 .. Cardinality(DOMAIN t.node) : inorder(t)[i] \in DOMAIN t.node
<1> DEFINE n == t.node
           S == StoreOf(t)
           N == Cardinality(DOMAIN n)
           ps == inorder(t)
           ks == KeysOf(S)
<1>1. N \in Nat /\ Cardinality(DOMAIN S) = N
  BY SizeIsNumberOfKeys
<1>2. ps = [i \in 1 .. N |->
              CHOOSE x \in DOMAIN n :
                Cardinality({y \in DOMAIN n : VisitedBefore(y, x)}) = i - 1]
  BY DEF inorder, InSequence
<1>3. ks = [i \in 1 .. N |->
              CHOOSE x \in DOMAIN S :
                Cardinality({y \in DOMAIN S : KeyBefore(y, x)}) = i - 1]
  BY <1>1 DEF KeysOf, InSequence
<1>4. ASSUME NEW i \in 1 .. N
      PROVE  ps[i] \in DOMAIN n /\ n[ps[i]].key = ks[i]
  <2> DEFINE p == CHOOSE x \in DOMAIN n :
                    Cardinality({y \in DOMAIN n : VisitedBefore(y, x)}) = i - 1
             k == CHOOSE x \in DOMAIN S :
                    Cardinality({y \in DOMAIN S : KeyBefore(y, x)}) = i - 1
  <2>1. ps[i] = p
    BY <1>2, Zenon
  <2>2. ks[i] = k
    BY <1>3, Zenon
  <2>3. p \in DOMAIN n /\ n[p].key = k
    BY KeyAt
  <2> HIDE DEF p, k
  <2> QED
    BY <2>1, <2>2, <2>3
<1>5. \A p \in DOMAIN n : S[n[p].key] = n[p].value
  BY StoreValues
<1>6. /\ tree_get_keys(t) = [i \in 1 .. Len(ps) |-> n[ps[i]].key]
      /\ tree_get_values(t) = [i \in 1 .. Len(ps) |-> n[ps[i]].value]
  BY DEF tree_get_keys, tree_get_values
<1>7. ValuesOf(S) = [i \in 1 .. Len(ks) |-> S[ks[i]]]
  BY DEF ValuesOf
<1> HIDE DEF n, S, N, ks, ps
<1>8. DOMAIN ps = 1 .. N /\ DOMAIN ks = 1 .. N /\ ks = [i \in 1 .. N |-> ks[i]]
  <2>1. DOMAIN ps = 1 .. N /\ DOMAIN ks = 1 .. N
    BY <1>2, <1>3, Zenon
  <2>2. ks = [i \in 1 .. N |-> ks[i]]
    <3> DEFINE kth(i) == CHOOSE x \in DOMAIN S :
                           Cardinality({y \in DOMAIN S : KeyBefore(y, x)}) = i - 1
    <3>1. ks = [i \in 1 .. N |-> kth(i)]
      BY <1>3
    <3> HIDE DEF kth
    <3> QED
      BY <3>1
  <2> QED
    BY <2>1, <2>2
<1>9. Len(ps) = N /\ Len(ks) = N
  BY <1>1, <1>2, <1>3
<1>10. tree_get_keys(t) = ks
  BY <1>4, <1>6, <1>8, <1>9
<1>11. tree_get_values(t) = ValuesOf(S)
  BY <1>4, <1>5, <1>6, <1>7, <1>9
<1> QED
  BY <1>4, <1>9, <1>10, <1>11 DEF ks, S, ps, N, n

(***************************************************************************)
(* What the tree returns was put into it, and the arrays have as many      *)
(* elements as the counter says.                                           *)
(***************************************************************************)
LEMMA AnswersTyped ==
  ASSUME NEW t, SearchTree(t.node), Counted(t), NEW K, NEW V,
         Holds(t, [key : K, value : V])
  PROVE  /\ tree_get_keys(t) \in Seq(K) /\ tree_get_values(t) \in Seq(V)
         /\ tree_get_keys(t) = [i \in 1 .. tree_size(t) |-> tree_get_keys(t)[i]]
         /\ tree_get_values(t) = [i \in 1 .. tree_size(t) |-> tree_get_values(t)[i]]
         /\ tree_size(t) \in Nat
         /\ \A k : tree_get(t, k) \in V \cup {NULL}
<1> DEFINE n == t.node
           ps == inorder(t)
           N == Cardinality(DOMAIN n)
           ks == tree_get_keys(t)
           vs == tree_get_values(t)
<1>1. \A p \in DOMAIN n : n[p].key \in K /\ n[p].value \in V
  BY DEF Holds
<1>2. N \in Nat /\ tree_size(t) = N
  BY SizeIsNumberOfKeys DEF Counted, tree_size
<1>3. Len(ps) = N /\ \A i \in 1 .. N : ps[i] \in DOMAIN n
  BY KeysInOrder
<1>4. \A k : tree_get(t, k) \in V \cup {NULL}
  BY <1>1 DEF tree_get
<1>5. /\ ks = [i \in 1 .. N |-> n[ps[i]].key]
      /\ vs = [i \in 1 .. N |-> n[ps[i]].value]
  BY <1>3 DEF tree_get_keys, tree_get_values
<1> HIDE DEF n, ps, N, ks, vs
<1>6. ks \in Seq(K) /\ vs \in Seq(V)
  BY <1>1, <1>2, <1>3, <1>5
<1>7. ks = [i \in 1 .. N |-> ks[i]] /\ vs = [i \in 1 .. N |-> vs[i]]
  BY <1>5
<1> QED
  BY <1>2, <1>4, <1>6, <1>7 DEF ks, vs
-----------------------------------------------------------------------------
(***************************************************************************)
(* A search tree of height h has at least h nodes, those on the way to a   *)
(* deepest one, and fewer than 2^h: the turns to the right and the length  *)
(* of a position make a nonempty subset of 1 .. h, another one for each.   *)
(***************************************************************************)
Mark(p) == {i \in 1 .. Len(p) : p[i] = "R"} \cup {Len(p) + 1}

LEMMA MarksDiffer ==
  ASSUME NEW p \in Position, NEW q \in Position, Mark(p) = Mark(q)
  PROVE  p = q
<1>1. /\ Len(p) \in Nat /\ Len(q) \in Nat
      /\ \A i \in 1 .. Len(p) : p[i] \in {"L", "R"}
      /\ \A i \in 1 .. Len(q) : q[i] \in {"L", "R"}
  BY LenProperties, ElementOfSeq DEF Position, Turn
<1>2. Len(p) + 1 \in Mark(q) /\ Len(q) + 1 \in Mark(p)
  BY DEF Mark
<1>3. Len(p) = Len(q)
  BY <1>1, <1>2 DEF Mark
<1>4. ASSUME NEW i \in 1 .. Len(p) PROVE p[i] = q[i]
  <2>1. /\ i \in Mark(p) <=> p[i] = "R"
        /\ i \in Mark(q) <=> q[i] = "R"
    BY <1>1, <1>3 DEF Mark
  <2> QED
    BY <1>1, <1>3, <2>1
<1> QED
  BY <1>3, <1>4, SamePosition

LEMMA FewerThanPower ==
  ASSUME NEW n, Nodes(n), NEW h \in Nat, \A p \in DOMAIN n : Len(p) < h
  PROVE  2^h > Cardinality(DOMAIN n)
<1> DEFINE P == SUBSET (1 .. h)
           f == [p \in DOMAIN n |-> Mark(p)]
<1>1. DOMAIN n \subseteq Position
  BY DEF Nodes
<1>2. /\ IsFiniteSet(P) /\ Cardinality(P) = 2^h
  <2>1. IsFiniteSet(1 .. h) /\ Cardinality(1 .. h) = h
    BY FS_Interval
  <2> QED
    BY <2>1, FS_SUBSET
<1>3. /\ IsFiniteSet(P \ {{}})
      /\ Cardinality(P \ {{}}) = 2^h - 1
  BY <1>2, FS_RemoveElement
<1>4. ASSUME NEW p \in DOMAIN n PROVE Mark(p) \in P \ {{}}
  <2>1. Len(p) \in Nat /\ Len(p) < h
    BY <1>1, LenProperties DEF Position
  <2> QED
    BY <2>1 DEF Mark
<1>5. f \in Injection(DOMAIN n, P \ {{}})
  <2>1. f \in [DOMAIN n -> P \ {{}}]
    BY <1>4
  <2>2. \A p, q \in DOMAIN n : f[p] = f[q] => p = q
    BY <1>1, MarksDiffer
  <2> QED
    BY <2>1, <2>2, Fun_IsInj
<1>6. 2^h \in Nat
  BY <1>2, FS_CardinalityType
<1>7. Cardinality(DOMAIN n) \in Nat /\ Cardinality(DOMAIN n) <= 2^h - 1
  BY <1>3, <1>5, FS_Injection, FS_CardinalityType
<1> QED
  BY <1>6, <1>7

LEMMA NodesAbove ==
  ASSUME NEW n, Nodes(n), NEW p \in DOMAIN n
  PROVE  Len(p) + 1 <= Cardinality(DOMAIN n)
<1> DEFINE f == [m \in 0 .. Len(p) |-> SubSeq(p, 1, m)]
<1>1. p \in Position /\ Len(p) \in Nat /\ IsFiniteSet(DOMAIN n)
  BY LenProperties DEF Nodes, Position
<1>2. ASSUME NEW m \in 0 .. Len(p)
      PROVE  SubSeq(p, 1, m) \in DOMAIN n /\ Len(SubSeq(p, 1, m)) = m
  <2> DEFINE c == SubSeq(p, 1, m)
  <2>1. c \in Position /\ Len(c) = m /\ \A j \in 1 .. m : c[j] = p[j]
    BY <1>1, CutTurns
  <2> HIDE DEF c
  <2>2. IsPrefix(c, p)
    BY <1>1, <2>1, PrefixTurns
  <2>3. c \in DOMAIN n
    BY <2>1, <2>2, AboveNode
  <2> QED
    BY <2>1, <2>3 DEF c
<1>3. f \in Injection(0 .. Len(p), DOMAIN n)
  <2>1. f \in [0 .. Len(p) -> DOMAIN n]
    BY <1>2
  <2>2. \A a, b \in 0 .. Len(p) : f[a] = f[b] => a = b
    <3>1. \A a \in 0 .. Len(p) : Len(f[a]) = a
      BY <1>2
    <3> HIDE DEF f
    <3> QED
      BY <3>1
  <2> QED
    BY <2>1, <2>2, Fun_IsInj
<1>4. Cardinality(0 .. Len(p)) = Len(p) + 1
  BY <1>1, FS_Interval
<1> QED
  BY <1>1, <1>3, <1>4, FS_Injection

LEMMA GreatestExists ==
  ASSUME NEW S, S \subseteq Nat, 0 \in S, NEW b \in Nat, \A x \in S : x <= b
  PROVE  \E x \in S : \A y \in S : x >= y
<1> DEFINE T == {m \in Nat : \A x \in S : x <= m}
<1>1. T \subseteq Nat /\ b \in T
  OBVIOUS
<1>2. PICK m \in T : \A y \in T : m <= y
  <2> HIDE DEF T
  <2> QED
    BY <1>1, Smallest
<1>3. m \in S
  <2> SUFFICES ASSUME m \notin S PROVE FALSE
    OBVIOUS
  <2>1. m \in Nat /\ m # 0 /\ \A x \in S : x <= m
    BY <1>2
  <2>2. \A x \in S : x <= m - 1
    BY <2>1
  <2>3. m - 1 \in T
    BY <2>1, <2>2
  <2> QED
    BY <1>2, <2>1, <2>3
<1> QED
  BY <1>2, <1>3

LEMMA HeightIs ==
  ASSUME NEW t, SearchTree(t.node)
  PROVE  /\ tree_height(t) \in 0 .. Cardinality(DOMAIN t.node)
         /\ tree_height(t) \in {0} \cup {Len(p) + 1 : p \in DOMAIN t.node}
         /\ \A p \in DOMAIN t.node : Len(p) \in Nat /\ Len(p) < tree_height(t)
<1> DEFINE n == t.node
           N == Cardinality(DOMAIN n)
           L == {0} \cup {Len(p) + 1 : p \in DOMAIN n}
           h == tree_height(t)
<1>1. Nodes(n) /\ DOMAIN n \subseteq Position
  BY DEF SearchTree, Nodes
<1>2. N \in Nat
  BY SizeIsNumberOfKeys
<1>3. \A p \in DOMAIN n : Len(p) \in Nat /\ Len(p) + 1 <= N
  BY <1>1, NodesAbove, LenProperties DEF Position
<1>4. h \in L /\ \A y \in L : h >= y
  <2>1. h = CHOOSE x \in L : \A y \in L : x >= y
    BY DEF tree_height, Max
  <2>2. \E x \in L : \A y \in L : x >= y
    <3>1. L \subseteq Nat /\ 0 \in L /\ \A x \in L : x <= N
      BY <1>2, <1>3
    <3> HIDE DEF L, N
    <3> QED
      BY <1>2, <3>1, GreatestExists
  <2> HIDE DEF L, h
  <2> QED
    BY <2>1, <2>2, Zenon
<1>5. h \in 0 .. N
  BY <1>2, <1>3, <1>4
<1>6. \A p \in DOMAIN n : Len(p) < h
  BY <1>3, <1>4, <1>5
<1> QED
  BY <1>3, <1>4, <1>5, <1>6

LEMMA HeightFits ==
  ASSUME NEW t, SearchTree(t.node)
  PROVE  tree_height(t) \in Heights(StoreOf(t))
<1> DEFINE N == Cardinality(DOMAIN t.node)
           h == tree_height(t)
<1>1. h \in 0 .. N /\ \A p \in DOMAIN t.node : Len(p) < h
  BY HeightIs
<1>2. N \in Nat /\ Cardinality(DOMAIN StoreOf(t)) = N
  BY SizeIsNumberOfKeys
<1> HIDE DEF N, h
<1>3. 2^h > N
  BY <1>1, <1>2, FewerThanPower DEF N, SearchTree
<1>4. h \in Heights(StoreOf(t))
  BY <1>1, <1>2, <1>3 DEF Heights
<1> QED
  BY <1>4 DEF h

(***************************************************************************)
(* tree_del never makes the tree higher.                                   *)
(***************************************************************************)
LEMMA DelLowers ==
  ASSUME NEW t, SearchTree(t.node), NEW k \in Int
  PROVE  tree_height(tree_del(t, k)) <= tree_height(t)
<1> DEFINE n == t.node
           p == Walk(n, Root, k)
           u == tree_del(t, k)
           d == u.node
           h == tree_height(t)
           g == tree_height(u)
<1>1. h \in Nat /\ \A q \in DOMAIN n : Len(q) \in Nat /\ Len(q) < h
  BY HeightIs, SizeIsNumberOfKeys
<1>2. CASE p \notin DOMAIN n
  <2>1. u = t
    BY <1>2 DEF tree_del
  <2> QED
    BY <1>1, <2>1
<1>3. CASE p \in DOMAIN n
  <2>1. d = tree_del_node(n, p)
    BY <1>3 DEF tree_del
  <2>2. SearchTree(d) /\ \A x \in DOMAIN d : \E q \in DOMAIN n : Len(x) <= Len(q)
    <3> HIDE DEF p, d, n
    <3> QED
      BY <1>3, <2>1, DelNode DEF n
  <2>3. /\ g \in {0} \cup {Len(x) + 1 : x \in DOMAIN d}
        /\ \A x \in DOMAIN d : Len(x) \in Nat
    BY <2>2, HeightIs
  <2> HIDE DEF n, p, u, d, h, g
  <2>4. CASE g = 0
    BY <1>1, <2>4 DEF g, h, u
  <2>5. ASSUME NEW x \in DOMAIN d, g = Len(x) + 1
        PROVE  g <= h
    BY <1>1, <2>2, <2>3, <2>5
  <2>6. g <= h
    BY <1>1, <2>3, <2>4, <2>5
  <2> QED
    BY <2>6 DEF g, h, u
<1> QED
  BY <1>2, <1>3
=============================================================================
