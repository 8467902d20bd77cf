-------------------------- MODULE TreeCallsProofs --------------------------
(***************************************************************************)
(* The calls on the tree, for any keys and values and any number of calls: *)
(* the tree stays a search tree with the right size, and every call,       *)
(* tree_height included, returns what Dictionary promises.                 *)
(***************************************************************************)
EXTENDS TreeCalls, TreeProofs

(***************************************************************************)
(* The inductive invariant.                                                *)
(***************************************************************************)
Entries == Holds(tree, [key : Keys, value : Values])

IInv == SearchTree(tree.node) /\ Counted(tree) /\ Entries

LEMMA EmptyTree == Init => IInv
  BY NothingYet DEF Init, IInv, Entries

LEMMA CallKeepsTree == IInv /\ [Next]_vars => IInv'
<1> SUFFICES ASSUME IInv, [Next]_vars PROVE IInv'
  OBVIOUS
<1> DEFINE E == [key : Keys, value : Values]
<1>1. CASE UNCHANGED tree
  BY <1>1 DEF IInv, Entries, Counted, Holds
<1>2. ASSUME NEW k \in Keys, NEW v \in Values, Put(k, v) PROVE IInv'
  <2> DEFINE u == tree_put(tree, k, v)
  <2>1. tree' = u
    BY <1>2 DEF Put
  <2>2. k \in Int /\ Entry(k, v) \in E
    BY KeyAssumption DEF Entry
  <2>3. SearchTree(u.node) /\ Counted(u) /\ Holds(u, E)
    BY <2>2, PutKeeps DEF IInv, Entries
  <2> QED
    BY <2>1, <2>3 DEF IInv, Entries, Counted, Holds
<1>3. ASSUME NEW k \in Keys, Del(k) PROVE IInv'
  <2> DEFINE u == tree_del(tree, k)
  <2>1. tree' = u
    BY <1>3 DEF Del
  <2>2. k \in Int
    BY KeyAssumption
  <2>3. SearchTree(u.node) /\ Counted(u) /\ Holds(u, E)
    BY <2>2, DelKeeps DEF IInv, Entries
  <2> QED
    BY <2>1, <2>3 DEF IInv, Entries, Counted, Holds
<1> QED
  BY <1>1, <1>2, <1>3
     DEF Next, vars, Get, Size, Height, GetKeys, GetValues

LEMMA TreeHolds == Spec => []IInv
  BY EmptyTree, CallKeepsTree, PTL DEF Spec

(***************************************************************************)
(* The nodes of the tree are at sequences of turns and hold entries.       *)
(***************************************************************************)
THEOREM TypeCorrect == Spec => []TypeOK
<1>1. IInv => TypeOK
  <2> SUFFICES ASSUME IInv PROVE TypeOK
    OBVIOUS
  <2>1. tree.size \in Nat
    BY FS_CardinalityType DEF IInv, Counted, SearchTree, Nodes
  <2> QED
    BY <2>1 DEF IInv, Entries, Holds, TypeOK, SearchTree, Nodes, Position, Turn
<1> QED
  BY <1>1, TreeHolds, PTL

(***************************************************************************)
(* No call cuts a node off from the root: what tree_put hangs and what     *)
(* tree_del_node moves is below a node.                                    *)
(***************************************************************************)
THEOREM StaysRooted == Spec => []Rooted
<1>1. IInv => Rooted
  BY DEF IInv, SearchTree, Nodes, RootedNodes, Rooted
<1> QED
  BY <1>1, TreeHolds, PTL

(***************************************************************************)
(* After any calls, the keys left of a node are smaller and the keys right *)
(* of it larger, at any depth.                                             *)
(***************************************************************************)
THEOREM StaysOrdered == Spec => []Ordered
<1>1. IInv => Ordered
  BY DEF IInv, SearchTree, Side, Ordered
<1> QED
  BY <1>1, TreeHolds, PTL
-----------------------------------------------------------------------------
(***************************************************************************)
(* The operators of Dictionary are those of Store.                         *)
(***************************************************************************)
LEMMA SameOperators ==
  ASSUME NEW s, NEW k, NEW v
  PROVE  /\ Dict!StorePut(s, k, v) = StorePut(s, k, v)
         /\ Dict!StoreDel(s, k) = StoreDel(s, k)
         /\ Dict!StoreGet(s, k) = StoreGet(s, k)
         /\ Dict!EmptyStore = EmptyStore
         /\ Dict!Cardinality(DOMAIN s) = Cardinality(DOMAIN s)
  BY DEF Dict!StorePut, Dict!StoreDel, Dict!StoreGet, Dict!EmptyStore,
         Dict!Cardinality, StorePut, StoreDel, StoreGet, EmptyStore, Cardinality

LEMMA SameSequences ==
  ASSUME NEW s
  PROVE  Dict!KeysOf(s) = KeysOf(s) /\ Dict!ValuesOf(s) = ValuesOf(s)
<1>1. Dict!KeysOf(s) = KeysOf(s)
  BY DEF Dict!KeysOf, Dict!InSequence, Dict!KeyBefore, Dict!Cardinality,
         KeysOf, InSequence, KeyBefore, Cardinality
<1>2. Dict!ValuesOf(s) = ValuesOf(s)
  BY <1>1 DEF Dict!ValuesOf, ValuesOf
<1> QED
  BY <1>1, <1>2

LEMMA SameHeights == \A s : Dict!Heights(s) = Heights(s)
  BY DEF Dict!Heights, Heights, Dict!Cardinality, Cardinality

(***************************************************************************)
(* Each call does to the map, and returns, what Dictionary promises.       *)
(***************************************************************************)
LEMMA CreateIsEmpty == Init => Dict!Init
  BY NothingYet, SameOperators DEF Init, Dict!Init

LEMMA DelCall ==
  ASSUME IInv, NEW k \in Keys, Del(k)
  PROVE  Dict!Del(k)
<1> DEFINE S == StoreOf(tree)
<1>1. SearchTree(tree.node) /\ k \in Int /\ tree' = tree_del(tree, k)
      /\ ret' = <<"del", tree_del_result(tree, tree')>>
  BY KeyAssumption DEF IInv, Del
<1>2. tree.size \in Nat
  BY FS_CardinalityType DEF IInv, Counted, SearchTree, Nodes
<1>3. CASE k \in DOMAIN S
  <2>1. StoreOf(tree') = StoreDel(S, k)
    BY <1>1, <1>3, DelIsDel
  <2>2. tree'.size = tree.size - 1
    BY <1>1, <1>3, FoundKey DEF tree_del
  <2>3. ret' = <<"del", 0>>
    BY <1>1, <1>2, <2>2 DEF tree_del_result
  <2> QED
    BY <1>3, <2>1, <2>3, SameOperators DEF Dict!Del
<1>4. CASE k \notin DOMAIN S
  <2>1. tree' = tree
    BY <1>1, <1>4, DelIsDel
  <2>2. ret' = <<"del", -1>>
    BY <1>1, <2>1 DEF tree_del_result
  <2> QED
    BY <1>4, <2>1, <2>2 DEF Dict!Del
<1> QED
  BY <1>3, <1>4

LEMMA CallIsDictionaryCall ==
  ASSUME IInv, [Next]_vars
  PROVE  [Dict!Next]_(Dict!vars)
<1> USE DEF Dict!vars
<1>1. SearchTree(tree.node) /\ tree.size = Cardinality(DOMAIN tree.node)
  BY DEF IInv, Counted
<1>2. CASE UNCHANGED vars
  BY <1>2 DEF vars
<1>3. ASSUME NEW k \in Keys, NEW v \in Values, Put(k, v)
      PROVE  Dict!Next
  <2>1. StoreOf(tree') = StorePut(StoreOf(tree), k, v)
    BY <1>1, <1>3, KeyAssumption, PutIsPut DEF Put
  <2>2. Dict!Put(k, v)
    BY <1>3, <2>1, SameOperators DEF Put, Dict!Put
  <2> QED
    BY <2>2 DEF Dict!Next
<1>4. ASSUME NEW k \in Keys, Del(k)
      PROVE  Dict!Next
  BY <1>4, DelCall DEF Dict!Next
<1>5. ASSUME NEW k \in Keys, Get(k)
      PROVE  Dict!Next
  <2>1. tree_get(tree, k) = StoreGet(StoreOf(tree), k)
    BY <1>1, KeyAssumption, GetIsGet
  <2>2. Dict!Get(k)
    BY <1>5, <2>1, SameOperators DEF Get, Dict!Get
  <2> QED
    BY <2>2 DEF Dict!Next
<1>6. ASSUME Size
      PROVE  Dict!Next
  <2>1. tree.size = Dict!Cardinality(DOMAIN StoreOf(tree))
    BY <1>1, SizeIsNumberOfKeys, SameOperators
  <2>2. Dict!Size
    BY <1>6, <2>1 DEF Size, tree_size, Dict!Size
  <2> QED
    BY <2>2 DEF Dict!Next
<1>7. ASSUME Height
      PROVE  Dict!Next
  <2>1. tree_height(tree) \in Dict!Heights(StoreOf(tree))
    BY <1>1, HeightFits, SameHeights
  <2>2. Dict!Height
    BY <1>7, <2>1 DEF Height, Dict!Height
  <2> QED
    BY <2>2 DEF Dict!Next
<1>8. ASSUME GetKeys
      PROVE  Dict!Next
  <2>1. tree_get_keys(tree) = Dict!KeysOf(StoreOf(tree))
    BY <1>1, KeysInOrder, SameSequences
  <2>2. Dict!GetKeys
    BY <1>8, <2>1 DEF GetKeys, Dict!GetKeys
  <2> QED
    BY <2>2 DEF Dict!Next
<1>9. ASSUME GetValues
      PROVE  Dict!Next
  <2>1. tree_get_values(tree) = Dict!ValuesOf(StoreOf(tree))
    BY <1>1, KeysInOrder, SameSequences
  <2>2. Dict!GetValues
    BY <1>9, <2>1 DEF GetValues, Dict!GetValues
  <2> QED
    BY <2>2 DEF Dict!Next
<1> QED
  BY <1>2, <1>3, <1>4, <1>5, <1>6, <1>7, <1>8, <1>9 DEF Next

(***************************************************************************)
(* The tree is the map that include/tree.h describes: whatever calls are   *)
(* made, each one returns what the same call on the map would return.      *)
(***************************************************************************)
THEOREM TreeIsDictionary == Spec => ImplementsDictionary
<1>1. Init => Dict!Init
  BY CreateIsEmpty
<1>2. IInv /\ [Next]_vars => [Dict!Next]_(Dict!vars)
  BY CallIsDictionaryCall
<1> QED
  BY <1>1, <1>2, TreeHolds, PTL DEF Spec, ImplementsDictionary, Dict!Spec

(***************************************************************************)
(* Deleting never makes the tree higher, however many keys it holds; the   *)
(* case at issue is the node with two children in tree_del_node.           *)
(***************************************************************************)
THEOREM DelNeverDeepensTree == Spec => DelNeverDeepens
<1>1. IInv /\ [Next]_vars =>
        [tree'.size < tree.size => tree_height(tree') <= tree_height(tree)]_vars
  <2> SUFFICES ASSUME IInv, Next, tree'.size < tree.size
               PROVE  tree_height(tree') <= tree_height(tree)
    OBVIOUS
  <2>1. SearchTree(tree.node) /\ tree.size \in Nat
    BY FS_CardinalityType DEF IInv, Counted, SearchTree, Nodes
  <2>2. ASSUME NEW k \in Keys, NEW v \in Values, Put(k, v)
        PROVE  FALSE
    BY <2>1, <2>2 DEF Put, tree_put
  <2>3. ASSUME NEW k \in Keys, Del(k)
        PROVE  tree_height(tree') <= tree_height(tree)
    BY <2>1, <2>3, KeyAssumption, DelLowers DEF Del
  <2>4. CASE UNCHANGED tree
    BY <2>1, <2>4
  <2> QED
    BY <2>2, <2>3, <2>4 DEF Next, Get, Size, Height, GetKeys, GetValues
<1> QED
  BY <1>1, TreeHolds, PTL DEF Spec, DelNeverDeepens
=============================================================================
