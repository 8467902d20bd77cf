-------------------------------- MODULE Tree --------------------------------
(***************************************************************************)
(* source/tree.c: the binary search tree of entries.                       *)
(*                                                                         *)
(* A node is named by its position: the sequence of turns, "L" or "R",     *)
(* that leads to it from the root, which is at <<>>.  The nodes of a tree  *)
(* are a function from their positions to their entries, so a pointer is   *)
(* null exactly when its position is not in the domain, and moving a       *)
(* subtree is renaming positions.  A tree_t is that function with the size *)
(* field, which the code counts by itself.  malloc is assumed to succeed.  *)
(***************************************************************************)
EXTENDS Store, SequencesExt

Root == <<>>

LeftOf(p) == Append(p, "L")

RightOf(p) == Append(p, "R")

Entry(k, v) == [key |-> k, value |-> v]

tree_create == [node |-> [p \in {} |-> NULL], size |-> 0]

(***************************************************************************)
(* The places where a walk down the tree can stop: a node or a null child. *)
(***************************************************************************)
Places(n) ==
  {Root} \cup DOMAIN n \cup {LeftOf(p) : p \in DOMAIN n}
         \cup {RightOf(p) : p \in DOMAIN n}

(***************************************************************************)
(* p can be reached from the node at top by the strcmp walk for k: every   *)
(* node strictly above p holds another key, and p is on the side of it     *)
(* where k belongs.                                                        *)
(***************************************************************************)
OnWalk(n, top, k, p) ==
  /\ IsPrefix(top, p)
  /\ \A i \in Len(top) + 1 .. Len(p) :
       LET q == SubSeq(p, 1, i - 1)
       IN  /\ q \in DOMAIN n
           /\ n[q].key # k
           /\ p[i] = IF k < n[q].key THEN "L" ELSE "R"

(***************************************************************************)
(* Where the walk for k that starts at top stops: the node that holds k,   *)
(* or the null child where a node with k would hang.                       *)
(***************************************************************************)
Walk(n, top, k) ==
  CHOOSE p \in Places(n) :
    /\ OnWalk(n, top, k, p)
    /\ p \in DOMAIN n => n[p].key = k

\* Faulty: a new node is not counted.
tree_put_uncounted(t, k, v) ==
  LET p == Walk(t.node, Root, k)
  IN  [t EXCEPT !.node = [q \in DOMAIN t.node \cup {p} |->
                            IF q = p THEN Entry(k, v) ELSE t.node[q]]]

(***************************************************************************)
(* Replaces the entry of the node that holds k, or hangs a new node where  *)
(* the walk ended and counts it.                                           *)
(***************************************************************************)
tree_put(t, k, v) ==
  LET p == Walk(t.node, Root, k)
      new == p \notin DOMAIN t.node
  IN  [node |-> [q \in DOMAIN t.node \cup {p} |->
                   IF q = p THEN Entry(k, v) ELSE t.node[q]],
       size |-> t.size + (IF new THEN 1 ELSE 0)]

(***************************************************************************)
(* A copy of the value; the empty data_t that stands for an absent key is  *)
(* NULL because data_create2 refuses size 0.                               *)
(***************************************************************************)
tree_get(t, k) ==
  LET p == Walk(t.node, Root, k)
  IN  IF p \in DOMAIN t.node THEN t.node[p].value ELSE NULL

\* Faulty: the parent's link is cleared without adopting the child.
UnlinkOrphaning(n, p) == [q \in DOMAIN n \ {p} |-> n[q]]

(***************************************************************************)
(* The node at p, which has at most one child, is freed and its parent     *)
(* adopts the child, with everything below it.                             *)
(***************************************************************************)
Unlink(n, p) ==
  LET child == IF LeftOf(p) \in DOMAIN n THEN LeftOf(p) ELSE RightOf(p)
      above == {q \in DOMAIN n : ~IsPrefix(p, q)}
      below == {q \in DOMAIN n : IsPrefix(child, q)}
      \* Removes, or puts back, the turn from p to child.
      Raised(q) == p \o SubSeq(q, Len(child) + 1, Len(q))
      Lowered(q) == child \o SubSeq(q, Len(p) + 1, Len(q))
  IN  [q \in above \cup {Raised(r) : r \in below} |->
         IF q \in above THEN n[q] ELSE n[Lowered(q)]]

(***************************************************************************)
(* The node reached from top by turning left as long as there is a node.   *)
(***************************************************************************)
Leftmost(n, top) ==
  CHOOSE p \in DOMAIN n :
    /\ IsPrefix(top, p)
    /\ \A i \in Len(top) + 1 .. Len(p) : p[i] = "L"
    /\ LeftOf(p) \notin DOMAIN n

\* Faulty: the replacement is taken from the wrong subtree.
tree_del_node_wrong_side(n, p) ==
  IF {LeftOf(p), RightOf(p)} \subseteq DOMAIN n
  THEN LET minimum == n[Leftmost(n, LeftOf(p))]
           copied == [n EXCEPT ![p] = minimum]
       IN  Unlink(copied, Walk(copied, LeftOf(p), minimum.key))
  ELSE Unlink(n, p)

\* Faulty: the right child moves up and the left one is hung below its minimum.
tree_del_node_hanging(n, p) ==
  IF {LeftOf(p), RightOf(p)} \subseteq DOMAIN n
  THEN LET Left == {q \in DOMAIN n : IsPrefix(LeftOf(p), q)}
           lifted == Unlink([q \in DOMAIN n \ Left |-> n[q]], p)
           hook == LeftOf(Leftmost(lifted, p))
           Hung(q) == hook \o SubSeq(q, Len(p) + 2, Len(q))
       IN  [q \in DOMAIN lifted \cup {Hung(r) : r \in Left} |->
              IF q \in DOMAIN lifted THEN lifted[q]
              ELSE n[CHOOSE r \in Left : Hung(r) = q]]
  ELSE Unlink(n, p)

(***************************************************************************)
(* A node with two children is not freed: it takes over a copy of the      *)
(* entry of the leftmost node on its right, and it is that node's key that *)
(* is then deleted in the right subtree.                                   *)
(***************************************************************************)
tree_del_node(n, p) ==
  IF {LeftOf(p), RightOf(p)} \subseteq DOMAIN n
  THEN LET minimum == n[Leftmost(n, RightOf(p))]
           copied == [n EXCEPT ![p] = minimum]
       IN  Unlink(copied, Walk(copied, RightOf(p), minimum.key))
  ELSE Unlink(n, p)

\* Faulty: the second deletion in the case of two children counts as well.
tree_del_counting_twice(t, k) ==
  LET p == Walk(t.node, Root, k)
      both == {LeftOf(p), RightOf(p)} \subseteq DOMAIN t.node
  IN  IF p \in DOMAIN t.node
      THEN [node |-> tree_del_node(t.node, p),
            size |-> t.size - (IF both THEN 2 ELSE 1)]
      ELSE t

(***************************************************************************)
(* The size goes down by one for the key; on the way, a node with two      *)
(* children counts one up for the second deletion.                         *)
(***************************************************************************)
tree_del(t, k) ==
  LET p == Walk(t.node, Root, k)
  IN  IF p \in DOMAIN t.node
      THEN [node |-> tree_del_node(t.node, p), size |-> t.size - 1]
      ELSE t

(***************************************************************************)
(* What tree_del returns: -1 when the size did not change.                 *)
(***************************************************************************)
tree_del_result(before, after) == IF before.size = after.size THEN -1 ELSE 0

tree_size(t) == t.size

tree_height(t) == Max({0} \cup {Len(p) + 1 : p \in DOMAIN t.node})

(***************************************************************************)
(* The inorder walk visits p before q: at the place where their ways part, *)
(* p is the node itself or on its left, q the node itself or on its right. *)
(***************************************************************************)
VisitedBefore(p, q) ==
  /\ p # q
  /\ \E c \in Prefixes(p) :
       /\ p = c \/ IsPrefix(LeftOf(c), p)
       /\ q = c \/ IsPrefix(RightOf(c), q)

inorder(t) == InSequence(DOMAIN t.node, VisitedBefore)

tree_get_keys(t) ==
  LET ps == inorder(t) IN [i \in 1 .. Len(ps) |-> t.node[ps[i]].key]

tree_get_values(t) ==
  LET ps == inorder(t) IN [i \in 1 .. Len(ps) |-> t.node[ps[i]].value]
-----------------------------------------------------------------------------
(***************************************************************************)
(* The map that a tree represents.                                         *)
(***************************************************************************)
StoreOf(t) ==
  [k \in {t.node[p].key : p \in DOMAIN t.node} |->
     t.node[CHOOSE p \in DOMAIN t.node : t.node[p].key = k].value]
=============================================================================
