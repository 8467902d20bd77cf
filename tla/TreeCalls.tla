----------------------------- MODULE TreeCalls -----------------------------
(***************************************************************************)
(* The tree as its callers use it, one call at a time (on the server every *)
(* call is made under g_tree_lock): the state is the tree and what the     *)
(* last call returned.                                                     *)
(***************************************************************************)
EXTENDS Tree

CONSTANTS Keys, Values

ASSUME KeyAssumption == Keys \subseteq Int

VARIABLES tree, ret

vars == <<tree, ret>>

Init ==
  /\ tree = tree_create
  /\ ret = <<"none", NULL>>

Put(k, v) ==
  /\ tree' = tree_put(tree, k, v)
  /\ ret' = <<"put", 0>>

Del(k) ==
  /\ tree' = tree_del(tree, k)
  /\ ret' = <<"del", tree_del_result(tree, tree')>>

Get(k) == ret' = <<"get", tree_get(tree, k)>> /\ UNCHANGED tree

Size == ret' = <<"size", tree_size(tree)>> /\ UNCHANGED tree

Height == ret' = <<"height", tree_height(tree)>> /\ UNCHANGED tree

GetKeys == ret' = <<"getkeys", tree_get_keys(tree)>> /\ UNCHANGED tree

GetValues == ret' = <<"getvalues", tree_get_values(tree)>> /\ UNCHANGED tree

Next ==
  \/ \E k \in Keys, v \in Values : Put(k, v)
  \/ \E k \in Keys : Del(k) \/ Get(k)
  \/ Size
  \/ Height
  \/ GetKeys
  \/ GetValues

Spec == Init /\ [][Next]_vars
-----------------------------------------------------------------------------
(***************************************************************************)
(* Nodes are at sequences of turns and hold entries (include/entry.h).     *)
(***************************************************************************)
TypeOK ==
  /\ DOMAIN tree.node \subseteq Seq({"L", "R"})
  /\ \A p \in DOMAIN tree.node : tree.node[p] \in [key : Keys, value : Values]
  /\ tree.size \in Nat

(***************************************************************************)
(* No node is cut off from the root: tree_put hangs nodes, and             *)
(* tree_del_node moves subtrees, below existing nodes only.                *)
(***************************************************************************)
Rooted ==
  \A p \in DOMAIN tree.node : p # Root => Front(p) \in DOMAIN tree.node

(***************************************************************************)
(* Every key left of a node is smaller and every key right of it larger,   *)
(* at any depth; this is what lets the walks of tree_put, tree_get and     *)
(* tree_del_node find a key.                                               *)
(***************************************************************************)
Ordered ==
  \A p, q \in DOMAIN tree.node :
    /\ IsPrefix(LeftOf(p), q) => tree.node[q].key < tree.node[p].key
    /\ IsPrefix(RightOf(p), q) => tree.node[q].key > tree.node[p].key

(***************************************************************************)
(* The tree behaves as the map that include/tree.h describes: what each    *)
(* call returns, and in particular that the separately counted size is the *)
(* number of keys and the inorder walk yields them sorted.                 *)
(***************************************************************************)
Dict == INSTANCE Dictionary WITH store <- StoreOf(tree)

ImplementsDictionary == Dict!Spec

(***************************************************************************)
(* Deleting never makes the tree deeper: tree_del_node only lifts nodes.   *)
(***************************************************************************)
DelNeverDeepens ==
  [][tree'.size < tree.size => tree_height(tree') <= tree_height(tree)]_vars
=============================================================================
