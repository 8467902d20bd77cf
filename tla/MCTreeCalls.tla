---------------------------- MODULE MCTreeCalls ----------------------------
(***************************************************************************)
(* Five keys are the fewest with which the node that replaces a deleted    *)
(* one can be neither its right child nor a leaf, so that every branch of  *)
(* tree_del_node is taken.                                                 *)
(***************************************************************************)
EXTENDS TreeCalls

FiveKeys == 1 .. 5
=============================================================================
