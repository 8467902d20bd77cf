----------------------------- MODULE MCTreeSkel -----------------------------
(***************************************************************************)
(* Bounds for model checking the skeleton.  Two keys are enough for writes *)
(* that commute and writes that do not, and for a tree with an inner node. *)
(***************************************************************************)
EXTENDS TreeSkel

TwoKeys == 1 .. 2
=============================================================================
