------------------------------- MODULE Store -------------------------------
(***************************************************************************)
(* What a client of the tree thinks it holds: a finite map from keys to    *)
(* values, with the keys in lexicographic order.  include/tree.h promises  *)
(* nothing about nodes, so the abstract specifications are written with    *)
(* these operators only.  A store is a function whose domain is the set of *)
(* keys present.  Keys are integers: their order stands for strcmp's.      *)
(***************************************************************************)
EXTENDS Integers, Sequences, FiniteSets

CONSTANT NULL          \* the C null pointer

(***************************************************************************)
(* The elements of the finite set S as a sequence, in the strict total     *)
(* order Before: the i-th is the one with i - 1 elements before it.        *)
(***************************************************************************)
InSequence(S, Before(_, _)) ==
  [i \in 1 .. Cardinality(S) |->
     CHOOSE x \in S : Cardinality({y \in S : Before(y, x)}) = i - 1]

EmptyStore == [k \in {} |-> NULL]

StorePut(store, k, v) ==
  [x \in DOMAIN store \cup {k} |-> IF x = k THEN v ELSE store[x]]

StoreDel(store, k) == [x \in DOMAIN store \ {k} |-> store[x]]

StoreGet(store, k) == IF k \in DOMAIN store THEN store[k] ELSE NULL

KeyBefore(j, k) == j < k

KeysOf(store) == InSequence(DOMAIN store, KeyBefore)

ValuesOf(store) ==
  LET ks == KeysOf(store) IN [i \in 1 .. Len(ks) |-> store[ks[i]]]

(***************************************************************************)
(* The heights a binary tree with the keys of the store can have.          *)
(***************************************************************************)
Heights(store) ==
  LET n == Cardinality(DOMAIN store) IN {h \in 0 .. n : 2^h > n}
=============================================================================
