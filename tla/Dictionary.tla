----------------------------- MODULE Dictionary -----------------------------
(***************************************************************************)
(* The promise of include/tree.h: every call on the tree acts on a map     *)
(* from keys to values, and ret is what the call returns.  How high the    *)
(* tree is depends on its shape, so Height may return any height that a    *)
(* binary tree of that many nodes can have.                                *)
(***************************************************************************)
EXTENDS Store

CONSTANTS Keys, Values

VARIABLES store, ret

vars == <<store, ret>>

Init ==
  /\ store = EmptyStore
  /\ ret = <<"none", NULL>>

Put(k, v) ==
  /\ store' = StorePut(store, k, v)
  /\ ret' = <<"put", 0>>

Del(k) ==
  \/ /\ k \in DOMAIN store
     /\ store' = StoreDel(store, k)
     /\ ret' = <<"del", 0>>
  \/ /\ k \notin DOMAIN store
     /\ ret' = <<"del", -1>>
     /\ UNCHANGED store

Get(k) == ret' = <<"get", StoreGet(store, k)>> /\ UNCHANGED store

Size == ret' = <<"size", Cardinality(DOMAIN store)>> /\ UNCHANGED store

Height == ret' \in {"height"} \X Heights(store) /\ UNCHANGED store

GetKeys == ret' = <<"getkeys", KeysOf(store)>> /\ UNCHANGED store

GetValues == ret' = <<"getvalues", ValuesOf(store)>> /\ UNCHANGED store

Next ==
  \/ \E k \in Keys, v \in Values : Put(k, v)
  \/ \E k \in Keys : Del(k) \/ Get(k)
  \/ Size
  \/ Height
  \/ GetKeys
  \/ GetValues

Spec == Init /\ [][Next]_vars
=============================================================================
