-------------------------- MODULE TreeSkelHistory --------------------------
(***************************************************************************)
(* TreeSkel with a variable that the code does not have: ordered, the map  *)
(* that the writes accepted so far make when they are applied in the order *)
(* of acceptance.  It only observes; every step is a step of TreeSkel.     *)
(***************************************************************************)
EXTENDS TreeSkel

VARIABLE ordered

historyVars == <<vars, ordered>>

HistoryInit ==
  /\ Init
  /\ ordered = EmptyStore

HistoryNext ==
  /\ Next
  /\ ordered' =
       IF main = "poll" /\ main' = "assign"
       THEN LET r == Last(gp_queue_head')
            IN  IF r.op = REQUEST_PUT THEN StorePut(ordered, r.p_key, r.p_data)
                                      ELSE StoreDel(ordered, r.p_key)
       ELSE ordered

HistorySpec == HistoryInit /\ [][HistoryNext]_historyVars /\ Scheduling
-----------------------------------------------------------------------------
(***************************************************************************)
(* Once nothing is pending, the tree holds what the accepted writes make   *)
(* in the order in which they were accepted (include/client_stub.h:25).    *)
(***************************************************************************)
LastWriteWins == Pending = {} => StoreOf(gp_TREE) = ordered
=============================================================================
