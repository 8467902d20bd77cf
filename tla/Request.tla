------------------------------ MODULE Request ------------------------------
(***************************************************************************)
(* struct request_t of include/tree_skel-private.h: one write, with the    *)
(* operation number the client is told.  A deletion carries no data.       *)
(***************************************************************************)
EXTENDS Integers

REQUEST_DEL == 0
REQUEST_PUT == 1

request_create(op_n, op, p_key, p_data) ==
  [op_n |-> op_n, op |-> op, p_key |-> p_key, p_data |-> p_data]
=============================================================================
