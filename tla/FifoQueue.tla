----------------------------- MODULE FifoQueue -----------------------------
(***************************************************************************)
(* What include/tree_skel-private.h promises of the queue of requests: a   *)
(* request that is added stays at its place in the line until a worker     *)
(* gets the head of the line, which then belongs to that worker alone      *)
(* until it destroys it.  The promise ends when the queue is closed.       *)
(***************************************************************************)
EXTENDS Integers, Sequences

CONSTANTS Requests, Workers, NULL

VARIABLES line, held, open

vars == <<line, held, open>>

Init ==
  /\ line = <<>>
  /\ held = [w \in Workers |-> NULL]
  /\ open = TRUE

Everywhere == {line[j] : j \in DOMAIN line} \cup {held[w] : w \in Workers}

Add(r) ==
  /\ open
  /\ r \notin Everywhere
  /\ line' = Append(line, r)
  /\ UNCHANGED <<held, open>>

Get(w) ==
  /\ open
  /\ line # <<>>
  /\ held[w] = NULL
  /\ held' = [held EXCEPT ![w] = Head(line)]
  /\ line' = Tail(line)
  /\ UNCHANGED open

Destroy(w) ==
  /\ open
  /\ held' = [held EXCEPT ![w] = NULL]
  /\ UNCHANGED <<line, open>>

(***************************************************************************)
(* Closing, and whatever happens to the requests from then on.             *)
(***************************************************************************)
Close == ~open'

Next ==
  \/ Close
  \/ \E r \in Requests : Add(r)
  \/ \E w \in Workers : Get(w) \/ Destroy(w)

Spec == Init /\ [][Next]_vars
=============================================================================
