---------------------------- MODULE WriteService ----------------------------
(***************************************************************************)
(* What the server promises its clients, without threads, queue or tree:   *)
(*                                                                         *)
(*  - every write is accepted under the next operation number, and the     *)
(*    number is what the client is told;                                   *)
(*  - every accepted write is applied to the store once, and it may        *)
(*    overtake fewer than Window older ones (with Window = 1, none);       *)
(*  - reads are answered from the store as it is, whatever is pending;     *)
(*  - "done" as the answer to verify n means that fewer than Window of the *)
(*    writes up to n are still pending (with Window = 1, that none is).    *)
(*                                                                         *)
(* One client is served at a time.  pending holds the accepted writes that *)
(* have not been applied, owed the opcode of an accepted write whose       *)
(* number has not been told, answer the message on its way to the client.  *)
(***************************************************************************)
EXTENDS Store, Message, Request

CONSTANTS Keys, Values, Window,
          AskedNumbers   \* the operation numbers clients ask about

VARIABLES next, pending, store, owed, answer

vars == <<next, pending, store, owed, answer>>

Init ==
  /\ next = 1
  /\ pending = {}
  /\ store = EmptyStore
  /\ owed = NULL
  /\ answer = NULL

Idle == owed = NULL /\ answer = NULL

Accept(opcode, op, k, v) ==
  /\ Idle
  /\ pending' = pending \cup {request_create(next, op, k, v)}
  /\ next' = next + 1
  /\ owed' = opcode
  /\ UNCHANGED <<store, answer>>

Acknowledge ==
  /\ owed # NULL
  /\ answer' = Message(owed + 1, CT_RESULT, next - 1, NULL)
  /\ owed' = NULL
  /\ UNCHANGED <<next, pending, store>>

PendingUpTo(n) == {r \in pending : r.op_n <= n}

Apply(r) ==
  /\ Cardinality(PendingUpTo(r.op_n - 1)) < Window
  /\ \/ r.op = REQUEST_PUT /\ store' = StorePut(store, r.p_key, r.p_data)
     \/ r.op = REQUEST_DEL /\ store' = StoreDel(store, r.p_key)
  /\ pending' = pending \ {r}
  /\ UNCHANGED <<next, owed, answer>>

Tell(message) ==
  /\ Idle
  /\ answer' = message
  /\ UNCHANGED <<next, pending, store, owed>>

ReadSize == Tell(Message(OP_SIZE + 1, CT_RESULT, Cardinality(DOMAIN store), NULL))

ReadHeight ==
  \E h \in Heights(store) : Tell(Message(OP_HEIGHT + 1, CT_RESULT, h, NULL))

ReadValue(k) == Tell(Message(OP_GET + 1, CT_VALUE, 0, StoreGet(store, k)))

ReadKeys == Tell(Message(OP_GETKEYS + 1, CT_KEYS, 0, KeysOf(store)))

ReadValues == Tell(Message(OP_GETVALUES + 1, CT_VALUES, 0, ValuesOf(store)))

(***************************************************************************)
(* Asking uses up an operation number too.                                 *)
(***************************************************************************)
Verify(n) ==
  /\ Idle
  /\ n \in 1 .. next - 1
  /\ \/ answer' = Message(OP_VERIFY + 1, CT_RESULT, -1, NULL)
     \/ /\ Cardinality(PendingUpTo(n)) < Window
        /\ answer' = Message(OP_VERIFY + 1, CT_RESULT, 0, NULL)
  /\ next' = next + 1
  /\ UNCHANGED <<pending, store, owed>>

RefuseVerify(n) ==
  /\ n \notin 1 .. next - 1
  /\ Tell(Message(OP_ERROR, CT_NONE, n, NULL))

Deliver == answer # NULL /\ answer' = NULL /\ UNCHANGED <<next, pending, store, owed>>

Next ==
  \/ \E k \in Keys, v \in Values : Accept(OP_PUT, REQUEST_PUT, k, v)
  \/ \E k \in Keys : Accept(OP_DEL, REQUEST_DEL, k, NULL)
  \/ Acknowledge
  \/ \E r \in pending : Apply(r)
  \/ ReadSize \/ ReadHeight \/ ReadKeys \/ ReadValues
  \/ \E k \in Keys : ReadValue(k)
  \/ \E n \in AskedNumbers : Verify(n) \/ RefuseVerify(n)
  \/ Deliver

Spec == Init /\ [][Next]_vars
=============================================================================
