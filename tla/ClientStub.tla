----------------------------- MODULE ClientStub -----------------------------
(***************************************************************************)
(* source/client_stub.c and the conversions beneath it: the messages that  *)
(* the rtree_ functions send, what message_t__pack makes of an answer,     *)
(* what message_t__unpack makes of the bytes the client has read, and what *)
(* each function returns for it.                                           *)
(*                                                                         *)
(* Bytes are abstracted to fields.  A scalar is one field; an element of a *)
(* repeated member is two, its length and its contents.  Fields that no    *)
(* rtree_ function reads are left out, and so are members with their       *)
(* default values, which are not packed.                                   *)
(***************************************************************************)
EXTENDS Message, Sequences

CONSTANTS
  NULL,
  EBADMSG,  \* rtree_verify returned, and left errno at EBADMSG
  Segment   \* fields that always arrive together at the start of an answer

ASSUME StubAssumption == Segment \in Nat \ {0}

(***************************************************************************)
(* The requests.                                                           *)
(***************************************************************************)
Call(opcode, key, data, op_n) ==
  [opcode |-> opcode, key |-> key, data |-> data, op_n |-> op_n]

put_message(key, data) == Call(OP_PUT, key, data, 0)
get_message(key) == Call(OP_GET, key, NULL, 0)
del_message(key) == Call(OP_DEL, key, NULL, 0)
size_message == Call(OP_SIZE, NULL, NULL, 0)
height_message == Call(OP_HEIGHT, NULL, NULL, 0)
get_keys_message == Call(OP_GETKEYS, NULL, NULL, 0)
get_values_message == Call(OP_GETVALUES, NULL, NULL, 0)
verify_message(op_n) == Call(OP_VERIFY, NULL, NULL, op_n)
-----------------------------------------------------------------------------
Field(tag, value) == [tag |-> tag, value |-> value]

Elements(tag, list) ==
  [j \in 1 .. 2 * Len(list) |->
     IF j % 2 = 1 THEN Field("length", tag) ELSE Field(tag, list[j \div 2])]

\* Faulty: a missing value is packed.
ScalarAlways(tag, value, default) == <<Field(tag, value)>>

Scalar(tag, value, default) ==
  IF value = default THEN <<>> ELSE <<Field(tag, value)>>

(***************************************************************************)
(* An answer of the server as the fields it is sent in.                    *)
(***************************************************************************)
message_t__pack(message) ==
  Scalar("opcode", message.opcode, OP_BAD) \o
    CASE message.c_type = CT_KEYS -> Elements("keys", message.body)
      [] message.c_type = CT_VALUES -> Elements("datas", message.body)
      [] message.c_type = CT_VALUE -> Scalar("data", message.body, NULL)
      [] OTHER -> Scalar("result", message.result, 0)

(***************************************************************************)
(* Every length is followed by the contents it announces.                  *)
(***************************************************************************)
WellFormed(fields) ==
  \A j \in DOMAIN fields :
    /\ fields[j].tag = "length" =>
         j < Len(fields) /\ fields[j + 1].tag = fields[j].value
    /\ fields[j].tag \in {"keys", "datas"} => j > 1 /\ fields[j - 1].tag = "length"

(***************************************************************************)
(* The fields are taken one after another.                                 *)
(***************************************************************************)
ValuesWith(tag, fields) ==
  LET found[n \in 0 .. Len(fields)] ==
        IF n = 0 THEN <<>>
        ELSE IF fields[n].tag = tag THEN Append(found[n - 1], fields[n].value)
        ELSE found[n - 1]
  IN  found[Len(fields)]

(***************************************************************************)
(* Of a scalar that occurs more than once the last value counts.           *)
(***************************************************************************)
LastWith(tag, fields, default) ==
  LET found == ValuesWith(tag, fields)
  IN  IF found = <<>> THEN default ELSE found[Len(found)]

(***************************************************************************)
(* The message in the bytes that read_all returned; nothing if there are   *)
(* none or they do not make a message.                                     *)
(***************************************************************************)
message_t__unpack(fields) ==
  IF fields = <<>> \/ ~WellFormed(fields) THEN NULL
  ELSE [opcode |-> LastWith("opcode", fields, OP_BAD),
        result |-> LastWith("result", fields, 0),
        data   |-> LastWith("data", fields, NULL),
        keys   |-> ValuesWith("keys", fields),
        datas  |-> ValuesWith("datas", fields)]

(***************************************************************************)
(* An answer as a client has it that has read all of it and nothing else.  *)
(***************************************************************************)
Whole(message) ==
  [opcode |-> message.opcode,
   result |-> message.result,
   data   |-> IF message.c_type = CT_VALUE THEN message.body ELSE NULL,
   keys   |-> IF message.c_type = CT_KEYS THEN message.body ELSE <<>>,
   datas  |-> IF message.c_type = CT_VALUES THEN message.body ELSE <<>>]
-----------------------------------------------------------------------------
(***************************************************************************)
(* How many fields read_all may find, of those that the server has sent:   *)
(* all, or fewer when a long answer arrives in several segments.           *)
(***************************************************************************)
\* Faulty: read_all does not wait for the server.
read_all_at_once(fields) == {Len(fields)}

\* Faulty: read_all waits for a full segment.
read_all_segment(fields) == Segment .. Len(fields)

read_all(fields) ==
  {n \in 1 .. Len(fields) : n = Len(fields) \/ n >= Segment}

\* Faulty: what is read also stays in the socket.
remaining_peeked(fields, n) == fields

(***************************************************************************)
(* What read_all leaves in the socket.                                     *)
(***************************************************************************)
remaining(fields, n) == SubSeq(fields, n + 1, Len(fields))
-----------------------------------------------------------------------------
(***************************************************************************)
(* The results, from the message network_send_receive returned or NULL.    *)
(* Only rtree_verify looks at the opcode of the answer.                    *)
(***************************************************************************)
rtree_put(p_msg) == IF p_msg = NULL THEN -1 ELSE p_msg.result

rtree_get(p_msg) == IF p_msg = NULL THEN NULL ELSE p_msg.data

rtree_del(p_msg) == IF p_msg = NULL THEN -1 ELSE p_msg.result

rtree_size(p_msg) == IF p_msg = NULL THEN -1 ELSE p_msg.result

rtree_height(p_msg) == IF p_msg = NULL THEN -1 ELSE p_msg.result

rtree_get_keys(p_msg) == IF p_msg = NULL THEN NULL ELSE p_msg.keys

rtree_get_values(p_msg) == IF p_msg = NULL THEN NULL ELSE p_msg.datas

\* Faulty: the opcode of the answer is not looked at.
rtree_verify_result(p_msg) == IF p_msg = NULL THEN -1 ELSE p_msg.result

rtree_verify(p_msg) ==
  CASE p_msg = NULL -> -1
    [] p_msg # NULL /\ p_msg.opcode = OP_ERROR -> EBADMSG
    [] OTHER -> p_msg.result

Returned(opcode, p_msg) ==
  CASE opcode = OP_PUT -> rtree_put(p_msg)
    [] opcode = OP_GET -> rtree_get(p_msg)
    [] opcode = OP_DEL -> rtree_del(p_msg)
    [] opcode = OP_SIZE -> rtree_size(p_msg)
    [] opcode = OP_HEIGHT -> rtree_height(p_msg)
    [] opcode = OP_GETKEYS -> rtree_get_keys(p_msg)
    [] opcode = OP_GETVALUES -> rtree_get_values(p_msg)
    [] opcode = OP_VERIFY -> rtree_verify(p_msg)
=============================================================================
