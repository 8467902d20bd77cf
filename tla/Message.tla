------------------------------ MODULE Message ------------------------------
(***************************************************************************)
(* The messages client and server exchange (protobuf/sdmessage.proto): a   *)
(* record of the fields the handlers read and write.  body stands for      *)
(* whichever of key, keys, data, datas and entry the c_type announces.     *)
(* result is a uint32; the server stores the int -1 in it and the client   *)
(* reads it back into an int, which gives -1 again, so it is kept as the   *)
(* int here.                                                               *)
(***************************************************************************)
EXTENDS Integers

OP_BAD == 0
OP_SIZE == 10
OP_HEIGHT == 20
OP_DEL == 30
OP_GET == 40
OP_PUT == 50
OP_GETKEYS == 60
OP_GETVALUES == 70
OP_VERIFY == 80
OP_ERROR == 99

CT_KEY == 10
CT_VALUE == 20
CT_ENTRY == 30
CT_KEYS == 40
CT_VALUES == 50
CT_RESULT == 60
CT_NONE == 70

Message(opcode, c_type, result, body) ==
  [opcode |-> opcode, c_type |-> c_type, result |-> result, body |-> body]
=============================================================================
