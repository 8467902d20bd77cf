--------------------------- MODULE MCClientServer ---------------------------
(***************************************************************************)
(* Bounds for ClientServer.  Two keys make a list that can be torn.        *)
(* The clients run the same program; each has half of the commands.  Three *)
(* numbers can be asked for, as a verify uses one up that is no write's.   *)
(***************************************************************************)
EXTENDS ClientServer

CONSTANTS c1, c2, a

TwoKeys == 1 .. 2

Some == [c \in Clients |->
  IF c = c1
  THEN {put_message(1, a), get_message(1), get_keys_message, size_message}
  ELSE {put_message(2, a), del_message(1), get_values_message, height_message,
        verify_message(1), verify_message(2), verify_message(3)}]
=============================================================================
