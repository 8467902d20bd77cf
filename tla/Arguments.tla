----------------------------- MODULE Arguments -----------------------------
(***************************************************************************)
(* source/shared.c: the command line arguments of the two programs.  A     *)
(* text is abstracted to the number strtol reads at its start and whether  *)
(* characters are left behind it.  The largest values of the C types are   *)
(* constants: long and int are narrower when TLC checks, in the same       *)
(* order.                                                                  *)
(***************************************************************************)
EXTENDS Integers

CONSTANTS SHRT_MAX, INT_MAX, LONG_MAX

ASSUME WidthAssumption ==
  /\ SHRT_MAX \in Nat /\ INT_MAX \in Nat /\ LONG_MAX \in Nat
  /\ 1023 < SHRT_MAX /\ SHRT_MAX < INT_MAX /\ INT_MAX < LONG_MAX

Text(number, rest) == [number |-> number, rest |-> rest]

Texts == [number : Int, rest : BOOLEAN]

(***************************************************************************)
(* strtol stops at the limits of a long.                                   *)
(***************************************************************************)
strtol(text) ==
  CASE text.number > LONG_MAX -> LONG_MAX
    [] text.number < -LONG_MAX - 1 -> -LONG_MAX - 1
    [] OTHER -> text.number

(***************************************************************************)
(* The conversion of a long to the signed type with the largest value max, *)
(* which keeps the low bits.                                               *)
(***************************************************************************)
Cut(n, max) == ((n + max + 1) % (2 * (max + 1))) - (max + 1)

Reserved == 0 .. 1023

\* Faulty: the reserved ports are not refused.
parse_port_unreserved(text) ==
  LET port == strtol(text)
  IN  IF text.rest \/ port > SHRT_MAX THEN -1 ELSE Cut(port, SHRT_MAX)

parse_port(text) ==
  LET port == strtol(text)
  IN  IF text.rest \/ port > SHRT_MAX \/ port \in Reserved
      THEN -1 ELSE Cut(port, SHRT_MAX)

parse_int(text) ==
  LET n == strtol(text)
  IN  IF text.rest \/ n > INT_MAX THEN -1 ELSE Cut(n, INT_MAX)
=============================================================================
