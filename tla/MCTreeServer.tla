---------------------------- MODULE MCTreeServer ----------------------------
(***************************************************************************)
(* The command lines of TreeServer for TLC: the ports at both ends of each *)
(* range parse_port tells apart, and numbers of threads that are too       *)
(* small, usable, and usable once they have been cut to an int.            *)
(***************************************************************************)
EXTENDS TreeServer

Ports == {Text(n, FALSE) : n \in {-2000000, -65000, -40000, -1, 0, 1023, 1024, 32767,
                                  32768, 2000000}}
         \cup {Text(1024, TRUE)}

Threads == {Text(n, FALSE) : n \in {-2000000, -1, 0, 1, 2, 262144,
                                    2 - 2 * (INT_MAX + 1)}}
           \cup {Text(2, TRUE)}
=============================================================================
