------------------------- MODULE ConnectionService -------------------------
(***************************************************************************)
(* What the main loop of the server promises its clients, without slots,   *)
(* descriptors and rounds: it takes one message at a time from a connected *)
(* client and answers it before it takes another; it ends the connection   *)
(* of a client that quits or sends what is not a message, and of any       *)
(* client while more are connected than it has room for; no message that   *)
(* waits is passed over forever.                                           *)
(*                                                                         *)
(* When a client has closed its connection without quitting, the server    *)
(* may get stuck over it.                                                  *)
(***************************************************************************)
EXTENDS Integers, FiniteSets

CONSTANTS
  Clients,
  NoFd,      \* no client
  Capacity   \* how many clients the server has room for

VARIABLES
  serving,  \* the client the server is dealing with, or NoFd
  stage,    \* what it is doing with it
  inbox,    \* what a client has sent and the server has not taken
  client    \* what each client is doing

vars == <<serving, stage, inbox, client>>

Init ==
  /\ serving = NoFd
  /\ stage = "free"
  /\ inbox = [c \in Clients |-> "nothing"]
  /\ client = [c \in Clients |-> "out"]

Closed(c) == client[c] \in {"left", "dead"}

Connected == {c \in Clients : client[c] \notin {"out", "cut off"}}
-----------------------------------------------------------------------------
TakeRequest(c) ==
  /\ stage = "free"
  /\ inbox[c] = "request"
  /\ inbox' = [inbox EXCEPT ![c] = "nothing"]
  /\ serving' = c
  /\ stage' = "serving"
  /\ UNCHANGED client

TakeOther(c) ==
  /\ stage = "free"
  /\ inbox[c] \in {"piece", "quit"}
  /\ inbox' = [inbox EXCEPT ![c] = "nothing"]
  /\ serving' = c
  /\ stage' = "closing"
  /\ UNCHANGED client

GiveUp(c) ==
  /\ stage = "free"
  /\ c \in Connected
  /\ Closed(c) \/ Cardinality(Connected) > Capacity
  /\ serving' = c
  /\ stage' = "closing"
  /\ UNCHANGED <<inbox, client>>

GetStuck(c) ==
  /\ stage = "free"
  /\ client[c] = "dead"
  /\ serving' = c
  /\ stage' = "stuck"
  /\ UNCHANGED <<inbox, client>>

Answer ==
  /\ stage = "serving"
  /\ client' = [client EXCEPT ![serving] = IF @ = "waiting" THEN "idle" ELSE @]
  /\ serving' = NoFd
  /\ stage' = "free"
  /\ UNCHANGED inbox

Close ==
  /\ stage = "closing"
  /\ client' = [client EXCEPT ![serving] =
                  IF Closed(serving) THEN "out" ELSE "cut off"]
  /\ inbox' = [inbox EXCEPT ![serving] = "nothing"]
  /\ serving' = NoFd
  /\ stage' = "free"
-----------------------------------------------------------------------------
Connect(c) ==
  /\ client[c] = "out"
  /\ client' = [client EXCEPT ![c] = "idle"]
  /\ UNCHANGED <<serving, stage, inbox>>

SendRequest(c) ==
  /\ client[c] = "idle"
  /\ client' = [client EXCEPT ![c] = "waiting"]
  /\ \E m \in {"request", "piece"} : inbox' = [inbox EXCEPT ![c] = m]
  /\ UNCHANGED <<serving, stage>>

Quit(c) ==
  /\ client[c] = "idle"
  /\ client' = [client EXCEPT ![c] = "left"]
  /\ inbox' = [inbox EXCEPT ![c] = "quit"]
  /\ UNCHANGED <<serving, stage>>

Die(c) ==
  /\ client[c] \in {"idle", "waiting"}
  /\ client' = [client EXCEPT ![c] = "dead"]
  /\ UNCHANGED <<serving, stage, inbox>>

Restart(c) ==
  /\ client[c] = "cut off"
  /\ client' = [client EXCEPT ![c] = "out"]
  /\ UNCHANGED <<serving, stage, inbox>>

Take(c) == TakeRequest(c) \/ TakeOther(c)

Next ==
  \/ \E c \in Clients : Take(c) \/ GiveUp(c) \/ GetStuck(c)
  \/ Answer \/ Close
  \/ \E c \in Clients : Connect(c) \/ SendRequest(c) \/ Quit(c) \/ Die(c) \/ Restart(c)

(***************************************************************************)
(* The turn of a client that has sent something: its message is taken, or  *)
(* its connection is given up.                                             *)
(***************************************************************************)
Turn(c) == inbox[c] # "nothing" /\ (Take(c) \/ GiveUp(c))

Fairness ==
  /\ WF_vars(Answer \/ Close)
  /\ \A c \in Clients : SF_vars(Turn(c))

Spec == Init /\ [][Next]_vars /\ Fairness
=============================================================================
