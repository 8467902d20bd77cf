--------------------------- MODULE NetworkServer ---------------------------
(***************************************************************************)
(* source/network_server.c: the main loop of the server.  One thread polls *)
(* the listening socket and the connections, accepts one connection per    *)
(* round, and serves the connections that poll reported, in the order of   *)
(* the array, one message each.  Closing a connection shifts the ones      *)
(* behind it and ends the round.                                           *)
(*                                                                         *)
(* A message is what read_all and message_t__unpack make of it: a request, *)
(* OP_BAD ("quit"), or bytes that cannot be unpacked.  What imvoke does    *)
(* with a request is the subject of TreeSkel; here it yields an answer.    *)
(* accept succeeds when a connection is pending.                           *)
(***************************************************************************)
EXTENDS Integers, Sequences, FiniteSets

CONSTANTS
  NFDESC,      \* the size of the array of connections (in the code, 20)
  Clients,     \* client processes; a connection is named by its client
  Mortal,      \* the clients that may die without sending OP_BAD
  Listening,   \* the descriptor of the listening socket
  NoFd         \* the descriptor -1, which poll ignores

ASSUME ServerAssumption ==
  /\ NFDESC \in Nat /\ NFDESC >= 2
  /\ Mortal \subseteq Clients
  /\ Listening # NoFd
  /\ Listening \notin Clients /\ NoFd \notin Clients

Slot == 0 .. NFDESC - 1

Events == {"POLLIN", "POLLHUP"}

VARIABLES
  connections,  \* the array of struct pollfd
  socket_ids,   \* a number for each slot, printed in the log
  nfds,         \* the slots below nfds are in use
  i,            \* the slot being looked at
  main,         \* where the loop is
  backlog,      \* the connection that waits to be accepted, if any
  inbox,        \* what a client has sent and the server has not read
  client        \* what each client is doing

serverVars == <<connections, socket_ids, nfds, i, main>>
clientVars == <<backlog, inbox, client>>
vars == <<serverVars, clientVars>>

Unused == [fd |-> NoFd, events |-> {}, revents |-> {}]

\* Faulty: the listening socket is not counted.
InitUncounted ==
  /\ connections = [s \in Slot |->
       IF s = 0 THEN [fd |-> Listening, events |-> {"POLLIN"}, revents |-> {}]
                ELSE Unused]
  /\ socket_ids = [s \in Slot \ {0} |-> s]
  /\ nfds = 0
  /\ i = NFDESC
  /\ main = "poll"
  /\ backlog = <<>>
  /\ inbox = [c \in Clients |-> "nothing"]
  /\ client = [c \in Clients |-> "out"]

Init ==
  /\ connections = [s \in Slot |->
       IF s = 0 THEN [fd |-> Listening, events |-> {"POLLIN"}, revents |-> {}]
                ELSE Unused]
  /\ socket_ids = [s \in Slot \ {0} |-> s]
  /\ nfds = 1
  /\ i = NFDESC
  /\ main = "poll"
  /\ backlog = <<>>
  /\ inbox = [c \in Clients |-> "nothing"]
  /\ client = [c \in Clients |-> "out"]
-----------------------------------------------------------------------------
(***************************************************************************)
(* The kernel: what poll reports for a descriptor.  A connection that its  *)
(* client has closed stays readable; if it was reset (the clients in       *)
(* reset), it is reported as hung up as well.                              *)
(***************************************************************************)
Closed(c) == client[c] \in {"left", "dead"}

Report(fd, reset) ==
  CASE fd = NoFd -> {}
    [] fd = Listening -> IF backlog # <<>> THEN {"POLLIN"} ELSE {}
    [] OTHER -> (IF inbox[fd] # "nothing" \/ Closed(fd) THEN {"POLLIN"} ELSE {})
                \cup (IF fd \in reset THEN {"POLLHUP"} ELSE {})

poll ==
  /\ main = "poll"
  /\ \E reset \in SUBSET {c \in Clients : Closed(c)} :
       connections' = [s \in Slot |->
         IF s < nfds
         THEN [connections[s] EXCEPT !.revents = Report(connections[s].fd, reset)]
         ELSE connections[s]]
  /\ main' = "accept"
  /\ UNCHANGED <<socket_ids, nfds, i, clientVars>>

(***************************************************************************)
(* A new connection gets the first unused slot.                            *)
(***************************************************************************)
accept ==
  /\ main = "accept"
  /\ \/ /\ "POLLIN" \in connections[0].revents /\ nfds < NFDESC
        /\ connections' = [connections EXCEPT ![nfds].fd = Head(backlog),
                                              ![nfds].events = {"POLLIN"}]
        /\ nfds' = nfds + 1
        /\ backlog' = Tail(backlog)
     \/ /\ ~("POLLIN" \in connections[0].revents /\ nfds < NFDESC)
        /\ UNCHANGED <<connections, nfds, backlog>>
  /\ i' = 1
  /\ main' = "scan"
  /\ UNCHANGED <<socket_ids, inbox, client>>

\* Faulty: at the last slot the round ends, without closing it.
ScanSlotKeepingLast ==
  /\ main = "scan"
  /\ i < nfds
  /\ \/ /\ i = NFDESC - 1
        /\ main' = "poll"
        /\ UNCHANGED i
     \/ /\ i # NFDESC - 1 /\ "POLLIN" \in connections[i].revents
        /\ main' = "receive"
        /\ UNCHANGED i
     \/ /\ i # NFDESC - 1 /\ "POLLIN" \notin connections[i].revents
        /\ i' = i + 1
        /\ UNCHANGED main
  /\ UNCHANGED <<connections, socket_ids, nfds, clientVars>>

(***************************************************************************)
(* The loop over the connections.  The last slot only exists to be closed  *)
(* at once.                                                                *)
(***************************************************************************)
ScanSlot ==
  /\ main = "scan"
  /\ i < nfds
  /\ \/ /\ i = NFDESC - 1
        /\ main' = "close"
        /\ UNCHANGED i
     \/ /\ i # NFDESC - 1 /\ "POLLIN" \in connections[i].revents
        /\ main' = "receive"
        /\ UNCHANGED i
     \/ /\ i # NFDESC - 1 /\ "POLLIN" \notin connections[i].revents
        /\ i' = i + 1
        /\ UNCHANGED main
  /\ UNCHANGED <<connections, socket_ids, nfds, clientVars>>

(***************************************************************************)
(* Behind the loop the hang-up test looks at the slot after the last one.  *)
(***************************************************************************)
ScanEnds ==
  /\ main = "scan"
  /\ i = nfds
  /\ main' = IF "POLLHUP" \in connections[i].revents THEN "close" ELSE "poll"
  /\ UNCHANGED <<connections, socket_ids, nfds, i, clientVars>>

(***************************************************************************)
(* read_all spins until something can be read, which for a connection that *)
(* its client has closed is never.                                         *)
(***************************************************************************)
read_all(fd) ==
  /\ inbox[fd] # "nothing"
  /\ inbox' = [inbox EXCEPT ![fd] = "nothing"]

(***************************************************************************)
(* A request is handed to imvoke; OP_BAD and what cannot be unpacked end   *)
(* the connection.                                                         *)
(***************************************************************************)
PlaceAfter(message) == IF message = "request" THEN "send" ELSE "close"

network_receive ==
  LET fd == connections[i].fd
  IN  /\ main = "receive"
      /\ read_all(fd)
      /\ main' = PlaceAfter(inbox[fd])
      /\ UNCHANGED <<connections, socket_ids, nfds, i, backlog, client>>

\* Faulty: one message per round.
network_send_and_poll ==
  LET fd == connections[i].fd
  IN  /\ main = "send"
      /\ client' = [client EXCEPT ![fd] = IF @ = "waiting" THEN "idle" ELSE @]
      /\ main' = "poll"
      /\ UNCHANGED <<connections, socket_ids, nfds, i, backlog, inbox>>

(***************************************************************************)
(* The answer of imvoke.  Errors of write_all go unnoticed.                *)
(***************************************************************************)
network_send ==
  LET fd == connections[i].fd
  IN  /\ main = "send"
      /\ client' = [client EXCEPT ![fd] = IF @ = "waiting" THEN "idle" ELSE @]
      /\ i' = i + 1
      /\ main' = "scan"
      /\ UNCHANGED <<connections, socket_ids, nfds, backlog, inbox>>

\* Faulty: the shift starts one slot too late.
shifted_late(array, last) ==
  [s \in DOMAIN array |-> IF s > i /\ s # NFDESC - 1 THEN array[s + 1]
                          ELSE IF s = NFDESC - 1 THEN last ELSE array[s]]

(***************************************************************************)
(* The elements behind slot i move down by one; last takes the last slot.  *)
(***************************************************************************)
shifted(array, last) ==
  [s \in DOMAIN array |-> IF s = NFDESC - 1 THEN last
                          ELSE IF s >= i THEN array[s + 1] ELSE array[s]]

\* Faulty: the number of the freed slot is lost.
connection_close_losing ==
  LET fd == connections[i].fd
  IN  /\ main = "close"
      /\ connections' = shifted(connections, [connections[NFDESC - 1] EXCEPT !.fd = NoFd])
      /\ socket_ids' = shifted(socket_ids, socket_ids[NFDESC - 1])
      /\ nfds' = nfds - 1
      /\ main' = "poll"
      /\ client' = [client EXCEPT ![fd] = IF Closed(fd) THEN "out" ELSE "cut off"]
      /\ inbox' = [inbox EXCEPT ![fd] = "nothing"]
      /\ UNCHANGED <<i, backlog>>

\* Faulty: the last connection is moved into the gap, and its slot keeps revents.
connection_close_moving ==
  LET fd == connections[i].fd
      used == nfds - 1
  IN  /\ main = "close"
      /\ connections' = [connections EXCEPT ![i] = connections[used],
                                            ![used].fd = NoFd]
      /\ socket_ids' = [socket_ids EXCEPT ![i] = socket_ids[used],
                                          ![used] = socket_ids[i]]
      /\ nfds' = used
      /\ main' = "poll"
      /\ client' = [client EXCEPT ![fd] = IF Closed(fd) THEN "out" ELSE "cut off"]
      /\ inbox' = [inbox EXCEPT ![fd] = "nothing"]
      /\ UNCHANGED <<i, backlog>>

(***************************************************************************)
(* A client that is still there will find out that it is cut off.          *)
(***************************************************************************)
connection_close ==
  LET fd == connections[i].fd
  IN  /\ main = "close"
      /\ connections' = shifted(connections, [connections[NFDESC - 1] EXCEPT !.fd = NoFd])
      /\ socket_ids' = shifted(socket_ids, socket_ids[i])
      /\ nfds' = nfds - 1
      /\ main' = "poll"
      /\ client' = [client EXCEPT ![fd] = IF Closed(fd) THEN "out" ELSE "cut off"]
      /\ inbox' = [inbox EXCEPT ![fd] = "nothing"]
      /\ UNCHANGED <<i, backlog>>
-----------------------------------------------------------------------------
(***************************************************************************)
(* The clients.  listen is called with 0, which lets one connection wait.  *)
(* A client may send before it is accepted; it then waits for the answer,  *)
(* so it never has two messages under way.  When the bytes arrive in       *)
(* pieces, read_all takes the first piece for the message.                 *)
(***************************************************************************)
Connect(c) ==
  /\ client[c] = "out"
  /\ backlog = <<>>
  /\ backlog' = <<c>>
  /\ client' = [client EXCEPT ![c] = "idle"]
  /\ UNCHANGED <<serverVars, inbox>>

SendRequest(c) ==
  /\ client[c] = "idle"
  /\ client' = [client EXCEPT ![c] = "waiting"]
  /\ \E m \in {"request", "piece"} : inbox' = [inbox EXCEPT ![c] = m]
  /\ UNCHANGED <<serverVars, backlog>>

Quit(c) ==
  /\ client[c] = "idle"
  /\ client' = [client EXCEPT ![c] = "left"]
  /\ inbox' = [inbox EXCEPT ![c] = "quit"]
  /\ UNCHANGED <<serverVars, backlog>>

(***************************************************************************)
(* A client that has been cut off is started again.                        *)
(***************************************************************************)
Restart(c) ==
  /\ client[c] = "cut off"
  /\ client' = [client EXCEPT ![c] = "out"]
  /\ UNCHANGED <<serverVars, backlog, inbox>>

(***************************************************************************)
(* A client ends without sending OP_BAD.                                   *)
(***************************************************************************)
Die(c) ==
  /\ client[c] \in {"idle", "waiting"}
  /\ client' = [client EXCEPT ![c] = "dead"]
  /\ UNCHANGED <<serverVars, backlog, inbox>>

network_main_loop ==
  poll \/ accept \/ ScanSlot \/ ScanEnds \/ network_receive \/ network_send
  \/ connection_close

Next ==
  \/ network_main_loop
  \/ \E c \in Clients : Connect(c) \/ SendRequest(c) \/ Quit(c) \/ Restart(c)

NextWithDeaths == Next \/ \E c \in Mortal : Die(c)

(***************************************************************************)
(* The main thread is scheduled as long as it can go on; clients are free. *)
(***************************************************************************)
Spec == Init /\ [][Next]_vars /\ WF_vars(network_main_loop)

SpecWithDeaths == Init /\ [][NextWithDeaths]_vars /\ WF_vars(network_main_loop)
-----------------------------------------------------------------------------
Fds == Clients \cup {Listening, NoFd}

(***************************************************************************)
(* Types, with the slots that may be in use in each place of the loop.     *)
(***************************************************************************)
TypeOK ==
  /\ connections \in [Slot -> [fd : Fds, events : SUBSET Events,
                               revents : SUBSET Events]]
  /\ socket_ids \in [Slot \ {0} -> Slot \ {0}]
  /\ nfds \in 1 .. NFDESC
  /\ i \in 1 .. NFDESC
  /\ main \in {"poll", "accept", "scan", "receive", "send", "close"}
  /\ backlog \in {<<>>} \cup {<<c>> : c \in Clients}
  /\ inbox \in [Clients -> {"nothing", "request", "piece", "quit"}]
  /\ client \in [Clients -> {"out", "idle", "waiting", "left", "dead", "cut off"}]

(***************************************************************************)
(* When the loop goes back to poll, the array has room: the listening      *)
(* socket is never left unserved because the last slot is taken.           *)
(***************************************************************************)
AlwaysRoom == main \in {"poll", "accept"} => nfds < NFDESC

(***************************************************************************)
(* Shifting loses and doubles no connection: the clients in the used slots *)
(* are exactly those that are connected and accepted, each once, and the   *)
(* unused slots are ignored by poll.                                       *)
(***************************************************************************)
Accepted ==
  {c \in Clients : client[c] \notin {"out", "cut off"} /\ backlog # <<c>>}

OneSlotEach ==
  /\ {connections[s].fd : s \in 1 .. nfds - 1} = Accepted
  /\ \A s, u \in 1 .. nfds - 1 : connections[s].fd = connections[u].fd => s = u
  /\ \A s \in nfds .. NFDESC - 1 : connections[s].fd = NoFd

(***************************************************************************)
(* The numbers printed for the connections stay apart: socket_ids is a     *)
(* permutation of the slots.                                               *)
(***************************************************************************)
SocketIdsDistinct ==
  \A s, u \in Slot \ {0} : socket_ids[s] = socket_ids[u] => s = u

(***************************************************************************)
(* The server has one thread, and read_all does not return before there is *)
(* something to read: it is only called for a connection that has sent     *)
(* something or that the client has closed.  A slot that kept the revents  *)
(* of an earlier connection would make it wait for a silent client.        *)
(***************************************************************************)
NeverWaitsForLiveClient ==
  main = "receive" => LET c == connections[i].fd
                      IN  inbox[c] # "nothing" \/ client[c] = "dead"

(***************************************************************************)
(* The loop keeps the promises of ConnectionService: one message at a      *)
(* time, no connection closed that was still wanted unless the last slot   *)
(* was taken, and no message passed over forever.                          *)
(***************************************************************************)
Stuck == main = "receive" /\ inbox[connections[i].fd] = "nothing"

Serving == IF main \in {"send", "close"} \/ Stuck THEN connections[i].fd ELSE NoFd

Stage ==
  CASE main = "send" -> "serving"
    [] main = "close" -> "closing"
    [] Stuck -> "stuck"
    [] OTHER -> "free"

Service == INSTANCE ConnectionService WITH
  Capacity <- NFDESC - 2, serving <- Serving, stage <- Stage

ImplementsConnectionService == Service!Spec

(***************************************************************************)
(* A connection is removed after its client has closed it                  *)
(* (source/network_server.c:184).                                          *)
(***************************************************************************)
ClosedIsRemoved == \A c \in Clients : client[c] = "dead" ~> client[c] = "out"
=============================================================================
