---------------------------- MODULE ClientServer ----------------------------
(***************************************************************************)
(* The whole system: the clients (source/tree_client.c over client_stub.c),*)
(* the main loop of the server, as what NetworkServer is shown to promise  *)
(* (ConnectionService), and its skeleton, as what TreeSkel is shown to     *)
(* promise (WriteService).  A message that the main loop receives is one   *)
(* that a client has typed; its answer is the skeleton's, and it goes      *)
(* back, perhaps in several segments, to the client of the connection.     *)
(*                                                                         *)
(* A client is "off" (no process, or no connection), at its "prompt",      *)
(* "reading" in read_all, or has "returned" from an rtree_ function.       *)
(* Commands that main refuses itself ("help", a wrong number of arguments, *)
(* a verify below 0, an unknown command) change nothing and are left out.  *)
(* A crash of a client closes its connection.                              *)
(***************************************************************************)
EXTENDS ClientStub, FiniteSets

CONSTANTS
  Clients, NoFd, Capacity,              \* see ConnectionService
  Keys, Values, AskedNumbers, Window,   \* see WriteService
  Commands,      \* what the user of each client types
  MaxCommands    \* bound on the number of commands typed

(***************************************************************************)
(* The messages that main can send for what a user types.                  *)
(***************************************************************************)
Calls ==
  {put_message(k, v) : k \in Keys, v \in Values}
  \cup {get_message(k) : k \in Keys} \cup {del_message(k) : k \in Keys}
  \cup {size_message, height_message, get_keys_message, get_values_message}
  \cup {verify_message(n) : n \in AskedNumbers}

ASSUME SystemAssumption ==
  /\ Keys \subseteq Int
  /\ AskedNumbers \subseteq Nat     \* rtree_verify refuses negative numbers
  /\ Window \in Nat \ {0} /\ MaxCommands \in Nat
  /\ \A c \in Clients : Commands[c] \subseteq Calls

\* A null pointer is neither a number nor a message.
ASSUME NullAssumption ==
  /\ NULL \notin Int
  /\ NULL \notin [opcode : Int, c_type : Int, result : Int,
                 body : {NULL} \cup Values \cup Seq(Keys) \cup Seq(Values)]

VARIABLES
  serving, stage, inbox, client,
  next, pending, store, owed, answer,
  typed,     \* how many commands have been typed
  pc,        \* where each client is
  request,   \* the message each client has sent and the server not received
  call,      \* the one it is waiting for or has completed
  wire,      \* what the server has sent to it and it has not read
  result,    \* what the rtree_ function returned
  torn,      \* history: the client has read a part of an answer
  sent,      \* history: the server's answer to call
  told,      \* history: the operation numbers clients were told for writes
  finished   \* history: the operation numbers clients were told are finished

Net == INSTANCE ConnectionService
Skel == INSTANCE WriteService

netVars == <<serving, stage, inbox, client>>
skelVars == <<next, pending, store, owed, answer>>
historyVars == <<torn, sent, told, finished>>
clientVars == <<typed, pc, request, call, wire, result, historyVars>>
vars == <<netVars, skelVars, clientVars>>

Init ==
  /\ Net!Init
  /\ Skel!Init
  /\ typed = 0
  /\ pc = [c \in Clients |-> "off"]
  /\ request = [c \in Clients |-> NULL]
  /\ call = [c \in Clients |-> NULL]
  /\ wire = [c \in Clients |-> <<>>]
  /\ result = [c \in Clients |-> NULL]
  /\ torn = [c \in Clients |-> FALSE]
  /\ sent = [c \in Clients |-> NULL]
  /\ told = {}
  /\ finished = {}
-----------------------------------------------------------------------------
(***************************************************************************)
(* The server's main thread.  Between network_receive and network_send it  *)
(* runs imvoke on the message.                                             *)
(***************************************************************************)
imvoke(message) ==
  \/ /\ message.opcode = OP_PUT
     /\ Skel!Accept(OP_PUT, Skel!REQUEST_PUT, message.key, message.data)
  \/ message.opcode = OP_DEL /\ Skel!Accept(OP_DEL, Skel!REQUEST_DEL, message.key, NULL)
  \/ message.opcode = OP_SIZE /\ Skel!ReadSize
  \/ message.opcode = OP_HEIGHT /\ Skel!ReadHeight
  \/ message.opcode = OP_GET /\ Skel!ReadValue(message.key)
  \/ message.opcode = OP_GETKEYS /\ Skel!ReadKeys
  \/ message.opcode = OP_GETVALUES /\ Skel!ReadValues
  \/ message.opcode = OP_VERIFY /\ (Skel!Verify(message.op_n) \/ Skel!RefuseVerify(message.op_n))

Receive(c) ==
  /\ Net!TakeRequest(c)
  /\ imvoke(request[c])
  /\ request' = [request EXCEPT ![c] = NULL]
  /\ UNCHANGED <<typed, pc, call, wire, result, historyVars>>

Send ==
  /\ Net!Answer
  /\ Skel!Deliver
  /\ wire' = [wire EXCEPT ![serving] =
                IF Net!Closed(serving) THEN @ ELSE @ \o message_t__pack(answer)]
  /\ sent' = [sent EXCEPT ![serving] = IF Net!Closed(serving) THEN NULL ELSE answer]
  /\ UNCHANGED <<typed, pc, request, call, result, torn, told, finished>>

GiveUp(c) ==
  /\ Net!TakeOther(c) \/ Net!GiveUp(c) \/ Net!GetStuck(c)
  /\ UNCHANGED <<skelVars, clientVars>>

Close ==
  /\ Net!Close
  /\ request' = [request EXCEPT ![serving] = NULL]
  /\ UNCHANGED <<skelVars, typed, pc, call, wire, result, historyVars>>

(***************************************************************************)
(* The skeleton on its own: telling the number of a write, and the workers.*)
(***************************************************************************)
Acknowledge == Skel!Acknowledge /\ UNCHANGED <<netVars, clientVars>>

Work == (\E r \in pending : Skel!Apply(r)) /\ UNCHANGED <<netVars, clientVars>>
-----------------------------------------------------------------------------
(***************************************************************************)
(* The clients.                                                            *)
(***************************************************************************)
rtree_connect(c) ==
  /\ pc[c] = "off"
  /\ Net!Connect(c)
  /\ pc' = [pc EXCEPT ![c] = "prompt"]
  /\ UNCHANGED <<skelVars, typed, request, call, wire, result, historyVars>>

Type(c, command) ==
  /\ typed < MaxCommands
  /\ typed' = typed + 1
  /\ call' = [call EXCEPT ![c] = command]

(***************************************************************************)
(* network_send_receive writes the request.  On a connection that the      *)
(* server has closed, write may fail, or succeed and reach nobody.         *)
(***************************************************************************)
WriteRequest(c) ==
  /\ pc[c] = "prompt"
  /\ \E command \in Commands[c] :
       /\ Type(c, command)
       /\ \/ /\ Net!SendRequest(c)
             /\ request' = [request EXCEPT ![c] = command]
          \/ /\ client[c] = "cut off"
             /\ UNCHANGED <<netVars, request>>
  /\ pc' = [pc EXCEPT ![c] = "reading"]
  /\ UNCHANGED <<skelVars, wire, result, historyVars>>

WriteFails(c) ==
  /\ pc[c] = "prompt"
  /\ client[c] = "cut off"
  /\ \E command \in Commands[c] :
       /\ Type(c, command)
       /\ result' = [result EXCEPT ![c] = Returned(command.opcode, NULL)]
  /\ pc' = [pc EXCEPT ![c] = "returned"]
  /\ UNCHANGED <<netVars, skelVars, request, wire, historyVars>>

(***************************************************************************)
(* The end of a client's process, with or without its consent.  On a       *)
(* connection that the server has closed nobody is told.                   *)
(***************************************************************************)
Forget(c) ==
  /\ pc' = [pc EXCEPT ![c] = "off"]
  /\ call' = [call EXCEPT ![c] = NULL]
  /\ wire' = [wire EXCEPT ![c] = <<>>]
  /\ result' = [result EXCEPT ![c] = NULL]
  /\ torn' = [torn EXCEPT ![c] = FALSE]
  /\ sent' = [sent EXCEPT ![c] = NULL]
  /\ UNCHANGED <<skelVars, typed, request, told, finished>>

Crash(c) == Forget(c) /\ (Net!Die(c) \/ Net!Restart(c))

(***************************************************************************)
(* The answer, or what of it has arrived.  When it cannot be unpacked,     *)
(* network_send_receive frees the request, which is on the stack; if that  *)
(* does not end the process, the call fails.                               *)
(***************************************************************************)
ReadAnswer(c) ==
  /\ pc[c] = "reading"
  /\ \E n \in read_all(wire[c]) :
       LET p_msg == message_t__unpack(SubSeq(wire[c], 1, n))
       IN  \/ /\ pc' = [pc EXCEPT ![c] = "returned"]
              /\ wire' = [wire EXCEPT ![c] = remaining(@, n)]
              /\ result' = [result EXCEPT ![c] = Returned(call[c].opcode, p_msg)]
              /\ torn' = [torn EXCEPT ![c] = @ \/ n < Len(wire[c])]
              /\ UNCHANGED <<netVars, skelVars, typed, request, call, sent, told, finished>>
           \/ p_msg = NULL /\ wire[c] # <<>> /\ Crash(c)

Prompt(c) ==
  /\ pc' = [pc EXCEPT ![c] = "prompt"]
  /\ call' = [call EXCEPT ![c] = NULL]
  /\ result' = [result EXCEPT ![c] = NULL]
  /\ sent' = [sent EXCEPT ![c] = NULL]
  /\ UNCHANGED <<netVars, skelVars, typed, request, wire, torn>>

(***************************************************************************)
(* main tells the user what the rtree_ function returned.                  *)
(***************************************************************************)
ShowRead(c) ==
  /\ call[c].opcode \in {OP_SIZE, OP_HEIGHT, OP_GET, OP_GETKEYS}
  /\ Prompt(c)
  /\ UNCHANGED <<told, finished>>

ShowValues(c) ==
  /\ call[c].opcode = OP_GETVALUES
  /\ \/ result[c] # NULL /\ Prompt(c) /\ UNCHANGED <<told, finished>>
     \/ result[c] = NULL /\ Crash(c)

ShowNumber(c) ==
  /\ call[c].opcode \in {OP_PUT, OP_DEL}
  /\ told' = IF result[c] < 0 \/ torn[c] THEN told ELSE told \cup {result[c]}
  /\ Prompt(c)
  /\ UNCHANGED finished

ShowVerify(c) ==
  /\ call[c].opcode = OP_VERIFY
  /\ finished' = IF result[c] = EBADMSG \/ torn[c] THEN finished
                 ELSE IF result[c] < 0 THEN finished
                 ELSE finished \cup {call[c].op_n}
  /\ Prompt(c)
  /\ UNCHANGED told

Show(c) ==
  /\ pc[c] = "returned"
  /\ ShowRead(c) \/ ShowValues(c) \/ ShowNumber(c) \/ ShowVerify(c)

(***************************************************************************)
(* A line of blanks has no first argument, and main follows the null       *)
(* pointer.                                                                *)
(***************************************************************************)
TypeBlanks(c) == pc[c] = "prompt" /\ Crash(c)

rtree_quit(c) ==
  /\ pc[c] = "prompt"
  /\ Forget(c)
  /\ Net!Quit(c) \/ Net!Restart(c)

(***************************************************************************)
(* A client that waits on a connection the server has closed is killed.    *)
(***************************************************************************)
Kill(c) ==
  /\ pc[c] = "reading"
  /\ Forget(c)
  /\ Net!Restart(c)

Server == Send \/ Close \/ Acknowledge

Turn(c) == inbox[c] # "nothing" /\ (Receive(c) \/ GiveUp(c))

Client(c) == ReadAnswer(c) \/ Show(c)

User(c) ==
  \/ rtree_connect(c)
  \/ WriteRequest(c)
  \/ WriteFails(c)
  \/ TypeBlanks(c)
  \/ rtree_quit(c)
  \/ Kill(c)

Next ==
  \/ Server
  \/ Work
  \/ \E c \in Clients : Receive(c) \/ GiveUp(c) \/ Client(c) \/ User(c)

(***************************************************************************)
(* The server is as fair as ConnectionService says, and the clients run as *)
(* long as they can; users need not type anything, nor kill a client.      *)
(***************************************************************************)
Spec ==
  /\ Init /\ [][Next]_vars
  /\ WF_vars(Server)
  /\ \A c \in Clients : SF_vars(Turn(c)) /\ WF_vars(Client(c))
-----------------------------------------------------------------------------
FieldOK(field) ==
  CASE field.tag = "opcode" -> field.value \in 0 .. OP_ERROR
    [] field.tag = "result" -> field.value \in Int
    [] field.tag \in {"data", "datas"} -> field.value \in Values
    [] field.tag = "keys" -> field.value \in Keys
    [] field.tag = "length" -> field.value \in {"keys", "datas"}

(***************************************************************************)
(* Types; a client has a call exactly while it is reading or showing what  *)
(* has come of it.                                                         *)
(***************************************************************************)
TypeOK ==
  /\ typed \in 0 .. MaxCommands
  /\ pc \in [Clients -> {"off", "prompt", "reading", "returned"}]
  /\ request \in [Clients -> Calls \cup {NULL}]
  /\ \A c \in Clients : IF pc[c] \in {"reading", "returned"} THEN call[c] \in Calls
                                                             ELSE call[c] = NULL
  /\ \A c \in Clients : \A j \in DOMAIN wire[c] : FieldOK(wire[c][j])
  /\ torn \in [Clients -> BOOLEAN]
  /\ told \subseteq Nat
  /\ finished \subseteq AskedNumbers

(***************************************************************************)
(* As long as a client has read every answer as a whole, what its rtree_   *)
(* function returns is what the server answered to that very call, and at  *)
(* the prompt no byte of an earlier answer is waiting to be taken for the  *)
(* next one.  Answers carry nothing that would tell which request they     *)
(* belong to.                                                              *)
(***************************************************************************)
OwnAnswer ==
  \A c \in Clients : ~torn[c] =>
    /\ pc[c] = "prompt" => wire[c] = <<>>
    /\ pc[c] = "returned" /\ sent[c] # NULL =>
         /\ sent[c].opcode \in {call[c].opcode + 1, OP_ERROR}
         /\ result[c] = Returned(call[c].opcode, Whole(sent[c]))

(***************************************************************************)
(* No operation number is told twice, to whichever clients, for a write:   *)
(* "verify <op_n>" (source/tree_client.c:24) asks about one operation.     *)
(***************************************************************************)
NumberIsNew ==
  \A c \in Clients :
    /\ pc[c] = "returned" /\ call[c].opcode \in {OP_PUT, OP_DEL} /\ ~torn[c]
    /\ result[c] >= 0
    => result[c] \notin told

(***************************************************************************)
(* A number that a client was told is finished has been used, by a write   *)
(* or by a verify, which takes a number as well.  Fewer than Window of the *)
(* writes with numbers up to it are missing from the tree, then and later: *)
(* with one worker, if it is the number of a write, that write is applied. *)
(***************************************************************************)
VerifiedIsApplied ==
  \A n \in finished :
    /\ n \in 1 .. next - 1
    /\ Cardinality({r \in pending : r.op_n <= n}) < Window

(***************************************************************************)
(* Every call returns, or the client's process ends, unless the server has *)
(* cut the client off or is stuck over a client that died.                 *)
(***************************************************************************)
CallReturns ==
  \A c \in Clients :
    pc[c] = "reading" ~>
      (pc[c] # "reading" \/ client[c] = "cut off" \/ stage = "stuck")

(***************************************************************************)
(* Closing the connection forces the client to close it as well            *)
(* (source/network_server.c:128): its call ends.                           *)
(***************************************************************************)
CutOffReturns ==
  \A c \in Clients :
    pc[c] = "reading" /\ client[c] = "cut off" ~> pc[c] # "reading"
=============================================================================
