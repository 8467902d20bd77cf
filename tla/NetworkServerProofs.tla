------------------------ MODULE NetworkServerProofs ------------------------
(***************************************************************************)
(* What the main loop guarantees for any size of the array and any         *)
(* clients, including clients that end without saying so.                  *)
(***************************************************************************)
EXTENDS NetworkServer, FiniteOrder

Last == NFDESC - 1

(***************************************************************************)
(* Where the loop is says how far i and nfds can be.                       *)
(***************************************************************************)
LoopBounds ==
  /\ main \in {"poll", "accept"} => nfds < NFDESC
  /\ main = "scan" => i <= nfds /\ i <= Last
  /\ main \in {"receive", "send", "close"} => i < nfds
  /\ main \in {"receive", "send"} => i < Last

(***************************************************************************)
(* Unused slots are clean.  The last slot is clean even in use, because    *)
(* it is never in use during poll.                                         *)
(***************************************************************************)
CleanSlots ==
  /\ connections[0].fd = Listening
  /\ \A s \in nfds .. Last : connections[s].fd = NoFd /\ connections[s].revents = {}
  /\ connections[Last].revents = {}

(***************************************************************************)
(* What poll has reported about a connection stays true until the loop     *)
(* gets there, because only the main thread reads.                         *)
(***************************************************************************)
Readable(c) == inbox[c] # "nothing" \/ client[c] = "dead"

ReadyFrom(k) ==
  \A s \in k .. nfds - 1 :
    "POLLIN" \in connections[s].revents => Readable(connections[s].fd)

Reported ==
  /\ main = "accept" =>
       /\ ReadyFrom(1)
       /\ "POLLIN" \in connections[0].revents => backlog # <<>>
  /\ main = "scan" => ReadyFrom(i)
  /\ main = "receive" => ReadyFrom(i) /\ "POLLIN" \in connections[i].revents
  /\ main = "send" => ReadyFrom(i + 1)

(***************************************************************************)
(* A client that has quit is closed as soon as its message is read.        *)
(***************************************************************************)
QuitIsNoticed ==
  \A c \in Clients : client[c] = "left" =>
    inbox[c] = "quit" \/ (main = "close" /\ connections[i].fd = c)

(***************************************************************************)
(* The connection that waits to be accepted has a client.                  *)
(***************************************************************************)
BacklogConnected ==
  \A c \in Clients : backlog = <<c>> => client[c] \notin {"out", "cut off"}

IInv ==
  /\ TypeOK
  /\ LoopBounds
  /\ CleanSlots
  /\ OneSlotEach
  /\ SocketIdsDistinct
  /\ Reported
  /\ QuitIsNoticed
  /\ BacklogConnected

LEMMA IInvInit == Init => IInv
<1> SUFFICES ASSUME Init
             PROVE  IInv
  OBVIOUS
<1> USE ServerAssumption
<1>1. /\ connections = [s \in Slot |->
           IF s = 0 THEN [fd |-> Listening, events |-> {"POLLIN"}, revents |-> {}]
                    ELSE Unused]
      /\ nfds = 1 /\ i = NFDESC /\ main = "poll"
      /\ socket_ids = [s \in Slot \ {0} |-> s]
      /\ client = [c \in Clients |-> "out"]
  BY DEF Init
<1>2. TypeOK
  <2>1. connections \in [Slot -> [fd : Fds, events : SUBSET Events,
                                revents : SUBSET Events]]
    BY <1>1 DEF Fds, Unused, Events
  <2> QED
    BY <1>1, <2>1 DEF Init, TypeOK
<1>3. LoopBounds
  BY <1>1 DEF LoopBounds
<1>4. CleanSlots
  BY <1>1 DEF CleanSlots, Unused, Slot, Last
<1>5. OneSlotEach
  <2>1. 1 .. nfds - 1 = {} /\ Accepted = {}
    <3>1. \A c \in Clients : client[c] = "out"
      BY <1>1
    <3>2. 1 .. nfds - 1 = {}
      BY <1>1
    <3> QED
      BY <3>1, <3>2 DEF Accepted
  <2>2. \A s \in nfds .. NFDESC - 1 : connections[s] = Unused
    BY <1>1 DEF Slot
  <2> QED
    BY <2>1, <2>2 DEF OneSlotEach, Unused
<1>6. SocketIdsDistinct
  BY <1>1 DEF SocketIdsDistinct
<1>7. Reported
  BY <1>1 DEF Reported
<1>8. QuitIsNoticed
  BY <1>1 DEF QuitIsNoticed
<1>9. BacklogConnected
  BY DEF Init, BacklogConnected
<1> QED
  BY <1>2, <1>3, <1>4, <1>5, <1>6, <1>7, <1>8, <1>9 DEF IInv

(***************************************************************************)
(* Facts about the array that most steps need.                             *)
(***************************************************************************)
PollFd == [fd : Fds, events : SUBSET Events, revents : SUBSET Events]

LEMMA SlotFacts ==
  ASSUME TypeOK
  PROVE  /\ 0 \in Slot
         /\ Last \in Slot \ {0}
         /\ \A s \in 1 .. nfds - 1 : s \in Slot /\ s # 0 /\ s < nfds
         /\ \A s \in nfds .. Last : s \in Slot /\ s # 0 /\ ~(s < nfds)
         /\ connections \in [Slot -> PollFd]
         /\ DOMAIN connections = Slot
         /\ nfds \in Int /\ i \in Int /\ NFDESC \in Int /\ Last = NFDESC - 1
         /\ 1 <= nfds /\ nfds <= NFDESC /\ 1 <= i /\ i <= NFDESC
<1>1. nfds \in 1 .. NFDESC /\ i \in 1 .. NFDESC /\ connections \in [Slot -> PollFd]
  BY DEF TypeOK, PollFd
<1> QED
  BY <1>1, ServerAssumption DEF Slot, Last

LEMMA UsedSlots ==
  ASSUME IInv
  PROVE  /\ 1 .. nfds - 1 \subseteq Slot \ {0}
         /\ Last \in Slot \ {0}
         /\ \A s \in 1 .. nfds - 1 : connections[s].fd \in Accepted
         /\ Accepted \subseteq Clients
<1>1. nfds \in 1 .. NFDESC
  BY DEF IInv, TypeOK
<1>2. 1 .. nfds - 1 \subseteq Slot \ {0} /\ Last \in Slot \ {0}
  BY <1>1, ServerAssumption DEF Slot, Last
<1>3. {connections[s].fd : s \in 1 .. nfds - 1} = Accepted
  BY DEF IInv, OneSlotEach
<1> QED
  BY <1>2, <1>3 DEF Accepted

(***************************************************************************)
(* Steps that leave the array alone.                                       *)
(***************************************************************************)
LEMMA SameTable ==
  ASSUME CleanSlots, OneSlotEach, SocketIdsDistinct,
         UNCHANGED <<connections, socket_ids, nfds, Accepted>>
  PROVE  CleanSlots' /\ OneSlotEach' /\ SocketIdsDistinct'
  BY DEF CleanSlots, OneSlotEach, SocketIdsDistinct

LEMMA StepPoll == IInv /\ poll => IInv'
<1> SUFFICES ASSUME IInv, poll,
                    TypeOK, LoopBounds, CleanSlots, OneSlotEach, SocketIdsDistinct,
                    Reported, QuitIsNoticed, BacklogConnected
             PROVE  IInv'
  BY DEF IInv
<1> USE ServerAssumption
<1>1. PICK reset \in SUBSET {c \in Clients : Closed(c)} :
        connections' = [s \in Slot |->
          IF s < nfds
          THEN [connections[s] EXCEPT !.revents = Report(connections[s].fd, reset)]
          ELSE connections[s]]
  BY DEF poll
<1>2. /\ main = "poll" /\ main' = "accept"
      /\ UNCHANGED <<socket_ids, nfds, i, backlog, inbox, client>>
  BY DEF poll, clientVars
<1>3. \A fd : Report(fd, reset) \subseteq Events
  BY DEF Report, Events
<1>4. /\ \A s \in Slot : connections'[s].fd = connections[s].fd
      /\ \A s \in Slot : s < nfds =>
           connections'[s].revents = Report(connections[s].fd, reset)
      /\ \A s \in Slot : ~(s < nfds) => connections'[s] = connections[s]
  BY <1>1, SlotFacts DEF PollFd
<1>5. TypeOK'
  BY <1>1, <1>2, <1>3 DEF TypeOK
<1>6. LoopBounds'
  BY <1>2 DEF LoopBounds
<1>7. CleanSlots'
  <2>1. ~(Last < nfds)
    BY <1>2, SlotFacts DEF LoopBounds
  <2> QED
    BY <1>2, <1>4, <2>1, SlotFacts DEF CleanSlots
<1>8. OneSlotEach'
  <2>1. \A s \in 1 .. nfds - 1 : connections'[s].fd = connections[s].fd
    BY <1>4, SlotFacts
  <2>2. \A s \in nfds .. NFDESC - 1 : connections'[s].fd = connections[s].fd
    BY <1>4, SlotFacts DEF Last
  <2> QED
    <3>1. Accepted' = Accepted
      BY <1>2 DEF Accepted
    <3> QED
      BY <1>2, <2>1, <2>2, <3>1 DEF OneSlotEach
<1>9. SocketIdsDistinct'
  BY <1>2 DEF SocketIdsDistinct
<1>10. Reported'
  <2>1. ASSUME NEW s \in 1 .. nfds - 1, "POLLIN" \in connections'[s].revents
        PROVE  Readable(connections[s].fd)
    <3>1. connections[s].fd \in Clients /\ s \in Slot /\ s < nfds
      BY UsedSlots, SlotFacts
    <3>2. "POLLIN" \in Report(connections[s].fd, reset)
      BY <1>4, <2>1, <3>1
    <3>3. inbox[connections[s].fd] # "nothing" \/ Closed(connections[s].fd)
      BY <3>1, <3>2 DEF Report
    <3> QED
      BY <1>2, <3>1, <3>3 DEF Readable, Closed, QuitIsNoticed
  <2>2. ReadyFrom(1)'
    BY <1>2, <1>4, <2>1, UsedSlots DEF ReadyFrom, Readable
  <2>3. "POLLIN" \in connections'[0].revents => backlog # <<>>
    <3>1. 0 < nfds
      BY SlotFacts
    <3> QED
      BY <1>4, <3>1, SlotFacts DEF Report, CleanSlots
  <2> QED
    BY <1>2, <2>2, <2>3 DEF Reported
<1>11. QuitIsNoticed'
  BY <1>2 DEF QuitIsNoticed
<1>12. BacklogConnected'
  BY <1>2 DEF BacklogConnected
<1> QED
  BY <1>5, <1>6, <1>7, <1>8, <1>9, <1>10, <1>11, <1>12 DEF IInv

LEMMA StepAccept == IInv /\ accept => IInv'
<1> SUFFICES ASSUME IInv, accept,
                    TypeOK, LoopBounds, CleanSlots, OneSlotEach, SocketIdsDistinct,
                    Reported, QuitIsNoticed, BacklogConnected
             PROVE  IInv'
  BY DEF IInv
<1> USE ServerAssumption
<1>0. main = "accept" /\ nfds < NFDESC
  BY DEF accept, LoopBounds
<1>1. CASE "POLLIN" \in connections[0].revents
  <2>1. /\ connections' = [connections EXCEPT ![nfds].fd = Head(backlog),
                                              ![nfds].events = {"POLLIN"}]
        /\ nfds' = nfds + 1
        /\ backlog' = Tail(backlog)
        /\ i' = 1
        /\ main' = "scan"
        /\ UNCHANGED <<socket_ids, inbox, client>>
    BY <1>0, <1>1 DEF accept
  <2>2. PICK c \in Clients : backlog = <<c>>
    BY <1>0, <1>1 DEF Reported, TypeOK
  <2>3. Head(backlog) = c /\ Tail(backlog) = <<>>
    BY <2>2
  <2>4. /\ connections' = [connections EXCEPT ![nfds].fd = c,
                                              ![nfds].events = {"POLLIN"}]
        /\ backlog' = <<>>
    BY <2>1, <2>3
  <2>5. /\ nfds \in Slot \ {0}
        /\ connections'[nfds].fd = c
        /\ connections'[nfds].revents = {}
        /\ \A s \in Slot \ {nfds} : connections'[s] = connections[s]
        /\ \A s \in Slot : connections'[s].revents = connections[s].revents
    <3>1. nfds \in Slot \ {0} /\ nfds \in nfds .. Last
      BY <1>0, SlotFacts DEF Slot
    <3> QED
      BY <2>4, <3>1, SlotFacts DEF CleanSlots, PollFd
  <2>6. TypeOK'
    <3>1. connections' \in [Slot -> [fd : Fds, events : SUBSET Events,
                                    revents : SUBSET Events]]
      <4>1. c \in Fds /\ {"POLLIN"} \in SUBSET Events
        BY DEF Fds, Events
      <4>2. connections[nfds] \in PollFd
        BY <2>5, SlotFacts
      <4>3. [connections[nfds] EXCEPT !.fd = c, !.events = {"POLLIN"}] \in PollFd
        BY <4>1, <4>2 DEF PollFd
      <4> QED
        BY <2>4, <2>5, <4>3, SlotFacts DEF PollFd
    <3>2. nfds' \in 1 .. NFDESC /\ i' \in 1 .. NFDESC
      BY <1>0, <2>1, SlotFacts, ServerAssumption
    <3> QED
      BY <2>1, <2>4, <3>1, <3>2 DEF TypeOK
  <2>7. LoopBounds'
    BY <1>0, <2>1, SlotFacts DEF LoopBounds
  <2>8. CleanSlots'
    <3>1. \A s \in nfds + 1 .. Last : s \in nfds .. Last /\ s # nfds
      BY SlotFacts
    <3> QED
      BY <2>1, <2>5, <3>1, SlotFacts DEF CleanSlots
  <2>9. OneSlotEach'
    <3>1. Accepted' = Accepted \cup {c} /\ c \notin Accepted
      <4>1. client[c] \notin {"out", "cut off"}
        BY <2>2 DEF BacklogConnected
      <4>2. \A d \in Clients : backlog # <<d>> <=> d # c
        BY <2>2
      <4>3. \A d \in Clients : backlog' # <<d>>
        BY <2>4
      <4> QED
        BY <2>1, <4>1, <4>2, <4>3 DEF Accepted
    <3>2. 1 .. nfds' - 1 = (1 .. nfds - 1) \cup {nfds} /\ nfds \notin 1 .. nfds - 1
      BY <2>1, SlotFacts
    <3>3. \A s \in 1 .. nfds - 1 :
            /\ connections'[s].fd = connections[s].fd
            /\ connections[s].fd # c
      BY <2>5, <3>1, <3>2, UsedSlots, SlotFacts
    <3>4. \A s \in nfds' .. NFDESC - 1 : connections'[s].fd = NoFd
      BY <2>8 DEF CleanSlots, Last
    <3>5. {connections'[s].fd : s \in 1 .. nfds' - 1} = Accepted'
      BY <2>5, <3>1, <3>2, <3>3 DEF OneSlotEach
    <3>6. \A s, u \in 1 .. nfds' - 1 : connections'[s].fd = connections'[u].fd => s = u
      BY <2>5, <3>2, <3>3 DEF OneSlotEach
    <3> QED
      BY <3>4, <3>5, <3>6 DEF OneSlotEach
  <2>10. SocketIdsDistinct'
    BY <2>1 DEF SocketIdsDistinct
  <2>11. Reported'
    <3>1. \A s \in 1 .. nfds' - 1 : s = nfds \/ s \in 1 .. nfds - 1
      BY <2>1, SlotFacts
    <3>2. \A s \in 1 .. nfds - 1 : s \in Slot \ {nfds}
      BY SlotFacts
    <3>3. ReadyFrom(1)
      BY <1>0 DEF Reported
    <3>4. ReadyFrom(1)'
      BY <2>1, <2>5, <3>1, <3>2, <3>3 DEF ReadyFrom, Readable
    <3> QED
      BY <2>1, <3>4 DEF Reported
  <2>12. QuitIsNoticed'
    BY <1>0, <2>1 DEF QuitIsNoticed
  <2>13. BacklogConnected'
    BY <2>4 DEF BacklogConnected
  <2> QED
    BY <2>6, <2>7, <2>8, <2>9, <2>10, <2>11, <2>12, <2>13 DEF IInv
<1>2. CASE "POLLIN" \notin connections[0].revents
  <2>1. /\ i' = 1
        /\ main' = "scan"
        /\ UNCHANGED <<connections, nfds, backlog, socket_ids, inbox, client>>
    BY <1>2 DEF accept
  <2>2. TypeOK'
    <3>1. i' \in 1 .. NFDESC
      BY <2>1, SlotFacts
    <3> QED
      BY <2>1, <3>1 DEF TypeOK
  <2>3. LoopBounds'
    BY <1>0, <2>1, SlotFacts DEF LoopBounds
  <2>4. Reported'
    BY <1>0, <2>1 DEF Reported, ReadyFrom, Readable
  <2>5. CleanSlots' /\ OneSlotEach' /\ SocketIdsDistinct'
    BY <2>1, SameTable DEF Accepted
  <2>6. QuitIsNoticed' /\ BacklogConnected'
    BY <1>0, <2>1 DEF QuitIsNoticed, BacklogConnected
  <2> QED
    BY <2>2, <2>3, <2>4, <2>5, <2>6 DEF IInv
<1> QED
  BY <1>1, <1>2

LEMMA StepScan == IInv /\ (ScanSlot \/ ScanEnds) => IInv'
<1> SUFFICES ASSUME IInv, ScanSlot \/ ScanEnds,
                    TypeOK, LoopBounds, CleanSlots, OneSlotEach, SocketIdsDistinct,
                    Reported, QuitIsNoticed, BacklogConnected
             PROVE  IInv'
  BY DEF IInv
<1> USE ServerAssumption
<1>1. /\ main = "scan" /\ i <= nfds /\ i <= Last
      /\ UNCHANGED <<connections, socket_ids, nfds, backlog, inbox, client>>
  BY DEF ScanSlot, ScanEnds, LoopBounds, clientVars
<1>2. \/ main' = "close" /\ i' = i /\ i < nfds
      \/ main' = "receive" /\ i' = i /\ i < nfds /\ i < Last
           /\ "POLLIN" \in connections[i].revents
      \/ main' = "scan" /\ i' = i + 1 /\ i < nfds /\ i < Last
      \/ main' = "poll" /\ i' = i /\ i = nfds
  <2>1. CASE ScanSlot
    BY <1>1, <2>1, SlotFacts DEF ScanSlot
  <2>2. CASE ScanEnds
    <3>1. i = nfds /\ nfds \in nfds .. Last
      BY <1>1, <2>2, SlotFacts DEF ScanEnds
    <3>2. "POLLHUP" \notin connections[i].revents
      BY <3>1 DEF CleanSlots
    <3> QED
      BY <2>2, <3>1, <3>2 DEF ScanEnds
  <2> QED
    BY <2>1, <2>2
<1>3. TypeOK'
  <2>1. i' \in 1 .. NFDESC
    BY <1>2, SlotFacts
  <2> QED
    BY <1>1, <1>2, <2>1 DEF TypeOK
<1>4. LoopBounds'
  BY <1>1, <1>2, SlotFacts DEF LoopBounds
<1>5. CleanSlots' /\ OneSlotEach' /\ SocketIdsDistinct'
  BY <1>1, SameTable DEF Accepted
<1>6. Reported'
  <2>1. ReadyFrom(i)
    BY <1>1 DEF Reported
  <2>2. ReadyFrom(i)' \/ main' \in {"poll", "close"}
    BY <1>1, <1>2, <2>1, SlotFacts DEF ReadyFrom, Readable
  <2> QED
    BY <1>1, <1>2, <2>2 DEF Reported
<1>7. QuitIsNoticed' /\ BacklogConnected'
  BY <1>1 DEF QuitIsNoticed, BacklogConnected
<1> QED
  BY <1>3, <1>4, <1>5, <1>6, <1>7 DEF IInv

(***************************************************************************)
(* The slot that the loop looks at while it serves or closes it.           *)
(***************************************************************************)
LEMMA CurrentSlot ==
  ASSUME IInv, main \in {"receive", "send", "close"}
  PROVE  /\ i \in 1 .. nfds - 1
         /\ connections[i].fd \in Accepted
         /\ connections[i].fd \in Clients
         /\ backlog # <<connections[i].fd>>
         /\ \A s \in 1 .. nfds - 1 \ {i} : connections[s].fd # connections[i].fd
<1>1. i \in 1 .. nfds - 1
  BY SlotFacts DEF IInv, LoopBounds
<1> QED
  BY <1>1, UsedSlots DEF IInv, OneSlotEach, Accepted

LEMMA StepReceive == IInv /\ network_receive => IInv'
<1> SUFFICES ASSUME IInv, network_receive,
                    TypeOK, LoopBounds, CleanSlots, OneSlotEach, SocketIdsDistinct,
                    Reported, QuitIsNoticed, BacklogConnected
             PROVE  IInv'
  BY DEF IInv
<1> USE ServerAssumption
<1> DEFINE fd == connections[i].fd
<1>1. /\ main = "receive"
      /\ inbox[fd] # "nothing"
      /\ inbox' = [inbox EXCEPT ![fd] = "nothing"]
      /\ main' = IF inbox[fd] = "request" THEN "send" ELSE "close"
      /\ UNCHANGED <<connections, socket_ids, nfds, i, backlog, client>>
  BY DEF network_receive, read_all, PlaceAfter
<1>2. /\ fd \in Clients
      /\ i < nfds /\ i < Last
      /\ \A c \in Clients \ {fd} : inbox'[c] = inbox[c]
  BY <1>1, CurrentSlot DEF LoopBounds, TypeOK
<1>3. TypeOK'
  <2>1. inbox' \in [Clients -> {"nothing", "request", "piece", "quit"}]
    BY <1>1 DEF TypeOK
  <2> QED
    BY <1>1, <2>1 DEF TypeOK
<1>4. LoopBounds'
  BY <1>1, <1>2 DEF LoopBounds
<1>5. CleanSlots' /\ OneSlotEach' /\ SocketIdsDistinct'
  BY <1>1, SameTable DEF Accepted
<1>6. Reported'
  <2>1. ReadyFrom(i)
    BY <1>1 DEF Reported
  <2>2. \A s \in i + 1 .. nfds - 1 :
          connections[s].fd \in Clients \ {fd} /\ s \in i .. nfds - 1
    BY <1>1, CurrentSlot, UsedSlots, SlotFacts
  <2>3. ReadyFrom(i + 1)'
    BY <1>1, <1>2, <2>1, <2>2 DEF ReadyFrom, Readable
  <2> QED
    BY <1>1, <2>3 DEF Reported
<1>7. QuitIsNoticed'
  <2>1. client[fd] = "left" => main' = "close"
    BY <1>1, <1>2 DEF QuitIsNoticed
  <2> QED
    BY <1>1, <1>2, <2>1 DEF QuitIsNoticed
<1>8. BacklogConnected'
  BY <1>1 DEF BacklogConnected
<1> QED
  BY <1>3, <1>4, <1>5, <1>6, <1>7, <1>8 DEF IInv

LEMMA StepSend == IInv /\ network_send => IInv'
<1> SUFFICES ASSUME IInv, network_send,
                    TypeOK, LoopBounds, CleanSlots, OneSlotEach, SocketIdsDistinct,
                    Reported, QuitIsNoticed, BacklogConnected
             PROVE  IInv'
  BY DEF IInv
<1> USE ServerAssumption
<1> DEFINE fd == connections[i].fd
<1>1. /\ main = "send" /\ main' = "scan" /\ i' = i + 1
      /\ client' = [client EXCEPT ![fd] = IF @ = "waiting" THEN "idle" ELSE @]
      /\ UNCHANGED <<connections, socket_ids, nfds, backlog, inbox>>
  BY DEF network_send
<1>2. fd \in Clients /\ i < nfds /\ i < Last
  BY <1>1, CurrentSlot DEF LoopBounds
<1>3. /\ client' \in [Clients -> {"out", "idle", "waiting", "left", "dead", "cut off"}]
      /\ \A c \in Clients : \A state \in {"out", "left", "dead", "cut off"} :
           client'[c] = state <=> client[c] = state
  BY <1>1, <1>2 DEF TypeOK
<1>4. TypeOK'
  <2>1. i' \in 1 .. NFDESC
    BY <1>1, <1>2, SlotFacts
  <2> QED
    BY <1>1, <1>3, <2>1 DEF TypeOK
<1>5. LoopBounds'
  BY <1>1, <1>2, SlotFacts DEF LoopBounds
<1>6. CleanSlots' /\ OneSlotEach' /\ SocketIdsDistinct'
  <2>1. Accepted' = Accepted
    BY <1>1, <1>3 DEF Accepted
  <2> QED
    BY <1>1, <2>1, SameTable
<1>7. Reported'
  <2>1. ReadyFrom(i + 1)
    BY <1>1 DEF Reported
  <2>2. \A s \in i + 1 .. nfds - 1 : connections[s].fd \in Clients
    BY <1>1, CurrentSlot, UsedSlots, SlotFacts
  <2>3. \A c \in Clients : Readable(c) => Readable(c)'
    BY <1>1, <1>3 DEF Readable
  <2>4. ASSUME NEW s \in i + 1 .. nfds - 1, "POLLIN" \in connections[s].revents
        PROVE  Readable(connections[s].fd)'
    <3>1. connections[s].fd \in Clients /\ Readable(connections[s].fd)
      BY <2>1, <2>2, <2>4 DEF ReadyFrom
    <3> QED
      BY <1>1, <2>3, <3>1 DEF Readable
  <2>5. ReadyFrom(i)'
    BY <1>1, <2>4 DEF ReadyFrom, Readable
  <2> QED
    BY <1>1, <2>5 DEF Reported
<1>8. QuitIsNoticed'
  BY <1>1, <1>3 DEF QuitIsNoticed
<1>9. BacklogConnected'
  BY <1>1, <1>3 DEF BacklogConnected
<1> QED
  BY <1>4, <1>5, <1>6, <1>7, <1>8, <1>9 DEF IInv

LEMMA StepClose == IInv /\ connection_close => IInv'
<1> SUFFICES ASSUME IInv, connection_close,
                    TypeOK, LoopBounds, CleanSlots, OneSlotEach, SocketIdsDistinct,
                    Reported, QuitIsNoticed, BacklogConnected
             PROVE  IInv'
  BY DEF IInv
<1> USE ServerAssumption
<1> DEFINE fd == connections[i].fd
<1>1. /\ main = "close" /\ main' = "poll" /\ nfds' = nfds - 1
      /\ connections' = shifted(connections, [connections[Last] EXCEPT !.fd = NoFd])
      /\ socket_ids' = shifted(socket_ids, socket_ids[i])
      /\ client' = [client EXCEPT ![fd] = IF Closed(fd) THEN "out" ELSE "cut off"]
      /\ inbox' = [inbox EXCEPT ![fd] = "nothing"]
      /\ UNCHANGED <<i, backlog>>
  BY DEF connection_close, Last
<1>0. /\ nfds' = nfds - 1
      /\ nfds \in Int /\ i \in Int /\ Last \in Int /\ NFDESC = Last + 1
      /\ 1 <= i /\ i < nfds /\ nfds <= Last + 1
  <2>1. nfds' = nfds - 1 /\ i < nfds
    BY <1>1 DEF LoopBounds
  <2>2. /\ nfds \in Int /\ i \in Int /\ NFDESC \in Int /\ Last = NFDESC - 1
        /\ 1 <= i /\ nfds <= NFDESC
    BY SlotFacts
  <2> QED
    BY <2>1, <2>2
<1>2. /\ i \in 1 .. nfds - 1 /\ i <= Last
      /\ fd \in Accepted /\ fd \in Clients /\ backlog # <<fd>>
      /\ \A s \in 1 .. nfds - 1 \ {i} : connections[s].fd # fd
  <2>1. main \in {"receive", "send", "close"}
    BY <1>1
  <2>2. i <= Last
    BY <1>0
  <2> QED
    BY <2>1, <2>2, CurrentSlot
<1>3. /\ DOMAIN connections' = Slot
      /\ \A s \in Slot : s < i => connections'[s] = connections[s]
      /\ \A s \in Slot : i <= s /\ s < Last =>
           s + 1 \in Slot /\ connections'[s] = connections[s + 1]
      /\ connections'[Last] = [connections[Last] EXCEPT !.fd = NoFd]
  <2>1. \A s \in Slot : s \in Int /\ s <= Last
    BY SlotFacts DEF Slot
  <2>2. \A s \in Slot : s < Last => s + 1 \in Slot
    BY SlotFacts DEF Slot
  <2>3. connections' = [s \in Slot |->
          IF s = Last THEN [connections[Last] EXCEPT !.fd = NoFd]
          ELSE IF s >= i THEN connections[s + 1] ELSE connections[s]]
    BY <1>1, SlotFacts DEF shifted, Last
  <2> QED
    BY <1>2, <2>1, <2>2, <2>3, SlotFacts
<1>4. /\ client' \in [Clients -> {"out", "idle", "waiting", "left", "dead", "cut off"}]
      /\ client'[fd] \in {"out", "cut off"}
      /\ \A c \in Clients \ {fd} : client'[c] = client[c] /\ inbox'[c] = inbox[c]
      /\ inbox' \in [Clients -> {"nothing", "request", "piece", "quit"}]
  BY <1>1, <1>2 DEF TypeOK
<1>5. socket_ids' = [s \in Slot \ {0} |-> IF s = Last THEN socket_ids[i]
                       ELSE IF s >= i THEN socket_ids[s + 1] ELSE socket_ids[s]]
  BY <1>1, SlotFacts DEF shifted, Last, TypeOK
<1>6. TypeOK'
  <2>1. connections' \in [Slot -> PollFd]
    <3>1. [connections[Last] EXCEPT !.fd = NoFd] \in PollFd
      BY SlotFacts DEF PollFd, Fds
    <3>2. \A s \in Slot : s < i \/ (i <= s /\ s < Last) \/ s = Last
      BY SlotFacts DEF Slot
    <3>3. \A s \in Slot : connections'[s] \in PollFd
      BY <1>3, <3>1, <3>2, SlotFacts
    <3> QED
      BY <1>1, <1>3, <3>3, SlotFacts DEF shifted
  <2>2. socket_ids' \in [Slot \ {0} -> Slot \ {0}]
    <3>1. \A s \in Slot \ {0} : s # Last => s + 1 \in Slot \ {0}
      BY SlotFacts DEF Slot
    <3>2. i \in Slot \ {0}
      BY <1>2, SlotFacts
    <3>3. socket_ids \in [Slot \ {0} -> Slot \ {0}]
      BY DEF TypeOK
    <3> QED
      BY <1>5, <3>1, <3>2, <3>3
  <2>3. nfds' \in 1 .. NFDESC
    BY <1>0
  <2> QED
    BY <1>1, <1>4, <2>1, <2>2, <2>3 DEF TypeOK, PollFd
<1>7. LoopBounds'
  <2>1. nfds' < NFDESC
    BY <1>0
  <2> QED
    BY <1>1, <2>1 DEF LoopBounds
<1>8. CleanSlots'
  <2>1. connections'[0].fd = Listening
    BY <1>2, <1>3, SlotFacts DEF CleanSlots
  <2>2. connections'[Last].fd = NoFd /\ connections'[Last].revents = {}
    BY <1>3, SlotFacts DEF CleanSlots, PollFd
  <2>3. ASSUME NEW s \in nfds' .. Last, s # Last
        PROVE  connections'[s].fd = NoFd /\ connections'[s].revents = {}
    <3>1. s \in Slot /\ i <= s /\ s < Last /\ s + 1 \in nfds .. Last
      BY <1>0, <2>3 DEF Slot
    <3> QED
      BY <1>3, <3>1 DEF CleanSlots
  <2> QED
    BY <2>1, <2>2, <2>3 DEF CleanSlots
<1>9. OneSlotEach'
  <2>1. Accepted' = Accepted \ {fd}
    BY <1>1, <1>2, <1>4 DEF Accepted
  <2> DEFINE old(s) == IF s < i THEN s ELSE s + 1
  <2>2. ASSUME NEW s \in 1 .. nfds' - 1
        PROVE  /\ old(s) \in 1 .. nfds - 1 \ {i}
               /\ connections'[s].fd = connections[old(s)].fd
    <3>1. s \in Slot /\ s < Last /\ old(s) \in 1 .. nfds - 1 \ {i}
      BY <1>0 DEF Slot
    <3>2. s < i \/ i <= s
      BY <1>0
    <3>3. connections'[s] = connections[old(s)]
      BY <1>0, <1>3, <3>1, <3>2
    <3> QED
      BY <3>1, <3>3
  <2>3. ASSUME NEW u \in 1 .. nfds - 1 \ {i}
        PROVE  \E s \in 1 .. nfds' - 1 : old(s) = u
    <3>1. CASE u < i
      <4>1. u \in 1 .. nfds' - 1 /\ old(u) = u
        BY <1>0, <3>1
      <4> QED
        BY <4>1
    <3>2. CASE u > i
      <4>1. u - 1 \in 1 .. nfds' - 1 /\ old(u - 1) = u
        BY <1>0, <3>2
      <4> QED
        BY <4>1
    <3> QED
      BY <1>0, <3>1, <3>2
  <2>4. \A s, u \in 1 .. nfds' - 1 : old(s) = old(u) => s = u
    BY <1>0
  <2> HIDE DEF old
  <2>5. {connections'[s].fd : s \in 1 .. nfds' - 1} = Accepted'
    <3>1. \A c \in Accepted \ {fd} : \E u \in 1 .. nfds - 1 \ {i} : connections[u].fd = c
      BY DEF OneSlotEach
    <3>2. \A c \in Accepted' : \E s \in 1 .. nfds' - 1 : connections'[s].fd = c
      BY <2>1, <2>2, <2>3, <3>1
    <3>3. \A s \in 1 .. nfds' - 1 : connections'[s].fd \in Accepted'
      BY <1>2, <2>1, <2>2, UsedSlots
    <3> QED
      BY <3>2, <3>3
  <2>6. \A s, u \in 1 .. nfds' - 1 : connections'[s].fd = connections'[u].fd => s = u
    BY <2>2, <2>4 DEF OneSlotEach
  <2>7. \A s \in nfds' .. NFDESC - 1 : connections'[s].fd = NoFd
    BY <1>8 DEF CleanSlots, Last
  <2> QED
    BY <2>5, <2>6, <2>7 DEF OneSlotEach
<1>10. SocketIdsDistinct'
  <2> DEFINE old(s) == IF s = Last THEN i ELSE IF s >= i THEN s + 1 ELSE s
  <2>1. \A s \in Slot \ {0} : old(s) \in Slot \ {0} /\ socket_ids'[s] = socket_ids[old(s)]
    BY <1>2, <1>5, SlotFacts DEF Slot
  <2>2. \A s, u \in Slot \ {0} : old(s) = old(u) => s = u
    BY <1>2, SlotFacts DEF Slot
  <2> HIDE DEF old
  <2> QED
    BY <2>1, <2>2 DEF SocketIdsDistinct
<1>11. Reported'
  BY <1>1 DEF Reported
<1>12. QuitIsNoticed'
  BY <1>1, <1>4 DEF QuitIsNoticed
<1>13. BacklogConnected'
  BY <1>1, <1>2, <1>4 DEF BacklogConnected
<1> QED
  BY <1>6, <1>7, <1>8, <1>9, <1>10, <1>11, <1>12, <1>13 DEF IInv

(***************************************************************************)
(* Steps of the clients.  They only touch what the main thread has not     *)
(* read yet, and a connection that is reported stays readable.             *)
(***************************************************************************)
LEMMA ReportedKept ==
  ASSUME Reported, TypeOK,
         UNCHANGED <<connections, nfds, i, main>>,
         backlog # <<>> => backlog' # <<>>,
         \A s \in 1 .. nfds - 1 :
           Readable(connections[s].fd) => Readable(connections[s].fd)'
  PROVE  Reported'
<1>1. \A s \in i .. nfds - 1 : s \in 1 .. nfds - 1
  BY SlotFacts
<1>2. \A s \in i + 1 .. nfds - 1 : s \in 1 .. nfds - 1
  BY SlotFacts
<1>3. ReadyFrom(1) => ReadyFrom(1)'
  BY DEF ReadyFrom, Readable
<1>4. ReadyFrom(i) => ReadyFrom(i)'
  BY <1>1 DEF ReadyFrom, Readable
<1>5. ReadyFrom(i + 1) => ReadyFrom(i + 1)'
  BY <1>2 DEF ReadyFrom, Readable
<1> QED
  BY <1>3, <1>4, <1>5 DEF Reported

LEMMA StepConnect == IInv /\ (\E c \in Clients : Connect(c)) => IInv'
<1> SUFFICES ASSUME IInv, NEW c \in Clients, Connect(c),
                    TypeOK, LoopBounds, CleanSlots, OneSlotEach, SocketIdsDistinct,
                    Reported, QuitIsNoticed, BacklogConnected
             PROVE  IInv'
  BY DEF IInv
<1>1. /\ client[c] = "out" /\ backlog = <<>> /\ backlog' = <<c>>
      /\ client' = [client EXCEPT ![c] = "idle"]
      /\ UNCHANGED <<connections, socket_ids, nfds, i, main, inbox>>
  BY DEF Connect, serverVars
<1>2. /\ client' \in [Clients -> {"out", "idle", "waiting", "left", "dead", "cut off"}]
      /\ client'[c] = "idle"
      /\ \A d \in Clients \ {c} : client'[d] = client[d]
  BY <1>1 DEF TypeOK
<1>3. Accepted' = Accepted
  <2>1. \A d \in Clients : backlog # <<d>> /\ (backlog' # <<d>> <=> d # c)
    BY <1>1
  <2> QED
    BY <1>1, <1>2, <2>1 DEF Accepted
<1>4. TypeOK'
  BY <1>1, <1>2 DEF TypeOK
<1>5. LoopBounds' /\ CleanSlots' /\ OneSlotEach' /\ SocketIdsDistinct'
  BY <1>1, <1>3, SameTable DEF LoopBounds
<1>6. Reported'
  <2>1. \A d \in Clients : Readable(d) /\ client[d] \notin {"out", "cut off"} => Readable(d)'
    BY <1>1, <1>2 DEF Readable
  <2>2. \A s \in 1 .. nfds - 1 :
          Readable(connections[s].fd) => Readable(connections[s].fd)'
    BY <1>1, <2>1, UsedSlots DEF Accepted
  <2> QED
    BY <1>1, <2>2, ReportedKept, SlotFacts
<1>7. QuitIsNoticed' /\ BacklogConnected'
  BY <1>1, <1>2 DEF QuitIsNoticed, BacklogConnected
<1> QED
  BY <1>4, <1>5, <1>6, <1>7 DEF IInv

(***************************************************************************)
(* The other steps of the clients only change what one client is doing     *)
(* and has sent; SendRequest and Quit add something to read, and Die makes *)
(* a connection readable for good.                                         *)
(***************************************************************************)
LEMMA StepClient ==
  IInv /\ (\E c \in Clients : SendRequest(c) \/ Quit(c) \/ Restart(c) \/ Die(c)) => IInv'
<1> SUFFICES ASSUME IInv, NEW c \in Clients,
                    SendRequest(c) \/ Quit(c) \/ Restart(c) \/ Die(c),
                    TypeOK, LoopBounds, CleanSlots, OneSlotEach, SocketIdsDistinct,
                    Reported, QuitIsNoticed, BacklogConnected
             PROVE  IInv'
  BY DEF IInv
<1> DEFINE States == {"out", "idle", "waiting", "left", "dead", "cut off"}
           Messages == {"nothing", "request", "piece", "quit"}
<1>1. /\ UNCHANGED <<connections, socket_ids, nfds, i, main, backlog>>
      /\ client \in [Clients -> States] /\ inbox \in [Clients -> Messages]
  BY DEF SendRequest, Quit, Restart, Die, serverVars, TypeOK
<1>2. /\ client' \in [Clients -> States] /\ inbox' \in [Clients -> Messages]
      /\ \A d \in Clients \ {c} : client'[d] = client[d] /\ inbox'[d] = inbox[d]
      /\ client[c] \notin {"out", "cut off"} <=> client'[c] \notin {"out", "cut off"}
      /\ Readable(c) => Readable(c)'
      /\ client'[c] = "left" => inbox'[c] = "quit"
  <2>1. CASE SendRequest(c)
    <3>1. PICK m \in {"request", "piece"} : inbox' = [inbox EXCEPT ![c] = m]
      BY <2>1 DEF SendRequest
    <3>2. client[c] = "idle" /\ client' = [client EXCEPT ![c] = "waiting"]
      BY <2>1 DEF SendRequest
    <3> QED
      BY <1>1, <3>1, <3>2 DEF Readable
  <2>2. CASE Quit(c)
    BY <1>1, <2>2 DEF Quit, Readable
  <2>3. CASE Restart(c)
    BY <1>1, <2>3 DEF Restart, Readable
  <2>4. CASE Die(c)
    BY <1>1, <2>4 DEF Die, Readable
  <2> QED
    BY <2>1, <2>2, <2>3, <2>4
<1>3. Accepted' = Accepted
  BY <1>1, <1>2 DEF Accepted
<1>4. TypeOK'
  BY <1>1, <1>2 DEF TypeOK
<1>5. LoopBounds' /\ CleanSlots' /\ OneSlotEach' /\ SocketIdsDistinct'
  BY <1>1, <1>3, SameTable DEF LoopBounds
<1>6. Reported'
  <2>1. \A d \in Clients : Readable(d) => Readable(d)'
    BY <1>2 DEF Readable
  <2>2. \A s \in 1 .. nfds - 1 :
          Readable(connections[s].fd) => Readable(connections[s].fd)'
    BY <1>1, <2>1, UsedSlots
  <2> QED
    BY <1>1, <2>2, ReportedKept
<1>7. QuitIsNoticed' /\ BacklogConnected'
  BY <1>1, <1>2 DEF QuitIsNoticed, BacklogConnected
<1> QED
  BY <1>4, <1>5, <1>6, <1>7 DEF IInv

LEMMA IInvStep == IInv /\ [NextWithDeaths]_vars => IInv'
<1> SUFFICES ASSUME IInv, [NextWithDeaths]_vars
             PROVE  IInv'
  OBVIOUS
<1>1. CASE network_main_loop
  BY <1>1, StepPoll, StepAccept, StepScan, StepReceive, StepSend, StepClose
     DEF network_main_loop
<1>2. CASE \E c \in Clients : Connect(c)
  BY <1>2, StepConnect
<1>3. CASE \E c \in Clients : SendRequest(c) \/ Quit(c) \/ Restart(c) \/ Die(c)
  BY <1>3, StepClient
<1>4. CASE UNCHANGED vars
  <2>1. /\ UNCHANGED <<connections, socket_ids, nfds, i, main>>
        /\ UNCHANGED <<backlog, inbox, client>>
    BY <1>4 DEF vars, serverVars, clientVars
  <2>2. TypeOK'
    BY <2>1 DEF IInv, TypeOK
  <2>3. CleanSlots' /\ OneSlotEach' /\ SocketIdsDistinct'
    BY <2>1, SameTable DEF IInv, Accepted
  <2>4. Reported'
    BY <2>1, ReportedKept DEF IInv, Readable
  <2>5. LoopBounds' /\ QuitIsNoticed' /\ BacklogConnected'
    BY <2>1 DEF IInv, LoopBounds, QuitIsNoticed, BacklogConnected
  <2> QED
    BY <2>2, <2>3, <2>4, <2>5 DEF IInv
<1> QED
  BY <1>1, <1>2, <1>3, <1>4, ServerAssumption DEF NextWithDeaths, Next

LEMMA Invariance == Spec \/ SpecWithDeaths => []IInv
<1>1. Next => NextWithDeaths
  BY DEF NextWithDeaths
<1> QED
  BY <1>1, IInvInit, IInvStep, PTL DEF Spec, SpecWithDeaths

(***************************************************************************)
(* Types; in particular the loop never reads or writes outside the array.  *)
(***************************************************************************)
THEOREM TypeCorrect == Spec \/ SpecWithDeaths => []TypeOK
<1>1. IInv => TypeOK
  BY DEF IInv
<1> QED
  BY <1>1, Invariance, PTL

(***************************************************************************)
(* Whenever the server polls, the array has a slot for one more            *)
(* connection: sacrificing the last slot in the round in which it was      *)
(* filled is enough to never leave the listening socket unserved.          *)
(***************************************************************************)
THEOREM RoomForOneMore == Spec \/ SpecWithDeaths => []AlwaysRoom
<1>1. IInv => AlwaysRoom
  BY DEF IInv, LoopBounds, AlwaysRoom
<1> QED
  BY <1>1, Invariance, PTL

(***************************************************************************)
(* The shift in connection_close loses and doubles no connection: accepted *)
(* clients and used slots correspond one to one at every moment.           *)
(***************************************************************************)
THEOREM NoConnectionLost == Spec \/ SpecWithDeaths => []OneSlotEach
<1>1. IInv => OneSlotEach
  BY DEF IInv
<1> QED
  BY <1>1, Invariance, PTL

(***************************************************************************)
(* socket_ids stays a permutation: the freed number goes to the last slot. *)
(***************************************************************************)
THEOREM IdsStayApart == Spec \/ SpecWithDeaths => []SocketIdsDistinct
<1>1. IInv => SocketIdsDistinct
  BY DEF IInv
<1> QED
  BY <1>1, Invariance, PTL

(***************************************************************************)
(* The single thread of the server enters the read of a connection only    *)
(* if its client has sent something or has gone.                           *)
(***************************************************************************)
THEOREM ReadsOnlyReady == Spec \/ SpecWithDeaths => []NeverWaitsForLiveClient
<1>1. IInv => NeverWaitsForLiveClient
  <2> SUFFICES ASSUME IInv, main = "receive"
               PROVE  Readable(connections[i].fd)
    BY DEF NeverWaitsForLiveClient, Readable
  <2>1. ReadyFrom(i) /\ "POLLIN" \in connections[i].revents
    BY DEF IInv, Reported
  <2>2. i \in i .. nfds - 1
    BY CurrentSlot
  <2> QED
    BY <2>1, <2>2 DEF ReadyFrom
<1> QED
  BY <1>1, Invariance, PTL
-----------------------------------------------------------------------------
(***************************************************************************)
(* The main loop implements ConnectionService, for any size of the array   *)
(* and any clients: every step of NetworkServer is a step of the service   *)
(* or leaves it alone.  The promise that every message has its turn rests  *)
(* on fairness and is left to TLC.                                         *)
(***************************************************************************)
States == {"out", "idle", "waiting", "left", "dead", "cut off"}
Messages == {"nothing", "request", "piece", "quit"}

LEMMA ServiceTypes ==
  ASSUME IInv
  PROVE  client \in [Clients -> States] /\ inbox \in [Clients -> Messages]
  BY DEF IInv, TypeOK, States, Messages

LEMMA SameCardinality == \A S : Service!Cardinality(S) = Cardinality(S)
  BY DEF Service!Cardinality, Cardinality

(***************************************************************************)
(* A full array means that as many clients are connected as there are      *)
(* slots beside the listening socket, one more than there is room for.     *)
(***************************************************************************)
LEMMA FiniteConnected ==
  ASSUME IInv
  PROVE  IsFiniteSet(Service!Connected) /\ Accepted \subseteq Service!Connected
<1> DEFINE waiting == {c \in Clients : backlog = <<c>>}
<1>1. nfds - 1 \in Int
  BY SlotFacts DEF IInv
<1>2. IsFiniteSet(1 .. nfds - 1)
  BY <1>1, FS_Interval
<1>3. IsFiniteSet(Accepted)
  <2> DEFINE f == [s \in 1 .. nfds - 1 |-> connections[s].fd]
  <2>1. f \in Surjection(1 .. nfds - 1, Accepted)
    BY DEF IInv, OneSlotEach, Surjection
  <2> QED
    BY <1>2, <2>1, FS_Surjection
<1>4. IsFiniteSet(waiting)
  <2>1. waiting \subseteq {Head(backlog)}
    OBVIOUS
  <2> QED
    BY <2>1, FS_Singleton, FS_Subset
<1>5. /\ Service!Connected \subseteq Accepted \cup waiting
      /\ Accepted \subseteq Service!Connected
  BY DEF Service!Connected, Accepted
<1>6. IsFiniteSet(Accepted \cup waiting)
  BY <1>3, <1>4, FS_Union
<1> QED
  BY <1>5, <1>6, FS_Subset

LEMMA FullArray ==
  ASSUME IInv, nfds = NFDESC
  PROVE  Cardinality(Service!Connected) > NFDESC - 2
<1> DEFINE f == [s \in 1 .. nfds - 1 |-> connections[s].fd]
<1>1. f \in [1 .. nfds - 1 -> Service!Connected]
  BY UsedSlots, FiniteConnected
<1>2. \A s, u \in 1 .. nfds - 1 : f[s] = f[u] => s = u
  BY DEF IInv, OneSlotEach
<1>3. f \in Injection(1 .. nfds - 1, Service!Connected)
  BY <1>1, <1>2 DEF Injection, IsInjective
<1>4. Cardinality(1 .. nfds - 1) <= Cardinality(Service!Connected)
  BY <1>3, FiniteConnected, FS_Injection
<1>5. NFDESC \in Nat /\ NFDESC >= 2
  BY ServerAssumption
<1>6. Cardinality(1 .. nfds - 1) = NFDESC - 1
  BY <1>5, FS_Interval
<1>7. Cardinality(Service!Connected) \in Nat
  BY FiniteConnected, FS_CardinalityType
<1> QED
  BY <1>4, <1>5, <1>6, <1>7

(***************************************************************************)
(* How the place of the loop reads as a stage of the service.              *)
(***************************************************************************)
LEMMA Stages ==
  /\ main \in {"poll", "accept", "scan"} => Stage = "free" /\ Serving = NoFd
  /\ main = "send" => Stage = "serving" /\ Serving = connections[i].fd
  /\ main = "close" => Stage = "closing" /\ Serving = connections[i].fd
  /\ main = "receive" /\ inbox[connections[i].fd] # "nothing" =>
       Stage = "free" /\ Serving = NoFd
  /\ main = "receive" /\ inbox[connections[i].fd] = "nothing" =>
       Stage = "stuck" /\ Serving = connections[i].fd
  BY DEF Stage, Serving, Stuck

LEMMA StagesThen ==
  /\ main' \in {"poll", "accept", "scan"} => Stage' = "free" /\ Serving' = NoFd
  /\ main' = "send" => Stage' = "serving" /\ Serving' = connections'[i'].fd
  /\ main' = "close" => Stage' = "closing" /\ Serving' = connections'[i'].fd
  /\ main' = "receive" /\ inbox'[connections'[i'].fd] # "nothing" =>
       Stage' = "free" /\ Serving' = NoFd
  /\ main' = "receive" /\ inbox'[connections'[i'].fd] = "nothing" =>
       Stage' = "stuck" /\ Serving' = connections'[i'].fd
  BY DEF Stage, Serving, Stuck

(***************************************************************************)
(* A round begins, or looks at the next slot: the service stands still.    *)
(***************************************************************************)
LEMMA RoundStep ==
  ASSUME IInv, poll \/ accept \/ ScanEnds
  PROVE  UNCHANGED Service!vars
<1>1. /\ main \in {"poll", "accept", "scan"}
      /\ inbox' = inbox /\ client' = client
  BY DEF poll, accept, ScanEnds, clientVars
<1>2. main' \in {"poll", "accept", "scan"}
  <2>1. CASE ScanEnds
    <3>1. i = nfds /\ i <= Last
      BY <2>1 DEF ScanEnds, IInv, LoopBounds
    <3>2. "POLLHUP" \notin connections[i].revents
      BY <3>1, SlotFacts DEF IInv, CleanSlots
    <3> QED
      BY <2>1, <3>2 DEF ScanEnds
  <2> QED
    BY <2>1 DEF poll, accept
<1> QED
  BY <1>1, <1>2, Stages, StagesThen DEF Service!vars

(***************************************************************************)
(* At a slot the loop goes on, gives up the connection in the last slot,   *)
(* or gets ready to read: then it gets stuck if there is nothing to read.  *)
(***************************************************************************)
LEMMA ScanStep ==
  ASSUME IInv, ScanSlot
  PROVE  \/ UNCHANGED Service!vars
         \/ \E c \in Clients : Service!GiveUp(c) \/ Service!GetStuck(c)
<1> DEFINE c == connections[i].fd
<1>1. /\ main = "scan" /\ i < nfds
      /\ UNCHANGED <<connections, socket_ids, nfds, inbox, client>>
      /\ \/ i = NFDESC - 1 /\ main' = "close" /\ i' = i
         \/ "POLLIN" \in connections[i].revents /\ main' = "receive" /\ i' = i
         \/ main' = "scan"
  BY DEF ScanSlot, clientVars
<1>2. i \in 1 .. nfds - 1 /\ i \in i .. nfds - 1
  BY <1>1, SlotFacts DEF IInv
<1>3. c \in Accepted /\ c \in Clients
  BY <1>2, UsedSlots
<1>4. Stage = "free"
  BY <1>1, Stages
<1>5. CASE i = NFDESC - 1 /\ main' = "close" /\ i' = i
  <2>1. nfds = NFDESC
    BY <1>1, <1>5, SlotFacts DEF IInv
  <2>2. Cardinality(Service!Connected) > NFDESC - 2
    BY <2>1, FullArray
  <2>3. c \in Service!Connected
    BY <1>3, FiniteConnected
  <2>4. Stage' = "closing" /\ Serving' = c
    BY <1>1, <1>5, StagesThen
  <2>5. Service!GiveUp(c)
    BY <1>1, <1>4, <2>2, <2>3, <2>4, SameCardinality DEF Service!GiveUp
  <2> QED
    BY <1>3, <2>5
<1>6. CASE "POLLIN" \in connections[i].revents /\ main' = "receive" /\ i' = i
  <2>1. CASE inbox[c] # "nothing"
    BY <1>1, <1>6, <2>1, Stages, StagesThen DEF Service!vars
  <2>2. CASE inbox[c] = "nothing"
    <3>1. Readable(c)
      BY <1>1, <1>2, <1>6 DEF IInv, Reported, ReadyFrom
    <3>2. client[c] = "dead"
      BY <2>2, <3>1 DEF Readable
    <3>3. Stage' = "stuck" /\ Serving' = c
      BY <1>1, <1>6, <2>2, StagesThen
    <3>4. Service!GetStuck(c)
      BY <1>1, <1>4, <3>2, <3>3 DEF Service!GetStuck
    <3> QED
      BY <1>3, <3>4
  <2> QED
    BY <2>1, <2>2
<1>7. CASE main' = "scan"
  BY <1>1, <1>7, Stages, StagesThen DEF Service!vars
<1> QED
  BY <1>1, <1>5, <1>6, <1>7

(***************************************************************************)
(* Reading takes the message, sending answers it, and closing ends the     *)
(* connection the service is dealing with.                                 *)
(***************************************************************************)
LEMMA ReceiveStep ==
  ASSUME IInv, network_receive
  PROVE  \E c \in Clients : Service!Take(c)
<1> DEFINE c == connections[i].fd
<1>1. /\ main = "receive" /\ inbox[c] # "nothing"
      /\ inbox' = [inbox EXCEPT ![c] = "nothing"]
      /\ main' = IF inbox[c] = "request" THEN "send" ELSE "close"
      /\ UNCHANGED <<connections, i, client>>
  BY DEF network_receive, read_all, PlaceAfter
<1>2. c \in Clients
  BY <1>1, CurrentSlot
<1>3. inbox[c] \in {"request", "piece", "quit"}
  BY <1>1, <1>2, ServiceTypes DEF Messages
<1>4. Stage = "free"
  BY <1>1, Stages
<1>5. CASE inbox[c] = "request"
  <2>1. Stage' = "serving" /\ Serving' = c
    BY <1>1, <1>5, StagesThen
  <2> QED
    BY <1>1, <1>2, <1>4, <1>5, <2>1 DEF Service!Take, Service!TakeRequest
<1>6. CASE inbox[c] \in {"piece", "quit"}
  <2>1. Stage' = "closing" /\ Serving' = c
    BY <1>1, <1>6, StagesThen
  <2> QED
    BY <1>1, <1>2, <1>4, <1>6, <2>1 DEF Service!Take, Service!TakeOther
<1> QED
  BY <1>3, <1>5, <1>6

LEMMA SendStep ==
  ASSUME IInv, network_send
  PROVE  Service!Answer
<1>1. /\ main = "send" /\ main' = "scan" /\ inbox' = inbox
      /\ client' = [client EXCEPT ![connections[i].fd] =
                      IF @ = "waiting" THEN "idle" ELSE @]
  BY DEF network_send
<1>2. Stage = "serving" /\ Serving = connections[i].fd
  BY <1>1, Stages
<1>3. Stage' = "free" /\ Serving' = NoFd
  BY <1>1, StagesThen
<1> QED
  BY <1>1, <1>2, <1>3 DEF Service!Answer

LEMMA CloseStep ==
  ASSUME IInv, connection_close
  PROVE  Service!Close
<1>1. /\ main = "close" /\ main' = "poll"
      /\ client' = [client EXCEPT ![connections[i].fd] =
                      IF Closed(connections[i].fd) THEN "out" ELSE "cut off"]
      /\ inbox' = [inbox EXCEPT ![connections[i].fd] = "nothing"]
  BY DEF connection_close
<1>2. Stage = "closing" /\ Serving = connections[i].fd
  BY <1>1, Stages
<1>3. Stage' = "free" /\ Serving' = NoFd
  BY <1>1, StagesThen
<1> QED
  BY <1>1, <1>2, <1>3 DEF Service!Close, Service!Closed, Closed

(***************************************************************************)
(* What a client does leaves the server where it is: a message that the    *)
(* server is about to read stays, and a dead client sends nothing.         *)
(***************************************************************************)
LEMMA ServerStays ==
  ASSUME IInv, UNCHANGED <<connections, i, main>>,
         main = "receive" =>
           (inbox'[connections[i].fd] = "nothing"
              <=> inbox[connections[i].fd] = "nothing")
  PROVE  Serving' = Serving /\ Stage' = Stage
<1>1. Stuck' <=> Stuck
  BY DEF Stuck
<1> QED
  BY <1>1 DEF Serving, Stage

LEMMA ClientStep ==
  ASSUME IInv, NEW c \in Clients,
         Connect(c) \/ SendRequest(c) \/ Quit(c) \/ Restart(c) \/ Die(c)
  PROVE  \/ Service!Connect(c) \/ Service!SendRequest(c) \/ Service!Quit(c)
         \/ Service!Restart(c) \/ Service!Die(c)
<1>1. UNCHANGED <<connections, i, main>>
  BY DEF Connect, SendRequest, Quit, Restart, Die, serverVars
<1>2. \/ inbox' = inbox
      \/ /\ client[c] = "idle"
         /\ \E m \in {"request", "piece", "quit"} : inbox' = [inbox EXCEPT ![c] = m]
  BY DEF Connect, SendRequest, Quit, Restart, Die
<1>3. ASSUME main = "receive"
      PROVE  (inbox'[connections[i].fd] = "nothing"
                <=> inbox[connections[i].fd] = "nothing")
  <2>1. i \in 1 .. nfds - 1 /\ i \in i .. nfds - 1 /\ connections[i].fd \in Clients
    BY <1>3, CurrentSlot, SlotFacts DEF IInv
  <2>2. Readable(connections[i].fd)
    BY <1>3, <2>1 DEF IInv, Reported, ReadyFrom
  <2> QED
    BY <1>2, <2>1, <2>2, ServiceTypes DEF Readable
<1>4. Serving' = Serving /\ Stage' = Stage
  BY <1>1, <1>3, ServerStays
<1>5. CASE Connect(c)
  BY <1>4, <1>5 DEF Connect, Service!Connect
<1>6. CASE SendRequest(c)
  BY <1>4, <1>6 DEF SendRequest, Service!SendRequest
<1>7. CASE Quit(c)
  BY <1>4, <1>7 DEF Quit, Service!Quit
<1>8. CASE Restart(c)
  BY <1>4, <1>8 DEF Restart, Service!Restart
<1>9. CASE Die(c)
  BY <1>4, <1>9 DEF Die, Service!Die
<1> QED
  BY <1>5, <1>6, <1>7, <1>8, <1>9

LEMMA ServiceInit == Init => Service!Init
<1> SUFFICES ASSUME Init
             PROVE  Service!Init
  OBVIOUS
<1>1. Stage = "free" /\ Serving = NoFd
  BY Stages DEF Init
<1> QED
  BY <1>1 DEF Init, Service!Init

LEMMA ServiceStep == IInv /\ [NextWithDeaths]_vars => [Service!Next]_(Service!vars)
<1> SUFFICES ASSUME IInv, [NextWithDeaths]_vars
             PROVE  Service!Next \/ UNCHANGED Service!vars
  OBVIOUS
<1>1. CASE network_main_loop
  BY <1>1, RoundStep, ScanStep, ReceiveStep, SendStep, CloseStep
     DEF network_main_loop, Service!Next
<1>2. CASE \E c \in Clients :
             Connect(c) \/ SendRequest(c) \/ Quit(c) \/ Restart(c) \/ Die(c)
  BY <1>2, ClientStep DEF Service!Next
<1>3. CASE UNCHANGED vars
  <2>1. UNCHANGED <<connections, i, main, inbox, client>>
    BY <1>3 DEF vars, serverVars, clientVars
  <2> QED
    BY <2>1, ServerStays DEF Service!vars
<1> QED
  BY <1>1, <1>2, <1>3, ServerAssumption DEF NextWithDeaths, Next

(***************************************************************************)
(* Whatever the clients do, and however they end, the main loop deals with *)
(* one message at a time, answers it before it takes another, and closes a *)
(* connection that is still wanted only when the array is full             *)
(* (network_main_loop in source/network_server.c).                         *)
(***************************************************************************)
THEOREM LoopIsService ==
  Spec \/ SpecWithDeaths => Service!Init /\ [][Service!Next]_(Service!vars)
<1>1. Next => NextWithDeaths
  BY DEF NextWithDeaths
<1>2. Init => Service!Init
  BY ServiceInit
<1>3. IInv /\ [NextWithDeaths]_vars => [Service!Next]_(Service!vars)
  BY ServiceStep
<1>4. IInv /\ [Next]_vars => [Service!Next]_(Service!vars)
  BY <1>1, <1>3
<1> QED
  BY <1>2, <1>3, <1>4, Invariance, PTL DEF Spec, SpecWithDeaths
=============================================================================
