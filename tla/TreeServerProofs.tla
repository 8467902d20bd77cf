-------------------------- MODULE TreeServerProofs --------------------------
(***************************************************************************)
(* What the server process guarantees for every number of workers and      *)
(* requests and all command lines.                                         *)
(***************************************************************************)
EXTENDS TreeServer, FiniteOrder, SequenceTheorems

(***************************************************************************)
(* A number that fits is not changed by the conversion to a narrower type. *)
(***************************************************************************)
LEMMA CutKeeps ==
  ASSUME NEW max \in Nat, NEW n \in -max - 1 .. max
  PROVE  Cut(n, max) = n
<1>1. n + max + 1 \in 0 .. 2 * (max + 1) - 1
  OBVIOUS
<1>2. (n + max + 1) % (2 * (max + 1)) = n + max + 1
  <2> DEFINE m == 2 * (max + 1)
             x == n + max + 1
  <2>1. m \in Nat \ {0} /\ x \in 0 .. m - 1
    BY <1>1
  <2>2. \A y \in 0 .. m - 1 : y % m = y
    <3> HIDE DEF m
    <3> QED
      BY <2>1, SMT
  <2> QED
    BY <2>1, <2>2
<1> QED
  BY <1>1, <1>2 DEF Cut

LEMMA CutType ==
  ASSUME NEW max \in Nat, NEW n \in Int
  PROVE  Cut(n, max) \in Int
  BY DEF Cut

(***************************************************************************)
(* A text whose number is not below the smallest short is either refused   *)
(* or read as that number, which is then no reserved port.                 *)
(***************************************************************************)
LEMMA PortRule ==
  ASSUME NEW text \in Texts, text.number >= -SHRT_MAX - 1, parse_port(text) >= 0
  PROVE  parse_port(text) = text.number /\ text.number \notin Reserved
<1> DEFINE port == strtol(text)
<1>1. /\ text.number \in Int
      /\ SHRT_MAX \in Nat /\ LONG_MAX \in Nat /\ SHRT_MAX < LONG_MAX
  BY WidthAssumption DEF Texts
<1>2. port \in Int /\ port >= -SHRT_MAX - 1
  BY <1>1 DEF strtol
<1>3. /\ port <= SHRT_MAX /\ port \notin Reserved
      /\ parse_port(text) = Cut(port, SHRT_MAX)
  <2>1. ~(text.rest \/ port > SHRT_MAX \/ port \in Reserved)
    BY DEF parse_port
  <2> QED
    BY <1>1, <1>2, <2>1 DEF parse_port
<1>4. port = text.number
  BY <1>1, <1>3 DEF strtol
<1>5. Cut(port, SHRT_MAX) = port
  BY <1>1, <1>2, <1>3, CutKeeps
<1> QED
  BY <1>3, <1>4, <1>5
-----------------------------------------------------------------------------
Commands == PortTexts \X ThreadsTexts

(***************************************************************************)
(* Until they have been used, the arguments are what was typed.            *)
(***************************************************************************)
Setup ==
  /\ main = "parsing" => argv \in Commands
  /\ main = "binding" => /\ argv \in Commands
                         /\ server_port = parse_port(argv[1])
                         /\ server_port >= 0

(***************************************************************************)
(* While main starts the workers and serves, the tree and op_proc exist.   *)
(* Freeing begins with the tree.  There are no workers before that.        *)
(***************************************************************************)
Serving ==
  {"polling", "locking", "testing", "entering", "walking", "clearing", "signalling",
   "unlocking", "sending"}

Ready ==
  /\ main \in Serving \cup {"starting"} => gp_TREE /\ gp_op_proc /\ n_threads >= 1
  /\ main \in {"binding", "creating"} => n_threads >= 1
  /\ gp_TREE => gp_op_proc
  /\ main = "releasing" => ~gp_TREE
  /\ main \in {"parsing", "binding", "creating"} => ~misused
  /\ (\E t \in Thread : pc[t] # "absent") => main \notin {"parsing", "binding", "creating"}

(***************************************************************************)
(* The next five hold until a mutex in use is unlocked (forced).           *)
(***************************************************************************)
Locked ==
  /\ \A t, u \in Thread : Inside(t) /\ Inside(u) => t = u
  /\ \A t \in Thread : ~(Inside(t) /\ MainInside)
  /\ g_queue_lock <=> (MainInside \/ \E t \in Thread : Inside(t))

(***************************************************************************)
(* The newest request is hung into the list in the middle of               *)
(* queue_add_request; Hung is the newest that has been.                    *)
(***************************************************************************)
Adding == Serving \ {"polling", "sending"}

Loose == main \in {"locking", "testing", "entering", "walking"}

Hung == IF Loose THEN created - 1 ELSE created

(***************************************************************************)
(* The list has the requests from its head to Hung, in this order, and all *)
(* of them exist.                                                          *)
(***************************************************************************)
Linked ==
  /\ main \in Adding => p_new = created /\ created >= 1
  /\ Loose => created \in allocated /\ p_next[created] = NULL
  /\ main \in {"entering", "clearing"} => gp_queue_head # NULL
  /\ main = "walking" => gp_queue_head # NULL /\ p_request_itr \in gp_queue_head .. Hung
  /\ gp_queue_head # NULL =>
       /\ gp_queue_head \in 1 .. Hung
       /\ gp_queue_head .. Hung \subseteq allocated
       /\ \A r \in gp_queue_head .. Hung - 1 : p_next[r] = r + 1
       /\ p_next[Hung] = NULL

(***************************************************************************)
(* What the workers hold exists, belongs to one of them, and has left the  *)
(* list, except between the two steps that take the head.                  *)
(***************************************************************************)
Holds(t) == pc[t] \in {"moving", "unlocking", "marking", "applying", "finishing"}

Held ==
  /\ \A t \in Thread : ~Holds(t) => p_request[t] = NULL
  /\ \A t \in Thread : Holds(t) => p_request[t] \in allocated /\ p_request[t] \in 1 .. Hung
  /\ \A t, u \in Thread : t # u /\ Holds(t) /\ Holds(u) => p_request[t] # p_request[u]
  /\ \A t \in Thread : Holds(t) /\ pc[t] # "moving" /\ gp_queue_head # NULL =>
       p_request[t] < gp_queue_head
  /\ \A t \in Thread : pc[t] = "moving" => p_request[t] = gp_queue_head
  /\ \A t \in Thread : pc[t] \in {"taking", "moving"} => gp_queue_head # NULL
  /\ \A t \in Thread : pc[t] = "waiting" => gp_queue_head = NULL

Safe == misused => ~gp_TREE

Sound == Locked /\ Linked /\ Held /\ Safe

(***************************************************************************)
(* The rest is true until a SIGINT arrives.  The handler does not run,     *)
(* main does not get to its end, and the workers, of which there is at     *)
(* least one once main serves, are not told to stop.                       *)
(***************************************************************************)
Undisturbed ==
  /\ handler = "none"
  /\ g_are_threads_running
  /\ ~forced
  /\ main \in {"parsing", "binding", "creating", "starting", "exited"} \cup Serving

Attended ==
  /\ main \in Serving => pc[0] # "absent"
  /\ \A t \in Thread : pc[t] # "exited"

Awake ==
  gp_queue_head # NULL /\ main \notin {"clearing", "signalling"} =>
    \E t \in Thread : pc[t] \notin {"absent", "asleep", "exited"}

Calm == Undisturbed /\ Attended /\ Awake

IInv ==
  /\ TypeOK
  /\ Setup
  /\ Ready
  /\ ~forced => Sound
  /\ signals = 0 => Calm
-----------------------------------------------------------------------------
(***************************************************************************)
(* The places, one by one: the provers are lost in the large enumerations. *)
(***************************************************************************)
LEMMA Places ==
  /\ "parsing" \in MainPlaces
  /\ "binding" \in MainPlaces
  /\ "creating" \in MainPlaces
  /\ "starting" \in MainPlaces
  /\ "polling" \in MainPlaces
  /\ "locking" \in MainPlaces
  /\ "testing" \in MainPlaces
  /\ "entering" \in MainPlaces
  /\ "walking" \in MainPlaces
  /\ "clearing" \in MainPlaces
  /\ "signalling" \in MainPlaces
  /\ "unlocking" \in MainPlaces
  /\ "sending" \in MainPlaces
  /\ "destroying" \in MainPlaces
  /\ "releasing" \in MainPlaces
  /\ "stopping" \in MainPlaces
  /\ "exiting" \in MainPlaces
  /\ "exited" \in MainPlaces
  /\ "killed" \in MainPlaces
  /\ "absent" \in WorkerPlaces
  /\ "looping" \in WorkerPlaces
  /\ "locking" \in WorkerPlaces
  /\ "relocking" \in WorkerPlaces
  /\ "testing" \in WorkerPlaces
  /\ "waiting" \in WorkerPlaces
  /\ "asleep" \in WorkerPlaces
  /\ "taking" \in WorkerPlaces
  /\ "moving" \in WorkerPlaces
  /\ "unlocking" \in WorkerPlaces
  /\ "marking" \in WorkerPlaces
  /\ "applying" \in WorkerPlaces
  /\ "finishing" \in WorkerPlaces
  /\ "exited" \in WorkerPlaces
  BY DEF MainPlaces, WorkerPlaces

LEMMA IInvInit == Init => IInv
<1> SUFFICES ASSUME Init
             PROVE  IInv
  OBVIOUS
<1>1. TypeOK
  <2>1. created \in 0 .. MaxRequests /\ n_threads \in 0 .. MaxThreads
        /\ signals \in 0 .. MaxSignals
    BY QueueAssumption, ServerAssumption DEF Init, QueueInit
  <2>2. main \in MainPlaces /\ handler = "none" /\ pc \in [Thread -> WorkerPlaces]
    BY Places DEF Init, QueueInit
  <2> QED
    BY <2>1, <2>2 DEF Init, QueueInit, TypeOK
<1>2. Setup
  BY DEF Init, QueueInit, Setup, Commands
<1>3. Undisturbed /\ Attended /\ Ready
  BY DEF Init, QueueInit, Undisturbed, Attended, Ready, Serving
<1>4. Locked
  BY DEF Init, QueueInit, Locked, Inside, MainInside
<1>5. Linked /\ Held /\ Safe /\ Awake
  BY DEF Init, QueueInit, Linked, Adding, Held, Safe, Awake, Holds, Loose, Serving
<1> QED
  BY <1>1, <1>2, <1>3, <1>4, <1>5 DEF IInv, Sound, Calm

(***************************************************************************)
(* Types.                                                                  *)
(***************************************************************************)
LEMMA ParsedType ==
  ASSUME NEW text \in Texts
  PROVE  parse_int(text) \in Int
<1>1. INT_MAX \in Nat /\ LONG_MAX \in Nat /\ text.number \in Int
  BY WidthAssumption DEF Texts
<1>2. strtol(text) \in Int
  BY <1>1 DEF strtol
<1> QED
  BY <1>1, <1>2, CutType DEF parse_int

LEMMA NewRequest ==
  ASSUME created \in 0 .. MaxRequests, created < MaxRequests
  PROVE  created + 1 \in Request /\ created + 1 \in 0 .. MaxRequests
  BY QueueAssumption DEF Request

LEMMA ThreadsFit ==
  ASSUME NEW n \in Int, n >= 1, n <= MaxThreads
  PROVE  n \in 0 .. MaxThreads
  BY QueueAssumption

LEMMA OneMoreSignal ==
  ASSUME signals \in 0 .. MaxSignals, signals < MaxSignals
  PROVE  signals + 1 \in 0 .. MaxSignals
  BY ServerAssumption

LEMMA NextTyped ==
  ASSUME TypeOK, NEW p \in Request \cup {NULL}, NEW n \in NextOf(p)
  PROVE  n \in Request \cup {NULL}
  BY DEF NextOf, TypeOK

LEMMA Hanged ==
  ASSUME TypeOK, NEW p \in Request \cup {NULL}, NEW q \in Owners(p),
         NEW r \in Request \cup {NULL}
  PROVE  [p_next EXCEPT ![q] = r] \in [Request -> Request \cup {NULL}]
  BY DEF Owners, TypeOK

LEMMA TypeAddWalks == TypeOK /\ AddWalks /\ UNCHANGED serverVars => TypeOK'
<1> SUFFICES ASSUME TypeOK, AddWalks, UNCHANGED serverVars
             PROVE  TypeOK'
  OBVIOUS
<1> USE DEF listVars, workerVars, setupVars, lifeVars, signalVars, serverVars
<1>1. p_request_itr \in Request \cup {NULL} /\ p_new \in Request \cup {NULL}
  BY DEF TypeOK
<1>2. main' \in MainPlaces /\ p_new' \in Request \cup {NULL} /\ misused' \in BOOLEAN
  BY Places DEF AddWalks, TypeOK, Follow, KilledBy, Killed, MainMoves
<1>3. p_request_itr' \in Request \cup {NULL}
  BY <1>1, NextTyped DEF AddWalks, KilledBy, Killed, MainMoves
<1>4. p_next' \in [Request -> Request \cup {NULL}]
  <2>1. CASE UNCHANGED p_next
    BY <2>1 DEF TypeOK
  <2>2. CASE \E q \in Owners(p_request_itr) : p_next' = [p_next EXCEPT ![q] = p_new]
    BY <1>1, <2>2, Hanged
  <2> QED
    BY <2>1, <2>2 DEF AddWalks
<1> QED
  BY <1>2, <1>3, <1>4 DEF AddWalks, TypeOK

LEMMA TypeAddClearsNext == TypeOK /\ AddClearsNext /\ UNCHANGED serverVars => TypeOK'
<1> SUFFICES ASSUME TypeOK, AddClearsNext, UNCHANGED serverVars
             PROVE  TypeOK'
  OBVIOUS
<1> USE DEF listVars, workerVars, setupVars, lifeVars, signalVars, serverVars
<1>1. p_new \in Request \cup {NULL}
  BY DEF TypeOK
<1>2. /\ main' \in MainPlaces /\ p_new' \in Request \cup {NULL}
      /\ p_request_itr' \in Request \cup {NULL} /\ misused' \in BOOLEAN
  BY Places DEF AddClearsNext, TypeOK, Follow, KilledBy, Killed, MainMoves
<1>3. p_next' \in [Request -> Request \cup {NULL}]
  <2>1. CASE UNCHANGED p_next
    BY <2>1 DEF TypeOK
  <2>2. CASE \E q \in Owners(p_new) : p_next' = [p_next EXCEPT ![q] = NULL]
    BY <1>1, <2>2, Hanged
  <2> QED
    BY <2>1, <2>2 DEF AddClearsNext
<1> QED
  BY <1>2, <1>3 DEF AddClearsNext, TypeOK

LEMMA TypeMain == TypeOK /\ Setup /\ MainThread => TypeOK'
<1> SUFFICES ASSUME TypeOK, Setup, MainThread
             PROVE  TypeOK'
  OBVIOUS
<1> USE QueueAssumption, Places DEF TypeOK, MainMoves, WorkerMoves, Killed,
        listVars, adderVars, workerVars, queueVars, setupVars, lifeVars, signalVars, serverVars
<1>1. CASE ParseArguments
  <2>1. parse_int(argv[2]) \in Int
    BY <1>1, ParsedType, ServerAssumption DEF ParseArguments, Commands, Setup
  <2>2. main' \in {"exited", "binding"} /\ n_threads' \in 0 .. MaxThreads
    BY <1>1, <2>1, ThreadsFit DEF ParseArguments, enough_threads
  <2> QED
    BY <1>1, <2>2 DEF ParseArguments
<1>2. CASE network_server_init
  BY <1>2 DEF network_server_init
<1>3. CASE tree_skel_init
  <2>1. main' \in MainPlaces /\ gp_TREE' \in BOOLEAN /\ gp_op_proc' \in BOOLEAN
        /\ UNCHANGED <<p_new, p_request_itr>>
    BY <1>3 DEF tree_skel_init
  <2>2. pc' \in [Thread -> WorkerPlaces] /\ UNCHANGED p_request
    BY <1>3 DEF tree_skel_init
  <2> QED
    BY <1>3, <2>1, <2>2 DEF tree_skel_init
<1>4. CASE imvoke_write
  BY <1>4, NewRequest DEF imvoke_write, request_create
<1>5. CASE queue_add_request /\ UNCHANGED serverVars
  <2>1. CASE AddLocks
    BY <1>5, <2>1 DEF AddLocks, pthread_mutex_lock
  <2>2. CASE AddTestsHead
    BY <1>5, <2>2 DEF AddTestsHead
  <2>3. CASE AddEnters
    BY <1>5, <2>3 DEF AddEnters
  <2>4. CASE AddWalks
    BY <1>5, <2>4, TypeAddWalks
  <2>5. CASE AddClearsNext
    BY <1>5, <2>5, TypeAddClearsNext
  <2>6. CASE AddSignals
    <3>1. pc' \in [Thread -> WorkerPlaces]
      BY <2>6 DEF AddSignals, pthread_cond_signal
    <3> QED
      BY <1>5, <2>6, <3>1 DEF AddSignals
  <2>7. CASE AddUnlocks
    BY <1>5, <2>7 DEF AddUnlocks, pthread_mutex_unlock
  <2> QED
    BY <1>5, <2>1, <2>2, <2>3, <2>4, <2>5, <2>6, <2>7 DEF queue_add_request
<1>6. CASE network_send
  BY <1>6 DEF network_send
<1>7. CASE tree_skel_destroy
  <2>1. CASE tree_destroy
    <3>1. main' \in MainPlaces /\ misused' \in BOOLEAN /\ UNCHANGED <<p_new, p_request_itr>>
      BY <2>1 DEF tree_destroy
    <3> QED
      BY <2>1, <3>1 DEF tree_destroy
  <2>2. CASE op_proc_destroy
    BY <2>2 DEF op_proc_destroy
  <2> QED
    BY <1>7, <2>1, <2>2 DEF tree_skel_destroy
<1>8. CASE tree_skel_request_queue_threads_destroy
  BY <1>8 DEF tree_skel_request_queue_threads_destroy, ForcedUnlock, pthread_mutex_unlock,
              pthread_cond_broadcast
<1>9. CASE exit
  BY <1>9 DEF exit
<1> QED
  BY <1>1, <1>2, <1>3, <1>4, <1>5, <1>6, <1>7, <1>8, <1>9 DEF MainThread

LEMMA TypeWorker ==
  ASSUME NEW t \in Thread
  PROVE  TypeOK /\ (process_request(t) \/ (SpuriousWakeup(t) /\ UNCHANGED serverVars))
           => TypeOK'
<1> SUFFICES ASSUME TypeOK,
                    process_request(t) \/ (SpuriousWakeup(t) /\ UNCHANGED serverVars)
             PROVE  TypeOK'
  OBVIOUS
<1> USE QueueAssumption, Places DEF TypeOK, MainMoves, WorkerMoves, Killed, Using,
        listVars, adderVars, workerVars, queueVars, setupVars, lifeVars, signalVars, serverVars
<1>1. CASE TestLoop(t)
  BY <1>1 DEF TestLoop
<1>2. CASE queue_get_next_request(t) /\ UNCHANGED serverVars
  <2>1. CASE GetLocks(t)
    BY <1>2, <2>1 DEF GetLocks, pthread_mutex_lock
  <2>2. CASE GetTestsHead(t)
    BY <1>2, <2>2 DEF GetTestsHead
  <2>3. CASE GetWaits(t)
    BY <1>2, <2>3 DEF GetWaits, pthread_mutex_unlock
  <2>4. CASE GetTakesHead(t)
    BY <1>2, <2>4 DEF GetTakesHead
  <2>5. CASE GetMovesHead(t)
    <3>1. gp_queue_head' \in Request \cup {NULL}
      BY <2>5, NextTyped DEF GetMovesHead
    <3>2. main' \in MainPlaces /\ misused' \in BOOLEAN
      BY <2>5 DEF GetMovesHead, KilledBy, Follow
    <3>3. UNCHANGED <<p_new, p_request_itr>> /\ pc' \in [Thread -> WorkerPlaces]
      BY <2>5 DEF GetMovesHead, KilledBy
    <3> QED
      BY <1>2, <2>5, <3>1, <3>2, <3>3 DEF GetMovesHead
  <2>6. CASE GetUnlocks(t)
    <3>1. pc' \in [Thread -> WorkerPlaces] /\ g_queue_lock' \in BOOLEAN
      BY <2>6 DEF GetUnlocks, pthread_mutex_unlock
    <3> QED
      BY <1>2, <2>6, <3>1 DEF GetUnlocks
  <2> QED
    BY <1>2, <2>1, <2>2, <2>3, <2>4, <2>5, <2>6 DEF queue_get_next_request
<1>3. CASE MarkInProgress(t)
  <2>1. pc' \in [Thread -> WorkerPlaces] /\ UNCHANGED p_request
    BY <1>3 DEF MarkInProgress
  <2>2. main' \in MainPlaces /\ misused' \in BOOLEAN /\ UNCHANGED <<p_new, p_request_itr>>
    BY <1>3 DEF MarkInProgress
  <2> QED
    BY <1>3, <2>1, <2>2 DEF MarkInProgress
<1>4. CASE ApplyRequest(t)
  <2>1. pc' \in [Thread -> WorkerPlaces] /\ UNCHANGED p_request
    BY <1>4 DEF ApplyRequest
  <2>2. main' \in MainPlaces /\ misused' \in BOOLEAN /\ UNCHANGED <<p_new, p_request_itr>>
    BY <1>4 DEF ApplyRequest
  <2> QED
    BY <1>4, <2>1, <2>2 DEF ApplyRequest
<1>5. CASE FinishRequest(t)
  <2>1. allocated' \subseteq Request
    BY <1>5 DEF FinishRequest, request_destroy
  <2>2. p_request' \in [Thread -> Request \cup {NULL}] /\ pc' \in [Thread -> WorkerPlaces]
    BY <1>5 DEF FinishRequest
  <2>3. main' \in MainPlaces /\ misused' \in BOOLEAN /\ UNCHANGED <<p_new, p_request_itr>>
    BY <1>5 DEF FinishRequest
  <2> QED
    BY <1>5, <2>1, <2>2, <2>3 DEF FinishRequest
<1>6. CASE SpuriousWakeup(t) /\ UNCHANGED serverVars
  BY <1>6 DEF SpuriousWakeup
<1> QED
  BY <1>1, <1>2, <1>3, <1>4, <1>5, <1>6 DEF process_request

LEMMA TypeSignal == TypeOK /\ (SignalArrives \/ sigint_handler) => TypeOK'
<1> SUFFICES ASSUME TypeOK, SignalArrives \/ sigint_handler
             PROVE  TypeOK'
  OBVIOUS
<1> USE QueueAssumption, Places, ServerAssumption DEF TypeOK, MainMoves,
        listVars, adderVars, workerVars, queueVars, setupVars, lifeVars, signalVars
<1>1. CASE SignalArrives
  BY <1>1, OneMoreSignal DEF SignalArrives
<1>2. CASE HandlerUnlocks
  BY <1>2 DEF HandlerUnlocks, ForcedUnlock, pthread_mutex_unlock
<1>3. CASE HandlerClearsFlag
  BY <1>3 DEF HandlerClearsFlag
<1>4. CASE HandlerBroadcasts
  BY <1>4 DEF HandlerBroadcasts, pthread_cond_broadcast
<1> QED
  BY <1>1, <1>2, <1>3, <1>4 DEF sigint_handler

(***************************************************************************)
(* The arguments.                                                          *)
(***************************************************************************)
LEMMA SetupStep == Setup /\ Next => Setup'
<1> SUFFICES ASSUME Setup, Next
             PROVE  Setup'
  OBVIOUS
<1>1. CASE ParseArguments
  BY <1>1 DEF Setup, ParseArguments, MainMoves, setupVars
<1>2. CASE MainThread /\ ~ParseArguments
  <2>1. main' \notin {"parsing", "binding"}
    BY <1>2 DEF MainThread, network_server_init, tree_skel_init, imvoke_write,
         queue_add_request,
         AddLocks, AddTestsHead, AddEnters, AddWalks, AddClearsNext, AddSignals, AddUnlocks,
         network_send, tree_skel_destroy, tree_destroy, op_proc_destroy,
         tree_skel_request_queue_threads_destroy, exit, MainMoves, KilledBy, Killed,
         adderVars, listVars
  <2> QED
    BY <2>1 DEF Setup
<1>3. ASSUME NEW t \in Thread, process_request(t) \/ (SpuriousWakeup(t) /\ UNCHANGED serverVars)
      PROVE  Setup'
  <2>1. main' = "killed" \/ main' = main
    BY <1>3 DEF process_request, TestLoop, queue_get_next_request, GetLocks,
         GetTestsHead,
         GetWaits, GetTakesHead, GetMovesHead, GetUnlocks, MarkInProgress, ApplyRequest,
         FinishRequest, SpuriousWakeup, Using, KilledBy, Killed, MainMoves, adderVars
  <2>2. UNCHANGED <<argv, server_port>>
    BY <1>3 DEF process_request, TestLoop, MarkInProgress, ApplyRequest,
         FinishRequest, Using, serverVars, setupVars
  <2> QED
    BY <2>1, <2>2 DEF Setup
<1>4. CASE SignalArrives \/ sigint_handler
  <2>1. main' \in {main, "destroying"}
    BY <1>4 DEF SignalArrives, sigint_handler, HandlerUnlocks, HandlerClearsFlag,
         HandlerBroadcasts, MainMoves, queueVars, adderVars
  <2>2. UNCHANGED <<argv, server_port>>
    BY <1>4 DEF SignalArrives, sigint_handler, HandlerUnlocks, HandlerClearsFlag,
         HandlerBroadcasts, setupVars
  <2> QED
    BY <2>1, <2>2 DEF Setup
<1> QED
  BY <1>1, <1>2, <1>3, <1>4 DEF Next

(***************************************************************************)
(* What the next lemmas need of the types.                                 *)
(***************************************************************************)
LEMMA Kinds ==
  ASSUME TypeOK
  PROVE  /\ pc \in [Thread -> WorkerPlaces]
         /\ p_request \in [Thread -> Request \cup {NULL}]
         /\ p_next \in [Request -> Request \cup {NULL}]
         /\ allocated \subseteq Request
         /\ created \in Nat /\ MaxThreads \in Nat \ {0} /\ n_threads \in 0 .. MaxThreads
         /\ NULL \notin Int
  BY QueueAssumption DEF TypeOK

(***************************************************************************)
(* Every step of main and of the workers keeps Sound and Calm.             *)
(***************************************************************************)
LEMMA CalmParseArguments ==
  ASSUME TypeOK, Ready, Sound, ParseArguments
  PROVE  Sound' /\ (Calm => Calm')
<1> USE Kinds DEF ParseArguments, MainMoves, WorkerMoves, listVars, adderVars,
        workerVars, setupVars, lifeVars, signalVars, serverVars, enough_threads
<1>1. Calm => Undisturbed'
  BY DEF Calm, Undisturbed, Serving
<1>2. Calm => Attended'
  BY DEF Calm, Attended, Serving, Undisturbed
<1>3. Locked'
  BY DEF Sound, Locked, Inside, MainInside
<1>4. Linked'
  BY DEF Sound, Linked, Adding, Loose, Hung, Serving, Request
<1>5. Held'
  BY DEF Sound, Held, Holds, Loose, Hung
<1>6. Calm => Awake'
  BY DEF Calm, Awake
<1>7. Safe'
  BY DEF Sound, Safe
<1> QED
  BY <1>1, <1>2, <1>3, <1>4, <1>5, <1>6, <1>7 DEF Calm, Sound

LEMMA CalmNetworkServerInit ==
  ASSUME TypeOK, Ready, Sound, network_server_init
  PROVE  Sound' /\ (Calm => Calm')
<1> USE Kinds DEF network_server_init, MainMoves, WorkerMoves, listVars, adderVars,
        workerVars, setupVars, lifeVars, signalVars, serverVars
<1>1. Calm => Undisturbed'
  BY DEF Calm, Undisturbed, Serving
<1>2. Calm => Attended'
  BY DEF Calm, Attended, Serving, Undisturbed
<1>3. Locked'
  BY DEF Sound, Locked, Inside, MainInside
<1>4. Linked'
  BY DEF Sound, Linked, Adding, Loose, Hung, Serving, Request
<1>5. Held'
  BY DEF Sound, Held, Holds, Loose, Hung
<1>6. Calm => Awake'
  BY DEF Calm, Awake
<1>7. Safe'
  BY DEF Sound, Safe
<1> QED
  BY <1>1, <1>2, <1>3, <1>4, <1>5, <1>6, <1>7 DEF Calm, Sound

LEMMA CalmTreeSkelInit ==
  ASSUME TypeOK, Ready, Sound, tree_skel_init
  PROVE  Sound' /\ (Calm => Calm')
<1> USE Kinds DEF tree_skel_init, MainMoves, WorkerMoves, listVars, adderVars,
        workerVars, setupVars, lifeVars, signalVars, serverVars, Thread
<1>a. CASE main = "creating"
  <2>1. Calm => Undisturbed'
    BY <1>a DEF Calm, Undisturbed, Serving
  <2>2. Calm => Attended'
    BY <1>a DEF Calm, Attended, Serving
  <2>3. Locked'
    BY <1>a DEF Sound, Locked, Inside, MainInside
  <2>4. Linked' /\ Held'
    BY <1>a DEF Sound, Linked, Adding, Held, Holds, Loose, Hung, Serving
  <2>5. Calm => Awake'
    BY <1>a DEF Calm, Awake
  <2>6. Safe'
    BY <1>a DEF Ready, Safe
  <2> QED
    BY <2>1, <2>2, <2>3, <2>4, <2>5, <2>6 DEF Calm, Sound
<1>b. ASSUME main = "starting", NEW t \in Thread, pc[t] = "absent",
             WorkerMoves(t, "looping"), UNCHANGED adderVars
      PROVE  Sound' /\ (Calm => Calm')
  <2>1. Calm => Undisturbed'
    BY <1>b DEF Calm, Undisturbed, Serving
  <2>2. Calm => Attended'
    BY <1>b DEF Calm, Attended, Serving
  <2>3. Locked'
    BY <1>b DEF Sound, Locked, Inside, MainInside
  <2>4. Linked'
    BY <1>b DEF Sound, Linked, Adding, Loose, Hung, Serving
  <2>5. Held'
    BY <1>b DEF Sound, Held, Holds, Loose, Hung
  <2>6. Calm => Awake'
    BY <1>b DEF Calm, Awake
  <2>7. Safe'
    BY <1>b DEF Sound, Safe
  <2> QED
    BY <2>1, <2>2, <2>3, <2>4, <2>5, <2>6, <2>7 DEF Calm, Sound
<1>c. ASSUME main = "starting", \A t \in 0 .. n_threads - 1 : pc[t] # "absent",
             MainMoves("polling"), UNCHANGED workerVars
      PROVE  Sound' /\ (Calm => Calm')
  <2>1. Calm => Undisturbed'
    BY <1>c DEF Calm, Undisturbed, Serving
  <2>2. Calm => Attended'
    <3>1. 0 \in 0 .. n_threads - 1
      BY <1>c DEF Ready
    <3> QED
      BY <1>c, <3>1 DEF Calm, Attended, Serving
  <2>3. Locked'
    BY <1>c DEF Sound, Locked, Inside, MainInside
  <2>4. Linked' /\ Held'
    BY <1>c DEF Sound, Linked, Adding, Held, Holds, Loose, Hung, Serving
  <2>5. Calm => Awake'
    BY <1>c DEF Calm, Awake
  <2>6. Safe'
    BY <1>c DEF Sound, Safe
  <2> QED
    BY <2>1, <2>2, <2>3, <2>4, <2>5, <2>6 DEF Calm, Sound
<1> QED
  BY <1>a, <1>b, <1>c DEF Thread

LEMMA CalmImvokeWrite ==
  ASSUME TypeOK, Ready, Sound, imvoke_write
  PROVE  Sound' /\ (Calm => Calm')
<1> USE Kinds DEF imvoke_write, MainMoves, WorkerMoves, listVars, adderVars,
        workerVars, setupVars, lifeVars, signalVars, serverVars, request_create
<1>1. Calm => Undisturbed'
  BY DEF Calm, Undisturbed, Serving
<1>2. Calm => Attended'
  BY DEF Calm, Attended, Serving, Undisturbed
<1>3. Locked'
  BY DEF Sound, Locked, Inside, MainInside
<1>4. Linked'
  <2>1. main = "polling" /\ Hung = created /\ Hung' = created
    BY DEF Hung, Loose
  <2>2. created + 1 \in Request
    BY NewRequest DEF TypeOK
  <2>3. p_next'[created + 1] = NULL /\ \A r \in Request \ {created + 1} : p_next'[r] = p_next[r]
    BY <2>2
  <2>4. gp_queue_head # NULL => \A r \in gp_queue_head .. created : r \in Request /\ r # created + 1
    BY <2>1 DEF Sound, Linked
  <2>5. gp_queue_head # NULL =>
          /\ gp_queue_head \in 1 .. Hung
          /\ gp_queue_head .. Hung \subseteq allocated
          /\ \A r \in gp_queue_head .. Hung - 1 : p_next[r] = r + 1
          /\ p_next[Hung] = NULL
    BY DEF Sound, Linked
  <2>6. gp_queue_head # NULL =>
          /\ \A r \in gp_queue_head .. created - 1 : p_next'[r] = r + 1
          /\ p_next'[created] = NULL
    BY <2>1, <2>3, <2>4, <2>5
  <2>7. main' = "locking" /\ gp_queue_head' = gp_queue_head /\ created' = created + 1
        /\ allocated' = allocated \cup {created + 1} /\ p_new' = created + 1
    OBVIOUS
  <2> HIDE DEF imvoke_write, request_create
  <2> QED
    BY <2>1, <2>3, <2>5, <2>6, <2>7 DEF Linked, Loose
<1>5. Held'
  BY DEF Sound, Held, Holds, Loose, Hung
<1>6. Calm => Awake'
  BY DEF Calm, Awake
<1>7. Safe'
  BY DEF Sound, Safe
<1> QED
  BY <1>1, <1>2, <1>3, <1>4, <1>5, <1>6, <1>7 DEF Calm, Sound

LEMMA CalmNetworkSend ==
  ASSUME TypeOK, Ready, Sound, network_send
  PROVE  Sound' /\ (Calm => Calm')
<1> USE Kinds DEF network_send, MainMoves, WorkerMoves, listVars, adderVars,
        workerVars, setupVars, lifeVars, signalVars, serverVars
<1>1. Calm => Undisturbed'
  BY DEF Calm, Undisturbed, Serving
<1>2. Calm => Attended'
  BY DEF Calm, Attended, Serving, Undisturbed
<1>3. Locked'
  BY DEF Sound, Locked, Inside, MainInside
<1>4. Linked'
  BY DEF Sound, Linked, Adding, Loose, Hung, Serving, Request
<1>5. Held'
  BY DEF Sound, Held, Holds, Loose, Hung
<1>6. Calm => Awake'
  BY DEF Calm, Awake
<1>7. Safe'
  BY DEF Sound, Safe
<1> QED
  BY <1>1, <1>2, <1>3, <1>4, <1>5, <1>6, <1>7 DEF Calm, Sound

LEMMA CalmAddLocks ==
  ASSUME TypeOK, Ready, Sound, AddLocks /\ UNCHANGED serverVars
  PROVE  Sound' /\ (Calm => Calm')
<1> USE Kinds DEF AddLocks, MainMoves, WorkerMoves, listVars, adderVars,
        workerVars, setupVars, lifeVars, signalVars, serverVars, pthread_mutex_lock
<1>1. Calm => Undisturbed'
  BY DEF Calm, Undisturbed, Serving
<1>2. Calm => Attended'
  BY DEF Calm, Attended, Serving, Undisturbed
<1>3. Locked'
  BY DEF Sound, Locked, Inside, MainInside
<1>4. Linked'
  BY DEF Sound, Linked, Adding, Loose, Hung, Serving, Request
<1>5. Held'
  BY DEF Sound, Held, Holds, Loose, Hung
<1>6. Calm => Awake'
  BY DEF Calm, Awake
<1>7. Safe'
  BY DEF Sound, Safe
<1> QED
  BY <1>1, <1>2, <1>3, <1>4, <1>5, <1>6, <1>7 DEF Calm, Sound

LEMMA CalmAddTestsHead ==
  ASSUME TypeOK, Ready, Sound, AddTestsHead /\ UNCHANGED serverVars
  PROVE  Sound' /\ (Calm => Calm')
<1> USE Kinds DEF AddTestsHead, MainMoves, WorkerMoves, listVars, adderVars,
        workerVars, setupVars, lifeVars, signalVars, serverVars
<1>1. Calm => Undisturbed'
  BY DEF Calm, Undisturbed, Serving
<1>2. Calm => Attended'
  BY DEF Calm, Attended, Serving, Undisturbed
<1>3. Locked'
  BY DEF Sound, Locked, Inside, MainInside
<1>4. Linked'
  BY DEF Sound, Linked, Adding, Loose, Hung, Serving, Request
<1>5. Held'
  <2>1. \A t \in Thread : ~Inside(t)
    BY DEF Sound, Locked, MainInside
  <2>2. Hung = created - 1 /\ p_new = created
    BY DEF Hung, Loose, Sound, Linked, Adding, Serving
  <2>3. CASE gp_queue_head # NULL
    BY <2>2, <2>3 DEF Sound, Held, Holds, Hung, Loose
  <2>4. CASE gp_queue_head = NULL
    <3>1. gp_queue_head' = created /\ Hung' = created
      BY <2>2, <2>4 DEF Hung, Loose
    <3>2. \A t \in Thread : Holds(t) => p_request[t] < created
      BY <2>2 DEF Sound, Held
    <3>3. \A t \in Thread : pc[t] \notin {"moving", "waiting", "taking"}
      BY <2>1 DEF Inside
    <3>4. \A t \in Thread : Holds(t)' <=> Holds(t)
      BY DEF Holds
    <3>5. \A t \in Thread : Holds(t) => p_request[t] \in 1 .. created
      BY <2>2 DEF Sound, Held
    <3> HIDE DEF AddTestsHead
    <3>6. UNCHANGED <<pc, p_request, allocated>>
      BY DEF AddTestsHead
    <3> QED
      BY <3>1, <3>2, <3>3, <3>4, <3>5, <3>6 DEF Sound, Held
  <2> QED
    BY <2>3, <2>4
<1>6. Calm => Awake'
  BY DEF Calm, Awake
<1>7. Safe'
  BY DEF Sound, Safe
<1> QED
  BY <1>1, <1>2, <1>3, <1>4, <1>5, <1>6, <1>7 DEF Calm, Sound

LEMMA CalmAddEnters ==
  ASSUME TypeOK, Ready, Sound, AddEnters /\ UNCHANGED serverVars
  PROVE  Sound' /\ (Calm => Calm')
<1> USE Kinds DEF AddEnters, listVars, workerVars,
        setupVars, lifeVars, signalVars, serverVars
<1>1. Calm => Undisturbed'
  BY DEF Calm, Undisturbed, Serving
<1>2. Calm => Attended'
  BY DEF Calm, Attended, Serving
<1>3. Locked'
  BY DEF Sound, Locked, Inside, MainInside
<1>4. Linked'
  BY DEF Sound, Linked, Adding, Loose, Hung, Serving
<1>5. Held'
  BY DEF Sound, Held, Holds, Loose, Hung
<1>6. Calm => Awake'
  BY DEF Calm, Awake
<1>7. Safe'
  BY DEF Sound, Safe
<1> QED
  BY <1>1, <1>2, <1>3, <1>4, <1>5, <1>6, <1>7 DEF Calm, Sound

LEMMA CalmAddWalks ==
  ASSUME TypeOK, Ready, Sound, AddWalks /\ UNCHANGED serverVars
  PROVE  Sound' /\ (Calm => Calm')
<1> USE Kinds DEF MainMoves, WorkerMoves, listVars, adderVars, workerVars,
        setupVars, lifeVars, signalVars, serverVars
<1>a. /\ gp_queue_head # NULL /\ gp_queue_head \in 1 .. Hung
      /\ p_request_itr \in gp_queue_head .. Hung /\ p_request_itr \in allocated
      /\ p_request_itr \in Request /\ p_request_itr # NULL
  <2>1. /\ gp_queue_head # NULL /\ gp_queue_head \in 1 .. Hung
        /\ p_request_itr \in gp_queue_head .. Hung
        /\ gp_queue_head .. Hung \subseteq allocated
    BY DEF AddWalks, Sound, Linked
  <2> QED
    BY <2>1 DEF Request
<1>b. \/ /\ p_next[p_request_itr] # NULL
         /\ p_request_itr' = p_next[p_request_itr]
         /\ UNCHANGED <<main, p_new, p_next>>
      \/ /\ p_next[p_request_itr] = NULL
         /\ p_next' = [p_next EXCEPT ![p_request_itr] = p_new]
         /\ main' = "clearing" /\ UNCHANGED <<p_new, p_request_itr>>
  BY <1>a DEF AddWalks, Follow, KilledBy, NextOf, Owners
<1>c. /\ main = "walking" /\ misused' = misused
      /\ UNCHANGED <<gp_queue_head, allocated, created, g_queue_lock, pc, p_request>>
      /\ UNCHANGED <<g_are_threads_running, handler, forced, gp_TREE, gp_op_proc, n_threads>>
  <2>1. misused \in BOOLEAN
    BY DEF TypeOK
  <2> QED
    BY <1>a, <2>1 DEF AddWalks, Follow, KilledBy
<1>1. Calm => Undisturbed'
  BY <1>a, <1>b, <1>c DEF Calm, Undisturbed, Serving
<1>2. Calm => Attended'
  BY <1>a, <1>b, <1>c DEF Calm, Attended, Serving, Undisturbed
<1>3. Locked'
  BY <1>a, <1>b, <1>c DEF Sound, Locked, Inside, MainInside
<1>4. Linked'
  <2>1. Hung = created - 1 /\ p_new = created /\ created \in allocated /\ created \in Request
    BY <1>c DEF Hung, Loose, Sound, Linked, Adding, Serving
  <2>2. p_next[Hung] = NULL /\ \A r \in gp_queue_head .. Hung - 1 : p_next[r] = r + 1
    BY <1>a DEF Sound, Linked
  <2>3. gp_queue_head .. Hung \subseteq allocated /\ p_next[created] = NULL
    BY <1>a, <1>c DEF Sound, Linked, Loose
  <2>4. CASE p_next[p_request_itr] # NULL
    <3>1. p_request_itr \in gp_queue_head .. Hung - 1
      BY <1>a, <2>1, <2>2, <2>4
    <3>2. p_request_itr' \in gp_queue_head .. Hung
      BY <1>a, <1>b, <2>1, <2>2, <2>4, <3>1
    <3> QED
      BY <1>a, <1>b, <1>c, <2>1, <2>4, <3>2 DEF Sound, Linked, Adding, Loose, Hung, Serving
  <2>5. CASE p_next[p_request_itr] = NULL
    <3>1. p_request_itr = Hung
      BY <1>a, <2>1, <2>2, <2>5
    <3>2. Hung' = created
      BY <1>b, <1>c, <2>5 DEF Hung, Loose
    <3>3. \A r \in gp_queue_head .. created - 1 : p_next'[r] = r + 1
      <4>1. p_next'[Hung] = created /\ Hung \in Request
        BY <1>a, <1>b, <2>1, <2>5, <3>1
      <4>2. \A r \in gp_queue_head .. Hung - 1 : r # p_request_itr /\ r \in Request
        BY <1>a, <2>1, <3>1, QueueAssumption DEF Request
      <4>3. \A r \in Request \ {p_request_itr} : p_next'[r] = p_next[r]
        BY <1>b, <2>5
      <4>4. \A r \in gp_queue_head .. Hung - 1 : p_next'[r] = r + 1
        BY <2>2, <4>2, <4>3
      <4> QED
        BY <1>a, <2>1, <4>1, <4>4
    <3>4. p_next'[created] = NULL
      BY <1>a, <1>b, <2>1, <2>3, <2>5, <3>1
    <3>5. gp_queue_head \in 1 .. created /\ gp_queue_head .. created \subseteq allocated
      BY <1>a, <2>1, <2>3
    <3>6. main' = "clearing" /\ p_new' = created /\ created >= 1
      BY <1>b, <2>1, <2>5 DEF Request
    <3> QED
      BY <1>a, <1>c, <3>2, <3>3, <3>4, <3>5, <3>6 DEF Linked, Loose
  <2> QED
    BY <2>4, <2>5
<1>5. Held'
  <2>1. created - 1 = Hung /\ Hung' \in {created - 1, created}
    BY <1>b, <1>c DEF Hung, Loose
  <2> QED
    BY <1>a, <1>c, <2>1 DEF Sound, Held, Holds
<1>6. Calm => Awake'
  BY <1>a, <1>b, <1>c DEF Calm, Awake
<1>7. Safe'
  BY <1>a, <1>b, <1>c DEF Sound, Safe
<1> QED
  BY <1>1, <1>2, <1>3, <1>4, <1>5, <1>6, <1>7 DEF Calm, Sound

LEMMA CalmAddClearsNext ==
  ASSUME TypeOK, Ready, Sound, AddClearsNext /\ UNCHANGED serverVars
  PROVE  Sound' /\ (Calm => Calm')
<1> USE Kinds DEF MainMoves, WorkerMoves, listVars, adderVars, workerVars,
        setupVars, lifeVars, signalVars, serverVars
<1>a. /\ main = "clearing" /\ p_new = created /\ Hung = created
      /\ p_new \in allocated /\ p_new # NULL /\ p_next[created] = NULL
  BY DEF AddClearsNext, Sound, Linked, Adding, Hung, Loose, Serving
<1>b. /\ p_next' = [p_next EXCEPT ![p_new] = NULL]
      /\ main' = "signalling" /\ UNCHANGED <<p_new, p_request_itr>>
      /\ UNCHANGED <<gp_queue_head, allocated, created, g_queue_lock, pc, p_request>>
      /\ UNCHANGED <<g_are_threads_running, handler, forced, gp_TREE, gp_op_proc, n_threads>>
      /\ misused' = misused
  <2>1. misused \in BOOLEAN
    BY DEF TypeOK
  <2> QED
    BY <1>a, <2>1 DEF AddClearsNext, Follow, KilledBy, Owners
<1>c. p_next' = p_next /\ Hung' = Hung
  BY <1>a, <1>b DEF Hung, Loose
<1>1. Calm => Undisturbed'
  BY <1>a, <1>b, <1>c DEF Calm, Undisturbed, Serving
<1>2. Calm => Attended'
  BY <1>a, <1>b, <1>c DEF Calm, Attended, Serving, Undisturbed
<1>3. Locked'
  BY <1>a, <1>b, <1>c DEF Sound, Locked, Inside, MainInside
<1>4. Linked'
  BY <1>a, <1>b, <1>c DEF Sound, Linked, Adding, Loose, Serving
<1>5. Held'
  BY <1>a, <1>b, <1>c DEF Sound, Held, Holds
<1>6. Calm => Awake'
  BY <1>a, <1>b, <1>c DEF Calm, Awake
<1>7. Safe'
  BY <1>b DEF Sound, Safe
<1> QED
  BY <1>1, <1>2, <1>3, <1>4, <1>5, <1>6, <1>7 DEF Calm, Sound

LEMMA CalmAddSignals ==
  ASSUME TypeOK, Ready, Sound, AddSignals /\ UNCHANGED serverVars
  PROVE  Sound' /\ (Calm => Calm')
<1> USE Kinds DEF AddSignals, MainMoves, WorkerMoves, listVars, adderVars,
        workerVars, setupVars, lifeVars, signalVars, serverVars, pthread_cond_signal, Asleep
<1>a. \A t \in Thread : pc'[t] # pc[t] => pc[t] = "asleep" /\ pc'[t] = "relocking"
  OBVIOUS
<1>b. \A t \in Thread : pc[t] # "asleep" => pc'[t] = pc[t]
  BY <1>a
<1>c. 0 \in Thread /\ (Calm => pc[0] \notin {"absent", "exited"})
  BY DEF Calm, Attended, Serving, Thread
<1>1. Calm => Undisturbed'
  BY DEF Calm, Undisturbed, Serving
<1>2. Calm => Attended'
  BY <1>a, <1>b, <1>c DEF Calm, Attended, Serving
<1>3. Locked'
  BY DEF Sound, Locked, Inside, MainInside
<1>4. Linked'
  BY DEF Sound, Linked, Adding, Loose, Hung, Serving, Request
<1>5. Held'
  BY DEF Sound, Held, Holds, Loose, Hung
<1>6. Calm => Awake'
  <2> SUFFICES ASSUME Calm PROVE Awake'
    OBVIOUS
  <2>1. CASE Asleep = {}
    <3>1. pc[0] # "asleep"
      BY <1>c, <2>1
    <3>2. pc'[0] = pc[0]
      BY <1>b, <1>c, <3>1
    <3> QED
      BY <1>c, <3>1, <3>2 DEF Awake
  <2>2. CASE \E t \in Thread : pc' = [pc EXCEPT ![t] = "relocking"]
    BY <2>2 DEF Awake
  <2> QED
    BY <2>1, <2>2
<1>7. Safe'
  BY DEF Sound, Safe
<1> QED
  BY <1>1, <1>2, <1>3, <1>4, <1>5, <1>6, <1>7 DEF Calm, Sound

LEMMA CalmAddUnlocks ==
  ASSUME TypeOK, Ready, Sound, AddUnlocks /\ UNCHANGED serverVars
  PROVE  Sound' /\ (Calm => Calm')
<1> USE Kinds DEF AddUnlocks, MainMoves, WorkerMoves, listVars, adderVars,
        workerVars, setupVars, lifeVars, signalVars, serverVars, pthread_mutex_unlock
<1>1. Calm => Undisturbed'
  BY DEF Calm, Undisturbed, Serving
<1>2. Calm => Attended'
  BY DEF Calm, Attended, Serving, Undisturbed
<1>3. Locked'
  BY DEF Sound, Locked, Inside, MainInside
<1>4. Linked'
  BY DEF Sound, Linked, Adding, Loose, Hung, Serving, Request
<1>5. Held'
  BY DEF Sound, Held, Holds, Loose, Hung
<1>6. Calm => Awake'
  BY DEF Calm, Awake
<1>7. Safe'
  BY DEF Sound, Safe
<1> QED
  BY <1>1, <1>2, <1>3, <1>4, <1>5, <1>6, <1>7 DEF Calm, Sound

LEMMA CalmTestLoop ==
  ASSUME TypeOK, Ready, Sound, NEW t \in Thread, TestLoop(t)
  PROVE  Sound' /\ (Calm => Calm')
<1> USE Kinds DEF TestLoop, MainMoves, WorkerMoves, listVars, adderVars,
        workerVars, setupVars, lifeVars, signalVars, serverVars
<1>1. Calm => Undisturbed'
  BY DEF Calm, Undisturbed, Serving
<1>2. Calm => Attended'
  BY DEF Calm, Attended, Serving, Undisturbed
<1>3. Locked'
  BY DEF Sound, Locked, Inside, MainInside
<1>4. Linked'
  BY DEF Sound, Linked, Adding, Loose, Hung, Serving, Request
<1>5. Held'
  BY DEF Sound, Held, Holds, Loose, Hung
<1>6. Calm => Awake'
  <2>1. Calm => pc'[t] = "locking"
    BY DEF Calm, Undisturbed
  <2> QED
    BY <2>1 DEF Awake
<1>7. Safe'
  BY DEF Sound, Safe
<1> QED
  BY <1>1, <1>2, <1>3, <1>4, <1>5, <1>6, <1>7 DEF Calm, Sound

LEMMA CalmGetLocks ==
  ASSUME TypeOK, Ready, Sound, NEW t \in Thread, GetLocks(t) /\ UNCHANGED serverVars
  PROVE  Sound' /\ (Calm => Calm')
<1> USE Kinds DEF GetLocks, MainMoves, WorkerMoves, listVars, adderVars,
        workerVars, setupVars, lifeVars, signalVars, serverVars, pthread_mutex_lock
<1>1. Calm => Undisturbed'
  BY DEF Calm, Undisturbed, Serving
<1>2. Calm => Attended'
  BY DEF Calm, Attended, Serving, Undisturbed
<1>3. Locked'
  BY DEF Sound, Locked, Inside, MainInside
<1>4. Linked'
  BY DEF Sound, Linked, Adding, Loose, Hung, Serving, Request
<1>5. Held'
  BY DEF Sound, Held, Holds, Loose, Hung
<1>6. Calm => Awake'
  BY DEF Calm, Awake
<1>7. Safe'
  BY DEF Sound, Safe
<1> QED
  BY <1>1, <1>2, <1>3, <1>4, <1>5, <1>6, <1>7 DEF Calm, Sound

LEMMA CalmGetTestsHead ==
  ASSUME TypeOK, Ready, Sound, NEW t \in Thread, GetTestsHead(t) /\ UNCHANGED serverVars
  PROVE  Sound' /\ (Calm => Calm')
<1> USE Kinds DEF GetTestsHead, MainMoves, WorkerMoves, listVars, adderVars,
        workerVars, setupVars, lifeVars, signalVars, serverVars
<1>1. Calm => Undisturbed'
  BY DEF Calm, Undisturbed, Serving
<1>2. Calm => Attended'
  BY DEF Calm, Attended, Serving, Undisturbed
<1>3. Locked'
  BY DEF Sound, Locked, Inside, MainInside
<1>4. Linked'
  BY DEF Sound, Linked, Adding, Loose, Hung, Serving, Request
<1>5. Held'
  BY DEF Sound, Held, Holds, Loose, Hung
<1>6. Calm => Awake'
  BY DEF Calm, Awake
<1>7. Safe'
  BY DEF Sound, Safe
<1> QED
  BY <1>1, <1>2, <1>3, <1>4, <1>5, <1>6, <1>7 DEF Calm, Sound

LEMMA CalmGetWaits ==
  ASSUME TypeOK, Ready, Sound, NEW t \in Thread, GetWaits(t) /\ UNCHANGED serverVars
  PROVE  Sound' /\ (Calm => Calm')
<1> USE Kinds DEF GetWaits, MainMoves, WorkerMoves, listVars, adderVars,
        workerVars, setupVars, lifeVars, signalVars, serverVars, pthread_mutex_unlock
<1>1. Calm => Undisturbed'
  BY DEF Calm, Undisturbed, Serving
<1>2. Calm => Attended'
  BY DEF Calm, Attended, Serving, Undisturbed
<1>3. Locked'
  BY DEF Sound, Locked, Inside, MainInside
<1>4. Linked'
  BY DEF Sound, Linked, Adding, Loose, Hung, Serving, Request
<1>5. Held'
  BY DEF Sound, Held, Holds, Loose, Hung
<1>6. Calm => Awake'
  BY DEF Sound, Held, Awake
<1>7. Safe'
  BY DEF Sound, Safe
<1> QED
  BY <1>1, <1>2, <1>3, <1>4, <1>5, <1>6, <1>7 DEF Calm, Sound

LEMMA CalmGetTakesHead ==
  ASSUME TypeOK, Ready, Sound, NEW t \in Thread, GetTakesHead(t) /\ UNCHANGED serverVars
  PROVE  Sound' /\ (Calm => Calm')
<1> USE Kinds DEF GetTakesHead, MainMoves, WorkerMoves, listVars, adderVars,
        workerVars, setupVars, lifeVars, signalVars, serverVars
<1>1. Calm => Undisturbed'
  BY DEF Calm, Undisturbed, Serving
<1>2. Calm => Attended'
  BY DEF Calm, Attended, Serving, Undisturbed
<1>3. Locked'
  BY DEF Sound, Locked, Inside, MainInside
<1>4. Linked'
  BY DEF Sound, Linked, Adding, Loose, Hung, Serving, Request
<1>5. Held'
  <2>1. gp_queue_head # NULL /\ gp_queue_head \in 1 .. Hung /\ gp_queue_head \in allocated
    BY DEF Sound, Held, Linked
  <2>2. \A u \in Thread \ {t} : pc[u] \notin {"moving", "taking"}
    BY DEF Sound, Locked, Inside
  <2>3. \A u \in Thread \ {t} :
          /\ pc'[u] = pc[u] /\ p_request'[u] = p_request[u]
          /\ Holds(u)' <=> Holds(u)
    BY DEF Holds
  <2>4. pc'[t] = "moving" /\ p_request'[t] = gp_queue_head /\ Holds(t)'
    BY DEF Holds
  <2>5. UNCHANGED <<gp_queue_head, allocated>> /\ Hung' = Hung
    BY DEF Hung, Loose
  <2>6. \A u \in Thread \ {t} : Holds(u) => p_request[u] < gp_queue_head
    BY <2>1, <2>2 DEF Sound, Held
  <2> HIDE DEF GetTakesHead
  <2> QED
    BY <2>1, <2>2, <2>3, <2>4, <2>5, <2>6 DEF Sound, Held
<1>6. Calm => Awake'
  BY DEF Calm, Awake
<1>7. Safe'
  BY DEF Sound, Safe
<1> QED
  BY <1>1, <1>2, <1>3, <1>4, <1>5, <1>6, <1>7 DEF Calm, Sound

LEMMA CalmGetMovesHead ==
  ASSUME TypeOK, Ready, Sound, NEW t \in Thread, GetMovesHead(t) /\ UNCHANGED serverVars
  PROVE  Sound' /\ (Calm => Calm')
<1> USE Kinds DEF MainMoves, WorkerMoves, listVars, adderVars, workerVars,
        setupVars, lifeVars, signalVars, serverVars
<1>a. /\ pc[t] = "moving" /\ p_request[t] = gp_queue_head
      /\ gp_queue_head # NULL /\ gp_queue_head \in 1 .. Hung
      /\ gp_queue_head \in allocated
  BY DEF GetMovesHead, Sound, Held, Linked
<1>b. /\ gp_queue_head' = p_next[gp_queue_head]
      /\ pc' = [pc EXCEPT ![t] = "unlocking"]
      /\ UNCHANGED <<main, p_new, p_request_itr, p_next, allocated, created, g_queue_lock>>
      /\ UNCHANGED <<p_request, g_are_threads_running, handler, forced>>
      /\ UNCHANGED <<gp_TREE, gp_op_proc, n_threads, misused>>
  <2>1. misused \in BOOLEAN
    BY DEF TypeOK
  <2> QED
    BY <1>a, <2>1 DEF GetMovesHead, Follow, KilledBy, NextOf
<1>c. ~MainInside /\ \A u \in Thread \ {t} : ~Inside(u)
  BY <1>a DEF Sound, Locked, Inside
<1>d. main \notin {"clearing", "walking", "entering", "testing"} /\ Hung' = Hung /\ created \in Int /\ Hung \in Int
  BY <1>b, <1>c DEF MainInside, Hung, Loose
<1>e. gp_queue_head' = IF gp_queue_head = Hung THEN NULL ELSE gp_queue_head + 1
  BY <1>a, <1>b, <1>d DEF Sound, Linked
<1>1. Calm => Undisturbed'
  BY <1>a, <1>b DEF Calm, Undisturbed, Serving
<1>2. Calm => Attended'
  BY <1>a, <1>b DEF Calm, Attended, Serving, Undisturbed
<1>3. Locked'
  BY <1>a, <1>b DEF Sound, Locked, Inside, MainInside
<1>4. Linked'
  <2>1. gp_queue_head' # NULL =>
          /\ gp_queue_head' \in 1 .. Hung
          /\ gp_queue_head' .. Hung \subseteq allocated
          /\ \A r \in gp_queue_head' .. Hung - 1 : p_next[r] = r + 1
          /\ p_next[Hung] = NULL
    BY <1>a, <1>d, <1>e DEF Sound, Linked
  <2> QED
    BY <1>b, <1>d, <2>1 DEF Sound, Linked, Adding, Loose, Serving
<1>5. Held'
  <2>1. \A u \in Thread : Holds(u)' <=> Holds(u)
    BY <1>a, <1>b DEF Holds
  <2>2. \A u \in Thread \ {t} : pc'[u] = pc[u] /\ pc[u] \notin {"moving", "taking", "waiting"}
    BY <1>b, <1>c DEF Inside
  <2>3. pc'[t] = "unlocking"
    BY <1>b
  <2>4. \A u \in Thread : Holds(u) => p_request[u] \in 1 .. Hung /\ p_request[u] <= gp_queue_head
    BY <1>a, <1>d, <2>2 DEF Sound, Held
  <2>5. gp_queue_head' # NULL => \A u \in Thread : Holds(u) => p_request[u] < gp_queue_head'
    BY <1>a, <1>d, <1>e, <2>4
  <2> QED
    BY <1>b, <1>d, <2>1, <2>2, <2>3, <2>5 DEF Sound, Held
<1>6. Calm => Awake'
  <2>1. pc'[t] = "unlocking"
    BY <1>b
  <2> QED
    BY <2>1 DEF Awake
<1>7. Safe'
  BY <1>b DEF Sound, Safe
<1> QED
  BY <1>1, <1>2, <1>3, <1>4, <1>5, <1>6, <1>7 DEF Calm, Sound

LEMMA CalmGetUnlocks ==
  ASSUME TypeOK, Ready, Sound, NEW t \in Thread, GetUnlocks(t) /\ UNCHANGED serverVars
  PROVE  Sound' /\ (Calm => Calm')
<1> USE Kinds DEF GetUnlocks, MainMoves, WorkerMoves, listVars, adderVars,
        workerVars, setupVars, lifeVars, signalVars, serverVars, pthread_mutex_unlock
<1>1. Calm => Undisturbed'
  BY DEF Calm, Undisturbed, Serving
<1>2. Calm => Attended'
  BY DEF Calm, Attended, Serving, Undisturbed
<1>3. Locked'
  BY DEF Sound, Locked, Inside, MainInside
<1>4. Linked'
  BY DEF Sound, Linked, Adding, Loose, Hung, Serving, Request
<1>5. Held'
  BY DEF Sound, Held, Holds, Loose, Hung
<1>6. Calm => Awake'
  BY DEF Calm, Awake
<1>7. Safe'
  BY DEF Sound, Safe
<1> QED
  BY <1>1, <1>2, <1>3, <1>4, <1>5, <1>6, <1>7 DEF Calm, Sound

LEMMA CalmSpuriousWakeup ==
  ASSUME TypeOK, Ready, Sound, NEW t \in Thread, SpuriousWakeup(t) /\ UNCHANGED serverVars
  PROVE  Sound' /\ (Calm => Calm')
<1> USE Kinds DEF SpuriousWakeup, MainMoves, WorkerMoves, listVars, adderVars,
        workerVars, setupVars, lifeVars, signalVars, serverVars
<1>1. Calm => Undisturbed'
  BY DEF Calm, Undisturbed, Serving
<1>2. Calm => Attended'
  BY DEF Calm, Attended, Serving, Undisturbed
<1>3. Locked'
  BY DEF Sound, Locked, Inside, MainInside
<1>4. Linked'
  BY DEF Sound, Linked, Adding, Loose, Hung, Serving, Request
<1>5. Held'
  BY DEF Sound, Held, Holds, Loose, Hung
<1>6. Calm => Awake'
  BY DEF Calm, Awake
<1>7. Safe'
  BY DEF Sound, Safe
<1> QED
  BY <1>1, <1>2, <1>3, <1>4, <1>5, <1>6, <1>7 DEF Calm, Sound

(***************************************************************************)
(* A step that leaves the list, the mutex and queue_add_request alone and  *)
(* at most wakes workers keeps Sound.                                      *)
(***************************************************************************)
LEMMA Aside ==
  ASSUME TypeOK, Sound,
         UNCHANGED <<gp_queue_head, p_next, allocated, created, g_queue_lock>>,
         UNCHANGED <<p_new, p_request_itr, p_request>>,
         main' = main \/ (main \notin Adding /\ main' \notin Adding),
         \A t \in Thread : pc'[t] = pc[t] \/ (pc[t] = "asleep" /\ pc'[t] = "relocking"),
         misused' => ~gp_TREE'
  PROVE  Sound'
<1>1. /\ \A t \in Thread : Inside(t)' <=> Inside(t)
      /\ MainInside' <=> MainInside
  BY DEF Inside, MainInside, Adding, Serving
<1>2. \A t \in Thread : Holds(t)' <=> Holds(t)
  BY DEF Holds
<1>3. (Loose' <=> Loose) /\ Hung' = Hung
  BY DEF Loose, Hung, Adding, Serving
<1>4. Locked'
  BY <1>1 DEF Sound, Locked
<1>5. Linked'
  BY <1>3 DEF Sound, Linked, Adding, Serving
<1>6. Held'
  <2>1. \A t \in Thread : pc'[t] \in {"moving", "taking", "waiting"} => pc'[t] = pc[t]
    OBVIOUS
  <2> QED
    BY <1>2, <1>3, <2>1 DEF Sound, Held
<1>7. Safe'
  BY DEF Safe
<1> QED
  BY <1>4, <1>5, <1>6, <1>7 DEF Sound

(***************************************************************************)
(* A worker that uses a freed structure does so after main has left the    *)
(* main loop; if that kills the process, Sound is kept.                    *)
(***************************************************************************)
LEMMA UseAfterFree ==
  ASSUME TypeOK, Ready, Sound, ~gp_TREE \/ ~gp_op_proc, Killed,
         UNCHANGED <<gp_queue_head, p_next, allocated, created, g_queue_lock>>,
         UNCHANGED workerVars, UNCHANGED serverVars
  PROVE  Sound'
<1>1. ~gp_TREE /\ main \notin Serving
  BY DEF Ready
<1>2. /\ main' = "killed" /\ UNCHANGED <<p_new, p_request_itr, p_request, pc>>
      /\ gp_TREE' = gp_TREE
  BY DEF Killed, MainMoves, workerVars, serverVars, lifeVars
<1>3. main \notin Adding /\ main' \notin Adding
  BY <1>1, <1>2 DEF Adding, Serving
<1> QED
  BY <1>1, <1>2, <1>3, Aside

LEMMA StructuresExist ==
  ASSUME Ready, Calm, ProcessRuns, NEW t \in Thread, pc[t] # "absent"
  PROVE  gp_TREE /\ gp_op_proc
  BY DEF Ready, Calm, Undisturbed, ProcessRuns

LEMMA CalmMarkInProgress ==
  ASSUME TypeOK, Ready, Sound, ProcessRuns, NEW t \in Thread, MarkInProgress(t)
  PROVE  Sound' /\ (Calm => Calm')
<1> USE Kinds DEF MainMoves, WorkerMoves, listVars, adderVars, workerVars,
        setupVars, lifeVars, signalVars, serverVars
<1>a. Holds(t) /\ p_request[t] \in allocated /\ p_request[t] # NULL /\ pc[t] = "marking"
  BY DEF MarkInProgress, Sound, Held, Holds
<1>b. Calm => gp_TREE /\ gp_op_proc
  BY <1>a, StructuresExist
<1>c. CASE /\ ~gp_op_proc /\ Killed
           /\ UNCHANGED <<gp_queue_head, p_next, allocated, created, g_queue_lock>>
           /\ UNCHANGED workerVars /\ UNCHANGED serverVars
  BY <1>b, <1>c, UseAfterFree
<1>d. CASE /\ pc' = [pc EXCEPT ![t] = "applying"]
           /\ UNCHANGED <<p_request, allocated, adderVars, serverVars>>
           /\ UNCHANGED <<gp_queue_head, p_next, created, g_queue_lock>>
           /\ misused' = (misused \/ ~gp_op_proc)
  <2>1. Calm => Undisturbed'
    BY <1>d DEF Calm, Undisturbed, Serving
  <2>2. Calm => Attended'
    BY <1>a, <1>d DEF Calm, Attended, Serving, Undisturbed
  <2>3. Locked'
    BY <1>a, <1>d DEF Sound, Locked, Inside, MainInside
  <2>4. Linked'
    BY <1>d DEF Sound, Linked, Adding, Loose, Hung, Serving
  <2>5. Held'
    BY <1>a, <1>d DEF Sound, Held, Holds, Loose, Hung
  <2>6. Calm => Awake'
    <3>1. pc'[t] = "applying"
      BY <1>d
    <3> QED
      BY <3>1 DEF Awake
  <2>7. Safe'
    BY <1>d DEF Sound, Safe, Ready
  <2> QED
    BY <2>1, <2>2, <2>3, <2>4, <2>5, <2>6, <2>7 DEF Calm, Sound
<1> QED
  <2>1. Using(t, gp_op_proc, WorkerMoves(t, "applying") /\ UNCHANGED allocated)
    BY <1>a DEF MarkInProgress
  <2> QED
    BY <1>a, <1>c, <1>d, <2>1 DEF Using

LEMMA CalmApplyRequest ==
  ASSUME TypeOK, Ready, Sound, ProcessRuns, NEW t \in Thread, ApplyRequest(t)
  PROVE  Sound' /\ (Calm => Calm')
<1> USE Kinds DEF MainMoves, WorkerMoves, listVars, adderVars, workerVars,
        setupVars, lifeVars, signalVars, serverVars
<1>a. Holds(t) /\ p_request[t] \in allocated /\ p_request[t] # NULL /\ pc[t] = "applying"
  BY DEF ApplyRequest, Sound, Held, Holds
<1>b. Calm => gp_TREE /\ gp_op_proc
  BY <1>a, StructuresExist
<1>c. CASE /\ ~gp_TREE /\ Killed
           /\ UNCHANGED <<gp_queue_head, p_next, allocated, created, g_queue_lock>>
           /\ UNCHANGED workerVars /\ UNCHANGED serverVars
  BY <1>b, <1>c, UseAfterFree
<1>d. CASE /\ pc' = [pc EXCEPT ![t] = "finishing"]
           /\ UNCHANGED <<p_request, allocated, adderVars, serverVars>>
           /\ UNCHANGED <<gp_queue_head, p_next, created, g_queue_lock>>
           /\ misused' = (misused \/ ~gp_TREE)
  <2>1. Calm => Undisturbed'
    BY <1>d DEF Calm, Undisturbed, Serving
  <2>2. Calm => Attended'
    BY <1>a, <1>d DEF Calm, Attended, Serving, Undisturbed
  <2>3. Locked'
    BY <1>a, <1>d DEF Sound, Locked, Inside, MainInside
  <2>4. Linked'
    BY <1>d DEF Sound, Linked, Adding, Loose, Hung, Serving
  <2>5. Held'
    BY <1>a, <1>d DEF Sound, Held, Holds, Loose, Hung
  <2>6. Calm => Awake'
    <3>1. pc'[t] = "finishing"
      BY <1>d
    <3> QED
      BY <3>1 DEF Awake
  <2>7. Safe'
    BY <1>d DEF Sound, Safe, Ready
  <2> QED
    BY <2>1, <2>2, <2>3, <2>4, <2>5, <2>6, <2>7 DEF Calm, Sound
<1> QED
  BY <1>a, <1>c, <1>d DEF ApplyRequest, Using

LEMMA CalmFinishRequest ==
  ASSUME TypeOK, Ready, Sound, ProcessRuns, NEW t \in Thread, FinishRequest(t)
  PROVE  Sound' /\ (Calm => Calm')
<1> USE Kinds DEF MainMoves, WorkerMoves, listVars, adderVars, workerVars,
        setupVars, lifeVars, signalVars, serverVars
<1>a. Holds(t) /\ p_request[t] \in allocated /\ p_request[t] # NULL /\ pc[t] = "finishing"
  BY DEF FinishRequest, Sound, Held, Holds
<1>b. Calm => gp_TREE /\ gp_op_proc
  BY <1>a, StructuresExist
<1>c. CASE /\ ~gp_op_proc /\ Killed
           /\ UNCHANGED <<gp_queue_head, p_next, allocated, created, g_queue_lock>>
           /\ UNCHANGED workerVars /\ UNCHANGED serverVars
  BY <1>b, <1>c, UseAfterFree
<1>d. CASE /\ pc' = [pc EXCEPT ![t] = "looping"]
           /\ p_request' = [p_request EXCEPT ![t] = NULL]
           /\ allocated' = allocated \ {p_request[t]}
           /\ UNCHANGED <<adderVars, serverVars>>
           /\ UNCHANGED <<gp_queue_head, p_next, created, g_queue_lock>>
           /\ misused' = (misused \/ ~gp_op_proc)
  <2>1. Calm => Undisturbed'
    BY <1>d DEF Calm, Undisturbed, Serving
  <2>2. Calm => Attended'
    BY <1>a, <1>d DEF Calm, Attended, Serving, Undisturbed
  <2>3. Locked'
    BY <1>a, <1>d DEF Sound, Locked, Inside, MainInside
  <2>4. Linked'
    <3>1. Hung' = Hung /\ p_request[t] \in 1 .. Hung
      BY <1>a, <1>d DEF Hung, Loose, Sound, Held
    <3>2. gp_queue_head # NULL => p_request[t] < gp_queue_head
      BY <1>a DEF Sound, Held
    <3>3. Loose => p_request[t] # created
      BY <3>1 DEF Hung
    <3>4. gp_queue_head # NULL =>
            /\ gp_queue_head \in 1 .. Hung
            /\ gp_queue_head .. Hung \subseteq allocated \ {p_request[t]}
      BY <3>1, <3>2 DEF Sound, Linked
    <3> QED
      BY <1>d, <3>1, <3>3, <3>4 DEF Sound, Linked, Adding, Loose, Serving
  <2>5. Held'
    BY <1>a, <1>d DEF Sound, Held, Holds, Loose, Hung
  <2>6. Calm => Awake'
    <3>1. pc'[t] = "looping"
      BY <1>d
    <3> QED
      BY <3>1 DEF Awake
  <2>7. Safe'
    BY <1>d DEF Sound, Safe, Ready
  <2> QED
    BY <2>1, <2>2, <2>3, <2>4, <2>5, <2>6, <2>7 DEF Calm, Sound
<1> QED
  BY <1>a, <1>c, <1>d DEF FinishRequest, Using, request_destroy, Owners

(***************************************************************************)
(* The way main takes to its end, and the handler.                         *)
(***************************************************************************)
LEMMA SoundEnd ==
  ASSUME TypeOK, Ready, Sound,
         tree_skel_destroy \/ tree_skel_request_queue_threads_destroy \/ exit,
         ~forced'
  PROVE  Sound'
<1> USE Kinds DEF MainMoves, listVars, adderVars, workerVars, setupVars, lifeVars, signalVars,
        serverVars
<1>1. CASE tree_destroy
  BY <1>1, Aside DEF tree_destroy, Killed, Adding, Serving
<1>2. CASE op_proc_destroy
  BY <1>2, Aside DEF op_proc_destroy, Adding, Serving, Sound, Safe
<1>3. CASE tree_skel_request_queue_threads_destroy
  <2>1. /\ g_queue_lock' = g_queue_lock
        /\ \A t \in Thread : pc'[t] = pc[t] \/ (pc[t] = "asleep" /\ pc'[t] = "relocking")
    BY <1>3
    DEF tree_skel_request_queue_threads_destroy, ForcedUnlock, pthread_mutex_unlock,
        pthread_cond_broadcast, Asleep, TypeOK
  <2>2. /\ UNCHANGED <<gp_queue_head, p_next, allocated, created>>
        /\ UNCHANGED <<p_new, p_request_itr, p_request, misused, gp_TREE>>
        /\ main = "stopping" /\ main' = "exiting"
    BY <1>3 DEF tree_skel_request_queue_threads_destroy
  <2>3. main \notin Adding /\ main' \notin Adding
    BY <2>2 DEF Adding, Serving
  <2> QED
    BY <2>1, <2>2, <2>3, Aside DEF Sound, Safe
<1>4. CASE exit
  BY <1>4, Aside DEF exit, Adding, Serving, Sound, Safe
<1> QED
  BY <1>1, <1>2, <1>3, <1>4 DEF tree_skel_destroy

LEMMA SoundSignal ==
  ASSUME TypeOK, Sound, SignalArrives \/ sigint_handler, ~forced'
  PROVE  Sound'
<1> USE Kinds DEF MainMoves, queueVars, listVars, adderVars, workerVars, setupVars, lifeVars,
        signalVars
<1>1. CASE SignalArrives
  BY <1>1, Aside DEF SignalArrives, Sound, Safe
<1>2. CASE HandlerUnlocks
  <2>1. g_queue_lock' = g_queue_lock
    BY <1>2 DEF HandlerUnlocks, ForcedUnlock, pthread_mutex_unlock, TypeOK
  <2> QED
    BY <1>2, <2>1, Aside DEF HandlerUnlocks, Sound, Safe
<1>3. CASE HandlerClearsFlag
  BY <1>3, Aside DEF HandlerClearsFlag, Sound, Safe
<1>4. CASE HandlerBroadcasts
  <2>1. \A t \in Thread : pc'[t] = pc[t] \/ (pc[t] = "asleep" /\ pc'[t] = "relocking")
    BY <1>4 DEF HandlerBroadcasts, pthread_cond_broadcast, Asleep
  <2>2. main' = main \/ (main \notin Adding /\ main' \notin Adding)
    BY <1>4 DEF HandlerBroadcasts, Adding, Serving
  <2> QED
    BY <1>4, <2>1, <2>2, Aside DEF HandlerBroadcasts, Sound, Safe
<1> QED
  BY <1>1, <1>2, <1>3, <1>4 DEF sigint_handler

(***************************************************************************)
(* The steps together.                                                     *)
(***************************************************************************)
Ending == tree_skel_destroy \/ tree_skel_request_queue_threads_destroy \/ exit

Work(t) == process_request(t) \/ (SpuriousWakeup(t) /\ UNCHANGED serverVars)

LEMMA MainKeeps ==
  ASSUME TypeOK, Ready, Sound, MainThread, ~Ending
  PROVE  Sound' /\ (Calm => Calm')
<1>1. CASE queue_add_request /\ UNCHANGED serverVars
  BY <1>1, CalmAddLocks, CalmAddTestsHead, CalmAddEnters, CalmAddWalks, CalmAddClearsNext,
     CalmAddSignals, CalmAddUnlocks DEF queue_add_request
<1> QED
  BY <1>1, CalmParseArguments, CalmNetworkServerInit, CalmTreeSkelInit,
     CalmImvokeWrite, CalmNetworkSend DEF MainThread, Ending

LEMMA WorkerKeeps ==
  ASSUME TypeOK, Ready, Sound, ProcessRuns, NEW t \in Thread, Work(t)
  PROVE  Sound' /\ (Calm => Calm')
<1>1. CASE queue_get_next_request(t) /\ UNCHANGED serverVars
  BY <1>1, CalmGetLocks, CalmGetTestsHead, CalmGetWaits, CalmGetTakesHead,
     CalmGetMovesHead, CalmGetUnlocks DEF queue_get_next_request
<1> QED
  BY <1>1, CalmTestLoop, CalmMarkInProgress, CalmApplyRequest, CalmFinishRequest,
     CalmSpuriousWakeup DEF process_request, Work

(***************************************************************************)
(* Ready, in every step.                                                   *)
(***************************************************************************)
LEMMA ReadyMain == ASSUME TypeOK, Ready, MainThread PROVE Ready'
<1> USE Kinds DEF MainMoves, WorkerMoves, listVars, adderVars, workerVars, setupVars, lifeVars,
        signalVars, serverVars
<1>1. CASE ParseArguments
  BY <1>1 DEF ParseArguments, enough_threads, Ready, Serving
<1>2. CASE network_server_init
  BY <1>2 DEF network_server_init, Ready, Serving
<1>3. CASE tree_skel_init
  BY <1>3 DEF tree_skel_init, Ready, Serving, Thread
<1>4. CASE imvoke_write \/ network_send
  BY <1>4 DEF imvoke_write, network_send, Ready, Serving
<1>5. CASE queue_add_request /\ UNCHANGED serverVars
  <2>1. main \in Serving /\ main' \in Serving \cup {"killed"}
    BY <1>5 DEF queue_add_request, AddLocks, AddTestsHead, AddEnters, AddWalks, AddClearsNext,
         AddSignals, AddUnlocks, KilledBy, Killed, Serving
  <2> QED
    BY <1>5, <2>1 DEF Ready, Serving
<1>6. CASE Ending
  <2>1. main' \in {"releasing", "killed", "stopping", "exiting", "exited"}
    BY <1>6
    DEF Ending, tree_skel_destroy, tree_destroy, op_proc_destroy, Killed,
        tree_skel_request_queue_threads_destroy, exit
  <2>2. (gp_TREE' => gp_op_proc') /\ (main' = "releasing" => ~gp_TREE')
    <3>1. CASE tree_destroy
      BY <3>1 DEF tree_destroy
    <3>2. CASE op_proc_destroy
      BY <3>2 DEF op_proc_destroy, Ready
    <3>3. CASE tree_skel_request_queue_threads_destroy
      BY <3>3 DEF tree_skel_request_queue_threads_destroy, Ready
    <3>4. CASE exit
      BY <3>4 DEF exit, Ready
    <3> QED
      BY <1>6, <3>1, <3>2, <3>3, <3>4 DEF Ending, tree_skel_destroy
  <2> QED
    BY <2>1, <2>2 DEF Ready, Serving
<1> QED
  BY <1>1, <1>2, <1>3, <1>4, <1>5, <1>6 DEF MainThread, Ending

LEMMA ReadyWorker == ASSUME TypeOK, Ready, NEW t \in Thread, Work(t) PROVE Ready'
<1>1. main' = main \/ main' = "killed"
  BY DEF Work, process_request, TestLoop, queue_get_next_request, GetLocks, GetTestsHead,
     GetWaits, GetTakesHead, GetMovesHead, GetUnlocks, MarkInProgress, ApplyRequest,
     FinishRequest, SpuriousWakeup, Using, KilledBy, Killed, MainMoves, adderVars
<1>2. UNCHANGED <<gp_TREE, gp_op_proc, n_threads>>
  BY DEF Work, process_request, TestLoop, MarkInProgress, ApplyRequest, FinishRequest, Using,
     serverVars, setupVars, lifeVars
<1>3. pc[t] # "absent"
  BY DEF Work, process_request, TestLoop, queue_get_next_request, GetLocks, GetTestsHead,
     GetWaits, GetTakesHead, GetMovesHead, GetUnlocks, MarkInProgress, ApplyRequest,
     FinishRequest, SpuriousWakeup
<1> QED
  BY <1>1, <1>2, <1>3 DEF Ready, Serving

LEMMA ReadySignal == ASSUME TypeOK, Ready, SignalArrives \/ sigint_handler PROVE Ready'
<1> USE DEF MainMoves, queueVars, listVars, adderVars, workerVars, setupVars, lifeVars
<1>1. /\ main' \in {main, "destroying"}
      /\ UNCHANGED <<gp_TREE, gp_op_proc, n_threads, misused>>
  BY DEF SignalArrives, sigint_handler, HandlerUnlocks, HandlerClearsFlag, HandlerBroadcasts
<1>2. \A t \in Thread : pc'[t] # "absent" => pc[t] # "absent"
  BY DEF SignalArrives, sigint_handler, HandlerUnlocks, HandlerClearsFlag, HandlerBroadcasts,
     pthread_cond_broadcast, Asleep
<1> QED
  BY <1>1, <1>2 DEF Ready, Serving

(***************************************************************************)
(* A mutex in use is unlocked after a SIGINT only, and that is not undone; *)
(* only an arriving SIGINT changes signals.                                *)
(***************************************************************************)
LEMMA SignalsKept ==
  ASSUME MainThread \/ \E t \in Thread : Work(t)
  PROVE  signals' = signals /\ (~Ending => forced' = forced)
<1>1. CASE MainThread
  BY <1>1
  DEF MainThread, Ending, ParseArguments, network_server_init, tree_skel_init, imvoke_write,
      network_send, tree_skel_destroy, tree_destroy, op_proc_destroy,
      tree_skel_request_queue_threads_destroy, exit, serverVars, signalVars
<1>2. CASE \E t \in Thread : Work(t)
  BY <1>2
  DEF Work, process_request, TestLoop, MarkInProgress, ApplyRequest, FinishRequest, Using,
      serverVars, signalVars
<1> QED
  BY <1>1, <1>2

LEMMA ForcedKept == ASSUME Next, forced PROVE forced'
<1>1. CASE Ending
  BY <1>1
  DEF Ending, tree_skel_destroy, tree_destroy, op_proc_destroy,
      tree_skel_request_queue_threads_destroy, exit, ForcedUnlock, serverVars, signalVars
<1>2. CASE SignalArrives \/ sigint_handler
  BY <1>2
  DEF SignalArrives, sigint_handler, HandlerUnlocks, HandlerClearsFlag, HandlerBroadcasts,
      ForcedUnlock
<1>3. CASE (MainThread /\ ~Ending) \/ \E t \in Thread : Work(t)
  <2>1. CASE MainThread /\ ~Ending
    BY <2>1, SignalsKept
  <2>2. CASE \E t \in Thread : Work(t)
    BY <2>2
    DEF Work, process_request, TestLoop, MarkInProgress, ApplyRequest, FinishRequest, Using,
        serverVars, signalVars
  <2> QED
    BY <1>3, <2>1, <2>2
<1> QED
  BY <1>1, <1>2, <1>3 DEF Next, Work

LEMMA IInvStep == IInv /\ [Next]_vars => IInv'
<1> SUFFICES ASSUME IInv, [Next]_vars
             PROVE  IInv'
  OBVIOUS
<1>1. CASE Next
  <2>1. \/ MainThread
        \/ ProcessRuns /\ \E t \in Thread : Work(t)
        \/ SignalArrives \/ sigint_handler
    BY <1>1 DEF Next, Work
  <2>2. TypeOK'
    BY <2>1, TypeMain, TypeWorker, TypeSignal DEF IInv, Work
  <2>3. Setup'
    BY <1>1, SetupStep DEF IInv
  <2>4. Ready'
    BY <2>1, ReadyMain, ReadyWorker, ReadySignal DEF IInv
  <2>5. ASSUME ~forced'
        PROVE  Sound'
    <3>1. TypeOK /\ Ready /\ Sound
      BY <1>1, <2>5, ForcedKept DEF IInv
    <3> QED
      BY <2>1, <2>5, <3>1, MainKeeps, SoundEnd, WorkerKeeps, SoundSignal DEF Ending
  <2>6. ASSUME signals' = 0
        PROVE  Calm'
    <3>1. ~SignalArrives
      <4>1. signals \in Nat
        BY ServerAssumption DEF IInv, TypeOK
      <4> QED
        BY <2>6, <4>1 DEF SignalArrives
    <3>2. signals = 0
      <4>1. sigint_handler => signals' = signals
        BY DEF sigint_handler, HandlerUnlocks, HandlerClearsFlag, HandlerBroadcasts
      <4> QED
        BY <2>1, <2>6, <3>1, <4>1, SignalsKept
    <3>3. Calm /\ Sound /\ TypeOK /\ Ready
      BY <3>2 DEF IInv, Calm, Undisturbed
    <3>4. ~sigint_handler /\ ~tree_skel_destroy
          /\ ~tree_skel_request_queue_threads_destroy
      BY <3>3
      DEF Calm, Undisturbed, sigint_handler, HandlerUnlocks, HandlerClearsFlag,
          HandlerBroadcasts, tree_skel_destroy, tree_destroy, op_proc_destroy,
          tree_skel_request_queue_threads_destroy, Serving
    <3>5. ~exit
      BY <3>3 DEF Calm, Undisturbed, exit, Serving
    <3> QED
      BY <2>1, <3>1, <3>3, <3>4, <3>5, MainKeeps, WorkerKeeps DEF Ending
  <2> QED
    BY <2>2, <2>3, <2>4, <2>5, <2>6 DEF IInv
<1>2. CASE UNCHANGED vars
  <2>1. /\ UNCHANGED <<gp_queue_head, p_next, allocated, created, misused, g_queue_lock>>
        /\ UNCHANGED <<main, p_new, p_request_itr, pc, p_request>>
        /\ UNCHANGED <<argv, server_port, n_threads, g_are_threads_running>>
        /\ UNCHANGED <<gp_TREE, gp_op_proc, handler, signals, forced>>
    BY <1>2
    DEF vars, queueVars, serverVars, listVars, adderVars, workerVars, setupVars, lifeVars,
        signalVars
  <2>2. TypeOK' <=> TypeOK
    BY <2>1 DEF TypeOK
  <2>3. (Setup' <=> Setup) /\ (Ready' <=> Ready)
    BY <2>1 DEF Setup, Ready
  <2>4. (Undisturbed' <=> Undisturbed) /\ (Attended' <=> Attended) /\ (Awake' <=> Awake)
    BY <2>1 DEF Undisturbed, Attended, Awake
  <2>5. ~forced => Sound'
    BY <2>1, Aside DEF IInv, Sound, Safe
  <2> QED
    BY <2>1, <2>2, <2>3, <2>4, <2>5 DEF IInv, Calm
<1> QED
  BY <1>1, <1>2

LEMMA Invariance == Spec => []IInv
  BY IInvInit, IInvStep, PTL DEF Spec
-----------------------------------------------------------------------------
(***************************************************************************)
(* The variables of the process, the list and the workers keep their       *)
(* types, whatever is typed and whenever SIGINT arrives.                   *)
(***************************************************************************)
THEOREM ServerTypes == Spec => []TypeOK
<1>1. IInv => TypeOK
  BY DEF IInv
<1> QED
  BY <1>1, Invariance, PTL

(***************************************************************************)
(* g_queue_lock protects the list: until a mutex in use is unlocked after  *)
(* a SIGINT, queue_add_request and queue_get_next_request exclude each     *)
(* other in any number of workers.                                         *)
(***************************************************************************)
THEOREM OneAtATime == Spec => []MutualExclusion
<1>1. IInv => MutualExclusion
  BY DEF IInv, Sound, Locked, MutualExclusion
<1> QED
  BY <1>1, Invariance, PTL

(***************************************************************************)
(* The condition variable is used correctly: until a SIGINT, the workers   *)
(* never all sleep over a request that has been announced.                 *)
(***************************************************************************)
THEOREM NobodyOversleeps == Spec => []NoLostWakeup
<1>1. IInv => NoLostWakeup
  BY DEF IInv, Calm, Awake, NoLostWakeup
<1> QED
  BY <1>1, Invariance, PTL

(***************************************************************************)
(* Until a mutex in use is unlocked after a SIGINT or main begins to free  *)
(* the tree, the list operations and process_request use only memory that  *)
(* exists: requests are freed once, by the worker that holds them.         *)
(***************************************************************************)
THEOREM MemoryIsSafe == Spec => []NoMemoryError
<1>1. IInv => NoMemoryError
  BY DEF IInv, Sound, Safe, NoMemoryError
<1> QED
  BY <1>1, Invariance, PTL

(***************************************************************************)
(* The port that is bound is the one that was typed, whatever the widths   *)
(* of the C types, except for texts below the smallest short.              *)
(***************************************************************************)
THEOREM BindsPortAsTyped == Spec => []PortAsTyped
<1>1. IInv => PortAsTyped
  <2> SUFFICES ASSUME IInv, main = "binding", argv[1].number >= -SHRT_MAX - 1
               PROVE  server_port = argv[1].number /\ server_port \notin Reserved
    BY DEF PortAsTyped
  <2>1. argv \in Commands /\ server_port = parse_port(argv[1]) /\ server_port >= 0
    BY DEF IInv, Setup
  <2>2. argv[1] \in Texts
    BY <2>1, ServerAssumption DEF Commands
  <2> QED
    BY <2>1, <2>2, PortRule
<1> QED
  BY <1>1, Invariance, PTL
-----------------------------------------------------------------------------
(***************************************************************************)
(* The linked list of RequestQueue, in the process of TreeServer, is the   *)
(* queue of FifoQueue, for every number of workers and requests.           *)
(***************************************************************************)
-----------------------------------------------------------------------------
(***************************************************************************)
(* The requests from first to last in a line.                              *)
(***************************************************************************)
Span(first, last) == [j \in 1 .. last - first + 1 |-> first + j - 1]

(***************************************************************************)
(* When each request from first on points to the next one, and the last to *)
(* nothing, they are the only line that starts with first.                 *)
(***************************************************************************)
LEMMA ChainIsSpan ==
  ASSUME NEW first \in Request, NEW last \in Request, first <= last,
         NEW next, \A r \in first .. last - 1 : next[r] = r + 1, next[last] = NULL,
         NEW s \in Lines, IsLine(s, first, next)
  PROVE  s = Span(first, last)
<1> USE QueueAssumption
<1>1. PICK n \in 0 .. MaxRequests : s \in [1 .. n -> Request]
  BY DEF Lines
<1>2. Len(s) = n /\ s \in Seq(Request)
  BY <1>1
<1>3. first # NULL
  BY DEF Request
<1>4. /\ n >= 1 /\ s[1] = first
      /\ \A j \in 1 .. n - 1 : s[j + 1] = next[s[j]]
      /\ next[s[n]] = NULL
  <2>1. /\ s # <<>> /\ s[1] = first
        /\ \A j \in 1 .. Len(s) - 1 : s[j + 1] = next[s[j]]
        /\ next[s[Len(s)]] = NULL
    BY <1>3 DEF IsLine
  <2> QED
    BY <1>2, <2>1
<1> DEFINE Good(j) == s[j] = first + j - 1 /\ first + j - 1 <= last
           T == {j \in 1 .. n : ~Good(j)}
<1>5. T = {}
  <2> SUFFICES ASSUME T # {} PROVE FALSE
    OBVIOUS
  <2>1. PICK x \in T : \A y \in T : x <= y
    <3>1. T \subseteq Nat
      OBVIOUS
    <3> HIDE DEF T
    <3> QED
      BY <3>1, Smallest
  <2>2. x # 1
    BY <1>4, <2>1 DEF Request
  <2>3. x - 1 \in 1 .. n /\ Good(x - 1)
    BY <2>1, <2>2
  <2>4. s[x] = next[s[x - 1]]
    BY <1>4, <2>1, <2>3
  <2>5. s[x - 1] = first + x - 2 /\ s[x - 1] <= last /\ s[x - 1] >= first
    BY <2>3 DEF Request
  <2>6. s[x] # NULL
    BY <1>1, <2>1 DEF Request
  <2>7. s[x - 1] # last
    BY <2>4, <2>6
  <2>8. next[s[x - 1]] = s[x - 1] + 1
    BY <2>5, <2>7 DEF Request
  <2>9. Good(x)
    BY <2>4, <2>5, <2>7, <2>8 DEF Request
  <2> QED
    BY <2>1, <2>9
<1>6. \A j \in 1 .. n : Good(j)
  BY <1>5
<1>7. n = last - first + 1
  <2>1. s[n] = first + n - 1 /\ first + n - 1 <= last
    BY <1>4, <1>6
  <2>2. s[n] = last
    <3> SUFFICES ASSUME s[n] # last PROVE FALSE
      OBVIOUS
    <3>1. next[s[n]] = s[n] + 1
      BY <1>4, <2>1 DEF Request
    <3> QED
      BY <1>4, <2>1, <3>1 DEF Request
  <2> QED
    BY <2>1, <2>2 DEF Request
<1> QED
  BY <1>1, <1>6, <1>7 DEF Span

LEMMA SpanIsLine ==
  ASSUME NEW first \in Request, NEW last \in Request, first <= last,
         NEW next, \A r \in first .. last - 1 : next[r] = r + 1, next[last] = NULL
  PROVE  /\ Span(first, last) \in Seq(Request)
         /\ Span(first, last) \in Lines
         /\ IsLine(Span(first, last), first, next)
<1> USE QueueAssumption
<1> DEFINE n == last - first + 1
           s == Span(first, last)
<1>1. n \in 1 .. MaxRequests
  BY DEF Request
<1>2. s \in [1 .. n -> Request]
  BY DEF Span, Request
<1>3. s \in Seq(Request) /\ Len(s) = n
  <2> HIDE DEF s
  <2> QED
    BY <1>1, <1>2
<1>4. s \in Lines
  BY <1>1, <1>2 DEF Lines
<1>5. /\ s[1] = first /\ s[n] = last
      /\ \A j \in 1 .. n - 1 : s[j] \in first .. last - 1 /\ s[j + 1] = s[j] + 1
  BY DEF Span, Request
<1>6. first # NULL
  BY DEF Request
<1>7. s # <<>>
  <2> HIDE DEF s
  <2> QED
    BY <1>1, <1>3
<1> HIDE DEF s
<1>8. IsLine(s, first, next)
  BY <1>3, <1>5, <1>6, <1>7 DEF IsLine
<1> QED
  BY <1>3, <1>4, <1>8 DEF s
-----------------------------------------------------------------------------
(***************************************************************************)
(* What the line is, now and after a step, when the invariant holds.       *)
(***************************************************************************)
LineFrom(head, next) ==
  LET lines == {s \in Lines : IsLine(s, head, next)}
  IN  IF lines = {} THEN <<>> ELSE CHOOSE s \in lines : TRUE

LEMMA EmptyLine ==
  ASSUME NEW next
  PROVE  LineFrom(NULL, next) = <<>>
<1>1. \A s \in Lines : IsLine(s, NULL, next) => s = <<>>
  BY DEF IsLine
<1> QED
  BY <1>1 DEF LineFrom

LEMMA FullLine ==
  ASSUME NEW first \in Request, NEW last \in Request, first <= last,
         NEW next, \A r \in first .. last - 1 : next[r] = r + 1, next[last] = NULL
  PROVE  LineFrom(first, next) = Span(first, last)
<1> DEFINE lines == {s \in Lines : IsLine(s, first, next)}
<1>1. Span(first, last) \in lines
  BY SpanIsLine
<1>2. \A s \in lines : s = Span(first, last)
  BY ChainIsSpan
<1>3. lines # {} /\ LineFrom(first, next) = CHOOSE s \in lines : TRUE
  BY <1>1 DEF LineFrom
<1> HIDE DEF lines
<1>4. (CHOOSE s \in lines : TRUE) \in lines
  BY <1>1
<1> QED
  BY <1>2, <1>3, <1>4

Interval(head, last) == IF head = NULL THEN <<>> ELSE Span(head, last)

LEMMA LineNow == TypeOK /\ Linked => Line = Interval(gp_queue_head, Hung)
<1> SUFFICES ASSUME TypeOK, Linked
             PROVE  Line = Interval(gp_queue_head, Hung)
  OBVIOUS
<1>1. Line = LineFrom(gp_queue_head, p_next)
  BY DEF Line, LineFrom
<1>2. CASE gp_queue_head = NULL
  BY <1>1, <1>2, EmptyLine DEF Interval
<1>3. CASE gp_queue_head # NULL
  <2>1. /\ gp_queue_head \in Request /\ Hung \in Request /\ gp_queue_head <= Hung
        /\ \A r \in gp_queue_head .. Hung - 1 : p_next[r] = r + 1
        /\ p_next[Hung] = NULL
    <3>1. gp_queue_head \in 1 .. Hung /\ created \in 0 .. MaxRequests
      BY <1>3 DEF Linked, TypeOK
    <3>2. Hung \in Int /\ Hung <= created
      BY <3>1 DEF Hung
    <3> QED
      BY <1>3, <3>1, <3>2, QueueAssumption DEF Linked, Request
  <2>2. LineFrom(gp_queue_head, p_next) = Span(gp_queue_head, Hung)
    BY <2>1, FullLine
  <2> QED
    BY <1>1, <1>3, <2>2 DEF Interval
<1> QED
  BY <1>2, <1>3

LEMMA LineThen == (TypeOK /\ Linked => Line = Interval(gp_queue_head, Hung))'
  BY LineNow, PTL

(***************************************************************************)
(* Spans grow at their end and shrink at their head.                       *)
(***************************************************************************)
LEMMA SpanStarts ==
  ASSUME NEW first \in Int
  PROVE  Span(first, first) = Append(<<>>, first)
  BY DEF Span

LEMMA SpanGrows ==
  ASSUME NEW first \in Int, NEW last \in Int, first <= last
  PROVE  Span(first, last + 1) = Append(Span(first, last), last + 1)
<1> DEFINE s == Span(first, last)
           n == last - first + 1
<1>1. n \in Nat /\ s \in [1 .. n -> Int] /\ \A j \in 1 .. n : s[j] = first + j - 1
  BY DEF Span
<1> HIDE DEF s
<1>2. s \in Seq(Int) /\ Len(s) = n
  BY <1>1
<1>3. Append(s, last + 1) = [j \in 1 .. n + 1 |-> IF j = n + 1 THEN last + 1 ELSE s[j]]
  BY <1>1, <1>2
<1>4. Span(first, last + 1) = [j \in 1 .. n + 1 |-> first + j - 1]
  BY DEF Span
<1>5. \A j \in 1 .. n + 1 : (IF j = n + 1 THEN last + 1 ELSE s[j]) = first + j - 1
  BY <1>1
<1> QED
  BY <1>3, <1>4, <1>5 DEF s

LEMMA SpanShrinks ==
  ASSUME NEW first \in Int, NEW last \in Int, first <= last
  PROVE  /\ Span(first, last) # <<>>
         /\ Head(Span(first, last)) = first
         /\ Tail(Span(first, last)) = IF first = last THEN <<>> ELSE Span(first + 1, last)
<1> DEFINE s == Span(first, last)
           n == last - first + 1
           u == IF first = last THEN <<>> ELSE Span(first + 1, last)
<1>1. n \in Nat \ {0} /\ s \in [1 .. n -> Int] /\ \A j \in 1 .. n : s[j] = first + j - 1
  BY DEF Span
<1>2. u \in [1 .. n - 1 -> Int] /\ \A j \in 1 .. n - 1 : u[j] = first + j
  BY DEF Span
<1> HIDE DEF s, u
<1>3. s \in Seq(Int) /\ Len(s) = n
  BY <1>1
<1>4. s # <<>> /\ Head(s) = first
  BY <1>1, <1>3
<1>5. /\ Tail(s) \in Seq(Int) /\ Len(Tail(s)) = n - 1
      /\ \A j \in 1 .. n - 1 : Tail(s)[j] = first + j
  <2>1. /\ Tail(s) \in Seq(Int) /\ Len(Tail(s)) = Len(s) - 1
        /\ \A j \in 1 .. Len(Tail(s)) : Tail(s)[j] = s[j + 1]
    BY <1>3, <1>4, HeadTailProperties
  <2> QED
    BY <1>1, <1>3, <2>1
<1>6. u \in Seq(Int) /\ Len(u) = n - 1
  <2> DEFINE m == n - 1
  <2>1. m \in Nat /\ u \in [1 .. m -> Int]
    BY <1>1, <1>2
  <2> HIDE DEF m
  <2>2. u \in Seq(Int) /\ Len(u) = m
    BY <2>1
  <2> QED
    BY <2>2 DEF m
<1>7. Tail(s) = u
  <2> DEFINE w == Tail(s)
  <2>1. /\ w \in Seq(Int) /\ Len(w) = Len(u)
        /\ \A j \in 1 .. Len(w) : w[j] = u[j]
    BY <1>2, <1>5, <1>6
  <2> HIDE DEF w
  <2>2. w = u
    BY <1>6, <2>1, SeqEqual
  <2> QED
    BY <2>2 DEF w
<1> QED
  BY <1>4, <1>7 DEF s, u
-----------------------------------------------------------------------------
(***************************************************************************)
(* Steps of the process, seen as steps of the queue.                       *)
(***************************************************************************)
Before == IInv /\ ~forced /\ ~misused
After == IInv' /\ ~forced' /\ ~misused'

HeldAlike == \A t \in Thread : HeldBy(t)' = HeldBy(t)

LEMMA Lines2 ==
  ASSUME Before, After
  PROVE  /\ Line = Interval(gp_queue_head, Hung)
         /\ Line' = Interval(gp_queue_head', Hung')
         /\ gp_queue_head # NULL => gp_queue_head \in 1 .. Hung
         /\ created \in Nat
         /\ NULL \notin Int
<1>1. TypeOK /\ Linked /\ TypeOK' /\ Linked'
  BY DEF Before, After, IInv, Sound
<1>2. Line = Interval(gp_queue_head, Hung)
  BY <1>1, LineNow
<1>3. Line' = Interval(gp_queue_head', Hung')
  BY <1>1, LineThen DEF Interval
<1> QED
  BY <1>1, <1>2, <1>3, QueueAssumption DEF Linked, TypeOK

LEMMA Quiet ==
  ASSUME Before, After, HeldAlike, gp_queue_head' = gp_queue_head, Hung' = Hung
  PROVE  UNCHANGED Fifo!vars
<1>1. Line' = Line
  BY Lines2
<1>2. [t \in Thread |-> HeldBy(t)]' = [t \in Thread |-> HeldBy(t)]
  BY DEF HeldAlike
<1> QED
  BY <1>1, <1>2 DEF Fifo!vars, Before, After

LEMMA Adds ==
  ASSUME Before, After, HeldAlike, Loose, created \in Request, Hung' = created,
         gp_queue_head' = IF gp_queue_head = NULL THEN created ELSE gp_queue_head
  PROVE  Fifo!Next
<1>1. Hung = created - 1 /\ created \in Int
  BY DEF Hung, Request
<1>2. [t \in Thread |-> HeldBy(t)]' = [t \in Thread |-> HeldBy(t)]
  BY DEF HeldAlike
<1>3. Line' = Append(Line, created)
  <2> DEFINE m == created - 1
  <2>1. m \in Int /\ m + 1 = created
    BY <1>1
  <2>2. Hung = m
    BY <1>1
  <2> HIDE DEF m
  <2>3. CASE gp_queue_head = NULL
    <3>1. Line = <<>> /\ Line' = Span(created, created)
      BY <2>3, Lines2 DEF Interval
    <3> QED
      BY <1>1, <3>1, SpanStarts
  <2>4. CASE gp_queue_head # NULL
    <3>1. /\ gp_queue_head \in Int /\ gp_queue_head <= m
          /\ Line = Span(gp_queue_head, m)
          /\ Line' = Span(gp_queue_head, created)
      BY <2>1, <2>2, <2>4, Lines2 DEF Interval
    <3>2. Span(gp_queue_head, m + 1) = Append(Span(gp_queue_head, m), m + 1)
      BY <2>1, <3>1, SpanGrows
    <3> QED
      BY <2>1, <3>1, <3>2
  <2> QED
    BY <2>3, <2>4
<1>4. created \notin Fifo!Everywhere
  <2>1. \A j \in DOMAIN Line : Line[j] # created
    BY <1>1, Lines2 DEF Interval, Span
  <2>2. \A t \in Thread : HeldBy(t) # created
    <3>1. \A t \in Thread : p_request[t] = NULL \/ p_request[t] \in 1 .. Hung
      BY DEF Before, IInv, Sound, Held
    <3> QED
      BY <1>1, <3>1, Lines2 DEF HeldBy
  <2> QED
    BY <2>1, <2>2 DEF Fifo!Everywhere
<1>5. Fifo!Add(created)
  BY <1>2, <1>3, <1>4 DEF Fifo!Add, Before, After
<1> QED
  BY <1>5 DEF Fifo!Next

LEMMA Gets ==
  ASSUME Before, After, NEW t \in Thread, GetMovesHead(t)
  PROVE  Fifo!Next
<1>1. /\ pc[t] = "moving" /\ p_request[t] = gp_queue_head /\ gp_queue_head # NULL
      /\ pc' = [pc EXCEPT ![t] = "unlocking"] /\ gp_queue_head' = p_next[gp_queue_head]
      /\ UNCHANGED <<main, created, p_request>>
  <2>1. pc[t] = "moving" /\ Holds(t)
    BY DEF GetMovesHead, Holds
  <2>2. p_request[t] = gp_queue_head /\ gp_queue_head \in allocated /\ gp_queue_head # NULL
    BY <2>1 DEF Before, IInv, Sound, Held
  <2> QED
    BY <2>1, <2>2 DEF GetMovesHead, KilledBy, NextOf, adderVars
<1>2. Hung' = Hung /\ Hung \in Int
  BY <1>1, Lines2 DEF Hung, Loose
<1>3. gp_queue_head' = IF gp_queue_head = Hung THEN NULL ELSE gp_queue_head + 1
  BY <1>1, <1>2, Lines2 DEF Before, IInv, Sound, Linked
<1>4. Line # <<>> /\ Head(Line) = gp_queue_head /\ Line' = Tail(Line)
  <2> DEFINE h == gp_queue_head
             n == Hung
  <2>1. h \in Int /\ n \in Int /\ h <= n /\ NULL \notin Int
    BY <1>1, <1>2, Lines2
  <2>2. Line = Span(h, n) /\ Line' = IF h = n THEN <<>> ELSE Span(h + 1, n)
    BY <1>1, <1>2, <1>3, <2>1, Lines2 DEF Interval
  <2> HIDE DEF h, n
  <2>3. Line # <<>> /\ Head(Line) = h /\ Line' = Tail(Line)
    BY <2>1, <2>2, SpanShrinks
  <2> QED
    BY <2>3 DEF h
<1>5. /\ HeldBy(t) = NULL /\ HeldBy(t)' = gp_queue_head
      /\ \A u \in Thread \ {t} : HeldBy(u)' = HeldBy(u)
  BY <1>1 DEF HeldBy, Before, IInv, TypeOK
<1>6. [u \in Thread |-> HeldBy(u)]'
        = [[u \in Thread |-> HeldBy(u)] EXCEPT ![t] = Head(Line)]
  BY <1>4, <1>5
<1>7. Fifo!Get(t)
  BY <1>4, <1>5, <1>6 DEF Fifo!Get, Before, After
<1> QED
  BY <1>7 DEF Fifo!Next

LEMMA Destroys ==
  ASSUME Before, After, NEW t \in Thread, FinishRequest(t)
  PROVE  Fifo!Next
<1>1. /\ pc[t] = "finishing" /\ pc' = [pc EXCEPT ![t] = "looping"]
      /\ p_request' = [p_request EXCEPT ![t] = NULL]
      /\ UNCHANGED <<main, created, gp_queue_head>>
  BY DEF After, FinishRequest, Using, Killed, adderVars
<1>2. Line' = Line
  BY <1>1, Lines2 DEF Hung, Loose
<1>3. /\ HeldBy(t)' = NULL
      /\ \A u \in Thread \ {t} : HeldBy(u)' = HeldBy(u)
  BY <1>1 DEF HeldBy, Before, IInv, TypeOK
<1>4. [u \in Thread |-> HeldBy(u)]'
        = [[u \in Thread |-> HeldBy(u)] EXCEPT ![t] = NULL]
  BY <1>3
<1>5. Fifo!Destroy(t)
  BY <1>2, <1>4 DEF Fifo!Destroy, Before, After
<1> QED
  BY <1>5 DEF Fifo!Next

LEMMA StillHeld ==
  ASSUME UNCHANGED p_request, \A t \in Thread : pc'[t] = "moving" <=> pc[t] = "moving"
  PROVE  HeldAlike
  BY DEF HeldAlike, HeldBy

LEMMA MainSteps ==
  ASSUME Before, After, MainThread
  PROVE  Fifo!Next \/ UNCHANGED Fifo!vars
<1>1. /\ ~misused' /\ pc \in [Thread -> WorkerPlaces]
      /\ main \in Adding => p_new = created /\ created \in Request
  BY QueueAssumption DEF Before, After, IInv, Sound, Linked, TypeOK, Request
<1>2. CASE ParseArguments \/ network_server_init \/ network_send
  <2>1. HeldAlike /\ gp_queue_head' = gp_queue_head /\ Hung' = Hung
    BY <1>2, StillHeld
    DEF ParseArguments, network_server_init, network_send, listVars, workerVars, Hung, Loose,
        MainMoves
  <2> QED
    BY <2>1, Quiet
<1>3. CASE tree_skel_init
  <2>1. UNCHANGED listVars /\ ~Loose /\ ~Loose'
    BY <1>3 DEF tree_skel_init, Loose, MainMoves, adderVars
  <2>2. HeldAlike
    BY <1>1, <1>3, StillHeld DEF tree_skel_init, WorkerMoves, workerVars
  <2> QED
    BY <2>1, <2>2, Quiet DEF listVars, Hung
<1>4. CASE imvoke_write
  <2>1. HeldAlike
    BY <1>4, StillHeld DEF imvoke_write, workerVars
  <2>2. gp_queue_head' = gp_queue_head /\ created' - 1 = created /\ ~Loose /\ Loose'
    BY <1>4, Lines2 DEF imvoke_write, request_create, Loose
  <2> QED
    BY <2>1, <2>2, Quiet DEF Hung
<1>5. CASE AddLocks \/ AddEnters \/ AddClearsNext \/ AddUnlocks
  <2>1. HeldAlike /\ gp_queue_head' = gp_queue_head /\ Hung' = Hung
    BY <1>1, <1>5, StillHeld
    DEF AddLocks, AddEnters, AddClearsNext, AddUnlocks, KilledBy, Killed, listVars,
        workerVars, Hung, Loose, MainMoves
  <2> QED
    BY <2>1, Quiet
<1>6. CASE AddSignals
  <2>1. HeldAlike
    BY <1>1, <1>6, StillHeld DEF AddSignals, pthread_cond_signal, Asleep
  <2>2. gp_queue_head' = gp_queue_head /\ Hung' = Hung
    BY <1>6 DEF AddSignals, listVars, Hung, Loose, MainMoves
  <2> QED
    BY <2>1, <2>2, Quiet
<1>7. CASE AddTestsHead
  <2>1. HeldAlike /\ Loose /\ created' = created
    BY <1>7, StillHeld DEF AddTestsHead, workerVars, Loose
  <2>2. CASE gp_queue_head = NULL
    <3>1. gp_queue_head' = created /\ created \in Request /\ ~Loose'
      BY <1>1, <1>7, <2>2 DEF AddTestsHead, MainMoves, Adding, Serving, Loose
    <3> QED
      BY <2>1, <2>2, <3>1, Adds DEF Hung
  <2>3. CASE gp_queue_head # NULL
    <3>1. gp_queue_head' = gp_queue_head /\ Loose'
      BY <1>7, <2>3 DEF AddTestsHead, MainMoves, Loose
    <3> QED
      BY <2>1, <3>1, Quiet DEF Hung
  <2> QED
    BY <2>2, <2>3
<1>8. CASE AddWalks
  <2>1. /\ HeldAlike /\ Loose /\ created' = created /\ gp_queue_head' = gp_queue_head
        /\ gp_queue_head # NULL /\ created \in Request
    BY <1>1, <1>8, StillHeld
    DEF AddWalks, workerVars, Loose, Adding, Serving, Before, IInv, Sound, Linked
  <2>2. CASE Loose'
    BY <2>1, <2>2, Quiet DEF Hung
  <2>3. CASE ~Loose'
    BY <2>1, <2>3, Adds DEF Hung
  <2> QED
    BY <2>2, <2>3
<1>9. CASE Ending
  <2>1. UNCHANGED <<gp_queue_head, created, p_request>> /\ ~Loose /\ ~Loose'
    BY <1>9
    DEF Ending, tree_skel_destroy, tree_destroy, op_proc_destroy, Killed, MainMoves, listVars,
        tree_skel_request_queue_threads_destroy, exit, workerVars, Loose
  <2>2. \A t \in Thread : pc'[t] = "moving" <=> pc[t] = "moving"
    BY <1>9
    DEF Ending, tree_skel_destroy, tree_destroy, op_proc_destroy, exit, workerVars,
        tree_skel_request_queue_threads_destroy, pthread_cond_broadcast, Asleep
  <2>3. HeldAlike
    BY <2>1, <2>2, StillHeld
  <2> QED
    BY <2>1, <2>3, Quiet DEF Hung
<1> QED
  BY <1>2, <1>3, <1>4, <1>5, <1>6, <1>7, <1>8, <1>9 DEF MainThread, Ending, queue_add_request

LEMMA WorkerSteps ==
  ASSUME Before, After, NEW t \in Thread, Work(t)
  PROVE  Fifo!Next \/ UNCHANGED Fifo!vars
<1>1. ~misused' /\ pc \in [Thread -> WorkerPlaces]
  BY DEF Before, After, IInv, TypeOK
<1>2. CASE \/ TestLoop(t) \/ GetLocks(t) \/ GetTestsHead(t) \/ GetWaits(t) \/ GetUnlocks(t)
           \/ SpuriousWakeup(t)
  <2>1. HeldAlike
    <3>1. /\ pc[t] # "moving" /\ UNCHANGED p_request
          /\ \E place \in WorkerPlaces \ {"moving"} : pc' = [pc EXCEPT ![t] = place]
      BY <1>2
      DEF TestLoop, GetLocks, GetTestsHead, GetWaits, GetUnlocks, SpuriousWakeup, WorkerMoves,
          WorkerPlaces
    <3> QED
      BY <1>1, <3>1, StillHeld
  <2>2. UNCHANGED <<gp_queue_head, created, main>>
    BY <1>2
    DEF TestLoop, GetLocks, GetTestsHead, GetWaits, GetUnlocks, SpuriousWakeup, listVars,
        adderVars
  <2> QED
    BY <2>1, <2>2, Quiet DEF Hung, Loose
<1>3. CASE GetTakesHead(t)
  <2>1. /\ pc[t] = "taking" /\ pc' = [pc EXCEPT ![t] = "moving"]
        /\ \E p : p_request' = [p_request EXCEPT ![t] = p]
        /\ UNCHANGED <<gp_queue_head, created, main>>
    BY <1>3 DEF GetTakesHead, listVars, adderVars
  <2>2. p_request[t] = NULL /\ p_request \in [Thread -> Request \cup {NULL}]
    BY <2>1 DEF Before, IInv, Sound, Held, Holds, TypeOK
  <2>3. HeldAlike
    BY <1>1, <2>1, <2>2 DEF HeldAlike, HeldBy
  <2> QED
    BY <2>1, <2>3, Quiet DEF Hung, Loose
<1>4. CASE GetMovesHead(t)
  BY <1>4, Gets
<1>5. CASE MarkInProgress(t) \/ ApplyRequest(t)
  <2>1. HeldAlike
    <3>1. /\ pc[t] # "moving" /\ UNCHANGED p_request
          /\ \E place \in WorkerPlaces \ {"moving"} : pc' = [pc EXCEPT ![t] = place]
      BY <1>1, <1>5
      DEF MarkInProgress, ApplyRequest, Using, Killed, WorkerMoves, WorkerPlaces
    <3> QED
      BY <1>1, <3>1, StillHeld
  <2>2. UNCHANGED <<gp_queue_head, created, main>>
    BY <1>1, <1>5 DEF MarkInProgress, ApplyRequest, Using, Killed, adderVars, listVars
  <2> QED
    BY <2>1, <2>2, Quiet DEF Hung, Loose
<1>6. CASE FinishRequest(t)
  BY <1>6, Destroys
<1> QED
  BY <1>2, <1>3, <1>4, <1>5, <1>6 DEF Work, process_request, queue_get_next_request

LEMMA SignalSteps ==
  ASSUME Before, After, SignalArrives \/ sigint_handler
  PROVE  UNCHANGED Fifo!vars
<1> USE DEF MainMoves, queueVars, listVars, adderVars, workerVars
<1>1. UNCHANGED <<gp_queue_head, created, p_request>>
  BY DEF SignalArrives, sigint_handler, HandlerUnlocks, HandlerClearsFlag, HandlerBroadcasts
<1>2. Loose' <=> Loose
  BY DEF SignalArrives, sigint_handler, HandlerUnlocks, HandlerClearsFlag, HandlerBroadcasts,
     Loose
<1>3. \A t \in Thread : pc'[t] = "moving" <=> pc[t] = "moving"
  BY DEF SignalArrives, sigint_handler, HandlerUnlocks, HandlerClearsFlag, HandlerBroadcasts,
     pthread_cond_broadcast, Asleep
<1>4. HeldAlike
  BY <1>1, <1>3, StillHeld
<1> QED
  BY <1>1, <1>2, <1>4, Quiet DEF Hung

LEMMA MisusedKept == ASSUME Next, misused PROVE misused'
<1> USE DEF listVars, queueVars
<1>1. CASE MainThread
  BY <1>1
  DEF MainThread, Ending, ParseArguments, network_server_init, tree_skel_init, imvoke_write,
      request_create, queue_add_request, AddLocks, AddTestsHead, AddEnters, AddWalks,
      AddClearsNext, AddSignals, AddUnlocks, network_send, tree_skel_destroy, tree_destroy,
      op_proc_destroy, tree_skel_request_queue_threads_destroy, exit, KilledBy, Killed, Follow
<1>2. ASSUME NEW t \in Thread, Work(t)
      PROVE  misused'
  BY <1>2
  DEF Work, process_request, TestLoop, queue_get_next_request, GetLocks, GetTestsHead, GetWaits,
      GetTakesHead, GetMovesHead, GetUnlocks, MarkInProgress, ApplyRequest, FinishRequest,
      SpuriousWakeup, Using, KilledBy, Killed, Follow
<1>3. CASE SignalArrives \/ sigint_handler
  BY <1>3
  DEF SignalArrives, sigint_handler, HandlerUnlocks, HandlerClearsFlag, HandlerBroadcasts
<1> QED
  BY <1>1, <1>2, <1>3 DEF Next, Work
-----------------------------------------------------------------------------
(***************************************************************************)
(* The refinement.  Until a mutex in use is unlocked or freed memory is    *)
(* used, every step is one of the queue or leaves it alone; from then on   *)
(* the queue is closed.                                                    *)
(***************************************************************************)
LEMMA FifoInit == Init => Fifo!Init
<1> SUFFICES ASSUME Init PROVE Fifo!Init
  OBVIOUS
<1>1. Line = <<>>
  <2>1. Line = LineFrom(gp_queue_head, p_next)
    BY DEF Line, LineFrom
  <2> QED
    BY <2>1, EmptyLine DEF Init, QueueInit
<1>2. [t \in Thread |-> HeldBy(t)] = [t \in Thread |-> NULL]
  BY DEF HeldBy, Init, QueueInit
<1>3. ~forced /\ ~misused
  BY DEF Init, QueueInit
<1> QED
  BY <1>1, <1>2, <1>3 DEF Fifo!Init

LEMMA FifoStep ==
  IInv /\ IInv' /\ [Next]_vars => [Fifo!Next]_(Fifo!vars)
<1> SUFFICES ASSUME IInv, IInv', [Next]_vars
             PROVE  Fifo!Next \/ UNCHANGED Fifo!vars
  OBVIOUS
<1>1. CASE UNCHANGED vars
  <2>1. UNCHANGED <<gp_queue_head, p_next, pc, p_request, forced, misused>>
    BY <1>1 DEF vars, queueVars, listVars, workerVars, serverVars, signalVars
  <2>2. Line' = Line
    BY <2>1 DEF Line
  <2>3. [t \in Thread |-> HeldBy(t)]' = [t \in Thread |-> HeldBy(t)]
    BY <2>1 DEF HeldBy
  <2> QED
    BY <2>1, <2>2, <2>3 DEF Fifo!vars
<1>2. CASE Next
  <2>1. CASE forced' \/ misused'
    BY <2>1 DEF Fifo!Next, Fifo!Close
  <2>2. CASE ~forced' /\ ~misused'
    <3>1. Before /\ After
      BY <1>2, <2>2, ForcedKept, MisusedKept DEF Before, After
    <3> QED
      BY <1>2, <3>1, MainSteps, WorkerSteps, SignalSteps DEF Next, Work
  <2> QED
    BY <2>1, <2>2
<1> QED
  BY <1>1, <1>2

(***************************************************************************)
(* The linked list under its mutex is the queue of FifoQueue until a       *)
(* mutex in use is unlocked after a SIGINT or freed memory is used: no     *)
(* request is lost, doubled or overtaken in it, and each belongs to one    *)
(* worker at a time (queue_add_request and queue_get_next_request in       *)
(* source/tree_skel.c).                                                    *)
(***************************************************************************)
THEOREM ListIsQueue == Spec => ImplementsFifo
<1>1. Init => Fifo!Init
  BY FifoInit
<1>2. IInv /\ IInv' /\ [Next]_vars => [Fifo!Next]_(Fifo!vars)
  BY FifoStep
<1>3. Spec => []IInv
  BY Invariance
<1> QED
  BY <1>1, <1>2, <1>3, PTL DEF Spec, ImplementsFifo, Fifo!Spec
=============================================================================
