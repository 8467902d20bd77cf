----------------------------- MODULE TreeServer -----------------------------
(***************************************************************************)
(* source/tree_server.c: the life of the server process, from its command  *)
(* line to its end.  main parses the arguments, binds the port, starts the *)
(* workers and enters the main loop; when poll is interrupted it destroys  *)
(* the tree and op_proc, stops the workers and exits.  SIGINT may arrive   *)
(* at any moment after its handler is installed.  The handler runs in the  *)
(* main thread, on top of whatever that was doing.                         *)
(*                                                                         *)
(* The queue of writes is RequestQueue, step by step.  What a worker does  *)
(* with a request is here only its use of op_proc, of the tree and of the  *)
(* request; TreeSkel has the rest.  Reads are left out: the main thread    *)
(* cannot free the tree while it reads it.                                 *)
(***************************************************************************)
EXTENDS RequestQueue, Arguments

CONSTANTS
  PortTexts, ThreadsTexts,  \* the command lines to consider
  MaxSignals                \* bound on the number of SIGINTs

ASSUME ServerAssumption ==
  /\ PortTexts \subseteq Texts
  /\ ThreadsTexts \subseteq Texts
  /\ MaxSignals \in Nat

VARIABLES
  argv,          \* the two arguments; NULL once they are not needed any more
  server_port,   \* what parse_port made of the first; NULL likewise
  n_threads,     \* what parse_int made of the second
  g_are_threads_running,
  gp_TREE, gp_op_proc,  \* whether they exist in memory
  handler,       \* where the SIGINT handler is
  signals,       \* how many SIGINTs have arrived
  forced         \* whether g_queue_lock has been unlocked in a thread's hands

setupVars == <<argv, server_port, n_threads>>
lifeVars == <<gp_TREE, gp_op_proc>>
signalVars == <<handler, signals, forced>>
serverVars == <<setupVars, lifeVars, signalVars, g_are_threads_running>>
vars == <<queueVars, serverVars>>

Init ==
  /\ QueueInit("parsing")
  /\ argv \in PortTexts \X ThreadsTexts
  /\ server_port = NULL
  /\ n_threads = 0
  /\ g_are_threads_running = TRUE
  /\ gp_TREE = FALSE
  /\ gp_op_proc = FALSE
  /\ handler = "none"
  /\ signals = 0
  /\ forced = FALSE

ProcessRuns == main \notin {"exited", "killed"}
-----------------------------------------------------------------------------
(***************************************************************************)
(* main, up to the main loop.  The handler is installed after the port is  *)
(* bound.                                                                  *)
(***************************************************************************)
\* Faulty: any number of threads will do.
enough_threads_or_not(n) == TRUE

enough_threads(n) == n >= 1

ParseArguments ==
  LET port == parse_port(argv[1])
      n == parse_int(argv[2])
  IN  /\ main = "parsing"
      /\ \/ /\ port < 0 \/ ~enough_threads(n)
            /\ MainMoves("exited")
            /\ UNCHANGED setupVars
         \/ /\ port >= 0 /\ enough_threads(n) /\ n <= MaxThreads
            /\ server_port' = port
            /\ n_threads' = n
            /\ MainMoves("binding")
            /\ UNCHANGED argv
      /\ UNCHANGED <<listVars, g_queue_lock, workerVars, lifeVars, signalVars,
                     g_are_threads_running>>

network_server_init ==
  /\ main = "binding"
  /\ argv' = NULL
  /\ server_port' = NULL
  /\ MainMoves("creating")
  /\ UNCHANGED <<listVars, g_queue_lock, workerVars, n_threads, lifeVars, signalVars,
                 g_are_threads_running>>

tree_skel_init ==
  \/ /\ main = "creating"
     /\ gp_TREE' = TRUE
     /\ gp_op_proc' = TRUE
     /\ MainMoves("starting")
     /\ UNCHANGED <<listVars, g_queue_lock, workerVars, setupVars, signalVars,
                    g_are_threads_running>>
  \/ /\ main = "starting"
     /\ \/ /\ \E t \in 0 .. n_threads - 1 :
                /\ pc[t] = "absent"
                /\ \A u \in 0 .. t - 1 : pc[u] # "absent"
                /\ WorkerMoves(t, "looping")
           /\ UNCHANGED adderVars
        \/ /\ \A t \in 0 .. n_threads - 1 : pc[t] # "absent"
           /\ MainMoves("polling")
           /\ UNCHANGED workerVars
     /\ UNCHANGED <<listVars, g_queue_lock, setupVars, lifeVars, signalVars,
                    g_are_threads_running>>
-----------------------------------------------------------------------------
(***************************************************************************)
(* The main loop: a message with a write arrives, or has been answered.    *)
(* "polling" is the time spent in poll.                                    *)
(***************************************************************************)
imvoke_write ==
  /\ main = "polling"
  /\ request_create
  /\ main' = "locking"
  /\ UNCHANGED <<p_request_itr, g_queue_lock, workerVars, serverVars>>

network_send ==
  /\ main = "sending"
  /\ MainMoves("polling")
  /\ UNCHANGED <<listVars, g_queue_lock, workerVars, serverVars>>
-----------------------------------------------------------------------------
(***************************************************************************)
(* process_request, in worker t.                                           *)
(***************************************************************************)
\* Faulty: the loop does not look at the flag.
TestLoopForever(t) ==
  /\ pc[t] = "looping"
  /\ WorkerMoves(t, "locking")
  /\ UNCHANGED <<listVars, g_queue_lock, adderVars, serverVars>>

TestLoop(t) ==
  /\ pc[t] = "looping"
  /\ WorkerMoves(t, IF g_are_threads_running THEN "locking" ELSE "exited")
  /\ UNCHANGED <<listVars, g_queue_lock, adderVars, serverVars>>

(***************************************************************************)
(* A step that follows the pointer to worker t's request and uses one of   *)
(* the two structures, which may have been freed as well.  The effect is   *)
(* the one the step has if the process survives.                           *)
(***************************************************************************)
Using(t, structure, effect) ==
  LET fine == p_request[t] \in allocated /\ structure
  IN  /\ p_request[t] # NULL
      /\ \/ effect /\ misused' = (misused \/ ~fine) /\ UNCHANGED adderVars
         \/ ~fine /\ Killed /\ UNCHANGED <<allocated, workerVars>>
      /\ UNCHANGED <<gp_queue_head, p_next, created, g_queue_lock, serverVars>>

MarkInProgress(t) ==
  /\ pc[t] = "marking"
  /\ \/ /\ p_request[t] = NULL
        /\ WorkerMoves(t, "exited")
        /\ UNCHANGED <<listVars, g_queue_lock, adderVars, serverVars>>
     \/ Using(t, gp_op_proc, WorkerMoves(t, "applying") /\ UNCHANGED allocated)

ApplyRequest(t) ==
  /\ pc[t] = "applying"
  /\ Using(t, gp_TREE, WorkerMoves(t, "finishing") /\ UNCHANGED allocated)

FinishRequest(t) ==
  /\ pc[t] = "finishing"
  /\ Using(t, gp_op_proc,
           /\ request_destroy(p_request[t])
           /\ p_request' = [p_request EXCEPT ![t] = NULL]
           /\ pc' = [pc EXCEPT ![t] = "looping"])

process_request(t) ==
  \/ TestLoop(t)
  \/ (queue_get_next_request(t) /\ UNCHANGED serverVars)
  \/ MarkInProgress(t)
  \/ ApplyRequest(t)
  \/ FinishRequest(t)
-----------------------------------------------------------------------------
(***************************************************************************)
(* tree_skel_request_queue_threads_destroy, as the SIGINT handler: unlock, *)
(* clear the flag, broadcast.  The mutex is unlocked whoever has locked    *)
(* it, main included.  If the signal interrupted poll, poll fails and the  *)
(* main loop ends; otherwise main goes on with what it was doing.          *)
(***************************************************************************)
ForcedUnlock == pthread_mutex_unlock /\ forced' = (forced \/ g_queue_lock)

SignalArrives ==
  /\ main \notin {"parsing", "binding", "exiting", "exited", "killed"}
  /\ handler = "none"
  /\ signals < MaxSignals
  /\ signals' = signals + 1
  /\ handler' = "unlock"
  /\ UNCHANGED <<queueVars, setupVars, lifeVars, g_are_threads_running, forced>>

HandlerUnlocks ==
  /\ handler = "unlock"
  /\ ForcedUnlock
  /\ handler' = "flag"
  /\ UNCHANGED <<listVars, adderVars, workerVars, setupVars, lifeVars, signals,
                 g_are_threads_running>>

HandlerClearsFlag ==
  /\ handler = "flag"
  /\ g_are_threads_running' = FALSE
  /\ handler' = "broadcast"
  /\ UNCHANGED <<queueVars, setupVars, lifeVars, signals, forced>>

\* Faulty: poll is started again after the signal.
HandlerRestartsPoll ==
  /\ handler = "broadcast"
  /\ pthread_cond_broadcast
  /\ handler' = "none"
  /\ UNCHANGED <<listVars, g_queue_lock, adderVars, p_request, setupVars, lifeVars, signals,
                 forced, g_are_threads_running>>

HandlerBroadcasts ==
  /\ handler = "broadcast"
  /\ pthread_cond_broadcast
  /\ handler' = "none"
  /\ MainMoves(IF main = "polling" THEN "destroying" ELSE main)
  /\ UNCHANGED <<listVars, g_queue_lock, p_request, setupVars, lifeVars, signals,
                 forced, g_are_threads_running>>

sigint_handler == HandlerUnlocks \/ HandlerClearsFlag \/ HandlerBroadcasts

(***************************************************************************)
(* The end of main: tree_skel_destroy, the function of the handler once    *)
(* more, and exit, which ends all threads.  Main frees the tree without    *)
(* locking it; if a worker is changing it, that may kill the process.      *)
(***************************************************************************)
tree_destroy ==
  /\ main = "destroying"
  /\ gp_TREE' = FALSE
  /\ \/ MainMoves("releasing") /\ UNCHANGED misused
     \/ (\E t \in Thread : pc[t] = "applying") /\ Killed
  /\ UNCHANGED <<gp_queue_head, p_next, allocated, created, g_queue_lock, workerVars,
                 setupVars, gp_op_proc, signalVars, g_are_threads_running>>

op_proc_destroy ==
  /\ main = "releasing"
  /\ gp_op_proc' = FALSE
  /\ MainMoves("stopping")
  /\ UNCHANGED <<listVars, g_queue_lock, workerVars, setupVars, gp_TREE, signalVars,
                 g_are_threads_running>>

tree_skel_destroy == tree_destroy \/ op_proc_destroy

tree_skel_request_queue_threads_destroy ==
  /\ main = "stopping"
  /\ ForcedUnlock
  /\ g_are_threads_running' = FALSE
  /\ pthread_cond_broadcast
  /\ MainMoves("exiting")
  /\ UNCHANGED <<listVars, p_request, setupVars, lifeVars, handler, signals>>

exit ==
  /\ main = "exiting"
  /\ MainMoves("exited")
  /\ UNCHANGED <<listVars, g_queue_lock, workerVars, serverVars>>

MainThread ==
  /\ handler = "none"
  /\ \/ ParseArguments
     \/ network_server_init
     \/ tree_skel_init
     \/ imvoke_write
     \/ (queue_add_request /\ UNCHANGED serverVars)
     \/ network_send
     \/ tree_skel_destroy
     \/ tree_skel_request_queue_threads_destroy
     \/ exit

Next ==
  \/ MainThread
  \/ ProcessRuns /\ (SignalArrives \/ sigint_handler)
  \/ \E t \in Thread :
       /\ ProcessRuns
       /\ \/ process_request(t)
          \/ (SpuriousWakeup(t) /\ UNCHANGED serverVars)

Spec == Init /\ [][Next]_vars

(***************************************************************************)
(* The scheduler runs every thread and a handler that has been called;     *)
(* mutexes are not fair.  Nobody has to send a message or a signal.        *)
(***************************************************************************)
Fairness ==
  /\ WF_vars(MainThread /\ main # "polling")
  /\ WF_vars(ProcessRuns /\ sigint_handler)
  /\ \A t \in Thread : WF_vars(ProcessRuns /\ process_request(t))

FairSpec == Spec /\ Fairness
-----------------------------------------------------------------------------
MainPlaces ==
  {"parsing", "binding", "creating", "starting", "polling", "locking", "testing",
   "entering", "walking", "clearing", "signalling", "unlocking", "sending",
   "destroying", "releasing", "stopping", "exiting", "exited", "killed"}

WorkerPlaces ==
  {"absent", "looping", "locking", "relocking", "testing", "waiting", "asleep",
   "taking", "moving", "unlocking", "marking", "applying", "finishing", "exited"}

(***************************************************************************)
(* The variables have values of their C types.                             *)
(***************************************************************************)
TypeOK ==
  /\ gp_queue_head \in Request \cup {NULL}
  /\ p_next \in [Request -> Request \cup {NULL}]
  /\ allocated \subseteq Request
  /\ created \in 0 .. MaxRequests
  /\ misused \in BOOLEAN
  /\ g_queue_lock \in BOOLEAN
  /\ main \in MainPlaces
  /\ p_new \in Request \cup {NULL}
  /\ p_request_itr \in Request \cup {NULL}
  /\ pc \in [Thread -> WorkerPlaces]
  /\ p_request \in [Thread -> Request \cup {NULL}]
  /\ n_threads \in 0 .. MaxThreads
  /\ g_are_threads_running \in BOOLEAN
  /\ gp_TREE \in BOOLEAN
  /\ gp_op_proc \in BOOLEAN
  /\ handler \in {"none", "unlock", "flag", "broadcast"}
  /\ signals \in 0 .. MaxSignals
  /\ forced \in BOOLEAN

(***************************************************************************)
(* At most one thread is between locking and unlocking g_queue_lock in     *)
(* queue_add_request or queue_get_next_request, and the mutex is locked    *)
(* exactly then, until a SIGINT makes the main thread unlock a mutex that  *)
(* is in use.                                                              *)
(***************************************************************************)
MutualExclusion ==
  ~forced =>
    /\ \A t, u \in Thread : Inside(t) /\ Inside(u) => t = u
    /\ \A t \in Thread : ~(Inside(t) /\ MainInside)
    /\ g_queue_lock <=> (MainInside \/ \E t \in Thread : Inside(t))

(***************************************************************************)
(* Until a SIGINT arrives, no wakeup is lost: while there is a request in  *)
(* the list, of which queue_add_request has told the workers, one of the   *)
(* workers that have been started is awake.                                *)
(***************************************************************************)
NoLostWakeup ==
  signals = 0 /\ gp_queue_head # NULL /\ main \notin {"clearing", "signalling"} =>
    \E t \in Thread : pc[t] \notin {"absent", "asleep", "exited"}

(***************************************************************************)
(* No null or freed pointer is followed by the list operations, by         *)
(* process_request or by main, unless a mutex in use has been unlocked     *)
(* after a SIGINT, or main has begun to free the tree.                     *)
(***************************************************************************)
NoMemoryError == misused => forced \/ ~gp_TREE

(***************************************************************************)
(* The server binds the port that was typed, and no reserved one; the text *)
(* must not be below the smallest short, as parse_port does not refuse     *)
(* that.                                                                   *)
(***************************************************************************)
PortAsTyped ==
  main = "binding" /\ argv[1].number >= -SHRT_MAX - 1 =>
    server_port = argv[1].number /\ server_port \notin Reserved

(***************************************************************************)
(* The linked list is a queue, as tree_skel-private.h says, a SIGINT or    *)
(* not, until a mutex in use is unlocked or freed memory is used.          *)
(***************************************************************************)
Fifo == INSTANCE FifoQueue
  WITH line <- Line, held <- [t \in Thread |-> HeldBy(t)],
       open <- ~forced /\ ~misused,
       Requests <- Request, Workers <- Thread

ImplementsFifo == Fifo!Spec

(***************************************************************************)
(* A request in the list is taken out of it by some worker in the end,     *)
(* unless a SIGINT arrives.                                                *)
(***************************************************************************)
EventuallyTaken ==
  \A r \in Request : (signals = 0 /\ r \in InLine) ~> (signals > 0 \/ r \notin InLine)

(***************************************************************************)
(* After SIGINT every worker that is busy with a request, or on its way to *)
(* look for one, ends: it tests the flag before it waits again.            *)
(***************************************************************************)
BusyWorkersExit ==
  \A t \in Thread :
    (~g_are_threads_running /\ pc[t] \in {"looping", "marking", "applying", "finishing"})
      ~> (pc[t] = "exited" \/ ~ProcessRuns)

(***************************************************************************)
(* A SIGINT that interrupts poll ends the process, even when the handler   *)
(* has unlocked a mutex that a worker holds, the list is no list any more  *)
(* and the workers go on in freed memory: main waits for nobody on its way *)
(* to exit.                                                                *)
(***************************************************************************)
SignalInPollEnds == (handler = "unlock" /\ main = "polling") ~> ~ProcessRuns

(***************************************************************************)
(* "SIGINT received. Terminating and cleaning server...", as the handler   *)
(* says: after a SIGINT the process ends.                                  *)
(***************************************************************************)
SignalEnds == signals > 0 ~> ~ProcessRuns
=============================================================================
