---------------------------- MODULE RequestQueue ----------------------------
(***************************************************************************)
(* The queue of source/tree_skel.c as the linked list it is, with its      *)
(* mutex and condition variable: queue_add_request in the main thread and  *)
(* queue_get_next_request in the workers, one statement after another (a   *)
(* null test goes with the statement it guards).  A request is named by    *)
(* its operation number.                                                   *)
(*                                                                         *)
(* The mutex is a bit, as an unlock by a thread that does not hold it      *)
(* clears it all the same.  Following a null pointer kills the process.    *)
(* Following a pointer to freed memory may kill it; otherwise it goes on,  *)
(* and what it reads, writes or frees there may by now be part of another  *)
(* request.  The variable misused only records that such a pointer has     *)
(* been followed.                                                          *)
(***************************************************************************)
EXTENDS Integers, Sequences, FiniteSets

CONSTANTS
  NULL,
  MaxThreads,   \* bound on n_threads
  MaxRequests   \* bound on the number of writes

ASSUME QueueAssumption ==
  /\ MaxThreads \in Nat \ {0}
  /\ MaxRequests \in Nat
  /\ NULL \notin Int

Thread == 0 .. MaxThreads - 1
Request == 1 .. MaxRequests

VARIABLES
  gp_queue_head, p_next,  \* the list
  allocated,              \* the requests that exist in memory
  created,                \* how many have been created
  misused,                \* whether a null or freed pointer has been followed
  g_queue_lock,           \* whether the mutex is locked
  main,                   \* where the main thread is
  p_new, p_request_itr,   \* its two pointers in queue_add_request
  pc,                     \* where each worker is
  p_request               \* each worker's pointer to its request

listVars == <<gp_queue_head, p_next, allocated, created, misused>>
adderVars == <<main, p_new, p_request_itr>>
workerVars == <<pc, p_request>>
queueVars == <<listVars, g_queue_lock, adderVars, workerVars>>

QueueInit(start) ==
  /\ gp_queue_head = NULL
  /\ p_next = [r \in Request |-> NULL]
  /\ allocated = {}
  /\ created = 0
  /\ misused = FALSE
  /\ g_queue_lock = FALSE
  /\ main = start
  /\ p_new = NULL
  /\ p_request_itr = NULL
  /\ pc = [t \in Thread |-> "absent"]
  /\ p_request = [t \in Thread |-> NULL]

WorkerMoves(t, place) ==
  pc' = [pc EXCEPT ![t] = place] /\ UNCHANGED p_request

MainMoves(place) == main' = place /\ UNCHANGED <<p_new, p_request_itr>>

(***************************************************************************)
(* Following the pointer p: what its p_next may be, which requests may own *)
(* the memory, and the end of the process.                                 *)
(***************************************************************************)
NextOf(p) == IF p \in allocated THEN {p_next[p]} ELSE Request \cup {NULL}

Owners(p) == IF p \in allocated THEN {p} ELSE Request

Follow(p) == p # NULL /\ misused' = (misused \/ p \notin allocated)

Killed == MainMoves("killed") /\ misused' = TRUE

KilledBy(p) == p \notin allocated /\ Killed
-----------------------------------------------------------------------------
request_create ==
  /\ created < MaxRequests
  /\ created' = created + 1
  /\ allocated' = allocated \cup {created + 1}
  /\ p_next' = [p_next EXCEPT ![created + 1] = NULL]
  /\ p_new' = created + 1
  /\ UNCHANGED <<gp_queue_head, misused>>

request_destroy(p) == \E q \in Owners(p) : allocated' = allocated \ {q}

pthread_mutex_lock == ~g_queue_lock /\ g_queue_lock' = TRUE

pthread_mutex_unlock == g_queue_lock' = FALSE

(***************************************************************************)
(* pthread_cond_signal wakes one sleeping worker, if there is one; the     *)
(* broadcast wakes them all.  A woken worker has to lock the mutex again.  *)
(***************************************************************************)
Asleep == {t \in Thread : pc[t] = "asleep"}

pthread_cond_signal ==
  \/ Asleep = {} /\ UNCHANGED pc
  \/ \E t \in Asleep : pc' = [pc EXCEPT ![t] = "relocking"]

pthread_cond_broadcast ==
  pc' = [t \in Thread |-> IF t \in Asleep THEN "relocking" ELSE pc[t]]
-----------------------------------------------------------------------------
(***************************************************************************)
(* queue_add_request, in the main thread: lock; find the end of the list   *)
(* and hang the new request there; signal; unlock.                         *)
(***************************************************************************)
\* Faulty: the list is entered without locking.
AddLocksNothing ==
  /\ main = "locking"
  /\ MainMoves("testing")
  /\ UNCHANGED <<g_queue_lock, listVars, workerVars>>

AddLocks ==
  /\ main = "locking"
  /\ pthread_mutex_lock
  /\ MainMoves("testing")
  /\ UNCHANGED <<listVars, workerVars>>

AddTestsHead ==
  /\ main = "testing"
  /\ \/ /\ gp_queue_head = NULL
        /\ gp_queue_head' = p_new
        /\ MainMoves("clearing")
     \/ /\ gp_queue_head # NULL
        /\ MainMoves("entering")
        /\ UNCHANGED gp_queue_head
  /\ UNCHANGED <<p_next, allocated, created, misused, g_queue_lock, workerVars>>

AddEnters ==
  /\ main = "entering"
  /\ main' = "walking"
  /\ p_request_itr' = gp_queue_head
  /\ UNCHANGED <<p_new, listVars, g_queue_lock, workerVars>>

\* Faulty: the request is hung where the walk starts.
AddWalksNowhere ==
  /\ main = "walking"
  /\ p_next' = [p_next EXCEPT ![p_request_itr] = p_new]
  /\ MainMoves("clearing")
  /\ UNCHANGED <<gp_queue_head, allocated, created, misused, g_queue_lock, workerVars>>

AddWalks ==
  /\ main = "walking"
  /\ \/ KilledBy(p_request_itr) /\ UNCHANGED p_next
     \/ /\ Follow(p_request_itr)
        /\ \E next \in NextOf(p_request_itr) :
             \/ /\ next # NULL
                /\ p_request_itr' = next
                /\ UNCHANGED <<main, p_new, p_next>>
             \/ /\ next = NULL
                /\ \E q \in Owners(p_request_itr) :
                     p_next' = [p_next EXCEPT ![q] = p_new]
                /\ MainMoves("clearing")
  /\ UNCHANGED <<gp_queue_head, allocated, created, g_queue_lock, workerVars>>

AddClearsNext ==
  /\ main = "clearing"
  /\ \/ KilledBy(p_new) /\ UNCHANGED p_next
     \/ /\ Follow(p_new)
        /\ \E q \in Owners(p_new) : p_next' = [p_next EXCEPT ![q] = NULL]
        /\ MainMoves("signalling")
  /\ UNCHANGED <<gp_queue_head, allocated, created, g_queue_lock, workerVars>>

\* Faulty: nobody is woken.
AddSignalsNobody ==
  /\ main = "signalling"
  /\ MainMoves("unlocking")
  /\ UNCHANGED <<listVars, g_queue_lock, workerVars>>

AddSignals ==
  /\ main = "signalling"
  /\ pthread_cond_signal
  /\ MainMoves("unlocking")
  /\ UNCHANGED <<listVars, g_queue_lock, p_request>>

AddUnlocks ==
  /\ main = "unlocking"
  /\ pthread_mutex_unlock
  /\ main' = "sending"
  /\ p_new' = NULL
  /\ p_request_itr' = NULL
  /\ UNCHANGED <<listVars, workerVars>>

queue_add_request ==
  \/ AddLocks
  \/ AddTestsHead
  \/ AddEnters
  \/ AddWalks
  \/ AddClearsNext
  \/ AddSignals
  \/ AddUnlocks
-----------------------------------------------------------------------------
(***************************************************************************)
(* queue_get_next_request, in worker t.  pthread_cond_wait unlocks and     *)
(* falls asleep in one step; it may also return without a signal.          *)
(***************************************************************************)
GetLocks(t) ==
  /\ pc[t] \in {"locking", "relocking"}
  /\ pthread_mutex_lock
  /\ WorkerMoves(t, "testing")
  /\ UNCHANGED <<listVars, adderVars>>

GetTestsHead(t) ==
  /\ pc[t] = "testing"
  /\ WorkerMoves(t, IF gp_queue_head = NULL THEN "waiting" ELSE "taking")
  /\ UNCHANGED <<listVars, g_queue_lock, adderVars>>

\* Faulty: the mutex is unlocked, and the worker falls asleep later.
GetUnlocksThenWaits(t) ==
  /\ pc[t] = "waiting"
  /\ \/ g_queue_lock /\ pthread_mutex_unlock /\ UNCHANGED pc
     \/ ~g_queue_lock /\ pc' = [pc EXCEPT ![t] = "asleep"] /\ UNCHANGED g_queue_lock
  /\ UNCHANGED <<p_request, listVars, adderVars>>

GetWaits(t) ==
  /\ pc[t] = "waiting"
  /\ pthread_mutex_unlock
  /\ WorkerMoves(t, "asleep")
  /\ UNCHANGED <<listVars, adderVars>>

SpuriousWakeup(t) ==
  /\ pc[t] = "asleep"
  /\ WorkerMoves(t, "relocking")
  /\ UNCHANGED <<listVars, g_queue_lock, adderVars>>

GetTakesHead(t) ==
  /\ pc[t] = "taking"
  /\ p_request' = [p_request EXCEPT ![t] = gp_queue_head]
  /\ pc' = [pc EXCEPT ![t] = "moving"]
  /\ UNCHANGED <<listVars, g_queue_lock, adderVars>>

GetMovesHead(t) ==
  /\ pc[t] = "moving"
  /\ \/ KilledBy(gp_queue_head) /\ UNCHANGED <<gp_queue_head, pc>>
     \/ /\ Follow(gp_queue_head)
        /\ gp_queue_head' \in NextOf(gp_queue_head)
        /\ pc' = [pc EXCEPT ![t] = "unlocking"]
        /\ UNCHANGED adderVars
  /\ UNCHANGED <<p_next, allocated, created, g_queue_lock, p_request>>

GetUnlocks(t) ==
  /\ pc[t] = "unlocking"
  /\ pthread_mutex_unlock
  /\ WorkerMoves(t, "marking")
  /\ UNCHANGED <<listVars, adderVars>>

queue_get_next_request(t) ==
  \/ GetLocks(t)
  \/ GetTestsHead(t)
  \/ GetWaits(t)
  \/ GetTakesHead(t)
  \/ GetMovesHead(t)
  \/ GetUnlocks(t)
-----------------------------------------------------------------------------
(***************************************************************************)
(* The list from the head on, as a sequence.  When it has become circular, *)
(* there is none.                                                          *)
(***************************************************************************)
Lines == UNION {[1 .. n -> Request] : n \in 0 .. MaxRequests}

IsLine(s, head, next) ==
  IF head = NULL THEN s = <<>>
  ELSE /\ s # <<>>
       /\ s[1] = head
       /\ \A j \in 1 .. Len(s) - 1 : s[j + 1] = next[s[j]]
       /\ next[s[Len(s)]] = NULL

Line ==
  LET lines == {s \in Lines : IsLine(s, gp_queue_head, p_next)}
  IN  IF lines = {} THEN <<>> ELSE CHOOSE s \in lines : TRUE

InLine == LET line == Line IN {line[j] : j \in DOMAIN line}

(***************************************************************************)
(* The requests that are out of the list and in a worker's hands.  Between *)
(* GetTakesHead and GetMovesHead a request is still in the list.           *)
(***************************************************************************)
HeldBy(t) == IF pc[t] = "moving" THEN NULL ELSE p_request[t]

(***************************************************************************)
(* Between locking and unlocking.                                          *)
(***************************************************************************)
MainInside ==
  main \in {"testing", "entering", "walking", "clearing", "signalling", "unlocking"}

Inside(t) == pc[t] \in {"testing", "waiting", "taking", "moving", "unlocking"}
=============================================================================
