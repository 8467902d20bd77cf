------------------------------ MODULE TreeSkel ------------------------------
(***************************************************************************)
(* source/tree_skel.c: the skeleton of the server.  The main thread starts *)
(* the workers (tree_skel_init) and then runs imvoke on one message after  *)
(* another; it answers reads itself and puts writes in a queue, telling    *)
(* the client the operation number.  Every worker runs process_request: it *)
(* takes the next request, applies it to the tree and records in the       *)
(* struct op_proc how far it got, which is what OP_VERIFY looks at.        *)
(*                                                                         *)
(* An action is one critical section (of g_queue_lock, g_tree_lock or      *)
(* g_op_proc_lock) or one access to an unlocked shared variable, with the  *)
(* local computation that follows it.  Waiting on the condition variable   *)
(* of the queue is a guard.  malloc and pthread_create succeed.            *)
(*                                                                         *)
(* This is the skeleton until a SIGINT arrives: the flag                   *)
(* g_are_threads_running is set, so the workers' loop has no other test,   *)
(* and nobody unlocks a mutex that is not his, so a critical section of    *)
(* the queue is one step.  What the handler of SIGINT does to the queue    *)
(* and to the workers is in TreeServer.                                    *)
(***************************************************************************)
EXTENDS Tree, Message, Request

CONSTANTS
  NThreads,      \* the n_threads argument of the server
  Keys, Values,  \* what clients put
  AskedNumbers,  \* the operation numbers clients ask about
  MaxAssignment  \* bound on g_last_assignment (in the code, INT_MAX)

ASSUME SkelAssumption ==
  /\ NThreads \in Nat \ {0}
  /\ Keys \subseteq Int
  /\ AskedNumbers \subseteq Nat     \* rtree_verify refuses negative numbers
  /\ MaxAssignment \in Nat

\* A null pointer is neither a number nor a message.
ASSUME NullAssumption ==
  /\ NULL \notin Int
  /\ NULL \notin [opcode : Int, c_type : Int, result : Int,
                 body : {NULL} \cup Values \cup Seq(Keys) \cup Seq(Values)]

Thread == 0 .. NThreads - 1

VARIABLES
  gp_TREE,                \* the tree
  gp_queue_head,          \* the linked list of requests, oldest first
  g_last_assignment,      \* the next operation number
  max_proc, in_progress,  \* the two members of gp_op_proc
  main,                   \* where the main thread is
  init_i,                 \* the loop variable of tree_skel_init
  p_msg,                  \* the message in the main thread's hands, or NULL
  pc,                     \* where each worker is
  thread_id,              \* each worker's idea of its index
  p_request               \* the request in each worker's hands, or NULL

opProcVars == <<max_proc, in_progress>>
mainVars == <<main, init_i, p_msg, g_last_assignment>>
threadVars == <<pc, thread_id, p_request>>
vars == <<gp_TREE, gp_queue_head, opProcVars, mainVars, threadVars>>

Init ==
  /\ gp_TREE = tree_create
  /\ gp_queue_head = <<>>
  /\ g_last_assignment = 1
  /\ max_proc = 0
  /\ in_progress = [s \in Thread |-> 0]
  /\ main = "init"
  /\ init_i = 0
  /\ p_msg = NULL
  /\ pc = [t \in Thread |-> "absent"]
  /\ thread_id = [t \in Thread |-> NThreads]
  /\ p_request = [t \in Thread |-> NULL]
-----------------------------------------------------------------------------
(***************************************************************************)
(* tree_skel_init.  Every worker is handed the address of the loop         *)
(* variable, not its value, and may read it at any later time.             *)
(***************************************************************************)
CreateThread ==
  /\ main = "init"
  /\ init_i < NThreads
  /\ pc[init_i] = "absent"
  /\ pc' = [pc EXCEPT ![init_i] = "created"]
  /\ UNCHANGED <<gp_TREE, gp_queue_head, opProcVars, mainVars, thread_id,
                 p_request>>

IncrementLoopVariable ==
  /\ main = "init"
  /\ init_i < NThreads
  /\ pc[init_i] # "absent"
  /\ init_i' = init_i + 1
  /\ UNCHANGED <<gp_TREE, gp_queue_head, opProcVars, main, p_msg,
                 g_last_assignment, threadVars>>

InitReturns ==
  /\ main = "init"
  /\ init_i = NThreads
  /\ main' = "poll"
  /\ UNCHANGED <<gp_TREE, gp_queue_head, opProcVars, init_i, p_msg,
                 g_last_assignment, threadVars>>
-----------------------------------------------------------------------------
(***************************************************************************)
(* imvoke, for the two writes: the request is created with the next number *)
(* and appended to the queue; only then is the number written into the     *)
(* answer and the counter incremented.                                     *)
(***************************************************************************)
\* Faulty: the new request becomes the head of the list.
queue_add_request_first(request) == gp_queue_head' = <<request>> \o gp_queue_head

queue_add_request(request) == gp_queue_head' = Append(gp_queue_head, request)

imvoke_write(opcode, op, key, data) ==
  /\ main = "poll"
  /\ g_last_assignment < MaxAssignment
  /\ queue_add_request(request_create(g_last_assignment, op, key, data))
  /\ p_msg' = Message(opcode, CT_NONE, 0, NULL)
  /\ main' = "assign"
  /\ UNCHANGED <<gp_TREE, opProcVars, init_i, g_last_assignment, threadVars>>

imvoke_put(k, v) == imvoke_write(OP_PUT, REQUEST_PUT, k, v)

imvoke_del(k) == imvoke_write(OP_DEL, REQUEST_DEL, k, NULL)

\* Faulty: the counter is incremented before it is written into the answer.
AssignNumberAfterIncrement ==
  /\ main = "assign"
  /\ p_msg' = Message(p_msg.opcode + 1, CT_RESULT, g_last_assignment + 1, NULL)
  /\ g_last_assignment' = g_last_assignment + 1
  /\ main' = "send"
  /\ UNCHANGED <<gp_TREE, gp_queue_head, opProcVars, init_i, threadVars>>

AssignNumber ==
  /\ main = "assign"
  /\ p_msg' = Message(p_msg.opcode + 1, CT_RESULT, g_last_assignment, NULL)
  /\ g_last_assignment' = g_last_assignment + 1
  /\ main' = "send"
  /\ UNCHANGED <<gp_TREE, gp_queue_head, opProcVars, init_i, threadVars>>

(***************************************************************************)
(* imvoke, for the operations it completes at once.  The reads hold        *)
(* g_tree_lock; OP_GETKEYS and OP_GETVALUES take the size and the array    *)
(* under one lock and copy size elements of the array.                     *)
(***************************************************************************)
Answer(message) ==
  /\ main = "poll"
  /\ p_msg' = message
  /\ main' = "send"
  /\ UNCHANGED <<gp_TREE, gp_queue_head, opProcVars, init_i, threadVars>>

AnswerRead(message) == Answer(message) /\ UNCHANGED g_last_assignment

imvoke_size == AnswerRead(Message(OP_SIZE + 1, CT_RESULT, tree_size(gp_TREE), NULL))

imvoke_height ==
  AnswerRead(Message(OP_HEIGHT + 1, CT_RESULT, tree_height(gp_TREE), NULL))

imvoke_get(k) == AnswerRead(Message(OP_GET + 1, CT_VALUE, 0, tree_get(gp_TREE, k)))

imvoke_getkeys ==
  LET keys == tree_get_keys(gp_TREE)
  IN  AnswerRead(Message(OP_GETKEYS + 1, CT_KEYS, 0,
                         [j \in 1 .. tree_size(gp_TREE) |-> keys[j]]))

imvoke_getvalues ==
  LET values == tree_get_values(gp_TREE)
  IN  AnswerRead(Message(OP_GETVALUES + 1, CT_VALUES, 0,
                         [j \in 1 .. tree_size(gp_TREE) |-> values[j]]))

(***************************************************************************)
(* The loop over in_progress has no effect on the result: its break leaves *)
(* the loop only.                                                          *)
(***************************************************************************)
verify(op_n) == IF op_n <= max_proc THEN 0 ELSE -1

imvoke_verify(op_n) ==
  \/ /\ op_n < 1 \/ op_n >= g_last_assignment
     /\ AnswerRead(Message(OP_ERROR, CT_NONE, op_n, NULL))
  \/ /\ op_n >= 1 /\ op_n < g_last_assignment
     /\ g_last_assignment < MaxAssignment
     /\ Answer(Message(OP_VERIFY + 1, CT_RESULT, verify(op_n), NULL))
     /\ g_last_assignment' = g_last_assignment + 1

(***************************************************************************)
(* network_main_loop sends what imvoke left in the message and frees it.   *)
(***************************************************************************)
SendAnswer ==
  /\ main = "send"
  /\ p_msg' = NULL
  /\ main' = "poll"
  /\ UNCHANGED <<gp_TREE, gp_queue_head, opProcVars, init_i,
                 g_last_assignment, threadVars>>
-----------------------------------------------------------------------------
(***************************************************************************)
(* process_request.  The index is read through the pointer to init_i.      *)
(* While tree_skel_init runs this yields the value init_i has at the time; *)
(* afterwards the stack slot is reused and may hold anything.  NThreads    *)
(* stands for every value that op_proc_set_in_progress rejects.            *)
(***************************************************************************)
StartThread(t) ==
  /\ pc[t] = "created"
  /\ \E id \in IF main = "init" THEN {init_i} ELSE 0 .. NThreads :
       thread_id' = [thread_id EXCEPT ![t] = id]
  /\ pc' = [pc EXCEPT ![t] = "waiting"]
  /\ UNCHANGED <<gp_TREE, gp_queue_head, opProcVars, mainVars, p_request>>

\* Faulty: the request at the other end of the list is taken.
queue_get_newest_request(t) ==
  /\ pc[t] = "waiting"
  /\ gp_queue_head # <<>>
  /\ p_request' = [p_request EXCEPT ![t] = Last(gp_queue_head)]
  /\ gp_queue_head' = Front(gp_queue_head)
  /\ pc' = [pc EXCEPT ![t] = "dequeued"]
  /\ UNCHANGED <<gp_TREE, opProcVars, mainVars, thread_id>>

queue_get_next_request(t) ==
  /\ pc[t] = "waiting"
  /\ gp_queue_head # <<>>
  /\ p_request' = [p_request EXCEPT ![t] = Head(gp_queue_head)]
  /\ gp_queue_head' = Tail(gp_queue_head)
  /\ pc' = [pc EXCEPT ![t] = "dequeued"]
  /\ UNCHANGED <<gp_TREE, opProcVars, mainVars, thread_id>>

op_proc_set_in_progress(index, op_n) ==
  in_progress' = IF index \in Thread
                 THEN [in_progress EXCEPT ![index] = op_n]
                 ELSE in_progress

MarkInProgress(t) ==
  /\ pc[t] = "dequeued"
  /\ op_proc_set_in_progress(thread_id[t], p_request[t].op_n)
  /\ pc' = [pc EXCEPT ![t] = "marked"]
  /\ UNCHANGED <<gp_TREE, gp_queue_head, max_proc, mainVars, thread_id,
                 p_request>>

ApplyRequest(t) ==
  /\ pc[t] = "marked"
  /\ gp_TREE' = IF p_request[t].op = REQUEST_PUT
                THEN tree_put(gp_TREE, p_request[t].p_key, p_request[t].p_data)
                ELSE tree_del(gp_TREE, p_request[t].p_key)
  /\ pc' = [pc EXCEPT ![t] = "applied"]
  /\ UNCHANGED <<gp_queue_head, opProcVars, mainVars, thread_id, p_request>>

\* Faulty: the slot in in_progress is not reset.
ClearNothing(t) ==
  /\ pc[t] = "applied"
  /\ pc' = [pc EXCEPT ![t] = "cleared"]
  /\ UNCHANGED <<gp_TREE, gp_queue_head, opProcVars, mainVars, thread_id,
                 p_request>>

ClearInProgress(t) ==
  /\ pc[t] = "applied"
  /\ op_proc_set_in_progress(thread_id[t], 0)
  /\ pc' = [pc EXCEPT ![t] = "cleared"]
  /\ UNCHANGED <<gp_TREE, gp_queue_head, max_proc, mainVars, thread_id,
                 p_request>>

\* Faulty: off by one in the comparison.
CompareMaxProcStrictly(t) ==
  /\ pc[t] = "cleared"
  /\ \/ /\ p_request[t].op_n > max_proc + 1
        /\ pc' = [pc EXCEPT ![t] = "raising"]
        /\ UNCHANGED p_request
     \/ /\ p_request[t].op_n <= max_proc + 1
        /\ pc' = [pc EXCEPT ![t] = "waiting"]
        /\ p_request' = [p_request EXCEPT ![t] = NULL]
  /\ UNCHANGED <<gp_TREE, gp_queue_head, opProcVars, mainVars, thread_id>>

(***************************************************************************)
(* The comparison with max_proc and its update are two critical sections.  *)
(***************************************************************************)
CompareMaxProc(t) ==
  /\ pc[t] = "cleared"
  /\ \/ /\ p_request[t].op_n > max_proc
        /\ pc' = [pc EXCEPT ![t] = "raising"]
        /\ UNCHANGED p_request
     \/ /\ p_request[t].op_n <= max_proc
        /\ pc' = [pc EXCEPT ![t] = "waiting"]
        /\ p_request' = [p_request EXCEPT ![t] = NULL]
  /\ UNCHANGED <<gp_TREE, gp_queue_head, opProcVars, mainVars, thread_id>>

\* Faulty: the request is kept after it has been processed.
op_proc_set_max_proc_keeping(t) ==
  /\ pc[t] = "raising"
  /\ max_proc' = p_request[t].op_n
  /\ pc' = [pc EXCEPT ![t] = "waiting"]
  /\ UNCHANGED <<gp_TREE, gp_queue_head, in_progress, mainVars, thread_id,
                 p_request>>

op_proc_set_max_proc(t) ==
  /\ pc[t] = "raising"
  /\ max_proc' = p_request[t].op_n
  /\ pc' = [pc EXCEPT ![t] = "waiting"]
  /\ p_request' = [p_request EXCEPT ![t] = NULL]
  /\ UNCHANGED <<gp_TREE, gp_queue_head, in_progress, mainVars, thread_id>>
-----------------------------------------------------------------------------
ServeMessage ==
  \/ \E k \in Keys, v \in Values : imvoke_put(k, v)
  \/ \E k \in Keys : imvoke_del(k) \/ imvoke_get(k)
  \/ imvoke_size
  \/ imvoke_height
  \/ imvoke_getkeys
  \/ imvoke_getvalues
  \/ \E n \in AskedNumbers : imvoke_verify(n)
  \/ AssignNumber
  \/ SendAnswer

tree_skel_init == CreateThread \/ IncrementLoopVariable \/ InitReturns

process_request(t) ==
  \/ StartThread(t)
  \/ queue_get_next_request(t)
  \/ MarkInProgress(t)
  \/ ApplyRequest(t)
  \/ ClearInProgress(t)
  \/ CompareMaxProc(t)
  \/ op_proc_set_max_proc(t)

Next == tree_skel_init \/ ServeMessage \/ \E t \in Thread : process_request(t)

Spec == Init /\ [][Next]_vars

(***************************************************************************)
(* The operating system schedules every thread: each step of a worker that *)
(* stays possible is taken, and so is each step of tree_skel_init and of a *)
(* write that has been queued.  Clients need not send anything.            *)
(***************************************************************************)
Scheduling ==
  /\ WF_vars(tree_skel_init)
  /\ WF_vars(AssignNumber)
  /\ \A t \in Thread : WF_vars(process_request(t))

FairSpec == Spec /\ Scheduling

-----------------------------------------------------------------------------
Requests ==
  [op_n : 1 .. MaxAssignment, op : {REQUEST_PUT}, p_key : Keys, p_data : Values]
  \cup
  [op_n : 1 .. MaxAssignment, op : {REQUEST_DEL}, p_key : Keys, p_data : {NULL}]

(***************************************************************************)
(* The workers that have taken a request and not yet destroyed it.         *)
(***************************************************************************)
Working ==
  {t \in Thread : pc[t] \in {"dequeued", "marked", "applied", "cleared", "raising"}}

(***************************************************************************)
(* Types of the members of op_proc, the queue and the control state.  The  *)
(* tree is the subject of TreeCalls.                                       *)
(***************************************************************************)
TypeOK ==
  /\ gp_queue_head \in Seq(Requests)
  /\ g_last_assignment \in Nat \ {0}
  /\ max_proc \in Nat
  /\ in_progress \in [Thread -> Nat]
  /\ main \in {"init", "poll", "assign", "send"}
  /\ init_i \in 0 .. NThreads
  /\ pc \in [Thread -> {"absent", "created", "waiting", "dequeued",
                        "marked", "applied", "cleared", "raising"}]
  /\ thread_id \in [Thread -> 0 .. NThreads]
  /\ p_request \in [Thread -> Requests \cup {NULL}]
  /\ \A t \in Thread : IF t \in Working THEN p_request[t] \in Requests
                                        ELSE p_request[t] = NULL
-----------------------------------------------------------------------------
(***************************************************************************)
(* The accepted writes that the tree does not show yet.                    *)
(***************************************************************************)
Holding == {t \in Thread : pc[t] \in {"dequeued", "marked"}}

Pending ==
  {gp_queue_head[j] : j \in DOMAIN gp_queue_head} \cup {p_request[t] : t \in Holding}

(***************************************************************************)
(* Requests stay in the order of their numbers: the queue is sorted, what  *)
(* the workers hold is older than what is queued, no request is held       *)
(* twice, and no number in use is one that imvoke will give out again.     *)
(***************************************************************************)
NextNumber == IF main = "assign" THEN g_last_assignment + 1 ELSE g_last_assignment

NumbersInOrder ==
  /\ \A i, j \in DOMAIN gp_queue_head :
       i < j => gp_queue_head[i].op_n < gp_queue_head[j].op_n
  /\ \A t \in Holding : \A j \in DOMAIN gp_queue_head :
       p_request[t].op_n < gp_queue_head[j].op_n
  /\ \A t, u \in Holding : t # u => p_request[t].op_n # p_request[u].op_n
  /\ \A r \in Pending : r.op_n < NextNumber

(***************************************************************************)
(* OP_VERIFY compares with max_proc.  Writes up to max_proc may still be   *)
(* missing from the tree, but never as many as there are workers; with one *)
(* worker, "done" means done.                                              *)
(***************************************************************************)
DoneWindow == Cardinality({r \in Pending : r.op_n <= max_proc}) < NThreads

(***************************************************************************)
(* Whatever number is listed in in_progress, a worker is executing that    *)
(* very request and will clear that slot, even when several workers share  *)
(* a slot because they read the same index.                                *)
(***************************************************************************)
InProgressIsHeld ==
  \A s \in Thread : in_progress[s] # 0 =>
    \E t \in Thread : /\ thread_id[t] = s
                      /\ pc[t] \in {"marked", "applied"}
                      /\ p_request[t].op_n = in_progress[s]

(***************************************************************************)
(* The skeleton keeps the promises of WriteService: clients see every      *)
(* accepted write applied exactly once, reads and refusals answered from   *)
(* the tree as a map, and no write overtaken by more than the other        *)
(* workers can hold.                                                       *)
(***************************************************************************)
WS == INSTANCE WriteService WITH
        next <- NextNumber,
        pending <- Pending,
        store <- StoreOf(gp_TREE),
        owed <- IF main = "assign" THEN p_msg.opcode ELSE NULL,
        answer <- IF main = "send" THEN p_msg ELSE NULL,
        Window <- NThreads

ImplementsWriteService == WS!Spec

PendingNumber(n) == \E r \in Pending : r.op_n = n

(***************************************************************************)
(* Every accepted write is in the end, and from then on, reported as done  *)
(* by OP_VERIFY (include/tree_skel.h:28), as long as no SIGINT comes.      *)
(* It holds for one worker; the gap between CompareMaxProc and             *)
(* op_proc_set_max_proc breaks it for two.                                 *)
(***************************************************************************)
EventuallyVerifiable ==
  \A n \in 1 .. MaxAssignment :
    PendingNumber(n) ~> [](verify(n) = 0)

(***************************************************************************)
(* OP_VERIFY reports no pending write as done (source/tree_client.c:24).   *)
(***************************************************************************)
VerifySound == \A r \in Pending : verify(r.op_n) = -1
=============================================================================
