--------------------------- MODULE TreeSkelProofs ---------------------------
(***************************************************************************)
(* What TreeSkel guarantees for any number of workers, any keys and values *)
(* and any bound on the operation numbers, as long as no SIGINT arrives.   *)
(***************************************************************************)
EXTENDS TreeSkelHistory, TreeProofs

(***************************************************************************)
(* TypeOK is inductive.                                                    *)
(***************************************************************************)
LEMMA TypeInit == Init => TypeOK
  BY SkelAssumption DEF Init, TypeOK, Thread, Working, Requests

LEMMA TypeStep == TypeOK /\ [Next]_vars => TypeOK'
<1> SUFFICES ASSUME TypeOK, [Next]_vars
             PROVE  TypeOK'
  OBVIOUS
<1> USE SkelAssumption DEF TypeOK
<1>1. CASE CreateThread
  BY <1>1 DEF CreateThread, Thread, Working, opProcVars, mainVars
<1>2. CASE IncrementLoopVariable
  BY <1>2 DEF IncrementLoopVariable, Working, opProcVars, threadVars
<1>3. CASE InitReturns
  BY <1>3 DEF InitReturns, Working, opProcVars, threadVars
<1>4. ASSUME NEW k \in Keys, NEW v \in Values, imvoke_put(k, v)
      PROVE  TypeOK'
  <2>1. request_create(g_last_assignment, REQUEST_PUT, k, v) \in Requests
    BY <1>4 DEF imvoke_put, imvoke_write, request_create, Requests
  <2> QED
    BY <1>4, <2>1 DEF imvoke_put, imvoke_write, queue_add_request, Working,
                      opProcVars, threadVars
<1>5. ASSUME NEW k \in Keys, imvoke_del(k)
      PROVE  TypeOK'
  <2>1. request_create(g_last_assignment, REQUEST_DEL, k, NULL) \in Requests
    BY <1>5 DEF imvoke_del, imvoke_write, request_create, Requests
  <2> QED
    BY <1>5, <2>1 DEF imvoke_del, imvoke_write, queue_add_request, Working,
                      opProcVars, threadVars
<1>6. CASE \/ imvoke_size \/ imvoke_height \/ imvoke_getkeys \/ imvoke_getvalues
           \/ \E k \in Keys : imvoke_get(k)
  <2>1. /\ main' = "send"
        /\ UNCHANGED <<gp_queue_head, opProcVars, init_i,
                       threadVars, g_last_assignment>>
    BY <1>6 DEF imvoke_size, imvoke_height, imvoke_getkeys, imvoke_getvalues, imvoke_get,
                AnswerRead, Answer
  <2> QED
    BY <2>1 DEF Working, opProcVars, threadVars
<1>7. CASE \E n \in AskedNumbers : imvoke_verify(n)
  <2>1. /\ main' = "send"
        /\ UNCHANGED <<gp_queue_head, opProcVars, init_i,
                       threadVars>>
        /\ g_last_assignment' \in {g_last_assignment, g_last_assignment + 1}
    BY <1>7 DEF imvoke_verify, AnswerRead, Answer
  <2> QED
    BY <2>1 DEF Working, opProcVars, threadVars
<1>8. CASE AssignNumber
  BY <1>8 DEF AssignNumber, Working, opProcVars, threadVars
<1>9. CASE SendAnswer
  BY <1>9 DEF SendAnswer, Working, opProcVars, threadVars
<1>10. ASSUME NEW t \in Thread, StartThread(t)
       PROVE  TypeOK'
  BY <1>10 DEF StartThread, Thread, Working, opProcVars, mainVars
<1>12. ASSUME NEW t \in Thread, queue_get_next_request(t)
       PROVE  TypeOK'
  BY <1>12 DEF queue_get_next_request, Working, opProcVars, mainVars
<1>13. ASSUME NEW t \in Thread, MarkInProgress(t)
       PROVE  TypeOK'
  BY <1>13 DEF MarkInProgress, op_proc_set_in_progress, Requests, Working, mainVars
<1>14. ASSUME NEW t \in Thread, ApplyRequest(t)
       PROVE  TypeOK'
  BY <1>14 DEF ApplyRequest, Working, opProcVars, mainVars
<1>15. ASSUME NEW t \in Thread, ClearInProgress(t)
       PROVE  TypeOK'
  BY <1>15 DEF ClearInProgress, op_proc_set_in_progress, Working, mainVars
<1>16. ASSUME NEW t \in Thread, CompareMaxProc(t)
       PROVE  TypeOK'
  BY <1>16 DEF CompareMaxProc, Working, opProcVars, mainVars
<1>17. ASSUME NEW t \in Thread, op_proc_set_max_proc(t)
       PROVE  TypeOK'
  <2>1. p_request[t].op_n \in Nat
    BY <1>17 DEF op_proc_set_max_proc, Requests, Working
  <2> QED
    BY <1>17, <2>1 DEF op_proc_set_max_proc, Working, mainVars
<1>19. CASE UNCHANGED vars
  BY <1>19 DEF vars, Working, opProcVars, mainVars, threadVars
<1>20. CASE tree_skel_init
  BY <1>20, <1>1, <1>2, <1>3 DEF tree_skel_init
<1>21. CASE ServeMessage
  BY <1>21, <1>4, <1>5, <1>6, <1>7, <1>8, <1>9 DEF ServeMessage
<1>22. ASSUME NEW t \in Thread, process_request(t)
       PROVE  TypeOK'
  BY <1>22, <1>10, <1>12, <1>13, <1>14, <1>15, <1>16, <1>17
  DEF process_request
<1> QED
  BY <1>19, <1>20, <1>21, <1>22 DEF Next

(***************************************************************************)
(* Every variable but the tree keeps its type: in particular a worker      *)
(* holds a request exactly from queue_get_next_request to request_destroy. *)
(***************************************************************************)
THEOREM TypeCorrect == Spec => []TypeOK
  BY TypeInit, TypeStep, PTL DEF Spec
-----------------------------------------------------------------------------
(***************************************************************************)
(* The way of a request through the skeleton.  A step either accepts a     *)
(* write, hands the oldest request to a worker, raises max_proc, or moves  *)
(* no request: then the workers that still have a request had it before.   *)
(***************************************************************************)
Accepting ==
  \E op \in {REQUEST_PUT, REQUEST_DEL}, k \in Keys, d \in Values \cup {NULL} :
    /\ gp_queue_head' =
         Append(gp_queue_head, request_create(g_last_assignment, op, k, d))
    /\ main = "poll" /\ main' = "assign"
    /\ UNCHANGED <<g_last_assignment, max_proc, pc, p_request>>

Resting ==
  /\ NextNumber' >= NextNumber
  /\ UNCHANGED <<gp_queue_head, max_proc>>
  /\ Working' \subseteq Working
  /\ Holding' \subseteq Holding
  /\ \A t \in Working' : p_request'[t] = p_request[t]

LEMMA StepKinds ==
  ASSUME TypeOK, [Next]_vars
  PROVE  \/ Accepting
         \/ \E t \in Thread : queue_get_next_request(t)
         \/ \E t \in Thread : op_proc_set_max_proc(t)
         \/ Resting
<1> USE DEF TypeOK
<1>1. CASE CreateThread \/ IncrementLoopVariable \/ InitReturns
  BY <1>1 DEF CreateThread, IncrementLoopVariable, InitReturns, Resting, NextNumber,
              Working, Holding, opProcVars, mainVars, threadVars
<1>2. CASE \E k \in Keys, v \in Values : imvoke_put(k, v)
  BY <1>2 DEF imvoke_put, imvoke_write, queue_add_request, Accepting, opProcVars,
              threadVars
<1>3. CASE \E k \in Keys : imvoke_del(k)
  BY <1>3 DEF imvoke_del, imvoke_write, queue_add_request, Accepting, opProcVars,
              threadVars
<1>4. CASE \/ imvoke_size \/ imvoke_height \/ imvoke_getkeys \/ imvoke_getvalues
           \/ \E k \in Keys : imvoke_get(k)
           \/ \E n \in AskedNumbers : imvoke_verify(n)
  <2>1. /\ main = "poll" /\ main' = "send"
        /\ g_last_assignment' \in {g_last_assignment, g_last_assignment + 1}
        /\ UNCHANGED <<gp_queue_head, opProcVars, threadVars>>
    BY <1>4 DEF imvoke_size, imvoke_height, imvoke_getkeys, imvoke_getvalues, imvoke_get,
                imvoke_verify, AnswerRead, Answer
  <2> QED
    BY <2>1 DEF Resting, NextNumber, Working, Holding, opProcVars, threadVars
<1>5. CASE AssignNumber \/ SendAnswer
  BY <1>5 DEF AssignNumber, SendAnswer, Resting, NextNumber, Working, Holding,
              opProcVars, threadVars
<1>6. ASSUME NEW t \in Thread,
             \/ StartThread(t) \/ MarkInProgress(t)
             \/ ApplyRequest(t) \/ ClearInProgress(t) \/ CompareMaxProc(t)
      PROVE  Resting
  <2>1. UNCHANGED <<gp_queue_head, max_proc, main, g_last_assignment>>
    BY <1>6 DEF StartThread, MarkInProgress, ApplyRequest, ClearInProgress,
                CompareMaxProc, opProcVars, mainVars
  <2>2. Working' \subseteq Working /\ Holding' \subseteq Holding
    BY <1>6 DEF StartThread, MarkInProgress, ApplyRequest, ClearInProgress,
                CompareMaxProc, Working, Holding
  <2>3. \A u \in Working' : p_request'[u] = p_request[u]
    BY <1>6 DEF StartThread, MarkInProgress, ApplyRequest, ClearInProgress,
                CompareMaxProc, Working
  <2> QED
    BY <2>1, <2>2, <2>3 DEF Resting, NextNumber
<1>7. CASE UNCHANGED vars
  BY <1>7 DEF vars, Resting, NextNumber,
              Working, Holding, opProcVars, mainVars, threadVars
<1> QED
  BY <1>1, <1>2, <1>3, <1>4, <1>5, <1>6, <1>7
  DEF Next, tree_skel_init, ServeMessage, process_request

(***************************************************************************)
(* NumbersInOrder is not inductive: what a worker has finished, and        *)
(* max_proc, must be behind the queue too, or the next step could put them *)
(* level with it.                                                          *)
(***************************************************************************)
InOrder ==
  /\ \A i, j \in DOMAIN gp_queue_head :
       i < j => gp_queue_head[i].op_n < gp_queue_head[j].op_n
  /\ \A j \in DOMAIN gp_queue_head :
       /\ gp_queue_head[j].op_n < NextNumber
       /\ max_proc < gp_queue_head[j].op_n
       /\ \A t \in Working : p_request[t].op_n < gp_queue_head[j].op_n
  /\ max_proc < NextNumber
  /\ \A t \in Working : p_request[t].op_n < NextNumber
  /\ \A t, u \in Working : t # u => p_request[t].op_n # p_request[u].op_n

LEMMA InOrderInit == Init => InOrder
  BY DEF Init, InOrder, NextNumber, Working

LEMMA QueueTypes ==
  ASSUME TypeOK
  PROVE  /\ gp_queue_head \in Seq(Requests)
         /\ \A j \in DOMAIN gp_queue_head : gp_queue_head[j].op_n \in Int
         /\ \A t \in Working : p_request[t].op_n \in Int
         /\ max_proc \in Int
         /\ g_last_assignment \in Int
         /\ NextNumber \in Int
<1>1. \A r \in Requests : r.op_n \in Int
  BY SkelAssumption DEF Requests
<1> QED
  BY <1>1 DEF TypeOK, Working, NextNumber

LEMMA InOrderStep == TypeOK /\ InOrder /\ [Next]_vars => InOrder'
<1> SUFFICES ASSUME TypeOK, InOrder, [Next]_vars
             PROVE  InOrder'
  OBVIOUS
<1>0. TypeOK'
  BY TypeStep
<1>1. CASE Accepting
  <2>1. PICK op, k, d : gp_queue_head' =
          Append(gp_queue_head, request_create(g_last_assignment, op, k, d))
    BY <1>1 DEF Accepting
  <2>2. /\ Len(gp_queue_head') = Len(gp_queue_head) + 1
        /\ \A j \in DOMAIN gp_queue_head : gp_queue_head'[j] = gp_queue_head[j]
        /\ gp_queue_head'[Len(gp_queue_head) + 1].op_n = g_last_assignment
    BY <2>1, QueueTypes DEF request_create
  <2>3. /\ DOMAIN gp_queue_head = 1 .. Len(gp_queue_head)
        /\ DOMAIN gp_queue_head' = 1 .. Len(gp_queue_head) + 1
        /\ Len(gp_queue_head) \in Nat
    BY <1>0, <2>2, QueueTypes DEF TypeOK
  <2>4. /\ UNCHANGED <<max_proc, p_request, Working>>
        /\ NextNumber = g_last_assignment
        /\ NextNumber' = g_last_assignment + 1
    BY <1>1 DEF Accepting, NextNumber, Working
  <2> QED
    BY <2>2, <2>3, <2>4, QueueTypes DEF InOrder
<1>2. ASSUME NEW t \in Thread, queue_get_next_request(t)
      PROVE  InOrder'
  <2>1. /\ p_request'[t] = gp_queue_head[1]
        /\ \A u \in Thread \ {t} : p_request'[u] = p_request[u]
        /\ Working' = Working \cup {t}
        /\ UNCHANGED <<max_proc, NextNumber>>
    BY <1>2 DEF queue_get_next_request, Working, TypeOK, NextNumber, opProcVars, mainVars
  <2>2. /\ 1 \in DOMAIN gp_queue_head
        /\ \A j \in DOMAIN gp_queue_head' :
             /\ j \in Int /\ 1 < j + 1
             /\ j + 1 \in DOMAIN gp_queue_head
             /\ gp_queue_head'[j] = gp_queue_head[j + 1]
    BY <1>2, QueueTypes DEF queue_get_next_request
  <2>3. t \notin Working /\ Working \subseteq Thread
    BY <1>2 DEF queue_get_next_request, Working
  <2> QED
    BY <2>1, <2>2, <2>3, QueueTypes, SMTT(20) DEF InOrder
<1>3. ASSUME NEW t \in Thread, op_proc_set_max_proc(t)
      PROVE  InOrder'
  <2>1. /\ t \in Working
        /\ max_proc' = p_request[t].op_n
        /\ Working' = Working \ {t}
        /\ \A u \in Working' : p_request'[u] = p_request[u]
        /\ UNCHANGED <<gp_queue_head, NextNumber>>
    BY <1>3 DEF op_proc_set_max_proc, Working, TypeOK, NextNumber, mainVars
  <2> QED
    BY <2>1 DEF InOrder
<1>4. CASE Resting
  <2>1. /\ NextNumber' \in Int /\ NextNumber' >= NextNumber
        /\ UNCHANGED <<gp_queue_head, max_proc>>
        /\ \A t \in Working' : t \in Working /\ p_request'[t] = p_request[t]
    <3>1. NextNumber' \in Int
      BY <1>0 DEF TypeOK, NextNumber
    <3> QED
      BY <1>4, <3>1 DEF Resting
  <2>2. max_proc' < NextNumber'
    BY <2>1, QueueTypes DEF InOrder
  <2>3. ASSUME NEW t \in Working'
        PROVE  /\ p_request'[t].op_n < NextNumber'
               /\ \A j \in DOMAIN gp_queue_head' :
                    p_request'[t].op_n < gp_queue_head'[j].op_n
               /\ \A u \in Working' : t # u => p_request'[t].op_n # p_request'[u].op_n
    BY <2>1, <2>3, QueueTypes DEF InOrder
  <2>4. \A j \in DOMAIN gp_queue_head' : gp_queue_head'[j].op_n < NextNumber'
    BY <2>1, QueueTypes DEF InOrder
  <2> QED
    BY <2>1, <2>2, <2>3, <2>4 DEF InOrder
<1> QED
  BY <1>1, <1>2, <1>3, <1>4, StepKinds

(***************************************************************************)
(* Requests are queued and handed out in the order of their numbers, each  *)
(* to one worker (queue_add_request, queue_get_next_request and the        *)
(* assignment of numbers in imvoke).                                       *)
(***************************************************************************)
THEOREM RequestsInOrder == Spec => []NumbersInOrder
<1>2. InOrder => NumbersInOrder
  <2>1. Holding \subseteq Working
    BY DEF Holding, Working
  <2> QED
    BY <2>1 DEF InOrder, NumbersInOrder, Pending
<1> QED
  BY <1>2, TypeInit, TypeStep, InOrderInit, InOrderStep, PTL
  DEF Spec
-----------------------------------------------------------------------------
(***************************************************************************)
(* Some worker holds no pending request up to max_proc: the one that last  *)
(* raised max_proc has handed its request back, and whatever it takes from *)
(* the queue next is above max_proc.                                       *)
(***************************************************************************)
Behind == {t \in Holding : p_request[t].op_n <= max_proc}

SomeoneNotBehind == \E t \in Thread : t \notin Behind

LEMMA SomeoneInit == Init => SomeoneNotBehind
  BY SkelAssumption DEF Init, SomeoneNotBehind, Behind, Holding, Thread

LEMMA SomeoneStep ==
  TypeOK /\ InOrder /\ SomeoneNotBehind /\ [Next]_vars => SomeoneNotBehind'
<1> SUFFICES ASSUME TypeOK, InOrder, [Next]_vars,
                    NEW t \in Thread, t \notin Behind
             PROVE  SomeoneNotBehind'
  BY DEF SomeoneNotBehind
<1>1. CASE Accepting
  BY <1>1 DEF Accepting, SomeoneNotBehind, Behind, Holding
<1>2. ASSUME NEW u \in Thread, queue_get_next_request(u)
      PROVE  SomeoneNotBehind'
  <2>1. CASE u = t
    <3>1. /\ p_request'[t] = gp_queue_head[1]
          /\ 1 \in DOMAIN gp_queue_head
          /\ max_proc' = max_proc
      BY <1>2, <2>1, QueueTypes DEF queue_get_next_request, TypeOK, opProcVars
    <3>2. ~(p_request'[t].op_n <= max_proc')
      BY <3>1, QueueTypes DEF InOrder
    <3> QED
      BY <3>2 DEF SomeoneNotBehind, Behind
  <2>2. CASE u # t
    <3>1. t \in Holding' => t \in Holding
      BY <1>2, <2>2 DEF queue_get_next_request, TypeOK, Holding
    <3>2. p_request'[t] = p_request[t] /\ max_proc' = max_proc
      BY <1>2, <2>2 DEF queue_get_next_request, TypeOK, opProcVars
    <3> QED
      BY <3>1, <3>2 DEF SomeoneNotBehind, Behind
  <2> QED
    BY <2>1, <2>2
<1>3. ASSUME NEW u \in Thread, op_proc_set_max_proc(u)
      PROVE  SomeoneNotBehind'
  BY <1>3 DEF op_proc_set_max_proc, TypeOK, SomeoneNotBehind, Behind, Holding
<1>4. CASE Resting
  <2>1. Holding' \subseteq Working'
    BY DEF Holding, Working
  <2> QED
    BY <1>4, <2>1 DEF Resting, SomeoneNotBehind, Behind
<1> QED
  BY <1>1, <1>2, <1>3, <1>4, StepKinds

(***************************************************************************)
(* The pending requests up to max_proc are in the hands of the workers     *)
(* that are behind, which are not all of them.                             *)
(***************************************************************************)
LEMMA WindowFromBehind == TypeOK /\ InOrder /\ SomeoneNotBehind => DoneWindow
<1> SUFFICES ASSUME TypeOK, InOrder, NEW t \in Thread, t \notin Behind
             PROVE  DoneWindow
  BY DEF SomeoneNotBehind
<1> DEFINE Low == {r \in Pending : r.op_n <= max_proc}
           held == [u \in Behind |-> p_request[u]]
<1>1. held \in Surjection(Behind, Low)
  <2>1. \A u \in Behind : p_request[u] \in Low
    BY DEF Behind, Holding, Pending
  <2>2. \A r \in Low : \E u \in Behind : p_request[u] = r
    BY QueueTypes DEF InOrder, Behind, Pending
  <2> QED
    BY <2>1, <2>2 DEF Surjection
<1>2. Behind \in SUBSET (Thread \ {t})
  BY DEF Behind, Holding
<1>3. /\ IsFiniteSet(Thread \ {t})
      /\ Cardinality(Thread \ {t}) = NThreads - 1
  <2>1. IsFiniteSet(Thread) /\ Cardinality(Thread) = NThreads
    BY SkelAssumption, FS_Interval DEF Thread
  <2> QED
    BY <2>1, FS_RemoveElement
<1>4. IsFiniteSet(Behind) /\ Cardinality(Behind) <= NThreads - 1
  BY <1>2, <1>3, FS_Subset
<1>5. IsFiniteSet(Low) /\ Cardinality(Low) <= Cardinality(Behind)
  BY <1>1, <1>4, FS_Surjection
<1>6. Cardinality(Low) \in Nat /\ Cardinality(Behind) \in Nat
  BY <1>4, <1>5, FS_CardinalityType
<1> QED
  BY <1>4, <1>5, <1>6, SkelAssumption DEF DoneWindow

(***************************************************************************)
(* What OP_VERIFY calls done is missing at most NThreads - 1 writes, and   *)
(* with one worker none (process_request, op_proc_set_max_proc, verify).   *)
(***************************************************************************)
THEOREM DoneIsAlmostDone == Spec => []DoneWindow
  BY TypeInit, TypeStep, InOrderInit, InOrderStep, SomeoneInit, SomeoneStep,
     WindowFromBehind, PTL
  DEF Spec

(***************************************************************************)
(* A single worker is the one that is not behind.                          *)
(***************************************************************************)
LEMMA SoundWithOneWorker ==
  ASSUME NThreads = 1, TypeOK, InOrder, SomeoneNotBehind
  PROVE  VerifySound
<1>1. \A t \in Thread : t = 0
  BY DEF Thread
<1>2. Behind = {}
  BY <1>1 DEF SomeoneNotBehind, Behind, Holding
<1>3. \A j \in DOMAIN gp_queue_head : ~(gp_queue_head[j].op_n <= max_proc)
  <2>1. ASSUME NEW j \in DOMAIN gp_queue_head
        PROVE  ~(gp_queue_head[j].op_n <= max_proc)
    <3>1. gp_queue_head[j].op_n \in Int /\ max_proc \in Int
      BY QueueTypes
    <3> QED
      BY <3>1 DEF InOrder
  <2> QED
    BY <2>1
<1>4. \A t \in Holding : ~(p_request[t].op_n <= max_proc)
  BY <1>2 DEF Behind
<1>5. \A r \in Pending : ~(r.op_n <= max_proc)
  BY <1>3, <1>4 DEF Pending
<1> QED
  BY <1>5 DEF VerifySound, verify

(***************************************************************************)
(* With one worker OP_VERIFY calls no write done that the tree does not    *)
(* show (verify, op_proc_set_max_proc).                                    *)
(***************************************************************************)
THEOREM OneWorkerIsSound ==
  NThreads = 1 => (Spec => []VerifySound)
<1> SUFFICES ASSUME NThreads = 1
             PROVE  Spec => []VerifySound
  OBVIOUS
<1>2. TypeOK /\ InOrder /\ SomeoneNotBehind => VerifySound
  BY SoundWithOneWorker
<1> QED
  BY <1>2, TypeInit, TypeStep, InOrderInit, InOrderStep, SomeoneInit, SomeoneStep, PTL
  DEF Spec
-----------------------------------------------------------------------------
(***************************************************************************)
(* InProgressIsHeld is inductive with TypeOK: a slot is written by the     *)
(* worker it stands for only, or by one that shares it and clears it.      *)
(***************************************************************************)
LEMMA HeldInit == Init => InProgressIsHeld
  BY DEF Init, InProgressIsHeld

LEMMA HeldStep ==
  TypeOK /\ InProgressIsHeld /\ [Next]_vars => InProgressIsHeld'
<1> SUFFICES ASSUME TypeOK, InProgressIsHeld, [Next]_vars
             PROVE  InProgressIsHeld'
  OBVIOUS
<1> DEFINE Executing == {t \in Thread : pc[t] \in {"marked", "applied"}}
           Same(t) == /\ pc'[t] \in {"marked", "applied"}
                      /\ thread_id'[t] = thread_id[t]
                      /\ p_request'[t] = p_request[t]
<1>1. ASSUME in_progress' = in_progress,
             \A t \in Executing : Same(t)
      PROVE  InProgressIsHeld'
  BY <1>1 DEF InProgressIsHeld
<1>2. CASE tree_skel_init \/ ServeMessage \/ UNCHANGED vars
  <2>1. in_progress' = in_progress
    BY <1>2 DEF tree_skel_init, CreateThread, IncrementLoopVariable, InitReturns,
       ServeMessage, imvoke_put, imvoke_del, imvoke_write, AssignNumber, SendAnswer,
       imvoke_size, imvoke_height, imvoke_getkeys, imvoke_getvalues, imvoke_get,
       imvoke_verify, AnswerRead, Answer,
       vars, opProcVars
  <2>2. CASE CreateThread
    BY <1>1, <2>1, <2>2 DEF CreateThread, TypeOK, Thread
  <2>3. CASE ~CreateThread
    <3>1. UNCHANGED threadVars
      BY <1>2, <2>3 DEF tree_skel_init, IncrementLoopVariable, InitReturns,
         ServeMessage, imvoke_put, imvoke_del, imvoke_write, AssignNumber, SendAnswer,
         imvoke_size, imvoke_height, imvoke_getkeys, imvoke_getvalues, imvoke_get,
         imvoke_verify, AnswerRead, Answer,
         vars
    <3> QED
      BY <1>1, <2>1, <3>1 DEF threadVars
  <2> QED
    BY <2>2, <2>3
<1>3. ASSUME NEW t \in Thread,
             \/ StartThread(t) \/ queue_get_next_request(t)
             \/ ApplyRequest(t) \/ CompareMaxProc(t) \/ op_proc_set_max_proc(t)
      PROVE  InProgressIsHeld'
  <2>1. in_progress' = in_progress
    BY <1>3 DEF StartThread, queue_get_next_request, ApplyRequest,
       CompareMaxProc, op_proc_set_max_proc, opProcVars
  <2>2. \A u \in Executing : Same(u)
    BY <1>3 DEF StartThread, queue_get_next_request, ApplyRequest,
       CompareMaxProc, op_proc_set_max_proc, TypeOK
  <2> QED
    BY <1>1, <2>1, <2>2
<1>4. ASSUME NEW t \in Thread, MarkInProgress(t)
      PROVE  InProgressIsHeld'
  <2>1. /\ \A u \in Executing : Same(u)
        /\ Same(t)
        /\ in_progress' = IF thread_id[t] \in Thread
                          THEN [in_progress EXCEPT ![thread_id[t]] = p_request[t].op_n]
                          ELSE in_progress
    BY <1>4 DEF MarkInProgress, op_proc_set_in_progress, TypeOK, mainVars
  <2> SUFFICES ASSUME NEW s \in Thread, in_progress'[s] # 0
               PROVE  \E u \in Thread :
                        /\ thread_id'[u] = s
                        /\ pc'[u] \in {"marked", "applied"}
                        /\ p_request'[u].op_n = in_progress'[s]
    BY DEF InProgressIsHeld
  <2>2. CASE s = thread_id[t]
    BY <2>1, <2>2 DEF TypeOK
  <2>3. CASE s # thread_id[t]
    <3>1. in_progress'[s] = in_progress[s]
      BY <2>1, <2>3 DEF TypeOK
    <3>2. PICK u \in Executing :
            thread_id[u] = s /\ p_request[u].op_n = in_progress[s]
      BY <3>1 DEF InProgressIsHeld
    <3> QED
      BY <2>1, <3>1, <3>2
  <2> QED
    BY <2>2, <2>3
<1>5. ASSUME NEW t \in Thread, ClearInProgress(t)
      PROVE  InProgressIsHeld'
  <2>1. /\ \A u \in Executing \ {t} : Same(u)
        /\ in_progress' = IF thread_id[t] \in Thread
                          THEN [in_progress EXCEPT ![thread_id[t]] = 0]
                          ELSE in_progress
    BY <1>5 DEF ClearInProgress, op_proc_set_in_progress, TypeOK, mainVars
  <2> SUFFICES ASSUME NEW s \in Thread, in_progress'[s] # 0
               PROVE  \E u \in Thread :
                        /\ thread_id'[u] = s
                        /\ pc'[u] \in {"marked", "applied"}
                        /\ p_request'[u].op_n = in_progress'[s]
    BY DEF InProgressIsHeld
  <2>2. s # thread_id[t] /\ in_progress'[s] = in_progress[s]
    BY <2>1 DEF TypeOK
  <2>3. PICK u \in Executing :
          thread_id[u] = s /\ p_request[u].op_n = in_progress[s]
    BY <2>2 DEF InProgressIsHeld
  <2> QED
    BY <2>1, <2>2, <2>3
<1> QED
  BY <1>2, <1>3, <1>4, <1>5 DEF Next, process_request

(***************************************************************************)
(* No finished or foreign number is left in in_progress, although workers  *)
(* may share slots or have none (process_request, tree_skel_init).         *)
(***************************************************************************)
THEOREM InProgressNeverStale == Spec => []InProgressIsHeld
  BY TypeInit, TypeStep, HeldInit, HeldStep, PTL DEF Spec
-----------------------------------------------------------------------------
(***************************************************************************)
(* The skeleton implements WriteService.  Beside the invariants above this *)
(* needs that the tree is a search tree, and that what is sent is a        *)
(* message.                                                                *)
(***************************************************************************)
TreeFine ==
  /\ SearchTree(gp_TREE.node)
  /\ Counted(gp_TREE)
  /\ Holds(gp_TREE, [key : Keys, value : Values])

Answers ==
  [opcode : Int, c_type : Int, result : Int,
   body : {NULL} \cup Values \cup Seq(Keys) \cup Seq(Values)]

MessageFine ==
  /\ main = "assign" => p_msg.opcode \in Int
  /\ main = "send" => p_msg \in Answers

LEMMA TreeInit == Init => TreeFine
  BY NothingYet DEF Init, TreeFine

LEMMA TreeMoves ==
  ASSUME TypeOK, [Next]_vars
  PROVE  UNCHANGED gp_TREE \/ \E t \in Thread : ApplyRequest(t)
<1>1. CASE tree_skel_init \/ ServeMessage \/ UNCHANGED vars
  BY <1>1 DEF tree_skel_init, CreateThread, IncrementLoopVariable, InitReturns,
     ServeMessage, imvoke_put, imvoke_del, imvoke_write, AssignNumber, SendAnswer,
     imvoke_size, imvoke_height, imvoke_getkeys, imvoke_getvalues, imvoke_get,
     imvoke_verify, AnswerRead, Answer, vars
<1>2. ASSUME NEW t \in Thread, process_request(t), ~ApplyRequest(t)
      PROVE  UNCHANGED gp_TREE
  BY <1>2 DEF process_request, StartThread, queue_get_next_request,
     MarkInProgress, ClearInProgress, CompareMaxProc, op_proc_set_max_proc
<1> QED
  BY <1>1, <1>2 DEF Next

LEMMA RequestParts ==
  ASSUME NEW r \in Requests
  PROVE  /\ r.p_key \in Keys /\ r.p_key \in Int
         /\ r.op \in {REQUEST_PUT, REQUEST_DEL}
         /\ r.op = REQUEST_PUT => r.p_data \in Values
<1>1. r.p_key \in Keys /\ r.p_key \in Int
  BY SkelAssumption DEF Requests
<1>2. CASE r \in [op_n : 1 .. MaxAssignment, op : {REQUEST_PUT}, p_key : Keys,
                 p_data : Values]
  BY <1>1, <1>2
<1>3. CASE r \in [op_n : 1 .. MaxAssignment, op : {REQUEST_DEL}, p_key : Keys,
                 p_data : {NULL}]
  BY <1>1, <1>3 DEF REQUEST_PUT, REQUEST_DEL
<1> QED
  BY <1>2, <1>3 DEF Requests

LEMMA AppliedTree ==
  ASSUME TypeOK, TreeFine, NEW t \in Thread, ApplyRequest(t)
  PROVE  LET r == p_request[t]
         IN  /\ r \in Requests
             /\ TreeFine'
             /\ \/ /\ r.op = REQUEST_PUT
                   /\ StoreOf(gp_TREE)' = StorePut(StoreOf(gp_TREE), r.p_key, r.p_data)
                \/ /\ r.op = REQUEST_DEL
                   /\ StoreOf(gp_TREE)' = StoreDel(StoreOf(gp_TREE), r.p_key)
<1> DEFINE r == p_request[t]
           E == [key : Keys, value : Values]
           u == gp_TREE'
           S == StoreOf(gp_TREE)
<1>1. r \in Requests
  BY DEF TypeOK, ApplyRequest, Working
<1>2. /\ r.p_key \in Keys /\ r.p_key \in Int
      /\ r.op \in {REQUEST_PUT, REQUEST_DEL}
      /\ r.op = REQUEST_PUT => r.p_data \in Values
  BY <1>1, RequestParts
<1>3. u = IF r.op = REQUEST_PUT THEN tree_put(gp_TREE, r.p_key, r.p_data)
                                ELSE tree_del(gp_TREE, r.p_key)
  BY DEF ApplyRequest
<1>4. SearchTree(gp_TREE.node) /\ Counted(gp_TREE) /\ Holds(gp_TREE, E)
  BY DEF TreeFine
<1>5. CASE r.op = REQUEST_PUT
  <2>1. u = tree_put(gp_TREE, r.p_key, r.p_data)
    BY <1>3, <1>5
  <2>2. Entry(r.p_key, r.p_data) \in E
    BY <1>2, <1>5 DEF Entry
  <2>3. SearchTree(u.node) /\ Counted(u) /\ Holds(u, E)
    BY <1>2, <1>4, <2>1, <2>2, PutKeeps
  <2>4. StoreOf(u) = StorePut(S, r.p_key, r.p_data)
    BY <1>2, <1>4, <2>1, PutIsPut
  <2> QED
    BY <1>1, <1>5, <2>3, <2>4 DEF TreeFine, Counted, Holds, StoreOf
<1>6. CASE r.op # REQUEST_PUT
  <2>1. u = tree_del(gp_TREE, r.p_key)
    BY <1>3, <1>6
  <2>2. SearchTree(u.node) /\ Counted(u) /\ Holds(u, E)
    BY <1>2, <1>4, <2>1, DelKeeps
  <2>3. StoreOf(u) = StoreDel(S, r.p_key)
    <3>1. CASE r.p_key \in DOMAIN S
      BY <1>2, <1>4, <2>1, <3>1, DelIsDel
    <3>2. CASE r.p_key \notin DOMAIN S
      <4>1. u = gp_TREE
        BY <1>2, <1>4, <2>1, <3>2, DelIsDel
      <4>2. S = [k \in DOMAIN S |-> S[k]]
        BY <1>4, StoreValues
      <4>3. DOMAIN S \ {r.p_key} = DOMAIN S
        BY <3>2
      <4> HIDE DEF S
      <4> QED
        BY <4>1, <4>2, <4>3 DEF StoreDel, S
    <3> QED
      BY <3>1, <3>2
  <2> QED
    BY <1>1, <1>2, <1>6, <2>2, <2>3 DEF TreeFine, Counted, Holds, StoreOf
<1> QED
  BY <1>5, <1>6

LEMMA TreeStep == TypeOK /\ TreeFine /\ [Next]_vars => TreeFine'
<1> SUFFICES ASSUME TypeOK, TreeFine, [Next]_vars
             PROVE  TreeFine'
  OBVIOUS
<1>1. CASE UNCHANGED gp_TREE
  BY <1>1 DEF TreeFine, Counted, Holds
<1>2. ASSUME NEW t \in Thread, ApplyRequest(t)
      PROVE  TreeFine'
  BY <1>2, AppliedTree
<1> QED
  BY <1>1, <1>2, TreeMoves
(***************************************************************************)
(* What imvoke reads from the tree, in terms of the map.                   *)
(***************************************************************************)
LEMMA ReadFacts ==
  ASSUME TreeFine
  PROVE  LET S == StoreOf(gp_TREE)
             keys == tree_get_keys(gp_TREE)
             values == tree_get_values(gp_TREE)
         IN  /\ tree_size(gp_TREE) = Cardinality(DOMAIN S)
             /\ tree_size(gp_TREE) \in Int
             /\ tree_height(gp_TREE) \in Heights(S)
             /\ tree_height(gp_TREE) \in Int
             /\ \A k \in Keys : /\ tree_get(gp_TREE, k) = StoreGet(S, k)
                                /\ tree_get(gp_TREE, k) \in Values \cup {NULL}
             /\ [j \in 1 .. tree_size(gp_TREE) |-> keys[j]] = KeysOf(S)
             /\ KeysOf(S) \in Seq(Keys)
             /\ [j \in 1 .. tree_size(gp_TREE) |-> values[j]] = ValuesOf(S)
             /\ ValuesOf(S) \in Seq(Values)
<1> DEFINE t == gp_TREE
           S == StoreOf(t)
<1>1. /\ SearchTree(t.node) /\ Counted(t) /\ Holds(t, [key : Keys, value : Values])
  BY DEF TreeFine
<1>2. Keys \subseteq Int
  BY SkelAssumption
<1>3. tree_size(t) = Cardinality(DOMAIN S)
  BY <1>1, SizeIsNumberOfKeys DEF tree_size, Counted
<1>4. tree_height(t) \in Heights(S) /\ tree_height(t) \in Int
  BY <1>1, HeightFits DEF Heights
<1>5. \A k \in Keys : tree_get(t, k) = StoreGet(S, k)
  BY <1>1, <1>2, GetIsGet
<1>6. /\ tree_get_keys(t) \in Seq(Keys) /\ tree_get_values(t) \in Seq(Values)
      /\ tree_get_keys(t) = [i \in 1 .. tree_size(t) |-> tree_get_keys(t)[i]]
      /\ tree_get_values(t) = [i \in 1 .. tree_size(t) |-> tree_get_values(t)[i]]
      /\ tree_size(t) \in Nat
      /\ \A k : tree_get(t, k) \in Values \cup {NULL}
  BY <1>1, AnswersTyped
<1>7. tree_get_keys(t) = KeysOf(S) /\ tree_get_values(t) = ValuesOf(S)
  BY <1>1, KeysInOrder
<1>8. tree_size(t) \in Int
  BY <1>6
<1>9. \A k \in Keys : /\ tree_get(t, k) = StoreGet(S, k)
                      /\ tree_get(t, k) \in Values \cup {NULL}
  BY <1>5, <1>6
<1>10. /\ [j \in 1 .. tree_size(t) |-> tree_get_keys(t)[j]] = KeysOf(S)
       /\ KeysOf(S) \in Seq(Keys)
  <2>1. [j \in 1 .. tree_size(t) |-> tree_get_keys(t)[j]] = tree_get_keys(t)
    BY <1>6, Zenon
  <2> QED
    BY <1>6, <1>7, <2>1, Zenon
<1>11. /\ [j \in 1 .. tree_size(t) |-> tree_get_values(t)[j]] = ValuesOf(S)
       /\ ValuesOf(S) \in Seq(Values)
  <2>1. [j \in 1 .. tree_size(t) |-> tree_get_values(t)[j]] = tree_get_values(t)
    BY <1>6, Zenon
  <2> QED
    BY <1>6, <1>7, <2>1, Zenon
<1> QED
  BY <1>3, <1>4, <1>8, <1>9, <1>10, <1>11, Zenon

LEMMA AnswerTypes ==
  ASSUME NEW op \in Int, NEW ct \in Int, NEW res \in Int,
         NEW body \in {NULL} \cup Values \cup Seq(Keys) \cup Seq(Values)
  PROVE  Message(op, ct, res, body) \in Answers
  BY DEF Message, Answers

LEMMA MessageInit == Init => MessageFine
  BY DEF Init, MessageFine

LEMMA MessageStep ==
  TypeOK /\ TreeFine /\ MessageFine /\ [Next]_vars => MessageFine'
<1> SUFFICES ASSUME TypeOK, TreeFine, MessageFine, [Next]_vars
             PROVE  MessageFine'
  OBVIOUS
<1> DEFINE Codes == {OP_SIZE + 1, OP_HEIGHT + 1, OP_GET + 1, OP_GETKEYS + 1,
                     OP_GETVALUES + 1, OP_VERIFY + 1, OP_ERROR, CT_RESULT, CT_VALUE,
                     CT_KEYS, CT_VALUES, CT_NONE, 0, -1}
<1>0. Codes \subseteq Int
  BY DEF OP_SIZE, OP_HEIGHT, OP_GET, OP_GETKEYS, OP_GETVALUES, OP_VERIFY, OP_ERROR,
         CT_RESULT, CT_VALUE, CT_KEYS, CT_VALUES, CT_NONE
<1>1. CASE \/ \E k \in Keys, v \in Values : imvoke_put(k, v)
           \/ \E k \in Keys : imvoke_del(k)
  BY <1>1 DEF imvoke_put, imvoke_del, imvoke_write, MessageFine, Message, OP_PUT, OP_DEL
<1>2. CASE AssignNumber
  <2>1. p_msg.opcode + 1 \in Int /\ g_last_assignment \in Int /\ CT_RESULT \in Int
    BY <1>0, <1>2, SMTT(20) DEF AssignNumber, MessageFine, TypeOK
  <2>2. p_msg' \in Answers
    BY <1>2, <2>1, AnswerTypes DEF AssignNumber
  <2> QED
    BY <1>2, <2>2 DEF AssignNumber, MessageFine
<1>3. ASSUME NEW m \in Answers, AnswerRead(m) \/ Answer(m)
      PROVE  MessageFine'
  BY <1>3 DEF AnswerRead, Answer, MessageFine
<1>4. CASE imvoke_size \/ imvoke_height
  <2>1. tree_size(gp_TREE) \in Int /\ tree_height(gp_TREE) \in Int
    BY ReadFacts
  <2>2. /\ Message(OP_SIZE + 1, CT_RESULT, tree_size(gp_TREE), NULL) \in Answers
        /\ Message(OP_HEIGHT + 1, CT_RESULT, tree_height(gp_TREE), NULL) \in Answers
    BY <1>0, <2>1, AnswerTypes
  <2> QED
    BY <1>3, <1>4, <2>2 DEF imvoke_size, imvoke_height
<1>5. ASSUME NEW k \in Keys, imvoke_get(k)
      PROVE  MessageFine'
  <2>1. tree_get(gp_TREE, k) \in Values \cup {NULL}
    BY ReadFacts
  <2>2. Message(OP_GET + 1, CT_VALUE, 0, tree_get(gp_TREE, k)) \in Answers
    BY <1>0, <2>1, AnswerTypes
  <2> QED
    BY <1>3, <1>5, <2>2 DEF imvoke_get
<1>6. CASE imvoke_getkeys
  <2> DEFINE ks == [j \in 1 .. tree_size(gp_TREE) |-> tree_get_keys(gp_TREE)[j]]
  <2>1. ks \in Seq(Keys)
    BY ReadFacts
  <2> HIDE DEF ks
  <2>2. Message(OP_GETKEYS + 1, CT_KEYS, 0, ks) \in Answers
    BY <1>0, <2>1, AnswerTypes
  <2> QED
    BY <1>3, <1>6, <2>2 DEF imvoke_getkeys, ks
<1>7. CASE imvoke_getvalues
  <2> DEFINE vs == [j \in 1 .. tree_size(gp_TREE) |-> tree_get_values(gp_TREE)[j]]
  <2>1. vs \in Seq(Values)
    BY ReadFacts
  <2> HIDE DEF vs
  <2>2. Message(OP_GETVALUES + 1, CT_VALUES, 0, vs) \in Answers
    BY <1>0, <2>1, AnswerTypes
  <2> QED
    BY <1>3, <1>7, <2>2 DEF imvoke_getvalues, vs
<1>8. ASSUME NEW n \in AskedNumbers, imvoke_verify(n)
      PROVE  MessageFine'
  <2>1. n \in Int /\ verify(n) \in Int
    BY SkelAssumption DEF verify
  <2>2. /\ Message(OP_ERROR, CT_NONE, n, NULL) \in Answers
        /\ Message(OP_VERIFY + 1, CT_RESULT, verify(n), NULL) \in Answers
    BY <1>0, <2>1, AnswerTypes
  <2> QED
    BY <1>3, <1>8, <2>2 DEF imvoke_verify
<1>9. CASE SendAnswer \/ tree_skel_init
  BY <1>9 DEF SendAnswer, tree_skel_init, CreateThread, IncrementLoopVariable,
              InitReturns, MessageFine, mainVars
<1>10. CASE \/ \E t \in Thread : process_request(t)
            \/ UNCHANGED vars
  <2>1. UNCHANGED mainVars
    BY <1>10 DEF process_request, StartThread, queue_get_next_request,
       MarkInProgress, ApplyRequest, ClearInProgress, CompareMaxProc,
       op_proc_set_max_proc, vars
  <2> QED
    BY <2>1 DEF mainVars, MessageFine
<1> QED
  BY <1>1, <1>2, <1>4, <1>5, <1>6, <1>7, <1>8, <1>9, <1>10
  DEF Next, ServeMessage

(***************************************************************************)
(* The operators WriteService takes from Store, Message and Request are    *)
(* those of the skeleton.                                                  *)
(***************************************************************************)
LEMMA SameOperators ==
  ASSUME NEW s, NEW k, NEW v
  PROVE  /\ WS!StorePut(s, k, v) = StorePut(s, k, v)
         /\ WS!StoreDel(s, k) = StoreDel(s, k)
         /\ WS!StoreGet(s, k) = StoreGet(s, k)
         /\ WS!EmptyStore = EmptyStore
         /\ WS!Cardinality(s) = Cardinality(s)
  BY DEF WS!StorePut, WS!StoreDel, WS!StoreGet, WS!EmptyStore, WS!Cardinality,
         StorePut, StoreDel, StoreGet, EmptyStore, Cardinality

LEMMA SameSequences ==
  ASSUME NEW s
  PROVE  WS!KeysOf(s) = KeysOf(s) /\ WS!ValuesOf(s) = ValuesOf(s)
<1>1. WS!KeysOf(s) = KeysOf(s)
  BY DEF WS!KeysOf, WS!InSequence, WS!KeyBefore, WS!Cardinality,
         KeysOf, InSequence, KeyBefore, Cardinality
<1>2. WS!ValuesOf(s) = ValuesOf(s)
  BY <1>1 DEF WS!ValuesOf, ValuesOf
<1> QED
  BY <1>1, <1>2

LEMMA SameHeights == \A s : WS!Heights(s) = Heights(s)
  BY DEF WS!Heights, Heights, WS!Cardinality, Cardinality

LEMMA SameMessages ==
  ASSUME NEW op, NEW ct, NEW res, NEW body
  PROVE  WS!Message(op, ct, res, body) = Message(op, ct, res, body)
  BY DEF WS!Message, Message

LEMMA SameRequests ==
  ASSUME NEW n, NEW op, NEW k, NEW d
  PROVE  WS!request_create(n, op, k, d) = request_create(n, op, k, d)
  BY DEF WS!request_create, request_create

LEMMA SameCodes ==
  /\ WS!OP_SIZE = OP_SIZE /\ WS!OP_HEIGHT = OP_HEIGHT /\ WS!OP_GET = OP_GET
  /\ WS!OP_GETKEYS = OP_GETKEYS /\ WS!OP_GETVALUES = OP_GETVALUES
  /\ WS!OP_PUT = OP_PUT /\ WS!OP_DEL = OP_DEL
  /\ WS!OP_VERIFY = OP_VERIFY /\ WS!OP_ERROR = OP_ERROR
  /\ WS!CT_RESULT = CT_RESULT /\ WS!CT_VALUE = CT_VALUE /\ WS!CT_KEYS = CT_KEYS
  /\ WS!CT_VALUES = CT_VALUES /\ WS!CT_NONE = CT_NONE
  /\ WS!REQUEST_PUT = REQUEST_PUT /\ WS!REQUEST_DEL = REQUEST_DEL
  BY DEF WS!OP_SIZE, WS!OP_HEIGHT, WS!OP_GET, WS!OP_GETKEYS, WS!OP_GETVALUES,
     WS!OP_PUT, WS!OP_DEL, WS!OP_VERIFY, WS!OP_ERROR, WS!CT_RESULT, WS!CT_VALUE,
     WS!CT_KEYS, WS!CT_VALUES, WS!CT_NONE, WS!REQUEST_PUT, WS!REQUEST_DEL,
     OP_SIZE, OP_HEIGHT, OP_GET, OP_GETKEYS, OP_GETVALUES, OP_PUT, OP_DEL, OP_VERIFY,
     OP_ERROR, CT_RESULT, CT_VALUE, CT_KEYS, CT_VALUES, CT_NONE, REQUEST_PUT,
     REQUEST_DEL

(***************************************************************************)
(* The steps of the main thread.                                           *)
(***************************************************************************)
LEMMA PendingStays ==
  ASSUME UNCHANGED <<gp_queue_head, Holding>>,
         \A t \in Holding : p_request'[t] = p_request[t]
  PROVE  UNCHANGED Pending
  BY DEF Pending

LEMMA ReadIsTell ==
  ASSUME NEW m, AnswerRead(m)
  PROVE  WS!Tell(m)
<1>1. /\ main = "poll" /\ main' = "send" /\ p_msg' = m
      /\ UNCHANGED <<g_last_assignment, gp_TREE, gp_queue_head, pc, p_request>>
  BY DEF AnswerRead, Answer, threadVars
<1>2. UNCHANGED Pending
  BY <1>1, PendingStays DEF Holding
<1> QED
  BY <1>1, <1>2 DEF WS!Tell, WS!Idle, NextNumber, StoreOf

LEMMA WriteIsAccept ==
  ASSUME TypeOK, NEW opcode, NEW op, NEW k, NEW d, imvoke_write(opcode, op, k, d)
  PROVE  WS!Accept(opcode, op, k, d)
<1> DEFINE r == request_create(g_last_assignment, op, k, d)
<1>1. /\ main = "poll" /\ main' = "assign"
      /\ p_msg' = Message(opcode, CT_NONE, 0, NULL)
      /\ gp_queue_head' = Append(gp_queue_head, r)
      /\ UNCHANGED <<g_last_assignment, gp_TREE, pc, p_request>>
  BY DEF imvoke_write, queue_add_request, threadVars
<1>2. p_msg'.opcode = opcode
  BY <1>1 DEF Message
<1>3. Pending' = Pending \cup {r}
  <2> HIDE DEF r
  <2>1. gp_queue_head \in Seq(Requests)
    BY DEF TypeOK
  <2>2. {gp_queue_head'[j] : j \in DOMAIN gp_queue_head'}
          = {gp_queue_head[j] : j \in DOMAIN gp_queue_head} \cup {r}
    BY <1>1, <2>1
  <2>3. {p_request'[t] : t \in Holding'} = {p_request[t] : t \in Holding}
    BY <1>1 DEF Holding
  <2> QED
    BY <2>2, <2>3 DEF Pending
<1>4. NextNumber = g_last_assignment /\ NextNumber' = g_last_assignment + 1
  BY <1>1 DEF NextNumber
<1> QED
  BY <1>1, <1>2, <1>3, <1>4, SameRequests DEF WS!Accept, WS!Idle, StoreOf

LEMMA AssignIsAcknowledge ==
  ASSUME TypeOK, MessageFine, AssignNumber
  PROVE  WS!Acknowledge
<1>1. /\ main = "assign" /\ main' = "send"
      /\ p_msg' = Message(p_msg.opcode + 1, CT_RESULT, g_last_assignment, NULL)
      /\ g_last_assignment' = g_last_assignment + 1
      /\ UNCHANGED <<gp_TREE, gp_queue_head, pc, p_request>>
  BY DEF AssignNumber, threadVars
<1>2. p_msg.opcode \in Int /\ p_msg.opcode # NULL
  BY <1>1, NullAssumption DEF MessageFine
<1>3. UNCHANGED Pending
  BY <1>1, PendingStays DEF Holding
<1>4. NextNumber - 1 = g_last_assignment /\ UNCHANGED NextNumber
  BY <1>1 DEF NextNumber, TypeOK
<1> QED
  BY <1>1, <1>2, <1>3, <1>4, SameMessages, SameCodes DEF WS!Acknowledge, StoreOf

LEMMA SendIsDeliver ==
  ASSUME MessageFine, SendAnswer
  PROVE  WS!Deliver
<1>1. /\ main = "send" /\ main' = "poll"
      /\ UNCHANGED <<g_last_assignment, gp_TREE, gp_queue_head, pc, p_request>>
  BY DEF SendAnswer, threadVars
<1>2. p_msg # NULL
  BY <1>1, NullAssumption DEF MessageFine, Answers
<1>3. UNCHANGED Pending
  BY <1>1, PendingStays DEF Holding
<1> QED
  BY <1>1, <1>2, <1>3 DEF WS!Deliver, NextNumber, StoreOf

(***************************************************************************)
(* Requests that all lie with workers other than t are fewer than NThreads. *)
(***************************************************************************)
LEMMA FewPending ==
  ASSUME NEW t \in Thread, NEW n,
         \A r \in Pending : r.op_n <= n => \E u \in Thread \ {t} : p_request[u] = r
  PROVE  Cardinality(WS!PendingUpTo(n)) < NThreads
<1> DEFINE Low == {r \in Pending : r.op_n <= n}
           T == {u \in Thread \ {t} : p_request[u] \in Low}
           held == [u \in T |-> p_request[u]]
<1>1. held \in Surjection(T, Low)
  BY DEF Surjection
<1>2. T \in SUBSET (Thread \ {t})
  OBVIOUS
<1>3. /\ IsFiniteSet(Thread \ {t})
      /\ Cardinality(Thread \ {t}) = NThreads - 1
  <2>1. IsFiniteSet(Thread) /\ Cardinality(Thread) = NThreads
    BY SkelAssumption, FS_Interval DEF Thread
  <2> QED
    BY <2>1, FS_RemoveElement
<1>4. IsFiniteSet(T) /\ Cardinality(T) <= NThreads - 1
  BY <1>2, <1>3, FS_Subset
<1>5. IsFiniteSet(Low) /\ Cardinality(Low) <= Cardinality(T)
  BY <1>1, <1>4, FS_Surjection
<1>6. Cardinality(Low) \in Nat /\ Cardinality(T) \in Nat
  BY <1>4, <1>5, FS_CardinalityType
<1>7. WS!PendingUpTo(n) = Low
  BY DEF WS!PendingUpTo
<1> QED
  BY <1>4, <1>5, <1>6, <1>7, SkelAssumption

LEMMA AskIsVerify ==
  ASSUME TypeOK, InOrder, SomeoneNotBehind, NEW n \in AskedNumbers, imvoke_verify(n)
  PROVE  WS!Verify(n) \/ WS!RefuseVerify(n)
<1>1. main = "poll" /\ NextNumber = g_last_assignment /\ n \in Int
      /\ g_last_assignment \in Int
  BY SkelAssumption DEF imvoke_verify, AnswerRead, Answer, NextNumber, TypeOK
<1>2. CASE AnswerRead(Message(OP_ERROR, CT_NONE, n, NULL))
           /\ (n < 1 \/ n >= g_last_assignment)
  <2>1. WS!Tell(WS!Message(WS!OP_ERROR, WS!CT_NONE, n, NULL))
    BY <1>2, ReadIsTell, SameMessages, SameCodes
  <2>2. n \notin 1 .. NextNumber - 1
    BY <1>1, <1>2
  <2> QED
    BY <2>1, <2>2 DEF WS!RefuseVerify
<1>3. CASE /\ n >= 1 /\ n < g_last_assignment
           /\ Answer(Message(OP_VERIFY + 1, CT_RESULT, verify(n), NULL))
           /\ g_last_assignment' = g_last_assignment + 1
  <2>1. /\ main' = "send"
        /\ p_msg' = Message(OP_VERIFY + 1, CT_RESULT, verify(n), NULL)
        /\ UNCHANGED <<gp_TREE, gp_queue_head, pc, p_request>>
    BY <1>3 DEF Answer, threadVars
  <2>2. UNCHANGED Pending
    BY <2>1, PendingStays DEF Holding
  <2>3. n \in 1 .. NextNumber - 1 /\ NextNumber' = NextNumber + 1
    BY <1>1, <1>3, <2>1 DEF NextNumber
  <2>4. verify(n) = 0 => Cardinality(WS!PendingUpTo(n)) < NThreads
    <3> SUFFICES ASSUME n <= max_proc
                 PROVE  Cardinality(WS!PendingUpTo(n)) < NThreads
      BY DEF verify
    <3>1. PICK t \in Thread : t \notin Behind
      BY DEF SomeoneNotBehind
    <3>2. ASSUME NEW r \in Pending, r.op_n <= n
          PROVE  \E u \in Thread \ {t} : p_request[u] = r
      <4>1. ASSUME NEW j \in DOMAIN gp_queue_head
            PROVE  ~(gp_queue_head[j].op_n <= n)
        <5>1. gp_queue_head[j].op_n \in Int /\ max_proc \in Int
          BY QueueTypes
        <5>2. max_proc < gp_queue_head[j].op_n
          BY DEF InOrder
        <5> QED
          BY <1>1, <5>1, <5>2
      <4>2. PICK u \in Holding : p_request[u] = r
        BY <3>2, <4>1 DEF Pending
      <4>3. p_request[u].op_n <= max_proc
        <5>1. p_request[u].op_n \in Int /\ max_proc \in Int
          BY QueueTypes DEF Holding, Working
        <5> QED
          BY <1>1, <3>2, <4>2, <5>1
      <4>4. u \in Behind
        BY <4>3 DEF Behind
      <4> QED
        BY <3>1, <4>2, <4>4 DEF Behind, Holding
    <3> QED
      BY <3>2, FewPending
  <2>5. verify(n) \in {0, -1}
    BY DEF verify
  <2>6. CASE verify(n) = -1
    BY <1>1, <2>1, <2>2, <2>3, <2>6, SameMessages, SameCodes
    DEF WS!Verify, WS!Idle, StoreOf
  <2>7. CASE verify(n) = 0
    BY <1>1, <2>1, <2>2, <2>3, <2>4, <2>7, SameMessages, SameCodes, SameOperators
    DEF WS!Verify, WS!Idle, StoreOf
  <2> QED
    BY <2>5, <2>6, <2>7
<1> QED
  BY <1>2, <1>3 DEF imvoke_verify

(***************************************************************************)
(* The steps of the workers: only ApplyRequest shows.                      *)
(***************************************************************************)
LEMMA ApplyIsApply ==
  ASSUME TypeOK, InOrder, TreeFine, NEW t \in Thread, ApplyRequest(t)
  PROVE  \E r \in Pending : WS!Apply(r)
<1> DEFINE r == p_request[t]
<1>1. /\ t \in Holding /\ t \in Working /\ r \in Pending
      /\ Holding' = Holding \ {t}
      /\ UNCHANGED <<main, p_msg, g_last_assignment, gp_queue_head, p_request>>
  BY DEF ApplyRequest, Holding, Working, Pending, TypeOK, mainVars
<1>2. \A u \in Holding : u \in Working /\ u \in Thread
  BY DEF Holding, Working
<1>3. \A j \in DOMAIN gp_queue_head : r.op_n < gp_queue_head[j].op_n
  BY <1>1 DEF InOrder
<1>4. \A u \in Holding \ {t} : p_request[u].op_n # r.op_n
  BY <1>1, <1>2 DEF InOrder
<1>5. r.op_n \in Int /\ \A j \in DOMAIN gp_queue_head : gp_queue_head[j].op_n \in Int
  BY <1>1, QueueTypes
<1>6. Cardinality(WS!PendingUpTo(r.op_n - 1)) < NThreads
  <2>1. ASSUME NEW q \in Pending, q.op_n <= r.op_n - 1
        PROVE  \E u \in Thread \ {t} : p_request[u] = q
    <3>1. \A j \in DOMAIN gp_queue_head : q # gp_queue_head[j]
      <4>1. ASSUME NEW j \in DOMAIN gp_queue_head
            PROVE  ~(gp_queue_head[j].op_n <= r.op_n - 1)
        BY <1>3, <1>5
      <4> QED
        BY <2>1, <4>1
    <3>2. PICK u \in Holding : p_request[u] = q
      BY <3>1 DEF Pending
    <3>3. u # t
      BY <1>5, <2>1, <3>2
    <3> QED
      BY <1>2, <3>2, <3>3
  <2> QED
    BY <2>1, FewPending
<1>7. Pending' = Pending \ {r}
  <2>1. \A j \in DOMAIN gp_queue_head : gp_queue_head[j] # r
    <3>1. ASSUME NEW j \in DOMAIN gp_queue_head
          PROVE  gp_queue_head[j].op_n # r.op_n
      BY <1>3, <1>5
    <3> QED
      BY <3>1
  <2>2. \A u \in Holding \ {t} : p_request[u] # r
    BY <1>4
  <2>3. Pending = {gp_queue_head[j] : j \in DOMAIN gp_queue_head}
                    \cup {p_request[u] : u \in Holding \ {t}} \cup {r}
    BY <1>1 DEF Pending
  <2>4. Pending' = {gp_queue_head[j] : j \in DOMAIN gp_queue_head}
                     \cup {p_request[u] : u \in Holding \ {t}}
    BY <1>1 DEF Pending
  <2> HIDE DEF r
  <2> QED
    BY <2>1, <2>2, <2>3, <2>4
<1>8. UNCHANGED NextNumber
  BY <1>1 DEF NextNumber
<1>9. \/ r.op = REQUEST_PUT
         /\ StoreOf(gp_TREE)' = StorePut(StoreOf(gp_TREE), r.p_key, r.p_data)
      \/ r.op = REQUEST_DEL
         /\ StoreOf(gp_TREE)' = StoreDel(StoreOf(gp_TREE), r.p_key)
  BY AppliedTree
<1>10. WS!Apply(r)
  BY <1>1, <1>6, <1>7, <1>8, <1>9, SameOperators, SameCodes DEF WS!Apply
<1> QED
  BY <1>1, <1>10

LEMMA TakingIsNothing ==
  ASSUME TypeOK, NEW t \in Thread, queue_get_next_request(t)
  PROVE  UNCHANGED WS!vars
<1> DEFINE q == gp_queue_head
<1>1. /\ Holding' = Holding \cup {t} /\ t \notin Holding
      /\ p_request'[t] = Head(q)
      /\ \A u \in Holding : p_request'[u] = p_request[u]
      /\ q' = Tail(q) /\ q # <<>> /\ q \in Seq(Requests)
      /\ UNCHANGED <<main, p_msg, g_last_assignment, gp_TREE>>
  BY DEF queue_get_next_request, Holding, TypeOK, mainVars
<1>2. {p_request'[u] : u \in Holding'} = {p_request[u] : u \in Holding} \cup {Head(q)}
  BY <1>1
<1>3. {q[j] : j \in DOMAIN q} = {q'[j] : j \in DOMAIN q'} \cup {Head(q)}
  <2>1. /\ DOMAIN q = 1 .. Len(q) /\ DOMAIN q' = 1 .. Len(q) - 1 /\ Len(q) \in Nat
        /\ Len(q) > 0 /\ Head(q) = q[1]
        /\ \A j \in 1 .. Len(q) - 1 : q'[j] = q[j + 1]
    BY <1>1
  <2>2. ASSUME NEW j \in DOMAIN q
        PROVE  q[j] \in {q'[i] : i \in DOMAIN q'} \cup {Head(q)}
    <3>1. CASE j = 1
      BY <2>1, <3>1
    <3>2. CASE j # 1
      <4>1. j - 1 \in DOMAIN q' /\ q'[j - 1] = q[j]
        BY <2>1, <3>2
      <4> QED
        BY <4>1
    <3> QED
      BY <3>1, <3>2
  <2>3. ASSUME NEW i \in DOMAIN q'
        PROVE  q'[i] \in {q[j] : j \in DOMAIN q}
    <3>1. i + 1 \in DOMAIN q /\ q[i + 1] = q'[i]
      BY <2>1
    <3> QED
      BY <3>1
  <2> DEFINE Old == {q[j] : j \in DOMAIN q}
             New == {q'[i] : i \in DOMAIN q'}
  <2>4. Head(q) \in Old
    <3>1. 1 \in DOMAIN q /\ Head(q) = q[1]
      BY <2>1
    <3> QED
      BY <3>1, Zenon
  <2>5. Old \subseteq New \cup {Head(q)}
    BY <2>2
  <2>6. New \subseteq Old
    BY <2>3
  <2> HIDE DEF Old, New
  <2>7. Old = New \cup {Head(q)}
    BY <2>4, <2>5, <2>6, Zenon
  <2> QED
    BY <2>7, Zenon DEF Old, New
<1>4. UNCHANGED Pending
  BY <1>2, <1>3 DEF Pending
<1> QED
  BY <1>1, <1>4 DEF WS!vars, NextNumber

LEMMA OtherStepsShowNothing ==
  ASSUME TypeOK, NEW t \in Thread,
         \/ StartThread(t) \/ MarkInProgress(t)
         \/ ClearInProgress(t) \/ CompareMaxProc(t) \/ op_proc_set_max_proc(t)
  PROVE  UNCHANGED WS!vars
<1>1. /\ UNCHANGED <<main, p_msg, g_last_assignment, gp_TREE, gp_queue_head>>
  BY DEF StartThread, MarkInProgress, ClearInProgress, CompareMaxProc,
     op_proc_set_max_proc, mainVars
<1>2. Holding' = Holding
  BY DEF StartThread, MarkInProgress, ClearInProgress, CompareMaxProc,
     op_proc_set_max_proc, Holding, TypeOK
<1>3. \A u \in Holding : p_request'[u] = p_request[u]
  BY DEF StartThread, MarkInProgress, ClearInProgress, CompareMaxProc,
     op_proc_set_max_proc, Holding, TypeOK
<1>4. UNCHANGED Pending
  BY <1>1, <1>2, <1>3, PendingStays
<1> QED
  BY <1>1, <1>4 DEF WS!vars, NextNumber

LEMMA MainShowsNothing ==
  ASSUME \/ tree_skel_init /\ TypeOK
         \/ UNCHANGED vars
  PROVE  UNCHANGED WS!vars
<1>1. UNCHANGED <<gp_TREE, gp_queue_head, p_request, p_msg, g_last_assignment>>
  BY DEF tree_skel_init, CreateThread, IncrementLoopVariable, InitReturns,
     vars, mainVars, threadVars
<1>2. \/ UNCHANGED main
      \/ main = "init" /\ main' = "poll"
  BY DEF tree_skel_init, CreateThread, IncrementLoopVariable, InitReturns,
     vars, mainVars
<1>3. Holding' = Holding
  BY DEF tree_skel_init, CreateThread, IncrementLoopVariable, InitReturns,
     vars, threadVars, Holding, TypeOK, Thread
<1>4. UNCHANGED Pending
  BY <1>1, <1>3, PendingStays
<1> QED
  BY <1>1, <1>2, <1>4 DEF WS!vars, NextNumber

(***************************************************************************)
(* What the skeleton answers to a read is what WriteService allows.        *)
(***************************************************************************)
LEMMA ReadsAreReads ==
  ASSUME TreeFine,
         \/ imvoke_size \/ imvoke_height \/ imvoke_getkeys \/ imvoke_getvalues
         \/ \E k \in Keys : imvoke_get(k)
  PROVE  WS!Next
<1> DEFINE S == StoreOf(gp_TREE)
<1>1. CASE imvoke_size
  <2>1. tree_size(gp_TREE) = WS!Cardinality(DOMAIN S)
    BY ReadFacts, SameOperators
  <2>2. WS!ReadSize
    BY <1>1, <2>1, ReadIsTell, SameMessages, SameCodes DEF imvoke_size, WS!ReadSize
  <2> QED
    BY <2>2 DEF WS!Next
<1>2. CASE imvoke_height
  <2>1. tree_height(gp_TREE) \in WS!Heights(S)
    BY ReadFacts, SameHeights
  <2>2. WS!ReadHeight
    BY <1>2, <2>1, ReadIsTell, SameMessages, SameCodes DEF imvoke_height, WS!ReadHeight
  <2> QED
    BY <2>2 DEF WS!Next
<1>3. CASE imvoke_getkeys
  <2>1. [j \in 1 .. tree_size(gp_TREE) |-> tree_get_keys(gp_TREE)[j]] = WS!KeysOf(S)
    BY ReadFacts, SameSequences
  <2>2. WS!ReadKeys
    BY <1>3, <2>1, ReadIsTell, SameMessages, SameCodes DEF imvoke_getkeys, WS!ReadKeys
  <2> QED
    BY <2>2 DEF WS!Next
<1>4. CASE imvoke_getvalues
  <2>1. [j \in 1 .. tree_size(gp_TREE) |-> tree_get_values(gp_TREE)[j]] = WS!ValuesOf(S)
    BY ReadFacts, SameSequences
  <2>2. WS!ReadValues
    BY <1>4, <2>1, ReadIsTell, SameMessages, SameCodes
    DEF imvoke_getvalues, WS!ReadValues
  <2> QED
    BY <2>2 DEF WS!Next
<1>5. ASSUME NEW k \in Keys, imvoke_get(k)
      PROVE  WS!Next
  <2>1. tree_get(gp_TREE, k) = WS!StoreGet(S, k)
    BY ReadFacts, SameOperators
  <2>2. WS!ReadValue(k)
    BY <1>5, <2>1, ReadIsTell, SameMessages, SameCodes DEF imvoke_get, WS!ReadValue
  <2> QED
    BY <2>2 DEF WS!Next
<1> QED
  BY <1>1, <1>2, <1>3, <1>4, <1>5

LEMMA ServiceInit == Init => WS!Init
<1> SUFFICES ASSUME Init
             PROVE  WS!Init
  OBVIOUS
<1>1. Pending = {}
  BY DEF Init, Pending, Holding
<1>2. StoreOf(gp_TREE) = WS!EmptyStore
  BY NothingYet, SameOperators DEF Init
<1> QED
  BY <1>1, <1>2 DEF Init, NextNumber, WS!Init

LEMMA ServiceStep ==
  TypeOK /\ InOrder /\ SomeoneNotBehind /\ TreeFine /\ MessageFine
    /\ [Next]_vars => [WS!Next]_(WS!vars)
<1> SUFFICES ASSUME TypeOK, InOrder, SomeoneNotBehind, TreeFine, MessageFine,
                    [Next]_vars
             PROVE  WS!Next \/ UNCHANGED WS!vars
  OBVIOUS
<1>1. ASSUME NEW k \in Keys, NEW v \in Values, imvoke_put(k, v)
      PROVE  WS!Next
  <2>1. WS!Accept(WS!OP_PUT, WS!REQUEST_PUT, k, v)
    BY <1>1, WriteIsAccept, SameCodes DEF imvoke_put
  <2> QED
    BY <2>1 DEF WS!Next
<1>2. ASSUME NEW k \in Keys, imvoke_del(k)
      PROVE  WS!Next
  <2>1. WS!Accept(WS!OP_DEL, WS!REQUEST_DEL, k, NULL)
    BY <1>2, WriteIsAccept, SameCodes DEF imvoke_del
  <2> QED
    BY <2>1 DEF WS!Next
<1>3. CASE \/ imvoke_size \/ imvoke_height \/ imvoke_getkeys \/ imvoke_getvalues
           \/ \E k \in Keys : imvoke_get(k)
  BY <1>3, ReadsAreReads
<1>4. CASE \E n \in AskedNumbers : imvoke_verify(n)
  BY <1>4, AskIsVerify DEF WS!Next
<1>5. CASE AssignNumber
  BY <1>5, AssignIsAcknowledge DEF WS!Next
<1>6. CASE SendAnswer
  BY <1>6, SendIsDeliver DEF WS!Next
<1>7. ASSUME NEW t \in Thread, ApplyRequest(t)
      PROVE  WS!Next
  BY <1>7, ApplyIsApply DEF WS!Next
<1>8. ASSUME NEW t \in Thread, process_request(t), ~ApplyRequest(t)
      PROVE  UNCHANGED WS!vars
  BY <1>8, TakingIsNothing, OtherStepsShowNothing DEF process_request
<1>9. CASE \/ tree_skel_init
           \/ UNCHANGED vars
  BY <1>9, MainShowsNothing
<1>10. CASE ServeMessage
  BY <1>1, <1>2, <1>3, <1>4, <1>5, <1>6, <1>10 DEF ServeMessage
<1> QED
  BY <1>7, <1>8, <1>9, <1>10 DEF Next

(***************************************************************************)
(* The skeleton keeps the promises of WriteService (imvoke and             *)
(* process_request on the tree) until a SIGINT arrives: every accepted     *)
(* write is applied once and is overtaken by fewer writes than there are   *)
(* workers, reads are answered from the map the tree stands for, and       *)
(* "done" is wrong about fewer writes than there are workers.              *)
(***************************************************************************)
THEOREM SkeletonIsService == Spec => ImplementsWriteService
  BY TypeInit, TypeStep, InOrderInit, InOrderStep, SomeoneInit, SomeoneStep,
     TreeInit, TreeStep, MessageInit, MessageStep, ServiceInit, ServiceStep, PTL
  DEF Spec, ImplementsWriteService, WS!Spec
-----------------------------------------------------------------------------
(***************************************************************************)
(* One worker and the order of acceptance.  While writes are pending, the  *)
(* newest one of each key has left its mark in ordered, and at the keys    *)
(* that no pending write has, ordered and the tree agree.                  *)
(***************************************************************************)
SameAt(s, u, k) == (k \in DOMAIN s <=> k \in DOMAIN u) /\ (k \in DOMAIN s => s[k] = u[k])

Written(s, r) ==
  IF r.op = REQUEST_PUT THEN StorePut(s, r.p_key, r.p_data) ELSE StoreDel(s, r.p_key)

Shows(s, r) ==
  IF r.op = REQUEST_PUT THEN r.p_key \in DOMAIN s /\ s[r.p_key] = r.p_data
                        ELSE r.p_key \notin DOMAIN s

Newest(r) == r \in Pending /\ \A q \in Pending : q.p_key = r.p_key => q.op_n <= r.op_n

AheadOfTree ==
  /\ DOMAIN ordered \subseteq Keys
  /\ ordered = [k \in DOMAIN ordered |-> ordered[k]]
  /\ \A r \in Requests : Newest(r) => Shows(ordered, r)
  /\ \A k \in Keys :
       (\A r \in Pending : r.p_key # k) => SameAt(ordered, StoreOf(gp_TREE), k)

LEMMA WrittenShows ==
  ASSUME NEW s, NEW r
  PROVE  /\ Shows(Written(s, r), r)
         /\ \A k : k # r.p_key => SameAt(Written(s, r), s, k)
         /\ DOMAIN Written(s, r) \subseteq DOMAIN s \cup {r.p_key}
         /\ Written(s, r) = [k \in DOMAIN Written(s, r) |-> Written(s, r)[k]]
<1>1. CASE r.op = REQUEST_PUT
  <2>1. Written(s, r) = [x \in DOMAIN s \cup {r.p_key} |->
                           IF x = r.p_key THEN r.p_data ELSE s[x]]
    BY <1>1 DEF Written, StorePut
  <2> QED
    BY <1>1, <2>1 DEF Shows, SameAt
<1>2. CASE r.op # REQUEST_PUT
  <2>1. Written(s, r) = [x \in DOMAIN s \ {r.p_key} |-> s[x]]
    BY <1>2 DEF Written, StoreDel
  <2> QED
    BY <1>2, <2>1 DEF Shows, SameAt
<1> QED
  BY <1>1, <1>2

LEMMA PendingNumbers ==
  ASSUME TypeOK, InOrder
  PROVE  /\ Pending \subseteq Requests
         /\ \A r \in Pending : r.op_n \in Int /\ r.op_n < NextNumber
         /\ NextNumber \in Int
<1>1. Holding \subseteq Working
  BY DEF Holding, Working
<1>2. Pending \subseteq Requests
  <2>1. \A j \in DOMAIN gp_queue_head : gp_queue_head[j] \in Requests
    BY QueueTypes
  <2>2. \A t \in Holding : p_request[t] \in Requests
    BY <1>1 DEF TypeOK, Working
  <2> QED
    BY <2>1, <2>2 DEF Pending
<1>3. \A r \in Requests : r.op_n \in Int
  BY SkelAssumption DEF Requests
<1>4. \A r \in Pending : r.op_n < NextNumber
  BY <1>1 DEF Pending, InOrder
<1> QED
  BY <1>2, <1>3, <1>4, QueueTypes

(***************************************************************************)
(* The steps of TreeSkelHistory.                                           *)
(***************************************************************************)
AcceptedLast(r) ==
  /\ r.op_n = NextNumber
  /\ Pending' = Pending \cup {r}
  /\ ordered' = Written(ordered, r)
  /\ UNCHANGED gp_TREE

LEMMA WriteIsAccepted ==
  ASSUME TypeOK, NEW opcode, NEW op, NEW k \in Keys, NEW d,
         \/ op = REQUEST_PUT /\ d \in Values
         \/ op = REQUEST_DEL /\ d = NULL,
         imvoke_write(opcode, op, k, d), HistoryNext
  PROVE  \E r \in Requests : AcceptedLast(r)
<1> DEFINE r == request_create(g_last_assignment, op, k, d)
<1>1. /\ main = "poll" /\ main' = "assign" /\ gp_queue_head' = Append(gp_queue_head, r)
      /\ g_last_assignment < MaxAssignment /\ UNCHANGED gp_TREE
  BY DEF imvoke_write, queue_add_request
<1>2. r \in Requests
  <2>1. g_last_assignment \in 1 .. MaxAssignment
    BY <1>1, SkelAssumption DEF TypeOK
  <2> QED
    BY <2>1 DEF Requests, request_create
<1>3. r.op_n = NextNumber
  BY <1>1 DEF NextNumber, request_create
<1>4. Pending' = Pending \cup {r}
  BY WriteIsAccept, SameRequests, <1>1 DEF WS!Accept, NextNumber
<1>5. Last(gp_queue_head') = r
  <2> HIDE DEF r
  <2> QED
    BY <1>1 DEF Last, TypeOK
<1>6. ordered' = Written(ordered, r)
  BY <1>1, <1>5 DEF HistoryNext, Written
<1> HIDE DEF r
<1> QED
  BY <1>1, <1>2, <1>3, <1>4, <1>6 DEF AcceptedLast

LEMMA HistoryKinds ==
  ASSUME TypeOK, [HistoryNext]_historyVars
  PROVE  \/ \E r \in Requests : AcceptedLast(r)
         \/ (\E t \in Thread : ApplyRequest(t)) /\ UNCHANGED ordered
         \/ UNCHANGED <<Pending, gp_TREE, ordered>>
<1>1. ASSUME UNCHANGED <<gp_queue_head, gp_TREE, threadVars>>, ~(main = "poll" /\ main' = "assign")
      PROVE  UNCHANGED <<Pending, gp_TREE, ordered>>
  <2>1. UNCHANGED ordered
    BY <1>1 DEF HistoryNext, historyVars
  <2>2. UNCHANGED <<gp_queue_head, pc, p_request>>
    BY <1>1 DEF threadVars
  <2>3. UNCHANGED Pending
    BY <2>2, PendingStays DEF Holding
  <2> QED
    BY <1>1, <2>1, <2>3
<1>2. ASSUME NEW k \in Keys, NEW v \in Values, imvoke_put(k, v), HistoryNext
      PROVE  \E r \in Requests : AcceptedLast(r)
  BY <1>2, WriteIsAccepted DEF imvoke_put
<1>3. ASSUME NEW k \in Keys, imvoke_del(k), HistoryNext
      PROVE  \E r \in Requests : AcceptedLast(r)
  BY <1>3, WriteIsAccepted DEF imvoke_del
<1>4. CASE \/ imvoke_size \/ imvoke_height \/ imvoke_getkeys \/ imvoke_getvalues
           \/ \E k \in Keys : imvoke_get(k)
           \/ \E n \in AskedNumbers : imvoke_verify(n)
           \/ AssignNumber \/ SendAnswer
  BY <1>1, <1>4 DEF imvoke_size, imvoke_height, imvoke_getkeys, imvoke_getvalues, imvoke_get,
                    imvoke_verify, AnswerRead, Answer, AssignNumber, SendAnswer
<1>5. ASSUME NEW t \in Thread, process_request(t), [HistoryNext]_historyVars
      PROVE  \/ (\E u \in Thread : ApplyRequest(u)) /\ UNCHANGED ordered
             \/ UNCHANGED <<Pending, gp_TREE, ordered>>
  <2>1. UNCHANGED main
    BY <1>5 DEF process_request, StartThread, queue_get_next_request,
                MarkInProgress, ApplyRequest, ClearInProgress, CompareMaxProc,
                op_proc_set_max_proc, mainVars
  <2>2. UNCHANGED ordered
    BY <1>5, <2>1 DEF HistoryNext, historyVars
  <2>3. CASE ~ApplyRequest(t)
    <3>1. UNCHANGED Pending
      BY <1>5, <2>3, TakingIsNothing, OtherStepsShowNothing DEF process_request, WS!vars
    <3>2. UNCHANGED gp_TREE
      BY <1>5, <2>3 DEF process_request, StartThread, queue_get_next_request,
                        MarkInProgress, ClearInProgress, CompareMaxProc,
                        op_proc_set_max_proc
    <3> QED
      BY <2>2, <3>1, <3>2
  <2> QED
    BY <2>2, <2>3
<1>6. CASE tree_skel_init
  <2>1. UNCHANGED Pending
    BY <1>6, MainShowsNothing DEF WS!vars
  <2>2. UNCHANGED gp_TREE /\ (main' = "poll" \/ main' = main)
    BY <1>6 DEF tree_skel_init, CreateThread, IncrementLoopVariable, InitReturns, mainVars
  <2>3. UNCHANGED ordered
    BY <2>2 DEF HistoryNext, historyVars
  <2> QED
    BY <2>1, <2>2, <2>3
<1>7. CASE UNCHANGED historyVars
  <2>1. UNCHANGED <<gp_queue_head, gp_TREE, threadVars, main>>
    BY <1>7 DEF historyVars, vars, mainVars
  <2> QED
    BY <1>1, <2>1
<1>8. HistoryNext => Next
  BY DEF HistoryNext
<1> QED
  BY <1>2, <1>3, <1>4, <1>5, <1>6, <1>7, <1>8 DEF Next, ServeMessage

LEMMA AheadInit == HistoryInit => AheadOfTree
<1> SUFFICES ASSUME HistoryInit
             PROVE  AheadOfTree
  OBVIOUS
<1>1. Pending = {} /\ ordered = EmptyStore
  BY DEF HistoryInit, Init, Pending, Holding
<1>2. StoreOf(gp_TREE) = EmptyStore
  BY NothingYet DEF HistoryInit, Init
<1> QED
  BY <1>1, <1>2 DEF AheadOfTree, SameAt, Newest, EmptyStore

LEMMA AheadStep ==
  ASSUME NThreads = 1, TypeOK, InOrder, TreeFine, AheadOfTree, [HistoryNext]_historyVars
  PROVE  AheadOfTree'
<1>1. CASE UNCHANGED <<Pending, gp_TREE, ordered>>
  BY <1>1 DEF AheadOfTree, Newest, StoreOf
<1>2. ASSUME NEW r \in Requests, AcceptedLast(r)
      PROVE  AheadOfTree'
  <2>1. /\ r.op_n = NextNumber /\ Pending' = Pending \cup {r}
        /\ ordered' = Written(ordered, r) /\ UNCHANGED StoreOf(gp_TREE)
        /\ r.p_key \in Keys
    BY <1>2, RequestParts DEF AcceptedLast, StoreOf
  <2>2. /\ Shows(ordered', r)
        /\ \A k : k # r.p_key => SameAt(ordered', ordered, k)
        /\ DOMAIN ordered' \subseteq DOMAIN ordered \cup {r.p_key}
        /\ ordered' = [k \in DOMAIN ordered' |-> ordered'[k]]
    BY <2>1, WrittenShows
  <2>3. ASSUME NEW q \in Requests, Newest(q)'
        PROVE  Shows(ordered', q)
    <3>1. CASE q.p_key = r.p_key
      <4>1. r.op_n <= q.op_n
        BY <2>1, <2>3, <3>1 DEF Newest
      <4>2. q = r
        BY <2>1, <2>3, <4>1, PendingNumbers DEF Newest
      <4> QED
        BY <2>2, <4>2
    <3>2. CASE q.p_key # r.p_key
      <4>1. Newest(q)
        BY <2>1, <2>3, <3>2 DEF Newest
      <4>2. Shows(ordered, q)
        BY <4>1 DEF AheadOfTree
      <4> QED
        BY <2>2, <3>2, <4>2 DEF Shows, SameAt
    <3> QED
      BY <3>1, <3>2
  <2>4. ASSUME NEW k \in Keys, \A q \in Pending' : q.p_key # k
        PROVE  SameAt(ordered', StoreOf(gp_TREE)', k)
    <3>1. k # r.p_key /\ SameAt(ordered, StoreOf(gp_TREE), k)
      BY <2>1, <2>4 DEF AheadOfTree
    <3> QED
      BY <2>1, <2>2, <3>1 DEF SameAt
  <2> QED
    BY <2>1, <2>2, <2>3, <2>4 DEF AheadOfTree
<1>3. ASSUME NEW t \in Thread, ApplyRequest(t), UNCHANGED ordered
      PROVE  AheadOfTree'
  <2> DEFINE S == StoreOf(gp_TREE)
  <2>1. PICK r \in Requests : r = p_request[t]
    BY <1>3, AppliedTree
  <2>2. S' = Written(S, r)
    BY <1>3, <2>1, AppliedTree DEF Written, REQUEST_PUT, REQUEST_DEL
  <2>3. /\ t \in Holding /\ t \in Working /\ r \in Pending /\ Holding' = Holding \ {t}
        /\ UNCHANGED <<gp_queue_head, p_request>>
    BY <1>3, <2>1 DEF ApplyRequest, Holding, Working, Pending, TypeOK
  <2>4. Holding = {t}
    BY <2>3 DEF Holding, Thread
  <2>5. \A q \in Pending : q = r \/ r.op_n < q.op_n
    BY <2>1, <2>3, <2>4 DEF Pending, InOrder
  <2>6. Pending' = Pending \ {r}
    <3>1. \A j \in DOMAIN gp_queue_head : gp_queue_head[j] # r
      <4>1. ASSUME NEW j \in DOMAIN gp_queue_head
            PROVE  gp_queue_head[j] # r
        <5>1. r.op_n < gp_queue_head[j].op_n
          BY <2>1, <2>3 DEF InOrder
        <5>2. r.op_n \in Int
          BY <2>3, PendingNumbers
        <5> QED
          BY <5>1, <5>2
      <4> QED
        BY <4>1
    <3>2. Pending = {gp_queue_head[j] : j \in DOMAIN gp_queue_head} \cup {r}
      BY <2>1, <2>4 DEF Pending
    <3>3. Pending' = {gp_queue_head[j] : j \in DOMAIN gp_queue_head}
      BY <2>3, <2>4 DEF Pending
    <3> QED
      BY <3>1, <3>2, <3>3
  <2>7. ASSUME NEW q \in Requests, Newest(q)'
        PROVE  Shows(ordered', q)
    <3>1. q \in Pending /\ q # r /\ \A p \in Pending \ {r} : p.p_key = q.p_key => p.op_n <= q.op_n
      BY <2>6, <2>7 DEF Newest
    <3>2. r.op_n <= q.op_n
      BY <2>3, <2>5, <3>1, PendingNumbers
    <3>3. Newest(q)
      BY <3>1, <3>2 DEF Newest
    <3> QED
      BY <1>3, <3>3 DEF AheadOfTree
  <2>8. ASSUME NEW k \in Keys, \A q \in Pending' : q.p_key # k
        PROVE  SameAt(ordered', S', k)
    <3>1. CASE k = r.p_key
      <4>1. Newest(r)
        BY <2>3, <2>6, <2>8, <3>1, PendingNumbers DEF Newest
      <4>2. Shows(ordered, r) /\ Shows(S', r)
        BY <2>2, <4>1, WrittenShows DEF AheadOfTree
      <4> HIDE DEF S
      <4> QED
        BY <1>3, <3>1, <4>2 DEF Shows, SameAt
    <3>2. CASE k # r.p_key
      <4>1. SameAt(ordered, S, k)
        BY <2>6, <2>8, <3>2 DEF AheadOfTree
      <4>2. SameAt(S', S, k)
        BY <2>2, <3>2, WrittenShows
      <4> HIDE DEF S
      <4> QED
        BY <1>3, <4>1, <4>2 DEF SameAt
    <3> QED
      BY <3>1, <3>2
  <2> QED
    BY <1>3, <2>7, <2>8 DEF AheadOfTree
<1> QED
  BY <1>1, <1>2, <1>3, HistoryKinds

(***************************************************************************)
(* With one worker, writes of any clients to any keys take effect in the   *)
(* order in which imvoke accepted them: once none is pending, the tree is  *)
(* what they make in that order (queue_add_request, process_request).      *)
(***************************************************************************)
THEOREM OneWorkerKeepsOrder == NThreads = 1 => (HistorySpec => []LastWriteWins)
<1> SUFFICES ASSUME NThreads = 1
             PROVE  HistorySpec => []LastWriteWins
  OBVIOUS
<1>1. HistoryInit => Init
  BY DEF HistoryInit
<1>2. [HistoryNext]_historyVars => [Next]_vars
  BY DEF HistoryNext, historyVars
<1>3. TypeOK /\ InOrder /\ TreeFine /\ AheadOfTree /\ [HistoryNext]_historyVars
        => AheadOfTree'
  BY AheadStep
<1>4. TreeFine /\ AheadOfTree => LastWriteWins
  <2> SUFFICES ASSUME TreeFine, AheadOfTree, Pending = {}
               PROVE  StoreOf(gp_TREE) = ordered
    BY DEF LastWriteWins
  <2> DEFINE S == StoreOf(gp_TREE)
  <2>1. \A k \in Keys : SameAt(ordered, S, k)
    BY DEF AheadOfTree
  <2>2. /\ DOMAIN S = {gp_TREE.node[p].key : p \in DOMAIN gp_TREE.node}
        /\ S = [k \in DOMAIN S |-> S[k]]
    BY StoreValues DEF TreeFine
  <2>3. DOMAIN S \subseteq Keys
    BY <2>2 DEF TreeFine, Holds
  <2>4. DOMAIN ordered \subseteq Keys /\ ordered = [k \in DOMAIN ordered |-> ordered[k]]
    BY DEF AheadOfTree
  <2> HIDE DEF S
  <2>5. DOMAIN S = DOMAIN ordered
    BY <2>1, <2>3, <2>4 DEF SameAt
  <2>6. \A k \in DOMAIN S : S[k] = ordered[k]
    BY <2>1, <2>3, <2>5 DEF SameAt
  <2>7. S = ordered
    BY <2>2, <2>4, <2>5, <2>6
  <2> QED
    BY <2>7 DEF S
<1> QED
  BY <1>1, <1>2, <1>3, <1>4, TypeInit, TypeStep, InOrderInit, InOrderStep, TreeInit, TreeStep,
     AheadInit, PTL
  DEF HistorySpec
=============================================================================
