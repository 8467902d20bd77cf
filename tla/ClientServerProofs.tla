------------------------- MODULE ClientServerProofs -------------------------
(***************************************************************************)
(* The whole system, for any clients, keys, values and commands, any       *)
(* Window, Capacity and Segment: what a user is told by an rtree_ function *)
(* is the server's answer to that call.                                    *)
(***************************************************************************)
EXTENDS ClientServer, ClientStubProofs

-----------------------------------------------------------------------------
(***************************************************************************)
(* The values of the variables.                                            *)
(***************************************************************************)
States == {"out", "idle", "waiting", "left", "dead", "cut off"}

Mail == {"nothing", "request", "piece", "quit"}

Fields ==
  [tag : {"opcode"}, value : 0 .. OP_ERROR]
  \cup [tag : {"result"}, value : Int]
  \cup [tag : {"data", "datas"}, value : Values]
  \cup [tag : {"keys"}, value : Keys]
  \cup [tag : {"length"}, value : {"keys", "datas"}]

WriteOps == {OP_PUT, OP_DEL}

Acknowledgements ==
  [opcode : {OP_PUT + 1, OP_DEL + 1}, c_type : {CT_RESULT}, result : Nat, body : {NULL}]

Verdicts ==
  [opcode : {OP_VERIFY + 1}, c_type : {CT_RESULT}, result : {-1, 0}, body : {NULL}]
  \cup [opcode : {OP_ERROR}, c_type : {CT_NONE}, result : Nat, body : {NULL}]

Readings ==
  [opcode : {OP_SIZE + 1, OP_HEIGHT + 1}, c_type : {CT_RESULT}, result : Nat, body : {NULL}]
  \cup [opcode : {OP_GET + 1}, c_type : {CT_VALUE}, result : {0}, body : Values \cup {NULL}]
  \cup [opcode : {OP_GETKEYS + 1}, c_type : {CT_KEYS}, result : {0}, body : Seq(Keys)]
  \cup [opcode : {OP_GETVALUES + 1}, c_type : {CT_VALUES}, result : {0}, body : Seq(Values)]

Answers == Acknowledgements \cup Verdicts \cup Readings

Types ==
  /\ typed \in 0 .. MaxCommands
  /\ pc \in [Clients -> {"off", "prompt", "reading", "returned"}]
  /\ request \in [Clients -> Calls \cup {NULL}]
  /\ call \in [Clients -> Calls \cup {NULL}]
  /\ wire \in [Clients -> Seq(Fields)]
  /\ result = [c \in Clients |-> result[c]]
  /\ sent \in [Clients -> Answers \cup {NULL}]
  /\ torn \in [Clients -> BOOLEAN]
  /\ told \subseteq Nat
  /\ finished \subseteq AskedNumbers
  /\ client \in [Clients -> States]
  /\ inbox \in [Clients -> Mail]

(***************************************************************************)
(* The skeleton.                                                           *)
(***************************************************************************)
Writes ==
  [op_n : Nat, op : {Skel!REQUEST_PUT, Skel!REQUEST_DEL},
   p_key : Keys, p_data : Values \cup {NULL}]

Service ==
  /\ next \in Nat \ {0}
  /\ IsFiniteSet(pending) /\ pending \subseteq Writes
  /\ \A r \in pending : /\ r.op_n \in 1 .. next - 1
                        /\ r.op = Skel!REQUEST_PUT => r.p_data \in Values
  /\ IsFiniteSet(DOMAIN store) /\ DOMAIN store \subseteq Keys
  /\ store \in [DOMAIN store -> Values]
  /\ owed \in WriteOps \cup {NULL}
  /\ answer \in Answers \cup {NULL}

(***************************************************************************)
(* The connections, and how far the main loop is with the skeleton.        *)
(***************************************************************************)
Loop ==
  /\ stage \in {"free", "serving", "closing", "stuck"}
  /\ stage = "serving" =>
       /\ serving \in Clients /\ client[serving] \in {"waiting", "dead"}
       /\ inbox[serving] = "nothing"
       /\ owed = NULL <=> answer # NULL
  /\ stage # "serving" => owed = NULL /\ answer = NULL
  /\ stage = "closing" => serving \in Clients /\ client[serving] \notin {"out", "cut off"}

Connection(c) ==
  /\ pc[c] = "off" <=> client[c] \in {"out", "left", "dead"}
  /\ inbox[c] \in {"request", "piece"} => client[c] \in {"waiting", "dead"}
  /\ inbox[c] = "quit" => client[c] = "left"
  /\ inbox[c] = "request" => request[c] \in Calls
  /\ pc[c] \in {"reading", "returned"} => call[c] \in Calls
  /\ pc[c] \in {"off", "prompt"} => call[c] = NULL
  /\ pc[c] = "off" => ~torn[c] /\ sent[c] = NULL /\ wire[c] = <<>>

(***************************************************************************)
(* A client that has read every answer as a whole.                         *)
(***************************************************************************)
Answered(command, message) ==
  \/ message.opcode = command.opcode + 1
  \/ message.opcode = OP_ERROR /\ command.opcode = OP_VERIFY

Session(c) ==
  ~torn[c] =>
    /\ client[c] = "waiting" =>
         /\ pc[c] = "reading" /\ sent[c] = NULL
         /\ inbox[c] = "request" => request[c] = call[c]
         /\ stage = "serving" /\ serving = c =>
              /\ owed # NULL => owed = call[c].opcode
              /\ answer # NULL => Answered(call[c], answer)
    /\ sent[c] # NULL => /\ pc[c] \in {"reading", "returned"}
                         /\ Answered(call[c], sent[c])
    /\ wire[c] = IF pc[c] = "reading" /\ sent[c] # NULL THEN message_t__pack(sent[c])
                                                        ELSE <<>>
    /\ pc[c] = "returned" =>
         result[c] = Returned(call[c].opcode, IF sent[c] = NULL THEN NULL ELSE Whole(sent[c]))

(***************************************************************************)
(* The operation numbers on their way to a user: the one the main thread   *)
(* will send, the one it is sending, those in the sockets and in the       *)
(* clients.  They are all different and new.                               *)
(***************************************************************************)
New(n) == n \in 1 .. next - 1 /\ n \notin told

Underway(c) == ~torn[c] /\ sent[c] \in Acknowledgements

Numbers ==
  /\ told \subseteq 1 .. next - 1
  /\ \A c \in Clients : Underway(c) => New(sent[c].result)
  /\ \A c, d \in Clients :
       Underway(c) /\ Underway(d) /\ c # d => sent[c].result # sent[d].result
  /\ owed # NULL => /\ New(next - 1)
                    /\ \A c \in Clients : Underway(c) => sent[c].result # next - 1
  /\ answer \in Acknowledgements =>
       /\ New(answer.result)
       /\ \A c \in Clients : Underway(c) => sent[c].result # answer.result

(***************************************************************************)
(* Once fewer than Window writes up to n are pending, that stays so.       *)
(***************************************************************************)
Done(n) == n \in 1 .. next - 1 /\ Cardinality({r \in pending : r.op_n <= n}) < Window

SaysDone(message) == message.opcode = OP_VERIFY + 1 /\ message.result = 0

Verified ==
  /\ \A n \in finished : Done(n)
  /\ \A c \in Clients :
       ~torn[c] /\ sent[c] # NULL /\ SaysDone(sent[c]) => Done(call[c].op_n)
  /\ stage = "serving" /\ answer # NULL /\ SaysDone(answer)
     /\ ~torn[serving] /\ client[serving] = "waiting" => Done(call[serving].op_n)

IInv ==
  /\ Types
  /\ Service
  /\ Loop
  /\ \A c \in Clients : Connection(c)
  /\ \A c \in Clients : Session(c)
  /\ Numbers
  /\ Verified
-----------------------------------------------------------------------------
(***************************************************************************)
(* Calls and answers.                                                      *)
(***************************************************************************)
LEMMA CallFacts ==
  ASSUME NEW m \in Calls
  PROVE  /\ m.opcode \in {OP_PUT, OP_GET, OP_DEL, OP_SIZE, OP_HEIGHT, OP_GETKEYS,
                          OP_GETVALUES, OP_VERIFY}
         /\ m.opcode = OP_PUT => m.key \in Keys /\ m.data \in Values
         /\ m.opcode \in {OP_DEL, OP_GET} => m.key \in Keys
         /\ m.opcode = OP_VERIFY => m.op_n \in AskedNumbers
<1> USE DEF OP_PUT, OP_GET, OP_DEL, OP_SIZE, OP_HEIGHT, OP_GETKEYS, OP_GETVALUES,
            OP_VERIFY, Call, put_message, get_message, del_message, size_message,
            height_message, get_keys_message, get_values_message, verify_message
<1>1. CASE \E k \in Keys, v \in Values : m = put_message(k, v)
  BY <1>1
<1>2. CASE \E k \in Keys : m = get_message(k) \/ m = del_message(k)
  BY <1>2
<1>3. CASE m \in {size_message, height_message, get_keys_message, get_values_message}
  BY <1>3
<1>4. CASE \E n \in AskedNumbers : m = verify_message(n)
  BY <1>4
<1> QED
  <2>1. \/ \E k \in Keys, v \in Values : m = put_message(k, v)
        \/ \E k \in Keys : m = get_message(k) \/ m = del_message(k)
        \/ m \in {size_message, height_message, get_keys_message, get_values_message}
        \/ \E n \in AskedNumbers : m = verify_message(n)
    <3> HIDE DEF put_message, get_message, del_message, size_message,
                 height_message, get_keys_message, get_values_message, verify_message
    <3> QED
      BY DEF Calls
  <2> QED
    BY <2>1, <1>1, <1>2, <1>3, <1>4

LEMMA AnswerFacts ==
  ASSUME NEW m \in Answers
  PROVE  /\ m.opcode \in 1 .. OP_ERROR /\ m.result \in Int /\ m # NULL
         /\ m.c_type = CT_KEYS => m.body \in Seq(Keys) /\ m.result = 0
         /\ m.c_type = CT_VALUES => m.body \in Seq(Values) /\ m.result = 0
         /\ m.c_type = CT_VALUE => m.body \in Values \cup {NULL} /\ m.result = 0
         /\ m.opcode \in {OP_PUT + 1, OP_DEL + 1} <=> m \in Acknowledgements
         /\ m.opcode = OP_VERIFY + 1 => m.result \in {-1, 0}
<1>0. m # NULL
  <2>1. m \in [opcode : Int, c_type : Int, result : Int,
               body : {NULL} \cup Values \cup Seq(Keys) \cup Seq(Values)]
    BY DEF Answers, Acknowledgements, Verdicts, Readings, OP_PUT, OP_DEL, OP_GET,
           OP_SIZE, OP_HEIGHT, OP_GETKEYS, OP_GETVALUES, OP_VERIFY, OP_ERROR,
           CT_RESULT, CT_VALUE, CT_KEYS, CT_VALUES, CT_NONE
  <2> QED
    BY <2>1, NullAssumption
<1> USE DEF OP_PUT, OP_DEL, OP_GET, OP_SIZE, OP_HEIGHT, OP_GETKEYS, OP_GETVALUES,
            OP_VERIFY, OP_ERROR, CT_RESULT, CT_VALUE, CT_KEYS, CT_VALUES, CT_NONE
<1>1. CASE m \in Acknowledgements
  BY <1>0, <1>1 DEF Acknowledgements
<1>2. CASE m \in Verdicts
  BY <1>0, <1>2 DEF Verdicts, Acknowledgements
<1>3. CASE m \in Readings
  <2>1. m \notin Acknowledgements
    BY <1>3 DEF Readings, Acknowledgements
  <2>2. CASE m.opcode \in {OP_SIZE + 1, OP_HEIGHT + 1}
    BY <1>0, <1>3, <2>1, <2>2 DEF Readings
  <2>3. CASE m.opcode = OP_GET + 1
    BY <1>0, <1>3, <2>1, <2>3 DEF Readings
  <2>4. CASE m.opcode = OP_GETKEYS + 1
    BY <1>0, <1>3, <2>1, <2>4 DEF Readings
  <2>5. CASE m.opcode = OP_GETVALUES + 1
    BY <1>0, <1>3, <2>1, <2>5 DEF Readings
  <2> QED
    BY <1>3, <2>2, <2>3, <2>4, <2>5 DEF Readings
<1> QED
  BY <1>1, <1>2, <1>3 DEF Answers

LEMMA AnswersPack ==
  ASSUME NEW m \in Answers
  PROVE  /\ message_t__pack(m) # <<>>
         /\ message_t__unpack(message_t__pack(m)) = Whole(m)
<1>1. /\ m.opcode # OP_BAD
      /\ m.c_type = CT_KEYS => m.body \in Seq(Keys)
      /\ m.c_type = CT_VALUES => m.body \in Seq(Values)
      /\ m.c_type \in {CT_KEYS, CT_VALUES, CT_VALUE} => m.result = 0
  <2>1. m.opcode # OP_BAD
    <3>1. m.opcode \in 1 .. OP_ERROR
      BY AnswerFacts
    <3> QED
      BY <3>1 DEF OP_BAD, OP_ERROR
  <2>2. /\ m.c_type = CT_KEYS => m.body \in Seq(Keys) /\ m.result = 0
        /\ m.c_type = CT_VALUES => m.body \in Seq(Values) /\ m.result = 0
        /\ m.c_type = CT_VALUE => m.body \in Values \cup {NULL} /\ m.result = 0
    BY AnswerFacts
  <2> QED
    BY <2>1, <2>2
<1>2. CT_KEYS # CT_VALUES
  BY DEF CT_KEYS, CT_VALUES
<1>3. CASE m.c_type = CT_VALUES
  <2>1. IsAnswer(m, Values)
    BY <1>1, <1>2, <1>3 DEF IsAnswer
  <2> QED
    BY <2>1, UnpackedAsPacked
<1>4. CASE m.c_type # CT_VALUES
  <2>1. IsAnswer(m, Keys)
    BY <1>1, <1>4 DEF IsAnswer
  <2> QED
    BY <2>1, UnpackedAsPacked
<1> QED
  BY <1>3, <1>4

LEMMA ElementsFields ==
  ASSUME NEW tag, NEW S, NEW list \in Seq(S),
         Field("length", tag) \in Fields, \A x \in S : Field(tag, x) \in Fields
  PROVE  Elements(tag, list) \in Seq(Fields)
<1> DEFINE N == 2 * Len(list)
<1>1. N \in Nat
  OBVIOUS
<1>2. ASSUME NEW j \in 1 .. N, j % 2 # 1
      PROVE  list[j \div 2] \in S
  <2>1. j \div 2 \in 1 .. Len(list)
    BY <1>2
  <2> QED
    BY <2>1, ElementOfSeq
<1>3. \A j \in 1 .. N : (IF j % 2 = 1 THEN Field("length", tag)
                        ELSE Field(tag, list[j \div 2])) \in Fields
  BY <1>2
<1> QED
  BY <1>1, <1>3 DEF Elements

LEMMA PackFields ==
  ASSUME NEW m \in Answers
  PROVE  message_t__pack(m) \in Seq(Fields)
<1> USE DEF Fields, Field
<1>1. Scalar("opcode", m.opcode, OP_BAD) \in Seq(Fields)
  <2>1. Field("opcode", m.opcode) \in Fields
    BY AnswerFacts
  <2> HIDE DEF Fields, Field
  <2> QED
    BY <2>1 DEF Scalar
<1> DEFINE body == CASE m.c_type = CT_KEYS -> Elements("keys", m.body)
                     [] m.c_type = CT_VALUES -> Elements("datas", m.body)
                     [] m.c_type = CT_VALUE -> Scalar("data", m.body, NULL)
                     [] OTHER -> Scalar("result", m.result, 0)
<1>2. body \in Seq(Fields)
  <2>1. CASE m.c_type = CT_KEYS
    <3>1. m.body \in Seq(Keys)
      BY <2>1, AnswerFacts
    <3>2. Elements("keys", m.body) \in Seq(Fields)
      BY <3>1, ElementsFields
    <3> HIDE DEF Fields
    <3> QED
      BY <2>1, <3>2 DEF CT_KEYS, CT_VALUES, CT_VALUE
  <2>2. CASE m.c_type = CT_VALUES
    <3>1. m.body \in Seq(Values)
      BY <2>2, AnswerFacts
    <3>2. Elements("datas", m.body) \in Seq(Fields)
      BY <3>1, ElementsFields
    <3> HIDE DEF Fields
    <3> QED
      BY <2>2, <3>2 DEF CT_KEYS, CT_VALUES, CT_VALUE
  <2>3. CASE m.c_type = CT_VALUE
    <3>1. m.body # NULL => Field("data", m.body) \in Fields
      BY <2>3, AnswerFacts
    <3> HIDE DEF Fields, Field
    <3>2. Scalar("data", m.body, NULL) \in Seq(Fields)
      BY <3>1 DEF Scalar
    <3> QED
      BY <2>3, <3>2 DEF CT_KEYS, CT_VALUES, CT_VALUE
  <2>4. CASE m.c_type \notin {CT_KEYS, CT_VALUES, CT_VALUE}
    <3>1. Field("result", m.result) \in Fields
      BY AnswerFacts
    <3> HIDE DEF Fields, Field
    <3>2. Scalar("result", m.result, 0) \in Seq(Fields)
      BY <3>1 DEF Scalar
    <3> QED
      BY <2>4, <3>2
  <2> QED
    BY <2>1, <2>2, <2>3, <2>4
<1>3. message_t__pack(m) = Scalar("opcode", m.opcode, OP_BAD) \o body
  BY Zenon DEF message_t__pack
<1> HIDE DEF body, Fields, Field
<1> QED
  BY <1>1, <1>2, <1>3

LEMMA FieldsAreOK ==
  ASSUME NEW f \in Fields
  PROVE  FieldOK(f)
BY DEF Fields, FieldOK
-----------------------------------------------------------------------------
(***************************************************************************)
(* The operators that WriteService takes from Store, Message and Request.  *)
(***************************************************************************)
LEMMA SameOperators ==
  /\ \A o, t, n, b : Skel!Message(o, t, n, b) = Message(o, t, n, b)
  /\ \A S : Skel!Cardinality(S) = Cardinality(S)
  /\ \A n, o, k, v : Skel!request_create(n, o, k, v) =
                      [op_n |-> n, op |-> o, p_key |-> k, p_data |-> v]
  /\ Skel!OP_SIZE = OP_SIZE /\ Skel!OP_HEIGHT = OP_HEIGHT /\ Skel!OP_GET = OP_GET
  /\ Skel!OP_GETKEYS = OP_GETKEYS /\ Skel!OP_GETVALUES = OP_GETVALUES
  /\ Skel!OP_VERIFY = OP_VERIFY /\ Skel!OP_ERROR = OP_ERROR
  /\ Skel!CT_RESULT = CT_RESULT /\ Skel!CT_VALUE = CT_VALUE /\ Skel!CT_KEYS = CT_KEYS
  /\ Skel!CT_VALUES = CT_VALUES /\ Skel!CT_NONE = CT_NONE
  /\ Skel!REQUEST_PUT = 1 /\ Skel!REQUEST_DEL = 0
  BY DEF Skel!Message, Message, Skel!Cardinality, Cardinality, Skel!request_create,
         Skel!OP_SIZE, OP_SIZE, Skel!OP_HEIGHT, OP_HEIGHT, Skel!OP_GET, OP_GET,
         Skel!OP_GETKEYS, OP_GETKEYS, Skel!OP_GETVALUES, OP_GETVALUES,
         Skel!OP_VERIFY, OP_VERIFY, Skel!OP_ERROR, OP_ERROR, Skel!CT_RESULT, CT_RESULT,
         Skel!CT_VALUE, CT_VALUE, Skel!CT_KEYS, CT_KEYS, Skel!CT_VALUES, CT_VALUES,
         Skel!CT_NONE, CT_NONE, Skel!REQUEST_PUT, Skel!REQUEST_DEL

(***************************************************************************)
(* What the server reads from its store.                                   *)
(***************************************************************************)
StoreOK(s) ==
  IsFiniteSet(DOMAIN s) /\ DOMAIN s \subseteq Keys /\ s \in [DOMAIN s -> Values]

LEMMA KeysRead ==
  ASSUME NEW s, StoreOK(s)
  PROVE  Skel!KeysOf(s) \in Seq(Keys) /\ Skel!ValuesOf(s) \in Seq(Values)
<1> DEFINE D == DOMAIN s
           key == [k \in D |-> k]
           at(i) == CHOOSE x \in D : Cardinality({y \in D : y < x}) = i - 1
           N == Cardinality(D)
<1>1. IsFiniteSet(D) /\ D \subseteq Keys /\ D \subseteq Int /\ N \in Nat
  BY SystemAssumption, FS_CardinalityType DEF StoreOK
<1>2. ASSUME NEW i \in 1 .. N
      PROVE  at(i) \in D
  <2>1. key \in [D -> Int] /\ \A x, y \in D : key[x] = key[y] => x = y
    BY <1>1
  <2>2. \E x \in D : Rank(D, key, x) = i - 1
    <3> HIDE DEF key, D
    <3> QED
      BY <1>1, <2>1, RanksTaken
  <2>3. \A x \in D : Rank(D, key, x) = Cardinality({y \in D : y < x})
    <3>1. \A x \in D : Smaller(D, key, x) = {y \in D : y < x}
      BY DEF Smaller
    <3> QED
      BY <3>1 DEF Rank
  <2> QED
    BY <2>2, <2>3
<1>3. Skel!KeysOf(s) = [i \in 1 .. N |-> at(i)]
  BY DEF Skel!KeysOf, Skel!InSequence, Skel!KeyBefore, Skel!Cardinality, Cardinality
<1> HIDE DEF at, N
<1>4. Skel!KeysOf(s) \in Seq(D) /\ Len(Skel!KeysOf(s)) = N
  <2> HIDE DEF D
  <2> QED
    BY <1>1, <1>2, <1>3
<1>5. Skel!KeysOf(s) \in Seq(Keys)
  BY <1>1, <1>2, <1>3
<1>6. Skel!ValuesOf(s) \in Seq(Values)
  <2>1. Skel!ValuesOf(s) = [i \in 1 .. N |-> s[at(i)]]
    BY <1>1, <1>3, <1>4 DEF Skel!ValuesOf
  <2>2. \A i \in 1 .. N : s[at(i)] \in Values
    BY <1>2 DEF StoreOK
  <2> QED
    BY <1>1, <2>1, <2>2
<1> QED
  BY <1>5, <1>6

LEMMA UpTo ==
  ASSUME NEW a \in Nat, NEW b \in {a, a + 1}
  PROVE  1 .. a - 1 \subseteq 1 .. b - 1
  OBVIOUS

(***************************************************************************)
(* Writes that are accepted later, and writes that are applied, take no    *)
(* operation number back that a client may have been told is finished.     *)
(***************************************************************************)
LEMMA DoneStays ==
  ASSUME Service, next' \in {next, next + 1},
         pending' \subseteq pending \cup {r \in pending' : r.op_n = next}
  PROVE  \A n : Done(n) => Done(n)'
<1> SUFFICES ASSUME NEW n, Done(n)
             PROVE  Done(n)'
  OBVIOUS
<1>1. n \in Nat /\ 1 <= n /\ n < next /\ next \in Nat /\ Window \in Nat
  BY SystemAssumption DEF Done, Service
<1> DEFINE P == {r \in pending : r.op_n <= n}
           Q == {r \in pending' : r.op_n <= n}
<1>2. Q \subseteq P
  BY <1>1
<1>3. IsFiniteSet(P)
  BY FS_Subset DEF Service
<1>4. Cardinality(Q) \in Nat /\ Cardinality(P) \in Nat /\ Cardinality(Q) <= Cardinality(P)
  <2> HIDE DEF P, Q
  <2> QED
    BY <1>2, <1>3, FS_Subset, FS_CardinalityType
<1>5. Cardinality(P) < Window /\ n \in 1 .. next - 1
  BY DEF Done
<1>6. Cardinality(Q) < Window /\ n \in 1 .. next' - 1
  <2>1. n \in 1 .. next' - 1
    <3>1. next' = next \/ next' = next + 1
      OBVIOUS
    <3>2. CASE next' = next
      BY <1>5, <3>2
    <3>3. CASE next' = next + 1
      BY <1>1, <3>3
    <3> QED
      BY <3>1, <3>2, <3>3
  <2> HIDE DEF P, Q
  <2>2. Cardinality(Q) < Window
    BY <1>1, <1>4, <1>5
  <2> QED
    BY <2>1, <2>2
<1> QED
  BY <1>6 DEF Done

LEMMA AnswersBuilt ==
  /\ \A n \in Nat : /\ Message(OP_PUT + 1, CT_RESULT, n, NULL) \in Acknowledgements
                    /\ Message(OP_DEL + 1, CT_RESULT, n, NULL) \in Acknowledgements
                    /\ Message(OP_SIZE + 1, CT_RESULT, n, NULL) \in Readings
                    /\ Message(OP_HEIGHT + 1, CT_RESULT, n, NULL) \in Readings
                    /\ Message(OP_ERROR, CT_NONE, n, NULL) \in Verdicts
  /\ \A v \in Values \cup {NULL} : Message(OP_GET + 1, CT_VALUE, 0, v) \in Readings
  /\ \A ks \in Seq(Keys) : Message(OP_GETKEYS + 1, CT_KEYS, 0, ks) \in Readings
  /\ \A vs \in Seq(Values) : Message(OP_GETVALUES + 1, CT_VALUES, 0, vs) \in Readings
  /\ \A n \in {-1, 0} : Message(OP_VERIFY + 1, CT_RESULT, n, NULL) \in Verdicts
  BY DEF Message, Acknowledgements, Readings, Verdicts

LEMMA AnswersDiffer ==
  /\ \A m \in Readings : m \notin Acknowledgements /\ ~SaysDone(m) /\ m # NULL
  /\ \A m \in Verdicts : m \notin Acknowledgements /\ m # NULL
  /\ \A m \in Acknowledgements : ~SaysDone(m) /\ m # NULL
<1>1. \A m \in Readings \cup Verdicts \cup Acknowledgements : m # NULL
  BY AnswerFacts DEF Answers
<1> QED
  BY <1>1 DEF Readings, Verdicts, Acknowledgements, SaysDone, OP_PUT, OP_DEL, OP_GET,
              OP_SIZE, OP_HEIGHT, OP_GETKEYS, OP_GETVALUES, OP_VERIFY, OP_ERROR

(***************************************************************************)
(* imvoke: a write leaves a number to be told, everything else an answer.  *)
(***************************************************************************)
Invoked(m) ==
  /\ Service' /\ owed = NULL /\ answer = NULL
  /\ next' \in {next, next + 1}
  /\ owed' = NULL <=> answer' # NULL
  /\ owed' # NULL => owed' = m.opcode /\ next' = next + 1
  /\ answer' # NULL => /\ Answered(m, answer') /\ answer' \notin Acknowledgements
                       /\ SaysDone(answer') => Done(m.op_n)'
  /\ \A n : Done(n) => Done(n)'

LEMMA InvokeWrite ==
  ASSUME Service, NEW m \in Calls,
         \/ m.opcode = OP_PUT /\ Skel!Accept(OP_PUT, Skel!REQUEST_PUT, m.key, m.data)
         \/ m.opcode = OP_DEL /\ Skel!Accept(OP_DEL, Skel!REQUEST_DEL, m.key, NULL)
  PROVE  Invoked(m)
<1>1. PICK r \in Writes :
        /\ r.op_n = next
        /\ r.op = Skel!REQUEST_PUT => r.p_data \in Values
        /\ pending' = pending \cup {r}
  <2>1. CASE m.opcode = OP_PUT /\ Skel!Accept(OP_PUT, Skel!REQUEST_PUT, m.key, m.data)
    <3> DEFINE r == [op_n |-> next, op |-> 1, p_key |-> m.key, p_data |-> m.data]
    <3>1. pending' = pending \cup {r}
      BY <2>1, SameOperators DEF Skel!Accept
    <3>2. r \in Writes
      BY <2>1, CallFacts, SameOperators DEF Writes, Service
    <3>3. m.data \in Values
      BY <2>1, CallFacts
    <3> QED
      BY <3>1, <3>2, <3>3
  <2>2. CASE m.opcode = OP_DEL /\ Skel!Accept(OP_DEL, Skel!REQUEST_DEL, m.key, NULL)
    <3> DEFINE r == [op_n |-> next, op |-> 0, p_key |-> m.key, p_data |-> NULL]
    <3>1. pending' = pending \cup {r}
      BY <2>2, SameOperators DEF Skel!Accept
    <3>2. r \in Writes
      BY <2>2, CallFacts, SameOperators DEF Writes, Service
    <3>3. r.op # Skel!REQUEST_PUT
      BY SameOperators
    <3> QED
      BY <3>1, <3>2, <3>3
  <2> QED
    BY <2>1, <2>2
<1>2. /\ owed = NULL /\ answer = NULL /\ next' = next + 1
      /\ owed' = m.opcode /\ m.opcode \in WriteOps
      /\ UNCHANGED <<store, answer>>
  BY DEF Skel!Accept, Skel!Idle, WriteOps
<1>3. m.opcode # NULL
  BY <1>2, NullAssumption DEF WriteOps, OP_PUT, OP_DEL
<1>4. Service'
  <2>1. IsFiniteSet(pending')
    BY <1>1, FS_AddElement DEF Service
  <2> QED
    BY <1>1, <1>2, <2>1 DEF Service
<1>5. \A n : Done(n) => Done(n)'
  BY <1>1, <1>2, DoneStays
<1> QED
  BY <1>2, <1>3, <1>4, <1>5 DEF Invoked

LEMMA InvokeRead ==
  ASSUME Service, NEW m \in Calls,
         \/ m.opcode = OP_SIZE /\ Skel!ReadSize
         \/ m.opcode = OP_HEIGHT /\ Skel!ReadHeight
         \/ m.opcode = OP_GET /\ Skel!ReadValue(m.key)
         \/ m.opcode = OP_GETKEYS /\ Skel!ReadKeys
         \/ m.opcode = OP_GETVALUES /\ Skel!ReadValues
  PROVE  Invoked(m)
<1>1. StoreOK(store) /\ Cardinality(DOMAIN store) \in Nat
  BY FS_CardinalityType DEF Service, StoreOK
<1>2. /\ UNCHANGED <<next, pending, store, owed>> /\ owed = NULL /\ answer = NULL
      /\ answer' \in Readings /\ answer'.opcode = m.opcode + 1
  <2>1. CASE m.opcode = OP_SIZE /\ Skel!ReadSize
    <3>1. /\ Skel!Tell(answer')
          /\ answer' = Message(OP_SIZE + 1, CT_RESULT, Cardinality(DOMAIN store), NULL)
      BY <2>1, SameOperators DEF Skel!ReadSize, Skel!Tell
    <3> QED
      BY <1>1, <2>1, <3>1, AnswersBuilt DEF Skel!Tell, Skel!Idle, Message
  <2>2. CASE m.opcode = OP_HEIGHT /\ Skel!ReadHeight
    <3>1. PICK h \in Skel!Heights(store) :
             Skel!Tell(Skel!Message(Skel!OP_HEIGHT + 1, Skel!CT_RESULT, h, NULL))
      BY <2>2 DEF Skel!ReadHeight
    <3>2. h \in Nat
      BY <1>1, SameOperators DEF Skel!Heights
    <3>3. /\ Skel!Tell(answer')
          /\ answer' = Message(OP_HEIGHT + 1, CT_RESULT, h, NULL)
      BY <3>1, SameOperators DEF Skel!Tell
    <3> QED
      BY <2>2, <3>2, <3>3, AnswersBuilt DEF Skel!Tell, Skel!Idle, Message
  <2>3. CASE m.opcode = OP_GET /\ Skel!ReadValue(m.key)
    <3>1. Skel!StoreGet(store, m.key) \in Values \cup {NULL}
      BY <1>1 DEF Skel!StoreGet, StoreOK
    <3>2. /\ Skel!Tell(answer')
          /\ answer' = Message(OP_GET + 1, CT_VALUE, 0, Skel!StoreGet(store, m.key))
      BY <2>3, SameOperators DEF Skel!ReadValue, Skel!Tell
    <3> QED
      BY <2>3, <3>1, <3>2, AnswersBuilt DEF Skel!Tell, Skel!Idle, Message
  <2>4. CASE m.opcode = OP_GETKEYS /\ Skel!ReadKeys
    <3>1. /\ Skel!Tell(answer')
          /\ answer' = Message(OP_GETKEYS + 1, CT_KEYS, 0, Skel!KeysOf(store))
      BY <2>4, SameOperators DEF Skel!ReadKeys, Skel!Tell
    <3> QED
      BY <1>1, <2>4, <3>1, KeysRead, AnswersBuilt DEF Skel!Tell, Skel!Idle, Message
  <2>5. CASE m.opcode = OP_GETVALUES /\ Skel!ReadValues
    <3>1. /\ Skel!Tell(answer')
          /\ answer' = Message(OP_GETVALUES + 1, CT_VALUES, 0, Skel!ValuesOf(store))
      BY <2>5, SameOperators DEF Skel!ReadValues, Skel!Tell
    <3> QED
      BY <1>1, <2>5, <3>1, KeysRead, AnswersBuilt DEF Skel!Tell, Skel!Idle, Message
  <2> QED
    BY <2>1, <2>2, <2>3, <2>4, <2>5
<1>3. answer' # NULL /\ answer' \notin Acknowledgements /\ ~SaysDone(answer')
  BY <1>2, AnswersDiffer
<1>4. Service'
  BY <1>2 DEF Service, Answers
<1>5. \A n : Done(n) => Done(n)'
  BY <1>2 DEF Done
<1> QED
  BY <1>2, <1>3, <1>4, <1>5 DEF Invoked, Answered

LEMMA InvokeVerify ==
  ASSUME Service, NEW m \in Calls, m.opcode = OP_VERIFY,
         Skel!Verify(m.op_n) \/ Skel!RefuseVerify(m.op_n)
  PROVE  Invoked(m)
<1>0. m.op_n \in Nat
  BY CallFacts, SystemAssumption
<1>1. /\ UNCHANGED <<pending, store, owed>> /\ owed = NULL /\ answer = NULL
      /\ next' \in {next, next + 1}
      /\ answer' \in Verdicts /\ Answered(m, answer')
      /\ SaysDone(answer') => Done(m.op_n)
  <2>1. CASE Skel!Verify(m.op_n)
    <3>1. /\ UNCHANGED <<pending, store, owed>> /\ owed = NULL /\ answer = NULL
          /\ next' = next + 1
          /\ \/ answer' = Message(OP_VERIFY + 1, CT_RESULT, -1, NULL)
             \/ /\ answer' = Message(OP_VERIFY + 1, CT_RESULT, 0, NULL)
                /\ Done(m.op_n)
      BY <2>1, SameOperators DEF Skel!Verify, Skel!PendingUpTo, Skel!Idle, Done
    <3>2. answer' \in Verdicts
      BY <3>1, AnswersBuilt
    <3> QED
      BY <3>1, <3>2 DEF Message, Answered, SaysDone
  <2>2. CASE Skel!RefuseVerify(m.op_n)
    <3>1. /\ UNCHANGED <<next, pending, store, owed>> /\ owed = NULL /\ answer = NULL
          /\ answer' = Message(OP_ERROR, CT_NONE, m.op_n, NULL)
      BY <2>2, SameOperators DEF Skel!RefuseVerify, Skel!Tell, Skel!Idle
    <3>2. answer' \in Verdicts
      BY <1>0, <3>1, AnswersBuilt
    <3>3. answer'.opcode = OP_ERROR /\ OP_ERROR # OP_VERIFY + 1
      BY <3>1 DEF Message, OP_ERROR, OP_VERIFY
    <3> QED
      BY <3>1, <3>2, <3>3 DEF Answered, SaysDone
  <2> QED
    BY <2>1, <2>2
<1>2. answer' # NULL /\ answer' \notin Acknowledgements
  BY <1>1, AnswersDiffer
<1>3. Service'
  <2>1. next' \in Nat \ {0} /\ \A r \in pending : r.op_n \in 1 .. next' - 1
    BY <1>1 DEF Service
  <2> QED
    BY <1>1, <2>1 DEF Service, Answers
<1>4. \A n : Done(n) => Done(n)'
  BY <1>1, DoneStays
<1> QED
  BY <1>1, <1>2, <1>3, <1>4 DEF Invoked

LEMMA Invoke ==
  ASSUME Service, NEW m \in Calls, imvoke(m)
  PROVE  Invoked(m)
  BY InvokeWrite, InvokeRead, InvokeVerify DEF imvoke

(***************************************************************************)
(* The skeleton on its own.                                                *)
(***************************************************************************)
LEMMA Acknowledged ==
  ASSUME Service, Skel!Acknowledge
  PROVE  /\ Service' /\ UNCHANGED <<next, pending, store>>
         /\ owed # NULL /\ owed' = NULL /\ answer' \in Acknowledgements
         /\ answer'.opcode = owed + 1 /\ answer'.result = next - 1
<1>1. /\ UNCHANGED <<next, pending, store>> /\ owed # NULL /\ owed' = NULL
      /\ owed \in {OP_PUT, OP_DEL} /\ next - 1 \in Nat
      /\ answer' = Message(owed + 1, CT_RESULT, next - 1, NULL)
  BY SameOperators DEF Skel!Acknowledge, Service, WriteOps
<1>2. answer' \in Acknowledgements
  BY <1>1, AnswersBuilt
<1>3. Service'
  BY <1>1, <1>2 DEF Service, Answers
<1> QED
  BY <1>1, <1>2, <1>3 DEF Message

LEMMA Applied ==
  ASSUME Service, NEW r \in pending, Skel!Apply(r)
  PROVE  /\ Service' /\ UNCHANGED <<next, owed, answer>>
         /\ \A n : Done(n) => Done(n)'
<1>1. UNCHANGED <<next, owed, answer>> /\ pending' = pending \ {r}
  BY DEF Skel!Apply
<1>2. StoreOK(store')
  <2>1. CASE /\ r.op = Skel!REQUEST_PUT
             /\ store' = Skel!StorePut(store, r.p_key, r.p_data)
    <3>1. r.p_key \in Keys /\ r.p_data \in Values
      BY <2>1 DEF Service, Writes
    <3>2. DOMAIN store' = DOMAIN store \cup {r.p_key}
      BY <2>1 DEF Skel!StorePut
    <3>5. IsFiniteSet(DOMAIN store)
      BY DEF Service
    <3>3. IsFiniteSet(DOMAIN store')
      BY <3>2, <3>5, FS_AddElement
    <3>4. store' \in [DOMAIN store' -> Values]
      BY <2>1, <3>1 DEF Skel!StorePut, Service
    <3> QED
      BY <3>1, <3>2, <3>3, <3>4 DEF StoreOK, Service
  <2>2. CASE r.op = Skel!REQUEST_DEL /\ store' = Skel!StoreDel(store, r.p_key)
    <3>1. DOMAIN store' = DOMAIN store \ {r.p_key}
      BY <2>2 DEF Skel!StoreDel
    <3>2. IsFiniteSet(DOMAIN store')
      BY <3>1, FS_Subset DEF Service
    <3>3. store' \in [DOMAIN store' -> Values]
      BY <2>2 DEF Skel!StoreDel, Service
    <3> QED
      BY <3>1, <3>2, <3>3 DEF StoreOK, Service
  <2> QED
    BY <2>1, <2>2 DEF Skel!Apply
<1>3. Service'
  <2>1. IsFiniteSet(pending')
    BY <1>1, FS_Subset DEF Service
  <2> QED
    BY <1>1, <1>2, <2>1 DEF Service, StoreOK
<1>4. \A n : Done(n) => Done(n)'
  BY <1>1, DoneStays
<1> QED
  BY <1>1, <1>3, <1>4
-----------------------------------------------------------------------------
(***************************************************************************)
(* A step that leaves a client alone.                                      *)
(***************************************************************************)
Untouched(d) ==
  /\ pc'[d] = pc[d] /\ request'[d] = request[d] /\ call'[d] = call[d]
  /\ wire'[d] = wire[d] /\ result'[d] = result[d] /\ torn'[d] = torn[d]
  /\ sent'[d] = sent[d]

LEMMA ConnectionStays ==
  ASSUME NEW d \in Clients, Connection(d), Untouched(d),
         client'[d] = client[d], inbox'[d] = inbox[d]
  PROVE  Connection(d)'
  BY DEF Connection, Untouched

LEMMA SessionStays ==
  ASSUME NEW d \in Clients, Session(d), Untouched(d),
         client'[d] = client[d], inbox'[d] = inbox[d],
         UNCHANGED <<stage, serving, owed, answer>> \/ stage' # "serving" \/ serving' # d
  PROVE  Session(d)'
<1>1. stage' = "serving" /\ serving' = d => UNCHANGED <<stage, serving, owed, answer>>
  OBVIOUS
<1> HIDE DEF Untouched
<1> QED
  BY <1>1 DEF Session, Untouched

(***************************************************************************)
(* A step of one client: what there is to show.                            *)
(***************************************************************************)
LEMMA ClientMoves ==
  ASSUME IInv, NEW c \in Clients, UNCHANGED <<skelVars, serving, stage>>,
         Types', Connection(c)', Session(c)',
         \A d \in Clients \ {c} :
           Untouched(d) /\ client'[d] = client[d] /\ inbox'[d] = inbox[d],
         serving = c /\ stage = "serving" =>
           client'[c] \in {"waiting", "dead"} /\ inbox'[c] = "nothing",
         serving = c /\ stage = "closing" => client'[c] \notin {"out", "cut off"},
         sent'[c] # NULL /\ ~torn'[c] =>
           ~torn[c] /\ sent'[c] = sent[c] /\ call'[c] = call[c],
         serving = c /\ stage = "serving" /\ client'[c] = "waiting" /\ ~torn'[c] =>
           ~torn[c] /\ client[c] = "waiting" /\ call'[c] = call[c],
         \/ told' = told
         \/ told' = told \cup {sent[c].result} /\ Underway(c) /\ sent'[c] = NULL,
         \A n \in finished' \ finished : Done(n)
  PROVE  IInv'
<1> USE DEF skelVars
<1>1. Service'
  BY DEF IInv, Service
<1>2. Loop'
  <2>1. Loop
    BY DEF IInv
  <2>2. stage = "serving" => client'[serving] \in {"waiting", "dead"}
                             /\ inbox'[serving] = "nothing"
    BY <2>1 DEF Loop
  <2>3. stage = "closing" => client'[serving] \notin {"out", "cut off"}
    BY <2>1 DEF Loop
  <2> QED
    BY <2>1, <2>2, <2>3 DEF Loop
<1>3. ASSUME NEW d \in Clients PROVE Connection(d)'
  BY ConnectionStays DEF IInv
<1>4. ASSUME NEW d \in Clients PROVE Session(d)'
  <2>1. CASE d = c
    BY <2>1
  <2>2. CASE d # c
    BY <2>2, SessionStays DEF IInv
  <2> QED
    BY <2>1, <2>2
<1>5. \A d \in Clients : Underway(d)' => Underway(d) /\ sent'[d] = sent[d]
  <2>1. NULL \notin Acknowledgements
    BY AnswersDiffer
  <2> QED
    BY <2>1 DEF Underway, Untouched
<1>6. Numbers'
  <2>0. Numbers /\ NULL \notin Acknowledgements
    BY AnswersDiffer DEF IInv
  <2>1. CASE told' = told
    <3>1. /\ UNCHANGED <<next, owed, answer, told>>
          /\ \A n : New(n)' <=> New(n)
      BY <2>1 DEF New
    <3>2. /\ told' \subseteq 1 .. next' - 1
          /\ \A d \in Clients : Underway(d)' => New(sent[d].result)'
      BY <1>5, <2>0, <3>1 DEF Numbers
    <3>3. \A d, e \in Clients :
            Underway(d)' /\ Underway(e)' /\ d # e => sent'[d].result # sent'[e].result
      <4> SUFFICES ASSUME NEW d \in Clients, NEW e \in Clients, Underway(d)', Underway(e)',
                          d # e
                   PROVE  sent'[d].result # sent'[e].result
        OBVIOUS
      <4>1. Underway(d) /\ Underway(e) /\ sent'[d] = sent[d] /\ sent'[e] = sent[e]
        BY <1>5
      <4> QED
        BY <2>0, <4>1 DEF Numbers
    <3>4. owed' # NULL => /\ New(next - 1)'
                          /\ \A d \in Clients : Underway(d)' => sent'[d].result # next' - 1
      BY <1>5, <2>0, <3>1 DEF Numbers
    <3>5. answer' \in Acknowledgements =>
            /\ New(answer.result)'
            /\ \A d \in Clients : Underway(d)' => sent'[d].result # answer'.result
      BY <1>5, <2>0, <3>1 DEF Numbers
    <3> QED
      BY <3>2, <3>3, <3>4, <3>5 DEF Numbers
  <2>2. CASE told' = told \cup {sent[c].result} /\ Underway(c) /\ sent'[c] = NULL
    <3>1. \A d \in Clients : Underway(d)' => d # c
      BY <2>0, <2>2 DEF Underway
    <3>2. sent[c].result \in 1 .. next - 1
      BY <2>0, <2>2 DEF Numbers, New
    <3>3. told' \subseteq 1 .. next' - 1
      BY <2>0, <2>2, <3>2 DEF Numbers
    <3>4. ASSUME NEW n, New(n), n # sent[c].result PROVE New(n)'
      BY <2>2, <3>4 DEF New
    <3>5. \A d \in Clients : Underway(d)' => New(sent[d].result)'
      BY <1>5, <2>0, <2>2, <3>1, <3>4 DEF Numbers
    <3>6. owed # NULL => New(next - 1)'
      BY <2>0, <2>2, <3>4 DEF Numbers
    <3>7. answer \in Acknowledgements => New(answer.result)'
      BY <2>0, <2>2, <3>4 DEF Numbers
    <3>8. \A d, e \in Clients :
            Underway(d)' /\ Underway(e)' /\ d # e => sent'[d].result # sent'[e].result
      <4> SUFFICES ASSUME NEW d \in Clients, NEW e \in Clients, Underway(d)', Underway(e)',
                          d # e
                   PROVE  sent'[d].result # sent'[e].result
        OBVIOUS
      <4>1. Underway(d) /\ Underway(e) /\ sent'[d] = sent[d] /\ sent'[e] = sent[e]
        BY <1>5
      <4> QED
        BY <2>0, <4>1 DEF Numbers
    <3>9. /\ owed # NULL =>
               \A d \in Clients : Underway(d)' => sent'[d].result # next - 1
          /\ answer \in Acknowledgements =>
               \A d \in Clients : Underway(d)' => sent'[d].result # answer.result
      BY <1>5, <2>0 DEF Numbers
    <3> QED
      BY <3>3, <3>5, <3>6, <3>7, <3>8, <3>9 DEF Numbers
  <2> QED
    BY <2>1, <2>2
<1>7. Verified'
  <2>1. Verified /\ Loop
    BY DEF IInv
  <2>2. \A n : Done(n)' <=> Done(n)
    BY DEF Done
  <2>3. \A n \in finished' : Done(n)'
    BY <2>1, <2>2 DEF Verified
  <2>4. ASSUME NEW d \in Clients, ~torn'[d], sent'[d] # NULL, SaysDone(sent'[d])
        PROVE  Done(call[d].op_n)'
    <3>1. ~torn[d] /\ sent'[d] = sent[d] /\ call'[d] = call[d]
      BY <2>4 DEF Untouched
    <3> QED
      BY <2>1, <2>2, <2>4, <3>1 DEF Verified
  <2>5. ASSUME stage' = "serving", answer' # NULL, SaysDone(answer'),
               ~torn'[serving'], client'[serving'] = "waiting"
        PROVE  Done(call[serving].op_n)'
    <3>1. serving \in Clients
      BY <2>1, <2>5 DEF Loop
    <3>2. ~torn[serving] /\ client[serving] = "waiting" /\ call'[serving] = call[serving]
      BY <2>5, <3>1 DEF Untouched
    <3> QED
      BY <2>1, <2>2, <2>5, <3>2 DEF Verified, SaysDone
  <2> QED
    BY <2>3, <2>4, <2>5 DEF Verified, SaysDone
<1> QED
  BY <1>1, <1>2, <1>3, <1>4, <1>6, <1>7 DEF IInv

LEMMA OneMore ==
  ASSUME Types, typed < MaxCommands
  PROVE  typed + 1 \in 0 .. MaxCommands
  BY SystemAssumption DEF Types

(***************************************************************************)
(* The actions of a client.                                                *)
(***************************************************************************)
LEMMA ConnectStep ==
  ASSUME IInv, NEW c \in Clients, rtree_connect(c)
  PROVE  IInv'
<1>1. /\ pc[c] = "off" /\ client[c] = "out"
      /\ pc' = [pc EXCEPT ![c] = "prompt"] /\ client' = [client EXCEPT ![c] = "idle"]
      /\ UNCHANGED <<skelVars, serving, stage, inbox, typed, request, call, wire, result,
                     torn, sent, told, finished>>
  BY DEF rtree_connect, Net!Connect, historyVars
<1>2. Types /\ Connection(c) /\ Session(c) /\ Loop
  BY DEF IInv
<1>3. Types'
  BY <1>1, <1>2 DEF Types, States
<1>4. Connection(c)'
  BY <1>1, <1>2 DEF Types, Connection
<1>5. Session(c)'
  BY <1>1, <1>2 DEF Types, Connection, Session
<1>6. \A d \in Clients \ {c} :
        Untouched(d) /\ client'[d] = client[d] /\ inbox'[d] = inbox[d]
  BY <1>1, <1>2 DEF Types, Untouched
<1> QED
  BY <1>1, <1>2, <1>3, <1>4, <1>5, <1>6, ClientMoves DEF Types, Loop

LEMMA WriteRequestStep ==
  ASSUME IInv, NEW c \in Clients, WriteRequest(c)
  PROVE  IInv'
<1>1. PICK command \in Commands[c] :
        /\ pc[c] = "prompt" /\ typed < MaxCommands /\ typed' = typed + 1
        /\ call' = [call EXCEPT ![c] = command]
        /\ pc' = [pc EXCEPT ![c] = "reading"]
        /\ UNCHANGED <<skelVars, serving, stage, wire, result, torn, sent, told, finished>>
        /\ \/ /\ client[c] = "idle"
              /\ client' = [client EXCEPT ![c] = "waiting"]
              /\ \E m \in {"request", "piece"} : inbox' = [inbox EXCEPT ![c] = m]
              /\ request' = [request EXCEPT ![c] = command]
           \/ client[c] = "cut off" /\ UNCHANGED <<client, inbox, request>>
  BY DEF WriteRequest, Type, Net!SendRequest, historyVars, netVars
<1>2. Types /\ Connection(c) /\ Session(c) /\ Loop /\ command \in Calls
  BY SystemAssumption DEF IInv
<1>3. Types'
  <2>1. typed' \in 0 .. MaxCommands
    <3>1. typed < MaxCommands /\ typed' = typed + 1
      BY <1>1
    <3> QED
      BY <1>2, <3>1, OneMore
  <2>2. /\ pc' \in [Clients -> {"off", "prompt", "reading", "returned"}]
        /\ call' \in [Clients -> Calls \cup {NULL}]
    BY <1>1, <1>2 DEF Types
  <2>4. request' \in [Clients -> Calls \cup {NULL}]
    <3>1. request' = [request EXCEPT ![c] = command] \/ request' = request
      BY <1>1
    <3> QED
      BY <1>2, <3>1 DEF Types
  <2>3. client' \in [Clients -> States] /\ inbox' \in [Clients -> Mail]
    <3>1. client \in [Clients -> States] /\ inbox \in [Clients -> Mail]
      BY <1>2 DEF Types
    <3>2. {"waiting"} \subseteq States /\ {"request", "piece"} \subseteq Mail
      BY DEF States, Mail
    <3>3. CASE /\ client' = [client EXCEPT ![c] = "waiting"]
               /\ \E m \in {"request", "piece"} : inbox' = [inbox EXCEPT ![c] = m]
      BY <3>1, <3>2, <3>3
    <3>4. CASE UNCHANGED <<client, inbox>>
      BY <3>1, <3>4
    <3> QED
      BY <1>1, <3>3, <3>4
  <2> QED
    BY <1>1, <1>2, <2>1, <2>2, <2>3, <2>4 DEF Types
<1>4. Connection(c)'
  BY <1>1, <1>2 DEF Types, Connection
<1>5. Session(c)'
  <2>1. stage = "serving" /\ serving = c => client[c] # "idle"
    BY <1>2 DEF Loop
  <2> QED
    BY <1>1, <1>2, <2>1 DEF Types, Connection, Session
<1>6. \A d \in Clients \ {c} :
        Untouched(d) /\ client'[d] = client[d] /\ inbox'[d] = inbox[d]
  BY <1>1, <1>2 DEF Types, Untouched
<1>7. serving = c => stage # "serving" /\ (stage = "closing" => client[c] = "idle")
  BY <1>1, <1>2 DEF Loop
<1>8. sent[c] # NULL => torn[c]
  BY <1>1, <1>2 DEF Session, Types
<1>9. stage = "closing" /\ serving = c => client'[c] = "waiting"
  BY <1>1, <1>2, <1>7 DEF Types
<1> QED
  BY <1>1, <1>2, <1>3, <1>4, <1>5, <1>6, <1>7, <1>8, <1>9, ClientMoves

LEMMA WriteFailsStep ==
  ASSUME IInv, NEW c \in Clients, WriteFails(c)
  PROVE  IInv'
<1>1. PICK command \in Commands[c] :
        /\ pc[c] = "prompt" /\ client[c] = "cut off"
        /\ typed < MaxCommands /\ typed' = typed + 1
        /\ call' = [call EXCEPT ![c] = command]
        /\ pc' = [pc EXCEPT ![c] = "returned"]
        /\ result' = [result EXCEPT ![c] = Returned(command.opcode, NULL)]
        /\ UNCHANGED <<skelVars, serving, stage, client, inbox, request, wire, torn, sent,
                       told, finished>>
  BY DEF WriteFails, Type, historyVars, netVars
<1>2. Types /\ Connection(c) /\ Session(c) /\ Loop /\ command \in Calls
  BY SystemAssumption DEF IInv
<1>3. Types'
  <2>1. typed' \in 0 .. MaxCommands
    <3>1. typed < MaxCommands /\ typed' = typed + 1
      BY <1>1
    <3> QED
      BY <1>2, <3>1, OneMore
  <2>2. result' = [d \in Clients |-> result'[d]]
    BY <1>1, <1>2 DEF Types
  <2> QED
    BY <1>1, <1>2, <2>1, <2>2 DEF Types
<1>4. Connection(c)'
  BY <1>1, <1>2 DEF Types, Connection
<1>5. Session(c)'
  BY <1>1, <1>2 DEF Types, Connection, Session
<1>6. \A d \in Clients \ {c} :
        Untouched(d) /\ client'[d] = client[d] /\ inbox'[d] = inbox[d]
  BY <1>1, <1>2 DEF Types, Untouched
<1>7. serving = c => stage \notin {"serving", "closing"}
  BY <1>1, <1>2 DEF Loop
<1>8. sent[c] # NULL => torn[c]
  BY <1>1, <1>2 DEF Session, Types
<1> QED
  BY <1>1, <1>2, <1>3, <1>4, <1>5, <1>6, <1>7, <1>8, ClientMoves

LEMMA LeaveStep ==
  ASSUME IInv, NEW c \in Clients, Forget(c),
         Net!Die(c) \/ Net!Restart(c) \/ Net!Quit(c)
  PROVE  IInv'
<1>1. /\ pc' = [pc EXCEPT ![c] = "off"] /\ call' = [call EXCEPT ![c] = NULL]
      /\ wire' = [wire EXCEPT ![c] = <<>>] /\ result' = [result EXCEPT ![c] = NULL]
      /\ torn' = [torn EXCEPT ![c] = FALSE] /\ sent' = [sent EXCEPT ![c] = NULL]
      /\ UNCHANGED <<skelVars, serving, stage, typed, request, told, finished>>
      /\ \/ /\ client[c] \in {"idle", "waiting"}
            /\ client' = [client EXCEPT ![c] = "dead"] /\ inbox' = inbox
         \/ /\ client[c] = "cut off"
            /\ client' = [client EXCEPT ![c] = "out"] /\ inbox' = inbox
         \/ /\ client[c] = "idle"
            /\ client' = [client EXCEPT ![c] = "left"]
            /\ inbox' = [inbox EXCEPT ![c] = "quit"]
  BY DEF Forget, Net!Die, Net!Restart, Net!Quit
<1>2. Types /\ Connection(c) /\ Session(c) /\ Loop
  BY DEF IInv
<1>3. Types'
  <2>1. result' = [d \in Clients |-> result'[d]]
    BY <1>1, <1>2 DEF Types
  <2>2. /\ pc' \in [Clients -> {"off", "prompt", "reading", "returned"}]
        /\ call' \in [Clients -> Calls \cup {NULL}]
        /\ sent' \in [Clients -> Answers \cup {NULL}]
        /\ torn' \in [Clients -> BOOLEAN]
    BY <1>1, <1>2 DEF Types
  <2>3. client' \in [Clients -> States] /\ inbox' \in [Clients -> Mail]
    BY <1>1, <1>2 DEF Types, States, Mail
  <2>4. wire' \in [Clients -> Seq(Fields)]
    <3>1. <<>> \in Seq(Fields)
      OBVIOUS
    <3>2. wire' = [wire EXCEPT ![c] = <<>>]
      BY <1>1
    <3> QED
      BY <1>2, <3>1, <3>2 DEF Types
  <2> QED
    BY <1>1, <1>2, <2>1, <2>2, <2>3, <2>4 DEF Types
<1>4. Connection(c)'
  BY <1>1, <1>2 DEF Types, Connection, Mail
<1>5. Session(c)'
  BY <1>1, <1>2 DEF Types, Connection, Session
<1>6. \A d \in Clients \ {c} :
        Untouched(d) /\ client'[d] = client[d] /\ inbox'[d] = inbox[d]
  BY <1>1, <1>2 DEF Types, Untouched
<1>7. stage = "serving" /\ serving = c => client'[c] = "dead" /\ inbox'[c] = "nothing"
  BY <1>1, <1>2 DEF Loop, Types
<1>8. stage = "closing" /\ serving = c => client'[c] \in {"dead", "left"}
  BY <1>1, <1>2 DEF Loop, Types
<1>9. sent'[c] = NULL
  BY <1>1, <1>2 DEF Types
<1> QED
  BY <1>1, <1>2, <1>3, <1>4, <1>5, <1>6, <1>7, <1>8, <1>9, ClientMoves

(***************************************************************************)
(* All of an answer is read, and it is the one the server sent; or a part  *)
(* of it, and the client is torn.                                          *)
(***************************************************************************)
ReturnsFromRead(c, n) ==
  /\ pc' = [pc EXCEPT ![c] = "returned"]
  /\ wire' = [wire EXCEPT ![c] = remaining(@, n)]
  /\ result' = [result EXCEPT ![c] = Returned(call[c].opcode,
                                             message_t__unpack(SubSeq(wire[c], 1, n)))]
  /\ torn' = [torn EXCEPT ![c] = @ \/ n < Len(wire[c])]
  /\ UNCHANGED <<netVars, skelVars, typed, request, call, sent, told, finished>>

LEMMA ReadStep ==
  ASSUME IInv, NEW c \in Clients, pc[c] = "reading",
         NEW n \in read_all(wire[c]), ReturnsFromRead(c, n)
  PROVE  IInv'
<1> DEFINE p_msg == message_t__unpack(SubSeq(wire[c], 1, n))
<1>1. /\ pc' = [pc EXCEPT ![c] = "returned"]
      /\ wire' = [wire EXCEPT ![c] = SubSeq(wire[c], n + 1, Len(wire[c]))]
      /\ result' = [result EXCEPT ![c] = Returned(call[c].opcode, p_msg)]
      /\ torn' = [torn EXCEPT ![c] = torn[c] \/ n < Len(wire[c])]
      /\ UNCHANGED <<skelVars, serving, stage, client, inbox, typed, request, call, sent,
                     told, finished>>
  BY DEF ReturnsFromRead, netVars, remaining
<1> HIDE DEF p_msg
<1>2. Types /\ Connection(c) /\ Session(c) /\ Loop
  BY DEF IInv
<1>3. wire[c] \in Seq(Fields) /\ Len(wire[c]) \in Nat /\ n \in 1 .. Len(wire[c])
  BY <1>2 DEF Types, read_all
<1>4. Types'
  <2>1. result' = [d \in Clients |-> result'[d]]
    BY <1>1, <1>2 DEF Types
  <2>2. SubSeq(wire[c], n + 1, Len(wire[c])) \in Seq(Fields)
    BY <1>3, SubSeqProperties
  <2>3. wire' \in [Clients -> Seq(Fields)]
    BY <1>1, <1>2, <2>2 DEF Types
  <2>5. torn' \in [Clients -> BOOLEAN]
    BY <1>1, <1>2 DEF Types
  <2>6. pc' \in [Clients -> {"off", "prompt", "reading", "returned"}]
    BY <1>1, <1>2 DEF Types
  <2> QED
    BY <1>1, <1>2, <2>1, <2>3, <2>5, <2>6 DEF Types
<1>5. Connection(c)'
  BY <1>1, <1>2 DEF Types, Connection
<1>6. Session(c)'
  <2>1. SUFFICES ASSUME ~torn'[c]
                 PROVE  Session(c)'
    BY DEF Session
  <2>2. ~torn[c] /\ n = Len(wire[c]) /\ wire[c] # <<>>
    <3>1. ~torn[c] /\ ~(n < Len(wire[c]))
      BY <1>1, <1>2, <2>1 DEF Types
    <3> QED
      BY <1>3, <3>1
  <2>3. /\ sent[c] # NULL /\ client[c] # "waiting"
        /\ wire[c] = message_t__pack(sent[c])
    BY <1>2, <2>2 DEF Session
  <2>4. sent[c] \in Answers
    BY <1>2, <2>3 DEF Types
  <2>5. SubSeq(wire[c], 1, n) = wire[c]
    BY <1>3, <2>2, SubSeqFull
  <2>6. p_msg = Whole(sent[c])
    BY <2>3, <2>4, <2>5, AnswersPack DEF p_msg
  <2>7. SubSeq(wire[c], n + 1, Len(wire[c])) = <<>>
    BY <1>3, <2>2, SubSeqEmpty
  <2>8. /\ pc'[c] = "returned" /\ wire'[c] = <<>>
        /\ result'[c] = Returned(call[c].opcode, Whole(sent[c]))
        /\ client'[c] # "waiting" /\ sent'[c] = sent[c] /\ call'[c] = call[c]
    BY <1>1, <1>2, <2>3, <2>6, <2>7 DEF Types
  <2>9. Answered(call[c], sent[c])
    BY <1>2, <2>2, <2>3 DEF Session
  <2> QED
    BY <2>3, <2>8, <2>9 DEF Session
<1>7. \A d \in Clients \ {c} :
        Untouched(d) /\ client'[d] = client[d] /\ inbox'[d] = inbox[d]
  BY <1>1, <1>2 DEF Types, Untouched
<1>8. ~torn'[c] => ~torn[c]
  BY <1>1, <1>2 DEF Types
<1>9. stage \in {"serving", "closing"} /\ serving = c =>
        /\ client[c] \notin {"out", "cut off"}
        /\ stage = "serving" => client[c] \in {"waiting", "dead"} /\ inbox[c] = "nothing"
  BY <1>2 DEF Loop
<1> QED
  BY <1>1, <1>2, <1>4, <1>5, <1>6, <1>7, <1>8, <1>9, ClientMoves

(***************************************************************************)
(* What the rtree_ function returned, of the client at whose prompt it is  *)
(* shown: a number that was told is the one in the server's answer.        *)
(***************************************************************************)
LEMMA NumberShown ==
  ASSUME IInv, NEW c \in Clients, pc[c] = "returned", ~torn[c],
         call[c].opcode \in WriteOps, result[c] # -1
  PROVE  Underway(c) /\ result[c] = sent[c].result
<1>1. Types /\ Connection(c) /\ Session(c) /\ Numbers
  BY DEF IInv
<1>2. call[c].opcode \in {OP_PUT, OP_DEL}
  BY DEF WriteOps
<1>3. \A p : Returned(call[c].opcode, p) = IF p = NULL THEN -1 ELSE p.result
  BY <1>2 DEF Returned, rtree_put, rtree_del, OP_PUT, OP_GET, OP_DEL, OP_SIZE, OP_HEIGHT,
              OP_GETKEYS, OP_GETVALUES, OP_VERIFY
<1>4. sent[c] # NULL /\ Whole(sent[c]) # NULL /\ result[c] = Whole(sent[c]).result
  BY <1>1, <1>3 DEF Session
<1>5. sent[c] \in Answers /\ Answered(call[c], sent[c])
  BY <1>1, <1>4 DEF Types, Session
<1>6. sent[c].opcode \in {OP_PUT + 1, OP_DEL + 1}
  BY <1>2, <1>5 DEF Answered, OP_PUT, OP_DEL, OP_VERIFY
<1>7. sent[c] \in Acknowledgements
  BY <1>5, <1>6, AnswerFacts
<1> QED
  BY <1>4, <1>7 DEF Underway, Whole

LEMMA VerdictShown ==
  ASSUME IInv, NEW c \in Clients, pc[c] = "returned", ~torn[c],
         call[c].opcode = OP_VERIFY, result[c] # EBADMSG, ~(result[c] < 0)
  PROVE  Done(call[c].op_n) /\ call[c].op_n \in AskedNumbers
<1>1. Types /\ Connection(c) /\ Session(c) /\ Verified
  BY DEF IInv
<1>2. \A p : Returned(call[c].opcode, p) = rtree_verify(p)
  BY DEF Returned, OP_PUT, OP_GET, OP_DEL, OP_SIZE, OP_HEIGHT, OP_GETKEYS, OP_GETVALUES,
         OP_VERIFY
<1>3. -1 < 0
  OBVIOUS
<1>4. /\ sent[c] # NULL /\ Whole(sent[c]).opcode # OP_ERROR
      /\ result[c] = Whole(sent[c]).result
  BY <1>1, <1>2, <1>3 DEF Session, rtree_verify
<1>5. sent[c] \in Answers /\ Answered(call[c], sent[c])
  BY <1>1, <1>4 DEF Types, Session
<1>6. sent[c].opcode = OP_VERIFY + 1 /\ result[c] = sent[c].result
  BY <1>4, <1>5 DEF Answered, Whole
<1>7. sent[c].result \in {-1, 0}
  BY <1>5, <1>6, AnswerFacts
<1>8. SaysDone(sent[c])
  BY <1>3, <1>6, <1>7 DEF SaysDone
<1>9. call[c] \in Calls
  BY <1>1 DEF Connection
<1> QED
  BY <1>1, <1>4, <1>8, <1>9, CallFacts DEF Verified

LEMMA PromptStep ==
  ASSUME IInv, NEW c \in Clients, pc[c] = "returned", Prompt(c),
         \/ told' = told
         \/ told' = told \cup {sent[c].result} /\ Underway(c),
         finished' \subseteq AskedNumbers, \A n \in finished' \ finished : Done(n)
  PROVE  IInv'
<1>1. /\ pc' = [pc EXCEPT ![c] = "prompt"] /\ call' = [call EXCEPT ![c] = NULL]
      /\ result' = [result EXCEPT ![c] = NULL] /\ sent' = [sent EXCEPT ![c] = NULL]
      /\ UNCHANGED <<skelVars, serving, stage, client, inbox, typed, request, wire, torn>>
  BY DEF Prompt, netVars
<1>2. Types /\ Connection(c) /\ Session(c) /\ Loop /\ Numbers
  BY DEF IInv
<1>3. Types'
  <2>1. result' = [d \in Clients |-> result'[d]]
    BY <1>1, <1>2 DEF Types
  <2>2. told' \subseteq Nat
    <3>1. Underway(c) => sent[c].result \in Nat
      BY DEF Underway, Acknowledgements
    <3> QED
      BY <1>2, <3>1 DEF Types
  <2>3. /\ pc' \in [Clients -> {"off", "prompt", "reading", "returned"}]
        /\ call' \in [Clients -> Calls \cup {NULL}]
        /\ sent' \in [Clients -> Answers \cup {NULL}]
    BY <1>1, <1>2 DEF Types
  <2> QED
    BY <1>1, <1>2, <2>1, <2>2, <2>3 DEF Types
<1>4. Connection(c)'
  BY <1>1, <1>2 DEF Types, Connection
<1>5. Session(c)'
  BY <1>1, <1>2 DEF Types, Connection, Session
<1>6. \A d \in Clients \ {c} :
        Untouched(d) /\ client'[d] = client[d] /\ inbox'[d] = inbox[d]
  BY <1>1, <1>2 DEF Types, Untouched
<1>7. stage \in {"serving", "closing"} /\ serving = c =>
        /\ client[c] \notin {"out", "cut off"}
        /\ stage = "serving" => client[c] \in {"waiting", "dead"} /\ inbox[c] = "nothing"
  BY <1>2 DEF Loop
<1>8. sent'[c] = NULL
  BY <1>1, <1>2 DEF Types
<1>9. client'[c] = "waiting" => torn'[c]
  BY <1>1, <1>2 DEF Session
<1> QED
  BY <1>1, <1>2, <1>3, <1>4, <1>5, <1>6, <1>7, <1>8, <1>9, ClientMoves

LEMMA ShowStep ==
  ASSUME IInv, NEW c \in Clients, Show(c)
  PROVE  IInv'
<1>1. finished \subseteq AskedNumbers
  BY DEF IInv, Types
<1>2. pc[c] = "returned"
  BY DEF Show
<1>3. CASE ShowRead(c)
  BY <1>1, <1>2, <1>3, PromptStep DEF ShowRead
<1>4. CASE ShowValues(c)
  <2>1. CASE Prompt(c) /\ UNCHANGED <<told, finished>>
    BY <1>1, <1>2, <2>1, PromptStep
  <2>2. CASE Crash(c)
    BY <2>2, LeaveStep DEF Crash
  <2> QED
    BY <1>4, <2>1, <2>2 DEF ShowValues
<1>5. CASE ShowNumber(c)
  <2>1. Prompt(c) /\ call[c].opcode \in WriteOps /\ finished' = finished
    BY <1>5 DEF ShowNumber, WriteOps
  <2>2. CASE told' = told
    BY <1>1, <1>2, <2>1, <2>2, PromptStep
  <2>3. CASE told' # told
    <3>1. told' = told \cup {result[c]} /\ ~(result[c] < 0) /\ ~torn[c]
      BY <1>5, <2>3 DEF ShowNumber
    <3>2. result[c] # -1
      BY <3>1
    <3>3. Underway(c) /\ result[c] = sent[c].result
      BY <1>2, <3>2, <2>1, <3>1, NumberShown
    <3> QED
      BY <1>1, <1>2, <2>1, <3>1, <3>3, PromptStep
  <2> QED
    BY <2>2, <2>3
<1>6. CASE ShowVerify(c)
  <2>1. Prompt(c) /\ call[c].opcode = OP_VERIFY /\ told' = told
    BY <1>6 DEF ShowVerify
  <2>2. CASE finished' = finished
    BY <1>1, <1>2, <2>1, <2>2, PromptStep
  <2>3. CASE finished' # finished
    <3>1. /\ finished' = finished \cup {call[c].op_n}
          /\ result[c] # EBADMSG /\ ~(result[c] < 0) /\ ~torn[c]
      BY <1>6, <2>3 DEF ShowVerify
    <3>2. Done(call[c].op_n) /\ call[c].op_n \in AskedNumbers
      BY <1>2, <2>1, <3>1, VerdictShown
    <3> QED
      BY <1>1, <1>2, <2>1, <3>1, <3>2, PromptStep
  <2> QED
    BY <2>2, <2>3
<1> QED
  BY <1>3, <1>4, <1>5, <1>6 DEF Show

LEMMA ClientStep ==
  ASSUME IInv, NEW c \in Clients, Client(c) \/ User(c)
  PROVE  IInv'
<1>1. CASE ReadAnswer(c)
  <2>1. PICK n \in read_all(wire[c]) : ReturnsFromRead(c, n) \/ Crash(c)
    BY <1>1 DEF ReadAnswer, ReturnsFromRead
  <2>2. CASE Crash(c)
    BY <2>2, LeaveStep DEF Crash
  <2>3. CASE ReturnsFromRead(c, n)
    BY <1>1, <2>3, ReadStep DEF ReadAnswer
  <2> QED
    BY <2>1, <2>2, <2>3
<1>2. CASE TypeBlanks(c) \/ rtree_quit(c) \/ Kill(c)
  BY <1>2, LeaveStep DEF TypeBlanks, Crash, rtree_quit, Kill
<1> QED
  BY <1>1, <1>2, ShowStep, ConnectStep, WriteRequestStep, WriteFailsStep DEF Client, User
-----------------------------------------------------------------------------
(***************************************************************************)
(* The actions of the server: nobody but the client that is served is      *)
(* concerned.                                                              *)
(***************************************************************************)
LEMMA ServerLeaves ==
  ASSUME IInv, NEW d \in Clients, UNCHANGED <<pc, call, result, torn>>,
         wire'[d] = wire[d], sent'[d] = sent[d], request'[d] = request[d],
         client'[d] = client[d], inbox'[d] = inbox[d],
         stage' = "serving" => serving' # d
  PROVE  Connection(d)' /\ Session(d)'
<1>1. Untouched(d)
  BY DEF Untouched
<1> QED
  BY <1>1, ConnectionStays, SessionStays DEF IInv

LEMMA WorkStep ==
  ASSUME IInv, Work
  PROVE  IInv'
<1>1. PICK r \in pending : Skel!Apply(r)
  BY DEF Work
<1>2. UNCHANGED <<serving, stage, inbox, client, typed, pc, request, call, wire, result, torn,
                  sent, told, finished>>
  BY DEF Work, netVars, clientVars, historyVars
<1>3. /\ Types /\ Service /\ Loop /\ Numbers /\ Verified
      /\ \A c \in Clients : Connection(c) /\ Session(c)
  BY DEF IInv
<1>4. /\ Service' /\ UNCHANGED <<next, owed, answer>>
      /\ \A n : Done(n) => Done(n)'
  BY <1>1, <1>3, Applied
<1>5. Types' /\ Loop'
  BY <1>2, <1>3, <1>4 DEF Types, Loop
<1>6. ASSUME NEW c \in Clients PROVE Connection(c)' /\ Session(c)'
  BY <1>2, <1>3, <1>4 DEF Connection, Session
<1>7. Numbers'
  BY <1>2, <1>3, <1>4 DEF Numbers, New, Underway
<1>8. Verified'
  BY <1>2, <1>3, <1>4 DEF Verified, SaysDone
<1> QED
  BY <1>4, <1>5, <1>6, <1>7, <1>8 DEF IInv

LEMMA AcknowledgeStep ==
  ASSUME IInv, Acknowledge
  PROVE  IInv'
<1>1. UNCHANGED <<serving, stage, inbox, client, typed, pc, request, call, wire, result, torn,
                  sent, told, finished>>
  BY DEF Acknowledge, netVars, clientVars, historyVars
<1>2. /\ Types /\ Service /\ Loop /\ Numbers /\ Verified
      /\ \A c \in Clients : Connection(c) /\ Session(c)
  BY DEF IInv
<1>3. /\ Service' /\ UNCHANGED <<next, pending, store>>
      /\ owed # NULL /\ owed' = NULL /\ answer' \in Acknowledgements
      /\ answer'.opcode = owed + 1 /\ answer'.result = next - 1
  BY <1>2, Acknowledged DEF Acknowledge
<1>4. answer' # NULL /\ ~SaysDone(answer')
  BY <1>3, AnswersDiffer
<1>5. Types' /\ Loop'
  BY <1>1, <1>2, <1>3, <1>4 DEF Types, Loop
<1>6. ASSUME NEW c \in Clients PROVE Connection(c)' /\ Session(c)'
  <2>1. Connection(c)'
    BY <1>1, <1>2 DEF Connection
  <2>2. client[c] = "waiting" /\ ~torn[c] /\ stage = "serving" /\ serving = c =>
          Answered(call[c], answer')
    BY <1>2, <1>3 DEF Session, Answered
  <2> QED
    BY <1>1, <1>2, <1>3, <2>1, <2>2 DEF Session
<1>7. Numbers'
  BY <1>1, <1>2, <1>3 DEF Numbers, New, Underway
<1>8. Verified'
  <2>1. \A n : Done(n) => Done(n)'
    BY <1>3 DEF Done
  <2> QED
    BY <1>1, <1>2, <1>4, <2>1 DEF Verified, SaysDone
<1> QED
  BY <1>3, <1>5, <1>6, <1>7, <1>8 DEF IInv

LEMMA ReceiveStep ==
  ASSUME IInv, NEW c \in Clients, Receive(c)
  PROVE  IInv'
<1>1. /\ stage = "free" /\ inbox[c] = "request" /\ imvoke(request[c])
      /\ inbox' = [inbox EXCEPT ![c] = "nothing"] /\ serving' = c /\ stage' = "serving"
      /\ request' = [request EXCEPT ![c] = NULL]
      /\ UNCHANGED <<client, typed, pc, call, wire, result, torn, sent, told, finished>>
  BY DEF Receive, Net!TakeRequest, historyVars
<1>2. /\ Types /\ Service /\ Loop /\ Numbers /\ Verified
      /\ \A d \in Clients : Connection(d) /\ Session(d)
  BY DEF IInv
<1>3. request[c] \in Calls /\ client[c] \in {"waiting", "dead"}
  BY <1>1, <1>2 DEF Connection
<1>0. PICK m \in Calls : m = request[c]
  BY <1>3
<1>4. Invoked(m)
  <2>1. imvoke(m)
    BY <1>0, <1>1
  <2> QED
    BY <1>2, <2>1, Invoke
<1>5. Service' /\ \A n : Done(n) => Done(n)'
  BY <1>4 DEF Invoked
<1>6. Types' /\ Loop'
  <2>1. Types'
    BY <1>1, <1>2 DEF Types, Mail
  <2>2. inbox'[c] = "nothing" /\ client'[c] \in {"waiting", "dead"}
    BY <1>1, <1>2, <1>3 DEF Types
  <2>3. owed' = NULL <=> answer' # NULL
    BY <1>4 DEF Invoked
  <2> QED
    BY <1>1, <2>1, <2>2, <2>3 DEF Loop
<1>7. ASSUME NEW d \in Clients PROVE Connection(d)' /\ Session(d)'
  <2>1. CASE d = c
    <3>1. inbox'[c] = "nothing"
      BY <1>1, <1>2 DEF Types
    <3>2. Connection(c)'
      BY <1>1, <1>2, <1>3, <3>1 DEF Connection
    <3>3. ~torn[c] /\ client[c] = "waiting" => m = call[c]
      BY <1>0, <1>1, <1>2 DEF Session
    <3>4. /\ owed' # NULL => owed' = m.opcode
          /\ answer' # NULL => Answered(m, answer')
      BY <1>4 DEF Invoked
    <3>5. Session(c)'
      BY <1>1, <1>2, <3>1, <3>3, <3>4 DEF Session
    <3> QED
      BY <2>1, <3>2, <3>5
  <2>2. CASE d # c
    <3>1. request'[d] = request[d] /\ inbox'[d] = inbox[d]
      BY <1>1, <1>2, <2>2 DEF Types
    <3> QED
      BY <1>1, <2>2, <3>1, ServerLeaves
  <2> QED
    BY <2>1, <2>2
<1>8. Numbers'
  <2>1. /\ next \in Nat \ {0} /\ next' \in {next, next + 1}
        /\ owed' # NULL => next' = next + 1
        /\ answer' \notin Acknowledgements
    <3>1. NULL \notin Acknowledgements
      BY AnswersDiffer
    <3> QED
      BY <1>2, <1>4, <3>1 DEF Invoked, Service
  <2>6. 1 .. next - 1 \subseteq 1 .. next' - 1
    BY <2>1, UpTo
  <2>2. \A n : New(n) => New(n)'
    BY <1>1, <2>6 DEF New
  <2>3. told' \subseteq 1 .. next' - 1
    BY <1>1, <1>2, <2>6 DEF Numbers
  <2>4. owed' # NULL => New(next - 1)' /\ \A n : New(n) => n # next' - 1
    BY <1>1, <1>2, <2>1 DEF New, Numbers
  <2>5. \A d \in Clients : Underway(d)' <=> Underway(d)
    BY <1>1 DEF Underway
  <2> QED
    BY <1>1, <1>2, <2>1, <2>2, <2>3, <2>4, <2>5 DEF Numbers
<1>9. Verified'
  <2>1. ~torn[c] /\ client[c] = "waiting" => m = call[c]
    BY <1>0, <1>1, <1>2 DEF Session
  <2>2. answer' # NULL /\ SaysDone(answer') => Done(m.op_n)'
    BY <1>4 DEF Invoked
  <2>3. ~torn[c] /\ client[c] = "waiting" /\ answer' # NULL /\ SaysDone(answer') =>
          Done(call[c].op_n)'
    BY <1>1, <2>1, <2>2
  <2>4. \A n \in finished' : Done(n)'
    BY <1>1, <1>2, <1>5 DEF Verified
  <2>5. \A d \in Clients :
          ~torn'[d] /\ sent'[d] # NULL /\ SaysDone(sent'[d]) => Done(call[d].op_n)'
    BY <1>1, <1>2, <1>5 DEF Verified
  <2>6. stage' = "serving" /\ answer' # NULL /\ SaysDone(answer') /\ ~torn'[serving']
        /\ client'[serving'] = "waiting" => Done(call[serving].op_n)'
    BY <1>1, <2>3
  <2> QED
    BY <2>4, <2>5, <2>6 DEF Verified, SaysDone
<1> QED
  BY <1>5, <1>6, <1>7, <1>8, <1>9 DEF IInv

LEMMA SendStep ==
  ASSUME IInv, Send
  PROVE  IInv'
<1>1. /\ Types /\ Service /\ Loop /\ Numbers /\ Verified
      /\ \A d \in Clients : Connection(d) /\ Session(d)
  BY DEF IInv
<1>2. PICK c \in Clients : c = serving
  BY <1>1 DEF Send, Net!Answer, Loop
<1>3. /\ stage = "serving" /\ stage' = "free" /\ answer # NULL /\ answer' = NULL
      /\ client' = [client EXCEPT ![c] = IF client[c] = "waiting" THEN "idle" ELSE client[c]]
      /\ wire' = [wire EXCEPT ![c] = IF client[c] \in {"left", "dead"} THEN wire[c]
                                    ELSE wire[c] \o message_t__pack(answer)]
      /\ sent' = [sent EXCEPT ![c] = IF client[c] \in {"left", "dead"} THEN NULL ELSE answer]
      /\ UNCHANGED <<inbox, next, pending, store, owed, typed, pc, request, call, result, torn,
                     told, finished>>
  BY <1>2 DEF Send, Net!Answer, Net!Closed, Skel!Deliver
<1>4. answer \in Answers /\ owed = NULL /\ client[c] \in {"waiting", "dead"}
  BY <1>1, <1>2, <1>3 DEF Service, Loop
<1>5. /\ message_t__pack(answer) \in Seq(Fields)
      /\ wire[c] \in Seq(Fields)
  BY <1>1, <1>4, PackFields DEF Types
<1>6. Types'
  <2>1. wire[c] \o message_t__pack(answer) \in Seq(Fields)
    BY <1>5
  <2>2. wire' \in [Clients -> Seq(Fields)]
    BY <1>1, <1>3, <1>5, <2>1 DEF Types
  <2>3. sent' \in [Clients -> Answers \cup {NULL}] /\ client' \in [Clients -> States]
    BY <1>1, <1>3, <1>4 DEF Types, States
  <2> QED
    BY <1>1, <1>3, <2>2, <2>3 DEF Types
<1>7. Service' /\ Loop'
  BY <1>1, <1>3, <1>4 DEF Service, Loop
<1>8. ASSUME NEW d \in Clients PROVE Connection(d)' /\ Session(d)'
  <2>1. CASE d # c
    <3>1. wire'[d] = wire[d] /\ sent'[d] = sent[d] /\ client'[d] = client[d]
      BY <1>1, <1>3, <2>1 DEF Types
    <3> QED
      BY <1>3, <3>1, ServerLeaves
  <2>2. CASE d = c /\ client[c] = "dead"
    <3>1. wire'[c] = wire[c] /\ sent'[c] = NULL /\ client'[c] = "dead"
      BY <1>1, <1>3, <2>2 DEF Types
    <3>2. Connection(c)'
      BY <1>1, <1>3, <2>2, <3>1 DEF Connection
    <3>3. Session(c)'
      BY <1>1, <1>3, <2>2, <3>1 DEF Connection, Session
    <3> QED
      BY <2>2, <3>2, <3>3
  <2>3. CASE d = c /\ client[c] = "waiting"
    <3>1. /\ wire'[c] = wire[c] \o message_t__pack(answer)
          /\ sent'[c] = answer /\ client'[c] = "idle"
      BY <1>1, <1>3, <2>3 DEF Types
    <3>2. pc[c] # "off" /\ inbox[c] = "nothing"
      BY <1>1, <1>2, <1>3, <2>3 DEF Connection, Loop
    <3>3. Connection(c)'
      <4>1. pc'[c] # "off" /\ inbox'[c] = "nothing" /\ client'[c] = "idle"
        BY <1>3, <3>1, <3>2
      <4>2. UNCHANGED <<pc, call, request>>
        BY <1>3
      <4>3. /\ pc[c] \in {"reading", "returned"} => call[c] \in Calls
            /\ pc[c] \in {"off", "prompt"} => call[c] = NULL
        BY <1>1 DEF Connection
      <4> QED
        BY <4>1, <4>2, <4>3 DEF Connection
    <3>4. ASSUME ~torn[c]
          PROVE  /\ pc[c] = "reading" /\ wire'[c] = message_t__pack(answer)
                 /\ Answered(call[c], answer)
      <4>1. /\ pc[c] = "reading" /\ wire[c] = <<>> /\ Answered(call[c], answer)
        BY <1>1, <1>2, <1>3, <2>3, <3>4 DEF Session
      <4>2. <<>> \o message_t__pack(answer) = message_t__pack(answer)
        BY <1>5
      <4> QED
        BY <3>1, <4>1, <4>2
    <3>5. Session(c)'
      BY <1>3, <3>1, <3>4 DEF Session
    <3> QED
      BY <2>3, <3>3, <3>5
  <2> QED
    BY <1>4, <2>1, <2>2, <2>3
<1>9. NULL \notin Acknowledgements
  BY AnswersDiffer
<1>10. \A d \in Clients : d # c => sent'[d] = sent[d] /\ (Underway(d)' <=> Underway(d))
  BY <1>1, <1>3 DEF Types, Underway
<1>11. sent'[c] \in {NULL, answer} /\ (Underway(c)' => sent'[c] = answer
                                                  /\ answer \in Acknowledgements)
  BY <1>1, <1>3, <1>9 DEF Types, Underway
<1>12. Numbers'
  <2>1. \A n : New(n)' <=> New(n)
    BY <1>3 DEF New
  <2>2. \A d \in Clients : Underway(d)' => New(sent[d].result)'
    BY <1>1, <1>10, <1>11, <2>1 DEF Numbers
  <2>3. \A d, e \in Clients :
          Underway(d)' /\ Underway(e)' /\ d # e => sent'[d].result # sent'[e].result
    BY <1>1, <1>10, <1>11 DEF Numbers
  <2> QED
    BY <1>1, <1>3, <1>4, <1>9, <2>2, <2>3 DEF Numbers
<1>13. Verified'
  <2>1. \A n : Done(n)' <=> Done(n)
    BY <1>3 DEF Done
  <2>2. ASSUME NEW d \in Clients, ~torn'[d], sent'[d] # NULL, SaysDone(sent'[d])
        PROVE  Done(call[d].op_n)'
    <3>1. CASE d # c
      BY <1>1, <1>3, <1>10, <2>1, <2>2, <3>1 DEF Verified
    <3>2. CASE d = c
      <4>1. sent'[c] = answer /\ client[c] = "waiting"
        BY <1>1, <1>3, <1>4, <2>2, <3>2 DEF Types
      <4>2. Done(call[c].op_n)
        BY <1>1, <1>2, <1>3, <2>2, <3>2, <4>1 DEF Verified
      <4> QED
        BY <1>3, <2>1, <3>2, <4>2
    <3> QED
      BY <3>1, <3>2
  <2>3. \A n \in finished' : Done(n)'
    BY <1>1, <1>3, <2>1 DEF Verified
  <2> QED
    BY <1>3, <2>2, <2>3 DEF Verified, SaysDone
<1> QED
  BY <1>6, <1>7, <1>8, <1>12, <1>13 DEF IInv

LEMMA GiveUpStep ==
  ASSUME IInv, NEW c \in Clients, GiveUp(c)
  PROVE  IInv'
<1>1. /\ stage = "free" /\ stage' \in {"closing", "stuck"} /\ serving' = c
      /\ \/ inbox' = inbox
         \/ inbox[c] \in {"piece", "quit"} /\ inbox' = [inbox EXCEPT ![c] = "nothing"]
      /\ stage' = "closing" =>
           (client[c] \notin {"out", "cut off"} \/ inbox[c] \in {"piece", "quit"})
      /\ UNCHANGED <<client, next, pending, store, owed, answer, typed, pc, request, call, wire,
                     result, torn, sent, told, finished>>
  BY DEF GiveUp, Net!TakeOther, Net!GiveUp, Net!GetStuck, Net!Connected, skelVars, clientVars,
         historyVars
<1>2. /\ Types /\ Service /\ Loop /\ Numbers /\ Verified
      /\ \A d \in Clients : Connection(d) /\ Session(d)
  BY DEF IInv
<1>3. Types'
  BY <1>1, <1>2 DEF Types, Mail
<1>4. Service' /\ Numbers'
  BY <1>1, <1>2 DEF Service, Numbers, New, Underway
<1>5. Loop'
  <2>1. inbox[c] \in {"piece", "quit"} => client[c] \notin {"out", "cut off"}
    BY <1>2 DEF Connection
  <2> QED
    BY <1>1, <1>2, <2>1 DEF Loop
<1>6. ASSUME NEW d \in Clients PROVE Connection(d)' /\ Session(d)'
  <2>1. inbox'[d] = inbox[d] \/ inbox'[d] = "nothing"
    BY <1>1, <1>2 DEF Types
  <2> QED
    BY <1>1, <1>2, <2>1 DEF Connection, Session
<1>7. Verified'
  BY <1>1, <1>2 DEF Verified, Done, SaysDone
<1> QED
  BY <1>3, <1>4, <1>5, <1>6, <1>7 DEF IInv

LEMMA CloseStep ==
  ASSUME IInv, Close
  PROVE  IInv'
<1>1. /\ Types /\ Service /\ Loop /\ Numbers /\ Verified
      /\ \A d \in Clients : Connection(d) /\ Session(d)
  BY DEF IInv
<1>2. PICK c \in Clients : c = serving
  BY <1>1 DEF Close, Net!Close, Loop
<1>3. /\ stage = "closing" /\ stage' = "free"
      /\ client' = [client EXCEPT ![c] = IF client[c] \in {"left", "dead"} THEN "out"
                                        ELSE "cut off"]
      /\ inbox' = [inbox EXCEPT ![c] = "nothing"]
      /\ request' = [request EXCEPT ![c] = NULL]
      /\ UNCHANGED <<next, pending, store, owed, answer, typed, pc, call, wire, result, torn,
                     sent, told, finished>>
  BY <1>2 DEF Close, Net!Close, Net!Closed, skelVars, historyVars
<1>4. client[c] \notin {"out", "cut off"}
  BY <1>1, <1>2, <1>3 DEF Loop
<1>5. Types'
  BY <1>1, <1>3 DEF Types, States, Mail
<1>6. Service' /\ Numbers'
  BY <1>1, <1>3 DEF Service, Numbers, New, Underway
<1>7. Loop'
  BY <1>1, <1>3 DEF Loop
<1>8. ASSUME NEW d \in Clients PROVE Connection(d)' /\ Session(d)'
  <2>1. CASE d # c
    <3>1. request'[d] = request[d] /\ client'[d] = client[d] /\ inbox'[d] = inbox[d]
      BY <1>1, <1>3, <2>1 DEF Types
    <3> QED
      BY <1>3, <3>1, ServerLeaves
  <2>2. CASE d = c
    <3>1. /\ inbox'[c] = "nothing"
          /\ client'[c] = IF client[c] \in {"left", "dead"} THEN "out" ELSE "cut off"
      BY <1>1, <1>3 DEF Types
    <3>2. pc[c] = "off" <=> client'[c] = "out"
      BY <1>1, <1>4, <3>1 DEF Connection
    <3>3. client'[c] \in {"out", "cut off"}
      BY <3>1
    <3>4. Connection(c)'
      <4>1. /\ pc[c] \in {"reading", "returned"} => call[c] \in Calls
            /\ pc[c] \in {"off", "prompt"} => call[c] = NULL
            /\ pc[c] = "off" => ~torn[c] /\ sent[c] = NULL /\ wire[c] = <<>>
        BY <1>1 DEF Connection
      <4>2. UNCHANGED <<pc, call, torn, sent, wire>>
        BY <1>3
      <4> QED
        BY <3>1, <3>2, <3>3, <4>1, <4>2 DEF Connection
    <3>5. Session(c)'
      <4>1. ~torn[c] =>
              /\ sent[c] # NULL => /\ pc[c] \in {"reading", "returned"}
                                   /\ Answered(call[c], sent[c])
              /\ wire[c] = IF pc[c] = "reading" /\ sent[c] # NULL
                           THEN message_t__pack(sent[c]) ELSE <<>>
              /\ pc[c] = "returned" =>
                   result[c] = Returned(call[c].opcode,
                                        IF sent[c] = NULL THEN NULL ELSE Whole(sent[c]))
        BY <1>1 DEF Session
      <4>2. UNCHANGED <<pc, call, torn, sent, wire, result>> /\ client'[c] # "waiting"
        BY <1>3, <3>3
      <4> QED
        BY <4>1, <4>2 DEF Session
    <3> QED
      BY <2>2, <3>4, <3>5
  <2> QED
    BY <2>1, <2>2
<1>9. Verified'
  BY <1>1, <1>3 DEF Verified, Done, SaysDone
<1> QED
  BY <1>5, <1>6, <1>7, <1>8, <1>9 DEF IInv
-----------------------------------------------------------------------------
LEMMA InvInit == Init => IInv
<1> SUFFICES ASSUME Init
             PROVE  IInv
  OBVIOUS
<1> USE DEF Init, Net!Init, Skel!Init
<1>1. Types
  <2>1. 0 \in 0 .. MaxCommands
    BY SystemAssumption
  <2>2. <<>> \in Seq(Fields)
    OBVIOUS
  <2> QED
    BY <2>1, <2>2 DEF Types, States, Mail
<1>2. Service
  <2>1. DOMAIN store = {}
    BY DEF Skel!EmptyStore
  <2>2. IsFiniteSet({})
    BY FS_EmptySet
  <2>3. store \in [DOMAIN store -> Values]
    BY <2>1 DEF Skel!EmptyStore
  <2> QED
    BY <2>1, <2>2, <2>3 DEF Service
<1>3. Loop
  BY DEF Loop
<1>4. \A c \in Clients : Connection(c) /\ Session(c)
  BY DEF Connection, Session
<1>5. Numbers /\ Verified
  BY AnswersDiffer DEF Numbers, Underway, Verified
<1> QED
  BY <1>1, <1>2, <1>3, <1>4, <1>5 DEF IInv

LEMMA InvStep == IInv /\ [Next]_vars => IInv'
<1> SUFFICES ASSUME IInv, [Next]_vars
             PROVE  IInv'
  OBVIOUS
<1>1. CASE Server
  BY <1>1, SendStep, CloseStep, AcknowledgeStep DEF Server
<1>2. CASE Work
  BY <1>2, WorkStep
<1>3. ASSUME NEW c \in Clients, Receive(c) \/ GiveUp(c) \/ Client(c) \/ User(c)
      PROVE  IInv'
  BY <1>3, ReceiveStep, GiveUpStep, ClientStep
<1>4. CASE UNCHANGED vars
  <2>1. UNCHANGED <<serving, stage, inbox, client, next, pending, store, owed, answer, typed, pc,
                    request, call, wire, result, torn, sent, told, finished>>
    BY <1>4 DEF vars, netVars, skelVars, clientVars, historyVars
  <2>2. Types' /\ Service' /\ Loop'
    BY <2>1 DEF IInv, Types, Service, Loop
  <2>3. ASSUME NEW c \in Clients PROVE Connection(c)' /\ Session(c)'
    BY <2>1 DEF IInv, Connection, Session
  <2>4. Numbers' /\ Verified'
    BY <2>1 DEF IInv, Numbers, New, Underway, Verified, Done, SaysDone
  <2> QED
    BY <2>2, <2>3, <2>4 DEF IInv
<1> QED
  BY <1>1, <1>2, <1>3, <1>4 DEF Next

(***************************************************************************)
(* The state of the server, of the sockets and of every client agree with  *)
(* each other as IInv says, however the main thread, the workers and the   *)
(* clients take turns, fail and come back.                                 *)
(***************************************************************************)
THEOREM Invariance == Spec => []IInv
  BY InvInit, InvStep, PTL DEF Spec
-----------------------------------------------------------------------------
(***************************************************************************)
(* The variables have their types: what is in a socket are fields that a   *)
(* client can read, and a client has a call exactly while it waits for     *)
(* what comes of it or shows it.                                           *)
(***************************************************************************)
THEOREM TypeCorrect == Spec => []TypeOK
<1>1. IInv => TypeOK
  <2> SUFFICES ASSUME IInv
               PROVE  TypeOK
    OBVIOUS
  <2>1. Types /\ \A c \in Clients : Connection(c)
    BY DEF IInv
  <2>2. ASSUME NEW c \in Clients
        PROVE  IF pc[c] \in {"reading", "returned"} THEN call[c] \in Calls ELSE call[c] = NULL
    BY <2>1 DEF Types, Connection
  <2>3. ASSUME NEW c \in Clients, NEW j \in DOMAIN wire[c]
        PROVE  FieldOK(wire[c][j])
    <3>1. wire[c] \in Seq(Fields)
      BY <2>1 DEF Types
    <3>2. wire[c][j] \in Fields
      BY <3>1
    <3> QED
      BY <3>2, FieldsAreOK
  <2> QED
    BY <2>1, <2>2, <2>3 DEF Types, TypeOK
<1> QED
  BY <1>1, Invariance, PTL

(***************************************************************************)
(* What an rtree_ function returns to a client that has read every answer  *)
(* as a whole is what the server answered to that very call, as it was     *)
(* before it was packed; and nothing is left for the next call to read.    *)
(***************************************************************************)
THEOREM AnswersAreOwn == Spec => []OwnAnswer
<1>1. IInv => OwnAnswer
  <2> SUFFICES ASSUME IInv, NEW c \in Clients, ~torn[c]
               PROVE  /\ pc[c] = "prompt" => wire[c] = <<>>
                      /\ pc[c] = "returned" /\ sent[c] # NULL =>
                           /\ sent[c].opcode \in {call[c].opcode + 1, OP_ERROR}
                           /\ result[c] = Returned(call[c].opcode, Whole(sent[c]))
    BY DEF OwnAnswer
  <2>1. Session(c)
    BY DEF IInv
  <2>2. sent[c] # NULL => sent[c].opcode \in {call[c].opcode + 1, OP_ERROR}
    BY <2>1 DEF Session, Answered
  <2> QED
    BY <2>1, <2>2 DEF Session
<1> QED
  BY <1>1, Invariance, PTL

(***************************************************************************)
(* A number that rtree_put or rtree_del returns has not been told to any   *)
(* client for a write before, whichever clients write at the same time.    *)
(***************************************************************************)
THEOREM NumbersAreNew == Spec => []NumberIsNew
<1>1. IInv => NumberIsNew
  <2> SUFFICES ASSUME IInv, NEW c \in Clients, pc[c] = "returned",
                      call[c].opcode \in {OP_PUT, OP_DEL}, ~torn[c], result[c] >= 0
               PROVE  result[c] \notin told
    BY DEF NumberIsNew
  <2>1. result[c] # -1
    OBVIOUS
  <2>2. Underway(c) /\ result[c] = sent[c].result
    BY <2>1, NumberShown DEF WriteOps
  <2> QED
    BY <2>2 DEF IInv, Numbers, New
<1> QED
  BY <1>1, Invariance, PTL

(***************************************************************************)
(* When rtree_verify tells a client that a number is finished, a write or  *)
(* a verify has used it, and fewer than Window of the writes with numbers  *)
(* up to it are missing from the tree, when the user reads it and ever     *)
(* after.  A write that has the number is applied if there is one worker.  *)
(***************************************************************************)
THEOREM VerifiedStaysApplied == Spec => []VerifiedIsApplied
<1>1. IInv => VerifiedIsApplied
  BY DEF IInv, Verified, Done, VerifiedIsApplied
<1> QED
  BY <1>1, Invariance, PTL
-----------------------------------------------------------------------------
(***************************************************************************)
(* The parts of the system.                                                *)
(***************************************************************************)
LEMMA OpcodesAgree == Skel!OP_PUT = OP_PUT /\ Skel!OP_DEL = OP_DEL
  BY DEF Skel!OP_PUT, OP_PUT, Skel!OP_DEL, OP_DEL

LEMMA ReceiveIsServed ==
  ASSUME IInv, NEW c \in Clients, Receive(c)
  PROVE  Net!Next /\ Skel!Next
<1>1. request[c] \in Calls
  BY DEF IInv, Connection, Receive, Net!TakeRequest
<1>2. PICK m \in Calls : m = request[c]
  BY <1>1
<1>3. imvoke(m)
  BY <1>2 DEF Receive
<1>4. /\ m.opcode = OP_PUT => m.key \in Keys /\ m.data \in Values
      /\ m.opcode \in {OP_DEL, OP_GET} => m.key \in Keys
      /\ m.opcode = OP_VERIFY => m.op_n \in AskedNumbers
  BY CallFacts
<1>5. Skel!Next
  <2>1. CASE /\ m.opcode = OP_PUT
             /\ Skel!Accept(OP_PUT, Skel!REQUEST_PUT, m.key, m.data)
    BY <1>4, <2>1, OpcodesAgree DEF Skel!Next
  <2>2. CASE m.opcode = OP_DEL /\ Skel!Accept(OP_DEL, Skel!REQUEST_DEL, m.key, NULL)
    BY <1>4, <2>2, OpcodesAgree DEF Skel!Next
  <2>3. CASE Skel!ReadSize \/ Skel!ReadHeight \/ Skel!ReadKeys \/ Skel!ReadValues
    BY <2>3 DEF Skel!Next
  <2>4. CASE m.opcode = OP_GET /\ Skel!ReadValue(m.key)
    BY <1>4, <2>4 DEF Skel!Next
  <2>5. CASE m.opcode = OP_VERIFY /\ (Skel!Verify(m.op_n) \/ Skel!RefuseVerify(m.op_n))
    BY <1>4, <2>5 DEF Skel!Next
  <2> QED
    BY <1>3, <2>1, <2>2, <2>3, <2>4, <2>5 DEF imvoke
<1> QED
  BY <1>5 DEF Receive, Net!Next, Net!Take

LEMMA EndIsServed ==
  ASSUME NEW c \in Clients, Forget(c), Net!Die(c) \/ Net!Restart(c) \/ Net!Quit(c)
  PROVE  Net!Next /\ UNCHANGED skelVars
  BY DEF Forget, Net!Next

LEMMA ClientIsServed ==
  ASSUME NEW c \in Clients, Client(c) \/ User(c)
  PROVE  (Net!Next \/ UNCHANGED netVars) /\ UNCHANGED skelVars
<1>1. CASE Crash(c) \/ TypeBlanks(c) \/ rtree_quit(c) \/ Kill(c)
  BY <1>1, EndIsServed DEF Crash, TypeBlanks, rtree_quit, Kill
<1>2. CASE ReadAnswer(c)
  BY <1>1, <1>2 DEF ReadAnswer
<1>3. CASE Show(c)
  BY <1>1, <1>3 DEF Show, ShowRead, ShowValues, ShowNumber, ShowVerify, Prompt
<1>4. CASE rtree_connect(c) \/ WriteRequest(c) \/ WriteFails(c)
  BY <1>4 DEF rtree_connect, WriteRequest, WriteFails, Net!Next
<1> QED
  BY <1>1, <1>2, <1>3, <1>4 DEF Client, User

LEMMA StepIsServed ==
  ASSUME IInv, [Next]_vars
  PROVE  (Net!Next \/ UNCHANGED netVars) /\ (Skel!Next \/ UNCHANGED skelVars)
<1>1. CASE Server
  BY <1>1 DEF Server, Send, Close, Acknowledge, Net!Next, Skel!Next
<1>2. CASE Work
  BY <1>2 DEF Work, Skel!Next
<1>3. ASSUME NEW c \in Clients, Receive(c) \/ GiveUp(c) \/ Client(c) \/ User(c)
      PROVE  (Net!Next \/ UNCHANGED netVars) /\ (Skel!Next \/ UNCHANGED skelVars)
  <2>1. CASE GiveUp(c)
    BY <2>1 DEF GiveUp, Net!Next, Net!Take
  <2> QED
    BY <1>3, <2>1, ReceiveIsServed, ClientIsServed
<1>4. CASE UNCHANGED vars
  BY <1>4 DEF vars
<1> QED
  BY <1>1, <1>2, <1>3, <1>4 DEF Next

(***************************************************************************)
(* The system uses its parts only as they are offered: whatever the users  *)
(* type, its steps are steps of the main loop's service and of the         *)
(* skeleton's, which NetworkServer and TreeSkel are proved to implement;   *)
(* no message reaches imvoke with a key or a value that was not typed.     *)
(***************************************************************************)
THEOREM SystemIsServices ==
  Spec => /\ Net!Init /\ [][Net!Next]_(Net!vars)
          /\ Skel!Init /\ [][Skel!Next]_(Skel!vars)
<1>1. Init => Net!Init /\ Skel!Init
  BY DEF Init
<1>2. IInv /\ [Next]_vars => [Net!Next]_(Net!vars) /\ [Skel!Next]_(Skel!vars)
  BY StepIsServed DEF netVars, skelVars, Net!vars, Skel!vars
<1> QED
  BY <1>1, <1>2, Invariance, PTL DEF Spec
=============================================================================
