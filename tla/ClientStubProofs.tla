-------------------------- MODULE ClientStubProofs --------------------------
(***************************************************************************)
(* The conversions of ClientStub undo each other: what the server packs,   *)
(* the client unpacks, whatever keys and values the answer carries.        *)
(***************************************************************************)
EXTENDS ClientStub, FiniteOrder, SequenceTheorems

(***************************************************************************)
(* ValuesWith is defined by recursion along the fields.  Any function that *)
(* satisfies the recursion is the one it computes.                         *)
(***************************************************************************)
Taken(tag, fields, f, n) ==
  IF n = 0 THEN <<>>
  ELSE IF fields[n].tag = tag THEN Append(f[n - 1], fields[n].value)
  ELSE f[n - 1]

LEMMA ValuesWithIs ==
  ASSUME NEW tag, NEW fields, Len(fields) \in Nat,
         NEW f, f = [n \in 0 .. Len(fields) |-> Taken(tag, fields, f, n)]
  PROVE  ValuesWith(tag, fields) = f[Len(fields)]
<1> DEFINE N == Len(fields)
           Solves(g) == g = [n \in 0 .. N |-> Taken(tag, fields, g, n)]
           g == CHOOSE h : Solves(h)
<1>1. Solves(g)
  <2>1. \E h : Solves(h)
    OBVIOUS
  <2> QED
    BY <2>1, Zenon
<1>2. ValuesWith(tag, fields) = g[N]
  BY DEF ValuesWith, Taken
<1> HIDE DEF g
<1> DEFINE Wrong == {n \in 0 .. N : g[n] # f[n]}
<1>3. Wrong = {}
  <2> SUFFICES ASSUME Wrong # {}
               PROVE  FALSE
    OBVIOUS
  <2>1. PICK n \in Wrong : \A m \in Wrong : n <= m
    <3>1. Wrong \subseteq Nat
      OBVIOUS
    <3> HIDE DEF Wrong
    <3> QED
      BY <3>1, Smallest
  <2>2. n \in 0 .. N /\ g[n] # f[n]
    OBVIOUS
  <2>3. n # 0 => g[n - 1] = f[n - 1]
    BY <2>1, <2>2
  <2>4. Taken(tag, fields, g, n) = Taken(tag, fields, f, n)
    BY <2>3 DEF Taken
  <2>5. g[n] = Taken(tag, fields, g, n) /\ f[n] = Taken(tag, fields, f, n)
    BY <1>1, <2>2
  <2> QED
    BY <2>2, <2>4, <2>5
<1> QED
  BY <1>2, <1>3

(***************************************************************************)
(* The values in one field, and in two with different tags.                *)
(***************************************************************************)
LEMMA OneField ==
  ASSUME NEW tag, NEW x
  PROVE  ValuesWith(tag, <<x>>) = IF x.tag = tag THEN <<x.value>> ELSE <<>>
<1> DEFINE f == [n \in 0 .. 1 |-> IF n = 1 /\ x.tag = tag THEN <<x.value>> ELSE <<>>]
<1>1. f = [n \in 0 .. 1 |-> Taken(tag, <<x>>, f, n)]
  <2>1. ASSUME NEW n \in 0 .. 1
        PROVE  f[n] = Taken(tag, <<x>>, f, n)
    <3>1. CASE n = 0
      BY <3>1 DEF Taken
    <3>2. CASE n = 1
      BY <3>2 DEF Taken
    <3> QED
      BY <3>1, <3>2
  <2> QED
    BY <2>1
<1>2. Len(<<x>>) = 1
  OBVIOUS
<1>3. ValuesWith(tag, <<x>>) = f[1]
  <2> HIDE DEF f
  <2> QED
    BY <1>1, <1>2, ValuesWithIs
<1> QED
  BY <1>3

LEMMA TwoFields ==
  ASSUME NEW tag, NEW x, NEW y, x.tag # y.tag
  PROVE  /\ x.tag = tag => ValuesWith(tag, <<x, y>>) = <<x.value>>
         /\ y.tag = tag => ValuesWith(tag, <<x, y>>) = <<y.value>>
         /\ x.tag # tag /\ y.tag # tag => ValuesWith(tag, <<x, y>>) = <<>>
<1> DEFINE fields == <<x, y>>
           one == IF x.tag = tag THEN <<x.value>> ELSE <<>>
           two == IF x.tag = tag THEN <<x.value>>
                  ELSE IF y.tag = tag THEN <<y.value>> ELSE <<>>
           f == [n \in 0 .. 2 |-> IF n = 0 THEN <<>> ELSE IF n = 1 THEN one ELSE two]
<1>1. fields[1] = x /\ fields[2] = y /\ Len(fields) = 2
  OBVIOUS
<1>2. one = IF x.tag = tag THEN Append(<<>>, x.value) ELSE <<>>
  OBVIOUS
<1>3. two = IF y.tag = tag THEN Append(one, y.value) ELSE one
  <2>1. CASE x.tag = tag
    BY <2>1
  <2>2. CASE x.tag # tag
    <3>1. one = <<>> /\ two = IF y.tag = tag THEN <<y.value>> ELSE <<>>
      BY <2>2
    <3>2. Append(<<>>, y.value) = <<y.value>>
      OBVIOUS
    <3> HIDE DEF one, two
    <3> QED
      BY <3>1, <3>2
  <2> QED
    BY <2>1, <2>2
<1> HIDE DEF fields, one, two
<1>4. f = [n \in 0 .. 2 |-> Taken(tag, fields, f, n)]
  <2>1. f[0] = <<>> /\ f[1] = one /\ f[2] = two
    OBVIOUS
  <2>2. ASSUME NEW n \in 0 .. 2
        PROVE  f[n] = Taken(tag, fields, f, n)
    <3> HIDE DEF f
    <3>1. CASE n = 0
      BY <2>1, <3>1 DEF Taken
    <3>2. CASE n = 1
      <4>1. n # 0 /\ f[n - 1] = <<>>
        BY <2>1, <3>2
      <4> QED
        BY <1>1, <1>2, <2>1, <3>2, <4>1 DEF Taken
    <3>3. CASE n = 2
      <4>1. n # 0 /\ f[n - 1] = one
        BY <2>1, <3>3
      <4> QED
        BY <1>1, <1>3, <2>1, <3>3, <4>1 DEF Taken
    <3> QED
      BY <3>1, <3>2, <3>3
  <2> QED
    BY <2>2
<1>5. f[2] = two
  OBVIOUS
<1> HIDE DEF f
<1>6. ValuesWith(tag, fields) = f[2]
  <2>1. Len(fields) = 2 /\ Len(fields) \in Nat
    BY <1>1
  <2>2. f = [n \in 0 .. Len(fields) |-> Taken(tag, fields, f, n)]
    BY <1>4, <2>1
  <2> QED
    BY <2>1, <2>2, ValuesWithIs
<1> QED
  BY <1>5, <1>6 DEF fields, two

(***************************************************************************)
(* A list in fields, behind the opcode.                                    *)
(***************************************************************************)
Listed(opcode, tag, list) == <<Field("opcode", opcode)>> \o Elements(tag, list)

IsListed(fields, opcode, tag, list) ==
  LET N == 2 * Len(list) + 1
  IN  /\ Len(list) \in Nat
      /\ Len(fields) = N
      /\ DOMAIN fields = 1 .. N
      /\ fields[1].tag = "opcode" /\ fields[1].value = opcode
      /\ \A n \in 2 .. N :
           n % 2 = 0 => fields[n].tag = "length" /\ fields[n].value = tag
      /\ \A n \in 2 .. N :
           n % 2 = 1 => fields[n].tag = tag /\ fields[n].value = list[(n - 1) \div 2]

LEMMA ListedFields ==
  ASSUME NEW S, NEW list \in Seq(S), NEW opcode, NEW tag
  PROVE  IsListed(Listed(opcode, tag, list), opcode, tag, list)
<1> DEFINE L == Len(list)
           one == <<Field("opcode", opcode)>>
           rest == Elements(tag, list)
<1>1. L \in Nat
  OBVIOUS
<1>2. rest = [j \in 1 .. 2 * L |-> IF j % 2 = 1 THEN Field("length", tag)
                                   ELSE Field(tag, list[j \div 2])]
  BY DEF Elements
<1> HIDE DEF rest, L
<1> DEFINE R == {rest[j] : j \in 1 .. 2 * L} \cup {Field("opcode", opcode)}
<1>3. rest \in Seq(R) /\ Len(rest) = 2 * L
  <2>1. rest = [j \in 1 .. 2 * L |-> rest[j]]
    BY <1>2
  <2>2. 2 * L \in Nat
    BY <1>1
  <2>3. \A j \in 1 .. 2 * L : rest[j] \in R
    OBVIOUS
  <2> HIDE DEF R
  <2> QED
    BY <2>1, <2>2, <2>3
<1>4. one \in Seq(R) /\ Len(one) = 1 /\ one[1] = Field("opcode", opcode)
  <2>1. Field("opcode", opcode) \in R
    OBVIOUS
  <2> HIDE DEF R
  <2> QED
    BY <2>1
<1> HIDE DEF one
<1>5. /\ Len(one \o rest) = 2 * L + 1
      /\ DOMAIN (one \o rest) = 1 .. 2 * L + 1
      /\ (one \o rest)[1] = one[1]
      /\ \A n \in 2 .. 2 * L + 1 : (one \o rest)[n] = rest[n - 1]
  <2> HIDE DEF R
  <2>1. /\ one \o rest \in Seq(R) /\ Len(one \o rest) = 1 + 2 * L
        /\ \A n \in 1 .. 1 + 2 * L :
             (one \o rest)[n] = IF n <= 1 THEN one[n] ELSE rest[n - 1]
    <3>1. /\ one \o rest \in Seq(R)
          /\ Len(one \o rest) = Len(one) + Len(rest)
          /\ \A i \in 1 .. Len(one) + Len(rest) :
               (one \o rest)[i] = IF i <= Len(one) THEN one[i] ELSE rest[i - Len(one)]
      <4>1. one \in Seq(R) /\ rest \in Seq(R)
        BY <1>3, <1>4
      <4> QED
        BY <4>1, ConcatProperties
    <3> QED
      BY <1>3, <1>4, <3>1
  <2>2. 1 + 2 * L = 2 * L + 1 /\ 2 * L + 1 \in Nat
    BY <1>1
  <2>3. DOMAIN (one \o rest) = 1 .. 2 * L + 1
    BY <2>1, <2>2, LenProperties
  <2>4. 1 \in 1 .. 1 + 2 * L
    BY <1>1
  <2>5. ASSUME NEW n \in 2 .. 2 * L + 1
        PROVE  n \in 1 .. 1 + 2 * L /\ ~(n <= 1)
    BY <1>1
  <2>6. (one \o rest)[1] = one[1]
    BY <2>1, <2>4
  <2>7. ASSUME NEW n \in 2 .. 2 * L + 1
        PROVE  (one \o rest)[n] = rest[n - 1]
    BY <2>1, <2>5
  <2>8. Len(one \o rest) = 2 * L + 1
    BY <2>1, <2>2
  <2> QED
    BY <2>3, <2>6, <2>7, <2>8
<1>6. ASSUME NEW n \in 2 .. 2 * L + 1
      PROVE  /\ n % 2 = 0 => rest[n - 1].tag = "length" /\ rest[n - 1].value = tag
             /\ n % 2 = 1 => /\ rest[n - 1].tag = tag
                             /\ rest[n - 1].value = list[(n - 1) \div 2]
  <2>1. n - 1 \in 1 .. 2 * L /\ (n % 2 = 0 <=> (n - 1) % 2 = 1)
    BY <1>1
  <2>2. CASE n % 2 = 0
    <3>1. rest[n - 1] = Field("length", tag)
      BY <1>2, <2>1, <2>2
    <3> QED
      BY <2>2, <3>1 DEF Field
  <2>3. CASE n % 2 = 1
    <3>1. rest[n - 1] = Field(tag, list[(n - 1) \div 2])
      <4>1. (n - 1) % 2 # 1
        BY <2>1, <2>3
      <4> QED
        BY <1>2, <2>1, <4>1
    <3> QED
      BY <2>3, <3>1 DEF Field
  <2>4. ~(n % 2 = 0 /\ n % 2 = 1)
    OBVIOUS
  <2> QED
    BY <2>2, <2>3, <2>4
<1>7. one[1].tag = "opcode" /\ one[1].value = opcode
  BY <1>4 DEF Field
<1>8. \A n \in 2 .. 2 * L + 1 :
        /\ n % 2 = 0 =>
             (one \o rest)[n].tag = "length" /\ (one \o rest)[n].value = tag
        /\ n % 2 = 1 => /\ (one \o rest)[n].tag = tag
                        /\ (one \o rest)[n].value = list[(n - 1) \div 2]
  BY <1>5, <1>6
<1> QED
  BY <1>1, <1>5, <1>7, <1>8 DEF IsListed, Listed, one, rest, L

LEMMA ListedValues ==
  ASSUME NEW S, NEW list \in Seq(S), NEW opcode, NEW tag \in {"keys", "datas"}
  PROVE  LET fields == Listed(opcode, tag, list)
         IN  /\ ValuesWith(tag, fields) = list
             /\ ValuesWith("opcode", fields) = <<opcode>>
             /\ \A other \in {"result", "data", "keys", "datas"} \ {tag} :
                  ValuesWith(other, fields) = <<>>
<1> DEFINE fields == Listed(opcode, tag, list)
           L == Len(list)
           N == 2 * L + 1
<1>0. IsListed(fields, opcode, tag, list)
  BY ListedFields
<1>1. /\ L \in Nat /\ N \in Nat /\ Len(fields) = N
      /\ fields[1].tag = "opcode" /\ fields[1].value = opcode
      /\ \A n \in 2 .. N :
           n % 2 = 0 => fields[n].tag = "length" /\ fields[n].value = tag
      /\ \A n \in 2 .. N :
           n % 2 = 1 => fields[n].tag = tag /\ fields[n].value = list[(n - 1) \div 2]
  <2> HIDE DEF fields
  <2> QED
    BY <1>0 DEF IsListed
<1>5. \A n \in 2 .. N : n % 2 = 0 \/ n % 2 = 1
  BY <1>1
<1> HIDE DEF fields, L
<1>2. ASSUME NEW other \in {"result", "data", "keys", "datas"} \ {tag}
      PROVE  ValuesWith(other, fields) = <<>>
  <2> DEFINE f == [n \in 0 .. N |-> <<>>]
  <2>1. f = [n \in 0 .. N |-> Taken(other, fields, f, n)]
    <3>1. ASSUME NEW n \in 0 .. N
          PROVE  Taken(other, fields, f, n) = <<>>
      <4>1. n # 0 => fields[n].tag # other
        <5>1. n = 0 \/ n = 1 \/ n \in 2 .. N
          BY <1>1
        <5> QED
          BY <1>1, <1>5, <5>1
      <4>2. n # 0 => f[n - 1] = <<>>
        BY <1>1
      <4> QED
        BY <4>1, <4>2 DEF Taken
    <3> QED
      BY <3>1
  <2>2. f[N] = <<>>
    BY <1>1
  <2> HIDE DEF f, N
  <2> QED
    BY <1>1, <2>1, <2>2, ValuesWithIs
<1>3. ValuesWith("opcode", fields) = <<opcode>>
  <2> DEFINE f == [n \in 0 .. N |-> IF n = 0 THEN <<>> ELSE <<opcode>>]
  <2>1. f = [n \in 0 .. N |-> Taken("opcode", fields, f, n)]
    <3>1. ASSUME NEW n \in 0 .. N
          PROVE  Taken("opcode", fields, f, n) = f[n]
      <4>1. CASE n = 0
        BY <4>1 DEF Taken
      <4>2. CASE n = 1
        BY <1>1, <4>2 DEF Taken
      <4>3. CASE n \in 2 .. N
        <5>1. fields[n].tag # "opcode"
          BY <1>1, <1>5, <4>3
        <5>2. n - 1 \in 1 .. N /\ n # 0
          BY <4>3, <1>1
        <5> QED
          BY <5>1, <5>2 DEF Taken
      <4> QED
        BY <1>1, <4>1, <4>2, <4>3
    <3> QED
      BY <3>1
  <2>2. f[N] = <<opcode>>
    BY <1>1
  <2>3. Len(fields) = N /\ Len(fields) \in Nat
    BY <1>1
  <2> HIDE DEF f, N
  <2> QED
    BY <2>1, <2>2, <2>3, ValuesWithIs
<1>4. ValuesWith(tag, fields) = list
  <2> DEFINE upTo(k) == [i \in 1 .. k |-> list[i]]
             f == [n \in 0 .. N |-> IF n = 0 THEN <<>> ELSE upTo((n - 1) \div 2)]
  <2>1. ASSUME NEW k \in 1 .. L
        PROVE  Append(upTo(k - 1), list[k]) = upTo(k)
    <3>0. /\ k \in Nat /\ k - 1 \in Nat /\ list[k] \in S
          /\ \A i \in 1 .. k : list[i] \in S
      BY <1>1, ElementOfSeq DEF L
    <3>1. upTo(k - 1) \in Seq(S) /\ Len(upTo(k - 1)) = k - 1 /\ list[k] \in S
      BY <3>0
    <3>2. upTo(k) \in Seq(S) /\ Len(upTo(k)) = k
      BY <3>0
    <3>3. \A i \in 1 .. k : Append(upTo(k - 1), list[k])[i] = upTo(k)[i]
      BY <1>1, <3>1, AppendProperties
    <3> HIDE DEF upTo
    <3> QED
      BY <1>1, <3>1, <3>2, <3>3, AppendProperties, SeqEqual
  <2>2. upTo(0) = <<>> /\ upTo(L) = list
    BY DEF L
  <2>3. f = [n \in 0 .. N |-> Taken(tag, fields, f, n)]
    <3>1. ASSUME NEW n \in 0 .. N
          PROVE  Taken(tag, fields, f, n) = f[n]
      <4> HIDE DEF upTo
      <4>1. CASE n = 0
        BY <4>1 DEF Taken
      <4>2. CASE n = 1
        <5>1. fields[n].tag # tag /\ f[n - 1] = <<>> /\ f[n] = upTo(0)
          BY <1>1, <4>2
        <5> QED
          BY <2>2, <4>2, <5>1 DEF Taken
      <4>3. CASE n \in 2 .. N /\ n % 2 = 0
        <5>1. fields[n].tag # tag
          BY <1>1, <4>3
        <5>2. n # 0 /\ n - 1 \in 1 .. N /\ (n - 2) \div 2 = (n - 1) \div 2
          BY <1>1, <4>3
        <5>3. f[n - 1] = f[n]
          BY <5>2
        <5> HIDE DEF f
        <5> QED
          BY <5>1, <5>2, <5>3 DEF Taken
      <4>4. CASE n \in 2 .. N /\ n % 2 = 1
        <5> DEFINE k == (n - 1) \div 2
        <5>1. fields[n].tag = tag /\ fields[n].value = list[k]
          BY <1>1, <4>4
        <5>2. n # 0 /\ n - 1 \in 1 .. N /\ (n - 2) \div 2 = k - 1 /\ k \in 1 .. L
          <6>1. k \in Int /\ n = 2 * k + 1
            BY <4>4
          <6> HIDE DEF k
          <6> QED
            BY <1>1, <4>4, <6>1
        <5>3. f[n - 1] = upTo(k - 1) /\ f[n] = upTo(k)
          BY <5>2
        <5> HIDE DEF f, k
        <5> QED
          BY <2>1, <5>1, <5>2, <5>3 DEF Taken
      <4> QED
        BY <1>1, <4>1, <4>2, <4>3, <4>4
    <3> QED
      BY <3>1
  <2>4. f[N] = list
    <3>1. N \in 0 .. N /\ N # 0 /\ (N - 1) \div 2 = L
      BY <1>1
    <3> QED
      BY <2>2, <3>1
  <2> HIDE DEF f, N
  <2> QED
    BY <1>1, <2>3, <2>4, ValuesWithIs
<1> QED
  BY <1>2, <1>3, <1>4 DEF fields

LEMMA ListedIsWellFormed ==
  ASSUME NEW S, NEW list \in Seq(S), NEW opcode, NEW tag \in {"keys", "datas"}
  PROVE  WellFormed(Listed(opcode, tag, list)) /\ Listed(opcode, tag, list) # <<>>
<1> DEFINE fields == Listed(opcode, tag, list)
           L == Len(list)
           N == 2 * L + 1
<1>1. IsListed(fields, opcode, tag, list)
  BY ListedFields
<1> HIDE DEF fields
<1>2. /\ L \in Nat /\ N \in Nat /\ Len(fields) = N /\ DOMAIN fields = 1 .. N
      /\ fields[1].tag = "opcode"
      /\ \A n \in 2 .. N :
           n % 2 = 0 => fields[n].tag = "length" /\ fields[n].value = tag
      /\ \A n \in 2 .. N :
           n % 2 = 1 => fields[n].tag = tag /\ fields[n].value = list[(n - 1) \div 2]
  <2>1. L \in Nat /\ N \in Nat
    BY <1>1 DEF IsListed
  <2> QED
    BY <1>1, <2>1, Zenon DEF IsListed
<1> HIDE DEF L
<1>3. ASSUME NEW j \in 1 .. N
      PROVE  /\ fields[j].tag = "length" =>
                  j < N /\ fields[j + 1].tag = fields[j].value
             /\ fields[j].tag \in {"keys", "datas"} =>
                  j > 1 /\ fields[j - 1].tag = "length"
  <2>1. CASE j = 1
    BY <1>2, <2>1
  <2>2. CASE j \in 2 .. N /\ j % 2 = 0
    <3>1. j < N /\ j + 1 \in 2 .. N /\ (j + 1) % 2 = 1
      BY <1>2, <2>2
    <3> HIDE DEF N
    <3> QED
      BY <1>2, <2>2, <3>1
  <2>3. CASE j \in 2 .. N /\ j % 2 = 1
    <3>1. j > 1 /\ j - 1 \in 2 .. N /\ (j - 1) % 2 = 0
      <4>1. j \in Int /\ j >= 2 /\ j <= N /\ j % 2 = 1 /\ N \in Nat
        BY <1>2, <2>3
      <4>2. j # 2 /\ (j - 1) % 2 = 0
        BY <4>1
      <4> HIDE DEF N
      <4> QED
        BY <4>1, <4>2
    <3> HIDE DEF N
    <3> QED
      BY <1>2, <2>3, <3>1
  <2> QED
    BY <1>2, <2>1, <2>2, <2>3
<1>4. fields # <<>>
  BY <1>2
<1> QED
  BY <1>2, <1>3, <1>4 DEF WellFormed, fields

(***************************************************************************)
(* The answers of the server: the opcode is never the default one, and     *)
(* result is left at its default when the answer is in the body.           *)
(***************************************************************************)
IsAnswer(message, S) ==
  /\ message.opcode # OP_BAD
  /\ message.c_type \in {CT_KEYS, CT_VALUES} => message.body \in Seq(S)
  /\ message.c_type \in {CT_KEYS, CT_VALUES, CT_VALUE} => message.result = 0

LEMMA Pair ==
  ASSUME NEW x, NEW y
  PROVE  <<x>> \o <<y>> = <<x, y>>
<1> DEFINE S == {x, y}
<1>1. <<x>> \in Seq(S) /\ <<y>> \in Seq(S) /\ <<x, y>> \in Seq(S)
  OBVIOUS
<1>2. /\ Len(<<x>>) = 1 /\ Len(<<y>>) = 1 /\ Len(<<x, y>>) = 2
      /\ <<x>>[1] = x /\ <<y>>[1] = y /\ <<x, y>>[1] = x /\ <<x, y>>[2] = y
  OBVIOUS
<1> HIDE DEF S
<1>3. /\ <<x>> \o <<y>> \in Seq(S)
      /\ Len(<<x>> \o <<y>>) = Len(<<x>>) + Len(<<y>>)
      /\ \A i \in 1 .. Len(<<x>>) + Len(<<y>>) :
           (<<x>> \o <<y>>)[i] =
             IF i <= Len(<<x>>) THEN <<x>>[i] ELSE <<y>>[i - Len(<<x>>)]
  BY <1>1, ConcatProperties
<1>4. /\ Len(<<x>> \o <<y>>) = 2
      /\ (<<x>> \o <<y>>)[1] = x /\ (<<x>> \o <<y>>)[2] = y
  BY <1>2, <1>3
<1>5. \A i \in 1 .. 2 : (<<x>> \o <<y>>)[i] = <<x, y>>[i]
  BY <1>2, <1>4
<1> QED
  BY <1>1, <1>2, <1>3, <1>4, <1>5, SeqEqual

LEMMA PackedScalar ==
  ASSUME NEW opcode, NEW tag \in {"result", "data"}, NEW value, NEW default
  PROVE  LET fields == <<Field("opcode", opcode)>> \o Scalar(tag, value, default)
         IN  /\ fields # <<>> /\ WellFormed(fields)
             /\ LastWith("opcode", fields, OP_BAD) = opcode
             /\ LastWith(tag, fields, default) = value
             /\ \A other \in {"result", "data", "keys", "datas"} \ {tag} :
                  ValuesWith(other, fields) = <<>>
<1> DEFINE x == Field("opcode", opcode)
           y == Field(tag, value)
<1>1. /\ x.tag = "opcode" /\ x.value = opcode /\ y.tag = tag /\ y.value = value
      /\ x.tag # y.tag
  BY DEF Field
<1> HIDE DEF x, y
<1>2. CASE value = default
  <2> DEFINE fields == <<x>>
  <2>1. <<x>> \o Scalar(tag, value, default) = fields
    BY <1>2 DEF Scalar
  <2>2. /\ ValuesWith("opcode", fields) = <<opcode>>
        /\ \A other \in {"result", "data", "keys", "datas"} :
             ValuesWith(other, fields) = <<>>
    BY <1>1, OneField
  <2>3. fields # <<>> /\ WellFormed(fields)
    BY <1>1 DEF WellFormed
  <2> HIDE DEF fields
  <2>4. LastWith("opcode", fields, OP_BAD) = opcode
    BY <2>2 DEF LastWith
  <2>5. LastWith(tag, fields, default) = value
    BY <1>2, <2>2 DEF LastWith
  <2> QED
    BY <2>1, <2>2, <2>3, <2>4, <2>5 DEF x
<1>3. CASE value # default
  <2> DEFINE fields == <<x, y>>
  <2>1. <<x>> \o Scalar(tag, value, default) = fields
    <3>1. Scalar(tag, value, default) = <<y>>
      BY <1>3 DEF Scalar, y
    <3> QED
      BY <3>1, Pair
  <2>2. /\ ValuesWith("opcode", fields) = <<opcode>>
        /\ ValuesWith(tag, fields) = <<value>>
        /\ \A other \in {"result", "data", "keys", "datas"} \ {tag} :
             ValuesWith(other, fields) = <<>>
    <3>1. ValuesWith("opcode", fields) = <<opcode>>
      BY <1>1, TwoFields
    <3>2. ValuesWith(tag, fields) = <<value>>
      BY <1>1, TwoFields
    <3>3. ASSUME NEW other \in {"result", "data", "keys", "datas"} \ {tag}
          PROVE  ValuesWith(other, fields) = <<>>
      <4>1. x.tag # other /\ y.tag # other
        BY <1>1
      <4> QED
        BY <1>1, <4>1, TwoFields
    <3> QED
      BY <3>1, <3>2, <3>3
  <2>3. fields # <<>> /\ WellFormed(fields)
    BY <1>1 DEF WellFormed
  <2> HIDE DEF fields
  <2>4. LastWith("opcode", fields, OP_BAD) = opcode
    BY <2>2 DEF LastWith
  <2>5. LastWith(tag, fields, default) = value
    BY <2>2 DEF LastWith
  <2> QED
    BY <2>1, <2>2, <2>3, <2>4, <2>5 DEF x
<1> QED
  BY <1>2, <1>3

(***************************************************************************)
(* What a client unpacks of all the bytes of an answer is the answer: what *)
(* is not packed, because it has its default value, is there again.        *)
(***************************************************************************)
THEOREM UnpackedAsPacked ==
  ASSUME NEW S, NEW message, IsAnswer(message, S)
  PROVE  /\ message_t__pack(message) # <<>>
         /\ message_t__unpack(message_t__pack(message)) = Whole(message)
<1> DEFINE fields == message_t__pack(message)
           body == CASE message.c_type = CT_KEYS -> Elements("keys", message.body)
                     [] message.c_type = CT_VALUES -> Elements("datas", message.body)
                     [] message.c_type = CT_VALUE -> Scalar("data", message.body, NULL)
                     [] OTHER -> Scalar("result", message.result, 0)
           Unpacks(opcode, result, data, keys, datas) ==
             /\ fields # <<>> /\ WellFormed(fields)
             /\ LastWith("opcode", fields, OP_BAD) = opcode
             /\ LastWith("result", fields, 0) = result
             /\ LastWith("data", fields, NULL) = data
             /\ ValuesWith("keys", fields) = keys
             /\ ValuesWith("datas", fields) = datas
<1>1. Scalar("opcode", message.opcode, OP_BAD) = <<Field("opcode", message.opcode)>>
  BY DEF Scalar, IsAnswer
<1>3. ASSUME NEW tag \in {"result", "data", "keys", "datas"}, NEW default,
             ValuesWith(tag, fields) = <<>>
      PROVE  LastWith(tag, fields, default) = default
  BY <1>3 DEF LastWith
<1>4. ASSUME ValuesWith("opcode", fields) = <<message.opcode>>
      PROVE  LastWith("opcode", fields, OP_BAD) = message.opcode
  BY <1>4 DEF LastWith
<1>0. fields = <<Field("opcode", message.opcode)>> \o body
  BY <1>1, Zenon DEF message_t__pack
<1> HIDE DEF fields
<1>5. SUFFICES Unpacks(message.opcode, message.result,
                       IF message.c_type = CT_VALUE THEN message.body ELSE NULL,
                       IF message.c_type = CT_KEYS THEN message.body ELSE <<>>,
                       IF message.c_type = CT_VALUES THEN message.body ELSE <<>>)
  BY DEF Whole, fields, message_t__unpack
<1>6. CASE message.c_type = CT_KEYS
  <2>1. body = Elements("keys", message.body)
    BY <1>6 DEF CT_KEYS, CT_VALUES, CT_VALUE
  <2> HIDE DEF body
  <2>4. fields = Listed(message.opcode, "keys", message.body)
    BY <1>0, <2>1, Zenon DEF Listed
  <2>2. message.body \in Seq(S) /\ message.result = 0
    BY <1>6 DEF IsAnswer
  <2>3. Unpacks(message.opcode, 0, NULL, message.body, <<>>)
    BY <1>3, <1>4, <2>2, <2>4, ListedValues, ListedIsWellFormed
  <2> QED
    BY <1>6, <2>2, <2>3 DEF CT_KEYS, CT_VALUES, CT_VALUE
<1>7. CASE message.c_type = CT_VALUES
  <2>1. body = Elements("datas", message.body)
    BY <1>7 DEF CT_KEYS, CT_VALUES, CT_VALUE
  <2> HIDE DEF body
  <2>4. fields = Listed(message.opcode, "datas", message.body)
    BY <1>0, <2>1, Zenon DEF Listed
  <2>2. message.body \in Seq(S) /\ message.result = 0
    BY <1>7 DEF IsAnswer
  <2>3. Unpacks(message.opcode, 0, NULL, <<>>, message.body)
    BY <1>3, <1>4, <2>2, <2>4, ListedValues, ListedIsWellFormed
  <2> QED
    BY <1>7, <2>2, <2>3 DEF CT_KEYS, CT_VALUES, CT_VALUE
<1>8. CASE message.c_type = CT_VALUE
  <2>1. body = Scalar("data", message.body, NULL)
    BY <1>8 DEF CT_KEYS, CT_VALUES, CT_VALUE
  <2> HIDE DEF body
  <2>2. message.result = 0
    BY <1>8 DEF IsAnswer
  <2>3. Unpacks(message.opcode, 0, message.body, <<>>, <<>>)
    BY <1>0, <1>3, <2>1, PackedScalar
  <2> QED
    BY <1>8, <2>2, <2>3 DEF CT_KEYS, CT_VALUES, CT_VALUE
<1>9. CASE message.c_type \notin {CT_KEYS, CT_VALUES, CT_VALUE}
  <2>1. body = Scalar("result", message.result, 0)
    BY <1>9
  <2> HIDE DEF body
  <2>2. Unpacks(message.opcode, message.result, NULL, <<>>, <<>>)
    BY <1>0, <1>3, <2>1, PackedScalar
  <2> QED
    BY <1>9, <2>2
<1> QED
  BY <1>6, <1>7, <1>8, <1>9
=============================================================================
