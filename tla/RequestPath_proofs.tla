------------------------- MODULE RequestPath_proofs -------------------------
(***************************************************************************)
(* Proofs about RequestPath, for every number of bytes, buffer size, stdin *)
(* and sequence of messages that the assumptions of the module allow: the  *)
(* types, the reads of the server, the messages it takes from the stream,  *)
(* and that the plugin is given what stdin named and the client the        *)
(* plugin's verdict.                                                       *)
(***************************************************************************)
EXTENDS RequestPath, SequenceTheorems, WellFoundedInduction, TLAPS

(***************************************************************************)
(* The wire format: numbers, buffers and texts.                            *)
(***************************************************************************)
LEMMA Sizes ==
  /\ BASE \in Nat /\ BASE > 1 /\ HEADER_SIZE = 4
  /\ IO_BUFFER_SIZE \in Nat /\ IO_BUFFER_SIZE >= 4 /\ IO_BUFFER_SIZE \in Uint16
  /\ 4 \in Uint16 /\ 0 \in Byte /\ Byte \subseteq Nat /\ Uint16 \subseteq Nat
<1>1. /\ BASE \in Nat /\ BASE > 1 /\ HEADER_SIZE = 4
      /\ IO_BUFFER_SIZE \in Uint16 /\ IO_BUFFER_SIZE >= 4
  BY FormatAssumption
<1>2. BASE * BASE \in Nat
  BY <1>1
<1> QED
  BY <1>1, <1>2 DEF Uint16, Byte

LEMMA Joined ==
  ASSUME NEW s \in Text, NEW t \in Text
  PROVE  /\ s \o t \in Text /\ Len(s \o t) = Len(s) + Len(t)
         /\ Len(s) \in Nat /\ Len(t) \in Nat
         /\ \A i \in 1 .. Len(s) : (s \o t)[i] = s[i]
         /\ \A i \in 1 .. Len(t) : (s \o t)[Len(s) + i] = t[i]
BY DEF Text

LEMMA Regrouped ==
  ASSUME NEW s \in Text, NEW t \in Text, NEW u \in Text
  PROVE  (s \o t) \o u = s \o (t \o u)
BY ConcatAssociative DEF Text

High(v) == v \div BASE
Low(v)  == v % BASE

\* A number of 16 bits is its two bytes.
LEMMA Halves ==
  ASSUME NEW v \in Uint16
  PROVE  High(v) \in Byte /\ Low(v) \in Byte /\ High(v) * BASE + Low(v) = v
<1>1. BASE \in Nat /\ BASE > 1 /\ v \in Nat /\ v <= BASE * BASE - 1
  BY FormatAssumption DEF Uint16
<1>2. High(v) \in Nat /\ Low(v) \in 0 .. BASE - 1 /\ v = High(v) * BASE + Low(v)
  BY <1>1 DEF High, Low
<1>3. High(v) <= BASE - 1
  <2>1. SUFFICES ASSUME High(v) >= BASE PROVE FALSE
    BY <1>1, <1>2
  <2>2. High(v) * BASE >= BASE * BASE
    BY <1>1, <1>2, <2>1
  <2> QED
    BY <1>1, <1>2, <2>2
<1> QED
  BY <1>1, <1>2, <1>3 DEF Byte

LEMMA ToBytesOf ==
  ASSUME NEW v \in Uint16
  PROVE  /\ ToBytes(v) \in Text /\ Len(ToBytes(v)) = 2
         /\ ToBytes(v)[1] = High(v) /\ ToBytes(v)[2] = Low(v)
<1>1. ToBytes(v) = <<High(v), Low(v)>>
  BY DEF ToBytes, High, Low
<1> QED
  BY <1>1, Halves DEF Text

LEMMA TwoBytes ==
  ASSUME NEW high \in Byte, NEW low \in Byte
  PROVE  high * BASE + low \in Uint16
BY FormatAssumption DEF Uint16, Byte

LEMMA PutIn ==
  ASSUME NEW buffer \in Buffer, NEW offset \in Nat, NEW s \in Text
  PROVE  /\ Put(buffer, offset, s) \in Buffer
         /\ \A i \in BufferIndex :
              Put(buffer, offset, s)[i] = IF offset <= i /\ i < offset + Len(s)
                                          THEN s[i - offset + 1] ELSE buffer[i]
<1>1. DOMAIN buffer = BufferIndex /\ BufferIndex \subseteq Nat
  BY Sizes DEF Buffer, BufferIndex
<1>2. \A i \in BufferIndex : offset <= i /\ i < offset + Len(s) =>
                               s[i - offset + 1] \in Byte
  BY <1>1 DEF Text
<1> QED
  BY <1>1, <1>2 DEF Put, Buffer

LEMMA GetFrom ==
  ASSUME NEW buffer \in Buffer, NEW from \in Nat, NEW to \in from .. IO_BUFFER_SIZE
  PROVE  /\ Get(buffer, from, to) \in Text /\ Len(Get(buffer, from, to)) = to - from
         /\ \A i \in 1 .. to - from : Get(buffer, from, to)[i] = buffer[from + i - 1]
<1>1. to - from \in Nat
  BY Sizes
<1>2. \A i \in 1 .. to - from : from + i - 1 \in BufferIndex
  BY Sizes DEF BufferIndex
<1>3. \A i \in 1 .. to - from : buffer[from + i - 1] \in Byte
  BY <1>2 DEF Buffer
<1> QED
  BY <1>1, <1>3 DEF Get, Text

LEMMA FirstIndices == 0 .. 3 \subseteq BufferIndex /\ 0 \in BufferIndex /\ 1 \in BufferIndex
                      /\ 2 \in BufferIndex /\ 3 \in BufferIndex
BY Sizes DEF BufferIndex

LEMMA DeserializeType ==
  ASSUME NEW buffer \in Buffer
  PROVE  Deserialize(buffer) \in Header
<1>1. /\ buffer[0] \in Byte /\ buffer[1] \in Byte /\ buffer[2] \in Byte /\ buffer[3] \in Byte
  BY FirstIndices DEF Buffer
<1> QED
  BY <1>1, TwoBytes DEF Deserialize, FromBytes, Header

\* The four bytes of a header.
HeaderBytes(h) == ToBytes(h.msg_type) \o ToBytes(h.data_length)

LEMMA HeaderBytesOf ==
  ASSUME NEW h \in Header
  PROVE  /\ HeaderBytes(h) \in Text /\ Len(HeaderBytes(h)) = 4
         /\ HeaderBytes(h)[1] = High(h.msg_type) /\ HeaderBytes(h)[2] = Low(h.msg_type)
         /\ HeaderBytes(h)[3] = High(h.data_length)
         /\ HeaderBytes(h)[4] = Low(h.data_length)
<1>1. h.msg_type \in Uint16 /\ h.data_length \in Uint16
  BY DEF Header
<1> HIDE DEF Text
<1> DEFINE s == ToBytes(h.msg_type)
           t == ToBytes(h.data_length)
<1>2. s \in Text /\ t \in Text /\ Len(s) = 2 /\ Len(t) = 2
  BY <1>1, ToBytesOf
<1>3. s[1] = High(h.msg_type) /\ s[2] = Low(h.msg_type)
      /\ t[1] = High(h.data_length) /\ t[2] = Low(h.data_length)
  BY <1>1, ToBytesOf
<1> HIDE DEF s, t
<1>4. /\ s \o t \in Text /\ Len(s \o t) = 4
      /\ (s \o t)[1] = s[1] /\ (s \o t)[2] = s[2] /\ (s \o t)[3] = t[1] /\ (s \o t)[4] = t[2]
  BY <1>2, ConcatProperties DEF Text
<1>5. HeaderBytes(h) = s \o t
  BY DEF HeaderBytes, s, t
<1> QED
  BY <1>3, <1>4, <1>5

\* Whoever reads the four bytes of a header reads the header.
LEMMA DeserializeBytes ==
  ASSUME NEW h \in Header, NEW buffer,
         \A i \in 0 .. 3 : buffer[i] = HeaderBytes(h)[i + 1]
  PROVE  Deserialize(buffer) = h
<1>1. PICK a, b \in Byte : /\ a = High(h.msg_type) /\ b = Low(h.msg_type)
                           /\ a * BASE + b = h.msg_type
  BY Halves DEF Header
<1>2. PICK c, d \in Byte : /\ c = High(h.data_length) /\ d = Low(h.data_length)
                           /\ c * BASE + d = h.data_length
  BY Halves DEF Header
<1>3. buffer[0] = a /\ buffer[1] = b /\ buffer[2] = c /\ buffer[3] = d
  <2>1. /\ buffer[0] = HeaderBytes(h)[1] /\ buffer[1] = HeaderBytes(h)[2]
        /\ buffer[2] = HeaderBytes(h)[3] /\ buffer[3] = HeaderBytes(h)[4]
    OBVIOUS
  <2> QED BY <1>1, <1>2, <2>1, HeaderBytesOf
<1>4. /\ FromBytes(buffer, 0) = buffer[0] * BASE + buffer[1]
      /\ FromBytes(buffer, 2) = buffer[2] * BASE + buffer[3]
  BY DEF FromBytes
<1>5. FromBytes(buffer, 0) = h.msg_type /\ FromBytes(buffer, 2) = h.data_length
  <2>1. a * BASE + b = h.msg_type /\ c * BASE + d = h.data_length
    BY <1>1, <1>2
  <2> QED BY <1>3, <1>4, <2>1
<1> QED
  BY <1>5 DEF Deserialize, Header

LEMMA SerializeInto ==
  ASSUME NEW h \in Header, NEW buffer \in Buffer
  PROVE  /\ Serialize(h, buffer) \in Buffer
         /\ \A i \in 0 .. 3 : Serialize(h, buffer)[i] = HeaderBytes(h)[i + 1]
         /\ \A i \in BufferIndex : i > 3 => Serialize(h, buffer)[i] = buffer[i]
<1>1. Serialize(h, buffer) = Put(buffer, 0, HeaderBytes(h))
  BY DEF Serialize, HeaderBytes
<1>2. HeaderBytes(h) \in Text /\ Len(HeaderBytes(h)) = 4
  BY HeaderBytesOf
<1> HIDE DEF HeaderBytes, Serialize
<1>3. /\ Put(buffer, 0, HeaderBytes(h)) \in Buffer
      /\ \A i \in BufferIndex :
           Put(buffer, 0, HeaderBytes(h))[i] = IF 0 <= i /\ i < 0 + 4
                                               THEN HeaderBytes(h)[i - 0 + 1] ELSE buffer[i]
  BY <1>2, PutIn
<1>4. \A i \in 0 .. 3 : i \in BufferIndex /\ 0 <= i /\ i < 0 + 4 /\ i - 0 + 1 = i + 1
  BY FirstIndices
<1>5. \A i \in BufferIndex : i > 3 => ~(0 <= i /\ i < 0 + 4)
  BY Sizes DEF BufferIndex
<1> QED
  BY <1>1, <1>3, <1>4, <1>5

\* A set of numbers has a least one.
Below == {p \in Nat \X Nat : p[1] < p[2]}

LEMMA Least ==
  ASSUME NEW S, S \subseteq Nat, S # {}
  PROVE  \E m \in S : \A k \in S : m <= k
<1>1. IsWellFoundedOn(Below, Nat)
  BY NatLessThanWellFounded DEF OpToRel, Below
<1>2. PICK m \in S : \A k \in S : ~ (<<k, m>> \in Below)
  BY <1>1, WFMin
<1>3. ASSUME NEW k \in S
      PROVE  m <= k
  <2>1. <<k, m>> \in Below <=> k < m
    BY DEF Below
  <2> QED BY <1>2, <2>1
<1> QED
  BY <1>3

\* The pair is split at its first split byte.
LEMMA SplitsAtFirst ==
  ASSUME NEW text \in Text, HasSplit(text)
  PROVE  /\ SplitIndex(text) \in 1 .. Len(text) /\ text[SplitIndex(text)] = SPLIT
         /\ \A j \in 1 .. SplitIndex(text) - 1 : text[j] # SPLIT
         /\ KeyOf(text) \in Text /\ ValueOf(text) \in Text
<1> DEFINE S == {i \in 1 .. Len(text) : text[i] = SPLIT}
<1>1. S \subseteq Nat /\ S # {} /\ Len(text) \in Nat
  BY DEF HasSplit, Text
<1>2. PICK m \in S : \A k \in S : m <= k
  <2> HIDE DEF S
  <2> QED BY <1>1, Least
<1>3. \A j \in 1 .. m - 1 : text[j] # SPLIT
  BY <1>1, <1>2
<1>4. /\ SplitIndex(text) \in 1 .. Len(text) /\ text[SplitIndex(text)] = SPLIT
      /\ \A j \in 1 .. SplitIndex(text) - 1 : text[j] # SPLIT
  BY <1>2, <1>3 DEF SplitIndex
<1>5. KeyOf(text) \in Text /\ ValueOf(text) \in Text
  BY <1>1, <1>4 DEF KeyOf, ValueOf, Text
<1> QED
  BY <1>4, <1>5

\* A field the server reads lies within the data of the buffer.
LEMMA FieldWithin ==
  ASSUME NEW buffer \in Buffer, NEW capacity \in 0 .. IO_BUFFER_SIZE, NEW offset \in Nat,
         HaveField(buffer, capacity, offset)
  PROVE  /\ FieldLength(buffer, offset) \in Nat
         /\ offset + 2 + FieldLength(buffer, offset) <= capacity
         /\ Field(buffer, offset) \in Text
         /\ Len(Field(buffer, offset)) = FieldLength(buffer, offset)
         /\ \A i \in 1 .. FieldLength(buffer, offset) :
              Field(buffer, offset)[i] = buffer[offset + 1 + i]
<1>1. /\ offset < capacity /\ capacity - offset >= 2
      /\ FieldLength(buffer, offset) <= capacity - offset - 2
  BY DEF HaveField
<1>2. offset \in BufferIndex /\ offset + 1 \in BufferIndex
  BY <1>1, Sizes DEF BufferIndex
<1>3. FieldLength(buffer, offset) \in Nat
  BY <1>2, TwoBytes, Sizes DEF FieldLength, FromBytes, Buffer
<1> DEFINE n == FieldLength(buffer, offset)
           from == offset + 2
           to == from + n
<1>4. n \in Nat /\ from \in Nat /\ to \in from .. IO_BUFFER_SIZE /\ to <= capacity /\ to - from = n
  <2> HIDE DEF n
  <2> QED BY <1>1, <1>3, Sizes DEF n
<1>5. Field(buffer, offset) = Get(buffer, from, to)
  BY DEF Field
<1> HIDE DEF n, to, from
<1>6. /\ Get(buffer, from, to) \in Text /\ Len(Get(buffer, from, to)) = to - from
      /\ \A i \in 1 .. to - from : Get(buffer, from, to)[i] = buffer[from + i - 1]
  BY <1>4, GetFrom
<1>7. \A i \in 1 .. n : from + i - 1 = offset + 1 + i
  BY <1>4 DEF from
<1> QED
  BY <1>3, <1>4, <1>5, <1>6, <1>7 DEF n, from, to

-----------------------------------------------------------------------------
(***************************************************************************)
(* The sender: what it read from stdin, and the request it makes of it.    *)
(***************************************************************************)
SenderTypes ==
  /\ sender \in {"client", "other"}
  /\ cpc \in {"read", "dispatch", "send", "receive", "ended"}
  /\ args \in [Keys -> [value : Text, present : BOOLEAN, required : BOOLEAN]]
  /\ exit \in {"running", "success", "failure", "killed", "other"}
  /\ lines_read \in 0 .. MaxLines
  /\ given \in [Keys -> SUBSET {l.value : l \in Lines}] /\ unended \in BOOLEAN

WireTypes ==
  sent \in Seq(Message) /\ stream \in Text /\ back \in Text /\ hung_up \in BOOLEAN

ServerTypes ==
  /\ phase \in {"RECV", "EXECUTING", "PARSE", "SEND", "CLOSED", "LOST", "KILLED"}
  /\ next_phase \in {"PENDING", "RECV", "CANCELED"}
  /\ io_buffer \in Buffer /\ io_offset \in 0 .. IO_BUFFER_SIZE
  /\ have_header \in BOOLEAN /\ header \in Header
  /\ field_offset \in 0 .. IO_BUFFER_SIZE
  /\ nodename \in Text /\ Len(nodename) <= NODENAME_SIZE
  /\ secret \in Text /\ Len(secret) <= MAX_SECRET_LENGTH
  /\ fields \in Seq(Text)
  /\ taken \in Seq([msg_type : Uint16, body : Text])
  /\ plugin = NoCall \/ plugin \in [op : FenceType, node : Text, secret : Text,
                                    success : BOOLEAN]

LEMMA Types == TypeOK <=> SenderTypes /\ WireTypes /\ ServerTypes
BY DEF TypeOK, SenderTypes, WireTypes, ServerTypes

\* An argument has the one value stdin gave for it, and that is not too long.
ArgsMatch ==
  \A k \in Keys : /\ given[k] = IF args[k].present THEN {args[k].value} ELSE {}
                  /\ Len(args[k].value) <= Capacity[k]

\* The client can send a request.
Sendable == /\ ArgsMatch
            /\ \A k \in Keys : args[k].present
            /\ Action \in DOMAIN FenceActions

SenderInv ==
  /\ sender = "other" => cpc = "ended" /\ exit = "running"
  /\ sender = "client" =>
       /\ cpc \in {"read", "dispatch"} => ArgsMatch
       /\ cpc = "send" \/ sent # << >> => Sendable
       /\ cpc \in {"read", "dispatch", "send"} => sent = << >>
       /\ cpc = "receive" => sent # << >>

\* The request has room in the client's buffer.
LEMMA RequestFitsIn ==
  ASSUME SenderTypes, Sendable
  PROVE  /\ RequestFits
         /\ NodenameParam \in Text /\ SecretParam \in Text
         /\ Len(NodenameParam) \in Uint16 /\ Len(SecretParam) \in Uint16
         /\ SecretOffset = 6 + Len(NodenameParam)
         /\ RequestLength = 8 + Len(NodenameParam) + Len(SecretParam)
         /\ RequestLength \in 8 .. IO_BUFFER_SIZE /\ RequestLength \in Uint16
<1> DEFINE n == Args!Value(args, "nodename")
           s == Args!Value(args, "secret")
<1>1. /\ {"nodename", "secret"} \subseteq Keys
      /\ NODENAME \in Text /\ SECRET \in Text /\ Capacity \in [Keys -> Nat]
  BY RequestAssumption
<1>2. /\ n \in Text /\ s \in Text /\ <<SPLIT>> \in Text /\ Len(<<SPLIT>>) = 1
      /\ Len(n) <= Capacity["nodename"] /\ Len(s) <= Capacity["secret"]
  BY <1>1, FormatAssumption DEF SenderTypes, Sendable, ArgsMatch, Args!Value, Text
<1> HIDE DEF n, s
<1>3. /\ Pair(NODENAME, n) \in Text /\ Len(Pair(NODENAME, n)) = Len(NODENAME) + 1 + Len(n)
      /\ Pair(SECRET, s) \in Text /\ Len(Pair(SECRET, s)) = Len(SECRET) + 1 + Len(s)
  BY <1>1, <1>2 DEF Pair, Text
<1>4. /\ HEADER_SIZE + 2 + Len(Pair(NODENAME, n)) + 2 + Len(Pair(SECRET, s)) <= IO_BUFFER_SIZE
      /\ Len(Pair(NODENAME, n)) \in Nat /\ Len(Pair(SECRET, s)) \in Nat
  <2>1. /\ Len(NODENAME) \in Nat /\ Len(SECRET) \in Nat /\ Len(n) \in Nat /\ Len(s) \in Nat
        /\ Capacity["nodename"] \in Nat /\ Capacity["secret"] \in Nat
    BY <1>1, <1>2 DEF Text
  <2> QED BY <1>2, <1>3, <2>1, SizesFit, Sizes
<1> DEFINE np == Pair(NODENAME, n)
           sp == Pair(SECRET, s)
<1>5. NodenameParam = np /\ SecretParam = sp
  BY DEF NodenameParam, SecretParam, n, s
<1>6. \A v \in Nat : v <= IO_BUFFER_SIZE => v \in Uint16
  BY Sizes, FormatAssumption DEF Uint16
<1> HIDE DEF np, sp
<1>7. /\ SecretOffset = 6 + Len(np) /\ RequestLength = 8 + Len(np) + Len(sp)
      /\ np \in Text /\ sp \in Text /\ Len(np) \in Nat /\ Len(sp) \in Nat
      /\ 8 + Len(np) + Len(sp) <= IO_BUFFER_SIZE
  BY <1>3, <1>4, <1>5, Sizes DEF SecretOffset, RequestLength, np, sp
<1> QED
  BY <1>5, <1>6, <1>7, Sizes DEF RequestFits, FieldFits

\* The request as a message, and the bytes of a message on the stream.
Request == [msg_type |-> FenceActions[Action], data_length |-> RequestLength,
            body |-> Get(RequestBuffer, HEADER_SIZE, RequestLength)]

Bytes(m) == HeaderBytes(m) \o m.body
Size(m) == HEADER_SIZE + Len(m.body)

LEMMA BytesOf ==
  ASSUME NEW m \in Message
  PROVE  /\ Bytes(m) \in Text /\ Len(Bytes(m)) = Size(m) /\ Size(m) \in Nat /\ Size(m) >= 4
         /\ \A i \in 1 .. 4 : Bytes(m)[i] = HeaderBytes(m)[i]
         /\ \A i \in 5 .. Size(m) : Bytes(m)[i] = m.body[i - 4]
<1>1. /\ HeaderBytes(m) = HeaderBytes([msg_type |-> m.msg_type, data_length |-> m.data_length])
      /\ [msg_type |-> m.msg_type, data_length |-> m.data_length] \in Header
  BY DEF HeaderBytes, Message, Header
<1>2. HeaderBytes(m) \in Text /\ Len(HeaderBytes(m)) = 4
  BY <1>1, HeaderBytesOf
<1>3. m.body \in Text
  BY DEF Message
<1> HIDE DEF HeaderBytes
<1>4. /\ Bytes(m) \in Text /\ Len(Bytes(m)) = 4 + Len(m.body) /\ Len(m.body) \in Nat
      /\ \A i \in 1 .. 4 : Bytes(m)[i] = HeaderBytes(m)[i]
      /\ \A i \in 1 .. Len(m.body) : Bytes(m)[4 + i] = m.body[i]
  <2> DEFINE s == HeaderBytes(m)
             t == m.body
  <2>1. s \in Text /\ t \in Text /\ Len(s) = 4 /\ Bytes(m) = s \o t
    BY <1>2, <1>3 DEF Bytes
  <2> HIDE DEF s, t
  <2>2. /\ s \o t \in Text /\ Len(s \o t) = Len(s) + Len(t) /\ Len(t) \in Nat
        /\ \A i \in 1 .. Len(s) : (s \o t)[i] = s[i]
        /\ \A i \in 1 .. Len(t) : (s \o t)[Len(s) + i] = t[i]
    BY <2>1, Joined, Zenon
  <2>3. /\ Bytes(m) \in Text /\ Len(Bytes(m)) = 4 + Len(t) /\ Len(t) \in Nat
        /\ \A i \in 1 .. 4 : Bytes(m)[i] = s[i]
        /\ \A i \in 1 .. Len(t) : Bytes(m)[4 + i] = t[i]
    BY <2>1, <2>2
  <2> QED BY <2>3 DEF s, t
<1>5. ASSUME NEW i \in 5 .. 4 + Len(m.body)
      PROVE  Bytes(m)[i] = m.body[i - 4]
  <2>1. i - 4 \in 1 .. Len(m.body) /\ 4 + (i - 4) = i
    BY <1>4
  <2> QED BY <1>4, <2>1
<1> QED
  BY <1>4, <1>5, Sizes DEF Size

\* What the client has put into its buffer is the header and the two fields.
LEMMA RequestLayout ==
  ASSUME SenderTypes, Sendable
  PROVE  /\ RequestBuffer \in Buffer /\ Request \in Message
         /\ \A i \in 0 .. 3 : RequestBuffer[i] = HeaderBytes(Request)[i + 1]
         /\ RequestBuffer[4] = ToBytes(Len(NodenameParam))[1]
         /\ RequestBuffer[5] = ToBytes(Len(NodenameParam))[2]
         /\ \A i \in 1 .. Len(NodenameParam) : RequestBuffer[5 + i] = NodenameParam[i]
         /\ RequestBuffer[SecretOffset] = ToBytes(Len(SecretParam))[1]
         /\ RequestBuffer[SecretOffset + 1] = ToBytes(Len(SecretParam))[2]
         /\ \A i \in 1 .. Len(SecretParam) : RequestBuffer[SecretOffset + 1 + i] = SecretParam[i]
<1> DEFINE np == NodenameParam
           sp == SecretParam
           nf == ToBytes(Len(np)) \o np
           sf == ToBytes(Len(sp)) \o sp
           b1 == WriteField(ClearBuffer, HEADER_SIZE, np)
           b2 == WriteField(b1, SecretOffset, sp)
           h  == [msg_type |-> FenceActions[Action], data_length |-> RequestLength]
<1>1. /\ np \in Text /\ sp \in Text /\ Len(np) \in Uint16 /\ Len(sp) \in Uint16
      /\ Len(np) \in Nat /\ Len(sp) \in Nat
      /\ SecretOffset = 6 + Len(np) /\ RequestLength = 8 + Len(np) + Len(sp)
      /\ RequestLength \in 8 .. IO_BUFFER_SIZE /\ RequestLength \in Uint16
  BY RequestFitsIn, Sizes
<1>2. h \in Header
  BY <1>1, RequestAssumption DEF Sendable, Header
<1>3. ASSUME NEW t \in Text, Len(t) \in Uint16
      PROVE  /\ ToBytes(Len(t)) \o t \in Text /\ Len(ToBytes(Len(t)) \o t) = 2 + Len(t)
             /\ (ToBytes(Len(t)) \o t)[1] = ToBytes(Len(t))[1]
             /\ (ToBytes(Len(t)) \o t)[2] = ToBytes(Len(t))[2]
             /\ \A i \in 1 .. Len(t) : (ToBytes(Len(t)) \o t)[2 + i] = t[i]
  <2>1. ToBytes(Len(t)) \in Text /\ Len(ToBytes(Len(t))) = 2
    BY <1>3, ToBytesOf
  <2> DEFINE s == ToBytes(Len(t))
  <2>2. s \in Text /\ Len(s) = 2
    BY <2>1
  <2> HIDE DEF s
  <2>3. /\ s \o t \in Text /\ Len(s \o t) = Len(s) + Len(t)
        /\ \A i \in 1 .. Len(s) : (s \o t)[i] = s[i]
        /\ \A i \in 1 .. Len(t) : (s \o t)[Len(s) + i] = t[i]
    BY <2>2, Joined, Zenon
  <2>4. /\ s \o t \in Text /\ Len(s \o t) = 2 + Len(t)
        /\ (s \o t)[1] = s[1] /\ (s \o t)[2] = s[2]
        /\ \A i \in 1 .. Len(t) : (s \o t)[2 + i] = t[i]
    BY <2>2, <2>3
  <2> QED BY <2>4 DEF s
<1>4. /\ nf \in Text /\ Len(nf) = 2 + Len(np)
      /\ nf[1] = ToBytes(Len(np))[1] /\ nf[2] = ToBytes(Len(np))[2]
      /\ \A i \in 1 .. Len(np) : nf[2 + i] = np[i]
  BY <1>1, <1>3
<1>5. /\ sf \in Text /\ Len(sf) = 2 + Len(sp)
      /\ sf[1] = ToBytes(Len(sp))[1] /\ sf[2] = ToBytes(Len(sp))[2]
      /\ \A i \in 1 .. Len(sp) : sf[2 + i] = sp[i]
  BY <1>1, <1>3
<1> HIDE DEF nf, sf
<1>6. /\ b1 \in Buffer
      /\ \A i \in BufferIndex : 4 <= i /\ i < 6 + Len(np) => b1[i] = nf[i - 4 + 1]
  <2>1. ClearBuffer \in Buffer
    BY Sizes DEF ClearBuffer, Buffer
  <2>2. b1 = Put(ClearBuffer, 4, nf)
    <3>1. b1 = Put(ClearBuffer, HEADER_SIZE, nf)
      BY DEF WriteField, nf
    <3> QED BY <3>1, Sizes
  <2> HIDE DEF b1
  <2>3. /\ Put(ClearBuffer, 4, nf) \in Buffer
        /\ \A i \in BufferIndex :
             Put(ClearBuffer, 4, nf)[i] = IF 4 <= i /\ i < 4 + Len(nf)
                                          THEN nf[i - 4 + 1] ELSE ClearBuffer[i]
    BY <1>4, <2>1, PutIn
  <2>4. 4 + Len(nf) = 6 + Len(np)
    BY <1>1, <1>4
  <2> QED BY <2>2, <2>3, <2>4
<1>7. /\ b2 \in Buffer
      /\ \A i \in BufferIndex :
           /\ i < 6 + Len(np) => b2[i] = b1[i]
           /\ 6 + Len(np) <= i /\ i < 8 + Len(np) + Len(sp) => b2[i] = sf[i - (6 + Len(np)) + 1]
  <2>1. b2 = Put(b1, 6 + Len(np), sf)
    BY <1>1 DEF WriteField, sf
  <2> HIDE DEF b2, b1
  <2>2. Put(b1, 6 + Len(np), sf) \in Buffer /\ \A i \in BufferIndex :
          Put(b1, 6 + Len(np), sf)[i] = IF 6 + Len(np) <= i /\ i < 6 + Len(np) + Len(sf)
                                        THEN sf[i - (6 + Len(np)) + 1] ELSE b1[i]
    <3>1. 6 + Len(np) \in Nat
      BY <1>1
    <3> HIDE DEF np
    <3> QED BY <1>5, <1>6, <3>1, PutIn
  <2> QED BY <1>1, <1>5, <2>1, <2>2, Sizes DEF BufferIndex
<1>8. RequestBuffer = Serialize(h, b2)
  BY DEF RequestBuffer
<1> HIDE DEF b1, b2
<1>9. /\ RequestBuffer \in Buffer
      /\ \A i \in 0 .. 3 : RequestBuffer[i] = HeaderBytes(h)[i + 1]
      /\ \A i \in BufferIndex : i > 3 => RequestBuffer[i] = b2[i]
  BY <1>2, <1>7, <1>8, SerializeInto
<1> HIDE DEF h
<1>10. /\ HeaderBytes(Request) = HeaderBytes(h)
       /\ Request \in Message
  <2>1. HEADER_SIZE \in Nat /\ RequestLength \in HEADER_SIZE .. IO_BUFFER_SIZE
    BY <1>1, Sizes
  <2>2. Get(RequestBuffer, HEADER_SIZE, RequestLength) \in Text
    BY <1>9, <2>1, GetFrom
  <2> QED BY <1>2, <2>2 DEF Request, HeaderBytes, Message, Header, h
<1>11. ASSUME NEW i \in 4 .. RequestLength - 1
       PROVE  /\ i \in BufferIndex
              /\ i < 6 + Len(np) => RequestBuffer[i] = nf[i - 3]
              /\ i >= 6 + Len(np) => RequestBuffer[i] = sf[i - (6 + Len(np)) + 1]
  <2>1. i \in BufferIndex /\ i \in Nat
    BY <1>1, <1>11, Sizes DEF BufferIndex
  <2> QED BY <1>1, <1>6, <1>7, <1>9, <1>11, <2>1
<1>12. /\ RequestBuffer[4] = nf[1] /\ RequestBuffer[5] = nf[2]
       /\ \A i \in 1 .. Len(np) : RequestBuffer[5 + i] = nf[2 + i]
  <2>1. /\ 4 \in 4 .. RequestLength - 1 /\ 5 \in 4 .. RequestLength - 1
        /\ \A i \in 1 .. Len(np) : /\ 5 + i \in 4 .. RequestLength - 1
                                   /\ 5 + i < 6 + Len(np) /\ (5 + i) - 3 = 2 + i
    BY <1>1
  <2> HIDE DEF np
  <2>2. /\ 4 < 6 + Len(np) /\ 4 - 3 = 1
        /\ 5 < 6 + Len(np) /\ 5 - 3 = 2
    BY <1>1
  <2>3. RequestBuffer[4] = nf[4 - 3] /\ RequestBuffer[5] = nf[5 - 3]
    BY <1>11, <2>1, <2>2, Zenon
  <2>4. ASSUME NEW i \in 1 .. Len(np)
        PROVE  RequestBuffer[5 + i] = nf[2 + i]
    <3>1. RequestBuffer[5 + i] = nf[(5 + i) - 3]
      BY <1>11, <2>1, Zenon
    <3> QED BY <2>1, <3>1
  <2> QED BY <2>2, <2>3, <2>4
<1>13. /\ RequestBuffer[SecretOffset] = sf[1] /\ RequestBuffer[SecretOffset + 1] = sf[2]
       /\ \A i \in 1 .. Len(sp) : RequestBuffer[SecretOffset + 1 + i] = sf[2 + i]
  <2>1. /\ SecretOffset \in 4 .. RequestLength - 1 /\ SecretOffset + 1 \in 4 .. RequestLength - 1
        /\ \A i \in 1 .. Len(sp) : /\ SecretOffset + 1 + i \in 4 .. RequestLength - 1
                                   /\ SecretOffset + 1 + i >= 6 + Len(np)
                                   /\ (SecretOffset + 1 + i) - (6 + Len(np)) + 1 = 2 + i
    BY <1>1
  <2> HIDE DEF np, sp
  <2>2. /\ SecretOffset = 6 + Len(np) /\ Len(np) \in Nat
        /\ SecretOffset >= 6 + Len(np) /\ SecretOffset - (6 + Len(np)) + 1 = 1
        /\ SecretOffset + 1 >= 6 + Len(np) /\ (SecretOffset + 1) - (6 + Len(np)) + 1 = 2
    BY <1>1
  <2>3. /\ RequestBuffer[SecretOffset] = sf[SecretOffset - (6 + Len(np)) + 1]
        /\ RequestBuffer[SecretOffset + 1] = sf[(SecretOffset + 1) - (6 + Len(np)) + 1]
    BY <1>11, <2>1, <2>2, Zenon
  <2>4. ASSUME NEW i \in 1 .. Len(sp)
        PROVE  RequestBuffer[SecretOffset + 1 + i] = sf[2 + i]
    <3>1. RequestBuffer[SecretOffset + 1 + i] = sf[(SecretOffset + 1 + i) - (6 + Len(np)) + 1]
      BY <1>11, <2>1, Zenon
    <3> QED BY <2>1, <3>1
  <2> QED BY <2>2, <2>3, <2>4
<1> QED
  BY <1>4, <1>5, <1>9, <1>10, <1>12, <1>13

\* What it sends of its buffer are the bytes of the request.
LEMMA RequestBytes ==
  ASSUME SenderTypes, Sendable
  PROVE  Get(RequestBuffer, 0, RequestLength) = Bytes(Request) /\ Size(Request) = RequestLength
<1>1. /\ RequestBuffer \in Buffer /\ Request \in Message
      /\ \A i \in 0 .. 3 : RequestBuffer[i] = HeaderBytes(Request)[i + 1]
      /\ RequestLength \in 8 .. IO_BUFFER_SIZE
  BY RequestLayout, RequestFitsIn
<1>2. /\ Request.body \in Text /\ Len(Request.body) = RequestLength - 4
      /\ \A i \in 1 .. RequestLength - 4 : Request.body[i] = RequestBuffer[4 + i - 1]
  <2>1. Request.body = Get(RequestBuffer, HEADER_SIZE, RequestLength)
    BY DEF Request
  <2>2. HEADER_SIZE \in Nat /\ RequestLength \in HEADER_SIZE .. IO_BUFFER_SIZE
    BY <1>1, Sizes
  <2>3. /\ Get(RequestBuffer, HEADER_SIZE, RequestLength) \in Text
        /\ Len(Get(RequestBuffer, HEADER_SIZE, RequestLength)) = RequestLength - HEADER_SIZE
        /\ \A i \in 1 .. RequestLength - HEADER_SIZE :
             Get(RequestBuffer, HEADER_SIZE, RequestLength)[i] = RequestBuffer[HEADER_SIZE + i - 1]
    BY <1>1, <2>2, GetFrom
  <2> QED BY <2>1, <2>3, Sizes
<1>3. Size(Request) = RequestLength
  BY <1>1, <1>2, Sizes DEF Size
<1>4. /\ Get(RequestBuffer, 0, RequestLength) \in Text
      /\ Len(Get(RequestBuffer, 0, RequestLength)) = RequestLength
      /\ \A i \in 1 .. RequestLength :
           Get(RequestBuffer, 0, RequestLength)[i] = RequestBuffer[i - 1]
  <2>1. RequestLength \in 0 .. IO_BUFFER_SIZE /\ RequestLength \in Nat
    BY <1>1, Sizes
  <2>2. /\ Get(RequestBuffer, 0, RequestLength) \in Text
        /\ Len(Get(RequestBuffer, 0, RequestLength)) = RequestLength - 0
        /\ \A i \in 1 .. RequestLength - 0 :
             Get(RequestBuffer, 0, RequestLength)[i] = RequestBuffer[0 + i - 1]
    BY <1>1, <2>1, GetFrom
  <2> QED BY <2>1, <2>2
<1>5. /\ Bytes(Request) \in Text /\ Len(Bytes(Request)) = RequestLength
      /\ \A i \in 1 .. 4 : Bytes(Request)[i] = HeaderBytes(Request)[i]
      /\ \A i \in 5 .. RequestLength : Bytes(Request)[i] = Request.body[i - 4]
  BY <1>1, <1>3, BytesOf
<1>6. \A i \in 1 .. RequestLength :
        Get(RequestBuffer, 0, RequestLength)[i] = Bytes(Request)[i]
  <2> TAKE i \in 1 .. RequestLength
  <2>1. CASE i <= 4
    <3>1. i - 1 \in 0 .. 3 /\ (i - 1) + 1 = i /\ i \in 1 .. 4
      BY <2>1
    <3> QED BY <1>1, <1>4, <1>5, <3>1
  <2>2. CASE i > 4
    <3>1. i - 4 \in 1 .. RequestLength - 4 /\ 4 + (i - 4) - 1 = i - 1 /\ i \in 5 .. RequestLength
      BY <1>1, <2>2
    <3> QED BY <1>2, <1>4, <1>5, <3>1
  <2> QED BY <1>1, <2>1, <2>2
<1> QED
  BY <1>3, <1>4, <1>5, <1>6, SeqEqual DEF Text

LEMMA ReadLineSends ==
  ASSUME SenderTypes, WireTypes, SenderInv, NEW l \in Lines, ReadLine(l)
  PROVE  SenderTypes' /\ WireTypes' /\ SenderInv'
<1>0. /\ l \in Line /\ l.value \in Text /\ l.form \in {"pair", "malformed", "blank"}
      /\ l.ended \in BOOLEAN /\ MaxLines \in Nat
  BY RequestAssumption DEF Line
<1>1. /\ sender = "client" /\ ArgsMatch /\ sent = << >> /\ exit' \in {exit, "killed", "failure"}
      /\ cpc' \in {"read", "ended"} /\ UNCHANGED <<sender, sent, stream, back>>
      /\ hung_up' \in {hung_up, TRUE} /\ lines_read' \in 0 .. MaxLines /\ unended' \in BOOLEAN
  <2>1. sender = "client" /\ ArgsMatch /\ sent = << >>
    BY DEF ReadLine, SenderInv, SenderTypes
  <2>2. /\ exit' \in {exit, "killed", "failure"} /\ cpc' \in {"read", "ended"}
        /\ UNCHANGED <<sender, sent, stream, back>> /\ hung_up' \in {hung_up, TRUE}
    BY DEF ReadLine, Exits
  <2>3. lines_read' \in 0 .. MaxLines /\ unended' \in BOOLEAN
    BY <1>0 DEF ReadLine, SenderTypes
  <2> QED BY <2>1, <2>2, <2>3
<1>2. given' \in [Keys -> SUBSET {m.value : m \in Lines}]
  BY DEF ReadLine, SenderTypes
<1>3. CASE args' = args /\ (cpc' = "read" => l.form = "blank")
  <2>1. l.form # "pair" => given' = given
    BY DEF ReadLine, SenderTypes
  <2>2. cpc' = "read" => ArgsMatch'
    BY <1>1, <1>3, <2>1 DEF ArgsMatch
  <2> QED
    BY <1>1, <1>2, <1>3, <2>2 DEF SenderTypes, WireTypes, SenderInv
<1>4. CASE /\ Args!Accepts(args, Argument(l))
           /\ args' = Args!ProcessArgument(args, Argument(l))
  <2> DEFINE k == l.key
  <2>1. /\ l.form = "pair" /\ k \in Keys /\ ~args[k].present /\ Len(l.value) <= Capacity[k]
        /\ args' = [args EXCEPT ![k].value = l.value, ![k].present = TRUE]
    BY <1>0, <1>4 DEF Argument, Args!Accepts, Args!ProcessArgument
  <2>2. args' \in [Keys -> [value : Text, present : BOOLEAN, required : BOOLEAN]]
    BY <1>0, <2>1 DEF SenderTypes
  <2>3. /\ args'[k].value = l.value /\ args'[k].present
        /\ \A j \in Keys \ {k} : args'[j] = args[j]
    BY <2>1 DEF SenderTypes
  <2>4. /\ given'[k] = {l.value} /\ \A j \in Keys \ {k} : given'[j] = given[j]
    <3>1. \A j \in Keys : given'[j] = IF j = k THEN given[j] \union {l.value} ELSE given[j]
      BY <2>1 DEF ReadLine
    <3>2. given[k] = {}
      BY <1>1, <2>1 DEF ArgsMatch
    <3> QED BY <2>1, <3>1, <3>2
  <2>5. ArgsMatch'
    BY <1>1, <2>1, <2>3, <2>4 DEF ArgsMatch
  <2> QED
    BY <1>1, <1>2, <2>2, <2>5 DEF SenderTypes, WireTypes, SenderInv
<1> QED
  BY <1>3, <1>4 DEF ReadLine, Exits

LEMMA DispatchSends ==
  ASSUME SenderTypes, WireTypes, SenderInv, Dispatch
  PROVE  SenderTypes' /\ WireTypes' /\ SenderInv'
<1>1. /\ sender = "client" /\ ArgsMatch /\ sent = << >> /\ cpc' \in {"send", "ended"}
      /\ exit' \in {exit, "failure", "other"} /\ hung_up' \in {hung_up, TRUE}
      /\ UNCHANGED <<sender, sent, stream, back, lines_read, given, unended>>
  BY DEF Dispatch, SenderInv, SenderTypes, Exits
<1>2. AllRequired \in [Keys -> [value : Text, present : BOOLEAN, required : BOOLEAN]]
  BY DEF AllRequired, Args!MarkRequired, SenderTypes
<1>3. \A k \in Keys : /\ AllRequired[k].value = args[k].value
                      /\ AllRequired[k].present = args[k].present /\ AllRequired[k].required
  BY DEF AllRequired, Args!MarkRequired, SenderTypes
<1>4. args' \in {args, AllRequired}
  BY DEF Dispatch
<1>5. ArgsMatch'
  BY <1>1, <1>3, <1>4 DEF ArgsMatch
<1>6. cpc' = "send" => Sendable'
  <2>1. SUFFICES ASSUME cpc' = "send" PROVE Sendable'
    OBVIOUS
  <2>2. /\ Action \in DOMAIN FenceActions /\ args' = AllRequired
        /\ Args!CheckRequired(AllRequired)
    BY <2>1 DEF Dispatch, Exits
  <2>3. \A k \in Keys : args'[k].present
    BY <1>3, <2>2 DEF Args!CheckRequired
  <2>4. Action' = Action
    BY <1>3, <2>2, RequestAssumption DEF Action, Args!Value
  <2> QED BY <1>5, <2>2, <2>3, <2>4 DEF Sendable
<1> QED
  BY <1>1, <1>2, <1>4, <1>6 DEF SenderTypes, WireTypes, SenderInv

LEMMA RequestSent ==
  ASSUME SenderTypes, WireTypes, SenderInv, SendRequest
  PROVE  /\ SenderTypes' /\ WireTypes' /\ SenderInv'
         /\ sender = "client" /\ Sendable /\ sent = << >> /\ Request \in Message
         /\ sent' = Append(sent, Request) /\ stream' = stream \o Bytes(Request)
         /\ cpc' = "receive" /\ UNCHANGED <<exit, hung_up>>
<1>1. sender = "client" /\ Sendable /\ sent = << >>
  BY DEF SendRequest, SenderInv, SenderTypes
<1>2. RequestFits /\ Request \in Message /\ Bytes(Request) \in Text
  BY <1>1, RequestFitsIn, RequestLayout, BytesOf
<1>3. /\ sent' = Append(sent, Request) /\ stream' = stream \o Bytes(Request)
      /\ cpc' = "receive" /\ UNCHANGED <<exit, hung_up>>
  BY <1>1, <1>2, RequestBytes DEF SendRequest, Request
<1>4. UNCHANGED <<sender, args, lines_read, given, unended, back>>
  BY DEF SendRequest
<1>5. SenderTypes'
  BY <1>3, <1>4 DEF SenderTypes
<1>6. stream \o Bytes(Request) \in Text
  BY <1>2, Joined DEF WireTypes
<1>7. sent' \in Seq(Message) /\ sent' # << >>
  BY <1>1, <1>2, <1>3
<1>8. WireTypes'
  BY <1>3, <1>4, <1>6, <1>7 DEF WireTypes
<1>9. Sendable'
  BY <1>1, <1>4 DEF Sendable, ArgsMatch, Action, Args!Value
<1> QED
  BY <1>1, <1>2, <1>3, <1>4, <1>5, <1>7, <1>8, <1>9 DEF SenderInv

LEMMA OtherSent ==
  ASSUME SenderTypes, WireTypes, SenderInv, NEW m \in OtherMessages, OtherSends(m)
  PROVE  /\ SenderTypes' /\ WireTypes' /\ SenderInv'
         /\ m \in Message /\ sent' = Append(sent, m) /\ stream' = stream \o Bytes(m)
<1>1. m \in Message
  BY RequestAssumption
<1>2. Bytes(m) \in Text
  BY <1>1, BytesOf
<1>3. stream' = stream \o Bytes(m)
  <2> DEFINE a == ToBytes(m.msg_type)
             b == ToBytes(m.data_length)
  <2>1. a \in Text /\ b \in Text /\ m.body \in Text
    BY <1>1, ToBytesOf DEF Message
  <2>2. stream' = ((stream \o a) \o b) \o m.body
    BY DEF OtherSends
  <2>3. Bytes(m) = (a \o b) \o m.body
    BY DEF Bytes, HeaderBytes
  <2> HIDE DEF a, b
  <2>4. stream \in Text
    BY DEF WireTypes
  <2>5. (stream \o a) \o b = stream \o (a \o b)
    BY <2>1, <2>4, Regrouped
  <2>6. a \o b \in Text
    BY <2>1, Joined
  <2>7. (stream \o (a \o b)) \o m.body = stream \o ((a \o b) \o m.body)
    BY <2>1, <2>4, <2>6, Regrouped
  <2> QED BY <2>2, <2>3, <2>5, <2>7
<1>4. stream' \in Text
  BY <1>2, <1>3, Joined DEF WireTypes
<1>5. sent' = Append(sent, m) /\ sent' \in Seq(Message) /\ UNCHANGED <<senderVars, back, hung_up>>
  BY <1>1 DEF OtherSends, WireTypes
<1>6. sender = "other"
  BY DEF OtherSends
<1> QED
  BY <1>1, <1>3, <1>4, <1>5, <1>6 DEF SenderTypes, WireTypes, SenderInv, senderVars

\* Every step of a sender keeps its types and SenderInv.
LEMMA SenderSteps ==
  ASSUME SenderTypes, WireTypes, SenderInv,
         Client \/ OtherHangsUp \/ \E m \in OtherMessages : OtherSends(m)
  PROVE  SenderTypes' /\ WireTypes' /\ SenderInv'
<1>1. CASE EndOfInput
  BY <1>1 DEF EndOfInput, SenderTypes, WireTypes, SenderInv, ArgsMatch, wireVars
<1>2. CASE ReceiveReply
  <2>1. /\ sender = "client" /\ sent # << >> /\ cpc' = "ended" /\ back' = << >>
        /\ exit' \in {"success", "failure", "killed"} /\ hung_up'
        /\ UNCHANGED <<sender, args, lines_read, given, unended, sent, stream>>
    BY <1>2 DEF ReceiveReply, Exits, SenderInv, SenderTypes
  <2>2. << >> \in Text
    BY DEF Text
  <2>3. Sendable' = Sendable
    BY <2>1 DEF Sendable, ArgsMatch, Action, Args!Value
  <2> QED BY <2>1, <2>2, <2>3 DEF SenderTypes, WireTypes, SenderInv
<1>3. CASE OtherHangsUp
  BY <1>3 DEF OtherHangsUp, SenderTypes, WireTypes, SenderInv, senderVars
<1> QED
  BY <1>1, <1>2, <1>3, ReadLineSends, DispatchSends, RequestSent, OtherSent DEF Client

-----------------------------------------------------------------------------
(***************************************************************************)
(* The server's buffer: what the offsets and the header say of the bytes   *)
(* in it in every phase.                                                   *)
(***************************************************************************)
BufferInv ==
  /\ phase = "RECV" /\ ~have_header => io_offset < HEADER_SIZE
  /\ phase = "RECV" /\ have_header =>
       /\ HEADER_SIZE <= io_offset /\ io_offset < header.data_length
       /\ header.data_length <= IO_BUFFER_SIZE
       /\ header = Clamp(Deserialize(io_buffer))
  /\ phase \in {"EXECUTING", "PARSE"} =>
       /\ HEADER_SIZE <= io_offset /\ taken # << >>
       /\ taken[Len(taken)] = [msg_type |-> header.msg_type,
                               body |-> Get(io_buffer, HEADER_SIZE, io_offset)]
  /\ phase = "PARSE" => /\ field_offset \in HEADER_SIZE .. io_offset
                        /\ header.msg_type \in FenceType
  /\ phase = "SEND" =>
       /\ header.data_length = HEADER_SIZE /\ io_offset < HEADER_SIZE
       /\ have_header => \A i \in 0 .. 3 : io_buffer[i] = HeaderBytes(header)[i + 1]

LEMMA ClampType ==
  ASSUME NEW h \in Header
  PROVE  /\ Clamp(h) \in Header /\ Clamp(h).msg_type = h.msg_type
         /\ Clamp(h).data_length <= IO_BUFFER_SIZE
         /\ h.data_length <= IO_BUFFER_SIZE => Clamp(h) = h
BY Sizes DEF Clamp, Header

\* The three outcomes of receive_message: the header is not there yet, the message is
\* not, or it is complete, its length what the header says.
NoHeaderYet == /\ ~have_header' /\ io_offset' < 4 /\ UNCHANGED <<phase, taken, header>>

HeaderKnown == /\ header' = Clamp(Deserialize(io_buffer')) /\ header' \in Header

MessageParted == /\ have_header' /\ HeaderKnown /\ 4 <= io_offset'
                 /\ io_offset' < header'.data_length
                 /\ UNCHANGED <<phase, taken>>

MessageComplete == /\ have_header' /\ HeaderKnown /\ Complete
                   /\ \/ io_offset' = header'.data_length /\ 4 <= io_offset'
                      \/ io_offset' = 4 /\ header'.data_length <= 4

LEMMA Receives ==
  ASSUME TypeOK, BufferInv, NEW n \in 1 .. IO_BUFFER_SIZE, ReceiveMessage(n)
  PROVE  /\ phase = "RECV" /\ io_offset' = io_offset + n /\ n <= Len(stream)
         /\ io_offset' \in 0 .. IO_BUFFER_SIZE /\ io_buffer' \in Buffer
         /\ \A i \in 0 .. io_offset - 1 : io_buffer'[i] = io_buffer[i]
         /\ \A i \in 1 .. n : io_buffer'[io_offset + i - 1] = stream[i]
         /\ stream' \in Text /\ Len(stream') = Len(stream) - n
         /\ \A i \in 1 .. Len(stream) - n : stream'[i] = stream[i + n]
         /\ NoHeaderYet \/ MessageParted \/ MessageComplete
<1>1. /\ phase = "RECV" /\ io_offset' = io_offset + n /\ n <= Len(stream) /\ n <= ReadSize
      /\ io_buffer' = Put(io_buffer, io_offset, SubSeq(stream, 1, n))
      /\ stream' = SubSeq(stream, n + 1, Len(stream))
  BY DEF ReceiveMessage
<1>2. /\ io_buffer \in Buffer /\ io_offset \in 0 .. IO_BUFFER_SIZE /\ stream \in Text
      /\ have_header \in BOOLEAN /\ header \in Header /\ Len(stream) \in Nat /\ n \in Nat
      /\ io_offset \in Nat /\ header.data_length \in Nat /\ n >= 1
  <2>1. /\ io_buffer \in Buffer /\ io_offset \in 0 .. IO_BUFFER_SIZE /\ stream \in Text
        /\ have_header \in BOOLEAN /\ header \in Header
    BY DEF TypeOK
  <2>2. Len(stream) \in Nat
    BY <2>1 DEF Text
  <2>3. header.data_length \in Nat
    BY <2>1, Sizes DEF Header
  <2> QED BY <2>1, <2>2, <2>3, Sizes
<1>3. /\ ~have_header => io_offset < 4 /\ io_offset' <= 4
      /\ have_header => /\ 4 <= io_offset /\ io_offset' <= header.data_length
                        /\ header.data_length <= IO_BUFFER_SIZE
  BY <1>1, <1>2, Sizes DEF BufferInv, ReadSize
<1>4. io_offset' \in 0 .. IO_BUFFER_SIZE
  BY <1>1, <1>2, <1>3, Sizes
<1>5. /\ SubSeq(stream, 1, n) \in Text /\ Len(SubSeq(stream, 1, n)) = n
      /\ \A i \in 1 .. n : SubSeq(stream, 1, n)[i] = stream[i]
  BY <1>1, <1>2 DEF Text
<1>6. /\ stream' \in Text /\ Len(stream') = Len(stream) - n
      /\ \A i \in 1 .. Len(stream) - n : stream'[i] = stream[i + n]
  BY <1>1, <1>2 DEF Text
<1>7. /\ io_buffer' \in Buffer
      /\ \A i \in BufferIndex : io_buffer'[i] = IF io_offset <= i /\ i < io_offset + n
                                                THEN stream[i - io_offset + 1]
                                                ELSE io_buffer[i]
  <2> DEFINE s == SubSeq(stream, 1, n)
  <2>1. s \in Text /\ Len(s) = n /\ io_buffer' = Put(io_buffer, io_offset, s)
        /\ \A i \in 1 .. n : s[i] = stream[i]
    BY <1>1, <1>5
  <2> HIDE DEF s
  <2>2. /\ Put(io_buffer, io_offset, s) \in Buffer
        /\ \A i \in BufferIndex :
             Put(io_buffer, io_offset, s)[i] = IF io_offset <= i /\ i < io_offset + Len(s)
                                               THEN s[i - io_offset + 1] ELSE io_buffer[i]
    BY <1>2, <2>1, PutIn
  <2> QED BY <1>2, <2>1, <2>2, Sizes DEF BufferIndex
<1>8. /\ \A i \in 0 .. io_offset - 1 : io_buffer'[i] = io_buffer[i]
      /\ \A i \in 1 .. n : io_buffer'[io_offset + i - 1] = stream[i]
  <2>1. \A i \in 0 .. io_offset - 1 : i \in BufferIndex
    BY <1>2, Sizes DEF BufferIndex
  <2>2. \A i \in 1 .. n : io_offset + i - 1 \in BufferIndex
    BY <1>1, <1>2, <1>4, Sizes DEF BufferIndex
  <2>3. \A i \in 1 .. n : /\ io_offset <= io_offset + i - 1 /\ io_offset + i - 1 < io_offset + n
                           /\ (io_offset + i - 1) - io_offset + 1 = i
    BY <1>2
  <2>4. \A i \in 0 .. io_offset - 1 : ~(io_offset <= i)
    BY <1>2
  <2> QED BY <1>7, <2>1, <2>2, <2>3, <2>4
<1>9. Deserialize(io_buffer') \in Header
  BY <1>7, DeserializeType
<1>10. NoHeaderYet \/ MessageParted \/ MessageComplete
  <2>1. CASE have_header
    <3>1. Deserialize(io_buffer') = Deserialize(io_buffer)
      <4>1. \A i \in 0 .. 3 : io_buffer'[i] = io_buffer[i]
        BY <1>2, <1>3, <1>8, <2>1
      <4>2. /\ io_buffer'[0] = io_buffer[0] /\ io_buffer'[1] = io_buffer[1]
            /\ io_buffer'[2] = io_buffer[2] /\ io_buffer'[3] = io_buffer[3]
        BY <4>1
      <4>3. \A b : Deserialize(b) = [msg_type |-> b[0] * BASE + b[1],
                                     data_length |-> b[2] * BASE + b[3]]
        BY DEF Deserialize, FromBytes
      <4> QED BY <4>2, <4>3
    <3>2. /\ have_header' /\ UNCHANGED header
          /\ IF io_offset' >= header.data_length THEN Complete ELSE Incomplete
      BY <2>1 DEF ReceiveMessage
    <3>3. HeaderKnown
      BY <1>1, <1>2, <2>1, <3>1, <3>2 DEF HeaderKnown, BufferInv
    <3>4. 4 <= io_offset'
      BY <1>1, <1>2, <1>3, <2>1
    <3>5. CASE io_offset' >= header.data_length
      BY <1>2, <1>3, <1>4, <2>1, <3>2, <3>3, <3>4, <3>5 DEF MessageComplete
    <3>6. CASE ~(io_offset' >= header.data_length)
      BY <1>2, <1>4, <3>2, <3>3, <3>4, <3>6 DEF MessageParted, Incomplete
    <3> QED BY <3>5, <3>6
  <2>2. CASE ~have_header /\ io_offset' >= 4
    <3>1. /\ have_header' /\ header' = Clamp(Deserialize(io_buffer'))
          /\ IF header'.data_length <= HEADER_SIZE THEN Complete ELSE Incomplete
      <4>1. io_offset' >= HEADER_SIZE /\ ~(io_offset' < HEADER_SIZE)
        BY <1>4, <2>2, Sizes
      <4> QED BY <2>2, <4>1 DEF ReceiveMessage
    <3>2. HeaderKnown /\ header'.data_length \in Nat /\ io_offset' = 4
      <4>1. header' \in Header
        BY <1>9, <3>1, ClampType
      <4>2. header'.data_length \in Nat
        BY <4>1, Sizes DEF Header
      <4> QED BY <1>1, <1>3, <1>4, <2>2, <3>1, <4>1, <4>2 DEF HeaderKnown
    <3> QED BY <3>1, <3>2, Sizes DEF MessageComplete, MessageParted, Incomplete
  <2>3. CASE ~have_header /\ io_offset' < 4
    BY <1>4, <2>3, Sizes DEF ReceiveMessage, NoHeaderYet, Incomplete
  <2> QED BY <1>2, <1>4, <2>1, <2>2, <2>3
<1> QED
  BY <1>1, <1>4, <1>6, <1>7, <1>8, <1>10

LEMMA ReceiveTypes ==
  ASSUME TypeOK, BufferInv, NEW n \in 1 .. IO_BUFFER_SIZE, ReceiveMessage(n)
  PROVE  WireTypes' /\ ServerTypes' /\ BufferInv'
<1>1. /\ UNCHANGED <<sent, back, hung_up, next_phase, field_offset, nodename, secret, fields,
                     plugin>>
      /\ stream' \in Text /\ io_buffer' \in Buffer /\ io_offset' \in 0 .. IO_BUFFER_SIZE
      /\ NoHeaderYet \/ MessageParted \/ MessageComplete
  BY Receives DEF ReceiveMessage
<1>2. WireTypes'
  BY <1>1, Types DEF WireTypes
<1>3. /\ header' \in Header /\ have_header' \in BOOLEAN
      /\ phase' \in {"RECV", "EXECUTING"}
  <2>1. have_header' \in {have_header, TRUE}
    BY DEF ReceiveMessage
  <2>2. header' \in Header /\ phase' \in {phase, "EXECUTING"}
    BY <1>1 DEF NoHeaderYet, MessageParted, MessageComplete, HeaderKnown, Complete, TypeOK
  <2> QED BY <2>1, <2>2, Receives DEF TypeOK
<1>4. taken' \in Seq([msg_type : Uint16, body : Text])
  <2>1. CASE MessageComplete
    <3>1. HEADER_SIZE \in Nat /\ io_offset' \in HEADER_SIZE .. IO_BUFFER_SIZE
      BY <1>1, <2>1, Sizes DEF MessageComplete
    <3>2. Get(io_buffer', HEADER_SIZE, io_offset') \in Text
      BY <1>1, <3>1, GetFrom
    <3>3. [msg_type |-> header'.msg_type, body |-> Get(io_buffer', HEADER_SIZE, io_offset')]
            \in [msg_type : Uint16, body : Text]
      BY <1>3, <3>2 DEF Header
    <3> QED BY <2>1, <3>3 DEF MessageComplete, Complete, TypeOK
  <2> QED BY <1>1, <2>1 DEF NoHeaderYet, MessageParted, TypeOK
<1>5. ServerTypes'
  BY <1>1, <1>3, <1>4, Types DEF ServerTypes
<1>6. BufferInv'
  <2>1. CASE NoHeaderYet
    BY <2>1, Receives, Sizes DEF NoHeaderYet, BufferInv
  <2>2. CASE MessageParted
    <3>1. header'.data_length <= IO_BUFFER_SIZE
      BY <1>1, <2>2, DeserializeType, ClampType DEF MessageParted, HeaderKnown
    <3> QED
      BY <1>1, <2>2, <3>1, Receives, Sizes DEF MessageParted, HeaderKnown, BufferInv
  <2>3. CASE MessageComplete
    <3> DEFINE m == [msg_type |-> header'.msg_type,
                     body |-> Get(io_buffer', HEADER_SIZE, io_offset')]
    <3>1. phase' = "EXECUTING" /\ taken' = Append(taken, m) /\ HEADER_SIZE <= io_offset'
      BY <1>1, <2>3, Sizes DEF MessageComplete, Complete
    <3>2. taken' # << >> /\ taken'[Len(taken')] = m
      BY <3>1, Types DEF ServerTypes
    <3> QED
      BY <3>1, <3>2 DEF BufferInv
  <2> QED BY <1>1, <2>1, <2>2, <2>3
<1> QED
  BY <1>2, <1>5, <1>6

LEMMA ClearTypes ==
  ASSUME ClearIoBuffer
  PROVE  /\ io_buffer' \in Buffer /\ io_offset' = 0 /\ have_header' = FALSE
         /\ io_offset' \in 0 .. IO_BUFFER_SIZE
BY Sizes DEF ClearIoBuffer, ClearBuffer, Buffer

LEMMA ProcessTypes ==
  ASSUME TypeOK, BufferInv, ProcessClientMessage
  PROVE  WireTypes' /\ ServerTypes' /\ BufferInv'
<1>1. UNCHANGED <<sent, stream, back, hung_up, nodename, secret, taken, plugin>>
  BY DEF ProcessClientMessage, wireVars
<1>2. WireTypes'
  BY <1>1, Types DEF WireTypes
<1>3. CASE /\ ClearIoBuffer /\ header' = [msg_type |-> ECHO_REPLY, data_length |-> HEADER_SIZE]
           /\ phase' = "SEND" /\ next_phase' = "RECV" /\ UNCHANGED <<field_offset, fields>>
  <2>1. header' \in Header /\ header'.data_length = HEADER_SIZE
    BY <1>3, RequestAssumption, Sizes DEF Header
  <2>2. /\ io_buffer' \in Buffer /\ io_offset' = 0 /\ have_header' = FALSE
        /\ io_offset' \in 0 .. IO_BUFFER_SIZE /\ ServerTypes
    BY <1>3, ClearTypes, Types
  <2>3. ServerTypes'
    BY <1>1, <1>3, <2>1, <2>2 DEF ServerTypes
  <2>4. BufferInv'
    BY <1>3, <2>1, <2>2, Sizes DEF BufferInv
  <2> QED
    BY <1>2, <2>3, <2>4
<1>4. CASE /\ header.msg_type \in FenceType
           /\ phase' = "PARSE" /\ field_offset' = HEADER_SIZE /\ fields' = << >>
           /\ UNCHANGED <<next_phase, bufferVars>>
  <2>1. phase = "EXECUTING" /\ UNCHANGED <<io_buffer, io_offset, have_header, header>>
    BY <1>4 DEF ProcessClientMessage, bufferVars
  <2>2. field_offset' \in HEADER_SIZE .. io_offset /\ field_offset' \in 0 .. IO_BUFFER_SIZE
    BY <1>4, <2>1, Sizes DEF BufferInv, TypeOK
  <2>3. << >> \in Seq(Text)
    OBVIOUS
  <2> QED
    BY <1>1, <1>2, <1>4, <2>1, <2>2, <2>3, Types DEF ServerTypes, BufferInv
<1>5. CASE phase' = "CLOSED" /\ UNCHANGED <<next_phase, bufferVars, field_offset, fields>>
  BY <1>1, <1>2, <1>5, Types DEF ServerTypes, BufferInv, bufferVars
<1> QED
  BY <1>3, <1>4, <1>5 DEF ProcessClientMessage

LEMMA ReadFieldTypes ==
  ASSUME TypeOK, BufferInv, ReadField
  PROVE  WireTypes' /\ ServerTypes' /\ BufferInv'
<1> DEFINE text == Field(io_buffer, field_offset)
<1>1. /\ UNCHANGED <<sent, stream, back, hung_up, next_phase, io_buffer, io_offset, have_header,
                     header, taken, plugin>>
      /\ phase = "PARSE"
  BY DEF ReadField, wireVars, bufferVars
<1>2. WireTypes'
  BY <1>1, Types DEF WireTypes
<1>3. CASE phase' = "CLOSED" /\ UNCHANGED <<field_offset, nodename, secret, fields>>
  BY <1>1, <1>2, <1>3, Types DEF ServerTypes, BufferInv
<1>4. CASE HaveField(io_buffer, io_offset, field_offset) /\ HasSplit(text)
  <2>1. /\ io_buffer \in Buffer /\ io_offset \in 0 .. IO_BUFFER_SIZE /\ field_offset \in Nat
        /\ field_offset \in HEADER_SIZE .. io_offset
    BY <1>1, Sizes DEF TypeOK, BufferInv
  <2>2. /\ text \in Text /\ Len(text) \in Nat /\ field_offset + 2 + Len(text) <= io_offset
    BY <1>4, <2>1, FieldWithin
  <2>3. ValueOf(text) \in Text
    BY <1>4, <2>2, SplitsAtFirst
  <2>4. /\ field_offset' = field_offset + 2 + Len(text) /\ fields' = Append(fields, text)
        /\ phase' \in {"PARSE", "LOST"}
        /\ nodename' \in {nodename, ValueOf(text)}
        /\ nodename' = nodename \/ Len(nodename') <= NODENAME_SIZE
        /\ secret' \in {secret, ValueOf(text)}
        /\ secret' = secret \/ Len(secret') <= MAX_SECRET_LENGTH
    BY <1>4 DEF ReadField
  <2> HIDE DEF text
  <2>5. /\ field_offset' \in HEADER_SIZE .. io_offset /\ field_offset' \in 0 .. IO_BUFFER_SIZE
    BY <2>1, <2>2, <2>4, Sizes
  <2>6. fields' \in Seq(Text)
    BY <2>2, <2>4, Types DEF ServerTypes
  <2>7. /\ nodename' \in Text /\ Len(nodename') <= NODENAME_SIZE
        /\ secret' \in Text /\ Len(secret') <= MAX_SECRET_LENGTH
    BY <2>3, <2>4, Types DEF ServerTypes
  <2>8. ServerTypes'
    BY <1>1, <2>4, <2>5, <2>6, <2>7, Types DEF ServerTypes
  <2> QED
    BY <1>1, <1>2, <2>4, <2>5, <2>8 DEF BufferInv
<1> QED
  BY <1>3, <1>4 DEF ReadField

LEMMA FenceTypes ==
  ASSUME TypeOK, BufferInv, FenceAction
  PROVE  WireTypes' /\ ServerTypes' /\ BufferInv'
<1>1. /\ UNCHANGED <<sent, stream, back, hung_up, field_offset, nodename, secret, fields, taken>>
      /\ phase = "PARSE"
  BY DEF FenceAction, wireVars
<1>2. WireTypes'
  BY <1>1, Types DEF WireTypes
<1>3. /\ io_buffer' \in Buffer /\ io_offset' = 0 /\ have_header' = FALSE
      /\ io_offset' \in 0 .. IO_BUFFER_SIZE /\ ServerTypes
  BY ClearTypes, Types DEF FenceAction
<1>4. CASE phase' = "CLOSED" /\ header' = ClearHeader /\ UNCHANGED <<next_phase, plugin>>
  <2>1. ClearHeader \in Header
    BY Sizes, FormatAssumption DEF ClearHeader, Header, Uint16
  <2>2. ServerTypes'
    BY <1>1, <1>3, <1>4, <2>1 DEF ServerTypes
  <2>3. BufferInv'
    BY <1>4 DEF BufferInv
  <2> QED
    BY <1>2, <2>2, <2>3
<1>5. ASSUME NEW success \in BOOLEAN,
             plugin' = [op |-> header.msg_type, node |-> nodename, secret |-> secret,
                        success |-> success],
             header' = [msg_type |-> VerdictType(success), data_length |-> HEADER_SIZE],
             phase' = "SEND", next_phase' = "CANCELED"
      PROVE  ServerTypes' /\ BufferInv'
  <2>1. header' \in Header /\ header'.data_length = HEADER_SIZE
    BY <1>5, RequestAssumption, Sizes DEF Header, VerdictType
  <2>2. plugin' \in [op : FenceType, node : Text, secret : Text, success : BOOLEAN]
    BY <1>1, <1>5, Types DEF ServerTypes, BufferInv
  <2>3. ServerTypes'
    BY <1>1, <1>3, <1>5, <2>1, <2>2 DEF ServerTypes
  <2>4. BufferInv'
    BY <1>3, <1>5, <2>1, Sizes DEF BufferInv
  <2> QED
    BY <2>3, <2>4
<1> QED
  BY <1>2, <1>4, <1>5 DEF FenceAction

\* A part of the reply goes out: the next bytes of the header.
LEMMA Sends ==
  ASSUME TypeOK, BufferInv, NEW n \in 1 .. IO_BUFFER_SIZE, SendMessage(n)
  PROVE  /\ phase = "SEND" /\ ~hung_up /\ io_offset \in Nat /\ io_offset + n <= 4
         /\ Outgoing \in Buffer
         /\ \A i \in 0 .. 3 : Outgoing[i] = HeaderBytes(header)[i + 1]
         /\ back' \in Text /\ Len(back') = Len(back) + n
         /\ \A i \in 1 .. Len(back) : back'[i] = back[i]
         /\ \A i \in 1 .. n : back'[Len(back) + i] = HeaderBytes(header)[io_offset + i]
<1>1. /\ phase = "SEND" /\ ~hung_up /\ io_offset \in Nat /\ io_offset + n <= 4 /\ n \in Nat
      /\ back \in Text /\ io_buffer \in Buffer /\ header \in Header
  <2>1. /\ phase = "SEND" /\ ~hung_up /\ n <= header.data_length - io_offset
    BY DEF SendMessage
  <2>2. header.data_length = 4 /\ io_offset \in Nat
    BY <2>1, Sizes DEF BufferInv, TypeOK
  <2> QED BY <2>1, <2>2, Sizes DEF TypeOK
<1>2. Outgoing \in Buffer /\ \A i \in 0 .. 3 : Outgoing[i] = HeaderBytes(header)[i + 1]
  BY <1>1, SerializeInto DEF Outgoing, BufferInv
<1> DEFINE piece == Get(Outgoing, io_offset, io_offset + n)
<1>3. /\ piece \in Text /\ Len(piece) = n
      /\ \A i \in 1 .. n : piece[i] = Outgoing[io_offset + i - 1]
  <2>1. io_offset + n \in io_offset .. IO_BUFFER_SIZE /\ (io_offset + n) - io_offset = n
    BY <1>1, Sizes
  <2> HIDE DEF Outgoing
  <2>2. /\ Get(Outgoing, io_offset, io_offset + n) \in Text
        /\ Len(Get(Outgoing, io_offset, io_offset + n)) = (io_offset + n) - io_offset
        /\ \A i \in 1 .. (io_offset + n) - io_offset :
             Get(Outgoing, io_offset, io_offset + n)[i] = Outgoing[io_offset + i - 1]
    BY <1>1, <1>2, <2>1, GetFrom
  <2> QED BY <2>1, <2>2
<1>4. back' = back \o piece
  BY DEF SendMessage
<1> HIDE DEF piece
<1>5. /\ back \o piece \in Text /\ Len(back \o piece) = Len(back) + Len(piece)
      /\ \A i \in 1 .. Len(back) : (back \o piece)[i] = back[i]
      /\ \A i \in 1 .. Len(piece) : (back \o piece)[Len(back) + i] = piece[i]
  BY <1>1, <1>3, Joined
<1>6. \A i \in 1 .. n : piece[i] = HeaderBytes(header)[io_offset + i]
  <2> TAKE i \in 1 .. n
  <2>1. io_offset + i - 1 \in 0 .. 3 /\ (io_offset + i - 1) + 1 = io_offset + i
    BY <1>1
  <2> QED BY <1>2, <1>3, <2>1
<1> QED
  BY <1>1, <1>2, <1>3, <1>4, <1>5, <1>6

LEMMA SendTypes ==
  ASSUME TypeOK, BufferInv, NEW n \in 1 .. IO_BUFFER_SIZE, SendMessage(n)
  PROVE  WireTypes' /\ ServerTypes' /\ BufferInv'
<1>1. /\ UNCHANGED <<sent, stream, hung_up, header, field_offset, nodename, secret, fields,
                     taken, plugin>>
      /\ phase = "SEND" /\ header.data_length = 4 /\ io_offset \in Nat /\ ServerTypes
  BY Types, Sizes DEF SendMessage, BufferInv, TypeOK
<1>2. WireTypes'
  BY <1>1, Sends, Types DEF WireTypes
<1>3. CASE /\ io_offset + n < header.data_length
           /\ io_buffer' = Outgoing /\ have_header' = TRUE /\ io_offset' = io_offset + n
           /\ UNCHANGED <<phase, next_phase>>
  <2>1. io_offset' \in 0 .. IO_BUFFER_SIZE /\ io_offset' < 4
    BY <1>1, <1>3, Sizes
  <2>2. io_buffer' \in Buffer /\ \A i \in 0 .. 3 : io_buffer'[i] = HeaderBytes(header)[i + 1]
    BY <1>3, Sends
  <2>3. HeaderBytes(header)' = HeaderBytes(header)
    BY <1>1 DEF HeaderBytes
  <2>4. ServerTypes'
    BY <1>1, <1>3, <2>1, <2>2 DEF ServerTypes
  <2>5. BufferInv'
    BY <1>1, <1>3, <2>1, <2>2, <2>3, Sizes DEF BufferInv
  <2> QED BY <1>2, <2>4, <2>5
<1>4. CASE ClearIoBuffer /\ phase' = "RECV" /\ next_phase' = "PENDING"
  <2>1. ServerTypes'
    BY <1>1, <1>4, ClearTypes DEF ServerTypes
  <2>2. BufferInv'
    BY <1>4, ClearTypes, Sizes DEF BufferInv
  <2> QED BY <1>2, <2>1, <2>2
<1>5. CASE phase' = "CLOSED" /\ UNCHANGED <<next_phase, io_buffer, io_offset, have_header>>
  BY <1>1, <1>2, <1>5 DEF ServerTypes, BufferInv
<1> QED
  BY <1>3, <1>4, <1>5 DEF SendMessage

LEMMA CloseTypes ==
  ASSUME TypeOK, BufferInv, CloseConnection
  PROVE  WireTypes' /\ ServerTypes' /\ BufferInv'
<1>1. /\ WireTypes /\ ServerTypes /\ phase' \in {"CLOSED", "KILLED"}
      /\ UNCHANGED <<wireVars, next_phase, bufferVars, field_offset, nodename, secret,
                     fields, taken, plugin>>
  BY Types DEF CloseConnection
<1> QED
  BY <1>1 DEF WireTypes, ServerTypes, BufferInv, wireVars, bufferVars

-----------------------------------------------------------------------------
(***************************************************************************)
(* The types, and what recv() is asked for.                                *)
(***************************************************************************)
CoreInv == TypeOK /\ SenderInv /\ BufferInv

LEMMA InitCore == Init => CoreInv
<1> SUFFICES ASSUME Init PROVE CoreInv
  OBVIOUS
<1>1. /\ {"action", "server", "nodename", "secret"} = Keys /\ Capacity \in [Keys -> Nat]
      /\ MaxLines \in Nat /\ NODENAME_SIZE \in Nat /\ MAX_SECRET_LENGTH \in Nat
      /\ << >> \in Text /\ Len(<< >>) = 0
  BY RequestAssumption DEF Text
<1>2. SenderTypes
  <2>1. args \in [Keys -> [value : Text, present : BOOLEAN, required : BOOLEAN]]
    BY <1>1 DEF Init, Args!MarkRequired, Args!NoEntries
  <2>2. given \in [Keys -> SUBSET {l.value : l \in Lines}]
    BY DEF Init
  <2>3. lines_read \in 0 .. MaxLines
    BY <1>1 DEF Init
  <2>4. sender \in {"client", "other"} /\ cpc \in {"read", "ended"} /\ unended = FALSE
        /\ exit = "running"
    BY DEF Init
  <2> QED BY <2>1, <2>2, <2>3, <2>4 DEF SenderTypes
<1>3. WireTypes
  <2>1. sent = << >> /\ stream = << >> /\ back = << >> /\ hung_up = FALSE
    BY DEF Init
  <2>2. << >> \in Seq(Message)
    OBVIOUS
  <2> QED BY <1>1, <2>1, <2>2 DEF WireTypes
<1>4. ServerTypes
  <2>1. ClearHeader \in Header
    BY Sizes, FormatAssumption DEF ClearHeader, Header, Uint16
  <2>2. ClearBuffer \in Buffer /\ 0 \in 0 .. IO_BUFFER_SIZE
    BY Sizes DEF ClearBuffer, Buffer
  <2>3. << >> \in Seq(Text) /\ << >> \in Seq([msg_type : Uint16, body : Text])
    OBVIOUS
  <2>4. /\ phase = "RECV" /\ next_phase = "PENDING" /\ io_buffer = ClearBuffer
        /\ io_offset = 0 /\ have_header = FALSE /\ header = ClearHeader /\ field_offset = 0
        /\ nodename = << >> /\ secret = << >> /\ fields = << >> /\ taken = << >>
        /\ plugin = NoCall
    BY DEF Init
  <2>5. /\ nodename \in Text /\ Len(nodename) <= NODENAME_SIZE
        /\ secret \in Text /\ Len(secret) <= MAX_SECRET_LENGTH
    BY <1>1, <2>4
  <2>6. /\ io_buffer \in Buffer /\ io_offset \in 0 .. IO_BUFFER_SIZE /\ have_header \in BOOLEAN
        /\ header \in Header /\ field_offset \in 0 .. IO_BUFFER_SIZE
        /\ fields \in Seq(Text) /\ taken \in Seq([msg_type : Uint16, body : Text])
    BY <2>1, <2>2, <2>3, <2>4
  <2> QED BY <2>4, <2>5, <2>6, Zenon DEF ServerTypes
<1>5. SenderInv
  <2>1. \A k \in Keys : /\ ~args[k].present /\ args[k].value = << >> /\ given[k] = {}
                        /\ Capacity[k] \in Nat
    BY <1>1 DEF Init, Args!MarkRequired, Args!NoEntries
  <2>2. ArgsMatch
    <3> USE DEF ArgsMatch
    <3> TAKE k \in Keys
    <3>1. Len(args[k].value) = 0 /\ Len(args[k].value) <= Capacity[k]
      BY <1>1, <2>1
    <3> QED BY <2>1, <3>1
  <2>3. sent = << >> /\ exit = "running" /\ cpc = IF sender = "client" THEN "read" ELSE "ended"
    BY DEF Init
  <2> QED BY <2>2, <2>3 DEF SenderInv
<1>6. BufferInv
  BY Sizes DEF Init, BufferInv
<1> QED
  BY <1>2, <1>3, <1>4, <1>5, <1>6, Types DEF CoreInv

LEMMA ServerStays ==
  ASSUME Server
  PROVE  UNCHANGED <<senderVars, sent>>
BY DEF Server, ReceiveMessage, SendMessage, CloseConnection, ProcessClientMessage, ReadField,
       FenceAction, wireVars

LEMMA SenderStays ==
  ASSUME Client \/ OtherHangsUp \/ \E m \in OtherMessages : OtherSends(m)
  PROVE  UNCHANGED serverVars
BY DEF Client, ReadLine, EndOfInput, Dispatch, SendRequest, ReceiveReply, OtherHangsUp,
       OtherSends

LEMMA SameServer ==
  ASSUME ServerTypes, BufferInv, UNCHANGED serverVars
  PROVE  ServerTypes' /\ BufferInv'
<1>1. UNCHANGED <<phase, next_phase, io_buffer, io_offset, have_header, header, field_offset,
                  nodename, secret, fields, taken, plugin>>
  BY DEF serverVars, bufferVars
<1>2. ServerTypes'
  BY <1>1 DEF ServerTypes
<1>3. BufferInv'
  BY <1>1 DEF BufferInv, HeaderBytes
<1> QED
  BY <1>2, <1>3

LEMMA SameSender ==
  ASSUME SenderTypes, SenderInv, UNCHANGED <<senderVars, sent>>
  PROVE  SenderTypes' /\ SenderInv'
<1>1. UNCHANGED <<sender, cpc, args, exit, lines_read, given, unended, sent>>
  BY DEF senderVars
<1>2. SenderTypes'
  BY <1>1 DEF SenderTypes
<1>3. ArgsMatch' = ArgsMatch /\ Sendable' = Sendable
  BY <1>1 DEF Sendable, ArgsMatch, Action, Args!Value
<1>4. SenderInv'
  BY <1>1, <1>3 DEF SenderInv
<1> QED
  BY <1>2, <1>4

LEMMA TypesNext == SenderTypes' /\ WireTypes' /\ ServerTypes' => TypeOK'
BY DEF TypeOK, SenderTypes, WireTypes, ServerTypes

LEMMA NextCore ==
  ASSUME CoreInv, [Next]_vars
  PROVE  CoreInv'
<1>0. SenderTypes /\ WireTypes /\ ServerTypes /\ SenderInv /\ BufferInv /\ TypeOK
  BY Types DEF CoreInv
<1>1. CASE Client \/ OtherHangsUp \/ \E m \in OtherMessages : OtherSends(m)
  <2>1. SenderTypes' /\ WireTypes' /\ SenderInv'
    BY <1>0, <1>1, SenderSteps
  <2>2. ServerTypes' /\ BufferInv'
    BY <1>0, <1>1, SenderStays, SameServer
  <2> QED BY <2>1, <2>2, TypesNext DEF CoreInv
<1>2. CASE Server
  <2>1. WireTypes' /\ ServerTypes' /\ BufferInv'
    BY <1>0, <1>2, ReceiveTypes, SendTypes, CloseTypes, ProcessTypes, ReadFieldTypes,
       FenceTypes DEF Server
  <2>2. SenderTypes' /\ SenderInv'
    BY <1>0, <1>2, ServerStays, SameSender
  <2> QED BY <2>1, <2>2, TypesNext DEF CoreInv
<1>3. CASE UNCHANGED vars
  <2>1. SenderTypes' /\ SenderInv' /\ ServerTypes' /\ BufferInv'
    BY <1>0, <1>3, SameSender, SameServer DEF vars, wireVars
  <2>2. WireTypes'
    BY <1>0, <1>3 DEF vars, wireVars, WireTypes
  <2> QED BY <2>1, <2>2, TypesNext DEF CoreInv
<1> QED
  BY <1>1, <1>2, <1>3 DEF Next

LEMMA CoreHolds == Spec => []CoreInv
BY InitCore, NextCore, PTL DEF Spec

\* Every variable keeps a value of its type: bytes stay bytes, and the two numbers of
\* the header 16 bits wide, from the client's write_field to the server's read_field
\* (MsgHeader.h, Shared.cpp:20-121).
THEOREM RequestTypes == Spec => []TypeOK
BY CoreHolds, PTL DEF CoreInv

LEMMA CoreReads == CoreInv => ReadsWithinBuffer
<1> SUFFICES ASSUME CoreInv, phase = "RECV"
             PROVE  1 <= ReadSize /\ io_offset + ReadSize <= IO_BUFFER_SIZE
  BY DEF ReadsWithinBuffer
<1>1. /\ io_offset \in Nat /\ header.data_length \in Nat /\ have_header \in BOOLEAN
  <2>1. header \in Header /\ io_offset \in 0 .. IO_BUFFER_SIZE /\ have_header \in BOOLEAN
    BY DEF CoreInv, TypeOK
  <2>2. header.data_length \in Uint16
    BY <2>1 DEF Header
  <2>3. io_offset \in Nat
    BY <2>1, Sizes
  <2>4. header.data_length \in Nat
    BY <2>2, Sizes
  <2> QED BY <2>1, <2>3, <2>4
<1>2. CASE have_header
  BY <1>1, <1>2, Sizes DEF CoreInv, BufferInv, ReadSize
<1>3. CASE ~have_header
  BY <1>1, <1>3, Sizes DEF CoreInv, BufferInv, ReadSize
<1> QED
  BY <1>1, <1>2, <1>3

\* recv() is asked for at least one byte and for no more than the buffer has room for,
\* whatever lengths the peer has sent (ServerConnector.cpp:371-379, 395-398).
THEOREM ReadsFit == Spec => []ReadsWithinBuffer
BY CoreHolds, CoreReads, PTL

-----------------------------------------------------------------------------
(***************************************************************************)
(* The stream.  A text holds the messages of a sequence from one of them   *)
(* on, if it can be cut into them: c[j] is where the j-th one ends.        *)
(***************************************************************************)
Cuts(c, text, ms, n) ==
  /\ c[n] = 0 /\ c[Len(ms)] = Len(text)
  /\ \A j, k \in n .. Len(ms) : j <= k => c[j] <= c[k]
  /\ \A j \in n + 1 .. Len(ms) :
       /\ c[j] = c[j - 1] + Size(ms[j])
       /\ \A i \in 1 .. Size(ms[j]) : text[c[j - 1] + i] = Bytes(ms[j])[i]

HoldsAfter(text, ms, n) == \E c \in [Nat -> Int] : Cuts(c, text, ms, n)

LEMMA Between ==
  ASSUME NEW a \in Int, NEW b \in Int, NEW z \in Nat, NEW l \in Nat, NEW i \in 1 .. z,
         0 <= a, b = a + z, b <= l
  PROVE  a + i \in 1 .. l
OBVIOUS

LEMMA Shifted ==
  ASSUME NEW a \in Int, NEW b \in Int, NEW z \in Nat, NEW y \in Nat, NEW l \in Nat,
         NEW r \in Nat, NEW i \in 1 .. z, y <= a, b = a + z, b <= l, r = l - y
  PROVE  (a - y) + i \in 1 .. r /\ y + ((a - y) + i) = a + i
OBVIOUS

\* A message is put behind the others.
LEMMA OneMore ==
  ASSUME NEW text \in Text, NEW ms \in Seq(Message), NEW n \in 0 .. Len(ms),
         HoldsAfter(text, ms, n), NEW m \in Message
  PROVE  HoldsAfter(text \o Bytes(m), Append(ms, m), n)
<1> DEFINE s == Len(ms)
           b == Bytes(m)
           z == Size(m)
           ext == text \o b
           ns == Append(ms, m)
           Len0 == Len(text)
<1>1. PICK c \in [Nat -> Int] : Cuts(c, text, ms, n)
  BY DEF HoldsAfter
<1>2. /\ b \in Text /\ Len(b) = z /\ z \in Nat /\ Len0 \in Nat
      /\ s \in Nat /\ n \in Nat /\ n <= s
      /\ Len(ns) = s + 1 /\ ns[s + 1] = m /\ \A j \in 1 .. s : ns[j] = ms[j]
  BY BytesOf DEF Text
<1>3. /\ Len(ext) = Len0 + z
      /\ \A i \in 1 .. Len0 : ext[i] = text[i]
      /\ \A i \in 1 .. z : ext[Len0 + i] = b[i]
  <2>1. b \in Text /\ Len(b) = z
    BY <1>2
  <2> HIDE DEF b, z
  <2> QED BY <2>1, Joined
<1> DEFINE d == [c EXCEPT ![s + 1] = Len0 + z]
<1>4. d \in [Nat -> Int] /\ d[s + 1] = Len0 + z /\ \A j \in Nat : j # s + 1 => d[j] = c[j]
  BY <1>2
<1>5. /\ c[n] = 0 /\ c[s] = Len0 /\ \A j, k \in n .. s : j <= k => c[j] <= c[k]
      /\ \A j \in n + 1 .. s : /\ c[j] = c[j - 1] + Size(ms[j])
                               /\ \A i \in 1 .. Size(ms[j]) : text[c[j - 1] + i] = Bytes(ms[j])[i]
  BY <1>1 DEF Cuts
<1> HIDE DEF d, ext, ns, b, z, Len0
<1>6. \A j, k \in n .. s + 1 : j <= k => d[j] <= d[k]
  <2> SUFFICES ASSUME NEW j \in n .. s + 1, NEW k \in n .. s + 1, j <= k
               PROVE  d[j] <= d[k]
    OBVIOUS
  <2>0. j \in Nat /\ k \in Nat /\ s \in n .. s
    BY <1>2
  <2>1. CASE k <= s
    <3>1. j \in n .. s /\ k \in n .. s /\ j # s + 1 /\ k # s + 1
      BY <1>2, <2>0, <2>1
    <3>2. c[j] <= c[k] /\ d[j] = c[j] /\ d[k] = c[k]
      BY <1>4, <1>5, <2>0, <3>1
    <3> QED BY <3>2
  <2>2. CASE k = s + 1 /\ j <= s
    <3>1. j \in n .. s /\ j # s + 1 /\ j <= s
      BY <1>2, <2>0, <2>2
    <3>2. c[j] <= c[s] /\ d[j] = c[j]
      BY <1>4, <1>5, <2>0, <3>1
    <3>3. c[j] \in Int
      BY <2>0
    <3>4. d[k] = Len0 + z
      BY <1>4, <2>2
    <3>5. d[j] <= Len0
      BY <1>5, <3>2
    <3> QED BY <1>2, <3>2, <3>3, <3>4, <3>5
  <2>3. CASE k = s + 1 /\ j = s + 1
    BY <1>2, <1>4, <2>3
  <2> QED BY <1>2, <2>1, <2>2, <2>3
<1>7. ASSUME NEW j \in n + 1 .. s + 1
      PROVE  /\ d[j] = d[j - 1] + Size(ns[j])
             /\ \A i \in 1 .. Size(ns[j]) : ext[d[j - 1] + i] = Bytes(ns[j])[i]
  <2>1. CASE j <= s
    <3>0. /\ j \in n + 1 .. s /\ j \in 1 .. s /\ j - 1 \in n .. s /\ j \in n .. s
          /\ j \in Nat /\ j - 1 \in Nat /\ j # s + 1 /\ j - 1 # s + 1
          /\ n \in n .. s /\ s \in n .. s /\ n <= j - 1 /\ j <= s
      BY <1>2, <2>1
    <3>1. /\ d[j] = c[j] /\ d[j - 1] = c[j - 1] /\ ns[j] = ms[j] /\ ms[j] \in Message
          /\ c[j] \in Int /\ c[j - 1] \in Int
      <4>1. d[j] = c[j] /\ d[j - 1] = c[j - 1]
        BY <1>4, <3>0
      <4>2. ns[j] = ms[j] /\ ms[j] \in Message
        BY <1>2, <3>0
      <4>3. c[j] \in Int /\ c[j - 1] \in Int
        BY <3>0
      <4> QED BY <4>1, <4>2, <4>3
    <3>2. Size(ms[j]) \in Nat
      BY <3>1, BytesOf
    <3>3. 0 <= c[j - 1] /\ c[j] <= Len0
      <4>1. c[n] <= c[j - 1] /\ c[j] <= c[s]
        BY <1>5, <3>0
      <4> QED BY <1>5, <4>1
    <3>4. ASSUME NEW i \in 1 .. Size(ms[j])
          PROVE  c[j - 1] + i \in 1 .. Len0
      <4>1. c[j] = c[j - 1] + Size(ms[j])
        BY <1>5, <3>0
      <4> QED BY <1>2, <3>1, <3>2, <3>3, <4>1, Between
    <3>5. /\ c[j] = c[j - 1] + Size(ms[j])
          /\ \A i \in 1 .. Size(ms[j]) : text[c[j - 1] + i] = Bytes(ms[j])[i]
      BY <1>5, <3>0
    <3>6. d[j] = d[j - 1] + Size(ns[j])
      BY <3>1, <3>5
    <3>7. ASSUME NEW i \in 1 .. Size(ns[j])
          PROVE  ext[d[j - 1] + i] = Bytes(ns[j])[i]
      <4>1. i \in 1 .. Size(ms[j])
        BY <3>1
      <4>2. ext[c[j - 1] + i] = text[c[j - 1] + i]
        BY <1>3, <3>4, <4>1
      <4> QED BY <3>1, <3>5, <4>1, <4>2
    <3> QED BY <3>6, <3>7
  <2>2. CASE j = s + 1
    <3>1. j - 1 = s /\ d[j - 1] = Len0 /\ d[j] = Len0 + z /\ ns[j] = m
      BY <1>2, <1>4, <1>5, <2>2
    <3> QED BY <1>3, <3>1 DEF z, b
  <2> QED BY <1>2, <2>1, <2>2
<1>8. d[n] = 0 /\ d[Len(ns)] = Len(ext)
  BY <1>2, <1>3, <1>4, <1>5
<1>9. Cuts(d, ext, ns, n)
  BY <1>2, <1>6, <1>7, <1>8 DEF Cuts
<1> QED
  BY <1>4, <1>9 DEF HoldsAfter, ext, ns, b

\* The text begins with the first of its messages.
LEMMA FirstMessage ==
  ASSUME NEW text \in Text, NEW ms \in Seq(Message), NEW n \in Nat, n < Len(ms),
         HoldsAfter(text, ms, n)
  PROVE  /\ ms[n + 1] \in Message /\ Size(ms[n + 1]) \in 4 .. Len(text)
         /\ \A i \in 1 .. Size(ms[n + 1]) : text[i] = Bytes(ms[n + 1])[i]
<1>1. PICK c \in [Nat -> Int] : Cuts(c, text, ms, n)
  BY DEF HoldsAfter
<1>2. Len(ms) \in Nat /\ ms[n + 1] \in Message /\ Len(text) \in Nat
  BY DEF Text
<1>3. Size(ms[n + 1]) \in Nat /\ Size(ms[n + 1]) >= 4
  BY <1>2, BytesOf
<1>4. /\ c[n] = 0 /\ c[n + 1] <= c[Len(ms)] /\ c[Len(ms)] = Len(text)
      /\ c[n + 1] = c[n] + Size(ms[n + 1])
      /\ \A i \in 1 .. Size(ms[n + 1]) : text[c[n] + i] = Bytes(ms[n + 1])[i]
  <2>1. n + 1 \in n + 1 .. Len(ms) /\ (n + 1) - 1 = n /\ n + 1 \in n .. Len(ms)
        /\ Len(ms) \in n .. Len(ms)
    BY <1>2
  <2>2. /\ c[n] = 0 /\ c[Len(ms)] = Len(text)
        /\ \A j, k \in n .. Len(ms) : j <= k => c[j] <= c[k]
        /\ \A j \in n + 1 .. Len(ms) :
             /\ c[j] = c[j - 1] + Size(ms[j])
             /\ \A i \in 1 .. Size(ms[j]) : text[c[j - 1] + i] = Bytes(ms[j])[i]
    BY <1>1 DEF Cuts
  <2>3. c[n + 1] <= c[Len(ms)]
    <3>1. n + 1 <= Len(ms)
      BY <1>2
    <3> QED BY <2>1, <2>2, <3>1, Zenon
  <2>4. /\ c[n + 1] = c[n] + Size(ms[n + 1])
        /\ \A i \in 1 .. Size(ms[n + 1]) : text[c[n] + i] = Bytes(ms[n + 1])[i]
    <3> HIDE DEF Cuts
    <3> QED BY <2>1, <2>2
  <2> QED BY <2>2, <2>3, <2>4
<1> QED
  BY <1>2, <1>3, <1>4

\* Without its first message it holds the rest.
LEMMA OneLess ==
  ASSUME NEW text \in Text, NEW ms \in Seq(Message), NEW n \in Nat, n < Len(ms),
         HoldsAfter(text, ms, n), NEW rest \in Text,
         Len(rest) = Len(text) - Size(ms[n + 1]),
         \A i \in 1 .. Len(rest) : rest[i] = text[Size(ms[n + 1]) + i]
  PROVE  HoldsAfter(rest, ms, n + 1)
<1>1. PICK c \in [Nat -> Int] : Cuts(c, text, ms, n)
  BY DEF HoldsAfter
<1> DEFINE s == Len(ms)
           z == Size(ms[n + 1])
           d == [j \in Nat |-> c[j] - z]
<1>2. s \in Nat /\ Len(text) \in Nat /\ Len(rest) \in Nat /\ z \in Nat
  BY FirstMessage DEF Text
<1>3. /\ c[n] = 0 /\ c[s] = Len(text) /\ \A j, k \in n .. s : j <= k => c[j] <= c[k]
      /\ \A j \in n + 1 .. s : /\ c[j] = c[j - 1] + Size(ms[j])
                               /\ \A i \in 1 .. Size(ms[j]) : text[c[j - 1] + i] = Bytes(ms[j])[i]
  BY <1>1 DEF Cuts
<1>4. c[n + 1] = z
  <2>1. n + 1 \in n + 1 .. s /\ (n + 1) - 1 = n
    BY <1>2
  <2>2. c[n + 1] = c[(n + 1) - 1] + Size(ms[n + 1])
    BY <1>3, <2>1, Zenon
  <2>3. c[(n + 1) - 1] = 0
    BY <1>3, <2>1
  <2> HIDE DEF s
  <2> QED BY <1>2, <2>2, <2>3
<1> HIDE DEF z
<1>5. d \in [Nat -> Int] /\ \A j \in Nat : d[j] = c[j] - z /\ c[j] \in Int
  BY <1>2
<1> HIDE DEF d
<1>6. d[n + 1] = 0 /\ d[s] = Len(rest) /\ \A j, k \in n + 1 .. s : j <= k => d[j] <= d[k]
  <2>1. d[n + 1] = 0 /\ d[s] = Len(rest)
    BY <1>2, <1>3, <1>4, <1>5 DEF z
  <2>2. ASSUME NEW j \in n + 1 .. s, NEW k \in n + 1 .. s, j <= k
        PROVE  d[j] <= d[k]
    <3>1. j \in Nat /\ k \in Nat /\ j \in n .. s /\ k \in n .. s
      BY <1>2
    <3>2. c[j] <= c[k]
      BY <1>3, <2>2, <3>1
    <3> QED BY <1>2, <1>5, <3>1, <3>2
  <2> QED BY <2>1, <2>2
<1>7. ASSUME NEW j \in (n + 1) + 1 .. s
      PROVE  /\ d[j] = d[j - 1] + Size(ms[j])
             /\ \A i \in 1 .. Size(ms[j]) : rest[d[j - 1] + i] = Bytes(ms[j])[i]
  <2>1. /\ j \in Nat /\ j - 1 \in Nat /\ j \in n + 1 .. s /\ j \in n .. s /\ j - 1 \in n .. s
        /\ n + 1 \in n .. s /\ s \in n .. s /\ n + 1 <= j - 1 /\ j <= s /\ ms[j] \in Message
    BY <1>2
  <2>2. Size(ms[j]) \in Nat
    BY <2>1, BytesOf
  <2>3. /\ c[j] = c[j - 1] + Size(ms[j]) /\ z <= c[j - 1] /\ c[j] <= Len(text)
        /\ \A i \in 1 .. Size(ms[j]) : text[c[j - 1] + i] = Bytes(ms[j])[i]
    BY <1>3, <1>4, <2>1
  <2>4. ASSUME NEW i \in 1 .. Size(ms[j])
        PROVE  rest[d[j - 1] + i] = text[c[j - 1] + i]
    <3>1. d[j - 1] + i \in 1 .. Len(rest) /\ z + (d[j - 1] + i) = c[j - 1] + i
      <4>1. Len(rest) = Len(text) - z
        BY DEF z
      <4>2. c[j] = c[j - 1] + Size(ms[j]) /\ z <= c[j - 1] /\ c[j] <= Len(text)
        BY <2>3
      <4>3. d[j - 1] = c[j - 1] - z /\ c[j - 1] \in Int /\ c[j] \in Int
        BY <1>5, <2>1
      <4>4. /\ (c[j - 1] - z) + i \in 1 .. Len(rest)
            /\ z + ((c[j - 1] - z) + i) = c[j - 1] + i
        <5> DEFINE a == c[j - 1]
                   b == c[j]
                   y == Size(ms[j])
                   l == Len(text)
                   r == Len(rest)
        <5>1. a \in Int /\ b \in Int /\ y \in Nat /\ l \in Nat /\ r \in Nat /\ z \in Nat
          BY <1>2, <2>2, <4>3
        <5>2. i \in 1 .. y /\ z <= a /\ b = a + y /\ b <= l /\ r = l - z
          BY <4>1, <4>2
        <5> HIDE DEF a, b, y, l, r
        <5>3. (a - z) + i \in 1 .. r /\ z + ((a - z) + i) = a + i
          BY <5>1, <5>2, Shifted
        <5> QED BY <5>3 DEF a, r
      <4> QED BY <4>3, <4>4
    <3>2. rest[d[j - 1] + i] = text[z + (d[j - 1] + i)]
      BY <3>1 DEF z
    <3> QED BY <3>1, <3>2
  <2>5. d[j] = d[j - 1] + Size(ms[j])
    <3>1. d[j] = c[j] - z /\ d[j - 1] = c[j - 1] - z /\ c[j - 1] \in Int /\ c[j] \in Int
      BY <1>5, <2>1
    <3>2. c[j] = c[j - 1] + Size(ms[j])
      BY <2>3
    <3>3. z \in Nat /\ Size(ms[j]) \in Nat
      BY <1>2, <2>2
    <3> QED BY <3>1, <3>2, <3>3
  <2> QED BY <2>3, <2>4, <2>5
<1>8. Cuts(d, rest, ms, n + 1)
  BY <1>6, <1>7 DEF Cuts
<1> QED
  BY <1>5, <1>8 DEF HoldsAfter

\* The bytes the server has not yet made a message of: those in its buffer, and then
\* those in the stream.
Pending == IF phase = "RECV" THEN Get(io_buffer, 0, io_offset) \o stream ELSE stream

FramedUpTo(n) == \A j \in 1 .. n : j <= Len(sent) => Framed(sent[j])

Over == phase \in {"CLOSED", "LOST", "KILLED"}

\* While the messages are framed, what is pending are those not taken.
FlowInv ==
  FramedUpTo(Len(taken)) =>
    Len(taken) <= Len(sent) /\ (Over \/ HoldsAfter(Pending, sent, Len(taken)))

StreamInv == MessagesInOrder /\ FlowInv

LEMMA InOrder ==
  MessagesInOrder <=>
    \A i \in 1 .. Len(taken) : FramedUpTo(i) =>
      /\ i <= Len(sent)
      /\ taken[i] = [msg_type |-> sent[i].msg_type, body |-> sent[i].body]
BY DEF MessagesInOrder, FramedUpTo

LEMMA PendingBytes ==
  ASSUME TypeOK
  PROVE  /\ Pending \in Text /\ stream \in Text /\ Len(stream) \in Nat /\ io_offset \in Nat
         /\ phase = "RECV" =>
              /\ Len(Pending) = io_offset + Len(stream)
              /\ \A i \in 1 .. io_offset : Pending[i] = io_buffer[i - 1]
              /\ \A i \in 1 .. Len(stream) : Pending[io_offset + i] = stream[i]
         /\ phase # "RECV" => Pending = stream
<1> DEFINE b == Get(io_buffer, 0, io_offset)
<1>1. /\ io_buffer \in Buffer /\ io_offset \in Nat /\ stream \in Text /\ Len(stream) \in Nat
      /\ io_offset \in 0 .. IO_BUFFER_SIZE
  BY Sizes DEF TypeOK, Text
<1>2. b \in Text /\ Len(b) = io_offset /\ \A i \in 1 .. io_offset : b[i] = io_buffer[i - 1]
  <2>1. /\ Get(io_buffer, 0, io_offset) \in Text
        /\ Len(Get(io_buffer, 0, io_offset)) = io_offset - 0
        /\ \A i \in 1 .. io_offset - 0 : Get(io_buffer, 0, io_offset)[i] = io_buffer[0 + i - 1]
    BY <1>1, GetFrom
  <2>2. io_offset - 0 = io_offset /\ \A i \in 1 .. io_offset : 0 + i - 1 = i - 1
    BY <1>1
  <2> QED BY <2>1, <2>2
<1>3. Pending = IF phase = "RECV" THEN b \o stream ELSE stream
  BY DEF Pending
<1> HIDE DEF b
<1>4. /\ b \o stream \in Text /\ Len(b \o stream) = Len(b) + Len(stream)
      /\ \A i \in 1 .. Len(b) : (b \o stream)[i] = b[i]
      /\ \A i \in 1 .. Len(stream) : (b \o stream)[Len(b) + i] = stream[i]
  BY <1>1, <1>2, Joined
<1> QED
  BY <1>1, <1>2, <1>3, <1>4

LEMMA InitStream == Init => StreamInv
<1> SUFFICES ASSUME Init PROVE StreamInv
  OBVIOUS
<1>1. /\ taken = << >> /\ sent = << >> /\ stream = << >> /\ io_offset = 0 /\ phase = "RECV"
      /\ Len(<< >>) = 0
  BY DEF Init
<1>2. MessagesInOrder
  BY <1>1, InOrder
<1> DEFINE c == [j \in Nat |-> 0]
<1>3. c \in [Nat -> Int] /\ c[0] = 0
  OBVIOUS
<1>4. Len(Pending) = 0
  BY <1>1, InitCore, PendingBytes DEF CoreInv
<1>5. Cuts(c, Pending, << >>, 0)
  BY <1>1, <1>3, <1>4 DEF Cuts
<1> QED
  BY <1>1, <1>2, <1>3, <1>5 DEF StreamInv, FlowInv, HoldsAfter

\* Neither the messages change nor the bytes on their way, or there is nothing more to
\* come.
LEMMA SameStream ==
  ASSUME StreamInv, UNCHANGED <<sent, taken>>, Over' \/ (~Over /\ Pending' = Pending)
  PROVE  StreamInv'
<1>1. MessagesInOrder' /\ (FramedUpTo(Len(taken)))' = FramedUpTo(Len(taken))
      /\ Len(taken)' = Len(taken) /\ Len(sent)' = Len(sent)
  BY DEF StreamInv, MessagesInOrder, FramedUpTo
<1>2. ~Over' => HoldsAfter(Pending, sent, Len(taken))' = HoldsAfter(Pending, sent, Len(taken))
  <2> SUFFICES ASSUME Pending' = Pending
               PROVE  HoldsAfter(Pending, sent, Len(taken))' = HoldsAfter(Pending, sent, Len(taken))
    OBVIOUS
  <2>1. HoldsAfter(Pending, sent, Len(taken))' = HoldsAfter(Pending', sent', Len(taken'))
    BY DEF HoldsAfter, Cuts, Size, Bytes, HeaderBytes, ToBytes
  <2> QED BY <2>1
<1> QED
  BY <1>1, <1>2 DEF StreamInv, FlowInv

LEMMA Appended ==
  ASSUME StreamInv, TypeOK, NEW m \in Message, sent' = Append(sent, m),
         stream' = stream \o Bytes(m), UNCHANGED serverVars
  PROVE  StreamInv'
<1>1. /\ UNCHANGED <<phase, io_buffer, io_offset, taken>>
      /\ sent \in Seq(Message) /\ stream \in Text /\ Len(taken) \in Nat
      /\ Bytes(m) \in Text /\ Pending \in Text
  BY BytesOf, PendingBytes DEF serverVars, bufferVars, TypeOK
<1>2. /\ Len(sent) \in Nat /\ Len(sent') = Len(sent) + 1
      /\ sent'[Len(sent) + 1] = m /\ \A j \in 1 .. Len(sent) : sent'[j] = sent[j]
  BY <1>1
<1>3. Pending' = Pending \o Bytes(m)
  <2>1. CASE phase = "RECV"
    <3>1. /\ io_buffer \in Buffer /\ 0 \in Nat /\ io_offset \in 0 .. IO_BUFFER_SIZE
      BY DEF TypeOK
    <3>2. Get(io_buffer, 0, io_offset) \in Text
      BY <3>1, GetFrom
    <3>3. (Get(io_buffer, 0, io_offset) \o stream) \o Bytes(m)
            = Get(io_buffer, 0, io_offset) \o (stream \o Bytes(m))
      BY <1>1, <3>2, Regrouped
    <3>4. Get(io_buffer, 0, io_offset)' = Get(io_buffer, 0, io_offset)
      BY <1>1 DEF Get
    <3> QED BY <1>1, <2>1, <3>3, <3>4 DEF Pending
  <2>2. CASE phase # "RECV"
    BY <1>1, <2>2 DEF Pending
  <2> QED BY <2>1, <2>2
<1>4. MessagesInOrder'
  <2> SUFFICES ASSUME NEW i \in 1 .. Len(taken),
                      \A j \in 1 .. i : j <= Len(sent') => Framed(sent'[j])
               PROVE  /\ i <= Len(sent')
                      /\ taken[i] = [msg_type |-> sent'[i].msg_type, body |-> sent'[i].body]
    BY <1>1 DEF MessagesInOrder, Framed
  <2>1. i \in Nat /\ i >= 1 /\ FramedUpTo(i)
    BY <1>2 DEF FramedUpTo
  <2>2. i <= Len(sent) /\ taken[i] = [msg_type |-> sent[i].msg_type, body |-> sent[i].body]
    BY <2>1, InOrder DEF StreamInv
  <2>3. i \in 1 .. Len(sent) /\ i <= Len(sent')
    BY <1>2, <2>1, <2>2
  <2> QED BY <1>2, <2>2, <2>3
<1>5. FlowInv'
  <2> SUFFICES ASSUME FramedUpTo(Len(taken))', ~Over'
               PROVE  Len(taken') <= Len(sent') /\ HoldsAfter(Pending', sent', Len(taken'))
    <3>1. FramedUpTo(Len(taken))' => Len(taken') <= Len(sent')
      <4>1. FramedUpTo(Len(taken))' => FramedUpTo(Len(taken))
        BY <1>1, <1>2 DEF FramedUpTo, Framed
      <4> QED BY <1>1, <1>2, <4>1 DEF StreamInv, FlowInv
    <3>2. HoldsAfter(Pending, sent, Len(taken))' = HoldsAfter(Pending', sent', Len(taken'))
      BY DEF HoldsAfter, Cuts, Size, Bytes, HeaderBytes, ToBytes
    <3> QED BY <3>1, <3>2 DEF FlowInv
  <2>1. FramedUpTo(Len(taken)) /\ ~Over
    BY <1>1, <1>2 DEF FramedUpTo, Framed, Over
  <2>2. Len(taken) \in 0 .. Len(sent) /\ HoldsAfter(Pending, sent, Len(taken))
    BY <1>1, <1>2, <2>1 DEF StreamInv, FlowInv
  <2>3. HoldsAfter(Pending \o Bytes(m), Append(sent, m), Len(taken))
    BY <1>1, <2>2, OneMore
  <2> QED BY <1>1, <1>2, <1>3, <2>2, <2>3
<1> QED
  BY <1>4, <1>5 DEF StreamInv

\* The server takes bytes from the stream: they are pending until the message that they
\* complete is taken, which is the first of those pending.
LEMMA Received ==
  ASSUME StreamInv, TypeOK, BufferInv, NEW n \in 1 .. IO_BUFFER_SIZE, ReceiveMessage(n),
         ServerTypes', WireTypes'
  PROVE  StreamInv'
<1> DEFINE t == Len(taken)
           p == Pending
           k == io_offset'
<1>1. /\ phase = "RECV" /\ ~Over /\ UNCHANGED sent /\ sent \in Seq(Message) /\ n \in Nat
      /\ t \in Nat /\ taken \in Seq([msg_type : Uint16, body : Text]) /\ Len(sent) \in Nat
      /\ k = io_offset + n /\ io_offset \in Nat /\ k \in Nat /\ k \in 0 .. IO_BUFFER_SIZE
      /\ io_buffer' \in Buffer /\ stream' \in Text /\ stream \in Text
      /\ Len(stream) \in Nat /\ Len(stream') \in Nat /\ Len(stream') = Len(stream) - n
      /\ NoHeaderYet \/ MessageParted \/ MessageComplete
  <2>1. phase = "RECV" /\ ~Over /\ UNCHANGED sent /\ sent \in Seq(Message) /\ n \in Nat
        /\ taken \in Seq([msg_type : Uint16, body : Text])
    BY Receives, Sizes DEF ReceiveMessage, Over, TypeOK
  <2>2. t \in Nat /\ Len(sent) \in Nat
    BY <2>1
  <2>3. /\ k = io_offset + n /\ io_offset \in Nat /\ io_buffer' \in Buffer
        /\ k \in 0 .. IO_BUFFER_SIZE
        /\ stream' \in Text /\ stream \in Text /\ Len(stream') = Len(stream) - n
        /\ NoHeaderYet \/ MessageParted \/ MessageComplete
    BY Receives, PendingBytes
  <2>4. k \in Nat
    BY <2>1, <2>3
  <2>5. Len(stream) \in Nat /\ Len(stream') \in Nat
    BY <2>3 DEF Text
  <2> QED BY <2>1, <2>2, <2>3, <2>4, <2>5
<1>2. /\ p \in Text /\ Len(p) = k + Len(stream') /\ Len(p) \in Nat
      /\ \A i \in 1 .. k : io_buffer'[i - 1] = p[i]
      /\ \A i \in 1 .. Len(stream') : stream'[i] = p[k + i]
  <2>1. /\ p \in Text /\ Len(p) = io_offset + Len(stream)
        /\ \A i \in 1 .. io_offset : p[i] = io_buffer[i - 1]
        /\ \A i \in 1 .. Len(stream) : p[io_offset + i] = stream[i]
    BY <1>1, PendingBytes
  <2>2. /\ \A i \in 0 .. io_offset - 1 : io_buffer'[i] = io_buffer[i]
        /\ \A i \in 1 .. n : io_buffer'[io_offset + i - 1] = stream[i]
        /\ \A i \in 1 .. Len(stream) - n : stream'[i] = stream[i + n]
        /\ n <= Len(stream)
    BY Receives
  <2>3. ASSUME NEW i \in 1 .. k
        PROVE  io_buffer'[i - 1] = p[i]
    <3>1. CASE i <= io_offset
      <4>1. i - 1 \in 0 .. io_offset - 1 /\ i \in 1 .. io_offset
        BY <1>1, <3>1
      <4> QED BY <2>1, <2>2, <4>1
    <3>2. CASE i > io_offset
      <4>1. /\ i - io_offset \in 1 .. n /\ io_offset + (i - io_offset) - 1 = i - 1
            /\ i - io_offset \in 1 .. Len(stream) /\ io_offset + (i - io_offset) = i
        BY <1>1, <2>2, <3>2
      <4> QED BY <2>1, <2>2, <4>1
    <3> QED BY <1>1, <3>1, <3>2
  <2>4. ASSUME NEW i \in 1 .. Len(stream')
        PROVE  stream'[i] = p[k + i]
    <3>1. i \in 1 .. Len(stream) - n /\ i + n \in 1 .. Len(stream)
          /\ io_offset + (i + n) = k + i
      BY <1>1
    <3> QED BY <2>1, <2>2, <3>1
  <2>5. Len(p) = k + Len(stream')
    <3>1. /\ Len(p) = io_offset + Len(stream) /\ Len(stream') = Len(stream) - n
          /\ k = io_offset + n /\ io_offset \in Nat /\ n \in Nat /\ Len(stream) \in Nat
      BY <1>1, <2>1
    <3> QED BY <3>1
  <2>6. Len(p) \in Nat
    BY <2>1 DEF Text
  <2> QED BY <2>1, <2>3, <2>4, <2>5, <2>6
<1> HIDE DEF p
<1>3. CASE NoHeaderYet \/ MessageParted
  <2>1. phase' = "RECV" /\ UNCHANGED taken
    BY <1>1, <1>3 DEF NoHeaderYet, MessageParted
  <2>2. Pending' = Get(io_buffer', 0, k) \o stream'
    BY <2>1 DEF Pending
  <2>3. /\ Get(io_buffer', 0, k) \in Text /\ Len(Get(io_buffer', 0, k)) = k
        /\ \A i \in 1 .. k : Get(io_buffer', 0, k)[i] = io_buffer'[i - 1]
    <3>1. /\ Get(io_buffer', 0, k) \in Text /\ Len(Get(io_buffer', 0, k)) = k - 0
          /\ \A i \in 1 .. k - 0 : Get(io_buffer', 0, k)[i] = io_buffer'[0 + i - 1]
      <4> DEFINE bb == io_buffer'
      <4>1. bb \in Buffer /\ 0 \in Nat /\ k \in 0 .. IO_BUFFER_SIZE
        BY <1>1
      <4> HIDE DEF bb, k
      <4>2. /\ Get(bb, 0, k) \in Text /\ Len(Get(bb, 0, k)) = k - 0
            /\ \A i \in 1 .. k - 0 : Get(bb, 0, k)[i] = bb[0 + i - 1]
        BY <4>1, GetFrom
      <4> QED BY <4>2 DEF bb
    <3>2. k - 0 = k /\ \A i \in 1 .. k : 0 + i - 1 = i - 1
      BY <1>1
    <3> QED BY <3>1, <3>2
  <2> DEFINE b == Get(io_buffer', 0, k)
             r == stream'
  <2>4. b \in Text /\ r \in Text /\ Len(b) = k /\ Len(r) = Len(stream')
        /\ (\A i \in 1 .. k : b[i] = p[i]) /\ \A i \in 1 .. Len(r) : r[i] = p[k + i]
    BY <1>1, <1>2, <2>3
  <2> HIDE DEF b, r, k
  <2>5. /\ b \o r \in Text /\ Len(b \o r) = Len(b) + Len(r) /\ Len(r) \in Nat
        /\ \A i \in 1 .. Len(b) : (b \o r)[i] = b[i]
        /\ \A i \in 1 .. Len(r) : (b \o r)[Len(b) + i] = r[i]
    BY <2>4, Joined
  <2>6. \A i \in 1 .. Len(p) : (b \o r)[i] = p[i]
    <3> TAKE i \in 1 .. Len(p)
    <3>1. k \in Nat /\ Len(p) = k + Len(r) /\ Len(p) \in Nat
      BY <1>1, <1>2, <2>4 DEF k
    <3>2. CASE i <= k
      BY <2>4, <2>5, <3>1, <3>2
    <3>3. CASE i > k
      <4>1. i - k \in 1 .. Len(r) /\ k + (i - k) = i
        BY <2>5, <3>1, <3>3
      <4>2. (b \o r)[k + (i - k)] = r[i - k] /\ r[i - k] = p[k + (i - k)]
        BY <2>4, <2>5, <4>1
      <4> QED BY <4>1, <4>2
    <3>4. i <= k \/ i > k
      BY <3>1
    <3> QED BY <3>2, <3>3, <3>4
  <2>7. b \o r = p
    <3>1. Len(b \o r) = Len(p)
      BY <1>2, <2>4, <2>5
    <3> QED BY <1>2, <2>5, <2>6, <3>1, SeqEqual DEF Text
  <2> QED BY <1>1, <2>1, <2>2, <2>7, SameStream DEF b, r, p
<1>4. CASE MessageComplete
  <2> DEFINE m == sent[t + 1]
             body == Get(io_buffer', HEADER_SIZE, io_offset')
  <2>1. /\ phase' = "EXECUTING" /\ HeaderKnown /\ k >= 4
        /\ taken' = Append(taken, [msg_type |-> header'.msg_type, body |-> body])
        /\ k = header'.data_length \/ (k = 4 /\ header'.data_length <= 4)
    BY <1>1, <1>4 DEF MessageComplete, Complete
  <2>2. /\ Len(taken') = t + 1 /\ \A i \in 1 .. t : taken'[i] = taken[i]
        /\ taken'[t + 1] = [msg_type |-> header'.msg_type, body |-> body]
    BY <1>1, <2>1
  <2>3. Pending' = stream'
    BY <2>1 DEF Pending
  <2>4. ASSUME FramedUpTo(t + 1)
        PROVE  /\ t + 1 <= Len(sent) /\ HoldsAfter(stream', sent, t + 1)
               /\ taken'[t + 1] = [msg_type |-> m.msg_type, body |-> m.body]
    <3>1. FramedUpTo(t)
      BY <1>1, <2>4 DEF FramedUpTo
    <3>2. t <= Len(sent) /\ HoldsAfter(p, sent, t)
      BY <1>1, <3>1 DEF StreamInv, FlowInv, p
    <3>3. t < Len(sent)
      <4> SUFFICES ASSUME t = Len(sent) PROVE FALSE
        BY <1>1, <3>2
      <4>1. PICK c \in [Nat -> Int] : c[t] = 0 /\ c[Len(sent)] = Len(p)
        BY <3>2 DEF HoldsAfter, Cuts
      <4> QED BY <1>1, <1>2, <2>1, <4>1
    <3>4. /\ m \in Message /\ Size(m) \in 4 .. Len(p)
          /\ \A i \in 1 .. Size(m) : p[i] = Bytes(m)[i]
      BY <1>1, <1>2, <3>2, <3>3, FirstMessage
    <3>5. Framed(m)
      BY <1>1, <2>4, <3>3 DEF FramedUpTo
    <3> HIDE DEF m
    <3>6. /\ m.msg_type \in Uint16 /\ m.data_length \in Nat /\ m.body \in Text
          /\ Len(m.body) \in Nat /\ Size(m) = 4 + Len(m.body)
          /\ m.data_length <= IO_BUFFER_SIZE
          /\ \/ Len(m.body) = m.data_length - 4
             \/ m.data_length < 4 /\ m.body = << >>
      <4>1. m.msg_type \in Uint16 /\ m.data_length \in Uint16 /\ m.body \in Text
        BY <3>4 DEF Message
      <4>2. Len(m.body) \in Nat
        BY <4>1 DEF Text
      <4>3. m.data_length \in Nat
        BY <4>1, Sizes
      <4> QED BY <3>5, <4>1, <4>2, <4>3, Sizes DEF Framed, Size
    <3> DEFINE h == [msg_type |-> m.msg_type, data_length |-> m.data_length]
    <3>7. h \in Header /\ HeaderBytes(h) = HeaderBytes(m)
      BY <3>4 DEF Message, Header, HeaderBytes
    <3>8. \A i \in 0 .. 3 : io_buffer'[i] = HeaderBytes(h)[i + 1]
      <4> TAKE i \in 0 .. 3
      <4>1. i + 1 \in 1 .. k /\ (i + 1) - 1 = i /\ i + 1 \in 1 .. Size(m) /\ i + 1 \in 1 .. 4
        BY <1>1, <2>1, <3>4, <3>6
      <4>2. Bytes(m)[i + 1] = HeaderBytes(m)[i + 1]
        BY <3>4, <4>1, BytesOf
      <4> HIDE DEF HeaderBytes
      <4> QED BY <1>2, <3>4, <3>7, <4>1, <4>2
    <3>9. Deserialize(io_buffer') = h
      <4> DEFINE bb == io_buffer'
      <4> HIDE DEF bb, h
      <4>1. \A i \in 0 .. 3 : bb[i] = HeaderBytes(h)[i + 1]
        BY <3>8 DEF bb
      <4>2. Deserialize(bb) = h
        BY <3>7, <4>1, DeserializeBytes
      <4> QED BY <4>2 DEF bb
    <3>10. header' = h
      BY <2>1, <3>6, <3>7, <3>9, ClampType DEF HeaderKnown
    <3>11. k = Size(m) /\ Len(m.body) = k - 4
      <4>1. header'.data_length = m.data_length
        BY <3>10
      <4>2. m.body = << >> => Len(m.body) = 0
        OBVIOUS
      <4> QED BY <1>1, <2>1, <3>6, <4>1, <4>2
    <3>12. body = m.body
      <4>1. /\ body \in Text /\ Len(body) = k - 4
            /\ \A i \in 1 .. k - 4 : body[i] = io_buffer'[4 + i - 1]
        <5> DEFINE bb == io_buffer'
        <5>1. bb \in Buffer /\ HEADER_SIZE \in Nat /\ k \in HEADER_SIZE .. IO_BUFFER_SIZE
              /\ body = Get(bb, HEADER_SIZE, k)
          BY <1>1, <2>1, Sizes
        <5> HIDE DEF bb, body, k
        <5>2. /\ Get(bb, HEADER_SIZE, k) \in Text /\ Len(Get(bb, HEADER_SIZE, k)) = k - HEADER_SIZE
              /\ \A i \in 1 .. k - HEADER_SIZE :
                   Get(bb, HEADER_SIZE, k)[i] = bb[HEADER_SIZE + i - 1]
          BY <5>1, GetFrom
        <5> QED BY <5>1, <5>2, Sizes DEF bb
      <4>2. ASSUME NEW i \in 1 .. k - 4
            PROVE  io_buffer'[4 + i - 1] = m.body[i]
        <5>1. /\ 4 + i \in 1 .. k /\ (4 + i) - 1 = 4 + i - 1 /\ 4 + i \in 5 .. Size(m)
              /\ (4 + i) - 4 = i /\ 4 + i \in 1 .. Size(m)
          BY <1>1, <2>1, <3>11
        <5>2. Bytes(m)[4 + i] = m.body[(4 + i) - 4]
          BY <3>4, <5>1, BytesOf
        <5>3. io_buffer'[(4 + i) - 1] = p[4 + i] /\ p[4 + i] = Bytes(m)[4 + i]
          BY <1>2, <3>4, <5>1
        <5> QED BY <5>1, <5>2, <5>3
      <4> HIDE DEF body
      <4>3. Len(body) = Len(m.body) /\ \A i \in 1 .. Len(body) : body[i] = m.body[i]
        BY <3>11, <4>1, <4>2
      <4> QED BY <3>6, <4>1, <4>3, SeqEqual DEF Text
    <3>13. HoldsAfter(stream', sent, t + 1)
      <4> DEFINE r == stream'
      <4>1. r \in Text /\ Len(r) = Len(p) - Size(m) /\ \A i \in 1 .. Len(r) : r[i] = p[Size(m) + i]
        <5>1. Len(r) = Len(p) - k /\ r \in Text
          BY <1>1, <1>2
        <5> QED BY <1>2, <3>11, <5>1
      <4> HIDE DEF r, k, p
      <4>2. HoldsAfter(r, sent, t + 1)
        BY <1>1, <1>2, <3>2, <3>3, <4>1, OneLess DEF m
      <4> QED BY <4>2 DEF r
    <3> QED BY <1>1, <2>2, <3>3, <3>10, <3>12, <3>13
  <2>5. \A j \in Nat : FramedUpTo(j)' = FramedUpTo(j)
    BY <1>1 DEF FramedUpTo, Framed
  <2>6. MessagesInOrder'
    <3> SUFFICES ASSUME NEW i \in 1 .. Len(taken'), \A j \in 1 .. i : j <= Len(sent) => Framed(sent[j])
                 PROVE  /\ i <= Len(sent)
                        /\ taken'[i] = [msg_type |-> sent[i].msg_type, body |-> sent[i].body]
      BY <1>1 DEF MessagesInOrder, Framed
    <3>1. FramedUpTo(i) /\ i \in Nat
      BY DEF FramedUpTo
    <3>2. CASE i <= t
      <4>1. i \in 1 .. t /\ taken'[i] = taken[i]
        BY <1>1, <2>2, <3>1, <3>2
      <4>2. i <= Len(sent) /\ taken[i] = [msg_type |-> sent[i].msg_type, body |-> sent[i].body]
        BY <3>1, <4>1, InOrder DEF StreamInv
      <4> QED BY <4>1, <4>2
    <3>3. CASE i = t + 1
      BY <1>1, <2>4, <3>1, <3>3
    <3> QED BY <1>1, <2>2, <3>1, <3>2, <3>3
  <2>7. FlowInv'
    <3> DEFINE tt == Len(taken')
    <3>1. FlowInv' = ((\A j \in 1 .. tt : j <= Len(sent') => Framed(sent'[j])) =>
                       tt <= Len(sent') /\ (Over' \/ HoldsAfter(Pending', sent', tt)))
      BY DEF FlowInv, FramedUpTo, HoldsAfter, Cuts, Size, Bytes, HeaderBytes, ToBytes, Framed
    <3> SUFFICES ASSUME \A j \in 1 .. tt : j <= Len(sent) => Framed(sent[j])
                 PROVE  tt <= Len(sent) /\ HoldsAfter(Pending', sent, tt)
      BY <1>1, <3>1
    <3>2. FramedUpTo(t + 1)
      BY <2>2 DEF FramedUpTo
    <3> QED BY <2>2, <2>3, <2>4, <3>2
  <2> QED BY <2>6, <2>7 DEF StreamInv
<1> QED
  BY <1>1, <1>3, <1>4

\* The other steps of the server take nothing from the stream, and an empty buffer has
\* nothing pending when a reply has gone out.
LEMMA ServerStream ==
  ASSUME StreamInv, TypeOK, BufferInv, ServerTypes', WireTypes',
         \/ CloseConnection \/ ProcessClientMessage \/ ReadField \/ FenceAction
         \/ \E n \in 1 .. IO_BUFFER_SIZE : SendMessage(n)
  PROVE  StreamInv'
<1>1. UNCHANGED <<sent, taken, stream>> /\ stream \in Text
  BY DEF CloseConnection, ProcessClientMessage, ReadField, FenceAction, SendMessage, wireVars,
         TypeOK
<1>2. CASE phase' \in {"CLOSED", "LOST", "KILLED"}
  BY <1>1, <1>2, SameStream DEF Over
<1>3. CASE phase \in {"EXECUTING", "PARSE", "SEND"} /\ phase' \in {"PARSE", "SEND"}
  BY <1>1, <1>3, SameStream DEF Over, Pending
<1>4. CASE phase = "SEND" /\ phase' = "RECV" /\ io_offset' = 0
  <2> DEFINE b == Get(io_buffer', 0, 0)
  <2>1. b = << >>
    BY DEF Get
  <2>2. Pending' = b \o stream'
    BY <1>4 DEF Pending
  <2>3. << >> \o stream = stream
    BY <1>1, ConcatEmptySeq DEF Text
  <2> HIDE DEF b
  <2> QED BY <1>1, <1>4, <2>1, <2>2, <2>3, SameStream DEF Over, Pending
<1>5. CASE CloseConnection
  BY <1>2, <1>5 DEF CloseConnection
<1>6. CASE ProcessClientMessage
  BY <1>2, <1>3, <1>6 DEF ProcessClientMessage
<1>7. CASE ReadField
  BY <1>2, <1>3, <1>7 DEF ReadField
<1>8. CASE FenceAction
  BY <1>2, <1>3, <1>8 DEF FenceAction
<1>9. ASSUME NEW n \in 1 .. IO_BUFFER_SIZE, SendMessage(n)
      PROVE  StreamInv'
  BY <1>2, <1>3, <1>4, <1>9 DEF SendMessage, ClearIoBuffer
<1> QED
  BY <1>5, <1>6, <1>7, <1>8, <1>9

LEMMA NextStream ==
  ASSUME StreamInv, CoreInv, CoreInv', [Next]_vars
  PROVE  StreamInv'
<1>0. /\ TypeOK /\ SenderTypes /\ WireTypes /\ SenderInv /\ BufferInv
      /\ ServerTypes' /\ WireTypes'
  <2>1. CoreInv' => ServerTypes' /\ WireTypes'
    BY DEF CoreInv, TypeOK, ServerTypes, WireTypes
  <2> QED BY <2>1, Types DEF CoreInv
<1>1. CASE SendRequest
  <2>1. UNCHANGED serverVars
    BY <1>1, SenderStays DEF Client
  <2> QED BY <1>0, <1>1, <2>1, RequestSent, Appended
<1>2. ASSUME NEW m \in OtherMessages, OtherSends(m)
      PROVE  StreamInv'
  <2>1. UNCHANGED serverVars
    BY <1>2, SenderStays
  <2> QED BY <1>0, <1>2, <2>1, OtherSent, Appended
<1>3. CASE UNCHANGED <<sent, taken, stream, phase, io_buffer, io_offset>>
  <2>1. Over' = Over /\ Pending' = Pending
    BY <1>3 DEF Over, Pending, Get
  <2> QED BY <1>3, <2>1, SameStream
<1>4. CASE \/ \E l \in Lines : ReadLine(l)
           \/ EndOfInput \/ Dispatch \/ ReceiveReply \/ OtherHangsUp
  <2>1. UNCHANGED <<sent, stream>>
    BY <1>4 DEF ReadLine, EndOfInput, Dispatch, ReceiveReply, OtherHangsUp, wireVars
  <2>2. UNCHANGED serverVars
    BY <1>4, SenderStays DEF Client
  <2> QED BY <1>3, <2>1, <2>2 DEF serverVars, bufferVars
<1>5. CASE Server
  BY <1>0, <1>5, Received, ServerStream DEF Server
<1>6. CASE UNCHANGED vars
  BY <1>3, <1>6 DEF vars, wireVars, serverVars, bufferVars
<1> QED
  BY <1>1, <1>2, <1>4, <1>5, <1>6 DEF Next, Client

LEMMA StreamHolds == Spec => [](CoreInv /\ StreamInv)
<1>1. Init => CoreInv /\ StreamInv
  BY InitCore, InitStream
<1>2. CoreInv /\ StreamInv /\ [Next]_vars => CoreInv' /\ StreamInv'
  BY NextCore, NextStream
<1> QED
  BY <1>1, <1>2, PTL DEF Spec

\* However TCP cuts the stream into pieces, the server hands to its workers the messages
\* that were sent, in order and each with its own bytes, as long as their lengths are
\* true (ServerConnector.cpp:371-405, 254).
THEOREM TakenInOrder == Spec => []MessagesInOrder
BY StreamHolds, PTL DEF StreamInv

-----------------------------------------------------------------------------
(***************************************************************************)
(* What the server reads of the client's request.                          *)
(***************************************************************************)
\* A pair whose key has no split byte is split where it was joined.
LEMMA PairSplits ==
  ASSUME NEW key \in Text, NEW value \in Text, \A i \in 1 .. Len(key) : key[i] # SPLIT
  PROVE  /\ Pair(key, value) \in Text /\ Len(Pair(key, value)) = Len(key) + 1 + Len(value)
         /\ HasSplit(Pair(key, value))
         /\ KeyOf(Pair(key, value)) = key /\ ValueOf(Pair(key, value)) = value
<1> DEFINE p == Pair(key, value)
           k == Len(key)
           v == Len(value)
<1>1. k \in Nat /\ v \in Nat /\ SPLIT \in Byte
  BY FormatAssumption DEF Text
<1>2. /\ p \in Text /\ Len(p) = k + 1 + v
      /\ \A i \in 1 .. k : p[i] = key[i]
      /\ p[k + 1] = SPLIT
      /\ \A i \in 1 .. v : p[k + 1 + i] = value[i]
  <2>1. <<SPLIT>> \in Text /\ Len(<<SPLIT>>) = 1 /\ <<SPLIT>>[1] = SPLIT
    BY <1>1 DEF Text
  <2> DEFINE one == <<SPLIT>>
             a == key \o one
  <2>2. one \in Text /\ Len(one) = 1 /\ one[1] = SPLIT
    BY <2>1
  <2> HIDE DEF one
  <2>3. /\ key \o one \in Text /\ Len(key \o one) = Len(key) + Len(one)
        /\ \A i \in 1 .. Len(key) : (key \o one)[i] = key[i]
        /\ \A i \in 1 .. Len(one) : (key \o one)[Len(key) + i] = one[i]
    BY <2>2, Joined
  <2>4. a \in Text /\ Len(a) = k + 1 /\ (\A i \in 1 .. k : a[i] = key[i]) /\ a[k + 1] = SPLIT
    BY <2>2, <2>3
  <2>5. p = a \o value
    BY DEF Pair, one
  <2> HIDE DEF a, p
  <2>6. /\ a \o value \in Text /\ Len(a \o value) = Len(a) + Len(value)
        /\ \A i \in 1 .. Len(a) : (a \o value)[i] = a[i]
        /\ \A i \in 1 .. Len(value) : (a \o value)[Len(a) + i] = value[i]
    BY <2>4, Joined
  <2>7. /\ \A i \in 1 .. k : i \in 1 .. Len(a)
        /\ k + 1 \in 1 .. Len(a)
    BY <1>1, <2>4
  <2> QED BY <1>1, <2>4, <2>5, <2>6, <2>7
<1> HIDE DEF p
<1>3. /\ k + 1 \in 1 .. Len(p) /\ Len(p) \in Nat
  BY <1>1, <1>2
<1>4. HasSplit(p)
  BY <1>2, <1>3 DEF HasSplit
<1>5. SplitIndex(p) = k + 1
  <2> DEFINE x == SplitIndex(p)
  <2>1. x \in 1 .. Len(p) /\ p[x] = SPLIT /\ \A j \in 1 .. x - 1 : p[j] # SPLIT
    BY <1>2, <1>4, SplitsAtFirst
  <2> HIDE DEF x
  <2>2. ~(x <= k)
    <3> SUFFICES ASSUME x <= k PROVE FALSE
      OBVIOUS
    <3>1. x \in 1 .. k
      BY <1>1, <1>3, <2>1
    <3> QED BY <1>2, <2>1, <3>1
  <2>3. ~(k + 1 < x)
    <3> SUFFICES ASSUME k + 1 < x PROVE FALSE
      OBVIOUS
    <3>1. k + 1 \in 1 .. x - 1
      BY <1>1, <1>3, <2>1
    <3> QED BY <1>2, <2>1, <3>1
  <2>4. x = k + 1
    BY <1>1, <1>3, <2>1, <2>2, <2>3
  <2> QED BY <2>4 DEF x
<1>6. KeyOf(p) = key
  <2>1. KeyOf(p) = SubSeq(p, 1, k)
    BY <1>1, <1>5 DEF KeyOf
  <2>2. /\ SubSeq(p, 1, k) \in Seq(Byte) /\ Len(SubSeq(p, 1, k)) = k
        /\ \A i \in 1 .. k : SubSeq(p, 1, k)[i] = p[i]
    BY <1>1, <1>2 DEF Text
  <2> QED BY <1>2, <2>1, <2>2, SeqEqual DEF Text
<1>7. ValueOf(p) = value
  <2>1. ValueOf(p) = SubSeq(p, k + 2, Len(p))
    BY <1>1, <1>5 DEF ValueOf
  <2>2. /\ SubSeq(p, k + 2, Len(p)) \in Seq(Byte) /\ Len(SubSeq(p, k + 2, Len(p))) = v
        /\ \A i \in 1 .. v : SubSeq(p, k + 2, Len(p))[i] = p[k + 1 + i]
    <3>1. Len(p) = k + 1 + v /\ p \in Seq(Byte)
      BY <1>2 DEF Text
    <3>2. Len(SubSeq(p, k + 2, Len(p))) = v
      BY <1>1, <3>1
    <3>3. \A i \in 1 .. v : SubSeq(p, k + 2, Len(p))[i] = p[(k + 2) + i - 1]
      BY <1>1, <3>1, <3>2
    <3>4. \A i \in 1 .. v : (k + 2) + i - 1 = k + 1 + i
      BY <1>1
    <3>5. SubSeq(p, k + 2, Len(p)) \in Seq(Byte)
      BY <1>1, <3>1
    <3> QED BY <3>2, <3>3, <3>4, <3>5
  <2> QED BY <1>2, <2>1, <2>2, SeqEqual DEF Text
<1> QED
  BY <1>2, <1>4, <1>6, <1>7 DEF p

\* A field is read as it was written.
LEMMA FieldRead ==
  ASSUME NEW buffer \in Buffer, NEW capacity \in 0 .. IO_BUFFER_SIZE, NEW offset \in Nat,
         NEW t \in Text, Len(t) \in Uint16, offset + 2 + Len(t) <= capacity,
         buffer[offset] = ToBytes(Len(t))[1], buffer[offset + 1] = ToBytes(Len(t))[2],
         \A i \in 1 .. Len(t) : buffer[offset + 1 + i] = t[i]
  PROVE  HaveField(buffer, capacity, offset) /\ Field(buffer, offset) = t
<1>1. Len(t) \in Nat /\ capacity \in Nat
  BY Sizes
<1>2. FieldLength(buffer, offset) = Len(t)
  <2>1. PICK a, b \in Byte : a = High(Len(t)) /\ b = Low(Len(t)) /\ a * BASE + b = Len(t)
    BY Halves
  <2>2. buffer[offset] = a /\ buffer[offset + 1] = b
    BY <2>1, ToBytesOf
  <2>3. FieldLength(buffer, offset) = buffer[offset] * BASE + buffer[offset + 1]
    BY DEF FieldLength, FromBytes
  <2> QED BY <2>1, <2>2, <2>3
<1>3. HaveField(buffer, capacity, offset)
  BY <1>1, <1>2 DEF HaveField
<1>4. /\ Field(buffer, offset) \in Text /\ Len(Field(buffer, offset)) = Len(t)
      /\ \A i \in 1 .. Len(t) : Field(buffer, offset)[i] = buffer[offset + 1 + i]
  BY <1>2, <1>3, FieldWithin
<1> QED
  BY <1>3, <1>4, SeqEqual DEF Text

-----------------------------------------------------------------------------
(***************************************************************************)
(* The client's request, from its lines to the verdict.                    *)
(***************************************************************************)
Node   == Args!Value(args, "nodename")
Secret == Args!Value(args, "secret")

\* Before the request: nothing is on the way, and the client may have ended.
Unsent ==
  sent = << >> =>
    /\ stream = << >> /\ taken = << >> /\ plugin = NoCall
    /\ exit \in {"running", "failure", "killed", "other"} /\ (exit = "killed" => unended)

\* After it: the one message is the request, and the client waits for the verdict.
Sent ==
  /\ sent # << >> => sent = <<Request>>
  /\ cpc # "ended" => exit = "running" /\ ~hung_up
  /\ sent # << >> /\ cpc = "ended" =>
       plugin # NoCall /\ exit = IF plugin.success THEN "success" ELSE "failure"

\* The server has read the fields up to its offset.
Read ==
  /\ phase \in {"RECV", "EXECUTING"} => nodename = << >> /\ secret = << >>
  /\ phase = "PARSE" =>
       \/ field_offset = HEADER_SIZE
       \/ field_offset = SecretOffset /\ nodename = Node
       \/ field_offset = RequestLength /\ nodename = Node /\ secret = Secret

VerdictHeader == [msg_type |-> VerdictType(plugin.success), data_length |-> HEADER_SIZE]

\* The plugin is called once, and the reply is its verdict.
Called ==
  /\ phase = "RECV" => taken = << >>
  /\ phase \in {"RECV", "EXECUTING", "PARSE"} => plugin = NoCall
  /\ phase = "SEND" => /\ plugin # NoCall /\ next_phase = "CANCELED"
                       /\ header = VerdictHeader /\ Len(back) = io_offset
  /\ plugin = NoCall => back = << >>
  /\ plugin # NoCall =>
       /\ plugin.op = FenceActions[Action] /\ plugin.node = Node /\ plugin.secret = Secret
       /\ Len(back) <= HEADER_SIZE
       /\ \A i \in 1 .. Len(back) : back[i] = HeaderBytes(VerdictHeader)[i]

ClientInv == sender = "client" => Unsent /\ Sent /\ Read /\ Called

LEMMA InitClient == Init => ClientInv
<1> SUFFICES ASSUME Init PROVE ClientInv
  OBVIOUS
<1>1. /\ sent = << >> /\ stream = << >> /\ taken = << >> /\ plugin = NoCall /\ back = << >>
      /\ exit = "running" /\ phase = "RECV" /\ nodename = << >> /\ secret = << >>
      /\ hung_up = FALSE
  BY DEF Init
<1> QED
  BY <1>1 DEF ClientInv, Unsent, Sent, Read, Called

\* What a step that leaves the arguments alone says of the request.
LEMMA SameRequest ==
  ASSUME UNCHANGED args
  PROVE  /\ Request' = Request /\ SecretOffset' = SecretOffset /\ RequestLength' = RequestLength
         /\ Node' = Node /\ Secret' = Secret /\ Action' = Action
         /\ RequestBuffer' = RequestBuffer
<1>1. Node' = Node /\ Secret' = Secret /\ Action' = Action
  BY DEF Node, Secret, Action, Args!Value
<1>2. NodenameParam' = NodenameParam /\ SecretParam' = SecretParam
  BY DEF NodenameParam, SecretParam, Args!Value
<1>3. SecretOffset' = SecretOffset
  BY <1>2 DEF SecretOffset
<1>4. RequestLength' = RequestLength
  BY <1>2, <1>3 DEF RequestLength
<1>5. RequestBuffer' = RequestBuffer
  BY <1>1, <1>2, <1>3, <1>4 DEF RequestBuffer, WriteField, Serialize
<1>6. Request' = Request
  BY <1>1, <1>4, <1>5 DEF Request
<1> QED
  BY <1>1, <1>3, <1>4, <1>5, <1>6

LEMMA NotNoCall ==
  ASSUME NEW o, NEW n, NEW s, NEW b
  PROVE  [op |-> o, node |-> n, secret |-> s, success |-> b] # NoCall
<1>1. "node" \in DOMAIN [op |-> o, node |-> n, secret |-> s, success |-> b]
  OBVIOUS
<1>2. "node" \notin DOMAIN NoCall
  BY DEF NoCall
<1> QED
  BY <1>1, <1>2

\* The request is framed, so that it is the only message the server takes.
LEMMA RequestFramed ==
  ASSUME SenderTypes, Sendable
  PROVE  Framed(Request) /\ Len(Request.body) = RequestLength - 4
<1>1. /\ Request.data_length = RequestLength /\ RequestLength \in Nat
      /\ RequestLength <= IO_BUFFER_SIZE
  BY RequestFitsIn, Sizes DEF Request
<1>2. Size(Request) = RequestLength /\ Len(Request.body) \in Nat
  BY RequestBytes, RequestLayout DEF Message, Text
<1> QED
  BY <1>1, <1>2, Sizes DEF Framed, Size

\* What is in the server's buffer when a worker has it.
LEMMA WorkerHasRequest ==
  ASSUME CoreInv, StreamInv, ClientInv, sender = "client", phase \in {"EXECUTING", "PARSE"}
  PROVE  /\ sent # << >> /\ Sendable /\ header.msg_type = FenceActions[Action]
         /\ io_offset = RequestLength
         /\ \A i \in 4 .. RequestLength - 1 : io_buffer[i] = RequestBuffer[i]
<1>1. /\ TypeOK /\ SenderTypes /\ SenderInv /\ BufferInv
      /\ taken \in Seq([msg_type : Uint16, body : Text])
  BY Types DEF CoreInv, TypeOK
<1>2. /\ HEADER_SIZE <= io_offset /\ taken # << >>
      /\ taken[Len(taken)] = [msg_type |-> header.msg_type,
                              body |-> Get(io_buffer, HEADER_SIZE, io_offset)]
  BY <1>1 DEF BufferInv
<1>3. sent # << >> /\ sent = <<Request>> /\ Len(sent) = 1 /\ sent[1] = Request /\ Sendable
  <2>1. sent # << >>
    BY <1>2 DEF ClientInv, Unsent
  <2> QED BY <1>1, <2>1 DEF ClientInv, Sent, SenderInv
<1>4. Framed(Request) /\ Len(Request.body) = RequestLength - 4
  BY <1>1, <1>3, RequestFramed
<1>5. \A n : FramedUpTo(n)
  <2> SUFFICES ASSUME NEW n, NEW j \in 1 .. n, j <= Len(sent)
               PROVE  Framed(sent[j])
    BY DEF FramedUpTo
  <2>1. j = 1
    BY <1>3
  <2> QED BY <1>3, <1>4, <2>1
<1>6. Len(taken) = 1 /\ taken[1] = [msg_type |-> Request.msg_type, body |-> Request.body]
  <2>1. Len(taken) \in Nat /\ Len(taken) >= 1 /\ Len(taken) <= 1
    BY <1>1, <1>2, <1>3, <1>5 DEF StreamInv, FlowInv
  <2>2. 1 \in 1 .. Len(taken)
    BY <2>1
  <2>3. taken[1] = [msg_type |-> sent[1].msg_type, body |-> sent[1].body]
    <3>1. FramedUpTo(1)
      BY <1>5
    <3> QED BY <2>2, <3>1, InOrder DEF StreamInv
  <2> QED BY <1>3, <2>1, <2>3
<1>7. header.msg_type = Request.msg_type /\ Get(io_buffer, HEADER_SIZE, io_offset) = Request.body
  BY <1>2, <1>6
<1>8. /\ io_buffer \in Buffer /\ HEADER_SIZE \in Nat /\ io_offset \in HEADER_SIZE .. IO_BUFFER_SIZE
      /\ RequestBuffer \in Buffer /\ RequestLength \in HEADER_SIZE .. IO_BUFFER_SIZE
  BY <1>1, <1>2, <1>3, Sizes, RequestFitsIn, RequestLayout DEF TypeOK
<1>9. /\ Len(Get(io_buffer, HEADER_SIZE, io_offset)) = io_offset - HEADER_SIZE
      /\ \A i \in 1 .. io_offset - HEADER_SIZE :
           Get(io_buffer, HEADER_SIZE, io_offset)[i] = io_buffer[HEADER_SIZE + i - 1]
  BY <1>8, GetFrom
<1>10. /\ Len(Get(RequestBuffer, HEADER_SIZE, RequestLength)) = RequestLength - HEADER_SIZE
       /\ \A i \in 1 .. RequestLength - HEADER_SIZE :
            Get(RequestBuffer, HEADER_SIZE, RequestLength)[i] = RequestBuffer[HEADER_SIZE + i - 1]
  BY <1>8, GetFrom
<1>11. Request.body = Get(RequestBuffer, HEADER_SIZE, RequestLength)
       /\ Request.msg_type = FenceActions[Action]
  BY DEF Request
<1>12. io_offset = RequestLength
  BY <1>4, <1>7, <1>8, <1>9, Sizes
<1>13. ASSUME NEW i \in 4 .. RequestLength - 1
       PROVE  io_buffer[i] = RequestBuffer[i]
  <2>1. i - 3 \in 1 .. RequestLength - HEADER_SIZE /\ HEADER_SIZE + (i - 3) - 1 = i
    BY <1>8, Sizes
  <2>2. /\ Get(io_buffer, HEADER_SIZE, io_offset)[i - 3] = io_buffer[HEADER_SIZE + (i - 3) - 1]
        /\ Get(RequestBuffer, HEADER_SIZE, RequestLength)[i - 3]
             = RequestBuffer[HEADER_SIZE + (i - 3) - 1]
    BY <1>9, <1>10, <1>12, <2>1
  <2> QED BY <1>7, <1>11, <2>1, <2>2
<1> QED
  BY <1>3, <1>7, <1>11, <1>12, <1>13

\* The two fields as the server reads them.
LEMMA FieldsRead ==
  ASSUME CoreInv, StreamInv, ClientInv, sender = "client", phase = "PARSE"
  PROVE  /\ HEADER_SIZE < SecretOffset /\ SecretOffset < RequestLength
         /\ io_offset = RequestLength
         /\ HaveField(io_buffer, io_offset, HEADER_SIZE)
         /\ Field(io_buffer, HEADER_SIZE) = NodenameParam
         /\ HaveField(io_buffer, io_offset, SecretOffset)
         /\ Field(io_buffer, SecretOffset) = SecretParam
         /\ HasSplit(NodenameParam) /\ HasSplit(SecretParam)
         /\ KeyOf(NodenameParam) = NODENAME /\ ValueOf(NodenameParam) = Node
         /\ KeyOf(SecretParam) = SECRET /\ ValueOf(SecretParam) = Secret
         /\ Len(Node) <= NODENAME_SIZE /\ Len(Secret) <= MAX_SECRET_LENGTH
         /\ HEADER_SIZE + 2 + Len(NodenameParam) = SecretOffset
         /\ SecretOffset + 2 + Len(SecretParam) = RequestLength
<1> DEFINE np == NodenameParam
           sp == SecretParam
<1>1. /\ SenderTypes /\ Sendable /\ io_offset = RequestLength
      /\ \A i \in 4 .. RequestLength - 1 : io_buffer[i] = RequestBuffer[i]
      /\ io_buffer \in Buffer /\ io_offset \in 0 .. IO_BUFFER_SIZE
  BY WorkerHasRequest, Types DEF CoreInv, TypeOK
<1>2. /\ np \in Text /\ sp \in Text /\ Len(np) \in Uint16 /\ Len(sp) \in Uint16
      /\ Len(np) \in Nat /\ Len(sp) \in Nat
      /\ SecretOffset = 6 + Len(np) /\ RequestLength = 8 + Len(np) + Len(sp)
  BY <1>1, RequestFitsIn, Sizes
<1>3. /\ RequestBuffer[4] = ToBytes(Len(np))[1] /\ RequestBuffer[5] = ToBytes(Len(np))[2]
      /\ \A i \in 1 .. Len(np) : RequestBuffer[5 + i] = np[i]
      /\ RequestBuffer[SecretOffset] = ToBytes(Len(sp))[1]
      /\ RequestBuffer[SecretOffset + 1] = ToBytes(Len(sp))[2]
      /\ \A i \in 1 .. Len(sp) : RequestBuffer[SecretOffset + 1 + i] = sp[i]
  BY <1>1, RequestLayout
<1> HIDE DEF np, sp
<1>4. HaveField(io_buffer, io_offset, 4) /\ Field(io_buffer, 4) = np
  <2>1. /\ 4 \in 4 .. RequestLength - 1 /\ 5 \in 4 .. RequestLength - 1
        /\ \A i \in 1 .. Len(np) : 5 + i \in 4 .. RequestLength - 1
    BY <1>2
  <2>2. /\ io_buffer[4] = ToBytes(Len(np))[1] /\ io_buffer[4 + 1] = ToBytes(Len(np))[2]
        /\ \A i \in 1 .. Len(np) : io_buffer[4 + 1 + i] = np[i]
    BY <1>1, <1>3, <2>1
  <2>3. 4 + 2 + Len(np) <= io_offset /\ 4 \in Nat
    BY <1>1, <1>2
  <2> QED BY <1>1, <1>2, <2>2, <2>3, FieldRead
<1>5. HaveField(io_buffer, io_offset, SecretOffset) /\ Field(io_buffer, SecretOffset) = sp
  <2>1. /\ SecretOffset \in 4 .. RequestLength - 1 /\ SecretOffset + 1 \in 4 .. RequestLength - 1
        /\ \A i \in 1 .. Len(sp) : SecretOffset + 1 + i \in 4 .. RequestLength - 1
    BY <1>2
  <2>2. /\ io_buffer[SecretOffset] = ToBytes(Len(sp))[1]
        /\ io_buffer[SecretOffset + 1] = ToBytes(Len(sp))[2]
        /\ \A i \in 1 .. Len(sp) : io_buffer[SecretOffset + 1 + i] = sp[i]
    BY <1>1, <1>3, <2>1
  <2>3. SecretOffset + 2 + Len(sp) <= io_offset /\ SecretOffset \in Nat
    BY <1>1, <1>2
  <2> QED BY <1>1, <1>2, <2>2, <2>3, FieldRead
<1>6. /\ Node \in Text /\ Secret \in Text
      /\ Len(Node) <= Capacity["nodename"] /\ Len(Secret) <= Capacity["secret"]
  BY <1>1, RequestAssumption DEF SenderTypes, Sendable, ArgsMatch, Node, Secret, Args!Value
<1>7. Len(Node) <= NODENAME_SIZE /\ Len(Secret) <= MAX_SECRET_LENGTH
  <2>1. /\ Len(Node) \in Nat /\ Len(Secret) \in Nat
        /\ Capacity["nodename"] \in Nat /\ Capacity["secret"] \in Nat
        /\ NODENAME_SIZE \in Nat /\ MAX_SECRET_LENGTH \in Nat
    BY <1>6, RequestAssumption DEF Text
  <2> QED BY <1>6, <2>1, SizesFit
<1>8. np = Pair(NODENAME, Node) /\ sp = Pair(SECRET, Secret)
  BY DEF np, sp, NodenameParam, SecretParam, Node, Secret
<1>9. /\ NODENAME \in Text /\ SECRET \in Text
      /\ \A i \in 1 .. Len(NODENAME) : NODENAME[i] # SPLIT
      /\ \A i \in 1 .. Len(SECRET) : SECRET[i] # SPLIT
  BY RequestAssumption
<1>10. /\ HasSplit(np) /\ KeyOf(np) = NODENAME /\ ValueOf(np) = Node
       /\ HasSplit(sp) /\ KeyOf(sp) = SECRET /\ ValueOf(sp) = Secret
  BY <1>6, <1>8, <1>9, PairSplits
<1> QED
  BY <1>1, <1>2, <1>4, <1>5, <1>7, <1>10, Sizes DEF np, sp

\* The client reads its lines; nothing is at the server yet.
LEMMA ReadingClient ==
  ASSUME CoreInv, ClientInv,
         EndOfInput \/ Dispatch \/ \E l \in Lines : ReadLine(l)
  PROVE  ClientInv'
<1>1. /\ cpc \in {"read", "dispatch"} /\ UNCHANGED <<sender, sent, stream, back>>
      /\ UNCHANGED serverVars
  <2>1. UNCHANGED serverVars
    BY SenderStays DEF Client
  <2> QED BY <2>1 DEF EndOfInput, Dispatch, ReadLine, wireVars
<1> SUFFICES ASSUME sender = "client" PROVE Unsent' /\ Sent' /\ Read' /\ Called'
  BY <1>1 DEF ClientInv
<1>2. sent = << >> /\ Unsent /\ Sent /\ Read /\ Called /\ BufferInv
  BY <1>1 DEF CoreInv, SenderInv, ClientInv
<1>3. /\ UNCHANGED <<phase, next_phase, header, io_offset, taken, plugin, nodename, secret>>
      /\ plugin = NoCall /\ phase \notin {"EXECUTING", "PARSE", "SEND"} /\ taken = << >>
  BY <1>1, <1>2 DEF serverVars, bufferVars, Unsent, Called, BufferInv
<1>4. /\ exit' \in {exit, "failure", "killed", "other"}
      /\ exit' = "killed" => exit = "killed" \/ unended'
      /\ unended => unended'
      /\ cpc' # "ended" => exit' = exit /\ hung_up' = hung_up
  <2>1. CASE EndOfInput \/ Dispatch
    BY <2>1 DEF EndOfInput, Dispatch, Exits, wireVars
  <2>2. ASSUME NEW l \in Lines, ReadLine(l)
        PROVE  /\ exit' \in {exit, "failure", "killed", "other"}
               /\ exit' = "killed" => exit = "killed" \/ unended'
               /\ unended => unended'
               /\ cpc' # "ended" => exit' = exit /\ hung_up' = hung_up
    <3>1. unended' = (unended \/ (~l.ended /\ l.form # "blank"))
      BY <2>2 DEF ReadLine
    <3>2. \/ UNCHANGED <<exit, cpc, hung_up>>
          \/ l.form # "blank" /\ ~l.ended /\ exit' = "killed" /\ cpc' = "ended"
          \/ exit' = "failure" /\ cpc' = "ended"
      BY <2>2 DEF ReadLine, Exits
    <3> QED BY <3>1, <3>2
  <2> QED BY <2>1, <2>2
<1>5. Unsent' /\ Sent'
  BY <1>1, <1>2, <1>3, <1>4 DEF Unsent, Sent
<1>6. Read' /\ Called'
  BY <1>1, <1>2, <1>3 DEF Read, Called
<1> QED
  BY <1>5, <1>6

LEMMA RequestingClient ==
  ASSUME CoreInv, ClientInv, SendRequest
  PROVE  ClientInv'
<1>1. /\ SenderTypes /\ WireTypes /\ SenderInv /\ BufferInv
  BY Types DEF CoreInv
<1>2. /\ sender = "client" /\ sent = << >> /\ sent' = Append(sent, Request)
      /\ cpc' = "receive" /\ UNCHANGED <<exit, hung_up>>
  BY <1>1, RequestSent
<1>3. UNCHANGED <<args, sender, back>> /\ cpc = "send" /\ UNCHANGED serverVars
  <2>1. UNCHANGED serverVars
    BY SenderStays DEF Client
  <2> QED BY <2>1 DEF SendRequest
<1>4. Unsent /\ Sent /\ Read /\ Called
  BY <1>2 DEF ClientInv
<1>5. /\ UNCHANGED <<phase, next_phase, header, io_offset, taken, plugin, nodename, secret>>
      /\ plugin = NoCall /\ phase \notin {"EXECUTING", "PARSE", "SEND"} /\ taken = << >>
  BY <1>1, <1>2, <1>3, <1>4 DEF serverVars, bufferVars, Unsent, Called, BufferInv
<1>6. sent' = <<Request>> /\ sent' # << >> /\ Request' = Request
  BY <1>2, <1>3, SameRequest
<1>7. Unsent' /\ Sent'
  BY <1>2, <1>3, <1>4, <1>6 DEF Unsent, Sent
<1>8. Read' /\ Called'
  BY <1>3, <1>4, <1>5 DEF Read, Called
<1> QED
  BY <1>7, <1>8 DEF ClientInv

\* The client has the reply, and reads the verdict in it.
LEMMA AnsweredClient ==
  ASSUME CoreInv, ClientInv, ReceiveReply
  PROVE  ClientInv'
<1>1. /\ cpc = "receive" /\ Len(back) = 4 /\ cpc' = "ended" /\ hung_up' /\ back' = << >>
      /\ exit' = IF ReplyHeader.msg_type = FENCE_SUCCESS THEN "success"
                 ELSE IF ReplyHeader.msg_type = FENCE_FAIL THEN "failure" ELSE "killed"
      /\ UNCHANGED <<sender, args, sent, stream, unended>>
  BY Sizes DEF ReceiveReply, Exits
<1>2. UNCHANGED serverVars
  BY SenderStays DEF Client
<1> SUFFICES ASSUME sender = "client" PROVE Unsent' /\ Sent' /\ Read' /\ Called'
  BY <1>1 DEF ClientInv
<1>3. /\ sent # << >> /\ Unsent /\ Sent /\ Read /\ Called /\ BufferInv /\ TypeOK
  BY <1>1 DEF CoreInv, SenderInv, ClientInv
<1>4. plugin # NoCall /\ plugin.success \in BOOLEAN
  <2>1. << >> # back
    BY <1>1
  <2>2. plugin # NoCall
    BY <1>3, <2>1 DEF Called
  <2>3. plugin \in [op : FenceType, node : Text, secret : Text, success : BOOLEAN]
    BY <1>3, <2>2 DEF TypeOK
  <2> QED BY <2>2, <2>3
<1>5. phase # "SEND"
  BY <1>1, <1>3, Sizes DEF Called, BufferInv
<1>6. VerdictHeader \in Header /\ VerdictHeader.msg_type = VerdictType(plugin.success)
  BY Sizes, RequestAssumption DEF VerdictHeader, VerdictType, Header
<1>7. ReplyHeader.msg_type = VerdictType(plugin.success)
  <2> DEFINE b == [i \in 0 .. HEADER_SIZE - 1 |-> back[i + 1]]
             h == VerdictHeader
  <2>1. \A i \in 1 .. 4 : back[i] = HeaderBytes(h)[i]
    BY <1>1, <1>3, <1>4 DEF Called
  <2>2. \A i \in 0 .. 3 : b[i] = back[i + 1] /\ i + 1 \in 1 .. 4
    BY Sizes
  <2>3. ReplyHeader = Deserialize(b) /\ h \in Header
    BY <1>6 DEF ReplyHeader
  <2> HIDE DEF b, h
  <2>4. \A i \in 0 .. 3 : b[i] = HeaderBytes(h)[i + 1]
    BY <2>1, <2>2
  <2>5. Deserialize(b) = h
    BY <2>3, <2>4, DeserializeBytes
  <2> QED BY <1>6, <2>3, <2>5 DEF h
<1>8. exit' = IF plugin.success THEN "success" ELSE "failure"
  BY <1>1, <1>4, <1>7, RequestAssumption DEF VerdictType
<1>9. /\ UNCHANGED <<phase, next_phase, header, io_offset, taken, plugin, nodename, secret,
                     field_offset>>
  BY <1>2 DEF serverVars, bufferVars
<1>10. /\ Request' = Request /\ SecretOffset' = SecretOffset /\ RequestLength' = RequestLength
       /\ Node' = Node /\ Secret' = Secret /\ Action' = Action
  BY <1>1, SameRequest
<1>11. Unsent' /\ Sent'
  BY <1>1, <1>3, <1>4, <1>8, <1>9, <1>10 DEF Unsent, Sent
<1>12. Read'
  BY <1>3, <1>9, <1>10 DEF Read
<1>13. Called'
  <2>1. Len(back') = 0 /\ 0 <= HEADER_SIZE
    BY <1>1, Sizes
  <2> QED BY <1>1, <1>3, <1>4, <1>5, <1>9, <1>10, <2>1 DEF Called
<1> QED
  BY <1>11, <1>12, <1>13

\* The server receives the request.
LEMMA ClientReceived ==
  ASSUME CoreInv, ClientInv, NEW n \in 1 .. IO_BUFFER_SIZE, ReceiveMessage(n)
  PROVE  ClientInv'
<1>1. /\ TypeOK /\ BufferInv /\ stream \in Text
      /\ UNCHANGED <<sender, cpc, args, exit, unended, sent, back, hung_up, next_phase,
                     field_offset, nodename, secret, plugin>>
  BY DEF CoreInv, TypeOK, ReceiveMessage, senderVars
<1> SUFFICES ASSUME sender = "client" PROVE Unsent' /\ Sent' /\ Read' /\ Called'
  BY <1>1 DEF ClientInv
<1>2. Unsent /\ Sent /\ Read /\ Called
  BY DEF ClientInv
<1>3. /\ phase = "RECV" /\ n <= Len(stream)
      /\ NoHeaderYet \/ MessageParted \/ MessageComplete
  BY <1>1, Receives
<1>4. \/ phase' = "RECV" /\ taken' = taken
      \/ phase' = "EXECUTING"
  BY <1>3 DEF NoHeaderYet, MessageParted, MessageComplete, Complete
<1>5. sent # << >>
  <2>1. stream # << >>
    BY <1>3
  <2> QED BY <1>2, <2>1 DEF Unsent
<1>6. Request' = Request /\ UNCHANGED <<sent, plugin, cpc, exit, hung_up>>
  BY <1>1, SameRequest
<1>7. Unsent' /\ Sent'
  BY <1>2, <1>5, <1>6 DEF Unsent, Sent
<1>8. Read' /\ Called'
  BY <1>1, <1>2, <1>3, <1>4 DEF Read, Called
<1> QED
  BY <1>7, <1>8

\* What a step of a worker or of the selector leaves alone.
LEMMA ClientStays ==
  ASSUME ClientInv, sender = "client",
         UNCHANGED <<cpc, args, exit, unended, sent, stream, hung_up, taken>>,
         plugin # NoCall => plugin' = plugin, sent = << >> => plugin' = NoCall
  PROVE  Unsent' /\ Sent'
<1>1. Unsent /\ Sent /\ Request' = Request
  BY SameRequest DEF ClientInv
<1>2. Unsent'
  BY <1>1 DEF Unsent
<1>3. Sent'
  BY <1>1 DEF Sent
<1> QED
  BY <1>2, <1>3

LEMMA ClientProcessed ==
  ASSUME CoreInv, StreamInv, ClientInv, ProcessClientMessage
  PROVE  ClientInv'
<1>1. /\ UNCHANGED <<sender, cpc, args, exit, unended, sent, stream, back, hung_up, taken,
                     plugin, nodename, secret>>
      /\ phase = "EXECUTING"
  BY DEF ProcessClientMessage, senderVars, wireVars
<1> SUFFICES ASSUME sender = "client" PROVE Unsent' /\ Sent' /\ Read' /\ Called'
  BY <1>1 DEF ClientInv
<1>2. Unsent /\ Sent /\ Read /\ Called
  BY DEF ClientInv
<1>3. sent # << >> /\ header.msg_type \in FenceType /\ header.msg_type # ECHO_REQUEST
  <2>1. sent # << >> /\ Sendable /\ header.msg_type = FenceActions[Action]
    BY <1>1, WorkerHasRequest
  <2>2. FenceActions[Action] \in FenceType
    BY <2>1 DEF Sendable, FenceType
  <2>3. ECHO_REQUEST \notin FenceType
    BY RequestAssumption
  <2> QED BY <2>1, <2>2, <2>3
<1>4. phase' = "PARSE" /\ field_offset' = HEADER_SIZE
  BY <1>3 DEF ProcessClientMessage
<1>5. Unsent' /\ Sent'
  BY <1>1, <1>3, ClientStays
<1>6. Read'
  BY <1>4 DEF Read
<1>7. Called'
  BY <1>1, <1>2, <1>4 DEF Called
<1> QED
  BY <1>5, <1>6, <1>7

LEMMA ClientParsed ==
  ASSUME CoreInv, StreamInv, ClientInv, ReadField
  PROVE  ClientInv'
<1> DEFINE text == Field(io_buffer, field_offset)
<1>1. /\ UNCHANGED <<sender, cpc, args, exit, unended, sent, stream, back, hung_up, taken,
                     plugin>>
      /\ phase = "PARSE" /\ field_offset < io_offset
  BY DEF ReadField, senderVars, wireVars
<1> SUFFICES ASSUME sender = "client" PROVE Unsent' /\ Sent' /\ Read' /\ Called'
  BY <1>1 DEF ClientInv
<1>2. Unsent /\ Sent /\ Read /\ Called
  BY DEF ClientInv
<1>3. sent # << >>
  BY <1>1, WorkerHasRequest
<1>4. Unsent' /\ Sent'
  BY <1>1, <1>3, ClientStays
<1>5. /\ HEADER_SIZE < SecretOffset /\ SecretOffset < RequestLength
      /\ io_offset = RequestLength
      /\ HaveField(io_buffer, io_offset, HEADER_SIZE)
      /\ Field(io_buffer, HEADER_SIZE) = NodenameParam
      /\ HaveField(io_buffer, io_offset, SecretOffset)
      /\ Field(io_buffer, SecretOffset) = SecretParam
      /\ HasSplit(NodenameParam) /\ HasSplit(SecretParam)
      /\ KeyOf(NodenameParam) = NODENAME /\ ValueOf(NodenameParam) = Node
      /\ KeyOf(SecretParam) = SECRET /\ ValueOf(SecretParam) = Secret
      /\ Len(Node) <= NODENAME_SIZE /\ Len(Secret) <= MAX_SECRET_LENGTH
      /\ HEADER_SIZE + 2 + Len(NodenameParam) = SecretOffset
      /\ SecretOffset + 2 + Len(SecretParam) = RequestLength
  BY <1>1, FieldsRead
<1>6. SecretOffset' = SecretOffset /\ RequestLength' = RequestLength
      /\ Node' = Node /\ Secret' = Secret /\ Action' = Action
  BY <1>1, SameRequest
<1>7. /\ Len(Node) \in Nat /\ Len(Secret) \in Nat
      /\ NODENAME_SIZE \in Nat /\ MAX_SECRET_LENGTH \in Nat /\ NODENAME # SECRET
      /\ HEADER_SIZE \in Nat /\ RequestLength \in Nat /\ SecretOffset \in Nat
  <2>1. SenderTypes /\ Sendable
    BY <1>1, WorkerHasRequest, Types DEF CoreInv
  <2>2. Node \in Text /\ Secret \in Text
    BY <2>1, RequestAssumption DEF SenderTypes, Node, Secret, Args!Value
  <2>3. RequestLength \in Nat /\ SecretOffset \in Nat
    BY <2>1, RequestFitsIn, Sizes
  <2> QED BY <2>2, <2>3, RequestAssumption, Sizes DEF Text
<1>8. CASE field_offset = HEADER_SIZE
  <2>1. text = NodenameParam /\ HaveField(io_buffer, io_offset, field_offset)
    BY <1>5, <1>8
  <2>2. /\ field_offset' = SecretOffset /\ nodename' = Node /\ phase' = "PARSE"
    BY <1>5, <1>7, <1>8, <2>1 DEF ReadField
  <2> QED BY <1>1, <1>2, <1>4, <1>6, <2>2 DEF Read, Called
<1>9. CASE field_offset = SecretOffset /\ nodename = Node
  <2>1. text = SecretParam /\ HaveField(io_buffer, io_offset, field_offset)
    BY <1>5, <1>9
  <2>2. /\ field_offset' = RequestLength /\ nodename' = Node /\ secret' = Secret
        /\ phase' = "PARSE"
    BY <1>5, <1>7, <1>9, <2>1 DEF ReadField
  <2> QED BY <1>1, <1>2, <1>4, <1>6, <2>2 DEF Read, Called
<1> QED
  BY <1>1, <1>2, <1>5, <1>7, <1>8, <1>9 DEF Read

\* The fields are read: the plugin is called with what they held.
LEMMA ClientFenced ==
  ASSUME CoreInv, StreamInv, ClientInv, FenceAction
  PROVE  ClientInv'
<1>1. /\ UNCHANGED <<sender, cpc, args, exit, unended, sent, stream, back, hung_up, taken>>
      /\ phase = "PARSE" /\ field_offset >= io_offset /\ io_offset' = 0
  BY DEF FenceAction, senderVars, wireVars, ClearIoBuffer
<1> SUFFICES ASSUME sender = "client" PROVE Unsent' /\ Sent' /\ Read' /\ Called'
  BY <1>1 DEF ClientInv
<1>2. Unsent /\ Sent /\ Read /\ Called /\ plugin = NoCall /\ back = << >>
  BY <1>1 DEF ClientInv, Called
<1>3. /\ sent # << >> /\ header.msg_type = FenceActions[Action] /\ io_offset = RequestLength
      /\ SenderTypes /\ Sendable
  BY <1>1, WorkerHasRequest, Types DEF CoreInv
<1>4. Unsent' /\ Sent'
  BY <1>1, <1>2, <1>3, ClientStays
<1>5. Node' = Node /\ Secret' = Secret /\ Action' = Action
  BY <1>1, SameRequest
<1>6. nodename = Node /\ secret = Secret
  <2>1. HEADER_SIZE < SecretOffset /\ SecretOffset < RequestLength
    BY <1>1, FieldsRead
  <2>2. HEADER_SIZE \in Nat /\ SecretOffset \in Nat /\ RequestLength \in Nat
    BY <1>3, RequestFitsIn, Sizes
  <2>3. field_offset # HEADER_SIZE /\ field_offset # SecretOffset
    BY <1>1, <1>3, <2>1, <2>2
  <2> QED BY <1>1, <1>2, <2>3 DEF Read
<1>7. Read'
  BY DEF FenceAction, Read
<1>8. CASE phase' = "CLOSED" /\ UNCHANGED plugin
  BY <1>1, <1>2, <1>4, <1>7, <1>8 DEF Called
<1>9. ASSUME NEW success \in BOOLEAN,
             plugin' = [op |-> header.msg_type, node |-> nodename, secret |-> secret,
                        success |-> success],
             header' = [msg_type |-> VerdictType(success), data_length |-> HEADER_SIZE],
             phase' = "SEND", next_phase' = "CANCELED"
      PROVE  Called'
  <2>1. plugin' # NoCall /\ plugin'.success = success
    BY <1>9, NotNoCall
  <2>2. VerdictHeader' = header'
    BY <1>9, <2>1 DEF VerdictHeader, VerdictType
  <2>3. plugin'.op = FenceActions[Action] /\ plugin'.node = Node /\ plugin'.secret = Secret
    BY <1>3, <1>6, <1>9
  <2>4. back' = << >> /\ Len(back') = 0
    BY <1>1, <1>2
  <2> QED BY <1>1, <1>5, <1>9, <2>1, <2>2, <2>3, <2>4, Sizes DEF Called
<1> QED
  BY <1>4, <1>7, <1>8, <1>9 DEF FenceAction

\* The reply goes out piece by piece.
LEMMA ClientReplied ==
  ASSUME CoreInv, ClientInv, NEW n \in 1 .. IO_BUFFER_SIZE, SendMessage(n)
  PROVE  ClientInv'
<1>1. /\ UNCHANGED <<sender, cpc, args, exit, unended, sent, stream, hung_up, header,
                     field_offset, nodename, secret, taken, plugin>>
      /\ TypeOK /\ BufferInv
  BY DEF SendMessage, senderVars, CoreInv
<1> SUFFICES ASSUME sender = "client" PROVE Unsent' /\ Sent' /\ Read' /\ Called'
  BY <1>1 DEF ClientInv
<1>2. Unsent /\ Sent /\ Read /\ Called
  BY DEF ClientInv
<1>3. /\ phase = "SEND" /\ io_offset \in Nat /\ io_offset + n <= 4 /\ n \in Nat
      /\ Len(back') = Len(back) + n
      /\ \A i \in 1 .. Len(back) : back'[i] = back[i]
      /\ \A i \in 1 .. n : back'[Len(back) + i] = HeaderBytes(header)[io_offset + i]
  BY <1>1, Sends, Sizes
<1>4. /\ plugin # NoCall /\ next_phase = "CANCELED" /\ header = VerdictHeader
      /\ Len(back) = io_offset /\ sent # << >>
      /\ \A i \in 1 .. Len(back) : back[i] = HeaderBytes(VerdictHeader)[i]
  BY <1>2, <1>3 DEF Called, Unsent
<1>5. /\ \/ phase' = "SEND" /\ next_phase' = next_phase /\ io_offset' = io_offset + n
         \/ phase' = "CLOSED"
  BY <1>4 DEF SendMessage
<1>6. Unsent' /\ Sent'
  BY <1>1, <1>4, ClientStays
<1>7. Read'
  BY <1>5 DEF Read
<1>8. /\ VerdictHeader' = VerdictHeader /\ Node' = Node /\ Secret' = Secret /\ Action' = Action
  BY <1>1, SameRequest DEF VerdictHeader
<1>9. \A i \in 1 .. Len(back') : back'[i] = HeaderBytes(VerdictHeader)[i]
  <2> TAKE i \in 1 .. Len(back')
  <2>1. CASE i <= io_offset
    <3>1. i \in 1 .. Len(back)
      BY <1>3, <1>4, <2>1
    <3> QED BY <1>3, <1>4, <3>1
  <2>2. CASE i > io_offset
    <3>1. i - io_offset \in 1 .. n /\ io_offset + (i - io_offset) = i
      BY <1>3, <1>4, <2>2
    <3>2. back'[Len(back) + (i - io_offset)] = HeaderBytes(header)[io_offset + (i - io_offset)]
      BY <1>3, <3>1
    <3> QED BY <1>4, <3>1, <3>2
  <2> QED BY <1>3, <2>1, <2>2
<1>10. Called'
  <2>1. Len(back') <= HEADER_SIZE /\ Len(back') = io_offset + n
    BY <1>3, <1>4, Sizes
  <2>2. HeaderBytes(VerdictHeader)' = HeaderBytes(VerdictHeader)
    BY <1>8 DEF HeaderBytes
  <2>3. header' = VerdictHeader
    BY <1>1, <1>4
  <2>4. plugin' # NoCall
    BY <1>1, <1>4
  <2>5. /\ plugin'.op = FenceActions[Action] /\ plugin'.node = Node /\ plugin'.secret = Secret
    BY <1>1, <1>2, <1>4 DEF Called
  <2>6. phase' = "SEND" => next_phase' = "CANCELED" /\ Len(back') = io_offset'
    BY <1>4, <1>5, <2>1
  <2> QED BY <1>5, <1>8, <1>9, <2>1, <2>2, <2>3, <2>4, <2>5, <2>6 DEF Called
<1> QED
  BY <1>6, <1>7, <1>10

LEMMA NextClient ==
  ASSUME CoreInv, StreamInv, ClientInv, [Next]_vars
  PROVE  ClientInv'
<1>1. CASE OtherHangsUp \/ \E m \in OtherMessages : OtherSends(m)
  BY <1>1 DEF OtherHangsUp, OtherSends, senderVars, ClientInv
<1>2. CASE CloseConnection
  <2>1. /\ phase' \in {"CLOSED", "KILLED"}
        /\ UNCHANGED <<sender, cpc, args, exit, unended, sent, stream, back, hung_up, taken,
                       plugin>>
    BY <1>2 DEF CloseConnection, senderVars, wireVars
  <2>2. CASE sender = "client"
    <3>1. Unsent /\ Read /\ Called
      BY <2>2 DEF ClientInv
    <3>2. Unsent' /\ Sent'
      BY <2>1, <2>2, <3>1, ClientStays DEF Unsent
    <3>3. Action' = Action /\ Node' = Node /\ Secret' = Secret /\ VerdictHeader' = VerdictHeader
      BY <2>1, SameRequest DEF VerdictHeader
    <3>4. Called'
      <4>1. HeaderBytes(VerdictHeader)' = HeaderBytes(VerdictHeader)
        BY <3>3 DEF HeaderBytes
      <4> QED BY <2>1, <3>1, <3>3, <4>1 DEF Called
    <3>5. Read'
      BY <2>1 DEF Read
    <3> QED BY <3>2, <3>4, <3>5 DEF ClientInv
  <2>3. CASE sender # "client"
    BY <2>1, <2>3 DEF ClientInv
  <2> QED BY <2>2, <2>3
<1>3. CASE UNCHANGED vars
  <2>1. UNCHANGED <<sender, cpc, args, exit, unended, sent, stream, back, hung_up, phase,
                    next_phase, header, io_offset, field_offset, nodename, secret, taken,
                    plugin>>
    BY <1>3 DEF vars, senderVars, wireVars, serverVars, bufferVars
  <2>2. /\ Request' = Request /\ SecretOffset' = SecretOffset /\ RequestLength' = RequestLength
        /\ Node' = Node /\ Secret' = Secret /\ Action' = Action
        /\ VerdictHeader' = VerdictHeader
    BY <2>1, SameRequest DEF VerdictHeader
  <2>3. HeaderBytes(VerdictHeader)' = HeaderBytes(VerdictHeader)
    BY <2>2 DEF HeaderBytes
  <2>4. Unsent' = Unsent /\ Sent' = Sent
    BY <2>1, <2>2 DEF Unsent, Sent
  <2>5. Read' = Read
    BY <2>1, <2>2 DEF Read
  <2>6. Called' = Called
    BY <2>1, <2>2, <2>3 DEF Called
  <2> QED BY <2>1, <2>4, <2>5, <2>6 DEF ClientInv
<1>4. CASE Client
  BY <1>4, ReadingClient, RequestingClient, AnsweredClient DEF Client
<1>5. CASE Server
  BY <1>2, <1>5, ClientReceived, ClientReplied, ClientProcessed, ClientParsed, ClientFenced
     DEF Server
<1> QED
  BY <1>1, <1>3, <1>4, <1>5 DEF Next

PathInv == CoreInv /\ StreamInv /\ ClientInv

LEMMA PathHolds == Spec => []PathInv
<1>1. Init => PathInv
  BY InitCore, InitStream, InitClient DEF PathInv
<1>2. PathInv /\ [Next]_vars => PathInv'
  BY NextCore, NextStream, NextClient DEF PathInv
<1> QED
  BY <1>1, <1>2, PTL DEF Spec

\* The plugin is called for the node, with the secret and the action that stdin gave,
\* each exactly once (ClientParameters.cpp:56-68, Arguments.cpp:42-86,
\* ClientConnector.cpp:154-167, ServerConnector.cpp:557-582).
THEOREM FencesNamedNode == Spec => []NamedNodeFenced
<1>1. PathInv => NamedNodeFenced
  <2> SUFFICES ASSUME PathInv, plugin # NoCall, sender = "client"
               PROVE  /\ given["nodename"] = {plugin.node} /\ given["secret"] = {plugin.secret}
                      /\ \E a \in DOMAIN FenceActions :
                           given["action"] = {a} /\ plugin.op = FenceActions[a]
    BY DEF NamedNodeFenced
  <2>1. /\ plugin.op = FenceActions[Action] /\ plugin.node = Node /\ plugin.secret = Secret
        /\ sent # << >>
    BY DEF PathInv, ClientInv, Called, Unsent
  <2>2. Sendable
    BY <2>1 DEF PathInv, CoreInv, SenderInv
  <2>3. \A k \in Keys : given[k] = {args[k].value}
    BY <2>2 DEF Sendable, ArgsMatch
  <2>4. /\ given["nodename"] = {Node} /\ given["secret"] = {Secret} /\ given["action"] = {Action}
    BY <2>3, RequestAssumption DEF Node, Secret, Action, Args!Value
  <2> QED BY <2>1, <2>2, <2>4 DEF Sendable
<1> QED
  BY <1>1, PathHolds, PTL

\* The client's exit code is the plugin's verdict (ServerConnector.cpp:583-590,
\* ClientConnector.cpp:173-182).
THEOREM ReturnsVerdict == Spec => []VerdictReturned
<1>1. PathInv => VerdictReturned
  <2> SUFFICES ASSUME PathInv PROVE VerdictReturned
    OBVIOUS
  <2>1. sender = "other" => exit = "running"
    BY DEF PathInv, CoreInv, SenderInv
  <2>2. sender = "client" => Unsent /\ Sent
    BY DEF PathInv, ClientInv
  <2>3. sender \in {"client", "other"}
    BY DEF PathInv, CoreInv, TypeOK
  <2>4. plugin # NoCall => plugin.success \in BOOLEAN
    BY DEF PathInv, CoreInv, TypeOK
  <2> QED BY <2>1, <2>2, <2>3, <2>4 DEF Unsent, Sent, VerdictReturned
<1> QED
  BY <1>1, PathHolds, PTL

\* Only a line without its newline makes the client die of an exception: the fields of
\* every value it accepts fit its buffer, and every reply is one of the two verdicts
\* (ClientParameters.cpp:56-68, ClientConnector.cpp:164-182).
THEOREM KilledByLine == Spec => []KilledByUnendedLine
<1>1. PathInv => KilledByUnendedLine
  <2> SUFFICES ASSUME PathInv PROVE KilledByUnendedLine
    OBVIOUS
  <2>1. sender = "other" => exit = "running"
    BY DEF PathInv, CoreInv, SenderInv
  <2>2. sender = "client" => Unsent /\ Sent
    BY DEF PathInv, ClientInv
  <2>3. sender \in {"client", "other"}
    BY DEF PathInv, CoreInv, TypeOK
  <2> QED BY <2>1, <2>2, <2>3 DEF Unsent, Sent, KilledByUnendedLine
<1> QED
  BY <1>1, PathHolds, PTL

-----------------------------------------------------------------------------
(***************************************************************************)
(* The fields and the bytes of their message.  FlattenSeq is a recursive   *)
(* function; that it exists, and adds a text at the end for a sequence     *)
(* with one more, follows from the least index where it would not.         *)
(***************************************************************************)
IsFlat(f, ss) == f = [i \in 1 .. Len(ss) |-> IF i = 1 THEN ss[i] ELSE f[i - 1] \o ss[i]]

TheFlat(ss) == CHOOSE f : IsFlat(f, ss)

LEMMA FlattenIs ==
  ASSUME NEW ss, Len(ss) # 0
  PROVE  FlattenSeq(ss) = TheFlat(ss)[Len(ss)]
BY DEF FlattenSeq, TheFlat, IsFlat

LEMMA FlatExists ==
  ASSUME NEW ss \in Seq(Text)
  PROVE  \E f \in [1 .. Len(ss) -> Text] : IsFlat(f, ss)
<1> DEFINE n == Len(ss)
           FlatTo(m, f) == \A i \in 1 .. m : f[i] = IF i = 1 THEN ss[i] ELSE f[i - 1] \o ss[i]
           S == {m \in 0 .. n : ~ \E f \in [1 .. n -> Text] : FlatTo(m, f)}
<1>1. n \in Nat /\ \A i \in 1 .. n : ss[i] \in Text
  OBVIOUS
<1>2. \E f \in [1 .. n -> Text] : FlatTo(0, f)
  <2> DEFINE f == [i \in 1 .. n |-> << >>]
  <2>1. f \in [1 .. n -> Text] /\ FlatTo(0, f)
    BY DEF Text
  <2> QED BY <2>1
<1>3. S = {}
  <2> SUFFICES ASSUME S # {} PROVE FALSE
    OBVIOUS
  <2>1. S \subseteq Nat
    BY <1>1
  <2>2. PICK m \in S : \A k \in S : m <= k
    <3> HIDE DEF S
    <3> QED BY <2>1, Least
  <2>3. m \in 1 .. n /\ m - 1 \in 0 .. n /\ m - 1 \notin S
    <3>1. m \in 0 .. n /\ ~ \E f \in [1 .. n -> Text] : FlatTo(m, f)
      BY <2>2
    <3>2. m # 0
      <4> HIDE DEF FlatTo
      <4> QED BY <1>2, <3>1
    <3>3. m - 1 \notin S
      <4>1. m \in Nat /\ ~ (m <= m - 1)
        BY <1>1, <3>1
      <4> HIDE DEF S
      <4> QED BY <2>2, <4>1
    <3> QED BY <1>1, <3>1, <3>2, <3>3
  <2>4. PICK f \in [1 .. n -> Text] : FlatTo(m - 1, f)
    BY <2>3
  <2> DEFINE v == IF m = 1 THEN ss[m] ELSE f[m - 1] \o ss[m]
             g == [f EXCEPT ![m] = v]
  <2>5. v \in Text
    <3>1. CASE m = 1
      BY <1>1, <2>3, <3>1
    <3>2. CASE m # 1
      <4>1. m - 1 \in 1 .. n
        BY <1>1, <2>3, <3>2
      <4>2. f[m - 1] \in Text /\ ss[m] \in Text
        BY <1>1, <2>3, <4>1
      <4> QED BY <3>2, <4>2, Joined
    <3> QED BY <3>1, <3>2
  <2>6. g \in [1 .. n -> Text] /\ g[m] = v /\ \A i \in 1 .. n : i # m => g[i] = f[i]
    BY <2>3, <2>5
  <2> HIDE DEF g
  <2>7. ASSUME NEW i \in 1 .. m
        PROVE  g[i] = IF i = 1 THEN ss[i] ELSE g[i - 1] \o ss[i]
    <3>1. i \in 1 .. n /\ i \in Nat /\ m \in Nat
      BY <1>1, <2>3
    <3>2. i # 1 => i - 1 \in 1 .. n /\ i - 1 # m /\ g[i - 1] = f[i - 1]
      BY <1>1, <2>3, <2>6, <3>1
    <3>3. CASE i = m
      BY <2>6, <3>2, <3>3
    <3>4. CASE i # m
      <4>1. i \in 1 .. m - 1
        BY <3>1, <3>4
      <4>2. f[i] = IF i = 1 THEN ss[i] ELSE f[i - 1] \o ss[i]
        BY <2>4, <4>1
      <4> QED BY <2>6, <3>1, <3>2, <3>4, <4>2
    <3> QED BY <3>3, <3>4
  <2> QED BY <2>2, <2>6, <2>7
<1>4. PICK f \in [1 .. n -> Text] : FlatTo(n, f)
  BY <1>1, <1>3
<1>5. IsFlat(f, ss)
  BY <1>4 DEF IsFlat
<1> QED
  BY <1>5

LEMMA FlatAgree ==
  ASSUME NEW ss \in Seq(Text), NEW s \in Text, NEW f, NEW g,
         IsFlat(f, ss), IsFlat(g, Append(ss, s))
  PROVE  \A i \in 1 .. Len(ss) : f[i] = g[i]
<1> DEFINE n == Len(ss)
           S == {i \in 1 .. n : f[i] # g[i]}
<1>1. /\ n \in Nat /\ Len(Append(ss, s)) = n + 1
      /\ \A i \in 1 .. n : Append(ss, s)[i] = ss[i]
  OBVIOUS
<1>2. \A i \in 1 .. n : /\ f[i] = IF i = 1 THEN ss[i] ELSE f[i - 1] \o ss[i]
                        /\ g[i] = IF i = 1 THEN ss[i] ELSE g[i - 1] \o ss[i]
  <2> DEFINE ts == Append(ss, s)
  <2>1. /\ f = [i \in 1 .. Len(ss) |-> IF i = 1 THEN ss[i] ELSE f[i - 1] \o ss[i]]
        /\ g = [i \in 1 .. Len(ts) |-> IF i = 1 THEN ts[i] ELSE g[i - 1] \o ts[i]]
    BY DEF IsFlat
  <2>2. Len(ts) = n + 1 /\ \A i \in 1 .. n : ts[i] = ss[i] /\ i \in 1 .. n + 1
    BY <1>1
  <2> HIDE DEF ts
  <2> TAKE i \in 1 .. n
  <2>3. f[i] = IF i = 1 THEN ss[i] ELSE f[i - 1] \o ss[i]
    BY <2>1
  <2>4. g[i] = IF i = 1 THEN ts[i] ELSE g[i - 1] \o ts[i]
    BY <2>1, <2>2
  <2> QED BY <2>2, <2>3, <2>4
<1> SUFFICES ASSUME S # {} PROVE FALSE
  OBVIOUS
<1>3. PICK m \in S : \A k \in S : m <= k
  <2>1. S \subseteq Nat
    BY <1>1
  <2> HIDE DEF S
  <2> QED BY <2>1, Least
<1>4. CASE m = 1
  BY <1>2, <1>3, <1>4
<1>5. CASE m # 1
  <2>1. m - 1 \in 1 .. n /\ m - 1 \notin S
    BY <1>1, <1>3, <1>5
  <2> QED BY <1>2, <1>3, <1>5, <2>1
<1> QED
  BY <1>4, <1>5

LEMMA FlattenAppend ==
  ASSUME NEW ss \in Seq(Text), NEW s \in Text
  PROVE  FlattenSeq(ss) \in Text /\ FlattenSeq(Append(ss, s)) = FlattenSeq(ss) \o s
<1> DEFINE n == Len(ss)
           ts == Append(ss, s)
           f == TheFlat(ss)
           g == TheFlat(ts)
<1>1. /\ n \in Nat /\ ts \in Seq(Text) /\ Len(ts) = n + 1 /\ ts[n + 1] = s
  OBVIOUS
<1>2. IsFlat(f, ss) /\ IsFlat(g, ts)
  <2>1. (\E x : IsFlat(x, ss)) /\ \E x : IsFlat(x, ts)
    <3> HIDE DEF ts
    <3> QED BY <1>1, FlatExists
  <2> HIDE DEF IsFlat, ts
  <2> QED BY <2>1 DEF TheFlat
<1>3. FlattenSeq(ts) = g[n + 1] /\ (n # 0 => FlattenSeq(ss) = f[n])
  <2>1. Len(ts) # 0
    BY <1>1
  <2>2. FlattenSeq(ts) = g[Len(ts)]
    BY <2>1, FlattenIs
  <2>3. n # 0 => FlattenSeq(ss) = f[n]
    BY FlattenIs
  <2> QED BY <1>1, <2>2, <2>3
<1>4. g[n + 1] = IF n + 1 = 1 THEN s ELSE g[(n + 1) - 1] \o s
  <2>1. n + 1 \in 1 .. n + 1
    BY <1>1
  <2> HIDE DEF ts, g
  <2> QED BY <1>1, <1>2, <2>1 DEF IsFlat
<1>5. CASE n = 0
  <2>1. ss = << >> /\ FlattenSeq(ss) = << >>
    BY <1>5 DEF FlattenSeq
  <2>2. << >> \o s = s
    BY ConcatEmptySeq DEF Text
  <2>3. << >> \in Text
    BY DEF Text
  <2>4. FlattenSeq(ts) = s
    BY <1>3, <1>4, <1>5
  <2> QED BY <2>1, <2>2, <2>3, <2>4
<1>6. CASE n # 0
  <2>1. f[n] = g[n]
    <3>1. \A i \in 1 .. Len(ss) : f[i] = g[i]
      <4> HIDE DEF f, g
      <4> QED BY <1>2, FlatAgree
    <3> QED BY <1>1, <1>6, <3>1
  <2>2. f[n] \in Text
    <3>1. PICK x \in [1 .. n -> Text] : IsFlat(x, ss)
      BY FlatExists
    <3>2. PICK y \in [1 .. n + 1 -> Text] : IsFlat(y, ts)
      <4> HIDE DEF ts
      <4> QED BY <1>1, FlatExists
    <3>3. x[n] = y[n] /\ f[n] = y[n]
      <4>1. \A i \in 1 .. Len(ss) : x[i] = y[i]
        BY <3>1, <3>2, FlatAgree
      <4>2. \A i \in 1 .. Len(ss) : f[i] = y[i]
        <5> HIDE DEF f
        <5> QED BY <1>2, <3>2, FlatAgree
      <4>3. n \in 1 .. Len(ss)
        BY <1>1, <1>6
      <4> QED BY <4>1, <4>2, <4>3
    <3>4. x[n] \in Text
      BY <1>1, <1>6, <3>1
    <3> QED BY <3>3, <3>4
  <2>3. g[n + 1] = g[n] \o s
    BY <1>1, <1>4, <1>6
  <2> QED BY <1>3, <1>6, <2>1, <2>2, <2>3
<1> QED
  BY <1>5, <1>6

\* The two bytes of a length are its bytes again.
LEMMA BytesBack ==
  ASSUME NEW a \in Byte, NEW b \in Byte
  PROVE  ToBytes(a * BASE + b) = <<a, b>>
<1> DEFINE v == a * BASE + b
<1>1. v \in Uint16 /\ v \in Nat
  BY TwoBytes, Sizes
<1>2. PICK h \in Byte, l \in Byte : h = High(v) /\ l = Low(v) /\ h * BASE + l = v
  BY <1>1, Halves
<1>3. BASE \in Nat /\ a \in Nat /\ b \in Nat /\ h \in Nat /\ l \in Nat /\ b < BASE /\ l < BASE
  BY Sizes DEF Byte
<1>4. ASSUME NEW x \in Nat, NEW y \in Nat, NEW p \in Nat, NEW q \in Nat, x < y, p < BASE
      PROVE  x * BASE + p < y * BASE + q
  <2>1. (x + 1) * BASE <= y * BASE
    BY <1>3, <1>4
  <2>2. (x + 1) * BASE = x * BASE + BASE
    BY <1>3, <1>4
  <2>3. x * BASE \in Nat /\ y * BASE \in Nat
    BY <1>3, <1>4
  <2> QED BY <1>3, <1>4, <2>1, <2>2, <2>3
<1>5. h * BASE + l = a * BASE + b /\ a * BASE \in Nat /\ h * BASE \in Nat
  BY <1>2, <1>3
<1>6. h = a
  <2>1. ~(h < a)
    BY <1>3, <1>4, <1>5
  <2>2. ~(a < h)
    BY <1>3, <1>4, <1>5
  <2> QED BY <1>3, <2>1, <2>2
<1>7. l = b
  <2>1. a * BASE + l = a * BASE + b /\ a * BASE \in Nat
    BY <1>5, <1>6
  <2> HIDE DEF v
  <2> QED BY <1>3, <2>1
<1>8. ToBytes(v) = <<High(v), Low(v)>>
  BY DEF ToBytes, High, Low
<1> QED
  BY <1>2, <1>6, <1>7, <1>8

Written(t) == ToBytes(Len(t)) \o t

\* One field more in the fields is one more in what they spell.
LEMMA SpellingAppend ==
  ASSUME NEW ts \in Seq(Text), NEW t \in Text, Written(t) \in Text,
         \A i \in 1 .. Len(ts) : Written(ts[i]) \in Text
  PROVE  Spelling(ts) \in Text /\ Spelling(Append(ts, t)) = Spelling(ts) \o Written(t)
<1> DEFINE ss == [i \in 1 .. Len(ts) |-> Written(ts[i])]
           us == Append(ts, t)
<1>1. ss \in Seq(Text) /\ Len(ss) = Len(ts) /\ Len(ts) \in Nat
  OBVIOUS
<1>2. [i \in 1 .. Len(us) |-> Written(us[i])] = Append(ss, Written(t))
  <2>1. Len(us) = Len(ts) + 1 /\ us[Len(ts) + 1] = t /\ \A i \in 1 .. Len(ts) : us[i] = ts[i]
    OBVIOUS
  <2> HIDE DEF us, Written
  <2> DEFINE w == [i \in 1 .. Len(us) |-> Written(us[i])]
             x == Append(ss, Written(t))
  <2>2. /\ DOMAIN w = 1 .. Len(ts) + 1 /\ w[Len(ts) + 1] = Written(t)
        /\ \A i \in 1 .. Len(ts) : w[i] = Written(ts[i])
    BY <1>1, <2>1
  <2>3. /\ DOMAIN x = 1 .. Len(ts) + 1 /\ x[Len(ts) + 1] = Written(t)
        /\ \A i \in 1 .. Len(ts) : x[i] = Written(ts[i])
    BY <1>1
  <2>4. x \in Seq(Text) /\ Len(x) = Len(ts) + 1
    BY <1>1
  <2>5. w = [i \in 1 .. Len(ts) + 1 |-> w[i]] /\ x = [i \in 1 .. Len(ts) + 1 |-> x[i]]
    <3>1. w = [i \in DOMAIN w |-> w[i]]
      OBVIOUS
    <3>2. x = [i \in 1 .. Len(x) |-> x[i]]
      <4> HIDE DEF x
      <4> QED BY <2>4
    <3> QED BY <2>2, <2>4, <3>1, <3>2
  <2>6. \A i \in 1 .. Len(ts) + 1 : w[i] = x[i]
    <3> TAKE i \in 1 .. Len(ts) + 1
    <3>1. i \in 1 .. Len(ts) \/ i = Len(ts) + 1
      BY <1>1
    <3> QED BY <2>2, <2>3, <3>1
  <2> HIDE DEF w, x
  <2>7. w = x
    BY <2>5, <2>6
  <2> QED BY <2>7 DEF w, x
<1>3. Spelling(ts) = FlattenSeq(ss) /\ Spelling(us) = FlattenSeq(Append(ss, Written(t)))
  BY <1>2 DEF Spelling, Written
<1> HIDE DEF ss, us
<1>4. FlattenSeq(ss) \in Text /\ FlattenSeq(Append(ss, Written(t))) = FlattenSeq(ss) \o Written(t)
  BY <1>1, FlattenAppend
<1> QED
  BY <1>3, <1>4 DEF us

\* A field read from the buffer is written as it stands there.
LEMMA FieldWritten ==
  ASSUME NEW buffer \in Buffer, NEW capacity \in 0 .. IO_BUFFER_SIZE, NEW offset \in Nat,
         NEW from \in 0 .. offset, HaveField(buffer, capacity, offset)
  PROVE  LET t == Field(buffer, offset)
             to == offset + 2 + Len(t) IN
         /\ Written(t) \in Text /\ Len(t) \in Uint16
         /\ Get(buffer, from, offset) \o Written(t) = Get(buffer, from, to)
<1> DEFINE t == Field(buffer, offset)
           n == Len(t)
           to == offset + 2 + n
           s == Get(buffer, from, offset)
           w == Written(t)
           g == Get(buffer, from, to)
<1>1. /\ t \in Text /\ n \in Nat /\ to <= capacity /\ FieldLength(buffer, offset) = n
      /\ \A i \in 1 .. n : t[i] = buffer[offset + 1 + i]
  BY FieldWithin
<1>2. from \in Nat /\ from <= offset /\ offset \in Nat /\ capacity <= IO_BUFFER_SIZE
      /\ to \in offset .. IO_BUFFER_SIZE /\ to \in from .. IO_BUFFER_SIZE
      /\ offset \in from .. IO_BUFFER_SIZE /\ to \in Nat
      /\ offset \in BufferIndex /\ offset + 1 \in BufferIndex
  <2> HIDE DEF n, t
  <2> QED BY <1>1, Sizes DEF BufferIndex
<1>3. PICK a \in Byte, b \in Byte : a = buffer[offset] /\ b = buffer[offset + 1]
  BY <1>2 DEF Buffer
<1>4. n = a * BASE + b
  BY <1>1, <1>3 DEF FieldLength, FromBytes
<1>5. n \in Uint16 /\ ToBytes(n) = <<a, b>>
  BY <1>3, <1>4, TwoBytes, BytesBack
<1>6. <<a, b>> \in Text /\ Len(<<a, b>>) = 2
  BY DEF Text
<1> DEFINE two == <<a, b>>
<1>7. two \in Text /\ Len(two) = 2 /\ two[1] = buffer[offset] /\ two[2] = buffer[offset + 1]
      /\ w = two \o t
  BY <1>3, <1>5, <1>6 DEF Written
<1> HIDE DEF two, w, t, n, s, g, to
<1>8. /\ two \o t \in Text /\ Len(two \o t) = Len(two) + Len(t)
      /\ \A i \in 1 .. Len(two) : (two \o t)[i] = two[i]
      /\ \A i \in 1 .. Len(t) : (two \o t)[Len(two) + i] = t[i]
  BY <1>1, <1>7, Joined
<1>9. /\ w \in Text /\ Len(w) = 2 + n
      /\ \A i \in 1 .. 2 + n : w[i] = buffer[offset + i - 1]
  <2>1. w \in Text /\ Len(w) = 2 + n
    BY <1>7, <1>8 DEF n
  <2>2. ASSUME NEW i \in 1 .. 2 + n
        PROVE  w[i] = buffer[offset + i - 1]
    <3>1. CASE i = 1
      <4>1. offset + 1 - 1 = offset
        BY <1>2
      <4> QED BY <1>7, <1>8, <3>1, <4>1
    <3>2. CASE i = 2
      <4>1. offset + 2 - 1 = offset + 1
        BY <1>2
      <4> QED BY <1>7, <1>8, <3>2, <4>1
    <3>3. CASE i > 2
      <4>1. i - 2 \in 1 .. n /\ 2 + (i - 2) = i /\ offset + 1 + (i - 2) = offset + i - 1
        BY <1>1, <1>2, <3>3
      <4>2. w[2 + (i - 2)] = t[i - 2] /\ t[i - 2] = buffer[offset + 1 + (i - 2)]
        BY <1>1, <1>7, <1>8, <4>1 DEF n
      <4> QED BY <4>1, <4>2
    <3>4. i = 1 \/ i = 2 \/ i > 2
      BY <1>1
    <3> QED BY <3>1, <3>2, <3>3, <3>4
  <2> QED BY <2>1, <2>2
<1>10. s \in Text /\ Len(s) = offset - from
       /\ \A i \in 1 .. offset - from : s[i] = buffer[from + i - 1]
  BY <1>2, GetFrom DEF s
<1>11. g \in Text /\ Len(g) = to - from
       /\ \A i \in 1 .. to - from : g[i] = buffer[from + i - 1]
  BY <1>2, GetFrom DEF g
<1>12. /\ s \o w \in Text /\ Len(s \o w) = Len(s) + Len(w)
       /\ \A i \in 1 .. Len(s) : (s \o w)[i] = s[i]
       /\ \A i \in 1 .. Len(w) : (s \o w)[Len(s) + i] = w[i]
  BY <1>9, <1>10, Joined
<1>13. s \o w = g
  <2> DEFINE d == offset - from
  <2>1. d \in Nat /\ offset = from + d /\ to = offset + 2 + n /\ to - from = d + (2 + n)
    BY <1>1, <1>2 DEF to
  <2> HIDE DEF d
  <2>2. Len(s) = d /\ Len(s \o w) = Len(g)
    BY <1>9, <1>10, <1>11, <1>12, <2>1 DEF d
  <2>3. ASSUME NEW i \in 1 .. Len(g)
        PROVE  (s \o w)[i] = g[i]
    <3>1. i \in 1 .. d + (2 + n) /\ i \in Nat /\ g[i] = buffer[from + i - 1]
      BY <1>11, <2>1
    <3>2. CASE i <= d
      <4>1. i \in 1 .. d
        BY <2>1, <3>1, <3>2
      <4>2. (s \o w)[i] = s[i] /\ s[i] = buffer[from + i - 1]
        BY <1>10, <1>12, <2>2, <4>1 DEF d
      <4> QED BY <3>1, <4>2
    <3>3. CASE i > d
      <4>1. i - d \in 1 .. 2 + n /\ d + (i - d) = i /\ offset + (i - d) - 1 = from + i - 1
        BY <1>1, <1>2, <2>1, <3>1, <3>3
      <4>2. (s \o w)[d + (i - d)] = w[i - d] /\ w[i - d] = buffer[offset + (i - d) - 1]
        BY <1>9, <1>12, <2>2, <4>1
      <4> QED BY <3>1, <4>1, <4>2
    <3>4. i <= d \/ i > d
      BY <2>1, <3>1
    <3> QED BY <3>2, <3>3, <3>4
  <2> QED BY <1>11, <1>12, <2>2, <2>3, SeqEqual DEF Text
<1> QED
  BY <1>5, <1>9, <1>13 DEF t, n, to, s, w, g

NoNode == nodename = << >> /\ \A i \in 1 .. Len(fields) : KeyOf(fields[i]) # NODENAME

\* A connection on which the plugin was called takes no other message.
FieldsInv ==
  /\ \A i \in 1 .. Len(fields) : Len(fields[i]) \in Uint16
  /\ phase \in {"RECV", "EXECUTING"} \/ (phase = "SEND" /\ next_phase = "RECV") =>
       nodename = << >>
  /\ phase = "PARSE" => NoNode \/ NamesNode(nodename)
  /\ plugin # NoCall =>
       phase \in {"SEND", "CLOSED", "LOST", "KILLED"} /\ next_phase = "CANCELED"
  /\ FieldsSpellMessage

LEMMA InitFields == Init => FieldsInv
<1> SUFFICES ASSUME Init PROVE FieldsInv
  OBVIOUS
<1>1. fields = << >> /\ nodename = << >> /\ phase = "RECV" /\ plugin = NoCall
  BY DEF Init
<1> QED
  BY <1>1 DEF FieldsInv, FieldsSpellMessage

\* What a step that reads no field keeps.
LEMMA SameFields ==
  ASSUME FieldsInv, UNCHANGED <<nodename, fields, taken>>,
         \/ UNCHANGED <<phase, next_phase, plugin, io_buffer, field_offset>>
         \/ /\ phase' \in {"CLOSED", "LOST", "KILLED"} /\ UNCHANGED <<next_phase, plugin>>
         \/ /\ phase' \in {"RECV", "EXECUTING"} /\ nodename = << >> /\ plugin' = NoCall
         \/ /\ phase' = "SEND" /\ plugin' = NoCall /\ nodename = << >>
         \/ /\ phase = "SEND" /\ phase' = "SEND" /\ UNCHANGED <<next_phase, plugin>>
  PROVE  FieldsInv'
<1>1. \A i \in 1 .. Len(fields') : Len(fields'[i]) \in Uint16
  BY DEF FieldsInv
<1>2. /\ (\A n : NamesNode(n)' = NamesNode(n)) /\ NoNode' = NoNode
      /\ Spelling(fields)' = Spelling(fields) /\ Last(taken)' = Last(taken)
  BY DEF NamesNode, NoNode, Spelling, Last
<1>3. plugin' = plugin => NamesNode(plugin.node)' = NamesNode(plugin.node)
  BY DEF NamesNode
<1>4. NamesNode(nodename)' = NamesNode(nodename)
  BY DEF NamesNode
<1>5. CASE UNCHANGED <<phase, next_phase, plugin, io_buffer, field_offset>>
  <2>1. Get(io_buffer, HEADER_SIZE, field_offset)' = Get(io_buffer, HEADER_SIZE, field_offset)
    BY <1>5 DEF Get
  <2> QED BY <1>1, <1>2, <1>3, <1>4, <1>5, <2>1 DEF FieldsInv, FieldsSpellMessage
<1>6. CASE phase' \in {"CLOSED", "LOST", "KILLED"} /\ UNCHANGED <<next_phase, plugin>>
  BY <1>1, <1>2, <1>3, <1>6 DEF FieldsInv, FieldsSpellMessage
<1>7. CASE phase' \in {"RECV", "EXECUTING", "SEND"} /\ nodename = << >> /\ plugin' = NoCall
  BY <1>1, <1>7 DEF FieldsInv, FieldsSpellMessage
<1>8. CASE phase = "SEND" /\ phase' = "SEND" /\ UNCHANGED <<next_phase, plugin>>
  BY <1>1, <1>2, <1>3, <1>8 DEF FieldsInv, FieldsSpellMessage
<1> QED
  BY <1>5, <1>6, <1>7, <1>8

\* A field is added to those read, and counts for the name of the node.
LEMMA FieldAdded ==
  ASSUME CoreInv, FieldsInv, ReadField
  PROVE  FieldsInv'
<1> DEFINE text == Field(io_buffer, field_offset)
<1>1. /\ UNCHANGED <<next_phase, io_buffer, io_offset, taken, plugin>> /\ phase = "PARSE"
      /\ TypeOK /\ BufferInv
  BY DEF ReadField, bufferVars, CoreInv
<1>2. plugin = NoCall /\ (NoNode \/ NamesNode(nodename))
      /\ Spelling(fields) = Get(io_buffer, HEADER_SIZE, field_offset)
  BY <1>1 DEF FieldsInv, FieldsSpellMessage
<1>3. CASE phase' = "CLOSED" /\ UNCHANGED <<field_offset, nodename, secret, fields>>
  BY <1>1, <1>3, SameFields
<1>4. CASE HaveField(io_buffer, io_offset, field_offset) /\ HasSplit(text)
  <2>1. /\ io_buffer \in Buffer /\ io_offset \in 0 .. IO_BUFFER_SIZE /\ field_offset \in Nat
        /\ HEADER_SIZE \in 0 .. field_offset /\ fields \in Seq(Text)
    BY <1>1, Sizes DEF TypeOK, BufferInv
  <2>2. /\ field_offset' = field_offset + 2 + Len(text) /\ fields' = Append(fields, text)
        /\ nodename' = IF KeyOf(text) = NODENAME /\ Len(ValueOf(text)) <= NODENAME_SIZE
                       THEN ValueOf(text) ELSE nodename
        /\ phase' = IF \/ KeyOf(text) = NODENAME /\ Len(ValueOf(text)) > NODENAME_SIZE
                       \/ KeyOf(text) = SECRET /\ Len(ValueOf(text)) > MAX_SECRET_LENGTH
                    THEN "LOST" ELSE "PARSE"
    BY <1>4 DEF ReadField
  <2>3. /\ Written(text) \in Text /\ Len(text) \in Uint16
        /\ Get(io_buffer, HEADER_SIZE, field_offset) \o Written(text)
             = Get(io_buffer, HEADER_SIZE, field_offset + 2 + Len(text))
    BY <1>4, <2>1, FieldWritten
  <2>4. text \in Text
    BY <1>4, <2>1, FieldWithin
  <2> HIDE DEF text
  <2>5. /\ Len(fields) \in Nat /\ Len(fields') = Len(fields) + 1
        /\ fields'[Len(fields) + 1] = text /\ \A i \in 1 .. Len(fields) : fields'[i] = fields[i]
    BY <2>1, <2>2, <2>4
  <2>6. \A i \in 1 .. Len(fields') : Len(fields'[i]) \in Uint16
    <3> TAKE i \in 1 .. Len(fields')
    <3>1. i \in 1 .. Len(fields) \/ i = Len(fields) + 1
      BY <2>5
    <3> QED BY <2>3, <2>5, <3>1 DEF FieldsInv
  <2>7. Spelling(fields') = Get(io_buffer', HEADER_SIZE, field_offset')
    <3>1. \A i \in 1 .. Len(fields) : Written(fields[i]) \in Text
      <4> TAKE i \in 1 .. Len(fields)
      <4>1. Len(fields[i]) \in Uint16 /\ fields[i] \in Text
        BY <2>1 DEF FieldsInv
      <4> DEFINE s == ToBytes(Len(fields[i]))
                 u == fields[i]
      <4>2. s \in Text /\ u \in Text /\ Written(fields[i]) = s \o u
        BY <4>1, ToBytesOf DEF Written
      <4> HIDE DEF s, u
      <4> QED BY <4>2, Joined
    <3>2. Spelling(Append(fields, text)) = Spelling(fields) \o Written(text)
      BY <2>1, <2>3, <2>4, <3>1, SpellingAppend
    <3> QED BY <1>1, <1>2, <2>2, <2>3, <3>2
  <2>8. (phase' = "PARSE" /\ KeyOf(text) = NODENAME) => NamesNode(nodename)'
    <3> SUFFICES ASSUME phase' = "PARSE", KeyOf(text) = NODENAME
                 PROVE  NamesNode(nodename)'
      OBVIOUS
    <3>1. nodename' = ValueOf(text)
      <4>1. ValueOf(text) \in Text
        BY <1>4, <2>4, SplitsAtFirst DEF text
      <4>2. Len(ValueOf(text)) \in Nat /\ NODENAME_SIZE \in Nat
        BY <4>1, RequestAssumption DEF Text
      <4> QED BY <2>2, <4>2
    <3>2. Len(fields) + 1 \in 1 .. Len(fields')
          /\ \A j \in (Len(fields) + 1) + 1 .. Len(fields') : KeyOf(fields'[j]) # NODENAME
      BY <2>5
    <3> QED BY <2>5, <3>1, <3>2 DEF NamesNode
  <2>9. (phase' = "PARSE" /\ KeyOf(text) # NODENAME) => NoNode' \/ NamesNode(nodename)'
    <3> SUFFICES ASSUME KeyOf(text) # NODENAME
                 PROVE  NoNode' \/ NamesNode(nodename)'
      OBVIOUS
    <3>1. nodename' = nodename
      BY <2>2
    <3>2. \A j \in 1 .. Len(fields') : j \in 1 .. Len(fields) \/ fields'[j] = text
      BY <2>5
    <3>3. CASE NoNode
      BY <2>5, <3>1, <3>2, <3>3 DEF NoNode
    <3>4. CASE NamesNode(nodename)
      <4>1. PICK i \in 1 .. Len(fields) :
              /\ KeyOf(fields[i]) = NODENAME /\ ValueOf(fields[i]) = nodename
              /\ \A j \in i + 1 .. Len(fields) : KeyOf(fields[j]) # NODENAME
        BY <3>4 DEF NamesNode
      <4>2. i \in 1 .. Len(fields') /\ fields'[i] = fields[i]
        BY <2>5
      <4>3. ASSUME NEW j \in i + 1 .. Len(fields')
            PROVE  KeyOf(fields'[j]) # NODENAME
        <5>1. j \in 1 .. Len(fields') /\ j \in Nat /\ j >= i + 1 /\ i \in Nat
          BY <2>5
        <5>2. CASE j \in 1 .. Len(fields)
          BY <2>5, <4>1, <5>1, <5>2
        <5>3. CASE fields'[j] = text
          BY <5>3
        <5> QED BY <3>2, <5>1, <5>2, <5>3
      <4> QED BY <3>1, <4>1, <4>2, <4>3 DEF NamesNode
    <3> QED BY <1>2, <3>3, <3>4
  <2>10. plugin' = NoCall /\ phase' \in {"PARSE", "LOST"}
    BY <1>1, <1>2, <2>2
  <2> QED BY <2>6, <2>7, <2>8, <2>9, <2>10 DEF FieldsInv, FieldsSpellMessage
<1> QED
  BY <1>3, <1>4 DEF ReadField

\* The fields spell the whole message when the plugin is called.
LEMMA FieldsFenced ==
  ASSUME CoreInv, FieldsInv, FenceAction
  PROVE  FieldsInv'
<1>1. /\ UNCHANGED <<nodename, fields, taken>> /\ phase = "PARSE"
      /\ field_offset >= io_offset /\ TypeOK /\ BufferInv
  BY DEF FenceAction, CoreInv
<1>2. CASE phase' = "CLOSED" /\ UNCHANGED <<next_phase, plugin>>
  BY <1>1, <1>2, SameFields
<1>3. ASSUME NEW success \in BOOLEAN, nodename # << >>,
             plugin' = [op |-> header.msg_type, node |-> nodename, secret |-> secret,
                        success |-> success],
             phase' = "SEND", next_phase' = "CANCELED"
      PROVE  FieldsInv'
  <2>1. field_offset = io_offset
    BY <1>1, Sizes DEF BufferInv, TypeOK
  <2>2. Spelling(fields) = Get(io_buffer, HEADER_SIZE, io_offset) /\ NamesNode(nodename)
    BY <1>1, <1>3, <2>1 DEF FieldsInv, FieldsSpellMessage, NoNode
  <2>3. Last(taken).body = Get(io_buffer, HEADER_SIZE, io_offset)
    BY <1>1 DEF BufferInv, Last
  <2>4. Spelling(fields)' = Spelling(fields) /\ Last(taken)' = Last(taken)
    BY <1>1 DEF Spelling, Last
  <2>5. plugin'.node = nodename
    BY <1>3
  <2>6. NamesNode(plugin.node)'
    BY <1>1, <2>2, <2>5 DEF NamesNode
  <2>7. \A i \in 1 .. Len(fields') : Len(fields'[i]) \in Uint16
    BY <1>1 DEF FieldsInv
  <2> QED BY <1>3, <2>2, <2>3, <2>4, <2>6, <2>7 DEF FieldsInv, FieldsSpellMessage
<1> QED
  BY <1>2, <1>3 DEF FenceAction

\* The reading of a message begins with no field.
LEMMA FieldsBegin ==
  ASSUME CoreInv, FieldsInv, ProcessClientMessage
  PROVE  FieldsInv'
<1>1. UNCHANGED <<nodename, taken, plugin>> /\ phase = "EXECUTING"
      /\ nodename = << >> /\ plugin = NoCall
  BY DEF ProcessClientMessage, FieldsInv
<1>2. CASE phase' = "SEND" /\ UNCHANGED fields
  BY <1>1, <1>2, SameFields
<1>3. CASE phase' = "PARSE" /\ field_offset' = HEADER_SIZE /\ fields' = << >>
  <2>1. Len(fields') = 0 /\ \A i \in 1 .. Len(fields') : FALSE
    BY <1>3
  <2>2. Spelling(fields') = << >>
    <3> DEFINE w == [i \in 1 .. Len(fields') |-> ToBytes(Len(fields'[i])) \o fields'[i]]
    <3>1. w = << >>
      BY <1>3
    <3>2. FlattenSeq(<< >>) = << >>
      BY DEF FlattenSeq
    <3> QED BY <3>1, <3>2 DEF Spelling
  <2>3. Get(io_buffer', HEADER_SIZE, HEADER_SIZE) = << >>
    BY Sizes DEF Get
  <2>4. NoNode'
    BY <1>1, <2>1 DEF NoNode
  <2> QED BY <1>1, <1>3, <2>1, <2>2, <2>3, <2>4 DEF FieldsInv, FieldsSpellMessage
<1>4. CASE phase' = "CLOSED" /\ UNCHANGED <<next_phase, fields>>
  BY <1>1, <1>4, SameFields
<1> QED
  BY <1>2, <1>3, <1>4 DEF ProcessClientMessage

LEMMA NextFields ==
  ASSUME CoreInv, FieldsInv, [Next]_vars
  PROVE  FieldsInv'
<1>0. TypeOK /\ BufferInv
  BY DEF CoreInv
<1>1. CASE UNCHANGED serverVars
  BY <1>1, SameFields DEF serverVars, bufferVars
<1>2. ASSUME NEW n \in 1 .. IO_BUFFER_SIZE, ReceiveMessage(n)
      PROVE  FieldsInv'
  <2>1. /\ phase = "RECV" /\ phase' \in {"RECV", "EXECUTING"}
        /\ UNCHANGED <<nodename, fields, plugin>>
    BY <1>2 DEF ReceiveMessage, Complete, Incomplete
  <2>2. nodename = << >> /\ plugin = NoCall /\ plugin' = NoCall
    BY <2>1 DEF FieldsInv
  <2>3. \A i \in 1 .. Len(fields') : Len(fields'[i]) \in Uint16
    BY <2>1 DEF FieldsInv
  <2> QED BY <2>1, <2>2, <2>3 DEF FieldsInv, FieldsSpellMessage
<1>3. ASSUME NEW n \in 1 .. IO_BUFFER_SIZE, SendMessage(n)
      PROVE  FieldsInv'
  <2>1. phase = "SEND" /\ UNCHANGED <<nodename, fields, taken, plugin>>
    BY <1>3 DEF SendMessage
  <2>2. CASE UNCHANGED <<phase, next_phase>>
    BY <2>1, <2>2, SameFields
  <2>3. CASE next_phase = "RECV" /\ phase' = "RECV"
    BY <2>1, <2>3, SameFields DEF FieldsInv
  <2>4. CASE phase' = "CLOSED" /\ UNCHANGED next_phase
    BY <2>1, <2>4, SameFields
  <2> QED BY <1>3, <2>2, <2>3, <2>4 DEF SendMessage
<1>4. CASE CloseConnection
  BY <1>4, SameFields DEF CloseConnection
<1>5. CASE Client \/ OtherHangsUp \/ \E m \in OtherMessages : OtherSends(m)
  BY <1>1, <1>5, SenderStays
<1>6. CASE UNCHANGED vars
  BY <1>1, <1>6 DEF vars
<1> QED
  BY <1>2, <1>3, <1>4, <1>5, <1>6, FieldsBegin, FieldAdded, FieldsFenced DEF Next, Server

\* The fields that fence_action reads are the bytes of its message, none skipped, read
\* twice or taken from behind it, and the node is the last one they name, whatever the
\* peer wrote (ServerConnector.cpp:561-580, Shared.cpp:82-121).
THEOREM FieldsSpell == Spec => []FieldsSpellMessage
<1>1. Init => CoreInv /\ FieldsInv
  BY InitCore, InitFields
<1>2. CoreInv /\ FieldsInv /\ [Next]_vars => CoreInv' /\ FieldsInv'
  BY NextCore, NextFields
<1> QED
  BY <1>1, <1>2, PTL DEF Spec, FieldsInv
=============================================================================
