----------------------------- MODULE RequestPath -----------------------------
(***************************************************************************)
(* A request from the lines on the client's stdin to the plugin, byte by   *)
(* byte, over one connection: ClientParameters reads the lines, Client and *)
(* ClientConnector check them and write the message, ServerConnector       *)
(* receives it in pieces, splits its fields and calls the plugin, and the  *)
(* reply goes back.  FencingSystem.tla has the same path with messages in  *)
(* one or two units, many clients and all the threads of the server.       *)
(*                                                                         *)
(* The sender may also be another program that speaks the protocol: it     *)
(* sends a few messages in one stream, and hangs up when it likes.         *)
(***************************************************************************)
EXTENDS Protocol, SequencesExt

CONSTANTS
  Keys, Capacity,          \* the client's arguments, see Arguments.tla; "server" is
                           \* for the three that make up the address
  FenceActions,            \* the message type of each fencing action's text
  Lines, MaxLines,         \* what stdin may hold; bound: lines read
  OtherMessages, MaxSent,  \* what another program sends; bound: messages
  NODENAME, SECRET,        \* the keys of the fields
  NODENAME_SIZE, MAX_SECRET_LENGTH,   \* what the server keeps of their values
  ECHO_REQUEST, ECHO_REPLY, FENCE_SUCCESS, FENCE_FAIL

Args == INSTANCE Arguments

\* A line of stdin.  "ended": getline reads it to a newline.  The last line may lack
\* one, and a line of MAX_PARAMETER_SIZE characters fills the buffer before its end.
Line == [form : {"pair", "malformed", "blank"}, key : Keys \union {"unknown"},
         value : Text, ended : BOOLEAN]

\* What a sender puts on the stream; data_length need not be the true length.
Message == [msg_type : Uint16, data_length : Uint16, body : Text]

FenceType == {FenceActions[a] : a \in DOMAIN FenceActions}

ASSUME RequestAssumption ==
  /\ {"action", "server", "nodename", "secret"} = Keys
  /\ Capacity \in [Keys -> Nat]
  /\ DOMAIN FenceActions \subseteq Text
  /\ \A a \in DOMAIN FenceActions : FenceActions[a] \in Uint16
  /\ Lines \subseteq Line
  /\ OtherMessages \subseteq Message
  /\ MaxLines \in Nat /\ MaxSent \in Nat
  /\ {ECHO_REQUEST, ECHO_REPLY, FENCE_SUCCESS, FENCE_FAIL} \subseteq Uint16
  /\ {ECHO_REQUEST, ECHO_REPLY, FENCE_SUCCESS, FENCE_FAIL} \intersect FenceType = {}
  /\ FENCE_SUCCESS # FENCE_FAIL
  /\ NODENAME \in Text /\ SECRET \in Text /\ NODENAME # SECRET
  /\ \A t \in {NODENAME, SECRET} : \A i \in 1 .. Len(t) : t[i] # SPLIT
  /\ NODENAME_SIZE \in Nat /\ MAX_SECRET_LENGTH \in Nat

\* Shared.cpp:59-72 and ServerConnector.cpp:26-28: what the client accepts the
\* server can keep, and the buffer holds a request with both values at their longest.
ASSUME SizesFit ==
  /\ Capacity["nodename"] <= NODENAME_SIZE
  /\ Capacity["secret"] <= MAX_SECRET_LENGTH
  /\ HEADER_SIZE + 2 + Len(NODENAME) + 1 + Capacity["nodename"]
                 + 2 + Len(SECRET) + 1 + Capacity["secret"] <= IO_BUFFER_SIZE

NoCall == [op |-> "none"]

VARIABLES
  sender,        \* "client", or another program: "other"
  \* the client program
  cpc,           \* "read", "dispatch", "send", "receive" or "ended"
  args,          \* its Arguments
  exit,          \* "running", "success", "failure", "killed", or "other" action
  lines_read,    \* lines read so far
  given,         \* history: every value stdin gave for each key
  unended,       \* history: has a line without its newline been read
  \* the connection
  sent,          \* history: the messages put on the stream
  stream,        \* the bytes the server can read
  back,          \* the bytes of the reply
  hung_up,       \* has the sender closed its end
  \* the server's NetClient and the thread that works on it
  phase,         \* "RECV", "EXECUTING", "PARSE", "SEND", or the end: "CLOSED",
                 \* "LOST" to an exception in the worker, or "KILLED" with the server
  next_phase,
  io_buffer, io_offset, have_header, header,
  field_offset,  \* fence_action's index into the message
  nodename, secret,
  fields,        \* history: the fields read from the message
  taken,         \* history: the messages handed to a worker
  plugin         \* the call of the plugin, or NoCall

senderVars == <<sender, cpc, args, exit, lines_read, given, unended>>
wireVars   == <<sent, stream, back, hung_up>>
bufferVars == <<io_buffer, io_offset, have_header, header>>
serverVars == <<phase, next_phase, bufferVars, field_offset, nodename, secret, fields,
                taken, plugin>>
vars == <<senderVars, wireVars, serverVars>>

-----------------------------------------------------------------------------
(***************************************************************************)
(* The client.                                                             *)
(***************************************************************************)
Argument(l) == [split |-> l.form = "pair", key |-> l.key, value |-> l.value]

\* The end of main; the destructors close the socket.
Exits(code) == /\ exit' = code
               /\ cpc' = "ended"
               /\ hung_up' = TRUE

\* One pass of the loop of read_parameters.  For a line without its newline the text
\* is one character longer than the buffer made for it: a RangeException, which main
\* does not catch.
ReadLine(l) ==
  /\ cpc = "read" /\ lines_read < MaxLines
  /\ lines_read' = lines_read + 1
  /\ given' = [k \in Keys |-> IF l.form = "pair" /\ l.key = k THEN given[k] \union {l.value}
                                                             ELSE given[k]]
  /\ unended' = (unended \/ (~l.ended /\ l.form # "blank"))
  /\ \/ /\ l.form = "blank"                            \* no more than the newline
        /\ UNCHANGED <<args, exit, cpc, hung_up>>
     \/ /\ l.form # "blank" /\ ~l.ended
        /\ Exits("killed")
        /\ UNCHANGED args
     \/ /\ l.form # "blank" /\ l.ended /\ ~Args!Accepts(args, Argument(l))
        /\ Exits("failure")
        /\ UNCHANGED args
     \/ /\ l.form # "blank" /\ l.ended /\ Args!Accepts(args, Argument(l))
        /\ args' = Args!ProcessArgument(args, Argument(l))
        /\ UNCHANGED <<exit, cpc, hung_up>>
  /\ UNCHANGED <<sender, sent, stream, back, serverVars>>

EndOfInput ==
  /\ cpc = "read"
  /\ cpc' = "dispatch"
  /\ UNCHANGED <<sender, args, exit, lines_read, given, unended, wireVars, serverVars>>

Action == Args!Value(args, "action")
AllRequired == Args!MarkRequired(args, Keys)

\* dispatch_request and the first half of fence_action.
Dispatch ==
  /\ cpc = "dispatch"
  /\ \/ /\ ~Args!CheckRequired(args)
        /\ Exits("failure")
        /\ UNCHANGED args
     \/ /\ Args!CheckRequired(args) /\ Action \notin DOMAIN FenceActions
        /\ Exits("other")
        /\ UNCHANGED args
     \/ /\ Args!CheckRequired(args) /\ Action \in DOMAIN FenceActions
        /\ args' = AllRequired
        /\ \/ /\ ~Args!CheckRequired(AllRequired)
              /\ Exits("failure")
           \/ /\ Args!CheckRequired(AllRequired)
              /\ cpc' = "send"
              /\ UNCHANGED <<exit, hung_up>>
  /\ UNCHANGED <<sender, lines_read, given, unended, sent, stream, back, serverVars>>

NodenameParam == Pair(NODENAME, Args!Value(args, "nodename"))
SecretParam   == Pair(SECRET, Args!Value(args, "secret"))
SecretOffset  == HEADER_SIZE + 2 + Len(NodenameParam)
RequestLength == SecretOffset + 2 + Len(SecretParam)

RequestFits == FieldFits(HEADER_SIZE, NodenameParam) /\ FieldFits(SecretOffset, SecretParam)

\* fence_action_impl up to send_message: the client's buffer with both fields.
RequestBuffer ==
  Serialize([msg_type |-> FenceActions[Action], data_length |-> RequestLength],
            WriteField(WriteField(ClearBuffer, HEADER_SIZE, NodenameParam),
                       SecretOffset, SecretParam))

\* A field without room in the buffer would be a ProtocolException main does not catch.
SendRequest ==
  /\ cpc = "send"
  /\ IF RequestFits
     THEN /\ stream' = stream \o Get(RequestBuffer, 0, RequestLength)
          /\ sent' = Append(sent, [msg_type |-> FenceActions[Action],
                                   data_length |-> RequestLength,
                                   body |-> Get(RequestBuffer, HEADER_SIZE, RequestLength)])
          /\ cpc' = "receive"
          /\ UNCHANGED <<exit, hung_up>>
     ELSE Exits("killed") /\ UNCHANGED <<stream, sent>>
  /\ UNCHANGED <<sender, args, lines_read, given, unended, back, serverVars>>

\* receive_message and the verdict of fence_action_impl; the pieces in which the reply
\* is read are those of ClientConnector.tla.
ReplyHeader == Deserialize([i \in 0 .. HEADER_SIZE - 1 |-> back[i + 1]])

ReceiveReply ==
  /\ cpc = "receive" /\ Len(back) = HEADER_SIZE
  /\ Exits(IF ReplyHeader.msg_type = FENCE_SUCCESS THEN "success"
           ELSE IF ReplyHeader.msg_type = FENCE_FAIL THEN "failure" ELSE "killed")
  /\ back' = << >>
  /\ UNCHANGED <<sender, args, lines_read, given, unended, sent, stream, serverVars>>

\* Another program sends a message, or hangs up.
OtherSends(m) ==
  /\ sender = "other" /\ ~hung_up
  /\ Len(sent) < MaxSent
  /\ sent' = Append(sent, m)
  /\ stream' = stream \o ToBytes(m.msg_type) \o ToBytes(m.data_length) \o m.body
  /\ UNCHANGED <<senderVars, back, hung_up, serverVars>>

OtherHangsUp ==
  /\ sender = "other" /\ ~hung_up
  /\ hung_up' = TRUE
  /\ UNCHANGED <<senderVars, sent, stream, back, serverVars>>

-----------------------------------------------------------------------------
(***************************************************************************)
(* The server's side of the connection.                                    *)
(***************************************************************************)
\* Mutant of ClearIoBuffer: the flag of the message before stays set.
ClearIoBuffer_HeaderKept == /\ io_buffer' = ClearBuffer
                            /\ io_offset' = 0
                            /\ UNCHANGED have_header

ClearIoBuffer == /\ io_buffer' = ClearBuffer
                 /\ io_offset' = 0
                 /\ have_header' = FALSE

\* Mutant of ReadSize: all the buffer is asked for at once.
ReadSize_All == IO_BUFFER_SIZE

ReadSize == IF io_offset < HEADER_SIZE THEN HEADER_SIZE - io_offset
                                       ELSE header.data_length - io_offset

\* Mutant of Clamp: the length is taken as it was sent.
Clamp_Not(h) == h

\* A message that is longer than the buffer is cut; the rest of it stays in the stream.
Clamp(h) == IF h.data_length > IO_BUFFER_SIZE THEN [h EXCEPT !.data_length = IO_BUFFER_SIZE]
                                              ELSE h

\* The client leaves the selector's queue and a worker takes it.
Complete == /\ phase' = "EXECUTING"
            /\ taken' = Append(taken, [msg_type |-> header'.msg_type,
                                       body |-> Get(io_buffer', HEADER_SIZE, io_offset')])

Incomplete == UNCHANGED <<phase, taken>>

\* receive_message, with n bytes.
ReceiveMessage(n) ==
  /\ phase = "RECV"
  /\ n <= ReadSize /\ n <= Len(stream)
  /\ io_buffer' = Put(io_buffer, io_offset, SubSeq(stream, 1, n))
  /\ io_offset' = io_offset + n
  /\ stream' = SubSeq(stream, n + 1, Len(stream))
  /\ \/ /\ have_header
        /\ UNCHANGED <<have_header, header>>
        /\ IF io_offset' >= header.data_length THEN Complete ELSE Incomplete
     \/ /\ ~have_header /\ io_offset' >= HEADER_SIZE
        /\ have_header' = TRUE
        /\ header' = Clamp(Deserialize(io_buffer'))
        /\ IF header'.data_length <= HEADER_SIZE THEN Complete ELSE Incomplete
     \/ /\ ~have_header /\ io_offset' < HEADER_SIZE
        /\ UNCHANGED <<have_header, header>>
        /\ Incomplete
  /\ UNCHANGED <<senderVars, sent, back, hung_up, next_phase, field_offset, nodename,
                 secret, fields, plugin>>

\* recv() returns 0, or send() fails: close_connection.  A send() that raises SIGPIPE
\* ends the server's process.
CloseConnection ==
  /\ \/ phase = "RECV" /\ stream = << >> /\ hung_up /\ phase' = "CLOSED"
     \/ phase = "SEND" /\ hung_up /\ phase' \in {"CLOSED", "KILLED"}
  /\ UNCHANGED <<senderVars, wireVars, next_phase, bufferVars, field_offset, nodename, secret,
                 fields, taken, plugin>>

\* The part of process_client_message that is not about fencing.
ProcessClientMessage ==
  /\ phase = "EXECUTING"
  /\ \/ /\ header.msg_type = ECHO_REQUEST
        /\ ClearIoBuffer
        /\ header' = [msg_type |-> ECHO_REPLY, data_length |-> HEADER_SIZE]
        /\ phase' = "SEND" /\ next_phase' = "RECV"
        /\ UNCHANGED <<field_offset, fields>>
     \/ /\ header.msg_type \in FenceType
        /\ phase' = "PARSE" /\ field_offset' = HEADER_SIZE /\ fields' = << >>
        /\ UNCHANGED <<next_phase, bufferVars>>
     \/ /\ header.msg_type \notin FenceType \union {ECHO_REQUEST}   \* or VERSION_REQUEST
        /\ phase' = "CLOSED"
        /\ UNCHANGED <<next_phase, bufferVars, field_offset, fields>>
  /\ UNCHANGED <<senderVars, wireVars, nodename, secret, taken, plugin>>

\* One pass of the loop of fence_action.  A protocol error cancels the client; a node
\* name or a secret that is too long is a RangeException no one catches in time.
ReadField ==
  LET text == Field(io_buffer, field_offset)
      key  == KeyOf(text)
      value == ValueOf(text) IN
  /\ phase = "PARSE" /\ field_offset < io_offset
  /\ \/ /\ ~HaveField(io_buffer, io_offset, field_offset) \/ ~HasSplit(text)
        /\ phase' = "CLOSED"
        /\ UNCHANGED <<field_offset, nodename, secret, fields>>
     \/ /\ HaveField(io_buffer, io_offset, field_offset) /\ HasSplit(text)
        /\ field_offset' = field_offset + 2 + Len(text)
        /\ fields' = Append(fields, text)
        /\ nodename' = IF key = NODENAME /\ Len(value) <= NODENAME_SIZE THEN value ELSE nodename
        /\ secret' = IF key = SECRET /\ Len(value) <= MAX_SECRET_LENGTH THEN value ELSE secret
        /\ phase' = IF \/ key = NODENAME /\ Len(value) > NODENAME_SIZE
                       \/ key = SECRET /\ Len(value) > MAX_SECRET_LENGTH
                    THEN "LOST" ELSE "PARSE"
  /\ UNCHANGED <<senderVars, wireVars, next_phase, bufferVars, taken, plugin>>

\* Mutant of VerdictType: what the plugin returned is not looked at.
VerdictType_Always(success) == FENCE_SUCCESS

VerdictType(success) == IF success THEN FENCE_SUCCESS ELSE FENCE_FAIL

\* The end of fence_action; without a node name the worker closes the connection.
FenceAction ==
  /\ phase = "PARSE" /\ field_offset >= io_offset
  /\ ClearIoBuffer
  /\ \/ /\ nodename = << >>
        /\ phase' = "CLOSED"
        /\ header' = ClearHeader
        /\ UNCHANGED <<next_phase, plugin>>
     \/ /\ nodename # << >>
        /\ \E success \in BOOLEAN :
             /\ plugin' = [op |-> header.msg_type, node |-> nodename, secret |-> secret,
                           success |-> success]
             /\ header' = [msg_type |-> VerdictType(success), data_length |-> HEADER_SIZE]
        /\ phase' = "SEND" /\ next_phase' = "CANCELED"
  /\ UNCHANGED <<senderVars, wireVars, field_offset, nodename, secret, fields, taken>>

\* What send_message has in the buffer when it calls send().
Outgoing == IF have_header THEN io_buffer ELSE Serialize(header, io_buffer)

\* send_message, with n bytes, and what the selector does after the last; data_length
\* is HEADER_SIZE, so that the two limits of 423-431 change nothing.
SendMessage(n) ==
  /\ phase = "SEND" /\ ~hung_up
  /\ n <= header.data_length - io_offset
  /\ back' = back \o Get(Outgoing, io_offset, io_offset + n)
  /\ \/ /\ io_offset + n < header.data_length
        /\ io_buffer' = Outgoing /\ have_header' = TRUE /\ io_offset' = io_offset + n
        /\ UNCHANGED <<phase, next_phase>>
     \/ /\ io_offset + n >= header.data_length /\ next_phase = "RECV"
        /\ ClearIoBuffer
        /\ phase' = "RECV" /\ next_phase' = "PENDING"
     \/ /\ io_offset + n >= header.data_length /\ next_phase # "RECV"
        /\ phase' = "CLOSED"
        /\ UNCHANGED <<next_phase, io_buffer, io_offset, have_header>>
  /\ UNCHANGED <<senderVars, sent, stream, hung_up, header, field_offset, nodename, secret,
                 fields, taken, plugin>>

-----------------------------------------------------------------------------
Init ==
  /\ sender \in {"client", "other"}
  /\ cpc = IF sender = "client" THEN "read" ELSE "ended"
  /\ args = Args!MarkRequired(Args!NoEntries, {"action"})
  /\ exit = "running" /\ lines_read = 0
  /\ given = [k \in Keys |-> {}] /\ unended = FALSE
  /\ sent = << >> /\ stream = << >> /\ back = << >> /\ hung_up = FALSE
  /\ phase = "RECV" /\ next_phase = "PENDING"
  /\ io_buffer = ClearBuffer /\ io_offset = 0 /\ have_header = FALSE
  /\ header = ClearHeader
  /\ field_offset = 0
  /\ nodename = << >> /\ secret = << >>
  /\ fields = << >> /\ taken = << >>
  /\ plugin = NoCall

Client == \/ \E l \in Lines : ReadLine(l)
          \/ EndOfInput \/ Dispatch \/ SendRequest \/ ReceiveReply

Server == \/ \E n \in 1 .. IO_BUFFER_SIZE : ReceiveMessage(n) \/ SendMessage(n)
          \/ CloseConnection \/ ProcessClientMessage \/ ReadField \/ FenceAction

Next == \/ Client \/ Server
        \/ \E m \in OtherMessages : OtherSends(m)
        \/ OtherHangsUp

\* The threads of both programs run, and stdin ends; nothing makes another program do
\* anything.
Spec == Init /\ [][Next]_vars /\ WF_vars(Client) /\ WF_vars(Server)

-----------------------------------------------------------------------------
(***************************************************************************)
(* Properties.                                                             *)
(***************************************************************************)

\* Every variable holds a value of its type; bytes stay bytes and the header's two
\* numbers 16 bits wide (MsgHeader.h, ServerConnector.h:67-89).
TypeOK ==
  /\ sender \in {"client", "other"}
  /\ cpc \in {"read", "dispatch", "send", "receive", "ended"}
  /\ args \in [Keys -> [value : Text, present : BOOLEAN, required : BOOLEAN]]
  /\ exit \in {"running", "success", "failure", "killed", "other"}
  /\ lines_read \in 0 .. MaxLines
  /\ given \in [Keys -> SUBSET {l.value : l \in Lines}] /\ unended \in BOOLEAN
  /\ sent \in Seq(Message) /\ stream \in Text /\ back \in Text /\ hung_up \in BOOLEAN
  /\ phase \in {"RECV", "EXECUTING", "PARSE", "SEND", "CLOSED", "LOST",
               "KILLED"}
  /\ next_phase \in {"PENDING", "RECV", "CANCELED"}
  /\ io_buffer \in Buffer /\ io_offset \in 0 .. IO_BUFFER_SIZE
  /\ have_header \in BOOLEAN /\ header \in Header
  /\ field_offset \in 0 .. IO_BUFFER_SIZE
  /\ nodename \in Text /\ Len(nodename) <= NODENAME_SIZE
  /\ secret \in Text /\ Len(secret) <= MAX_SECRET_LENGTH
  /\ fields \in Seq(Text)
  /\ taken \in Seq([msg_type : Uint16, body : Text])
  /\ plugin = NoCall \/ plugin \in [op : FenceType, node : Text, secret : Text,
                                    success : BOOLEAN]

\* recv() is always asked for at least one byte and never for more than the buffer has
\* room for: with 0 bytes it would return 0 and the connection be closed as if the peer
\* had hung up, and a length beyond the buffer would be written past its end
\* (ServerConnector.cpp:371-379, 395-398).
ReadsWithinBuffer ==
  phase = "RECV" => 1 <= ReadSize /\ io_offset + ReadSize <= IO_BUFFER_SIZE

\* The node the plugin is given is the only one stdin named, with the secret and the
\* action of stdin: from getline to the plugin nothing is cut, mixed up, taken from a
\* second line or split at the wrong place (ClientParameters.cpp:56-68,
\* Arguments.cpp:42-86, ClientConnector.cpp:154-167, ServerConnector.cpp:557-582).
NamedNodeFenced ==
  plugin # NoCall /\ sender = "client" =>
    /\ given["nodename"] = {plugin.node}
    /\ given["secret"] = {plugin.secret}
    /\ \E a \in DOMAIN FenceActions :
         given["action"] = {a} /\ plugin.op = FenceActions[a]

\* The fields as write_field would put them into a message.
Spelling(texts) == FlattenSeq([i \in 1 .. Len(texts) |-> ToBytes(Len(texts[i])) \o texts[i]])

\* n is the value of the last field that names a node.
NamesNode(n) ==
  \E i \in 1 .. Len(fields) :
    /\ KeyOf(fields[i]) = NODENAME /\ ValueOf(fields[i]) = n
    /\ \A j \in i + 1 .. Len(fields) : KeyOf(fields[j]) # NODENAME

\* The fields that fence_action reads spell the message up to its offset, and when it
\* calls the plugin the whole message, whose last node name it passes on: no byte is
\* skipped, read twice, or taken from behind the message (ServerConnector.cpp:561-580,
\* Shared.cpp:82-121).
FieldsSpellMessage ==
  /\ phase = "PARSE" =>
       Spelling(fields) = Get(io_buffer, HEADER_SIZE, field_offset)
  /\ plugin # NoCall => Spelling(fields) = Last(taken).body /\ NamesNode(plugin.node)

\* A message whose length is true and within the buffer.
Framed(m) ==
  /\ m.data_length <= IO_BUFFER_SIZE
  /\ \/ Len(m.body) = m.data_length - HEADER_SIZE
     \/ m.data_length < HEADER_SIZE /\ m.body = << >>

\* However the stream is cut into pieces, the server takes from it the messages that
\* were sent, in their order and each with its own bytes, up to the first one whose
\* length is not true or that is longer than the buffer (ServerConnector.cpp:382-404,
\* 254).
MessagesInOrder ==
  \A i \in 1 .. Len(taken) :
    (\A j \in 1 .. i : j <= Len(sent) => Framed(sent[j])) =>
      /\ i <= Len(sent)
      /\ taken[i] = [msg_type |-> sent[i].msg_type, body |-> sent[i].body]

\* The client reports success only for a call of the plugin that succeeded, and a
\* failure after it sent its request only for one that did not: the verdict survives
\* the two header bytes (ServerConnector.cpp:583-590, ClientConnector.cpp:173-182).
VerdictReturned ==
  /\ exit = "success" => plugin # NoCall /\ plugin.success
  /\ exit = "failure" /\ sent # << >> => plugin # NoCall /\ ~plugin.success

\* Nothing but a line without its newline makes the client die of an exception that
\* main does not catch: not the values it accepts, whose fields fit the buffer
\* (ClientConnector.cpp:164-166), nor the reply.
KilledByUnendedLine == exit = "killed" => unended

\* A request the client has sent with a node name reaches the plugin, in whatever
\* pieces it arrives, and the client ends; one without is refused (576, 501-504).
RequestReachesPlugin ==
  cpc = "receive" /\ Args!Value(args, "nodename") # << >> ~> plugin # NoCall /\ cpc = "ended"
=============================================================================
