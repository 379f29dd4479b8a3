--------------------------- MODULE ClientConnector ---------------------------
(***************************************************************************)
(* The client program: Client.cpp and ClientConnector.cpp.  Each member of *)
(* Clients is one run of the program, with one connection.  A message is   *)
(* its header, HEADER_SIZE units long, and its fields; send() and recv()   *)
(* move any positive number of the units that are left.                    *)
(***************************************************************************)
EXTENDS Naturals

CONSTANTS
  Clients,        \* runs of the client program
  Nodenames,      \* the nodes they may name
  CommandLines,   \* the parameters of an instance's runs
  HEADER_SIZE,    \* units of a message header
  FIELDS_SIZE,    \* units of the fields of a fencing request
  NetMayFail      \* may a connection be lost (send() or recv() returns -1)

FenceActions == {"off", "on", "reboot"}
EchoActions  == {"list", "monitor", "status"}
LocalActions == {"metadata", "start", "stop"}

\* complete: the required parameters other than the action are present.
CommandLine == [action : FenceActions \union EchoActions \union LocalActions
                           \union {"invalid"},
                node : Nodenames, complete : BOOLEAN]

ASSUME CommandLinesAssumption == CommandLines \subseteq CommandLine

ASSUME SizesAssumption ==
  /\ HEADER_SIZE \in Nat \ {0}
  /\ FIELDS_SIZE \in Nat \ {0}
  /\ NetMayFail \in BOOLEAN

NoName == "no_name"
ASSUME NoNameAssumption == NoName \notin Nodenames

VARIABLES
  args,         \* the parameters of each run
  cpc,          \* "dispatch", "connect", "send", "receive", "judge" or "ended"
  socket_fd,    \* "open", or "none" (FD_NONE)
  io_offset,    \* units sent or received by the current loop
  header,       \* the type in the header last received, or "none"
  exit,         \* "running", "success", "failure" or "killed"
  \* the connection
  server_end,   \* the server's end: "none", "open" or "closed"
  sent,         \* units of the request on the way to the server
  arrived,      \* units of the reply that recv() can read
  reply_type    \* the type of the reply that was sent, or "none"

clientVars  == <<args, cpc, socket_fd, io_offset, header, exit>>
channelVars == <<server_end, sent, arrived, reply_type>>

FenceType == {"FENCE_OFF", "FENCE_ON", "FENCE_REBOOT"}

\* Mutant of MsgType: two of the calls are mixed up.
MsgType_MixedUp(a) ==
  IF a = "off" THEN "FENCE_OFF" ELSE IF a = "on" THEN "FENCE_REBOOT"
  ELSE IF a = "reboot" THEN "FENCE_ON" ELSE "ECHO_REQUEST"

MsgType(a) ==
  IF a = "off" THEN "FENCE_OFF" ELSE IF a = "on" THEN "FENCE_ON"
  ELSE IF a = "reboot" THEN "FENCE_REBOOT" ELSE "ECHO_REQUEST"

RequestOf(k) == [type |-> MsgType(args[k].action),
                 body |-> IF args[k].action \in FenceActions THEN args[k].node
                                                             ELSE NoName]

SendLength(k) == IF args[k].action \in FenceActions THEN HEADER_SIZE + FIELDS_SIZE
                                                    ELSE HEADER_SIZE

\* Mutant of ReceiveLength: as much is awaited as a request may have.
ReceiveLength_OfRequest == HEADER_SIZE + FIELDS_SIZE

\* The replies of the server have no fields: data_length is HEADER_SIZE.
ReceiveLength == HEADER_SIZE

\* The end of main; the socket is closed by the destructor.
Exits(k, code) ==
  /\ exit' = [exit EXCEPT ![k] = code]
  /\ cpc' = [cpc EXCEPT ![k] = "ended"]
  /\ socket_fd' = [socket_fd EXCEPT ![k] = "none"]

\* Client::dispatch_request: the connector is needed, or the program ends.
Dispatch(k) ==
  /\ cpc[k] = "dispatch"
  /\ LET a == args[k].action IN
     \/ /\ a \in FenceActions \union EchoActions /\ args[k].complete
        /\ cpc' = [cpc EXCEPT ![k] = "connect"]
        /\ UNCHANGED <<exit, socket_fd>>
     \/ /\ a \in FenceActions \union EchoActions /\ ~args[k].complete
        /\ Exits(k, "failure")
     \/ /\ a = "invalid"
        /\ Exits(k, "failure")
     \/ /\ a \in LocalActions
        /\ Exits(k, "success")
  /\ UNCHANGED <<args, io_offset, header, channelVars>>

\* A failure of socket(), bind() or connect() is an InetException: main fails.
ConnectToServer(k) ==
  /\ cpc[k] = "connect"
  /\ \/ /\ socket_fd' = [socket_fd EXCEPT ![k] = "open"]
        /\ cpc' = [cpc EXCEPT ![k] = "send"]
        /\ server_end' = [server_end EXCEPT ![k] = "open"]
        /\ UNCHANGED exit
     \/ /\ NetMayFail
        /\ Exits(k, "failure")
        /\ UNCHANGED server_end
  /\ UNCHANGED <<args, io_offset, header, sent, arrived, reply_type>>

\* Mutant of Progress: what was moved before is forgotten.
Progress_Forgotten(k, n) == n

\* io_offset after n more units.
Progress(k, n) == io_offset[k] + n

\* One pass of the loop of send_message; the last leads to receive_message.  What is
\* sent on a connection the server has closed is lost.
SendMessage(k) ==
  /\ cpc[k] = "send"
  /\ socket_fd[k] = "open"
  /\ \E n \in 1 .. SendLength(k) - io_offset[k] :
       /\ sent' = [sent EXCEPT ![k] = @ + n]
       /\ \/ /\ Progress(k, n) < SendLength(k)
             /\ io_offset' = [io_offset EXCEPT ![k] = Progress(k, n)]
             /\ UNCHANGED cpc
          \/ /\ Progress(k, n) >= SendLength(k)
             /\ io_offset' = [io_offset EXCEPT ![k] = 0]
             /\ cpc' = [cpc EXCEPT ![k] = "receive"]
  /\ UNCHANGED <<args, socket_fd, header, exit, server_end, arrived, reply_type>>

\* send() or recv() returns -1 on an open socket: the connection is closed, and
\* the loop goes on.
DisconnectFromServer(k) ==
  /\ NetMayFail
  /\ cpc[k] \in {"send", "receive"}
  /\ socket_fd[k] = "open"
  /\ socket_fd' = [socket_fd EXCEPT ![k] = "none"]
  /\ arrived' = [arrived EXCEPT ![k] = 0]
  /\ UNCHANGED <<args, cpc, io_offset, header, exit, server_end, sent, reply_type>>

\* send() on a connection the server has closed may raise SIGPIPE.
BrokenPipe(k) ==
  /\ cpc[k] = "send"
  /\ socket_fd[k] = "open" /\ server_end[k] = "closed"
  /\ Exits(k, "killed")
  /\ UNCHANGED <<args, io_offset, header, channelVars>>

\* One pass of the loop of receive_message that reads something.
ReceiveMessage(k) ==
  /\ cpc[k] = "receive"
  /\ socket_fd[k] = "open"
  /\ \E n \in 1 .. arrived[k] :
       /\ n <= ReceiveLength - io_offset[k]
       /\ arrived' = [arrived EXCEPT ![k] = @ - n]
       /\ io_offset' = [io_offset EXCEPT ![k] = Progress(k, n)]
       /\ \/ /\ Progress(k, n) < ReceiveLength
             /\ UNCHANGED <<cpc, header>>
          \/ /\ Progress(k, n) >= ReceiveLength
             /\ cpc' = [cpc EXCEPT ![k] = "judge"]
             /\ header' = [header EXCEPT ![k] = reply_type[k]]
  /\ UNCHANGED <<args, socket_fd, exit, server_end, sent, reply_type>>

\* A pass that reads nothing: at the end of the stream recv() returns 0, and on
\* FD_NONE it returns -1 again, like send().  Nothing changes.
LoopsForNothing(k) ==
  /\ \/ /\ cpc[k] \in {"send", "receive"} /\ socket_fd[k] = "none"
     \/ /\ cpc[k] = "receive" /\ server_end[k] = "closed" /\ arrived[k] = 0
  /\ UNCHANGED <<clientVars, channelVars>>

\* check_connection and fence_action_impl; a reply of another type makes the
\* latter throw an exception that main does not catch.
Verdict(k) ==
  IF args[k].action \in EchoActions
  THEN IF header[k] = "ECHO_REPLY" THEN "success" ELSE "failure"
  ELSE IF header[k] = "FENCE_SUCCESS" THEN "success"
  ELSE IF header[k] = "FENCE_FAIL" THEN "failure" ELSE "killed"

Judge(k) ==
  /\ cpc[k] = "judge"
  /\ Exits(k, Verdict(k))
  /\ UNCHANGED <<args, io_offset, header, channelVars>>

ClientInit ==
  /\ args \in [Clients -> CommandLines]
  /\ cpc = [k \in Clients |-> "dispatch"]
  /\ socket_fd = [k \in Clients |-> "none"]
  /\ io_offset = [k \in Clients |-> 0]
  /\ header = [k \in Clients |-> "none"]
  /\ exit = [k \in Clients |-> "running"]
  /\ server_end = [k \in Clients |-> "none"]
  /\ sent = [k \in Clients |-> 0]
  /\ arrived = [k \in Clients |-> 0]
  /\ reply_type = [k \in Clients |-> "none"]

\* The steps a run takes by itself; losing the connection is not one of them.
Runs(k) == \/ Dispatch(k) \/ ConnectToServer(k) \/ SendMessage(k)
           \/ BrokenPipe(k) \/ ReceiveMessage(k) \/ Judge(k)
           \/ LoopsForNothing(k)
=============================================================================
