---------------------------- MODULE FencingSystem ----------------------------
(***************************************************************************)
(* Clients and server together.  The server is Fencing.tla, which          *)
(* ServerConnector.tla implements; here its steps read requests from the   *)
(* connections of ClientConnector.tla, send replies, and close.            *)
(***************************************************************************)
EXTENDS ClientConnector

CONSTANTS NoRequest, NoCall   \* as in Fencing.tla

VARIABLES
  request, call, reply,   \* the server's state, one entry per connection
  acted                   \* history: requests the plugin, or the echo, served

serverVars == <<request, call, reply>>
vars == <<clientVars, channelVars, serverVars, acted>>

Requests == [type : FenceType, body : Nodenames]
              \union [type : {"ECHO_REQUEST"}, body : {NoName}]

ASSUME ServerConstantsAssumption ==
  /\ NoRequest = [type |-> "NONE", body |-> NoName]
  /\ NoCall = [op |-> "NONE", node |-> NoName, state |-> "none"]

Server == INSTANCE Fencing WITH Connections <- Clients

\* The whole request has come in: the server has it once.
ServerReceives(k) ==
  /\ server_end[k] = "open" /\ sent[k] = SendLength(k)
  /\ Server!Ask(k) /\ request'[k] = RequestOf(k)
  /\ sent' = [sent EXCEPT ![k] = 0]
  /\ UNCHANGED <<clientVars, server_end, arrived, reply_type, acted>>

ServerBegins(k) ==
  /\ Server!Begin(k)
  /\ UNCHANGED <<clientVars, channelVars, acted>>

\* The plugin returns; history keeps what succeeded.
ServerFinishes(k) ==
  /\ Server!Finish(k)
  /\ acted' = IF call'[k].state = "succeeded"
              THEN acted \union {<<k, call[k].op, call[k].node>>} ELSE acted
  /\ UNCHANGED <<clientVars, channelVars>>

ServerEchoes(k) ==
  /\ Server!Echo(k)
  /\ acted' = acted \union {<<k, "ECHO_REQUEST", NoName>>}
  /\ UNCHANGED <<clientVars, channelVars>>

\* The reply is sent; it reaches a client whose socket is still open.
Delivered(k) ==
  /\ reply_type' = [reply_type EXCEPT ![k] = reply[k]]
  /\ arrived' = [arrived EXCEPT ![k] = IF socket_fd[k] = "open" THEN HEADER_SIZE ELSE 0]

\* An echo is answered and the connection kept ...
ServerAnswers(k) ==
  /\ server_end[k] = "open" /\ reply[k] = "ECHO_REPLY"
  /\ Server!Answer(k)
  /\ Delivered(k)
  /\ UNCHANGED <<clientVars, server_end, sent, acted>>

\* ... a fencing verdict is sent and the connection closed.
ServerAnswersAndCloses(k) ==
  /\ server_end[k] = "open" /\ reply[k] \in {"FENCE_SUCCESS", "FENCE_FAIL"}
  /\ Server!Drop(k)
  /\ Delivered(k)
  /\ server_end' = [server_end EXCEPT ![k] = "closed"]
  /\ UNCHANGED <<clientVars, sent, acted>>

\* The server closes a connection without a reply: it stops, or its peer is gone.
ServerDrops(k) ==
  /\ server_end[k] = "open"
  /\ NetMayFail \/ socket_fd[k] = "none"
  /\ Server!Drop(k)
  /\ server_end' = [server_end EXCEPT ![k] = "closed"]
  /\ UNCHANGED <<clientVars, sent, arrived, reply_type, acted>>

Init == ClientInit /\ Server!Init /\ acted = {}

ClientStep(k) == Runs(k) /\ UNCHANGED <<serverVars, acted>>

ConnectionLost(k) == DisconnectFromServer(k) /\ UNCHANGED <<serverVars, acted>>

ServerStep(k) == \/ ServerReceives(k) \/ ServerBegins(k) \/ ServerFinishes(k)
                 \/ ServerEchoes(k) \/ ServerAnswers(k)
                 \/ ServerAnswersAndCloses(k)

Next == \/ \E k \in Clients : \/ ClientStep(k) \/ ConnectionLost(k)
                              \/ ServerStep(k) \/ ServerDrops(k)
        \/ /\ \A k \in Clients : cpc[k] = "ended"    \* every run has ended
           /\ UNCHANGED vars

Spec == Init /\ [][Next]_vars

\* The client's own loop and the server's service of a request (RequestAnswered in
\* ServerConnector.tla) go on; connections need not fail.
FairSpec == Spec /\ \A k \in Clients : /\ WF_vars(ClientStep(k))
                                       /\ WF_vars(ServerStep(k))

-----------------------------------------------------------------------------
(***************************************************************************)
(* Properties.                                                             *)
(***************************************************************************)

ReplyType == {"ECHO_REPLY", "FENCE_SUCCESS", "FENCE_FAIL"}

\* Types of the client's and the connection's state (ClientConnector.h:58-67).
TypeOK ==
  /\ args \in [Clients -> CommandLines]
  /\ cpc \in [Clients -> {"dispatch", "connect", "send", "receive", "judge", "ended"}]
  /\ socket_fd \in [Clients -> {"none", "open"}]
  /\ \A k \in Clients : io_offset[k] \in 0 .. SendLength(k)
  /\ header \in [Clients -> ReplyType \union {"none"}]
  /\ exit \in [Clients -> {"running", "success", "failure", "killed"}]
  /\ server_end \in [Clients -> {"none", "open", "closed"}]
  /\ \A k \in Clients : sent[k] \in 0 .. SendLength(k)
  /\ arrived \in [Clients -> 0 .. HEADER_SIZE]
  /\ reply_type \in [Clients -> ReplyType \union {"none"}]
  /\ request \in [Clients -> Requests \union {NoRequest}]
  /\ reply \in [Clients -> ReplyType \union {"NONE"}]

\* The request an action stands for, in the words of the command line.
Wanted(k) ==
  LET a == args[k].action IN
  IF a = "off" THEN <<k, "FENCE_OFF", args[k].node>>
  ELSE IF a = "on" THEN <<k, "FENCE_ON", args[k].node>>
  ELSE IF a = "reboot" THEN <<k, "FENCE_REBOOT", args[k].node>>
  ELSE <<k, "ECHO_REQUEST", NoName>>

\* What the cluster manager relies on: a run that exits with success has had its
\* own request served, by the plugin on its own node (Client.cpp:59-84,
\* ClientConnector.cpp:118-185), and one told FENCE_FAIL has not.
ExitTellsVerdict ==
  \A k \in Clients :
    /\ exit[k] = "success" /\ args[k].action \notin LocalActions => Wanted(k) \in acted
    /\ header[k] = "FENCE_FAIL" => Wanted(k) \notin acted

\* The connection failed, or was closed without a reply.
ConnectionBroken(k) ==
  \/ cpc[k] \in {"send", "receive"} /\ socket_fd[k] = "none"
  \/ server_end[k] = "closed" /\ reply_type[k] = "none"

\* A run that connects ends, however its messages are cut up, unless its connection
\* breaks (ClientConnector.cpp:188-261).
ClientEnds ==
  \A k \in Clients : cpc[k] = "connect" ~> cpc[k] = "ended" \/ ConnectionBroken(k)

\* ... and when it breaks the loops leave with an exception ("@throws InetException,
\* OsException", ClientConnector.cpp:187, 221); it does not hold.
BrokenConnectionEndsClient ==
  \A k \in Clients : ConnectionBroken(k) ~> cpc[k] = "ended"
=============================================================================
