------------------------ MODULE FencingSystem_proofs ------------------------
(***************************************************************************)
(* Proofs about FencingSystem.tla, for any number of runs of the client,   *)
(* any nodes, and messages of any length: what a run reports is what the   *)
(* plugin did.                                                             *)
(***************************************************************************)
EXTENDS FencingSystem, TLAPS

-----------------------------------------------------------------------------
(***************************************************************************)
(* The inductive invariant: the types, and for each run k where its only   *)
(* request is.  Not yet connected, or closed by the server: the server has *)
(* nothing of it.  In the server: the request and the plugin call are the  *)
(* run's own.  A verdict on the way, or read, is the one that acted tells; *)
(* a fencing request that was served is still in the server, or the        *)
(* connection is closed, so that it is never served twice.                 *)
(***************************************************************************)
Typed ==
  /\ args \in [Clients -> CommandLines]
  /\ cpc \in [Clients -> {"dispatch", "connect", "send", "receive", "judge", "ended"}]
  /\ socket_fd \in [Clients -> {"none", "open"}]
  /\ io_offset \in [Clients -> Nat]
  /\ header \in [Clients -> ReplyType \union {"none"}]
  /\ exit \in [Clients -> {"running", "success", "failure", "killed"}]
  /\ server_end \in [Clients -> {"none", "open", "closed"}]
  /\ sent \in [Clients -> Nat]
  /\ arrived \in [Clients -> 0 .. HEADER_SIZE]
  /\ reply_type \in [Clients -> ReplyType \union {"none"}]
  /\ request \in [Clients -> Requests \union {NoRequest}]
  /\ call \in [Clients -> [op : FenceType \union {"NONE"}, node : Nodenames \union {NoName},
                           state : {"none", "running", "succeeded", "failed"}]]
  /\ reply \in [Clients -> ReplyType \union {"NONE"}]

Lengths(k) ==
  /\ io_offset[k] <= SendLength(k)
  /\ sent[k] <= SendLength(k)
  /\ cpc[k] \in {"dispatch", "connect"} => io_offset[k] = 0 /\ sent[k] = 0
  /\ cpc[k] = "send" => sent[k] = io_offset[k] /\ sent[k] < SendLength(k)

Idle(k) == request[k] = NoRequest /\ call[k] = NoCall /\ reply[k] = "NONE"

InServer(k) ==
  /\ cpc[k] \in {"dispatch", "connect"} => server_end[k] = "none"
  /\ server_end[k] # "open" => Idle(k)
  /\ request[k] \in {NoRequest, RequestOf(k)}
  /\ call[k] # NoCall => /\ request[k] = RequestOf(k)
                         /\ call[k].op = RequestOf(k).type
                         /\ call[k].node = RequestOf(k).body
                         /\ args[k].action \in FenceActions
                         /\ call[k].state # "none"

Verdicts(k) ==
  /\ reply[k] = "FENCE_SUCCESS" => call[k].state = "succeeded"
  /\ reply[k] = "FENCE_FAIL" => call[k].state = "failed"
  /\ reply[k] = "ECHO_REPLY" => Wanted(k) \in acted /\ args[k].action \notin FenceActions
  /\ call[k].state = "succeeded" => Wanted(k) \in acted
  /\ args[k].action \in FenceActions /\ Wanted(k) \in acted =>
       call[k].state = "succeeded" \/ server_end[k] = "closed"
  /\ \A r \in {reply_type[k], header[k]} :
       /\ r \in {"FENCE_SUCCESS", "ECHO_REPLY"} => Wanted(k) \in acted
       /\ r = "FENCE_FAIL" => /\ Wanted(k) \notin acted
                              /\ server_end[k] = "closed"
  /\ exit[k] = "success" /\ args[k].action \notin LocalActions => Wanted(k) \in acted

Run(k) == Lengths(k) /\ InServer(k) /\ Verdicts(k)

SInv == Typed /\ \A k \in Clients : Run(k)

-----------------------------------------------------------------------------
(***************************************************************************)
(* Facts about requests.                                                   *)
(***************************************************************************)

\* Changing one client's entry of a function keeps its type.
LEMMA EntryType ==
  ASSUME NEW T, NEW f \in [Clients -> T], NEW k \in Clients, NEW v \in T
  PROVE  [f EXCEPT ![k] = v] \in [Clients -> T]
OBVIOUS

\* A request is a request, and the sizes of messages are positive.
LEMMA RequestFacts ==
  ASSUME Typed, NEW k \in Clients
  PROVE  /\ RequestOf(k) \in Requests
         /\ RequestOf(k) # NoRequest
         /\ NoRequest.type = "NONE" /\ NoCall.state = "none"
         /\ RequestOf(k).type \in FenceType <=> args[k].action \in FenceActions
         /\ RequestOf(k).type = "ECHO_REQUEST" <=> args[k].action \notin FenceActions
         /\ Wanted(k) = <<k, RequestOf(k).type, RequestOf(k).body>>
<1>1. args[k] \in CommandLine
  BY CommandLinesAssumption DEF Typed
<1>2. args[k].node \in Nodenames
  BY <1>1 DEF CommandLine
<1>3. RequestOf(k).type = MsgType(args[k].action)
      /\ RequestOf(k).body = IF args[k].action \in FenceActions THEN args[k].node ELSE NoName
  BY DEF RequestOf
<1>4. NoRequest.type = "NONE" /\ NoCall.state = "none"
  BY ServerConstantsAssumption
<1>5. MsgType(args[k].action) \in FenceType <=> args[k].action \in FenceActions
  BY DEF MsgType, FenceType, FenceActions
<1>6. MsgType(args[k].action) = "ECHO_REQUEST" <=> args[k].action \notin FenceActions
  BY DEF MsgType, FenceActions
<1>7. RequestOf(k) \in Requests
  BY <1>2, <1>5, <1>6 DEF RequestOf, Requests
<1>8. RequestOf(k) # NoRequest
  BY <1>3, <1>4 DEF MsgType
<1>9. Wanted(k) = <<k, RequestOf(k).type, RequestOf(k).body>>
  BY <1>3 DEF Wanted, MsgType, FenceActions
<1> QED
  BY <1>3, <1>4, <1>5, <1>6, <1>7, <1>8, <1>9

LEMMA LengthFacts ==
  ASSUME NEW k \in Clients
  PROVE  SendLength(k) \in Nat /\ SendLength(k) >= HEADER_SIZE /\ HEADER_SIZE > 0
BY SizesAssumption DEF SendLength

-----------------------------------------------------------------------------
(***************************************************************************)
(* A step of one run leaves the others alone.                              *)
(***************************************************************************)
Same(j) ==
  /\ args'[j] = args[j] /\ cpc'[j] = cpc[j] /\ socket_fd'[j] = socket_fd[j]
  /\ io_offset'[j] = io_offset[j] /\ header'[j] = header[j] /\ exit'[j] = exit[j]
  /\ server_end'[j] = server_end[j] /\ sent'[j] = sent[j]
  /\ reply_type'[j] = reply_type[j]
  /\ request'[j] = request[j] /\ call'[j] = call[j] /\ reply'[j] = reply[j]
  /\ (Wanted(j) \in acted)' <=> Wanted(j) \in acted

LEMMA OtherRun ==
  ASSUME NEW j \in Clients, Run(j), Same(j)
  PROVE  Run(j)'
<1>1. Lengths(j)'
  BY DEF Run, Same, Lengths, SendLength
<1>2. InServer(j)'
  BY DEF Run, Same, InServer, Idle, RequestOf
<1>3. Verdicts(j)'
  BY DEF Run, Same, Verdicts
<1> QED
  BY <1>1, <1>2, <1>3 DEF Run

-----------------------------------------------------------------------------
(***************************************************************************)
(* The steps of a client.                                                  *)
(***************************************************************************)

\* The end of a run, with an exit code that its request justifies.
LEMMA ExitStep ==
  ASSUME SInv, NEW k \in Clients, NEW code \in {"success", "failure", "killed"},
         Exits(k, code), UNCHANGED <<args, io_offset, header, channelVars, serverVars, acted>>,
         code = "success" /\ args[k].action \notin LocalActions => Wanted(k) \in acted
  PROVE  SInv'
<1>1. Typed'
  BY DEF SInv, Typed, Exits, channelVars, serverVars
<1>2. ASSUME NEW j \in Clients, j # k PROVE Run(j)'
  <2>1. Same(j)
    BY <1>2 DEF SInv, Typed, Exits, channelVars, serverVars, Same, Wanted
  <2> QED
    BY <2>1, OtherRun DEF SInv
<1>3. Run(k)'
  <2>1. cpc'[k] = "ended" /\ exit'[k] = code
    BY DEF SInv, Typed, Exits
  <2>2. Lengths(k)'
    BY <2>1 DEF SInv, Run, Lengths, SendLength, channelVars
  <2>3. InServer(k)'
    BY <2>1 DEF SInv, Run, InServer, Idle, RequestOf, channelVars, serverVars
  <2>4. Verdicts(k)'
    BY <2>1 DEF SInv, Run, Verdicts, Wanted, channelVars, serverVars
  <2> QED
    BY <2>2, <2>3, <2>4 DEF Run
<1> QED
  BY <1>1, <1>2, <1>3 DEF SInv

LEMMA DispatchStep ==
  ASSUME SInv, NEW k \in Clients, Dispatch(k), UNCHANGED <<serverVars, acted>>
  PROVE  SInv'
<1>1. CASE Exits(k, "failure")
  BY <1>1, ExitStep DEF Dispatch
<1>2. CASE args[k].action \in LocalActions /\ Exits(k, "success")
  BY <1>2, ExitStep DEF Dispatch
<1>3. CASE cpc' = [cpc EXCEPT ![k] = "connect"] /\ UNCHANGED <<exit, socket_fd>>
  <2>1. Typed'
    BY <1>3 DEF SInv, Typed, Dispatch, channelVars, serverVars
  <2>2. ASSUME NEW j \in Clients, j # k PROVE Run(j)'
    <3>1. Same(j)
      BY <1>3, <2>2 DEF SInv, Typed, Dispatch, channelVars, serverVars, Same, Wanted
    <3> QED
      BY <3>1, OtherRun DEF SInv
  <2>3. Run(k)'
    <3>1. cpc[k] = "dispatch" /\ cpc'[k] = "connect"
      BY <1>3 DEF SInv, Typed, Dispatch
    <3>2. Lengths(k)'
      BY <1>3, <3>1 DEF Dispatch, SInv, Run, Lengths, SendLength, channelVars
    <3>3. InServer(k)'
      BY <1>3, <3>1 DEF Dispatch, SInv, Run, InServer, Idle, RequestOf, channelVars, serverVars
    <3>4. Verdicts(k)'
      BY <1>3, <3>1 DEF Dispatch, SInv, Run, Verdicts, Wanted, channelVars, serverVars
    <3> QED
      BY <3>2, <3>3, <3>4 DEF Run
  <2> QED
    BY <2>1, <2>2, <2>3 DEF SInv
<1> QED
  BY <1>1, <1>2, <1>3 DEF Dispatch

LEMMA ConnectStep ==
  ASSUME SInv, NEW k \in Clients, ConnectToServer(k), UNCHANGED <<serverVars, acted>>
  PROVE  SInv'
<1>1. CASE Exits(k, "failure") /\ UNCHANGED server_end
  BY <1>1, ExitStep DEF ConnectToServer, channelVars
<1>2. CASE /\ socket_fd' = [socket_fd EXCEPT ![k] = "open"]
           /\ cpc' = [cpc EXCEPT ![k] = "send"]
           /\ server_end' = [server_end EXCEPT ![k] = "open"]
           /\ UNCHANGED exit
  <2>1. Typed'
    BY <1>2 DEF SInv, Typed, ConnectToServer, serverVars
  <2>2. ASSUME NEW j \in Clients, j # k PROVE Run(j)'
    <3>1. Same(j)
      BY <1>2, <2>2 DEF SInv, Typed, ConnectToServer, serverVars, Same, Wanted
    <3> QED
      BY <3>1, OtherRun DEF SInv
  <2>3. Run(k)'
    <3>1. cpc[k] = "connect" /\ cpc'[k] = "send" /\ server_end'[k] = "open"
      BY <1>2 DEF SInv, Typed, ConnectToServer
    <3>2. Lengths(k)'
      <4>1. io_offset[k] = 0 /\ sent[k] = 0
        BY <3>1 DEF SInv, Run, Lengths
      <4>2. SendLength(k)' = SendLength(k)
        BY DEF ConnectToServer, SendLength
      <4>3. io_offset'[k] = 0 /\ sent'[k] = 0
        BY <4>1 DEF ConnectToServer
      <4> QED
        BY <3>1, <4>2, <4>3, LengthFacts, SizesAssumption DEF Lengths
    <3>3. server_end[k] = "none" /\ Idle(k)
      BY <3>1 DEF SInv, Run, InServer
    <3>4. InServer(k)'
      BY <1>2, <3>1, <3>3 DEF ConnectToServer, InServer, Idle, serverVars
    <3>5. Verdicts(k)'
      BY <1>2, <3>1, <3>3 DEF ConnectToServer, SInv, Run, Verdicts, Wanted, serverVars
    <3> QED
      BY <3>2, <3>4, <3>5 DEF Run
  <2> QED
    BY <2>1, <2>2, <2>3 DEF SInv
<1> QED
  BY <1>1, <1>2 DEF ConnectToServer

\* io_offset never passes the length of the message.
LEMMA SendStep ==
  ASSUME SInv, NEW k \in Clients, SendMessage(k), UNCHANGED <<serverVars, acted>>
  PROVE  SInv'
<1>1. PICK n \in 1 .. SendLength(k) - io_offset[k] :
        /\ sent' = [sent EXCEPT ![k] = @ + n]
        /\ \/ /\ io_offset[k] + n < SendLength(k)
              /\ io_offset' = [io_offset EXCEPT ![k] = io_offset[k] + n]
              /\ UNCHANGED cpc
           \/ /\ io_offset[k] + n >= SendLength(k)
              /\ io_offset' = [io_offset EXCEPT ![k] = 0]
              /\ cpc' = [cpc EXCEPT ![k] = "receive"]
  BY DEF SendMessage, Progress
<1>2. n \in Nat /\ io_offset[k] \in Nat /\ sent[k] \in Nat
  BY <1>1, LengthFacts DEF SInv, Typed
<1>3. cpc[k] = "send" /\ sent[k] = io_offset[k]
  BY DEF SendMessage, SInv, Run, Lengths
<1>4. SendLength(k)' = SendLength(k)
  BY DEF SendMessage, SendLength
<1>5. Typed'
  <2>1. sent' \in [Clients -> Nat]
    BY <1>1, <1>2 DEF SInv, Typed
  <2>2. io_offset' \in [Clients -> Nat]
    BY <1>1, <1>2, SMTT(30) DEF SInv, Typed
  <2>3. cpc' \in [Clients -> {"dispatch", "connect", "send", "receive", "judge", "ended"}]
    BY <1>1, SMTT(30) DEF SInv, Typed
  <2> QED
    BY <2>1, <2>2, <2>3 DEF SInv, Typed, SendMessage, serverVars
<1>6. ASSUME NEW j \in Clients, j # k PROVE Run(j)'
  <2>1. Same(j)
    BY <1>1, <1>6 DEF SInv, Typed, SendMessage, serverVars, Same, Wanted
  <2> QED
    BY <2>1, OtherRun DEF SInv
<1>7. Run(k)'
  <2>1. cpc'[k] \in {"send", "receive"}
    BY <1>1, <1>3 DEF SInv, Typed
  <2>2. Lengths(k)'
    <3>1. sent'[k] = sent[k] + n
      BY <1>1 DEF SInv, Typed
    <3>2. \/ io_offset[k] + n < SendLength(k) /\ io_offset'[k] = io_offset[k] + n
          \/ io_offset'[k] = 0 /\ cpc'[k] = "receive"
      BY <1>1 DEF SInv, Typed
    <3>3. n <= SendLength(k) - io_offset[k]
      BY <1>1, <1>2, LengthFacts
    <3> QED
      BY <1>2, <1>3, <1>4, <2>1, <3>1, <3>2, <3>3, LengthFacts DEF Lengths
  <2>3. InServer(k)'
    BY <1>3, <2>1 DEF SendMessage, SInv, Run, InServer, Idle, RequestOf, serverVars
  <2>4. Verdicts(k)'
    BY DEF SendMessage, SInv, Run, Verdicts, Wanted, serverVars
  <2> QED
    BY <2>2, <2>3, <2>4 DEF Run
<1> QED
  BY <1>5, <1>6, <1>7 DEF SInv

LEMMA LostStep ==
  ASSUME SInv, NEW k \in Clients, DisconnectFromServer(k), UNCHANGED <<serverVars, acted>>
  PROVE  SInv'
<1>1. Typed'
  BY LengthFacts, SizesAssumption DEF SInv, Typed, DisconnectFromServer, serverVars
<1>2. ASSUME NEW j \in Clients PROVE Run(j)'
  <2>1. Lengths(j)'
    BY DEF DisconnectFromServer, SInv, Run, Lengths, SendLength
  <2>2. InServer(j)'
    BY DEF DisconnectFromServer, SInv, Run, InServer, Idle, RequestOf, serverVars
  <2>3. Verdicts(j)'
    BY DEF DisconnectFromServer, SInv, Run, Verdicts, Wanted, serverVars
  <2> QED
    BY <2>1, <2>2, <2>3 DEF Run
<1> QED
  BY <1>1, <1>2 DEF SInv

\* The type in the header is that of the reply that was sent.
LEMMA ReceiveStep ==
  ASSUME SInv, NEW k \in Clients, ReceiveMessage(k), UNCHANGED <<serverVars, acted>>
  PROVE  SInv'
<1>1. PICK n \in 1 .. arrived[k] :
        /\ n <= ReceiveLength - io_offset[k]
        /\ arrived' = [arrived EXCEPT ![k] = @ - n]
        /\ io_offset' = [io_offset EXCEPT ![k] = io_offset[k] + n]
        /\ \/ UNCHANGED <<cpc, header>>
           \/ /\ cpc' = [cpc EXCEPT ![k] = "judge"]
              /\ header' = [header EXCEPT ![k] = reply_type[k]]
  BY DEF ReceiveMessage, Progress
<1>2. /\ n \in Nat /\ io_offset[k] \in Nat /\ arrived[k] \in 0 .. HEADER_SIZE
      /\ arrived[k] - n \in 0 .. HEADER_SIZE /\ io_offset[k] + n <= HEADER_SIZE
      /\ io_offset[k] + n \in Nat
  BY <1>1, SizesAssumption DEF SInv, Typed, ReceiveLength
<1>3. cpc[k] = "receive"
  BY DEF ReceiveMessage
<1>4. Typed'
  <2>1. io_offset' \in [Clients -> Nat] /\ arrived' \in [Clients -> 0 .. HEADER_SIZE]
    BY <1>1, <1>2 DEF SInv, Typed
  <2>2. cpc' \in [Clients -> {"dispatch", "connect", "send", "receive", "judge", "ended"}]
    BY <1>1 DEF SInv, Typed
  <2>3. header' \in [Clients -> ReplyType \union {"none"}]
    BY <1>1, SMTT(30) DEF SInv, Typed
  <2> QED
    BY <2>1, <2>2, <2>3 DEF SInv, Typed, ReceiveMessage, serverVars
<1>5. ASSUME NEW j \in Clients, j # k PROVE Run(j)'
  <2>1. Same(j)
    BY <1>1, <1>5 DEF SInv, Typed, ReceiveMessage, serverVars, Same, Wanted
  <2> QED
    BY <2>1, OtherRun DEF SInv
<1>6. Run(k)'
  <2>1. cpc'[k] \in {"receive", "judge"}
    BY <1>1, <1>3 DEF SInv, Typed
  <2>2. Lengths(k)'
    <3>1. io_offset'[k] = io_offset[k] + n
      BY <1>1 DEF SInv, Typed
    <3>2. SendLength(k)' = SendLength(k)
      BY DEF ReceiveMessage, SendLength
    <3>3. sent'[k] = sent[k] /\ sent[k] <= SendLength(k)
      BY DEF ReceiveMessage, SInv, Run, Lengths
    <3>4. io_offset'[k] <= SendLength(k)
      BY <1>2, <3>1, LengthFacts, SizesAssumption
    <3> QED
      BY <2>1, <3>2, <3>3, <3>4 DEF Lengths
  <2>3. InServer(k)'
    BY <1>3, <2>1 DEF ReceiveMessage, SInv, Run, InServer, Idle, RequestOf, serverVars
  <2>4. Verdicts(k)'
    <3>1. header'[k] \in {header[k], reply_type[k]}
      BY <1>1 DEF SInv, Typed
    <3> QED
      BY <3>1, SMTT(30) DEF ReceiveMessage, SInv, Run, Verdicts, Wanted, serverVars
  <2> QED
    BY <2>2, <2>3, <2>4 DEF Run
<1> QED
  BY <1>4, <1>5, <1>6 DEF SInv

\* check_connection and fence_action_impl read the verdict off the header.
LEMMA JudgeStep ==
  ASSUME SInv, NEW k \in Clients, Judge(k), UNCHANGED <<serverVars, acted>>
  PROVE  SInv'
<1>1. Verdict(k) \in {"success", "failure", "killed"}
  BY DEF Verdict
<1>2. Verdict(k) = "success" => Wanted(k) \in acted
  <2>1. Verdict(k) = "success" => header[k] \in {"FENCE_SUCCESS", "ECHO_REPLY"}
    BY DEF Verdict
  <2> QED
    BY <2>1 DEF SInv, Run, Verdicts
<1> QED
  BY <1>1, <1>2, ExitStep DEF Judge

LEMMA ClientStepInv ==
  ASSUME SInv, NEW k \in Clients, ClientStep(k)
  PROVE  SInv'
<1>1. CASE Dispatch(k)
  BY <1>1, DispatchStep DEF ClientStep
<1>2. CASE ConnectToServer(k)
  BY <1>2, ConnectStep DEF ClientStep
<1>3. CASE SendMessage(k)
  BY <1>3, SendStep DEF ClientStep
<1>4. CASE BrokenPipe(k)
  BY <1>4, ExitStep DEF ClientStep, BrokenPipe
<1>5. CASE ReceiveMessage(k)
  BY <1>5, ReceiveStep DEF ClientStep
<1>6. CASE Judge(k)
  BY <1>6, JudgeStep DEF ClientStep
<1>7. CASE LoopsForNothing(k)
  <2>1. Typed'
    BY <1>7 DEF LoopsForNothing, clientVars, channelVars, ClientStep, serverVars, SInv, Typed
  <2>2. ASSUME NEW j \in Clients PROVE Run(j)'
    <3>1. Same(j)
      BY <1>7 DEF LoopsForNothing, clientVars, channelVars, ClientStep, serverVars, Same, Wanted
    <3> QED
      BY <3>1, OtherRun DEF SInv
  <2> QED
    BY <2>1, <2>2 DEF SInv
<1> QED
  BY <1>1, <1>2, <1>3, <1>4, <1>5, <1>6, <1>7 DEF ClientStep, Runs

-----------------------------------------------------------------------------
(***************************************************************************)
(* The steps of the server.                                                *)
(***************************************************************************)

\* A run asks once: when its request comes in, the server has nothing of it.
LEMMA ReceivesStep ==
  ASSUME SInv, NEW k \in Clients, ServerReceives(k)
  PROVE  SInv'
<1>1. PICK r \in Requests : request' = [request EXCEPT ![k] = r]
  BY DEF ServerReceives, Server!Ask
<1>2. /\ call' = [call EXCEPT ![k] = NoCall] /\ UNCHANGED reply
      /\ request[k] = NoRequest /\ request'[k] = RequestOf(k)
      /\ sent' = [sent EXCEPT ![k] = 0]
      /\ server_end[k] = "open" /\ sent[k] = SendLength(k)
      /\ UNCHANGED <<clientVars, server_end, arrived, reply_type, acted>>
  BY DEF ServerReceives, Server!Ask
<1>3. Typed'
  <2>1. request' \in [Clients -> Requests \union {NoRequest}]
    BY <1>1 DEF SInv, Typed
  <2>2. sent' \in [Clients -> Nat]
    BY <1>2 DEF SInv, Typed
  <2>3. call' \in [Clients -> [op : FenceType \union {"NONE"}, node : Nodenames \union {NoName},
                               state : {"none", "running", "succeeded", "failed"}]]
    BY <1>2, ServerConstantsAssumption DEF SInv, Typed
  <2> QED
    BY <1>2, <2>1, <2>2, <2>3 DEF SInv, Typed, clientVars
<1>4. ASSUME NEW j \in Clients, j # k PROVE Run(j)'
  <2>1. Same(j)
    BY <1>1, <1>2, <1>4 DEF SInv, Typed, clientVars, Same, Wanted
  <2> QED
    BY <2>1, OtherRun DEF SInv
<1>5. Run(k)'
  <2>1. cpc[k] \notin {"dispatch", "connect", "send"}
    BY <1>2, LengthFacts DEF SInv, Run, Lengths, InServer
  <2>2. call[k] = NoCall /\ call'[k] = NoCall /\ sent'[k] = 0
    BY <1>2, RequestFacts DEF SInv, Typed, Run, InServer
  <2>3. SendLength(k)' = SendLength(k) /\ RequestOf(k)' = RequestOf(k)
    BY <1>2 DEF clientVars, SendLength, RequestOf
  <2>4. Lengths(k)'
    BY <1>2, <2>1, <2>2, <2>3, LengthFacts, SizesAssumption DEF SInv, Run, Lengths, clientVars
  <2>5. InServer(k)'
    BY <1>2, <2>1, <2>2, <2>3 DEF InServer, clientVars
  <2>6. Verdicts(k)'
    BY <1>2, <2>2 DEF SInv, Run, Verdicts, Wanted, clientVars
  <2> QED
    BY <2>4, <2>5, <2>6 DEF Run
<1> QED
  BY <1>3, <1>4, <1>5 DEF SInv

LEMMA BeginsStep ==
  ASSUME SInv, NEW k \in Clients, ServerBegins(k)
  PROVE  SInv'
<1> DEFINE new == [op |-> request[k].type, node |-> request[k].body, state |-> "running"]
<1>1. /\ call' = [call EXCEPT ![k] = new]
      /\ request[k].type \in FenceType /\ call[k] = NoCall
      /\ UNCHANGED <<request, reply>> /\ UNCHANGED <<clientVars, channelVars, acted>>
  BY DEF ServerBegins, Server!Begin
<1>2. /\ request[k] = RequestOf(k) /\ args[k].action \in FenceActions
      /\ server_end[k] = "open"
  BY <1>1, RequestFacts DEF SInv, Run, InServer, Idle, FenceType
<1>3. call'[k] = new
  BY <1>1 DEF SInv, Typed
<1>4. Typed'
  <2>1. RequestOf(k).body \in Nodenames \union {NoName}
    BY <1>2, RequestFacts DEF SInv, Requests
  <2>2. new \in [op : FenceType \union {"NONE"}, node : Nodenames \union {NoName},
                 state : {"none", "running", "succeeded", "failed"}]
    BY <1>1, <1>2, <2>1
  <2>3. call' \in [Clients -> [op : FenceType \union {"NONE"}, node : Nodenames \union {NoName},
                               state : {"none", "running", "succeeded", "failed"}]]
    BY <1>1, <2>2 DEF SInv, Typed
  <2> QED
    BY <1>1, <2>3 DEF SInv, Typed, clientVars, channelVars
<1>5. ASSUME NEW j \in Clients, j # k PROVE Run(j)'
  <2>1. Same(j)
    BY <1>1, <1>5 DEF SInv, Typed, clientVars, channelVars, Same, Wanted
  <2> QED
    BY <2>1, OtherRun DEF SInv
<1>6. Run(k)'
  <2>1. Lengths(k)'
    BY <1>1 DEF SInv, Run, Lengths, SendLength, clientVars, channelVars
  <2>2. RequestOf(k)' = RequestOf(k)
    BY <1>1 DEF RequestOf, clientVars
  <2>3. InServer(k)'
    BY <1>1, <1>2, <1>3, <2>2 DEF SInv, Run, InServer, clientVars, channelVars
  <2>4. NoCall.state = "none"
    BY RequestFacts DEF SInv
  <2>5. Verdicts(k)'
    BY <1>1, <1>2, <1>3, <2>4 DEF SInv, Run, Verdicts, Wanted, clientVars, channelVars
  <2> QED
    BY <2>1, <2>3, <2>5 DEF Run
<1> QED
  BY <1>4, <1>5, <1>6 DEF SInv

\* The plugin acts, or not, for the run's own request.
LEMMA FinishesStep ==
  ASSUME SInv, NEW k \in Clients, ServerFinishes(k)
  PROVE  SInv'
<1>1. PICK s \in {"succeeded", "failed"} :
        /\ call' = [call EXCEPT ![k].state = s]
        /\ reply' = [reply EXCEPT ![k] = IF s = "succeeded" THEN "FENCE_SUCCESS" ELSE "FENCE_FAIL"]
  BY DEF ServerFinishes, Server!Finish
<1>2. call[k].state = "running" /\ UNCHANGED request /\ UNCHANGED <<clientVars, channelVars>>
  BY DEF ServerFinishes, Server!Finish
<1>3. /\ call'[k].state = s /\ call'[k].op = call[k].op /\ call'[k].node = call[k].node
      /\ reply'[k] = IF s = "succeeded" THEN "FENCE_SUCCESS" ELSE "FENCE_FAIL"
  BY <1>1 DEF SInv, Typed
<1>4. /\ call[k] # NoCall /\ request[k] = RequestOf(k) /\ args[k].action \in FenceActions
      /\ Wanted(k) = <<k, call[k].op, call[k].node>> /\ server_end[k] = "open"
      /\ NoCall.state = "none"
  BY <1>2, RequestFacts DEF SInv, Run, InServer, Idle
<1>5. acted' = IF s = "succeeded" THEN acted \union {Wanted(k)} ELSE acted
  BY <1>3, <1>4 DEF ServerFinishes
<1>6. Typed'
  <2>1. call' \in [Clients -> [op : FenceType \union {"NONE"}, node : Nodenames \union {NoName},
                               state : {"none", "running", "succeeded", "failed"}]]
    <3> DEFINE Record == [op : FenceType \union {"NONE"}, node : Nodenames \union {NoName},
                          state : {"none", "running", "succeeded", "failed"}]
               d == [call[k] EXCEPT !.state = s]
    <3>1. call \in [Clients -> Record] /\ call[k] \in Record
      BY DEF SInv, Typed
    <3>2. d \in Record
      BY <3>1
    <3>3. call' = [call EXCEPT ![k] = d]
      BY <1>1, <3>1
    <3> QED BY <3>1, <3>2, <3>3, EntryType
  <2>2. reply' \in [Clients -> ReplyType \union {"NONE"}]
    BY <1>1 DEF SInv, Typed, ReplyType
  <2> QED
    BY <1>2, <2>1, <2>2 DEF SInv, Typed, clientVars, channelVars
<1>7. ASSUME NEW j \in Clients, j # k PROVE Run(j)'
  <2>1. Wanted(j) # Wanted(k) /\ Wanted(j)' = Wanted(j)
    BY <1>2, <1>7 DEF Wanted, clientVars
  <2>2. Same(j)
    BY <1>1, <1>2, <1>5, <1>7, <2>1 DEF SInv, Typed, clientVars, channelVars, Same
  <2> QED
    BY <2>2, OtherRun DEF SInv
<1>8. Run(k)'
  <2>1. Lengths(k)'
    BY <1>2 DEF SInv, Run, Lengths, SendLength, clientVars, channelVars
  <2>2. RequestOf(k)' = RequestOf(k) /\ Wanted(k)' = Wanted(k)
    BY <1>2 DEF RequestOf, Wanted, clientVars
  <2>3. InServer(k)'
    BY <1>2, <1>3, <1>4, <2>2 DEF SInv, Run, InServer, clientVars, channelVars
  <2>4. reply_type[k] # "FENCE_FAIL" /\ header[k] # "FENCE_FAIL"
    BY <1>4 DEF SInv, Run, Verdicts
  <2>5. Verdicts(k)'
    <3>1. s = "failed" => Wanted(k) \notin acted
      BY <1>2, <1>4 DEF SInv, Run, Verdicts
    <3> QED
      BY <1>2, <1>3, <1>4, <1>5, <2>2, <2>4, <3>1 DEF SInv, Run, Verdicts, clientVars, channelVars
  <2> QED
    BY <2>1, <2>3, <2>5 DEF Run
<1> QED
  BY <1>6, <1>7, <1>8 DEF SInv

LEMMA EchoesStep ==
  ASSUME SInv, NEW k \in Clients, ServerEchoes(k)
  PROVE  SInv'
<1>1. /\ request[k].type = "ECHO_REQUEST"
      /\ reply' = [reply EXCEPT ![k] = "ECHO_REPLY"]
      /\ UNCHANGED <<request, call>> /\ UNCHANGED <<clientVars, channelVars>>
      /\ acted' = acted \union {<<k, "ECHO_REQUEST", NoName>>}
  BY DEF ServerEchoes, Server!Echo
<1>2. /\ request[k] = RequestOf(k) /\ args[k].action \notin FenceActions
      /\ server_end[k] = "open"
  BY <1>1, RequestFacts DEF SInv, Run, InServer, Idle
<1>3. Wanted(k) = <<k, "ECHO_REQUEST", NoName>>
  BY <1>2 DEF Wanted, FenceActions
<1>4. Typed'
  BY <1>1 DEF SInv, Typed, ReplyType, clientVars, channelVars
<1>5. ASSUME NEW j \in Clients, j # k PROVE Run(j)'
  <2>1. Wanted(j) # Wanted(k) /\ Wanted(j)' = Wanted(j)
    BY <1>1, <1>5 DEF Wanted, clientVars
  <2>2. Same(j)
    BY <1>1, <1>3, <1>5, <2>1 DEF SInv, Typed, clientVars, channelVars, Same
  <2> QED
    BY <2>2, OtherRun DEF SInv
<1>6. Run(k)'
  <2>1. Lengths(k)'
    BY <1>1 DEF SInv, Run, Lengths, SendLength, clientVars, channelVars
  <2>2. RequestOf(k)' = RequestOf(k) /\ Wanted(k)' = Wanted(k)
    BY <1>1 DEF RequestOf, Wanted, clientVars
  <2>3. InServer(k)'
    BY <1>1, <1>2, <2>2 DEF SInv, Run, InServer, clientVars, channelVars
  <2>4. reply_type[k] # "FENCE_FAIL" /\ header[k] # "FENCE_FAIL"
    BY <1>2 DEF SInv, Run, Verdicts
  <2>5. reply'[k] = "ECHO_REPLY"
    BY <1>1 DEF SInv, Typed
  <2>6. Verdicts(k)'
    BY <1>1, <1>2, <1>3, <2>2, <2>4, <2>5 DEF SInv, Run, Verdicts, clientVars, channelVars
  <2> QED
    BY <2>1, <2>3, <2>6 DEF Run
<1> QED
  BY <1>4, <1>5, <1>6 DEF SInv

\* The reply in the server goes out, and the server forgets the request.
LEMMA DeliveredTyped ==
  ASSUME Typed, NEW k \in Clients, reply[k] \in ReplyType, Delivered(k)
  PROVE  /\ reply_type' \in [Clients -> ReplyType \union {"none"}]
         /\ arrived' \in [Clients -> 0 .. HEADER_SIZE]
         /\ reply_type'[k] = reply[k]
BY SizesAssumption DEF Typed, Delivered

LEMMA AnswersStep ==
  ASSUME SInv, NEW k \in Clients, ServerAnswers(k)
  PROVE  SInv'
<1>1. /\ server_end[k] = "open" /\ reply[k] = "ECHO_REPLY"
      /\ request' = [request EXCEPT ![k] = NoRequest]
      /\ reply' = [reply EXCEPT ![k] = "NONE"]
      /\ UNCHANGED call /\ UNCHANGED <<clientVars, server_end, sent, acted>>
      /\ Delivered(k)
  BY DEF ServerAnswers, Server!Answer
<1>2. /\ reply_type' \in [Clients -> ReplyType \union {"none"}]
      /\ arrived' \in [Clients -> 0 .. HEADER_SIZE]
      /\ reply_type'[k] = "ECHO_REPLY"
  BY <1>1, DeliveredTyped DEF SInv, ReplyType
<1>3. Typed'
  BY <1>1, <1>2 DEF SInv, Typed, clientVars
<1>4. ASSUME NEW j \in Clients, j # k PROVE Run(j)'
  <2>1. Same(j)
    BY <1>1, <1>4 DEF Delivered, SInv, Typed, clientVars, Same, Wanted
  <2> QED
    BY <2>1, OtherRun DEF SInv
<1>5. Run(k)'
  <2>1. Wanted(k) \in acted /\ args[k].action \notin FenceActions /\ call[k] = NoCall
    BY <1>1 DEF SInv, Run, Verdicts, InServer
  <2>2. request'[k] = NoRequest /\ reply'[k] = "NONE"
    BY <1>1 DEF SInv, Typed
  <2>3. Lengths(k)'
    BY <1>1 DEF SInv, Run, Lengths, SendLength, clientVars
  <2>4. InServer(k)'
    BY <1>1, <2>1, <2>2 DEF SInv, Run, InServer, clientVars
  <2>5. Wanted(k)' = Wanted(k)
    BY <1>1 DEF Wanted, clientVars
  <2>6. Verdicts(k)'
    BY <1>1, <1>2, <2>1, <2>2, <2>5 DEF SInv, Run, Verdicts, clientVars
  <2> QED
    BY <2>3, <2>4, <2>6 DEF Run
<1> QED
  BY <1>3, <1>4, <1>5 DEF SInv

LEMMA ClosesStep ==
  ASSUME SInv, NEW k \in Clients, ServerAnswersAndCloses(k)
  PROVE  SInv'
<1>1. /\ server_end[k] = "open" /\ reply[k] \in {"FENCE_SUCCESS", "FENCE_FAIL"}
      /\ request' = [request EXCEPT ![k] = NoRequest]
      /\ call' = [call EXCEPT ![k] = NoCall]
      /\ reply' = [reply EXCEPT ![k] = "NONE"]
      /\ server_end' = [server_end EXCEPT ![k] = "closed"]
      /\ UNCHANGED <<clientVars, sent, acted>>
      /\ Delivered(k)
  BY DEF ServerAnswersAndCloses, Server!Drop
<1>2. /\ reply_type' \in [Clients -> ReplyType \union {"none"}]
      /\ arrived' \in [Clients -> 0 .. HEADER_SIZE]
      /\ reply_type'[k] = reply[k]
  BY <1>1, DeliveredTyped DEF SInv, ReplyType
<1>3. Typed'
  <2>1. call' \in [Clients -> [op : FenceType \union {"NONE"}, node : Nodenames \union {NoName},
                               state : {"none", "running", "succeeded", "failed"}]]
    BY <1>1, ServerConstantsAssumption DEF SInv, Typed
  <2> QED
    BY <1>1, <1>2, <2>1 DEF SInv, Typed, clientVars
<1>4. ASSUME NEW j \in Clients, j # k PROVE Run(j)'
  <2>1. Same(j)
    BY <1>1, <1>4 DEF Delivered, SInv, Typed, clientVars, Same, Wanted
  <2> QED
    BY <2>1, OtherRun DEF SInv
<1>5. Run(k)'
  <2>1. Idle(k)' /\ server_end'[k] = "closed"
    BY <1>1 DEF SInv, Typed, Idle
  <2>2. NoCall.state = "none"
    BY RequestFacts DEF SInv
  <2>3. call[k] # NoCall /\ args[k].action \in FenceActions
    BY <1>1, <2>2 DEF SInv, Run, Verdicts, InServer
  <2>4. Lengths(k)'
    BY <1>1 DEF SInv, Run, Lengths, SendLength, clientVars
  <2>5. InServer(k)'
    BY <1>1, <2>1 DEF SInv, Run, InServer, Idle, clientVars
  <2>6. Wanted(k)' = Wanted(k)
    BY <1>1 DEF Wanted, clientVars
  <2>7. /\ reply[k] = "FENCE_SUCCESS" => Wanted(k) \in acted
        /\ reply[k] = "FENCE_FAIL" => Wanted(k) \notin acted
    BY <1>1, <2>3 DEF SInv, Run, Verdicts
  <2>8. Verdicts(k)'
    BY <1>1, <1>2, <2>1, <2>2, <2>6, <2>7 DEF SInv, Run, Verdicts, Idle, clientVars
  <2> QED
    BY <2>4, <2>5, <2>8 DEF Run
<1> QED
  BY <1>3, <1>4, <1>5 DEF SInv

LEMMA DropsStep ==
  ASSUME SInv, NEW k \in Clients, ServerDrops(k)
  PROVE  SInv'
<1>1. /\ server_end[k] = "open"
      /\ request' = [request EXCEPT ![k] = NoRequest]
      /\ call' = [call EXCEPT ![k] = NoCall]
      /\ reply' = [reply EXCEPT ![k] = "NONE"]
      /\ server_end' = [server_end EXCEPT ![k] = "closed"]
      /\ UNCHANGED <<clientVars, sent, arrived, reply_type, acted>>
  BY DEF ServerDrops, Server!Drop
<1>2. Typed'
  <2>1. call' \in [Clients -> [op : FenceType \union {"NONE"}, node : Nodenames \union {NoName},
                               state : {"none", "running", "succeeded", "failed"}]]
    BY <1>1, ServerConstantsAssumption DEF SInv, Typed
  <2> QED
    BY <1>1, <2>1 DEF SInv, Typed, clientVars
<1>3. ASSUME NEW j \in Clients, j # k PROVE Run(j)'
  <2>1. Same(j)
    BY <1>1, <1>3 DEF SInv, Typed, clientVars, Same, Wanted
  <2> QED
    BY <2>1, OtherRun DEF SInv
<1>4. Run(k)'
  <2>1. Idle(k)' /\ server_end'[k] = "closed" /\ NoCall.state = "none"
    BY <1>1, RequestFacts DEF SInv, Typed, Idle
  <2>2. Lengths(k)'
    BY <1>1 DEF SInv, Run, Lengths, SendLength, clientVars
  <2>3. InServer(k)'
    BY <1>1, <2>1 DEF SInv, Run, InServer, Idle, clientVars
  <2>4. Verdicts(k)'
    BY <1>1, <2>1 DEF SInv, Run, Verdicts, Wanted, Idle, clientVars
  <2> QED
    BY <2>2, <2>3, <2>4 DEF Run
<1> QED
  BY <1>2, <1>3, <1>4 DEF SInv

-----------------------------------------------------------------------------
(***************************************************************************)
(* The invariant, and what follows from it.                                *)
(***************************************************************************)

LEMMA InitSInv == Init => SInv
<1> SUFFICES ASSUME Init PROVE SInv
  OBVIOUS
<1>1. Typed
  BY SizesAssumption, ServerConstantsAssumption
     DEF Init, ClientInit, Server!Init, Typed
<1>2. ASSUME NEW k \in Clients PROVE Run(k)
  <2>1. Lengths(k)
    BY LengthFacts, SizesAssumption DEF Init, ClientInit, Lengths
  <2>2. InServer(k)
    BY DEF Init, ClientInit, Server!Init, InServer, Idle
  <2>3. Verdicts(k)
    BY ServerConstantsAssumption DEF Init, ClientInit, Server!Init, Verdicts
  <2> QED
    BY <2>1, <2>2, <2>3 DEF Run
<1> QED
  BY <1>1, <1>2 DEF SInv

LEMMA NextSInv == SInv /\ [Next]_vars => SInv'
<1> SUFFICES ASSUME SInv, [Next]_vars PROVE SInv'
  OBVIOUS
<1>1. ASSUME NEW k \in Clients, ClientStep(k) PROVE SInv'
  BY <1>1, ClientStepInv
<1>2. ASSUME NEW k \in Clients, ConnectionLost(k) PROVE SInv'
  BY <1>2, LostStep DEF ConnectionLost
<1>3. ASSUME NEW k \in Clients, ServerStep(k) PROVE SInv'
  BY <1>3, ReceivesStep, BeginsStep, FinishesStep, EchoesStep, AnswersStep, ClosesStep
     DEF ServerStep
<1>4. ASSUME NEW k \in Clients, ServerDrops(k) PROVE SInv'
  BY <1>4, DropsStep
<1>5. CASE UNCHANGED vars
  <2>1. Typed'
    BY <1>5 DEF vars, clientVars, channelVars, serverVars, SInv, Typed
  <2>2. ASSUME NEW j \in Clients PROVE Run(j)'
    <3>1. Same(j)
      BY <1>5 DEF vars, clientVars, channelVars, serverVars, Same, Wanted
    <3> QED
      BY <3>1, OtherRun DEF SInv
  <2> QED
    BY <2>1, <2>2 DEF SInv
<1> QED
  BY <1>1, <1>2, <1>3, <1>4, <1>5 DEF Next

\* The invariant holds (Client.cpp, ClientConnector.cpp, and the service of
\* ServerConnector.cpp).
THEOREM SInvHolds == Spec => []SInv
<1> QED
  BY InitSInv, NextSInv, PTL DEF Spec

\* Types of the client's state; io_offset stays within the message
\* (ClientConnector.cpp:187-261).
THEOREM SystemTypes == Spec => []TypeOK
<1>1. SInv => TypeOK
  <2> SUFFICES ASSUME SInv PROVE TypeOK
    OBVIOUS
  <2>1. ASSUME NEW k \in Clients
        PROVE  io_offset[k] \in 0 .. SendLength(k) /\ sent[k] \in 0 .. SendLength(k)
    BY LengthFacts DEF SInv, Typed, Run, Lengths
  <2> QED
    BY <2>1 DEF SInv, Typed, TypeOK
<1> QED
  BY <1>1, SInvHolds, PTL

\* A run that exits with success has had its own request served, and one that
\* reads FENCE_FAIL has not (Client.cpp:59-84, ClientConnector.cpp:118-185).
THEOREM SystemTellsVerdict == Spec => []ExitTellsVerdict
<1>1. SInv => ExitTellsVerdict
  BY DEF SInv, Run, Verdicts, ExitTellsVerdict
<1> QED
  BY <1>1, SInvHolds, PTL
=============================================================================
