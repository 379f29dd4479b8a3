--------------------------- MODULE Service_proofs ---------------------------
(***************************************************************************)
(* Proofs about ServerConnector.tla beyond the ownership of the objects,   *)
(* for any number of clients, workers, connections and requests: the       *)
(* self-pipe, the free object and the plugin are there when they are used, *)
(* and seen from its connections the server is Fencing.tla.                *)
(***************************************************************************)
EXTENDS ServerConnector_proofs

-----------------------------------------------------------------------------
(***************************************************************************)
(* The inductive invariants, beside IInv.                                  *)
(***************************************************************************)
WithWakeup == {"check", "build", "select", "accept", "drain", "lock", "io", "handoff",
               "cleanup", "cleanup_action", "cleanup_head", "cleanup_tail", "cleanup_lock"}

\* Where the descriptor for wakeups is set; that the selector goes to accept only with
\* the server socket in its set, which it put there for a free object; and that the
\* threads have ended when the connector is destroyed.
EndsInv ==
  /\ wakeup_fd => selector_trigger # "closed" /\ pc \in WithWakeup
  /\ pc \in {"select", "accept"} /\ LISTEN \in read_fd_set => client_pool # {}
  /\ pc = "accept" => LISTEN \in read_fd_set
  /\ pc = "destroyed" => \A w \in Workers : wpc[w] = "exited"

\* A client with the fields n, its peer p and the plugin call k for its request: a call
\* is the request's own; a verdict on its way out is the call's; a name was read by the
\* call that is made; who is about to be answered and closed does not receive again;
\* what waits for a worker is the request; and what goes out is in phase SEND.
CallOk(n, p, k) ==
  /\ k.state = "none" => k = NoCall
  /\ k.state # "none" => k.op \in FenceType /\ p.req.type = k.op /\ p.req.body = k.node
  /\ n.msg.type = "FENCE_SUCCESS" => k.state = "succeeded"
  /\ n.msg.type = "FENCE_FAIL" => k.state = "failed"
  /\ n.nodename # NoName => k.state # "none"
  /\ k.state \in {"succeeded", "failed"} =>
       n.current_phase = "SEND" /\ n.next_phase = "CANCELED"
  /\ n.next_phase = "RECV" => /\ k.state = "none"
                              /\ n.io_state = "WRITE" /\ n.msg.type = "ECHO_REPLY"
  /\ n.current_phase = "PENDING" => n.msg = p.req
  /\ n.io_state = "WRITE" => n.current_phase = "SEND"

\* A worker about to execute has the request before it, and a call runs exactly while
\* one is in the plugin with the client.
Calls ==
  /\ \A w \in Workers : wpc[w] = "execute" => client[job[w]].msg = peer[job[w]].req
  /\ \A w \in Workers : wpc[w] = "plugin" => call[job[w]].state = "running"
  /\ \A c \in Node : call[c].state = "running" =>
                       \E w \in Workers : job[w] = c /\ wpc[w] = "plugin"

CallInv == Calls /\ \A c \in Node : CallOk(client[c], peer[c], call[c])

\* The tuples of variables are no more than abbreviations.
USE DEF queueVars, poolVars, lockVars, signalVars, selVars, workerVars, envVars

-----------------------------------------------------------------------------
(***************************************************************************)
(* EndsInv.                                                                *)
(***************************************************************************)

\* A step that leaves the self-pipe, the selector and the pool of objects alone, and
\* no thread back from its end.
LEMMA EndsKept ==
  ASSUME EndsInv, UNCHANGED <<wakeup_fd, pc, read_fd_set>>,
         selector_trigger' = "closed" => selector_trigger = "closed",
         client_pool \subseteq client_pool',
         \A w \in Workers : wpc[w] = "exited" => wpc'[w] = "exited"
  PROVE  EndsInv'
BY DEF EndsInv

\* The selector is at none of the positions that EndsInv asks something of.
LEMMA EndsElsewhere ==
  ASSUME EndsInv, pc' \notin {"select", "accept", "destroyed"},
         wakeup_fd' => wakeup_fd /\ pc' \in WithWakeup,
         selector_trigger' = "closed" => selector_trigger = "closed"
  PROVE  EndsInv'
BY DEF EndsInv

LEMMA ReleaseGrows ==
  ASSUME NEW c, ReleaseClient(c)
  PROVE  client_pool \subseteq client_pool'
BY DEF ReleaseClient

LEMMA SelectorEnds ==
  ASSUME IInv, EndsInv, Selector
  PROVE  EndsInv'
<1>1. CASE SelectorInit
  BY <1>1 DEF SelectorInit, EndsInv, WithWakeup
<1>2. CASE SelectorCheck \/ DrainTrigger \/ IoBegin \/ IoEnd \/ Handoff
  BY <1>2, EndsElsewhere
  DEF SelectorCheck, DrainTrigger, IoBegin, IoEnd, Handoff, EndsInv, WithWakeup
<1>3. CASE BuildFdSets
  <2>1. LISTEN \notin Members(Com)
    BY DescriptorsAssumption DEF Members
  <2>2. LISTEN \in read_fd_set' => client_pool # {}
    BY <1>3, <2>1 DEF BuildFdSets, Waiting, ListenerFds, LISTEN, TRIGGER
  <2> QED
    BY <1>3, <2>2 DEF BuildFdSets, EndsInv, WithWakeup
<1>4. CASE Select
  <2>1. read_fd_set' \subseteq read_fd_set
    BY <1>4 DEF Select, ReadyToRead
  <2>2. pc' = "accept" => LISTEN \in read_fd_set'
    BY <1>4 DEF Select, AfterAccept
  <2>3. pc' \in {"accept", "drain", "lock"} /\ pc = "select"
    BY <1>4 DEF Select, AfterAccept
  <2> QED
    BY <1>4, <2>1, <2>2, <2>3 DEF Select, EndsInv, WithWakeup
<1>5. CASE AcceptConnection
  <2>1. pc' \in {"drain", "lock"}
    BY <1>5 DEF AcceptConnection, AfterAccept
  <2> QED
    BY <1>5, <2>1, EndsElsewhere DEF AcceptConnection, EndsInv, WithWakeup
<1>6. CASE IoStep
  <2>1. PICK c \in Node : \/ IoSkip(c) \/ IoClose(c) \/ ReceivePart(c) \/ ReceiveMessage(c)
                          \/ SendThenReceive(c) \/ SendThenClose(c)
    BY <1>6 DEF IoStep
  <2>2. pc' \in {"io", "handoff"} /\ wakeup_fd' = wakeup_fd
          /\ selector_trigger' = selector_trigger
    BY <2>1
    DEF IoSkip, IoClose, ReceivePart, ReceiveMessage, SendThenReceive, SendThenClose, AtClient
  <2>3. EndsInv'
    BY <2>2, EndsElsewhere DEF WithWakeup
  <2> QED BY <2>3
<1>7. CASE CleanupBegin \/ CleanupActionEnd \/ CleanupComBegin
  BY <1>7, EndsElsewhere
  DEF CleanupBegin, CleanupActionEnd, CleanupComBegin, DisableWakeupFd, EndsInv, WithWakeup
<1>8. CASE CleanupActionClose
  <2>1. pc' \in {"cleanup_head", "cleanup_tail"} /\ UNCHANGED signalVars
    BY <1>8 DEF CleanupActionClose
  <2> QED BY <2>1, EndsElsewhere DEF WithWakeup
<1>9. CASE CleanupActionClosed
  BY <1>9, EndsElsewhere DEF CleanupActionClosed, WithWakeup
<1>10. CASE CleanupComClose
  BY <1>10, EndsElsewhere DEF CleanupComClose, EndsInv, WithWakeup
<1>11. CASE CleanupComEnd
  <2>1. ~wakeup_fd /\ wakeup_fd' = wakeup_fd /\ pc' = "stop"
    BY <1>11 DEF CleanupComEnd, EndsInv, WithWakeup
  <2> QED BY <2>1 DEF EndsInv
<1>12. CASE StopThreads
  BY <1>12, EndsElsewhere DEF StopThreads, EndsInv, WithWakeup
<1>13. CASE JoinThreads
  BY <1>13 DEF JoinThreads, AllJoined, EndsInv, WithWakeup
<1> QED
  BY <1>1, <1>2, <1>3, <1>4, <1>5, <1>6, <1>7, <1>8, <1>9, <1>10, <1>11, <1>12, <1>13
  DEF Selector

LEMMA WorkerEnds ==
  ASSUME IInv, EndsInv, NEW w \in Workers, Worker(w)
  PROVE  EndsInv'
<1>1. /\ UNCHANGED <<wakeup_fd, pc, read_fd_set>>
      /\ client_pool \subseteq client_pool'
  BY ReleaseGrows
  DEF Worker, WorkerEnter, WorkerRelock, TakeJob, ExecuteEcho, FenceCall, FenceReturn,
      ExecuteRejected, ExecuteThrows, UnownedCheck, UnownedWait, RouteClient, RejectClose,
      RejectClosed, UnlockedCloseBegin, UnlockedCloseEnd, CloseConnection
<1>2. selector_trigger' = "closed" => selector_trigger = "closed"
  BY DEF Worker, WorkerEnter, WorkerRelock, TakeJob, ExecuteEcho, FenceCall, FenceReturn,
      ExecuteRejected, ExecuteThrows, UnownedCheck, UnownedWait, RouteClient, RejectClose,
      RejectClosed, WakeupSelector, Trigger
<1>3. wpc[w] # "exited"
  BY DEF Worker, WorkerEnter, WorkerRelock, ExecuteEcho, FenceCall, FenceReturn,
      ExecuteRejected, ExecuteThrows, UnownedCheck, UnownedWait, RouteClient, RejectClose,
      RejectClosed
<1>4. \A v \in Workers : wpc[v] = "exited" => wpc'[v] = "exited"
  BY <1>3, WorkerFrame
<1> QED
  BY <1>1, <1>2, <1>4, EndsKept

LEMMA EnvironmentEnds ==
  ASSUME IInv, EndsInv, Environment
  PROVE  EndsInv'
<1>1. CASE StopSignal
  BY <1>1, EndsKept DEF StopSignal, Trigger
<1>2. CASE PeerConnects \/ \E c \in Node : PeerSends(c) \/ PeerHangsUp(c) \/ BrokenPipe(c)
  BY <1>2, EndsKept DEF PeerConnects, PeerSends, PeerHangsUp, BrokenPipe
<1>3. CASE SelectFails
  BY <1>3, EndsElsewhere DEF SelectFails, EndsInv, WithWakeup
<1>4. CASE \E w \in Workers : SpuriousWakeup(w)
  <2>1. wpc \in [Workers -> WorkerPc]
    BY DEF IInv, TypeOK
  <2>2. \A v \in Workers : wpc[v] = "exited" => wpc'[v] = "exited"
    BY <1>4, <2>1 DEF SpuriousWakeup
  <2> QED BY <1>4, <2>2, EndsKept DEF SpuriousWakeup
<1> QED BY <1>1, <1>2, <1>3, <1>4 DEF Environment

LEMMA EndsHold == Spec => []EndsInv
<1>1. Init => EndsInv
  BY DEF Init, EndsInv
<1>2. IInv /\ EndsInv /\ [Next]_vars => EndsInv'
  <2> SUFFICES ASSUME IInv, EndsInv, [Next]_vars PROVE EndsInv'
    OBVIOUS
  <2>1. CASE UNCHANGED vars
    BY <2>1, EndsKept DEF vars
  <2> QED BY <2>1, SelectorEnds, WorkerEnds, EnvironmentEnds DEF Next
<1> QED BY <1>1, <1>2, Invariance, PTL DEF Spec

\* The signal handler never writes to a closed pipe: whenever a descriptor for wakeups
\* is set, the pipe is open (ServerConnector.cpp:309, 318-319).
THEOREM WakeupOpen == Spec => []WakeupPipeOpen
<1>1. EndsInv => WakeupPipeOpen
  BY DEF EndsInv, WakeupPipeOpen
<1> QED BY <1>1, EndsHold, PTL

\* The free object that made the selector listen is still there when it accepts, since
\* no other thread allocates (ServerConnector.cpp:147, 180-183, 327).
THEOREM AcceptHasObject == Spec => []AcceptAllocates
<1>1. EndsInv => AcceptAllocates
  BY DEF EndsInv, AcceptAllocates
<1> QED BY <1>1, EndsHold, PTL

\* When the connector and the plugin are destroyed every worker has ended and none has
\* a client (WorkerPool.cpp:90-116, Server.cpp:45-64).
THEOREM PluginOutlives == Spec => []PluginOutlivesCalls
<1>1. IInv /\ EndsInv => PluginOutlivesCalls
  BY DEF IInv, WorkerInv, Busy, EndsInv, PluginOutlivesCalls
<1> QED BY <1>1, Invariance, EndsHold, PTL

-----------------------------------------------------------------------------
(***************************************************************************)
(* CallInv, and the steps of Fencing.tla.                                  *)
(***************************************************************************)

\* What a connection sees of the object that serves it.
ReplyOf(n) == IF n.io_state = "WRITE" THEN n.msg.type ELSE "NONE"

\* A request is no reply, and no request is neither.
LEMMA MessageTypes ==
  ASSUME TypeOK, NEW c \in Node
  PROVE  /\ peer[c].req.type \notin {"FENCE_SUCCESS", "FENCE_FAIL", "ECHO_REPLY"}
         /\ NoRequest.type = "NONE" /\ NoRequest.body = NoName
         /\ "NONE" \notin FenceType /\ "ECHO_REQUEST" \notin FenceType
         /\ NoCall.state = "none"
<1>1. peer[c].req \in Requests \union {NoRequest}
  BY DEF TypeOK, Peer
<1>2. \A r \in Requests : r.type \in RequestType
  BY ConstantsAssumption DEF Request
<1> QED
  BY <1>1, <1>2 DEF NoRequest, NoCall, FenceType, RequestType

\* A step that nobody sees.
LEMMA Unseen ==
  ASSUME call' = call,
         \A m \in Node : peer'[m].req = peer[m].req /\ ReplyOf(client'[m]) = ReplyOf(client[m])
  PROVE  UNCHANGED Service!vars
BY DEF Service!vars, ReplyOf

\* Only the connection of c is concerned.
Others(c) == \A m \in Node \ {c} :
               client'[m] = client[m] /\ peer'[m] = peer[m] /\ call'[m] = call[m]

LEMMA UnseenOne ==
  ASSUME NEW c \in Node, Others(c), call' = call, peer'[c].req = peer[c].req,
         ReplyOf(client'[c]) = ReplyOf(client[c])
  PROVE  UNCHANGED Service!vars
BY Unseen DEF Others

LEMMA OneOk ==
  ASSUME CallInv, NEW c \in Node, Others(c), CallOk(client'[c], peer'[c], call'[c]), Calls'
  PROVE  CallInv'
BY DEF CallInv, Others

\* A step with a client that no worker has.
LEMMA CallsFree ==
  ASSUME Calls, NEW c \in Node, Others(c), \A w \in Workers : job[w] # c, job' = job,
         \A w \in Workers : wpc'[w] = wpc[w] \/ (/\ wpc[w] \notin {"execute", "plugin"}
                                                 /\ wpc'[w] \notin {"execute", "plugin"}),
         job \in [Workers -> NodeOrNull],
         \A w \in Workers : wpc[w] \in {"execute", "plugin"} => job[w] # NULL,
         call'[c].state # "running"
  PROVE  Calls'
<1>1. \A w \in Workers : wpc'[w] \in {"execute", "plugin"} =>
        /\ wpc[w] = wpc'[w] /\ job'[w] = job[w] /\ job[w] \in Node \ {c}
  BY DEF NodeOrNull
<1>2. \A w \in Workers : wpc[w] = "plugin" => wpc'[w] = "plugin"
  OBVIOUS
<1>3. \A m \in Node : call'[m].state = "running" => m # c /\ call[m].state = "running"
  BY DEF Others
<1> QED
  BY <1>1, <1>2, <1>3 DEF Calls, Others

\* A step of worker w with its own client, after which it is not before or in the plugin.
LEMMA CallsOwn ==
  ASSUME IInv, Calls, NEW w \in Workers, NEW c \in Node, c = job[w], Others(c),
         wpc'[w] \notin {"execute", "plugin"},
         \A v \in Workers \ {w} : wpc'[v] = wpc[v] /\ job'[v] = job[v],
         call'[c].state # "running"
  PROVE  Calls'
<1>1. \A v \in Workers : wpc'[v] \in {"execute", "plugin"} =>
        /\ v # w /\ wpc[v] = wpc'[v] /\ job'[v] = job[v] /\ job[v] \in Node \ {c}
  BY NullIsNoNode DEF IInv, WorkerInv, TypeOK, NodeOrNull, Busy
<1>2. \A v \in Workers : wpc[v] = "plugin" /\ job[v] # c =>
        wpc'[v] = "plugin" /\ job'[v] = job[v]
  OBVIOUS
<1>3. \A m \in Node : call'[m].state = "running" => m # c /\ call[m].state = "running"
  BY DEF Others
<1> QED
  BY <1>1, <1>2, <1>3 DEF Calls, Others

\* Closing a connection drops it.
LEMMA ReleaseDrops ==
  ASSUME IInv, CallInv, NEW c \in Node, ReleaseClient(c), call[c].state # "running"
  PROVE  /\ Others(c) /\ CallOk(client'[c], peer'[c], call'[c])
         /\ call'[c].state # "running" /\ Service!Drop(c)
<1>0. TypeOK
  BY DEF IInv
<1>1. /\ client'[c] = Cleared /\ peer'[c] = NoPeer /\ call'[c] = NoCall /\ Others(c)
      /\ call' = [call EXCEPT ![c] = NoCall]
  BY <1>0 DEF ReleaseClient, ClearClient, Others, TypeOK
<1>2. CallOk(Cleared, NoPeer, NoCall)
  BY DEF CallOk, Cleared, NoPeer, NoCall, NoRequest
<1>3. ReplyOf(Cleared) = "NONE" /\ NoPeer.req = NoRequest /\ NoCall.state = "none"
  BY DEF ReplyOf, Cleared, NoPeer, NoCall
<1>4. Service!Drop(c)
  <2>1. [m \in Node |-> peer[m].req]' = [[m \in Node |-> peer[m].req] EXCEPT ![c] = NoRequest]
    BY <1>1, <1>3 DEF Others
  <2>2. [m \in Node |-> ReplyOf(client[m])]'
          = [[m \in Node |-> ReplyOf(client[m])] EXCEPT ![c] = "NONE"]
    BY <1>1, <1>3 DEF Others
  <2> QED BY <1>1, <2>1, <2>2 DEF Service!Drop, ReplyOf
<1> QED BY <1>1, <1>2, <1>3, <1>4

\* A connection nobody works for has no running call.
LEMMA NotRunning ==
  ASSUME CallInv, NEW c \in Node, \A w \in Workers : job[w] # c
  PROVE  call[c].state # "running"
BY DEF CallInv, Calls

LEMMA ReleaseFree ==
  ASSUME IInv, CallInv, NEW c \in Node, \A w \in Workers : job[w] # c, ReleaseClient(c),
         UNCHANGED <<wpc, job>>
  PROVE  CallInv' /\ [Service!Next]_(Service!vars)
<1>1. call[c].state # "running"
  BY NotRunning
<1>2. /\ Others(c) /\ CallOk(client'[c], peer'[c], call'[c])
      /\ call'[c].state # "running" /\ Service!Drop(c)
  BY <1>1, ReleaseDrops
<1>3. Calls'
  BY <1>2, CallsFree DEF IInv, TypeOK, WorkerInv, Busy, CallInv
<1>4. Service!Next
  BY <1>2 DEF Service!Next
<1> QED BY <1>2, <1>3, <1>4, OneOk

LEMMA ReleaseOwn ==
  ASSUME IInv, CallInv, NEW w \in Workers, wpc[w] \in Busy \ {"plugin"},
         ReleaseClient(job[w]), wpc' = [wpc EXCEPT ![w] = "relock"],
         job' = [job EXCEPT ![w] = NULL]
  PROVE  CallInv' /\ [Service!Next]_(Service!vars)
<1>1. job \in [Workers -> NodeOrNull] /\ wpc \in [Workers -> WorkerPc]
  BY DEF IInv, TypeOK
<1>2. PICK c \in Node : c = job[w]
  BY <1>1 DEF IInv, WorkerInv, NodeOrNull
<1>3. call[c].state # "running"
  BY <1>1, <1>2, NullIsNoNode DEF CallInv, Calls, IInv, WorkerInv
<1>4. /\ Others(c) /\ CallOk(client'[c], peer'[c], call'[c])
      /\ call'[c].state # "running" /\ Service!Drop(c)
  BY <1>2, <1>3, ReleaseDrops
<1>5. Calls'
  BY <1>1, <1>2, <1>4, CallsOwn DEF CallInv
<1>6. Service!Next
  BY <1>4 DEF Service!Next
<1> QED BY <1>4, <1>5, <1>6, OneOk

(***************************************************************************)
(* The workers.                                                            *)
(***************************************************************************)

\* A worker about to execute: the request is before it, and no call was made for it.
LEMMA ToExecute ==
  ASSUME IInv, CallInv, NEW w \in Workers, wpc[w] = "execute", NEW c \in Node, c = job[w]
  PROVE  /\ client[c].msg = peer[c].req /\ call[c] = NoCall
         /\ client[c].current_phase = "EXECUTING" /\ client[c].nodename = NoName
         /\ client[c].next_phase # "RECV" /\ client[c].io_state # "WRITE"
<1>1. client[c].current_phase = "EXECUTING" /\ client[c].msg = peer[c].req
  BY DEF IInv, WorkerInv, CallInv, Calls
<1>2. call[c].state # "running"
  BY NullIsNoNode DEF IInv, WorkerInv, CallInv, Calls
<1>3. call[c].state \in {"none", "running", "succeeded", "failed"}
  BY DEF IInv, TypeOK, Call
<1>4. CallOk(client[c], peer[c], call[c]) /\ RecvOk(client[c], peer[c])
  BY DEF CallInv, IInv, RecvInv
<1>5. call[c].state = "none"
  BY <1>1, <1>2, <1>3, <1>4 DEF CallOk
<1> QED BY <1>1, <1>4, <1>5 DEF CallOk, RecvOk

\* What ToWrite leaves in the object.
LEMMA ToWriteFields ==
  ASSUME TypeOK, NEW c \in Node, NEW t, NEW n
  PROVE  /\ ToWrite(c, t, n).msg.type = t
         /\ ToWrite(c, t, n).current_phase = "SEND" /\ ToWrite(c, t, n).next_phase = n
         /\ ToWrite(c, t, n).io_state = "WRITE"
         /\ ToWrite(c, t, n).nodename = client[c].nodename
BY DEF ToWrite, TypeOK, NetClient

LEMMA EchoStep ==
  ASSUME IInv, CallInv, NEW w \in Workers, ExecuteEcho(w)
  PROVE  CallInv' /\ [Service!Next]_(Service!vars)
<1>0. TypeOK /\ client \in [Node -> NetClient] /\ wpc \in [Workers -> WorkerPc]
  BY DEF IInv, TypeOK
<1>1. PICK c \in Node : c = job[w]
  BY DEF ExecuteEcho, IInv, TypeOK, WorkerInv, NodeOrNull, Busy
<1>2. /\ client[c].msg = peer[c].req /\ call[c] = NoCall
      /\ client[c].nodename = NoName /\ client[c].io_state # "WRITE"
  BY <1>1, ToExecute DEF ExecuteEcho
<1>3. /\ client'[c].msg.type = "ECHO_REPLY" /\ client'[c].current_phase = "SEND"
      /\ client'[c].next_phase = "RECV" /\ client'[c].io_state = "WRITE"
      /\ client'[c].nodename = NoName
      /\ Others(c) /\ peer' = peer /\ call' = call
  BY <1>0, <1>1, <1>2, ToWriteFields DEF ExecuteEcho, Others
<1>4. CallOk(client'[c], peer'[c], call'[c])
  BY <1>2, <1>3 DEF CallOk, NoCall
<1>5. Calls'
  BY <1>0, <1>1, <1>2, <1>3, CallsOwn DEF ExecuteEcho, CallInv, NoCall
<1>6. peer[c].req.type = "ECHO_REQUEST"
  BY <1>1, <1>2 DEF ExecuteEcho
<1>7. Service!Echo(c)
  <2>1. ReplyOf(client[c]) = "NONE" /\ ReplyOf(client'[c]) = "ECHO_REPLY"
    BY <1>2, <1>3 DEF ReplyOf
  <2>2. [m \in Node |-> ReplyOf(client[m])]'
          = [[m \in Node |-> ReplyOf(client[m])] EXCEPT ![c] = "ECHO_REPLY"]
    BY <1>3, <2>1 DEF Others
  <2> QED BY <1>3, <1>6, <2>1, <2>2 DEF Service!Echo, ReplyOf
<1> QED BY <1>3, <1>4, <1>5, <1>7, OneOk DEF Service!Next

LEMMA FenceCallStep ==
  ASSUME IInv, CallInv, NEW w \in Workers, FenceCall(w)
  PROVE  CallInv' /\ [Service!Next]_(Service!vars)
<1>0. /\ TypeOK /\ client \in [Node -> NetClient] /\ wpc \in [Workers -> WorkerPc]
      /\ call \in [Node -> Call]
  BY DEF IInv, TypeOK
<1>1. PICK c \in Node : c = job[w]
  BY DEF FenceCall, IInv, TypeOK, WorkerInv, NodeOrNull, Busy
<1>2. /\ client[c].msg = peer[c].req /\ call[c] = NoCall
      /\ client[c].nodename = NoName /\ client[c].io_state # "WRITE"
      /\ client[c].current_phase = "EXECUTING" /\ client[c].next_phase # "RECV"
  BY <1>1, ToExecute DEF FenceCall
<1>3. ParsedName(c) = peer[c].req.body
  BY <1>1, <1>2 DEF FenceCall, ParsedName
<1>4. /\ call' = [call EXCEPT ![c] = [op |-> peer[c].req.type, node |-> peer[c].req.body,
                                      state |-> "running"]]
      /\ peer[c].req.type \in FenceType
      /\ peer' = peer /\ job' = job /\ wpc' = [wpc EXCEPT ![w] = "plugin"]
  BY <1>1, <1>2, <1>3 DEF FenceCall
<1>5. /\ client'[c].msg = NoRequest /\ client'[c].current_phase = "EXECUTING"
      /\ client'[c].next_phase # "RECV" /\ client'[c].io_state # "WRITE"
      /\ Others(c)
  BY <1>0, <1>1, <1>2, <1>4 DEF FenceCall, Parsed, NetClient, Others
<1>6. CallOk(client'[c], peer'[c], call'[c])
  BY <1>0, <1>4, <1>5 DEF CallOk, NoRequest
<1>7. Calls'
  <2>1. \A v \in Workers \ {w} : wpc[v] \in {"execute", "plugin"} => job[v] \in Node \ {c}
    BY <1>1, NullIsNoNode DEF IInv, WorkerInv, TypeOK, NodeOrNull, Busy
  <2>2. call'[c].state = "running"
    BY <1>0, <1>4
  <2> QED BY <1>0, <1>1, <1>4, <1>5, <2>1, <2>2 DEF CallInv, Calls, Others, FenceCall
<1>8. Service!Begin(c)
  <2>1. [m \in Node |-> ReplyOf(client[m])]' = [m \in Node |-> ReplyOf(client[m])]
    BY <1>2, <1>5 DEF Others, ReplyOf
  <2> QED BY <1>2, <1>4, <2>1 DEF Service!Begin, ReplyOf
<1> QED BY <1>5, <1>6, <1>7, <1>8, OneOk DEF Service!Next

LEMMA FenceReturnStep ==
  ASSUME IInv, CallInv, NEW w \in Workers, FenceReturn(w)
  PROVE  CallInv' /\ [Service!Next]_(Service!vars)
<1>0. /\ TypeOK /\ client \in [Node -> NetClient] /\ wpc \in [Workers -> WorkerPc]
      /\ call \in [Node -> Call]
  BY DEF IInv, TypeOK
<1>1. PICK c \in Node : c = job[w]
  BY DEF FenceReturn, IInv, TypeOK, WorkerInv, NodeOrNull, Busy
<1>2. call[c].state = "running" /\ CallOk(client[c], peer[c], call[c])
  BY <1>1 DEF CallInv, Calls, FenceReturn
<1>3. PICK ok \in BOOLEAN :
        /\ call' = [call EXCEPT ![c].state = IF ok THEN "succeeded" ELSE "failed"]
        /\ client' = [client EXCEPT ![c] =
             ToWrite(c, IF ok THEN "FENCE_SUCCESS" ELSE "FENCE_FAIL", "CANCELED")]
  BY <1>1 DEF FenceReturn
<1> DEFINE s == IF ok THEN "succeeded" ELSE "failed"
           t == IF ok THEN "FENCE_SUCCESS" ELSE "FENCE_FAIL"
<1>4. /\ client'[c].msg.type = t /\ client'[c].current_phase = "SEND"
      /\ client'[c].next_phase = "CANCELED" /\ client'[c].io_state = "WRITE"
  BY <1>0, <1>3, ToWriteFields
<1>5. /\ call'[c].state = s /\ call'[c].op = call[c].op /\ call'[c].node = call[c].node
      /\ Others(c) /\ peer' = peer
  BY <1>0, <1>3 DEF Call, Others, FenceReturn
<1>6. CallOk(client'[c], peer'[c], call'[c])
  BY <1>2, <1>4, <1>5 DEF CallOk
<1>7. Calls'
  BY <1>0, <1>1, <1>5, CallsOwn DEF FenceReturn, CallInv
<1>8. Service!Finish(c)
  <2>1. ReplyOf(client'[c]) = t
    BY <1>4 DEF ReplyOf
  <2>2. [m \in Node |-> ReplyOf(client[m])]'
          = [[m \in Node |-> ReplyOf(client[m])] EXCEPT ![c] = t]
    BY <1>5, <2>1 DEF Others
  <2> QED BY <1>2, <1>3, <1>5, <2>2 DEF Service!Finish, ReplyOf
<1> QED BY <1>5, <1>6, <1>7, <1>8, OneOk DEF Service!Next

\* The object leaves the hands of a worker that has made no call, or goes back to the
\* com queue: its connection sees nothing.
LEMMA RejectedStep ==
  ASSUME IInv, CallInv, NEW w \in Workers, ExecuteRejected(w) \/ ExecuteThrows(w)
  PROVE  CallInv' /\ [Service!Next]_(Service!vars)
<1>0. /\ TypeOK /\ client \in [Node -> NetClient] /\ wpc \in [Workers -> WorkerPc]
      /\ job \in [Workers -> NodeOrNull]
  BY DEF IInv, TypeOK
<1>1. PICK c \in Node : c = job[w]
  BY DEF ExecuteRejected, ExecuteThrows, IInv, TypeOK, WorkerInv, NodeOrNull, Busy
<1>2. /\ call[c] = NoCall /\ client[c].nodename = NoName /\ client[c].io_state # "WRITE"
      /\ client[c].current_phase = "EXECUTING" /\ client[c].next_phase # "RECV"
  BY <1>1, ToExecute DEF ExecuteRejected, ExecuteThrows
<1>3. /\ client'[c].io_state # "WRITE" /\ client'[c].nodename = NoName
      /\ client'[c].current_phase # "PENDING" /\ client'[c].next_phase # "RECV"
      /\ client'[c].msg \in {client[c].msg, NoRequest}
      /\ Others(c) /\ peer' = peer /\ call' = call
  <2>1. CASE client' = client
    BY <1>2, <2>1 DEF ExecuteRejected, ExecuteThrows, Others
  <2>2. CASE client' = [client EXCEPT ![c].current_phase = "CANCELED"]
    BY <1>0, <1>2, <2>2 DEF ExecuteRejected, ExecuteThrows, Others, NetClient
  <2>3. CASE client' = [client EXCEPT ![c] = Parsed(c)]
    BY <1>0, <1>2, <2>3 DEF ExecuteRejected, ExecuteThrows, Others, NetClient, Parsed
  <2> QED BY <1>1, <2>1, <2>2, <2>3 DEF ExecuteRejected, ExecuteThrows
<1>4. CallOk(client'[c], peer'[c], call'[c])
  <2>1. CallOk(client[c], peer[c], call[c])
    BY DEF CallInv
  <2> QED BY <1>2, <1>3, <2>1 DEF CallOk, NoCall, NoRequest
<1>5. Calls'
  BY <1>0, <1>1, <1>2, <1>3, CallsOwn DEF ExecuteRejected, ExecuteThrows, CallInv, NoCall
<1>6. UNCHANGED Service!vars
  BY <1>2, <1>3, UnseenOne DEF ReplyOf
<1> QED BY <1>3, <1>4, <1>5, <1>6, OneOk

\* Closing the socket alone changes nothing that CallOk or the connection sees.
LEMMA OpenOnly ==
  ASSUME TypeOK, CallInv, NEW c \in Node, client' = [client EXCEPT ![c].open = FALSE],
         UNCHANGED <<peer, call>>
  PROVE  /\ Others(c) /\ CallOk(client'[c], peer'[c], call'[c])
         /\ UNCHANGED Service!vars
<1>1. client \in [Node -> NetClient]
  BY DEF TypeOK
<1>2. /\ Others(c) /\ client'[c].msg = client[c].msg
      /\ client'[c].nodename = client[c].nodename
      /\ client'[c].current_phase = client[c].current_phase
      /\ client'[c].next_phase = client[c].next_phase
      /\ client'[c].io_state = client[c].io_state
  BY <1>1 DEF NetClient, Others
<1>3. CallOk(client'[c], peer'[c], call'[c])
  BY <1>2 DEF CallInv, CallOk
<1>4. ReplyOf(client'[c]) = ReplyOf(client[c])
  BY <1>2 DEF ReplyOf
<1> QED BY <1>2, <1>3, <1>4, UnseenOne

LEMMA RouteStep ==
  ASSUME IInv, CallInv, NEW w \in Workers, RouteClient(w) \/ RejectClose(w) \/ RejectClosed(w)
  PROVE  CallInv' /\ [Service!Next]_(Service!vars)
<1>0. /\ TypeOK /\ client \in [Node -> NetClient] /\ wpc \in [Workers -> WorkerPc]
      /\ job \in [Workers -> NodeOrNull]
  BY DEF IInv, TypeOK
<1>1. PICK c \in Node : c = job[w]
  BY DEF RouteClient, RejectClose, RejectClosed, IInv, TypeOK, WorkerInv, NodeOrNull, Busy
<1>2. wpc[w] \in Busy \ {"plugin"}
  BY DEF RouteClient, RejectClose, RejectClosed, Busy
<1>3. call[c].state # "running"
  BY <1>1, <1>2, NullIsNoNode DEF CallInv, Calls, IInv, WorkerInv
<1>4. CASE RouteClient(w) /\ UNCHANGED <<poolVars, envVars>>
  <2>1. Others(c) /\ CallOk(client'[c], peer'[c], call'[c])
    BY <1>4 DEF Others, CallInv
  <2>2. Calls'
    BY <1>0, <1>1, <1>3, <1>4, <2>1, CallsOwn DEF RouteClient, CallInv
  <2>3. UNCHANGED Service!vars
    BY <1>4, Unseen
  <2> QED BY <2>1, <2>2, <2>3, OneOk
<1>5. CASE (RouteClient(w) /\ CloseConnection(job[w])) \/ RejectClosed(w)
  BY <1>2, <1>5, ReleaseOwn
  DEF RouteClient, RejectClosed, CloseConnection, UnlockedCloseEnd
<1>6. CASE RejectClose(w)
  <2>1. client' = [client EXCEPT ![c].open = FALSE] /\ UNCHANGED <<peer, call, job>>
    BY <1>1, <1>6 DEF RejectClose, UnlockedCloseBegin
  <2>2. /\ Others(c) /\ CallOk(client'[c], peer'[c], call'[c]) /\ UNCHANGED Service!vars
    BY <1>0, <2>1, OpenOnly
  <2>3. /\ wpc'[w] \notin {"execute", "plugin"}
        /\ \A v \in Workers \ {w} : wpc'[v] = wpc[v]
    BY <1>0, <1>6 DEF RejectClose
  <2>4. Calls'
    BY <1>0, <1>1, <1>3, <2>1, <2>2, <2>3, CallsOwn DEF CallInv
  <2> QED BY <2>2, <2>4, OneOk
<1> QED BY <1>4, <1>5, <1>6 DEF RouteClient

\* A step that touches no client, call or peer, and no worker before or in the plugin.
LEMMA QuietStep ==
  ASSUME CallInv, UNCHANGED <<client, peer, call, job>>,
         \A w \in Workers : wpc'[w] = wpc[w] \/ (/\ wpc[w] \notin {"execute", "plugin"}
                                                 /\ wpc'[w] \notin {"execute", "plugin"})
  PROVE  CallInv' /\ [Service!Next]_(Service!vars)
<1>1. CallInv'
  BY DEF CallInv, Calls
<1>2. UNCHANGED Service!vars
  BY Unseen
<1> QED BY <1>1, <1>2

LEMMA TakeStep ==
  ASSUME IInv, CallInv, NEW w \in Workers, TakeJob(w), Action.head # NULL,
         wpc[w] \in {"enter", "relock"}, UNCHANGED <<peer, call>>
  PROVE  CallInv' /\ [Service!Next]_(Service!vars)
<1>0. /\ TypeOK /\ client \in [Node -> NetClient] /\ wpc \in [Workers -> WorkerPc]
      /\ job \in [Workers -> NodeOrNull]
  BY DEF IInv, TypeOK
<1>1. PICK c \in ActionSide : c = Action.head
  BY ActionHead
<1>2. /\ c \in Node /\ client[c].current_phase = "PENDING"
      /\ \A v \in Workers : job[v] # c
  BY <1>1 DEF ActionSide, Waits, InHands
<1>3. /\ CallOk(client[c], peer[c], call[c]) /\ RecvOk(client[c], peer[c])
      /\ call[c].state # "running"
  BY <1>2, NotRunning DEF CallInv, IInv, RecvInv
<1>4. call[c].state = "none"
  <2>1. call[c].state \in {"none", "running", "succeeded", "failed"}
    BY <1>0, <1>2 DEF TypeOK, Call
  <2> QED BY <1>2, <1>3, <2>1 DEF CallOk
<1>5. /\ client'[c].current_phase = "EXECUTING" /\ Others(c)
      /\ client'[c].msg = client[c].msg /\ client'[c].nodename = client[c].nodename
      /\ client'[c].next_phase = client[c].next_phase
      /\ client'[c].io_state = client[c].io_state
  BY <1>0, <1>1, <1>2 DEF TakeJob, NetClient, Others
<1>6. CallOk(client'[c], peer'[c], call'[c])
  BY <1>2, <1>3, <1>4, <1>5 DEF CallOk, RecvOk
<1>7. Calls'
  <2>1. job' = [job EXCEPT ![w] = c] /\ wpc' = [wpc EXCEPT ![w] = "execute"]
    BY <1>1 DEF TakeJob
  <2>2. \A v \in Workers \ {w} : wpc[v] \in {"execute", "plugin"} => job[v] \in Node \ {c}
    BY <1>0, <1>2 DEF IInv, WorkerInv, NodeOrNull, Busy
  <2>3. client'[c].msg = peer[c].req
    BY <1>2, <1>3, <1>5 DEF CallOk
  <2> QED BY <1>0, <1>2, <1>5, <2>1, <2>2, <2>3 DEF CallInv, Calls, Others
<1>8. UNCHANGED Service!vars
  BY <1>2, <1>5, UnseenOne DEF ReplyOf
<1> QED BY <1>2, <1>5, <1>6, <1>7, <1>8, OneOk

LEMMA WorkerStep ==
  ASSUME IInv, CallInv, NEW w \in Workers, Worker(w)
  PROVE  CallInv' /\ [Service!Next]_(Service!vars)
<1>0. wpc \in [Workers -> WorkerPc]
  BY DEF IInv, TypeOK
<1>1. CASE WorkerEnter(w) \/ WorkerRelock(w)
  <2>1. CASE TakeJob(w) /\ Action.head # NULL
    BY <1>1, <2>1, TakeStep DEF WorkerEnter, WorkerRelock
  <2>2. CASE UNCHANGED <<queueVars, poolVars, job, crashed>>
             /\ wpc' = [wpc EXCEPT ![w] = IF stop_workers THEN "exited" ELSE "waiting"]
    <3>1. UNCHANGED <<client, peer, call, job>>
      BY <1>1, <2>2 DEF WorkerEnter, WorkerRelock
    <3>2. wpc[w] \notin {"execute", "plugin"} /\ wpc'[w] \notin {"execute", "plugin"}
      BY <1>0, <1>1, <2>2 DEF WorkerEnter, WorkerRelock
    <3> QED BY <1>0, <2>2, <3>1, <3>2, QuietStep
  <2> QED BY <1>1, <2>1, <2>2 DEF WorkerEnter, WorkerRelock
<1>2. CASE UnownedCheck(w) \/ UnownedWait(w)
  <2>1. UNCHANGED <<client, peer, call, job>>
    BY <1>2 DEF UnownedCheck, UnownedWait
  <2>2. \A v \in Workers : wpc'[v] = wpc[v] \/ (/\ wpc[v] \notin {"execute", "plugin"}
                                               /\ wpc'[v] \notin {"execute", "plugin"})
    BY <1>0, <1>2 DEF UnownedCheck, UnownedWait
  <2> QED BY <2>1, <2>2, QuietStep
<1> QED
  BY <1>1, <1>2, EchoStep, FenceCallStep, FenceReturnStep, RejectedStep, RouteStep DEF Worker

(***************************************************************************)
(* The selector.                                                           *)
(***************************************************************************)

\* A connection that is being listened to has no call, and no reply on its way.
LEMMA Listened ==
  ASSUME IInv, CallInv, NEW c \in Node, client[c].current_phase = "RECV",
         \A w \in Workers : job[w] # c
  PROVE  /\ call[c] = NoCall /\ client[c].nodename = NoName
         /\ client[c].io_state # "WRITE" /\ client[c].next_phase # "RECV"
<1>1. call[c].state \in {"none", "running", "succeeded", "failed"}
  BY DEF IInv, TypeOK, Call
<1>2. call[c].state # "running"
  BY NotRunning
<1>3. CallOk(client[c], peer[c], call[c]) /\ RecvOk(client[c], peer[c])
  BY DEF CallInv, IInv, RecvInv
<1>4. call[c].state = "none"
  BY <1>1, <1>2, <1>3 DEF CallOk
<1> QED BY <1>3, <1>4 DEF CallOk, RecvOk

LEMMA ReceiveStep ==
  ASSUME IInv, CallInv, NEW c \in Node, ReceivePart(c) \/ ReceiveMessage(c)
  PROVE  CallInv' /\ [Service!Next]_(Service!vars)
<1>0. /\ TypeOK /\ client \in [Node -> NetClient] /\ wpc \in [Workers -> WorkerPc]
      /\ peer \in [Node -> Peer]
  BY DEF IInv, TypeOK
<1>1. c \in ComSide
  BY CursorInCom DEF ReceivePart, ReceiveMessage
<1>2. \A w \in Workers : job[w] # c
  BY <1>1, NotAJob
<1>3. client[c].current_phase = "RECV"
  BY DEF IInv, RecvInv, RecvOk, ReceivePart, ReceiveMessage
<1>4. /\ call[c] = NoCall /\ client[c].nodename = NoName
      /\ client[c].io_state # "WRITE" /\ client[c].next_phase # "RECV"
  BY <1>2, <1>3, Listened
<1>5. /\ client'[c].msg = peer[c].req /\ client'[c].nodename = NoName
      /\ client'[c].io_state # "WRITE" /\ client'[c].next_phase # "RECV"
  <2>1. CASE ReceivePart(c)
    BY <1>0, <1>4, <2>1 DEF ReceivePart, Received, NetClient
  <2>2. CASE ReceiveMessage(c)
    BY <1>0, <1>4, <2>2 DEF ReceiveMessage, Received, NetClient
  <2> QED BY <2>1, <2>2
<1>6. /\ peer'[c].req = peer[c].req /\ call' = call /\ Others(c)
      /\ UNCHANGED <<wpc, job>>
  BY <1>0 DEF ReceivePart, ReceiveMessage, PartRead, Peer, Others
<1>7. CallOk(client'[c], peer'[c], call'[c])
  BY <1>0, <1>4, <1>5, <1>6, MessageTypes DEF CallOk
<1>8. Calls'
  BY <1>0, <1>2, <1>4, <1>6, CallsFree
  DEF IInv, TypeOK, WorkerInv, Busy, CallInv, NoCall
<1>9. UNCHANGED Service!vars
  BY <1>4, <1>5, <1>6, UnseenOne DEF ReplyOf
<1> QED BY <1>6, <1>7, <1>8, <1>9, OneOk

\* The reply to an echo has gone out: the connection may ask again.
LEMMA AnswerStep ==
  ASSUME IInv, CallInv, NEW c \in Node, SendThenReceive(c)
  PROVE  CallInv' /\ [Service!Next]_(Service!vars)
<1>0. /\ TypeOK /\ client \in [Node -> NetClient] /\ peer \in [Node -> Peer]
  BY DEF IInv, TypeOK
<1>1. \A w \in Workers : job[w] # c
  BY CursorInCom, NotAJob DEF SendThenReceive
<1>2. /\ CallOk(client[c], peer[c], call[c]) /\ client[c].next_phase = "RECV"
  BY DEF CallInv, SendThenReceive
<1>3. /\ call[c].state = "none" /\ client[c].io_state = "WRITE"
      /\ client[c].msg.type = "ECHO_REPLY"
  BY <1>2 DEF CallOk
<1>4. /\ client'[c].current_phase = "RECV" /\ client'[c].next_phase = "PENDING"
      /\ client'[c].io_state = "READ" /\ client'[c].msg = client[c].msg
      /\ client'[c].nodename = client[c].nodename
  BY <1>0 DEF SendThenReceive, NetClient
<1>5. /\ peer'[c].req = NoRequest /\ call' = call /\ Others(c) /\ UNCHANGED <<wpc, job>>
  BY <1>0 DEF SendThenReceive, ReplySent, Peer, Others
<1>6. CallOk(client'[c], peer'[c], call'[c])
  BY <1>2, <1>3, <1>4, <1>5 DEF CallOk
<1>7. Calls'
  BY <1>0, <1>1, <1>3, <1>5, CallsFree DEF IInv, TypeOK, WorkerInv, Busy, CallInv
<1>8. Service!Answer(c)
  <2>1. ReplyOf(client[c]) = "ECHO_REPLY" /\ ReplyOf(client'[c]) = "NONE"
    BY <1>3, <1>4 DEF ReplyOf
  <2>2. [m \in Node |-> ReplyOf(client[m])]'
          = [[m \in Node |-> ReplyOf(client[m])] EXCEPT ![c] = "NONE"]
    BY <1>5, <2>1 DEF Others
  <2>3. [m \in Node |-> peer[m].req]' = [[m \in Node |-> peer[m].req] EXCEPT ![c] = NoRequest]
    BY <1>5 DEF Others
  <2> QED BY <1>5, <2>1, <2>2, <2>3 DEF Service!Answer, ReplyOf
<1> QED BY <1>5, <1>6, <1>7, <1>8, OneOk DEF Service!Next

LEMMA IoSeen ==
  ASSUME IInv, CallInv, IoStep
  PROVE  CallInv' /\ [Service!Next]_(Service!vars)
<1>1. PICK c \in Node : \/ IoSkip(c) \/ IoClose(c) \/ ReceivePart(c) \/ ReceiveMessage(c)
                        \/ SendThenReceive(c) \/ SendThenClose(c)
  BY DEF IoStep
<1>2. CASE IoSkip(c)
  BY <1>2, QuietStep DEF IoSkip
<1>3. CASE IoClose(c) \/ SendThenClose(c)
  <2>1. \A w \in Workers : job[w] # c
    BY <1>3, CursorInCom, NotAJob DEF IoClose, SendThenClose
  <2>2. ReleaseClient(c) /\ UNCHANGED <<wpc, job>>
    BY <1>3 DEF IoClose, SendThenClose, CloseConnection
  <2> QED BY <2>1, <2>2, ReleaseFree
<1> QED BY <1>1, <1>2, <1>3, ReceiveStep, AnswerStep

LEMMA AcceptSeen ==
  ASSUME IInv, CallInv, AcceptConnection
  PROVE  CallInv' /\ [Service!Next]_(Service!vars)
<1>0. /\ TypeOK /\ client \in [Node -> NetClient] /\ client_pool \in SUBSET Node
  BY DEF IInv, TypeOK
<1>1. PICK c \in client_pool, ok \in BOOLEAN :
        client' = [client EXCEPT ![c] = [ClearClient(@) EXCEPT !.open = ok,
                                                               !.io_state = "READ"]]
  BY DEF AcceptConnection
<1>2. c \in Node /\ client[c] = Cleared /\ peer[c] = NoPeer
  BY <1>0 DEF IInv, PoolInv
<1>3. \A w \in Workers : job[w] # c
  BY <1>2, NotAJob
<1>4. /\ client'[c].current_phase = "RECV" /\ client'[c].next_phase = "PENDING"
      /\ client'[c].io_state = "READ" /\ client'[c].msg = NoRequest
      /\ client'[c].nodename = NoName
  BY <1>0, <1>1, <1>2 DEF ClearClient, Cleared
<1>5. UNCHANGED <<peer, call, wpc, job>> /\ Others(c)
  BY <1>0, <1>1, <1>2 DEF AcceptConnection, Others
<1>6. call[c] = NoCall /\ client[c].io_state # "WRITE"
  BY <1>2, <1>3, Listened DEF Cleared
<1>7. CallOk(client'[c], peer'[c], call'[c])
  BY <1>4, <1>5, <1>6 DEF CallOk, NoCall, NoRequest
<1>8. Calls'
  BY <1>0, <1>2, <1>3, <1>5, <1>6, CallsFree
  DEF IInv, TypeOK, WorkerInv, Busy, CallInv, NoCall
<1>9. UNCHANGED Service!vars
  BY <1>2, <1>4, <1>5, <1>6, UnseenOne DEF ReplyOf
<1> QED BY <1>2, <1>5, <1>7, <1>8, <1>9, OneOk

LEMMA CleanupSeen ==
  ASSUME IInv, CallInv, CleanupActionClose \/ CleanupActionClosed \/ CleanupComClose
  PROVE  CallInv' /\ [Service!Next]_(Service!vars)
<1>0. /\ TypeOK /\ client \in [Node -> NetClient] /\ held \in NodeOrNull
  BY DEF IInv, TypeOK
<1>1. CASE CleanupActionClose
  <2>1. PICK c \in ActionSide : c = Action.head
    BY <1>1, ActionHead DEF CleanupActionClose
  <2>2. c \in Node /\ \A w \in Workers : job[w] # c
    BY <2>1 DEF ActionSide, Waits, InHands
  <2>3. /\ client' = [client EXCEPT ![c].open = FALSE] /\ UNCHANGED <<peer, call, wpc, job>>
    BY <1>1, <2>1 DEF CleanupActionClose
  <2>4. /\ Others(c) /\ CallOk(client'[c], peer'[c], call'[c]) /\ UNCHANGED Service!vars
    BY <1>0, <2>2, <2>3, OpenOnly
  <2>5. call[c].state # "running"
    BY <2>2, NotRunning
  <2>6. Calls'
    BY <2>2, <2>3, <2>4, <2>5, CallsFree DEF IInv, TypeOK, WorkerInv, Busy, CallInv
  <2> QED BY <2>2, <2>4, <2>6, OneOk
<1>2. CASE CleanupActionClosed
  <2>1. PICK c \in Node : c = held
    BY <1>0, <1>2 DEF CleanupActionClosed, IInv, SelectorInv, NodeOrNull
  <2>2. \A w \in Workers : job[w] # c
    BY <2>1, NotAJob
  <2>3. ReleaseClient(c) /\ UNCHANGED <<wpc, job>>
    BY <1>2, <2>1 DEF CleanupActionClosed, UnlockedCloseEnd
  <2> QED BY <2>2, <2>3, ReleaseFree
<1>3. CASE CleanupComClose
  <2>1. PICK c \in ComSide : c = Com.head
    BY <1>3, LinkFields DEF CleanupComClose, IInv, LinkInv, SideInv
  <2>2. c \in Node /\ \A w \in Workers : job[w] # c
    BY <2>1, NotAJob DEF ComSide
  <2>3. ReleaseClient(c) /\ UNCHANGED <<wpc, job>>
    BY <1>3, <2>1 DEF CleanupComClose
  <2> QED BY <2>2, <2>3, ReleaseFree
<1> QED BY <1>1, <1>2, <1>3

LEMMA SelectorStep ==
  ASSUME IInv, CallInv, Selector
  PROVE  CallInv' /\ [Service!Next]_(Service!vars)
<1>0. wpc \in [Workers -> WorkerPc]
  BY DEF IInv, TypeOK
<1>1. CASE \/ SelectorInit \/ SelectorCheck \/ BuildFdSets \/ Select \/ DrainTrigger
           \/ IoBegin \/ IoEnd \/ CleanupBegin \/ CleanupActionEnd
           \/ CleanupComBegin \/ CleanupComEnd \/ JoinThreads
  <2>1. UNCHANGED <<client, peer, call, wpc, job>>
    BY <1>1
    DEF SelectorInit, SelectorCheck, BuildFdSets, Select, DrainTrigger, IoBegin, IoEnd,
        CleanupBegin, CleanupActionEnd, CleanupComBegin, CleanupComEnd, JoinThreads
  <2> QED BY <2>1, QuietStep
<1>2. CASE Handoff \/ StopThreads
  <2>1. UNCHANGED <<client, peer, call, job>> /\ (NotifyOne \/ NotifyAll)
    BY <1>2 DEF Handoff, StopThreads
  <2>2. \A w \in Workers : wpc'[w] = wpc[w] \/ (/\ wpc[w] \notin {"execute", "plugin"}
                                               /\ wpc'[w] \notin {"execute", "plugin"})
    BY <1>0, <2>1 DEF NotifyOne, NotifyAll
  <2> QED BY <2>1, <2>2, QuietStep
<1> QED
  BY <1>1, <1>2, AcceptSeen, IoSeen, CleanupSeen DEF Selector

(***************************************************************************)
(* The environment.                                                        *)
(***************************************************************************)
LEMMA AskStep ==
  ASSUME IInv, CallInv, NEW c \in Node, PeerSends(c)
  PROVE  CallInv' /\ [Service!Next]_(Service!vars)
<1>0. /\ TypeOK /\ peer \in [Node -> Peer] /\ call \in [Node -> Call]
  BY DEF IInv, TypeOK
<1>1. PICK r \in Requests :
        peer' = [peer EXCEPT ![c] = [req |-> r, avail |-> Parts(r), gone |-> FALSE]]
  BY DEF PeerSends
<1>2. /\ peer[c].req = NoRequest /\ client[c].current_phase = "RECV"
  BY DEF PeerSends, IInv, RecvInv, RecvOk
<1>3. CallOk(client[c], peer[c], call[c])
  BY DEF CallInv
<1>4. call[c].state = "none"
  BY <1>0, <1>2, <1>3, MessageTypes DEF CallOk
<1>5. call[c] = NoCall
  BY <1>3, <1>4 DEF CallOk
<1>6. /\ peer'[c].req = r /\ call' = [call EXCEPT ![c] = NoCall]
      /\ UNCHANGED <<client, wpc, job>> /\ Others(c)
  BY <1>0, <1>1 DEF PeerSends, Others
<1>7. call' = call
  BY <1>0, <1>5, <1>6
<1>8. CallOk(client'[c], peer'[c], call'[c])
  BY <1>2, <1>3, <1>4, <1>6, <1>7 DEF CallOk
<1>9. Calls'
  <2>1. \A w \in Workers : wpc[w] = "execute" => job[w] # c
    BY <1>2 DEF IInv, WorkerInv
  <2>2. \A w \in Workers : wpc[w] = "execute" => job[w] \in Node
    BY DEF IInv, TypeOK, WorkerInv, NodeOrNull, Busy
  <2> QED BY <1>6, <1>7, <2>1, <2>2 DEF CallInv, Calls, Others
<1>10. Service!Ask(c)
  <2>1. [m \in Node |-> peer[m].req]' = [[m \in Node |-> peer[m].req] EXCEPT ![c] = r]
    BY <1>6 DEF Others
  <2> QED BY <1>2, <1>6, <2>1 DEF Service!Ask
<1> QED BY <1>6, <1>8, <1>9, <1>10, OneOk DEF Service!Next

LEMMA HangUpStep ==
  ASSUME IInv, CallInv, NEW c \in Node, PeerHangsUp(c)
  PROVE  CallInv' /\ [Service!Next]_(Service!vars)
<1>1. peer \in [Node -> Peer]
  BY DEF IInv, TypeOK
<1>2. /\ peer'[c].req = peer[c].req /\ Others(c) /\ UNCHANGED <<client, call, wpc, job>>
  BY <1>1 DEF PeerHangsUp, Peer, Others
<1>3. CallOk(client'[c], peer'[c], call'[c])
  BY <1>2 DEF CallInv, CallOk
<1>4. \A w \in Workers : wpc[w] = "execute" => job[w] \in Node
  BY DEF IInv, TypeOK, WorkerInv, NodeOrNull, Busy
<1>5. Calls'
  BY <1>2, <1>4 DEF CallInv, Calls, Others
<1>6. UNCHANGED Service!vars
  BY <1>2, UnseenOne
<1> QED BY <1>2, <1>3, <1>5, <1>6, OneOk

LEMMA EnvironmentStep ==
  ASSUME IInv, CallInv, Environment
  PROVE  CallInv' /\ [Service!Next]_(Service!vars)
<1>0. wpc \in [Workers -> WorkerPc]
  BY DEF IInv, TypeOK
<1>1. CASE StopSignal \/ PeerConnects \/ SelectFails \/ \E c \in Node : BrokenPipe(c)
  BY <1>1, QuietStep DEF StopSignal, PeerConnects, SelectFails, BrokenPipe
<1>2. CASE \E w \in Workers : SpuriousWakeup(w)
  <2>1. UNCHANGED <<client, peer, call, job>>
    BY <1>2 DEF SpuriousWakeup
  <2>2. \A w \in Workers : wpc'[w] = wpc[w] \/ (/\ wpc[w] \notin {"execute", "plugin"}
                                               /\ wpc'[w] \notin {"execute", "plugin"})
    BY <1>0, <1>2 DEF SpuriousWakeup
  <2> QED BY <2>1, <2>2, QuietStep
<1> QED BY <1>1, <1>2, AskStep, HangUpStep DEF Environment

-----------------------------------------------------------------------------
LEMMA InitCalls == Init => CallInv /\ Service!Init
<1> SUFFICES ASSUME Init PROVE CallInv /\ Service!Init
  OBVIOUS
<1>1. CallOk(Cleared, NoPeer, NoCall)
  BY DEF CallOk, Cleared, NoPeer, NoCall, NoRequest
<1>2. CallInv
  BY <1>1 DEF Init, CallInv, Calls, NoCall
<1>3. Service!Init
  BY DEF Init, Service!Init, NoPeer, Cleared
<1> QED BY <1>2, <1>3

LEMMA NextCalls ==
  ASSUME IInv, CallInv, [Next]_vars
  PROVE  CallInv' /\ [Service!Next]_(Service!vars)
<1>1. CASE UNCHANGED vars
  BY <1>1, QuietStep DEF vars
<1> QED BY <1>1, SelectorStep, WorkerStep, EnvironmentStep DEF Next

LEMMA CallsHold == Spec => []CallInv
<1>1. IInv /\ CallInv /\ [Next]_vars => CallInv'
  BY NextCalls
<1> QED BY <1>1, InitCalls, Invariance, PTL DEF Spec

\* The plugin acts on the node and with the operation that the request of this very
\* connection names, and the reply is its verdict: no name is left over in an object
\* that serves another connection (ServerConnector.cpp:557-592).
THEOREM FencesTheRequest == Spec => []FenceFidelity
<1>1. CallInv => FenceFidelity
  BY DEF CallInv, CallOk, FenceFidelity
<1> QED BY <1>1, CallsHold, PTL

\* The server with all its threads, queues and locks implements Fencing.tla: one call
\* of the plugin at most for a request, and no connection is closed, nor its object
\* used again, while the plugin acts for it (ServerConnector.cpp:131-601).
THEOREM ServerImplementsFencing == Spec => ImplementsFencing
<1>1. IInv /\ CallInv /\ [Next]_vars => [Service!Next]_(Service!vars)
  BY NextCalls
<1> QED
  BY <1>1, InitCalls, Invariance, CallsHold, PTL DEF Spec, ImplementsFencing, Service!Spec
=============================================================================
