--------------------------- MODULE ServerConnector ---------------------------
(***************************************************************************)
(* The server at run time: the selector thread, the worker threads, and    *)
(* their environment: the stop signal, the peers of the connections, and   *)
(* the system calls that may fail.                                         *)
(***************************************************************************)
EXTENDS Selector, WorkerThreads

(***************************************************************************)
(* The environment.                                                        *)
(***************************************************************************)

\* ufh_signal_handler, in any thread.
StopSignal ==
  /\ MaySignal
  /\ ~signal_flag
  /\ pc # "destroyed"
  /\ signal_flag' = TRUE
  /\ selector_trigger' = IF wakeup_fd THEN Trigger ELSE selector_trigger
  /\ UNCHANGED <<queueVars, poolVars, lockVars, wakeup_fd, selVars, workerVars,
                 envVars, crashed>>

Listening == pc \notin {"init", "cleanup", "cleanup_action", "cleanup_head",
                        "cleanup_tail", "cleanup_lock", "cleanup_com", "stop",
                        "join", "destroyed"}

PeerConnects ==
  /\ Listening
  /\ connects < MaxConnects
  /\ connects' = connects + 1
  /\ backlog' = backlog + 1
  /\ UNCHANGED <<queueVars, poolVars, lockVars, signalVars, selVars, workerVars,
                 peer, call, crashed>>

\* A peer sends one request at a time and waits for the reply.
PeerSends(c) ==
  /\ client[c].open /\ ~peer[c].gone /\ peer[c].req = NoRequest
  /\ \E r \in Requests :
       peer' = [peer EXCEPT ![c] = [req |-> r, avail |-> Parts(r), gone |-> FALSE]]
  /\ call' = [call EXCEPT ![c] = NoCall]
  /\ UNCHANGED <<queueVars, poolVars, lockVars, signalVars, selVars, workerVars,
                 backlog, connects, crashed>>

PeerHangsUp(c) ==
  /\ client[c].open /\ ~peer[c].gone
  /\ peer' = [peer EXCEPT ![c].gone = TRUE]
  /\ UNCHANGED <<queueVars, poolVars, lockVars, signalVars, selVars, workerVars,
                 backlog, connects, call, crashed>>

\* send() to a connection the peer has reset raises SIGPIPE, which the server does not
\* handle: the process ends.
BrokenPipe(c) ==
  /\ OsMayFail
  /\ pc = "io" /\ cursor = c
  /\ CanWrite(c) /\ SendFails(c)
  /\ crashed' = TRUE
  /\ UNCHANGED <<queueVars, poolVars, lockVars, signalVars, selVars, workerVars, envVars>>

-----------------------------------------------------------------------------
Init ==
  /\ com_queue = NoEnds
  /\ action_queue = NoEnds
  /\ links = NoLinks
  /\ client_pool = Node
  /\ client = [c \in Node |-> Cleared]
  /\ com_queue_lock = NULL
  /\ action_queue_lock = NULL
  /\ signal_flag = FALSE
  /\ wakeup_fd = FALSE
  /\ selector_trigger = "closed"
  /\ pc = "init"
  /\ cursor = NULL
  /\ held = NULL
  /\ read_fd_set = {}
  /\ write_fd_set = {}
  /\ wpc = [w \in Workers |-> "enter"]
  /\ job = [w \in Workers |-> NULL]
  /\ stop_workers = FALSE
  /\ backlog = 0
  /\ connects = 0
  /\ peer = [c \in Node |-> NoPeer]
  /\ call = [c \in Node |-> NoCall]
  /\ crashed = FALSE

\* The selector thread's own steps (a system call that fails is not one of them).
Selector ==
  \/ SelectorInit \/ SelectorCheck \/ BuildFdSets \/ Select
  \/ AcceptConnection \/ DrainTrigger
  \/ IoBegin \/ IoStep \/ IoEnd \/ Handoff
  \/ CleanupBegin \/ CleanupActionClose \/ CleanupActionClosed \/ CleanupActionEnd
  \/ CleanupComBegin \/ CleanupComClose \/ CleanupComEnd
  \/ StopThreads \/ JoinThreads

Worker(w) ==
  \/ WorkerEnter(w) \/ WorkerRelock(w)
  \/ ExecuteEcho(w) \/ FenceCall(w) \/ FenceReturn(w)
  \/ ExecuteRejected(w) \/ ExecuteThrows(w) \/ UnownedCheck(w) \/ UnownedWait(w)
  \/ RouteClient(w) \/ RejectClose(w) \/ RejectClosed(w)

Environment ==
  \/ StopSignal
  \/ PeerConnects
  \/ SelectFails
  \/ \E w \in Workers : SpuriousWakeup(w)
  \/ \E c \in Node : PeerSends(c) \/ PeerHangsUp(c) \/ BrokenPipe(c)

Next ==
  \/ /\ ~crashed
     /\ Selector \/ Environment \/ \E w \in Workers : Worker(w)
  \/ /\ crashed \/ pc = "destroyed"    \* the process is gone
     /\ UNCHANGED vars

Spec == Init /\ [][Next]_vars

(***************************************************************************)
(* Fairness: a thread that can run does (the plugin returns, a mutex that  *)
(* stays free is taken), and a worker that waits for com_queue_lock gets   *)
(* it although the selector takes it again and again.  Nothing is assumed  *)
(* of the environment.                                                     *)
(***************************************************************************)
Fairness == /\ WF_vars(~crashed /\ Selector)
            /\ \A w \in Workers : /\ WF_vars(~crashed /\ Worker(w))
                                  /\ SF_vars(~crashed /\ RouteClient(w))

FairSpec == Spec /\ Fairness

-----------------------------------------------------------------------------
(***************************************************************************)
(* Safety.                                                                 *)
(***************************************************************************)

SelectorPc == {"init", "check", "build", "select", "accept", "drain", "lock",
               "io", "handoff", "cleanup", "cleanup_action", "cleanup_head",
               "cleanup_tail", "cleanup_lock", "cleanup_com", "stop", "join",
               "destroyed"}

WorkerPc == {"enter", "execute", "plugin", "route", "close", "close_head",
             "close_tail", "relock", "waiting", "unowned", "unowned_wait",
             "exited"}

\* The types of the connector's fields (ServerConnector.h:39-120), of the
\* signal handler's and the pool's, and of the threads' positions.
TypeOK ==
  /\ com_queue \in Ends
  /\ action_queue \in Ends
  /\ links \in Links
  /\ client_pool \in SUBSET Node
  /\ client \in [Node -> NetClient]
  /\ com_queue_lock \in {NULL, SELECTOR}
  /\ action_queue_lock \in {NULL, SELECTOR}
  /\ signal_flag \in BOOLEAN
  /\ wakeup_fd \in BOOLEAN
  /\ selector_trigger \in {"closed", "empty", "byte"}
  /\ pc \in SelectorPc
  /\ cursor \in NodeOrNull
  /\ held \in NodeOrNull
  /\ read_fd_set \in SUBSET (Node \union {LISTEN, TRIGGER})
  /\ write_fd_set \in SUBSET Node
  /\ wpc \in [Workers -> WorkerPc]
  /\ job \in [Workers -> NodeOrNull]
  /\ stop_workers \in BOOLEAN
  /\ backlog \in Nat
  /\ connects \in Nat
  /\ peer \in [Node -> Peer]
  /\ call \in [Node -> Call]
  /\ crashed \in BOOLEAN

Jobs == {job[w] : w \in Workers} \ {NULL}
Held == {held} \ {NULL}

\* The clients in use that no thread and no action queue has: they wait for I/O.
InService == Node \ (client_pool \union Jobs \union Held \union Members(Action))

\* A client is in one place: free, in the com queue, in the action queue, or in the
\* hands of one thread; the traversal of the com queue never stands on a client
\* that someone else has (ServerConnector.cpp:201-262, 476-508).
ExclusiveOwnership ==
  /\ Members(Com) \subseteq InService
  /\ cursor # NULL => cursor \in InService
  /\ client_pool \intersect (Jobs \union Held \union Members(Action)) = {}
  /\ Members(Action) \intersect (Jobs \union Held) = {}
  /\ Jobs \intersect Held = {}
  /\ \A v, w \in Workers : job[v] = job[w] /\ job[v] # NULL => v = w

\* No end of a list and no link of a client in use leads to a free object, whose
\* fields a new connection will overwrite (ServerConnector.cpp:356-365).
NoDanglingLink ==
  /\ {com_queue.head, com_queue.tail, action_queue.head, action_queue.tail}
       \intersect client_pool = {}
  /\ \A c \in Node \ client_pool : {links.next[c], links.prev[c]}
                                     \intersect client_pool = {}

\* The plugin acts on the node and with the operation of the request that the peer
\* of this very connection sent, and the reply tells its verdict
\* (ServerConnector.cpp:557-592): names are not left over from another connection.
FenceFidelity ==
  \A c \in Node :
    /\ call[c].state # "none" =>
         /\ peer[c].req.type = call[c].op
         /\ peer[c].req.body = call[c].node
    /\ client[c].msg.type = "FENCE_SUCCESS" => call[c].state = "succeeded"
    /\ client[c].msg.type = "FENCE_FAIL" => call[c].state = "failed"

\* Seen from its connections the server is Fencing.tla: at most one plugin call for
\* a request, and no connection lost while the plugin acts for it
\* (ServerConnector.cpp:472-601).
Service == INSTANCE Fencing WITH
  Connections <- Node,
  request <- [c \in Node |-> peer[c].req],
  reply <- [c \in Node |-> IF client[c].io_state = "WRITE"
                            THEN client[c].msg.type ELSE "NONE"]
ImplementsFencing == Service!Spec

\* When the selector goes on to accept a connection, the pool still has the free
\* object the selector saw before select() (ServerConnector.cpp:147, 180-183, 327):
\* the error path at ServerConnector.cpp:348-353 is never taken.
AcceptAllocates == pc = "accept" => client_pool # {}

\* The signal handler never writes to a pipe that is closed: the wakeup fd is
\* withdrawn before the pipe is (ServerConnector.cpp:309, 318-319).
WakeupPipeOpen == wakeup_fd => selector_trigger # "closed"

\* The plugin is not destroyed while a worker is in it, and no worker is left
\* behind with a client (WorkerPool.cpp:90-116, Server.cpp:45-64).
PluginOutlivesCalls ==
  pc = "destroyed" => \A w \in Workers : wpc[w] = "exited" /\ job[w] = NULL

(***************************************************************************)
(* Safety that the requests decide on: it holds where every request leads  *)
(* to a reply and the stop signal has not arrived, and fails where the     *)
(* server closes a connection on a worker's behalf.                        *)
(***************************************************************************)

\* While the selector is in select(), every client that waits for I/O is in one of
\* the sets ("Add active clients to the read/write sets", ServerConnector.cpp:153),
\* or the pipe holds the byte that wakes the selector (278-287).
ActiveClientsSelected ==
  pc = "select" /\ ~signal_flag /\ selector_trigger # "byte" =>
    InService \subseteq read_fd_set \union write_fd_set

\* While the selector is in select() without the server socket, there is no free
\* object, or the wakeup byte is there (ServerConnector.cpp:146-151).
ListenerSelected ==
  pc = "select" /\ ~signal_flag /\ selector_trigger # "byte" =>
    (LISTEN \in read_fd_set <=> client_pool # {})

\* A client on the action queue is never left to workers that all wait on the
\* condition variable or have stopped: notify_one is not lost
\* (ServerConnector.cpp:232-234, WorkerPool.cpp:73-88).
NoLostNotify ==
  Action.head # NULL =>
    \E w \in Workers : wpc[w] \notin {"waiting", "exited"}

\* The server closes a connection before its peer hung up only after it has sent
\* the verdict of the plugin (ServerConnector.cpp:238-250, 589-591).
ClosedAfterReply ==
  [][\A c \in Node :
       client[c].open /\ ~client'[c].open /\ ~peer[c].gone /\ ~signal_flag =>
         /\ call[c].state \in {"succeeded", "failed"}
         /\ client[c].io_state = "WRITE"]_vars

(***************************************************************************)
(* Two statements of the source that its behaviour does not keep.          *)
(***************************************************************************)

\* cleanup() leaves no client of the com queue connected ("Close connections of
\* clients on the com queue", ServerConnector.cpp:305); it does not hold.
ComQueueClosed == pc = "stop" => \A c \in InService : ~client[c].open

\* A worker that comes back into worker_loop has the pool lock ("must be reacquired
\* afterwards before returning into this loop", WorkerPool.cpp:78-80); it does not hold.
PoolLockReacquired == \A w \in Workers : wpc[w] = "unowned" => action_queue_lock = w

(***************************************************************************)
(* Liveness, under FairSpec.                                               *)
(***************************************************************************)

\* Every request is answered unless its peer hangs up or the server is told to stop.
RequestAnswered ==
  \A c \in Node : peer[c].req # NoRequest ~>
                    peer[c].req = NoRequest \/ peer[c].gone \/ signal_flag

\* A connection that waits in the backlog is accepted when there is a free object.
ConnectionAccepted ==
  backlog > 0 /\ client_pool # {} ~> backlog = 0 \/ client_pool = {} \/ signal_flag

\* A stop signal ends the process: the selector wakes up, cleans up, and joins all
\* the workers (SignalHandler.cpp:100-121, ServerConnector.cpp:134, 291-321).
StopsOnSignal == signal_flag ~> pc = "destroyed" \/ crashed
=============================================================================
