----------------------------- MODULE ServerState -----------------------------
(***************************************************************************)
(* The state the threads of the server share (ServerConnector.h, GenAlloc, *)
(* SignalHandler, WorkerPool), and close_connection, which all of them     *)
(* call.  The NetClient objects are the nodes of two lists, the com queue  *)
(* and the action queue, each with a mutex of its own.                     *)
(*                                                                         *)
(* A critical section is one step where no other thread can see its        *)
(* middle; the two mutexes are variables for a thread that keeps one       *)
(* across steps.  What the code does WITHOUT com_queue_lock is split: a    *)
(* close_connection outside it writes the two ends of the com queue in two *)
(* steps, in either order.  Within a step a list operation is atomic.      *)
(***************************************************************************)
EXTENDS Queue, Naturals

CONSTANTS
  Workers,        \* the worker threads
  SELECTOR,       \* the selector (main) thread
  Nodenames,      \* the nodes a request may name
  Requests,       \* the requests the peers of an instance send
  MaxConnects,    \* bound: connections the peers open in a behaviour
  MaySignal,      \* may a stop signal arrive
  OsMayFail       \* may a system call of the connector fail

\* The other bodies of a fencing request: no node name field, a field that
\* breaks the protocol, a node name longer than NODENAME_SIZE.
NoName    == "no_name"
Malformed == "malformed"
TooLong   == "too_long"

FenceType == {"FENCE_OFF", "FENCE_ON", "FENCE_REBOOT"}

\* "INVALID" stands for every msg_type that is not a request.
RequestType == {"ECHO_REQUEST", "VERSION_REQUEST", "INVALID"} \union FenceType

Request == [type : RequestType, body : Nodenames \union {NoName, Malformed, TooLong}]

NoRequest == [type |-> "NONE", body |-> NoName]

Reply == [type : {"ECHO_REPLY", "FENCE_SUCCESS", "FENCE_FAIL"}, body : {NoName}]

ASSUME ConstantsAssumption ==
  /\ SELECTOR \notin Workers
  /\ NULL \notin Workers \union {SELECTOR}
  /\ Requests \subseteq Request
  /\ MaxConnects \in Nat
  /\ MaySignal \in BOOLEAN
  /\ OsMayFail \in BOOLEAN

\* The pool has a fixed number of threads (MAX_CONNECTIONS), all started before run().
ASSUME WorkersAssumption == Workers # {}

ASSUME NodenamesAssumption ==
  Nodenames \intersect {NoName, Malformed, TooLong} = {}

VARIABLES
  \* the connector's queues, pool and locks
  com_queue, action_queue,    \* ends of the two lists
  links,                      \* next_node and prev_node of every NetClient
  client_pool,                \* the free objects (GenAlloc)
  client,                     \* the fields of every NetClient
  com_queue_lock, action_queue_lock,   \* the holder, or NULL
  \* the stop signal and the self-pipe
  signal_flag, wakeup_fd,     \* SignalHandler: the flag; is a wakeup fd set
  selector_trigger,           \* the pipe: "closed", "empty" or "byte"
  \* the selector thread
  pc, cursor, held,           \* position; the client of the traversal; the one in hand
  read_fd_set, write_fd_set,  \* as select() leaves them
  \* the worker threads
  wpc, job,                   \* position; the client being processed
  stop_workers,
  \* the environment
  backlog, connects,          \* connections to accept; connections opened so far
  peer,                       \* the other end of each NetClient's connection
  call,                       \* the plugin call for the connection's last request
  crashed                     \* the process died on a null pointer or a bad fd

queueVars  == <<com_queue, action_queue, links>>
poolVars   == <<client_pool, client>>
lockVars   == <<com_queue_lock, action_queue_lock>>
signalVars == <<signal_flag, wakeup_fd, selector_trigger>>
selVars    == <<pc, cursor, held, read_fd_set, write_fd_set>>
workerVars == <<wpc, job, stop_workers>>
envVars    == <<backlog, connects, peer, call>>

vars == <<queueVars, poolVars, lockVars, signalVars, selVars, workerVars,
          envVars, crashed>>

LISTEN  == "listen"    \* the server socket
TRIGGER == "trigger"   \* the read end of the self-pipe

ASSUME DescriptorsAssumption ==
  {LISTEN, TRIGGER} \intersect Node = {}

Phase == {"RECV", "SEND", "PENDING", "EXECUTING", "CANCELED"}
IoOp  == {"NOOP", "READ", "WRITE"}

(***************************************************************************)
(* io_offset counts parts of a message: 0 nothing yet, 1 the header (then  *)
(* have_header is set), 2 the header and the fields.  receive_message      *)
(* never reads past the header in the call that completes it, so a message *)
(* with fields takes two calls.                                            *)
(***************************************************************************)
NetClient == [open : BOOLEAN, current_phase : Phase, next_phase : Phase,
              io_state : IoOp, io_offset : 0 .. 2,
              msg : Requests \union {NoRequest} \union Reply,
              nodename : Nodenames \union {NoName}]

\* What NetClient::clear leaves.
Cleared == [open |-> FALSE, current_phase |-> "RECV", next_phase |-> "PENDING",
            io_state |-> "NOOP", io_offset |-> 0,
            msg |-> NoRequest, nodename |-> NoName]

\* Mutant of ClearClient: the I/O buffer and its offset are not cleared.
ClearClient_BufferKept(n) == [Cleared EXCEPT !.io_offset = n.io_offset]

\* Mutant of ClearClient: the node name is not wiped.
ClearClient_NameKept(n) == [Cleared EXCEPT !.nodename = n.nodename]

\* NetClient::clear on an object with the fields n.
ClearClient(n) == Cleared

Parts(r) == IF r.body = NoName THEN 1 ELSE 2

\* The connection's peer: the request it waits on, the parts of it the server
\* has not read, and whether the peer has hung up.
Peer == [req : Requests \union {NoRequest}, avail : 0 .. 2, gone : BOOLEAN]
NoPeer == [req |-> NoRequest, avail |-> 0, gone |-> FALSE]

Call == [op : FenceType \union {"NONE"}, node : Nodenames \union {NoName},
         state : {"none", "running", "succeeded", "failed"}]
NoCall == [op |-> "NONE", node |-> NoName, state |-> "none"]

Com == [head |-> com_queue.head, tail |-> com_queue.tail,
        next |-> links.next, prev |-> links.prev]

Action == [head |-> action_queue.head, tail |-> action_queue.tail,
           next |-> links.next, prev |-> links.prev]

\* Store the result of a list operation back.
SetCom(l) == /\ com_queue' = [head |-> l.head, tail |-> l.tail]
             /\ links' = [next |-> l.next, prev |-> l.prev]
             /\ UNCHANGED action_queue

SetAction(l) == /\ action_queue' = [head |-> l.head, tail |-> l.tail]
                /\ links' = [next |-> l.next, prev |-> l.prev]
                /\ UNCHANGED com_queue

-----------------------------------------------------------------------------
(***************************************************************************)
(* Closing a connection.                                                   *)
(***************************************************************************)

\* The socket is closed and the object cleared and given back to the pool.
ReleaseClient(c) ==
  /\ client' = [client EXCEPT ![c] = ClearClient(@)]
  /\ client_pool' = client_pool \union {c}
  /\ peer' = [peer EXCEPT ![c] = NoPeer]
  /\ call' = [call EXCEPT ![c] = NoCall]
  /\ UNCHANGED <<backlog, connects>>

\* Mutant of CloseConnection: com_queue.remove is forgotten.
CloseConnection_NotRemoved(c) == UNCHANGED queueVars /\ ReleaseClient(c)

\* close_connection by a thread that holds com_queue_lock: one step.
CloseConnection(c) == SetCom(Remove(Com, c)) /\ ReleaseClient(c)

\* close_connection by a thread that does not hold it: the two ends of the list
\* are written one after the other, in either order, with other threads between.
Side == {"head", "tail"}
OtherSide(s) == IF s = "head" THEN "tail" ELSE "head"
Unlink(l, c, s) == IF s = "head" THEN UnlinkHead(l, c) ELSE UnlinkTail(l, c)

UnlockedCloseBegin(l, c, s) ==
  /\ SetCom(Unlink(l, c, s))
  /\ client' = [client EXCEPT ![c].open = FALSE]
  /\ UNCHANGED client_pool

UnlockedCloseEnd(c, s) ==
  /\ SetCom(Detach(Unlink(Com, c, s), c))
  /\ ReleaseClient(c)

\* A byte is written to the self-pipe if it is open.
Trigger == IF selector_trigger = "closed" THEN "closed" ELSE "byte"

\* Mutant of WakeupSelector: no byte is written.
WakeupSelector_Silent == UNCHANGED selector_trigger

WakeupSelector == selector_trigger' = Trigger

DisableWakeupFd_Forgotten == UNCHANGED wakeup_fd

\* SignalHandler::disable_wakeup_fd; the mutant above leaves it set.
DisableWakeupFd == wakeup_fd' = FALSE

\* Mutant of NotifyOne: nobody is notified.
NotifyOne_Nobody == UNCHANGED wpc

\* notify_one wakes one of the waiting workers, if there is one.
NotifyOne ==
  \/ /\ \A w \in Workers : wpc[w] # "waiting"
     /\ UNCHANGED wpc
  \/ \E w \in Workers : /\ wpc[w] = "waiting"
                        /\ wpc' = [wpc EXCEPT ![w] = "enter"]

\* Mutant of NotifyAll: the waiting workers sleep on.
NotifyAll_Nobody == UNCHANGED wpc

NotifyAll ==
  wpc' = [w \in Workers |-> IF wpc[w] = "waiting" THEN "enter" ELSE wpc[w]]

=============================================================================
