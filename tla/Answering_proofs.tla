-------------------------- MODULE Answering_proofs --------------------------
(***************************************************************************)
(* Proofs about ServerConnector.tla where the requests decide: where none  *)
(* makes a worker throw no notification is lost, and where every one leads *)
(* to a reply nothing that waits for I/O is ever left out of select() and  *)
(* nobody is disconnected before the verdict is sent.  For any number of   *)
(* clients, workers and connections, and any such requests.                *)
(***************************************************************************)
EXTENDS Service_proofs

\* No fencing request has a node name longer than NODENAME_SIZE.
NoOversizedName == \A r \in Requests : r.type \in FenceType => r.body # TooLong

\* Every request is an echo, or a fencing request that names its node.
Answered == \A r \in Requests : \/ r.type = "ECHO_REQUEST"
                                \/ r.type \in FenceType /\ r.body \in Nodenames

\* The tuples of variables are no more than abbreviations.
USE DEF queueVars, poolVars, lockVars, signalVars, selVars, workerVars, envVars

-----------------------------------------------------------------------------
(***************************************************************************)
(* No notification is lost.  The workers leave only when they are told to, *)
(* and by then cleanup() has emptied the action queue and the selector has *)
(* nothing more to hand off.                                               *)
(***************************************************************************)
NotifyInv ==
  /\ \A w \in Workers : wpc[w] \notin {"unowned", "unowned_wait"}
  /\ \A w \in Workers : wpc[w] = "exited" => stop_workers
  /\ stop_workers => pc \in {"join", "destroyed"}
  /\ pc \in {"cleanup_lock", "cleanup_com", "stop", "join", "destroyed"}
       => action_queue.head = NULL
  /\ action_queue.head # NULL => \E w \in Workers : wpc[w] \notin {"waiting", "exited"}

\* What a worker is about to execute is a request that a peer has sent.
LEMMA ExecutesRequest ==
  ASSUME IInv, CallInv, NEW w \in Workers, wpc[w] = "execute"
  PROVE  /\ job[w] \in Node /\ client[job[w]].msg \in Requests
         /\ client[job[w]].current_phase = "EXECUTING"
<1>1. job[w] \in Node /\ client[job[w]].current_phase = "EXECUTING"
  BY DEF IInv, TypeOK, WorkerInv, Busy, NodeOrNull
<1>2. client[job[w]].msg = peer[job[w]].req
  BY DEF CallInv, Calls
<1>3. peer[job[w]].req \in Requests \union {NoRequest}
  BY <1>1 DEF IInv, TypeOK, Peer
<1>4. peer[job[w]].req # NoRequest
  BY <1>1 DEF IInv, RecvInv, RecvOk
<1> QED
  BY <1>1, <1>2, <1>3, <1>4

LEMMA NoneThrows ==
  ASSUME IInv, CallInv, NoOversizedName, NEW w \in Workers
  PROVE  ~ExecuteThrows(w)
<1> SUFFICES ASSUME ExecuteThrows(w) PROVE FALSE
  OBVIOUS
<1>1. client[job[w]].msg \in Requests
  BY ExecutesRequest DEF ExecuteThrows
<1> QED
  BY <1>1 DEF ExecuteThrows, NoOversizedName

\* A step that leaves the action queue alone, and sends no worker to sleep or away.
LEMMA NotifyKept ==
  ASSUME NotifyInv, action_queue'.head = action_queue.head, stop_workers' = stop_workers,
         \/ pc' = pc
         \/ /\ pc' \notin {"cleanup_lock", "cleanup_com", "stop", "join", "destroyed"}
            /\ pc \notin {"join", "destroyed"}
         \/ pc \in {"cleanup_lock", "cleanup_com", "stop"} /\ pc \notin {"join", "destroyed"}
         \/ pc = "join" /\ pc' = "destroyed",
         \A v \in Workers : \/ wpc'[v] = wpc[v]
                            \/ wpc'[v] \notin {"waiting", "exited", "unowned", "unowned_wait"}
  PROVE  NotifyInv'
<1>1. \A v \in Workers : wpc'[v] \notin {"unowned", "unowned_wait"}
  BY DEF NotifyInv
<1>2. \A v \in Workers : wpc'[v] = "exited" => stop_workers'
  BY DEF NotifyInv
<1>3. stop_workers' => pc' \in {"join", "destroyed"}
  BY DEF NotifyInv
<1>4. pc' \in {"cleanup_lock", "cleanup_com", "stop", "join", "destroyed"}
        => action_queue'.head = NULL
  BY DEF NotifyInv
<1>5. action_queue'.head # NULL => \E v \in Workers : wpc'[v] \notin {"waiting", "exited"}
  BY DEF NotifyInv
<1> QED
  BY <1>1, <1>2, <1>3, <1>4, <1>5 DEF NotifyInv

LEMMA SetComKeepsAction ==
  ASSUME NEW l, SetCom(l)
  PROVE  action_queue'.head = action_queue.head
BY DEF SetCom

LEMMA SelectorNotify ==
  ASSUME IInv, NotifyInv, Selector
  PROVE  NotifyInv'
<1>0. wpc \in [Workers -> WorkerPc]
  BY DEF IInv, TypeOK
<1>1. CASE \/ SelectorInit \/ SelectorCheck \/ BuildFdSets \/ Select \/ DrainTrigger
           \/ IoBegin \/ IoEnd \/ CleanupBegin
  BY <1>1, NotifyKept
  DEF SelectorInit, SelectorCheck, BuildFdSets, Select, AfterAccept, DrainTrigger, IoBegin,
      IoEnd, CleanupBegin
<1>2. CASE AcceptConnection
  <2>1. action_queue'.head = action_queue.head
    BY <1>2, SetComKeepsAction DEF AcceptConnection
  <2> QED
    BY <1>2, <2>1, NotifyKept DEF AcceptConnection, AfterAccept
<1>3. CASE IoStep
  <2>1. PICK c \in Node : \/ IoSkip(c) \/ IoClose(c) \/ ReceivePart(c) \/ ReceiveMessage(c)
                          \/ SendThenReceive(c) \/ SendThenClose(c)
    BY <1>3 DEF IoStep
  <2>2. action_queue'.head = action_queue.head
    BY <2>1, SetComKeepsAction
    DEF IoSkip, IoClose, ReceivePart, ReceiveMessage, SendThenReceive, SendThenClose,
        CloseConnection, LeaveCom
  <2>3. pc = "io" /\ pc' \in {"io", "handoff"} /\ UNCHANGED <<wpc, stop_workers>>
    BY <2>1
    DEF IoSkip, IoClose, ReceivePart, ReceiveMessage, SendThenReceive, SendThenClose, AtClient
  <2> QED
    BY <2>2, <2>3, NotifyKept
<1>4. CASE Handoff
  <2>1. pc = "handoff" /\ pc' = "io" /\ stop_workers' = stop_workers /\ ~stop_workers
    BY <1>4 DEF Handoff, NotifyInv
  <2>2. \A v \in Workers : wpc[v] # "exited"
    BY <2>1 DEF NotifyInv
  <2>3. \A v \in Workers : wpc'[v] \in {wpc[v], "enter"}
    BY <1>0, <1>4 DEF Handoff, NotifyOne
  <2>4. \E v \in Workers : wpc'[v] \notin {"waiting", "exited"}
    <3>1. CASE \A v \in Workers : wpc[v] # "waiting"
      BY <2>2, <2>3, <3>1, WorkersAssumption
    <3>2. CASE \E v \in Workers : wpc[v] = "waiting"
      BY <1>0, <1>4, <3>2 DEF Handoff, NotifyOne
    <3> QED BY <3>1, <3>2
  <2> QED
    BY <2>1, <2>2, <2>3, <2>4 DEF NotifyInv
<1>5. CASE CleanupActionClose
  <2>1. action_queue.head # NULL
    BY <1>5 DEF CleanupActionClose, Action
  <2>2. pc = "cleanup_action" /\ pc' \in {"cleanup_head", "cleanup_tail"}
          /\ UNCHANGED <<wpc, stop_workers>>
    BY <1>5 DEF CleanupActionClose
  <2> QED
    BY <2>1, <2>2 DEF NotifyInv
<1>6. CASE CleanupActionClosed
  <2>1. action_queue'.head = action_queue.head
    BY <1>6, SetComKeepsAction DEF CleanupActionClosed, UnlockedCloseEnd
  <2> QED
    BY <1>6, <2>1, NotifyKept DEF CleanupActionClosed
<1>7. CASE CleanupActionEnd
  BY <1>7 DEF CleanupActionEnd, NotifyInv, Action
<1>8. CASE CleanupComBegin \/ CleanupComEnd \/ JoinThreads
  BY <1>8, NotifyKept DEF CleanupComBegin, CleanupComEnd, JoinThreads
<1>9. CASE CleanupComClose
  <2>1. action_queue'.head = action_queue.head
    BY <1>9, SetComKeepsAction DEF CleanupComClose
  <2> QED
    BY <1>9, <2>1, NotifyKept DEF CleanupComClose
<1>10. CASE StopThreads
  <2>1. /\ pc' = "join" /\ stop_workers' /\ action_queue' = action_queue
        /\ action_queue.head = NULL
    BY <1>10 DEF StopThreads, NotifyInv
  <2>2. \A v \in Workers : wpc'[v] \in {wpc[v], "enter"}
    BY <1>0, <1>10 DEF StopThreads, NotifyAll
  <2>3. \A v \in Workers : wpc'[v] \notin {"unowned", "unowned_wait"}
    BY <2>2 DEF NotifyInv
  <2> QED
    BY <2>1, <2>3 DEF NotifyInv
<1> QED
  BY <1>1, <1>2, <1>3, <1>4, <1>5, <1>6, <1>7, <1>8, <1>9, <1>10 DEF Selector

LEMMA WorkerNotify ==
  ASSUME IInv, CallInv, NoOversizedName, NotifyInv, NEW w \in Workers, Worker(w)
  PROVE  NotifyInv'
<1>0. wpc \in [Workers -> WorkerPc] /\ UNCHANGED <<pc, stop_workers>>
  BY WorkerFrame
  DEF IInv, TypeOK, Worker, WorkerEnter, WorkerRelock, ExecuteEcho, FenceCall, FenceReturn,
      ExecuteRejected, ExecuteThrows, UnownedCheck, UnownedWait, RouteClient, RejectClose,
      RejectClosed
<1>1. \A v \in Workers \ {w} : wpc'[v] = wpc[v]
  BY WorkerFrame
<1>2. CASE TakeJob(w) /\ Action.head # NULL
  <2>1. wpc'[w] = "execute" /\ action_queue.head # NULL
    BY <1>0, <1>2 DEF TakeJob, Action
  <2> QED
    BY <1>0, <1>1, <2>1 DEF NotifyInv
<1>3. CASE (stop_workers \/ Action.head = NULL) /\ UNCHANGED queueVars
           /\ wpc' = [wpc EXCEPT ![w] = IF stop_workers THEN "exited" ELSE "waiting"]
  <2>1. action_queue' = action_queue /\ action_queue.head = NULL
    BY <1>3 DEF NotifyInv, Action
  <2>2. /\ wpc'[w] \in {"exited", "waiting"}
        /\ wpc'[w] = "exited" => stop_workers
    BY <1>0, <1>3
  <2> QED
    BY <1>0, <1>1, <2>1, <2>2 DEF NotifyInv
<1>4. CASE \/ ExecuteEcho(w) \/ FenceCall(w) \/ FenceReturn(w) \/ ExecuteRejected(w)
  BY <1>0, <1>1, <1>4, NotifyKept DEF ExecuteEcho, FenceCall, FenceReturn, ExecuteRejected
<1>5. CASE RouteClient(w) \/ RejectClose(w) \/ RejectClosed(w)
  <2>1. action_queue'.head = action_queue.head
    BY <1>5, SetComKeepsAction
    DEF RouteClient, CloseConnection, RejectClose, UnlockedCloseBegin, RejectClosed,
        UnlockedCloseEnd
  <2>2. wpc'[w] \in {"relock", "close_head", "close_tail"}
    BY <1>0, <1>5 DEF RouteClient, RejectClose, RejectClosed
  <2> QED
    BY <1>0, <1>1, <2>1, <2>2, NotifyKept
<1>6. ~ExecuteThrows(w) /\ ~UnownedCheck(w) /\ ~UnownedWait(w)
  BY NoneThrows DEF UnownedCheck, UnownedWait, NotifyInv
<1>7. CASE WorkerEnter(w)
  BY <1>2, <1>3, <1>7 DEF WorkerEnter
<1>8. CASE WorkerRelock(w)
  BY <1>2, <1>3, <1>8 DEF WorkerRelock
<1>9. CASE ExecuteThrows(w) \/ UnownedCheck(w) \/ UnownedWait(w)
  BY <1>6, <1>9
<1> QED
  BY <1>4, <1>5, <1>7, <1>8, <1>9 DEF Worker

LEMMA EnvironmentNotify ==
  ASSUME IInv, NotifyInv, Environment
  PROVE  NotifyInv'
<1>1. wpc \in [Workers -> WorkerPc]
  BY DEF IInv, TypeOK
<1>2. CASE \E w \in Workers : SpuriousWakeup(w)
  BY <1>1, <1>2, NotifyKept DEF SpuriousWakeup
<1>3. CASE SelectFails
  BY <1>3, NotifyKept DEF SelectFails
<1>4. CASE \/ StopSignal \/ PeerConnects
           \/ \E c \in Node : PeerSends(c) \/ PeerHangsUp(c) \/ BrokenPipe(c)
  BY <1>4, NotifyKept DEF StopSignal, PeerConnects, PeerSends, PeerHangsUp, BrokenPipe
<1> QED
  BY <1>2, <1>3, <1>4 DEF Environment

LEMMA NextNotify ==
  NoOversizedName /\ IInv /\ CallInv /\ NotifyInv /\ [Next]_vars => NotifyInv'
<1> SUFFICES ASSUME NoOversizedName, IInv, CallInv, NotifyInv, [Next]_vars
             PROVE  NotifyInv'
  OBVIOUS
<1>1. CASE UNCHANGED vars
  BY <1>1, NotifyKept DEF vars
<1> QED
  BY <1>1, SelectorNotify, WorkerNotify, EnvironmentNotify DEF Next

\* While no request makes a worker throw, a client on the action queue always has a
\* worker that is about to look for it (ServerConnector.cpp:232-234, WorkerPool.cpp:73-88).
THEOREM NotificationKept == NoOversizedName => (Spec => []NoLostNotify)
<1> SUFFICES ASSUME NoOversizedName PROVE Spec => []NoLostNotify
  OBVIOUS
<1>1. Init => NotifyInv
  BY DEF Init, NotifyInv, NoEnds
<1>2. IInv /\ CallInv /\ NotifyInv /\ [Next]_vars => NotifyInv'
  BY NextNotify
<1>3. NotifyInv => NoLostNotify
  BY DEF NotifyInv, NoLostNotify, Action
<1> QED
  BY <1>1, <1>2, <1>3, Invariance, CallsHold, PTL DEF Spec

-----------------------------------------------------------------------------
(***************************************************************************)
(* Where every request leads to a reply the workers close no connection,   *)
(* so only the selector frees objects, and not while it is in select().    *)
(***************************************************************************)
Loop == {"check", "build", "select", "accept", "drain", "lock", "io", "handoff"}

Detours == {"close", "close_head", "close_tail", "unowned", "unowned_wait"}

ListenInv ==
  /\ \A w \in Workers : wpc[w] \notin Detours
  /\ pc = "select" /\ ~signal_flag /\ client_pool # {} => LISTEN \in read_fd_set

LEMMA NoneRejected ==
  ASSUME IInv, CallInv, Answered, NEW w \in Workers
  PROVE  ~ExecuteRejected(w) /\ ~ExecuteThrows(w)
<1> SUFFICES ASSUME ExecuteRejected(w) \/ ExecuteThrows(w) PROVE FALSE
  OBVIOUS
<1> DEFINE m == client[job[w]].msg
<1>1. m \in Requests
  BY ExecutesRequest DEF ExecuteRejected, ExecuteThrows
<1>2. m.type = "ECHO_REQUEST" \/ (m.type \in FenceType /\ m.body \in Nodenames)
  BY <1>1 DEF Answered
<1>3. m.body \in Nodenames => m.body \notin {NoName, Malformed, TooLong}
  BY NodenamesAssumption
<1> HIDE DEF m
<1>4. ExecuteRejected(w) => \/ m.type \in {"VERSION_REQUEST", "INVALID"}
                            \/ m.type \in FenceType /\ m.body \in {Malformed, NoName}
  BY DEF ExecuteRejected, m
<1>5. ExecuteThrows(w) => m.type \in FenceType /\ m.body = TooLong
  BY DEF ExecuteThrows, m
<1> QED
  BY <1>2, <1>3, <1>4, <1>5 DEF FenceType

LEMMA DetoursAvoided ==
  ASSUME IInv, CallInv, Answered, NEW w \in Workers, Worker(w),
         \A v \in Workers : wpc[v] \notin Detours
  PROVE  /\ \A v \in Workers : wpc'[v] \notin Detours
         /\ \/ WorkerEnter(w) \/ WorkerRelock(w) \/ ExecuteEcho(w)
            \/ FenceCall(w) \/ FenceReturn(w) \/ RouteClient(w)
<1>0. wpc \in [Workers -> WorkerPc] /\ wpc[w] \notin Detours
  BY DEF IInv, TypeOK
<1>1. \A v \in Workers \ {w} : wpc'[v] = wpc[v]
  BY WorkerFrame
<1>2. \/ WorkerEnter(w) \/ WorkerRelock(w) \/ ExecuteEcho(w)
      \/ FenceCall(w) \/ FenceReturn(w) \/ RouteClient(w)
  BY <1>0, NoneRejected
  DEF Worker, UnownedCheck, UnownedWait, RejectClose, RejectClosed, Detours
<1>3. wpc'[w] \in {"execute", "exited", "waiting", "route", "plugin", "relock"}
  BY <1>0, <1>2
  DEF WorkerEnter, WorkerRelock, TakeJob, ExecuteEcho, FenceCall, FenceReturn, RouteClient
<1> QED
  BY <1>1, <1>2, <1>3 DEF Detours

LEMMA SelectorListens ==
  ASSUME IInv, ListenInv, Selector
  PROVE  ListenInv'
<1>0. wpc \in [Workers -> WorkerPc]
  BY DEF IInv, TypeOK
<1>1. \A v \in Workers : wpc'[v] \in {wpc[v], "enter"}
  <2>1. CASE Handoff
    BY <1>0, <2>1 DEF Handoff, NotifyOne
  <2>2. CASE StopThreads
    BY <1>0, <2>2 DEF StopThreads, NotifyAll
  <2>3. CASE \/ SelectorInit \/ SelectorCheck \/ BuildFdSets \/ Select
             \/ AcceptConnection \/ DrainTrigger \/ IoBegin \/ IoEnd
    BY <2>3
    DEF SelectorInit, SelectorCheck, BuildFdSets, Select, AcceptConnection, DrainTrigger,
        IoBegin, IoEnd
  <2>4. CASE IoStep
    BY <2>4
    DEF IoStep, IoSkip, IoClose, ReceivePart, ReceiveMessage, SendThenReceive, SendThenClose
  <2>5. CASE \/ CleanupBegin \/ CleanupActionClose \/ CleanupActionClosed
             \/ CleanupActionEnd \/ CleanupComBegin \/ CleanupComClose \/ CleanupComEnd
             \/ JoinThreads
    BY <2>5
    DEF CleanupBegin, CleanupActionClose, CleanupActionClosed, CleanupActionEnd,
        CleanupComBegin, CleanupComClose, CleanupComEnd, JoinThreads
  <2> QED BY <2>1, <2>2, <2>3, <2>4, <2>5 DEF Selector
<1>2. \A v \in Workers : wpc'[v] \notin Detours
  BY <1>1 DEF ListenInv, Detours
<1>3. CASE BuildFdSets
  BY <1>2, <1>3 DEF BuildFdSets, ListenerFds, ListenInv
<1>4. CASE ~BuildFdSets
  <2> SUFFICES pc' # "select"
    BY <1>2 DEF ListenInv
  <2>1. CASE \/ SelectorInit \/ SelectorCheck \/ Select
             \/ AcceptConnection \/ DrainTrigger \/ IoBegin \/ IoEnd \/ Handoff
    BY <2>1
    DEF SelectorInit, SelectorCheck, Select, AfterAccept, AcceptConnection, DrainTrigger,
        IoBegin, IoEnd, Handoff
  <2>2. CASE IoStep
    BY <2>2
    DEF IoStep, IoSkip, IoClose, ReceivePart, ReceiveMessage, SendThenReceive,
        SendThenClose, AtClient
  <2>3. CASE \/ CleanupBegin \/ CleanupActionClose \/ CleanupActionClosed
             \/ CleanupActionEnd \/ CleanupComBegin \/ CleanupComClose \/ CleanupComEnd
             \/ StopThreads \/ JoinThreads
    BY <2>3
    DEF CleanupBegin, CleanupActionClose, CleanupActionClosed, CleanupActionEnd,
        CleanupComBegin, CleanupComClose, CleanupComEnd, StopThreads, JoinThreads
  <2> QED
    BY <1>4, <2>1, <2>2, <2>3 DEF Selector
<1> QED
  BY <1>3, <1>4

LEMMA WorkerListens ==
  ASSUME IInv, CallInv, Answered, ListenInv, NEW w \in Workers, Worker(w)
  PROVE  ListenInv'
<1>1. /\ \A v \in Workers : wpc'[v] \notin Detours
      /\ \/ WorkerEnter(w) \/ WorkerRelock(w) \/ ExecuteEcho(w)
         \/ FenceCall(w) \/ FenceReturn(w) \/ RouteClient(w)
  BY DetoursAvoided DEF ListenInv
<1>2. /\ UNCHANGED <<pc, read_fd_set, signal_flag>>
      /\ ~signal_flag => client_pool' = client_pool
  BY <1>1
  DEF WorkerEnter, WorkerRelock, TakeJob, ExecuteEcho, FenceCall, FenceReturn, RouteClient
<1> QED
  BY <1>1, <1>2 DEF ListenInv

LEMMA EnvironmentListens ==
  ASSUME IInv, ListenInv, Environment
  PROVE  ListenInv'
<1>0. wpc \in [Workers -> WorkerPc]
  BY DEF IInv, TypeOK
<1>1. \A v \in Workers : wpc'[v] \in {wpc[v], "enter"}
  BY <1>0
  DEF Environment, StopSignal, PeerConnects, SelectFails, SpuriousWakeup, PeerSends,
      PeerHangsUp, BrokenPipe
<1>2. /\ client_pool' = client_pool /\ read_fd_set' = read_fd_set
      /\ pc' = "select" => pc = "select"
      /\ signal_flag => signal_flag'
  BY DEF Environment, StopSignal, PeerConnects, SelectFails, SpuriousWakeup, PeerSends,
         PeerHangsUp, BrokenPipe
<1> QED
  BY <1>1, <1>2 DEF ListenInv, Detours

LEMMA NextListens ==
  ASSUME IInv, CallInv, Answered, ListenInv, [Next]_vars
  PROVE  ListenInv'
<1>1. CASE UNCHANGED vars
  BY <1>1 DEF vars, ListenInv
<1> QED
  BY <1>1, SelectorListens, WorkerListens, EnvironmentListens DEF Next

LEMMA ListenHolds == ASSUME Answered PROVE Spec => []ListenInv
<1>1. Init => ListenInv
  BY DEF Init, ListenInv, Detours
<1>2. IInv /\ CallInv /\ ListenInv /\ [Next]_vars => ListenInv'
  BY NextListens
<1> QED
  BY <1>1, <1>2, Invariance, CallsHold, PTL DEF Spec

\* While the selector is in select() without the server socket every object is in use,
\* however late another thread's step comes (ServerConnector.cpp:146-151).
THEOREM ListenerListens == Answered => (Spec => []ListenerSelected)
<1> SUFFICES ASSUME Answered PROVE Spec => []ListenerSelected
  OBVIOUS
<1>1. EndsInv /\ ListenInv => ListenerSelected
  BY DEF EndsInv, ListenInv, ListenerSelected
<1> QED
  BY <1>1, EndsHold, ListenHolds, PTL

-----------------------------------------------------------------------------
(***************************************************************************)
(* Until the stop signal, and while no system call fails, both queues are  *)
(* well-formed and hold exactly the clients of their side, each client     *)
(* waits for the I/O of its phase, and who is to be closed after its reply *)
(* has a verdict.                                                          *)
(***************************************************************************)
ServedOk(c) ==
  /\ client[c].next_phase = "CANCELED" => /\ call[c].state \in {"succeeded", "failed"}
                                          /\ client[c].io_state = "WRITE"
  /\ client[c].current_phase = "SEND" => client[c].io_state = "WRITE"
  /\ client[c].current_phase # "CANCELED"
  /\ client[c].current_phase = "EXECUTING" => \E w \in Workers : job[w] = c
  /\ c \notin client_pool => /\ client[c].open
                             /\ client[c].current_phase = "RECV" => client[c].io_state = "READ"

ListsInv == /\ Chain(Com) /\ Members(Com) = ComSide
            /\ Chain(Action) /\ Members(Action) = ActionSide

SelectedInv ==
  pc = "select" /\ selector_trigger # "byte" => ComSide \subseteq read_fd_set \union write_fd_set

Serving == /\ pc \in Loop \union {"init"}
           /\ pc \in Loop => selector_trigger # "closed"
           /\ \A c \in Node : ServedOk(c)
           /\ ListsInv
           /\ SelectedInv

ServeInv == ~signal_flag => Serving

\* The steps that are left.
SelectorServes == \/ SelectorInit \/ SelectorCheck \/ BuildFdSets \/ Select
                  \/ AcceptConnection \/ DrainTrigger \/ IoBegin \/ IoStep \/ IoEnd \/ Handoff

WorkerServes(w) == \/ WorkerEnter(w) \/ WorkerRelock(w) \/ ExecuteEcho(w)
                   \/ FenceCall(w) \/ FenceReturn(w) \/ RouteClient(w)

PeerActs == PeerConnects \/ \E c \in Node : PeerSends(c) \/ PeerHangsUp(c)

LEMMA ServingSteps ==
  ASSUME Answered, ~OsMayFail, IInv, CallInv, ListenInv, Serving, ~signal_flag, Next
  PROVE  \/ SelectorServes \/ PeerActs \/ StopSignal \/ UNCHANGED vars
         \/ \E w \in Workers : WorkerServes(w) \/ SpuriousWakeup(w)
<1>1. CASE Selector
  BY <1>1
  DEF Selector, SelectorServes, Serving, Loop, CleanupBegin, CleanupActionClose,
      CleanupActionClosed, CleanupActionEnd, CleanupComBegin, CleanupComClose, CleanupComEnd,
      StopThreads, JoinThreads
<1>2. CASE Environment
  BY <1>2 DEF Environment, SelectFails, BrokenPipe, PeerActs
<1>3. CASE \E w \in Workers : Worker(w)
  BY <1>3, DetoursAvoided DEF ListenInv, WorkerServes
<1> QED
  BY <1>1, <1>2, <1>3 DEF Next

(***************************************************************************)
(* The two queues.                                                         *)
(***************************************************************************)
LEMMA ListsSound ==
  ASSUME TypeOK, LinkInv, ListsInv
  PROVE  Sound(Com) /\ Sound(Action)
BY ComType, LinkFields DEF LinkInv, ListsInv, Sound

LEMMA ComBecomes ==
  ASSUME TypeOK, TypeOK', LinkInv, ListsInv, NEW l, NEW M \in SUBSET Node, SetCom(l),
         Becomes(Com, l, M), M \intersect ActionSide = {},
         ComSide' = M, ActionSide' = ActionSide
  PROVE  ListsInv'
<1>1. Com' = l
  BY DEF SetCom, Com, Becomes, Sound, List
<1>2. Chain(Com)' /\ Members(Com)' = ComSide'
  <2>1. Chain(l) /\ Members(l) = M
    BY DEF Becomes, Sound
  <2> QED BY <1>1, <2>1 DEF Chain, Members, ClosedUnderNext
<1>3. /\ Action' \in List /\ Action \in List
      /\ Action'.head = Action.head /\ Action'.tail = Action.tail
  BY ComType, LinkFields DEF SetCom, Action, TypeOK, Ends, Links, List
<1>4. ASSUME NEW m \in ActionSide
      PROVE  SameLinks(Action', Action, m)
  <2>1. SameLinks(l, Com, m)
    BY SidesDisjoint DEF Becomes, ListsInv
  <2>2. Action'.next = l.next /\ Action'.prev = l.prev
    BY DEF SetCom, Action
  <2> QED BY <2>1, <2>2, LinkFields DEF SameLinks
<1>5. Members(Action') = Members(Action) /\ Chain(Action')
  BY <1>3, <1>4, ChainFrame DEF ListsInv
<1>6. Chain(Action)' /\ Members(Action)' = ActionSide'
  BY <1>5 DEF ListsInv, Chain, Members, ClosedUnderNext
<1> QED
  BY <1>2, <1>6 DEF ListsInv

LEMMA ActionBecomes ==
  ASSUME TypeOK, TypeOK', LinkInv, ListsInv, NEW l, NEW M \in SUBSET Node, SetAction(l),
         Becomes(Action, l, M), M \intersect ComSide = {},
         ActionSide' = M, ComSide' = ComSide
  PROVE  ListsInv'
<1>1. Action' = l
  BY DEF SetAction, Action, Becomes, Sound, List
<1>2. Chain(Action)' /\ Members(Action)' = ActionSide'
  <2>1. Chain(l) /\ Members(l) = M
    BY DEF Becomes, Sound
  <2> QED BY <1>1, <2>1 DEF Chain, Members, ClosedUnderNext
<1>3. /\ Com' \in List /\ Com \in List
      /\ Com'.head = Com.head /\ Com'.tail = Com.tail
  BY ComType, LinkFields DEF SetAction, Com, TypeOK, Ends, Links, List
<1>4. ASSUME NEW m \in ComSide
      PROVE  SameLinks(Com', Com, m)
  <2>1. SameLinks(l, Action, m)
    BY SidesDisjoint DEF Becomes, ListsInv
  <2>2. Com'.next = l.next /\ Com'.prev = l.prev
    BY DEF SetAction, Com
  <2> QED BY <2>1, <2>2, LinkFields DEF SameLinks
<1>5. Members(Com') = Members(Com) /\ Chain(Com')
  BY <1>3, <1>4, ChainFrame DEF ListsInv
<1>6. Chain(Com)' /\ Members(Com)' = ComSide'
  BY <1>5 DEF ListsInv, Chain, Members, ClosedUnderNext
<1> QED
  BY <1>2, <1>6 DEF ListsInv

LEMMA QueueStepLists ==
  ASSUME TypeOK, TypeOK', LinkInv, ListsInv, QueueStep
  PROVE  ListsInv'
<1>0. /\ Sound(Com) /\ Sound(Action)
      /\ Members(Com) = ComSide /\ Members(Action) = ActionSide
      /\ ComSide \in SUBSET Node /\ ActionSide \in SUBSET Node
      /\ ComSide \intersect ActionSide = {}
  BY ListsSound, SidesDisjoint DEF ListsInv
<1>1. CASE Idle
  BY <1>1 DEF Idle, ListsInv, Com, Action, Chain, Members, ClosedUnderNext
<1>2. ASSUME NEW c \in Node, ComJoin(c)
      PROVE  ListsInv'
  <2>1. Loose(Com, c) /\ c \in Node \ ComSide
    BY <1>2, LinkFields DEF LinkInv, ComJoin
  <2>2. Becomes(Com, AddLast(Com, c), ComSide \union {c})
    BY <1>0, <2>1, AddLastBecomes
  <2> QED
    BY <1>0, <1>2, <2>2, ComBecomes DEF ComJoin
<1>3. ASSUME NEW c \in Node, ComLeave(c)
      PROVE  ListsInv'
  <2>1. Becomes(Com, Remove(Com, c), ComSide \ {c})
    BY <1>0, <1>3, RemoveBecomes DEF ComLeave
  <2> QED
    BY <1>0, <1>3, <2>1, ComBecomes DEF ComLeave
<1>4. ASSUME NEW c \in Node, ActionJoin(c)
      PROVE  ListsInv'
  <2>1. Loose(Action, c) /\ c \in Node \ ActionSide
    BY <1>4 DEF LinkInv, ActionJoin, Loose, Action
  <2>2. Becomes(Action, AddLast(Action, c), ActionSide \union {c})
    BY <1>0, <2>1, AddLastBecomes
  <2> QED
    BY <1>0, <1>4, <2>2, ActionBecomes DEF ActionJoin
<1>5. CASE ActionLeave
  <2>1. Becomes(Action, RemoveFirst(Action), ActionSide \ {Action.head})
    BY <1>0, RemoveFirstBecomes
  <2> QED
    BY <1>0, <1>5, <2>1, ActionBecomes DEF ActionLeave
<1> QED
  BY <1>1, <1>2, <1>3, <1>4, <1>5 DEF QueueStep

\* Who leaves the com queue as it is puts nobody on its side.
LEMMA SameComQueue ==
  ASSUME LinkInv, QueueStep, com_queue' = com_queue
  PROVE  ComSide' \subseteq ComSide
<1>1. ASSUME NEW c \in Node, ComJoin(c)
      PROVE  FALSE
  <2>1. com_queue'.tail = c
    BY <1>1 DEF ComJoin, SetCom, AddLast
  <2>2. com_queue.tail \in ComSide \union {NULL}
    BY LinkFields DEF LinkInv, SideInv
  <2> QED
    BY <1>1, <2>1, <2>2, NullIsNoNode DEF ComJoin
<1> QED
  BY <1>1 DEF QueueStep, Idle, ComLeave, ActionJoin, ActionLeave

(***************************************************************************)
(* The fields of the clients.                                              *)
(***************************************************************************)

\* What concerns neither a client nor its call, its place in the pool or its worker.
LEMMA ServedSame ==
  ASSUME NEW c \in Node, ServedOk(c), client'[c] = client[c], call'[c] = call[c],
         c \in client_pool => c \in client_pool',
         client[c].current_phase = "EXECUTING" /\ (\E w \in Workers : job[w] = c)
           => \E w \in Workers : job'[w] = c
  PROVE  ServedOk(c)'
BY DEF ServedOk

LEMMA ServedCleared ==
  ASSUME NEW c \in Node, client'[c] = Cleared, c \in client_pool'
  PROVE  ServedOk(c)'
BY DEF ServedOk, Cleared

LEMMA AcceptServed ==
  ASSUME ~OsMayFail, IInv, \A c \in Node : ServedOk(c), AcceptConnection
  PROVE  \A c \in Node : ServedOk(c)'
<1>0. client \in [Node -> NetClient]
  BY DEF IInv, TypeOK
<1>1. PICK c \in client_pool :
        /\ client_pool' = client_pool \ {c}
        /\ client' = [client EXCEPT ![c] =
             [ClearClient(client[c]) EXCEPT !.open = TRUE, !.io_state = "READ"]]
  BY DEF AcceptConnection
<1>2. c \in Node /\ UNCHANGED <<call, job>>
  BY DEF IInv, TypeOK, AcceptConnection
<1>3. client'[c] = [Cleared EXCEPT !.open = TRUE, !.io_state = "READ"]
  BY <1>0, <1>1, <1>2 DEF ClearClient
<1>4. ServedOk(c)'
  BY <1>3 DEF ServedOk, Cleared
<1>5. \A m \in Node \ {c} : ServedOk(m)'
  BY <1>1, <1>2, ServedSame
<1> QED
  BY <1>4, <1>5

LEMMA IoServed ==
  ASSUME IInv, \A m \in Node : ServedOk(m), NEW c \in Node,
         \/ IoSkip(c) \/ IoClose(c) \/ ReceivePart(c) \/ ReceiveMessage(c)
         \/ SendThenReceive(c) \/ SendThenClose(c)
  PROVE  \A m \in Node : ServedOk(m)'
<1>0. /\ TypeOK /\ client \in [Node -> NetClient] /\ client[c] \in NetClient
      /\ call \in [Node -> Call]
  BY DEF IInv, TypeOK
<1>1. /\ \A m \in Node \ {c} : client'[m] = client[m] /\ call'[m] = call[m]
      /\ client_pool \subseteq client_pool' /\ job' = job
  BY <1>0, ReleaseGrows
  DEF IoSkip, IoClose, ReceivePart, ReceiveMessage, SendThenReceive, SendThenClose,
      CloseConnection, ReleaseClient
<1>2. \A m \in Node \ {c} : ServedOk(m)'
  BY <1>1, ServedSame
<1>3. ServedOk(c)'
  <2>1. CASE IoSkip(c)
    BY <1>1, <2>1, ServedSame DEF IoSkip
  <2>2. CASE IoClose(c) \/ SendThenClose(c)
    BY <1>0, <2>2, ReleaseSides, ServedCleared DEF IoClose, SendThenClose, CloseConnection
  <2>3. CASE ReceivePart(c)
    <3>1. client'[c] = [[client[c] EXCEPT !.io_offset = client[c].io_offset + 1]
                          EXCEPT !.msg = peer[c].req]
      BY <1>0, <2>3 DEF ReceivePart, Received
    <3>2. /\ client'[c].next_phase = client[c].next_phase
          /\ client'[c].current_phase = client[c].current_phase
          /\ client'[c].io_state = client[c].io_state /\ client'[c].open = client[c].open
      BY <1>0, <3>1 DEF NetClient
    <3> QED BY <1>1, <2>3, <3>2 DEF ReceivePart, ServedOk
  <2>4. CASE ReceiveMessage(c)
    <3>1. client'[c] = [Received(c) EXCEPT !.current_phase = "PENDING", !.io_state = "NOOP"]
      BY <1>0, <2>4 DEF ReceiveMessage
    <3>2. /\ client'[c].next_phase = "PENDING" /\ client'[c].current_phase = "PENDING"
          /\ client'[c].open = client[c].open
      BY <1>0, <2>4, <3>1 DEF Received, NetClient, ReceiveMessage
    <3> QED BY <1>1, <2>4, <3>2 DEF ReceiveMessage, ServedOk
  <2>5. CASE SendThenReceive(c)
    <3>1. /\ client'[c].next_phase = "PENDING" /\ client'[c].current_phase = "RECV"
          /\ client'[c].io_state = "READ" /\ client'[c].open = client[c].open
      BY <1>0, <2>5 DEF SendThenReceive, NetClient
    <3> QED BY <1>1, <2>5, <3>1 DEF SendThenReceive, ServedOk
  <2> QED BY <2>1, <2>2, <2>3, <2>4, <2>5
<1> QED
  BY <1>2, <1>3

LEMMA WorkerServed ==
  ASSUME IInv, CallInv, \A m \in Node : ServedOk(m), ~signal_flag,
         NEW w \in Workers, WorkerServes(w)
  PROVE  \A m \in Node : ServedOk(m)'
<1>0. /\ TypeOK /\ client \in [Node -> NetClient] /\ call \in [Node -> Call]
      /\ wpc \in [Workers -> WorkerPc] /\ job \in [Workers -> NodeOrNull]
  BY DEF IInv, TypeOK
<1>1. CASE TakeJob(w) /\ Action.head # NULL /\ job[w] = NULL /\ call' = call
  <2>1. PICK c \in Node : c = Action.head
    BY <1>0, <1>1, ComType DEF List, NodeOrNull
  <2>2. /\ client' = [client EXCEPT ![c] = [client[c] EXCEPT !.current_phase = "EXECUTING"]]
        /\ client_pool' = client_pool /\ job' = [job EXCEPT ![w] = c]
    BY <1>0, <1>1, <2>1 DEF TakeJob
  <2>3. client[c] \in NetClient
    BY <1>0
  <2>4. /\ client'[c].next_phase = client[c].next_phase
        /\ client'[c].current_phase = "EXECUTING"
        /\ client'[c].io_state = client[c].io_state /\ client'[c].open = client[c].open
    BY <1>0, <2>2, <2>3 DEF NetClient
  <2>5. ServedOk(c)'
    BY <1>0, <1>1, <2>2, <2>4 DEF ServedOk
  <2>6. ASSUME NEW m \in Node \ {c}
        PROVE  ServedOk(m)'
    <3>1. (\E v \in Workers : job[v] = m) => \E v \in Workers : job'[v] = m
      BY <1>0, <1>1, <2>2, NullIsNoNode
    <3> QED BY <1>1, <2>2, <3>1, ServedSame
  <2> QED BY <2>5, <2>6
<1>2. CASE UNCHANGED <<poolVars, call, job>>
  BY <1>2, ServedSame
<1>3. CASE ExecuteEcho(w) \/ FenceCall(w) \/ FenceReturn(w)
  <2>1. PICK c \in Node : c = job[w]
    BY <1>0, <1>3 DEF ExecuteEcho, FenceCall, FenceReturn, IInv, WorkerInv, Busy, NodeOrNull
  <2>2. client[c] \in NetClient
    BY <1>0
  <2>3. /\ \A m \in Node \ {c} : client'[m] = client[m] /\ call'[m] = call[m]
        /\ UNCHANGED <<client_pool, job>>
    BY <1>0, <1>3, <2>1 DEF ExecuteEcho, FenceCall, FenceReturn
  <2>4. CASE ExecuteEcho(w)
    <3>1. client'[c] = ToWrite(c, "ECHO_REPLY", "RECV")
      BY <1>0, <2>1, <2>4 DEF ExecuteEcho
    <3>2. /\ client'[c].next_phase = "RECV" /\ client'[c].current_phase = "SEND"
          /\ client'[c].io_state = "WRITE" /\ client'[c].open = client[c].open
      BY <2>2, <3>1 DEF ToWrite, NetClient
    <3> QED BY <2>3, <3>2, ServedSame DEF ServedOk
  <2>5. CASE FenceCall(w)
    <3>1. /\ client'[c] = [Parsed(c) EXCEPT !.nodename = ParsedName(c)]
          /\ call[c] = NoCall
      BY <1>0, <2>1, <2>5, ToExecute DEF FenceCall
    <3>2. /\ client'[c].next_phase = client[c].next_phase
          /\ client'[c].current_phase = client[c].current_phase
          /\ client'[c].io_state = client[c].io_state /\ client'[c].open = client[c].open
      BY <2>2, <3>1 DEF Parsed, NetClient
    <3>3. client[c].next_phase # "CANCELED"
      BY <3>1 DEF ServedOk, NoCall
    <3> QED BY <2>3, <3>2, <3>3, ServedSame DEF ServedOk
  <2>6. CASE FenceReturn(w)
    <3>1. PICK ok \in BOOLEAN :
            /\ call' = [call EXCEPT ![c].state = IF ok THEN "succeeded" ELSE "failed"]
            /\ client'[c] = ToWrite(c, IF ok THEN "FENCE_SUCCESS" ELSE "FENCE_FAIL", "CANCELED")
      BY <1>0, <2>1, <2>6 DEF FenceReturn
    <3>2. /\ client'[c].next_phase = "CANCELED" /\ client'[c].current_phase = "SEND"
          /\ client'[c].io_state = "WRITE" /\ client'[c].open = client[c].open
      BY <2>2, <3>1 DEF ToWrite, NetClient
    <3>3. call'[c].state \in {"succeeded", "failed"}
      BY <1>0, <3>1 DEF Call
    <3> QED BY <2>3, <3>2, <3>3, ServedSame DEF ServedOk
  <2> QED BY <1>3, <2>4, <2>5, <2>6
<1>4. CASE RouteClient(w)
  <2>1. PICK c \in Node : c = job[w]
    BY <1>0, <1>4 DEF RouteClient, IInv, WorkerInv, Busy, NodeOrNull
  <2>2. /\ UNCHANGED <<client, client_pool, call>> /\ job' = [job EXCEPT ![w] = NULL]
        /\ client[c].current_phase = "SEND"
    BY <1>4, <2>1 DEF RouteClient, IInv, WorkerInv
  <2>3. ASSUME NEW m \in Node
        PROVE  ServedOk(m)'
    <3>1. client[m].current_phase = "EXECUTING" => m # c
      BY <2>2
    <3>2. m # c /\ (\E v \in Workers : job[v] = m) => \E v \in Workers : job'[v] = m
      BY <1>0, <2>1, <2>2
    <3> QED BY <2>2, <3>1, <3>2, ServedSame
  <2> QED BY <2>3
<1> QED
  BY <1>1, <1>2, <1>3, <1>4
  DEF WorkerServes, WorkerEnter, WorkerRelock, IInv, WorkerInv, Busy

LEMMA PeerServed ==
  ASSUME IInv, CallInv, \A m \in Node : ServedOk(m), PeerActs
  PROVE  \A m \in Node : ServedOk(m)'
<1>1. UNCHANGED <<client, client_pool, job>>
  BY DEF PeerActs, PeerConnects, PeerSends, PeerHangsUp
<1>2. CASE call' = call
  BY <1>1, <1>2, ServedSame
<1>3. ASSUME NEW c \in Node, PeerSends(c)
      PROVE  \A m \in Node : ServedOk(m)'
  <2>1. /\ \A m \in Node \ {c} : call'[m] = call[m]
        /\ peer[c].req = NoRequest
    BY <1>3 DEF PeerSends, IInv, TypeOK
  <2>2. client[c].current_phase = "RECV"
    BY <2>1 DEF IInv, RecvInv, RecvOk
  <2>3. client[c].next_phase # "CANCELED"
    BY <2>2 DEF CallInv, CallOk, ServedOk
  <2>4. ServedOk(c)'
    BY <1>1, <2>3 DEF ServedOk
  <2> QED
    BY <1>1, <2>1, <2>4, ServedSame
<1> QED
  BY <1>2, <1>3 DEF PeerActs, PeerConnects, PeerHangsUp

(***************************************************************************)
(* Serving is preserved.                                                   *)
(***************************************************************************)

\* The sets are built from the clients of the com side, all of whom wait for I/O.
LEMMA SetsComplete ==
  ASSUME IInv, Serving, BuildFdSets
  PROVE  ComSide' \subseteq read_fd_set' \union write_fd_set'
<1>1. ComSide' = ComSide
  BY SidesUnchanged DEF BuildFdSets
<1>2. ASSUME NEW c \in ComSide
      PROVE  c \in read_fd_set' \union write_fd_set'
  <2>1. /\ c \in Node /\ c \notin client_pool /\ c \in Members(Com)
        /\ client[c].current_phase \in {"RECV", "SEND"}
    BY DEF Serving, ListsInv, ComSide, Waits
  <2>2. client[c].open /\ client[c].io_state \in {"READ", "WRITE"}
    BY <2>1 DEF Serving, ServedOk
  <2> QED
    BY <2>1, <2>2 DEF BuildFdSets, Waiting
<1> QED
  BY <1>1, <1>2

LEMMA SelectorServing ==
  ASSUME ~OsMayFail, IInv, IInv', Serving, ~signal_flag, SelectorServes
  PROVE  Serving'
<1>1. Selector
  BY DEF SelectorServes, Selector
<1>2. ListsInv'
  <2>1. QueueStep
    BY <1>1, SelectorLinks DEF Serving, Loop
  <2> QED
    BY <2>1, QueueStepLists DEF IInv, Serving
<1>3. /\ pc' \in Loop \union {"init"}
      /\ pc' \in Loop => selector_trigger' # "closed"
      /\ ~BuildFdSets => pc' # "select"
  <2>1. CASE SelectorInit \/ DrainTrigger
    BY <2>1 DEF SelectorInit, DrainTrigger, Loop
  <2>2. CASE \/ SelectorCheck \/ Select \/ AcceptConnection \/ IoBegin \/ IoEnd \/ Handoff
    <3>1. pc' \in Loop \ {"select"} /\ pc \in Loop /\ selector_trigger' = selector_trigger
      BY <2>2
      DEF SelectorCheck, Select, AfterAccept, AcceptConnection, IoBegin, IoEnd, Handoff, Loop
    <3> QED BY <3>1 DEF Serving
  <2>3. CASE BuildFdSets
    BY <2>3 DEF BuildFdSets, Loop, Serving
  <2>4. CASE IoStep
    <3>1. pc' \in {"io", "handoff"} /\ pc = "io" /\ selector_trigger' = selector_trigger
      BY <2>4
      DEF IoStep, IoSkip, IoClose, ReceivePart, ReceiveMessage, SendThenReceive,
          SendThenClose, AtClient
    <3>2. pc' \in Loop /\ pc \in Loop /\ pc' # "select"
      BY <3>1 DEF Loop
    <3> QED BY <3>1, <3>2 DEF Serving
  <2> QED BY <2>1, <2>2, <2>3, <2>4 DEF SelectorServes
<1>4. SelectedInv'
  BY <1>3, SetsComplete DEF SelectedInv
<1>5. \A c \in Node : ServedOk(c)'
  <2>0. \A c \in Node : ServedOk(c)
    BY DEF Serving
  <2>1. CASE AcceptConnection
    BY <2>0, <2>1, AcceptServed
  <2>2. CASE IoStep
    BY <2>0, <2>2, IoServed DEF IoStep
  <2>3. CASE ~AcceptConnection /\ ~IoStep
    <3>1. UNCHANGED <<client, client_pool, call, job>>
      BY <2>3
      DEF SelectorServes, SelectorInit, SelectorCheck, BuildFdSets, Select, DrainTrigger,
          IoBegin, IoEnd, Handoff
    <3> QED BY <2>0, <3>1, ServedSame
  <2> QED BY <2>1, <2>2, <2>3
<1> QED
  BY <1>2, <1>3, <1>4, <1>5 DEF Serving

LEMMA WorkerServing ==
  ASSUME IInv, IInv', CallInv, Serving, ~signal_flag, NEW w \in Workers, WorkerServes(w)
  PROVE  Serving'
<1>1. QueueStep
  <2>1. Worker(w)
    BY DEF WorkerServes, Worker
  <2>2. wpc[w] \notin {"close", "close_head", "close_tail"}
    BY DEF WorkerServes, WorkerEnter, WorkerRelock, ExecuteEcho, FenceCall, FenceReturn,
           RouteClient
  <2> QED BY <2>1, <2>2, WorkerLinks
<1>2. ListsInv'
  BY <1>1, QueueStepLists DEF IInv, Serving
<1>3. UNCHANGED <<pc, read_fd_set, write_fd_set>>
  BY DEF WorkerServes, WorkerEnter, WorkerRelock, ExecuteEcho, FenceCall, FenceReturn,
         RouteClient
<1>4. /\ selector_trigger' = "closed" => selector_trigger = "closed"
      /\ SelectedInv'
  <2>1. CASE RouteClient(w)
    <3>1. selector_trigger' = Trigger
      BY <2>1 DEF RouteClient, WakeupSelector
    <3> QED
      BY <1>3, <3>1 DEF Trigger, Serving, Loop, SelectedInv
  <2>2. CASE ~RouteClient(w)
    <3>1. com_queue' = com_queue /\ selector_trigger' = selector_trigger
      BY <2>2
      DEF WorkerServes, WorkerEnter, WorkerRelock, TakeJob, SetAction, ExecuteEcho,
          FenceCall, FenceReturn
    <3>2. ComSide' \subseteq ComSide
      BY <1>1, <3>1, SameComQueue DEF IInv
    <3> QED
      BY <1>3, <3>1, <3>2 DEF Serving, SelectedInv
  <2> QED BY <2>1, <2>2
<1>5. \A c \in Node : ServedOk(c)'
  BY WorkerServed DEF Serving
<1> QED
  BY <1>2, <1>3, <1>4, <1>5 DEF Serving

LEMMA QuietServing ==
  ASSUME IInv, IInv', CallInv, Serving,
         PeerActs \/ (\E w \in Workers : SpuriousWakeup(w)) \/ UNCHANGED vars
  PROVE  Serving'
<1>1. UNCHANGED <<queueVars, client, client_pool, held, job, pc, selector_trigger,
                  read_fd_set, write_fd_set>>
  BY DEF PeerActs, PeerConnects, PeerSends, PeerHangsUp, SpuriousWakeup, vars
<1>2. ComSide' = ComSide /\ ActionSide' = ActionSide
  BY <1>1, SidesUnchanged
<1>3. ListsInv'
  BY <1>1, <1>2, QueueStepLists DEF QueueStep, Idle, IInv, Serving
<1>4. \A c \in Node : ServedOk(c)'
  <2>1. CASE PeerActs
    BY <2>1, PeerServed DEF Serving
  <2>2. CASE call' = call
    BY <1>1, <2>2, ServedSame DEF Serving
  <2> QED BY <2>1, <2>2 DEF SpuriousWakeup, vars
<1> QED
  BY <1>1, <1>2, <1>3, <1>4 DEF Serving, SelectedInv

\* Nothing takes the stop signal back.
LEMMA SignalStays ==
  ASSUME signal_flag, Next
  PROVE  signal_flag'
<1>1. CASE Selector
  <2>1. CASE \/ SelectorInit \/ SelectorCheck \/ BuildFdSets \/ Select
             \/ AcceptConnection \/ DrainTrigger \/ IoBegin \/ IoEnd \/ Handoff
    BY <2>1
    DEF SelectorInit, SelectorCheck, BuildFdSets, Select, AcceptConnection, DrainTrigger,
        IoBegin, IoEnd, Handoff
  <2>2. CASE IoStep
    BY <2>2
    DEF IoStep, IoSkip, IoClose, ReceivePart, ReceiveMessage, SendThenReceive, SendThenClose
  <2>3. CASE \/ CleanupBegin \/ CleanupActionClose \/ CleanupActionClosed
             \/ CleanupActionEnd \/ CleanupComBegin \/ CleanupComClose \/ CleanupComEnd
             \/ StopThreads \/ JoinThreads
    BY <2>3
    DEF CleanupBegin, CleanupActionClose, CleanupActionClosed, CleanupActionEnd,
        CleanupComBegin, CleanupComClose, CleanupComEnd, StopThreads, JoinThreads
  <2> QED BY <1>1, <2>1, <2>2, <2>3 DEF Selector
<1>2. ASSUME NEW w \in Workers, Worker(w)
      PROVE  signal_flag'
  BY <1>2
  DEF Worker, WorkerEnter, WorkerRelock, ExecuteEcho, FenceCall, FenceReturn,
      ExecuteRejected, ExecuteThrows, UnownedCheck, UnownedWait, RouteClient, RejectClose,
      RejectClosed
<1>3. CASE Environment
  BY <1>3
  DEF Environment, StopSignal, PeerConnects, SelectFails, SpuriousWakeup, PeerSends,
      PeerHangsUp, BrokenPipe
<1> QED
  BY <1>1, <1>2, <1>3 DEF Next, vars

LEMMA NextServes ==
  ASSUME Answered, ~OsMayFail, IInv, CallInv, ListenInv, ServeInv, [Next]_vars
  PROVE  ServeInv'
<1> SUFFICES ASSUME ~signal_flag' PROVE Serving'
  BY DEF ServeInv
<1>1. IInv'
  BY NextIInv
<1>2. CASE UNCHANGED vars
  BY <1>1, <1>2, QuietServing DEF ServeInv, vars
<1>3. CASE Next
  <2>1. ~signal_flag
    BY <1>3, SignalStays DEF vars
  <2>2. Serving
    BY <2>1 DEF ServeInv
  <2>3. ~StopSignal
    BY DEF StopSignal
  <2>4. \/ SelectorServes \/ PeerActs \/ UNCHANGED vars
        \/ \E w \in Workers : WorkerServes(w) \/ SpuriousWakeup(w)
    BY <1>3, <2>1, <2>2, <2>3, ServingSteps DEF ServeInv
  <2>5. CASE SelectorServes
    BY <1>1, <2>1, <2>2, <2>5, SelectorServing
  <2>6. CASE \E w \in Workers : WorkerServes(w)
    BY <1>1, <2>1, <2>2, <2>6, WorkerServing
  <2> QED
    BY <1>1, <2>2, <2>4, <2>5, <2>6, QuietServing
<1> QED
  BY <1>2, <1>3

LEMMA InitServes == Init => ServeInv
<1> SUFFICES ASSUME Init PROVE Serving
  BY DEF ServeInv
<1>1. /\ Com.head = NULL /\ Com.tail = NULL /\ Action.head = NULL /\ Action.tail = NULL
      /\ ComSide = {} /\ ActionSide = {}
  BY LinkFields DEF Init, NoEnds, ComSide, ActionSide, Waits
<1>2. Members(Com) = {} /\ Members(Action) = {}
  <2>1. ClosedUnderNext(Com, {}) /\ ClosedUnderNext(Action, {})
    BY <1>1 DEF ClosedUnderNext
  <2> QED BY <2>1, MembersLeast
<1>3. ListsInv
  BY <1>1, <1>2 DEF ListsInv, Chain
<1>4. \A c \in Node : ServedOk(c)
  BY DEF Init, ServedOk, Cleared
<1> QED
  BY <1>3, <1>4 DEF Init, Serving, Loop, SelectedInv

LEMMA ServeHolds == ASSUME Answered, ~OsMayFail PROVE Spec => []ServeInv
<1>1. IInv /\ CallInv /\ ListenInv /\ ServeInv /\ [Next]_vars => ServeInv'
  BY NextServes
<1> QED
  BY <1>1, InitServes, Invariance, CallsHold, ListenHolds, PTL DEF Spec

-----------------------------------------------------------------------------
\* Who is in nobody's hands and on no queue of the workers is on the com side.
LEMMA InServiceWaits ==
  ASSUME IInv, Serving
  PROVE  InService \subseteq ComSide
<1> SUFFICES ASSUME NEW c \in InService PROVE c \in ComSide
  OBVIOUS
<1>1. c \in Node /\ c \notin client_pool /\ ~InHands(c) /\ c \notin ActionSide
  BY NullIsNoNode DEF InService, Jobs, Held, InHands, Serving, ListsInv
<1>2. client[c].current_phase \notin {"CANCELED", "EXECUTING"}
  BY <1>1 DEF Serving, ServedOk, InHands
<1>3. client[c].current_phase \in Phase
  BY <1>1 DEF IInv, TypeOK, NetClient
<1> QED
  BY <1>1, <1>2, <1>3 DEF Phase, ComSide, ActionSide, Waits

\* While the selector is in select() every client that waits for I/O is in one of its
\* sets, or the byte that wakes it is in the pipe: a worker that puts a client back is
\* never too late (ServerConnector.cpp:153, 278-287).
THEOREM ActiveClientsWatched ==
  Answered /\ ~OsMayFail => (Spec => []ActiveClientsSelected)
<1> SUFFICES ASSUME Answered, ~OsMayFail PROVE Spec => []ActiveClientsSelected
  OBVIOUS
<1>1. IInv /\ ServeInv => ActiveClientsSelected
  BY InServiceWaits DEF ServeInv, Serving, SelectedInv, ActiveClientsSelected
<1> QED
  BY <1>1, Invariance, ServeHolds, PTL

\* A step that closes the connection of a peer that has not hung up comes after the
\* plugin's verdict, and sends it.
ClosesAfterReply ==
  \A c \in Node : client[c].open /\ ~client'[c].open /\ ~peer[c].gone /\ ~signal_flag =>
    /\ call[c].state \in {"succeeded", "failed"}
    /\ client[c].io_state = "WRITE"

LEMMA NextCloses ==
  ASSUME Answered, ~OsMayFail, IInv, CallInv, ListenInv, ServeInv, [Next]_vars
  PROVE  ClosesAfterReply
<1> SUFFICES ASSUME NEW c \in Node, client[c].open, ~client'[c].open, ~peer[c].gone,
                    ~signal_flag
             PROVE  /\ call[c].state \in {"succeeded", "failed"}
                    /\ client[c].io_state = "WRITE"
  BY DEF ClosesAfterReply
<1>0. /\ Serving /\ client \in [Node -> NetClient] /\ client[c] \in NetClient
      /\ ServedOk(c)
  BY DEF ServeInv, Serving, IInv, TypeOK
<1>1. CASE client' = client
  BY <1>1
<1>2. CASE AcceptConnection
  <2>1. PICK m \in client_pool :
          client' = [client EXCEPT ![m] =
                       [ClearClient(client[m]) EXCEPT !.open = TRUE, !.io_state = "READ"]]
    BY <1>2 DEF AcceptConnection
  <2>2. client[m] = Cleared
    BY <2>1 DEF IInv, PoolInv
  <2> QED
    BY <1>0, <2>1, <2>2 DEF Cleared
<1>3. CASE IoStep
  <2>1. PICK m \in Node : \/ IoSkip(m) \/ IoClose(m) \/ ReceivePart(m) \/ ReceiveMessage(m)
                          \/ SendThenReceive(m) \/ SendThenClose(m)
    BY <1>3 DEF IoStep
  <2>2. CASE IoSkip(m) \/ ReceivePart(m) \/ ReceiveMessage(m) \/ SendThenReceive(m)
    <3>1. m = c
      BY <1>0, <2>2 DEF IoSkip, ReceivePart, ReceiveMessage, SendThenReceive
    <3>2. CASE ReceivePart(c)
      <4>1. client'[c] = [[client[c] EXCEPT !.io_offset = client[c].io_offset + 1]
                            EXCEPT !.msg = peer[c].req]
        BY <1>0, <3>2 DEF ReceivePart, Received
      <4> QED BY <1>0, <4>1 DEF NetClient
    <3>3. CASE ReceiveMessage(c)
      <4>1. client'[c] = [Received(c) EXCEPT !.current_phase = "PENDING", !.io_state = "NOOP"]
        BY <1>0, <3>3 DEF ReceiveMessage
      <4> QED BY <1>0, <4>1 DEF Received, NetClient
    <3>4. CASE SendThenReceive(c)
      BY <1>0, <3>4 DEF SendThenReceive, NetClient
    <3> QED BY <1>0, <2>2, <3>1, <3>2, <3>3, <3>4 DEF IoSkip
  <2>3. CASE IoClose(m) \/ SendThenClose(m)
    <3>1. m = c
      BY <1>0, <2>3 DEF IoClose, SendThenClose, CloseConnection, ReleaseClient
    <3>2. client[c].next_phase = "CANCELED"
      BY <1>0, <2>3, <3>1
      DEF IoClose, SendThenClose, RecvFails, SendFails, Canceled, ServedOk
    <3> QED
      BY <1>0, <3>2 DEF ServedOk
  <2> QED BY <2>1, <2>2, <2>3
<1>4. ASSUME NEW w \in Workers, WorkerServes(w)
      PROVE  client'[c].open
  <2>1. CASE UNCHANGED client
    BY <2>1
  <2>2. CASE TakeJob(w) /\ Action.head # NULL
    <3>1. PICK m \in Node : m = Action.head
      BY <1>0, <2>2, ComType DEF List, NodeOrNull, IInv
    <3>2. client' = [client EXCEPT ![m] = [client[m] EXCEPT !.current_phase = "EXECUTING"]]
      BY <2>2, <3>1 DEF TakeJob
    <3> QED BY <1>0, <3>2 DEF NetClient
  <2>3. CASE ExecuteEcho(w)
    <3>1. PICK m : client' = [client EXCEPT ![m] = ToWrite(m, "ECHO_REPLY", "RECV")]
      BY <2>3 DEF ExecuteEcho
    <3> QED BY <1>0, <3>1 DEF ToWrite, NetClient
  <2>4. CASE FenceCall(w)
    <3>1. PICK m : client' = [client EXCEPT ![m] = [Parsed(m) EXCEPT !.nodename = ParsedName(m)]]
      BY <2>4 DEF FenceCall
    <3> QED BY <1>0, <3>1 DEF Parsed, NetClient
  <2>5. CASE FenceReturn(w)
    <3>1. PICK m, type : client' = [client EXCEPT ![m] = ToWrite(m, type, "CANCELED")]
      BY <2>5 DEF FenceReturn
    <3> QED BY <1>0, <3>1 DEF ToWrite, NetClient
  <2> QED
    BY <1>0, <1>4, <2>1, <2>2, <2>3, <2>4, <2>5
    DEF WorkerServes, WorkerEnter, WorkerRelock, RouteClient
<1> QED
  BY <1>0, <1>1, <1>2, <1>3, <1>4, ServingSteps
  DEF SelectorServes, SelectorInit, SelectorCheck, BuildFdSets, Select, DrainTrigger,
      IoBegin, IoEnd, Handoff, PeerActs, PeerConnects, PeerSends, PeerHangsUp, StopSignal,
      SpuriousWakeup, vars

\* Until the stop signal the server closes no connection before its peer hung up or the
\* plugin's verdict has been sent (ServerConnector.cpp:238-250, 589-591).
THEOREM ClosesAfterVerdict ==
  Answered /\ ~OsMayFail => (Spec => ClosedAfterReply)
<1> SUFFICES ASSUME Answered, ~OsMayFail PROVE Spec => ClosedAfterReply
  OBVIOUS
<1>1. IInv /\ CallInv /\ ListenInv /\ ServeInv /\ [Next]_vars => [ClosesAfterReply]_vars
  BY NextCloses
<1> QED
  BY <1>1, Invariance, CallsHold, ListenHolds, ServeHolds, PTL
  DEF Spec, ClosedAfterReply, ClosesAfterReply
=============================================================================
