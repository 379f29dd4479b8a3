----------------------- MODULE ServerConnector_proofs -----------------------
(***************************************************************************)
(* Proofs about ServerConnector.tla, for any number of clients, workers,   *)
(* connections and requests: types, and the exclusive ownership of the     *)
(* NetClient objects.                                                      *)
(***************************************************************************)
EXTENDS ServerConnector, Queue_proofs

-----------------------------------------------------------------------------
(***************************************************************************)
(* The inductive invariant.  Every object is on one side: the com side     *)
(* (objects that wait for I/O, whether or not the com queue still reaches  *)
(* them), the action side (objects that wait for a worker), or neither     *)
(* (free, in the hands of a thread, or forgotten by a worker).  The links  *)
(* and ends of each list stay on its own side and the links of the objects *)
(* on neither side are null: that survives the steps that corrupt the com  *)
(* queue, since all they do to it is to set its ends to null.              *)
(***************************************************************************)
InHands(c) == held = c \/ \E w \in Workers : job[w] = c

Waits(c) == c \notin client_pool /\ ~InHands(c)

ComSide == {c \in Node : Waits(c) /\ client[c].current_phase \in {"RECV", "SEND"}}

ActionSide == {c \in Node : Waits(c) /\ client[c].current_phase = "PENDING"}

LinkInv ==
  /\ SideInv(Com, ComSide)
  /\ SideInv(Action, ActionSide)
  /\ Mirrored(links)
  /\ Ranked(links)
  /\ \A c \in Node \ (ComSide \union ActionSide) : Loose(links, c)

Busy == {"execute", "plugin", "route", "close", "close_head", "close_tail"}

WorkerInv ==
  /\ \A w \in Workers : wpc[w] \in Busy <=> job[w] # NULL
  /\ \A w \in Workers : job[w] \notin client_pool
  /\ \A v, w \in Workers : job[v] = job[w] /\ job[v] # NULL => v = w
  /\ \A w \in Workers : wpc[w] \in {"execute", "plugin"} =>
                          client[job[w]].current_phase = "EXECUTING"
  /\ \A w \in Workers : wpc[w] = "route" => client[job[w]].current_phase = "SEND"

SelectorInv ==
  /\ held # NULL <=> pc \in {"handoff", "cleanup_head", "cleanup_tail"}
  /\ held \notin client_pool
  /\ held # NULL => \A w \in Workers : job[w] # held
  /\ pc = "handoff" => client[held].current_phase = "PENDING"
  /\ cursor # NULL => cursor \in ComSide /\ pc \in {"io", "handoff"}
  /\ pc = "accept" => backlog > 0

\* A client n with the peer p: what the server has not read of the request
\* completes what it has read, and a peer that waits for nothing is being listened
\* to; a client goes back to receiving only after it has sent.
RecvOk(n, p) ==
  /\ p.avail > 0 => /\ n.current_phase = "RECV"
                    /\ n.io_offset + p.avail = Parts(p.req)
                    /\ p.req # NoRequest
  /\ p.req = NoRequest => n.current_phase = "RECV" /\ n.io_offset = 0
  /\ n.next_phase = "RECV" => n.current_phase = "SEND"

RecvInv == \A c \in Node : RecvOk(client[c], peer[c])

\* A free object is cleared and has no connection.
PoolInv == \A c \in client_pool : client[c] = Cleared /\ peer[c] = NoPeer

IInv == TypeOK /\ LinkInv /\ WorkerInv /\ SelectorInv /\ RecvInv /\ PoolInv

-----------------------------------------------------------------------------
(***************************************************************************)
(* Types.                                                                  *)
(***************************************************************************)

LEMMA ComType ==
  ASSUME TypeOK
  PROVE  Com \in List /\ Action \in List
BY DEF TypeOK, Com, Action, Ends, Links, List

LEMMA SetComType ==
  ASSUME TypeOK, NEW l \in List, SetCom(l)
  PROVE  com_queue' \in Ends /\ action_queue' \in Ends /\ links' \in Links
BY DEF TypeOK, SetCom, Ends, Links, List

LEMMA SetActionType ==
  ASSUME TypeOK, NEW l \in List, SetAction(l)
  PROVE  com_queue' \in Ends /\ action_queue' \in Ends /\ links' \in Links
BY DEF TypeOK, SetAction, Ends, Links, List

LEMMA ClearedType == Cleared \in NetClient /\ NoPeer \in Peer /\ NoCall \in Call
BY DEF Cleared, NetClient, Phase, IoOp, NoPeer, Peer, NoCall, Call

LEMMA PartsType == \A r : Parts(r) \in 1 .. 2
BY DEF Parts

LEMMA ReleaseType ==
  ASSUME TypeOK, NEW c \in Node, ReleaseClient(c)
  PROVE  /\ client' \in [Node -> NetClient] /\ client_pool' \in SUBSET Node
         /\ peer' \in [Node -> Peer] /\ call' \in [Node -> Call]
         /\ backlog' \in Nat /\ connects' \in Nat
BY ClearedType DEF TypeOK, ReleaseClient, ClearClient

LEMMA CloseType ==
  ASSUME TypeOK, NEW c \in Node, CloseConnection(c)
  PROVE  com_queue' \in Ends /\ action_queue' \in Ends /\ links' \in Links
BY ComType, RemoveType, SetComType DEF CloseConnection

MsgType == Requests \union {NoRequest} \union Reply

LEMMA NetClientType ==
  NetClient = [open : BOOLEAN, current_phase : Phase, next_phase : Phase,
               io_state : IoOp, io_offset : 0 .. 2, msg : MsgType,
               nodename : Nodenames \union {NoName}]
BY Zenon DEF NetClient, MsgType

\* The fields of an object can be set one by one.
LEMMA SetFields ==
  ASSUME NEW r \in NetClient
  PROVE  /\ \A m \in MsgType : [r EXCEPT !.msg = m] \in NetClient
         /\ \A p \in Phase : [r EXCEPT !.current_phase = p] \in NetClient
         /\ \A p \in Phase : [r EXCEPT !.next_phase = p] \in NetClient
         /\ \A i \in IoOp : [r EXCEPT !.io_state = i] \in NetClient
         /\ \A k \in 0 .. 2 : [r EXCEPT !.io_offset = k] \in NetClient
         /\ \A n \in Nodenames \union {NoName} : [r EXCEPT !.nodename = n] \in NetClient
BY NetClientType

LEMMA OpenField ==
  ASSUME NEW r \in NetClient, NEW b \in BOOLEAN
  PROVE  [r EXCEPT !.open = b] \in NetClient
BY NetClientType

\* Changing one entry of a function by node keeps its type.
LEMMA EntryType ==
  ASSUME NEW T, NEW f \in [Node -> T], NEW c \in Node, NEW v \in T
  PROVE  [f EXCEPT ![c] = v] \in [Node -> T]
OBVIOUS

LEMMA ToWriteType ==
  ASSUME TypeOK, NEW c \in Node, NEW n \in {"RECV", "CANCELED"},
         NEW t \in {"ECHO_REPLY", "FENCE_SUCCESS", "FENCE_FAIL"}
  PROVE  ToWrite(c, t, n) \in NetClient
<1> DEFINE m  == [type |-> t, body |-> NoName]
           r1 == [client[c] EXCEPT !.msg = m]
           r2 == [r1 EXCEPT !.current_phase = "SEND"]
           r3 == [r2 EXCEPT !.next_phase = n]
           r4 == [r3 EXCEPT !.io_state = "WRITE"]
           r5 == [r4 EXCEPT !.io_offset = 0]
<1>1. client[c] \in NetClient
  BY DEF TypeOK
<1>2. m \in MsgType
  BY DEF Reply, MsgType
<1>3. ToWrite(c, t, n) = r5
  BY DEF ToWrite
<1> HIDE DEF m
<1>4. r1 \in NetClient
  BY <1>1, <1>2, SetFields
<1> HIDE DEF r1
<1>5. r2 \in NetClient
  BY <1>4, SetFields DEF Phase
<1> HIDE DEF r2
<1>6. r3 \in NetClient
  BY <1>5, SetFields DEF Phase
<1> HIDE DEF r3
<1>7. r4 \in NetClient
  BY <1>6, SetFields DEF IoOp
<1> HIDE DEF r4
<1>8. r5 \in NetClient
  <2>1. 0 \in 0 .. 2
    OBVIOUS
  <2>2. QED
    BY <1>7, <2>1, SetFields, Zenon
<1>9. QED
  BY <1>3, <1>8

LEMMA ParsedType ==
  ASSUME TypeOK, NEW c \in Node
  PROVE  Parsed(c) \in NetClient
<1> DEFINE r1 == [client[c] EXCEPT !.io_offset = 0]
<1>1. r1 \in NetClient
  <2>1. 0 \in 0 .. 2 /\ client[c] \in NetClient
    BY DEF TypeOK
  <2>2. QED
    BY <2>1, SetFields, Zenon
<1>2. NoRequest \in MsgType
  BY DEF MsgType
<1>3. Parsed(c) = [r1 EXCEPT !.msg = NoRequest]
  BY DEF Parsed
<1> HIDE DEF r1
<1>4. QED
  BY <1>1, <1>2, <1>3, SetFields

LEMMA ReceivedType ==
  ASSUME TypeOK, NEW c \in Node, client[c].io_offset < 2
  PROVE  Received(c) \in NetClient
<1> DEFINE k  == client[c].io_offset + 1
           m  == peer[c].req
           r1 == [client[c] EXCEPT !.io_offset = k]
<1>1. client[c] \in NetClient /\ m \in MsgType
  BY DEF TypeOK, Peer, MsgType
<1>2. k \in 0 .. 2
  BY <1>1 DEF NetClient
<1>3. Received(c) = [r1 EXCEPT !.msg = m]
  BY DEF Received
<1> HIDE DEF k, m
<1>4. r1 \in NetClient
  BY <1>1, <1>2, SetFields
<1> HIDE DEF r1
<1>5. QED
  BY <1>1, <1>3, <1>4, SetFields

LEMMA NotifyType ==
  ASSUME TypeOK, NotifyOne \/ NotifyAll
  PROVE  wpc' \in [Workers -> WorkerPc]
<1>0. wpc \in [Workers -> WorkerPc] /\ "enter" \in WorkerPc
  BY DEF TypeOK, WorkerPc
<1>1. CASE NotifyOne
  BY <1>0, <1>1 DEF NotifyOne
<1>2. CASE NotifyAll
  BY <1>0, <1>2 DEF NotifyAll
<1>3. QED
  BY <1>1, <1>2

LEMMA FaultsBoolean == \A l : RemoveFirstFaults(l) \in BOOLEAN
BY DEF RemoveFirstFaults

LEMMA SelectorType ==
  ASSUME IInv, Selector
  PROVE  TypeOK'
<1> USE DEF queueVars, poolVars, lockVars, signalVars, selVars, workerVars, envVars
<1>0. TypeOK /\ Com \in List /\ Action \in List
  BY ComType DEF IInv
<1>1. CASE SelectorInit
  BY <1>0, <1>1, ZenonT(30) DEF TypeOK, SelectorInit, SelectorPc
<1>2. CASE SelectorCheck
  BY <1>0, <1>2 DEF TypeOK, SelectorCheck, SelectorPc
<1>3. CASE BuildFdSets
  BY <1>0, <1>3 DEF TypeOK, BuildFdSets, SelectorPc, Waiting, Members, ListenerFds
<1>4. CASE Select
  BY <1>0, <1>4 DEF TypeOK, Select, SelectorPc, ReadyToRead, AfterAccept
<1>5. CASE AcceptConnection
  <2>1. PICK c \in client_pool, ok \in BOOLEAN :
          /\ client_pool' = client_pool \ {c}
          /\ client' = [client EXCEPT ![c] =
               [ClearClient(client[c]) EXCEPT !.open = ok, !.io_state = "READ"]]
          /\ SetCom(AddLast(Com, c))
    BY <1>5 DEF AcceptConnection
  <2>2. c \in Node
    BY <1>0 DEF TypeOK
  <2>3. com_queue' \in Ends /\ action_queue' \in Ends /\ links' \in Links
    BY <1>0, <2>1, <2>2, AddLastType, SetComType
  <2>4. client' \in [Node -> NetClient]
    BY <1>0, <2>1, ClearedType DEF TypeOK, ClearClient, NetClient, IoOp
  <2>5. backlog' \in Nat
    BY <1>5 DEF AcceptConnection, IInv, SelectorInv, TypeOK
  <2>6. QED
    BY <1>0, <1>5, <2>1, <2>3, <2>4, <2>5
    DEF TypeOK, AcceptConnection, SelectorPc, AfterAccept
<1>6. CASE DrainTrigger
  BY <1>0, <1>6 DEF TypeOK, DrainTrigger, SelectorPc
<1>7. CASE IoBegin
  BY <1>0, <1>7 DEF TypeOK, IoBegin, SelectorPc, Ends
<1>8. CASE IoStep
  <2> SUFFICES ASSUME NEW c \in Node, \/ IoSkip(c) \/ IoClose(c)
                                      \/ ReceivePart(c) \/ ReceiveMessage(c)
                                      \/ SendThenReceive(c) \/ SendThenClose(c)
               PROVE  TypeOK'
    BY <1>8 DEF IoStep
  <2>0. /\ AtClient(c) => cursor' \in NodeOrNull
        /\ client[c] \in NetClient /\ peer[c] \in Peer
    BY <1>0 DEF AtClient, TypeOK, Links
  <2>1. CASE IoSkip(c)
    BY <1>0, <2>0, <2>1 DEF TypeOK, IoSkip
  <2>2. CASE IoClose(c)
    BY <1>0, <2>0, <2>2, CloseType, ReleaseType DEF TypeOK, IoClose, CloseConnection
  <2>3. CASE ReceivePart(c)
    <3>0. client[c].io_offset < 2
      BY <2>0, <2>3, PartsType DEF ReceivePart, RecvComplete, NetClient
    <3>1. Received(c) \in NetClient
      BY <1>0, <3>0, ReceivedType
    <3>2. peer' \in [Node -> Peer]
      BY <1>0, <2>0, <2>3 DEF ReceivePart, PartRead, TypeOK, Peer
    <3>3. QED
      BY <1>0, <2>0, <2>3, <3>1, <3>2 DEF TypeOK, ReceivePart
  <2>4. CASE ReceiveMessage(c)
    <3> DEFINE r1 == [Received(c) EXCEPT !.current_phase = "PENDING"]
               r2 == [r1 EXCEPT !.io_state = "NOOP"]
    <3>0. client[c].io_offset < 2
      BY <2>0, <2>4, PartsType DEF ReceiveMessage, NetClient, Peer, IInv, RecvInv, RecvOk
    <3>01. r1 \in NetClient
      BY <1>0, <3>0, ReceivedType, SetFields DEF Phase
    <3>02. client' = [client EXCEPT ![c] = r2]
      BY <2>4 DEF ReceiveMessage
    <3> HIDE DEF r1
    <3>1. r2 \in NetClient
      BY <3>01, SetFields DEF IoOp
    <3> HIDE DEF r2
    <3>2. peer' \in [Node -> Peer]
      <4>1. peer \in [Node -> Peer] /\ peer[c] \in Peer
        BY <1>0, <2>0 DEF TypeOK
      <4>2. peer' = [peer EXCEPT ![c] = [peer[c] EXCEPT !.avail = peer[c].avail - 1]]
        BY <2>4, <4>1 DEF ReceiveMessage, PartRead
      <4>3. [peer[c] EXCEPT !.avail = peer[c].avail - 1] \in Peer
        BY <2>0, <2>4, <4>1, PartsType DEF ReceiveMessage, Peer
      <4>4. QED BY <2>0, <4>1, <4>2, <4>3, EntryType
    <3>3. com_queue' \in Ends /\ action_queue' \in Ends /\ links' \in Links
      BY <1>0, <2>4, RemoveType, SetComType DEF ReceiveMessage, LeaveCom
    <3>4. QED
      BY ZenonT(30), <1>0, <2>0, <2>4, <3>02, <3>1, <3>2, <3>3
      DEF TypeOK, ReceiveMessage, SelectorPc, NodeOrNull
  <2>5. CASE SendThenReceive(c)
    <3>1. client' \in [Node -> NetClient]
      BY <1>0, <2>0, <2>5 DEF SendThenReceive, TypeOK, NetClient, Phase, IoOp
    <3>2. peer' \in [Node -> Peer]
      BY <1>0, <2>0, <2>5 DEF SendThenReceive, ReplySent, TypeOK, Peer
    <3>3. QED
      BY <1>0, <2>0, <2>5, <3>1, <3>2 DEF TypeOK, SendThenReceive
  <2>6. CASE SendThenClose(c)
    BY <1>0, <2>0, <2>6, CloseType, ReleaseType DEF TypeOK, SendThenClose, CloseConnection
  <2>7. QED
    BY <2>1, <2>2, <2>3, <2>4, <2>5, <2>6
<1>9. CASE IoEnd
  BY <1>0, <1>9 DEF TypeOK, IoEnd, SelectorPc
<1>10. CASE Handoff
  <2>1. held \in Node
    BY <1>0, <1>10 DEF Handoff, IInv, SelectorInv, TypeOK, NodeOrNull
  <2>2. com_queue' \in Ends /\ action_queue' \in Ends /\ links' \in Links
    BY <1>0, <1>10, <2>1, AddLastType, SetActionType DEF Handoff
  <2>3. wpc' \in [Workers -> WorkerPc]
    BY <1>0, <1>10, NotifyType DEF Handoff
  <2>4. QED
    BY <1>0, <1>10, <2>2, <2>3 DEF TypeOK, Handoff, SelectorPc, NodeOrNull
<1>11. CASE CleanupBegin
  BY <1>0, <1>11 DEF TypeOK, CleanupBegin, SelectorPc
<1>12. CASE CleanupActionClose
  <2> DEFINE l == RemoveFirst(Action)
             c == Action.head
             u(s) == Unlink([Com EXCEPT !.next = l.next, !.prev = l.prev], c, s)
  <2>1. c \in Node
    BY <1>0, <1>12 DEF CleanupActionClose, List, NodeOrNull
  <2>2. PICK s \in Side :
          /\ action_queue' = [head |-> l.head, tail |-> l.tail]
          /\ com_queue' = [head |-> u(s).head, tail |-> u(s).tail]
          /\ links' = [next |-> u(s).next, prev |-> u(s).prev]
          /\ client' = [client EXCEPT ![c].open = FALSE]
          /\ held' = c
          /\ pc' = IF s = "head" THEN "cleanup_tail" ELSE "cleanup_head"
    BY <1>12 DEF CleanupActionClose
  <2>3. l \in List
    BY <1>0, RemoveFirstType
  <2>4. [Com EXCEPT !.next = l.next, !.prev = l.prev] \in List
    BY <1>0, <2>3 DEF List
  <2>5. u(s) \in List
    BY <2>1, <2>4, UnlinkHeadType, UnlinkTailType DEF Unlink
  <2>6. com_queue' \in Ends /\ action_queue' \in Ends /\ links' \in Links
    BY <2>2, <2>3, <2>5 DEF List, Ends, Links
  <2>7. client' \in [Node -> NetClient]
    <3>1. client \in [Node -> NetClient] /\ client[c] \in NetClient
      BY <1>0, <2>1 DEF TypeOK
    <3>2. [client[c] EXCEPT !.open = FALSE] \in NetClient
      BY <3>1, OpenField
    <3>3. client' = [client EXCEPT ![c] = [client[c] EXCEPT !.open = FALSE]]
      BY <2>2, <3>1
    <3>4. QED BY <2>1, <3>1, <3>2, <3>3, EntryType
  <2>8. QED
    BY <1>0, <1>12, <2>1, <2>2, <2>6, <2>7, FaultsBoolean
    DEF TypeOK, CleanupActionClose, SelectorPc, NodeOrNull
<1>13. CASE CleanupActionClosed
  <2>1. held \in Node
    BY <1>0, <1>13 DEF CleanupActionClosed, IInv, SelectorInv, TypeOK, NodeOrNull
  <2>2. PICK s \in Side : UnlockedCloseEnd(held, s)
    BY <1>13 DEF CleanupActionClosed, Side
  <2>3. Detach(Unlink(Com, held, s), held) \in List
    BY <1>0, <2>1, UnlinkHeadType, UnlinkTailType, DetachType DEF Unlink
  <2>4. QED
    BY <1>0, <1>13, <2>1, <2>2, <2>3, SetComType, ReleaseType
    DEF TypeOK, CleanupActionClosed, UnlockedCloseEnd, SelectorPc, NodeOrNull
<1>14. CASE CleanupActionEnd
  BY <1>0, <1>14 DEF TypeOK, CleanupActionEnd, SelectorPc
<1>15. CASE CleanupComBegin
  BY <1>0, <1>15 DEF TypeOK, CleanupComBegin, SelectorPc, DisableWakeupFd
<1>16. CASE CleanupComClose
  <2>1. Com.head \in Node
    BY <1>0, <1>16 DEF CleanupComClose, List, NodeOrNull
  <2>2. Remove(RemoveFirst(Com), Com.head) \in List
    BY <1>0, <2>1, RemoveFirstType, RemoveType
  <2>3. QED
    BY <1>0, <1>16, <2>1, <2>2, SetComType, ReleaseType, FaultsBoolean
    DEF TypeOK, CleanupComClose
<1>17. CASE CleanupComEnd
  BY <1>0, <1>17 DEF TypeOK, CleanupComEnd, SelectorPc
<1>18. CASE StopThreads
  BY <1>0, <1>18, NotifyType DEF TypeOK, StopThreads, SelectorPc
<1>19. CASE JoinThreads
  BY <1>0, <1>19 DEF TypeOK, JoinThreads, SelectorPc
<1>20. QED
  BY <1>1, <1>2, <1>3, <1>4, <1>5, <1>6, <1>7, <1>8, <1>9, <1>10, <1>11, <1>12,
     <1>13, <1>14, <1>15, <1>16, <1>17, <1>18, <1>19
  DEF Selector

LEMMA TakeJobType ==
  ASSUME TypeOK, NEW w \in Workers, TakeJob(w), Action.head # NULL
  PROVE  /\ com_queue' \in Ends /\ action_queue' \in Ends /\ links' \in Links
         /\ job' \in [Workers -> NodeOrNull] /\ wpc' \in [Workers -> WorkerPc]
         /\ client' \in [Node -> NetClient] /\ client_pool' \in SUBSET Node
         /\ crashed' \in BOOLEAN
<1>1. Com \in List /\ Action \in List
  BY ComType
<1>2. Action.head \in Node
  BY <1>1 DEF List, NodeOrNull
<1>3. RemoveFirst(Action) \in List
  BY <1>1, RemoveFirstType
<1>4. client' \in [Node -> NetClient]
  <2>1. client \in [Node -> NetClient] /\ client[Action.head] \in NetClient
    BY <1>2 DEF TypeOK
  <2>2. [client[Action.head] EXCEPT !.current_phase = "EXECUTING"] \in NetClient
    BY <2>1, SetFields DEF Phase
  <2>3. client' = [client EXCEPT ![Action.head] =
                     [client[Action.head] EXCEPT !.current_phase = "EXECUTING"]]
    BY <2>1 DEF TakeJob
  <2>4. QED BY <1>2, <2>1, <2>2, <2>3, EntryType
<1>5. QED
  BY <1>2, <1>3, <1>4, SetActionType, FaultsBoolean
  DEF TakeJob, TypeOK, NodeOrNull, WorkerPc

LEMMA WorkerType ==
  ASSUME IInv, NEW w \in Workers, Worker(w)
  PROVE  TypeOK'
<1> USE DEF queueVars, poolVars, lockVars, signalVars, selVars, workerVars, envVars
<1>0. TypeOK /\ Com \in List /\ Action \in List
  BY ComType DEF IInv
<1>1. wpc[w] \in Busy => job[w] \in Node
  BY <1>0 DEF IInv, WorkerInv, TypeOK, NodeOrNull
<1>2. job[w] \in Node => client[job[w]] \in NetClient
  BY <1>0 DEF TypeOK
<1>3. CASE WorkerEnter(w)
  <2>1. CASE ~stop_workers /\ Action.head # NULL
    BY <1>0, <1>3, <2>1, TakeJobType DEF TypeOK, WorkerEnter
  <2>2. CASE stop_workers \/ Action.head = NULL
    BY <1>0, <1>3, <2>2 DEF TypeOK, WorkerEnter, WorkerPc
  <2>3. QED
    BY <2>1, <2>2
<1>4. CASE WorkerRelock(w)
  <2>1. CASE Action.head # NULL
    BY <1>0, <1>4, <2>1, TakeJobType DEF TypeOK, WorkerRelock
  <2>2. CASE Action.head = NULL
    BY <1>0, <1>4, <2>2 DEF TypeOK, WorkerRelock, WorkerPc
  <2>3. QED
    BY <2>1, <2>2
<1>5. CASE ExecuteEcho(w)
  BY <1>0, <1>1, <1>5, ToWriteType DEF TypeOK, ExecuteEcho, WorkerPc, Busy
<1>6. CASE FenceCall(w)
  <2>1. job[w] \in Node
    BY <1>1, <1>6 DEF FenceCall, Busy
  <2>2. ParsedName(job[w]) \in Nodenames \union {NoName}
    BY <1>2, <2>1 DEF ParsedName, NetClient
  <2>3. client' \in [Node -> NetClient]
    <3>1. [Parsed(job[w]) EXCEPT !.nodename = ParsedName(job[w])] \in NetClient
      BY <1>0, <2>1, <2>2, ParsedType, SetFields
    <3>2. QED
      BY <1>0, <1>6, <3>1 DEF TypeOK, FenceCall
  <2>4. call' \in [Node -> Call]
    BY <1>0, <1>6, <2>1, <2>2 DEF TypeOK, FenceCall, Call
  <2>5. QED
    BY <1>0, <1>6, <2>3, <2>4 DEF TypeOK, FenceCall, WorkerPc
<1>7. CASE FenceReturn(w)
  <2>1. job[w] \in Node
    BY <1>1, <1>7 DEF FenceReturn, Busy
  <2>2. client' \in [Node -> NetClient]
    BY <1>0, <1>7, <2>1, ToWriteType DEF TypeOK, FenceReturn
  <2>3. call' \in [Node -> Call]
    BY <1>0, <1>7, <2>1 DEF TypeOK, FenceReturn, Call
  <2>4. QED
    BY <1>0, <1>7, <2>2, <2>3 DEF TypeOK, FenceReturn, WorkerPc
<1>8. CASE ExecuteRejected(w)
  <2>1. job[w] \in Node
    BY <1>1, <1>8 DEF ExecuteRejected, Busy
  <2>2. client' \in [Node -> NetClient]
    <3>1. [client[job[w]] EXCEPT !.current_phase = "CANCELED"] \in NetClient
      BY <1>2, <2>1, SetFields DEF Phase
    <3>2. Parsed(job[w]) \in NetClient
      BY <1>0, <2>1, ParsedType
    <3>3. QED
      BY <1>0, <1>8, <3>1, <3>2 DEF TypeOK, ExecuteRejected
  <2>3. QED
    BY <1>0, <1>8, <2>2 DEF TypeOK, ExecuteRejected, WorkerPc
<1>9. CASE ExecuteThrows(w)
  BY <1>0, <1>9 DEF TypeOK, ExecuteThrows, WorkerPc, NodeOrNull
<1>10. CASE UnownedCheck(w)
  BY <1>0, <1>10 DEF TypeOK, UnownedCheck, WorkerPc
<1>11. CASE UnownedWait(w)
  BY <1>0, <1>11 DEF TypeOK, UnownedWait, WorkerPc
<1>12. CASE RouteClient(w)
  <2>1. job[w] \in Node
    BY <1>1, <1>12 DEF RouteClient, Busy
  <2>2. CASE ~signal_flag
    <3>1. com_queue' \in Ends /\ action_queue' \in Ends /\ links' \in Links
      BY <1>0, <1>12, <2>1, <2>2, AddLastType, SetComType DEF RouteClient
    <3>2. QED
      BY <1>0, <1>12, <2>2, <3>1
      DEF TypeOK, RouteClient, WakeupSelector, Trigger, WorkerPc, NodeOrNull
  <2>3. CASE signal_flag
    BY <1>0, <1>12, <2>1, <2>3, CloseType, ReleaseType
    DEF TypeOK, RouteClient, CloseConnection, WorkerPc, NodeOrNull
  <2>4. QED
    BY <2>2, <2>3, <1>0 DEF TypeOK
<1>13. CASE RejectClose(w)
  <2>1. job[w] \in Node
    BY <1>1, <1>13 DEF RejectClose, Busy
  <2>2. PICK s \in Side : UnlockedCloseBegin(Com, job[w], s)
    BY <1>13 DEF RejectClose
  <2>3. Unlink(Com, job[w], s) \in List
    BY <1>0, <2>1, UnlinkHeadType, UnlinkTailType DEF Unlink
  <2>4. com_queue' \in Ends /\ action_queue' \in Ends /\ links' \in Links
    BY <1>0, <2>2, <2>3, SetComType DEF UnlockedCloseBegin
  <2>5. client' \in [Node -> NetClient] /\ client_pool' = client_pool
    <3>1. client \in [Node -> NetClient] /\ client[job[w]] \in NetClient
      BY <1>0, <2>1 DEF TypeOK
    <3>2. [client[job[w]] EXCEPT !.open = FALSE] \in NetClient
      BY <3>1, OpenField
    <3>3. /\ client' = [client EXCEPT ![job[w]] = [client[job[w]] EXCEPT !.open = FALSE]]
          /\ client_pool' = client_pool
      BY <2>2, <3>1 DEF UnlockedCloseBegin
    <3>4. QED BY <2>1, <3>1, <3>2, <3>3, EntryType
  <2>6. wpc' \in [Workers -> WorkerPc]
    BY <1>0, <1>13 DEF TypeOK, RejectClose, WorkerPc
  <2>7. QED
    BY <1>0, <1>13, <2>4, <2>5, <2>6 DEF TypeOK, RejectClose
<1>14. CASE RejectClosed(w)
  <2>1. job[w] \in Node
    BY <1>1, <1>14 DEF RejectClosed, Busy
  <2>2. PICK s \in Side : UnlockedCloseEnd(job[w], s)
    BY <1>14 DEF RejectClosed, Side
  <2>3. Detach(Unlink(Com, job[w], s), job[w]) \in List
    BY <1>0, <2>1, UnlinkHeadType, UnlinkTailType, DetachType DEF Unlink
  <2>4. QED
    BY <1>0, <1>14, <2>1, <2>2, <2>3, SetComType, ReleaseType
    DEF TypeOK, RejectClosed, UnlockedCloseEnd, WorkerPc, NodeOrNull
<1>15. QED
  BY <1>3, <1>4, <1>5, <1>6, <1>7, <1>8, <1>9, <1>10, <1>11, <1>12, <1>13, <1>14
  DEF Worker

LEMMA EnvironmentType ==
  ASSUME IInv, Environment
  PROVE  TypeOK'
<1> USE DEF queueVars, poolVars, lockVars, signalVars, selVars, workerVars, envVars
<1>0. TypeOK
  BY DEF IInv
<1>1. CASE StopSignal
  BY <1>0, <1>1 DEF TypeOK, StopSignal, Trigger
<1>2. CASE PeerConnects
  BY <1>0, <1>2 DEF TypeOK, PeerConnects
<1>3. CASE SelectFails
  BY <1>0, <1>3 DEF TypeOK, SelectFails, SelectorPc
<1>4. ASSUME NEW w \in Workers, SpuriousWakeup(w)
      PROVE  TypeOK'
  BY <1>0, <1>4 DEF TypeOK, SpuriousWakeup, WorkerPc
<1>5. ASSUME NEW c \in Node, PeerSends(c)
      PROVE  TypeOK'
  <2>1. PICK r \in Requests :
          peer' = [peer EXCEPT ![c] = [req |-> r, avail |-> Parts(r), gone |-> FALSE]]
    BY <1>5 DEF PeerSends
  <2>2. peer' \in [Node -> Peer]
    BY <1>0, <2>1, PartsType DEF TypeOK, Peer
  <2>3. call' \in [Node -> Call]
    BY <1>0, <1>5, ClearedType DEF TypeOK, PeerSends
  <2>4. QED
    BY <1>0, <1>5, <2>2, <2>3 DEF TypeOK, PeerSends
<1>6. ASSUME NEW c \in Node, PeerHangsUp(c)
      PROVE  TypeOK'
  <2>1. peer \in [Node -> Peer] /\ peer[c] \in Peer
    BY <1>0, <1>6 DEF TypeOK
  <2>2. [peer[c] EXCEPT !.gone = TRUE] \in Peer
    BY <2>1 DEF Peer
  <2>3. peer' = [peer EXCEPT ![c] = [peer[c] EXCEPT !.gone = TRUE]]
    BY <1>6, <2>1 DEF PeerHangsUp
  <2>4. peer' \in [Node -> Peer]
    BY <1>6, <2>1, <2>2, <2>3, EntryType
  <2>5. QED
    BY <1>0, <1>6, <2>4 DEF TypeOK, PeerHangsUp
<1>7. ASSUME NEW c \in Node, BrokenPipe(c)
      PROVE  TypeOK'
  BY <1>0, <1>7 DEF TypeOK, BrokenPipe
<1>8. QED
  BY <1>1, <1>2, <1>3, <1>4, <1>5, <1>6, <1>7 DEF Environment
-----------------------------------------------------------------------------
(***************************************************************************)
(* The links of the two lists.                                             *)
(***************************************************************************)

\* SideInv depends on the ends and on the links of its own side only.
LEMMA SideFrame ==
  ASSUME NEW S, NEW l, NEW r, SideInv(l, S), r.head = l.head, r.tail = l.tail,
         \A n \in S : SameLinks(r, l, n)
  PROVE  SideInv(r, S)
BY DEF SideInv, SameLinks

\* Cutting an end of a list off.
LEMMA SideCut ==
  ASSUME NEW S, NEW l, NEW r, SideInv(l, S), r.head \in {l.head, NULL},
         r.tail \in {l.tail, NULL}, r.next = l.next, r.prev = l.prev
  PROVE  SideInv(r, S)
BY DEF SideInv

LEMMA LinkFields ==
  /\ Com.head = com_queue.head /\ Com.tail = com_queue.tail
  /\ Action.head = action_queue.head /\ Action.tail = action_queue.tail
  /\ Com.next = links.next /\ Com.prev = links.prev
  /\ Action.next = links.next /\ Action.prev = links.prev
  /\ \A c \in Node : Loose(Com, c) <=> Loose(links, c)
  /\ Mirrored(Com) <=> Mirrored(links)
  /\ Mirrored(Action) <=> Mirrored(links)
  /\ Ranked(Com) <=> Ranked(links)
  /\ Ranked(Action) <=> Ranked(links)
BY DEF Com, Action, Loose, Mirrored, Ranked

LEMMA SidesDisjoint ==
  /\ ComSide \in SUBSET Node /\ ActionSide \in SUBSET Node
  /\ ComSide \intersect ActionSide = {}
BY DEF ComSide, ActionSide

(***************************************************************************)
(* What the threads do to the two lists while nobody closes a connection   *)
(* without com_queue_lock: nothing, or one object joins or leaves one of   *)
(* them.                                                                   *)
(***************************************************************************)
Idle == UNCHANGED <<queueVars, ComSide, ActionSide>>

ComJoin(c) == /\ c \in Node \ (ComSide \union ActionSide)
              /\ SetCom(AddLast(Com, c))
              /\ ComSide' = ComSide \union {c} /\ ActionSide' = ActionSide

ComLeave(c) == /\ c \in ComSide
               /\ SetCom(Remove(Com, c))
               /\ ComSide' = ComSide \ {c} /\ ActionSide' = ActionSide

ActionJoin(c) == /\ c \in Node \ (ComSide \union ActionSide)
                 /\ SetAction(AddLast(Action, c))
                 /\ ComSide' = ComSide /\ ActionSide' = ActionSide \union {c}

ActionLeave == /\ Action.head # NULL
               /\ SetAction(RemoveFirst(Action))
               /\ ComSide' = ComSide /\ ActionSide' = ActionSide \ {Action.head}

QueueStep == \/ Idle \/ ActionLeave
             \/ \E c \in Node : ComJoin(c) \/ ComLeave(c) \/ ActionJoin(c)

\* A step that touches neither list nor who is on its side.
LEMMA LinksKept ==
  ASSUME LinkInv, UNCHANGED queueVars, ComSide' = ComSide, ActionSide' = ActionSide
  PROVE  LinkInv'
BY DEF LinkInv, queueVars, Com, Action, SideInv, Mirrored, Ranked, Loose

\* What a step must establish: l is the new list of its side, and the links of
\* the other side and of the objects on no side are as they were.
LEMMA ComStored ==
  ASSUME LinkInv, NEW l \in List, SetCom(l), SideInv(l, ComSide'), Mirrored(l),
         Ranked(l), ActionSide' = ActionSide,
         \A c \in ActionSide : SameLinks(l, links, c),
         \A c \in Node \ (ComSide' \union ActionSide) : Loose(l, c)
  PROVE  LinkInv'
<1>1. SideInv(Com, ComSide)'
  <2>1. Com' = l
    BY DEF SetCom, Com, List
  <2>2. QED
    BY <2>1 DEF SideInv
<1>2. SideInv(Action, ActionSide)'
  BY DEF LinkInv, SetCom, Action, SideInv, SameLinks
<1>3. Mirrored(links)' /\ Ranked(links)'
  BY DEF SetCom, Mirrored, Ranked
<1>4. \A c \in Node \ (ComSide' \union ActionSide') : Loose(links, c)'
  BY DEF SetCom, Loose
<1>5. QED
  BY <1>1, <1>2, <1>3, <1>4 DEF LinkInv

LEMMA ActionStored ==
  ASSUME LinkInv, NEW l \in List, SetAction(l), SideInv(l, ActionSide'), Mirrored(l),
         Ranked(l), ComSide' = ComSide,
         \A c \in ComSide : SameLinks(l, links, c),
         \A c \in Node \ (ComSide \union ActionSide') : Loose(l, c)
  PROVE  LinkInv'
<1>1. SideInv(Action, ActionSide)'
  <2>1. Action' = l
    BY DEF SetAction, Action, List
  <2>2. QED
    BY <2>1 DEF SideInv
<1>2. SideInv(Com, ComSide)'
  BY DEF LinkInv, SetAction, Com, SideInv, SameLinks
<1>3. Mirrored(links)' /\ Ranked(links)'
  BY DEF SetAction, Mirrored, Ranked
<1>4. \A c \in Node \ (ComSide' \union ActionSide') : Loose(links, c)'
  BY DEF SetAction, Loose
<1>5. QED
  BY <1>1, <1>2, <1>3, <1>4 DEF LinkInv

LEMMA ComJoins ==
  ASSUME TypeOK, LinkInv, NEW c, ComJoin(c)
  PROVE  LinkInv'
<1> USE DEF ComJoin
<1> DEFINE l == AddLast(Com, c)
<1>1. /\ Com \in List /\ SideInv(Com, ComSide) /\ Mirrored(Com) /\ Ranked(Com)
      /\ c \in Node \ ComSide /\ Loose(Com, c)
      /\ ComSide \in SUBSET Node
  BY ComType, LinkFields, SidesDisjoint DEF LinkInv
<1>2. l \in List
  BY <1>1, AddLastType
<1>3. /\ SideInv(l, ComSide \union {c}) /\ Mirrored(l)
      /\ \A m \in Node \ (ComSide \union {c}) : SameLinks(l, Com, m)
  BY <1>1, AddLastSide
<1>4. Ranked(l)
  BY <1>1, AddLastRanked
<1>5. \A m \in Node \ (ComSide \union {c}) : SameLinks(l, links, m)
  BY <1>3, LinkFields DEF SameLinks
<1>6. \A m \in ActionSide : SameLinks(l, links, m)
  BY <1>5, SidesDisjoint
<1>7. \A m \in Node \ (ComSide' \union ActionSide) : Loose(l, m)
  BY <1>5 DEF LinkInv, SameLinks, Loose
<1>8. QED
  BY <1>2, <1>3, <1>4, <1>6, <1>7, ComStored

LEMMA ActionJoins ==
  ASSUME TypeOK, LinkInv, NEW c, ActionJoin(c)
  PROVE  LinkInv'
<1> USE DEF ActionJoin
<1> DEFINE l == AddLast(Action, c)
<1>1. /\ Action \in List /\ SideInv(Action, ActionSide) /\ Mirrored(Action)
      /\ Ranked(Action) /\ c \in Node \ ActionSide /\ Loose(Action, c)
      /\ ActionSide \in SUBSET Node
  BY ComType, LinkFields, SidesDisjoint DEF LinkInv, Loose
<1>2. l \in List
  BY <1>1, AddLastType
<1>3. /\ SideInv(l, ActionSide \union {c}) /\ Mirrored(l)
      /\ \A m \in Node \ (ActionSide \union {c}) : SameLinks(l, Action, m)
  BY <1>1, AddLastSide
<1>4. Ranked(l)
  BY <1>1, AddLastRanked
<1>5. \A m \in Node \ (ActionSide \union {c}) : SameLinks(l, links, m)
  BY <1>3, LinkFields DEF SameLinks
<1>6. \A m \in ComSide : SameLinks(l, links, m)
  BY <1>5, SidesDisjoint
<1>7. \A m \in Node \ (ComSide \union ActionSide') : Loose(l, m)
  BY <1>5 DEF LinkInv, SameLinks, Loose
<1>8. QED
  BY <1>2, <1>3, <1>4, <1>6, <1>7, ActionStored

LEMMA ComLeaves ==
  ASSUME TypeOK, LinkInv, NEW c, ComLeave(c)
  PROVE  LinkInv'
<1> USE DEF ComLeave
<1> DEFINE l == Remove(Com, c)
<1>1. /\ Com \in List /\ SideInv(Com, ComSide) /\ Mirrored(Com) /\ Ranked(Com)
      /\ c \in Node /\ ComSide \in SUBSET Node
  BY ComType, LinkFields, SidesDisjoint DEF LinkInv
<1>2. l \in List
  BY <1>1, RemoveType
<1>3. /\ SideInv(l, ComSide \ {c}) /\ Mirrored(l) /\ Loose(l, c)
      /\ \A m \in Node \ ComSide : SameLinks(l, Com, m)
  BY <1>1, RemoveSide
<1>4. Ranked(l)
  BY <1>1, RemoveRanked
<1>5. \A m \in Node \ ComSide : SameLinks(l, links, m)
  BY <1>3, LinkFields DEF SameLinks
<1>6. \A m \in ActionSide : SameLinks(l, links, m)
  BY <1>5, SidesDisjoint
<1>7. \A m \in Node \ (ComSide' \union ActionSide) : Loose(l, m)
  BY <1>3, <1>5 DEF LinkInv, SameLinks, Loose
<1>8. QED
  BY <1>2, <1>3, <1>4, <1>6, <1>7, ComStored

LEMMA ActionLeaves ==
  ASSUME TypeOK, LinkInv, ActionLeave
  PROVE  LinkInv'
<1> USE DEF ActionLeave
<1> DEFINE l == RemoveFirst(Action)
<1>1. /\ Action \in List /\ SideInv(Action, ActionSide) /\ Mirrored(Action)
      /\ Ranked(Action) /\ ActionSide \in SUBSET Node
  BY ComType, LinkFields, SidesDisjoint DEF LinkInv
<1>2. l \in List
  BY <1>1, RemoveFirstType
<1>3. /\ SideInv(l, ActionSide \ {Action.head}) /\ Mirrored(l) /\ Loose(l, Action.head)
      /\ \A m \in Node \ ActionSide : SameLinks(l, Action, m)
  BY <1>1, RemoveFirstSide
<1>4. Ranked(l)
  BY <1>1, RemoveFirstRanked
<1>5. \A m \in Node \ ActionSide : SameLinks(l, links, m)
  BY <1>3, LinkFields DEF SameLinks
<1>6. \A m \in ComSide : SameLinks(l, links, m)
  BY <1>5, SidesDisjoint
<1>7. \A m \in Node \ (ComSide \union ActionSide') : Loose(l, m)
  BY <1>3, <1>5 DEF LinkInv, SameLinks, Loose
<1>8. QED
  BY <1>2, <1>3, <1>4, <1>6, <1>7, ActionStored

\* The links of a list from which an object on no side is "removed" stay as they
\* are; its ends stay or become null.
OnlyCut(r, l) == /\ r.head \in {l.head, NULL} /\ r.tail \in {l.tail, NULL}
                 /\ r.next = l.next /\ r.prev = l.prev

LEMMA LooseCut ==
  ASSUME NEW l \in List, NEW c \in Node, Loose(l, c)
  PROVE  /\ OnlyCut(Remove(l, c), l)
         /\ \A s \in Side : /\ OnlyCut(Unlink(l, c, s), l)
                            /\ OnlyCut(Detach(Unlink(l, c, s), c), l)
<1>1. /\ Store(l.next, c, NULL) = l.next
      /\ Store(l.prev, c, NULL) = l.prev
  BY DEF Store, List, Loose
<1>2. /\ UnlinkHead(l, c) = [l EXCEPT !.head = NULL]
      /\ UnlinkTail(l, c) = [l EXCEPT !.tail = NULL]
      /\ UnlinkTail(UnlinkHead(l, c), c) = [l EXCEPT !.head = NULL, !.tail = NULL]
  BY DEF UnlinkHead, UnlinkTail, List, Loose
<1>3. OnlyCut(Remove(l, c), l)
  BY <1>1, <1>2 DEF Remove, Detach, OnlyCut, List
<1>4. ASSUME NEW s \in Side
      PROVE  OnlyCut(Unlink(l, c, s), l) /\ OnlyCut(Detach(Unlink(l, c, s), c), l)
  BY <1>1, <1>2 DEF Unlink, Detach, OnlyCut, List
<1>5. QED
  BY <1>3, <1>4

LEMMA ComCut ==
  ASSUME TypeOK, LinkInv, NEW l \in List, SetCom(l), OnlyCut(l, Com),
         ComSide' = ComSide, ActionSide' = ActionSide
  PROVE  LinkInv'
<1>1. SideInv(l, ComSide)
  BY SideCut DEF LinkInv, OnlyCut
<1>2. l.next = links.next /\ l.prev = links.prev
  BY LinkFields DEF OnlyCut
<1>3. Mirrored(l) /\ Ranked(l)
  BY <1>2 DEF LinkInv, Mirrored, Ranked
<1>4. QED
  BY <1>1, <1>2, <1>3, ComStored DEF LinkInv, SameLinks, Loose

(***************************************************************************)
(* Who is on which side.                                                   *)
(***************************************************************************)

LEMMA SidesKept ==
  ASSUME \A c \in Node : \/ Waits(c)' /\ Waits(c)
                            /\ client'[c].current_phase = client[c].current_phase
                         \/ ~Waits(c)' /\ ~Waits(c)
  PROVE  ComSide' = ComSide /\ ActionSide' = ActionSide
BY DEF ComSide, ActionSide

LEMMA SidesUnchanged ==
  ASSUME UNCHANGED <<client_pool, client, held, job>>
  PROVE  ComSide' = ComSide /\ ActionSide' = ActionSide
BY DEF ComSide, ActionSide, Waits, InHands

Neutral == UNCHANGED <<com_queue, action_queue, links, client_pool, client, held, job>>

LEMMA NeutralLinks ==
  ASSUME LinkInv, Neutral
  PROVE  LinkInv' /\ QueueStep
BY SidesUnchanged, LinksKept DEF Neutral, queueVars, QueueStep, Idle

\* A step that only changes the fields of an object in a thread's hands.
LEMMA InHandsLinks ==
  ASSUME LinkInv, UNCHANGED <<queueVars, client_pool, held, job>>, NEW c \in Node,
         InHands(c), \A m \in Node \ {c} : client'[m] = client[m]
  PROVE  LinkInv' /\ QueueStep
<1>1. \A m \in Node : InHands(m)' <=> InHands(m)
  BY DEF InHands
<1>2. ComSide' = ComSide /\ ActionSide' = ActionSide
  BY <1>1, SidesKept DEF Waits
<1>3. QED
  BY <1>2, LinksKept DEF QueueStep, Idle

LEMMA OnNoSide ==
  ASSUME LinkInv, NEW c \in Node, ~Waits(c)
  PROVE  c \in Node \ (ComSide \union ActionSide) /\ Loose(links, c) /\ Loose(Com, c)
BY LinkFields DEF LinkInv, ComSide, ActionSide

\* What ReleaseClient does to the objects.
LEMMA ReleaseSides ==
  ASSUME TypeOK, NEW c \in Node, ReleaseClient(c)
  PROVE  /\ client_pool' = client_pool \union {c}
         /\ \A m \in Node \ {c} : client'[m] = client[m]
         /\ client'[c] = Cleared
BY DEF TypeOK, ReleaseClient, ClearClient

\* The selector closes the connection of a client of the com side.
LEMMA ReleaseFromCom ==
  ASSUME TypeOK, NEW c \in ComSide, ReleaseClient(c), UNCHANGED <<held, job>>
  PROVE  ComSide' = ComSide \ {c} /\ ActionSide' = ActionSide
<1>1. /\ c \in Node
      /\ client_pool' = client_pool \union {c}
      /\ \A m \in Node \ {c} : client'[m] = client[m]
  BY ReleaseSides DEF ComSide
<1>2. \A m \in Node : InHands(m)' <=> InHands(m)
  BY DEF InHands
<1>3. QED
  BY <1>1, <1>2, SidesDisjoint DEF ComSide, ActionSide, Waits

\* A thread gives an object it has in hands back to the pool.
LEMMA ReleaseFromHands ==
  ASSUME TypeOK, NEW c \in Node, ReleaseClient(c), InHands(c),
         \A m \in Node \ {c} : InHands(m)' <=> InHands(m)
  PROVE  ComSide' = ComSide /\ ActionSide' = ActionSide
<1>1. /\ client_pool' = client_pool \union {c}
      /\ \A m \in Node \ {c} : client'[m] = client[m]
  BY ReleaseSides
<1>2. QED
  BY <1>1, SidesKept DEF Waits

(***************************************************************************)
(* LinkInv is preserved.                                                   *)
(***************************************************************************)

LEMMA AcceptLinks ==
  ASSUME IInv, AcceptConnection
  PROVE  LinkInv' /\ QueueStep
<1>0. TypeOK /\ LinkInv
  BY DEF IInv
<1>1. PICK c \in client_pool, ok \in BOOLEAN :
        /\ client_pool' = client_pool \ {c}
        /\ client' = [client EXCEPT ![c] =
             [ClearClient(client[c]) EXCEPT !.open = ok, !.io_state = "READ"]]
        /\ SetCom(AddLast(Com, c))
  BY DEF AcceptConnection
<1>2. c \in Node /\ UNCHANGED <<held, job>>
  BY <1>0, <1>1 DEF TypeOK, AcceptConnection, workerVars
<1>3. /\ client'[c].current_phase = "RECV"
      /\ \A m \in Node \ {c} : client'[m] = client[m]
  BY <1>0, <1>1, <1>2 DEF TypeOK, ClearClient, Cleared
<1>4. ~InHands(c) /\ c \in Node \ (ComSide \union ActionSide)
  <2>1. ~InHands(c)
    BY <1>0, <1>1, <1>2 DEF IInv, SelectorInv, WorkerInv, InHands
  <2>2. ~Waits(c)
    BY <1>1 DEF Waits
  <2>3. QED
    BY <1>0, <1>2, <2>1, <2>2, OnNoSide
<1>5. ComSide' = ComSide \union {c} /\ ActionSide' = ActionSide
  BY <1>1, <1>2, <1>3, <1>4 DEF ComSide, ActionSide, Waits, InHands
<1>6. QED
  BY <1>0, <1>1, <1>4, <1>5, ComJoins DEF QueueStep, ComJoin

LEMMA IoLinks ==
  ASSUME IInv, NEW c \in Node,
         \/ IoSkip(c) \/ IoClose(c) \/ ReceivePart(c) \/ ReceiveMessage(c)
         \/ SendThenReceive(c) \/ SendThenClose(c)
  PROVE  LinkInv' /\ QueueStep
<1>0. TypeOK /\ LinkInv
  BY DEF IInv
<1>1. c \in ComSide /\ held = NULL
  BY NullIsNoNode
  DEF IoSkip, IoClose, ReceivePart, ReceiveMessage, SendThenReceive, SendThenClose,
      AtClient, IInv, SelectorInv
<1>2. CASE IoSkip(c)
  BY <1>0, <1>2, NeutralLinks DEF IoSkip, Neutral, queueVars, poolVars, workerVars
<1>3. CASE IoClose(c) \/ SendThenClose(c)
  <2>1. CloseConnection(c) /\ UNCHANGED <<held, job>>
    BY <1>3 DEF IoClose, SendThenClose, workerVars
  <2>2. ComSide' = ComSide \ {c} /\ ActionSide' = ActionSide
    BY <1>0, <1>1, <2>1, ReleaseFromCom DEF CloseConnection
  <2>3. QED
    BY <1>0, <1>1, <2>1, <2>2, ComLeaves DEF CloseConnection, QueueStep, ComLeave
<1>4. CASE ReceivePart(c) \/ SendThenReceive(c)
  <2>1. UNCHANGED <<queueVars, client_pool, held, job>>
    BY <1>4 DEF ReceivePart, SendThenReceive, workerVars
  <2>2. /\ \A m \in Node \ {c} : client'[m] = client[m]
        /\ client'[c].current_phase \in {client[c].current_phase, "RECV"}
    <3>1. client \in [Node -> NetClient]
      BY <1>0 DEF TypeOK
    <3>2. CASE ReceivePart(c)
      BY <3>1, <3>2 DEF ReceivePart, Received, NetClient
    <3>3. CASE SendThenReceive(c)
      BY <3>1, <3>3 DEF SendThenReceive, NetClient
    <3>4. QED
      BY <1>4, <3>2, <3>3
  <2>3. \A m \in Node : Waits(m)' <=> Waits(m)
    BY <2>1 DEF Waits, InHands
  <2>4. ComSide' = ComSide /\ ActionSide' = ActionSide
    BY <1>1, <2>2, <2>3 DEF ComSide, ActionSide
  <2>5. QED
    BY <1>0, <2>1, <2>4, LinksKept DEF QueueStep, Idle
<1>5. CASE ReceiveMessage(c)
  <2>1. /\ SetCom(Remove(Com, c))
        /\ client_pool' = client_pool /\ job' = job /\ held' = c
        /\ \A m \in Node \ {c} : client'[m] = client[m]
    BY <1>0, <1>5 DEF ReceiveMessage, LeaveCom, workerVars, TypeOK
  <2>2. ComSide' = ComSide \ {c} /\ ActionSide' = ActionSide
    <3>1. \A m \in Node \ {c} : Waits(m)' <=> Waits(m)
      BY <1>1, <2>1, NullIsNoNode DEF Waits, InHands
    <3>2. ~Waits(c)'
      BY <2>1 DEF Waits, InHands
    <3>3. QED
      BY <1>1, <2>1, <3>1, <3>2, SidesDisjoint DEF ComSide, ActionSide
  <2>3. QED
    BY <1>0, <1>1, <2>1, <2>2, ComLeaves DEF QueueStep, ComLeave
<1>6. QED
  BY <1>2, <1>3, <1>4, <1>5

LEMMA HandoffLinks ==
  ASSUME IInv, Handoff
  PROVE  LinkInv' /\ QueueStep
<1>0. TypeOK /\ LinkInv
  BY DEF IInv
<1>1. PICK c \in Node : held = c
  BY <1>0 DEF Handoff, IInv, SelectorInv, TypeOK, NodeOrNull
<1>2. /\ client[c].current_phase = "PENDING"
      /\ c \notin client_pool /\ \A w \in Workers : job[w] # c
  BY <1>0, <1>1, NullIsNoNode DEF Handoff, IInv, SelectorInv
<1>3. c \in Node \ (ComSide \union ActionSide)
  BY <1>1 DEF ComSide, ActionSide, Waits, InHands
<1>4. ComSide' = ComSide /\ ActionSide' = ActionSide \union {c}
  <2>1. client' = client /\ client_pool' = client_pool /\ job' = job /\ held' = NULL
    BY DEF Handoff, poolVars
  <2>2. Waits(c)' /\ ~Waits(c)
    BY <1>1, <1>2, <2>1, NullIsNoNode DEF Waits, InHands
  <2>3. \A m \in Node \ {c} : Waits(m)' <=> Waits(m)
    BY <1>1, <2>1, NullIsNoNode DEF Waits, InHands
  <2>4. QED
    BY <1>2, <2>1, <2>2, <2>3 DEF ComSide, ActionSide
<1>5. QED
  BY <1>0, <1>1, <1>3, <1>4, ActionJoins DEF Handoff, QueueStep, ActionJoin

LEMMA CleanupActionCloseLinks ==
  ASSUME IInv, CleanupActionClose
  PROVE  LinkInv'
<1>0. TypeOK /\ LinkInv /\ Com \in List /\ Action \in List
  BY ComType DEF IInv
<1>1. PICK c \in Node : c = Action.head
  BY <1>0 DEF CleanupActionClose, List, NodeOrNull
<1> DEFINE l == RemoveFirst(Action)
           k == [Com EXCEPT !.next = l.next, !.prev = l.prev]
<1>2. PICK s \in Side :
        /\ action_queue' = [head |-> l.head, tail |-> l.tail]
        /\ com_queue' = [head |-> Unlink(k, c, s).head, tail |-> Unlink(k, c, s).tail]
        /\ links' = [next |-> Unlink(k, c, s).next, prev |-> Unlink(k, c, s).prev]
        /\ client' = [client EXCEPT ![c].open = FALSE]
        /\ held' = c
  BY <1>1 DEF CleanupActionClose
<1>3. /\ l \in List /\ SideInv(l, ActionSide \ {c}) /\ Mirrored(l) /\ Ranked(l)
      /\ Loose(l, c) /\ \A m \in Node \ ActionSide : SameLinks(l, Action, m)
  <2>1. SideInv(Action, ActionSide) /\ Mirrored(Action) /\ Ranked(Action)
        /\ Action.head # NULL
    BY <1>0, <1>1, LinkFields, NullIsNoNode DEF LinkInv
  <2>2. QED
    BY <1>0, <1>1, <2>1, RemoveFirstType, RemoveFirstSide, RemoveFirstRanked, SidesDisjoint
<1>4. k \in List /\ k.next = l.next /\ k.prev = l.prev /\ Loose(k, c)
      /\ k.head = Com.head /\ k.tail = Com.tail
  BY <1>0, <1>3 DEF List, Loose
<1> HIDE DEF l, k
<1>5. OnlyCut(Unlink(k, c, s), k)
  BY <1>4, LooseCut
<1>6. links' = [next |-> l.next, prev |-> l.prev]
  BY <1>2, <1>4, <1>5 DEF OnlyCut
<1>7. ComSide' = ComSide /\ ActionSide' = ActionSide \ {c}
  <2>1. UNCHANGED <<client_pool, job>>
    BY DEF CleanupActionClose, workerVars
  <2>2. held = NULL /\ c \in ActionSide
    BY <1>0, <1>1, LinkFields, NullIsNoNode
    DEF IInv, SelectorInv, CleanupActionClose, LinkInv, SideInv
  <2>3. \A m \in Node \ {c} : Waits(m)' <=> Waits(m)
    BY <1>2, <2>1, <2>2, NullIsNoNode DEF Waits, InHands
  <2>4. ~Waits(c)'
    BY <1>2 DEF Waits, InHands
  <2>5. \A m \in Node \ {c} : client'[m] = client[m]
    BY <1>2
  <2>6. QED
    BY <2>2, <2>3, <2>4, <2>5, SidesDisjoint DEF ComSide, ActionSide
<1>8. SideInv(Com, ComSide)'
  <2>1. \A m \in ComSide : SameLinks(k, links, m)
    BY <1>3, <1>4, LinkFields, SidesDisjoint DEF SameLinks
  <2>2. SideInv(k, ComSide)
    BY <1>0, <1>4, <2>1, LinkFields DEF LinkInv, SideInv, SameLinks
  <2>3. SideInv(Unlink(k, c, s), ComSide)
    BY <1>5, <2>2, SideCut DEF OnlyCut
  <2>4. QED
    BY <1>2, <1>7, <2>3 DEF SideInv, Com
<1>9. SideInv(Action, ActionSide)'
  BY <1>2, <1>3, <1>6, <1>7 DEF SideInv, Action
<1>10. Mirrored(links)' /\ Ranked(links)'
  BY <1>3, <1>6 DEF Mirrored, Ranked
<1>11. \A m \in Node \ (ComSide' \union ActionSide') : Loose(links, m)'
  BY <1>0, <1>3, <1>6, <1>7, LinkFields DEF LinkInv, SameLinks, Loose
<1>12. QED
  BY <1>8, <1>9, <1>10, <1>11 DEF LinkInv

LEMMA CleanupActionClosedLinks ==
  ASSUME IInv, CleanupActionClosed
  PROVE  LinkInv'
<1>0. TypeOK /\ LinkInv /\ Com \in List
  BY ComType DEF IInv
<1>1. PICK c \in Node : held = c
  BY <1>0 DEF CleanupActionClosed, IInv, SelectorInv, TypeOK, NodeOrNull
<1>2. PICK s \in Side : UnlockedCloseEnd(c, s)
  BY <1>1 DEF CleanupActionClosed, Side
<1>3. InHands(c) /\ ~Waits(c)
  BY <1>1 DEF Waits, InHands
<1>4. \A m \in Node \ {c} : InHands(m)' <=> InHands(m)
  BY <1>1, NullIsNoNode DEF CleanupActionClosed, InHands, workerVars
<1>5. ComSide' = ComSide /\ ActionSide' = ActionSide
  BY <1>0, <1>2, <1>3, <1>4, ReleaseFromHands DEF UnlockedCloseEnd
<1>6. Loose(Com, c)
  BY <1>0, <1>3, OnNoSide
<1>7. Detach(Unlink(Com, c, s), c) \in List
  BY <1>0, UnlinkHeadType, UnlinkTailType, DetachType DEF Unlink
<1>8. OnlyCut(Detach(Unlink(Com, c, s), c), Com)
  BY <1>0, <1>6, LooseCut
<1>9. QED
  BY <1>0, <1>2, <1>5, <1>7, <1>8, ComCut DEF UnlockedCloseEnd

LEMMA CleanupComCloseLinks ==
  ASSUME IInv, CleanupComClose
  PROVE  LinkInv'
<1>0. TypeOK /\ LinkInv /\ Com \in List
  BY ComType DEF IInv
<1>1. PICK c \in Node : c = Com.head
  BY <1>0 DEF CleanupComClose, List, NodeOrNull
<1> DEFINE l == RemoveFirst(Com)
           r == Remove(l, c)
<1>2. c \in ComSide
  BY <1>0, <1>1, LinkFields, NullIsNoNode DEF LinkInv, SideInv
<1>3. SetCom(r) /\ ReleaseClient(c) /\ UNCHANGED <<held, job>>
  BY <1>1 DEF CleanupComClose, selVars, workerVars
<1>4. /\ l \in List /\ SideInv(l, ComSide \ {c}) /\ Mirrored(l) /\ Ranked(l)
      /\ Loose(l, c) /\ \A m \in Node \ ComSide : SameLinks(l, Com, m)
  <2>1. SideInv(Com, ComSide) /\ Mirrored(Com) /\ Ranked(Com) /\ Com.head # NULL
    BY <1>0, <1>1, LinkFields, NullIsNoNode DEF LinkInv
  <2>2. QED
    BY <1>0, <1>1, <2>1, RemoveFirstType, RemoveFirstSide, RemoveFirstRanked, SidesDisjoint
<1> HIDE DEF l
<1>5. r \in List /\ OnlyCut(r, l)
  BY <1>4, RemoveType, LooseCut
<1> HIDE DEF r
<1>6. SideInv(r, ComSide \ {c})
  BY <1>4, <1>5, SideCut DEF OnlyCut
<1>7. Mirrored(r) /\ Ranked(r) /\ Loose(r, c)
      /\ \A m \in Node \ ComSide : SameLinks(r, links, m)
  BY <1>4, <1>5, LinkFields DEF OnlyCut, Mirrored, Ranked, Loose, SameLinks
<1>8. ComSide' = ComSide \ {c} /\ ActionSide' = ActionSide
  BY <1>0, <1>2, <1>3, ReleaseFromCom
<1>9. \A m \in ActionSide : SameLinks(r, links, m)
  BY <1>7, SidesDisjoint
<1>10. \A m \in Node \ (ComSide' \union ActionSide) : Loose(r, m)
  BY <1>0, <1>7, <1>8 DEF LinkInv, SameLinks, Loose
<1>11. QED
  BY <1>0, <1>3, <1>5, <1>6, <1>7, <1>8, <1>9, <1>10, ComStored

\* The steps of cleanup() that close a connection are not among them.
LEMMA SelectorLinks ==
  ASSUME IInv, Selector
  PROVE  /\ LinkInv'
         /\ pc \notin {"cleanup_action", "cleanup_head", "cleanup_tail", "cleanup_com"}
              => QueueStep
<1>0. LinkInv
  BY DEF IInv
<1>1. CASE AcceptConnection
  BY <1>1, AcceptLinks
<1>2. CASE IoStep
  BY <1>2, IoLinks DEF IoStep
<1>3. CASE Handoff
  BY <1>3, HandoffLinks
<1>4. CASE CleanupActionClose
  BY <1>4, CleanupActionCloseLinks DEF CleanupActionClose
<1>5. CASE CleanupActionClosed
  BY <1>5, CleanupActionClosedLinks DEF CleanupActionClosed
<1>6. CASE CleanupComClose
  BY <1>6, CleanupComCloseLinks DEF CleanupComClose
<1>7. CASE \/ SelectorInit \/ SelectorCheck \/ BuildFdSets \/ Select \/ DrainTrigger
           \/ IoBegin \/ IoEnd \/ CleanupBegin \/ CleanupActionEnd \/ CleanupComBegin
           \/ CleanupComEnd \/ StopThreads \/ JoinThreads
  <2>1. Neutral
    BY <1>7
    DEF SelectorInit, SelectorCheck, BuildFdSets, Select, DrainTrigger, IoBegin, IoEnd,
        CleanupBegin, CleanupActionEnd, CleanupComBegin, CleanupComEnd, StopThreads,
        JoinThreads, Neutral, queueVars, poolVars, workerVars
  <2>2. QED
    BY <1>0, <2>1, NeutralLinks
<1>8. QED
  BY <1>1, <1>2, <1>3, <1>4, <1>5, <1>6, <1>7 DEF Selector

LEMMA EnvironmentLinks ==
  ASSUME IInv, Environment
  PROVE  LinkInv' /\ QueueStep
<1>1. Neutral
  BY DEF Environment, StopSignal, PeerConnects, SelectFails, SpuriousWakeup, PeerSends,
         PeerHangsUp, BrokenPipe, Neutral, queueVars, poolVars, selVars, workerVars
<1>2. QED
  BY <1>1, NeutralLinks DEF IInv

LEMMA TakeJobLinks ==
  ASSUME IInv, NEW w \in Workers, TakeJob(w), Action.head # NULL, job[w] = NULL,
         held' = held
  PROVE  LinkInv' /\ QueueStep
<1>0. TypeOK /\ LinkInv /\ Action \in List
  BY ComType DEF IInv
<1>1. PICK c \in Node : c = Action.head
  BY <1>0 DEF List, NodeOrNull
<1>2. c \in ActionSide
  BY <1>0, <1>1, LinkFields, NullIsNoNode DEF LinkInv, SideInv
<1>3. /\ client_pool' = client_pool
      /\ \A v \in Workers : job'[v] = IF v = w THEN c ELSE job[v]
      /\ \A m \in Node \ {c} : client'[m] = client[m]
  BY <1>0, <1>1 DEF TakeJob, TypeOK
<1>4. \A m \in Node \ {c} : Waits(m)' <=> Waits(m)
  BY <1>3, NullIsNoNode DEF Waits, InHands
<1>5. ~Waits(c)'
  BY <1>3 DEF Waits, InHands
<1>6. ComSide' = ComSide /\ ActionSide' = ActionSide \ {c}
  BY <1>2, <1>3, <1>4, <1>5, SidesDisjoint DEF ComSide, ActionSide
<1>7. QED
  BY <1>0, <1>1, <1>6, ActionLeaves DEF TakeJob, QueueStep, ActionLeave

LEMMA WorkerEnterLinks ==
  ASSUME IInv, NEW w \in Workers, WorkerEnter(w) \/ WorkerRelock(w)
  PROVE  LinkInv' /\ QueueStep
<1>1. job[w] = NULL /\ held' = held
  BY DEF WorkerEnter, WorkerRelock, selVars, IInv, WorkerInv, Busy
<1>2. CASE TakeJob(w) /\ Action.head # NULL
  BY <1>1, <1>2, TakeJobLinks
<1>3. CASE UNCHANGED <<queueVars, poolVars, job>>
  BY <1>1, <1>3, NeutralLinks DEF Neutral, queueVars, poolVars, IInv
<1>4. QED
  BY <1>2, <1>3 DEF WorkerEnter, WorkerRelock

LEMMA ExecuteLinks ==
  ASSUME IInv, NEW w \in Workers,
         \/ ExecuteEcho(w) \/ FenceCall(w) \/ FenceReturn(w) \/ ExecuteRejected(w)
  PROVE  LinkInv' /\ QueueStep
<1>0. TypeOK /\ LinkInv
  BY DEF IInv
<1>1. PICK c \in Node : c = job[w]
  BY <1>0
  DEF ExecuteEcho, FenceCall, FenceReturn, ExecuteRejected, IInv, WorkerInv, Busy, TypeOK,
      NodeOrNull
<1>2. UNCHANGED <<queueVars, client_pool, held, job>>
  BY DEF ExecuteEcho, FenceCall, FenceReturn, ExecuteRejected, selVars
<1>3. \A m \in Node \ {c} : client'[m] = client[m]
  BY <1>0, <1>1 DEF ExecuteEcho, FenceCall, FenceReturn, ExecuteRejected, TypeOK
<1>4. InHands(c)
  BY <1>1 DEF InHands
<1>5. QED
  BY <1>0, <1>2, <1>3, <1>4, InHandsLinks

\* The forgotten client waits for nobody: it is on neither side.
LEMMA ExecuteThrowsLinks ==
  ASSUME IInv, NEW w \in Workers, ExecuteThrows(w)
  PROVE  LinkInv' /\ QueueStep
<1>0. TypeOK /\ LinkInv
  BY DEF IInv
<1>1. PICK c \in Node : c = job[w]
  BY <1>0 DEF ExecuteThrows, IInv, WorkerInv, Busy, TypeOK, NodeOrNull
<1>2. client[c].current_phase = "EXECUTING"
  BY <1>1 DEF ExecuteThrows, IInv, WorkerInv
<1>3. /\ UNCHANGED <<queueVars, client_pool, client, held>>
      /\ \A v \in Workers : job'[v] = IF v = w THEN NULL ELSE job[v]
  BY <1>0 DEF ExecuteThrows, poolVars, selVars, TypeOK
<1>4. \A m \in Node \ {c} : Waits(m)' <=> Waits(m)
  BY <1>1, <1>3, NullIsNoNode DEF Waits, InHands
<1>5. ComSide' = ComSide /\ ActionSide' = ActionSide
  BY <1>2, <1>3, <1>4 DEF ComSide, ActionSide
<1>6. QED
  BY <1>0, <1>3, <1>5, LinksKept DEF QueueStep, Idle

LEMMA RouteLinks ==
  ASSUME IInv, NEW w \in Workers, RouteClient(w)
  PROVE  LinkInv' /\ (~signal_flag => QueueStep)
<1>0. TypeOK /\ LinkInv /\ Com \in List
  BY ComType DEF IInv
<1>1. PICK c \in Node : c = job[w]
  BY <1>0 DEF RouteClient, IInv, WorkerInv, Busy, TypeOK, NodeOrNull
<1>2. /\ held' = held
      /\ \A v \in Workers : job'[v] = IF v = w THEN NULL ELSE job[v]
  BY <1>0 DEF RouteClient, selVars, TypeOK
<1>3. InHands(c) /\ ~Waits(c)
  BY <1>1 DEF Waits, InHands
<1>4. c \in Node \ (ComSide \union ActionSide) /\ Loose(Com, c)
  BY <1>0, <1>3, OnNoSide
<1>5. \A m \in Node \ {c} : InHands(m)' <=> InHands(m)
  BY <1>1, <1>2, NullIsNoNode DEF InHands
<1>6. CASE ~signal_flag
  <2>1. SetCom(AddLast(Com, c)) /\ UNCHANGED <<client_pool, client>>
    BY <1>1, <1>6 DEF RouteClient, poolVars
  <2>2. client[c].current_phase = "SEND" /\ c \notin client_pool
    BY <1>1 DEF RouteClient, IInv, WorkerInv
  <2>3. ~InHands(c)'
    BY <1>1, <1>2, NullIsNoNode DEF InHands, IInv, WorkerInv, SelectorInv
  <2>4. ComSide' = ComSide \union {c} /\ ActionSide' = ActionSide
    BY <1>3, <1>5, <2>1, <2>2, <2>3 DEF ComSide, ActionSide, Waits
  <2>5. QED
    BY <1>0, <1>4, <1>6, <2>1, <2>4, ComJoins DEF QueueStep, ComJoin
<1>7. CASE signal_flag
  <2>1. SetCom(Remove(Com, c)) /\ ReleaseClient(c)
    BY <1>1, <1>7 DEF RouteClient, CloseConnection
  <2>2. ComSide' = ComSide /\ ActionSide' = ActionSide
    BY <1>0, <1>3, <1>5, <2>1, ReleaseFromHands
  <2>3. Remove(Com, c) \in List /\ OnlyCut(Remove(Com, c), Com)
    BY <1>0, <1>4, RemoveType, LooseCut
  <2>4. QED
    BY <1>0, <1>7, <2>1, <2>2, <2>3, ComCut
<1>8. QED
  BY <1>6, <1>7

LEMMA RejectCloseLinks ==
  ASSUME IInv, NEW w \in Workers, RejectClose(w)
  PROVE  LinkInv'
<1>0. TypeOK /\ LinkInv /\ Com \in List
  BY ComType DEF IInv
<1>1. PICK c \in Node : c = job[w]
  BY <1>0 DEF RejectClose, IInv, WorkerInv, Busy, TypeOK, NodeOrNull
<1>2. PICK s \in Side : UnlockedCloseBegin(Com, c, s)
  BY <1>1 DEF RejectClose
<1>3. InHands(c) /\ ~Waits(c)
  BY <1>1 DEF Waits, InHands
<1>4. ComSide' = ComSide /\ ActionSide' = ActionSide
  <2>1. UNCHANGED <<client_pool, held, job>>
    BY <1>2 DEF RejectClose, UnlockedCloseBegin, selVars
  <2>2. \A m \in Node : InHands(m)' <=> InHands(m)
    BY <2>1 DEF InHands
  <2>3. \A m \in Node \ {c} : client'[m] = client[m]
    BY <1>0, <1>2 DEF UnlockedCloseBegin, TypeOK
  <2>4. QED
    BY <1>3, <2>1, <2>2, <2>3, SidesKept DEF Waits
<1>5. Loose(Com, c)
  BY <1>0, <1>3, OnNoSide
<1>6. Unlink(Com, c, s) \in List /\ OnlyCut(Unlink(Com, c, s), Com)
  BY <1>0, <1>5, UnlinkHeadType, UnlinkTailType, LooseCut DEF Unlink
<1>7. QED
  BY <1>0, <1>2, <1>4, <1>6, ComCut DEF UnlockedCloseBegin

LEMMA RejectClosedLinks ==
  ASSUME IInv, NEW w \in Workers, RejectClosed(w)
  PROVE  LinkInv'
<1>0. TypeOK /\ LinkInv /\ Com \in List
  BY ComType DEF IInv
<1>1. PICK c \in Node : c = job[w]
  BY <1>0 DEF RejectClosed, IInv, WorkerInv, Busy, TypeOK, NodeOrNull
<1>2. PICK s \in Side : UnlockedCloseEnd(c, s)
  BY <1>1 DEF RejectClosed, Side
<1>3. /\ held' = held
      /\ \A v \in Workers : job'[v] = IF v = w THEN NULL ELSE job[v]
  BY <1>0 DEF RejectClosed, selVars, TypeOK
<1>4. InHands(c) /\ ~Waits(c)
  BY <1>1 DEF Waits, InHands
<1>5. \A m \in Node \ {c} : InHands(m)' <=> InHands(m)
  BY <1>1, <1>3, NullIsNoNode DEF InHands
<1>6. ComSide' = ComSide /\ ActionSide' = ActionSide
  BY <1>0, <1>2, <1>4, <1>5, ReleaseFromHands DEF UnlockedCloseEnd
<1>7. Loose(Com, c)
  BY <1>0, <1>4, OnNoSide
<1>8. /\ Detach(Unlink(Com, c, s), c) \in List
      /\ OnlyCut(Detach(Unlink(Com, c, s), c), Com)
  BY <1>0, <1>7, UnlinkHeadType, UnlinkTailType, DetachType, LooseCut DEF Unlink
<1>9. QED
  BY <1>0, <1>2, <1>6, <1>8, ComCut DEF UnlockedCloseEnd

LEMMA WorkerLinks ==
  ASSUME IInv, NEW w \in Workers, Worker(w)
  PROVE  /\ LinkInv'
         /\ ~signal_flag /\ wpc[w] \notin {"close", "close_head", "close_tail"} => QueueStep
<1>1. CASE WorkerEnter(w) \/ WorkerRelock(w)
  BY <1>1, WorkerEnterLinks
<1>2. CASE ExecuteEcho(w) \/ FenceCall(w) \/ FenceReturn(w) \/ ExecuteRejected(w)
  BY <1>2, ExecuteLinks
<1>3. CASE ExecuteThrows(w)
  BY <1>3, ExecuteThrowsLinks
<1>4. CASE UnownedCheck(w) \/ UnownedWait(w)
  BY <1>4, NeutralLinks
  DEF UnownedCheck, UnownedWait, Neutral, queueVars, poolVars, selVars, IInv
<1>5. CASE RouteClient(w)
  BY <1>5, RouteLinks
<1>6. CASE RejectClose(w)
  BY <1>6, RejectCloseLinks DEF RejectClose
<1>7. CASE RejectClosed(w)
  BY <1>7, RejectClosedLinks DEF RejectClosed
<1>8. QED
  BY <1>1, <1>2, <1>3, <1>4, <1>5, <1>6, <1>7 DEF Worker

(***************************************************************************)
(* WorkerInv and SelectorInv are preserved by the workers.                 *)
(***************************************************************************)

\* A worker touches its own client and the first one of the action queue.
LEMMA WorkerFrame ==
  ASSUME IInv, NEW w \in Workers, Worker(w)
  PROVE  /\ \A c \in Node \ {job[w], Action.head} : client'[c] = client[c]
         /\ client_pool' \in SUBSET (client_pool \union {job[w]})
         /\ \A v \in Workers \ {w} : job'[v] = job[v] /\ wpc'[v] = wpc[v]
         /\ UNCHANGED <<pc, held, cursor, backlog>>
<1>0. TypeOK
  BY DEF IInv
<1>1. CASE WorkerEnter(w) \/ WorkerRelock(w)
  BY <1>0, <1>1
  DEF WorkerEnter, WorkerRelock, TakeJob, TypeOK, poolVars, selVars, envVars
<1>2. CASE ExecuteEcho(w) \/ FenceCall(w) \/ FenceReturn(w) \/ ExecuteRejected(w)
           \/ ExecuteThrows(w) \/ UnownedCheck(w) \/ UnownedWait(w)
  BY <1>0, <1>2
  DEF ExecuteEcho, FenceCall, FenceReturn, ExecuteRejected, ExecuteThrows, UnownedCheck,
      UnownedWait, TypeOK, poolVars, selVars, envVars
<1>3. CASE RouteClient(w)
  BY <1>0, <1>3
  DEF RouteClient, CloseConnection, ReleaseClient, TypeOK, poolVars, selVars, envVars
<1>4. CASE RejectClose(w) \/ RejectClosed(w)
  BY <1>0, <1>4
  DEF RejectClose, RejectClosed, UnlockedCloseBegin, UnlockedCloseEnd, ReleaseClient,
      TypeOK, selVars, envVars
<1>5. QED
  BY <1>1, <1>2, <1>3, <1>4 DEF Worker

LEMMA ActionHead ==
  ASSUME IInv
  PROVE  Action.head = NULL \/ Action.head \in ActionSide
BY LinkFields DEF IInv, LinkInv, SideInv

LEMMA ToWritePhase ==
  ASSUME TypeOK, NEW c \in Node, NEW t, NEW n
  PROVE  ToWrite(c, t, n).current_phase = "SEND"
BY DEF ToWrite, TypeOK, NetClient

\* What a worker's own client looks like after a step of the worker.
LEMMA WorkerOwn ==
  ASSUME IInv, NEW w \in Workers, Worker(w)
  PROVE  /\ wpc'[w] \in Busy <=> job'[w] # NULL
         /\ job'[w] \in {job[w], NULL} \/ (job[w] = NULL /\ job'[w] = Action.head)
         /\ job'[w] # NULL => client_pool' = client_pool
         /\ wpc'[w] \in {"execute", "plugin"} =>
              client'[job'[w]].current_phase = "EXECUTING"
         /\ wpc'[w] = "route" => client'[job'[w]].current_phase = "SEND"
<1>0. /\ TypeOK
      /\ job \in [Workers -> NodeOrNull] /\ wpc \in [Workers -> WorkerPc]
      /\ client \in [Node -> NetClient]
      /\ wpc[w] \in Busy <=> job[w] # NULL
  BY DEF IInv, TypeOK, WorkerInv
<1>1. job[w] # NULL => job[w] \in Node
  BY <1>0 DEF NodeOrNull
<1>2. CASE WorkerEnter(w) \/ WorkerRelock(w)
  <2>1. job[w] = NULL
    BY <1>0, <1>2 DEF WorkerEnter, WorkerRelock, Busy
  <2>2. CASE TakeJob(w) /\ Action.head # NULL
    <3>1. PICK c \in Node : c = Action.head
      BY <1>0, <2>2, ComType DEF List, NodeOrNull
    <3>2. /\ job'[w] = c /\ wpc'[w] = "execute" /\ client_pool' = client_pool
          /\ client' = [client EXCEPT ![c].current_phase = "EXECUTING"]
      BY <1>0, <2>2, <3>1 DEF TakeJob
    <3>3. client'[c].current_phase = "EXECUTING"
      BY <1>0, <3>1, <3>2 DEF NetClient
    <3>4. QED
      BY <2>1, <3>1, <3>2, <3>3, NullIsNoNode DEF Busy
  <2>3. CASE UNCHANGED <<queueVars, poolVars, job>>
             /\ wpc' = [wpc EXCEPT ![w] = IF stop_workers THEN "exited" ELSE "waiting"]
    BY <1>0, <2>1, <2>3 DEF Busy
  <2>4. QED
    BY <1>2, <2>2, <2>3 DEF WorkerEnter, WorkerRelock
<1>3. CASE ExecuteEcho(w)
  <2>1. job[w] \in Node
    BY <1>0, <1>1, <1>3 DEF ExecuteEcho, Busy
  <2>2. QED
    BY <1>0, <1>3, <2>1, ToWritePhase DEF ExecuteEcho, Busy
<1>4. CASE FenceReturn(w)
  <2>1. job[w] \in Node
    BY <1>0, <1>1, <1>4 DEF FenceReturn, Busy
  <2>2. client'[job[w]].current_phase = "SEND"
    BY <1>0, <1>4, <2>1, ToWritePhase DEF FenceReturn
  <2>3. QED
    BY <1>0, <1>4, <2>1, <2>2 DEF FenceReturn, Busy
<1>5. CASE FenceCall(w)
  <2>1. job[w] \in Node /\ client[job[w]].current_phase = "EXECUTING"
    BY <1>0, <1>1, <1>5 DEF FenceCall, Busy, IInv, WorkerInv
  <2>2. client'[job[w]].current_phase = "EXECUTING"
    BY <1>0, <1>5, <2>1 DEF FenceCall, Parsed, NetClient
  <2>3. QED
    BY <1>0, <1>5, <2>1, <2>2 DEF FenceCall, Busy
<1>9. CASE ExecuteRejected(w) \/ RejectClose(w)
  BY <1>0, <1>9 DEF ExecuteRejected, RejectClose, UnlockedCloseBegin, Busy
<1>6. CASE ExecuteThrows(w) \/ RouteClient(w) \/ RejectClosed(w)
  BY <1>0, <1>6 DEF ExecuteThrows, RouteClient, RejectClosed, Busy
<1>7. CASE UnownedCheck(w) \/ UnownedWait(w)
  BY <1>0, <1>7 DEF UnownedCheck, UnownedWait, Busy
<1>8. QED
  BY <1>2, <1>3, <1>4, <1>5, <1>6, <1>7, <1>9 DEF Worker

LEMMA WorkerWorkers ==
  ASSUME IInv, NEW w \in Workers, Worker(w)
  PROVE  WorkerInv'
<1>0. TypeOK /\ WorkerInv /\ TypeOK'
  BY WorkerType DEF IInv
<1>1. /\ \A c \in Node \ {job[w], Action.head} : client'[c] = client[c]
      /\ client_pool' \in SUBSET (client_pool \union {job[w]})
      /\ \A v \in Workers \ {w} : job'[v] = job[v] /\ wpc'[v] = wpc[v]
  BY WorkerFrame
<1>2. /\ wpc'[w] \in Busy <=> job'[w] # NULL
      /\ job'[w] \in {job[w], NULL} \/ (job[w] = NULL /\ job'[w] = Action.head)
      /\ job'[w] # NULL => client_pool' = client_pool
      /\ wpc'[w] \in {"execute", "plugin"} =>
           client'[job'[w]].current_phase = "EXECUTING"
      /\ wpc'[w] = "route" => client'[job'[w]].current_phase = "SEND"
  BY WorkerOwn
<1>3. /\ \A v \in Workers : job[v] \in NodeOrNull
      /\ client_pool' \in SUBSET Node
  BY <1>0 DEF TypeOK
<1>4. Action.head # NULL => /\ \A v \in Workers : job[v] # Action.head
                            /\ Action.head \notin client_pool
  BY ActionHead DEF ActionSide, Waits, InHands
<1>5. \A v \in Workers \ {w} : job[v] # NULL => job[v] # job[w]
  BY <1>0 DEF WorkerInv
<1>6. \A v \in Workers \ {w} : job[v] # NULL => client'[job[v]] = client[job[v]]
  BY <1>1, <1>3, <1>4, <1>5 DEF NodeOrNull
<1>7. \A v \in Workers : wpc'[v] \in Busy <=> job'[v] # NULL
  BY <1>0, <1>1, <1>2 DEF WorkerInv
<1>8. \A v \in Workers : job'[v] \notin client_pool'
  <2>1. job'[w] \notin client_pool'
    BY <1>0, <1>2, <1>3, <1>4, NullIsNoNode DEF WorkerInv
  <2>2. \A v \in Workers \ {w} : job'[v] \notin client_pool'
    BY <1>0, <1>1, <1>3, <1>5, NullIsNoNode DEF WorkerInv
  <2>3. QED
    BY <2>1, <2>2
<1>9. \A u, v \in Workers : job'[u] = job'[v] /\ job'[u] # NULL => u = v
  BY <1>0, <1>1, <1>2, <1>4 DEF WorkerInv
<1>10. \A v \in Workers : /\ wpc'[v] \in {"execute", "plugin"} =>
                               client'[job'[v]].current_phase = "EXECUTING"
                          /\ wpc'[v] = "route" => client'[job'[v]].current_phase = "SEND"
  BY <1>0, <1>1, <1>2, <1>6 DEF WorkerInv, Busy
<1>11. QED
  BY <1>7, <1>8, <1>9, <1>10 DEF WorkerInv

LEMMA WorkerSelector ==
  ASSUME IInv, NEW w \in Workers, Worker(w)
  PROVE  SelectorInv'
<1>0. TypeOK /\ WorkerInv /\ SelectorInv /\ TypeOK'
  BY WorkerType DEF IInv
<1>1. /\ \A c \in Node \ {job[w], Action.head} : client'[c] = client[c]
      /\ client_pool' \in SUBSET (client_pool \union {job[w]})
      /\ \A v \in Workers \ {w} : job'[v] = job[v]
      /\ UNCHANGED <<pc, held, cursor, backlog>>
  BY WorkerFrame
<1>2. job'[w] \in {job[w], NULL} \/ (job[w] = NULL /\ job'[w] = Action.head)
  BY WorkerOwn
<1>3. Action.head # NULL => /\ Action.head # held /\ Action.head \notin ComSide
  BY ActionHead, SidesDisjoint DEF ActionSide, Waits, InHands
<1>4. held # NULL => /\ held \in Node
                     /\ \A v \in Workers : job'[v] # held
                     /\ held \notin client_pool'
                     /\ client'[held] = client[held]
  BY <1>0, <1>1, <1>2, <1>3 DEF SelectorInv, TypeOK, NodeOrNull
<1>5. held \notin client_pool'
  BY <1>0, <1>4, NullIsNoNode DEF TypeOK
<1>6. ASSUME cursor # NULL
      PROVE  cursor \in ComSide'
  <2>1. PICK c \in ComSide : c = cursor
    BY <1>0, <1>6 DEF SelectorInv
  <2>2. /\ c \in Node /\ c # NULL /\ c # job[w] /\ c # Action.head
        /\ c \notin client_pool /\ c # held /\ \A v \in Workers : job[v] # c
    BY <2>1, <1>3, NullIsNoNode DEF ComSide, Waits, InHands
  <2>3. client'[c] = client[c] /\ c \notin client_pool' /\ c # held'
        /\ \A v \in Workers : job'[v] # c
    BY <1>1, <1>2, <2>2
  <2>4. QED
    BY <2>1, <2>2, <2>3 DEF ComSide, Waits, InHands
<1>7. QED
  BY <1>0, <1>1, <1>4, <1>5, <1>6 DEF SelectorInv

(***************************************************************************)
(* WorkerInv and SelectorInv are preserved by the selector and by the      *)
(* environment, which leave the workers' clients alone.                    *)
(***************************************************************************)
LEMMA WorkersKept ==
  ASSUME TypeOK, WorkerInv, job' = job,
         \A w \in Workers : \/ wpc'[w] = wpc[w]
                            \/ wpc[w] = "waiting" /\ wpc'[w] = "enter",
         \A w \in Workers : job[w] \notin client_pool',
         \A w \in Workers : job[w] # NULL =>
           client'[job[w]].current_phase = client[job[w]].current_phase
  PROVE  WorkerInv'
BY DEF WorkerInv, Busy

LEMMA NotifyWakes ==
  ASSUME TypeOK, NotifyOne \/ NotifyAll
  PROVE  \A w \in Workers : \/ wpc'[w] = wpc[w]
                            \/ wpc[w] = "waiting" /\ wpc'[w] = "enter"
BY DEF NotifyOne, NotifyAll, TypeOK

\* No worker has an object of the com side, a free one or the selector's.
LEMMA NotAJob ==
  ASSUME IInv, NEW c \in Node, c \in ComSide \/ c \in client_pool \/ c = held
  PROVE  \A w \in Workers : job[w] # c
BY NullIsNoNode DEF IInv, WorkerInv, SelectorInv, ComSide, Waits, InHands

LEMMA CursorInCom ==
  ASSUME IInv, NEW c \in Node, AtClient(c)
  PROVE  /\ c \in ComSide /\ held = NULL /\ pc = "io"
         /\ cursor' # NULL => cursor' \in ComSide \ {c}
<1>1. c \in ComSide /\ held = NULL /\ pc = "io" /\ cursor' = links.next[c]
  BY NullIsNoNode DEF AtClient, IInv, SelectorInv
<1>2. links.next[c] \in ComSide \union {NULL}
  BY <1>1, LinkFields DEF IInv, LinkInv, SideInv
<1>3. links.next[c] # c
  BY NoSelfLink DEF IInv, LinkInv
<1>4. QED
  BY <1>1, <1>2, <1>3

LEMMA IoThreads ==
  ASSUME IInv, NEW c \in Node,
         \/ IoSkip(c) \/ IoClose(c) \/ ReceivePart(c) \/ ReceiveMessage(c)
         \/ SendThenReceive(c) \/ SendThenClose(c)
  PROVE  WorkerInv' /\ SelectorInv'
<1>0. TypeOK /\ WorkerInv /\ SelectorInv
  BY DEF IInv
<1>1. /\ c \in ComSide /\ held = NULL /\ pc = "io"
      /\ cursor' # NULL => cursor' \in ComSide \ {c}
  BY CursorInCom
  DEF IoSkip, IoClose, ReceivePart, ReceiveMessage, SendThenReceive, SendThenClose
<1>2. \A w \in Workers : job[w] # c
  BY <1>1, NotAJob
<1>3. /\ job' = job /\ wpc' = wpc
      /\ \A m \in Node \ {c} : client'[m] = client[m]
      /\ client_pool' \in SUBSET (client_pool \union {c})
  BY <1>0
  DEF IoSkip, IoClose, ReceivePart, ReceiveMessage, SendThenReceive, SendThenClose,
      CloseConnection, ReleaseClient, poolVars, workerVars, TypeOK
<1>4. WorkerInv'
  <2>1. \A w \in Workers : job[w] \notin client_pool'
    BY <1>0, <1>2, <1>3 DEF WorkerInv
  <2>2. \A w \in Workers : job[w] # NULL => client'[job[w]] = client[job[w]]
    BY <1>0, <1>2, <1>3 DEF TypeOK, NodeOrNull
  <2>3. QED
    BY <1>0, <1>3, <2>1, <2>2, WorkersKept
<1>5. /\ pc' \in {"io", "handoff"}
      /\ pc' = "io" => held' = NULL
      /\ pc' = "handoff" => held' = c /\ client_pool' = client_pool
                            /\ client'[c].current_phase = "PENDING"
  <2>1. CASE ReceiveMessage(c)
    <3>1. client[c] \in NetClient /\ client \in [Node -> NetClient]
      BY <1>0 DEF TypeOK
    <3>2. client'[c].current_phase = "PENDING"
      BY <2>1, <3>1 DEF ReceiveMessage, Received, NetClient
    <3>3. QED
      BY <2>1, <3>2 DEF ReceiveMessage
  <2>2. CASE ~ReceiveMessage(c)
    BY <1>1, <2>2
    DEF IoSkip, IoClose, ReceivePart, SendThenReceive, SendThenClose, selVars
  <2>3. QED
    BY <2>1, <2>2
<1>6. ASSUME cursor' # NULL
      PROVE  cursor' \in ComSide'
  <2>1. PICK m \in ComSide \ {c} : m = cursor'
    BY <1>1, <1>6
  <2>2. /\ m \in Node /\ client'[m] = client[m] /\ m \notin client_pool'
        /\ held' # m /\ \A w \in Workers : job'[w] # m
    BY <1>3, <1>5, <2>1, NullIsNoNode DEF ComSide, Waits, InHands
  <2>3. QED
    BY <2>1, <2>2 DEF ComSide, Waits, InHands
<1>7. held' \notin client_pool'
  BY <1>0, <1>1, <1>3, <1>5, NullIsNoNode DEF TypeOK, ComSide, Waits
<1>8. QED
  BY <1>2, <1>3, <1>4, <1>5, <1>6, <1>7, NullIsNoNode DEF SelectorInv

LEMMA AcceptThreads ==
  ASSUME IInv, AcceptConnection
  PROVE  WorkerInv' /\ SelectorInv'
<1>0. TypeOK /\ WorkerInv /\ SelectorInv
  BY DEF IInv
<1>1. PICK c \in client_pool :
        /\ client_pool' = client_pool \ {c}
        /\ \A m \in Node \ {c} : client'[m] = client[m]
  BY <1>0 DEF AcceptConnection, TypeOK
<1>2. job' = job /\ wpc' = wpc /\ pc' \in {"drain", "lock"} /\ pc = "accept"
      /\ UNCHANGED <<cursor, held>>
  BY DEF AcceptConnection, AfterAccept, workerVars
<1>3. \A w \in Workers : job[w] # NULL => client'[job[w]] = client[job[w]]
  BY <1>0, <1>1 DEF WorkerInv, TypeOK, NodeOrNull
<1>4. WorkerInv'
  BY <1>0, <1>1, <1>2, <1>3, WorkersKept DEF WorkerInv
<1>5. QED
  BY <1>0, <1>1, <1>2, <1>4 DEF SelectorInv

LEMMA HandoffThreads ==
  ASSUME IInv, Handoff
  PROVE  WorkerInv' /\ SelectorInv'
<1>0. TypeOK /\ WorkerInv /\ SelectorInv
  BY DEF IInv
<1>1. /\ job' = job /\ UNCHANGED <<client_pool, client, cursor>>
      /\ held' = NULL /\ pc = "handoff" /\ pc' = "io"
  BY DEF Handoff, poolVars
<1>2. WorkerInv'
  BY <1>0, <1>1, NotifyWakes, WorkersKept DEF Handoff, WorkerInv
<1>3. ASSUME cursor' # NULL
      PROVE  cursor' \in ComSide'
  <2>1. PICK m \in ComSide : m = cursor'
    BY <1>0, <1>1, <1>3 DEF SelectorInv
  <2>2. QED
    BY <1>1, <2>1, NullIsNoNode DEF ComSide, Waits, InHands
<1>4. QED
  BY <1>0, <1>1, <1>2, <1>3, NullIsNoNode DEF SelectorInv, TypeOK

LEMMA CleanupThreads ==
  ASSUME IInv, CleanupActionClose \/ CleanupActionClosed \/ CleanupComClose
  PROVE  WorkerInv' /\ SelectorInv'
<1>0. TypeOK /\ WorkerInv /\ SelectorInv /\ Com \in List /\ Action \in List
  BY ComType DEF IInv
<1>1. job' = job /\ wpc' = wpc /\ cursor' = cursor /\ cursor = NULL
  BY <1>0
  DEF CleanupActionClose, CleanupActionClosed, CleanupComClose, workerVars, selVars,
      SelectorInv
<1>2. CASE CleanupActionClose
  <2>1. PICK c \in ActionSide :
          /\ client' = [client EXCEPT ![c].open = FALSE] /\ held' = c
          /\ client_pool' = client_pool /\ pc' \in {"cleanup_head", "cleanup_tail"}
    BY <1>2, ActionHead DEF CleanupActionClose
  <2>2. /\ c \in Node /\ c # NULL /\ c \notin client_pool
        /\ \A w \in Workers : job[w] # c
    BY <2>1, NullIsNoNode DEF ActionSide, Waits, InHands
  <2>3. \A w \in Workers : job[w] # NULL => client'[job[w]] = client[job[w]]
    BY <1>0, <2>1, <2>2 DEF TypeOK, NodeOrNull
  <2>4. WorkerInv'
    BY <1>0, <1>1, <2>1, <2>3, WorkersKept DEF WorkerInv
  <2>5. QED
    BY <1>1, <2>1, <2>2, <2>4 DEF SelectorInv
<1>3. CASE CleanupActionClosed
  <2>1. PICK c \in Node : c = held
    BY <1>0, <1>3 DEF CleanupActionClosed, SelectorInv, TypeOK, NodeOrNull
  <2>2. /\ ReleaseClient(c) /\ held' = NULL /\ pc' = "cleanup_action"
        /\ \A w \in Workers : job[w] # c
    BY <1>3, <2>1, NotAJob DEF CleanupActionClosed, UnlockedCloseEnd
  <2>3. /\ client_pool' = client_pool \union {c}
        /\ \A m \in Node \ {c} : client'[m] = client[m]
    BY <1>0, <2>2, ReleaseSides
  <2>4. \A w \in Workers : job[w] # NULL => client'[job[w]] = client[job[w]]
    BY <1>0, <2>2, <2>3 DEF TypeOK, NodeOrNull
  <2>5. WorkerInv'
    BY <1>0, <1>1, <2>2, <2>3, <2>4, WorkersKept DEF WorkerInv
  <2>6. QED
    BY <1>0, <1>1, <2>2, <2>3, <2>5, NullIsNoNode DEF SelectorInv, TypeOK
<1>4. CASE CleanupComClose
  <2>1. PICK c \in ComSide : ReleaseClient(c)
    BY <1>4, LinkFields DEF CleanupComClose, IInv, LinkInv, SideInv
  <2>2. /\ c \in Node /\ held' = held /\ held = NULL /\ pc' = "cleanup_com"
        /\ \A w \in Workers : job[w] # c
    BY <1>0, <1>4, <2>1, NotAJob DEF CleanupComClose, selVars, SelectorInv, ComSide
  <2>3. /\ client_pool' = client_pool \union {c}
        /\ \A m \in Node \ {c} : client'[m] = client[m]
    BY <1>0, <2>1, <2>2, ReleaseSides
  <2>4. \A w \in Workers : job[w] # NULL => client'[job[w]] = client[job[w]]
    BY <1>0, <2>2, <2>3 DEF TypeOK, NodeOrNull
  <2>5. WorkerInv'
    BY <1>0, <1>1, <2>2, <2>3, <2>4, WorkersKept DEF WorkerInv
  <2>6. QED
    BY <1>0, <1>1, <2>2, <2>3, <2>5, NullIsNoNode DEF SelectorInv, TypeOK
<1>5. QED
  BY <1>2, <1>3, <1>4

LEMMA NeutralThreads ==
  ASSUME IInv, Neutral,
         \A w \in Workers : \/ wpc'[w] = wpc[w]
                            \/ wpc[w] = "waiting" /\ wpc'[w] = "enter",
         held = NULL <=> pc' \notin {"handoff", "cleanup_head", "cleanup_tail"},
         pc' = "handoff" => pc = "handoff",
         cursor' # NULL => cursor' \in ComSide /\ pc' \in {"io", "handoff"},
         pc' = "accept" => backlog' > 0
  PROVE  WorkerInv' /\ SelectorInv'
<1>1. WorkerInv'
  BY WorkersKept DEF IInv, Neutral, WorkerInv
<1>2. ComSide' = ComSide
  BY SidesUnchanged DEF Neutral
<1>3. QED
  BY <1>1, <1>2 DEF IInv, Neutral, SelectorInv

LEMMA SelectorThreads ==
  ASSUME IInv, Selector
  PROVE  WorkerInv' /\ SelectorInv'
<1> USE DEF Neutral, queueVars, poolVars, workerVars, selVars
<1>0. TypeOK /\ SelectorInv /\ LinkInv
  BY DEF IInv
<1>1. CASE AcceptConnection
  BY <1>1, AcceptThreads
<1>2. CASE IoStep
  BY <1>2, IoThreads DEF IoStep
<1>3. CASE Handoff
  BY <1>3, HandoffThreads
<1>4. CASE CleanupActionClose \/ CleanupActionClosed \/ CleanupComClose
  BY <1>4, CleanupThreads
<1>5. CASE SelectorInit \/ SelectorCheck \/ BuildFdSets \/ DrainTrigger \/ IoEnd
  BY <1>0, <1>5, NeutralThreads
  DEF SelectorInit, SelectorCheck, BuildFdSets, DrainTrigger, IoEnd, SelectorInv
<1>6. CASE Select
  <2>1. pc' = "accept" => backlog' > 0
    BY <1>0, <1>6, DescriptorsAssumption
    DEF Select, ReadyToRead, Readable, AfterAccept, LISTEN, TRIGGER, TypeOK, envVars
  <2>2. pc' \in {"accept", "drain", "lock"} /\ pc = "select"
    BY <1>6 DEF Select, AfterAccept
  <2>3. QED
    BY <1>0, <1>6, <2>1, <2>2, NeutralThreads DEF Select, SelectorInv
<1>7. CASE IoBegin
  <2>1. cursor' \in ComSide \union {NULL}
    BY <1>0, <1>7, LinkFields DEF IoBegin, LinkInv, SideInv
  <2>2. QED
    BY <1>0, <1>7, <2>1, NeutralThreads DEF IoBegin, SelectorInv
<1>8. CASE CleanupBegin \/ CleanupActionEnd \/ CleanupComBegin \/ CleanupComEnd
           \/ JoinThreads
  BY <1>0, <1>8, NeutralThreads
  DEF CleanupBegin, CleanupActionEnd, CleanupComBegin, CleanupComEnd, JoinThreads,
      SelectorInv
<1>9. CASE StopThreads
  BY <1>0, <1>9, NeutralThreads, NotifyWakes DEF StopThreads, SelectorInv
<1>10. QED
  BY <1>1, <1>2, <1>3, <1>4, <1>5, <1>6, <1>7, <1>8, <1>9 DEF Selector

LEMMA EnvironmentThreads ==
  ASSUME IInv, Environment
  PROVE  WorkerInv' /\ SelectorInv'
<1> USE DEF Neutral, queueVars, poolVars, workerVars, selVars
<1>0. TypeOK /\ SelectorInv
  BY DEF IInv
<1>1. CASE StopSignal \/ \E c \in Node : PeerSends(c) \/ PeerHangsUp(c) \/ BrokenPipe(c)
  BY <1>0, <1>1, NeutralThreads
  DEF StopSignal, PeerSends, PeerHangsUp, BrokenPipe, SelectorInv, envVars
<1>2. CASE PeerConnects
  <2>1. backlog' = backlog + 1 /\ backlog \in Nat
    BY <1>0, <1>2 DEF PeerConnects, TypeOK
  <2>2. QED
    BY <1>0, <1>2, <2>1, NeutralThreads DEF PeerConnects, SelectorInv
<1>3. CASE SelectFails
  BY <1>0, <1>3, NeutralThreads DEF SelectFails, SelectorInv, envVars
<1>4. ASSUME NEW w \in Workers, SpuriousWakeup(w)
      PROVE  WorkerInv' /\ SelectorInv'
  <2>1. \A v \in Workers : \/ wpc'[v] = wpc[v]
                           \/ wpc[v] = "waiting" /\ wpc'[v] = "enter"
    BY <1>0, <1>4 DEF SpuriousWakeup, TypeOK
  <2>2. QED
    BY <1>0, <1>4, <2>1, NeutralThreads DEF SpuriousWakeup, SelectorInv, envVars
<1>5. QED
  BY <1>1, <1>2, <1>3, <1>4 DEF Environment

(***************************************************************************)
(* RecvInv is preserved.                                                   *)
(***************************************************************************)

LEMMA ReleaseRecv ==
  ASSUME TypeOK, RecvInv, NEW c \in Node, ReleaseClient(c)
  PROVE  RecvInv'
<1>1. /\ \A m \in Node \ {c} : client'[m] = client[m] /\ peer'[m] = peer[m]
      /\ client'[c] = Cleared /\ peer'[c] = NoPeer
  BY ReleaseSides DEF TypeOK, ReleaseClient
<1>2. RecvOk(Cleared, NoPeer)
  BY DEF RecvOk, Cleared, NoPeer
<1>3. QED
  BY <1>1, <1>2 DEF RecvInv

\* The same phases and offset.
LEMMA RecvSame ==
  ASSUME NEW n, NEW m, NEW p, RecvOk(n, p), m.current_phase = n.current_phase,
         m.next_phase = n.next_phase, m.io_offset = n.io_offset
  PROVE  RecvOk(m, p)
BY DEF RecvOk

\* A client that is not receiving has nothing unread.
LEMMA RecvBusy ==
  ASSUME NEW n, NEW m, NEW p, RecvOk(n, p), n.current_phase # "RECV",
         m.next_phase = "RECV" => m.current_phase = "SEND"
  PROVE  RecvOk(m, p)
BY DEF RecvOk

\* Only the fields of c change, and not the peers.
LEMMA RecvOne ==
  ASSUME RecvInv, NEW c \in Node, peer' = peer, RecvOk(client'[c], peer[c]),
         \A m \in Node \ {c} : client'[m] = client[m]
  PROVE  RecvInv'
BY DEF RecvInv

LEMMA IoRecv ==
  ASSUME IInv, NEW c \in Node,
         \/ IoSkip(c) \/ IoClose(c) \/ ReceivePart(c) \/ ReceiveMessage(c)
         \/ SendThenReceive(c) \/ SendThenClose(c)
  PROVE  RecvInv'
<1>0. /\ TypeOK /\ RecvInv /\ RecvOk(client[c], peer[c])
      /\ client \in [Node -> NetClient] /\ peer \in [Node -> Peer]
  BY DEF IInv, RecvInv, TypeOK
<1>1. CASE IoSkip(c)
  BY <1>0, <1>1 DEF IoSkip, poolVars, envVars, RecvInv
<1>2. CASE IoClose(c) \/ SendThenClose(c)
  BY <1>0, <1>2, ReleaseRecv DEF IoClose, SendThenClose, CloseConnection
<1>3. CASE ReceivePart(c) \/ ReceiveMessage(c)
  <2>1. /\ peer[c].avail > 0
        /\ peer'[c].avail = peer[c].avail - 1 /\ peer'[c].req = peer[c].req
        /\ \A m \in Node \ {c} : client'[m] = client[m] /\ peer'[m] = peer[m]
    BY <1>0, <1>3 DEF ReceivePart, ReceiveMessage, PartRead, Peer
  <2>2. /\ client'[c].io_offset = client[c].io_offset + 1
        /\ client'[c].next_phase = client[c].next_phase
    <3>1. CASE ReceivePart(c)
      BY <1>0, <3>1 DEF ReceivePart, Received, NetClient
    <3>2. CASE ReceiveMessage(c)
      BY <1>0, <3>2 DEF ReceiveMessage, Received, NetClient
    <3>3. QED
      BY <1>3, <3>1, <3>2
  <2>3. /\ client[c].io_offset \in 0 .. 2 /\ peer[c].avail \in 0 .. 2
        /\ Parts(peer[c].req) \in 1 .. 2
    BY <1>0, PartsType DEF NetClient, Peer
  <2>4. /\ client[c].current_phase = "RECV" /\ peer[c].req # NoRequest
        /\ client[c].io_offset + peer[c].avail = Parts(peer[c].req)
        /\ client[c].next_phase # "RECV"
    BY <1>0, <2>1 DEF RecvOk
  <2>5. CASE ReceivePart(c)
    <3>1. client'[c].current_phase = "RECV"
      BY <1>0, <2>4, <2>5 DEF ReceivePart, Received, NetClient
    <3>2. RecvOk(client'[c], peer'[c])
      BY <2>1, <2>2, <2>3, <2>4, <3>1 DEF RecvOk
    <3>3. QED
      BY <1>0, <2>1, <3>2 DEF RecvInv
  <2>6. CASE ReceiveMessage(c)
    <3>1. peer'[c].avail = 0
      BY <2>1, <2>3, <2>4, <2>6 DEF ReceiveMessage, RecvComplete
    <3>2. RecvOk(client'[c], peer'[c])
      BY <2>1, <2>2, <2>4, <3>1 DEF RecvOk
    <3>3. QED
      BY <1>0, <2>1, <3>2 DEF RecvInv
  <2>7. QED
    BY <1>3, <2>5, <2>6
<1>4. CASE SendThenReceive(c)
  <2>1. client[c].current_phase = "SEND" /\ ~(peer[c].avail > 0)
    BY <1>0, <1>4 DEF SendThenReceive, RecvOk
  <2>2. /\ client'[c].current_phase = "RECV" /\ client'[c].next_phase = "PENDING"
        /\ client'[c].io_offset = 0
    BY <1>0, <1>4 DEF SendThenReceive, NetClient
  <2>3. /\ peer'[c].avail = peer[c].avail
        /\ \A m \in Node \ {c} : client'[m] = client[m] /\ peer'[m] = peer[m]
    BY <1>0, <1>4 DEF SendThenReceive, ReplySent, Peer
  <2>4. RecvOk(client'[c], peer'[c])
    BY <2>1, <2>2, <2>3 DEF RecvOk
  <2>5. QED
    BY <1>0, <2>3, <2>4 DEF RecvInv
<1>5. QED
  BY <1>1, <1>2, <1>3, <1>4

LEMMA SelectorRecv ==
  ASSUME IInv, Selector
  PROVE  RecvInv'
<1>0. /\ TypeOK /\ RecvInv /\ Action \in List
      /\ client \in [Node -> NetClient] /\ peer \in [Node -> Peer]
  BY ComType DEF IInv, TypeOK
<1>1. CASE AcceptConnection
  <2>1. PICK c \in Node :
          /\ client'[c].current_phase = "RECV" /\ client'[c].io_offset = 0
          /\ client'[c].next_phase = "PENDING"
          /\ \A m \in Node \ {c} : client'[m] = client[m]
          /\ c \in client_pool
    BY <1>0, <1>1 DEF AcceptConnection, ClearClient, Cleared, TypeOK
  <2>2. peer[c] = NoPeer
    BY <2>1 DEF IInv, PoolInv
  <2>3. RecvOk(client'[c], peer[c])
    BY <2>1, <2>2 DEF RecvOk, NoPeer
  <2>4. QED
    BY <1>0, <1>1, <2>1, <2>3, RecvOne DEF AcceptConnection
<1>2. CASE IoStep
  BY <1>2, IoRecv DEF IoStep
<1>3. CASE CleanupActionClose
  <2>1. PICK c \in Node : client' = [client EXCEPT ![c].open = FALSE]
    BY <1>0, <1>3 DEF CleanupActionClose, List, NodeOrNull
  <2>2. RecvOk(client'[c], peer[c])
    BY <1>0, <2>1, RecvSame DEF RecvInv, NetClient
  <2>3. QED
    BY <1>0, <1>3, <2>1, <2>2, RecvOne DEF CleanupActionClose, envVars
<1>4. CASE CleanupActionClosed
  BY <1>0, <1>4, ReleaseRecv
  DEF CleanupActionClosed, UnlockedCloseEnd, IInv, SelectorInv, TypeOK, NodeOrNull
<1>5. CASE CleanupComClose
  BY <1>0, <1>5, ReleaseRecv, ComType DEF CleanupComClose, List, NodeOrNull
<1>6. CASE \/ SelectorInit \/ SelectorCheck \/ BuildFdSets \/ Select \/ DrainTrigger
           \/ IoBegin \/ IoEnd \/ Handoff \/ CleanupBegin \/ CleanupActionEnd
           \/ CleanupComBegin \/ CleanupComEnd \/ StopThreads \/ JoinThreads
  <2>1. client' = client /\ peer' = peer
    BY <1>6
    DEF SelectorInit, SelectorCheck, BuildFdSets, Select, DrainTrigger, IoBegin, IoEnd,
        Handoff, CleanupBegin, CleanupActionEnd, CleanupComBegin, CleanupComEnd,
        StopThreads, JoinThreads, poolVars, envVars
  <2>2. QED
    BY <1>0, <2>1 DEF RecvInv
<1>7. QED
  BY <1>1, <1>2, <1>3, <1>4, <1>5, <1>6 DEF Selector

LEMMA WorkerRecv ==
  ASSUME IInv, NEW w \in Workers, Worker(w)
  PROVE  RecvInv'
<1>0. /\ TypeOK /\ RecvInv /\ Action \in List
      /\ client \in [Node -> NetClient] /\ job \in [Workers -> NodeOrNull]
  BY ComType DEF IInv, TypeOK
<1>1. wpc[w] \in Busy => job[w] \in Node
  BY <1>0 DEF IInv, WorkerInv, NodeOrNull
<1>2. CASE WorkerEnter(w) \/ WorkerRelock(w)
  <2>1. CASE TakeJob(w) /\ Action.head # NULL
    <3>1. PICK c \in ActionSide : c = Action.head
      BY <2>1, ActionHead
    <3>2. c \in Node /\ client[c].current_phase = "PENDING" /\ RecvOk(client[c], peer[c])
      BY <1>0, <3>1 DEF ActionSide, RecvInv
    <3>3. /\ client'[c].current_phase = "EXECUTING"
          /\ client'[c].next_phase = client[c].next_phase
          /\ \A m \in Node \ {c} : client'[m] = client[m]
      BY <1>0, <2>1, <3>1, <3>2 DEF TakeJob, NetClient
    <3>4. RecvOk(client'[c], peer[c])
      BY <3>2, <3>3 DEF RecvOk
    <3>5. QED
      BY <1>0, <1>2, <3>2, <3>3, <3>4, RecvOne DEF WorkerEnter, WorkerRelock, envVars
  <2>2. CASE UNCHANGED poolVars
    BY <1>0, <1>2, <2>2 DEF WorkerEnter, WorkerRelock, poolVars, envVars, RecvInv
  <2>3. QED
    BY <1>2, <2>1, <2>2 DEF WorkerEnter, WorkerRelock
<1>3. CASE ExecuteEcho(w) \/ FenceCall(w) \/ FenceReturn(w) \/ ExecuteRejected(w)
  <2>1. PICK c \in Node : c = job[w]
    BY <1>1, <1>3 DEF ExecuteEcho, FenceCall, FenceReturn, ExecuteRejected, Busy
  <2>2. /\ peer' = peer
        /\ \A m \in Node \ {c} : client'[m] = client[m]
    BY <1>0, <1>3, <2>1
    DEF ExecuteEcho, FenceCall, FenceReturn, ExecuteRejected, envVars
  <2>3. /\ client[c] \in NetClient /\ RecvOk(client[c], peer[c])
        /\ client[c].current_phase = "EXECUTING"
    BY <1>0, <1>3, <2>1
    DEF ExecuteEcho, FenceCall, FenceReturn, ExecuteRejected, IInv, WorkerInv, RecvInv
  <2>4. client'[c].next_phase = "RECV" => client'[c].current_phase = "SEND"
    <3>1. client[c].next_phase # "RECV"
      BY <2>3 DEF RecvOk
    <3>2. CASE ExecuteEcho(w)
      BY <1>0, <2>1, <3>2, ToWritePhase DEF ExecuteEcho
    <3>3. CASE FenceReturn(w)
      BY <1>0, <2>1, <3>3, ToWritePhase DEF FenceReturn
    <3>4. CASE FenceCall(w)
      BY <1>0, <2>1, <2>3, <3>1, <3>4 DEF FenceCall, Parsed, NetClient
    <3>5. CASE ExecuteRejected(w)
      BY <1>0, <2>1, <2>3, <3>1, <3>5, ZenonT(30) DEF ExecuteRejected, Parsed, NetClient
    <3>6. QED
      BY <1>3, <3>2, <3>3, <3>4, <3>5
  <2>5. RecvOk(client'[c], peer[c])
    BY <2>3, <2>4, RecvBusy
  <2>6. QED
    BY <1>0, <2>2, <2>5, RecvOne
<1>4. CASE ExecuteThrows(w) \/ UnownedCheck(w) \/ UnownedWait(w)
  BY <1>0, <1>4 DEF ExecuteThrows, UnownedCheck, UnownedWait, poolVars, envVars, RecvInv
<1>5. CASE RouteClient(w)
  <2>1. CASE CloseConnection(job[w])
    BY <1>0, <1>1, <1>5, <2>1, ReleaseRecv DEF RouteClient, CloseConnection, Busy
  <2>2. CASE UNCHANGED <<poolVars, envVars>>
    BY <1>0, <2>2 DEF poolVars, envVars, RecvInv
  <2>3. QED
    BY <1>5, <2>1, <2>2 DEF RouteClient
<1>6. CASE RejectClose(w)
  <2>1. PICK c \in Node : c = job[w]
    BY <1>1, <1>6 DEF RejectClose, Busy
  <2>2. client' = [client EXCEPT ![c].open = FALSE] /\ peer' = peer
    BY <1>6, <2>1 DEF RejectClose, UnlockedCloseBegin, envVars
  <2>3. RecvOk(client'[c], peer[c])
    BY <1>0, <2>2, RecvSame DEF RecvInv, NetClient
  <2>4. QED
    BY <1>0, <2>2, <2>3, RecvOne
<1>7. CASE RejectClosed(w)
  BY <1>0, <1>1, <1>7, ReleaseRecv DEF RejectClosed, UnlockedCloseEnd, Busy
<1>8. QED
  BY <1>2, <1>3, <1>4, <1>5, <1>6, <1>7 DEF Worker

LEMMA EnvironmentRecv ==
  ASSUME IInv, Environment
  PROVE  RecvInv' /\ PoolInv'
<1>0. TypeOK /\ RecvInv /\ PoolInv /\ peer \in [Node -> Peer]
  BY DEF IInv, TypeOK
<1>1. client' = client /\ client_pool' = client_pool
  BY DEF Environment, StopSignal, PeerConnects, SelectFails, SpuriousWakeup, PeerSends,
         PeerHangsUp, BrokenPipe, poolVars
<1>2. ASSUME NEW c \in Node, PeerSends(c)
      PROVE  RecvInv' /\ PoolInv'
  <2>1. PICK r \in Requests :
          peer' = [peer EXCEPT ![c] = [req |-> r, avail |-> Parts(r), gone |-> FALSE]]
    BY <1>2 DEF PeerSends
  <2>2. r # NoRequest
    BY ConstantsAssumption DEF Request, RequestType, FenceType, NoRequest
  <2>3. RecvOk(client[c], peer[c]) /\ peer[c].req = NoRequest /\ client[c].open
    BY <1>0, <1>2 DEF PeerSends, RecvInv
  <2>4. client[c].io_offset = 0 /\ client[c].current_phase = "RECV"
        /\ client[c].next_phase # "RECV"
    BY <2>3 DEF RecvOk
  <2>5. peer'[c] = [req |-> r, avail |-> Parts(r), gone |-> FALSE]
        /\ \A m \in Node \ {c} : peer'[m] = peer[m]
    BY <1>0, <2>1
  <2>6. Parts(r) \in 1 .. 2
    BY PartsType
  <2>7. RecvOk(client[c], peer'[c])
    BY <2>2, <2>4, <2>5, <2>6 DEF RecvOk
  <2>8. c \notin client_pool
    BY <1>0, <2>3 DEF PoolInv, Cleared
  <2>9. QED
    BY <1>0, <1>1, <2>5, <2>7, <2>8 DEF RecvInv, PoolInv, TypeOK
<1>3. ASSUME NEW c \in Node, PeerHangsUp(c)
      PROVE  RecvInv' /\ PoolInv'
  <2>1. c \notin client_pool
    BY <1>0, <1>3 DEF PeerHangsUp, PoolInv, Cleared
  <2>2. /\ peer'[c].req = peer[c].req /\ peer'[c].avail = peer[c].avail
        /\ \A m \in Node \ {c} : peer'[m] = peer[m]
    BY <1>0, <1>3 DEF PeerHangsUp, Peer
  <2>3. RecvOk(client[c], peer'[c])
    BY <1>0, <2>2 DEF RecvInv, RecvOk
  <2>4. QED
    BY <1>0, <1>1, <2>1, <2>2, <2>3 DEF RecvInv, PoolInv, TypeOK
<1>4. CASE StopSignal \/ PeerConnects \/ SelectFails
           \/ \E w \in Workers : SpuriousWakeup(w)
  BY <1>0, <1>1, <1>4
  DEF StopSignal, PeerConnects, SelectFails, SpuriousWakeup, envVars, RecvInv, PoolInv
<1>5. ASSUME NEW c \in Node, BrokenPipe(c)
      PROVE  RecvInv' /\ PoolInv'
  BY <1>0, <1>1, <1>5 DEF BrokenPipe, envVars, RecvInv, PoolInv
<1>6. QED
  BY <1>2, <1>3, <1>4, <1>5 DEF Environment

(***************************************************************************)
(* PoolInv is preserved.                                                   *)
(***************************************************************************)

\* Only an object that is not free changes; it may become free when released.
LEMMA PoolKept ==
  ASSUME PoolInv, NEW c,
         \/ client_pool' \in SUBSET client_pool /\ c \notin client_pool'
         \/ /\ client_pool' \in SUBSET (client_pool \union {c})
            /\ client'[c] = Cleared /\ peer'[c] = NoPeer,
         \A m \in client_pool \ {c} : client'[m] = client[m] /\ peer'[m] = peer[m]
  PROVE  PoolInv'
BY DEF PoolInv

LEMMA ReleasePool ==
  ASSUME TypeOK, PoolInv, NEW c \in Node, ReleaseClient(c)
  PROVE  PoolInv'
<1>1. peer'[c] = NoPeer /\ \A m \in Node \ {c} : peer'[m] = peer[m]
  BY DEF ReleaseClient, TypeOK
<1>2. client_pool \in SUBSET Node
  BY DEF TypeOK
<1>3. QED
  BY <1>1, <1>2, ReleaseSides, PoolKept

LEMMA SelectorPool ==
  ASSUME IInv, Selector
  PROVE  PoolInv'
<1>0. /\ TypeOK /\ PoolInv /\ client_pool \in SUBSET Node
      /\ client \in [Node -> NetClient] /\ peer \in [Node -> Peer]
  BY DEF IInv, TypeOK
<1>1. CASE AcceptConnection
  BY <1>0, <1>1 DEF AcceptConnection, PoolInv
<1>2. ASSUME NEW c \in Node,
             \/ IoSkip(c) \/ IoClose(c) \/ ReceivePart(c) \/ ReceiveMessage(c)
             \/ SendThenReceive(c) \/ SendThenClose(c)
      PROVE  PoolInv'
  <2>1. c \notin client_pool
    BY <1>2, CursorInCom
    DEF IoSkip, IoClose, ReceivePart, ReceiveMessage, SendThenReceive, SendThenClose,
        ComSide, Waits
  <2>2. CASE IoClose(c) \/ SendThenClose(c)
    BY <1>0, <2>2, ReleasePool DEF IoClose, SendThenClose, CloseConnection
  <2>3. CASE IoSkip(c) \/ ReceivePart(c) \/ ReceiveMessage(c) \/ SendThenReceive(c)
    BY <1>0, <2>1, <2>3
    DEF IoSkip, ReceivePart, ReceiveMessage, SendThenReceive, PartRead, ReplySent,
        poolVars, envVars, PoolInv
  <2>4. QED
    BY <1>2, <2>2, <2>3
<1>3. CASE CleanupActionClose
  <2>1. PICK c \in ActionSide : client' = [client EXCEPT ![c].open = FALSE]
    BY <1>3, ActionHead DEF CleanupActionClose
  <2>2. c \in Node \ client_pool
    BY <2>1 DEF ActionSide, Waits
  <2>3. QED
    BY <1>0, <1>3, <2>1, <2>2 DEF CleanupActionClose, envVars, PoolInv
<1>4. CASE CleanupActionClosed
  BY <1>0, <1>4, ReleasePool
  DEF CleanupActionClosed, UnlockedCloseEnd, IInv, SelectorInv, TypeOK, NodeOrNull
<1>5. CASE CleanupComClose
  BY <1>0, <1>5, ReleasePool, ComType DEF CleanupComClose, List, NodeOrNull
<1>6. CASE \/ SelectorInit \/ SelectorCheck \/ BuildFdSets \/ Select \/ DrainTrigger
           \/ IoBegin \/ IoEnd \/ Handoff \/ CleanupBegin \/ CleanupActionEnd
           \/ CleanupComBegin \/ CleanupComEnd \/ StopThreads \/ JoinThreads
  BY <1>0, <1>6
  DEF SelectorInit, SelectorCheck, BuildFdSets, Select, DrainTrigger, IoBegin, IoEnd,
      Handoff, CleanupBegin, CleanupActionEnd, CleanupComBegin, CleanupComEnd,
      StopThreads, JoinThreads, poolVars, envVars, PoolInv
<1>7. QED
  BY <1>1, <1>2, <1>3, <1>4, <1>5, <1>6 DEF Selector, IoStep

LEMMA WorkerPoolInv ==
  ASSUME IInv, NEW w \in Workers, Worker(w)
  PROVE  PoolInv'
<1>0. /\ TypeOK /\ PoolInv /\ client_pool \in SUBSET Node
      /\ client \in [Node -> NetClient] /\ peer \in [Node -> Peer]
  BY DEF IInv, TypeOK
<1>1. wpc[w] \in Busy => job[w] \in Node
  BY <1>0 DEF IInv, WorkerInv, TypeOK, NodeOrNull
<1>2. CASE RouteClient(w) /\ CloseConnection(job[w])
  BY <1>0, <1>1, <1>2, ReleasePool DEF RouteClient, CloseConnection, Busy
<1>3. CASE RejectClosed(w)
  BY <1>0, <1>1, <1>3, ReleasePool DEF RejectClosed, UnlockedCloseEnd, Busy
<1>4. CASE ~RejectClosed(w) /\ ~(RouteClient(w) /\ CloseConnection(job[w]))
  <2>1. client_pool' = client_pool /\ peer' = peer
    BY <1>4
    DEF Worker, WorkerEnter, WorkerRelock, TakeJob, ExecuteEcho, FenceCall, FenceReturn,
        ExecuteRejected, ExecuteThrows, UnownedCheck, UnownedWait, RouteClient,
        RejectClose, UnlockedCloseBegin, poolVars, envVars
  <2>2. job[w] \notin client_pool /\ Action.head \notin client_pool
    BY <1>0, ActionHead, NullIsNoNode DEF IInv, WorkerInv, ActionSide, Waits
  <2>3. \A c \in client_pool : client'[c] = client[c]
    BY <1>0, <2>2, WorkerFrame
  <2>4. QED
    BY <1>0, <2>1, <2>3 DEF PoolInv
<1>5. QED
  BY <1>2, <1>3, <1>4

-----------------------------------------------------------------------------
(***************************************************************************)
(* The invariant.                                                          *)
(***************************************************************************)

LEMMA InitIInv == Init => IInv
<1> SUFFICES ASSUME Init
             PROVE  IInv
  OBVIOUS
<1>1. TypeOK
  BY ClearedType
  DEF Init, TypeOK, NoEnds, NoLinks, Ends, Links, NodeOrNull, SelectorPc, WorkerPc
<1>2. \A c \in Node : Loose(links, c)
  BY DEF Init, NoLinks, Loose
<1>3. ComSide = {} /\ ActionSide = {}
  BY DEF Init, ComSide, ActionSide, Waits
<1>4. SideInv(Com, ComSide) /\ SideInv(Action, ActionSide)
  BY <1>3 DEF Init, NoEnds, SideInv, Com, Action
<1>5. Mirrored(links)
  BY <1>2, NullIsNoNode DEF Mirrored, Loose
<1>6. Ranked(links)
  <2>1. [n \in Node |-> 0] \in [Node -> Nat]
    OBVIOUS
  <2>2. QED
    BY <1>2, <2>1 DEF Ranked, Loose
<1>7. LinkInv
  BY <1>2, <1>4, <1>5, <1>6 DEF LinkInv
<1>8. WorkerInv
  BY NullIsNoNode DEF Init, WorkerInv, Busy
<1>9. SelectorInv
  BY NullIsNoNode DEF Init, SelectorInv
<1>10. RecvInv
  <2>1. RecvOk(Cleared, NoPeer)
    BY DEF RecvOk, Cleared, NoPeer
  <2>2. QED
    BY <2>1 DEF Init, RecvInv
<1>11. PoolInv
  BY DEF Init, PoolInv
<1>12. QED
  BY <1>1, <1>7, <1>8, <1>9, <1>10, <1>11 DEF IInv

LEMMA StutterIInv ==
  ASSUME IInv, UNCHANGED vars
  PROVE  IInv'
<1> USE DEF vars, queueVars, poolVars, lockVars, signalVars, selVars, workerVars, envVars
<1>1. TypeOK'
  BY DEF IInv, TypeOK
<1>2. ComSide' = ComSide /\ ActionSide' = ActionSide
  BY SidesUnchanged
<1>3. LinkInv'
  BY <1>2, LinksKept DEF IInv
<1>4. WorkerInv' /\ SelectorInv'
  BY <1>2 DEF IInv, WorkerInv, SelectorInv
<1>5. RecvInv' /\ PoolInv'
  BY DEF IInv, RecvInv, PoolInv
<1>6. QED
  BY <1>1, <1>3, <1>4, <1>5 DEF IInv

LEMMA NextIInv == IInv /\ [Next]_vars => IInv'
<1> SUFFICES ASSUME IInv, [Next]_vars
             PROVE  IInv'
  OBVIOUS
<1>1. CASE Selector
  BY <1>1, SelectorType, SelectorLinks, SelectorThreads, SelectorRecv, SelectorPool
  DEF IInv
<1>2. CASE Environment
  BY <1>2, EnvironmentType, EnvironmentLinks, EnvironmentThreads, EnvironmentRecv
  DEF IInv
<1>3. ASSUME NEW w \in Workers, Worker(w)
      PROVE  IInv'
  BY <1>3, WorkerType, WorkerLinks, WorkerWorkers, WorkerSelector, WorkerRecv,
     WorkerPoolInv
  DEF IInv
<1>4. CASE UNCHANGED vars
  BY <1>4, StutterIInv
<1>5. QED
  BY <1>1, <1>2, <1>3, <1>4 DEF Next

\* The invariant the other theorems are read off: it holds of every state the
\* server's threads reach (ServerConnector.cpp:131-515, WorkerPool.cpp:73-116).
THEOREM Invariance == Spec => []IInv
BY InitIInv, NextIInv, PTL DEF Spec

-----------------------------------------------------------------------------
(***************************************************************************)
(* The properties.                                                         *)
(***************************************************************************)

\* The fields of the connector keep their types: a message never outgrows the I/O
\* buffer (io_offset), no list operation stores anything but an object or null, and
\* the selector never accepts a connection that is not there
\* (ServerConnector.h:43-120, ServerConnector.cpp:131-515).
THEOREM TypeCorrect == Spec => []TypeOK
<1>1. IInv => TypeOK
  BY DEF IInv
<1>2. QED
  BY <1>1, Invariance, PTL

\* However many workers close connections without com_queue_lock, no client object is
\* in two places: free, in the com queue, in the action queue, or in the hands of
\* exactly one thread; and the selector's traversal stays on clients nobody else has
\* (ServerConnector.cpp:201-262, 356-365, 472-515).
THEOREM Ownership == Spec => []ExclusiveOwnership
<1>1. ASSUME IInv
      PROVE  ExclusiveOwnership
  <2>1. Members(Com) \subseteq ComSide /\ Members(Action) \subseteq ActionSide
    BY <1>1, SidesDisjoint, MembersWithinSide DEF IInv, LinkInv
  <2>2. \A c \in ComSide \union ActionSide :
          c \in Node /\ c \notin client_pool /\ c \notin Jobs /\ c \notin Held
    BY DEF ComSide, ActionSide, Waits, InHands, Jobs, Held
  <2>3. ComSide \subseteq InService
    BY <2>1, <2>2, SidesDisjoint DEF InService
  <2>4. client_pool \intersect (Jobs \union Held) = {} /\ Jobs \intersect Held = {}
    BY <1>1 DEF IInv, WorkerInv, SelectorInv, Jobs, Held
  <2>5. \A v, w \in Workers : job[v] = job[w] /\ job[v] # NULL => v = w
    BY <1>1 DEF IInv, WorkerInv
  <2>6. cursor # NULL => cursor \in InService
    BY <1>1, <2>3 DEF IInv, SelectorInv
  <2>7. QED
    BY <2>1, <2>2, <2>3, <2>4, <2>5, <2>6 DEF ExclusiveOwnership
<1>2. QED
  BY <1>1, Invariance, PTL

\* Neither an end of a list nor a link of a client in use leads to a free object, so
\* accept_connection can hand the object out again without touching another
\* connection (ServerConnector.cpp:323-365).
THEOREM NoDangling == Spec => []NoDanglingLink
<1>1. ASSUME IInv
      PROVE  NoDanglingLink
  <2>1. NULL \notin client_pool /\ client_pool \in SUBSET Node
    BY <1>1, NullIsNoNode DEF IInv, TypeOK
  <2>2. (ComSide \union ActionSide) \intersect client_pool = {}
    BY DEF ComSide, ActionSide, Waits
  <2>3. \A e \in {com_queue.head, com_queue.tail, action_queue.head, action_queue.tail} :
          e \in ComSide \union ActionSide \union {NULL}
    BY <1>1, LinkFields DEF IInv, LinkInv, SideInv
  <2>4. \A c \in Node : /\ links.next[c] \in ComSide \union ActionSide \union {NULL}
                        /\ links.prev[c] \in ComSide \union ActionSide \union {NULL}
    BY <1>1, LinkFields DEF IInv, LinkInv, SideInv, Loose
  <2>5. QED
    BY <2>1, <2>2, <2>3, <2>4 DEF NoDanglingLink
<1>2. QED
  BY <1>1, Invariance, PTL
=============================================================================
