------------------------------ MODULE Selector ------------------------------
EXTENDS ServerState

(***************************************************************************)
(* The selector thread: run, init, selector_loop.                          *)
(***************************************************************************)

\* Any system call of init() may fail; run() then goes to cleanup().
SelectorInit ==
  /\ pc = "init"
  /\ \/ /\ pc' = "check"
        /\ selector_trigger' = "empty"
        /\ wakeup_fd' = TRUE
     \/ /\ OsMayFail
        /\ pc' = "cleanup"
        /\ UNCHANGED <<selector_trigger, wakeup_fd>>
  /\ UNCHANGED <<queueVars, poolVars, lockVars, signal_flag, cursor, held,
                 read_fd_set, write_fd_set, workerVars, envVars, crashed>>

SelectorCheck ==
  /\ pc = "check"
  /\ pc' = IF signal_flag THEN "cleanup" ELSE "build"
  /\ UNCHANGED <<queueVars, poolVars, lockVars, signalVars, cursor, held,
                 read_fd_set, write_fd_set, workerVars, envVars, crashed>>

\* Mutant of ListenerFds: the server socket is always selected.
ListenerFds_Always == {LISTEN}

\* Mutant of ListenerFds: more than one object must be free.
ListenerFds_OffByOne ==
  IF \E c, d \in client_pool : c # d THEN {LISTEN} ELSE {}

\* The server socket is selected if the pool has a free object.
ListenerFds == IF client_pool # {} THEN {LISTEN} ELSE {}

\* The clients of the com queue that wait for I/O; a client without a socket
\* (accept() failed) adds no descriptor, or writes outside the fd_set and dies.
Waiting(op) == {c \in Members(Com) : client[c].io_state = op}

BuildFdSets ==
  /\ pc = "build"
  /\ com_queue_lock = NULL
  /\ read_fd_set' = {c \in Waiting("READ") : client[c].open} 
                      \union {TRIGGER} \union ListenerFds
  /\ write_fd_set' = {c \in Waiting("WRITE") : client[c].open}
  /\ \/ crashed' = FALSE
     \/ /\ \E c \in Waiting("READ") : ~client[c].open
        /\ crashed' = TRUE
  /\ pc' = "select"
  /\ UNCHANGED <<queueVars, poolVars, lockVars, signalVars, cursor, held,
                 workerVars, envVars>>

Readable == {c \in Node : peer[c].avail > 0 \/ peer[c].gone}

ReadyToRead == read_fd_set \intersect
                 (Readable \union (IF backlog > 0 THEN {LISTEN} ELSE {})
                           \union (IF selector_trigger = "byte" THEN {TRIGGER} ELSE {}))

AfterAccept(fds) == IF TRIGGER \in fds THEN "drain" ELSE "lock"

\* select() returns every ready descriptor, and does not return without one.
Select ==
  /\ pc = "select"
  /\ ReadyToRead \union write_fd_set # {}
  /\ read_fd_set' = ReadyToRead
  /\ pc' = IF LISTEN \in ReadyToRead THEN "accept" ELSE AfterAccept(ReadyToRead)
  /\ UNCHANGED <<queueVars, poolVars, lockVars, signalVars, cursor, held,
                 write_fd_set, workerVars, envVars, crashed>>

\* select() fails: interrupted by the signal handler, or for another reason.
SelectFails ==
  /\ pc = "select"
  /\ \/ signal_flag /\ pc' = "check"
     \/ OsMayFail /\ pc' = "cleanup"
  /\ UNCHANGED <<queueVars, poolVars, lockVars, signalVars, cursor, held,
                 read_fd_set, write_fd_set, workerVars, envVars, crashed>>

\* The result of accept() is not checked: on failure the client has no socket.
AcceptConnection ==
  /\ pc = "accept"
  /\ com_queue_lock = NULL
  /\ \E c \in client_pool, ok \in BOOLEAN :
       /\ ok \/ OsMayFail
       /\ client_pool' = client_pool \ {c}
       /\ client' = [client EXCEPT ![c] =
                       [ClearClient(@) EXCEPT !.open = ok,
                                              !.io_state = "READ"]]
       /\ SetCom(AddLast(Com, c))
  /\ backlog' = backlog - 1
  /\ pc' = AfterAccept(read_fd_set)
  /\ UNCHANGED <<lockVars, signalVars, cursor, held, read_fd_set, write_fd_set,
                 workerVars, connects, peer, call, crashed>>

DrainTrigger ==
  /\ pc = "drain"
  /\ selector_trigger' = "empty"
  /\ pc' = "lock"
  /\ UNCHANGED <<queueVars, poolVars, lockVars, signal_flag, wakeup_fd, cursor,
                 held, read_fd_set, write_fd_set, workerVars, envVars, crashed>>

(***************************************************************************)
(* The pass over the com queue, under com_queue_lock.  The successor of a  *)
(* client is read before the client is served.                             *)
(***************************************************************************)
IoBegin ==
  /\ pc = "lock"
  /\ com_queue_lock = NULL
  /\ com_queue_lock' = SELECTOR
  /\ cursor' = com_queue.head
  /\ pc' = "io"
  /\ UNCHANGED <<queueVars, poolVars, action_queue_lock, signalVars, held,
                 read_fd_set, write_fd_set, workerVars, envVars, crashed>>

\* The end of the pass; the sets are not read again before they are rebuilt.
IoEnd ==
  /\ pc = "io"
  /\ cursor = NULL
  /\ com_queue_lock' = NULL
  /\ read_fd_set' = {}
  /\ write_fd_set' = {}
  /\ pc' = "check"
  /\ UNCHANGED <<queueVars, poolVars, action_queue_lock, signalVars, cursor,
                 held, workerVars, envVars, crashed>>

AtClient(c) == pc = "io" /\ cursor = c /\ cursor' = links.next[c]

Canceled(c) == client[c].current_phase = "CANCELED"
CanRead(c)  == ~Canceled(c) /\ c \in read_fd_set
CanWrite(c) == ~Canceled(c) /\ c \notin read_fd_set /\ c \in write_fd_set

IoSkip(c) ==
  /\ AtClient(c)
  /\ ~Canceled(c) /\ ~CanRead(c) /\ ~CanWrite(c)
  /\ UNCHANGED <<queueVars, poolVars, lockVars, signalVars, pc, held,
                 read_fd_set, write_fd_set, workerVars, envVars, crashed>>

\* Mutant of RecvFails: a short read is taken for an error.
RecvFails_Short(c) == peer[c].gone \/ Parts(peer[c].req) > client[c].io_offset + 1

\* recv() may return 0 or -1, send() may return -1.
RecvFails(c) == peer[c].gone
SendFails(c) == peer[c].gone

\* The client was canceled, or recv() or send() fails, or recv() finds the end
\* of the stream.
IoClose(c) ==
  /\ AtClient(c)
  /\ \/ Canceled(c)
     \/ CanRead(c) /\ RecvFails(c)
     \/ CanWrite(c) /\ SendFails(c)
  /\ CloseConnection(c)
  /\ UNCHANGED <<lockVars, signalVars, pc, held, read_fd_set, write_fd_set,
                 workerVars, crashed>>

\* receive_message reads the next part of the message.  The header tells whether
\* there is more; the peer's fields are in the buffer when it is complete.
Received(c) ==
  [client[c] EXCEPT !.io_offset = @ + 1, !.msg = peer[c].req]

RecvComplete(c) == client[c].io_offset + 1 >= Parts(peer[c].req)

PartRead(c) == peer' = [peer EXCEPT ![c].avail = @ - 1]

ReceivePart(c) ==
  /\ AtClient(c)
  /\ CanRead(c) /\ peer[c].avail > 0 /\ ~RecvComplete(c)
  /\ client' = [client EXCEPT ![c] = Received(c)]
  /\ PartRead(c)
  /\ UNCHANGED <<queueVars, client_pool, lockVars, signalVars, pc, held,
                 read_fd_set, write_fd_set, workerVars, backlog, connects, call,
                 crashed>>

\* Mutant of LeaveCom: the client stays in the com queue.
LeaveCom_Stays(c) == UNCHANGED queueVars

LeaveCom(c) == SetCom(Remove(Com, c))

\* The message is complete: the client leaves the com queue.
ReceiveMessage(c) ==
  /\ AtClient(c)
  /\ CanRead(c) /\ peer[c].avail > 0 /\ RecvComplete(c)
  /\ client[c].next_phase = "PENDING"
  /\ client' = [client EXCEPT ![c] =
                  [Received(c) EXCEPT !.current_phase = "PENDING",
                                      !.io_state = "NOOP"]]
  /\ PartRead(c)
  /\ LeaveCom(c)
  /\ held' = c
  /\ pc' = "handoff"
  /\ UNCHANGED <<client_pool, lockVars, signalVars, read_fd_set, write_fd_set,
                 workerVars, backlog, connects, call, crashed>>

\* ... and joins the action queue, under both locks; one waiting worker wakes up.
Handoff ==
  /\ pc = "handoff"
  /\ action_queue_lock = NULL
  /\ SetAction(AddLast(Action, held))
  /\ NotifyOne
  /\ held' = NULL
  /\ pc' = "io"
  /\ UNCHANGED <<poolVars, lockVars, signalVars, cursor, read_fd_set,
                 write_fd_set, job, stop_workers, envVars, crashed>>

\* send_message sends the reply; the peer has what it waits for.
ReplySent(c) == [peer EXCEPT ![c].req = NoRequest]

SendThenReceive(c) ==
  /\ AtClient(c)
  /\ CanWrite(c) /\ client[c].next_phase = "RECV"
  /\ client' = [client EXCEPT ![c].current_phase = "RECV",
                              ![c].next_phase = "PENDING",
                              ![c].io_state = "READ",
                              ![c].io_offset = 0]
  /\ peer' = ReplySent(c)
  /\ UNCHANGED <<queueVars, client_pool, lockVars, signalVars, pc, held,
                 read_fd_set, write_fd_set, workerVars, backlog, connects, call,
                 crashed>>

SendThenClose(c) ==
  /\ AtClient(c)
  /\ CanWrite(c) /\ client[c].next_phase = "CANCELED"
  /\ CloseConnection(c)
  /\ UNCHANGED <<lockVars, signalVars, pc, held, read_fd_set, write_fd_set,
                 workerVars, crashed>>

IoStep == \E c \in Node : \/ IoSkip(c)
                          \/ IoClose(c)
                          \/ ReceivePart(c)
                          \/ ReceiveMessage(c)
                          \/ SendThenReceive(c)
                          \/ SendThenClose(c)

-----------------------------------------------------------------------------
(***************************************************************************)
(* cleanup(), and the end of Server::run.                                  *)
(***************************************************************************)

\* The server socket is closed; the action queue is emptied under its own lock.
CleanupBegin ==
  /\ pc = "cleanup"
  /\ action_queue_lock = NULL
  /\ action_queue_lock' = SELECTOR
  /\ backlog' = 0
  /\ read_fd_set' = {}
  /\ write_fd_set' = {}
  /\ pc' = "cleanup_action"
  /\ UNCHANGED <<queueVars, poolVars, com_queue_lock, signalVars, cursor, held,
                 workerVars, connects, peer, call, crashed>>

\* remove_first on the action queue, then close_connection without com_queue_lock.
CleanupActionClose ==
  /\ pc = "cleanup_action"
  /\ Action.head # NULL
  /\ LET l == RemoveFirst(Action)
         c == Action.head
     IN \E s \in Side :
          /\ action_queue' = [head |-> l.head, tail |-> l.tail]
          /\ LET u == Unlink([Com EXCEPT !.next = l.next, !.prev = l.prev], c, s)
             IN /\ com_queue' = [head |-> u.head, tail |-> u.tail]
                /\ links' = [next |-> u.next, prev |-> u.prev]
          /\ client' = [client EXCEPT ![c].open = FALSE]
          /\ held' = c
          /\ pc' = IF s = "head" THEN "cleanup_tail" ELSE "cleanup_head"
  /\ crashed' = RemoveFirstFaults(Action)
  /\ UNCHANGED <<client_pool, lockVars, signalVars, cursor, read_fd_set,
                 write_fd_set, workerVars, envVars>>

CleanupActionClosed ==
  /\ \/ pc = "cleanup_head" /\ UnlockedCloseEnd(held, "head")
     \/ pc = "cleanup_tail" /\ UnlockedCloseEnd(held, "tail")
  /\ held' = NULL
  /\ pc' = "cleanup_action"
  /\ UNCHANGED <<lockVars, signalVars, cursor, read_fd_set, write_fd_set,
                 workerVars, crashed>>

CleanupActionEnd ==
  /\ pc = "cleanup_action"
  /\ Action.head = NULL
  /\ action_queue_lock' = NULL
  /\ pc' = "cleanup_lock"
  /\ UNCHANGED <<queueVars, poolVars, com_queue_lock, signalVars, cursor, held,
                 read_fd_set, write_fd_set, workerVars, envVars, crashed>>

CleanupComBegin ==
  /\ pc = "cleanup_lock"
  /\ com_queue_lock = NULL
  /\ com_queue_lock' = SELECTOR
  /\ DisableWakeupFd
  /\ signal_flag' = TRUE
  /\ pc' = "cleanup_com"
  /\ UNCHANGED <<queueVars, poolVars, action_queue_lock, selector_trigger,
                 cursor, held, read_fd_set, write_fd_set, workerVars, envVars,
                 crashed>>

\* remove_first, then close_connection, which removes the client once more.
CleanupComClose ==
  /\ pc = "cleanup_com"
  /\ Com.head # NULL
  /\ SetCom(Remove(RemoveFirst(Com), Com.head))
  /\ ReleaseClient(Com.head)
  /\ crashed' = RemoveFirstFaults(Com)
  /\ UNCHANGED <<lockVars, signalVars, selVars, workerVars>>

CleanupComEnd ==
  /\ pc = "cleanup_com"
  /\ Com.head = NULL
  /\ selector_trigger' = "closed"
  /\ com_queue_lock' = NULL
  /\ pc' = "stop"
  /\ UNCHANGED <<queueVars, poolVars, action_queue_lock, signal_flag, wakeup_fd,
                 cursor, held, read_fd_set, write_fd_set, workerVars, envVars,
                 crashed>>

\* ~WorkerPool: stop_threads tells the workers to stop and wakes all of them ...
StopThreads ==
  /\ pc = "stop"
  /\ action_queue_lock = NULL
  /\ stop_workers' = TRUE
  /\ NotifyAll
  /\ pc' = "join"
  /\ UNCHANGED <<queueVars, poolVars, lockVars, signalVars, cursor, held,
                 read_fd_set, write_fd_set, job, envVars, crashed>>

\* Mutant of AllJoined: one worker is enough.
AllJoined_One == \E w \in Workers : wpc[w] = "exited"

AllJoined == \A w \in Workers : wpc[w] = "exited"

\* ... and joins them; only then are the connector and the plugin destroyed.
JoinThreads ==
  /\ pc = "join"
  /\ AllJoined
  /\ pc' = "destroyed"
  /\ UNCHANGED <<queueVars, poolVars, lockVars, signalVars, cursor, held,
                 read_fd_set, write_fd_set, workerVars, envVars, crashed>>

=============================================================================
