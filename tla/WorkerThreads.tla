---------------------------- MODULE WorkerThreads ----------------------------
EXTENDS ServerState

(***************************************************************************)
(* The worker threads: worker_loop and process_action_queue.               *)
(***************************************************************************)

\* Take the first client off the action queue, or leave with the queue empty.
TakeJob(w) ==
  /\ SetAction(RemoveFirst(Action))
  /\ job' = [job EXCEPT ![w] = Action.head]
  /\ wpc' = [wpc EXCEPT ![w] = "execute"]
  /\ client' = [client EXCEPT ![Action.head].current_phase = "EXECUTING"]
  /\ crashed' = RemoveFirstFaults(Action)
  /\ UNCHANGED client_pool

\* The top of worker_loop, with the lock: at the start and after every wakeup.
WorkerEnter(w) ==
  /\ wpc[w] = "enter"
  /\ action_queue_lock = NULL
  /\ \/ /\ ~stop_workers /\ Action.head # NULL
        /\ TakeJob(w)
     \/ /\ stop_workers \/ Action.head = NULL
        /\ wpc' = [wpc EXCEPT ![w] = IF stop_workers THEN "exited" ELSE "waiting"]
        /\ UNCHANGED <<queueVars, poolVars, job, crashed>>
  /\ UNCHANGED <<lockVars, signalVars, selVars, stop_workers, envVars>>

\* After a client is processed: the next one, even if the workers must stop.
WorkerRelock(w) ==
  /\ wpc[w] = "relock"
  /\ action_queue_lock = NULL
  /\ \/ /\ Action.head # NULL
        /\ TakeJob(w)
     \/ /\ Action.head = NULL
        /\ wpc' = [wpc EXCEPT ![w] = IF stop_workers THEN "exited" ELSE "waiting"]
        /\ UNCHANGED <<queueVars, poolVars, job, crashed>>
  /\ UNCHANGED <<lockVars, signalVars, selVars, stop_workers, envVars>>

\* A condition variable may wake a thread nobody notified.
SpuriousWakeup(w) ==
  /\ wpc[w] = "waiting"
  /\ wpc' = [wpc EXCEPT ![w] = "enter"]
  /\ UNCHANGED <<queueVars, poolVars, lockVars, signalVars, selVars, job,
                 stop_workers, envVars, crashed>>

(***************************************************************************)
(* process_client_message on the client w owns, without a lock.            *)
(***************************************************************************)
ToWrite(c, type, next) ==
  [client[c] EXCEPT !.msg = [type |-> type, body |-> NoName],
                    !.current_phase = "SEND",
                    !.next_phase = next,
                    !.io_state = "WRITE",
                    !.io_offset = 0]

ExecuteEcho(w) ==
  LET c == job[w] IN
  /\ wpc[w] = "execute"
  /\ client[c].msg.type = "ECHO_REQUEST"
  /\ client' = [client EXCEPT ![c] = ToWrite(c, "ECHO_REPLY", "RECV")]
  /\ wpc' = [wpc EXCEPT ![w] = "route"]
  /\ UNCHANGED <<queueVars, client_pool, lockVars, signalVars, selVars, job,
                 stop_workers, envVars, crashed>>

\* The name in the request, or the one the object still holds.
ParsedName(c) == LET b == client[c].msg.body IN
                 IF b \in Nodenames THEN b ELSE client[c].nodename

\* The buffer and the header are cleared once the fields are parsed.
Parsed(c) == [client[c] EXCEPT !.io_offset = 0, !.msg = NoRequest]

\* fence_action: the fields are parsed, the buffer and the header cleared, and
\* the plugin is called.
FenceCall(w) ==
  LET c == job[w] IN
  /\ wpc[w] = "execute"
  /\ client[c].msg.type \in FenceType
  /\ client[c].msg.body \notin {Malformed, TooLong}
  /\ ParsedName(c) # NoName
  /\ client' = [client EXCEPT ![c] = [Parsed(c) EXCEPT !.nodename = ParsedName(c)]]
  /\ call' = [call EXCEPT ![c] = [op |-> client[c].msg.type,
                                  node |-> ParsedName(c),
                                  state |-> "running"]]
  /\ wpc' = [wpc EXCEPT ![w] = "plugin"]
  /\ UNCHANGED <<queueVars, client_pool, lockVars, signalVars, selVars, job,
                 stop_workers, backlog, connects, peer, crashed>>

\* The plugin's verdict becomes the reply.
FenceReturn(w) ==
  LET c == job[w] IN
  /\ wpc[w] = "plugin"
  /\ \E ok \in BOOLEAN :
       /\ call' = [call EXCEPT ![c].state = IF ok THEN "succeeded" ELSE "failed"]
       /\ client' = [client EXCEPT ![c] =
            ToWrite(c, IF ok THEN "FENCE_SUCCESS" ELSE "FENCE_FAIL", "CANCELED")]
  /\ wpc' = [wpc EXCEPT ![w] = "route"]
  /\ UNCHANGED <<queueVars, client_pool, lockVars, signalVars, selVars, job,
                 stop_workers, backlog, connects, peer, crashed>>

\* VERSION_REQUEST, an unknown type, or a fencing request without a node name or
\* with malformed fields: the phase is neither RECV nor SEND afterwards.
ExecuteRejected(w) ==
  LET c == job[w]
      m == client[c].msg
  IN
  /\ wpc[w] = "execute"
  /\ \/ /\ m.type = "VERSION_REQUEST"
        /\ client' = client
     \/ /\ m.type = "INVALID" \/ (m.type \in FenceType /\ m.body = Malformed)
        /\ client' = [client EXCEPT ![c].current_phase = "CANCELED"]
     \/ /\ m.type \in FenceType /\ m.body = NoName /\ ParsedName(c) = NoName
        /\ client' = [client EXCEPT ![c] = Parsed(c)]
  /\ wpc' = [wpc EXCEPT ![w] = "close"]
  /\ UNCHANGED <<queueVars, client_pool, lockVars, signalVars, selVars, job,
                 stop_workers, envVars, crashed>>

\* A node name that does not fit throws; process_action_queue catches the exception
\* and returns to worker_loop without action_queue_lock, the client forgotten.
ExecuteThrows(w) ==
  LET c == job[w] IN
  /\ wpc[w] = "execute"
  /\ client[c].msg.type \in FenceType /\ client[c].msg.body = TooLong
  /\ job' = [job EXCEPT ![w] = NULL]
  /\ wpc' = [wpc EXCEPT ![w] = "unowned"]
  /\ UNCHANGED <<queueVars, poolVars, lockVars, signalVars, selVars,
                 stop_workers, envVars, crashed>>

\* worker_loop reads stop_workers without the lock, then waits on (or, leaving,
\* unlocks) a mutex it does not own.  That is undefined; the step is what a build
\* does where unlocking stores "free" whoever the holder is.
UnownedCheck(w) ==
  /\ wpc[w] = "unowned"
  /\ \/ /\ stop_workers
        /\ wpc' = [wpc EXCEPT ![w] = "exited"]
        /\ action_queue_lock' = NULL
     \/ /\ ~stop_workers
        /\ wpc' = [wpc EXCEPT ![w] = "unowned_wait"]
        /\ UNCHANGED action_queue_lock
  /\ UNCHANGED <<queueVars, poolVars, com_queue_lock, signalVars, selVars, job,
                 stop_workers, envVars, crashed>>

UnownedWait(w) ==
  /\ wpc[w] = "unowned_wait"
  /\ wpc' = [wpc EXCEPT ![w] = "waiting"]
  /\ action_queue_lock' = NULL
  /\ UNCHANGED <<queueVars, poolVars, com_queue_lock, signalVars, selVars, job,
                 stop_workers, envVars, crashed>>

\* Back to the com queue under com_queue_lock; the client is closed if the
\* selector stops.
RouteClient(w) ==
  LET c == job[w] IN
  /\ wpc[w] = "route"
  /\ com_queue_lock = NULL
  /\ \/ /\ ~signal_flag
        /\ SetCom(AddLast(Com, c))
        /\ WakeupSelector
        /\ UNCHANGED <<poolVars, envVars>>
     \/ /\ signal_flag
        /\ CloseConnection(c)
        /\ UNCHANGED selector_trigger
  /\ job' = [job EXCEPT ![w] = NULL]
  /\ wpc' = [wpc EXCEPT ![w] = "relock"]
  /\ UNCHANGED <<lockVars, signal_flag, wakeup_fd, selVars, stop_workers, crashed>>

\* close_connection without com_queue_lock.
RejectClose(w) ==
  /\ wpc[w] = "close"
  /\ \E s \in Side : /\ UnlockedCloseBegin(Com, job[w], s)
                     /\ wpc' = [wpc EXCEPT ![w] = IF s = "head" THEN "close_tail"
                                                                ELSE "close_head"]
  /\ UNCHANGED <<lockVars, signalVars, selVars, job, stop_workers, envVars, crashed>>

RejectClosed(w) ==
  /\ \/ wpc[w] = "close_head" /\ UnlockedCloseEnd(job[w], "head")
     \/ wpc[w] = "close_tail" /\ UnlockedCloseEnd(job[w], "tail")
  /\ job' = [job EXCEPT ![w] = NULL]
  /\ wpc' = [wpc EXCEPT ![w] = "relock"]
  /\ UNCHANGED <<lockVars, signalVars, selVars, stop_workers, crashed>>

=============================================================================
