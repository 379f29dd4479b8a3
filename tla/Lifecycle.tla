------------------------------ MODULE Lifecycle ------------------------------
(***************************************************************************)
(* The life of the server process: main and Server::run read the command   *)
(* line, load the plugin, construct the connector and the worker pool,     *)
(* serve, and destroy what they constructed, whichever step fails; and a   *)
(* stop signal arrives at any time in any thread.                          *)
(*                                                                         *)
(* ServerConnector.tla has the serving in full, with the signal handler as *)
(* one step.  Here a client is a job, and the handler, the masking of      *)
(* signals and the sections under signal_lock take their steps one by one. *)
(***************************************************************************)
EXTENDS Naturals, Sequences

CONSTANTS
  MAIN, Workers,         \* the threads
  NOBODY,                \* no thread
  Keys, Capacity,        \* the server's arguments, see Arguments.tla
  CommandLines,          \* sequences of arguments
  MaxJobs, MaxSignals    \* bounds: requests served, signals sent

Args == INSTANCE Arguments

\* An argument of the command line; "fits" is whether it is within MAX_PARAMETER_SIZE.
Argument == [split : BOOLEAN, key : Keys \union {"unknown"}, value : Seq(Nat),
             fits : BOOLEAN]

Thread == Workers \union {MAIN}

ASSUME LifecycleAssumption ==
  /\ MAIN \notin Workers /\ NOBODY \notin Thread
  /\ Capacity \in [Keys -> Nat]
  /\ CommandLines \subseteq Seq(Argument)
  /\ MaxJobs \in Nat /\ MaxSignals \in Nat

\* Mutant of Declared: the pool is declared before what its threads use.
Declared_PoolFirst == <<"pool", "plugin", "connector">>

\* The smart pointers of Server::run, in the order of their declaration.
Declared == <<"plugin", "connector", "pool">>

VARIABLES
  \* the main thread
  pc,             \* its position
  argv, args,     \* what is left of the command line; the parameters
  constructed,    \* which of the declared objects exist
  exc,            \* is an exception on its way out of Server::run
  exit,           \* "running", "success", "failure", "aborted" or "killed"
  \* the plugin
  library,        \* is the library loaded
  functions,      \* is the function table filled
  plugin,         \* "none", "live", "refused" or "destroyed"
  \* descriptors
  listener,       \* the server socket: "closed" or "open"
  trigger,        \* the self-pipe: "closed", "empty" or "byte"
  \* the worker pool and the connector's locks
  wpc,            \* the position of each thread
  pool_lock,      \* action_queue_lock
  com_lock,       \* com_queue_lock
  stop_workers,
  jobs, served,   \* requests on the action queue; requests so far
  \* signals
  handled,        \* are the handlers installed
  signals,        \* signals sent
  signal_flag, wakeup_fd, signal_lock,
  masked,         \* the threads that block the signals
  section,        \* where each thread is in a section under signal_lock
  seen,           \* what is_signaled read
  handler         \* where each thread is in ufh_signal_handler

mainVars    == <<argv, args, constructed, exc>>
pluginVars  == <<library, functions, plugin>>
poolVars    == <<wpc, pool_lock, stop_workers, jobs, served>>
signalVars  == <<handled, signals, signal_flag, wakeup_fd, signal_lock, masked, section, seen,
                 handler>>
vars == <<pc, mainVars, exit, pluginVars, listener, trigger, poolVars, com_lock, signalVars>>

\* A thread inside the handler does nothing else.
Runs(t) == exit = "running" /\ handler[t] = "none"

At(p) == Runs(MAIN) /\ pc = p
Goto(p) == pc' = p

\* An exception leaves the try block of Server::run: the objects that were constructed
\* are destroyed and the exit code stays EXIT_FAILURE.
Throw == exc' = TRUE /\ Goto("unwind")

-----------------------------------------------------------------------------
(***************************************************************************)
(* Starting.                                                               *)
(***************************************************************************)

\* SignalHandler::get_instance.  main catches bad_alloc, but not the OsException of a
\* sigaction that failed.
GetInstance ==
  /\ At("signals")
  /\ \/ /\ handled' = TRUE
        /\ Goto("arguments")
        /\ UNCHANGED exit
     \/ /\ exit' \in {"aborted", "failure"}
        /\ UNCHANGED <<handled, pc>>
  /\ UNCHANGED <<mainVars, pluginVars, listener, trigger, poolVars, com_lock, signals,
                 signal_flag, wakeup_fd, signal_lock, masked, section, seen, handler>>

Accepted(a) == a.fits /\ Args!Accepts(args, a)

\* One pass of the loop of read_parameters, and check_required after the last.
ReadArgument ==
  /\ At("arguments")
  /\ \/ /\ argv # << >> /\ Accepted(Head(argv))
        /\ args' = Args!ProcessArgument(args, Head(argv))
        /\ argv' = Tail(argv)
        /\ UNCHANGED <<pc, exc>>
     \/ /\ argv # << >> /\ ~Accepted(Head(argv))
        /\ Throw
        /\ UNCHANGED <<args, argv>>
     \/ /\ argv = << >>
        /\ IF Args!CheckRequired(args) THEN Goto("plugin") /\ UNCHANGED exc ELSE Throw
        /\ UNCHANGED <<args, argv>>
  /\ UNCHANGED <<constructed, exit, pluginVars, listener, trigger, poolVars, com_lock,
                 signalVars>>

\* load_plugin: without one of the five symbols it throws and leaves the library loaded.
LoadPlugin ==
  /\ At("plugin")
  /\ \/ /\ Throw
        /\ UNCHANGED <<library, functions>>
     \/ /\ library' = TRUE
        /\ Throw
        /\ UNCHANGED functions
     \/ /\ library' = TRUE /\ functions' = TRUE
        /\ Goto("plugin_init")
        /\ UNCHANGED exc
  /\ UNCHANGED <<argv, args, constructed, exit, plugin, listener, trigger, poolVars, com_lock,
                 signalVars>>

\* The rest of PluginMgr's constructor: when it throws, its destructor does not run.
InitPlugin ==
  /\ At("plugin_init")
  /\ \/ /\ plugin' = "refused"
        /\ Throw
        /\ UNCHANGED constructed
     \/ /\ plugin' = "live"
        /\ constructed' = constructed \union {"plugin"}
        /\ Goto("connector")
        /\ UNCHANGED exc
  /\ UNCHANGED <<argv, args, exit, library, functions, listener, trigger, poolVars, com_lock,
                 signalVars>>

\* The constructors of ServerConnector and WorkerPool, which open and start nothing.
Construct(object, next) ==
  /\ At(object)
  /\ \/ Throw /\ UNCHANGED constructed
     \/ /\ constructed' = constructed \union {object}
        /\ Goto(next)
        /\ UNCHANGED exc
  /\ UNCHANGED <<argv, args, exit, pluginVars, listener, trigger, poolVars, com_lock,
                 signalVars>>

\* WorkerPool::start takes the pool's lock, under which it creates the threads.
BeginStart ==
  /\ At("start") /\ pool_lock = NOBODY
  /\ pool_lock' = MAIN
  /\ Goto("create")
  /\ UNCHANGED <<mainVars, exit, pluginVars, listener, trigger, wpc, stop_workers, jobs, served,
                 com_lock, signalVars>>

Woken == [w \in Workers |-> IF wpc[w] = "waiting" THEN "enter" ELSE wpc[w]]

CreateThreads ==
  /\ At("create")
  /\ \/ /\ \E w \in Workers : wpc[w] = "none" /\ wpc' = [wpc EXCEPT ![w] = "enter"]
        /\ UNCHANGED <<pc, pool_lock, stop_workers>>
     \/ /\ \E w \in Workers : wpc[w] = "none"            \* std::system_error
        /\ stop_workers' = TRUE
        /\ wpc' = Woken
        /\ pool_lock' = NOBODY
        /\ Goto("join_created")
     \/ /\ \A w \in Workers : wpc[w] # "none"
        /\ pool_lock' = NOBODY
        /\ Goto("init")
        /\ UNCHANGED <<wpc, stop_workers>>
  /\ UNCHANGED <<mainVars, exit, pluginVars, listener, trigger, jobs, served, com_lock,
                 signalVars>>

\* await_threads_termination: the threads that are joinable.
Join ==
  /\ \A w \in Workers : wpc[w] \in {"none", "ended", "joined"}
  /\ wpc' = [w \in Workers |-> IF wpc[w] = "none" THEN "none" ELSE "joined"]

JoinCreated ==
  /\ At("join_created")
  /\ Join
  /\ Throw
  /\ UNCHANGED <<argv, args, constructed, exit, pluginVars, listener, trigger, pool_lock,
                 stop_workers, jobs, served, com_lock, signalVars>>

-----------------------------------------------------------------------------
(***************************************************************************)
(* ServerConnector::run.                                                   *)
(***************************************************************************)

\* init: before the socket is open, before the pipe is, and after it a call may fail.
InitConnector ==
  /\ At("init")
  /\ \/ /\ listener' \in {"closed", "open"}
        /\ trigger' \in {"closed", "empty"}
        /\ trigger' = "empty" => listener' = "open"
        /\ exc' = TRUE
        /\ Goto("cleanup")
     \/ /\ listener' = "open" /\ trigger' = "empty"
        /\ Goto("enable")
        /\ UNCHANGED exc
  /\ UNCHANGED <<argv, args, constructed, exit, pluginVars, poolVars, com_lock, signalVars>>

\* select() returns for the pipe, which is drained; the pass over the com queue follows.
SelectTrigger ==
  /\ At("select") /\ trigger = "byte" /\ com_lock = NOBODY
  /\ trigger' = "empty"
  /\ Goto("test")
  /\ UNCHANGED <<mainVars, exit, pluginVars, listener, poolVars, com_lock, signalVars>>

\* It returns for a client whose message is then complete: it joins the action queue,
\* and one worker is notified.
SelectClient ==
  /\ At("select") /\ served < MaxJobs /\ pool_lock = NOBODY /\ com_lock = NOBODY
  /\ served' = served + 1
  /\ jobs' = jobs + 1
  /\ IF \E w \in Workers : wpc[w] = "waiting"
     THEN \E w \in Workers : wpc[w] = "waiting" /\ wpc' = [wpc EXCEPT ![w] = "enter"]
     ELSE UNCHANGED wpc
  /\ Goto("test")
  /\ UNCHANGED <<mainVars, exit, pluginVars, listener, trigger, pool_lock, stop_workers,
                 com_lock, signalVars>>

\* It fails, with another error than EINTR.
SelectFails ==
  /\ At("select")
  /\ exc' = TRUE
  /\ Goto("cleanup")
  /\ UNCHANGED <<argv, args, constructed, exit, pluginVars, listener, trigger, poolVars,
                 com_lock, signalVars>>

\* cleanup up to com_queue_lock, and what is left after the flag is set.
CleanupAction ==
  /\ At("cleanup") /\ pool_lock = NOBODY
  /\ listener' = "closed"
  /\ jobs' = 0
  /\ Goto("cleanup_com")
  /\ UNCHANGED <<mainVars, exit, pluginVars, trigger, wpc, pool_lock, stop_workers, served,
                 com_lock, signalVars>>

CleanupCom ==
  /\ At("cleanup_com") /\ com_lock = NOBODY
  /\ com_lock' = MAIN
  /\ Goto("disable")
  /\ UNCHANGED <<mainVars, exit, pluginVars, listener, trigger, poolVars, signalVars>>

CloseTrigger ==
  /\ At("close_trigger")
  /\ trigger' = "closed"
  /\ com_lock' = NOBODY
  /\ Goto("unwind")
  /\ UNCHANGED <<mainVars, exit, pluginVars, listener, poolVars, signalVars>>

-----------------------------------------------------------------------------
(***************************************************************************)
(* Ending: the objects are destroyed in the reverse order of declaration.  *)
(***************************************************************************)
Exists(i) == i \in DOMAIN Declared /\ Declared[i] \in constructed

\* The one to destroy next.
Latest(object) ==
  \E i \in DOMAIN Declared :
    Declared[i] = object /\ Exists(i) /\ \A j \in DOMAIN Declared : Exists(j) => j <= i

Destroyed(object) == constructed' = constructed \ {object}

\* stop_threads.
StopThreads ==
  /\ At("unwind") /\ Latest("pool") /\ pool_lock = NOBODY
  /\ stop_workers' = TRUE
  /\ wpc' = Woken
  /\ Goto("join")
  /\ UNCHANGED <<mainVars, exit, pluginVars, listener, trigger, pool_lock, jobs, served,
                 com_lock, signalVars>>

DestroyPool ==
  /\ At("join")
  /\ Join
  /\ Destroyed("pool")
  /\ Goto("unwind")
  /\ UNCHANGED <<argv, args, exc, exit, pluginVars, listener, trigger, pool_lock, stop_workers,
                 jobs, served, com_lock, signalVars>>

DestroyConnector ==
  /\ At("unwind") /\ Latest("connector")
  /\ listener' = "closed"
  /\ Destroyed("connector")
  /\ UNCHANGED <<pc, argv, args, exc, exit, pluginVars, trigger, poolVars, com_lock, signalVars>>

\* ~PluginMgr: ufh_plugin_destroy and unload_plugin.
DestroyPlugin ==
  /\ At("unwind") /\ Latest("plugin")
  /\ plugin' = "destroyed"
  /\ library' = FALSE /\ functions' = FALSE
  /\ Destroyed("plugin")
  /\ UNCHANGED <<pc, argv, args, exc, exit, listener, trigger, poolVars, com_lock, signalVars>>

\* Server::run and main return.  ~SignalHandler asks for the handlers without changing
\* them: its argument, SIG_DFL as a pointer, is null.
Return ==
  /\ At("unwind") /\ constructed = {}
  /\ exit' = IF exc THEN "failure" ELSE "success"
  /\ UNCHANGED <<pc, mainVars, pluginVars, listener, trigger, poolVars, com_lock, signalVars>>

-----------------------------------------------------------------------------
(***************************************************************************)
(* The sections under signal_lock: enable_wakeup_fd, is_signaled ("test"), *)
(* disable_wakeup_fd and signal block the signals in the calling thread,   *)
(* take the lock, use what it protects, release it and unblock.            *)
(***************************************************************************)
Position(t) == IF t = MAIN THEN pc ELSE wpc[t]
InSection(t) == Runs(t) /\ Position(t) \in {"enable", "test", "disable", "signal"}

\* Mutant of Blocking: the signals are not blocked.
Blocking_Not(t) == masked

Blocking(t) == masked \union {t}

Block(t) ==
  /\ InSection(t) /\ section[t] = "out"
  /\ masked' = Blocking(t)
  /\ section' = [section EXCEPT ![t] = "blocked"]
  /\ UNCHANGED <<pc, mainVars, exit, pluginVars, listener, trigger, poolVars, com_lock, handled,
                 signals, signal_flag, wakeup_fd, signal_lock, seen, handler>>

Lock(t) ==
  /\ InSection(t) /\ section[t] = "blocked" /\ signal_lock = NOBODY
  /\ signal_lock' = t
  /\ section' = [section EXCEPT ![t] = "locked"]
  /\ UNCHANGED <<pc, mainVars, exit, pluginVars, listener, trigger, poolVars, com_lock, handled,
                 signals, signal_flag, wakeup_fd, masked, seen, handler>>

Unlock(t) ==
  /\ InSection(t) /\ section[t] = "locked"
  /\ wakeup_fd' = (Position(t) = "enable" \/ (wakeup_fd /\ Position(t) # "disable"))
  /\ signal_flag' = (signal_flag \/ Position(t) = "signal")
  /\ seen' = [seen EXCEPT ![t] = signal_flag']
  /\ signal_lock' = NOBODY
  /\ section' = [section EXCEPT ![t] = "unlocked"]
  /\ UNCHANGED <<pc, mainVars, exit, pluginVars, listener, trigger, poolVars, com_lock, handled,
                 signals, masked, handler>>

\* The caller goes on.
Unblock(t) ==
  /\ InSection(t) /\ section[t] = "unlocked"
  /\ masked' = masked \ {t}
  /\ section' = [section EXCEPT ![t] = "out"]
  /\ \/ /\ t \in Workers
        /\ wpc' = [wpc EXCEPT ![t] = "routed"]
        /\ UNCHANGED pc
     \/ /\ t = MAIN
        /\ \/ pc = "enable" /\ Goto("test")
           \/ pc = "test" /\ Goto(IF seen[t] THEN "cleanup" ELSE "select")
           \/ pc = "disable" /\ Goto("signal")
           \/ pc = "signal" /\ Goto("close_trigger")
        /\ UNCHANGED wpc
  /\ UNCHANGED <<mainVars, exit, pluginVars, listener, trigger, pool_lock, stop_workers, jobs,
                 served, com_lock, handled, signals, signal_flag, wakeup_fd, signal_lock, seen,
                 handler>>

-----------------------------------------------------------------------------
(***************************************************************************)
(* The worker threads.                                                     *)
(***************************************************************************)
Worker(w, from, to) == /\ Runs(w) /\ wpc[w] = from
                       /\ wpc' = [wpc EXCEPT ![w] = to]

\* Mutant of HaveJob: the queue is not found empty.
HaveJob_OffByOne == jobs >= 0

HaveJob == jobs > 0

\* Under the pool's lock: a job, or the end of the thread, or wait.  stop_workers comes
\* first at the top of worker_loop and last when a job is done.
Take(w, from) ==
  /\ pool_lock = NOBODY
  /\ \/ /\ HaveJob /\ (from = "enter" => ~stop_workers)
        /\ Worker(w, from, "call")
        /\ jobs' = jobs - 1
     \/ /\ stop_workers /\ (from = "enter" \/ ~HaveJob)
        /\ Worker(w, from, "ended")
        /\ UNCHANGED jobs
     \/ /\ ~stop_workers /\ ~HaveJob
        /\ Worker(w, from, "waiting")
        /\ UNCHANGED jobs
  /\ UNCHANGED <<pc, mainVars, exit, pluginVars, listener, trigger, pool_lock, stop_workers,
                 served, com_lock, signalVars>>

SpuriousWakeup(w) ==
  /\ Worker(w, "waiting", "enter")
  /\ UNCHANGED <<pc, mainVars, exit, pluginVars, listener, trigger, pool_lock, stop_workers, jobs,
                 served, com_lock, signalVars>>

\* The plugin returns.
FenceReturns(w) ==
  /\ Worker(w, "call", "route")
  /\ UNCHANGED <<pc, mainVars, exit, pluginVars, listener, trigger, pool_lock, stop_workers, jobs,
                 served, com_lock, signalVars>>

\* is_signaled is called with com_queue_lock.
BeginRoute(w) ==
  /\ com_lock = NOBODY
  /\ Worker(w, "route", "test")
  /\ com_lock' = w
  /\ UNCHANGED <<pc, mainVars, exit, pluginVars, listener, trigger, pool_lock, stop_workers, jobs,
                 served, signalVars>>

\* A byte for the pipe, unless it is closed.
Triggered == IF trigger = "closed" THEN "closed" ELSE "byte"

EndRoute(w) ==
  /\ Worker(w, "routed", "relock")
  /\ trigger' = IF seen[w] THEN trigger ELSE Triggered
  /\ com_lock' = NOBODY
  /\ UNCHANGED <<pc, mainVars, exit, pluginVars, listener, pool_lock, stop_workers, jobs, served,
                 signalVars>>

-----------------------------------------------------------------------------
(***************************************************************************)
(* Signals.  The process takes one in any of its threads that does not     *)
(* block it; the handler runs with the signals blocked.                    *)
(***************************************************************************)
Alive(t) == t \in Workers => wpc[t] \notin {"none", "ended", "joined"}

Signal(t) ==
  /\ Runs(t) /\ Alive(t) /\ t \notin masked
  /\ signals < MaxSignals
  /\ signals' = signals + 1
  /\ IF handled THEN handler' = [handler EXCEPT ![t] = "lock"] /\ UNCHANGED exit
                ELSE exit' = "killed" /\ UNCHANGED handler
  /\ UNCHANGED <<pc, mainVars, pluginVars, listener, trigger, poolVars, com_lock, handled,
                 signal_flag, wakeup_fd, signal_lock, masked, section, seen>>

InHandler(t, at) == exit = "running" /\ handler[t] = at

\* Mutant of Holder: the handler goes on without the lock.
Holder_Nobody(t) == NOBODY

Holder(t) == t

HandlerLock(t) ==
  /\ InHandler(t, "lock") /\ signal_lock = NOBODY
  /\ signal_lock' = Holder(t)
  /\ signal_flag' = TRUE
  /\ handler' = [handler EXCEPT ![t] = IF wakeup_fd THEN "write" ELSE "unlock"]
  /\ UNCHANGED <<pc, mainVars, exit, pluginVars, listener, trigger, poolVars, com_lock, handled,
                 signals, wakeup_fd, masked, section, seen>>

HandlerWrite(t) ==
  /\ InHandler(t, "write")
  /\ trigger' = Triggered
  /\ handler' = [handler EXCEPT ![t] = "unlock"]
  /\ UNCHANGED <<pc, mainVars, exit, pluginVars, listener, poolVars, com_lock, handled, signals,
                 signal_flag, wakeup_fd, signal_lock, masked, section, seen>>

\* A select() that had begun returns with EINTR.
HandlerReturn(t) ==
  /\ InHandler(t, "unlock")
  /\ signal_lock' = NOBODY
  /\ handler' = [handler EXCEPT ![t] = "none"]
  /\ pc' \in {pc} \union (IF t = MAIN /\ pc = "select" THEN {"test"} ELSE {})
  /\ UNCHANGED <<mainVars, exit, pluginVars, listener, trigger, poolVars, com_lock, handled,
                 signals, signal_flag, wakeup_fd, masked, section, seen>>

-----------------------------------------------------------------------------
Init ==
  /\ pc = "signals"
  /\ argv \in CommandLines
  /\ args = Args!MarkRequired(Args!NoEntries, Keys)
  /\ constructed = {} /\ exc = FALSE /\ exit = "running"
  /\ library = FALSE /\ functions = FALSE /\ plugin = "none"
  /\ listener = "closed" /\ trigger = "closed"
  /\ wpc = [w \in Workers |-> "none"]
  /\ pool_lock = NOBODY /\ com_lock = NOBODY
  /\ stop_workers = FALSE /\ jobs = 0 /\ served = 0
  /\ handled = FALSE /\ signals = 0
  /\ signal_flag = FALSE /\ wakeup_fd = FALSE /\ signal_lock = NOBODY
  /\ masked = {}
  /\ section = [t \in Thread |-> "out"]
  /\ seen = [t \in Thread |-> FALSE]
  /\ handler = [t \in Thread |-> "none"]

\* SelectClient depends on peers, SelectFails on the system.
MainStep ==
  \/ GetInstance \/ ReadArgument \/ LoadPlugin \/ InitPlugin
  \/ Construct("connector", "pool") \/ Construct("pool", "start")
  \/ BeginStart \/ CreateThreads \/ JoinCreated
  \/ InitConnector \/ SelectTrigger
  \/ CleanupAction \/ CleanupCom \/ CloseTrigger
  \/ StopThreads \/ DestroyPool \/ DestroyConnector \/ DestroyPlugin \/ Return

WorkerStep(w) == \/ Take(w, "enter") \/ Take(w, "relock")
                 \/ FenceReturns(w) \/ BeginRoute(w) \/ EndRoute(w)

SignalStep(t) == \/ Block(t) \/ Lock(t) \/ Unlock(t) \/ Unblock(t)
                 \/ HandlerLock(t) \/ HandlerWrite(t) \/ HandlerReturn(t)

Next == \/ MainStep \/ SelectClient \/ SelectFails
        \/ \E w \in Workers : WorkerStep(w) \/ SpuriousWakeup(w)
        \/ \E t \in Thread : SignalStep(t) \/ Signal(t)

\* Every thread runs and a call of the plugin returns.
Spec == /\ Init /\ [][Next]_vars
        /\ WF_vars(MainStep \/ SignalStep(MAIN))
        /\ \A w \in Workers : WF_vars(WorkerStep(w) \/ SignalStep(w))

-----------------------------------------------------------------------------
(***************************************************************************)
(* Properties.                                                             *)
(***************************************************************************)
MainTypes ==
  /\ pc \in {"signals", "arguments", "plugin", "plugin_init", "connector", "pool", "start",
             "create", "join_created", "init", "enable", "test", "select", "cleanup",
             "cleanup_com", "disable", "signal", "close_trigger", "unwind", "join"}
  /\ argv \in Seq(Argument)
  /\ args \in [Keys -> [value : Seq(Nat), present : BOOLEAN, required : BOOLEAN]]
  /\ constructed \subseteq {"plugin", "connector", "pool"} /\ exc \in BOOLEAN
  /\ exit \in {"running", "success", "failure", "aborted", "killed"}

ResourceTypes ==
  /\ library \in BOOLEAN /\ functions \in BOOLEAN
  /\ plugin \in {"none", "live", "refused", "destroyed"}
  /\ listener \in {"closed", "open"} /\ trigger \in {"closed", "empty", "byte"}

PoolTypes ==
  /\ wpc \in [Workers -> {"none", "enter", "waiting", "call", "route", "test", "routed",
                          "relock", "ended", "joined"}]
  /\ pool_lock \in {MAIN, NOBODY} /\ com_lock \in Thread \union {NOBODY}
  /\ stop_workers \in BOOLEAN /\ jobs \in 0 .. MaxJobs /\ served \in 0 .. MaxJobs

SignalTypes ==
  /\ handled \in BOOLEAN /\ signals \in 0 .. MaxSignals
  /\ signal_flag \in BOOLEAN /\ wakeup_fd \in BOOLEAN
  /\ signal_lock \in Thread \union {NOBODY}
  /\ masked \subseteq Thread
  /\ section \in [Thread -> {"out", "blocked", "locked", "unlocked"}]
  /\ seen \in [Thread -> BOOLEAN]
  /\ handler \in [Thread -> {"none", "lock", "write", "unlock"}]

\* Every variable holds a value of its type; no more requests are queued than were
\* received (ServerConnector.cpp:229-235, 476-478).
TypeOK == MainTypes /\ ResourceTypes /\ PoolTypes /\ SignalTypes

\* While a worker is in the plugin its functions and context are there, and while one
\* runs at all so are the pool and the connector it works on, whichever step of start or
\* shutdown fails.  When the process returns from main, every thread has been joined,
\* every descriptor is closed, and the plugin that was initialised has been destroyed and
\* unloaded (Server.cpp:45-78, 162-201, WorkerPool.cpp:16-20, 40-61).
Lifetimes ==
  /\ \A w \in Workers : wpc[w] = "call" => plugin = "live" /\ functions
  /\ \A w \in Workers : Alive(w) => {"connector", "pool"} \subseteq constructed
  /\ exit \in {"success", "failure"} =>
       /\ \A w \in Workers : wpc[w] \in {"none", "joined"}
       /\ listener = "closed" /\ trigger = "closed"
       /\ plugin # "live" /\ (plugin = "destroyed" => ~library)

\* The handler, in whatever thread it runs, never writes to the pipe after it was closed:
\* disable_wakeup_fd waits for a handler that has seen the descriptor
\* (SignalHandler.cpp:91-98, 103-120, ServerConnector.cpp:305-320).
HandlerWritesOpenPipe == \A t \in Thread : InHandler(t, "write") => trigger # "closed"

\* A stop signal ends the process, in whatever thread and at whatever step of start,
\* service or shutdown it arrives: the handler never waits for a lock that the thread it
\* interrupted holds, the byte in the pipe wakes the selector whether or not it was in
\* select() already, and each thread that was created is joined
\* (SignalHandler.cpp:63-121, ServerConnector.cpp:133-134, WorkerPool.cpp:52-59, 90-116).
SignalEndsProcess == signals > 0 ~> exit # "running"
=============================================================================
