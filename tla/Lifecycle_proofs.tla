------------------------- MODULE Lifecycle_proofs -------------------------
(***************************************************************************)
(* Proofs about Lifecycle.tla, for any threads, command lines, numbers of  *)
(* requests and of signals: types, that nothing is destroyed while a       *)
(* thread uses it, and that no handler writes to a closed pipe.            *)
(***************************************************************************)
EXTENDS Lifecycle, TLAPS

-----------------------------------------------------------------------------
(***************************************************************************)
(* The inductive invariant.                                                *)
(***************************************************************************)
BeforePlugin == {"signals", "arguments", "plugin", "plugin_init"}

WithPool == {"start", "create", "join_created", "init", "enable", "test", "select", "cleanup",
             "cleanup_com", "disable", "signal", "close_trigger", "join"}

WithTrigger == {"enable", "test", "select", "cleanup", "cleanup_com", "disable", "signal",
                "close_trigger"}

\* Which objects exist at each position of the main thread, each only with those
\* declared before it; what the plugin has then; and that there are threads only with
\* a pool.
LifetimeInv ==
  /\ "pool" \in constructed => "connector" \in constructed
  /\ "connector" \in constructed => "plugin" \in constructed
  /\ pc = "connector" => "plugin" \in constructed
  /\ pc = "pool" => "connector" \in constructed
  /\ pc \in WithPool => "pool" \in constructed
  /\ pc \in BeforePlugin => plugin = "none"
  /\ "plugin" \in constructed <=> plugin = "live"
  /\ pc = "plugin_init" => functions
  /\ plugin = "live" => functions
  /\ plugin = "destroyed" => ~library
  /\ \A w \in Workers : wpc[w] \notin {"none", "joined"} => "pool" \in constructed
  /\ listener = "open" => pc \in {"enable", "test", "select", "cleanup"}
  /\ trigger # "closed" => pc \in WithTrigger
  /\ exit \in {"success", "failure"} =>
       "plugin" \notin constructed /\ pc \in {"signals", "unwind"}

\* Who is in a section has blocked the signals, so that no handler interrupts it; who
\* is behind the lock, in a section or in a handler, holds it; and the descriptor is
\* set only while the pipe is open, until disable_wakeup_fd has had the lock.
SectionInv ==
  /\ pc \notin {"enable", "test", "disable", "signal"} => section[MAIN] = "out"
  /\ \A t \in Thread : section[t] # "out" => t \in masked /\ handler[t] = "none"
  /\ \A t \in Thread : section[t] = "locked" => signal_lock = t
  /\ \A t \in Thread : handler[t] \in {"write", "unlock"} => signal_lock = t
  /\ \A t \in Thread : handler[t] = "write" => wakeup_fd
  /\ pc \in {"enable", "test", "select"} => trigger # "closed"
  /\ wakeup_fd => /\ trigger # "closed"
                  /\ pc \in WithTrigger \ {"signal", "close_trigger"}
                  /\ pc = "disable" => section[MAIN] # "unlocked"

EntryType == [value : Seq(Nat), present : BOOLEAN, required : BOOLEAN]

LInv == TypeOK /\ jobs <= served /\ LifetimeInv /\ SectionInv

\* The tuples of variables are no more than abbreviations.
USE DEF mainVars, pluginVars, poolVars, signalVars

\* A step that leaves what a part speaks of leaves the part.
LEMMA LifetimeFrame ==
  ASSUME LifetimeInv,
         UNCHANGED <<pc, constructed, plugin, functions, library, wpc, listener, trigger, exit>>
  PROVE  LifetimeInv'
BY DEF LifetimeInv

LEMMA SectionFrame ==
  ASSUME SectionInv,
         UNCHANGED <<pc, section, masked, handler, signal_lock, wakeup_fd, trigger>>
  PROVE  SectionInv'
BY DEF SectionInv

\* The objects are destroyed in the reverse order of their declaration.
LEMMA LatestIs ==
  /\ Latest("pool") => "pool" \in constructed
  /\ Latest("connector") => "connector" \in constructed /\ "pool" \notin constructed
  /\ Latest("plugin") => "plugin" \in constructed /\ "connector" \notin constructed
BY DEF Latest, Exists, Declared

LEMMA InitInv == Init => LInv
<1> SUFFICES ASSUME Init PROVE LInv
  OBVIOUS
<1>1. MainTypes
  <2>1. Args!NoEntries \in [Keys -> EntryType]
    BY DEF Args!NoEntries, EntryType
  <2>2. args \in [Keys -> EntryType]
    BY <2>1 DEF Init, Args!MarkRequired, EntryType
  <2>3. argv \in Seq(Argument)
    BY LifecycleAssumption DEF Init
  <2> QED BY <2>2, <2>3 DEF Init, MainTypes, EntryType
<1>2. ResourceTypes /\ PoolTypes /\ SignalTypes
  <2>1. 0 \in 0 .. MaxJobs /\ 0 \in 0 .. MaxSignals
    BY LifecycleAssumption
  <2>2. ResourceTypes
    BY DEF Init, ResourceTypes
  <2>3. PoolTypes
    BY <2>1 DEF Init, PoolTypes
  <2>4. SignalTypes
    BY <2>1 DEF Init, SignalTypes
  <2> QED BY <2>2, <2>3, <2>4
<1>3. LifetimeInv
  BY DEF Init, LifetimeInv, BeforePlugin, WithPool, WithTrigger
<1>4. SectionInv
  BY DEF Init, SectionInv, WithTrigger, Thread
<1> QED BY <1>1, <1>2, <1>3, <1>4 DEF LInv, TypeOK, Init

-----------------------------------------------------------------------------
(***************************************************************************)
(* Starting.                                                               *)
(***************************************************************************)
LEMMA GetInstanceStep ==
  ASSUME LInv, GetInstance
  PROVE  LInv'
<1>1. TypeOK'
  <2>1. MainTypes'
    BY DEF LInv, TypeOK, MainTypes, GetInstance, At, Runs, Goto
  <2>2. SignalTypes'
    BY DEF LInv, TypeOK, SignalTypes, GetInstance, At, Runs, Goto
  <2>3. ResourceTypes' /\ PoolTypes'
    BY DEF LInv, TypeOK, ResourceTypes, PoolTypes, GetInstance, At, Runs, Goto
  <2> QED BY <2>1, <2>2, <2>3 DEF TypeOK
<1>2. (jobs <= served)'
  BY DEF LInv, GetInstance, At, Runs, Goto
<1>3. LifetimeInv'
  BY DEF LInv, LifetimeInv, BeforePlugin, WithPool, WithTrigger, GetInstance, At, Runs,
     Goto
<1>4. SectionInv'
  BY DEF LInv, SectionInv, WithTrigger, GetInstance, At, Runs, Goto
<1> QED BY <1>1, <1>2, <1>3, <1>4 DEF LInv

LEMMA ReadArgumentStep ==
  ASSUME LInv, ReadArgument
  PROVE  LInv'
<1>1. MainTypes'
  <2>0. args \in [Keys -> EntryType] /\ argv \in Seq(Argument) /\ MainTypes
    BY DEF LInv, TypeOK, MainTypes, EntryType
  <2>1. CASE argv # << >> /\ Accepted(Head(argv))
    <3>1. Head(argv) \in Argument /\ Tail(argv) \in Seq(Argument)
      BY <2>0, <2>1
    <3>2. Head(argv).key \in Keys /\ Head(argv).value \in Seq(Nat)
      BY <2>1, <3>1 DEF Accepted, Args!Accepts, Argument
    <3>3. Args!ProcessArgument(args, Head(argv)) \in [Keys -> EntryType]
      BY <2>0, <3>2 DEF Args!ProcessArgument, EntryType
    <3>4. /\ args' = Args!ProcessArgument(args, Head(argv)) /\ argv' = Tail(argv)
          /\ UNCHANGED <<pc, exc, constructed, exit>>
      BY <2>1 DEF ReadArgument
    <3> QED BY <2>0, <3>1, <3>3, <3>4 DEF MainTypes, EntryType
  <2>2. CASE argv # << >> /\ ~Accepted(Head(argv))
    <3>1. exc' = TRUE /\ pc' = "unwind" /\ UNCHANGED <<args, argv, constructed, exit>>
      BY <2>2 DEF ReadArgument, Throw, Goto
    <3> QED BY <2>0, <3>1 DEF MainTypes
  <2>3. CASE argv = << >>
    <3>1. /\ UNCHANGED <<args, argv, constructed, exit>>
          /\ \/ pc' = "plugin" /\ exc' = exc
             \/ pc' = "unwind" /\ exc' = TRUE
      BY <2>3 DEF ReadArgument, Throw, Goto
    <3> QED BY <2>0, <3>1 DEF MainTypes
  <2> QED BY <2>1, <2>2, <2>3
<1>2. /\ At("arguments")
      /\ pc' \in {"arguments", "plugin", "unwind"}
      /\ UNCHANGED <<constructed, exit, pluginVars, listener, trigger, poolVars, com_lock,
                     signalVars>>
  BY DEF ReadArgument, At, Throw, Goto
<1>3. ResourceTypes' /\ PoolTypes' /\ SignalTypes' /\ (jobs <= served)'
  BY <1>2 DEF LInv, TypeOK, ResourceTypes, PoolTypes, SignalTypes
<1>4. LifetimeInv'
  BY <1>2 DEF LInv, LifetimeInv, BeforePlugin, WithPool, WithTrigger, At, Runs
<1>5. SectionInv'
  BY <1>2 DEF LInv, SectionInv, WithTrigger, At
<1> QED BY <1>1, <1>3, <1>4, <1>5 DEF LInv, TypeOK

LEMMA LoadPluginStep ==
  ASSUME LInv, LoadPlugin
  PROVE  LInv'
<1>1. TypeOK'
  <2>1. MainTypes'
    BY DEF LInv, TypeOK, MainTypes, LoadPlugin, At, Runs, Goto, Throw
  <2>2. ResourceTypes'
    BY DEF LInv, TypeOK, ResourceTypes, LoadPlugin, At, Runs, Goto, Throw
  <2>3. PoolTypes' /\ SignalTypes'
    BY DEF LInv, TypeOK, PoolTypes, SignalTypes, LoadPlugin, At, Runs, Goto, Throw
  <2> QED BY <2>1, <2>2, <2>3 DEF TypeOK
<1>2. (jobs <= served)'
  BY DEF LInv, LoadPlugin, At, Runs, Goto, Throw
<1>3. LifetimeInv'
  BY DEF LInv, LifetimeInv, BeforePlugin, WithPool, WithTrigger, LoadPlugin, At, Runs,
     Goto, Throw
<1>4. SectionInv'
  BY DEF LInv, SectionInv, WithTrigger, LoadPlugin, At, Runs, Goto, Throw
<1> QED BY <1>1, <1>2, <1>3, <1>4 DEF LInv

LEMMA InitPluginStep ==
  ASSUME LInv, InitPlugin
  PROVE  LInv'
<1>1. TypeOK'
  <2>1. MainTypes'
    BY DEF LInv, TypeOK, MainTypes, InitPlugin, At, Runs, Goto, Throw
  <2>2. ResourceTypes'
    BY DEF LInv, TypeOK, ResourceTypes, InitPlugin, At, Runs, Goto, Throw
  <2>3. PoolTypes' /\ SignalTypes'
    BY DEF LInv, TypeOK, PoolTypes, SignalTypes, InitPlugin, At, Runs, Goto, Throw
  <2> QED BY <2>1, <2>2, <2>3 DEF TypeOK
<1>2. (jobs <= served)'
  BY DEF LInv, InitPlugin, At, Runs, Goto, Throw
<1>3. LifetimeInv'
  BY DEF LInv, LifetimeInv, BeforePlugin, WithPool, WithTrigger, InitPlugin, At, Runs,
     Goto, Throw
<1>4. SectionInv'
  BY DEF LInv, SectionInv, WithTrigger, InitPlugin, At, Runs, Goto, Throw
<1> QED BY <1>1, <1>2, <1>3, <1>4 DEF LInv

LEMMA ConstructConnectorStep ==
  ASSUME LInv, Construct("connector", "pool")
  PROVE  LInv'
<1>1. TypeOK'
  <2>1. MainTypes'
    BY DEF LInv, TypeOK, MainTypes, Construct, At, Runs, Goto, Throw
  <2>2. ResourceTypes' /\ PoolTypes' /\ SignalTypes'
    BY DEF LInv, TypeOK, ResourceTypes, PoolTypes, SignalTypes, Construct, At, Runs, Goto,
       Throw
  <2> QED BY <2>1, <2>2 DEF TypeOK
<1>2. (jobs <= served)'
  BY DEF LInv, Construct, At, Runs, Goto, Throw
<1>3. LifetimeInv'
  BY DEF LInv, LifetimeInv, BeforePlugin, WithPool, WithTrigger, Construct, At, Runs,
     Goto, Throw
<1>4. SectionInv'
  BY DEF LInv, SectionInv, WithTrigger, Construct, At, Runs, Goto, Throw
<1> QED BY <1>1, <1>2, <1>3, <1>4 DEF LInv

LEMMA ConstructPoolStep ==
  ASSUME LInv, Construct("pool", "start")
  PROVE  LInv'
<1>1. TypeOK'
  <2>1. MainTypes'
    BY DEF LInv, TypeOK, MainTypes, Construct, At, Runs, Goto, Throw
  <2>2. ResourceTypes' /\ PoolTypes' /\ SignalTypes'
    BY DEF LInv, TypeOK, ResourceTypes, PoolTypes, SignalTypes, Construct, At, Runs, Goto,
       Throw
  <2> QED BY <2>1, <2>2 DEF TypeOK
<1>2. (jobs <= served)'
  BY DEF LInv, Construct, At, Runs, Goto, Throw
<1>3. LifetimeInv'
  BY DEF LInv, LifetimeInv, BeforePlugin, WithPool, WithTrigger, Construct, At, Runs,
     Goto, Throw
<1>4. SectionInv'
  BY DEF LInv, SectionInv, WithTrigger, Construct, At, Runs, Goto, Throw
<1> QED BY <1>1, <1>2, <1>3, <1>4 DEF LInv

LEMMA BeginStartStep ==
  ASSUME LInv, BeginStart
  PROVE  LInv'
<1>1. TypeOK'
  <2>1. MainTypes'
    BY DEF LInv, TypeOK, MainTypes, BeginStart, At, Runs, Goto
  <2>2. PoolTypes'
    BY DEF LInv, TypeOK, PoolTypes, BeginStart, At, Runs, Goto
  <2>3. ResourceTypes' /\ SignalTypes'
    BY DEF LInv, TypeOK, ResourceTypes, SignalTypes, BeginStart, At, Runs, Goto
  <2> QED BY <2>1, <2>2, <2>3 DEF TypeOK
<1>2. (jobs <= served)'
  BY DEF LInv, BeginStart, At, Runs, Goto
<1>3. LifetimeInv'
  BY DEF LInv, LifetimeInv, BeforePlugin, WithPool, WithTrigger, BeginStart, At, Runs,
     Goto
<1>4. SectionInv'
  BY DEF LInv, SectionInv, WithTrigger, BeginStart, At, Runs, Goto
<1> QED BY <1>1, <1>2, <1>3, <1>4 DEF LInv

LEMMA CreateThreadsStep ==
  ASSUME LInv, CreateThreads
  PROVE  LInv'
<1>1. TypeOK'
  <2>1. MainTypes'
    BY DEF LInv, TypeOK, MainTypes, CreateThreads, At, Runs, Goto, Woken
  <2>2. PoolTypes'
    BY DEF LInv, TypeOK, PoolTypes, CreateThreads, At, Runs, Goto, Woken
  <2>3. ResourceTypes' /\ SignalTypes'
    BY DEF LInv, TypeOK, ResourceTypes, SignalTypes, CreateThreads, At, Runs, Goto, Woken
  <2> QED BY <2>1, <2>2, <2>3 DEF TypeOK
<1>2. (jobs <= served)'
  BY DEF LInv, CreateThreads, At, Runs, Goto, Woken
<1>3. LifetimeInv'
  BY DEF LInv, LifetimeInv, BeforePlugin, WithPool, WithTrigger, CreateThreads, At, Runs,
     Goto, Woken
<1>4. SectionInv'
  BY DEF LInv, SectionInv, WithTrigger, CreateThreads, At, Runs, Goto, Woken
<1> QED BY <1>1, <1>2, <1>3, <1>4 DEF LInv

LEMMA JoinCreatedStep ==
  ASSUME LInv, JoinCreated
  PROVE  LInv'
<1>1. TypeOK'
  <2>1. MainTypes'
    BY DEF LInv, TypeOK, MainTypes, JoinCreated, At, Runs, Goto, Join, Throw
  <2>2. PoolTypes'
    BY DEF LInv, TypeOK, PoolTypes, JoinCreated, At, Runs, Goto, Join, Throw
  <2>3. ResourceTypes' /\ SignalTypes'
    BY DEF LInv, TypeOK, ResourceTypes, SignalTypes, JoinCreated, At, Runs, Goto, Join,
       Throw
  <2> QED BY <2>1, <2>2, <2>3 DEF TypeOK
<1>2. (jobs <= served)'
  BY DEF LInv, JoinCreated, At, Runs, Goto, Join, Throw
<1>3. LifetimeInv'
  BY DEF LInv, LifetimeInv, BeforePlugin, WithPool, WithTrigger, JoinCreated, At, Runs,
     Goto, Join, Throw
<1>4. SectionInv'
  BY DEF LInv, SectionInv, WithTrigger, JoinCreated, At, Runs, Goto, Join, Throw
<1> QED BY <1>1, <1>2, <1>3, <1>4 DEF LInv

-----------------------------------------------------------------------------
(***************************************************************************)
(* ServerConnector::run.                                                   *)
(***************************************************************************)
LEMMA InitConnectorStep ==
  ASSUME LInv, InitConnector
  PROVE  LInv'
<1>1. TypeOK'
  <2>1. MainTypes'
    BY DEF LInv, TypeOK, MainTypes, InitConnector, At, Runs, Goto
  <2>2. ResourceTypes'
    BY DEF LInv, TypeOK, ResourceTypes, InitConnector, At, Runs, Goto
  <2>3. PoolTypes' /\ SignalTypes'
    BY DEF LInv, TypeOK, PoolTypes, SignalTypes, InitConnector, At, Runs, Goto
  <2> QED BY <2>1, <2>2, <2>3 DEF TypeOK
<1>2. (jobs <= served)'
  BY DEF LInv, InitConnector, At, Runs, Goto
<1>3. LifetimeInv'
  BY DEF LInv, LifetimeInv, BeforePlugin, WithPool, WithTrigger, InitConnector, At, Runs,
     Goto
<1>4. SectionInv'
  BY DEF LInv, SectionInv, WithTrigger, InitConnector, At, Runs, Goto
<1> QED BY <1>1, <1>2, <1>3, <1>4 DEF LInv

LEMMA SelectTriggerStep ==
  ASSUME LInv, SelectTrigger
  PROVE  LInv'
<1>1. TypeOK'
  <2>1. MainTypes'
    BY DEF LInv, TypeOK, MainTypes, SelectTrigger, At, Runs, Goto
  <2>2. ResourceTypes'
    BY DEF LInv, TypeOK, ResourceTypes, SelectTrigger, At, Runs, Goto
  <2>3. PoolTypes' /\ SignalTypes'
    BY DEF LInv, TypeOK, PoolTypes, SignalTypes, SelectTrigger, At, Runs, Goto
  <2> QED BY <2>1, <2>2, <2>3 DEF TypeOK
<1>2. (jobs <= served)'
  BY DEF LInv, SelectTrigger, At, Runs, Goto
<1>3. LifetimeInv'
  BY DEF LInv, LifetimeInv, BeforePlugin, WithPool, WithTrigger, SelectTrigger, At, Runs,
     Goto
<1>4. SectionInv'
  BY DEF LInv, SectionInv, WithTrigger, SelectTrigger, At, Runs, Goto
<1> QED BY <1>1, <1>2, <1>3, <1>4 DEF LInv

LEMMA SelectClientStep ==
  ASSUME LInv, SelectClient
  PROVE  LInv'
<1>1. TypeOK'
  <2>1. MainTypes'
    BY DEF LInv, TypeOK, MainTypes, SelectClient, At, Runs, Goto
  <2>2. PoolTypes'
    BY LifecycleAssumption DEF LInv, TypeOK, PoolTypes, SelectClient, At, Runs, Goto
  <2>3. ResourceTypes' /\ SignalTypes'
    BY DEF LInv, TypeOK, ResourceTypes, SignalTypes, SelectClient, At, Runs, Goto
  <2> QED BY <2>1, <2>2, <2>3 DEF TypeOK
<1>2. (jobs <= served)'
  BY DEF LInv, TypeOK, PoolTypes, SelectClient, At, Runs, Goto
<1>3. LifetimeInv'
  BY DEF LInv, LifetimeInv, BeforePlugin, WithPool, WithTrigger, SelectClient, At, Runs,
     Goto
<1>4. SectionInv'
  BY DEF LInv, SectionInv, WithTrigger, SelectClient, At, Runs, Goto
<1> QED BY <1>1, <1>2, <1>3, <1>4 DEF LInv

LEMMA SelectFailsStep ==
  ASSUME LInv, SelectFails
  PROVE  LInv'
<1>1. TypeOK'
  <2>1. MainTypes'
    BY DEF LInv, TypeOK, MainTypes, SelectFails, At, Runs, Goto
  <2>2. ResourceTypes' /\ PoolTypes' /\ SignalTypes'
    BY DEF LInv, TypeOK, ResourceTypes, PoolTypes, SignalTypes, SelectFails, At, Runs,
       Goto
  <2> QED BY <2>1, <2>2 DEF TypeOK
<1>2. (jobs <= served)'
  BY DEF LInv, SelectFails, At, Runs, Goto
<1>3. LifetimeInv'
  BY DEF LInv, LifetimeInv, BeforePlugin, WithPool, WithTrigger, SelectFails, At, Runs,
     Goto
<1>4. SectionInv'
  BY DEF LInv, SectionInv, WithTrigger, SelectFails, At, Runs, Goto
<1> QED BY <1>1, <1>2, <1>3, <1>4 DEF LInv

LEMMA CleanupActionStep ==
  ASSUME LInv, CleanupAction
  PROVE  LInv'
<1>1. TypeOK'
  <2>1. MainTypes'
    BY DEF LInv, TypeOK, MainTypes, CleanupAction, At, Runs, Goto
  <2>2. ResourceTypes'
    BY DEF LInv, TypeOK, ResourceTypes, CleanupAction, At, Runs, Goto
  <2>3. PoolTypes'
    BY LifecycleAssumption DEF LInv, TypeOK, PoolTypes, CleanupAction, At, Runs, Goto
  <2>4. SignalTypes'
    BY DEF LInv, TypeOK, SignalTypes, CleanupAction, At, Runs, Goto
  <2> QED BY <2>1, <2>2, <2>3, <2>4 DEF TypeOK
<1>2. (jobs <= served)'
  BY DEF LInv, TypeOK, PoolTypes, CleanupAction, At, Runs, Goto
<1>3. LifetimeInv'
  BY DEF LInv, LifetimeInv, BeforePlugin, WithPool, WithTrigger, CleanupAction, At, Runs,
     Goto
<1>4. SectionInv'
  BY DEF LInv, SectionInv, WithTrigger, CleanupAction, At, Runs, Goto
<1> QED BY <1>1, <1>2, <1>3, <1>4 DEF LInv

LEMMA CleanupComStep ==
  ASSUME LInv, CleanupCom
  PROVE  LInv'
<1>1. TypeOK'
  <2>1. MainTypes'
    BY DEF LInv, TypeOK, MainTypes, CleanupCom, At, Runs, Goto, Thread
  <2>2. PoolTypes'
    BY DEF LInv, TypeOK, PoolTypes, CleanupCom, At, Runs, Goto, Thread
  <2>3. ResourceTypes' /\ SignalTypes'
    BY DEF LInv, TypeOK, ResourceTypes, SignalTypes, CleanupCom, At, Runs, Goto, Thread
  <2> QED BY <2>1, <2>2, <2>3 DEF TypeOK
<1>2. (jobs <= served)'
  BY DEF LInv, CleanupCom, At, Runs, Goto, Thread
<1>3. LifetimeInv'
  BY DEF LInv, LifetimeInv, BeforePlugin, WithPool, WithTrigger, CleanupCom, At, Runs,
     Goto, Thread
<1>4. SectionInv'
  BY DEF LInv, SectionInv, WithTrigger, CleanupCom, At, Runs, Goto, Thread
<1> QED BY <1>1, <1>2, <1>3, <1>4 DEF LInv

LEMMA CloseTriggerStep ==
  ASSUME LInv, CloseTrigger
  PROVE  LInv'
<1>1. TypeOK'
  <2>1. MainTypes'
    BY DEF LInv, TypeOK, MainTypes, CloseTrigger, At, Runs, Goto
  <2>2. ResourceTypes'
    BY DEF LInv, TypeOK, ResourceTypes, CloseTrigger, At, Runs, Goto
  <2>3. PoolTypes'
    BY DEF LInv, TypeOK, PoolTypes, CloseTrigger, At, Runs, Goto
  <2>4. SignalTypes'
    BY DEF LInv, TypeOK, SignalTypes, CloseTrigger, At, Runs, Goto
  <2> QED BY <2>1, <2>2, <2>3, <2>4 DEF TypeOK
<1>2. (jobs <= served)'
  BY DEF LInv, CloseTrigger, At, Runs, Goto
<1>3. LifetimeInv'
  BY DEF LInv, LifetimeInv, BeforePlugin, WithPool, WithTrigger, CloseTrigger, At, Runs,
     Goto
<1>4. SectionInv'
  BY DEF LInv, SectionInv, WithTrigger, CloseTrigger, At, Runs, Goto
<1> QED BY <1>1, <1>2, <1>3, <1>4 DEF LInv

-----------------------------------------------------------------------------
(***************************************************************************)
(* Ending.                                                                 *)
(***************************************************************************)
LEMMA StopThreadsStep ==
  ASSUME LInv, StopThreads
  PROVE  LInv'
<1>1. TypeOK'
  <2>1. MainTypes'
    BY DEF LInv, TypeOK, MainTypes, StopThreads, At, Runs, Goto, Woken
  <2>2. PoolTypes'
    BY DEF LInv, TypeOK, PoolTypes, StopThreads, At, Runs, Goto, Woken
  <2>3. ResourceTypes' /\ SignalTypes'
    BY DEF LInv, TypeOK, ResourceTypes, SignalTypes, StopThreads, At, Runs, Goto, Woken
  <2> QED BY <2>1, <2>2, <2>3 DEF TypeOK
<1>2. (jobs <= served)'
  BY DEF LInv, StopThreads, At, Runs, Goto, Woken
<1>3. LifetimeInv'
  BY LatestIs DEF LInv, LifetimeInv, BeforePlugin, WithPool, WithTrigger, StopThreads, At, Runs, Goto, Woken
<1>4. SectionInv'
  BY DEF LInv, SectionInv, WithTrigger, StopThreads, At, Runs, Goto, Woken
<1> QED BY <1>1, <1>2, <1>3, <1>4 DEF LInv

LEMMA DestroyPoolStep ==
  ASSUME LInv, DestroyPool
  PROVE  LInv'
<1>1. TypeOK'
  <2>1. MainTypes'
    BY DEF LInv, TypeOK, MainTypes, DestroyPool, At, Runs, Goto, Join, Destroyed
  <2>2. PoolTypes'
    BY DEF LInv, TypeOK, PoolTypes, DestroyPool, At, Runs, Goto, Join, Destroyed
  <2>3. ResourceTypes' /\ SignalTypes'
    BY DEF LInv, TypeOK, ResourceTypes, SignalTypes, DestroyPool, At, Runs, Goto, Join,
       Destroyed
  <2> QED BY <2>1, <2>2, <2>3 DEF TypeOK
<1>2. (jobs <= served)'
  BY DEF LInv, DestroyPool, At, Runs, Goto, Join, Destroyed
<1>3. LifetimeInv'
  BY DEF LInv, LifetimeInv, BeforePlugin, WithPool, WithTrigger, DestroyPool, At, Runs,
     Goto, Join, Destroyed
<1>4. SectionInv'
  BY DEF LInv, SectionInv, WithTrigger, DestroyPool, At, Runs, Goto, Join, Destroyed
<1> QED BY <1>1, <1>2, <1>3, <1>4 DEF LInv

LEMMA DestroyConnectorStep ==
  ASSUME LInv, DestroyConnector
  PROVE  LInv'
<1>1. TypeOK'
  <2>1. MainTypes'
    BY DEF LInv, TypeOK, MainTypes, DestroyConnector, At, Runs, Goto, Destroyed
  <2>2. ResourceTypes'
    BY DEF LInv, TypeOK, ResourceTypes, DestroyConnector, At, Runs, Goto, Destroyed
  <2>3. PoolTypes' /\ SignalTypes'
    BY DEF LInv, TypeOK, PoolTypes, SignalTypes, DestroyConnector, At, Runs, Goto,
       Destroyed
  <2> QED BY <2>1, <2>2, <2>3 DEF TypeOK
<1>2. (jobs <= served)'
  BY DEF LInv, DestroyConnector, At, Runs, Goto, Destroyed
<1>3. LifetimeInv'
  BY LatestIs DEF LInv, LifetimeInv, BeforePlugin, WithPool, WithTrigger, DestroyConnector, At, Runs, Goto,
     Destroyed
<1>4. SectionInv'
  BY SectionFrame DEF LInv, DestroyConnector, At, Runs, Goto, Destroyed
<1> QED BY <1>1, <1>2, <1>3, <1>4 DEF LInv

LEMMA DestroyPluginStep ==
  ASSUME LInv, DestroyPlugin
  PROVE  LInv'
<1>1. TypeOK'
  <2>1. MainTypes'
    BY DEF LInv, TypeOK, MainTypes, DestroyPlugin, At, Runs, Goto, Destroyed
  <2>2. ResourceTypes'
    BY DEF LInv, TypeOK, ResourceTypes, DestroyPlugin, At, Runs, Goto, Destroyed
  <2>3. PoolTypes' /\ SignalTypes'
    BY DEF LInv, TypeOK, PoolTypes, SignalTypes, DestroyPlugin, At, Runs, Goto, Destroyed
  <2> QED BY <2>1, <2>2, <2>3 DEF TypeOK
<1>2. (jobs <= served)'
  BY DEF LInv, DestroyPlugin, At, Runs, Goto, Destroyed
<1>3. LifetimeInv'
  BY LatestIs DEF LInv, LifetimeInv, BeforePlugin, WithPool, WithTrigger, DestroyPlugin, At, Runs, Goto,
     Destroyed
<1>4. SectionInv'
  BY SectionFrame DEF LInv, DestroyPlugin, At, Runs, Goto, Destroyed
<1> QED BY <1>1, <1>2, <1>3, <1>4 DEF LInv

LEMMA ReturnStep ==
  ASSUME LInv, Return
  PROVE  LInv'
<1>1. TypeOK'
  <2>1. MainTypes'
    BY DEF LInv, TypeOK, MainTypes, Return, At, Runs, Goto
  <2>2. ResourceTypes' /\ PoolTypes' /\ SignalTypes'
    BY DEF LInv, TypeOK, ResourceTypes, PoolTypes, SignalTypes, Return, At, Runs, Goto
  <2> QED BY <2>1, <2>2 DEF TypeOK
<1>2. (jobs <= served)'
  BY DEF LInv, Return, At, Runs, Goto
<1>3. LifetimeInv'
  BY DEF LInv, LifetimeInv, BeforePlugin, WithPool, WithTrigger, Return, At, Runs, Goto
<1>4. SectionInv'
  BY SectionFrame DEF LInv, Return, At, Runs, Goto
<1> QED BY <1>1, <1>2, <1>3, <1>4 DEF LInv

-----------------------------------------------------------------------------
(***************************************************************************)
(* The sections under signal_lock.                                         *)
(***************************************************************************)
LEMMA BlockStep ==
  ASSUME LInv, NEW t \in Thread, Block(t)
  PROVE  LInv'
<1>1. TypeOK'
  <2>1. SignalTypes'
    BY DEF LInv, TypeOK, SignalTypes, Block, Blocking, InSection, Position, Runs
  <2>2. MainTypes' /\ ResourceTypes' /\ PoolTypes'
    BY DEF LInv, TypeOK, MainTypes, ResourceTypes, PoolTypes, Block, Blocking, InSection,
       Position, Runs
  <2> QED BY <2>1, <2>2 DEF TypeOK
<1>2. (jobs <= served)'
  BY DEF LInv, Block, Blocking, InSection, Position, Runs
<1>3. LifetimeInv'
  BY LifetimeFrame DEF LInv, Block, Blocking, InSection, Position, Runs
<1>4. SectionInv'
  BY DEF LInv, SectionInv, WithTrigger, Block, Blocking, InSection, Position, Runs
<1> QED BY <1>1, <1>2, <1>3, <1>4 DEF LInv

LEMMA LockStep ==
  ASSUME LInv, NEW t \in Thread, Lock(t)
  PROVE  LInv'
<1>1. TypeOK'
  <2>1. SignalTypes'
    BY DEF LInv, TypeOK, SignalTypes, Lock, InSection, Position, Runs
  <2>2. MainTypes' /\ ResourceTypes' /\ PoolTypes'
    BY DEF LInv, TypeOK, MainTypes, ResourceTypes, PoolTypes, Lock, InSection, Position,
       Runs
  <2> QED BY <2>1, <2>2 DEF TypeOK
<1>2. (jobs <= served)'
  BY DEF LInv, Lock, InSection, Position, Runs
<1>3. LifetimeInv'
  BY LifetimeFrame DEF LInv, Lock, InSection, Position, Runs
<1>4. SectionInv'
  BY LifecycleAssumption DEF LInv, SectionInv, WithTrigger, Lock, InSection, Position, Runs
<1> QED BY <1>1, <1>2, <1>3, <1>4 DEF LInv

LEMMA UnlockStep ==
  ASSUME LInv, NEW t \in Thread, Unlock(t)
  PROVE  LInv'
<1>1. TypeOK'
  <2>1. SignalTypes'
    BY DEF LInv, TypeOK, SignalTypes, Unlock, InSection, Position, Runs
  <2>2. MainTypes' /\ ResourceTypes' /\ PoolTypes'
    BY DEF LInv, TypeOK, MainTypes, ResourceTypes, PoolTypes, Unlock, InSection, Position,
       Runs
  <2> QED BY <2>1, <2>2 DEF TypeOK
<1>2. (jobs <= served)'
  BY DEF LInv, Unlock, InSection, Position, Runs
<1>3. LifetimeInv'
  BY LifetimeFrame DEF LInv, Unlock, InSection, Position, Runs
<1>4. SectionInv'
  <2>1. /\ InSection(t) /\ section[t] = "locked" /\ signal_lock = t /\ handler[t] = "none"
        /\ signal_lock' = NOBODY /\ section' = [section EXCEPT ![t] = "unlocked"]
        /\ UNCHANGED <<pc, trigger, masked, handler>>
    BY DEF LInv, SectionInv, Unlock, InSection, Runs
  <2>2. section \in [Thread -> {"out", "blocked", "locked", "unlocked"}] /\ MAIN \in Thread
    BY DEF LInv, TypeOK, SignalTypes, Thread
  <2>3. \A u \in Thread : u # t => section[u] # "locked" /\ handler[u] \notin {"write", "unlock"}
    BY <2>1 DEF LInv, SectionInv
  <2>4. \A u \in Thread : handler'[u] \notin {"write", "unlock"}
    BY <2>1, <2>3
  <2>5. \A u \in Thread : section'[u] # "locked"
    BY <2>1, <2>2, <2>3
  <2>6. \A u \in Thread : section'[u] # "out" => u \in masked' /\ handler'[u] = "none"
    BY <2>1, <2>2 DEF LInv, SectionInv
  <2>7. pc' \notin {"enable", "test", "disable", "signal"} => section'[MAIN] = "out"
    <3>1. CASE t = MAIN
      BY <2>1, <3>1 DEF InSection, Position
    <3>2. CASE t # MAIN
      BY <2>1, <2>2, <3>2 DEF LInv, SectionInv
    <3> QED BY <3>1, <3>2
  <2>8. pc' \in {"enable", "test", "select"} => trigger' # "closed"
    BY <2>1 DEF LInv, SectionInv
  <2>9. ASSUME wakeup_fd'
        PROVE  /\ trigger' # "closed"
               /\ pc' \in WithTrigger \ {"signal", "close_trigger"}
               /\ pc' = "disable" => section'[MAIN] # "unlocked"
    <3>1. CASE t = MAIN
      <4>1. pc = "enable" \/ (wakeup_fd /\ pc # "disable")
        BY <2>9, <3>1 DEF Unlock, Position
      <4> QED BY <2>1, <4>1 DEF LInv, SectionInv, WithTrigger
    <3>2. CASE t # MAIN
      <4>1. wpc[t] \in {"none", "enter", "waiting", "call", "route", "test", "routed", "relock",
                        "ended", "joined"}
        BY <3>2 DEF LInv, TypeOK, PoolTypes, Thread
      <4>2. wakeup_fd
        BY <2>9, <3>2, <4>1 DEF Unlock, Position
      <4> QED BY <2>1, <2>2, <3>2, <4>2 DEF LInv, SectionInv
    <3> QED BY <3>1, <3>2
  <2> QED BY <2>4, <2>5, <2>6, <2>7, <2>8, <2>9 DEF SectionInv
<1> QED BY <1>1, <1>2, <1>3, <1>4 DEF LInv

LEMMA UnblockStep ==
  ASSUME LInv, NEW t \in Thread, Unblock(t)
  PROVE  LInv'
<1>1. TypeOK'
  <2>1. MainTypes'
    BY DEF LInv, TypeOK, MainTypes, Unblock, InSection, Position, Runs, Goto
  <2>2. PoolTypes'
    BY DEF LInv, TypeOK, PoolTypes, Unblock, InSection, Position, Runs, Goto
  <2>3. SignalTypes'
    BY DEF LInv, TypeOK, SignalTypes, Unblock, InSection, Position, Runs, Goto
  <2>4. ResourceTypes'
    BY DEF LInv, TypeOK, ResourceTypes, Unblock, InSection, Position, Runs, Goto
  <2> QED BY <2>1, <2>2, <2>3, <2>4 DEF TypeOK
<1>2. (jobs <= served)'
  BY DEF LInv, Unblock, InSection, Position, Runs, Goto
<1>3. LifetimeInv'
  BY DEF LInv, LifetimeInv, BeforePlugin, WithPool, WithTrigger, Unblock, InSection,
     Position, Runs, Goto
<1>4. SectionInv'
  BY DEF LInv, TypeOK, SignalTypes, SectionInv, WithTrigger, Unblock, InSection, Position,
     Runs, Goto
<1> QED BY <1>1, <1>2, <1>3, <1>4 DEF LInv

-----------------------------------------------------------------------------
(***************************************************************************)
(* The worker threads.                                                     *)
(***************************************************************************)
LEMMA TakeEnterStep ==
  ASSUME LInv, NEW w \in Workers, Take(w, "enter")
  PROVE  LInv'
<1>1. TypeOK'
  <2>1. PoolTypes'
    <3>1. wpc' \in [Workers -> {"none", "enter", "waiting", "call", "route", "test", "routed",
                                "relock", "ended", "joined"}]
      BY DEF LInv, TypeOK, PoolTypes, Take, Worker
    <3>2. jobs' \in 0 .. MaxJobs
      <4>1. jobs \in 0 .. MaxJobs /\ MaxJobs \in Nat
        BY LifecycleAssumption DEF LInv, TypeOK, PoolTypes
      <4>2. jobs' = jobs \/ (jobs > 0 /\ jobs' = jobs - 1)
        BY DEF Take, HaveJob
      <4> QED BY <4>1, <4>2
    <3> QED
      BY <3>1, <3>2 DEF LInv, TypeOK, PoolTypes, Take
  <2>2. MainTypes' /\ ResourceTypes' /\ SignalTypes'
    BY DEF LInv, TypeOK, MainTypes, ResourceTypes, SignalTypes, Take, Worker, Runs,
       HaveJob
  <2> QED BY <2>1, <2>2 DEF TypeOK
<1>2. (jobs <= served)'
  BY DEF LInv, TypeOK, PoolTypes, Take, Worker, Runs, HaveJob
<1>3. LifetimeInv'
  BY DEF LInv, LifetimeInv, BeforePlugin, WithPool, WithTrigger, Take, Worker, Runs,
     HaveJob
<1>4. SectionInv'
  BY SectionFrame DEF LInv, Take, Worker, Runs, HaveJob
<1> QED BY <1>1, <1>2, <1>3, <1>4 DEF LInv

LEMMA TakeRelockStep ==
  ASSUME LInv, NEW w \in Workers, Take(w, "relock")
  PROVE  LInv'
<1>1. TypeOK'
  <2>1. PoolTypes'
    <3>1. wpc' \in [Workers -> {"none", "enter", "waiting", "call", "route", "test", "routed",
                                "relock", "ended", "joined"}]
      BY DEF LInv, TypeOK, PoolTypes, Take, Worker
    <3>2. jobs' \in 0 .. MaxJobs
      <4>1. jobs \in 0 .. MaxJobs /\ MaxJobs \in Nat
        BY LifecycleAssumption DEF LInv, TypeOK, PoolTypes
      <4>2. jobs' = jobs \/ (jobs > 0 /\ jobs' = jobs - 1)
        BY DEF Take, HaveJob
      <4> QED BY <4>1, <4>2
    <3> QED
      BY <3>1, <3>2 DEF LInv, TypeOK, PoolTypes, Take
  <2>2. MainTypes' /\ ResourceTypes' /\ SignalTypes'
    BY DEF LInv, TypeOK, MainTypes, ResourceTypes, SignalTypes, Take, Worker, Runs,
       HaveJob
  <2> QED BY <2>1, <2>2 DEF TypeOK
<1>2. (jobs <= served)'
  BY DEF LInv, TypeOK, PoolTypes, Take, Worker, Runs, HaveJob
<1>3. LifetimeInv'
  BY DEF LInv, LifetimeInv, BeforePlugin, WithPool, WithTrigger, Take, Worker, Runs,
     HaveJob
<1>4. SectionInv'
  BY SectionFrame DEF LInv, Take, Worker, Runs, HaveJob
<1> QED BY <1>1, <1>2, <1>3, <1>4 DEF LInv

LEMMA SpuriousWakeupStep ==
  ASSUME LInv, NEW w \in Workers, SpuriousWakeup(w)
  PROVE  LInv'
<1>1. TypeOK'
  <2>1. PoolTypes'
    BY DEF LInv, TypeOK, PoolTypes, SpuriousWakeup, Worker, Runs
  <2>2. MainTypes' /\ ResourceTypes' /\ SignalTypes'
    BY DEF LInv, TypeOK, MainTypes, ResourceTypes, SignalTypes, SpuriousWakeup, Worker,
       Runs
  <2> QED BY <2>1, <2>2 DEF TypeOK
<1>2. (jobs <= served)'
  BY DEF LInv, SpuriousWakeup, Worker, Runs
<1>3. LifetimeInv'
  BY DEF LInv, LifetimeInv, BeforePlugin, WithPool, WithTrigger, SpuriousWakeup, Worker,
     Runs
<1>4. SectionInv'
  BY SectionFrame DEF LInv, SpuriousWakeup, Worker, Runs
<1> QED BY <1>1, <1>2, <1>3, <1>4 DEF LInv

LEMMA FenceReturnsStep ==
  ASSUME LInv, NEW w \in Workers, FenceReturns(w)
  PROVE  LInv'
<1>1. TypeOK'
  <2>1. PoolTypes'
    BY DEF LInv, TypeOK, PoolTypes, FenceReturns, Worker, Runs
  <2>2. MainTypes' /\ ResourceTypes' /\ SignalTypes'
    BY DEF LInv, TypeOK, MainTypes, ResourceTypes, SignalTypes, FenceReturns, Worker, Runs
  <2> QED BY <2>1, <2>2 DEF TypeOK
<1>2. (jobs <= served)'
  BY DEF LInv, FenceReturns, Worker, Runs
<1>3. LifetimeInv'
  BY DEF LInv, LifetimeInv, BeforePlugin, WithPool, WithTrigger, FenceReturns, Worker,
     Runs
<1>4. SectionInv'
  BY SectionFrame DEF LInv, FenceReturns, Worker, Runs
<1> QED BY <1>1, <1>2, <1>3, <1>4 DEF LInv

LEMMA BeginRouteStep ==
  ASSUME LInv, NEW w \in Workers, BeginRoute(w)
  PROVE  LInv'
<1>1. TypeOK'
  <2>1. PoolTypes'
    BY DEF LInv, TypeOK, PoolTypes, BeginRoute, Worker, Runs, Thread
  <2>2. MainTypes' /\ ResourceTypes' /\ SignalTypes'
    BY DEF LInv, TypeOK, MainTypes, ResourceTypes, SignalTypes, BeginRoute, Worker, Runs,
       Thread
  <2> QED BY <2>1, <2>2 DEF TypeOK
<1>2. (jobs <= served)'
  BY DEF LInv, BeginRoute, Worker, Runs, Thread
<1>3. LifetimeInv'
  BY DEF LInv, LifetimeInv, BeforePlugin, WithPool, WithTrigger, BeginRoute, Worker, Runs,
     Thread
<1>4. SectionInv'
  BY SectionFrame DEF LInv, BeginRoute, Worker, Runs, Thread
<1> QED BY <1>1, <1>2, <1>3, <1>4 DEF LInv

LEMMA EndRouteStep ==
  ASSUME LInv, NEW w \in Workers, EndRoute(w)
  PROVE  LInv'
<1>1. TypeOK'
  <2>1. ResourceTypes'
    BY DEF LInv, TypeOK, ResourceTypes, EndRoute, Worker, Runs, Triggered
  <2>2. PoolTypes'
    BY DEF LInv, TypeOK, PoolTypes, EndRoute, Worker, Runs, Triggered
  <2>3. MainTypes' /\ SignalTypes'
    BY DEF LInv, TypeOK, MainTypes, SignalTypes, EndRoute, Worker, Runs, Triggered
  <2> QED BY <2>1, <2>2, <2>3 DEF TypeOK
<1>2. (jobs <= served)'
  BY DEF LInv, EndRoute, Worker, Runs, Triggered
<1>3. LifetimeInv'
  BY DEF LInv, LifetimeInv, BeforePlugin, WithPool, WithTrigger, EndRoute, Worker, Runs,
     Triggered
<1>4. SectionInv'
  BY DEF LInv, SectionInv, WithTrigger, EndRoute, Worker, Runs, Triggered
<1> QED BY <1>1, <1>2, <1>3, <1>4 DEF LInv

-----------------------------------------------------------------------------
(***************************************************************************)
(* Signals.                                                                *)
(***************************************************************************)
LEMMA SignalArrives ==
  ASSUME LInv, NEW t \in Thread, Signal(t)
  PROVE  LInv'
<1>1. TypeOK'
  <2>1. MainTypes'
    BY DEF LInv, TypeOK, MainTypes, Signal, Runs, Alive
  <2>2. SignalTypes'
    BY LifecycleAssumption DEF LInv, TypeOK, SignalTypes, Signal, Runs, Alive
  <2>3. ResourceTypes' /\ PoolTypes'
    BY DEF LInv, TypeOK, ResourceTypes, PoolTypes, Signal, Runs, Alive
  <2> QED BY <2>1, <2>2, <2>3 DEF TypeOK
<1>2. (jobs <= served)'
  BY DEF LInv, Signal, Runs, Alive
<1>3. LifetimeInv'
  BY DEF LInv, LifetimeInv, BeforePlugin, WithPool, WithTrigger, Signal, Runs, Alive
<1>4. SectionInv'
  BY DEF LInv, TypeOK, SignalTypes, SectionInv, WithTrigger, Signal, Runs, Alive
<1> QED BY <1>1, <1>2, <1>3, <1>4 DEF LInv

LEMMA HandlerLockStep ==
  ASSUME LInv, NEW t \in Thread, HandlerLock(t)
  PROVE  LInv'
<1>1. TypeOK'
  <2>1. SignalTypes'
    BY DEF LInv, TypeOK, SignalTypes, HandlerLock, Holder, InHandler
  <2>2. MainTypes' /\ ResourceTypes' /\ PoolTypes'
    BY DEF LInv, TypeOK, MainTypes, ResourceTypes, PoolTypes, HandlerLock, Holder,
       InHandler
  <2> QED BY <2>1, <2>2 DEF TypeOK
<1>2. (jobs <= served)'
  BY DEF LInv, HandlerLock, Holder, InHandler
<1>3. LifetimeInv'
  BY LifetimeFrame DEF LInv, HandlerLock, Holder, InHandler
<1>4. SectionInv'
  BY LifecycleAssumption DEF LInv, SectionInv, WithTrigger, HandlerLock, Holder, InHandler
<1> QED BY <1>1, <1>2, <1>3, <1>4 DEF LInv

LEMMA HandlerWriteStep ==
  ASSUME LInv, NEW t \in Thread, HandlerWrite(t)
  PROVE  LInv'
<1>1. TypeOK'
  <2>1. ResourceTypes'
    BY DEF LInv, TypeOK, ResourceTypes, HandlerWrite, Triggered, InHandler
  <2>2. SignalTypes'
    BY DEF LInv, TypeOK, SignalTypes, HandlerWrite, Triggered, InHandler
  <2>3. MainTypes' /\ PoolTypes'
    BY DEF LInv, TypeOK, MainTypes, PoolTypes, HandlerWrite, Triggered, InHandler
  <2> QED BY <2>1, <2>2, <2>3 DEF TypeOK
<1>2. (jobs <= served)'
  BY DEF LInv, HandlerWrite, Triggered, InHandler
<1>3. LifetimeInv'
  BY DEF LInv, LifetimeInv, BeforePlugin, WithPool, WithTrigger, HandlerWrite, Triggered,
     InHandler
<1>4. SectionInv'
  BY DEF LInv, SectionInv, WithTrigger, HandlerWrite, Triggered, InHandler
<1> QED BY <1>1, <1>2, <1>3, <1>4 DEF LInv

LEMMA HandlerReturnStep ==
  ASSUME LInv, NEW t \in Thread, HandlerReturn(t)
  PROVE  LInv'
<1>1. TypeOK'
  <2>1. MainTypes'
    BY DEF LInv, TypeOK, MainTypes, HandlerReturn, InHandler
  <2>2. SignalTypes'
    BY DEF LInv, TypeOK, SignalTypes, HandlerReturn, InHandler
  <2>3. ResourceTypes' /\ PoolTypes'
    BY DEF LInv, TypeOK, ResourceTypes, PoolTypes, HandlerReturn, InHandler
  <2> QED BY <2>1, <2>2, <2>3 DEF TypeOK
<1>2. (jobs <= served)'
  BY DEF LInv, HandlerReturn, InHandler
<1>3. LifetimeInv'
  BY DEF LInv, LifetimeInv, BeforePlugin, WithPool, WithTrigger, HandlerReturn, InHandler
<1>4. SectionInv'
  BY DEF LInv, TypeOK, SignalTypes, SectionInv, WithTrigger, HandlerReturn, InHandler
<1> QED BY <1>1, <1>2, <1>3, <1>4 DEF LInv

-----------------------------------------------------------------------------
LEMMA NextInv == LInv /\ [Next]_vars => LInv'
<1> SUFFICES ASSUME LInv, [Next]_vars PROVE LInv'
  OBVIOUS
<1>1. CASE MainStep
  BY <1>1, GetInstanceStep, ReadArgumentStep, LoadPluginStep, InitPluginStep,
     ConstructConnectorStep, ConstructPoolStep, BeginStartStep, CreateThreadsStep,
     JoinCreatedStep, InitConnectorStep, SelectTriggerStep, CleanupActionStep, CleanupComStep,
     CloseTriggerStep, StopThreadsStep, DestroyPoolStep, DestroyConnectorStep,
     DestroyPluginStep, ReturnStep
  DEF MainStep
<1>2. CASE SelectClient \/ SelectFails
  BY <1>2, SelectClientStep, SelectFailsStep
<1>3. ASSUME NEW w \in Workers, WorkerStep(w) \/ SpuriousWakeup(w)
      PROVE  LInv'
  BY <1>3, TakeEnterStep, TakeRelockStep, FenceReturnsStep, BeginRouteStep, EndRouteStep,
     SpuriousWakeupStep
  DEF WorkerStep
<1>4. ASSUME NEW t \in Thread, SignalStep(t) \/ Signal(t)
      PROVE  LInv'
  BY <1>4, BlockStep, LockStep, UnlockStep, UnblockStep, HandlerLockStep, HandlerWriteStep,
     HandlerReturnStep, SignalArrives
  DEF SignalStep
<1>5. CASE UNCHANGED vars
  <2>1. TypeOK' /\ (jobs <= served)'
    BY <1>5 DEF LInv, TypeOK, MainTypes, ResourceTypes, PoolTypes, SignalTypes, vars
  <2>2. LifetimeInv'
    BY <1>5, LifetimeFrame DEF LInv, vars
  <2>3. SectionInv'
    BY <1>5, SectionFrame DEF LInv, vars
  <2> QED BY <2>1, <2>2, <2>3 DEF LInv
<1> QED
  BY <1>1, <1>2, <1>3, <1>4, <1>5 DEF Next

LEMMA LInvHolds == Spec => []LInv
BY InitInv, NextInv, PTL DEF Spec

\* Every variable of the process keeps its type, for any number of threads, requests and
\* signals.
THEOREM LifecycleTypes == Spec => []TypeOK
<1>1. LInv => TypeOK
  BY DEF LInv
<1> QED BY <1>1, LInvHolds, PTL

\* Nothing is destroyed while a thread uses it, whatever fails at the start
\* (Server.cpp:45-78, WorkerPool.cpp:40-61, 90-116).
THEOREM NothingOutlived == Spec => []Lifetimes
<1>1. LInv => Lifetimes
  <2> SUFFICES ASSUME LInv PROVE Lifetimes
    OBVIOUS
  <2>1. \A w \in Workers : wpc[w] = "call" => plugin = "live" /\ functions
    BY DEF LInv, LifetimeInv
  <2>2. \A w \in Workers : Alive(w) => {"connector", "pool"} \subseteq constructed
    BY DEF LInv, LifetimeInv, Alive
  <2>3. ASSUME exit \in {"success", "failure"}
        PROVE  /\ \A w \in Workers : wpc[w] \in {"none", "joined"}
               /\ listener = "closed" /\ trigger = "closed"
               /\ plugin # "live" /\ (plugin = "destroyed" => ~library)
    BY <2>3 DEF LInv, TypeOK, ResourceTypes, LifetimeInv, WithTrigger
  <2> QED BY <2>1, <2>2, <2>3 DEF Lifetimes
<1> QED BY <1>1, LInvHolds, PTL

\* A handler that has seen the descriptor writes to an open pipe, in whatever thread
\* (SignalHandler.cpp:91-121, ServerConnector.cpp:305-320).
THEOREM HandlersWriteOpenPipe == Spec => []HandlerWritesOpenPipe
<1>1. LInv => HandlerWritesOpenPipe
  BY DEF LInv, SectionInv, HandlerWritesOpenPipe, InHandler
<1> QED BY <1>1, LInvHolds, PTL
=============================================================================
