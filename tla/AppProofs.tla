----------------------------- MODULE AppProofs -----------------------------
(* Theorems about App, for any number of plugins and any configuration. *)
EXTENDS App, TLAPS

\* Where the loops of App::run stand.
LoopInv ==
    /\ main # "reply" => next >= 1
    /\ main = "reply" => next <= NumPlugins
    /\ main \in {"bind_outgoing", "bind_incoming", "spawn_proxy"} => next = 1

\* The threads of plugins whose turn has not come do not exist.
SpawnInv ==
    main \in {"bind_outgoing", "bind_incoming", "spawn_proxy", "start"} =>
        \A p \in Plugin : p >= next => thread[p] = "unborn"

\* The receive loop of sync_plugins: nobody has been answered, the ids handled
\* so far are distinct, and a plugin of each of them is waiting.
ReceiveInv ==
    main = "sync" =>
        /\ replied = {}
        /\ \A j \in Plugin : j < next => ~SyncUrlInUse(j)
        /\ \A j \in Plugin : j < next => \E p \in synced : PluginId[p] = PluginId[j]

\* The reply loop pops the sockets from the last to the first.
ReplyInv ==
    main = "reply" => replied = (next + 1)..NumPlugins

\* A plugin is answered only when all have been heard, and starts only when it
\* has been answered.
BarrierInv ==
    /\ \A p \in synced : thread[p] \in Arrived
    /\ \A p \in Plugin : thread[p] \in Started => p \in replied
    /\ replied # {} => synced = Plugin
    /\ main \in {"reply", "join", "ok"} => synced = Plugin
    /\ main \in {"bind_outgoing", "bind_incoming", "spawn_proxy", "start"}
            => synced = {} /\ replied = {}
    /\ main = "err" => replied = {}

JoinInv ==
    /\ main = "join" => \A j \in Plugin : j < next => thread[j] = "exited"
    /\ main = "ok" => \A j \in Plugin : thread[j] = "exited"

IInv ==
    /\ TypeOK
    /\ LoopInv
    /\ SpawnInv
    /\ ReceiveInv
    /\ ReplyInv
    /\ BarrierInv
    /\ JoinInv

-----------------------------------------------------------------------------
(* Type correctness                                                        *)

\* Plugins can be counted.
LEMMA NumPluginsNat == NumPlugins \in Nat
  BY AppAssumption DEF NumPlugins

\* External plugins are plugins.
LEMMA ExternalIsPlugin == External \subseteq Plugin
  BY AppAssumption DEF External, Plugin, NumPlugins

\* Errors are well formed, and so is having none.
LEMMA ErrorType ==
    /\ NoError \in Errors
    /\ \A x \in Culprits :
          {SubSocketTCPBindError(x), PubSocketTCPBindError(x),
           EngineSyncSocketInprocBindError(x)} \subseteq Errors
  <1>1. {} \in SUBSET Culprits /\ \A x \in Culprits : {x} \in SUBSET Culprits
    OBVIOUS
  <1>2. NoError \in Errors
    BY <1>1 DEF NoError, Errors, ErrorKinds
  <1>3. ASSUME NEW x \in Culprits
        PROVE  {SubSocketTCPBindError(x), PubSocketTCPBindError(x),
                EngineSyncSocketInprocBindError(x)} \subseteq Errors
    BY <1>1, <1>3 DEF SubSocketTCPBindError, PubSocketTCPBindError,
                      EngineSyncSocketInprocBindError, Errors, ErrorKinds
  <1> QED
    BY <1>2, <1>3

\* The initial state has its types.
LEMMA InitTypeOK == InitApp => TypeOK
  <1> SUFFICES ASSUME InitApp PROVE TypeOK
    OBVIOUS
  <1>1. bound \subseteq Ports
    BY DEF InitApp, Ports
  <1>2. error \in Errors
    BY ErrorType DEF InitApp
  <1>3. thread \in [Plugin -> ThreadStates]
    BY DEF InitApp, ThreadStates
  <1> QED
    BY <1>1, <1>2, <1>3, NumPluginsNat DEF InitApp, TypeOK

\* A step of App::run keeps the types of its own variables and of those it shares.
LEMMA MainStepTypeOK == TypeOK /\ MainStep => TypeOK'
  <1> SUFFICES ASSUME TypeOK, MainStep PROVE TypeOK'
    OBVIOUS
  <1> USE NumPluginsNat DEF TypeOK, Ended
  <1>1. CASE BindOutgoing
    BY <1>1, ErrorType DEF BindOutgoing, Ports, Culprits
  <1>2. CASE BindIncoming
    BY <1>2, ErrorType DEF BindIncoming, Ports, Culprits
  <1>3. CASE SpawnProxy
    BY <1>3 DEF SpawnProxy
  <1>4. CASE SpawnPlugin
    BY <1>4 DEF SpawnPlugin, Plugin, ThreadStates
  <1>5. CASE BeginSync
    BY <1>5 DEF BeginSync
  <1>6. CASE SyncReceive
    BY <1>6 DEF SyncReceive, Ready, Heard, Plugin
  <1>7. CASE SyncBindFails
    BY <1>7, ErrorType DEF SyncBindFails, Culprits
  <1>8. CASE BeginReplies
    BY <1>8 DEF BeginReplies, AllSynced, FirstToAnswer
  <1>9. CASE SyncReply
    BY <1>9 DEF SyncReply, Replying, Plugin
  <1>10. CASE BeginJoin
    BY <1>10 DEF BeginJoin
  <1>11. CASE JoinPlugin
    BY <1>11 DEF JoinPlugin, JoinNext, JoinFailed, Plugin
  <1>12. CASE ReturnOk
    BY <1>12 DEF ReturnOk
  <1> QED
    BY <1>1, <1>2, <1>3, <1>4, <1>5, <1>6, <1>7, <1>8, <1>9, <1>10, <1>11, <1>12
       DEF MainStep

\* A plugin thread that moves stays within the states of a thread.
LEMMA MovesTypeOK ==
    ASSUME TypeOK, NEW p \in Plugin, NEW from, NEW to \in ThreadStates,
           Moves(p, from, to), bound' \subseteq Ports
    PROVE  TypeOK'
  BY DEF TypeOK, Moves

\* A step of a plugin thread keeps the types.
LEMMA ThreadStepTypeOK ==
    ASSUME TypeOK, NEW p \in Plugin, ThreadStep(p)
    PROVE  TypeOK'
  <1> USE DEF ThreadStates, Arrived, Started
  <1>0. bound \subseteq Ports
    BY DEF TypeOK
  <1>1. CASE BindExternal(p)
    <2>1. TcpPort[p] \in Ports
      BY <1>1 DEF BindExternal, Ports
    <2> QED
      BY <1>0, <1>1, <2>1, MovesTypeOK DEF BindExternal
  <1>2. CASE ConnectPub(p)
    BY <1>0, <1>2, MovesTypeOK DEF ConnectPub
  <1>3. CASE Subscribe(p)
    BY <1>0, <1>3, MovesTypeOK DEF Subscribe
  <1>4. CASE SubscribeFails(p)
    BY <1>0, <1>4, MovesTypeOK DEF SubscribeFails, ReleasePort
  <1>5. CASE SendReady(p)
    BY <1>0, <1>5, MovesTypeOK DEF SendReady
  <1>6. CASE ReceiveReply(p)
    BY <1>0, <1>6, MovesTypeOK DEF ReceiveReply
  <1>7. CASE Exit(p)
    BY <1>0, <1>7, MovesTypeOK DEF Exit, ReleasePort
  <1>8. CASE StartFails(p)
    BY <1>0, <1>8, MovesTypeOK DEF StartFails, ReleasePort
  <1> QED
    BY <1>1, <1>2, <1>3, <1>4, <1>5, <1>6, <1>7, <1>8 DEF ThreadStep, SetUpStep

\* Every variable of App keeps its type, whatever the configuration.
THEOREM TypeCorrect == Spec => []TypeOK
  <1>1. TypeOK /\ [Next]_appVars => TypeOK'
    <2>1. TypeOK /\ UNCHANGED appVars => TypeOK'
      BY DEF TypeOK, appVars
    <2> QED
      BY <2>1, MainStepTypeOK, ThreadStepTypeOK DEF Next, Finished
  <1> QED
    BY InitTypeOK, <1>1, PTL DEF Spec

-----------------------------------------------------------------------------
(* The barrier                                                             *)

\* The inductive invariant holds before anything is started.
LEMMA InitIInv == InitApp => IInv
  <1> SUFFICES ASSUME InitApp PROVE IInv
    OBVIOUS
  <1>1. BarrierInv
    BY DEF InitApp, BarrierInv, Started
  <1> QED
    BY <1>1, InitTypeOK
       DEF InitApp, IInv, LoopInv, SpawnInv, ReceiveInv, ReplyInv, JoinInv

\* Once the receive loop is over, no two plugins share an id, so each has been
\* heard.
LEMMA AllHeard ==
    ASSUME IInv, main = "sync", next \notin Plugin
    PROVE  synced = Plugin
  <1>1. next = NumPlugins + 1
    BY NumPluginsNat DEF IInv, TypeOK, LoopInv, Plugin
  <1>2. \A i, j \in Plugin : PluginId[i] = PluginId[j] => i = j
    <2> SUFFICES ASSUME NEW i \in Plugin, NEW j \in Plugin,
                        PluginId[i] = PluginId[j], i < j
                 PROVE  FALSE
      BY NumPluginsNat DEF Plugin
    <2> QED
      BY <1>1, NumPluginsNat DEF IInv, ReceiveInv, SyncUrlInUse, Plugin
  <1>3. ASSUME NEW j \in Plugin PROVE j \in synced
    <2>1. j < next
      BY <1>1, NumPluginsNat DEF Plugin
    <2>2. PICK p \in synced : PluginId[p] = PluginId[j]
      BY <2>1 DEF IInv, ReceiveInv
    <2> QED
      BY <1>2, <2>2 DEF IInv, TypeOK
  <1> QED
    BY <1>3 DEF IInv, TypeOK

\* A step of App::run preserves the invariant; the threads do not move.
LEMMA MainStepIInv == IInv /\ MainStep => IInv'
  <1> SUFFICES ASSUME IInv, MainStep PROVE IInv'
    OBVIOUS
  <1>0. TypeOK' /\ NumPlugins \in Nat
    BY MainStepTypeOK, NumPluginsNat DEF IInv
  <1> USE <1>0 DEF IInv, LoopInv, SpawnInv, ReceiveInv, ReplyInv, BarrierInv, JoinInv
  <1>1. CASE BindOutgoing
    BY <1>1 DEF BindOutgoing
  <1>2. CASE BindIncoming
    BY <1>2 DEF BindIncoming
  <1>3. CASE SpawnProxy
    BY <1>3 DEF SpawnProxy, TypeOK
  <1>4. CASE SpawnPlugin
    <2>1. \A p \in Plugin : thread[p] \notin Started
      BY <1>4 DEF SpawnPlugin
    <2>2. \A p \in Plugin : thread'[p] \in Started => thread[p] \in Started
      BY <1>4 DEF SpawnPlugin, TypeOK, Started
    <2>3. synced = {}
      BY <1>4 DEF SpawnPlugin
    <2> QED
      BY <1>4, <2>1, <2>2, <2>3 DEF SpawnPlugin, TypeOK, Plugin
  <1>5. CASE BeginSync
    BY <1>5 DEF BeginSync, TypeOK, Plugin
  <1>6. CASE SyncReceive
    <2>1. PICK p \in Plugin \ synced :
             /\ PluginId[p] = PluginId[next]
             /\ thread[p] = "waiting"
             /\ synced' = synced \cup {p}
      BY <1>6 DEF SyncReceive, Ready, Heard
    <2>2. ASSUME NEW j \in Plugin, j < next'
          PROVE  /\ ~SyncUrlInUse(j)
                 /\ \E q \in synced' : PluginId[q] = PluginId[j]
      <3>1. j < next \/ j = next
        BY <1>6, <2>2 DEF SyncReceive, Ready, Heard, Plugin
      <3> QED
        BY <1>6, <2>1, <3>1 DEF SyncReceive, Ready, Heard
    <2>3. \A q \in synced' : thread'[q] \in Arrived
      BY <1>6, <2>1 DEF SyncReceive, Ready, Heard, Arrived
    <2> QED
      BY <1>6, <2>2, <2>3 DEF SyncReceive, Ready, Heard, Plugin, TypeOK
  <1>7. CASE SyncBindFails
    BY <1>7 DEF SyncBindFails
  <1>8. CASE BeginReplies
    <2>1. synced = Plugin
      BY <1>8, AllHeard DEF BeginReplies, AllSynced, FirstToAnswer
    <2>2. (NumPlugins + 1)..NumPlugins = {}
      OBVIOUS
    <2>3. UNCHANGED <<thread, synced, replied>> /\ main' = "reply" /\ replied = {}
      BY <1>8 DEF BeginReplies, AllSynced, FirstToAnswer
    <2>4. BarrierInv'
      BY <2>1, <2>3
    <2>5. ReplyInv'
      BY <1>8, <2>2, <2>3 DEF BeginReplies, AllSynced, FirstToAnswer
    <2> QED
      BY <1>8, <2>4, <2>5 DEF BeginReplies, AllSynced, FirstToAnswer
  <1>9. CASE SyncReply
    <2>1. replied' = (next' + 1)..NumPlugins
      BY <1>9 DEF SyncReply, Replying, Plugin
    <2> QED
      BY <1>9, <2>1 DEF SyncReply, Replying, Plugin
  <1>10. CASE BeginJoin
    BY <1>10 DEF BeginJoin, Plugin
  <1>11. CASE JoinPlugin
    BY <1>11 DEF JoinPlugin, JoinNext, JoinFailed, Plugin
  <1>12. CASE ReturnOk
    <2>1. \A j \in Plugin : j < next
      BY <1>12 DEF ReturnOk, TypeOK, Plugin
    <2> QED
      BY <1>12, <2>1 DEF ReturnOk
  <1> QED
    BY <1>1, <1>2, <1>3, <1>4, <1>5, <1>6, <1>7, <1>8, <1>9, <1>10, <1>11, <1>12
       DEF MainStep

\* A thread that moves keeps its place relative to the barrier, unless it waits
\* for its answer or has just got it.
LEMMA MovesIInv ==
    ASSUME IInv, TypeOK', NEW p \in Plugin, NEW from, NEW to,
           Moves(p, from, to),
           from \in Arrived => to \in Arrived,
           to \in Started => p \in replied,
           from \notin {"unborn", "exited"}
    PROVE  IInv'
  <1>1. \A q \in Plugin : thread'[q] = IF q = p THEN to ELSE thread[q]
    BY DEF Moves, IInv, TypeOK
  <1>2. thread[p] = from
    BY DEF Moves
  <1>3. UNCHANGED <<main, next, error, proxy, synced, replied>>
    BY DEF Moves
  <1>4. LoopInv' /\ ReceiveInv' /\ ReplyInv'
    BY <1>3 DEF IInv, LoopInv, ReceiveInv, ReplyInv, SyncUrlInUse
  <1>5. BarrierInv'
    BY <1>1, <1>2, <1>3 DEF IInv, BarrierInv, TypeOK
  <1>6. JoinInv' /\ SpawnInv'
    BY <1>1, <1>2, <1>3 DEF IInv, JoinInv, SpawnInv
  <1> QED
    BY <1>4, <1>5, <1>6 DEF IInv

\* A step of a plugin thread keeps the inductive invariant.
LEMMA ThreadStepIInv ==
    ASSUME IInv, NEW p \in Plugin, ThreadStep(p)
    PROVE  IInv'
  <1>0. TypeOK'
    BY ThreadStepTypeOK DEF IInv
  <1>1. thread[p] \in Started => p \in replied
    BY DEF IInv, BarrierInv
  <1> USE DEF Arrived, Started
  <1>2. CASE BindExternal(p)
    BY <1>0, <1>2, MovesIInv DEF BindExternal
  <1>3. CASE ConnectPub(p)
    BY <1>0, <1>3, MovesIInv DEF ConnectPub
  <1>4. CASE Subscribe(p)
    BY <1>0, <1>4, MovesIInv DEF Subscribe
  <1>5. CASE SubscribeFails(p)
    BY <1>0, <1>5, MovesIInv DEF SubscribeFails
  <1>6. CASE SendReady(p)
    BY <1>0, <1>6, MovesIInv DEF SendReady
  <1>7. CASE ReceiveReply(p)
    BY <1>0, <1>7, MovesIInv DEF ReceiveReply
  <1>8. CASE Exit(p)
    BY <1>0, <1>1, <1>8, MovesIInv DEF Exit, Moves
  <1>9. CASE StartFails(p)
    BY <1>0, <1>1, <1>9, MovesIInv DEF StartFails, Moves
  <1> QED
    BY <1>2, <1>3, <1>4, <1>5, <1>6, <1>7, <1>8, <1>9 DEF ThreadStep, SetUpStep

\* So does a step that changes nothing.
LEMMA StutterIInv == IInv /\ UNCHANGED appVars => IInv'
  BY DEF appVars, IInv, TypeOK, LoopInv, SpawnInv, ReceiveInv, SyncUrlInUse, ReplyInv,
         BarrierInv, JoinInv

\* The inductive invariant of App::run and its threads.
LEMMA InductiveInvariant == Spec => []IInv
  <1>1. IInv /\ [Next]_appVars => IInv'
    BY StutterIInv, MainStepIInv, ThreadStepIInv DEF Next, Finished
  <1> QED
    BY InitIInv, <1>1, PTL DEF Spec

\* sync_plugins is a barrier: no start function runs before every plugin, internal
\* or external, has its sockets and subscriptions.
THEOREM BarrierHolds == Spec => []StartBarrier
  <1>1. IInv => StartBarrier
    BY DEF IInv, BarrierInv, StartBarrier
  <1> QED
    BY InductiveInvariant, <1>1, PTL

\* A plugin that died while being set up keeps the barrier shut for good.
THEOREM CrashIsNeverPassed == Spec => []CrashShutsBarrier
  <1>1. IInv => CrashShutsBarrier
    BY DEF IInv, BarrierInv, CrashShutsBarrier, Arrived, Started
  <1> QED
    BY InductiveInvariant, <1>1, PTL

\* The reply loop never answers a plugin that has not asked.
THEOREM RepliesAreAskedFor == Spec => []ReplyMeetsRequest
  <1>1. ASSUME IInv, main = "reply", next \in Plugin
        PROVE  next \in synced \ replied /\ thread[next] = "waiting"
    <2>1. next \in synced
      BY <1>1 DEF IInv, BarrierInv
    <2>2. next \notin replied
      BY <1>1, NumPluginsNat DEF IInv, ReplyInv, Plugin
    <2> QED
      BY <1>1, <2>1, <2>2 DEF IInv, BarrierInv, Arrived
  <1>2. IInv => ReplyMeetsRequest
    BY <1>1 DEF ReplyMeetsRequest
  <1> QED
    BY InductiveInvariant, <1>2, PTL

\* App::run returns Ok only after every start function has.
THEOREM OkIsHonest == Spec => []OkMeansAllExited
  <1>1. IInv => OkMeansAllExited
    BY DEF IInv, JoinInv, OkMeansAllExited
  <1> QED
    BY InductiveInvariant, <1>1, PTL

\* App::run returns Err only when no start function has run, nor ever will.
THEOREM ErrIsEarly == Spec => []ErrMeansNoneStarted
  <1>1. IInv => ErrMeansNoneStarted
    BY DEF IInv, BarrierInv, ErrMeansNoneStarted
  <1> QED
    BY InductiveInvariant, <1>1, PTL

-----------------------------------------------------------------------------
(* Refinement of Barrier                                                   *)

AtBarrier == {p \in Plugin : thread[p] \in Arrived}
Through == {p \in Plugin : thread[p] \in Started}

\* A thread that stays on its side of the barrier is a stutter.
LEMMA MovesStutters ==
    ASSUME IInv, NEW p \in Plugin, NEW from, NEW to, Moves(p, from, to),
           from \in Arrived <=> to \in Arrived,
           from \in Started <=> to \in Started
    PROVE  UNCHANGED <<AtBarrier, Through>>
  <1>1. \A q \in Plugin : /\ thread'[q] \in Arrived <=> thread[q] \in Arrived
                          /\ thread'[q] \in Started <=> thread[q] \in Started
    BY DEF Moves, IInv, TypeOK
  <1>2. AtBarrier' = AtBarrier
    BY <1>1 DEF AtBarrier
  <1>3. Through' = Through
    BY <1>1 DEF Through
  <1> QED
    BY <1>2, <1>3

\* A plugin thread arrives at the barrier, passes it, or stutters.
LEMMA ThreadStepRefines ==
    ASSUME IInv, NEW p \in Plugin, ThreadStep(p)
    PROVE  [B!Next]_(B!vars)
  <1> SUFFICES \/ UNCHANGED <<AtBarrier, Through>>
               \/ /\ p \notin AtBarrier
                  /\ AtBarrier' = AtBarrier \cup {p}
                  /\ UNCHANGED Through
               \/ /\ AtBarrier = Plugin
                  /\ p \notin Through
                  /\ Through' = Through \cup {p}
                  /\ UNCHANGED AtBarrier
    BY DEF B!Next, B!vars, B!Arrive, B!Release, AtBarrier, Through
  <1>1. CASE SendReady(p)
    <2>1. thread[p] = "subscribed" /\ thread' = [thread EXCEPT ![p] = "waiting"]
      BY <1>1 DEF SendReady, Moves
    <2>2. p \notin AtBarrier /\ AtBarrier' = AtBarrier \cup {p}
      BY <2>1 DEF IInv, TypeOK, AtBarrier, Arrived, Started
    <2>3. UNCHANGED Through
      BY <2>1 DEF IInv, TypeOK, Through, Started
    <2> QED
      BY <2>2, <2>3
  <1>2. CASE ReceiveReply(p)
    <2>1. thread[p] = "waiting" /\ thread' = [thread EXCEPT ![p] = "running"]
      BY <1>2 DEF ReceiveReply, Moves
    <2>2. p \notin Through /\ Through' = Through \cup {p}
      BY <2>1 DEF IInv, TypeOK, Through, Started
    <2>3. UNCHANGED AtBarrier
      BY <2>1 DEF IInv, TypeOK, AtBarrier, Arrived, Started
    <2>4. AtBarrier = Plugin
      BY <1>2 DEF ReceiveReply, IInv, BarrierInv, TypeOK, AtBarrier
    <2> QED
      BY <2>2, <2>3, <2>4
  <1>3. CASE ThreadStep(p) /\ ~SendReady(p) /\ ~ReceiveReply(p)
    BY <1>3, MovesStutters
       DEF ThreadStep, SetUpStep, BindExternal, ConnectPub, Subscribe,
           SubscribeFails, Exit, StartFails, Arrived, Started
  <1> QED
    BY <1>1, <1>2, <1>3

\* The main thread never moves a plugin past the barrier.
LEMMA MainStepRefines ==
    ASSUME IInv, MainStep
    PROVE  UNCHANGED <<AtBarrier, Through>>
  <1>1. CASE SpawnPlugin
    <2>1. thread[next] \notin Arrived
      BY <1>1 DEF SpawnPlugin, IInv, SpawnInv, Plugin, Arrived, Started
    <2>2. thread' = thread \/ thread' = [thread EXCEPT ![next] = "spawned"]
      BY <1>1 DEF SpawnPlugin
    <2>3. \A q \in Plugin : /\ thread'[q] \in Arrived <=> thread[q] \in Arrived
                            /\ thread'[q] \in Started <=> thread[q] \in Started
      BY <2>1, <2>2 DEF IInv, TypeOK, Arrived, Started
    <2>4. AtBarrier' = AtBarrier
      BY <2>3 DEF AtBarrier
    <2>5. Through' = Through
      BY <2>3 DEF Through
    <2> QED
      BY <2>4, <2>5
  <1>2. CASE ~SpawnPlugin
    <2>1. UNCHANGED thread
      BY <1>2 DEF MainStep, BindOutgoing, BindIncoming, SpawnProxy, BeginSync,
             SyncReceive, Ready, Heard, SyncBindFails, BeginReplies, AllSynced,
             FirstToAnswer, SyncReply, Replying, BeginJoin,
             JoinPlugin, JoinNext, JoinFailed, ReturnOk
    <2> QED
      BY <2>1 DEF AtBarrier, Through
  <1> QED
    BY <1>1, <1>2

\* App implements Barrier: each plugin arrives once, all arrive before the first
\* is let through, and none is let through twice.
THEOREM RefinesBarrier == Spec => ImplementsBarrier
  <1>1. InitApp => B!Init
    BY DEF InitApp, B!Init, Arrived, Started
  <1>2. IInv /\ [Next]_appVars => [B!Next]_(B!vars)
    <2>1. ASSUME UNCHANGED appVars PROVE UNCHANGED B!vars
      BY <2>1 DEF appVars, B!vars
    <2>2. ASSUME IInv, MainStep PROVE UNCHANGED B!vars
      BY <2>2, MainStepRefines DEF B!vars, AtBarrier, Through
    <2> QED
      BY <2>1, <2>2, ThreadStepRefines DEF Next, Finished
  <1> QED
    BY InductiveInvariant, <1>1, <1>2, PTL DEF Spec, ImplementsBarrier, B!Spec

-----------------------------------------------------------------------------
(* TCP ports                                                               *)

\* The engine's ports stay bound from the moment the proxy may use them, even
\* after App::run has returned an error, as long as a plugin has been spawned.
EnginePortsInv ==
    /\ main = "bind_incoming" => SubscribePort \in bound
    /\ main \notin {"bind_outgoing", "bind_incoming", "err"}
            => {PublishPort, SubscribePort} \subseteq bound
    /\ (\E p \in Plugin : thread[p] # "unborn")
            => {PublishPort, SubscribePort} \subseteq bound

PortInv == EnginePortsInv /\ PortsAreExclusive

\* At first only other processes hold ports.
LEMMA InitPorts == InitApp => PortInv
  BY ExternalIsPlugin
     DEF InitApp, PortInv, EnginePortsInv, PortsAreExclusive, HoldsPort

\* The main thread binds and releases the engine's ports only.
LEMMA MainStepPorts == IInv /\ PortInv /\ MainStep => PortInv'
  <1> SUFFICES ASSUME IInv, PortInv, MainStep PROVE PortInv'
    OBVIOUS
  <1> USE DEF PortInv, EnginePortsInv, PortsAreExclusive, HoldsPort
  <1>0. External \subseteq Plugin /\ NumPlugins \in Nat
    BY ExternalIsPlugin, NumPluginsNat
  <1>1. CASE main \in {"bind_outgoing", "bind_incoming"}
    <2>1. \A p \in Plugin : thread[p] = "unborn"
      BY <1>0, <1>1 DEF IInv, SpawnInv, LoopInv, Plugin
    <2>2. BindOutgoing \/ BindIncoming
      BY <1>1 DEF MainStep, SpawnProxy, SpawnPlugin,
             BeginSync, SyncReceive, Ready, Heard, SyncBindFails, BeginReplies,
             AllSynced, FirstToAnswer, SyncReply, Replying,
             BeginJoin, JoinPlugin, JoinNext, JoinFailed, ReturnOk
    <2> QED
      BY <1>0, <2>1, <2>2 DEF BindOutgoing, BindIncoming
  <1>2. CASE main \notin {"bind_outgoing", "bind_incoming"}
    <2>1. UNCHANGED bound /\ main' \notin {"bind_outgoing", "bind_incoming"}
      BY <1>2 DEF MainStep, BindOutgoing, BindIncoming, SpawnProxy, SpawnPlugin,
             BeginSync, SyncReceive, Ready, Heard, SyncBindFails, BeginReplies,
             AllSynced, FirstToAnswer, SyncReply, Replying,
             BeginJoin, JoinPlugin, JoinNext, JoinFailed, ReturnOk
    <2>2. \/ UNCHANGED thread
          \/ main = "start" /\ thread' = [thread EXCEPT ![next] = "spawned"]
      BY <1>2 DEF MainStep, BindOutgoing, BindIncoming, SpawnProxy, SpawnPlugin,
             BeginSync, SyncReceive, Ready, Heard, SyncBindFails, BeginReplies,
             AllSynced, FirstToAnswer, SyncReply, Replying,
             BeginJoin, JoinPlugin, JoinNext, JoinFailed, ReturnOk
    <2>3. main # "err" \/ main' = main
      BY DEF MainStep, BindOutgoing, BindIncoming, SpawnProxy, SpawnPlugin,
             BeginSync, SyncReceive, Ready, Heard, SyncBindFails, BeginReplies,
             AllSynced, FirstToAnswer, SyncReply, Replying,
             BeginJoin, JoinPlugin, JoinNext, JoinFailed, ReturnOk
    <2>4. EnginePortsInv'
      BY <1>2, <2>1, <2>2, <2>3 DEF IInv, TypeOK
    <2>5. \A p \in External : HoldsPort(p)' => HoldsPort(p)
      BY <1>0, <2>2 DEF IInv, TypeOK
    <2> QED
      BY <2>1, <2>4, <2>5
  <1> QED
    BY <1>1, <1>2

\* What a thread does to the ports: it takes a free one and holds it, or gives up
\* the one it holds, or touches none.
LEMMA MovesPorts ==
    ASSUME IInv, PortInv, NEW p \in Plugin, NEW from, NEW to, Moves(p, from, to),
           from # "unborn",
           \/ /\ p \in External
              /\ TcpPort[p] \notin bound
              /\ bound' = bound \cup {TcpPort[p]}
           \/ /\ p \in External
              /\ HoldsPort(p)
              /\ ~HoldsPort(p)'
              /\ bound' = bound \ {TcpPort[p]}
           \/ /\ p \in External => (HoldsPort(p)' => HoldsPort(p))
              /\ bound' = bound
    PROVE  PortInv'
  <1>1. \A q \in Plugin : thread'[q] = IF q = p THEN to ELSE thread[q]
    BY DEF Moves, IInv, TypeOK
  <1>2. thread[p] = from /\ UNCHANGED main
    BY DEF Moves
  <1>3. {PublishPort, SubscribePort} \subseteq bound
    BY <1>2 DEF PortInv, EnginePortsInv
  <1>4. {PublishPort, SubscribePort} \subseteq bound'
    BY <1>3 DEF PortInv, PortsAreExclusive
  <1>5. EnginePortsInv'
    BY <1>2, <1>4 DEF PortInv, EnginePortsInv
  <1>6. \A q \in External \ {p} : HoldsPort(q)' <=> HoldsPort(q)
    BY <1>1, ExternalIsPlugin DEF HoldsPort
  <1>7. PortsAreExclusive'
    BY <1>3, <1>6 DEF PortInv, PortsAreExclusive
  <1> QED
    BY <1>5, <1>7 DEF PortInv

\* A plugin thread binds and releases its own port only.
LEMMA ThreadStepPorts ==
    ASSUME IInv, PortInv, NEW p \in Plugin, ThreadStep(p)
    PROVE  PortInv'
  <1>1. \A from, to : Moves(p, from, to) => thread[p] = from /\ thread'[p] = to
    BY DEF Moves, IInv, TypeOK
  <1> USE <1>1 DEF HoldsPort
  <1>2. CASE BindExternal(p)
    BY <1>2, MovesPorts DEF BindExternal
  <1>3. CASE ConnectPub(p)
    BY <1>3, MovesPorts DEF ConnectPub
  <1>4. CASE Subscribe(p)
    BY <1>4, MovesPorts DEF Subscribe
  <1>5. CASE SubscribeFails(p)
    BY <1>5, MovesPorts DEF SubscribeFails, ReleasePort
  <1>6. CASE SendReady(p)
    BY <1>6, MovesPorts DEF SendReady
  <1>7. CASE ReceiveReply(p)
    BY <1>7, MovesPorts DEF ReceiveReply
  <1>8. CASE Exit(p)
    BY <1>8, MovesPorts DEF Exit, ReleasePort
  <1>9. CASE StartFails(p)
    BY <1>9, MovesPorts DEF StartFails, ReleasePort
  <1> QED
    BY <1>2, <1>3, <1>4, <1>5, <1>6, <1>7, <1>8, <1>9 DEF ThreadStep, SetUpStep

\* Two live external plugins never share a TCP port, and none has a port of the
\* engine, whatever ports the configuration asks for and other processes hold.
THEOREM PortsStayExclusive == Spec => []PortsAreExclusive
  <1>1. IInv /\ PortInv /\ [Next]_appVars => PortInv'
    <2>1. PortInv /\ UNCHANGED appVars => PortInv'
      BY DEF appVars, PortInv, EnginePortsInv, PortsAreExclusive, HoldsPort
    <2> QED
      BY <2>1, MainStepPorts, ThreadStepPorts DEF Next, Finished
  <1>2. PortInv => PortsAreExclusive
    BY DEF PortInv
  <1> QED
    BY InductiveInvariant, InitPorts, <1>1, <1>2, PTL DEF Spec
=============================================================================
