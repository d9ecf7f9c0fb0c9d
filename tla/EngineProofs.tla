---------------------------- MODULE EngineProofs ----------------------------
(***************************************************************************)
(* Theorems about Engine.  A behaviour of the whole application is one of  *)
(* App and one of Broker, so what is proved of each holds of both; what    *)
(* the barrier means for the traffic follows from the two together.        *)
(***************************************************************************)
EXTENDS Engine, SequenceLemmas, CountingLemmas

\* App tells a proxy that is there from one that is not.
AP == INSTANCE AppProofs WITH proxy <- IF proxy = "unborn" THEN proxy ELSE "polling"
BP == INSTANCE BrokerProofs WITH Peer <- Plugin

\* The engine's constants suit both of its parts.
LEMMA Assumptions == AP!AppAssumption /\ BP!BrokerAssumption
  BY EngineAssumption
  DEF AP!AppAssumption, BP!BrokerAssumption, Plugin, A!External, A!NumPlugins, AP!Plugin,
      AP!External, AP!NumPlugins

-----------------------------------------------------------------------------
(* Engine implements App and Broker                                        *)

\* The steps of Engine, by what they do.
LEMMA Steps ==
    ASSUME [Next]_vars
    PROVE  \/ MainStep
           \/ ProxyStep
           \/ \E p \in Plugin : A!ConnectPub(p) /\ M!ConnectPub(p)
           \/ \E p \in Plugin : A!Subscribe(p) /\ M!Subscribe(p)
           \/ \E p \in Plugin : (A!SubscribeFails(p) \/ A!Exit(p) \/ A!StartFails(p)) /\ M!Close(p)
           \/ \E p \in Plugin : /\ A!BindExternal(p) \/ A!SendReady(p) \/ A!ReceiveReply(p)
                                /\ UNCHANGED socketVars
           \/ \E p \in Plugin : Traffic(p)
           \/ UNCHANGED vars
  BY DEF Next, SetUpStep, Leave

\* The sets App defines.
LEMMA SameSets ==
    /\ AP!Plugin = Plugin /\ A!Plugin = Plugin
    /\ AP!External = A!External /\ AP!NumPlugins = A!NumPlugins
    /\ AP!Started = A!Started /\ AP!Arrived = A!Arrived /\ AP!ThreadStates = A!ThreadStates
  BY DEF AP!Plugin, A!Plugin, Plugin, AP!External, A!External, AP!NumPlugins, A!NumPlugins,
         AP!Started, A!Started, AP!Arrived, A!Arrived, AP!ThreadStates, A!ThreadStates

\* App::run and the plugin threads do what App lets them; the traffic is stuttering
\* to App.
THEOREM ImplementsApp == Spec => AP!Spec
  <1>1. Init => AP!InitApp
    BY SameSets DEF Init, A!InitApp, AP!InitApp, A!NoError, AP!NoError
  <1>2. ASSUME A!MainStep
        PROVE  AP!MainStep
    <2>1. A!BindOutgoing \/ A!BindIncoming \/ A!SpawnProxy => AP!MainStep
      BY DEF A!BindOutgoing, A!BindIncoming, A!SpawnProxy, A!SubSocketTCPBindError,
             A!PubSocketTCPBindError, AP!MainStep, AP!BindOutgoing, AP!BindIncoming,
             AP!SpawnProxy, AP!SubSocketTCPBindError, AP!PubSocketTCPBindError
    <2>2. A!SpawnPlugin \/ A!BeginSync => AP!MainStep
      BY SameSets DEF A!SpawnPlugin, A!BeginSync, AP!MainStep, AP!SpawnPlugin, AP!BeginSync
    <2>3. A!SyncReceive \/ A!SyncBindFails => AP!MainStep
      BY SameSets DEF A!SyncReceive, A!Ready, A!Heard, A!SyncBindFails, A!SyncUrlInUse,
                      A!EngineSyncSocketInprocBindError, AP!MainStep,
                      AP!SyncReceive, AP!Ready, AP!Heard, AP!SyncBindFails,
                      AP!SyncUrlInUse, AP!EngineSyncSocketInprocBindError
    <2>4. A!BeginReplies \/ A!SyncReply \/ A!BeginJoin => AP!MainStep
      BY SameSets DEF A!BeginReplies, A!AllSynced, A!FirstToAnswer, A!SyncReply,
                      A!Replying, A!BeginJoin, AP!MainStep, AP!BeginReplies,
                      AP!AllSynced, AP!FirstToAnswer,
                      AP!SyncReply, AP!Replying, AP!BeginJoin
    <2>5. A!JoinPlugin \/ A!ReturnOk => AP!MainStep
      BY SameSets DEF A!JoinPlugin, A!JoinNext, A!JoinFailed, A!ReturnOk, AP!MainStep,
                      AP!JoinPlugin, AP!JoinNext, AP!JoinFailed, AP!ReturnOk
    <2> QED
      BY <1>2, <2>1, <2>2, <2>3, <2>4, <2>5 DEF A!MainStep
  <1>3. ASSUME NEW p \in Plugin, NEW from, NEW to, A!Moves(p, from, to)
        PROVE  AP!Moves(p, from, to)
    BY <1>3 DEF A!Moves, AP!Moves
  <1>4. ASSUME NEW p \in Plugin,
               \/ A!BindExternal(p) \/ A!ConnectPub(p) \/ A!Subscribe(p)
               \/ A!SubscribeFails(p) \/ A!SendReady(p) \/ A!ReceiveReply(p)
               \/ A!Exit(p) \/ A!StartFails(p)
        PROVE  AP!ThreadStep(p)
    BY <1>3, <1>4, SameSets
    DEF A!BindExternal, A!ConnectPub, A!Subscribe, A!SubscribeFails, A!SendReady,
        A!ReceiveReply,
        A!Exit, A!StartFails, A!ReleasePort, AP!ThreadStep, AP!SetUpStep, AP!BindExternal,
        AP!ConnectPub, AP!Subscribe, AP!SubscribeFails, AP!SendReady, AP!ReceiveReply,
        AP!Exit,
        AP!StartFails, AP!ReleasePort
  <1>5. ASSUME ProxyStep
        PROVE  UNCHANGED AP!appVars
    <2>1. proxy # "unborn" /\ proxy' # "unborn"
      BY <1>5 DEF ProxyStep, M!ProxyStep, M!Accept, M!ApplyFilter, M!Forward, M!Poll,
                  M!EndBurst
    <2> QED
      BY <1>5, <2>1 DEF ProxyStep, runVars, AP!appVars
  <1>6. ASSUME NEW p \in Plugin, Traffic(p)
        PROVE  UNCHANGED AP!appVars
    BY <1>6 DEF Traffic, M!Publish, M!Receive, runVars, AP!appVars
  <1>7. UNCHANGED vars => UNCHANGED AP!appVars
    BY DEF vars, runVars, AP!appVars
  <1>8. [Next]_vars => [AP!Next]_(AP!appVars)
    BY <1>2, <1>4, <1>5, <1>6, <1>7, Steps, SameSets DEF MainStep, AP!Next
  <1> QED
    BY <1>1, <1>8, PTL DEF Spec, AP!Spec

\* The loop that spawns the threads meets each plugin once.
NextIsUnborn == main = "start" /\ next \in Plugin => thread[next] = "unborn"

\* The thread App::run spawns next is not there yet.
LEMMA SpawnsOnce == Spec => []NextIsUnborn
  <1>1. AP!AppAssumption
    BY Assumptions
  <1>2. Spec => []AP!IInv
    BY <1>1, ImplementsApp, AP!InductiveInvariant, PTL
  <1>3. AP!IInv => NextIsUnborn
    <2>1. \A p \in Plugin : p >= p
      BY DEF Plugin
    <2> QED
      BY <2>1, SameSets DEF AP!IInv, AP!SpawnInv, NextIsUnborn
  <1> QED
    BY <1>2, <1>3, PTL

\* The states of a plugin thread and of its sockets go together, and the proxy
\* thread is not there before SpawnProxy.
SocketInv ==
    /\ thread \in [Plugin -> A!ThreadStates]
    /\ pub \in [Plugin -> {"none", "connected", "live", "closed"}]
    /\ sub \in [Plugin -> {"none", "open", "closed"}]
    /\ main \in {"bind_outgoing", "bind_incoming", "spawn_proxy"} => proxy = "unborn"
    /\ \A p \in Plugin :
        /\ thread[p] \in {"unborn", "spawned", "bound"} => pub[p] = "none" /\ sub[p] = "none"
        /\ thread[p] = "publisher" => pub[p] \in {"connected", "live"} /\ sub[p] = "none"
        /\ thread[p] \in {"subscribed", "waiting", "running"} =>
              pub[p] \in {"connected", "live"} /\ sub[p] = "open"
        /\ thread[p] \in {"exited", "panicked"} => sub[p] # "none"

\* Sockets keep following their threads.
LEMMA SocketInvKept ==
    ASSUME SocketInv, NextIsUnborn, [Next]_vars
    PROVE  SocketInv'
  <1> USE DEF SocketInv
  <1>1. CASE MainStep
    <2>1. UNCHANGED <<pub, sub>>
      BY <1>1 DEF MainStep, socketVars
    <2>2. CASE A!SpawnPlugin
      <3>1. \/ thread' = thread
            \/ next \in Plugin /\ thread' = [thread EXCEPT ![next] = "spawned"]
        BY <2>2, SameSets DEF A!SpawnPlugin
      <3>2. main = "start" /\ main' \in {"start", "panicked"} /\ proxy' = proxy
        BY <2>2 DEF A!SpawnPlugin
      <3>3. CASE thread' = thread
        BY <2>1, <3>2, <3>3
      <3>4. CASE next \in Plugin /\ thread' = [thread EXCEPT ![next] = "spawned"]
        BY <2>1, <3>2, <3>4 DEF NextIsUnborn, A!ThreadStates
      <3> QED
        BY <3>1, <3>3, <3>4
    <2>3. CASE thread' = thread /\ proxy' = proxy
               /\ (main' = main \/ (main' \notin {"bind_outgoing"} /\ proxy = "unborn")
                    \/ main' \notin {"bind_outgoing", "bind_incoming", "spawn_proxy"})
      BY <2>1, <2>3
    <2>4. CASE A!SpawnProxy
      BY <2>1, <2>4 DEF A!SpawnProxy
    <2> QED
      BY <1>1, <2>2, <2>3, <2>4
      DEF MainStep, A!MainStep, A!BindOutgoing, A!BindIncoming, A!BeginSync,
          A!SyncReceive, A!Ready, A!Heard,
          A!SyncBindFails, A!BeginReplies, A!AllSynced, A!FirstToAnswer, A!SyncReply,
          A!Replying, A!BeginJoin, A!JoinPlugin, A!JoinNext, A!JoinFailed, A!ReturnOk
  <1>2. CASE ProxyStep
    <2>1. UNCHANGED <<main, thread, sub>> /\ (main = main' /\ proxy = "unborn" => proxy' = "unborn")
      BY <1>2 DEF ProxyStep, M!ProxyStep, runVars, M!Accept, M!ApplyFilter, M!Forward,
                  M!Poll,
                  M!EndBurst
    <2>2. \/ pub' = pub
          \/ \E p \in Plugin : pub[p] = "connected" /\ pub' = [pub EXCEPT ![p] = "live"]
      BY <1>2 DEF ProxyStep, M!ProxyStep, M!Accept, M!ApplyFilter, M!Forward, M!Poll,
                  M!EndBurst
    <2> QED
      BY <2>1, <2>2
  <1>3. ASSUME NEW p \in Plugin, A!ConnectPub(p), M!ConnectPub(p)
        PROVE  SocketInv'
    BY <1>3 DEF A!ConnectPub, A!Moves, M!ConnectPub, A!ThreadStates
  <1>4. ASSUME NEW p \in Plugin, A!Subscribe(p), M!Subscribe(p)
        PROVE  SocketInv'
    BY <1>4 DEF A!Subscribe, A!Moves, M!Subscribe, A!ThreadStates
  <1>5. ASSUME NEW p \in Plugin, A!SubscribeFails(p) \/ A!Exit(p) \/ A!StartFails(p), M!Close(p)
        PROVE  SocketInv'
    BY <1>5 DEF A!SubscribeFails, A!Exit, A!StartFails, A!Moves, M!Close, A!ThreadStates,
                A!Arrived, A!Started
  <1>6. ASSUME NEW p \in Plugin, A!BindExternal(p) \/ A!SendReady(p) \/ A!ReceiveReply(p),
               UNCHANGED socketVars
        PROVE  SocketInv'
    BY <1>6 DEF A!BindExternal, A!SendReady, A!ReceiveReply, A!Moves, socketVars,
                A!ThreadStates,
                A!Arrived, A!Started
  <1>7. ASSUME NEW p \in Plugin, Traffic(p)
        PROVE  SocketInv'
    BY <1>7 DEF Traffic, runVars, M!Publish, M!Receive
  <1>8. CASE UNCHANGED vars
    BY <1>8 DEF vars, runVars, socketVars
  <1> QED
    BY <1>1, <1>2, <1>3, <1>4, <1>5, <1>6, <1>7, <1>8, Steps

\* A thread's sockets are what its place in the set-up says.
LEMMA SocketsFollowThreads == Spec => []SocketInv
  <1>1. Init => SocketInv
    BY SameSets DEF Init, A!InitApp, M!InitBus, SocketInv, A!ThreadStates
  <1> QED
    BY <1>1, SpawnsOnce, SocketInvKept, PTL DEF Spec

\* To Broker, a step of Engine is a step of plugins that use their sockets as they
\* like.
LEMMA BusSteps ==
    ASSUME SocketInv, [Next]_vars
    PROVE  [BP!Next]_(BP!busVars)
  <1>1. CASE MainStep
    <2>1. UNCHANGED socketVars /\ (proxy' = proxy \/ A!SpawnProxy)
      BY <1>1 DEF MainStep, A!MainStep, A!BindOutgoing, A!BindIncoming, A!SpawnPlugin,
                  A!BeginSync, A!SyncReceive, A!Ready, A!Heard, A!SyncBindFails,
                  A!BeginReplies, A!AllSynced, A!FirstToAnswer, A!SyncReply, A!Replying,
                  A!BeginJoin, A!JoinPlugin, A!JoinNext, A!JoinFailed, A!ReturnOk
    <2>2. CASE proxy' = proxy
      BY <2>1, <2>2 DEF socketVars, BP!busVars
    <2>3. CASE A!SpawnProxy
      BY <2>1, <2>3 DEF A!SpawnProxy, SocketInv, socketVars, BP!StartProxy, BP!Next
    <2> QED
      BY <2>1, <2>2, <2>3
  <1>2. CASE ProxyStep
    BY <1>2 DEF ProxyStep, M!ProxyStep, M!Accept, M!ApplyFilter, M!Forward, M!Poll,
                M!EndBurst,
                M!Matches, M!Room, BP!Matches, BP!Room,
                BP!ProxyStep, BP!Accept, BP!ApplyFilter, BP!Forward, BP!Poll,
                BP!EndBurst, BP!Next
  <1>3. ASSUME NEW p \in Plugin, A!ConnectPub(p), M!ConnectPub(p)
        PROVE  BP!FreePluginStep(p)
    BY <1>3 DEF M!ConnectPub, BP!ConnectPub, BP!FreePluginStep
  <1>4. ASSUME NEW p \in Plugin, A!Subscribe(p), M!Subscribe(p)
        PROVE  BP!FreePluginStep(p)
    BY <1>4 DEF SocketInv, A!Subscribe, A!Moves, M!Subscribe, BP!Subscribe,
                BP!FreePluginStep
  <1>5. ASSUME NEW p \in Plugin, A!SubscribeFails(p) \/ A!Exit(p) \/ A!StartFails(p), M!Close(p)
        PROVE  BP!FreePluginStep(p)
    BY <1>5 DEF SocketInv, A!SubscribeFails, A!Exit, A!StartFails, A!Moves, M!Close,
                      BP!Close, BP!FreePluginStep
  <1>6. ASSUME NEW p \in Plugin, Traffic(p)
        PROVE  BP!FreePluginStep(p)
    <2>1. BP!IsOpen(p)
      BY <1>6 DEF SocketInv, Traffic, BP!IsOpen
    <2> QED
      BY <1>6, <2>1 DEF Traffic, M!Publish, M!Receive, M!EventOf, M!Offer, M!Room,
                        BP!Publish,
                        BP!Receive, BP!EventOf, BP!Offer, BP!Room, BP!FreePluginStep
  <1>7. CASE \E p \in Plugin : /\ A!BindExternal(p) \/ A!SendReady(p) \/ A!ReceiveReply(p)
                               /\ UNCHANGED socketVars
    BY <1>7 DEF A!BindExternal, A!SendReady, A!ReceiveReply, A!Moves, socketVars, BP!busVars
  <1>8. CASE UNCHANGED vars
    BY <1>8 DEF vars, socketVars, BP!busVars
  <1> QED
    BY <1>1, <1>2, <1>3, <1>4, <1>5, <1>6, <1>7, <1>8, Steps DEF BP!Next

\* The engine's plugins use their sockets as Broker lets them.
THEOREM ImplementsBroker == Spec => BP!Spec
  <1>1. Init => BP!InitBus
    BY DEF Init, M!InitBus, BP!InitBus
  <1> QED
    BY <1>1, BusSteps, SocketsFollowThreads, PTL DEF Spec, BP!Spec

-----------------------------------------------------------------------------
(* What is known of the two                                                *)

\* No start function runs before all plugins are ready.
LEMMA Barrier == Spec => []A!StartBarrier
  <1>1. AP!AppAssumption
    BY Assumptions
  <1>2. AP!StartBarrier => A!StartBarrier
    BY SameSets DEF AP!StartBarrier, A!StartBarrier
  <1> QED
    BY <1>1, <1>2, ImplementsApp, AP!BarrierHolds, PTL

BusInv == BP!TypeOK /\ BP!OrderInv /\ BP!SilentInv /\ BP!KeptAfterFirst

\* What is proved of Broker holds of the engine's traffic.
LEMMA BusFacts == Spec => []BusInv
  <1>1. BP!BrokerAssumption
    BY Assumptions
  <1> QED
    BY <1>1, ImplementsBroker, BP!OrderIsInductive, BP!OnlyFirstAreLost, PTL DEF BusInv

\* The queues and histories of a plugin, as sequences.
LEMMA BusTypes ==
    ASSUME BusInv, NEW p \in Plugin
    PROVE  /\ pubQ[p] \in Seq(BP!Event) /\ subQ[p] \in Seq(BP!Event)
           /\ received[p] \in Seq(BP!Event) /\ published[p] \in Seq(BP!Event)
           /\ forwarded \in Seq(BP!Event)
           /\ Len(pubQ[p]) \in Nat /\ Len(subQ[p]) \in Nat
           /\ Len(published[p]) \in Nat /\ Len(forwarded) \in Nat
           /\ Len(pubQ[p]) <= Len(published[p])
  BY DEF BusInv, BP!TypeOK, BP!SilentInv

\* What reaches the engine's plugins is what was published, in the order of the log.
LEMMA LogFacts == Spec => []BP!LogInv
  <1>1. BP!BrokerAssumption
    BY Assumptions
  <1> QED
    BY <1>1, ImplementsBroker, BP!DeliveryIsFaithful, PTL

\* App::run returns Ok only after every start function has.
LEMMA OkMeansExited == Spec => [](main = "ok" => \A p \in Plugin : thread[p] = "exited")
  <1>1. AP!AppAssumption
    BY Assumptions
  <1>2. AP!OkMeansAllExited => (main = "ok" => \A p \in Plugin : thread[p] = "exited")
    BY SameSets DEF AP!OkMeansAllExited
  <1> QED
    BY <1>1, <1>2, ImplementsApp, AP!OkIsHonest, PTL

-----------------------------------------------------------------------------
(* What a plugin's loop has seen                                           *)

\* The events that have been published, those of them that plugin p published, and
\* those that it subscribed to.
AllPublished == {e \in BP!Event : BP!Genuine(e)}
From(p) == {e \in AllPublished : e.src = p}
WantedBy(p) == {e \in AllPublished : M!Matches(Subscriptions[p], e)}

\* Publishers, numbers and types of what was published.
LEMMA PublishedFacts ==
    ASSUME BP!LogInv, NEW p \in Plugin
    PROVE  /\ published[p] \in Seq(BP!Event) /\ Len(published[p]) \in Nat
           /\ DOMAIN published[p] = 1..Len(published[p])
           /\ \A i \in DOMAIN published[p] :
                 /\ published[p][i] \in BP!Event
                 /\ published[p][i].src = p /\ published[p][i].num = i
                 /\ BP!Genuine(published[p][i])
           /\ heard[p] \in Seq(Nat) /\ Len(heard[p]) = Len(published[p])
           /\ \A i \in DOMAIN published[p] :
                 i \in DOMAIN heard[p] /\ heard[p][i] \in Nat /\ heard[p][i] <= Len(received[p])
  <1>1. BP!TypeOK /\ BP!PublishedInv
    BY DEF BP!LogInv, BP!IInv, BP!OrderInv
  <1>2. /\ published[p] \in Seq(BP!Event) /\ Len(published[p]) \in Nat
        /\ DOMAIN published[p] = 1..Len(published[p])
        /\ \A i \in DOMAIN published[p] : published[p][i] \in BP!Event
        /\ heard[p] \in Seq(Nat)
    BY <1>1 DEF BP!TypeOK
  <1>3. \A i \in DOMAIN published[p] : published[p][i].src = p /\ published[p][i].num = i
    BY <1>1 DEF BP!PublishedInv
  <1>4. Len(heard[p]) = Len(published[p])
    BY <1>1 DEF BP!PublishedInv
  <1>5. \A i \in DOMAIN heard[p] : heard[p][i] \in Nat /\ heard[p][i] <= Len(received[p])
    BY <1>1, <1>2 DEF BP!PublishedInv
  <1>6. DOMAIN heard[p] = DOMAIN published[p]
    BY <1>2, <1>4
  <1> QED
    BY <1>2, <1>3, <1>4, <1>5, <1>6 DEF BP!Genuine

\* What a plugin has published is in its history, once.
LEMMA FromOne ==
    ASSUME BP!LogInv, NEW p \in Plugin
    PROVE  /\ EachIn(From(p), published[p], Len(published[p]))
           /\ AllFrom(published[p], Len(published[p]), From(p))
           /\ NoneTwice(published[p], Len(published[p]))
           /\ \A e \in AllPublished : /\ e \in From(e.src) /\ e.src \in Plugin
                                      /\ e.num \in DOMAIN published[e.src]
                                      /\ published[e.src][e.num] = e
  <1>1. \A e \in AllPublished : /\ e \in From(e.src) /\ e.src \in Plugin
                                /\ e.num \in DOMAIN published[e.src]
                                /\ published[e.src][e.num] = e
    BY DEF AllPublished, From, BP!Genuine, BP!Event
  <1>2. EachIn(From(p), published[p], Len(published[p]))
    BY <1>1, PublishedFacts DEF EachIn, From
  <1>3. AllFrom(published[p], Len(published[p]), From(p))
    BY PublishedFacts DEF AllFrom, From, AllPublished
  <1>4. NoneTwice(published[p], Len(published[p]))
    BY PublishedFacts DEF NoneTwice
  <1> QED
    BY <1>1, <1>2, <1>3, <1>4

\* The places of the log: each event has one.
LEMMA LogPlaces ==
    ASSUME BP!LogInv
    PROVE  /\ forwarded \in Seq(BP!Event) /\ Len(forwarded) \in Nat
           /\ DOMAIN forwarded = 1..Len(forwarded)
           /\ \A i \in DOMAIN forwarded : forwarded[i] \in BP!Event /\ BP!Genuine(forwarded[i])
           /\ \A i, j \in DOMAIN forwarded : forwarded[i] = forwarded[j] => i = j
           /\ \A i, j \in DOMAIN forwarded :
                 i < j /\ forwarded[i].src = forwarded[j].src => forwarded[i].num < forwarded[j].num
           /\ \A a, b : BP!Before(forwarded, a, b) => ~BP!Before(forwarded, b, a) /\ a # b
  <1>1. BP!TypeOK /\ BP!OrderInv /\ BP!GenuineInv
    BY DEF BP!LogInv, BP!IInv
  <1>2. /\ forwarded \in Seq(BP!Event) /\ Len(forwarded) \in Nat
        /\ DOMAIN forwarded = 1..Len(forwarded)
        /\ \A i \in DOMAIN forwarded : forwarded[i] \in BP!Event
    BY <1>1 DEF BP!TypeOK
  <1>3. \A i \in DOMAIN forwarded : BP!Genuine(forwarded[i])
    BY <1>1 DEF BP!GenuineInv
  <1>4. \A i, j \in DOMAIN forwarded :
           i < j /\ forwarded[i].src = forwarded[j].src => forwarded[i].num < forwarded[j].num
    BY <1>1 DEF BP!OrderInv, BP!ForwardedInv, BP!Ordered
  <1>5. ASSUME NEW i \in DOMAIN forwarded, NEW j \in DOMAIN forwarded,
               forwarded[i] = forwarded[j]
        PROVE  i = j
    BY <1>1, <1>5, Assumptions, BP!NoEventTwice
  <1>6. ASSUME NEW a, NEW b, BP!Before(forwarded, a, b)
        PROVE  ~BP!Before(forwarded, b, a) /\ a # b
    <2>1. PICK m \in DOMAIN forwarded, n \in DOMAIN forwarded :
             m < n /\ forwarded[m] = a /\ forwarded[n] = b
      BY <1>6 DEF BP!Before
    <2>2. m \in Nat /\ n \in Nat
      BY <1>2
    <2>3. ASSUME NEW k \in DOMAIN forwarded, NEW h \in DOMAIN forwarded,
                 k < h, forwarded[k] = b, forwarded[h] = a
          PROVE  FALSE
      BY <1>5, <2>1, <2>2, <2>3
    <2> QED
      BY <1>5, <2>1, <2>2, <2>3 DEF BP!Before
  <1> QED
    BY <1>2, <1>3, <1>4, <1>5, <1>6

\* What a plugin has received: events it subscribed to, none twice, and those of
\* one publisher in the order they were published.
LEMMA ReceivedFacts ==
    ASSUME BP!LogInv, NEW p \in Plugin
    PROVE  /\ received[p] \in Seq(BP!Event) /\ Len(received[p]) \in Nat
           /\ DOMAIN received[p] = 1..Len(received[p])
           /\ \A i \in DOMAIN received[p] :
                 received[p][i] \in WantedBy(p) /\ BP!Within(forwarded, received[p][i])
           /\ \A i, j \in DOMAIN received[p] : received[p][i] = received[p][j] => i = j
           /\ \A i, j \in DOMAIN received[p] :
                 i < j /\ received[p][i].src = received[p][j].src
                    => received[p][i].num < received[p][j].num
  <1>1. BP!TypeOK /\ BP!SubQueueInv /\ BP!ReadInv
    BY DEF BP!LogInv, BP!IInv
  <1>2. /\ received[p] \in Seq(BP!Event) /\ Len(received[p]) \in Nat
        /\ DOMAIN received[p] = 1..Len(received[p])
        /\ \A i \in DOMAIN received[p] : received[p][i] \in BP!Event
    BY <1>1 DEF BP!TypeOK
  <1>3. ASSUME NEW i \in DOMAIN received[p]
        PROVE  received[p][i] \in WantedBy(p) /\ BP!Within(forwarded, received[p][i])
    <2>1. BP!Within(forwarded, received[p][i])
      BY <1>1 DEF BP!SubQueueInv
    <2>2. M!Matches(Subscriptions[p], received[p][i])
      BY <1>1 DEF BP!ReadInv, BP!Wants, BP!Matches, M!Matches
    <2>3. BP!Genuine(received[p][i])
      BY <2>1, LogPlaces DEF BP!Within
    <2> QED
      BY <1>2, <2>1, <2>2, <2>3 DEF WantedBy, AllPublished
  <1>4. ASSUME NEW i \in DOMAIN received[p], NEW j \in DOMAIN received[p], i < j
        PROVE  BP!Before(forwarded, received[p][i], received[p][j])
    BY <1>1, <1>4 DEF BP!ReadInv
  <1>5. ASSUME NEW i \in DOMAIN received[p], NEW j \in DOMAIN received[p], i # j
        PROVE  received[p][i] # received[p][j]
    <2>1. i < j \/ j < i
      BY <1>2, <1>5
    <2> QED
      BY <1>4, <2>1, LogPlaces
  <1>6. ASSUME NEW i \in DOMAIN received[p], NEW j \in DOMAIN received[p], i < j,
               received[p][i].src = received[p][j].src
        PROVE  received[p][i].num < received[p][j].num
    BY <1>4, <1>6, LogPlaces DEF BP!Before
  <1> QED
    BY <1>2, <1>3, <1>5, <1>6

\* What is in a plugin's queue it subscribed to as well.
LEMMA QueuedFacts ==
    ASSUME BP!LogInv, NEW p \in Plugin
    PROVE  \A i \in DOMAIN subQ[p] : subQ[p][i] \in WantedBy(p)
  <1>1. \A i \in DOMAIN subQ[p] :
           BP!Within(forwarded, subQ[p][i]) /\ M!Matches(Subscriptions[p], subQ[p][i])
    BY DEF BP!LogInv, BP!IInv, BP!SubQueueInv, BP!Wants, BP!Matches, M!Matches
  <1> QED
    BY <1>1, LogPlaces DEF WantedBy, AllPublished, BP!Within

\* A plugin receives no more events than there are for it, and when it has received
\* as many, it has received them all.
LEMMA AllReceived ==
    ASSUME BP!LogInv, NEW p \in Plugin, NEW k \in Nat, NEW g,
           EachIn(WantedBy(p), g, k)
    PROVE  /\ Len(received[p]) <= k
           /\ Len(received[p]) = k => \A e \in WantedBy(p) : M!Has(received[p], e)
  <1> DEFINE n == Len(received[p])
             E == WantedBy(p)
             f == received[p]
  <1>1. n \in Nat /\ DOMAIN f = 1..n
    BY ReceivedFacts
  <1>2. AllFrom(f, n, E)
    BY <1>1, ReceivedFacts DEF AllFrom
  <1>3. NoneTwice(f, n)
    BY <1>1, ReceivedFacts DEF NoneTwice
  <1>4. EachIn(E, g, k)
    OBVIOUS
  <1> HIDE DEF n, E, f
  <1>5. n <= k /\ (n = k => EachIn(E, f, n))
    BY <1>1, <1>2, <1>3, <1>4, Pigeonhole
  <1> QED
    BY <1>1, <1>5 DEF n, E, f, EachIn, M!Has

\* When nothing is under way, a plugin that has missed nothing has received every
\* event for it, and as many as there are.
LEMMA MustHaveRead ==
    ASSUME BP!LogInv, NothingUnderWay, NEW p \in Plugin, ~Missed(p),
           NEW k \in Nat, NEW f, AllFrom(f, k, WantedBy(p)), NoneTwice(f, k)
    PROVE  k <= Len(received[p])
  <1>1. ASSUME NEW e \in WantedBy(p)
        PROVE  \E i \in 1..Len(received[p]) : received[p][i] = e
    <2>1. e \in AllPublished /\ M!Matches(Subscriptions[p], e)
      BY DEF WantedBy
    <2>2. e.src \in Plugin /\ e.num \in DOMAIN published[e.src] /\ published[e.src][e.num] = e
      BY <2>1, FromOne DEF AllPublished, BP!Event
    <2>3. Comes(e, p)
      BY <2>1, <2>2 DEF Missed
    <2>4. pubQ[e.src] = <<>> /\ subQ[p] = <<>>
      BY <2>2 DEF NothingUnderWay
    <2>5. M!Has(received[p], e)
      BY <2>3, <2>4 DEF Comes, M!Has
    <2> QED
      BY <2>5, ReceivedFacts DEF M!Has
  <1>2. EachIn(WantedBy(p), received[p], Len(received[p]))
    BY <1>1 DEF EachIn
  <1>3. Len(received[p]) \in Nat
    BY ReceivedFacts
  <1> QED
    BY <1>2, <1>3, Pigeonhole

\* The proxy takes no more events than have been published.
LEMMA LogNoLonger ==
    ASSUME BP!LogInv, NEW k \in Nat, NEW g, EachIn(AllPublished, g, k)
    PROVE  Len(forwarded) <= k
  <1> DEFINE n == Len(forwarded)
             E == AllPublished
             f == forwarded
  <1>1. n \in Nat /\ DOMAIN f = 1..n
    BY LogPlaces
  <1>2. AllFrom(f, n, E)
    BY <1>1, LogPlaces DEF AllFrom, AllPublished
  <1>3. NoneTwice(f, n)
    BY <1>1, LogPlaces DEF NoneTwice
  <1>4. EachIn(E, g, k)
    OBVIOUS
  <1> HIDE DEF n, E, f
  <1>5. n <= k
    BY <1>1, <1>2, <1>3, <1>4, Pigeonhole
  <1> QED
    BY <1>5 DEF n

\* What publishing does to the histories.
LEMMA PublishEffect ==
    ASSUME BP!LogInv, NEW p \in Plugin, NEW t \in EventType, M!Publish(p, t)
    PROVE  /\ Len(published'[p]) = Len(published[p]) + 1
           /\ DOMAIN published'[p] = 1..(Len(published[p]) + 1)
           /\ \A i \in 1..Len(published[p]) : published'[p][i] = published[p][i]
           /\ published'[p][Len(published[p]) + 1].type = t
           /\ DOMAIN heard'[p] = 1..(Len(published[p]) + 1)
           /\ \A i \in 1..Len(published[p]) : heard'[p][i] = heard[p][i]
           /\ heard'[p][Len(published[p]) + 1] = Len(received[p])
           /\ \A q \in Plugin : q # p => published'[q] = published[q] /\ heard'[q] = heard[q]
           /\ UNCHANGED <<received, forwarded, subQ>>
  <1> DEFINE e == M!EventOf(p, t)
  <1>1. BP!TypeOK
    BY DEF BP!LogInv, BP!IInv
  <1>2. /\ published' = [published EXCEPT ![p] = Append(@, e)]
        /\ heard' = [heard EXCEPT ![p] = Append(@, Len(received[p]))]
        /\ UNCHANGED <<received, forwarded, subQ>>
        /\ Len(published[p]) < MaxEvents
    BY DEF M!Publish
  <1>3. e \in BP!Event /\ e.type = t
    <2>1. Len(published[p]) + 1 \in 1..MaxEvents
      BY <1>2, PublishedFacts, EngineAssumption
    <2> QED
      BY <2>1 DEF M!EventOf, BP!Event
  <1>4. /\ published'[p] = Append(published[p], e)
        /\ heard'[p] = Append(heard[p], Len(received[p]))
        /\ \A q \in Plugin : q # p => published'[q] = published[q] /\ heard'[q] = heard[q]
    BY <1>1, <1>2 DEF BP!TypeOK
  <1> HIDE DEF e
  <1>5. /\ Len(published'[p]) = Len(published[p]) + 1
        /\ DOMAIN published'[p] = 1..(Len(published[p]) + 1)
        /\ \A i \in 1..Len(published[p]) : published'[p][i] = published[p][i]
        /\ published'[p][Len(published[p]) + 1] = e
    BY <1>3, <1>4, PublishedFacts, AppendFacts
  <1>6. Len(received[p]) \in Nat
    BY ReceivedFacts
  <1>7. /\ DOMAIN heard'[p] = 1..(Len(heard[p]) + 1)
        /\ \A i \in 1..Len(heard[p]) : heard'[p][i] = heard[p][i]
        /\ heard'[p][Len(heard[p]) + 1] = Len(received[p])
    BY <1>4, <1>6, PublishedFacts, AppendFacts
  <1> QED
    BY <1>2, <1>3, <1>4, <1>5, <1>7, PublishedFacts

\* A plugin that publishes one more event of a type has published only that type.
LEMMA PublishOneType ==
    ASSUME BP!LogInv, NEW p \in Plugin, NEW t \in EventType, M!Publish(p, t),
           \A i \in DOMAIN published[p] : published[p][i].type = t
    PROVE  \A i \in DOMAIN published'[p] : published'[p][i].type = t
  <1>1. /\ DOMAIN published'[p] = 1..(Len(published[p]) + 1)
        /\ \A i \in 1..Len(published[p]) : published'[p][i] = published[p][i]
        /\ published'[p][Len(published[p]) + 1].type = t
    BY PublishEffect
  <1>2. Len(published[p]) \in Nat /\ DOMAIN published[p] = 1..Len(published[p])
    BY PublishedFacts
  <1>3. \A i \in 1..(Len(published[p]) + 1) :
           i \in 1..Len(published[p]) \/ i = Len(published[p]) + 1
    BY <1>2
  <1> QED
    BY <1>1, <1>2, <1>3

\* What receiving does to the histories.
LEMMA ReceiveEffect ==
    ASSUME BP!LogInv, NEW p \in Plugin, M!Receive(p)
    PROVE  /\ Len(received'[p]) = Len(received[p]) + 1
           /\ DOMAIN received'[p] = 1..(Len(received[p]) + 1)
           /\ \A i \in 1..Len(received[p]) : received'[p][i] = received[p][i]
           /\ received'[p][Len(received[p]) + 1] = Head(subQ[p])
           /\ 1 \in DOMAIN subQ[p] /\ Head(subQ[p]) = subQ[p][1]
           /\ \A q \in Plugin : q # p => received'[q] = received[q]
           /\ UNCHANGED <<published, heard, forwarded>>
  <1>1. BP!TypeOK
    BY DEF BP!LogInv, BP!IInv
  <1>2. /\ received' = [received EXCEPT ![p] = Append(@, Head(subQ[p]))]
        /\ UNCHANGED <<published, heard, forwarded>>
        /\ subQ[p] # <<>>
    BY DEF M!Receive
  <1>3. subQ[p] \in Seq(BP!Event)
    BY <1>1 DEF BP!TypeOK
  <1>4. 1 \in DOMAIN subQ[p] /\ Head(subQ[p]) = subQ[p][1] /\ Head(subQ[p]) \in BP!Event
    BY <1>2, <1>3, TailFacts
  <1>5. /\ received'[p] = Append(received[p], Head(subQ[p]))
        /\ \A q \in Plugin : q # p => received'[q] = received[q]
    BY <1>1, <1>2 DEF BP!TypeOK
  <1>6. /\ Len(received'[p]) = Len(received[p]) + 1
        /\ DOMAIN received'[p] = 1..(Len(received[p]) + 1)
        /\ \A i \in 1..Len(received[p]) : received'[p][i] = received[p][i]
        /\ received'[p][Len(received[p]) + 1] = Head(subQ[p])
    BY <1>4, <1>5, ReceivedFacts, AppendFacts
  <1> QED
    BY <1>2, <1>4, <1>5, <1>6

\* The engine's own steps leave the histories alone and make no thread exit.
LEMMA QuietSteps ==
    ASSUME SocketInv,
           \/ MainStep \/ ProxyStep \/ UNCHANGED vars
           \/ \E p \in Plugin : SetUpStep(p)
    PROVE  /\ UNCHANGED <<published, received, heard>>
           /\ \A q \in Plugin : thread'[q] = "exited" => thread[q] = "exited"
  <1>1. CASE MainStep
    <2>1. \/ thread' = thread
          \/ next \in Plugin /\ thread' = [thread EXCEPT ![next] = "spawned"]
      BY <1>1, SameSets
      DEF MainStep, A!MainStep, A!BindOutgoing, A!BindIncoming, A!SpawnProxy,
          A!SpawnPlugin, A!BeginSync, A!SyncReceive, A!Ready, A!Heard, A!SyncBindFails,
          A!BeginReplies, A!AllSynced, A!FirstToAnswer, A!SyncReply, A!Replying,
          A!BeginJoin, A!JoinPlugin, A!JoinNext, A!JoinFailed, A!ReturnOk
    <2> QED
      BY <1>1, <2>1 DEF MainStep, socketVars, SocketInv
  <1>2. CASE ProxyStep
    BY <1>2 DEF ProxyStep, M!ProxyStep, M!Accept, M!ApplyFilter, M!Forward, M!Poll,
                M!EndBurst, runVars
  <1>3. CASE UNCHANGED vars
    BY <1>3 DEF vars, runVars, socketVars
  <1>4. ASSUME NEW p \in Plugin, SetUpStep(p)
        PROVE  /\ UNCHANGED <<published, received, heard>>
               /\ \A q \in Plugin : thread'[q] = "exited" => thread[q] = "exited"
    <2>1. UNCHANGED <<published, received, heard>>
      BY <1>4 DEF SetUpStep, M!ConnectPub, M!Subscribe, M!Close, socketVars
    <2>2. \E to : to # "exited" /\ thread' = [thread EXCEPT ![p] = to]
      BY <1>4 DEF SetUpStep, A!BindExternal, A!ConnectPub, A!Subscribe, A!SubscribeFails,
                  A!SendReady, A!ReceiveReply, A!Moves
    <2> QED
      BY <2>1, <2>2 DEF SocketInv
  <1> QED
    BY <1>1, <1>2, <1>3, <1>4

\* The end of a start function ends one thread and leaves the histories alone.
LEMMA LeaveEffect ==
    ASSUME SocketInv, NEW p \in Plugin, Leave(p)
    PROVE  /\ UNCHANGED <<published, received, heard>>
           /\ \A q \in Plugin : q # p => thread'[q] = thread[q]
  BY DEF Leave, M!Close, A!Exit, A!StartFails, A!Moves, SocketInv

-----------------------------------------------------------------------------
(* Nothing before the barrier                                              *)

\* Only a start function publishes.
SilenceInv == \A p \in Plugin : published[p] # <<>> => thread[p] \in A!Started

\* Only a start function publishes.
LEMMA SilenceHolds == Spec => []SilenceInv
  <1>1. Init => SilenceInv
    BY DEF Init, M!InitBus, SilenceInv
  <1>2. ASSUME SilenceInv, SocketInv, NextIsUnborn, BusInv, [Next]_vars
        PROVE  SilenceInv'
    <2>1. ASSUME NEW p \in Plugin, Traffic(p)
          PROVE  SilenceInv'
      <3>1. thread[p] = "running" /\ thread' = thread
        BY <2>1 DEF Traffic, runVars
      <3>2. \A q \in Plugin : q # p => published'[q] = published[q]
        BY <1>2, <2>1 DEF Traffic, M!Publish, M!Receive, BusInv, BP!TypeOK
      <3> QED
        BY <1>2, <3>1, <3>2 DEF SilenceInv, A!Started
    <2>2. CASE MainStep
      <3>1. published' = published
        BY <2>2 DEF MainStep, socketVars
      <3>2. \/ thread' = thread
            \/ /\ next \in Plugin /\ thread[next] = "unborn"
               /\ thread' = [thread EXCEPT ![next] = "spawned"]
        BY <1>2, <2>2, SameSets
        DEF NextIsUnborn, MainStep, A!MainStep, A!BindOutgoing, A!BindIncoming,
            A!SpawnProxy,
            A!SpawnPlugin, A!BeginSync, A!SyncReceive, A!Ready, A!Heard, A!SyncBindFails,
            A!BeginReplies, A!AllSynced, A!FirstToAnswer,
            A!SyncReply, A!Replying, A!BeginJoin, A!JoinPlugin, A!JoinNext, A!JoinFailed,
            A!ReturnOk
      <3> QED
        BY <1>2, <3>1, <3>2 DEF SilenceInv, SocketInv, A!Started
    <2>3. ASSUME published' = published, NEW p \in Plugin, NEW from, NEW to,
                 A!Moves(p, from, to), from \in A!Started => to \in A!Started
          PROVE  SilenceInv'
      BY <1>2, <2>3 DEF A!Moves, SilenceInv, SocketInv
    <2>4. ASSUME NEW p \in Plugin, published' = published,
                 \/ A!BindExternal(p) \/ A!ConnectPub(p) \/ A!Subscribe(p)
                 \/ A!SubscribeFails(p) \/ A!SendReady(p) \/ A!ReceiveReply(p)
                 \/ A!Exit(p) \/ A!StartFails(p)
          PROVE  SilenceInv'
      BY <2>3, <2>4 DEF A!BindExternal, A!ConnectPub, A!Subscribe, A!SubscribeFails,
                        A!SendReady,
                        A!ReceiveReply, A!Exit, A!StartFails, A!Started
    <2>5. ASSUME NEW p \in Plugin, M!ConnectPub(p) \/ M!Subscribe(p) \/ M!Close(p)
          PROVE  published' = published
      BY <2>5 DEF M!ConnectPub, M!Subscribe, M!Close
    <2>6. UNCHANGED socketVars => published' = published
      BY DEF socketVars
    <2>7. CASE ProxyStep \/ UNCHANGED vars
      <3>1. UNCHANGED <<published, thread>>
        BY <2>7 DEF ProxyStep, M!ProxyStep, M!Accept, M!ApplyFilter, M!Forward, M!Poll,
                    M!EndBurst,
                    runVars, vars, socketVars
      <3> QED
        BY <1>2, <3>1 DEF SilenceInv
    <2> QED
      BY <1>2, <2>1, <2>2, <2>4, <2>5, <2>6, <2>7, Steps
  <1> QED
    BY <1>1, <1>2, SocketsFollowThreads, SpawnsOnce, BusFacts, PTL DEF Spec

\* No plugin publishes before every plugin has told the engine what it wants.
THEOREM TrafficAfterBarrier == Spec => []NoTrafficBeforeBarrier
  <1>1. ASSUME SilenceInv, SocketInv, A!StartBarrier
        PROVE  NoTrafficBeforeBarrier
    <2>1. ASSUME NEW p \in Plugin, published[p] # <<>>, NEW q \in Plugin
          PROVE  sub[q] # "none"
      <3>1. thread[q] \in A!Arrived
        BY <1>1, <2>1, SameSets DEF SilenceInv, A!StartBarrier
      <3> QED
        BY <1>1, <3>1 DEF SocketInv, A!Arrived, A!Started
    <2> QED
      BY <2>1 DEF NoTrafficBeforeBarrier
  <1> QED
    BY <1>1, SilenceHolds, SocketsFollowThreads, Barrier, PTL

\* Below the high-water mark, a plugin loses first events only.
THEOREM OnlyFirstAreLost == Spec => []OnlyFirstEventsLost
  <1>1. BP!KeptAfterFirst => OnlyFirstEventsLost
    BY DEF BP!KeptAfterFirst, OnlyFirstEventsLost, BP!Kept, Kept, BP!Has, M!Has
  <1>2. BusInv => BP!KeptAfterFirst
    BY DEF BusInv
  <1> QED
    BY <1>1, <1>2, BusFacts, PTL

-----------------------------------------------------------------------------
(* No subscription comes too late                                          *)

SomeTraffic == \E p \in Plugin : published[p] # <<>>

\* In a burst there has been traffic, so every plugin has subscribed, and the poll
\* that began the burst has applied what they subscribed to.
BurstInv ==
    /\ proxy \in {"woken", "forwarding"} =>
          /\ SomeTraffic
          /\ \A p \in Plugin : sub[p] = "open" => applied[p] = Subscriptions[p]
    /\ forwarded # <<>> => SomeTraffic
    /\ \A p \in Plugin : Len(subQ[p]) <= Len(forwarded)

\* There is no burst at first, and nothing to miss.
LEMMA InitBurst == Init => BurstInv /\ NoneMissed
  <1> SUFFICES ASSUME Init
               PROVE  BurstInv /\ NoneMissed
    OBVIOUS
  <1>1. proxy = "unborn" /\ forwarded = <<>> /\ DOMAIN forwarded = {}
    BY DEF Init, M!InitBus
  <1>2. \A p \in Plugin : Len(subQ[p]) = 0 /\ Len(forwarded) = 0
    BY DEF Init, M!InitBus
  <1> QED
    BY <1>1, <1>2 DEF BurstInv, NoneMissed

\* A queue that grows still has what it had, and has the new event.
LEMMA HasAppend ==
    ASSUME NEW S, NEW s \in Seq(S), NEW e \in S
    PROVE  M!Has(Append(s, e), e) /\ \A a : M!Has(s, a) => M!Has(Append(s, e), a)
  <1>1. Len(s) + 1 \in DOMAIN Append(s, e) /\ Append(s, e)[Len(s) + 1] = e
    OBVIOUS
  <1> QED
    BY <1>1, AppendElements DEF M!Has

\* Steps that leave the events alone.
LEMMA QuietBurst ==
    ASSUME BusInv, BurstInv, NoneMissed, NoTrafficBeforeBarrier,
           UNCHANGED <<subQ, published, forwarded, received>>,
           \A p \in Plugin : sub'[p] = "open" =>
                sub[p] = "open" \/ (sub[p] = "none" /\ proxy' = proxy),
           \/ UNCHANGED <<proxy, applied>>
           \/ proxy' \in {"unborn", "polling"}
           \/ /\ proxy' \in {"woken", "forwarding"} => SomeTraffic
              /\ \A p \in Plugin : sub'[p] = "open" => applied'[p] = Subscriptions[p]
           \/ /\ proxy' = proxy
              /\ \A p \in Plugin : applied[p] = Subscriptions[p] => applied'[p] = applied[p]
    PROVE  BurstInv' /\ NoneMissed'
  <1>1. SomeTraffic => \A p \in Plugin : sub'[p] = "open" => sub[p] = "open"
    BY DEF SomeTraffic, NoTrafficBeforeBarrier
  <1>2. SomeTraffic' <=> SomeTraffic
    BY DEF SomeTraffic
  <1>3. BurstInv'
    BY <1>1, <1>2 DEF BurstInv
  <1>4. NoneMissed'
    <2>1. CASE forwarded = <<>>
      <3>1. DOMAIN forwarded' = {}
        BY <2>1
      <3> QED
        BY <3>1 DEF NoneMissed
    <2>2. CASE forwarded # <<>>
      BY <1>1, <2>2 DEF BurstInv, NoneMissed, M!Has
    <2> QED
      BY <2>1, <2>2
  <1> QED
    BY <1>3, <1>4

\* Publishing makes no plugin miss an event of the log.
LEMMA PublishBurst ==
    ASSUME BusInv, BurstInv, NoneMissed, NEW p \in Plugin, NEW t \in EventType, BP!Publish(p, t)
    PROVE  BurstInv' /\ NoneMissed'
  <1>1. UNCHANGED <<proxy, sub, applied, subQ, forwarded, received>>
    BY DEF BP!Publish
  <1>2. SomeTraffic'
    <2>1. published'[p] = Append(published[p], BP!EventOf(p, t))
      BY DEF BP!Publish, BusInv, BP!TypeOK
    <2>2. BP!EventOf(p, t) \in BP!Event
      <3>1. Len(published[p]) + 1 \in 1..MaxEvents
        BY BusTypes, EngineAssumption DEF BP!Publish
      <3> QED
        BY <3>1 DEF BP!EventOf, BP!Event
    <2>3. published'[p] # <<>>
      BY <2>1, <2>2, BusTypes
    <2> QED
      BY <2>3 DEF SomeTraffic
  <1> QED
    BY <1>1, <1>2 DEF BurstInv, NoneMissed, M!Has

\* An event received leaves the queue and nothing else.
LEMMA ReceiveBurst ==
    ASSUME BusInv, BurstInv, NoneMissed, NEW p \in Plugin, BP!Receive(p)
    PROVE  BurstInv' /\ NoneMissed'
  <1> DEFINE e == Head(subQ[p])
  <1>1. UNCHANGED <<proxy, sub, applied, published, forwarded>> /\ subQ[p] # <<>>
    BY DEF BP!Receive
  <1>2. \A q \in Plugin :
           /\ subQ'[q] = IF q = p THEN Tail(subQ[p]) ELSE subQ[q]
           /\ received'[q] = IF q = p THEN Append(received[p], e) ELSE received[q]
    BY DEF BP!Receive, BusInv, BP!TypeOK
  <1>3. /\ e \in BP!Event /\ e = subQ[p][1]
        /\ DOMAIN subQ[p] = 1..Len(subQ[p]) /\ Len(subQ[p]) \in Nat
        /\ DOMAIN Tail(subQ[p]) = 1..(Len(subQ[p]) - 1)
        /\ \A i \in 1..(Len(subQ[p]) - 1) : Tail(subQ[p])[i] = subQ[p][i + 1]
        /\ Len(Tail(subQ[p])) \in Nat /\ Len(Tail(subQ[p])) <= Len(subQ[p])
    BY <1>1, BusTypes, TailFacts
  <1> HIDE DEF e
  <1>4. BurstInv'
    <2>1. \A q \in Plugin : Len(subQ'[q]) <= Len(forwarded')
      <3> TAKE q \in Plugin
      <3>1. Len(subQ[q]) <= Len(forwarded) /\ Len(subQ[q]) \in Nat /\ Len(forwarded) \in Nat
        BY BusTypes DEF BurstInv
      <3>2. CASE q = p
        <4>1. subQ'[q] = Tail(subQ[p]) /\ forwarded' = forwarded
          BY <1>1, <1>2, <3>2
        <4>2. Len(Tail(subQ[p])) <= Len(forwarded)
          BY <1>3, <3>1, <3>2
        <4> QED
          BY <4>1, <4>2
      <3> QED
        BY <1>1, <1>2, <3>1, <3>2
    <2> QED
      BY <1>1, <2>1 DEF BurstInv, SomeTraffic
  <1>5. \A a : M!Has(subQ[p], a) => a = e \/ M!Has(Tail(subQ[p]), a)
    <2>1. ASSUME NEW i \in DOMAIN subQ[p], subQ[p][i] # e
          PROVE  \E k \in DOMAIN Tail(subQ[p]) : Tail(subQ[p])[k] = subQ[p][i]
      <3>1. i # 1 /\ i - 1 \in DOMAIN Tail(subQ[p]) /\ (i - 1) + 1 = i
        BY <1>3, <2>1
      <3>2. Tail(subQ[p])[i - 1] = subQ[p][(i - 1) + 1]
        BY <1>3, <3>1
      <3> QED
        BY <3>1, <3>2
    <2> QED
      BY <2>1 DEF M!Has
  <1>6. \A a : M!Has(received[p], a) \/ a = e => M!Has(received'[p], a)
    BY <1>2, <1>3, BusTypes, HasAppend
  <1>7. \A q \in Plugin : \A a :
           M!Has(received[q], a) \/ M!Has(subQ[q], a)
              => M!Has(received'[q], a) \/ M!Has(subQ'[q], a)
    BY <1>2, <1>5, <1>6
  <1> QED
    BY <1>1, <1>4, <1>7 DEF NoneMissed

\* A burst copies an event to all that want it and have room.
LEMMA ForwardBurst ==
    ASSUME BusInv, BurstInv, NoneMissed, NEW p \in Plugin, BP!Forward(p)
    PROVE  BurstInv' /\ NoneMissed'
  <1> DEFINE e == Head(pubQ[p])
  <1>1. /\ proxy \in {"woken", "forwarding"} /\ proxy' = "forwarding"
        /\ forwarded' = Append(forwarded, e)
        /\ UNCHANGED <<sub, applied, published, received>>
    BY DEF BP!Forward
  <1>2. e \in BP!Event
    BY BusTypes, TailFacts DEF BP!Forward
  <1>3. \A q \in Plugin :
           subQ'[q] = IF M!Matches(applied[q], e) /\ M!Room(subQ[q], SubLimit)
                        THEN Append(subQ[q], e) ELSE subQ[q]
    BY DEF BP!Forward, BP!Matches, BP!Room, M!Matches, M!Room
  <1> HIDE DEF e
  <1>4. /\ Len(forwarded') = Len(forwarded) + 1 /\ Len(forwarded) \in Nat
        /\ \A i \in DOMAIN forwarded' :
              (i \in DOMAIN forwarded /\ forwarded'[i] = forwarded[i]) \/ forwarded'[i] = e
    BY <1>1, <1>2, BusTypes, AppendFacts, AppendElements
  <1>5. \A q \in Plugin :
           /\ Len(subQ'[q]) <= Len(subQ[q]) + 1 /\ Len(subQ'[q]) \in Nat
           /\ \A a : M!Has(subQ[q], a) => M!Has(subQ'[q], a)
    <2> TAKE q \in Plugin
    <2>1. CASE subQ'[q] = subQ[q]
      BY <2>1, BusTypes
    <2>2. CASE subQ'[q] = Append(subQ[q], e)
      BY <1>2, <2>2, BusTypes, AppendFacts, AppendElements DEF M!Has
    <2> QED
      BY <1>3, <2>1, <2>2
  <1>6. BurstInv'
    <2>1. SomeTraffic' /\ \A q \in Plugin : sub'[q] = "open" => applied'[q] = Subscriptions[q]
      BY <1>1 DEF BurstInv, SomeTraffic
    <2>2. \A q \in Plugin : Len(subQ'[q]) <= Len(forwarded')
      BY <1>4, <1>5, BusTypes DEF BurstInv
    <2> QED
      BY <2>1, <2>2 DEF BurstInv
  <1>7. ASSUME NEW q \in Plugin, sub[q] = "open", Len(forwarded') <= SubLimit,
               NEW i \in DOMAIN forwarded', M!Matches(Subscriptions[q], forwarded'[i])
        PROVE  M!Has(received[q], forwarded'[i]) \/ M!Has(subQ'[q], forwarded'[i])
    <2>1. Len(subQ[q]) < SubLimit /\ Len(forwarded) <= SubLimit
      BY <1>4, <1>7, BusTypes, EngineAssumption DEF BurstInv
    <2>2. CASE i \in DOMAIN forwarded /\ forwarded'[i] = forwarded[i]
      BY <1>5, <1>7, <2>1, <2>2 DEF NoneMissed
    <2>3. CASE forwarded'[i] = e
      <3>1. applied[q] = Subscriptions[q]
        BY <1>1, <1>7 DEF BurstInv
      <3>2. subQ'[q] = Append(subQ[q], e)
        BY <1>3, <1>7, <2>1, <2>3, <3>1 DEF M!Room
      <3>3. M!Has(subQ'[q], e)
        BY <1>2, <3>2, BusTypes, HasAppend
      <3> QED
        BY <2>3, <3>3
    <2> QED
      BY <1>4, <1>7, <2>2, <2>3
  <1> QED
    BY <1>1, <1>6, <1>7 DEF NoneMissed

\* No step makes a plugin miss an event of the log.
LEMMA BurstKept ==
    ASSUME BusInv, BurstInv, NoneMissed, NoTrafficBeforeBarrier, [BP!Next]_(BP!busVars)
    PROVE  BurstInv' /\ NoneMissed'
  <1>1. ASSUME NEW p \in Plugin, BP!ConnectPub(p) \/ BP!Accept(p)
        PROVE  BurstInv' /\ NoneMissed'
    BY <1>1, QuietBurst DEF BP!ConnectPub, BP!Accept
  <1>2. ASSUME NEW p \in Plugin, BP!Subscribe(p)
        PROVE  BurstInv' /\ NoneMissed'
    <2>1. \A q \in Plugin : sub'[q] = "open" => sub[q] = "open" \/ (sub[q] = "none" /\ proxy' = proxy)
      BY <1>2 DEF BP!Subscribe, BusInv, BP!TypeOK
    <2> QED
      BY <1>2, <2>1, QuietBurst DEF BP!Subscribe
  <1>3. ASSUME NEW p \in Plugin, BP!Close(p)
        PROVE  BurstInv' /\ NoneMissed'
    <2>1. UNCHANGED <<proxy, published, forwarded, received>> /\ sub'[p] = "closed"
      BY <1>3 DEF BP!Close, BusInv, BP!TypeOK
    <2>2. \A q \in Plugin : q # p => sub'[q] = sub[q] /\ subQ'[q] = subQ[q] /\ applied'[q] = applied[q]
      BY <1>3 DEF BP!Close, BusInv, BP!TypeOK
    <2>3. Len(subQ'[p]) = 0
      BY <1>3 DEF BP!Close, BusInv, BP!TypeOK
    <2>4. BurstInv'
      <3>1. \A q \in Plugin : Len(subQ'[q]) <= Len(forwarded')
        <4> TAKE q \in Plugin
        <4>1. Len(subQ[q]) <= Len(forwarded) /\ Len(forwarded) \in Nat
          BY BusTypes DEF BurstInv
        <4> QED
          BY <2>1, <2>2, <2>3, <4>1
      <3>2. \A q \in Plugin :
               sub'[q] = "open" => q # p /\ sub[q] = "open" /\ applied'[q] = applied[q]
        BY <2>1, <2>2
      <3> QED
        BY <2>1, <3>1, <3>2 DEF BurstInv, SomeTraffic
    <2> QED
      BY <2>1, <2>2, <2>4 DEF NoneMissed
  <1>4. CASE BP!StartProxy \/ BP!EndBurst
    BY <1>4, QuietBurst DEF BP!StartProxy, BP!EndBurst, BurstInv
  <1>5. ASSUME NEW p \in Plugin, BP!ApplyFilter(p)
        PROVE  BurstInv' /\ NoneMissed'
    <2>1. \A q \in Plugin : applied[q] = Subscriptions[q] => applied'[q] = applied[q]
      BY <1>5 DEF BP!ApplyFilter, BusInv, BP!TypeOK
    <2> QED
      BY <1>5, <2>1, QuietBurst DEF BP!ApplyFilter
  <1>6. CASE BP!Poll
    <2>1. SomeTraffic
      <3>1. PICK p \in Plugin : pubQ[p] # <<>>
        BY <1>6 DEF BP!Poll
      <3>2. Len(published[p]) # 0
        <4>1. Len(pubQ[p]) # 0
          BY <3>1, BusTypes
        <4> QED
          BY <4>1, BusTypes
      <3>3. published[p] # <<>>
        BY <3>2
      <3> QED
        BY <3>3 DEF SomeTraffic
    <2>2. \A q \in Plugin : sub'[q] = "open" => applied'[q] = Subscriptions[q]
      BY <1>6 DEF BP!Poll
    <2> QED
      BY <1>6, <2>1, <2>2, QuietBurst DEF BP!Poll
  <1>7. CASE UNCHANGED BP!busVars
    BY <1>7, QuietBurst DEF BP!busVars
  <1> QED
    BY <1>1, <1>2, <1>3, <1>4, <1>5, <1>6, <1>7, PublishBurst, ReceiveBurst, ForwardBurst
    DEF BP!Next, BP!ProxyStep, BP!FreePluginStep

\* No plugin misses what the proxy takes, as long as its queue is not full: all
\* subscriptions are in place before the first event is forwarded.
THEOREM NobodyMisses == Spec => []NoneMissed
  <1>1. SocketInv /\ BusInv /\ BurstInv /\ NoneMissed /\ NoTrafficBeforeBarrier /\ [Next]_vars
          => (BurstInv /\ NoneMissed)'
    BY BusSteps, BurstKept
  <1> QED
    BY <1>1, InitBurst, SocketsFollowThreads, BusFacts, TrafficAfterBarrier, PTL DEF Spec
=============================================================================
