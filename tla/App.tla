-------------------------------- MODULE App --------------------------------
(***************************************************************************)
(* The life of one event-engine application: App::run in the main thread,  *)
(* and the thread it spawns for each registered plugin, from the creation  *)
(* of the thread to the end of the plugin's start function.                *)
(*                                                                         *)
(* Plugins are numbered in the order the engine handles them: internal     *)
(* plugins first, then external ones, each in registration order.  The     *)
(* event traffic between plugins is in module Broker.                      *)
(***************************************************************************)
EXTENDS Naturals

CONSTANTS
    NumInternal,    \* number of internal plugins registered
    NumExternal,    \* number of external plugins registered
    PluginId,       \* get_id() of each plugin; the trait asks for distinct ids
    PublishPort,    \* AppConfig.publish_port
    SubscribePort,  \* AppConfig.subscribe_port
    TcpPort,        \* get_tcp_port() of each external plugin
    ForeignPorts,   \* TCP ports another process may hold
    Faulty,         \* plugins whose own code may return an error
    Refusable       \* plugins whose thread the operating system may refuse to spawn

NumPlugins == NumInternal + NumExternal
Plugin == 1..NumPlugins
External == (NumInternal + 1)..NumPlugins
Ports == {PublishPort, SubscribePort} \cup ForeignPorts
            \cup {TcpPort[p] : p \in External}

ASSUME AppAssumption ==
    /\ NumInternal \in Nat
    /\ NumExternal \in Nat
    /\ DOMAIN PluginId = Plugin
    /\ DOMAIN TcpPort = External
    /\ Faulty \subseteq Plugin
    /\ Refusable \subseteq Plugin

VARIABLES
    main,     \* where App::run is
    next,     \* position of the loop App::run is in
    error,    \* the EngineError App::run returned
    bound,    \* TCP ports some socket is bound to
    proxy,    \* what the thread that runs zmq::proxy does
    thread,   \* where each plugin thread is
    synced,   \* plugins whose "ready" message sync_plugins has received
    replied   \* plugins sync_plugins has sent its "ok" reply to

appVars == <<main, next, error, bound, proxy, thread, synced, replied>>

NoError == [kind |-> "none", about |-> {}]

\* The variants of EngineError that App::run can return, and what they name.
SubSocketTCPBindError(port) == [kind |-> "SubSocketTCPBindError", about |-> {port}]
PubSocketTCPBindError(port) == [kind |-> "PubSocketTCPBindError", about |-> {port}]
EngineSyncSocketInprocBindError(id) ==
    [kind |-> "EngineSyncSocketInprocBindError", about |-> {id}]

\* How App::run can end: with Ok, with Err, or by a panic.
Ended == {"ok", "err", "panicked"}

\* A plugin thread has sent "ready" once it waits for the reply.
Started == {"running", "exited", "panicked"}
Arrived == {"waiting"} \cup Started

InitApp ==
    /\ main = "bind_outgoing"
    /\ next = 1
    /\ error = NoError
    /\ bound \in SUBSET ForeignPorts
    /\ proxy = "unborn"
    /\ thread = [p \in Plugin |-> "unborn"]
    /\ synced = {}
    /\ replied = {}

-----------------------------------------------------------------------------
(* App::run, in the main thread.                                           *)

\* get_outgoing_socket: the socket the plugins receive events from.
BindOutgoing ==
    /\ main = "bind_outgoing"
    /\ \/ /\ SubscribePort \notin bound
          /\ bound' = bound \cup {SubscribePort}
          /\ main' = "bind_incoming"
          /\ error' = error
       \/ /\ SubscribePort \in bound
          /\ main' = "err"
          /\ error' = SubSocketTCPBindError(SubscribePort)
          /\ bound' = bound
    /\ UNCHANGED <<next, proxy, thread, synced, replied>>

\* get_incoming_socket: the socket the plugins publish events to.  On failure
\* run returns, which drops the outgoing socket and so releases its port.
BindIncoming ==
    /\ main = "bind_incoming"
    /\ \/ /\ PublishPort \notin bound
          /\ bound' = bound \cup {PublishPort}
          /\ main' = "spawn_proxy"
          /\ error' = error
       \/ /\ PublishPort \in bound
          /\ main' = "err"
          /\ error' = PubSocketTCPBindError(SubscribePort)
          /\ bound' = bound \ {SubscribePort}
    /\ UNCHANGED <<next, proxy, thread, synced, replied>>

\* The proxy thread takes both sockets over and is never stopped.
SpawnProxy ==
    /\ main = "spawn_proxy"
    /\ proxy' = "polling"
    /\ main' = "start"
    /\ UNCHANGED <<next, error, bound, thread, synced, replied>>

\* start_plugins, then start_external_plugins.  A thread that cannot be spawned
\* is an expect() in the main thread.
SpawnPlugin ==
    /\ main = "start"
    /\ next \in Plugin
    /\ \/ /\ thread' = [thread EXCEPT ![next] = "spawned"]
          /\ next' = next + 1
          /\ main' = main
       \/ /\ next \in Refusable
          /\ main' = "panicked"
          /\ UNCHANGED <<thread, next>>
    /\ UNCHANGED <<error, bound, proxy, synced, replied>>

BeginSync ==
    /\ main = "start"
    /\ next \notin Plugin
    /\ main' = "sync"
    /\ next' = 1
    /\ UNCHANGED <<error, bound, proxy, thread, synced, replied>>

\* The sync URL of a plugin is made of its id alone.
SyncUrlInUse(i) == \E j \in Plugin : j < i /\ PluginId[j] = PluginId[i]

\* Mutant of Ready: gives up on a plugin whose thread is dead.
ReadyOrDead(p) == thread[p] \in {"waiting", "crashed"}

Ready(p) == thread[p] = "waiting"

\* Mutant of Heard: answers each plugin as soon as it is ready.
HeardAndAnswered(p) ==
    /\ synced' = synced \cup {p}
    /\ replied' = replied \cup {p}

Heard(p) ==
    /\ synced' = synced \cup {p}
    /\ UNCHANGED replied

\* sync_plugins, first loop: bind a REP socket for plugin `next` and block on
\* the "ready" message of a plugin connected to its URL.
SyncReceive ==
    /\ main = "sync"
    /\ next \in Plugin
    /\ ~SyncUrlInUse(next)
    /\ \E p \in Plugin \ synced : PluginId[p] = PluginId[next] /\ Ready(p) /\ Heard(p)
    /\ next' = next + 1
    /\ UNCHANGED <<main, error, bound, proxy, thread>>

\* A URL that is bound already is an error, and run returns it.
SyncBindFails ==
    /\ main = "sync"
    /\ next \in Plugin
    /\ SyncUrlInUse(next)
    /\ main' = "err"
    /\ error' = EngineSyncSocketInprocBindError(PluginId[next])
    /\ UNCHANGED <<next, bound, proxy, thread, synced, replied>>

\* Mutant of AllSynced: does not wait for the last plugin.
AllButOneSynced == main = "sync" /\ next \notin 1..(NumPlugins - 1)

AllSynced == main = "sync" /\ next \notin Plugin

\* Mutant of FirstToAnswer: the reply loop is one short.
FirstButOne == NumPlugins - 1

FirstToAnswer == NumPlugins

BeginReplies ==
    /\ AllSynced
    /\ main' = "reply"
    /\ next' = FirstToAnswer
    /\ UNCHANGED <<error, bound, proxy, thread, synced, replied>>

\* Mutant of Replying: one reply too many.
ReplyingPastEnd == main = "reply" /\ next \in 0..NumPlugins

Replying == main = "reply" /\ next \in Plugin

\* sync_plugins, second loop: the sockets are popped, so the last plugin is
\* answered first.  No URL was bound twice, so socket `next` holds the request
\* of plugin `next`.
SyncReply ==
    /\ Replying
    /\ replied' = replied \cup {next}
    /\ next' = next - 1
    /\ UNCHANGED <<main, error, bound, proxy, thread, synced>>

BeginJoin ==
    /\ main = "reply"
    /\ next \notin Plugin
    /\ main' = "join"
    /\ next' = 1
    /\ UNCHANGED <<error, bound, proxy, thread, synced, replied>>

JoinNext == next' = next + 1 /\ main' = main

\* Mutants of JoinFailed: goes on as after a normal end; waits for a normal end.
JoinAnyhow == thread[next] \in {"crashed", "panicked"} /\ JoinNext

JoinNever == FALSE

JoinFailed ==
    /\ thread[next] \in {"crashed", "panicked"}
    /\ main' = "panicked"
    /\ next' = next

\* h.join().unwrap() on each handle in turn: the panic of a plugin thread
\* becomes a panic of the main thread.
JoinPlugin ==
    /\ main = "join"
    /\ next \in Plugin
    /\ \/ thread[next] = "exited" /\ JoinNext
       \/ JoinFailed
    /\ UNCHANGED <<error, bound, proxy, thread, synced, replied>>

ReturnOk ==
    /\ main = "join"
    /\ next \notin Plugin
    /\ main' = "ok"
    /\ UNCHANGED <<next, error, bound, proxy, thread, synced, replied>>

MainStep ==
    \/ BindOutgoing \/ BindIncoming \/ SpawnProxy
    \/ SpawnPlugin \/ BeginSync
    \/ SyncReceive \/ SyncBindFails \/ BeginReplies \/ SyncReply
    \/ BeginJoin \/ JoinPlugin \/ ReturnOk

-----------------------------------------------------------------------------
(* The thread of plugin p (start_plugin and start_external_plugin).        *)

Moves(p, from, to) ==
    /\ thread[p] = from
    /\ thread' = [thread EXCEPT ![p] = to]
    /\ UNCHANGED <<main, next, error, proxy, synced, replied>>

\* What the end of a plugin thread, normal or not, releases.
ReleasePort(p) ==
    bound' = IF p \in External THEN bound \ {TcpPort[p]} ELSE bound

\* Mutant of BindExternal: an address in use is no obstacle.
BindExternalShared(p) ==
    /\ p \in External
    /\ Moves(p, "spawned", "bound")
    /\ bound' = bound \cup {TcpPort[p]}

\* An external plugin's thread first binds the TCP port its process talks to;
\* an address in use is an unwrap() in the plugin thread.
BindExternal(p) ==
    /\ p \in External
    /\ \/ /\ TcpPort[p] \notin bound
          /\ Moves(p, "spawned", "bound")
          /\ bound' = bound \cup {TcpPort[p]}
       \/ /\ TcpPort[p] \in bound
          /\ Moves(p, "spawned", "crashed")
          /\ bound' = bound

ConnectPub(p) ==
    /\ Moves(p, IF p \in External THEN "bound" ELSE "spawned", "publisher")
    /\ UNCHANGED bound

\* Connects the SUB socket and sets one filter per subscription.
Subscribe(p) ==
    /\ Moves(p, "publisher", "subscribed")
    /\ UNCHANGED bound

\* get_subscriptions() or get_filter() returned an error, which is unwrapped.
SubscribeFails(p) ==
    /\ p \in Faulty
    /\ Moves(p, "publisher", "crashed")
    /\ ReleasePort(p)

SendReady(p) ==
    /\ Moves(p, "subscribed", "waiting")
    /\ UNCHANGED bound

\* Mutant of ReceiveReply: does not wait for the reply.
GoOnAtOnce(p) ==
    /\ Moves(p, "waiting", "running")
    /\ UNCHANGED bound

ReceiveReply(p) ==
    /\ p \in replied
    /\ Moves(p, "waiting", "running")
    /\ UNCHANGED bound

\* The start function returns Ok.
Exit(p) ==
    /\ Moves(p, "running", "exited")
    /\ ReleasePort(p)

\* The start function returns an error, which is unwrapped, or panics.
StartFails(p) ==
    /\ p \in Faulty
    /\ Moves(p, "running", "panicked")
    /\ ReleasePort(p)

\* What the engine makes a plugin thread do before the plugin's own code runs.
SetUpStep(p) ==
    \/ BindExternal(p) \/ ConnectPub(p) \/ Subscribe(p) \/ SubscribeFails(p)
    \/ SendReady(p) \/ ReceiveReply(p)

ThreadStep(p) == SetUpStep(p) \/ Exit(p) \/ StartFails(p)

\* Nothing moves App::run once it has ended.
Finished ==
    /\ main \in Ended
    /\ UNCHANGED appVars

Next ==
    \/ MainStep
    \/ \E p \in Plugin : ThreadStep(p)
    \/ Finished

Spec == InitApp /\ [][Next]_appVars

\* The operating system runs every thread.  Nothing is assumed of a start
\* function: it may run for ever.
FairSpec ==
    /\ Spec
    /\ WF_appVars(MainStep)
    /\ \A p \in Plugin : WF_appVars(SetUpStep(p))

-----------------------------------------------------------------------------
(* Properties                                                              *)

ThreadStates ==
    {"unborn", "spawned", "bound", "publisher", "subscribed", "crashed"} \cup Arrived

ErrorKinds == {"none", "SubSocketTCPBindError", "PubSocketTCPBindError",
               "EngineSyncSocketInprocBindError"}

\* What an error can name: a port, or the id in a sync URL.
Culprits == Ports \cup {PluginId[p] : p \in Plugin}

Errors == [kind : ErrorKinds, about : SUBSET Culprits]

TypeOK ==
    /\ main \in {"bind_outgoing", "bind_incoming", "spawn_proxy", "start",
                 "sync", "reply", "join"} \cup Ended
    /\ next \in 0..(NumPlugins + 1)
    /\ error \in Errors
    /\ bound \subseteq Ports
    /\ proxy \in {"unborn", "polling"}
    /\ thread \in [Plugin -> ThreadStates]
    /\ synced \subseteq Plugin
    /\ replied \subseteq Plugin

\* No plugin's start function runs before every registered plugin, internal or
\* external, has its sockets and subscriptions in place (sync_plugins).
StartBarrier ==
    (\E p \in Plugin : thread[p] \in Started)
        => \A q \in Plugin : thread[q] \in Arrived

\* A plugin thread that dies while it is being set up is never noticed: nobody
\* is answered, and App::run neither returns Ok nor goes on to join.
CrashShutsBarrier ==
    (\E p \in Plugin : thread[p] = "crashed")
        => replied = {} /\ main \notin {"reply", "join", "ok"}

\* The reply loop sends on a REP socket only while its peer is blocked on that
\* very reply; any other send is an error of the socket.
ReplyMeetsRequest ==
    main = "reply" /\ next \in Plugin
        => next \in synced \ replied /\ thread[next] = "waiting"

\* Ok from App::run means that every plugin's start function returned Ok: a
\* failed plugin is never reported as a clean end.
OkMeansAllExited ==
    main = "ok" => \A p \in Plugin : thread[p] = "exited"

\* Err from App::run means that no plugin's start function ever ran, so that a
\* caller may correct the configuration without undoing any plugin's work.
ErrMeansNoneStarted ==
    main = "err" => \A p \in Plugin : thread[p] \notin Started

HoldsPort(p) ==
    thread[p] \in {"bound", "publisher", "subscribed", "waiting", "running"}

\* A TCP port serves one socket: two live external plugins never share one, and
\* none has the port of the engine's own sockets while the proxy uses them.
PortsAreExclusive ==
    \A p \in External :
        HoldsPort(p) =>
            /\ TcpPort[p] \in bound \ {PublishPort, SubscribePort}
            /\ \A q \in External \ {p} : HoldsPort(q) => TcpPort[q] # TcpPort[p]

\* The engine as a barrier over the plugins it starts.
B == INSTANCE Barrier WITH
        Party <- Plugin,
        arrived <- {p \in Plugin : thread[p] \in Arrived},
        released <- {p \in Plugin : thread[p] \in Started}

\* sync_plugins implements the barrier.
ImplementsBarrier == B!Spec

\* If no thread dies in its set-up and the configuration lets App::run get that
\* far, every plugin's start function runs at last.
BarrierOpens ==
    <>(\/ main \in Ended
       \/ \E p \in Plugin : thread[p] = "crashed"
       \/ \A p \in Plugin : thread[p] \in Started)

\* App::run ends once all plugin threads have, in whatever order they did.
RunEndsAfterPlugins ==
    (\A p \in Plugin : thread[p] \in {"exited", "panicked"}) ~> main \in Ended

\* errors.rs: "Engine could not bind publish socket to TCP port {0}".
BindErrorNamesPort ==
    error.kind = "PubSocketTCPBindError" => error.about = {PublishPort}
=============================================================================
