------------------------------- MODULE Engine -------------------------------
(***************************************************************************)
(* A whole application: App::run and the plugin threads (module App)       *)
(* together with the events those threads exchange (module Broker).  What  *)
(* App contributes to the traffic is its order: when a plugin's sockets    *)
(* are opened, when its start function may use them, when the proxy runs.  *)
(***************************************************************************)
EXTENDS Naturals, Sequences

CONSTANTS
    NumInternal, NumExternal, PluginId, PublishPort, SubscribePort, TcpPort,
    ForeignPorts, Faulty, Refusable,
    EventType, Subscriptions, Covers, PubLimit, SubLimit, MaxEvents

VARIABLES
    main, next, error, bound, thread, synced, replied,
    proxy,
    pub, sub, applied, pubQ, subQ, published, forwarded, received, heard

\* The variables of App and of Broker; `proxy` belongs to both.
runVars == <<main, next, error, bound, thread, synced, replied>>
socketVars == <<pub, sub, applied, pubQ, subQ, published, forwarded, received, heard>>
vars == <<runVars, proxy, socketVars>>

A == INSTANCE App
Plugin == 1..(NumInternal + NumExternal)
M == INSTANCE Broker WITH Peer <- Plugin

\* The assumptions of both.
ASSUME EngineAssumption ==
    /\ NumInternal \in Nat /\ NumExternal \in Nat
    /\ DOMAIN PluginId = Plugin
    /\ DOMAIN TcpPort = A!External
    /\ Faulty \subseteq Plugin /\ Refusable \subseteq Plugin
    /\ Subscriptions \in [Plugin -> SUBSET EventType]
    /\ Covers \subseteq EventType \X EventType
    /\ PubLimit \in Nat \ {0} /\ SubLimit \in Nat \ {0} /\ MaxEvents \in Nat

Init == A!InitApp /\ M!InitBus

MainStep ==
    /\ A!MainStep
    /\ UNCHANGED socketVars

\* Mutant of SetUpStep: sets the subscriptions after the barrier.
SubscribeLate(p) ==
    \/ A!ConnectPub(p) /\ M!ConnectPub(p)
    \/ A!ReceiveReply(p) /\ M!Subscribe(p)
    \/ A!SubscribeFails(p) /\ M!Close(p)
    \/ /\ A!BindExternal(p) \/ A!Subscribe(p) \/ A!SendReady(p)
       /\ UNCHANGED socketVars

\* A plugin thread while the engine's code runs in it.
SetUpStep(p) ==
    \/ A!ConnectPub(p) /\ M!ConnectPub(p)
    \/ A!Subscribe(p) /\ M!Subscribe(p)
    \/ A!SubscribeFails(p) /\ M!Close(p)
    \/ /\ A!BindExternal(p) \/ A!SendReady(p) \/ A!ReceiveReply(p)
       /\ UNCHANGED socketVars

\* A plugin thread while its start function runs: an internal plugin's own code,
\* or the loop that serves an external plugin's process.
Traffic(p) ==
    /\ thread[p] = "running"
    /\ \/ \E t \in EventType : M!Publish(p, t)
       \/ M!Receive(p)
    /\ UNCHANGED runVars

\* The start function ends, which drops the sockets it was given.
Leave(p) ==
    /\ A!Exit(p) \/ A!StartFails(p)
    /\ M!Close(p)

ProxyStep ==
    /\ M!ProxyStep
    /\ UNCHANGED runVars

Next ==
    \/ MainStep
    \/ ProxyStep
    \/ \E p \in Plugin : SetUpStep(p) \/ Traffic(p) \/ Leave(p)

Spec == Init /\ [][Next]_vars

\* The operating system runs every thread, the proxy's included.  What a start
\* function does is up to the application.
Fairness ==
    /\ WF_vars(MainStep)
    /\ WF_vars(ProxyStep)
    /\ \A p \in Plugin : WF_vars(SetUpStep(p))

\* Event e is with plugin p, or on its way to it.
Comes(e, p) == M!Has(pubQ[e.src], e) \/ M!Has(subQ[p], e) \/ M!Has(received[p], e)

\* Plugin p will never receive some event that it subscribed to.
Missed(p) ==
    \E q \in Plugin : \E i \in DOMAIN published[q] :
        M!Matches(Subscriptions[p], published[q][i]) /\ ~Comes(published[q][i], p)

\* No event is on its way to the proxy or to a plugin.
NothingUnderWay == \A p \in Plugin : pubQ[p] = <<>> /\ subQ[p] = <<>>

-----------------------------------------------------------------------------
(* Properties                                                              *)

\* No plugin publishes before every plugin has told the engine what it wants:
\* the barrier of sync_plugins as the traffic sees it.
NoTrafficBeforeBarrier ==
    (\E p \in Plugin : published[p] # <<>>)
        => \A q \in Plugin : sub[q] # "none"

\* Every event the proxy takes reaches every plugin that subscribed to it and
\* is still there, as long as its queue cannot have been full: no subscription
\* is applied too late, for any interleaving of start-up and proxy.
NoneMissed ==
    \A p \in Plugin :
        sub[p] = "open" /\ Len(forwarded) <= SubLimit =>
            \A i \in DOMAIN forwarded :
                M!Matches(Subscriptions[p], forwarded[i]) =>
                    M!Has(received[p], forwarded[i]) \/ M!Has(subQ[p], forwarded[i])

\* The proxy has the event, or will take it.
Kept(e) == M!Has(pubQ[e.src], e) \/ M!Has(forwarded, e)

\* Below the high-water mark only the first events of a plugin can be lost: once
\* one is kept, so are all that follow, until the plugin exits and beyond.
OnlyFirstEventsLost ==
    \A p \in Plugin :
        Len(published[p]) <= PubLimit =>
            \A i, j \in DOMAIN published[p] :
                i < j /\ Kept(published[p][i]) => Kept(published[p][j])

\* README.md, "ZMQ Sockets and Publish-Subscribe": the sockets used to sync all
\* plugins at the start "ensure that no plugin misses initial messages that are
\* sent".
NoInitialMessageMissed ==
    \A p, q \in Plugin :
        thread[p] = "running" /\ Len(published[q]) <= PubLimit =>
            \A i \in DOMAIN published[q] :
                M!Matches(Subscriptions[p], published[q][i]) =>
                    \/ Kept(published[q][i])
                    \/ M!Has(received[p], published[q][i])
=============================================================================
