------------------------------- MODULE Broker -------------------------------
(***************************************************************************)
(* Events on their way between plugins: the PUB and SUB socket each plugin *)
(* thread opens, and zmq::proxy, which the engine runs between its own     *)
(* incoming (SUB) and outgoing (PUB) sockets.                              *)
(*                                                                         *)
(* Two facts about ZeroMQ sockets that the engine relies on are part of    *)
(* the model.  A PUB socket drops what no subscription it knows of asks    *)
(* for, and it learns of a subscription only after its peer has handled    *)
(* the connection.  A queue that is full drops for that queue alone, and   *)
(* the sender is not told.                                                 *)
(***************************************************************************)
EXTENDS Naturals, Sequences

CONSTANTS
    Peer,           \* threads with a PUB and a SUB socket: the plugins
    EventType,      \* event types of the application
    Subscriptions,  \* get_subscriptions() of each plugin
    Covers,         \* <<f, t>>: the filter of type f is a prefix of events of type t
    PubLimit,       \* high-water mark of the queue from a plugin to the proxy
    SubLimit,       \* high-water mark of the queue from the proxy to a plugin
    MaxEvents       \* bound on the events one plugin publishes

ASSUME BrokerAssumption ==
    /\ Subscriptions \in [Peer -> SUBSET EventType]
    /\ Covers \subseteq EventType \X EventType
    /\ PubLimit \in Nat \ {0}
    /\ SubLimit \in Nat \ {0}
    /\ MaxEvents \in Nat

VARIABLES
    proxy,      \* the proxy thread: not there, in its poll, or in a burst
    pub,        \* the PUB socket of each plugin
    sub,        \* the SUB socket of each plugin
    applied,    \* filters of each plugin that the outgoing socket knows
    pubQ,       \* events from each plugin the proxy has not taken yet
    subQ,       \* events for each plugin that it has not received yet
    published,  \* history: events each plugin has published
    forwarded,  \* history: events the proxy has taken, in its order
    received,   \* history: events each plugin has received
    heard       \* history: how many it had received at each event it published

busVars == <<proxy, pub, sub, applied, pubQ, subQ, published, forwarded, received,
             heard>>

\* The num-th event that plugin src publishes.
Event == [src : Peer, num : 1..MaxEvents, type : EventType]

Matches(filters, e) == \E f \in filters : <<f, e.type>> \in Covers

Room(q, limit) == Len(q) < limit
Has(q, e) == \E i \in DOMAIN q : q[i] = e

InitBus ==
    /\ proxy = "unborn"
    /\ pub = [p \in Peer |-> "none"]
    /\ sub = [p \in Peer |-> "none"]
    /\ applied = [p \in Peer |-> {}]
    /\ pubQ = [p \in Peer |-> <<>>]
    /\ subQ = [p \in Peer |-> <<>>]
    /\ published = [p \in Peer |-> <<>>]
    /\ forwarded = <<>>
    /\ received = [p \in Peer |-> <<>>]
    /\ heard = [p \in Peer |-> <<>>]

-----------------------------------------------------------------------------
(* Calls a plugin thread makes.                                            *)

ConnectPub(p) ==
    /\ pub[p] = "none"
    /\ pub' = [pub EXCEPT ![p] = "connected"]
    /\ UNCHANGED <<proxy, sub, applied, pubQ, subQ, published, forwarded, received, heard>>

\* Connects the SUB socket and sets all filters; the outgoing socket is told,
\* and has yet to read it.
Subscribe(p) ==
    /\ sub[p] = "none"
    /\ sub' = [sub EXCEPT ![p] = "open"]
    /\ UNCHANGED <<proxy, pub, applied, pubQ, subQ, published, forwarded, received, heard>>

\* Mutant of EventOf: numbers events from zero.
EventOfFromZero(p, t) == [src |-> p, num |-> Len(published[p]), type |-> t]

EventOf(p, t) == [src |-> p, num |-> Len(published[p]) + 1, type |-> t]

\* Mutant of Offer: the latest event goes first.
OfferInFront(p, e) ==
    pubQ' = IF pub[p] = "live" THEN [pubQ EXCEPT ![p] = <<e>> \o @] ELSE pubQ

\* Mutant of Offer: sends the event again.
OfferTwice(p, e) ==
    pubQ' = IF pub[p] = "live" THEN [pubQ EXCEPT ![p] = @ \o <<e, e>>] ELSE pubQ

\* What a PUB socket does with an event it is given.
Offer(p, e) ==
    pubQ' = IF pub[p] = "live" /\ Room(pubQ[p], PubLimit)
              THEN [pubQ EXCEPT ![p] = Append(@, e)]
              ELSE pubQ

\* pub_socket.send: never blocks, and succeeds whether or not the event is kept.
Publish(p, t) ==
    /\ pub[p] \in {"connected", "live"}
    /\ Len(published[p]) < MaxEvents
    /\ heard' = [heard EXCEPT ![p] = Append(@, Len(received[p]))]
    /\ published' = [published EXCEPT ![p] = Append(@, EventOf(p, t))]
    /\ Offer(p, EventOf(p, t))
    /\ UNCHANGED <<proxy, pub, sub, applied, subQ, forwarded, received>>

\* Mutant of Receive: the event can be received again.
ReceiveAndKeep(p) ==
    /\ subQ[p] # <<>>
    /\ received' = [received EXCEPT ![p] = Append(@, Head(subQ[p]))]
    /\ UNCHANGED <<proxy, pub, sub, applied, pubQ, subQ, published, forwarded, heard>>

\* sub_socket.recv_bytes; it blocks while there is nothing to receive.
Receive(p) ==
    /\ subQ[p] # <<>>
    /\ received' = [received EXCEPT ![p] = Append(@, Head(subQ[p]))]
    /\ subQ' = [subQ EXCEPT ![p] = Tail(@)]
    /\ UNCHANGED <<proxy, pub, sub, applied, pubQ, published, forwarded, heard>>

\* Mutant of Close: what the plugin published goes with its socket.
CloseAtOnce(p) ==
    /\ pub' = [pub EXCEPT ![p] = "closed"]
    /\ sub' = [sub EXCEPT ![p] = "closed"]
    /\ applied' = [applied EXCEPT ![p] = {}]
    /\ pubQ' = [pubQ EXCEPT ![p] = <<>>]
    /\ subQ' = [subQ EXCEPT ![p] = <<>>]
    /\ UNCHANGED <<proxy, published, forwarded, received, heard>>

\* The thread ends and drops both sockets.  What it published stays queued; what
\* it has not received is gone.
Close(p) ==
    /\ pub' = [pub EXCEPT ![p] = "closed"]
    /\ sub' = [sub EXCEPT ![p] = "closed"]
    /\ applied' = [applied EXCEPT ![p] = {}]
    /\ subQ' = [subQ EXCEPT ![p] = <<>>]
    /\ UNCHANGED <<proxy, pubQ, published, forwarded, received, heard>>

-----------------------------------------------------------------------------
(* The proxy thread.                                                       *)

StartProxy ==
    /\ proxy = "unborn"
    /\ proxy' = "polling"
    /\ UNCHANGED <<pub, sub, applied, pubQ, subQ, published, forwarded, received, heard>>

\* The incoming socket handles a plugin's connection and sends it its subscription
\* to everything.  Once the plugin's PUB socket has read that, which it does now
\* and then as the plugin sends, it keeps events.
Accept(p) ==
    /\ proxy # "unborn"
    /\ pub[p] = "connected"
    /\ pub' = [pub EXCEPT ![p] = "live"]
    /\ UNCHANGED <<proxy, sub, applied, pubQ, subQ, published, forwarded, received, heard>>

\* The outgoing socket reads one subscription of a plugin.
ApplyFilter(p) ==
    /\ proxy # "unborn"
    /\ sub[p] = "open"
    /\ \E f \in Subscriptions[p] \ applied[p] :
          applied' = [applied EXCEPT ![p] = @ \cup {f}]
    /\ UNCHANGED <<proxy, pub, sub, pubQ, subQ, published, forwarded, received, heard>>

\* The poll wakes up on an event.  It has looked at both sockets, the outgoing one
\* last, so it has read every subscription that reached it before the event.
Poll ==
    /\ proxy = "polling"
    /\ \E p \in Peer : pubQ[p] # <<>>
    /\ proxy' = "woken"
    /\ applied' = [p \in Peer |-> IF sub[p] = "open" THEN Subscriptions[p]
                                                     ELSE applied[p]]
    /\ UNCHANGED <<pub, sub, pubQ, subQ, published, forwarded, received, heard>>

\* A step of a burst: takes the next event of one plugin and copies it to every
\* plugin with a matching filter, once each, however many of its filters match.
Forward(p) ==
    /\ proxy \in {"woken", "forwarding"}
    /\ proxy' = "forwarding"
    /\ pubQ[p] # <<>>
    /\ LET e == Head(pubQ[p])
       IN  /\ forwarded' = Append(forwarded, e)
           /\ subQ' = [s \in Peer |->
                         IF Matches(applied[s], e) /\ Room(subQ[s], SubLimit)
                           THEN Append(subQ[s], e)
                           ELSE subQ[s]]
    /\ pubQ' = [pubQ EXCEPT ![p] = Tail(@)]
    /\ UNCHANGED <<pub, sub, applied, published, received, heard>>

\* Back to the poll, after one event or several.  A newer libzmq goes on while
\* there are events, an older one polls after each.
EndBurst ==
    /\ proxy = "forwarding"
    /\ proxy' = "polling"
    /\ UNCHANGED <<pub, sub, applied, pubQ, subQ, published, forwarded, received, heard>>

ProxyStep ==
    \/ \E p \in Peer : Accept(p) \/ ApplyFilter(p) \/ Forward(p)
    \/ Poll
    \/ EndBurst

-----------------------------------------------------------------------------
(* Plugins that use their sockets as they like: nothing synchronises them. *)

IsOpen(p) == sub[p] = "open" /\ pub[p] \in {"connected", "live"}

FreePluginStep(p) ==
    \/ ConnectPub(p)
    \/ pub[p] # "none" /\ Subscribe(p)
    \/ \E t \in EventType : IsOpen(p) /\ Publish(p, t)
    \/ IsOpen(p) /\ Receive(p)
    \/ pub[p] \notin {"none", "closed"} /\ Close(p)

Next ==
    \/ StartProxy
    \/ ProxyStep
    \/ \E p \in Peer : FreePluginStep(p)

Spec == InitBus /\ [][Next]_busVars

-----------------------------------------------------------------------------
(* Properties                                                              *)

TypeOK ==
    /\ proxy \in {"unborn", "polling", "woken", "forwarding"}
    /\ pub \in [Peer -> {"none", "connected", "live", "closed"}]
    /\ sub \in [Peer -> {"none", "open", "closed"}]
    /\ applied \in [Peer -> SUBSET EventType]
    /\ pubQ \in [Peer -> Seq(Event)]
    /\ subQ \in [Peer -> Seq(Event)]
    /\ published \in [Peer -> Seq(Event)]
    /\ forwarded \in Seq(Event)
    /\ received \in [Peer -> Seq(Event)]
    /\ heard \in [Peer -> Seq(Nat)]

\* Event a was published before b by the same plugin, or the publisher of b had
\* received a by the time it published b.
Precedes(a, b) ==
    \/ a.src = b.src /\ a.num < b.num
    \/ \E i \in 1..heard[b.src][b.num] : received[b.src][i] = a

\* The proxy never takes an effect before its cause, even across plugins: a
\* reply to an event is behind that event for everyone (zmq::proxy is the one
\* path between plugins).
CausalOrder ==
    \A i, j \in DOMAIN forwarded :
        i < j => ~Precedes(forwarded[j], forwarded[i])

\* A plugin's queue towards the proxy holds later events than what the proxy
\* took, and no event twice: nothing is replayed, even when events are dropped.
PublisherOrder ==
    \A p \in Peer :
        /\ \A i, j \in DOMAIN pubQ[p] : i < j => pubQ[p][i].num < pubQ[p][j].num
        /\ \A i \in DOMAIN pubQ[p] : \A j \in DOMAIN forwarded :
              forwarded[j].src = p => forwarded[j].num < pubQ[p][i].num

\* Plugins read one common log of events.
Wants(p, e) == Matches(Subscriptions[p], e)

L == INSTANCE EventLog WITH
        Reader <- Peer,
        Wanted <- Wants,
        log <- forwarded,
        delivered <- received

\* The sockets and the proxy implement the log: one order for all, no event
\* twice, none a plugin did not subscribe to.
ImplementsLog == L!Spec

=============================================================================
