---------------------------- MODULE BrokerProofs ----------------------------
(* Theorems about Broker, for any plugins, filters and high-water marks. *)
EXTENDS Broker, SequenceLemmas, TLAPS

-----------------------------------------------------------------------------
(* Type correctness                                                        *)

\* The fields of an event.
LEMMA EventFields ==
    \A e \in Event : e.src \in Peer /\ e.num \in Nat /\ e.num >= 1 /\ e.type \in EventType
  BY BrokerAssumption DEF Event

\* The queues and histories of a plugin, as sequences.
LEMMA PeerTypes ==
    ASSUME TypeOK, NEW p \in Peer
    PROVE  /\ pubQ[p] \in Seq(Event) /\ Len(pubQ[p]) \in Nat
           /\ DOMAIN pubQ[p] = 1..Len(pubQ[p])
           /\ \A i \in DOMAIN pubQ[p] : pubQ[p][i] \in Event
           /\ subQ[p] \in Seq(Event) /\ Len(subQ[p]) \in Nat
           /\ DOMAIN subQ[p] = 1..Len(subQ[p])
           /\ \A i \in DOMAIN subQ[p] : subQ[p][i] \in Event
           /\ published[p] \in Seq(Event) /\ Len(published[p]) \in Nat
           /\ DOMAIN published[p] = 1..Len(published[p])
           /\ received[p] \in Seq(Event) /\ Len(received[p]) \in Nat
           /\ DOMAIN received[p] = 1..Len(received[p])
           /\ \A i \in DOMAIN received[p] : received[p][i] \in Event
           /\ heard[p] \in Seq(Nat) /\ Len(heard[p]) \in Nat
           /\ DOMAIN heard[p] = 1..Len(heard[p])
           /\ \A i \in DOMAIN heard[p] : heard[p][i] \in Nat
  BY DEF TypeOK

\* Places in the log and the events there.
LEMMA ForwardedTypes ==
    ASSUME TypeOK
    PROVE  /\ forwarded \in Seq(Event) /\ Len(forwarded) \in Nat
           /\ DOMAIN forwarded = 1..Len(forwarded)
           /\ \A i \in DOMAIN forwarded : forwarded[i] \in Event
  BY DEF TypeOK

\* A plugin within its bound makes events of the right type.
LEMMA EventOfType ==
    ASSUME TypeOK, NEW p \in Peer, NEW t \in EventType, Len(published[p]) < MaxEvents
    PROVE  EventOf(p, t) \in Event
  <1>1. Len(published[p]) \in Nat
    BY DEF TypeOK
  <1>2. Len(published[p]) + 1 \in 1..MaxEvents
    BY <1>1, BrokerAssumption
  <1> QED
    BY <1>2 DEF EventOf, Event

\* The initial state has its types.
LEMMA InitTypeOK == InitBus => TypeOK
  BY DEF InitBus, TypeOK

\* A plugin's calls keep the types.
LEMMA PeerStepTypeOK ==
    ASSUME TypeOK, NEW p \in Peer, FreePluginStep(p)
    PROVE  TypeOK'
  <1>1. CASE ConnectPub(p)
    BY <1>1 DEF ConnectPub, TypeOK
  <1>2. CASE Subscribe(p)
    BY <1>2 DEF Subscribe, TypeOK
  <1>3. ASSUME NEW t \in EventType, Publish(p, t) PROVE TypeOK'
    <2>1. EventOf(p, t) \in Event
      BY <1>3, EventOfType DEF Publish
    <2>2. published' \in [Peer -> Seq(Event)]
      BY <1>3, <2>1 DEF Publish, TypeOK
    <2>3. pubQ' \in [Peer -> Seq(Event)]
      BY <1>3, <2>1 DEF Publish, Offer, TypeOK
    <2>4. heard' \in [Peer -> Seq(Nat)]
      BY <1>3 DEF Publish, TypeOK
    <2> QED
      BY <1>3, <2>2, <2>3, <2>4 DEF Publish, TypeOK
  <1>4. CASE Receive(p)
    <2>1. Head(subQ[p]) \in Event /\ Tail(subQ[p]) \in Seq(Event)
      BY <1>4 DEF Receive, TypeOK
    <2> QED
      BY <1>4, <2>1 DEF Receive, TypeOK
  <1>5. CASE Close(p)
    BY <1>5 DEF Close, TypeOK
  <1> QED
    BY <1>1, <1>2, <1>3, <1>4, <1>5 DEF FreePluginStep

\* The proxy's steps keep the types.
LEMMA ProxyStepTypeOK ==
    ASSUME TypeOK, StartProxy \/ ProxyStep
    PROVE  TypeOK'
  <1>1. CASE StartProxy
    BY <1>1 DEF StartProxy, TypeOK
  <1>2. ASSUME NEW p \in Peer, Accept(p) PROVE TypeOK'
    BY <1>2 DEF Accept, TypeOK
  <1>3. ASSUME NEW p \in Peer, ApplyFilter(p) PROVE TypeOK'
    <2>1. Subscriptions[p] \subseteq EventType
      BY BrokerAssumption
    <2> QED
      BY <1>3, <2>1 DEF ApplyFilter, TypeOK
  <1>4. ASSUME NEW p \in Peer, Forward(p) PROVE TypeOK'
    <2>1. Head(pubQ[p]) \in Event /\ Tail(pubQ[p]) \in Seq(Event)
      BY <1>4 DEF Forward, TypeOK
    <2>2. subQ' \in [Peer -> Seq(Event)]
      BY <1>4, <2>1 DEF Forward, TypeOK
    <2> QED
      BY <1>4, <2>1, <2>2 DEF Forward, TypeOK
  <1>5. CASE Poll
    BY <1>5, BrokerAssumption DEF Poll, TypeOK
  <1>6. CASE EndBurst
    BY <1>6 DEF EndBurst, TypeOK
  <1> QED
    BY <1>1, <1>2, <1>3, <1>4, <1>5, <1>6 DEF ProxyStep

\* Every variable of Broker keeps its type.
THEOREM TypeCorrect == Spec => []TypeOK
  <1>1. TypeOK /\ [Next]_busVars => TypeOK'
    <2>1. TypeOK /\ UNCHANGED busVars => TypeOK'
      BY DEF TypeOK, busVars
    <2> QED
      BY <2>1, PeerStepTypeOK, ProxyStepTypeOK DEF Next
  <1> QED
    BY InitTypeOK, <1>1, PTL DEF Spec

-----------------------------------------------------------------------------
(* The order of the events of one publisher                                *)

\* The events of s are among the first n of plugin p.
OfPublisher(p, n, s) == \A i \in DOMAIN s : s[i].src = p /\ s[i].num <= n

Increasing(s) == \A i, j \in DOMAIN s : i < j => s[i].num < s[j].num

\* The events of s are later than those of plugin p in f.
Later(p, f, s) ==
    \A i \in DOMAIN s : \A j \in DOMAIN f : f[j].src = p => f[j].num < s[i].num

\* The events of f are published, and increasing for each publisher.
Ordered(f) == \A i, j \in DOMAIN f : i < j /\ f[i].src = f[j].src => f[i].num < f[j].num

Known(f) == \A j \in DOMAIN f : f[j].num <= Len(published[f[j].src])

\* A plugin numbers its events, and remembers how many it had received.
PublishedInv ==
    \A p \in Peer :
        /\ \A n \in DOMAIN published[p] : published[p][n].src = p /\ published[p][n].num = n
        /\ Len(heard[p]) = Len(published[p])
        /\ \A n \in DOMAIN heard[p] : heard[p][n] <= Len(received[p])

\* A plugin's queue holds events of that plugin, in their order, and later than
\* what the proxy has taken.
PubQueueInv ==
    \A p \in Peer :
        /\ OfPublisher(p, Len(published[p]), pubQ[p])
        /\ Increasing(pubQ[p])
        /\ Later(p, forwarded, pubQ[p])

ForwardedInv == Ordered(forwarded) /\ Known(forwarded)

OrderInv == PublishedInv /\ PubQueueInv /\ ForwardedInv

\* A plugin's next event may follow those it has queued.
LEMMA QueueNext ==
    ASSUME NEW p \in Peer, NEW n \in Nat, NEW f, NEW s \in Seq(Event),
           OfPublisher(p, n, s), Increasing(s), Later(p, f, s),
           NEW e \in Event, e.src = p, e.num = n + 1,
           \A j \in DOMAIN f : f[j].src = p => f[j].num \in Nat /\ f[j].num <= n
    PROVE  /\ OfPublisher(p, n + 1, Append(s, e))
           /\ Increasing(Append(s, e))
           /\ Later(p, f, Append(s, e))
  <1> DEFINE t == Append(s, e)
  <1>1. \A i \in DOMAIN t : (i \in DOMAIN s /\ t[i] = s[i]) \/ t[i] = e
    BY AppendFacts
  <1>2. \A i \in DOMAIN s : s[i] \in Event
    OBVIOUS
  <1>3. \A i, j \in DOMAIN t : i < j => i \in DOMAIN s /\ t[i] = s[i]
    BY AppendFacts
  <1>4. OfPublisher(p, n + 1, t)
    BY <1>1, <1>2, EventFields DEF OfPublisher
  <1>5. Increasing(t)
    BY <1>1, <1>2, <1>3, EventFields DEF OfPublisher, Increasing
  <1>6. Later(p, f, t)
    BY <1>1 DEF Later
  <1> QED
    BY <1>4, <1>5, <1>6

\* The proxy takes the first event of a queue.
LEMMA QueueTaken ==
    ASSUME NEW p \in Peer, NEW n \in Nat, NEW f \in Seq(Event), NEW s \in Seq(Event),
           OfPublisher(p, n, s), Increasing(s), Later(p, f, s), s # <<>>
    PROVE  /\ OfPublisher(p, n, Tail(s))
           /\ Increasing(Tail(s))
           /\ Later(p, Append(f, Head(s)), Tail(s))
  <1> DEFINE t == Tail(s)
             g == Append(f, Head(s))
  <1>1. \A i \in DOMAIN t : i + 1 \in DOMAIN s /\ t[i] = s[i + 1] /\ i \in Nat /\ i >= 1
    BY TailFacts
  <1>2. \A i \in DOMAIN s : s[i] \in Event
    OBVIOUS
  <1>3. 1 \in DOMAIN s /\ Head(s) = s[1]
    BY TailFacts
  <1>4. \A j \in DOMAIN g : (j \in DOMAIN f /\ g[j] = f[j]) \/ g[j] = Head(s)
    BY <1>2, <1>3, AppendFacts
  <1>5. OfPublisher(p, n, t)
    BY <1>1 DEF OfPublisher
  <1>6. Increasing(t)
    BY <1>1 DEF Increasing
  <1>7. \A i \in DOMAIN t : Head(s).num < t[i].num
    BY <1>1, <1>3 DEF Increasing
  <1>8. Later(p, g, t)
    BY <1>1, <1>4, <1>7 DEF Later
  <1> QED
    BY <1>5, <1>6, <1>8

\* Nothing is published at first.
LEMMA InitOrderInv == InitBus => OrderInv
  BY DEF InitBus, OrderInv, PublishedInv, PubQueueInv, ForwardedInv, OfPublisher,
         Increasing, Later, Ordered, Known

\* A new event is later than all of its publisher's.
LEMMA PublishOrderInv ==
    ASSUME TypeOK, OrderInv, NEW p \in Peer, NEW t \in EventType, Publish(p, t)
    PROVE  OrderInv'
  <1> DEFINE e == EventOf(p, t)
  <1>1. e \in Event /\ e.src = p /\ e.num = Len(published[p]) + 1
    BY EventOfType DEF Publish, EventOf
  <1>2. UNCHANGED <<received, forwarded>>
    BY DEF Publish
  <1>3. ASSUME NEW q \in Peer
        PROVE  /\ Len(published'[q]) = IF q = p THEN Len(published[q]) + 1 ELSE Len(published[q])
               /\ Len(heard'[q]) = Len(published'[q])
               /\ \A n \in DOMAIN published'[q] :
                     published'[q][n].src = q /\ published'[q][n].num = n
               /\ \A n \in DOMAIN heard'[q] : heard'[q][n] <= Len(received[q])
    <2>1. CASE q # p
      BY <2>1, PeerTypes DEF Publish, TypeOK, OrderInv, PublishedInv
    <2>2. CASE q = p
      <3>1. published'[p] = Append(published[p], e)
        BY DEF Publish, TypeOK
      <3>2. heard'[p] = Append(heard[p], Len(received[p]))
        BY DEF Publish, TypeOK
      <3> HIDE DEF e
      <3> QED
        BY <1>1, <2>2, <3>1, <3>2, PeerTypes, AppendFacts DEF OrderInv, PublishedInv
    <2> QED
      BY <2>1, <2>2
  <1>4. \A q \in Peer :
           /\ Len(published[q]) \in Nat /\ Len(published'[q]) \in Nat
           /\ Len(published[q]) <= Len(published'[q])
    <2>1. ASSUME NEW q \in Peer
          PROVE  /\ Len(published[q]) \in Nat
                 /\ \/ Len(published'[q]) = Len(published[q]) + 1
                    \/ Len(published'[q]) = Len(published[q])
      BY <1>3, PeerTypes
    <2> QED
      BY <2>1
  <1>5. PublishedInv'
    BY <1>2, <1>3 DEF PublishedInv
  <1>6. ForwardedInv'
    <2>1. \A j \in DOMAIN forwarded :
             /\ forwarded[j].src \in Peer
             /\ forwarded[j].num \in Nat
             /\ forwarded[j].num <= Len(published[forwarded[j].src])
      BY ForwardedTypes, EventFields DEF OrderInv, ForwardedInv, Known
    <2>2. \A q \in Peer : \A n \in Nat : n <= Len(published[q]) => n <= Len(published'[q])
      BY <1>4
    <2>3. Known(forwarded)'
      BY <1>2, <2>1, <2>2 DEF Known
    <2> QED
      BY <1>2, <2>3 DEF OrderInv, ForwardedInv, Ordered
  <1>7. ASSUME NEW q \in Peer
        PROVE  /\ OfPublisher(q, Len(published'[q]), pubQ'[q])
               /\ Increasing(pubQ'[q])
               /\ Later(q, forwarded', pubQ'[q])
    <2>1. CASE pubQ'[q] = pubQ[q]
      <3>1. \A i \in DOMAIN pubQ[q] : pubQ[q][i].num \in Nat
        BY PeerTypes, EventFields
      <3>2. OfPublisher(q, Len(published'[q]), pubQ[q])
        BY <1>4, <3>1 DEF OrderInv, PubQueueInv, OfPublisher
      <3> QED
        BY <1>2, <2>1, <3>2 DEF OrderInv, PubQueueInv
    <2>2. CASE q = p /\ pubQ'[q] = Append(pubQ[q], e)
      <3>1. \A j \in DOMAIN forwarded :
               forwarded[j].src = p =>
                  forwarded[j].num \in Nat /\ forwarded[j].num <= Len(published[p])
        BY ForwardedTypes, EventFields DEF OrderInv, ForwardedInv, Known
      <3> HIDE DEF e
      <3>2. Len(published'[p]) = Len(published[p]) + 1
        BY <1>3
      <3>3. /\ OfPublisher(p, Len(published[p]), pubQ[p])
            /\ Increasing(pubQ[p])
            /\ Later(p, forwarded, pubQ[p])
        BY DEF OrderInv, PubQueueInv
      <3>4. Len(published[p]) \in Nat /\ pubQ[p] \in Seq(Event)
        BY PeerTypes
      <3> QED
        BY <1>1, <1>2, <2>2, <3>1, <3>2, <3>3, <3>4, QueueNext
    <2>3. pubQ'[q] = pubQ[q] \/ (q = p /\ pubQ'[q] = Append(pubQ[q], e))
      BY DEF Publish, Offer, TypeOK
    <2> QED
      BY <2>1, <2>2, <2>3
  <1> QED
    BY <1>5, <1>6, <1>7 DEF OrderInv, PubQueueInv

\* What Forward does, event by event.
LEMMA ForwardStep ==
    ASSUME TypeOK, NEW p \in Peer, Forward(p)
    PROVE  /\ pubQ[p] # <<>>
           /\ Head(pubQ[p]) = pubQ[p][1] /\ 1 \in DOMAIN pubQ[p]
           /\ Head(pubQ[p]) \in Event
           /\ forwarded' = Append(forwarded, Head(pubQ[p]))
           /\ \A q \in Peer : pubQ'[q] = IF q = p THEN Tail(pubQ[p]) ELSE pubQ[q]
           /\ \A q \in Peer :
                 \/ subQ'[q] = subQ[q]
                 \/ /\ subQ'[q] = Append(subQ[q], Head(pubQ[p]))
                    /\ Matches(applied[q], Head(pubQ[p]))
           /\ UNCHANGED <<applied, published, received, heard>>
  BY TailFacts DEF Forward, TypeOK

\* The proxy takes the earliest event of a queue.
LEMMA ForwardOrderInv ==
    ASSUME TypeOK, OrderInv, NEW p \in Peer, Forward(p)
    PROVE  OrderInv'
  <1> DEFINE e == Head(pubQ[p])
  <1>1. /\ e \in Event /\ e.src = p /\ e.num <= Len(published[p])
        /\ \A j \in DOMAIN forwarded : forwarded[j].src = p => forwarded[j].num < e.num
    BY ForwardStep DEF OrderInv, PubQueueInv, OfPublisher, Later
  <1>2. forwarded' = Append(forwarded, e) /\ UNCHANGED <<published, received, heard>>
    BY ForwardStep
  <1>3. PublishedInv'
    BY <1>2 DEF OrderInv, PublishedInv
  <1>4. ForwardedInv'
    <2> HIDE DEF e
    <2>1. \A j \in DOMAIN forwarded' :
             (j \in DOMAIN forwarded /\ forwarded'[j] = forwarded[j]) \/ forwarded'[j] = e
      BY <1>1, <1>2, ForwardedTypes, AppendFacts
    <2>2. \A i, j \in DOMAIN forwarded' :
             i < j => i \in DOMAIN forwarded /\ forwarded'[i] = forwarded[i]
      BY <1>1, <1>2, ForwardedTypes, AppendFacts
    <2> QED
      BY <1>1, <1>2, <2>1, <2>2 DEF OrderInv, ForwardedInv, Ordered, Known
  <1>5. ASSUME NEW q \in Peer
        PROVE  /\ OfPublisher(q, Len(published'[q]), pubQ'[q])
               /\ Increasing(pubQ'[q])
               /\ Later(q, forwarded', pubQ'[q])
    <2>1. CASE q = p
      BY <1>2, <2>1, ForwardStep, ForwardedTypes, PeerTypes, QueueTaken
         DEF OrderInv, PubQueueInv
    <2>2. CASE q # p
      <3>1. pubQ'[q] = pubQ[q]
        BY <2>2, ForwardStep
      <3>2. \A j \in DOMAIN forwarded' :
               forwarded'[j].src = q => j \in DOMAIN forwarded /\ forwarded'[j] = forwarded[j]
        BY <1>1, <1>2, <2>2, ForwardedTypes, AppendFacts
      <3> QED
        BY <1>2, <3>1, <3>2 DEF OrderInv, PubQueueInv, Later
    <2> QED
      BY <2>1, <2>2
  <1> QED
    BY <1>3, <1>4, <1>5 DEF OrderInv, PubQueueInv

\* Receiving disturbs no order.
LEMMA ReceiveOrderInv ==
    ASSUME TypeOK, OrderInv, NEW p \in Peer, Receive(p)
    PROVE  OrderInv'
  <1>1. UNCHANGED <<pubQ, published, forwarded, heard>>
    BY DEF Receive
  <1>2. ASSUME NEW q \in Peer
        PROVE  Len(received[q]) \in Nat /\ Len(received'[q]) \in Nat
               /\ Len(received[q]) <= Len(received'[q])
    <2>1. Head(subQ[p]) \in Event
      BY PeerTypes, TailFacts DEF Receive
    <2> QED
      BY <2>1, PeerTypes, AppendFacts DEF Receive, TypeOK
  <1>3. PublishedInv'
    BY <1>1, <1>2, PeerTypes DEF OrderInv, PublishedInv
  <1> QED
    BY <1>1, <1>3
       DEF OrderInv, PubQueueInv, ForwardedInv, OfPublisher, Known

\* All other steps leave the events and the histories alone.
LEMMA StutterOrderInv ==
    OrderInv /\ UNCHANGED <<pubQ, published, forwarded, received, heard>> => OrderInv'
  BY DEF OrderInv, PublishedInv, PubQueueInv, ForwardedInv, OfPublisher, Known

\* What a step of Broker does to the events.
LEMMA StepsOfEvents ==
    ASSUME [Next]_busVars
    PROVE  \/ \E p \in Peer : \E t \in EventType : Publish(p, t)
           \/ \E p \in Peer : Receive(p)
           \/ \E p \in Peer : Forward(p)
           \/ /\ UNCHANGED <<pubQ, published, forwarded, received, heard>>
              /\ \A r \in Peer : subQ'[r] \in {subQ[r], <<>>}
              /\ TypeOK => \A r \in Peer :
                    applied'[r] \subseteq applied[r] \cup Subscriptions[r]
  <1>1. CASE \E p \in Peer : ConnectPub(p) \/ Subscribe(p) \/ Accept(p)
    BY <1>1 DEF ConnectPub, Subscribe, Accept
  <1>2. CASE StartProxy \/ EndBurst \/ UNCHANGED busVars
    BY <1>2 DEF StartProxy, EndBurst, busVars
  <1>3. CASE \E p \in Peer : Close(p)
    <2>1. PICK p \in Peer : Close(p)
      BY <1>3
    <2>2. TypeOK => \A r \in Peer : applied'[r] \subseteq applied[r]
      BY <2>1 DEF Close, TypeOK
    <2>3. \A r \in Peer : subQ'[r] \in {subQ[r], <<>>}
      BY <2>1 DEF Close
    <2> QED
      BY <2>1, <2>2, <2>3 DEF Close
  <1>4. CASE \E p \in Peer : ApplyFilter(p)
    BY <1>4 DEF ApplyFilter, TypeOK
  <1>5. CASE Poll
    BY <1>5 DEF Poll, TypeOK
  <1> QED
    BY <1>1, <1>2, <1>3, <1>4, <1>5 DEF Next, FreePluginStep, ProxyStep

\* Numbers of events tell their order everywhere.
LEMMA OrderIsInductive == Spec => [](TypeOK /\ OrderInv)
  <1>1. TypeOK /\ OrderInv /\ [Next]_busVars => OrderInv'
    BY PublishOrderInv, ReceiveOrderInv, ForwardOrderInv, StutterOrderInv, StepsOfEvents
  <1> QED
    BY TypeCorrect, InitOrderInv, <1>1, PTL DEF Spec

\* What a plugin has queued is in the order it was published, and none of it has
\* been taken, whatever was dropped before.
THEOREM PublishersAreInOrder == Spec => []PublisherOrder
  <1>1. TypeOK /\ OrderInv => PublisherOrder
    BY DEF OrderInv, PubQueueInv, Increasing, Later, PublisherOrder
  <1> QED
    BY OrderIsInductive, <1>1, PTL

-----------------------------------------------------------------------------
(* Refinement of EventLog, and causality                                   *)

Within(f, a) == \E m \in DOMAIN f : f[m] = a

Before(f, a, b) == \E m, n \in DOMAIN f : m < n /\ f[m] = a /\ f[n] = b

\* What a plugin is still to receive comes after what it has received, in the
\* order of the log, and is what it subscribed to.
SubQueueInv ==
    \A r \in Peer :
        /\ applied[r] \subseteq Subscriptions[r]
        /\ \A i \in DOMAIN received[r] : Within(forwarded, received[r][i])
        /\ \A i \in DOMAIN subQ[r] : Within(forwarded, subQ[r][i]) /\ Wants(r, subQ[r][i])
        /\ \A i, j \in DOMAIN subQ[r] :
              i < j => Before(forwarded, subQ[r][i], subQ[r][j])
        /\ \A i \in DOMAIN received[r] : \A j \in DOMAIN subQ[r] :
              Before(forwarded, received[r][i], subQ[r][j])

\* What the publisher of an event had received was taken before that event.
CausesInv ==
    \A j \in DOMAIN forwarded :
        \A k \in 1..heard[forwarded[j].src][forwarded[j].num] :
            \E m \in DOMAIN forwarded :
                m < j /\ forwarded[m] = received[forwarded[j].src][k]

IInv == TypeOK /\ OrderInv /\ SubQueueInv /\ CausesInv

\* Nothing is queued or received at first.
LEMMA InitLogInv == InitBus => SubQueueInv /\ CausesInv
  BY DEF InitBus, SubQueueInv, CausesInv

\* The proxy takes no event twice.
LEMMA NoEventTwice ==
    ASSUME OrderInv, NEW i \in DOMAIN forwarded, NEW j \in DOMAIN forwarded,
           TypeOK, forwarded[i] = forwarded[j]
    PROVE  i = j
  <1>1. i \in Nat /\ j \in Nat /\ forwarded[i].num \in Nat
    BY ForwardedTypes, EventFields
  <1> QED
    BY <1>1 DEF OrderInv, ForwardedInv, Ordered

\* A longer log keeps the places of its events.
LEMMA LongerLog ==
    ASSUME NEW f \in Seq(Event), NEW e \in Event
    PROVE  /\ \A a : Within(f, a) => Within(Append(f, e), a)
           /\ \A a : Within(f, a) => Before(Append(f, e), a, e)
           /\ \A a, b : Before(f, a, b) => Before(Append(f, e), a, b)
           /\ Within(Append(f, e), e)
  <1>1. \A m \in DOMAIN f : m \in DOMAIN Append(f, e) /\ Append(f, e)[m] = f[m]
    BY AppendFacts
  <1>2. \A m \in DOMAIN f : m < Len(f) + 1
    BY AppendFacts
  <1>3. Len(f) + 1 \in DOMAIN Append(f, e) /\ Append(f, e)[Len(f) + 1] = e
    BY AppendFacts
  <1> QED
    BY <1>1, <1>2, <1>3 DEF Within, Before

\* Publishing leaves the log and the causes in it alone.
LEMMA PublishLogInv ==
    ASSUME IInv, NEW p \in Peer, NEW t \in EventType, Publish(p, t)
    PROVE  SubQueueInv' /\ CausesInv'
  <1>1. UNCHANGED <<applied, subQ, forwarded, received>>
    BY DEF Publish
  <1>2. SubQueueInv'
    BY <1>1 DEF IInv, SubQueueInv
  <1>3. ASSUME NEW j \in DOMAIN forwarded
        PROVE  heard'[forwarded[j].src][forwarded[j].num] =
                  heard[forwarded[j].src][forwarded[j].num]
    <2>1. forwarded[j].src \in Peer /\ forwarded[j].num \in 1..Len(published[forwarded[j].src])
      BY ForwardedTypes, EventFields, PeerTypes DEF IInv, OrderInv, ForwardedInv, Known
    <2>2. Len(received[p]) \in Nat /\ heard[p] \in Seq(Nat)
      BY PeerTypes DEF IInv
    <2>3. \A n \in 1..Len(heard[p]) : Append(heard[p], Len(received[p]))[n] = heard[p][n]
      BY <2>2, AppendFacts
    <2> QED
      BY <2>1, <2>3 DEF Publish, IInv, TypeOK, OrderInv, PublishedInv
  <1> QED
    BY <1>1, <1>2, <1>3 DEF IInv, CausesInv

\* What is received comes from the front of the queue.
LEMMA ReceiveLogInv ==
    ASSUME IInv, NEW p \in Peer, Receive(p)
    PROVE  SubQueueInv' /\ CausesInv'
  <1> DEFINE e == Head(subQ[p])
  <1>1. /\ e \in Event /\ 1 \in DOMAIN subQ[p] /\ e = subQ[p][1]
        /\ subQ'[p] = Tail(subQ[p]) /\ received'[p] = Append(received[p], e)
        /\ \A q \in Peer \ {p} : subQ'[q] = subQ[q] /\ received'[q] = received[q]
        /\ UNCHANGED <<applied, forwarded, heard>>
    BY PeerTypes, TailFacts DEF Receive, IInv, TypeOK
  <1> HIDE DEF e
  <1>2. \A i \in DOMAIN subQ'[p] :
           /\ i + 1 \in DOMAIN subQ[p] /\ 1 < i + 1
           /\ subQ'[p][i] = subQ[p][i + 1]
    <2>1. subQ[p] \in Seq(Event) /\ subQ[p] # <<>>
      BY PeerTypes DEF IInv, Receive
    <2>2. /\ DOMAIN subQ[p] = 1..Len(subQ[p]) /\ Len(subQ[p]) \in Nat
          /\ DOMAIN Tail(subQ[p]) = 1..(Len(subQ[p]) - 1)
          /\ \A i \in 1..(Len(subQ[p]) - 1) : Tail(subQ[p])[i] = subQ[p][i + 1]
      BY <2>1, TailFacts
    <2> QED
      BY <1>1, <2>2
  <1>3. \A i, j \in DOMAIN subQ'[p] : i < j => i + 1 < j + 1
    <2>1. DOMAIN subQ'[p] \subseteq Nat
      BY <1>1, PeerTypes, TailFacts DEF IInv, Receive
    <2> QED
      BY <2>1
  <1>4. \A i \in DOMAIN received'[p] :
           (i \in DOMAIN received[p] /\ received'[p][i] = received[p][i]) \/ received'[p][i] = e
    BY <1>1, PeerTypes, AppendFacts DEF IInv
  <1>5. SubQueueInv'
    <2> SUFFICES ASSUME NEW r \in Peer
                 PROVE  /\ applied'[r] \subseteq Subscriptions[r]
                        /\ \A i \in DOMAIN received'[r] : Within(forwarded, received'[r][i])
                        /\ \A i \in DOMAIN subQ'[r] :
                              Within(forwarded, subQ'[r][i]) /\ Wants(r, subQ'[r][i])
                        /\ \A i, j \in DOMAIN subQ'[r] :
                              i < j => Before(forwarded, subQ'[r][i], subQ'[r][j])
                        /\ \A i \in DOMAIN received'[r] : \A j \in DOMAIN subQ'[r] :
                              Before(forwarded, received'[r][i], subQ'[r][j])
      BY <1>1 DEF SubQueueInv, Wants
    <2>1. CASE r # p
      BY <1>1, <2>1 DEF IInv, SubQueueInv
    <2>2. CASE r = p
      BY <1>1, <1>2, <1>3, <1>4, <2>2 DEF IInv, SubQueueInv
    <2> QED
      BY <2>1, <2>2
  <1>6. ASSUME NEW j \in DOMAIN forwarded,
               NEW k \in 1..heard[forwarded[j].src][forwarded[j].num]
        PROVE  received'[forwarded[j].src][k] = received[forwarded[j].src][k]
    <2>1. forwarded[j].src \in Peer /\ forwarded[j].num \in 1..Len(published[forwarded[j].src])
      BY ForwardedTypes, EventFields, PeerTypes DEF IInv, OrderInv, ForwardedInv, Known
    <2>2. \A q \in Peer : \A n \in 1..Len(published[q]) :
             heard[q][n] \in Nat /\ heard[q][n] <= Len(received[q])
      BY PeerTypes DEF IInv, OrderInv, PublishedInv
    <2>3. \A q \in Peer : Len(received[q]) \in Nat
      BY PeerTypes DEF IInv
    <2>4. k \in 1..Len(received[forwarded[j].src])
      BY <2>1, <2>2, <2>3
    <2>5. received[p] \in Seq(Event)
      BY PeerTypes DEF IInv
    <2>6. \A i \in 1..Len(received[p]) : received'[p][i] = received[p][i]
      BY <1>1, <2>5, AppendFacts
    <2> QED
      BY <1>1, <2>1, <2>4, <2>6
  <1>7. CausesInv'
    <2>1. UNCHANGED <<forwarded, heard>>
      BY DEF Receive
    <2>2. CausesInv
      BY DEF IInv
    <2> QED
      BY <1>6, <2>1, <2>2 DEF CausesInv
  <1> QED
    BY <1>5, <1>7

\* What is forwarded goes to the end of log and queues.
LEMMA ForwardLogInv ==
    ASSUME IInv, NEW p \in Peer, Forward(p)
    PROVE  SubQueueInv' /\ CausesInv'
  <1> DEFINE e == Head(pubQ[p])
  <1>1. /\ e \in Event /\ e = pubQ[p][1] /\ 1 \in DOMAIN pubQ[p]
        /\ forwarded' = Append(forwarded, e)
        /\ \A q \in Peer :
              subQ'[q] = subQ[q] \/ (subQ'[q] = Append(subQ[q], e) /\ Matches(applied[q], e))
        /\ UNCHANGED <<applied, received, heard>>
    BY ForwardStep DEF IInv
  <1>2. e.src = p /\ e.num \in 1..Len(published[p])
    BY <1>1, EventFields, PeerTypes DEF IInv, OrderInv, PubQueueInv, OfPublisher
  <1> HIDE DEF e
  <1>3. /\ \A a : Within(forwarded, a) => Within(forwarded', a)
        /\ \A a : Within(forwarded, a) => Before(forwarded', a, e)
        /\ \A a, b : Before(forwarded, a, b) => Before(forwarded', a, b)
        /\ Within(forwarded', e)
    BY <1>1, ForwardedTypes, LongerLog DEF IInv
  <1>4. SubQueueInv'
    <2> SUFFICES ASSUME NEW r \in Peer
                 PROVE  /\ applied[r] \subseteq Subscriptions[r]
                        /\ \A i \in DOMAIN received[r] : Within(forwarded', received[r][i])
                        /\ \A i \in DOMAIN subQ'[r] :
                              Within(forwarded', subQ'[r][i]) /\ Wants(r, subQ'[r][i])
                        /\ \A i, j \in DOMAIN subQ'[r] :
                              i < j => Before(forwarded', subQ'[r][i], subQ'[r][j])
                        /\ \A i \in DOMAIN received[r] : \A j \in DOMAIN subQ'[r] :
                              Before(forwarded', received[r][i], subQ'[r][j])
      BY <1>1 DEF SubQueueInv, Wants
    <2>1. CASE subQ'[r] = subQ[r]
      BY <1>3, <2>1 DEF IInv, SubQueueInv
    <2>2. CASE subQ'[r] = Append(subQ[r], e) /\ Matches(applied[r], e)
      <3>1. \A i \in DOMAIN subQ'[r] :
               (i \in DOMAIN subQ[r] /\ subQ'[r][i] = subQ[r][i]) \/ subQ'[r][i] = e
        BY <1>1, <2>2, PeerTypes, AppendFacts DEF IInv
      <3>2. \A i, j \in DOMAIN subQ'[r] :
               i < j => i \in DOMAIN subQ[r] /\ subQ'[r][i] = subQ[r][i]
        BY <1>1, <2>2, PeerTypes, AppendFacts DEF IInv
      <3>3. Wants(r, e)
        BY <2>2 DEF IInv, SubQueueInv, Wants, Matches
      <3> QED
        BY <1>3, <3>1, <3>2, <3>3 DEF IInv, SubQueueInv
    <2> QED
      BY <1>1, <2>1, <2>2
  <1>5. CausesInv'
    <2> SUFFICES ASSUME NEW j \in DOMAIN forwarded',
                        NEW k \in 1..heard[forwarded'[j].src][forwarded'[j].num]
                 PROVE  \E m \in DOMAIN forwarded' :
                           m < j /\ forwarded'[m] = received[forwarded'[j].src][k]
      BY <1>1 DEF CausesInv
    <2>1. /\ \A m \in DOMAIN forwarded : m \in DOMAIN forwarded' /\ forwarded'[m] = forwarded[m]
          /\ \A m \in DOMAIN forwarded : m < Len(forwarded) + 1
          /\ j \in DOMAIN forwarded \/ (j = Len(forwarded) + 1 /\ forwarded'[j] = e)
      BY <1>1, ForwardedTypes, AppendFacts DEF IInv
    <2>2. CASE j \in DOMAIN forwarded
      BY <2>1, <2>2 DEF IInv, CausesInv
    <2>3. CASE j = Len(forwarded) + 1 /\ forwarded'[j] = e
      <3>1. k \in DOMAIN received[p]
        BY <1>2, <2>3, PeerTypes DEF IInv, OrderInv, PublishedInv
      <3>2. PICK m \in DOMAIN forwarded : forwarded[m] = received[p][k]
        BY <3>1 DEF IInv, SubQueueInv, Within
      <3> QED
        BY <1>2, <2>1, <2>3, <3>2
    <2> QED
      BY <2>1, <2>2, <2>3
  <1> QED
    BY <1>4, <1>5

\* The other steps leave log and queues alone, or empty a queue.
LEMMA OtherLogInv ==
    ASSUME IInv, UNCHANGED <<pubQ, published, forwarded, received, heard>>,
           \A r \in Peer : subQ'[r] \in {subQ[r], <<>>},
           \A r \in Peer : applied'[r] \subseteq applied[r] \cup Subscriptions[r]
    PROVE  SubQueueInv' /\ CausesInv'
  <1>1. \A r \in Peer : \A i \in DOMAIN subQ'[r] :
           i \in DOMAIN subQ[r] /\ subQ'[r][i] = subQ[r][i]
    OBVIOUS
  <1>2. SubQueueInv'
    BY <1>1 DEF IInv, SubQueueInv, Wants
  <1> QED
    BY <1>2 DEF IInv, CausesInv

\* The inductive invariant of the traffic: queues, histories and log agree on the
\* order of the events.
THEOREM InductiveInvariant == Spec => []IInv
  <1>1. IInv /\ [Next]_busVars => SubQueueInv' /\ CausesInv'
    BY PublishLogInv, ReceiveLogInv, ForwardLogInv, OtherLogInv, StepsOfEvents DEF IInv
  <1> QED
    BY OrderIsInductive, InitLogInv, <1>1, PTL DEF Spec, IInv

\* An effect is never taken before its cause, whoever publishes either.
THEOREM CausesComeFirst == Spec => []CausalOrder
  <1>1. ASSUME IInv, NEW i \in DOMAIN forwarded, NEW j \in DOMAIN forwarded, i < j,
               Precedes(forwarded[j], forwarded[i])
        PROVE  FALSE
    <2>1. i \in Nat /\ j \in Nat /\ forwarded[i].num \in Nat /\ forwarded[j].num \in Nat
      BY <1>1, ForwardedTypes, EventFields DEF IInv
    <2>2. CASE forwarded[j].src = forwarded[i].src /\ forwarded[j].num < forwarded[i].num
      BY <1>1, <2>1, <2>2 DEF IInv, OrderInv, ForwardedInv, Ordered
    <2>3. ASSUME NEW k \in 1..heard[forwarded[i].src][forwarded[i].num],
                 received[forwarded[i].src][k] = forwarded[j]
          PROVE  FALSE
      <3>1. PICK m \in DOMAIN forwarded :
               m < i /\ forwarded[m] = received[forwarded[i].src][k]
        BY <1>1 DEF IInv, CausesInv
      <3>2. m = j
        BY <1>1, <2>3, <3>1, NoEventTwice DEF IInv
      <3> QED
        BY <1>1, <2>1, <3>1, <3>2
    <2> QED
      BY <1>1, <2>2, <2>3 DEF Precedes
  <1>2. IInv => CausalOrder
    BY <1>1 DEF CausalOrder
  <1> QED
    BY InductiveInvariant, <1>2, PTL

\* A plugin that receives reads the log forwards.
LEMMA ReceiveIsDeliver ==
    ASSUME IInv, NEW p \in Peer, Receive(p)
    PROVE  L!Deliver(p)
  <1> DEFINE e == Head(subQ[p])
  <1>1. /\ 1 \in DOMAIN subQ[p] /\ e = subQ[p][1]
        /\ received' = [received EXCEPT ![p] = Append(@, e)]
        /\ UNCHANGED forwarded
    BY PeerTypes, TailFacts DEF Receive, IInv
  <1> HIDE DEF e
  <1>2. PICK i \in DOMAIN forwarded : forwarded[i] = e
    BY <1>1 DEF IInv, SubQueueInv, Within
  <1>3. ASSUME NEW j \in i..Len(forwarded), NEW k \in DOMAIN received[p],
               received[p][k] = forwarded[j]
        PROVE  FALSE
    <2>1. PICK m \in DOMAIN forwarded, n \in DOMAIN forwarded :
             m < n /\ forwarded[m] = received[p][k] /\ forwarded[n] = e
      BY <1>1 DEF IInv, SubQueueInv, Before
    <2>2. j \in DOMAIN forwarded /\ i \in Nat /\ j \in Nat /\ j >= i
      BY <1>2, ForwardedTypes DEF IInv
    <2>3. m = j /\ n = i
      BY <1>2, <1>3, <2>1, <2>2, NoEventTwice DEF IInv
    <2> QED
      BY <2>1, <2>2, <2>3
  <1>4. L!AheadOf(p, i)
    BY <1>3 DEF L!AheadOf
  <1>5. Wants(p, forwarded[i])
    BY <1>1, <1>2 DEF IInv, SubQueueInv
  <1> QED
    BY <1>1, <1>2, <1>4, <1>5 DEF L!Deliver

\* The proxy that forwards an event puts a new one into the log.
LEMMA ForwardIsTake ==
    ASSUME IInv, NEW p \in Peer, Forward(p)
    PROVE  \E e \in Event : L!Take(e)
  <1> DEFINE e == Head(pubQ[p])
  <1>1. /\ e \in Event /\ e = pubQ[p][1] /\ 1 \in DOMAIN pubQ[p]
        /\ forwarded' = Append(forwarded, e)
        /\ UNCHANGED received
    BY ForwardStep DEF IInv
  <1> HIDE DEF e
  <1>2. \A j \in DOMAIN forwarded : forwarded[j] # e
    <2>1. e.src = p /\ e.num \in Nat
      BY <1>1, EventFields DEF IInv, OrderInv, PubQueueInv, OfPublisher
    <2> QED
      BY <1>1, <2>1 DEF IInv, OrderInv, PubQueueInv, Later
  <1> QED
    BY <1>1, <1>2 DEF L!Take, L!InLog

\* The sockets and the proxy implement one log of events for all plugins: none is
\* taken or delivered twice, or delivered out of order, or unasked.
THEOREM RefinesLog == Spec => ImplementsLog
  <1>1. InitBus => L!Init
    BY DEF InitBus, L!Init
  <1>2. IInv /\ [Next]_busVars => [L!Next]_(L!vars)
    <2>1. ASSUME NEW p \in Peer, NEW t \in EventType, Publish(p, t)
          PROVE  UNCHANGED L!vars
      BY <2>1 DEF Publish, L!vars
    <2> QED
      BY <2>1, ReceiveIsDeliver, ForwardIsTake, StepsOfEvents DEF L!Next, L!vars
  <1> QED
    BY InductiveInvariant, <1>1, <1>2, PTL DEF Spec, ImplementsLog, L!Spec

-----------------------------------------------------------------------------
(* What a plugin receives                                                  *)

\* Event e is the one its publisher has published under that number.
Genuine(e) == e.num \in DOMAIN published[e.src] /\ published[e.src][e.num] = e

\* What the proxy takes or will take is what was published, unaltered.
GenuineInv ==
    /\ \A p \in Peer : \A i \in DOMAIN pubQ[p] : Genuine(pubQ[p][i])
    /\ \A i \in DOMAIN forwarded : Genuine(forwarded[i])

\* A plugin receives what it subscribed to, in the order of the log.
ReadInv ==
    \A r \in Peer :
        /\ \A i \in DOMAIN received[r] : Wants(r, received[r][i])
        /\ \A i, j \in DOMAIN received[r] :
              i < j => Before(forwarded, received[r][i], received[r][j])

\* What a published event is does not change, and a new one is what it says.
LEMMA PublishGenuine ==
    ASSUME TypeOK, OrderInv, GenuineInv, NEW p \in Peer, NEW t \in EventType, Publish(p, t)
    PROVE  GenuineInv'
  <1> DEFINE e == EventOf(p, t)
             GenuineNext(a) == a.num \in DOMAIN published'[a.src] /\ published'[a.src][a.num] = a
  <1>1. e \in Event /\ e.src = p /\ e.num = Len(published[p]) + 1
    BY EventOfType DEF Publish, EventOf
  <1>2. /\ published'[p] = Append(published[p], e) /\ forwarded' = forwarded
        /\ \A q \in Peer : q # p => published'[q] = published[q] /\ pubQ'[q] = pubQ[q]
        /\ pubQ'[p] \in {pubQ[p], Append(pubQ[p], e)}
    BY DEF Publish, Offer, TypeOK
  <1> HIDE DEF e
  <1>3. /\ \A i \in DOMAIN published[p] :
              i \in DOMAIN published'[p] /\ published'[p][i] = published[p][i]
        /\ e.num \in DOMAIN published'[p] /\ published'[p][e.num] = e
    BY <1>1, <1>2, PeerTypes, AppendFacts
  <1>4. ASSUME NEW a \in Event, Genuine(a)
        PROVE  GenuineNext(a)
    BY <1>2, <1>3, <1>4, EventFields DEF Genuine
  <1>5. GenuineNext(e)
    BY <1>1, <1>3
  <1>6. ASSUME NEW q \in Peer, NEW i \in DOMAIN pubQ'[q]
        PROVE  pubQ'[q][i] = e \/ (i \in DOMAIN pubQ[q] /\ pubQ'[q][i] = pubQ[q][i])
    <2>1. CASE pubQ'[q] = pubQ[q]
      BY <1>6, <2>1
    <2>2. CASE q = p /\ pubQ'[p] = Append(pubQ[p], e)
      <3>1. \A k \in DOMAIN Append(pubQ[p], e) :
               (k \in DOMAIN pubQ[p] /\ Append(pubQ[p], e)[k] = pubQ[p][k])
                 \/ Append(pubQ[p], e)[k] = e
        BY <1>1, PeerTypes, AppendElements
      <3> QED
        BY <1>6, <2>2, <3>1
    <2> QED
      BY <1>2, <2>1, <2>2
  <1>7. \A q \in Peer : \A i \in DOMAIN pubQ[q] : pubQ[q][i] \in Event /\ Genuine(pubQ[q][i])
    BY PeerTypes DEF GenuineInv
  <1>8. \A i \in DOMAIN forwarded : forwarded[i] \in Event /\ Genuine(forwarded[i])
    BY ForwardedTypes DEF GenuineInv
  <1> HIDE DEF GenuineNext
  <1>9. \A q \in Peer : \A i \in DOMAIN pubQ'[q] : GenuineNext(pubQ'[q][i])
    BY <1>4, <1>5, <1>6, <1>7
  <1>10. \A i \in DOMAIN forwarded' : GenuineNext(forwarded'[i])
    BY <1>2, <1>4, <1>8
  <1> QED
    BY <1>9, <1>10 DEF GenuineInv, Genuine, GenuineNext

\* The proxy hands on what it is given.
LEMMA ForwardGenuine ==
    ASSUME TypeOK, GenuineInv, NEW p \in Peer, Forward(p)
    PROVE  GenuineInv'
  <1> DEFINE e == Head(pubQ[p])
  <1>1. e \in Event /\ e = pubQ[p][1] /\ 1 \in DOMAIN pubQ[p] /\ pubQ[p] # <<>>
    BY ForwardStep
  <1>2. forwarded' = Append(forwarded, e) /\ published' = published
    BY ForwardStep
  <1>3. \A q \in Peer : pubQ'[q] = IF q = p THEN Tail(pubQ[p]) ELSE pubQ[q]
    BY ForwardStep
  <1> HIDE DEF e
  <1>4. \A i \in DOMAIN forwarded' : \/ i \in DOMAIN forwarded /\ forwarded'[i] = forwarded[i]
                                    \/ forwarded'[i] = e
    BY <1>1, <1>2, ForwardedTypes, AppendElements
  <1>5. \A q \in Peer : \A i \in DOMAIN pubQ'[q] :
           \E j \in DOMAIN pubQ[q] : pubQ'[q][i] = pubQ[q][j]
    <2>1. \A i \in DOMAIN Tail(pubQ[p]) :
             i + 1 \in DOMAIN pubQ[p] /\ Tail(pubQ[p])[i] = pubQ[p][i + 1]
      BY <1>1, PeerTypes, TailElements
    <2> QED
      BY <1>3, <2>1
  <1>6. Genuine(e)
    BY <1>1 DEF GenuineInv
  <1>7. \A q \in Peer : \A i \in DOMAIN pubQ'[q] : Genuine(pubQ'[q][i])
    BY <1>5 DEF GenuineInv
  <1>8. \A i \in DOMAIN forwarded' : Genuine(forwarded'[i])
    BY <1>4, <1>6 DEF GenuineInv
  <1> QED
    BY <1>2, <1>7, <1>8 DEF GenuineInv, Genuine

\* What is received next comes after all that was received before.
LEMMA ReceiveRead ==
    ASSUME IInv, ReadInv, NEW p \in Peer, Receive(p)
    PROVE  ReadInv'
  <1> DEFINE e == Head(subQ[p])
  <1>1. /\ e \in Event /\ 1 \in DOMAIN subQ[p] /\ e = subQ[p][1]
        /\ received'[p] = Append(received[p], e)
        /\ \A q \in Peer \ {p} : received'[q] = received[q]
        /\ forwarded' = forwarded
    BY PeerTypes, TailFacts DEF Receive, IInv, TypeOK
  <1> HIDE DEF e
  <1>2. Wants(p, e) /\ \A i \in DOMAIN received[p] : Before(forwarded, received[p][i], e)
    BY <1>1 DEF IInv, SubQueueInv
  <1>3. /\ \A i \in DOMAIN received'[p] :
              (i \in DOMAIN received[p] /\ received'[p][i] = received[p][i]) \/ received'[p][i] = e
        /\ \A i, j \in DOMAIN received'[p] :
              i < j => i \in DOMAIN received[p] /\ received'[p][i] = received[p][i]
    BY <1>1, PeerTypes, AppendElements DEF IInv
  <1>4. \A i, j \in DOMAIN received'[p] :
           i < j => Before(forwarded, received'[p][i], received'[p][j])
    BY <1>2, <1>3 DEF ReadInv
  <1>5. \A i \in DOMAIN received'[p] : Wants(p, received'[p][i])
    BY <1>2, <1>3 DEF ReadInv
  <1>6. ASSUME NEW r \in Peer
        PROVE  /\ \A i \in DOMAIN received'[r] : Wants(r, received'[r][i])
               /\ \A i, j \in DOMAIN received'[r] :
                     i < j => Before(forwarded, received'[r][i], received'[r][j])
    BY <1>1, <1>4, <1>5 DEF ReadInv
  <1> QED
    BY <1>1, <1>6 DEF ReadInv, Wants, Before

\* A longer log leaves the order of what was received as it is.
LEMMA ForwardRead ==
    ASSUME IInv, ReadInv, NEW p \in Peer, Forward(p)
    PROVE  ReadInv'
  <1> DEFINE e == Head(pubQ[p])
  <1>1. e \in Event /\ forwarded' = Append(forwarded, e) /\ received' = received
    BY ForwardStep DEF IInv
  <1> HIDE DEF e
  <1>2. \A a, b : Before(forwarded, a, b) => Before(forwarded', a, b)
    BY <1>1, ForwardedTypes, LongerLog DEF IInv
  <1>3. \A r \in Peer : \A i, j \in DOMAIN received[r] :
           i < j => Before(forwarded', received[r][i], received[r][j])
    BY <1>2 DEF ReadInv
  <1> QED
    BY <1>1, <1>3 DEF ReadInv, Wants, Before

LogInv == IInv /\ GenuineInv /\ ReadInv

\* What reaches a plugin is what was published and what the plugin subscribed to,
\* in the order of the log.
THEOREM DeliveryIsFaithful == Spec => []LogInv
  <1>1. InitBus => GenuineInv /\ ReadInv
    BY DEF InitBus, GenuineInv, ReadInv
  <1>2. ASSUME IInv, GenuineInv, ReadInv, [Next]_busVars
        PROVE  GenuineInv' /\ ReadInv'
    <2>1. ASSUME NEW p \in Peer, NEW t \in EventType, Publish(p, t)
          PROVE  GenuineInv' /\ ReadInv'
      <3>1. UNCHANGED <<received, forwarded>>
        BY <2>1 DEF Publish
      <3>2. ReadInv'
        BY <1>2, <3>1 DEF ReadInv, Wants, Before
      <3> QED
        BY <1>2, <2>1, <3>2, PublishGenuine DEF IInv
    <2>2. ASSUME NEW p \in Peer, Receive(p)
          PROVE  GenuineInv' /\ ReadInv'
      <3>1. UNCHANGED <<pubQ, published, forwarded>>
        BY <2>2 DEF Receive
      <3>2. GenuineInv'
        BY <1>2, <3>1 DEF GenuineInv, Genuine
      <3> QED
        BY <1>2, <2>2, <3>2, ReceiveRead
    <2>3. ASSUME NEW p \in Peer, Forward(p)
          PROVE  GenuineInv' /\ ReadInv'
      BY <1>2, <2>3, ForwardGenuine, ForwardRead DEF IInv
    <2>4. CASE UNCHANGED <<pubQ, published, forwarded, received, heard>>
      BY <1>2, <2>4 DEF GenuineInv, Genuine, ReadInv, Wants, Before
    <2> QED
      BY <1>2, <2>1, <2>2, <2>3, <2>4, StepsOfEvents
  <1> QED
    BY InductiveInvariant, <1>1, <1>2, PTL DEF Spec, LogInv

-----------------------------------------------------------------------------
(* Which events of a publisher can be lost                                 *)

\* The proxy has the event, or will take it.
Kept(e) == Has(pubQ[e.src], e) \/ Has(forwarded, e)

OfOthers(p, f) == \A k \in DOMAIN f : f[k].src # p

\* A queue holds no more than was published, and nothing of a plugin gets to the
\* proxy before its connection has been handled.
SilentInv ==
    \A p \in Peer :
        /\ Len(pubQ[p]) <= Len(published[p])
        /\ pub[p] \in {"none", "connected"} => pubQ[p] = <<>> /\ OfOthers(p, forwarded)

KeptAfterFirst ==
    \A p \in Peer :
        Len(published[p]) <= PubLimit =>
            \A i, j \in DOMAIN published[p] :
                i < j /\ Kept(published[p][i]) => Kept(published[p][j])

\* A socket that is not live yet keeps nothing it is given.
LEMMA PublishSilent ==
    ASSUME TypeOK, SilentInv, NEW p \in Peer, NEW t \in EventType, Publish(p, t)
    PROVE  SilentInv'
  <1>1. EventOf(p, t) \in Event
    BY EventOfType DEF Publish
  <1>2. UNCHANGED <<pub, forwarded>>
    BY DEF Publish
  <1>3. ASSUME NEW q \in Peer
        PROVE  /\ Len(pubQ'[q]) <= Len(published'[q])
               /\ pub[q] \in {"none", "connected"} => pubQ'[q] = pubQ[q]
    <2>1. CASE q # p
      BY <1>3, <2>1 DEF Publish, Offer, TypeOK, SilentInv
    <2>2. CASE q = p
      <3>1. published'[p] = Append(published[p], EventOf(p, t))
            /\ pubQ'[p] \in {pubQ[p], Append(pubQ[p], EventOf(p, t))}
        BY DEF Publish, Offer, TypeOK
      <3>2. Len(published'[p]) = Len(published[p]) + 1
            /\ Len(pubQ'[p]) \in {Len(pubQ[p]), Len(pubQ[p]) + 1}
        BY <1>1, <3>1, PeerTypes, AppendFacts
      <3>3. Len(pubQ'[p]) <= Len(published'[p])
        BY <3>2, PeerTypes DEF SilentInv
      <3>4. pub[p] # "live" => pubQ'[p] = pubQ[p]
        BY DEF Publish, Offer
      <3> QED
        BY <2>2, <3>3, <3>4
    <2> QED
      BY <2>1, <2>2
  <1> QED
    BY <1>2, <1>3 DEF SilentInv

\* What is forwarded comes from a socket that has been live.
LEMMA ForwardSilent ==
    ASSUME TypeOK, OrderInv, SilentInv, NEW p \in Peer, Forward(p)
    PROVE  SilentInv'
  <1> DEFINE e == Head(pubQ[p])
  <1>1. e \in Event /\ e.src = p
    BY ForwardStep DEF OrderInv, PubQueueInv, OfPublisher
  <1>2. forwarded' = Append(forwarded, e) /\ UNCHANGED <<pub, published>>
    BY DEF Forward
  <1>3. pubQ[p] # <<>> /\ \A q \in Peer : pubQ'[q] = IF q = p THEN Tail(pubQ[p]) ELSE pubQ[q]
    BY ForwardStep
  <1> HIDE DEF e
  <1>4. \A k \in DOMAIN forwarded' :
           (k \in DOMAIN forwarded /\ forwarded'[k] = forwarded[k]) \/ forwarded'[k] = e
    BY <1>1, <1>2, ForwardedTypes, AppendElements
  <1>5. ASSUME NEW q \in Peer
        PROVE  /\ Len(pubQ'[q]) <= Len(published'[q])
               /\ pub'[q] \in {"none", "connected"} => pubQ'[q] = <<>> /\ OfOthers(q, forwarded')
    <2>1. CASE q = p
      <3>1. Len(Tail(pubQ[p])) <= Len(pubQ[p])
        BY <1>3, PeerTypes, TailFacts
      <3>2. Len(Tail(pubQ[p])) \in Nat
        BY <1>3, PeerTypes, TailFacts
      <3>3. Len(pubQ'[p]) <= Len(published'[p])
        <4>1. Len(pubQ[p]) <= Len(published[p]) /\ published' = published
          BY <1>2 DEF SilentInv
        <4>2. Len(pubQ[p]) \in Nat /\ Len(published[p]) \in Nat
          BY PeerTypes
        <4>3. Len(Tail(pubQ[p])) <= Len(published[p])
          BY <3>1, <3>2, <4>1, <4>2
        <4> QED
          BY <1>3, <4>1, <4>3
      <3>4. pub'[p] \notin {"none", "connected"}
        BY <1>2, <1>3 DEF SilentInv
      <3> QED
        BY <2>1, <3>3, <3>4
    <2>2. CASE q # p
      BY <1>1, <1>2, <1>3, <1>4, <2>2 DEF SilentInv, OfOthers
    <2> QED
      BY <2>1, <2>2
  <1> QED
    BY <1>5 DEF SilentInv

\* An event that a plugin publishes is kept as soon as an earlier one was.
LEMMA PublishKept ==
    ASSUME TypeOK, OrderInv, SilentInv, KeptAfterFirst, NEW p \in Peer, NEW t \in EventType,
           Publish(p, t)
    PROVE  KeptAfterFirst'
  <1> DEFINE e == EventOf(p, t)
             n == Len(published[p])
             KeptNext(a) == Has(pubQ'[a.src], a) \/ Has(forwarded', a)
  <1>1. e \in Event /\ e.src = p /\ e.num = n + 1 /\ n \in Nat
    BY EventOfType, PeerTypes DEF Publish, EventOf
  <1>2. forwarded' = forwarded
    BY DEF Publish
  <1>3. \A q \in Peer : q # p => pubQ'[q] = pubQ[q] /\ published'[q] = published[q]
    BY DEF Publish, Offer, TypeOK
  <1>4. published'[p] = Append(published[p], e)
    BY DEF Publish, TypeOK
  <1>5. /\ Len(published'[p]) = n + 1 /\ DOMAIN published'[p] = 1..(n + 1)
        /\ DOMAIN published[p] = 1..n
        /\ \A i \in 1..n : published'[p][i] = published[p][i]
        /\ published'[p][n + 1] = e
    BY <1>1, <1>4, PeerTypes, AppendFacts
  <1>6. \A q \in Peer : \A i \in DOMAIN published[q] :
           published[q][i].src = q /\ published[q][i].num = i
    BY DEF OrderInv, PublishedInv
  <1>7. ASSUME NEW q \in Peer, q # p, Len(published'[q]) <= PubLimit
        PROVE  \A i, j \in DOMAIN published'[q] :
                  i < j /\ KeptNext(published'[q][i]) => KeptNext(published'[q][j])
    <2>1. \A i \in DOMAIN published[q] :
             KeptNext(published[q][i]) <=> Kept(published[q][i])
      BY <1>2, <1>3, <1>6, <1>7 DEF Kept
    <2>2. \A i, j \in DOMAIN published[q] :
             i < j /\ Kept(published[q][i]) => Kept(published[q][j])
      BY <1>3, <1>7 DEF KeptAfterFirst
    <2> HIDE DEF KeptNext
    <2> QED
      BY <1>3, <1>7, <2>1, <2>2
  <1>8. ASSUME n + 1 <= PubLimit, NEW i \in 1..(n + 1), NEW j \in 1..(n + 1), i < j,
               KeptNext(published'[p][i])
        PROVE  KeptNext(published'[p][j])
    <2>1. i \in 1..n /\ published'[p][i] = published[p][i] /\ published[p][i] # e
      BY <1>1, <1>5, <1>6, <1>8
    <2>2. published[p][i].src = p
      BY <1>5, <1>6, <2>1
    <2>3. /\ pubQ'[p] = IF pub[p] = "live" THEN Append(pubQ[p], e) ELSE pubQ[p]
      <3>1. Room(pubQ[p], PubLimit)
        BY <1>1, <1>8, PeerTypes, BrokerAssumption DEF SilentInv, Room
      <3> QED
        BY <3>1 DEF Publish, Offer, TypeOK
    <2> HIDE DEF e, n
    <2>4. Has(pubQ'[p], published[p][i]) => Has(pubQ[p], published[p][i])
      BY <1>1, <2>1, <2>3, PeerTypes, AppendElements DEF Has
    <2>5. Kept(published[p][i])
      BY <1>2, <1>8, <2>1, <2>2, <2>4 DEF Kept
    <2>6. pub[p] = "live"
      <3>1. ~OfOthers(p, forwarded) \/ pubQ[p] # <<>>
        BY <2>2, <2>5 DEF Kept, Has, OfOthers
      <3> QED
        BY <3>1 DEF SilentInv, Publish
    <2>7. CASE j = n + 1
      <3>1. Has(pubQ'[p], e)
        BY <1>1, <2>3, <2>6, PeerTypes, AppendFacts DEF Has
      <3> QED
        BY <1>1, <1>5, <2>7, <3>1
    <2>8. CASE j # n + 1
      <3>1. j \in 1..n /\ published'[p][j] = published[p][j]
        BY <1>1, <1>5, <2>8
      <3>2. published[p][j].src = p
        BY <1>5, <1>6, <3>1
      <3>3. n <= PubLimit
        BY <1>1, <1>8, BrokerAssumption
      <3>4. Kept(published[p][j])
        BY <1>5, <1>8, <2>1, <2>5, <3>1, <3>3 DEF KeptAfterFirst, n
      <3>5. Has(pubQ[p], published[p][j]) => Has(pubQ'[p], published[p][j])
        BY <1>1, <2>3, PeerTypes, AppendElements DEF Has
      <3> QED
        BY <1>2, <3>1, <3>2, <3>4, <3>5 DEF Kept
    <2> QED
      BY <2>7, <2>8
  <1>9. ASSUME NEW q \in Peer, Len(published'[q]) <= PubLimit,
               NEW i \in DOMAIN published'[q], NEW j \in DOMAIN published'[q], i < j,
               KeptNext(published'[q][i])
        PROVE  KeptNext(published'[q][j])
    <2> HIDE DEF KeptNext, e, n
    <2>1. CASE q = p
      BY <1>5, <1>8, <1>9, <2>1
    <2>2. CASE q # p
      BY <1>7, <1>9, <2>2
    <2> QED
      BY <2>1, <2>2
  <1> QED
    BY <1>9 DEF KeptAfterFirst, Kept

\* An event that the proxy takes was kept, and still is.
LEMMA ForwardKept ==
    ASSUME TypeOK, OrderInv, KeptAfterFirst, NEW p \in Peer, Forward(p)
    PROVE  KeptAfterFirst'
  <1> DEFINE e == Head(pubQ[p])
  <1>1. e \in Event /\ e.src = p /\ pubQ[p] # <<>> /\ e = pubQ[p][1] /\ 1 \in DOMAIN pubQ[p]
    BY ForwardStep DEF OrderInv, PubQueueInv, OfPublisher
  <1>2. forwarded' = Append(forwarded, e) /\ published' = published
    BY ForwardStep
  <1>3. \A q \in Peer : pubQ'[q] = IF q = p THEN Tail(pubQ[p]) ELSE pubQ[q]
    BY ForwardStep
  <1>4. DOMAIN pubQ[p] = 1..Len(pubQ[p]) /\ Len(pubQ[p]) \in Nat
        /\ DOMAIN Tail(pubQ[p]) = 1..(Len(pubQ[p]) - 1)
        /\ \A i \in DOMAIN Tail(pubQ[p]) :
              i + 1 \in DOMAIN pubQ[p] /\ Tail(pubQ[p])[i] = pubQ[p][i + 1]
    BY <1>1, PeerTypes, TailFacts
  <1> HIDE DEF e
  <1>5. \A a : Has(forwarded', a) <=> Has(forwarded, a) \/ a = e
    BY <1>1, <1>2, ForwardedTypes, AppendFacts DEF Has
  <1>6. \A a : Has(pubQ[p], a) <=> a = e \/ Has(Tail(pubQ[p]), a)
    <2>1. ASSUME NEW a, NEW i \in DOMAIN pubQ[p], pubQ[p][i] = a, a # e
          PROVE  Has(Tail(pubQ[p]), a)
      <3>1. i # 1 /\ i - 1 \in DOMAIN Tail(pubQ[p])
        BY <1>1, <1>4, <2>1
      <3>2. Tail(pubQ[p])[i - 1] = pubQ[p][(i - 1) + 1]
        BY <1>4, <3>1
      <3>3. (i - 1) + 1 = i
        BY <1>4
      <3> QED
        BY <2>1, <3>1, <3>2, <3>3 DEF Has
    <2> QED
      BY <1>1, <1>4, <2>1 DEF Has
  <1>7. ASSUME NEW a, a.src \in Peer
        PROVE  Kept(a)' <=> Kept(a)
    <2>1. CASE a.src = p
      BY <1>3, <1>5, <1>6, <2>1 DEF Kept
    <2>2. CASE a.src # p
      BY <1>1, <1>3, <1>5, <1>7, <2>2 DEF Kept
    <2> QED
      BY <2>1, <2>2
  <1>8. \A q \in Peer : \A i \in DOMAIN published[q] : published[q][i].src \in Peer
    BY DEF OrderInv, PublishedInv
  <1> QED
    BY <1>2, <1>7, <1>8 DEF KeptAfterFirst

\* What the other steps do to the PUB sockets.
LEMMA OtherPub ==
    ASSUME TypeOK, [Next]_busVars, UNCHANGED <<pubQ, published, forwarded>>, NEW q \in Peer,
           pub'[q] \in {"none", "connected"}
    PROVE  pub[q] \in {"none", "connected"}
  BY DEF Next, FreePluginStep, ProxyStep, ConnectPub, Subscribe, Publish, Receive, Close,
         StartProxy, Accept, ApplyFilter, Forward, Poll, EndBurst, busVars, TypeOK

\* Below the high-water mark, a plugin loses first events only.
THEOREM OnlyFirstAreLost == Spec => [](SilentInv /\ KeptAfterFirst)
  <1>1. InitBus => SilentInv /\ KeptAfterFirst
    BY DEF InitBus, SilentInv, OfOthers, KeptAfterFirst
  <1>2. ASSUME TypeOK, OrderInv, SilentInv, KeptAfterFirst, [Next]_busVars
        PROVE  SilentInv' /\ KeptAfterFirst'
    <2>1. ASSUME UNCHANGED <<pubQ, published, forwarded>>
          PROVE  SilentInv' /\ KeptAfterFirst'
      BY <1>2, <2>1, OtherPub DEF SilentInv, KeptAfterFirst, Kept
    <2>2. ASSUME NEW p \in Peer, Receive(p)
          PROVE  UNCHANGED <<pubQ, published, forwarded>>
      BY <2>2 DEF Receive
    <2> QED
      BY <1>2, <2>1, <2>2, PublishSilent, ForwardSilent, PublishKept, ForwardKept,
         StepsOfEvents
  <1> QED
    BY OrderIsInductive, <1>1, <1>2, PTL DEF Spec
=============================================================================
