--------------------------- MODULE ExampleProofs ---------------------------
(* The loops of the example count as they should, for any number of messages. *)
EXTENDS Example, EngineProofs

\* A loop only uses the sockets its start function was given.
LEMMA LoopIsTraffic ==
    ASSUME NEW p \in Plugin, Loop(p)
    PROVE  Traffic(p)
  <1>1. "TypeA" \in EventType /\ "TypeB" \in EventType /\ "TypeC" \in EventType
    BY ExampleAssumption
  <1> QED
    BY <1>1 DEF Loop, ProducerLoop, CounterLoop, PyPluginLoop, Traffic

\* By their definitions the example's steps are some of Engine's, so that what is
\* proved of Engine holds of it.
LEMMA ExampleIsEngine == ExampleSpec => Spec
  <1>1. [ExampleNext]_vars => [Next]_vars
    BY LoopIsTraffic DEF ExampleNext, Next
  <1> QED
    BY <1>1, PTL DEF ExampleSpec, Spec

\* So the barrier, the complete delivery and the loss of first events only hold of it.
COROLLARY ExampleTraffic ==
    ExampleSpec => [](NoTrafficBeforeBarrier /\ NoneMissed /\ OnlyFirstEventsLost)
  BY ExampleIsEngine, TrafficAfterBarrier, NobodyMisses, OnlyFirstAreLost, PTL

-----------------------------------------------------------------------------
(* The counters of the loops                                               *)

\* The plugins there are, and what each subscribed to.
LEMMA ThePlugins ==
    /\ Producer \in Plugin /\ Counter \in Plugin
    /\ \A p \in Plugin : p = Producer \/ p = Counter \/ (p = PyPlugin /\ WithPython)
    /\ WithPython => NumExternal = 1 /\ PyPlugin \in Plugin
    /\ ~WithPython => NumExternal = 0
    /\ Messages \in Nat \ {0}
    /\ "TypeA" \in EventType /\ "TypeB" \in EventType /\ "TypeC" \in EventType
  <1>1. NumInternal = 2 /\ NumExternal \in {0, 1}
    BY ExampleAssumption
  <1>2. Plugin = 1..(2 + NumExternal)
    BY <1>1 DEF Plugin
  <1>3. Messages \in Nat \ {0}
    BY ExampleAssumption, EngineAssumption
  <1> QED
    BY <1>1, <1>2, <1>3, ExampleAssumption DEF Producer, Counter, PyPlugin, WithPython

\* What each plugin subscribed to.
LEMMA Interests ==
    ASSUME NEW e \in BP!Event
    PROVE  /\ M!Matches(Subscriptions[Producer], e)
                 <=> e.type = "TypeB" \/ (WithPython /\ e.type = "TypeC")
           /\ M!Matches(Subscriptions[Counter], e) <=> e.type = "TypeA"
           /\ WithPython => (M!Matches(Subscriptions[PyPlugin], e)
                                <=> e.type = "TypeA" \/ e.type = "TypeB")
  <1>1. /\ Subscriptions[Producer] = IF WithPython THEN {"TypeB", "TypeC"} ELSE {"TypeB"}
        /\ Subscriptions[Counter] = {"TypeA"}
        /\ WithPython => Subscriptions[PyPlugin] = {"TypeA", "TypeB"}
    BY ThePlugins, ExampleAssumption DEF ExampleSubscriptions, Producer, Counter, PyPlugin
  <1>2. \A f : <<f, e.type>> \in Covers <=> f \in EventType /\ f = e.type
    BY ExampleAssumption
  <1>3. EventType = {"TypeA", "TypeB", "TypeC"}
    BY ExampleAssumption
  <1> QED
    BY <1>1, <1>2, <1>3 DEF M!Matches

\* Each plugin publishes events of one type.
TypesInv ==
    /\ \A i \in DOMAIN published[Producer] : published[Producer][i].type = "TypeA"
    /\ \A i \in DOMAIN published[Counter] : published[Counter][i].type = "TypeB"
    /\ WithPython => \A i \in DOMAIN published[PyPlugin] : published[PyPlugin][i].type = "TypeC"

\* What the loops have counted: no plugin sends or reads too much, the counter
\* answers what it has read, and the Python plugin had read everything when it said
\* goodbye.
CountInv ==
    /\ Sent(Producer) <= Messages
    /\ Sent(Counter) <= Read(Counter) /\ Read(Counter) <= Messages
    /\ Read(Producer) <= ProducerReads
    /\ WithPython =>
          /\ Sent(PyPlugin) <= 1
          /\ Read(PyPlugin) <= PyPluginReads
          /\ \A n \in DOMAIN heard[PyPlugin] : heard[PyPlugin][n] = PyPluginReads

\* A thread has exited only when its loop was done.
ExitInv == \A p \in Plugin : thread[p] = "exited" => Finished(p)

LoopInv == TypesInv /\ CountInv /\ ExitInv

\* The counters are numbers.
LEMMA Counters ==
    ASSUME BP!LogInv, NEW p \in Plugin
    PROVE  Sent(p) \in Nat /\ Read(p) \in Nat
  BY PublishedFacts, ReceivedFacts DEF Sent, Read

\* When each loop is done.
LEMMA WhenFinished ==
    /\ Finished(Producer) => Sent(Producer) = Messages /\ Read(Producer) = ProducerReads
    /\ Finished(Counter) => Sent(Counter) = Messages
    /\ Finished(PyPlugin) => Sent(PyPlugin) = 1
  <1>1. Producer # Counter /\ Producer # PyPlugin /\ Counter # PyPlugin
    BY DEF Producer, Counter, PyPlugin
  <1>2. Finished(Producer) => Sent(Producer) = Messages /\ Read(Producer) = ProducerReads
    BY <1>1, Zenon DEF Finished
  <1>3. Finished(Counter) => Sent(Counter) = Messages
    BY <1>1, Zenon DEF Finished
  <1>4. Finished(PyPlugin) => Sent(PyPlugin) = 1
    BY <1>1, Zenon DEF Finished
  <1> QED
    BY <1>2, <1>3, <1>4

\* When each loop waits for an event.
LEMMA WhenAtRecv ==
    /\ AtRecv(Producer) <=> Sent(Producer) = Messages /\ Read(Producer) < ProducerReads
    /\ AtRecv(Counter) <=> Sent(Counter) = Read(Counter) /\ Read(Counter) < Messages
    /\ AtRecv(PyPlugin) <=> Read(PyPlugin) < PyPluginReads
  BY DEF AtRecv, Producer, Counter, PyPlugin

\* Steps that leave the histories alone.
LEMMA QuietLoops ==
    ASSUME LoopInv, UNCHANGED <<published, received, heard>>,
           \A p \in Plugin : thread'[p] = "exited" => thread[p] = "exited" \/ Finished(p)
    PROVE  LoopInv'
  <1>1. TypesInv' /\ CountInv'
    BY DEF LoopInv, TypesInv, CountInv, Sent, Read
  <1>2. \A p \in Plugin : Finished(p) => Finished(p)'
    BY DEF Finished, Sent, Read
  <1> QED
    BY <1>1, <1>2 DEF LoopInv, ExitInv

\* A plugin that publishes or receives is not one that has exited.
LEMMA OthersExit ==
    ASSUME LoopInv, NEW p \in Plugin, thread[p] = "running", thread' = thread,
           \A q \in Plugin : q # p => published'[q] = published[q] /\ received'[q] = received[q]
    PROVE  ExitInv'
  <1>1. \A q \in Plugin : thread'[q] = "exited" => q # p /\ Finished(q)
    BY DEF LoopInv, ExitInv
  <1>2. \A q \in Plugin : q # p /\ Finished(q) => Finished(q)'
    BY DEF Finished, Sent, Read
  <1> QED
    BY <1>1, <1>2 DEF ExitInv

\* A step of the producer's loop.
LEMMA ProducerStep ==
    ASSUME BP!LogInv, LoopInv, thread[Producer] = "running", ProducerLoop, UNCHANGED runVars
    PROVE  LoopInv'
  <1>1. thread' = thread
    BY DEF runVars
  <1>2. CASE Sent(Producer) < Messages /\ M!Publish(Producer, "TypeA")
    <2>1. /\ Len(published'[Producer]) = Len(published[Producer]) + 1
          /\ \A q \in Plugin : q # Producer => published'[q] = published[q] /\ heard'[q] = heard[q]
          /\ received' = received
      BY <1>2, ThePlugins, PublishEffect
    <2>2. ExitInv'
      BY <1>1, <2>1, OthersExit, ThePlugins
    <2>3. TypesInv'
      <3>1. \A i \in DOMAIN published'[Producer] : published'[Producer][i].type = "TypeA"
        BY <1>2, ThePlugins, PublishOneType DEF LoopInv, TypesInv
      <3> QED
        BY <2>1, <3>1, ThePlugins DEF LoopInv, TypesInv, Producer, Counter, PyPlugin
    <2>4. Sent(Producer)' <= Messages
      BY <1>2, <2>1, Counters, ThePlugins DEF Sent
    <2>5. CountInv'
      BY <2>1, <2>4, ThePlugins DEF LoopInv, CountInv, Sent, Read, Producer, Counter, PyPlugin
    <2> QED
      BY <2>2, <2>3, <2>5 DEF LoopInv
  <1>3. CASE Read(Producer) < ProducerReads /\ M!Receive(Producer)
    <2>1. /\ Len(received'[Producer]) = Len(received[Producer]) + 1
          /\ \A q \in Plugin : q # Producer => received'[q] = received[q]
          /\ UNCHANGED <<published, heard>>
      BY <1>3, ThePlugins, ReceiveEffect
    <2>2. ExitInv'
      BY <1>1, <2>1, OthersExit, ThePlugins
    <2>3. Read(Producer)' <= ProducerReads
      BY <1>3, <2>1, Counters, ThePlugins DEF Read, ProducerReads
    <2>4. TypesInv' /\ CountInv'
      BY <2>1, <2>3, ThePlugins
      DEF LoopInv, TypesInv, CountInv, Sent, Read, Producer, Counter, PyPlugin
    <2> QED
      BY <2>2, <2>4 DEF LoopInv
  <1> QED
    BY <1>2, <1>3, WhenAtRecv DEF ProducerLoop

\* A step of the counter's loop.
LEMMA CounterStep ==
    ASSUME BP!LogInv, LoopInv, thread[Counter] = "running", CounterLoop, UNCHANGED runVars
    PROVE  LoopInv'
  <1>1. thread' = thread
    BY DEF runVars
  <1>2. CASE Sent(Counter) < Read(Counter) /\ M!Publish(Counter, "TypeB")
    <2>1. /\ Len(published'[Counter]) = Len(published[Counter]) + 1
          /\ \A q \in Plugin : q # Counter => published'[q] = published[q] /\ heard'[q] = heard[q]
          /\ received' = received
      BY <1>2, ThePlugins, PublishEffect
    <2>2. ExitInv'
      BY <1>1, <2>1, OthersExit, ThePlugins
    <2>3. TypesInv'
      <3>1. \A i \in DOMAIN published'[Counter] : published'[Counter][i].type = "TypeB"
        BY <1>2, ThePlugins, PublishOneType DEF LoopInv, TypesInv
      <3> QED
        BY <2>1, <3>1, ThePlugins DEF LoopInv, TypesInv, Producer, Counter, PyPlugin
    <2>4. Sent(Counter)' <= Read(Counter)'
      BY <1>2, <2>1, Counters, ThePlugins DEF Sent, Read
    <2>5. CountInv'
      BY <2>1, <2>4, ThePlugins DEF LoopInv, CountInv, Sent, Read, Producer, Counter, PyPlugin
    <2> QED
      BY <2>2, <2>3, <2>5 DEF LoopInv
  <1>3. CASE Read(Counter) < Messages /\ Sent(Counter) = Read(Counter) /\ M!Receive(Counter)
    <2>1. /\ Len(received'[Counter]) = Len(received[Counter]) + 1
          /\ \A q \in Plugin : q # Counter => received'[q] = received[q]
          /\ UNCHANGED <<published, heard>>
      BY <1>3, ThePlugins, ReceiveEffect
    <2>2. ExitInv'
      BY <1>1, <2>1, OthersExit, ThePlugins
    <2>3. Sent(Counter)' <= Read(Counter)' /\ Read(Counter)' <= Messages
      BY <1>3, <2>1, Counters, ThePlugins DEF Sent, Read
    <2>4. TypesInv' /\ CountInv'
      BY <2>1, <2>3, ThePlugins
      DEF LoopInv, TypesInv, CountInv, Sent, Read, Producer, Counter, PyPlugin
    <2> QED
      BY <2>2, <2>4 DEF LoopInv
  <1> QED
    BY <1>2, <1>3, WhenAtRecv DEF CounterLoop

\* A step of the Python plugin.
LEMMA PyPluginStep ==
    ASSUME BP!LogInv, LoopInv, thread[PyPlugin] = "running", PyPluginLoop, UNCHANGED runVars
    PROVE  LoopInv'
  <1>1. thread' = thread /\ WithPython /\ PyPlugin \in Plugin
    BY ThePlugins DEF runVars, PyPluginLoop
  <1>2. CASE Read(PyPlugin) = PyPluginReads /\ Sent(PyPlugin) = 0 /\ M!Publish(PyPlugin, "TypeC")
    <2>1. /\ Len(published'[PyPlugin]) = 1
          /\ DOMAIN published'[PyPlugin] = 1..1 /\ DOMAIN heard'[PyPlugin] = 1..1
          /\ published'[PyPlugin][1].type = "TypeC"
          /\ heard'[PyPlugin][1] = PyPluginReads
          /\ \A q \in Plugin : q # PyPlugin => published'[q] = published[q] /\ heard'[q] = heard[q]
          /\ received' = received
      <3>1. "TypeC" \in EventType /\ M!Publish(PyPlugin, "TypeC")
            /\ Len(published[PyPlugin]) = 0 /\ Len(received[PyPlugin]) = PyPluginReads
        BY <1>2, ThePlugins DEF Sent, Read
      <3> DEFINE n == Len(published[PyPlugin]) + 1
      <3>2. /\ Len(published'[PyPlugin]) = n
            /\ DOMAIN published'[PyPlugin] = 1..n /\ DOMAIN heard'[PyPlugin] = 1..n
            /\ published'[PyPlugin][n].type = "TypeC"
            /\ heard'[PyPlugin][n] = Len(received[PyPlugin])
            /\ \A q \in Plugin : q # PyPlugin => published'[q] = published[q] /\ heard'[q] = heard[q]
            /\ received' = received
        BY <1>1, <3>1, PublishEffect
      <3>3. n = 1
        BY <3>1
      <3> HIDE DEF n
      <3> QED
        BY <3>1, <3>2, <3>3
    <2>2. ExitInv'
      BY <1>1, <2>1, OthersExit
    <2>3. TypesInv'
      BY <2>1, ThePlugins DEF LoopInv, TypesInv, Producer, Counter, PyPlugin
    <2>4. CountInv'
      BY <2>1, ThePlugins DEF LoopInv, CountInv, Sent, Read, Producer, Counter, PyPlugin
    <2> QED
      BY <2>2, <2>3, <2>4 DEF LoopInv
  <1>3. CASE Read(PyPlugin) < PyPluginReads /\ M!Receive(PyPlugin)
    <2>1. /\ Len(received'[PyPlugin]) = Len(received[PyPlugin]) + 1
          /\ \A q \in Plugin : q # PyPlugin => received'[q] = received[q]
          /\ UNCHANGED <<published, heard>>
      BY <1>1, <1>3, ReceiveEffect
    <2>2. ExitInv'
      BY <1>1, <2>1, OthersExit
    <2>3. Read(PyPlugin)' <= PyPluginReads
      BY <1>1, <1>3, <2>1, Counters, ThePlugins DEF Read, PyPluginReads
    <2>4. TypesInv' /\ CountInv'
      BY <2>1, <2>3, ThePlugins
      DEF LoopInv, TypesInv, CountInv, Sent, Read, Producer, Counter, PyPlugin
    <2> QED
      BY <2>2, <2>4 DEF LoopInv
  <1> QED
    BY <1>2, <1>3, WhenAtRecv DEF PyPluginLoop

\* What is proved of Engine holds of the example.
LEMMA EngineFacts ==
    ExampleSpec => [](/\ BP!LogInv /\ SocketInv /\ NoneMissed
                      /\ (main = "ok" => \A p \in Plugin : thread[p] = "exited"))
  BY ExampleIsEngine, LogFacts, SocketsFollowThreads, NobodyMisses, OkMeansExited, PTL

\* The loops count as they should.
THEOREM LoopsCount == ExampleSpec => []LoopInv
  <1>1. Init => LoopInv
    <2>1. ASSUME Init
          PROVE  LoopInv
      <3>1. \A p \in Plugin : /\ published[p] = <<>> /\ received[p] = <<>> /\ heard[p] = <<>>
                              /\ thread[p] = "unborn"
        BY <2>1, SameSets DEF Init, A!InitApp, M!InitBus
      <3>2. \A p \in Plugin : /\ Sent(p) = 0 /\ Read(p) = 0
                              /\ DOMAIN published[p] = {} /\ DOMAIN heard[p] = {}
        BY <3>1 DEF Sent, Read
      <3> QED
        BY <3>1, <3>2, ThePlugins
        DEF LoopInv, TypesInv, CountInv, ExitInv, ProducerReads, PyPluginReads
    <2> QED
      BY <2>1
  <1>2. ASSUME BP!LogInv, SocketInv, LoopInv, [ExampleNext]_vars
        PROVE  LoopInv'
    <2>1. ASSUME NEW p \in Plugin, Loop(p)
          PROVE  LoopInv'
      BY <1>2, <2>1, ProducerStep, CounterStep, PyPluginStep DEF Loop
    <2>2. ASSUME NEW p \in Plugin, Finished(p) /\ Leave(p)
          PROVE  LoopInv'
      BY <1>2, <2>2, LeaveEffect, QuietLoops
    <2>3. CASE \/ MainStep \/ ProxyStep \/ UNCHANGED vars
               \/ \E p \in Plugin : SetUpStep(p)
      BY <1>2, <2>3, QuietSteps, QuietLoops
    <2> QED
      BY <1>2, <2>1, <2>2, <2>3 DEF ExampleNext
  <1> QED
    BY <1>1, <1>2, EngineFacts, PTL DEF ExampleSpec

-----------------------------------------------------------------------------
(* What the counters mean                                                  *)

\* Who publishes what each plugin waits for.
LEMMA Sources ==
    ASSUME BP!LogInv, LoopInv
    PROVE  /\ AllPublished \subseteq From(Producer) \cup From(Counter)
                                     \cup (IF WithPython THEN From(PyPlugin) ELSE {})
           /\ WantedBy(Counter) \subseteq From(Producer)
           /\ ~WithPython => WantedBy(Producer) \subseteq From(Counter)
           /\ WithPython => /\ WantedBy(Producer) \subseteq From(Counter) \cup From(PyPlugin)
                            /\ WantedBy(PyPlugin) \subseteq From(Producer) \cup From(Counter)
                            /\ From(Counter) \subseteq WantedBy(PyPlugin)
           /\ From(Counter) \subseteq WantedBy(Producer)
           /\ \A e \in AllPublished : e.type = "TypeC" => WithPython /\ e \in From(PyPlugin)
  <1>1. ASSUME NEW e \in AllPublished
        PROVE  /\ e \in BP!Event
               /\ \/ e \in From(Producer) /\ e.type = "TypeA"
                  \/ e \in From(Counter) /\ e.type = "TypeB"
                  \/ WithPython /\ e \in From(PyPlugin) /\ e.type = "TypeC"
    <2>1. e \in BP!Event /\ e.src \in Plugin /\ e \in From(e.src)
          /\ e.num \in DOMAIN published[e.src] /\ published[e.src][e.num] = e
      <3>1. e \in BP!Event /\ e.src \in Plugin
        BY DEF AllPublished, BP!Event
      <3> QED
        BY <3>1, FromOne
    <2> QED
      BY <2>1, ThePlugins DEF LoopInv, TypesInv
  <1>2. \A p \in Plugin : From(p) \subseteq AllPublished /\ \A e \in From(p) : e.src = p
    BY DEF From
  <1>3. \A p \in Plugin : WantedBy(p) \subseteq AllPublished
    BY DEF WantedBy
  <1>4. AllPublished \subseteq From(Producer) \cup From(Counter)
                               \cup (IF WithPython THEN From(PyPlugin) ELSE {})
    BY <1>1
  <1>5. ASSUME NEW e \in WantedBy(Counter)
        PROVE  e \in From(Producer)
    BY <1>1, <1>3, <1>5, Interests, ThePlugins DEF WantedBy
  <1>6. ASSUME NEW e \in WantedBy(Producer)
        PROVE  e \in From(Counter) \/ (WithPython /\ e \in From(PyPlugin))
    BY <1>1, <1>3, <1>6, Interests, ThePlugins DEF WantedBy
  <1>7. ASSUME WithPython, NEW e \in WantedBy(PyPlugin)
        PROVE  e \in From(Producer) \/ e \in From(Counter)
    BY <1>1, <1>3, <1>7, Interests, ThePlugins DEF WantedBy
  <1>8. ASSUME NEW e \in From(Counter)
        PROVE  e \in WantedBy(Producer) /\ (WithPython => e \in WantedBy(PyPlugin))
    <2>1. e \in AllPublished /\ e.src = Counter
      BY <1>2, ThePlugins
    <2>2. e \in BP!Event /\ e.type = "TypeB"
      BY <1>1, <1>2, <2>1, ThePlugins DEF Producer, Counter, PyPlugin
    <2> QED
      BY <2>1, <2>2, Interests DEF WantedBy
  <1>9. \A e \in AllPublished : e.type = "TypeC" => WithPython /\ e \in From(PyPlugin)
    BY <1>1
  <1> QED
    BY <1>4, <1>5, <1>6, <1>7, <1>8, <1>9

\* A smaller set fits in the same places.
LEMMA FewerIn ==
    ASSUME NEW E1, NEW E2, E1 \subseteq E2, NEW g, NEW k, EachIn(E2, g, k)
    PROVE  EachIn(E1, g, k)
  BY DEF EachIn

\* How many events there are for each plugin at most; who has read that many has
\* read all of them.
LEMMA Enough ==
    ASSUME BP!LogInv, LoopInv
    PROVE  /\ Read(Counter) <= Sent(Producer)
           /\ Read(Counter) = Sent(Producer)
                 => \A e \in WantedBy(Counter) : M!Has(received[Counter], e)
           /\ ~WithPython /\ Read(Producer) = Sent(Counter)
                 => \A e \in WantedBy(Producer) : M!Has(received[Producer], e)
           /\ WithPython /\ Read(Producer) = Sent(Counter) + Sent(PyPlugin)
                 => \A e \in WantedBy(Producer) : M!Has(received[Producer], e)
           /\ WithPython =>
                 /\ Read(PyPlugin) <= Sent(Producer) + Sent(Counter)
                 /\ Read(PyPlugin) = Sent(Producer) + Sent(Counter)
                       => \A e \in WantedBy(PyPlugin) : M!Has(received[PyPlugin], e)
  <1>1. /\ EachIn(From(Producer), published[Producer], Sent(Producer))
        /\ EachIn(From(Counter), published[Counter], Sent(Counter))
        /\ WithPython => EachIn(From(PyPlugin), published[PyPlugin], Sent(PyPlugin))
    BY ThePlugins, FromOne DEF Sent
  <1>2. /\ Sent(Producer) \in Nat /\ Sent(Counter) \in Nat
        /\ WithPython => Sent(PyPlugin) \in Nat
    BY ThePlugins, Counters
  <1>3. ASSUME NEW p \in Plugin, NEW k \in Nat, NEW g, EachIn(WantedBy(p), g, k)
        PROVE  /\ Read(p) <= k
               /\ Read(p) = k => \A e \in WantedBy(p) : M!Has(received[p], e)
    BY <1>3, AllReceived DEF Read
  <1>4. EachIn(WantedBy(Counter), published[Producer], Sent(Producer))
    BY <1>1, Sources, FewerIn
  <1>5. ASSUME ~WithPython
        PROVE  EachIn(WantedBy(Producer), published[Counter], Sent(Counter))
    BY <1>1, <1>5, Sources, FewerIn
  <1>6. ASSUME WithPython
        PROVE  \E g : EachIn(WantedBy(Producer), g, Sent(Counter) + Sent(PyPlugin))
    <2>1. \E g : EachIn(From(Counter) \cup From(PyPlugin), g, Sent(Counter) + Sent(PyPlugin))
      BY <1>1, <1>2, <1>6, TwoRanges
    <2> QED
      BY <1>6, <2>1, Sources, FewerIn
  <1>7. ASSUME WithPython
        PROVE  \E g : EachIn(WantedBy(PyPlugin), g, Sent(Producer) + Sent(Counter))
    <2>1. \E g : EachIn(From(Producer) \cup From(Counter), g, Sent(Producer) + Sent(Counter))
      BY <1>1, <1>2, TwoRanges
    <2> QED
      BY <1>7, <2>1, Sources, FewerIn
  <1>8. /\ Sent(Producer) + Sent(Counter) \in Nat
        /\ WithPython => Sent(Counter) + Sent(PyPlugin) \in Nat
    BY <1>2
  <1>9. /\ Read(Counter) <= Sent(Producer)
        /\ Read(Counter) = Sent(Producer)
              => \A e \in WantedBy(Counter) : M!Has(received[Counter], e)
    BY <1>2, <1>3, <1>4, ThePlugins
  <1>10. ~WithPython /\ Read(Producer) = Sent(Counter)
              => \A e \in WantedBy(Producer) : M!Has(received[Producer], e)
    BY <1>2, <1>3, <1>5, ThePlugins
  <1>11. WithPython /\ Read(Producer) = Sent(Counter) + Sent(PyPlugin)
              => \A e \in WantedBy(Producer) : M!Has(received[Producer], e)
    BY <1>3, <1>6, <1>8, ThePlugins
  <1>12. WithPython =>
              /\ Read(PyPlugin) <= Sent(Producer) + Sent(Counter)
              /\ Read(PyPlugin) = Sent(Producer) + Sent(Counter)
                    => \A e \in WantedBy(PyPlugin) : M!Has(received[PyPlugin], e)
    BY <1>3, <1>7, <1>8, ThePlugins
  <1> QED
    BY <1>9, <1>10, <1>11, <1>12

\* App::run returns Ok only when every event has reached every plugin that
\* subscribed to it, queues of any size: the loops count up to what there is.
THEOREM OkIsComplete == ExampleSpec => []OkMeansComplete
  <1>1. ASSUME BP!LogInv, LoopInv, \A p \in Plugin : thread[p] = "exited", NEW p \in Plugin
        PROVE  \A e \in WantedBy(p) : M!Has(received[p], e)
    <2>1. \A q \in Plugin : Finished(q)
      BY <1>1 DEF LoopInv, ExitInv
    <2>2. Sent(Producer) = Messages /\ Read(Producer) = ProducerReads
      BY <2>1, ThePlugins, WhenFinished
    <2>3. Sent(Counter) = Messages
      BY <2>1, ThePlugins, WhenFinished
    <2>4. WithPython => Sent(PyPlugin) = 1
      BY <2>1, ThePlugins, WhenFinished
    <2>5. Read(Counter) = Messages
      BY <1>1, <2>3, Counters, ThePlugins DEF LoopInv, CountInv
    <2>6. ASSUME WithPython
          PROVE  Read(PyPlugin) = Messages + Messages
      <3>1. 1 \in DOMAIN published[PyPlugin]
        BY <1>1, <2>4, <2>6, ThePlugins, PublishedFacts DEF Sent
      <3>2. 1 \in DOMAIN heard[PyPlugin] /\ heard[PyPlugin][1] <= Read(PyPlugin)
        BY <1>1, <2>6, <3>1, ThePlugins, PublishedFacts DEF Read
      <3>3. heard[PyPlugin][1] = PyPluginReads /\ Read(PyPlugin) <= PyPluginReads
        BY <1>1, <2>6, <3>2 DEF LoopInv, CountInv
      <3> QED
        BY <1>1, <2>6, <3>2, <3>3, Counters, ThePlugins DEF PyPluginReads
    <2>7. /\ ~WithPython => Read(Producer) = Sent(Counter)
          /\ WithPython => Read(Producer) = Sent(Counter) + Sent(PyPlugin)
      BY <2>2, <2>3, <2>4 DEF ProducerReads
    <2> QED
      BY <1>1, <2>2, <2>3, <2>5, <2>6, <2>7, Enough, ThePlugins
  <1>2. ASSUME BP!LogInv, LoopInv, main = "ok" => \A p \in Plugin : thread[p] = "exited"
        PROVE  OkMeansComplete
    <2>1. ASSUME main = "ok", NEW p \in Plugin, NEW q \in Plugin, NEW i \in DOMAIN published[q],
                 M!Matches(Subscriptions[p], published[q][i])
          PROVE  M!Has(received[p], published[q][i])
      <3>1. published[q][i] \in AllPublished
        BY <1>2, PublishedFacts DEF AllPublished
      <3>2. published[q][i] \in WantedBy(p)
        BY <2>1, <3>1 DEF WantedBy
      <3> QED
        BY <1>1, <1>2, <2>1, <3>2
    <2> QED
      BY <2>1 DEF OkMeansComplete
  <1> QED
    BY <1>2, EngineFacts, LoopsCount, PTL

\* When the Python plugin has said goodbye, the counter has answered everything, and
\* the proxy has taken its answers before the goodbye.
LEMMA BeforeGoodbye ==
    ASSUME BP!LogInv, LoopInv, NEW j \in DOMAIN forwarded, forwarded[j].type = "TypeC"
    PROVE  /\ Sent(Counter) = Messages
           /\ \A b \in From(Counter) : BP!Before(forwarded, b, forwarded[j])
  <1> DEFINE c == forwarded[j]
  <1>1. c \in AllPublished
    BY LogPlaces DEF AllPublished
  <1>2. WithPython /\ PyPlugin \in Plugin /\ c \in From(PyPlugin)
    BY <1>1, Sources, ThePlugins
  <1>3. c.src = PyPlugin /\ c.num \in DOMAIN published[PyPlugin]
    BY <1>1, <1>2, FromOne DEF From
  <1>4. heard[PyPlugin][c.num] = PyPluginReads /\ Read(PyPlugin) = PyPluginReads
    <2>1. c.num \in DOMAIN heard[PyPlugin] /\ heard[PyPlugin][c.num] <= Read(PyPlugin)
      BY <1>2, <1>3, PublishedFacts DEF Read
    <2>2. heard[PyPlugin][c.num] = PyPluginReads /\ Read(PyPlugin) <= PyPluginReads
      BY <1>2, <2>1 DEF LoopInv, CountInv
    <2> QED
      BY <1>2, <2>1, <2>2, Counters, ThePlugins DEF PyPluginReads
  <1>5. Sent(Counter) = Messages /\ Sent(Producer) = Messages
    <2>1. Read(PyPlugin) <= Sent(Producer) + Sent(Counter)
      BY <1>2, Enough
    <2>2. Sent(Producer) <= Messages /\ Sent(Counter) <= Read(Counter) /\ Read(Counter) <= Messages
      BY DEF LoopInv, CountInv
    <2>3. /\ Sent(Producer) \in Nat /\ Sent(Counter) \in Nat /\ Read(Counter) \in Nat
          /\ Messages \in Nat
      BY ThePlugins, Counters
    <2>4. Read(PyPlugin) = 2 * Messages
      BY <1>4 DEF PyPluginReads
    <2> QED
      BY <2>1, <2>2, <2>3, <2>4
  <1>6. \A e \in WantedBy(PyPlugin) : M!Has(received[PyPlugin], e)
    <2>1. Read(PyPlugin) = Sent(Producer) + Sent(Counter)
      BY <1>4, <1>5, ThePlugins DEF PyPluginReads
    <2> QED
      BY <1>2, <2>1, Enough
  <1>7. ASSUME NEW b \in From(Counter)
        PROVE  BP!Before(forwarded, b, c)
    <2>1. b \in WantedBy(PyPlugin)
      BY <1>2, Sources
    <2>2. PICK k \in DOMAIN received[PyPlugin] : received[PyPlugin][k] = b
      BY <1>6, <2>1 DEF M!Has
    <2>3. k \in 1..heard[forwarded[j].src][forwarded[j].num]
      BY <1>2, <1>3, <1>4, <2>2, ReceivedFacts DEF Read
    <2>4. PICK m \in DOMAIN forwarded :
             m < j /\ forwarded[m] = received[forwarded[j].src][k]
      BY <2>3 DEF BP!LogInv, BP!IInv, BP!CausesInv
    <2>5. forwarded[m] = b
      BY <1>3, <2>2, <2>4
    <2> QED
      BY <2>4, <2>5 DEF BP!Before
  <1> QED
    BY <1>5, <1>7

\* The proxy takes no more events than a plugin's queue can hold.
LEMMA LogFits ==
    ASSUME BP!LogInv, LoopInv
    PROVE  Len(forwarded) <= SubLimit
  <1> DEFINE F12 == From(Producer) \cup From(Counter)
             k12 == Sent(Producer) + Sent(Counter)
  <1>1. /\ EachIn(From(Producer), published[Producer], Sent(Producer))
        /\ EachIn(From(Counter), published[Counter], Sent(Counter))
        /\ WithPython => EachIn(From(PyPlugin), published[PyPlugin], Sent(PyPlugin))
    BY ThePlugins, FromOne DEF Sent
  <1>2. /\ Sent(Producer) \in Nat /\ Sent(Counter) \in Nat /\ Read(Counter) \in Nat
        /\ WithPython => Sent(PyPlugin) \in Nat
        /\ k12 \in Nat
    BY ThePlugins, Counters
  <1>3. PICK g : EachIn(F12, g, k12)
    BY <1>1, <1>2, TwoRanges
  <1>4. k12 <= 2 * Messages
    BY <1>2, ThePlugins DEF LoopInv, CountInv
  <1>5. SubLimit \in Nat /\ Messages \in Nat /\ Len(forwarded) \in Nat
    BY EngineAssumption, ThePlugins, LogPlaces
  <1>6. CASE ~WithPython
    <2>1. AllPublished \subseteq F12
      BY <1>6, Sources
    <2> HIDE DEF F12, k12
    <2>2. EachIn(AllPublished, g, k12)
      BY <1>3, <2>1, FewerIn
    <2>3. Len(forwarded) <= k12
      BY <1>2, <2>2, LogNoLonger
    <2> QED
      BY <1>2, <1>4, <1>5, <1>6, <2>3, RoomAssumption, ThePlugins
  <1>7. CASE WithPython
    <2>1. AllPublished \subseteq F12 \cup From(PyPlugin)
      BY <1>7, Sources
    <2> HIDE DEF F12, k12
    <2>2. PICK h : EachIn(F12 \cup From(PyPlugin), h, k12 + Sent(PyPlugin))
      BY <1>1, <1>2, <1>3, <1>7, TwoRanges
    <2>3. EachIn(AllPublished, h, k12 + Sent(PyPlugin))
      BY <2>1, <2>2, FewerIn
    <2>4. k12 + Sent(PyPlugin) \in Nat
      BY <1>2, <1>7
    <2>5. Len(forwarded) <= k12 + Sent(PyPlugin)
      BY <2>3, <2>4, LogNoLonger
    <2>6. Sent(PyPlugin) <= 1
      BY <1>7 DEF LoopInv, CountInv
    <2> QED
      BY <1>2, <1>4, <1>5, <1>7, <2>5, <2>6, RoomAssumption, ThePlugins
  <1> QED
    BY <1>6, <1>7

\* The producer receives the goodbye after all answers of the counter.
LEMMA GoodbyeReceived ==
    ASSUME BP!LogInv, SocketInv, NoneMissed, LoopInv, thread[Producer] = "running",
           Read(Producer) < ProducerReads, M!Receive(Producer),
           Head(subQ[Producer]).type = "TypeC"
    PROVE  Read(Producer) = Messages
  <1> DEFINE e == Head(subQ[Producer])
  <1>1. Producer \in Plugin /\ sub[Producer] = "open"
    BY ThePlugins DEF SocketInv
  <1>2. 1 \in DOMAIN subQ[Producer] /\ e = subQ[Producer][1]
    BY <1>1, ReceiveEffect
  <1>3. PICK j \in DOMAIN forwarded : forwarded[j] = e
    BY <1>1, <1>2 DEF BP!LogInv, BP!IInv, BP!SubQueueInv, BP!Within
  <1>4. Sent(Counter) = Messages /\ \A b \in From(Counter) : BP!Before(forwarded, b, e)
    BY <1>3, BeforeGoodbye
  <1>5. ASSUME NEW b \in From(Counter)
        PROVE  M!Has(received[Producer], b)
    <2>1. BP!Before(forwarded, b, e)
      BY <1>4
    <2>2. PICK m \in DOMAIN forwarded : forwarded[m] = b
      BY <2>1 DEF BP!Before
    <2>3. M!Matches(Subscriptions[Producer], b)
      BY Sources DEF WantedBy
    <2>4. M!Has(received[Producer], b) \/ M!Has(subQ[Producer], b)
      BY <1>1, <2>2, <2>3, LogFits DEF NoneMissed
    <2>5. ASSUME NEW h \in DOMAIN subQ[Producer], subQ[Producer][h] = b
          PROVE  FALSE
      <3>1. subQ[Producer] \in Seq(BP!Event)
        BY <1>1 DEF BP!LogInv, BP!IInv, BP!TypeOK
      <3>2. h = 1 \/ 1 < h
        BY <3>1
      <3>3. h # 1
        BY <1>2, <2>1, <2>5, LogPlaces
      <3>4. BP!Before(forwarded, e, b)
        BY <1>1, <1>2, <2>5, <3>2, <3>3 DEF BP!LogInv, BP!IInv, BP!SubQueueInv
      <3> QED
        BY <2>1, <3>4, LogPlaces
    <2> QED
      BY <2>4, <2>5 DEF M!Has
  <1>6. /\ AllFrom(published[Counter], Sent(Counter), From(Counter))
        /\ NoneTwice(published[Counter], Sent(Counter))
    BY ThePlugins, FromOne DEF Sent
  <1>7. EachIn(From(Counter), received[Producer], Read(Producer))
    BY <1>1, <1>5, ReceivedFacts DEF EachIn, M!Has, Read
  <1>8. Sent(Counter) \in Nat /\ Read(Producer) \in Nat
    BY Counters, ThePlugins
  <1>9. Sent(Counter) <= Read(Producer)
    BY <1>6, <1>7, <1>8, Pigeonhole
  <1> QED
    BY <1>4, <1>8, <1>9, ThePlugins DEF ProducerReads

\* Whatever the plugins' threads and the proxy do, the producer reads the goodbye
\* after all TypeB events: an event is behind its causes, and none is missed.
THEOREM GoodbyeIsLast == ExampleSpec => []GoodbyeComesLast
  <1>1. Init => GoodbyeComesLast
    BY ThePlugins DEF Init, M!InitBus, GoodbyeComesLast
  <1>2. ASSUME BP!LogInv, SocketInv, NoneMissed, LoopInv, GoodbyeComesLast, [ExampleNext]_vars
        PROVE  GoodbyeComesLast'
    <2>1. CASE received'[Producer] = received[Producer]
      BY <1>2, <2>1 DEF GoodbyeComesLast
    <2>2. CASE thread[Producer] = "running" /\ Read(Producer) < ProducerReads /\ M!Receive(Producer)
      <3>1. /\ DOMAIN received'[Producer] = 1..(Read(Producer) + 1)
            /\ \A i \in 1..Read(Producer) : received'[Producer][i] = received[Producer][i]
            /\ received'[Producer][Read(Producer) + 1] = Head(subQ[Producer])
        BY <1>2, <2>2, ThePlugins, ReceiveEffect DEF Read
      <3>2. Read(Producer) \in Nat /\ DOMAIN received[Producer] = 1..Read(Producer)
        BY <1>2, ThePlugins, ReceivedFacts DEF Read
      <3>3. Head(subQ[Producer]).type = "TypeC" => Read(Producer) = Messages
        BY <1>2, <2>2, GoodbyeReceived
      <3>4. \A i \in 1..(Read(Producer) + 1) : i \in 1..Read(Producer) \/ i = Read(Producer) + 1
        BY <3>2
      <3> QED
        BY <1>2, <3>1, <3>2, <3>3, <3>4 DEF GoodbyeComesLast
    <2>3. ASSUME NEW p \in Plugin, Loop(p)
          PROVE  \/ received'[Producer] = received[Producer]
                 \/ thread[Producer] = "running" /\ Read(Producer) < ProducerReads
                      /\ M!Receive(Producer)
      <3>1. ASSUME NEW q \in Plugin, NEW t \in EventType, M!Publish(q, t)
            PROVE  received' = received
        BY <3>1 DEF M!Publish
      <3>2. ASSUME NEW q \in Plugin, q # Producer, M!Receive(q)
            PROVE  received'[Producer] = received[Producer]
        BY <1>2, <3>2, ThePlugins, ReceiveEffect
      <3>3. CASE p = Producer /\ ProducerLoop
        BY <2>3, <3>1, <3>3, ThePlugins, WhenAtRecv DEF ProducerLoop, Loop
      <3>4. CASE p = Counter /\ CounterLoop
        BY <3>1, <3>2, <3>4, ThePlugins DEF CounterLoop, Counter, Producer
      <3>5. CASE p = PyPlugin /\ PyPluginLoop
        BY <3>1, <3>2, <3>5, ThePlugins DEF PyPluginLoop, PyPlugin, Producer
      <3> QED
        BY <2>3, <3>3, <3>4, <3>5 DEF Loop
    <2>4. ASSUME NEW p \in Plugin, Finished(p) /\ Leave(p)
          PROVE  received' = received
      BY <1>2, <2>4, LeaveEffect
    <2>5. CASE \/ MainStep \/ ProxyStep \/ UNCHANGED vars
               \/ \E p \in Plugin : SetUpStep(p)
      BY <1>2, <2>1, <2>5, QuietSteps
    <2> QED
      BY <1>2, <2>1, <2>2, <2>3, <2>4, <2>5 DEF ExampleNext
  <1> QED
    BY <1>1, <1>2, EngineFacts, LoopsCount, PTL DEF ExampleSpec

-----------------------------------------------------------------------------
(* Waiting                                                                 *)

\* Who listens to each plugin's events.
LEMMA Listeners ==
    ASSUME BP!LogInv, LoopInv
    PROVE  /\ AllFrom(published[Producer], Sent(Producer), WantedBy(Counter))
           /\ AllFrom(published[Counter], Sent(Counter), WantedBy(Producer))
           /\ WithPython =>
                 /\ AllFrom(published[PyPlugin], Sent(PyPlugin), WantedBy(Producer))
                 /\ AllFrom(published[Producer], Sent(Producer), WantedBy(PyPlugin))
                 /\ AllFrom(published[Counter], Sent(Counter), WantedBy(PyPlugin))
  <1>1. ASSUME NEW p \in Plugin, NEW i \in 1..Sent(p)
        PROVE  /\ i \in DOMAIN published[p]
               /\ published[p][i] \in BP!Event /\ published[p][i] \in AllPublished
    BY PublishedFacts DEF Sent, AllPublished
  <1>2. ASSUME NEW i \in 1..Sent(Producer)
        PROVE  /\ published[Producer][i] \in WantedBy(Counter)
               /\ WithPython => published[Producer][i] \in WantedBy(PyPlugin)
    BY <1>1, ThePlugins, Interests DEF WantedBy, LoopInv, TypesInv
  <1>3. ASSUME NEW i \in 1..Sent(Counter)
        PROVE  /\ published[Counter][i] \in WantedBy(Producer)
               /\ WithPython => published[Counter][i] \in WantedBy(PyPlugin)
    BY <1>1, ThePlugins, Interests DEF WantedBy, LoopInv, TypesInv
  <1>4. ASSUME WithPython, NEW i \in 1..Sent(PyPlugin)
        PROVE  published[PyPlugin][i] \in WantedBy(Producer)
    BY <1>1, <1>4, ThePlugins, Interests DEF WantedBy, LoopInv, TypesInv
  <1> QED
    BY <1>2, <1>3, <1>4 DEF AllFrom

\* When nothing is under way, a plugin that has missed nothing has read as many events
\* as the two plugins it listens to have sent.
LEMMA ReadFromBoth ==
    ASSUME BP!LogInv, NothingUnderWay, NEW p \in Plugin, ~Missed(p),
           NEW q \in Plugin, NEW r \in Plugin, q # r,
           AllFrom(published[q], Sent(q), WantedBy(p)),
           AllFrom(published[r], Sent(r), WantedBy(p))
    PROVE  Sent(q) + Sent(r) <= Read(p)
  <1>1. /\ NoneTwice(published[q], Sent(q)) /\ NoneTwice(published[r], Sent(r))
        /\ Sent(q) \in Nat /\ Sent(r) \in Nat
    BY FromOne, Counters DEF Sent
  <1>2. \A i \in 1..Sent(q) : \A j \in 1..Sent(r) : published[q][i] # published[r][j]
    <2>1. \A i \in 1..Sent(q) : published[q][i].src = q
      BY PublishedFacts DEF Sent
    <2>2. \A j \in 1..Sent(r) : published[r][j].src = r
      BY PublishedFacts DEF Sent
    <2> QED
      BY <2>1, <2>2
  <1>3. PICK f : AllFrom(f, Sent(q) + Sent(r), WantedBy(p)) /\ NoneTwice(f, Sent(q) + Sent(r))
    BY <1>1, <1>2, TwoLists
  <1>4. Sent(q) + Sent(r) \in Nat
    BY <1>1
  <1> QED
    BY <1>3, <1>4, MustHaveRead DEF Read

\* The example stands still only for the loss of an event, and then a plugin that
\* waits is one that has missed it, for any number of messages.
THEOREM WaitsForTheLost == ExampleSpec => []StuckMeansMissed
  <1>1. ASSUME BP!LogInv, LoopInv, NothingUnderWay,
               \A p \in Plugin : thread[p] = "exited" \/ (thread[p] = "running" /\ AtRecv(p)),
               \A p \in Plugin : thread[p] = "running" => ~Missed(p)
        PROVE  \A p \in Plugin : thread[p] # "running"
    <2>1. \A p \in Plugin : thread[p] = "exited" => Finished(p)
      BY <1>1 DEF LoopInv, ExitInv
    <2>2. ASSUME NEW p \in Plugin, NEW q \in Plugin, thread[q] = "running",
                 AllFrom(published[p], Sent(p), WantedBy(q))
          PROVE  Sent(p) <= Read(q) /\ Read(q) \in Nat
      <3>1. Sent(p) \in Nat /\ NoneTwice(published[p], Sent(p)) /\ ~Missed(q)
        BY <1>1, <2>2, Counters, FromOne DEF Sent
      <3>2. Sent(p) <= Len(received[q])
        BY <1>1, <2>2, <3>1, MustHaveRead
      <3> QED
        BY <1>1, <3>2, Counters DEF Read
    <2>3. Sent(Producer) = Messages
      BY <1>1, <2>1, ThePlugins, WhenAtRecv, WhenFinished
    <2>4. Sent(Counter) = Messages /\ thread[Counter] # "running"
      <3>1. thread[Counter] # "running"
        BY <1>1, <2>2, <2>3, ThePlugins, WhenAtRecv, Listeners
      <3> QED
        BY <1>1, <2>1, <3>1, ThePlugins, WhenFinished
    <2>5. ASSUME WithPython
          PROVE  Sent(PyPlugin) = 1 /\ thread[PyPlugin] # "running"
      <3>1. ASSUME thread[PyPlugin] = "running"
            PROVE  FALSE
        <4>1. PyPlugin \in Plugin /\ Producer # Counter
          BY <2>5, ThePlugins DEF Producer, Counter
        <4>2. Sent(Producer) + Sent(Counter) <= Read(PyPlugin)
          BY <1>1, <2>5, <3>1, <4>1, ThePlugins, Listeners, ReadFromBoth
        <4>3. Read(PyPlugin) < PyPluginReads /\ Read(PyPlugin) \in Nat
          BY <1>1, <3>1, <4>1, WhenAtRecv, Counters
        <4> QED
          BY <2>3, <2>4, <4>2, <4>3, ThePlugins DEF PyPluginReads
      <3> QED
        BY <1>1, <2>1, <2>5, <3>1, ThePlugins, WhenFinished
    <2>6. thread[Producer] # "running"
      <3>1. ASSUME thread[Producer] = "running"
            PROVE  FALSE
        <4>1. Read(Producer) < ProducerReads /\ Read(Producer) \in Nat
          BY <1>1, <3>1, ThePlugins, WhenAtRecv, Counters
        <4>2. CASE ~WithPython
          BY <1>1, <2>2, <2>4, <3>1, <4>1, <4>2, ThePlugins, Listeners DEF ProducerReads
        <4>3. CASE WithPython
          <5>1. PyPlugin \in Plugin /\ Counter # PyPlugin
            BY <4>3, ThePlugins DEF Counter, PyPlugin
          <5>2. Sent(Counter) + Sent(PyPlugin) <= Read(Producer)
            BY <1>1, <3>1, <4>3, <5>1, ThePlugins, Listeners, ReadFromBoth
          <5> QED
            BY <2>4, <2>5, <4>1, <4>3, <5>2, ThePlugins DEF ProducerReads
        <4> QED
          BY <4>2, <4>3
      <3> QED
        BY <3>1
    <2> QED
      BY <2>4, <2>5, <2>6, ThePlugins
  <1>2. BP!LogInv /\ LoopInv => StuckMeansMissed
    BY <1>1 DEF StuckMeansMissed
  <1> QED
    BY <1>2, EngineFacts, LoopsCount, PTL
=============================================================================
