--------------------------- MODULE LoadTestProofs ---------------------------
(* The loops of the load test count as they should, for any configuration. *)
EXTENDS LoadTest, EngineProofs

\* A loop only uses the sockets its start function was given, or panics.
LEMMA LoopIsEngineStep ==
    ASSUME NEW p \in Plugin, Loop(p)
    PROVE  Traffic(p) \/ Leave(p)
  <1>1. InitialMsg \in EventType /\ OperatorMsg \in EventType
    BY LoadTestAssumption
  <1>2. CASE p = Producer /\ ProducerLoop
    BY <1>1, <1>2 DEF Loop, ProducerLoop, Traffic
  <1>3. CASE p = Operator /\ OperatorLoop
    BY <1>1, <1>3 DEF Loop, OperatorLoop, Traffic
  <1>4. CASE p = Accumulator /\ AccumulatorLoop
    BY <1>4 DEF Loop, AccumulatorLoop, Traffic, Leave
  <1> QED
    BY <1>2, <1>3, <1>4 DEF Loop

\* By their definitions the load test's steps are some of Engine's, so that what is
\* proved of Engine holds of it.
LEMMA LoadTestIsEngine == LoadTestSpec => Spec
  <1>1. LoadTestInit => Init
    BY DEF LoadTestInit
  <1>2. ASSUME [LoadTestNext]_loadVars
        PROVE  [Next]_vars
    <2>1. CASE EngineStep
      BY <2>1 DEF EngineStep, Next
    <2>2. ASSUME NEW p \in Plugin, Loop(p)
          PROVE  Next
      BY <2>2, LoopIsEngineStep DEF Next
    <2>3. ASSUME NEW p \in Plugin, Return(p)
          PROVE  Next
      BY <2>3 DEF Return, Leave, Next
    <2>4. CASE UNCHANGED loadVars
      BY <2>4 DEF loadVars
    <2> QED
      BY <1>2, <2>1, <2>2, <2>3, <2>4 DEF LoadTestNext
  <1> QED
    BY <1>1, <1>2, PTL DEF LoadTestSpec, Spec

\* So the barrier, the complete delivery below the high-water mark and the loss of
\* first events only hold of it.
COROLLARY LoadTestTraffic ==
    LoadTestSpec => [](NoTrafficBeforeBarrier /\ NoneMissed /\ OnlyFirstEventsLost)
  BY LoadTestIsEngine, TrafficAfterBarrier, NobodyMisses, OnlyFirstAreLost, PTL

-----------------------------------------------------------------------------
(* The counters of the loops                                               *)

\* The plugins there are, and what the constants are.
LEMMA ThePlugins ==
    /\ Producer \in Plugin /\ Operator \in Plugin /\ Accumulator \in Plugin
    /\ \A p \in Plugin : p = Producer \/ p = Operator \/ p = Accumulator
    /\ Producer # Operator /\ Producer # Accumulator /\ Operator # Accumulator
    /\ InitialMsg \in EventType /\ OperatorMsg \in EventType /\ InitialMsg # OperatorMsg
    /\ NumMessages \in Nat \ {0} /\ MinSize \in Int /\ MaxSize \in Int /\ IntMax \in Nat
  <1>1. Plugin = 1..3
    BY LoadTestAssumption DEF Plugin
  <1>2. NumMessages \in Nat \ {0}
    BY LoadTestAssumption, EngineAssumption
  <1>3. InitialMsg # OperatorMsg
    BY DEF InitialMsg, OperatorMsg
  <1> QED
    BY <1>1, <1>2, <1>3, LoadTestAssumption, SizeAssumption
    DEF Producer, Operator, Accumulator, Int32

\* What each plugin subscribed to.
LEMMA Interests ==
    ASSUME NEW e \in BP!Event
    PROVE  /\ M!Matches(Subscriptions[Operator], e) <=> e.type = InitialMsg
           /\ M!Matches(Subscriptions[Accumulator], e) <=> e.type = OperatorMsg
  <1>1. Subscriptions[Operator] = {InitialMsg} /\ Subscriptions[Accumulator] = {OperatorMsg}
    BY ThePlugins, LoadTestAssumption
    DEF LoadTestSubscriptions, Producer, Operator, Accumulator
  <1>2. \A f : <<f, e.type>> \in Covers <=> f \in EventType /\ f = e.type
    BY LoadTestAssumption
  <1> QED
    BY <1>1, <1>2, ThePlugins DEF M!Matches

\* How many sizes there are.
Round == MaxSize - MinSize + 1

\* The producer goes round the sizes, one for each message.
SizesInv ==
    /\ sizes \in Seq(Int)
    /\ Len(sizes) = Sent(Producer)
    /\ offset = IF MinSize <= MaxSize THEN Len(sizes) % Round ELSE 0
    /\ SizesGoRound

\* Each plugin publishes events of one type.
TypesInv ==
    /\ \A i \in DOMAIN published[Producer] : published[Producer][i].type = InitialMsg
    /\ \A i \in DOMAIN published[Operator] : published[Operator][i].type = OperatorMsg
    /\ published[Accumulator] = <<>>

\* What the loops have counted: the operator answers what it has read.
CountInv ==
    /\ Sent(Producer) <= NumMessages
    /\ Sent(Operator) <= Read(Operator) /\ Read(Operator) <= NumMessages
    /\ Read(Accumulator) <= NumMessages

\* A thread has exited only when its loop was done.
ExitInv == \A p \in Plugin : thread[p] = "exited" => Finished(p)

LoopInv == SizesInv /\ TypesInv /\ CountInv /\ ExitInv

\* The numbers the accumulator has added up.
Counts == [i \in 1..Read(Accumulator) |-> Count(received[Accumulator][i])]

TotalInv == total = Wrap(SumFunctionOnSet(Counts, 1..Read(Accumulator)))

\* The counters are numbers.
LEMMA Counters ==
    ASSUME BP!LogInv, NEW p \in Plugin
    PROVE  Sent(p) \in Nat /\ Read(p) \in Nat
  BY PublishedFacts, ReceivedFacts DEF Sent, Read

\* When each loop is done.
LEMMA WhenFinished ==
    /\ Finished(Producer) => Sent(Producer) = NumMessages
    /\ Finished(Operator) => Sent(Operator) = NumMessages
    /\ Finished(Accumulator) => Read(Accumulator) = NumMessages
  <1>1. Finished(Producer) => Sent(Producer) = NumMessages
    BY ThePlugins, Zenon DEF Finished
  <1>2. Finished(Operator) => Sent(Operator) = NumMessages
    BY ThePlugins, Zenon DEF Finished
  <1>3. Finished(Accumulator) => Read(Accumulator) = NumMessages
    BY ThePlugins, Zenon DEF Finished
  <1> QED
    BY <1>1, <1>2, <1>3

\* When each loop waits for an event; the producer never does.
LEMMA WhenAtRecv ==
    /\ ~AtRecv(Producer)
    /\ AtRecv(Operator) <=> Sent(Operator) = Read(Operator) /\ Read(Operator) < NumMessages
    /\ AtRecv(Accumulator) <=> Read(Accumulator) < NumMessages
  BY DEF AtRecv, Producer, Operator, Accumulator

\* Who publishes what each plugin waits for.
LEMMA Sources ==
    ASSUME BP!LogInv, LoopInv
    PROVE  /\ \A e \in WantedBy(Operator) : e.src = Producer /\ e.num \in 1..Sent(Producer)
           /\ \A e \in WantedBy(Accumulator) : e.src = Operator /\ e.num \in 1..Sent(Operator)
  <1>1. ASSUME NEW e \in AllPublished
        PROVE  /\ e \in BP!Event
               /\ \/ e.src = Producer /\ e.num \in 1..Sent(Producer) /\ e.type = InitialMsg
                  \/ e.src = Operator /\ e.num \in 1..Sent(Operator) /\ e.type = OperatorMsg
    <2>1. e \in BP!Event /\ e.src \in Plugin
      BY DEF AllPublished, BP!Event
    <2>2. e.num \in DOMAIN published[e.src] /\ published[e.src][e.num] = e
      BY <2>1, FromOne
    <2>3. DOMAIN published[e.src] = 1..Sent(e.src)
      BY <2>1, PublishedFacts DEF Sent
    <2>4. e.src # Accumulator
      <3>1. DOMAIN <<>> = {}
        OBVIOUS
      <3> QED
        BY <2>2, <3>1 DEF LoopInv, TypesInv
    <2> QED
      BY <2>1, <2>2, <2>3, <2>4, ThePlugins DEF LoopInv, TypesInv
  <1> QED
    BY <1>1, Interests, ThePlugins DEF WantedBy

\* The offset after a message is that of the next place in the round.
LEMMA OffsetGoesRound ==
    ASSUME NEW n \in Nat,
           offset = IF MinSize <= MaxSize THEN n % Round ELSE 0
    PROVE  /\ offset \in Nat
           /\ NextOffset = IF MinSize <= MaxSize THEN (n + 1) % Round ELSE 0
  <1>1. CASE MinSize <= MaxSize
    <2>1. Round \in Nat \ {0}
      BY <1>1, ThePlugins DEF Round
    <2>2. offset = n % Round
      BY <1>1
    <2>3. offset \in 0..(Round - 1)
      BY <2>1, <2>2, Quotient
    <2>4. (n + 1) % Round = IF offset + 1 = Round THEN 0 ELSE offset + 1
      BY <2>1, <2>2, NextRemainder
    <2>5. NextOffset = IF offset + 1 = Round THEN 0 ELSE offset + 1
      <3>1. offset + 1 > MaxSize - MinSize <=> offset + 1 = Round
        BY <2>1, <2>3, ThePlugins DEF Round
      <3> QED
        BY <3>1 DEF NextOffset
    <2> QED
      BY <1>1, <2>3, <2>4, <2>5
  <1>2. CASE ~(MinSize <= MaxSize)
    BY <1>2, ThePlugins DEF NextOffset
  <1> QED
    BY <1>1, <1>2

\* A message more has the next size of the round.
LEMMA SizeAdded ==
    ASSUME BP!LogInv, SizesInv, sizes' = Append(sizes, MinSize + offset), offset' = NextOffset,
           Len(published'[Producer]) = Len(published[Producer]) + 1
    PROVE  SizesInv' /\ \A i \in DOMAIN sizes : i \in DOMAIN sizes' /\ sizes'[i] = sizes[i]
  <1> DEFINE n == Len(sizes)
  <1>1. sizes \in Seq(Int) /\ n \in Nat /\ DOMAIN sizes = 1..n
    BY DEF SizesInv
  <1>2. offset = IF MinSize <= MaxSize THEN n % Round ELSE 0
    BY DEF SizesInv
  <1>3. offset \in Nat /\ NextOffset = IF MinSize <= MaxSize THEN (n + 1) % Round ELSE 0
    BY <1>1, <1>2, OffsetGoesRound
  <1>4. MinSize + offset \in Int
    BY <1>3, ThePlugins
  <1>5. /\ sizes' \in Seq(Int) /\ Len(sizes') = n + 1
        /\ DOMAIN sizes' = 1..(n + 1)
        /\ \A i \in 1..n : sizes'[i] = sizes[i]
        /\ sizes'[n + 1] = MinSize + offset
    BY <1>1, <1>4, AppendFacts
  <1>6. Len(sizes') = Sent(Producer)'
    BY <1>5 DEF SizesInv, Sent
  <1>7. offset' = IF MinSize <= MaxSize THEN Len(sizes') % Round ELSE 0
    BY <1>3, <1>5
  <1>8. sizes'[n + 1] = IF MinSize <= MaxSize
                          THEN MinSize + (((n + 1) - 1) % Round) ELSE MinSize
    <2>1. (n + 1) - 1 = n
      BY <1>1
    <2> HIDE DEF n
    <2> QED
      BY <1>2, <1>5, <2>1, ThePlugins
  <1>9. \A i \in 1..n : sizes[i] = IF MinSize <= MaxSize
                                     THEN MinSize + ((i - 1) % Round) ELSE MinSize
    BY <1>1 DEF SizesInv, SizesGoRound, Round
  <1>10. \A i \in 1..(n + 1) : i \in 1..n \/ i = n + 1
    BY <1>1
  <1>11. SizesGoRound'
    <2> HIDE DEF n
    <2>1. \A i \in DOMAIN sizes' : sizes'[i] = IF MinSize <= MaxSize
                                     THEN MinSize + ((i - 1) % Round) ELSE MinSize
      BY <1>5, <1>8, <1>9, <1>10
    <2> QED
      BY <2>1 DEF SizesGoRound, Round
  <1>12. \A i \in DOMAIN sizes : i \in DOMAIN sizes' /\ sizes'[i] = sizes[i]
    BY <1>1, <1>5
  <1> QED
    BY <1>5, <1>6, <1>7, <1>11, <1>12 DEF SizesInv

\* Steps that leave the histories alone.
LEMMA QuietLoops ==
    ASSUME LoopInv, UNCHANGED <<published, received, heard>>, UNCHANGED <<offset, sizes>>,
           \A p \in Plugin : thread'[p] = "exited" => thread[p] = "exited" \/ Finished(p)
    PROVE  LoopInv'
  <1>1. SizesInv' /\ TypesInv' /\ CountInv'
    BY DEF LoopInv, SizesInv, SizesGoRound, TypesInv, CountInv, Sent, Read
  <1>2. \A p \in Plugin : Finished(p) => Finished(p)'
    BY DEF Finished, Sent, Read
  <1> QED
    BY <1>1, <1>2 DEF LoopInv, ExitInv

\* A plugin that publishes or receives is not one that has exited.
LEMMA OthersExit ==
    ASSUME LoopInv, NEW p \in Plugin, thread[p] = "running", thread' = thread,
           \A q \in Plugin : q # p => published'[q] = published[q] /\ received'[q] = received[q]
    PROVE  ExitInv'
  <1>1. \A q \in Plugin : thread'[q] = "exited" => q # p /\ Finished(q)
    BY DEF LoopInv, ExitInv
  <1>2. \A q \in Plugin : q # p /\ Finished(q) => Finished(q)'
    BY DEF Finished, Sent, Read
  <1> QED
    BY <1>1, <1>2 DEF ExitInv

\* A step of the producer's loop.
LEMMA ProducerStep ==
    ASSUME BP!LogInv, LoopInv, thread[Producer] = "running", ProducerLoop
    PROVE  /\ LoopInv'
           /\ \A i \in DOMAIN sizes : sizes'[i] = sizes[i]
           /\ UNCHANGED <<received, total>>
  <1>1. /\ Sent(Producer) < NumMessages /\ M!Publish(Producer, InitialMsg)
        /\ sizes' = Append(sizes, MinSize + offset) /\ offset' = NextOffset
        /\ thread' = thread /\ total' = total
    BY DEF ProducerLoop, runVars
  <1>2. /\ Len(published'[Producer]) = Len(published[Producer]) + 1
        /\ \A q \in Plugin : q # Producer => published'[q] = published[q]
        /\ received' = received
    BY <1>1, ThePlugins, PublishEffect
  <1>3. SizesInv' /\ \A i \in DOMAIN sizes : sizes'[i] = sizes[i]
    BY <1>1, <1>2, SizeAdded DEF LoopInv
  <1>4. TypesInv'
    <2>1. \A i \in DOMAIN published'[Producer] : published'[Producer][i].type = InitialMsg
      BY <1>1, ThePlugins, PublishOneType DEF LoopInv, TypesInv
    <2> QED
      BY <1>2, <2>1, ThePlugins DEF LoopInv, TypesInv
  <1>5. CountInv'
    <2>1. Sent(Producer)' <= NumMessages
      BY <1>1, <1>2, Counters, ThePlugins DEF Sent
    <2> QED
      BY <1>2, <2>1, ThePlugins DEF LoopInv, CountInv, Sent, Read
  <1>6. ExitInv'
    BY <1>1, <1>2, OthersExit, ThePlugins
  <1> QED
    BY <1>1, <1>2, <1>3, <1>4, <1>5, <1>6 DEF LoopInv

\* A step of the operator's loop.
LEMMA OperatorStep ==
    ASSUME BP!LogInv, LoopInv, thread[Operator] = "running", OperatorLoop
    PROVE  /\ LoopInv'
           /\ \A i \in DOMAIN received[Operator] : received'[Operator][i] = received[Operator][i]
           /\ received'[Accumulator] = received[Accumulator]
           /\ UNCHANGED <<sizes, total>>
  <1>1. thread' = thread /\ UNCHANGED <<offset, sizes, total>>
    BY DEF OperatorLoop, runVars
  <1>2. CASE Sent(Operator) < Read(Operator) /\ M!Publish(Operator, OperatorMsg)
    <2>1. /\ Len(published'[Operator]) = Len(published[Operator]) + 1
          /\ \A q \in Plugin : q # Operator => published'[q] = published[q]
          /\ received' = received
      BY <1>2, ThePlugins, PublishEffect
    <2>2. TypesInv'
      <3>1. \A i \in DOMAIN published'[Operator] : published'[Operator][i].type = OperatorMsg
        BY <1>2, ThePlugins, PublishOneType DEF LoopInv, TypesInv
      <3> QED
        BY <2>1, <3>1, ThePlugins DEF LoopInv, TypesInv
    <2>3. CountInv'
      <3>1. Sent(Operator)' <= Read(Operator)'
        BY <1>2, <2>1, Counters, ThePlugins DEF Sent, Read
      <3> QED
        BY <2>1, <3>1, ThePlugins DEF LoopInv, CountInv, Sent, Read
    <2>4. ExitInv'
      BY <1>1, <2>1, OthersExit, ThePlugins
    <2>5. SizesInv'
      BY <1>1, <2>1, ThePlugins DEF LoopInv, SizesInv, SizesGoRound, Sent
    <2> QED
      BY <1>1, <2>1, <2>2, <2>3, <2>4, <2>5 DEF LoopInv
  <1>3. CASE Read(Operator) < NumMessages /\ Sent(Operator) = Read(Operator) /\ M!Receive(Operator)
    <2>1. /\ Len(received'[Operator]) = Len(received[Operator]) + 1
          /\ \A i \in 1..Len(received[Operator]) : received'[Operator][i] = received[Operator][i]
          /\ \A q \in Plugin : q # Operator => received'[q] = received[q]
          /\ published' = published
      BY <1>3, ThePlugins, ReceiveEffect
    <2>2. CountInv'
      <3>1. Sent(Operator)' <= Read(Operator)' /\ Read(Operator)' <= NumMessages
        BY <1>3, <2>1, Counters, ThePlugins DEF Sent, Read
      <3> QED
        BY <2>1, <3>1, ThePlugins DEF LoopInv, CountInv, Sent, Read
    <2>3. ExitInv'
      BY <1>1, <2>1, OthersExit, ThePlugins
    <2>4. SizesInv' /\ TypesInv'
      BY <1>1, <2>1 DEF LoopInv, SizesInv, SizesGoRound, TypesInv, Sent
    <2>5. \A i \in DOMAIN received[Operator] : received'[Operator][i] = received[Operator][i]
      BY <2>1, ThePlugins, ReceivedFacts
    <2> QED
      BY <1>1, <2>1, <2>2, <2>3, <2>4, <2>5, ThePlugins DEF LoopInv
  <1> QED
    BY <1>2, <1>3, WhenAtRecv DEF OperatorLoop

\* The accumulator receives a length and adds it.
AddsUp ==
    /\ M!Receive(Accumulator)
    /\ total' = Wrap(total + Count(Head(subQ[Accumulator])))
    /\ UNCHANGED <<runVars, offset, sizes>>

\* A step of the accumulator's loop adds a length or ends the thread.
LEMMA AccumulatorStep ==
    ASSUME BP!LogInv, SocketInv, LoopInv, thread[Accumulator] = "running", AccumulatorLoop
    PROVE  /\ LoopInv'
           /\ \/ AddsUp
              \/ UNCHANGED <<received, sizes, total>>
  <1>1. UNCHANGED <<offset, sizes>> /\ Read(Accumulator) < NumMessages
    BY WhenAtRecv DEF AccumulatorLoop
  <1>2. CASE AddsUp
    <2>1. /\ Len(received'[Accumulator]) = Len(received[Accumulator]) + 1
          /\ \A q \in Plugin : q # Accumulator => received'[q] = received[q]
          /\ published' = published /\ thread' = thread
      BY <1>2, ThePlugins, ReceiveEffect DEF AddsUp, runVars
    <2>2. CountInv'
      <3>1. Read(Accumulator)' <= NumMessages
        BY <1>1, <2>1, Counters, ThePlugins DEF Read
      <3> QED
        BY <2>1, <3>1, ThePlugins DEF LoopInv, CountInv, Sent, Read
    <2>3. ExitInv'
      BY <2>1, OthersExit, ThePlugins
    <2>4. SizesInv' /\ TypesInv'
      BY <1>1, <2>1 DEF LoopInv, SizesInv, SizesGoRound, TypesInv, Sent
    <2> QED
      BY <1>2, <2>2, <2>3, <2>4 DEF LoopInv
  <1>3. CASE A!StartFails(Accumulator) /\ M!Close(Accumulator) /\ UNCHANGED total
    <2>1. Leave(Accumulator)
      BY <1>3 DEF Leave
    <2>2. UNCHANGED <<published, received, heard>>
          /\ \A q \in Plugin : q # Accumulator => thread'[q] = thread[q]
      BY <2>1, ThePlugins, LeaveEffect
    <2>3. thread'[Accumulator] = "panicked"
      BY <1>3, ThePlugins DEF A!StartFails, A!Moves, SocketInv
    <2>4. \A q \in Plugin : thread'[q] = "exited" => thread[q] = "exited"
      BY <2>2, <2>3
    <2> QED
      BY <1>1, <1>3, <2>2, <2>4, QuietLoops
  <1> QED
    BY <1>1, <1>2, <1>3 DEF AccumulatorLoop, AddsUp

\* What is proved of Engine holds of the load test.
LEMMA EngineFacts ==
    LoadTestSpec => [](/\ BP!LogInv /\ SocketInv
                       /\ (main = "ok" => \A p \in Plugin : thread[p] = "exited"))
  BY LoadTestIsEngine, LogFacts, SocketsFollowThreads, OkMeansExited, PTL

\* Steps of the load test other than those of the loops.
LEMMA OtherSteps ==
    ASSUME BP!LogInv, SocketInv, LoopInv, [LoadTestNext]_loadVars,
           \A p \in Plugin : ~Loop(p)
    PROVE  LoopInv' /\ UNCHANGED <<received, sizes, total>>
  <1>1. ASSUME NEW p \in Plugin, Return(p)
        PROVE  LoopInv' /\ UNCHANGED <<received, sizes, total>>
    <2>1. Leave(p) /\ Finished(p) /\ UNCHANGED <<offset, sizes, total>>
      BY <1>1 DEF Return, Leave
    <2>2. /\ UNCHANGED <<published, received, heard>>
          /\ \A q \in Plugin : q # p => thread'[q] = thread[q]
      BY <2>1, LeaveEffect
    <2>3. \A q \in Plugin : thread'[q] = "exited" => thread[q] = "exited" \/ Finished(q)
      BY <2>1, <2>2
    <2> QED
      BY <2>1, <2>2, <2>3, QuietLoops
  <1>2. CASE EngineStep \/ UNCHANGED loadVars
    <2>1. UNCHANGED <<offset, sizes, total>>
      BY <1>2 DEF EngineStep, loadVars
    <2>2. \/ MainStep \/ ProxyStep \/ UNCHANGED vars
          \/ \E p \in Plugin : SetUpStep(p)
      BY <1>2 DEF EngineStep, loadVars
    <2>3. /\ UNCHANGED <<published, received, heard>>
          /\ \A q \in Plugin : thread'[q] = "exited" => thread[q] = "exited"
      BY <2>2, QuietSteps
    <2> QED
      BY <2>1, <2>3, QuietLoops
  <1> QED
    BY <1>1, <1>2 DEF LoadTestNext

\* The loops count as they should.
THEOREM LoopsCount == LoadTestSpec => []LoopInv
  <1>1. ASSUME LoadTestInit
        PROVE  LoopInv
    <2>1. \A p \in Plugin : published[p] = <<>> /\ received[p] = <<>> /\ thread[p] = "unborn"
      BY <1>1, SameSets DEF LoadTestInit, Init, A!InitApp, M!InitBus
    <2>2. \A p \in Plugin : Sent(p) = 0 /\ Read(p) = 0 /\ DOMAIN published[p] = {}
      BY <2>1 DEF Sent, Read
    <2>3. sizes = <<>> /\ Len(sizes) = 0 /\ DOMAIN sizes = {} /\ offset = 0
      BY <1>1 DEF LoadTestInit
    <2>4. MinSize <= MaxSize => 0 % Round = 0
      <3>1. ASSUME MinSize <= MaxSize
            PROVE  0 = Round * 0 + 0 /\ Round \in Nat \ {0} /\ 0 \in 0..(Round - 1)
        BY <3>1, ThePlugins DEF Round
      <3> QED
        BY <3>1, Remainder
    <2>5. SizesInv
      BY <2>2, <2>3, <2>4, ThePlugins DEF SizesInv, SizesGoRound
    <2> QED
      BY <2>1, <2>2, <2>5, ThePlugins DEF LoopInv, TypesInv, CountInv, ExitInv
  <1>2. ASSUME BP!LogInv, SocketInv, LoopInv, [LoadTestNext]_loadVars
        PROVE  LoopInv'
    <2>1. ASSUME NEW p \in Plugin, Loop(p)
          PROVE  LoopInv'
      BY <1>2, <2>1, ProducerStep, OperatorStep, AccumulatorStep DEF Loop
    <2> QED
      BY <1>2, <2>1, OtherSteps
  <1> QED
    BY <1>1, <1>2, EngineFacts, PTL DEF LoadTestSpec

\* The producer goes round the sizes from the smallest to the largest and starts
\* again, for any configuration of them.
THEOREM SizesAreRoundRobin == LoadTestSpec => []SizesGoRound
  <1>1. LoopInv => SizesGoRound
    BY DEF LoopInv, SizesInv
  <1> QED
    BY <1>1, LoopsCount, PTL

\* The length of a message fits an i32, so that the accumulator parses every count and
\* ignores none.
LEMMA CountsFit ==
    ASSUME SizesGoRound, NEW i \in DOMAIN sizes, i \in Nat \ {0}
    PROVE  Length(sizes[i]) \in 0..IntMax
  <1>1. MinSize \in Int /\ MaxSize \in Int /\ IntMax \in Nat
        /\ MinSize <= IntMax /\ MaxSize <= IntMax
    BY LoadTestAssumption, SizeAssumption DEF Int32
  <1>2. sizes[i] \in Int /\ sizes[i] <= IntMax
    <2>1. CASE MinSize <= MaxSize
      <3>1. Round \in Nat \ {0} /\ i - 1 \in Int
        BY <1>1, <2>1 DEF Round
      <3>2. (i - 1) % Round \in 0..(Round - 1)
        BY <3>1, Quotient
      <3>3. sizes[i] = MinSize + ((i - 1) % Round)
        BY <2>1 DEF SizesGoRound, Round
      <3> QED
        BY <1>1, <2>1, <3>2, <3>3 DEF Round
    <2>2. CASE ~(MinSize <= MaxSize)
      BY <1>1, <2>2 DEF SizesGoRound
    <2> QED
      BY <2>1, <2>2
  <1> QED
    BY <1>1, <1>2 DEF Length

-----------------------------------------------------------------------------
(* The total                                                               *)

\* Adding to a number that has been wrapped around is adding to the number.
LEMMA WrapTwice ==
    ASSUME NEW a \in Int, NEW b \in Int
    PROVE  Wrap(a) \in Int /\ Wrap(Wrap(a) + b) = Wrap(a + b)
  <1> DEFINE h == IntMax + 1
             m == 2 * h
             r == (a + h) % m
  <1>1. h \in Nat /\ m \in Nat \ {0} /\ a + h \in Int
    BY ThePlugins
  <1>2. r \in Int /\ r \in 0..(m - 1)
    <2> HIDE DEF h, m
    <2>1. r \in 0..(m - 1)
      BY <1>1, Quotient
    <2> HIDE DEF r
    <2> QED
      BY <1>1, <2>1
  <1>3. (r + b) % m = ((a + h) + b) % m
    BY <1>1, RemainderOfSum
  <1>4. Wrap(a) = r - h
    <2>1. a + IntMax + 1 = a + h
      BY ThePlugins
    <2> QED
      BY <2>1 DEF Wrap
  <1>5. (Wrap(a) + b) + IntMax + 1 = r + b
    <2> HIDE DEF r
    <2> QED
      BY <1>2, <1>4, ThePlugins
  <1>6. (a + b) + IntMax + 1 = (a + h) + b
    BY ThePlugins
  <1>7. Wrap(Wrap(a) + b) = ((r + b) % m) - h
    BY <1>5 DEF Wrap
  <1>8. Wrap(a + b) = (((a + h) + b) % m) - h
    BY <1>6 DEF Wrap
  <1>9. Wrap(a) \in Int
    <2> HIDE DEF r, h
    <2> QED
      BY <1>1, <1>2, <1>4
  <1> QED
    BY <1>3, <1>7, <1>8, <1>9

\* The length of a message the accumulator is told of is a number, and does not
\* change when there are more messages.
LEMMA CountsKept ==
    ASSUME BP!LogInv, LoopInv,
           \A i \in DOMAIN received[Operator] : received'[Operator][i] = received[Operator][i],
           \A i \in DOMAIN sizes : sizes'[i] = sizes[i],
           NEW e \in WantedBy(Accumulator)
    PROVE  Count(e) \in Int /\ Count(e)' = Count(e)
  <1> DEFINE k == received[Operator][e.num].num
  <1>1. e.num \in DOMAIN received[Operator]
    <2>1. e.num \in 1..Sent(Operator)
      BY Sources
    <2>2. Sent(Operator) <= Read(Operator)
      BY DEF LoopInv, CountInv
    <2>3. DOMAIN received[Operator] = 1..Read(Operator)
      BY ReceivedFacts, ThePlugins DEF Read
    <2> QED
      BY <2>1, <2>2, <2>3, Counters, ThePlugins
  <1>2. k \in DOMAIN sizes
    <2>1. received[Operator][e.num] \in WantedBy(Operator)
      BY <1>1, ReceivedFacts, ThePlugins
    <2>2. k \in 1..Sent(Producer)
      BY <2>1, Sources
    <2> QED
      BY <2>2 DEF LoopInv, SizesInv
  <1>3. sizes[k] \in Int
    BY <1>2 DEF LoopInv, SizesInv
  <1>4. received'[Operator][e.num] = received[Operator][e.num] /\ sizes'[k] = sizes[k]
    BY <1>1, <1>2
  <1> QED
    BY <1>3, <1>4 DEF Count, FromBytes, ToBytes, Length, NameLen

\* What the accumulator has added up are numbers.
LEMMA CountsAreNumbers ==
    ASSUME BP!LogInv, LoopInv
    PROVE  /\ Read(Accumulator) \in Nat
           /\ DOMAIN received[Accumulator] = 1..Read(Accumulator)
           /\ \A i \in 1..Read(Accumulator) :
                 /\ received[Accumulator][i] \in WantedBy(Accumulator)
                 /\ Counts[i] = Count(received[Accumulator][i])
  BY ReceivedFacts, ThePlugins DEF Read, Counts

\* Steps in which the accumulator does nothing keep its total.
LEMMA TotalKept ==
    ASSUME BP!LogInv, LoopInv, TotalInv,
           \A i \in DOMAIN received[Operator] : received'[Operator][i] = received[Operator][i],
           \A i \in DOMAIN sizes : sizes'[i] = sizes[i],
           received'[Accumulator] = received[Accumulator], total' = total
    PROVE  TotalInv'
  <1> DEFINE n == Read(Accumulator)
             f == Counts
             h == Counts'
  <1>1. n \in Nat /\ \A i \in 1..n : received[Accumulator][i] \in WantedBy(Accumulator)
    BY CountsAreNumbers
  <1>2. \A i \in 1..n : Count(received[Accumulator][i]) \in Int
                        /\ Count(received[Accumulator][i])' = Count(received[Accumulator][i])
    <2> TAKE i \in 1..n
    <2> DEFINE e == received[Accumulator][i]
    <2>1. e \in WantedBy(Accumulator)
      BY <1>1
    <2> QED
      BY <2>1, CountsKept
  <1>3. Read(Accumulator)' = n
    BY DEF Read
  <1>4. \A i \in 1..n : f[i] \in Int /\ h[i] = f[i]
    BY <1>2, <1>3 DEF Counts
  <1> HIDE DEF n, f, h
  <1>5. SumFunctionOnSet(h, 1..n) = SumFunctionOnSet(f, 1..n)
    BY <1>1, <1>4, SumFacts
  <1>6. total = Wrap(SumFunctionOnSet(f, 1..n))
    BY DEF TotalInv, f, n
  <1>7. total' = Wrap(SumFunctionOnSet(h, 1..n))
    BY <1>5, <1>6
  <1> QED
    BY <1>3, <1>7 DEF TotalInv, h, Wrap

\* A step in which the accumulator adds a length keeps its total.
LEMMA TotalAdded ==
    ASSUME BP!LogInv, LoopInv, TotalInv, AddsUp
    PROVE  TotalInv'
  <1> DEFINE n == Read(Accumulator)
             f == Counts
             h == Counts'
             e == Head(subQ[Accumulator])
  <1>1. n \in Nat /\ \A i \in 1..n : received[Accumulator][i] \in WantedBy(Accumulator)
    BY CountsAreNumbers
  <1>2. /\ Len(received'[Accumulator]) = n + 1
        /\ \A i \in 1..n : received'[Accumulator][i] = received[Accumulator][i]
        /\ received'[Accumulator][n + 1] = e
        /\ 1 \in DOMAIN subQ[Accumulator] /\ e = subQ[Accumulator][1]
        /\ received'[Operator] = received[Operator]
    BY ThePlugins, ReceiveEffect DEF AddsUp, Read
  <1>3. sizes' = sizes /\ total' = Wrap(total + Count(e))
    BY DEF AddsUp
  <1>4. e \in WantedBy(Accumulator)
    BY <1>2, QueuedFacts, ThePlugins
  <1>5. ASSUME NEW d \in WantedBy(Accumulator)
        PROVE  /\ Count(d) \in Int
               /\ FromBytes(ToBytes(Length(sizes'[received'[Operator][d.num].num]))) = Count(d)
    <2>1. Count(d) \in Int
      BY <1>2, <1>3, <1>5, CountsKept
    <2> QED
      BY <1>2, <1>3, <2>1 DEF Count
  <1>6. Read(Accumulator)' = n + 1
    BY <1>2 DEF Read
  <1>7. \A i \in 1..n : f[i] \in Int /\ h[i] = f[i]
    <2> TAKE i \in 1..n
    <2>1. i \in 1..(n + 1)
      BY <1>1
    <2>2. f[i] = Count(received[Accumulator][i])
      BY DEF Counts
    <2>3. h[i] = FromBytes(ToBytes(Length(sizes'[received'[Operator][received'[Accumulator][i].num].num])))
      BY <1>6, <2>1 DEF Counts, Count
    <2> QED
      BY <1>1, <1>2, <1>5, <2>2, <2>3
  <1>8. h[n + 1] = Count(e) /\ Count(e) \in Int
    <2>1. n + 1 \in 1..(n + 1)
      BY <1>1
    <2>2. h[n + 1] = FromBytes(ToBytes(Length(sizes'[received'[Operator][received'[Accumulator][n + 1].num].num])))
      BY <1>6, <2>1 DEF Counts, Count
    <2> QED
      BY <1>2, <1>4, <1>5, <2>2
  <1>9. total = Wrap(SumFunctionOnSet(f, 1..n))
    BY DEF TotalInv
  <1> HIDE DEF n, f, h, e
  <1>10. /\ SumFunctionOnSet(f, 1..n) \in Int
         /\ SumFunctionOnSet(h, 1..(n + 1)) = SumFunctionOnSet(f, 1..n) + h[n + 1]
    BY <1>1, <1>7, <1>8, SumFacts
  <1>11. total' = Wrap(SumFunctionOnSet(h, 1..(n + 1)))
    BY <1>3, <1>8, <1>9, <1>10, WrapTwice
  <1> QED
    BY <1>6, <1>11 DEF TotalInv, h, Wrap

\* The accumulator's total is the sum of what it has been told, wrapped around.
LEMMA TotalHolds == LoadTestSpec => []TotalInv
  <1>1. ASSUME LoadTestInit
        PROVE  TotalInv
    <2>1. received[Accumulator] = <<>> /\ total = 0
      BY <1>1, ThePlugins DEF LoadTestInit, Init, M!InitBus
    <2>2. Read(Accumulator) = 0
      BY <2>1 DEF Read
    <2>3. SumFunctionOnSet(Counts, 1..0) = 0
      <3>1. \A i \in 1..0 : Counts[i] \in Int
        OBVIOUS
      <3> QED
        BY <3>1, SumFacts
    <2>4. Wrap(0) = 0
      <3> DEFINE k == IntMax + 1
      <3>1. /\ k \in Int /\ 2 * k \in Nat \ {0} /\ k \in 0..(2 * k - 1)
            /\ k = (2 * k) * 0 + k
        BY ThePlugins
      <3>2. 0 + IntMax + 1 = k
        BY ThePlugins
      <3> HIDE DEF k
      <3>3. k % (2 * k) = k
        BY <3>1, Remainder
      <3>4. Wrap(0) = (k % (2 * k)) - k
        BY <3>2 DEF Wrap, k
      <3> QED
        BY <3>1, <3>3, <3>4
    <2> QED
      BY <2>1, <2>2, <2>3, <2>4 DEF TotalInv
  <1>2. ASSUME BP!LogInv, SocketInv, LoopInv, TotalInv, [LoadTestNext]_loadVars
        PROVE  TotalInv'
    <2>1. CASE UNCHANGED <<received, sizes, total>>
      BY <1>2, <2>1, TotalKept
    <2>2. CASE thread[Producer] = "running" /\ ProducerLoop
      BY <1>2, <2>2, ProducerStep, TotalKept
    <2>3. CASE thread[Operator] = "running" /\ OperatorLoop
      BY <1>2, <2>3, OperatorStep, TotalKept
    <2>4. CASE thread[Accumulator] = "running" /\ AccumulatorLoop
      BY <1>2, <2>1, <2>4, AccumulatorStep, TotalAdded
    <2>5. CASE \A p \in Plugin : ~Loop(p)
      BY <1>2, <2>1, <2>5, OtherSteps
    <2> QED
      BY <2>2, <2>3, <2>4, <2>5 DEF Loop
  <1> QED
    BY <1>1, <1>2, EngineFacts, LoopsCount, PTL DEF LoadTestSpec

\* A plugin that has received as many events as its only publisher has numbered has
\* received them in the order of their numbers, and so each of them.
LEMMA InOrder ==
    ASSUME BP!LogInv, NEW p \in Plugin, NEW q \in Plugin,
           \A e \in WantedBy(p) : e.src = q /\ e.num \in 1..Read(p)
    PROVE  \A i \in 1..Read(p) : received[p][i].num = i
  <1> DEFINE n == Read(p)
             f == [i \in 1..n |-> received[p][i].num]
  <1>1. n \in Nat /\ DOMAIN received[p] = 1..n
    BY ReceivedFacts DEF Read
  <1>2. \A i \in 1..n : received[p][i].src = q /\ received[p][i].num \in 1..n
    BY <1>1, ReceivedFacts
  <1>3. \A i, j \in 1..n : i < j => received[p][i].num < received[p][j].num
    BY <1>1, <1>2, ReceivedFacts
  <1>4. AllFrom(f, n, 1..n) /\ Rising(f, n)
    BY <1>2, <1>3 DEF AllFrom, Rising
  <1>5. \A i \in 1..n : f[i] = received[p][i].num
    OBVIOUS
  <1> HIDE DEF n, f
  <1>6. \A i \in 1..n : f[i] = i
    BY <1>1, <1>4, IncreasingIsIdentity
  <1> QED
    BY <1>5, <1>6 DEF n

\* When App::run returns Ok, the total is the sum of the lengths of all messages, up
\* to the wrap-around of i32, for any configuration of the load test.
THEOREM TotalIsRight == LoadTestSpec => []TotalIsSum
  <1>1. ASSUME BP!LogInv, LoopInv, TotalInv, main = "ok",
               \A p \in Plugin : thread[p] = "exited"
        PROVE  total = Wrap(SumFunction([i \in DOMAIN sizes |-> Length(sizes[i])]))
    <2> DEFINE n == NumMessages
               f == Counts
               h == [i \in DOMAIN sizes |-> Length(sizes[i])]
    <2>1. /\ Sent(Producer) = n /\ Sent(Operator) = n /\ Read(Operator) = n
          /\ Read(Accumulator) = n
      <3>1. Sent(Producer) = n /\ Sent(Operator) = n /\ Read(Accumulator) = n
        <4>1. \A p \in Plugin : Finished(p)
          BY <1>1 DEF LoopInv, ExitInv
        <4>2. Finished(Producer) /\ Finished(Operator) /\ Finished(Accumulator)
          BY <4>1, ThePlugins
        <4>3. Sent(Producer) = n
          BY <4>2, WhenFinished
        <4>4. Sent(Operator) = n
          BY <4>2, WhenFinished
        <4>5. Read(Accumulator) = n
          BY <4>2, WhenFinished
        <4> QED
          BY <4>3, <4>4, <4>5
      <3>2. Sent(Operator) <= Read(Operator) /\ Read(Operator) <= n
        BY <1>1 DEF LoopInv, CountInv
      <3>3. Read(Operator) \in Nat
        BY <1>1, ThePlugins, Counters
      <3> QED
        BY <3>1, <3>2, <3>3, ThePlugins
    <2>2. /\ \A i \in 1..n : received[Operator][i].num = i
          /\ \A i \in 1..n : received[Accumulator][i].num = i
      <3>1. /\ \A e \in WantedBy(Operator) : e.src = Producer /\ e.num \in 1..Read(Operator)
            /\ \A e \in WantedBy(Accumulator) :
                  e.src = Operator /\ e.num \in 1..Read(Accumulator)
        BY <1>1, <2>1, Sources
      <3>2. \A i \in 1..Read(Operator) : received[Operator][i].num = i
        BY <1>1, <3>1, ThePlugins, InOrder
      <3>3. \A i \in 1..Read(Accumulator) : received[Accumulator][i].num = i
        BY <1>1, <3>1, ThePlugins, InOrder
      <3> QED
        BY <2>1, <3>2, <3>3
    <2>3. DOMAIN sizes = 1..n
      BY <1>1, <2>1, ThePlugins DEF LoopInv, SizesInv
    <2>4. \A i \in 1..n : f[i] = h[i] /\ h[i] \in Int
      <3> TAKE i \in 1..n
      <3>1. sizes[i] \in Int /\ Length(sizes[i]) \in Int
        <4>1. sizes \in Seq(Int) /\ i \in DOMAIN sizes
          BY <1>1, <2>3 DEF LoopInv, SizesInv
        <4>2. sizes[i] \in Int
          BY <4>1
        <4> QED
          BY <4>2 DEF Length
      <3>2. f[i] = FromBytes(ToBytes(Length(sizes[received[Operator][received[Accumulator][i].num].num])))
        BY <2>1 DEF Counts, Count
      <3>3. f[i] = FromBytes(ToBytes(Length(sizes[i])))
        BY <2>2, <3>2
      <3>4. h[i] = Length(sizes[i])
        BY <2>3
      <3> QED
        BY <3>1, <3>3, <3>4 DEF FromBytes, ToBytes, NameLen
    <2>5. SumFunction(h) = SumFunctionOnSet(h, 1..n)
      <3>1. DOMAIN h = 1..n
        BY <2>3
      <3> QED
        BY <3>1 DEF SumFunction
    <2>6. total = Wrap(SumFunctionOnSet(f, 1..n))
      BY <1>1, <2>1 DEF TotalInv
    <2>7. n \in Nat
      BY ThePlugins
    <2> HIDE DEF n, f, h
    <2>8. SumFunctionOnSet(f, 1..n) = SumFunctionOnSet(h, 1..n)
      BY <2>4, <2>7, SumFacts
    <2> QED
      BY <2>5, <2>6, <2>8 DEF h
  <1>2. BP!LogInv /\ LoopInv /\ TotalInv /\ (main = "ok" => \A p \in Plugin : thread[p] = "exited")
           => TotalIsSum
    BY <1>1 DEF TotalIsSum
  <1> QED
    BY <1>2, EngineFacts, LoopsCount, TotalHolds, PTL

-----------------------------------------------------------------------------
(* Waiting                                                                 *)

\* Each message of the producer is for the operator, each answer of the operator for
\* the accumulator.
LEMMA Listeners ==
    ASSUME BP!LogInv, LoopInv
    PROVE  /\ AllFrom(published[Producer], Sent(Producer), WantedBy(Operator))
           /\ AllFrom(published[Operator], Sent(Operator), WantedBy(Accumulator))
  <1>1. ASSUME NEW p \in Plugin, NEW i \in 1..Sent(p)
        PROVE  /\ i \in DOMAIN published[p]
               /\ published[p][i] \in BP!Event /\ published[p][i] \in AllPublished
    BY PublishedFacts DEF Sent, AllPublished
  <1>2. ASSUME NEW i \in 1..Sent(Producer)
        PROVE  published[Producer][i] \in WantedBy(Operator)
    BY <1>1, ThePlugins, Interests DEF WantedBy, LoopInv, TypesInv
  <1>3. ASSUME NEW i \in 1..Sent(Operator)
        PROVE  published[Operator][i] \in WantedBy(Accumulator)
    BY <1>1, ThePlugins, Interests DEF WantedBy, LoopInv, TypesInv
  <1> QED
    BY <1>2, <1>3 DEF AllFrom

\* The load test stands still only for the loss of a message, and then the plugin
\* that waits is one that has missed it, for any number of messages.
THEOREM WaitsForTheLost == LoadTestSpec => []StuckMeansMissed
  <1>1. ASSUME BP!LogInv, LoopInv, NothingUnderWay,
               \A p \in Plugin : thread[p] = "exited" \/ (thread[p] = "running" /\ AtRecv(p)),
               \A p \in Plugin : thread[p] = "running" => ~Missed(p)
        PROVE  \A p \in Plugin : thread[p] # "running"
    <2>1. \A p \in Plugin : thread[p] = "exited" => Finished(p)
      BY <1>1 DEF LoopInv, ExitInv
    <2>2. ASSUME NEW p \in Plugin, NEW q \in Plugin, thread[q] = "running",
                 AllFrom(published[p], Sent(p), WantedBy(q))
          PROVE  Sent(p) <= Read(q) /\ Read(q) \in Nat
      <3>1. Sent(p) \in Nat /\ NoneTwice(published[p], Sent(p)) /\ ~Missed(q)
        BY <1>1, <2>2, Counters, FromOne DEF Sent
      <3>2. Sent(p) <= Len(received[q])
        BY <1>1, <2>2, <3>1, MustHaveRead
      <3> QED
        BY <1>1, <3>2, Counters DEF Read
    <2>3. Sent(Producer) = NumMessages /\ thread[Producer] = "exited"
      BY <1>1, <2>1, ThePlugins, WhenAtRecv, WhenFinished
    <2>4. Sent(Operator) = NumMessages /\ thread[Operator] # "running"
      <3>1. thread[Operator] # "running"
        BY <1>1, <2>2, <2>3, ThePlugins, WhenAtRecv, Listeners
      <3> QED
        BY <1>1, <2>1, <3>1, ThePlugins, WhenFinished
    <2>5. thread[Accumulator] # "running"
      BY <1>1, <2>2, <2>4, ThePlugins, WhenAtRecv, Listeners
    <2> QED
      BY <2>3, <2>4, <2>5, ThePlugins
  <1>2. BP!LogInv /\ LoopInv => StuckMeansMissed
    BY <1>1 DEF StuckMeansMissed
  <1> QED
    BY <1>2, EngineFacts, LoopsCount, PTL
=============================================================================
