------------------------------ MODULE LoadTest ------------------------------
(***************************************************************************)
(* The load test: a producer sends NumMessages strings of varying size and *)
(* exits, an operator answers each with its length, an accumulator adds    *)
(* the lengths up.  The queues overflow here: the producer never waits.    *)
(*                                                                         *)
(* total_messages_sent and total_messages_read are the lengths of the      *)
(* histories of module Broker.                                             *)
(***************************************************************************)
EXTENDS Engine, Integers, Functions

CONSTANTS
    NumMessages,  \* num_messages of the configuration file
    MinSize,      \* min_message_size
    MaxSize,      \* max_message_size
    IntMax        \* the largest i32

Producer == 1
Operator == 2
Accumulator == 3

InitialMsg == "InitialMsgString"
OperatorMsg == "OperatorMsg"

\* Length of "InitialMsgString" in bytes.
NameLen == 16

LoadTestSubscriptions ==
    [p \in Plugin |-> CASE p = Producer    -> {}
                        [] p = Operator    -> {InitialMsg}
                        [] p = Accumulator -> {OperatorMsg}]

ASSUME LoadTestAssumption ==
    /\ NumInternal = 3
    /\ NumExternal = 0
    /\ EventType = {InitialMsg, OperatorMsg}
    /\ Covers = {<<t, t>> : t \in EventType}
    /\ Subscriptions = LoadTestSubscriptions
    /\ NumMessages \in 1..MaxEvents
    /\ IntMax \in Nat

Int32 == -(IntMax + 1)..IntMax

\* The sizes of the configuration are i32, and so is their difference: a wider span
\* overflows the subtraction in MsgProducerPlugin::start, which is not modelled.
ASSUME SizeAssumption ==
    /\ MinSize \in Int32
    /\ MaxSize \in Int32
    /\ MaxSize - MinSize \in Int32

VARIABLES
    offset,   \* current_size_offset of the producer
    sizes,    \* history: msg_size of each message the producer has sent
    total     \* total_count of the accumulator

loadVars == <<vars, offset, sizes, total>>

Sent(p) == Len(published[p])
Read(p) == Len(received[p])

\* The length of a message of msg_size n: (0..msg_size) may be empty.
Length(n) == IF n > 0 THEN n ELSE 0

\* The bytes to_bytes makes of n characters: the name of the type comes first.
ToBytes(n) == NameLen + n

\* Mutant of FromBytes: leaves one byte of the name.
FromBytesShort(b) == b - NameLen + 1

\* The characters from_bytes makes of b bytes.
FromBytes(b) == b - NameLen

\* i32 addition as a release build does it.
Wrap(n) == ((n + IntMax + 1) % (2 * (IntMax + 1))) - (IntMax + 1)

LoadTestInit ==
    /\ Init
    /\ offset = 0
    /\ sizes = <<>>
    /\ total = 0

\* Mutant of NextOffset: starts again before the maximum.
NextOffsetEarly == IF offset + 1 >= MaxSize - MinSize THEN 0 ELSE offset + 1

NextOffset == IF offset + 1 > MaxSize - MinSize THEN 0 ELSE offset + 1

ProducerLoop ==
    /\ Sent(Producer) < NumMessages
    /\ M!Publish(Producer, InitialMsg)
    /\ sizes' = Append(sizes, MinSize + offset)
    /\ offset' = NextOffset
    /\ UNCHANGED <<runVars, total>>

\* Mutant of AtRecv: the accumulator reads one message more.
AtRecvLate(p) ==
    \/ p = Operator /\ Sent(p) = Read(p) /\ Read(p) < NumMessages
    \/ p = Accumulator /\ Read(p) <= NumMessages

\* The next thing the loop of p does is to receive, for which it waits without a
\* limit.
AtRecv(p) ==
    \/ p = Operator /\ Sent(p) = Read(p) /\ Read(p) < NumMessages
    \/ p = Accumulator /\ Read(p) < NumMessages

OperatorLoop ==
    /\ \/ AtRecv(Operator) /\ M!Receive(Operator)
       \/ Sent(Operator) < Read(Operator) /\ M!Publish(Operator, OperatorMsg)
    /\ UNCHANGED <<runVars, offset, sizes, total>>

\* count of an OperatorMsg: the length of the message it answers, which is the one
\* the operator received at that place.  The length fits an i32 (CountsFit in module
\* LoadTestProofs): parse::<i32> succeeds, and no message is ignored.
Count(e) == FromBytes(ToBytes(Length(sizes[received[Operator][e.num].num])))

\* total_count += count_int.  On overflow a debug build panics, a release build
\* wraps around.
AccumulatorLoop ==
    /\ AtRecv(Accumulator)
    /\ subQ[Accumulator] # <<>>
    /\ LET sum == total + Count(Head(subQ[Accumulator]))
       IN  \/ /\ total' = Wrap(sum)
              /\ M!Receive(Accumulator)
              /\ UNCHANGED runVars
           \/ /\ sum > IntMax
              /\ A!StartFails(Accumulator)
              /\ M!Close(Accumulator)
              /\ UNCHANGED total
    /\ UNCHANGED <<offset, sizes>>

\* Mutant of Finished: the loops read one message more.
FinishedLate(p) ==
    CASE p = Producer    -> Sent(p) = NumMessages
      [] p = Operator    -> Sent(p) = NumMessages
      [] p = Accumulator -> Read(p) > NumMessages

Finished(p) ==
    CASE p = Producer    -> Sent(p) = NumMessages
      [] p = Operator    -> Sent(p) = NumMessages
      [] p = Accumulator -> Read(p) = NumMessages

Loop(p) ==
    /\ thread[p] = "running"
    /\ \/ p = Producer /\ ProducerLoop
       \/ p = Operator /\ OperatorLoop
       \/ p = Accumulator /\ AccumulatorLoop

Return(p) ==
    /\ Finished(p)
    /\ A!Exit(p)
    /\ M!Close(p)
    /\ UNCHANGED <<offset, sizes, total>>

\* get_subscriptions and get_filter of these plugins always succeed.
EngineStep ==
    /\ \/ MainStep
       \/ ProxyStep
       \/ \E p \in Plugin : SetUpStep(p) /\ thread'[p] # "crashed"
    /\ UNCHANGED <<offset, sizes, total>>

LoadTestNext == EngineStep \/ \E p \in Plugin : Loop(p) \/ Return(p)

LoadTestSpec ==
    /\ LoadTestInit
    /\ [][LoadTestNext]_loadVars
    /\ WF_loadVars(EngineStep)
    /\ \A p \in Plugin : WF_loadVars(Loop(p)) /\ WF_loadVars(Return(p))

-----------------------------------------------------------------------------
(* Properties                                                              *)

\* Comment in MsgProducerPlugin::start: "we round-robin between the minimum and
\* maximum sizes, incrementing by one for each message until we hit the max, then
\* we start back over at the minimum".
SizesGoRound ==
    \A i \in DOMAIN sizes :
        sizes[i] = IF MinSize <= MaxSize
                     THEN MinSize + ((i - 1) % (MaxSize - MinSize + 1))
                     ELSE MinSize

\* When App::run returns Ok, the total the accumulator has printed is the sum of the
\* lengths of all messages, up to the wrap-around of i32.
TotalIsSum ==
    main = "ok" =>
        total = Wrap(SumFunction([i \in DOMAIN sizes |-> Length(sizes[i])]))

\* A plugin waits for ever only for its own loss: when all threads that have not exited
\* wait for messages and none is under way, one of them has missed a message.
StuckMeansMissed ==
    (/\ \A p \in Plugin : thread[p] = "exited" \/ (thread[p] = "running" /\ AtRecv(p))
     /\ \E p \in Plugin : thread[p] = "running"
     /\ NothingUnderWay)
        => \E p \in Plugin : thread[p] = "running" /\ Missed(p)

\* The load test ends, unless some plugin misses an event: a full queue has dropped
\* it or its publisher's socket has, and the loop that counts it waits for ever.
EndsUnlessMissed == <>(main \in A!Ended \/ \E p \in Plugin : Missed(p))

\* Whatever reached the queue of a plugin is taken by the proxy in the end, even
\* though the producer exits when it has sent its last message.
TakenInTheEnd ==
    \A p \in Plugin : \A n \in 1..MaxEvents :
        (\E i \in DOMAIN pubQ[p] : pubQ[p][i].num = n)
            ~> (\E i \in DOMAIN forwarded : forwarded[i].src = p /\ forwarded[i].num = n)
=============================================================================
