------------------------------ MODULE Example ------------------------------
(***************************************************************************)
(* The example application, and the application of the library's own test: *)
(* a producer that sends TypeA events and waits for as many TypeB events,  *)
(* a counter that answers each TypeA with a TypeB, and, in the example     *)
(* only, a Python plugin that says goodbye with a TypeC event when it has  *)
(* seen all the others.                                                    *)
(*                                                                         *)
(* The counters of the plugins' loops are the lengths of the histories of  *)
(* module Broker: each loop counts what it sends and what it receives.     *)
(***************************************************************************)
EXTENDS Engine

CONSTANTS
    Messages,     \* TypeA events sent; 5 in the code
    HeaderCut     \* bytes from_bytes of TypeA removes from the front

Producer == 1
Counter == 2
PyPlugin == 3

\* Length in bytes of "TypeA", and of "This is message 0".
NameLen == 5
MessageLen == 17

WithPython == PyPlugin \in Plugin

ExampleSubscriptions ==
    [p \in Plugin |->
        CASE p = Producer -> IF WithPython THEN {"TypeB", "TypeC"} ELSE {"TypeB"}
          [] p = Counter  -> {"TypeA"}
          [] p = PyPlugin -> {"TypeA", "TypeB"}]

ASSUME ExampleAssumption ==
    /\ NumInternal = 2
    /\ NumExternal \in {0, 1}
    /\ EventType = {"TypeA", "TypeB", "TypeC"}
    /\ Covers = {<<t, t>> : t \in EventType}
    /\ Subscriptions = ExampleSubscriptions
    /\ Messages \in 1..MaxEvents
    /\ HeaderCut \in Nat

\* All events of the example fit in a plugin's queue: 11 at most, of the 1000 that
\* are ZeroMQ's limit.
ASSUME RoomAssumption == 2 * Messages + NumExternal <= SubLimit

Sent(p) == Len(published[p])
Read(p) == Len(received[p])

\* Mutant of ProducerReads: does not wait for the TypeC.
ProducerReadsFewer == Messages

\* What the producer reads in all: a TypeB for each TypeA, then the TypeC.
ProducerReads == IF WithPython THEN Messages + 1 ELSE Messages

\* Mutants of PyPluginReads: total_messages starts at 2, or at 0.
PyPluginReadsFewer == 2 * Messages - 1

PyPluginReadsMore == 2 * Messages + 1

\* total_messages goes from 1 to 11: each TypeA and each TypeB once.
PyPluginReads == 2 * Messages

\* The next thing the loop of p does is to receive, for which it waits without a
\* limit.
AtRecv(p) ==
    \/ p = Producer /\ Sent(p) = Messages /\ Read(p) < ProducerReads
    \/ p = Counter  /\ Sent(p) = Read(p) /\ Read(p) < Messages
    \/ p = PyPlugin /\ Read(p) < PyPluginReads

ProducerLoop ==
    \/ Sent(Producer) < Messages /\ M!Publish(Producer, "TypeA")
    \/ AtRecv(Producer) /\ M!Receive(Producer)

CounterLoop ==
    \/ AtRecv(Counter) /\ M!Receive(Counter)
    \/ Sent(Counter) < Read(Counter) /\ M!Publish(Counter, "TypeB")

\* The thread of the Python plugin as its process drives it.
PyPluginLoop ==
    /\ WithPython
    /\ \/ AtRecv(PyPlugin) /\ M!Receive(PyPlugin)
       \/ /\ Read(PyPlugin) = PyPluginReads
          /\ Sent(PyPlugin) = 0
          /\ M!Publish(PyPlugin, "TypeC")

\* The start function of p has nothing left to do and returns Ok.
Finished(p) ==
    CASE p = Producer -> Sent(p) = Messages /\ Read(p) = ProducerReads
      [] p = Counter  -> Sent(p) = Messages
      [] p = PyPlugin -> Sent(p) = 1

Loop(p) ==
    /\ thread[p] = "running"
    /\ \/ p = Producer /\ ProducerLoop
       \/ p = Counter /\ CounterLoop
       \/ p = PyPlugin /\ PyPluginLoop
    /\ UNCHANGED runVars

ExampleNext ==
    \/ MainStep
    \/ ProxyStep
    \/ \E p \in Plugin : SetUpStep(p) \/ Loop(p) \/ (Finished(p) /\ Leave(p))

\* The plugins' loops run too, and their calls return when there is an event.
ExampleSpec ==
    /\ Init
    /\ [][ExampleNext]_vars
    /\ Fairness
    /\ \A p \in Plugin : WF_vars(Loop(p)) /\ WF_vars(Finished(p) /\ Leave(p))

-----------------------------------------------------------------------------
(* Properties                                                              *)

\* The producer reads the goodbye of the Python plugin after all TypeB events: it
\* would panic on parsing a TypeC as the count of a TypeB.
GoodbyeComesLast ==
    \A i \in DOMAIN received[Producer] :
        received[Producer][i].type = "TypeC" => i = Messages + 1

\* App::run returns Ok only when every event has reached every plugin that
\* subscribed to it: no plugin leaves while it is still to be sent something.
OkMeansComplete ==
    main = "ok" =>
        \A p \in Plugin : \A q \in Plugin : \A i \in DOMAIN published[q] :
            M!Matches(Subscriptions[p], published[q][i])
                => M!Has(received[p], published[q][i])

\* A plugin waits for ever only for its own loss: when all threads that have not exited
\* wait for events and none is under way, one of them has missed an event.
StuckMeansMissed ==
    (/\ \A p \in Plugin : thread[p] = "exited" \/ (thread[p] = "running" /\ AtRecv(p))
     /\ \E p \in Plugin : thread[p] = "running"
     /\ NothingUnderWay)
        => \E p \in Plugin : thread[p] = "running" /\ Missed(p)

\* The application ends, unless some plugin misses an event: its loop then waits
\* for ever.
EndsUnlessMissed == <>(main = "ok" \/ \E p \in Plugin : Missed(p))

\* lib.rs, comment on test_run_app: "basic test that we can register plugins and
\* execute app.run() and that the program terminates".
ProgramTerminates == <>(main = "ok")

\* count of the n-th TypeB event: what from_bytes leaves of the n-th TypeA event
\* the counter received, which to_bytes made of the name and the message.
Count(n) == (NameLen + MessageLen) - HeaderCut

\* lib.rs, comment on CounterPlugin: it "computes the character count in the
\* message".
CountsAreLengths ==
    \A i \in DOMAIN published[Counter] : Count(i) = MessageLen
=============================================================================
