# Verification of event-engine

Event-engine is a Rust library for applications made of *plugins* that exchange
typed *events*.  An application registers plugins with an `App` and calls
`App::run`, which binds two pairs of ZeroMQ sockets, starts a proxy thread
between them, starts one thread per plugin, synchronises all of them with a
REQ/REP handshake, and joins the plugin threads.  An *external* plugin is a
process in any language: its thread in the engine serves it over a REP socket.

This directory holds TLA+ modules that model that code, TLC configurations that
check them, and proofs for TLAPS.  Paths are relative to the repository;
`lib.rs` is `event-engine/src/lib.rs`.

## Inventory

| Component | State | Operations | Interacts through |
|---|---|---|---|
| `App` (lib.rs 58-574) | plugins, configuration, sockets, thread handles | `run`: bind, proxy, start, sync, join | zmq sockets, thread spawn and join |
| plugin threads (lib.rs 142-408) | PUB, SUB, REQ socket; for external plugins a REP socket on a TCP port | set-up, `ready`, wait for reply, `start` | inproc sockets |
| proxy thread (lib.rs 534-537) | incoming SUB and outgoing PUB socket | `zmq::proxy` | all plugins' PUB and SUB sockets |
| `Plugin`, `EventType`, `Event` (plugins.rs, events.rs) | - | `start`, `get_subscriptions`, `get_filter`, `send` | called by threads |
| `ExternalPlugin::start` (plugins.rs 42-107) | the dialogue with one client process | next event, publish, quit | REQ/REP over TCP |
| pyevents (pyevents/pyevents/events.py) | the client's REQ socket | `get_next_msg`, `publish_msg`, `send_quit_command` | REQ/REP over TCP |
| example (example/) and the application of `test_run_app` (lib.rs 591-825) | a producer and a counter in Rust, a Python plugin; their loop counters | send and receive a fixed number of events | events |
| load test (load-test/) | producer, operator, accumulator; size offset, total | send, measure, add up | events |
| event codecs (`to_bytes`, `from_bytes`) | - | put a type name in front of a payload, take it off | called by the plugins above |

What is hard about it:

* **Concurrency.** Plugin threads, the main thread and the proxy thread run in
  any order; the barrier of `sync_plugins` is all that orders them.
* **Failure.** In a plugin thread every error is an `unwrap()`: the thread dies
  and nobody is told until its handle is joined, which may be never.
* **Ordering.** Connections and subscriptions travel asynchronously.  A PUB
  socket drops what nobody is known to want; a full queue drops silently.
* **Timeouts.** Only the Python client has one, and its REQ socket is unusable
  after it.

What makes each component correct: nothing starts before everything is set up;
`run`'s result is honest; ports are exclusive; the events the proxy takes form
one log which every subscriber reads forwards; no event that was kept is lost
by the order of start-up or exit.  `PROJECT.json` lists each hazard with its line.

## Modules

| Module | What it is |
|---|---|
| `Barrier` | abstract: parties arrive; none is released before all have arrived |
| `App` | `App::run` and the life of each plugin thread; refines `Barrier` |
| `EventLog` | abstract: one log, each reader reads it forwards and may skip |
| `Broker` | sockets and proxy; refines `EventLog` |
| `Engine` | `App` and `Broker` together, sharing the proxy thread; refines both |
| `ExternalPlugin` | the thread of an external plugin and the process it serves; refines `EventLog` |
| `Example` | the example application and the test application: `Engine` with their loops |
| `LoadTest` | the load test: `Engine` with its loops |
| `AppProofs`, `BrokerProofs`, `EngineProofs`, `ExternalPluginProofs`, `ExampleProofs`, `LoadTestProofs` | theorems about the module of that name |
| `SequenceLemmas` | facts about `Append`, `Tail` and `SubSeq` that several proofs cite |
| `CountingLemmas` | facts about counting, remainders and sums that the proofs of the applications cite |
| `MCApp`, `MCBroker`, `MCEngine`, `MCExample`, `MCLoadTest` | instances for TLC; `ExternalPlugin` needs none, its constants are numbers |

Operators introduced by "Mutant of" are wrong versions of the next definition.
They are part of no specification.  Each property of a passing run names one in
`PROJECT.json`; putting it in place of the right version breaks that property.

### App

`main` is where `run` is, `next` its loop index; `thread[p]` is where the thread
of plugin p is.  Plugins are numbered in the order `run` treats them: internal
ones, then external ones.

| State of a thread | Code |
|---|---|
| `unborn` -> `spawned` | `Builder::spawn` in `start_plugin`, `start_external_plugin` |
| -> `bound` (external only) | REP socket bound to its TCP port (lib.rs 293-304) |
| -> `publisher` | PUB socket connected |
| -> `subscribed` | SUB socket connected, all filters set |
| -> `waiting` | REQ socket connected, `ready` sent |
| -> `running` | reply received, `start` called |
| -> `exited`, `panicked` | `start` returned Ok; returned an error or panicked |
| `crashed` | an `unwrap()` failed before `ready` |

The main thread has one action per step of `run`: `BindOutgoing`,
`BindIncoming`, `SpawnProxy`, `SpawnPlugin`, `SyncReceive`, `SyncBindFails`,
`SyncReply`, `JoinPlugin` and the steps between its loops.  `SyncReceive` binds
the socket for the id of plugin `next` and takes the `ready` of *any* plugin
with that id, since the URL is made of the id alone.  The reply loop pops its
sockets, so it goes backwards.

Not modelled here: failures of zmq calls other than binds that find the address
in use, and the inproc URLs of the two engine sockets, which are free in a new
context.  Of `EngineError` only the variants that `run` can return are there, an operator
each.  Dead code paths (`EngineSyncSocketPopError`) have no action.

### Broker

A plugin's PUB socket goes `none`, `connected`, `live`, `closed`.  It is `live`
once it has read the subscription of the engine's incoming socket; what it
publishes before is dropped, as ZeroMQ does.  `applied[p]` are the filters of p
that the outgoing socket has read; `pubQ[p]` and `subQ[p]` are the queues
between p and the proxy.  The proxy thread polls, and a poll that wakes up has
read all pending subscriptions before it forwards; it may then forward any
number of events before it polls again, which covers old and new versions of
libzmq.  Each event is taken from the head of one queue and copied once to
every plugin with a matching filter and room in its queue.

`published`, `forwarded`, `received` and `heard` are history variables.  They
restrict no step except through the bound `MaxEvents`.  Payloads are left out;
an event is who published it, its number and its type.  `Covers` says which
filter is a prefix of the events of which type.

### Engine

Each step of a plugin thread that opens or drops sockets is a joint step of
`App` and `Broker`; `Publish` and `Receive` need a `running` thread; the proxy
steps are those of `Broker`.  `ready` and its reply do not touch `Broker`.

### ExternalPlugin

The dialogue behind one external plugin.  `thread` is the loop of
`ExternalPlugin::start`: `receiving` on its REP socket, `fetching` from its
subscription queue, `exited`.  `process` is what the client is doing: each call
of pyevents is one action for the call and one for its return, because the
thread, a timeout or a crash comes between.  `requests` holds what is on its way
to the thread, `reply` what has reached the client's socket.

* `requests` is a set.  Each process has a connection of its own, with one request
  under way at most; a REP socket queues fairly over its connections, so it may take
  the request of a live process before those of its dead predecessors (`Takes`).

* A REQ socket refuses to send until it has its reply.  After a timeout of
  `get_next_msg` it never reads one, so the process is `broken`: all it can do
  is end, and its `send_quit_command` raises an exception.
* When a process dies, a request it has sent may still reach the thread; the
  reply is dropped by ZeroMQ.  The next process has a new socket and number.
* `is_ascii` implies valid UTF-8, so the "bad msg" branch (plugins.rs 62-70) has
  no action.  Payloads that read as a command are left out (README.md 84-85).

The thread's traffic is seen by `Engine` as `Receive` and `Publish` of any
plugin; the two modules are not composed, because nothing of the dialogue but
its order reaches the bus.

### Example

`Example` extends `Engine` and replaces "publishes and receives as it likes" by
the loops of the three plugins.  A loop's counter is the length of a history of
`Broker`: `Sent(p)` is `total_messages_sent`, `Read(p)` `total_messages_read`.
With `NumExternal = 0` the module is the application of `test_run_app`, which
has the same producer and counter, less the goodbye.  Each `recv` or `send` is a step
of its own; a loop whose `recv` has nothing waits without a limit (`AtRecv`).  `Count` is
what `to_bytes` and `from_bytes` make of the length of a message; `HeaderCut` is
how many bytes `from_bytes` removes, 5 in the example and 4 in the test.  The
0.3 seconds the Python plugin sleeps before its goodbye guarantee nothing and
are not assumed; `GoodbyeComesLast` holds without them.

### LoadTest

The producer, operator and accumulator, in the same way, with the parameters of
`config.rs` as constants.  `offset` is `current_size_offset`, `total` is
`total_count`; `sizes` is a history.  Here queues do overflow: the producer
neither waits nor is told.  `total_count` is an `i32`; on overflow the addition
panics in a debug build and wraps around in a release build, and the model
allows both.  A negative `msg_size` makes an empty message.  The sizes of the
configuration and their difference are taken to fit an `i32` (`SizeAssumption`):
`max - min` of a wider span overflows in main.rs 102, which is not modelled.  So the
length of a message fits an `i32` (lemma `CountsFit`), its `parse` by the accumulator
always succeeds, and the branch that ignores a message (main.rs 243-248) is never
taken.  `OperatorMsg`'s codec puts its name before the digits and takes it off again.

## Runs

| Run | Question | Result |
|---|---|---|
| `app_faulty` | does the barrier hold, does it open if nobody died, and is the result honest, if any plugin or spawn may fail and any port may be taken? | holds |
| `app_misconfigured` | two plugins with one id: does `run` fail before anything starts? ports that clash: is one ever shared? | holds |
| `app_bind_error` | does the error name the port that is taken (errors.rs 18)? | violated |
| `broker_free` | order and causality, for plugins that do as they like | holds |
| `engine_traffic` | what the barrier guarantees to events | holds |
| `engine_readme` | "no plugin misses initial messages" (README.md 126-127) | violated |
| `external_pyevents` | processes that time out, die and restart: do replies fit calls, is anything published or seen twice, or published ahead of what was confirmed before it was called for, what is lost, are calls answered and quits obeyed? | holds |
| `external_quit` | does the thread end with its plugin (README.md 93-94)? | violated |
| `example_app` | does the goodbye come last, does Ok mean that nobody missed anything, can the plugins end up waiting for one another, does the application end? | holds: it stands still, or does not end, *only if an event was lost* |
| `test_terminates` | "the program terminates" (lib.rs 809) | violated |
| `test_counts` | the counter "computes the character count in the message" (lib.rs 750) | violated |
| `load_test` | sizes, total, waiting, end, and what becomes of a full queue whose publisher exits | holds: it stands still, or does not end, *only if an event was lost* |

The five violated ones:

* `BindErrorNamesPort`: `get_incoming_socket` puts `subscribe_port` in the error
  for the publish port (lib.rs 118).
* `NoInitialMessageMissed`: the barrier makes sure that every plugin has
  *subscribed* (`NoneMissed`), but not that every publisher's connection has
  been handled by the proxy.  The first event of a plugin may be dropped by its
  own socket.  What does hold is `OnlyFirstEventsLost`: once an event is kept,
  so are the later ones.

* `ThreadEndsWithPlugin`: a process whose `get_next_msg` timed out cannot send
  quit, so its thread, and `App::run` which joins it, wait for ever.
* `ProgramTerminates`: the loss of a first event again, and what it does to a
  plugin that counts.  The run has the test's own five messages and queues that
  cannot overflow.
* `CountsAreLengths`: `from_bytes` of the test's `TypeAEvent` removes four bytes
  of the five-byte name (lib.rs 625), so that each count is one too high.  The
  example's own copy of that function (main.rs 49) removes five.

One comment is out of date without a run that says so: lib.rs 417 says that
`sync_plugins` does not sync external plugins; it appends their ids (426-429) and
waits for them like the others, and `StartBarrier` holds for them too.

`EndsUnlessMissed` is the other side of `ProgramTerminates`: under fair threads
the *only* reason why the example, or the load test, does not end is that some
plugin has missed an event it subscribed to.  `Missed` says so in terms of the
sockets and queues: the event is neither queued for the plugin, nor on its way
to the proxy, nor received.

`StuckMeansMissed` is what of that needs no fairness: when every thread that has
not exited is in `recv` and nothing is under way, one of *those that wait* has
missed an event.  The producer waits for the counter and the Python plugin, the
counter for the producer, the Python plugin for both; the ring closes if any two
loops disagree on a count.

Order across restarts, in `external_pyevents`: `publish_msg` promises that its event
is published when it returns, and no more.  An event whose process died in the call
may be published late, after events of a successor.  `PublishedAsConfirmed` says that
this is all: a later call never comes before an event that was confirmed, and no
event is published twice.

What restarts cost: a thread that
fetches for a process that is gone swallows one event (`OneLossPerProcess`), and
until that event comes it neither answers the next process nor sees its quit.
`AnsweredInTheEnd` and `QuitsInTheEnd` therefore have the number of events as a
premise; for the first process `QuitsInTheEnd` is unconditional.

### Bounds

* Two internal and two external plugins (`app_faulty`), or one and
  three (`app_misconfigured`): both kinds, both before and after one another in the
  order of the handshake and of the joins.  Two clashing external ports and one
  clash with the engine need three external plugins.
* `BusyPorts`: each subset of the two engine ports and the first external port
  may be held by another process from the start.
* Two plugins, two events each, queues of one event in `Broker`: full queues,
  dropped events and a reply to an event all occur.  The filter of one type is
  a prefix of the other and one plugin has both.
* `Engine` has queues as long as the events of one plugin, so that what is lost
  there is lost through ordering alone; `NoneMissed` and `OnlyFirstEventsLost`
  also say so in their premises.
* Three processes one after the other, three events in, two out: two requests of
  dead processes can wait with a live one's, in any order, with events left for all.
* The violated runs of `Example` have the code's five messages; the passing run
  has three, because with the Python plugin the five have too many
  interleavings.  Three are enough for the producer to be ahead of the counter,
  and the counter of the Python plugin, by more than one event.  Queues hold ten
  events and never overflow, as with ZeroMQ's limit of 1000.
* `LoadTest` has three messages with queues of two and one, so that both kinds
  of queue overflow; two sizes, so that the sizes start again; and an `IntMax` of
  3, so that the sum of the lengths (1 + 2 + 1) is one too large.
* `MaxEvents`, `MaxProcesses`, `MaxArrivals` and `MaxPublished` are bounds of the
  model; nothing in the code corresponds to them.

### Fairness

The operating system runs every thread: weak fairness of each step of `run`, of
what the engine does in each plugin thread, and, in `Engine`, of the proxy
thread as a whole (`ProxyStep`), which takes whatever there is to take in the
end.  `FairSpec` of `App` and `Fairness` of `Engine` assume nothing of `start`
functions; they may run for ever.  `Example` and `LoadTest` know theirs, and add
weak fairness of each loop and of each return: a `recv` with an event there
returns, a `send` never blocks.

`FairSpec` of `ExternalPlugin`: the thread runs, and a call whose reply has come
returns.  Events need not arrive, and the process need not go on.

Weak fairness of the proxy says what a living process does: the proxy thread is
a part of the process, and what it has not forwarded when the process ends after
`run` returned goes with it.  No property says otherwise.

Deadlock is not checked as such: in each of these systems something may wait for
ever, by design or by a fault that the run is about.  A dead plugin thread makes
`sync_plugins` wait, all plugins of `Broker` may exit, and a counting loop waits
for a lost event.  `StuckMeansMissed` says when the applications may stand still.
What must not wait for ever is stated as liveness:
`BarrierOpens` and `RunEndsAfterPlugins` for start-up and the end, `EndsUnlessMissed`
for the applications, `AnsweredInTheEnd` and `QuitsInTheEnd` for the dialogue.

## Proofs

All theorems hold for any number of plugins, processes, events and queue
lengths, and any ids, ports, filters and faults, that satisfy the assumption
named in the module (`AppAssumption`, `BrokerAssumption`, `EngineAssumption`,
`ExternalPluginAssumption`, `ExampleAssumption`, `LoadTestAssumption` with
`SizeAssumption`).  One
theorem needs one more: `GoodbyeIsLast` cites `RoomAssumption`, that the events of
the example fit in a plugin's queue.  There are eleven, and ZeroMQ keeps 1000.
Without it the goodbye might reach the producer in the place of a lost answer.

| Module | Theorem | Property |
|---|---|---|
| `AppProofs` | `TypeCorrect` | `TypeOK` |
| | `BarrierHolds` | `StartBarrier` |
| | `CrashIsNeverPassed` | `CrashShutsBarrier` |
| | `RepliesAreAskedFor` | `ReplyMeetsRequest` |
| | `OkIsHonest` | `OkMeansAllExited` |
| | `ErrIsEarly` | `ErrMeansNoneStarted` |
| | `PortsStayExclusive` | `PortsAreExclusive` |
| | `RefinesBarrier` | `ImplementsBarrier` |
| `BrokerProofs` | `TypeCorrect` | `TypeOK` |
| | `PublishersAreInOrder` | `PublisherOrder` |
| | `CausesComeFirst` | `CausalOrder` |
| | `RefinesLog` | `ImplementsLog` |
| | `OnlyFirstAreLost` | the invariant behind `OnlyFirstEventsLost` |
| | `DeliveryIsFaithful` | the invariant the proofs about the applications rest on |
| `EngineProofs` | `ImplementsApp` | every behaviour of `Engine` is one of `App` |
| | `ImplementsBroker` | every behaviour of `Engine` is one of `Broker` |
| | `TrafficAfterBarrier` | `NoTrafficBeforeBarrier` |
| | `NobodyMisses` | `NoneMissed` |
| | `OnlyFirstAreLost` | `OnlyFirstEventsLost` |
| `ExternalPluginProofs` | `TypeCorrect` | `TypeOK` |
| | `AnswersFitCalls` | `ReplyFitsCall` |
| | `PublishedOnce` | `PublishedAsConfirmed` |
| | `OneLossEach` | `OneLossPerProcess` |
| | `RefinesLog` | `ImplementsLog` |
| `ExampleProofs` | `LoopsCount` | the invariant of the loops |
| | `OkIsComplete` | `OkMeansComplete` |
| | `GoodbyeIsLast` | `GoodbyeComesLast` |
| | `WaitsForTheLost` | `StuckMeansMissed` |
| `LoadTestProofs` | `LoopsCount` | the invariant of the loops |
| | `SizesAreRoundRobin` | `SizesGoRound` |
| | `TotalIsRight` | `TotalIsSum` |
| | `WaitsForTheLost` | `StuckMeansMissed` |

**App.**  The inductive invariant `IInv` adds to the types: the loop index is in
range for its loop; threads whose turn has not come are unborn (`SpawnInv`); in
the receive loop nobody has been answered, the ids handled are distinct and a
plugin of each is waiting (`ReceiveInv`); in the reply loop exactly the plugins
behind the index have been answered (`ReplyInv`); an answer means that all were
heard and a start means an answer (`BarrierInv`); joined threads have exited
(`JoinInv`).  `ReceiveInv` is the point: `SyncReceive` hears *some* plugin with
the right id, so `synced` is known to hold all plugins only at the end of the
loop, when no two ids can be equal (lemma `AllHeard`).  `PortInv` adds that the
engine's ports stay bound from the spawn of the first plugin on; without it, an
external plugin's release of its own port might release an engine port.

**Broker.**  `OrderInv` ties the histories together: a plugin's n-th event has
number n, its queue is sorted and later than what the proxy took from it, and
the log has only published events.  `SubQueueInv` says that what a plugin has
received and what is queued for it occur in the log in that order.  With it
`Receive` is a step of `EventLog`.  `CausesInv` is `CausalOrder` made inductive:
whatever the publisher of a logged event had heard is in the log *before* that
event, because it could only hear it through the log.

**Engine.**  `ImplementsApp` and `ImplementsBroker` are step simulations: `App`
sees only whether the proxy exists, `Broker` sees plugins that use their sockets
as they like.  Every theorem about the parts then holds of the whole, for the
modules are instantiated with their proofs.  `SocketInv` says what each state of
a thread means for its sockets; with the barrier it gives
`NoTrafficBeforeBarrier`.  `NoneMissed` needs `BurstInv`: once there is traffic,
every plugin has subscribed, so the poll that first wakes up has read all
subscriptions, and no later forward can find one missing.  That argument is
where the barrier and the way the proxy polls meet.

**ExternalPlugin.**  Each process has at most one request under way, at the socket
or being served (`QueueInv`), of the kind its state says (`CallInv`); a reply that
has not been read is the answer to the last call, and the process has no request
under way then (`ReplyInv`).  `OutboxInv` says that an event is either at the socket or
published, and only once, so that an event which comes late cannot have been confirmed:
its process died in the call.  `InboxInv` orders the events coming in.  `LossInv` counts
the events lost by the processes that are `Settled`: gone, with no request under way.
Each event lost settles a process, and none is settled twice, whichever request is
read first.

**Example, LoadTest.**  These are `Engine` with its plugins' traffic restricted to the
loops of the code, so that by their definitions they imply its specification.  The
lemmas `ExampleIsEngine` and `LoadTestIsEngine` say so, and are there only to carry
`Engine`'s theorems over; corollaries restate three of its properties.  What the loops
count is proved on top of that.

* `LoopInv` is the invariant of the loops: each plugin publishes one type, no
  counter passes its limit, a plugin that answers has answered no more than it has
  read, and a thread has exited only when its loop was done.  Alone it says
  nothing about where the events are.  That is in `LogInv` of `BrokerProofs`
  (`DeliveryIsFaithful`): an event in a queue or in a history of `received` is one
  that was published, is in the log, and was subscribed to.
* `OkIsComplete` is an argument of places.  A plugin receives distinct events, all
  from the set of events for it, and that set has as many elements as its
  publishers have sent.  When it has read as many, it has read them all
  (`Pigeonhole`, `AllReceived`).  Queues may overflow; then nobody exits.
* `GoodbyeIsLast` joins three theorems.  The Python plugin had received all answers
  when it said goodbye, so by `CausesComeFirst` they are ahead of it in the log; by
  `NobodyMisses` each of them has reached the producer or its queue; and both are
  in the order of the log, so that the goodbye is behind them all.
* `WaitsForTheLost` uses the pigeonhole the other way round: with nothing under
  way, a plugin that has missed nothing has read at least as many events as its
  publishers have sent (`MustHaveRead`).  The producer sends all it has without
  waiting for anyone, so the counter cannot be waiting, so the Python plugin
  cannot, so the producer cannot.
* `SizesAreRoundRobin`: the offset is the number of messages modulo the number of
  sizes, or stays 0 if there are none (`OffsetGoesRound`).
* `TotalIsRight` needs `TotalInv`: the total is the sum, wrapped around, of the
  counts received so far.  A count refers to a place in the operator's history,
  and through it to one in `sizes`; both only grow (`CountsKept`).  Adding to a
  wrapped total is adding to the total (`WrapTwice`).  At the end the operator and
  the accumulator have each received as many messages as were sent; their numbers
  rise, so they are 1 to `NumMessages` in order (`InOrder`), and the counts
  received are the lengths sent.

The library's sum of a function is a fold, defined by recursion over subsets.  The
induction theorems that take an operator cannot be used with the provers at hand;
`CountingLemmas` goes by a smallest counterexample instead (`SmallestSubset`,
`LeastNumber`): the strict subsets of a finite set are well-founded, which the
library states without an operator.  That gives the sum of nothing and of one
number more, and that it depends on nothing but the numbers (`SumFacts`).

Model-checked only: liveness (`BarrierOpens`, `RunEndsAfterPlugins`,
`AnsweredInTheEnd`, `QuitsInTheEnd`, `EndsUnlessMissed`, `TakenInTheEnd`), which is
out of the provers' reach.  Every invariant, every action property and every
refinement that a passing run checks is proved.

## Not modelled

* Payloads, but for their length; names; logging.  A payload that reads as a
  command would be taken for it by `ExternalPlugin::start`; README.md 84-85 asks
  plugins not to send one.
* Failures of the zmq library (socket creation, `send`, `recv`) other than an
  address in use.
* Reading the configuration file of the load test, and `message_type`, which no
  code reads.
* Processes that use the TCP ports unregistered (README.md 64-72): the
  repository has no code for them.
* Registration is not an action: it appends to two vectors before `run`, and `App`
  starts from the result.
* Packaging.

Left for later, should the code go that way: the dialogue of `ExternalPlugin`
inside `Engine` if it ever gains state that the bus can see; a second `App` in
one process once the proxy thread can be stopped (lib.rs 568-570).
