--------------------------- MODULE ExternalPlugin ---------------------------
(***************************************************************************)
(* The dialogue between the thread of an external plugin, which runs       *)
(* ExternalPlugin::start on a REP socket, and the plugin's process, which  *)
(* uses the pyevents library on a REQ socket.  The process may die at any  *)
(* moment and be started again; the thread knows nothing of that.          *)
(*                                                                         *)
(* Events are numbered: 1, 2, ... as they reach the thread's subscription  *)
(* queue, and 1, 2, ... as the processes publish them.  The process obeys  *)
(* the README: it publishes nothing that reads as a command.               *)
(***************************************************************************)
EXTENDS Naturals, Sequences

CONSTANTS
    MaxProcesses,  \* bound on the processes started one after the other
    MaxArrivals,   \* bound on the events that reach the subscription queue
    MaxPublished,  \* bound on the events the processes publish
    SubLimit       \* high-water mark of the subscription queue

ASSUME ExternalPluginAssumption ==
    /\ MaxProcesses \in Nat \ {0}
    /\ MaxArrivals \in Nat
    /\ MaxPublished \in Nat
    /\ SubLimit \in Nat \ {0}

VARIABLES
    thread,     \* where the loop of ExternalPlugin::start is
    serving,    \* the process whose request the REP socket received last
    requests,   \* the set of requests on their way to the REP socket
    process,    \* what the current process is doing
    current,    \* its number
    reply,      \* the reply that has reached its REQ socket
    inbox,      \* events in the thread's subscription queue
    arrived,    \* history: events that entered that queue
    got,        \* history: events get_next_msg returned, to any process
    called,     \* how many times publish_msg has been called
    outbox,     \* history: events the thread has published
    confirmed   \* history: events for which publish_msg returned

vars == <<thread, serving, requests, process, current, reply, inbox, arrived, got,
          called, outbox, confirmed>>

\* Requests, by the process that sends them.
Next_msg(n) == [from |-> n, kind |-> "next_msg", event |-> 0]
Quit(n) == [from |-> n, kind |-> "quit", event |-> 0]
Publish(n, e) == [from |-> n, kind |-> "publish", event |-> e]

NoReply == [kind |-> "none", event |-> 0]
NextEvent(e) == [kind |-> "event", event |-> e]
MsgPublished == [kind |-> "msg published", event |-> 0]

\* Processes that still hold their REQ socket.
Alive == {"idle", "in_next", "in_publish", "broken", "ended"}

Init ==
    /\ thread = "receiving"
    /\ serving = 0
    /\ requests = {}
    /\ process = "idle"
    /\ current = 1
    /\ reply = NoReply
    /\ inbox = <<>>
    /\ arrived = <<>>
    /\ got = <<>>
    /\ called = 0
    /\ outbox = <<>>
    /\ confirmed = {}

-----------------------------------------------------------------------------
(* The thread.                                                             *)

\* Mutants of Answer: whoever is there gets the reply; nobody does.
AnswerAnyone(n, r) == reply' = IF process \in Alive THEN r ELSE reply

AnswerNobody(n, r) == UNCHANGED reply

\* A reply goes to the process the request came from; ZeroMQ drops it if that
\* process is gone.
Answer(n, r) ==
    reply' = IF n = current /\ process \in Alive THEN r ELSE reply

\* rep_socket.recv_bytes.  The REP socket queues fairly over its connections, one
\* for each process: the requests of different processes come in any order.
Takes(r) ==
    /\ thread = "receiving"
    /\ serving' = r.from
    /\ requests' = requests \ {r}

\* "plugin_command: next_msg": the thread turns to its subscription queue.
TakeNextMsg ==
    /\ \E r \in requests : r.kind = "next_msg" /\ Takes(r)
    /\ thread' = "fetching"
    /\ UNCHANGED <<process, current, reply, inbox, arrived, got, called, outbox, confirmed>>

\* Mutant of Fetched: the event stays in the queue.
Peeked == UNCHANGED inbox

Fetched == inbox' = Tail(inbox)

\* sub_socket.recv_bytes, which blocks while there is no event, and the reply.
FetchNextMsg ==
    /\ thread = "fetching"
    /\ inbox # <<>>
    /\ Answer(serving, NextEvent(Head(inbox)))
    /\ Fetched
    /\ thread' = "receiving"
    /\ UNCHANGED <<serving, requests, process, current, arrived, got, called, outbox, confirmed>>

\* Mutant of Emit: the event is not published.
EmitNothing(e) == UNCHANGED outbox

Emit(e) == outbox' = Append(outbox, e)

\* Anything that is no command is published as an event, then confirmed.
TakePublish ==
    /\ \E r \in requests :
        /\ r.kind = "publish"
        /\ Takes(r)
        /\ Emit(r.event)
        /\ Answer(r.from, MsgPublished)
    /\ UNCHANGED <<thread, process, current, inbox, arrived, got, called, confirmed>>

\* Mutant of Break: the loop goes on.
Continue == UNCHANGED thread

Break == thread' = "exited"

\* "plugin_command: quit" ends the loop; it is not answered.
TakeQuit ==
    /\ \E r \in requests : r.kind = "quit" /\ Takes(r)
    /\ Break
    /\ UNCHANGED <<process, current, reply, inbox, arrived, got, called, outbox, confirmed>>

\* An event for the plugin reaches its subscription queue, unless that is full.
Arrive ==
    /\ thread # "exited"
    /\ Len(arrived) < MaxArrivals
    /\ Len(inbox) < SubLimit
    /\ arrived' = Append(arrived, Len(arrived) + 1)
    /\ inbox' = Append(inbox, Len(arrived) + 1)
    /\ UNCHANGED <<thread, serving, requests, process, current, reply, got, called, outbox, confirmed>>

ThreadStep == TakeNextMsg \/ FetchNextMsg \/ TakePublish \/ TakeQuit

-----------------------------------------------------------------------------
(* The process.  A REQ socket refuses to send between a request and its    *)
(* reply; only an idle process can make a call that does something.        *)

Send(m) == requests' = requests \cup {m}

CallNextMsg ==
    /\ process = "idle"
    /\ Send(Next_msg(current))
    /\ process' = "in_next"
    /\ UNCHANGED <<thread, serving, current, reply, inbox, arrived, got, called, outbox, confirmed>>

ReturnNextMsg ==
    /\ process = "in_next"
    /\ reply # NoReply
    /\ got' = Append(got, reply.event)
    /\ reply' = NoReply
    /\ process' = "idle"
    /\ UNCHANGED <<thread, serving, requests, current, inbox, arrived, called, outbox, confirmed>>

\* A call with a timeout: socket.recv raises zmq.error.Again.  The REQ socket still
\* wants a reply, and pyevents has no call that would read it.
TimeOut ==
    /\ process = "in_next"
    /\ process' = "broken"
    /\ UNCHANGED <<thread, serving, requests, current, reply, inbox, arrived, got, called, outbox, confirmed>>

\* Mutant of NextCall: repeats the event before.
LastCall == called

NextCall == called + 1

CallPublish ==
    /\ process = "idle"
    /\ called < MaxPublished
    /\ Send(Publish(current, NextCall))
    /\ called' = called + 1
    /\ process' = "in_publish"
    /\ UNCHANGED <<thread, serving, current, reply, inbox, arrived, got, outbox, confirmed>>

\* publish_msg polls without a limit, then returns the engine's answer.
ReturnPublish ==
    /\ process = "in_publish"
    /\ reply # NoReply
    /\ confirmed' = confirmed \cup {called}
    /\ reply' = NoReply
    /\ process' = "idle"
    /\ UNCHANGED <<thread, serving, requests, current, inbox, arrived, got, called, outbox>>

\* send_quit_command, the last thing a process does.  On a broken socket the send
\* raises an exception.
SendQuit ==
    /\ \/ process = "idle" /\ Send(Quit(current))
       \/ process = "broken" /\ UNCHANGED requests
    /\ process' = "ended"
    /\ UNCHANGED <<thread, serving, current, reply, inbox, arrived, got, called, outbox, confirmed>>

\* The request the process has under way, if any, is lost with its connection.
Withdraw == \E r \in requests : r.from = current /\ requests' = requests \ {r}

\* The process dies.  A request it has sent may still reach the thread, or not.
Die ==
    /\ process \in Alive \ {"ended"}
    /\ process' = "dead"
    /\ reply' = NoReply
    /\ \/ UNCHANGED requests
       \/ Withdraw
    /\ UNCHANGED <<thread, serving, current, inbox, arrived, got, called, outbox, confirmed>>

\* It is started again, with a new socket.
Restart ==
    /\ process = "dead"
    /\ current < MaxProcesses
    /\ current' = current + 1
    /\ process' = "idle"
    /\ UNCHANGED <<thread, serving, requests, reply, inbox, arrived, got, called, outbox, confirmed>>

ProcessStep ==
    \/ CallNextMsg \/ ReturnNextMsg \/ TimeOut
    \/ CallPublish \/ ReturnPublish
    \/ SendQuit

Next == ThreadStep \/ Arrive \/ ProcessStep \/ Die \/ Restart

Spec == Init /\ [][Next]_vars

\* The thread runs, and a call whose reply is there returns.  Whether the process
\* makes a further call, dies or is started again is its own affair.
FairSpec ==
    /\ Spec
    /\ WF_vars(ThreadStep)
    /\ WF_vars(ReturnNextMsg \/ ReturnPublish)

-----------------------------------------------------------------------------
(* Properties                                                              *)

Request == [from : 1..MaxProcesses, kind : {"next_msg", "publish", "quit"},
            event : 0..MaxPublished]

Reply == [kind : {"none", "event", "msg published"}, event : 0..MaxArrivals]

TypeOK ==
    /\ thread \in {"receiving", "fetching", "exited"}
    /\ serving \in 0..MaxProcesses
    /\ requests \subseteq Request
    /\ process \in Alive \cup {"dead"}
    /\ current \in 1..MaxProcesses
    /\ reply \in Reply
    /\ inbox \in Seq(1..MaxArrivals)
    /\ arrived \in Seq(1..MaxArrivals)
    /\ got \in Seq(1..MaxArrivals)
    /\ called \in 0..MaxPublished
    /\ outbox \in Seq(1..MaxPublished)
    /\ confirmed \subseteq 1..MaxPublished

\* Whatever process asks, and whichever died before, the answer to a call is an
\* answer to that call: get_next_msg returns an event, publish_msg a confirmation.
ReplyFitsCall ==
    /\ reply.kind = "event" => process \in {"in_next", "broken", "ended"}
    /\ reply.kind = "msg published" => process = "in_publish"

\* Events the thread has taken from its queue and no process has got or can get.
Lost ==
    Len(arrived) - Len(inbox) - Len(got)
        - (IF process = "in_next" /\ reply.kind = "event" THEN 1 ELSE 0)

\* Each process that dies or times out costs at most one event: a thread that is
\* blocked for a process that is gone swallows one, and no more.
OneLossPerProcess ==
    Lost <= IF process \in {"broken", "ended", "dead"} THEN current ELSE current - 1

\* An event is published once at most, and publish_msg returns only when its event
\* is published.  What is called for after that return is published after it: only
\* an event whose process died in publish_msg may be overtaken by later ones.
PublishedAsConfirmed ==
    /\ \A i, j \in DOMAIN outbox : i # j => outbox[i] # outbox[j]
    /\ \A e \in confirmed : \E i \in DOMAIN outbox : outbox[i] = e
    /\ \A i, j \in DOMAIN outbox :
          i < j /\ outbox[j] < outbox[i] => outbox[j] \notin confirmed

\* The processes, one after another, as one reader of the log of events.
Wants(r, e) == TRUE

L == INSTANCE EventLog WITH
        Reader <- {"plugin"},
        Event <- 1..MaxArrivals,
        Wanted <- Wants,
        log <- arrived,
        delivered <- [r \in {"plugin"} |-> got]

\* No event is seen twice or out of order, even by different processes.
ImplementsLog == L!Spec

\* A process that waits in get_next_msg gets an event, if there are enough of them
\* for it and for the processes that died before it.
AnsweredInTheEnd ==
    (process = "in_next" /\ Len(inbox) >= current) ~> process # "in_next"

\* A quit that was sent ends the thread, if there is an event for each process that
\* died before; for the first process, unconditionally.
QuitsInTheEnd ==
    ((\E r \in requests : r.kind = "quit") /\ Len(inbox) >= current - 1)
        ~> thread = "exited"

\* README.md, "External Plugins": quit "allows the main engine of the application
\* to shut down the associated thread once the plugin's execution has completed".
ThreadEndsWithPlugin ==
    process = "ended" ~> thread = "exited"
=============================================================================
