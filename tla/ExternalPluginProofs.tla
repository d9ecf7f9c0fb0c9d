------------------------ MODULE ExternalPluginProofs ------------------------
(* Theorems about ExternalPlugin, for any number of processes and events. *)
EXTENDS ExternalPlugin, Integers, FiniteSets, SequenceLemmas, FiniteSetTheorems, TLAPS

\* Each process has one request under way at most, on its way or at the thread.
QueueInv ==
    /\ \A r \in requests : r.from <= current
    /\ \A r, s \in requests : r.from = s.from => r = s
    /\ serving <= current
    /\ thread = "fetching" => serving >= 1 /\ \A r \in requests : r.from # serving

\* States of a process that once called get_next_msg, and of one that did so in
\* vain.
InNext == {"in_next", "broken", "ended", "dead"}
Gone == {"broken", "ended", "dead"}

\* What a process does fits the request it has under way.
CallInv ==
    /\ \A r \in requests :
          r.from = current =>
            /\ r.kind = "next_msg" => process \in InNext
            /\ r.kind = "publish" => process \in {"in_publish", "dead"} /\ r.event = called
            /\ r.kind = "quit" => process = "ended"
    /\ thread = "fetching" /\ serving = current => process \in InNext
    /\ process = "in_publish" => called >= 1

\* The current process has a request under way.
Owing == (\E r \in requests : r.from = current) \/ (thread = "fetching" /\ serving = current)

\* A reply that has not been read is the answer to the last call of the current
\* process; only processes that are gone may still have requests under way.
ReplyInv ==
    /\ reply # NoReply => ~Owing
    /\ reply.kind = "none" => reply = NoReply
    /\ reply.kind = "event" => process \in {"in_next", "broken", "ended"} /\ reply.event >= 1
    /\ reply.kind = "msg published" =>
          process = "in_publish" /\ \E k \in DOMAIN outbox : outbox[k] = called

\* Each event is in one place: called for, on its way, or published.
OutboxInv ==
    /\ \A k \in DOMAIN outbox : outbox[k] <= called
    /\ \A k, l \in DOMAIN outbox : k # l => outbox[k] # outbox[l]
    /\ \A r \in requests :
          r.kind = "publish" =>
            /\ r.event >= 1
            /\ r.event <= called
            /\ \A k \in DOMAIN outbox : outbox[k] # r.event
    /\ \A r, s \in requests :
          r.kind = "publish" /\ s.kind = "publish" /\ r.event = s.event => r = s
    /\ \A e \in confirmed : \E k \in DOMAIN outbox : outbox[k] = e
    /\ \A k, l \in DOMAIN outbox :
          k < l /\ outbox[l] < outbox[k] => outbox[l] \notin confirmed

\* Events are got in the order of their arrival.
InboxInv ==
    /\ \A i \in DOMAIN arrived : arrived[i] = i
    /\ \A i \in DOMAIN inbox : inbox[i] <= Len(arrived)
    /\ \A i, j \in DOMAIN inbox : i < j => inbox[i] < inbox[j]
    /\ \A k \in DOMAIN got : got[k] <= Len(arrived)
    /\ \A k \in DOMAIN got : \A i \in DOMAIN inbox : got[k] < inbox[i]
    /\ reply.kind = "event" =>
          /\ reply.event <= Len(arrived)
          /\ \A k \in DOMAIN got : got[k] < reply.event
          /\ \A i \in DOMAIN inbox : reply.event < inbox[i]

\* The processes that are gone and have no request under way: each may have cost
\* an event, the others have not.
Settled ==
    {n \in 1..current :
        /\ n = current => process \in Gone
        /\ \A r \in requests : r.from # n
        /\ ~(thread = "fetching" /\ serving = n)}

LossInv == Lost <= Cardinality(Settled)

IInv == TypeOK /\ QueueInv /\ CallInv /\ ReplyInv /\ OutboxInv /\ InboxInv /\ LossInv

-----------------------------------------------------------------------------
(* Types                                                                   *)

\* The fields of a request.
LEMMA RequestFields ==
    ASSUME NEW r \in Request
    PROVE  /\ r.from \in 1..MaxProcesses
           /\ r.kind \in {"next_msg", "publish", "quit"}
           /\ r.event \in Nat /\ r.event <= MaxPublished
           /\ r.from \in Nat /\ r.from >= 1
  BY ExternalPluginAssumption DEF Request

\* The requests under way.
LEMMA RequestTypes ==
    ASSUME TypeOK
    PROVE  \A r \in requests :
              /\ r \in Request
              /\ r.from \in 1..MaxProcesses
              /\ r.kind \in {"next_msg", "publish", "quit"}
              /\ r.event \in Nat /\ r.event <= MaxPublished
              /\ r.from \in Nat /\ r.from >= 1
  BY RequestFields DEF TypeOK

\* A sequence of numbers up to n.
LEMMA NumberSequence ==
    ASSUME NEW n \in Nat, NEW s \in Seq(1..n)
    PROVE  /\ Len(s) \in Nat
           /\ DOMAIN s = 1..Len(s)
           /\ \A i \in DOMAIN s : i \in Nat /\ s[i] \in Nat /\ s[i] >= 1 /\ s[i] <= n
  OBVIOUS

\* The sequences of events.
LEMMA EventTypes ==
    ASSUME TypeOK
    PROVE  /\ inbox \in Seq(1..MaxArrivals) /\ Len(inbox) \in Nat
           /\ DOMAIN inbox = 1..Len(inbox)
           /\ \A i \in DOMAIN inbox : i \in Nat /\ inbox[i] \in Nat
           /\ arrived \in Seq(1..MaxArrivals) /\ Len(arrived) \in Nat
           /\ DOMAIN arrived = 1..Len(arrived)
           /\ got \in Seq(1..MaxArrivals) /\ Len(got) \in Nat
           /\ \A i \in DOMAIN got : i \in Nat /\ got[i] \in Nat
           /\ outbox \in Seq(1..MaxPublished)
           /\ \A i \in DOMAIN outbox : i \in Nat /\ outbox[i] \in Nat
           /\ current \in Nat /\ current >= 1 /\ serving \in Nat /\ called \in Nat
  <1>1. inbox \in Seq(1..MaxArrivals) /\ arrived \in Seq(1..MaxArrivals)
        /\ got \in Seq(1..MaxArrivals) /\ outbox \in Seq(1..MaxPublished)
    BY DEF TypeOK
  <1>2. MaxArrivals \in Nat /\ MaxPublished \in Nat
    BY ExternalPluginAssumption
  <1>3. current \in Nat /\ current >= 1 /\ serving \in Nat /\ called \in Nat
    BY ExternalPluginAssumption DEF TypeOK
  <1>4. /\ DOMAIN inbox = 1..Len(inbox) /\ Len(inbox) \in Nat
        /\ \A i \in DOMAIN inbox : i \in Nat /\ inbox[i] \in Nat
    BY <1>1, <1>2, NumberSequence
  <1>5. DOMAIN arrived = 1..Len(arrived) /\ Len(arrived) \in Nat
    BY <1>1, <1>2, NumberSequence
  <1>6. Len(got) \in Nat /\ \A i \in DOMAIN got : i \in Nat /\ got[i] \in Nat
    BY <1>1, <1>2, NumberSequence
  <1>7. \A i \in DOMAIN outbox : i \in Nat /\ outbox[i] \in Nat
    BY <1>1, <1>2, NumberSequence
  <1> QED
    BY <1>1, <1>3, <1>4, <1>5, <1>6, <1>7

\* The fields of a reply.
LEMMA ReplyType ==
    ASSUME NEW r \in Reply
    PROVE  /\ r.kind \in {"none", "event", "msg published"}
           /\ r.event \in Nat /\ r.event <= MaxArrivals
  <1>1. r.kind \in {"none", "event", "msg published"}
    BY DEF Reply
  <1>2. r.event \in 0..MaxArrivals
    BY DEF Reply
  <1>3. \A n \in 0..MaxArrivals : n \in Nat /\ n <= MaxArrivals
    BY ExternalPluginAssumption
  <1> QED
    BY <1>1, <1>2, <1>3

\* The replies the thread sends.
LEMMA Replies ==
    /\ NoReply.kind = "none" /\ MsgPublished.kind = "msg published" /\ MsgPublished # NoReply
    /\ NoReply \in Reply /\ MsgPublished \in Reply
    /\ \A e \in 1..MaxArrivals :
          NextEvent(e) \in Reply /\ NextEvent(e).kind = "event" /\ NextEvent(e).event = e
  <1>1. NoReply.kind = "none" /\ MsgPublished.kind = "msg published"
    BY DEF NoReply, MsgPublished
  <1>2. MsgPublished # NoReply
    BY <1>1
  <1>3. 0 \in 0..MaxArrivals
    BY ExternalPluginAssumption
  <1>4. NoReply \in Reply /\ MsgPublished \in Reply
    BY <1>3 DEF NoReply, MsgPublished, Reply
  <1>5. \A e \in 1..MaxArrivals : e \in 0..MaxArrivals
    BY ExternalPluginAssumption
  <1>6. \A e \in 1..MaxArrivals :
          NextEvent(e) \in Reply /\ NextEvent(e).kind = "event" /\ NextEvent(e).event = e
    BY <1>5 DEF NextEvent, Reply
  <1> QED
    BY <1>1, <1>2, <1>4, <1>6

\* The requests processes send.
LEMMA Requests ==
    \A n \in 1..MaxProcesses :
        /\ Next_msg(n) \in Request /\ Next_msg(n).from = n /\ Next_msg(n).kind = "next_msg"
        /\ Quit(n) \in Request /\ Quit(n).from = n /\ Quit(n).kind = "quit"
        /\ \A e \in 1..MaxPublished :
              /\ Publish(n, e) \in Request /\ Publish(n, e).from = n
              /\ Publish(n, e).kind = "publish" /\ Publish(n, e).event = e
  BY ExternalPluginAssumption DEF Next_msg, Quit, Publish, Request

\* The initial state has its types.
LEMMA InitTypeOK == Init => TypeOK
  <1> SUFFICES ASSUME Init
               PROVE  TypeOK
    OBVIOUS
  <1>1. /\ 0 \in 0..MaxProcesses /\ 1 \in 1..MaxProcesses
        /\ 0 \in 0..MaxPublished
    BY ExternalPluginAssumption
  <1>2. <<>> \in Seq(1..MaxArrivals) /\ <<>> \in Seq(1..MaxPublished)
    OBVIOUS
  <1> QED
    BY <1>1, <1>2, Replies DEF Init, TypeOK, Alive

\* The thread takes a request, any of them.
LEMMA TakesFacts ==
    ASSUME TypeOK, NEW r \in requests, Takes(r)
    PROVE  /\ thread = "receiving"
           /\ serving' = r.from /\ serving' \in 0..MaxProcesses
           /\ requests' \subseteq Request
           /\ \A q \in requests' : q \in requests /\ q # r
  <1>1. r.from \in 0..MaxProcesses
    BY RequestTypes, ExternalPluginAssumption
  <1> QED
    BY <1>1 DEF Takes, TypeOK

\* A process sends a request.
LEMMA SendFacts ==
    ASSUME TypeOK, NEW m \in Request, Send(m)
    PROVE  /\ requests' \subseteq Request
           /\ \A q \in requests' : q \in requests \/ q = m
           /\ m \in requests'
  BY DEF Send, TypeOK

\* Steps of the thread and of the proxy keep the types.
LEMMA ThreadTypeOK ==
    ASSUME IInv, ThreadStep \/ Arrive
    PROVE  TypeOK'
  <1>0. TypeOK
    BY DEF IInv
  <1>1. CASE TakeNextMsg
    BY <1>0, <1>1, TakesFacts DEF TakeNextMsg, TypeOK
  <1>2. CASE FetchNextMsg
    <2>1. Head(inbox) \in 1..MaxArrivals /\ Tail(inbox) \in Seq(1..MaxArrivals)
      BY <1>0, <1>2, RequestTypes, EventTypes, TailFacts DEF FetchNextMsg
    <2>2. reply' \in Reply
      BY <1>0, <1>2, <2>1, Replies DEF FetchNextMsg, Answer, TypeOK
    <2> QED
      BY <1>0, <1>2, <2>1, <2>2 DEF FetchNextMsg, Fetched, TypeOK
  <1>3. CASE TakePublish
    <2>1. PICK r \in requests : r.kind = "publish" /\ Takes(r) /\ Emit(r.event)
                                 /\ Answer(r.from, MsgPublished)
      BY <1>3 DEF TakePublish
    <2>2. r.event \in 1..MaxPublished
      <3>1. r.event >= 1
        BY <2>1 DEF IInv, OutboxInv
      <3> QED
        BY <1>0, <3>1, RequestTypes, ExternalPluginAssumption
    <2>3. outbox' \in Seq(1..MaxPublished)
      BY <1>0, <2>1, <2>2, EventTypes, AppendFacts DEF Emit
    <2>4. reply' \in Reply
      BY <1>0, <2>1, Replies DEF Answer, TypeOK
    <2> QED
      BY <1>0, <1>3, <2>1, <2>3, <2>4, TakesFacts DEF TakePublish, TypeOK
  <1>4. CASE TakeQuit
    BY <1>0, <1>4, TakesFacts DEF TakeQuit, Break, TypeOK
  <1>5. CASE Arrive
    <2>1. Len(arrived) + 1 \in 1..MaxArrivals
      BY <1>0, <1>5, RequestTypes, EventTypes, ExternalPluginAssumption DEF Arrive
    <2>2. inbox' \in Seq(1..MaxArrivals) /\ arrived' \in Seq(1..MaxArrivals)
      BY <1>0, <1>5, <2>1, RequestTypes, EventTypes, AppendFacts DEF Arrive
    <2> QED
      BY <1>0, <1>5, <2>2 DEF Arrive, TypeOK
  <1> QED
    BY <1>1, <1>2, <1>3, <1>4, <1>5 DEF ThreadStep

\* So do the calls of a process, its death and its restart.
LEMMA ProcessTypeOK ==
    ASSUME IInv, ProcessStep \/ Die \/ Restart
    PROVE  TypeOK'
  <1>0. TypeOK
    BY DEF IInv
  <1> USE DEF Alive
  <1>1. CASE CallNextMsg
    BY <1>0, <1>1, SendFacts, Requests DEF CallNextMsg, TypeOK
  <1>2. CASE ReturnNextMsg
    <2>1. reply.event \in 1..MaxArrivals
      <3>1. reply \in Reply
        BY <1>0 DEF TypeOK
      <3>2. reply # NoReply /\ process = "in_next"
        BY <1>2 DEF ReturnNextMsg
      <3>3. reply.kind = "event"
        BY <3>1, <3>2, ReplyType DEF IInv, ReplyInv
      <3> QED
        <4>1. reply.event >= 1
          BY <3>3 DEF IInv, ReplyInv
        <4>2. reply.event \in Nat /\ reply.event <= MaxArrivals
          BY <3>1, ReplyType
        <4> QED
          BY <4>1, <4>2, ExternalPluginAssumption
    <2>2. got' \in Seq(1..MaxArrivals)
      BY <1>0, <1>2, <2>1, RequestTypes, EventTypes, AppendFacts DEF ReturnNextMsg
    <2> QED
      BY <1>0, <1>2, <2>2, Replies DEF ReturnNextMsg, TypeOK
  <1>3. CASE TimeOut
    BY <1>0, <1>3 DEF TimeOut, TypeOK
  <1>4. CASE CallPublish
    <2>1. called + 1 \in 1..MaxPublished
      BY <1>0, <1>4, ExternalPluginAssumption DEF CallPublish, TypeOK
    <2>2. Publish(current, called + 1) \in Request
      BY <1>0, <2>1, Requests DEF TypeOK
    <2>3. requests' \subseteq Request
      BY <1>0, <1>4, <2>2, SendFacts DEF CallPublish, NextCall
    <2> QED
      BY <1>0, <1>4, <2>1, <2>3, ExternalPluginAssumption DEF CallPublish, TypeOK
  <1>5. CASE ReturnPublish
    <2>1. called \in 1..MaxPublished
      BY <1>0, <1>5, ExternalPluginAssumption DEF ReturnPublish, IInv, CallInv, TypeOK
    <2> QED
      BY <1>0, <1>5, <2>1, Replies DEF ReturnPublish, TypeOK
  <1>6. CASE SendQuit
    <2>1. requests' \subseteq Request
      BY <1>0, <1>6, SendFacts, Requests DEF SendQuit, TypeOK
    <2> QED
      BY <1>0, <1>6, <2>1 DEF SendQuit, TypeOK
  <1>7. CASE Die
    <2>1. requests' \subseteq Request
      BY <1>0, <1>7 DEF Die, Withdraw, TypeOK
    <2> QED
      BY <1>0, <1>7, <2>1, Replies DEF Die, TypeOK
  <1>8. CASE Restart
    BY <1>0, <1>8, ExternalPluginAssumption DEF Restart, TypeOK
  <1> QED
    BY <1>1, <1>2, <1>3, <1>4, <1>5, <1>6, <1>7, <1>8 DEF ProcessStep

-----------------------------------------------------------------------------
(* Requests and replies                                                    *)

\* What is compared with what.
LEMMA Senders ==
    ASSUME TypeOK
    PROVE  /\ current \in Nat /\ serving \in Nat /\ current \in 1..MaxProcesses
           /\ \A r \in requests : r.from \in Nat /\ r.from >= 1
  <1>1. current \in 1..MaxProcesses
    BY DEF TypeOK
  <1> QED
    BY <1>1, RequestTypes, EventTypes

\* A process that dies sends nothing more.
LEMMA WithdrawFacts ==
    ASSUME Withdraw \/ UNCHANGED requests
    PROVE  \A q \in requests' : q \in requests
  BY DEF Withdraw

\* A process that is free to call has nothing under way.
LEMMA IdleOwesNothing ==
    ASSUME IInv, process = "idle"
    PROVE  /\ \A r \in requests : r.from # current
           /\ thread = "fetching" => serving # current
           /\ reply = NoReply
  <1>0. TypeOK
    BY DEF IInv
  <1>1. \A r \in requests : r.from # current
    BY <1>0, RequestTypes DEF IInv, CallInv, InNext
  <1>2. thread = "fetching" => serving # current
    BY DEF IInv, CallInv, InNext
  <1>3. reply = NoReply
    BY <1>0, ReplyType DEF IInv, ReplyInv, TypeOK
  <1> QED
    BY <1>1, <1>2, <1>3

\* Each process keeps having one request under way at most.
LEMMA QueueInvKept ==
    ASSUME IInv, Next
    PROVE  QueueInv'
  <1>0. TypeOK /\ QueueInv
    BY DEF IInv
  <1> USE <1>0, Senders
  <1>1. ASSUME NEW r \in requests, Takes(r), current' = current
        PROVE  QueueInv'
    BY <1>1, TakesFacts DEF QueueInv
  <1>2. ASSUME NEW m \in Request, Send(m), m.from = current, process = "idle",
               UNCHANGED <<current, thread, serving>>
        PROVE  QueueInv'
    BY <1>2, SendFacts, IdleOwesNothing DEF QueueInv
  <1>3. CASE TakeNextMsg \/ TakePublish \/ TakeQuit
    BY <1>1, <1>3 DEF TakeNextMsg, TakePublish, TakeQuit
  <1>4. CASE CallNextMsg
    BY <1>2, <1>4, Requests DEF CallNextMsg
  <1>5. CASE CallPublish
    <2>1. NextCall \in 1..MaxPublished
      BY <1>5, EventTypes, ExternalPluginAssumption DEF CallPublish, NextCall
    <2> QED
      BY <1>2, <1>5, <2>1, Requests DEF CallPublish
  <1>6. CASE SendQuit
    BY <1>2, <1>6, Requests DEF SendQuit, QueueInv
  <1>7. CASE Die
    BY <1>7, WithdrawFacts DEF Die, QueueInv
  <1>8. CASE Restart
    BY <1>8 DEF Restart, QueueInv
  <1>9. CASE FetchNextMsg
    BY <1>9 DEF FetchNextMsg, QueueInv
  <1>10. CASE Arrive \/ ReturnNextMsg \/ TimeOut \/ ReturnPublish
    BY <1>10 DEF Arrive, ReturnNextMsg, TimeOut, ReturnPublish, QueueInv
  <1> QED
    BY <1>3, <1>4, <1>5, <1>6, <1>7, <1>8, <1>9, <1>10 DEF Next, ThreadStep, ProcessStep

\* Requests keep fitting what their process does.
LEMMA CallInvKept ==
    ASSUME IInv, Next
    PROVE  CallInv'
  <1>0. TypeOK /\ QueueInv /\ CallInv /\ ReplyInv
    BY DEF IInv
  <1> USE <1>0, Senders DEF InNext
  <1>b. ASSUME NEW m \in Request, Send(m), process = "idle"
         PROVE  \A r \in requests' : r.from = current => r = m
    BY <1>b, SendFacts, IdleOwesNothing
  <1>1. CASE TakeNextMsg
    BY <1>1, TakesFacts DEF TakeNextMsg, CallInv
  <1>2. CASE TakePublish \/ TakeQuit
    BY <1>2, TakesFacts DEF TakePublish, TakeQuit, Break, CallInv
  <1>3. CASE FetchNextMsg
    BY <1>3 DEF FetchNextMsg, CallInv
  <1>4. CASE Arrive
    BY <1>4 DEF Arrive, CallInv
  <1>5. CASE CallNextMsg
    BY <1>5, SendFacts, IdleOwesNothing, Requests DEF CallNextMsg, CallInv
  <1>6. CASE ReturnNextMsg \/ ReturnPublish
    <2>1. ~Owing /\ process' = "idle" /\ UNCHANGED <<requests, thread, serving, current>>
      BY <1>6 DEF ReturnNextMsg, ReturnPublish, ReplyInv
    <2> QED
      BY <2>1 DEF CallInv, Owing
  <1>7. CASE TimeOut
    BY <1>7 DEF TimeOut, CallInv
  <1>8. CASE CallPublish
    <2>1. NextCall \in 1..MaxPublished /\ NextCall = called'
      BY <1>8, EventTypes, ExternalPluginAssumption DEF CallPublish, NextCall
    <2>2. Publish(current, NextCall) \in Request
          /\ Publish(current, NextCall).kind = "publish"
          /\ Publish(current, NextCall).event = called'
      BY <2>1, Requests
    <2>3. \A r \in requests' : r.from = current => r = Publish(current, NextCall)
      BY <1>b, <1>8, <2>2 DEF CallPublish
    <2>4. called' >= 1
      BY <2>1
    <2> QED
      BY <1>8, <2>2, <2>3, <2>4, IdleOwesNothing DEF CallPublish, CallInv
  <1>9. CASE SendQuit
    <2>1. CASE process = "idle"
      <3>1. Quit(current) \in Request /\ Quit(current).kind = "quit"
        BY Requests
      <3>2. \A r \in requests' : r.from = current => r = Quit(current)
        BY <1>b, <1>9, <2>1, <3>1 DEF SendQuit
      <3> QED
        BY <1>9, <2>1, <3>1, <3>2, IdleOwesNothing DEF SendQuit, CallInv
    <2> QED
      BY <1>9, <2>1 DEF SendQuit, CallInv
  <1>10. CASE Die
    BY <1>10, WithdrawFacts DEF Die, Alive, CallInv
  <1>11. CASE Restart
    BY <1>11 DEF Restart, CallInv, QueueInv
  <1> QED
    BY <1>1, <1>2, <1>3, <1>4, <1>5, <1>6, <1>7, <1>8, <1>9, <1>10, <1>11
    DEF Next, ThreadStep, ProcessStep

\* A process whose request is under way has no reply.
LEMMA NoReplyYet ==
    ASSUME IInv, Owing
    PROVE  reply = NoReply
  BY DEF IInv, ReplyInv

\* Replies keep answering the last call.
LEMMA ReplyInvKept ==
    ASSUME IInv, Next
    PROVE  ReplyInv'
  <1>0. TypeOK /\ QueueInv /\ CallInv /\ ReplyInv
    BY DEF IInv
  <1>1. ASSUME NEW r \in requests, Takes(r), UNCHANGED <<current, process, called, outbox, reply>>
        PROVE  ReplyInv'
    <2>1. Owing' => Owing
      BY <1>0, <1>1, TakesFacts DEF Owing
    <2> QED
      BY <1>0, <1>1, <2>1 DEF ReplyInv
  <1>2. CASE TakeNextMsg \/ TakeQuit
    BY <1>1, <1>2 DEF TakeNextMsg, TakeQuit
  <1>3. CASE FetchNextMsg
    <2>1. UNCHANGED <<requests, serving, current, process, called, outbox>> /\ thread = "fetching"
          /\ thread' = "receiving"
      BY <1>3 DEF FetchNextMsg
    <2>2. CASE serving = current /\ process \in Alive
      <3>1. ~Owing'
        BY <1>0, <2>1, <2>2 DEF Owing, QueueInv
      <3>2. Head(inbox) \in 1..MaxArrivals
        BY <1>0, <1>3, EventTypes, TailFacts DEF FetchNextMsg
      <3>3. reply' = NextEvent(Head(inbox))
        BY <1>3, <2>2 DEF FetchNextMsg, Answer
      <3>4. reply'.kind = "event" /\ reply'.event \in 1..MaxArrivals
        BY <3>2, <3>3, Replies
      <3>5. process' \in {"in_next", "broken", "ended"}
        BY <1>0, <2>1, <2>2 DEF CallInv, InNext, Alive
      <3>6. reply'.event >= 1
        BY <3>4
      <3> QED
        BY <3>1, <3>4, <3>5, <3>6 DEF ReplyInv
    <2>3. CASE ~(serving = current /\ process \in Alive)
      <3>1. reply' = reply /\ (Owing' => Owing)
        BY <1>3, <2>1, <2>3 DEF FetchNextMsg, Answer, Owing
      <3> QED
        BY <1>0, <2>1, <3>1 DEF ReplyInv
    <2> QED
      BY <2>2, <2>3
  <1>4. CASE TakePublish
    <2>1. PICK r \in requests : r.kind = "publish" /\ Takes(r) /\ Emit(r.event)
                                 /\ Answer(r.from, MsgPublished)
      BY <1>4 DEF TakePublish
    <2>2. UNCHANGED <<thread, current, process, called>> /\ thread = "receiving"
      BY <1>0, <1>4, <2>1, TakesFacts DEF TakePublish
    <2>3. outbox' = Append(outbox, r.event)
      BY <2>1 DEF Emit
    <2>4. CASE r.from = current /\ process \in Alive
      <3>1. process' = "in_publish" /\ r.event = called'
        BY <1>0, <2>1, <2>2, <2>4 DEF CallInv, Alive
      <3>2. ~Owing'
        BY <1>0, <2>1, <2>2, <2>4, TakesFacts DEF Owing, QueueInv
      <3>3. \E k \in DOMAIN outbox' : outbox'[k] = called'
        <4>1. Len(outbox) + 1 \in DOMAIN outbox' /\ outbox'[Len(outbox) + 1] = called'
          BY <1>0, <2>3, <3>1, EventTypes
        <4> QED
          BY <4>1
      <3>4. reply' = MsgPublished
        BY <2>1, <2>4 DEF Answer
      <3> QED
        BY <3>1, <3>2, <3>3, <3>4, Replies DEF ReplyInv
    <2>5. CASE ~(r.from = current /\ process \in Alive)
      <3>1. reply' = reply
        BY <2>1, <2>5 DEF Answer
      <3>2. Owing' => Owing
        BY <1>0, <2>1, <2>2, TakesFacts DEF Owing
      <3>3. \A k \in DOMAIN outbox : k \in DOMAIN outbox' /\ outbox'[k] = outbox[k]
        BY <1>0, <2>3, EventTypes
      <3> QED
        BY <1>0, <2>2, <3>1, <3>2, <3>3 DEF ReplyInv
    <2> QED
      BY <2>4, <2>5
  <1>5. CASE CallNextMsg \/ CallPublish
    <2>1. reply' = NoReply
      BY <1>5, IdleOwesNothing DEF CallNextMsg, CallPublish
    <2> QED
      BY <2>1, Replies DEF ReplyInv
  <1>6. CASE ReturnNextMsg \/ ReturnPublish \/ Die
    <2>1. reply' = NoReply
      BY <1>6 DEF ReturnNextMsg, ReturnPublish, Die
    <2> QED
      BY <2>1, Replies DEF ReplyInv
  <1>7. CASE SendQuit
    <2>1. CASE process = "idle"
      <3>1. reply' = NoReply
        BY <1>7, <2>1, IdleOwesNothing DEF SendQuit
      <3> QED
        BY <3>1, Replies DEF ReplyInv
    <2>2. CASE process = "broken"
      BY <1>0, <1>7, <2>2 DEF SendQuit, ReplyInv, Owing
    <2> QED
      BY <1>7, <2>1, <2>2 DEF SendQuit
  <1>8. CASE Arrive \/ TimeOut
    BY <1>0, <1>8 DEF Arrive, TimeOut, ReplyInv, Owing
  <1>9. CASE Restart
    <2>1. reply' = NoReply
      <3>1. reply.kind \in {"none", "event", "msg published"}
        BY <1>0, ReplyType DEF TypeOK
      <3> QED
        BY <1>0, <1>9, <3>1 DEF Restart, ReplyInv
    <2> QED
      BY <2>1, Replies DEF ReplyInv
  <1> QED
    BY <1>2, <1>3, <1>4, <1>5, <1>6, <1>7, <1>8, <1>9 DEF Next, ThreadStep, ProcessStep

\* Events keep being in one place.
LEMMA OutboxInvKept ==
    ASSUME IInv, Next
    PROVE  OutboxInv'
  <1>0. TypeOK /\ OutboxInv /\ ReplyInv
    BY DEF IInv
  <1>1. /\ called \in Nat
        /\ outbox \in Seq(1..MaxPublished)
        /\ \A k \in DOMAIN outbox : outbox[k] \in Nat
        /\ \A r \in requests : r.event \in Nat
    BY <1>0, RequestTypes, EventTypes
  <1>2. CASE TakeNextMsg \/ TakeQuit
    <2>1. UNCHANGED <<called, outbox, confirmed>> /\ requests' \subseteq requests
      BY <1>2 DEF TakeNextMsg, TakeQuit, Takes
    <2> QED
      BY <1>0, <2>1 DEF OutboxInv
  <1>3. CASE TakePublish
    <2>1. PICK r \in requests : r.kind = "publish" /\ Takes(r) /\ Emit(r.event)
      BY <1>3 DEF TakePublish
    <2> DEFINE e == r.event
    <2>2. e >= 1 /\ e <= called /\ \A k \in DOMAIN outbox : outbox[k] # e
      BY <1>0, <2>1 DEF OutboxInv
    <2>3. e \in 1..MaxPublished
      BY <1>0, <2>2, RequestTypes, ExternalPluginAssumption
    <2>4. called' = called /\ confirmed' = confirmed
      BY <1>3 DEF TakePublish
    <2>5. \A q \in requests' : q \in requests /\ (q.kind = "publish" => q.event # e)
      BY <1>0, <2>1, TakesFacts DEF OutboxInv
    <2>6. outbox' = Append(outbox, e)
      BY <2>1 DEF Emit
    <2> HIDE DEF e
    <2>7. /\ \A k \in DOMAIN outbox : k \in DOMAIN outbox' /\ outbox'[k] = outbox[k]
          /\ \A k \in DOMAIN outbox' :
                (k \in DOMAIN outbox /\ outbox'[k] = outbox[k]) \/ (k = Len(outbox) + 1 /\ outbox'[k] = e)
          /\ \A k \in DOMAIN outbox : k \in Nat /\ k < Len(outbox) + 1
      BY <1>1, <2>3, <2>6, AppendFacts
    <2>8. e \notin confirmed
      BY <1>0, <2>2 DEF OutboxInv
    <2>9. \A k \in DOMAIN outbox' : outbox'[k] <= called'
      BY <1>0, <2>2, <2>4, <2>7 DEF OutboxInv
    <2>10. \A k, l \in DOMAIN outbox' : k # l => outbox'[k] # outbox'[l]
      BY <1>0, <2>2, <2>7 DEF OutboxInv
    <2>11. \A k, l \in DOMAIN outbox' :
              k < l /\ outbox'[l] < outbox'[k] => outbox'[l] \notin confirmed'
      <3> SUFFICES ASSUME NEW k \in DOMAIN outbox', NEW l \in DOMAIN outbox',
                          k < l, outbox'[l] < outbox'[k]
                   PROVE  outbox'[l] \notin confirmed
        BY <2>4
      <3>1. CASE outbox'[l] = e
        BY <2>8, <3>1
      <3>2. CASE outbox'[l] # e
        <4>1. l \in DOMAIN outbox /\ outbox'[l] = outbox[l]
          BY <2>7, <3>2
        <4>2. k \in DOMAIN outbox /\ outbox'[k] = outbox[k]
          <5>1. l \in Nat /\ l < Len(outbox) + 1 /\ Len(outbox) \in Nat
            BY <1>0, <2>7, <4>1, EventTypes
          <5>2. k # Len(outbox) + 1
            BY <5>1
          <5> QED
            BY <2>7, <5>2
        <4> QED
          BY <1>0, <4>1, <4>2 DEF OutboxInv
      <3> QED
        BY <3>1, <3>2
    <2>12. \A q \in requests' :
             q.kind = "publish" =>
               /\ q.event >= 1
               /\ q.event <= called'
               /\ \A k \in DOMAIN outbox' : outbox'[k] # q.event
      BY <1>0, <2>4, <2>5, <2>7 DEF OutboxInv
    <2>13. \A q, t \in requests' :
             q.kind = "publish" /\ t.kind = "publish" /\ q.event = t.event => q = t
      BY <1>0, <2>5 DEF OutboxInv
    <2>14. \A x \in confirmed' : \E k \in DOMAIN outbox' : outbox'[k] = x
      BY <1>0, <2>4, <2>7 DEF OutboxInv
    <2> QED
      BY <2>9, <2>10, <2>11, <2>12, <2>13, <2>14 DEF OutboxInv
  <1>4. CASE CallNextMsg \/ SendQuit
    <2>1. UNCHANGED <<called, outbox, confirmed>>
      BY <1>4 DEF CallNextMsg, SendQuit
    <2>2. \A q \in requests' : q.kind = "publish" => q \in requests
      <3>1. \A m \in Request : Send(m) /\ m.kind # "publish" =>
                \A q \in requests' : q.kind = "publish" => q \in requests
        BY <1>0, SendFacts
      <3> QED
        BY <1>0, <1>4, <3>1, Requests, Senders DEF CallNextMsg, SendQuit
    <2> QED
      BY <1>0, <2>1, <2>2 DEF OutboxInv
  <1>5. CASE CallPublish
    <2> DEFINE m == Publish(current, NextCall)
    <2>1. called' = called + 1 /\ NextCall = called + 1 /\ UNCHANGED <<outbox, confirmed>>
      BY <1>5 DEF CallPublish, NextCall
    <2>2. called + 1 \in 1..MaxPublished
      BY <1>1, <1>5, ExternalPluginAssumption DEF CallPublish
    <2>3. m \in Request /\ m.event = called + 1
      BY <1>0, <2>1, <2>2, Requests, Senders
    <2>4. Send(m)
      BY <1>5 DEF CallPublish
    <2> HIDE DEF m
    <2>5. \A q \in requests' : q \in requests \/ q = m
      BY <1>0, <2>3, <2>4, SendFacts
    <2>6. /\ \A k \in DOMAIN outbox : outbox[k] <= called
          /\ \A q \in requests : q.kind = "publish" => q.event >= 1 /\ q.event <= called
      BY <1>0 DEF OutboxInv
    <2>7. /\ \A k \in DOMAIN outbox : outbox[k] < m.event
          /\ \A q \in requests : q.kind = "publish" => q.event < m.event
      BY <1>1, <2>3, <2>6
    <2>8. \A k \in DOMAIN outbox' : outbox'[k] <= called'
      BY <1>1, <2>1, <2>6
    <2>9. \A q \in requests' :
             q.kind = "publish" =>
               /\ q.event >= 1
               /\ q.event <= called'
               /\ \A k \in DOMAIN outbox' : outbox'[k] # q.event
      <3> TAKE q \in requests'
      <3>1. CASE q = m
        BY <1>1, <2>1, <2>3, <2>7, <3>1
      <3>2. CASE q \in requests
        BY <1>0, <1>1, <2>1, <2>6, <3>2 DEF OutboxInv
      <3> QED
        BY <2>5, <3>1, <3>2
    <2>10. \A q, t \in requests' :
             q.kind = "publish" /\ t.kind = "publish" /\ q.event = t.event => q = t
      <3>1. \A q \in requests : q.kind = "publish" => q.event # m.event
        BY <1>1, <2>3, <2>7
      <3> QED
        BY <1>0, <2>5, <3>1 DEF OutboxInv
    <2> QED
      BY <1>0, <2>1, <2>8, <2>9, <2>10 DEF OutboxInv
  <1>6. CASE ReturnPublish
    <2>1. \E k \in DOMAIN outbox : outbox[k] = called
      BY <1>0, <1>6, ReplyType DEF ReturnPublish, ReplyInv, TypeOK
    <2>2. \A k, l \in DOMAIN outbox : outbox[l] < outbox[k] => outbox[l] # called
      BY <1>0, <1>1 DEF OutboxInv
    <2>3. UNCHANGED <<requests, called, outbox>> /\ confirmed' = confirmed \cup {called}
      BY <1>6 DEF ReturnPublish
    <2> QED
      BY <1>0, <2>1, <2>2, <2>3 DEF OutboxInv
  <1>7. CASE Die
    BY <1>0, <1>7, WithdrawFacts DEF Die, OutboxInv
  <1>8. CASE FetchNextMsg \/ Arrive \/ ReturnNextMsg \/ TimeOut \/ Restart
    BY <1>0, <1>8 DEF FetchNextMsg, Arrive, ReturnNextMsg, TimeOut, Restart, OutboxInv
  <1> QED
    BY <1>2, <1>3, <1>4, <1>5, <1>6, <1>7, <1>8 DEF Next, ThreadStep, ProcessStep

-----------------------------------------------------------------------------
(* Events for the plugin                                                   *)

\* A reply with an event has one of the events that can arrive.
LEMMA ReplyHasEvent ==
    ASSUME TypeOK, ReplyInv, reply.kind = "event"
    PROVE  reply.event \in 1..MaxArrivals
  <1>1. reply.event \in Nat /\ reply.event <= MaxArrivals
    BY ReplyType DEF TypeOK
  <1>2. reply.event >= 1
    BY DEF ReplyInv
  <1> QED
    BY <1>1, <1>2, ExternalPluginAssumption

\* Events keep being got in the order of their arrival.
LEMMA InboxInvKept ==
    ASSUME IInv, Next
    PROVE  InboxInv'
  <1>0. TypeOK /\ InboxInv /\ ReplyInv
    BY DEF IInv
  <1>1. CASE FetchNextMsg
    <2>1. /\ inbox # <<>> /\ inbox \in Seq(1..MaxArrivals)
          /\ inbox' = Tail(inbox) /\ UNCHANGED <<arrived, got>>
      BY <1>1, EventTypes, <1>0 DEF FetchNextMsg, Fetched
    <2>2. /\ Head(inbox) = inbox[1] /\ 1 \in DOMAIN inbox /\ inbox[1] \in 1..MaxArrivals
          /\ \A i \in DOMAIN inbox' :
                i \in Nat /\ i >= 1 /\ i + 1 \in DOMAIN inbox /\ inbox'[i] = inbox[i + 1]
      BY <2>1, TailFacts, TailElements
    <2>3. \A i, j \in DOMAIN inbox' : i < j => inbox'[i] < inbox'[j]
      <3> TAKE i, j \in DOMAIN inbox'
      <3>1. i < j => i + 1 < j + 1
        BY <2>2
      <3> QED
        BY <1>0, <2>2, <3>1 DEF InboxInv
    <2>4. \A i \in DOMAIN inbox' : inbox[1] < inbox'[i]
      <3> TAKE i \in DOMAIN inbox'
      <3>1. 1 < i + 1
        BY <2>2
      <3> QED
        BY <1>0, <2>2, <3>1 DEF InboxInv
    <2>5. /\ reply' = reply \/ reply' = NextEvent(inbox[1])
          /\ reply'.kind = "event" /\ reply' # reply => reply'.event = inbox[1]
      BY <1>1, <2>2, Replies DEF FetchNextMsg, Answer
    <2>6. reply'.kind = "event" =>
            /\ reply'.event <= Len(arrived')
            /\ \A k \in DOMAIN got' : got'[k] < reply'.event
            /\ \A i \in DOMAIN inbox' : reply'.event < inbox'[i]
      <3>1. CASE reply' = reply
        BY <1>0, <2>1, <2>2, <3>1 DEF InboxInv
      <3>2. CASE reply' # reply
        BY <1>0, <2>1, <2>2, <2>4, <2>5, <3>2 DEF InboxInv
      <3> QED
        BY <3>1, <3>2
    <2> QED
      BY <1>0, <2>1, <2>2, <2>3, <2>6 DEF InboxInv
  <1>2. CASE Arrive
    <2> DEFINE n == Len(arrived) + 1
    <2>1. n \in 1..MaxArrivals /\ n \in Nat /\ Len(arrived) < n
      BY <1>0, <1>2, EventTypes, ExternalPluginAssumption DEF Arrive
    <2>2. /\ arrived' = Append(arrived, n) /\ inbox' = Append(inbox, n)
          /\ UNCHANGED <<got, reply>>
      BY <1>2 DEF Arrive
    <2>3. /\ DOMAIN arrived' = 1..n /\ Len(arrived') = n
          /\ \A i \in 1..Len(arrived) : arrived'[i] = arrived[i]
          /\ arrived'[n] = n
      BY <1>0, <2>1, <2>2, EventTypes, AppendFacts
    <2>4. \A i \in DOMAIN arrived' : arrived'[i] = i
      <3>1. \A i \in 1..n : i \in 1..Len(arrived) \/ i = n
        BY <1>0, EventTypes
      <3> QED
        BY <1>0, <2>3, <3>1, EventTypes DEF InboxInv
    <2>5. /\ \A i \in DOMAIN inbox' :
                (i \in DOMAIN inbox /\ inbox'[i] = inbox[i]) \/ inbox'[i] = n
          /\ \A i, j \in DOMAIN inbox' : i < j => i \in DOMAIN inbox /\ inbox'[i] = inbox[i]
      BY <1>0, <2>1, <2>2, EventTypes, AppendElements
    <2>6. \A i \in DOMAIN inbox : inbox[i] \in Nat /\ inbox[i] < n
      BY <1>0, <2>1, EventTypes DEF InboxInv
    <2>7. \A k \in DOMAIN got : got[k] \in Nat
      BY <1>0, EventTypes
    <2>8. Len(arrived) \in Nat
      BY <1>0, EventTypes
    <2> HIDE DEF n
    <2>9. \A i \in DOMAIN inbox' : inbox'[i] <= Len(arrived')
      BY <2>1, <2>3, <2>5, <2>6
    <2>10. \A i, j \in DOMAIN inbox' : i < j => inbox'[i] < inbox'[j]
      BY <1>0, <2>5, <2>6 DEF InboxInv
    <2>11. \A k \in DOMAIN got : got[k] <= Len(arrived) /\ got[k] < n
      BY <1>0, <2>1, <2>7, <2>8 DEF InboxInv
    <2>12. \A k \in DOMAIN got' : \A i \in DOMAIN inbox' : got'[k] < inbox'[i]
      BY <1>0, <2>2, <2>5, <2>11 DEF InboxInv
    <2>13. \A k \in DOMAIN got' : got'[k] <= Len(arrived')
      BY <2>1, <2>2, <2>3, <2>7, <2>8, <2>11
    <2>14. reply'.kind = "event" =>
            /\ reply'.event <= Len(arrived')
            /\ \A k \in DOMAIN got' : got'[k] < reply'.event
            /\ \A i \in DOMAIN inbox' : reply'.event < inbox'[i]
      <3>1. reply.event \in Nat
        BY <1>0, ReplyType DEF TypeOK
      <3> QED
        BY <1>0, <2>1, <2>2, <2>3, <2>5, <2>8, <3>1 DEF InboxInv
    <2> QED
      BY <2>4, <2>9, <2>10, <2>12, <2>13, <2>14 DEF InboxInv
  <1>3. CASE ReturnNextMsg
    <2>1. reply.kind = "event" /\ reply.event \in Nat /\ reply.event >= 1
      BY <1>0, <1>3, ReplyType DEF ReturnNextMsg, ReplyInv, TypeOK
    <2>2. reply.event \in 1..MaxArrivals
      BY <1>0, <2>1, ReplyHasEvent
    <2>3. got' = Append(got, reply.event) /\ UNCHANGED <<arrived, inbox>> /\ reply' = NoReply
      BY <1>3 DEF ReturnNextMsg
    <2>4. \A k \in DOMAIN got' : (k \in DOMAIN got /\ got'[k] = got[k]) \/ got'[k] = reply.event
      BY <1>0, <2>2, <2>3, EventTypes, AppendElements
    <2>5. reply'.kind # "event"
      BY <2>3, Replies
    <2> QED
      BY <1>0, <2>1, <2>3, <2>4, <2>5 DEF InboxInv
  <1>4. CASE Die
    <2>1. reply'.kind # "event"
      BY <1>4, Replies DEF Die
    <2> QED
      BY <1>0, <1>4, <2>1 DEF Die, InboxInv
  <1>5. CASE TakePublish
    <2>1. reply' = reply \/ reply'.kind # "event"
      BY <1>5, Replies DEF TakePublish, Answer
    <2>2. UNCHANGED <<arrived, inbox, got>>
      BY <1>5 DEF TakePublish
    <2> QED
      BY <1>0, <2>1, <2>2 DEF InboxInv
  <1>6. CASE ReturnPublish
    <2>1. reply'.kind # "event"
      BY <1>6, Replies DEF ReturnPublish
    <2> QED
      BY <1>0, <1>6, <2>1 DEF ReturnPublish, InboxInv
  <1>7. CASE TakeNextMsg \/ TakeQuit \/ CallNextMsg \/ TimeOut \/ CallPublish \/ SendQuit \/ Restart
    BY <1>0, <1>7
    DEF TakeNextMsg, TakeQuit, CallNextMsg, TimeOut, CallPublish, SendQuit, Restart,
        InboxInv
  <1> QED
    BY <1>1, <1>2, <1>3, <1>4, <1>5, <1>6, <1>7 DEF Next, ThreadStep, ProcessStep

\* Events taken from the queue and not got; one of them may be in the reply that
\* the process waits for.
Taken == Len(arrived) - Len(inbox) - Len(got)
InReply == process = "in_next" /\ reply.kind = "event"

\* The events lost, as the taken ones that nobody got or can get.
LEMMA LostNow ==
    (InReply => Lost = Taken - 1) /\ (~InReply => Lost = Taken - 0)
  BY DEF Lost, Taken, InReply

\* The same after a step.
LEMMA LostNext ==
    (InReply' => Lost' = Taken' - 1) /\ (~InReply' => Lost' = Taken' - 0)
  BY DEF Lost, Taken, InReply

\* A step that leaves the events where they are.
LEMMA SameLoss ==
    ASSUME TypeOK, UNCHANGED <<arrived, inbox, got>>, InReply' = InReply
    PROVE  Lost' = Lost /\ Lost \in Int
  <1>1. Taken' = Taken /\ Taken \in Int
    BY EventTypes DEF Taken
  <1> QED
    BY <1>1, LostNow, LostNext

\* What makes the number of settled processes grow.
LEMMA SettledFacts ==
    ASSUME TypeOK
    PROVE  /\ Cardinality(Settled) \in Nat
           /\ Settled \subseteq 1..current
           /\ Cardinality(Settled) <= current
           /\ process \notin Gone => Cardinality(Settled) <= current - 1
  <1>1. current \in Nat /\ current >= 1
    BY EventTypes
  <1>2. Settled \subseteq 1..current
    BY DEF Settled
  <1>3. IsFiniteSet(1..current) /\ Cardinality(1..current) = current
    BY <1>1, FS_Interval
  <1>4. Cardinality(Settled) <= current /\ Cardinality(Settled) \in Nat
    BY <1>2, <1>3, FS_Subset, FS_CardinalityType
  <1>5. ASSUME process \notin Gone
        PROVE  Cardinality(Settled) <= current - 1
    <2>1. IsFiniteSet(1..(current - 1)) /\ Cardinality(1..(current - 1)) = current - 1
      BY <1>1, FS_Interval
    <2>2. Settled \subseteq 1..(current - 1)
      BY <1>1, <1>5 DEF Settled
    <2> QED
      BY <2>1, <2>2, FS_Subset
  <1> QED
    BY <1>2, <1>4, <1>5

\* No more is lost, and no process ceases to be settled.
LEMMA NoFurtherLoss ==
    ASSUME IInv, TypeOK', Lost' = Lost, Settled \subseteq Settled'
    PROVE  LossInv'
  <1>1. TypeOK /\ LossInv
    BY DEF IInv
  <1>2. current' \in Nat
    <2>1. current' \in 1..MaxProcesses
      BY DEF TypeOK
    <2> QED
      BY <2>1, ExternalPluginAssumption
  <1>3. IsFiniteSet(Settled')
    <2>1. Settled' \subseteq 1..current'
      BY DEF Settled
    <2>2. IsFiniteSet(1..current')
      BY <1>2, FS_Interval
    <2> QED
      BY <2>1, <2>2, FS_Subset
  <1>4. Cardinality(Settled) <= Cardinality(Settled') /\ Cardinality(Settled') \in Nat
    BY <1>3, FS_Subset, FS_CardinalityType
  <1>5. Lost \in Int /\ Cardinality(Settled) \in Nat
    BY <1>1, EventTypes, LostNow, SettledFacts DEF Taken
  <1> QED
    BY <1>1, <1>4, <1>5 DEF LossInv

\* An event is lost, for a process that is settled with that.
LEMMA LossSettles ==
    ASSUME IInv, TypeOK', Lost' = Lost + 1, Settled \subseteq Settled',
           NEW n \in Settled', n \notin Settled
    PROVE  LossInv'
  <1>1. TypeOK /\ LossInv
    BY DEF IInv
  <1>2. current' \in Nat
    <2>1. current' \in 1..MaxProcesses
      BY DEF TypeOK
    <2> QED
      BY <2>1, ExternalPluginAssumption
  <1>3. IsFiniteSet(Settled')
    <2>1. Settled' \subseteq 1..current'
      BY DEF Settled
    <2>2. IsFiniteSet(1..current')
      BY <1>2, FS_Interval
    <2> QED
      BY <2>1, <2>2, FS_Subset
  <1>4. IsFiniteSet(Settled)
    BY <1>3, FS_Subset
  <1>5. Cardinality(Settled \cup {n}) = Cardinality(Settled) + 1
    BY <1>4, FS_AddElement
  <1>6. Settled \cup {n} \in SUBSET Settled'
    OBVIOUS
  <1>7. Cardinality(Settled \cup {n}) <= Cardinality(Settled') /\ Cardinality(Settled') \in Nat
    BY <1>3, <1>6, FS_Subset, FS_CardinalityType
  <1>8. Lost \in Int /\ Cardinality(Settled) \in Nat
    BY <1>1, EventTypes, LostNow, SettledFacts DEF Taken
  <1> QED
    BY <1>1, <1>5, <1>7, <1>8 DEF LossInv

\* A process keeps costing one event at most.
LEMMA LossInvKept ==
    ASSUME IInv, Next, TypeOK'
    PROVE  LossInv'
  <1>0. TypeOK /\ LossInv /\ ReplyInv /\ QueueInv /\ CallInv
    BY DEF IInv
  <1>1. Taken \in Int /\ Lost \in Int
    BY <1>0, EventTypes, LostNow DEF Taken
  <1> USE Senders
  <1>2. CASE TakeNextMsg
    <2>1. Lost' = Lost
      BY <1>0, <1>2, SameLoss DEF TakeNextMsg, InReply
    <2>2. Settled \subseteq Settled'
      BY <1>0, <1>2, TakesFacts DEF TakeNextMsg, Settled
    <2> QED
      BY <2>1, <2>2, NoFurtherLoss
  <1>3. CASE TakeQuit
    <2>1. Lost' = Lost
      BY <1>0, <1>3, SameLoss DEF TakeQuit, InReply
    <2>2. Settled \subseteq Settled'
      BY <1>0, <1>3, TakesFacts DEF TakeQuit, Break, Settled
    <2> QED
      BY <2>1, <2>2, NoFurtherLoss
  <1>4. CASE TakePublish
    <2>1. PICK r \in requests : r.kind = "publish" /\ Takes(r) /\ Answer(r.from, MsgPublished)
      BY <1>4 DEF TakePublish
    <2>2. UNCHANGED <<thread, process, current, arrived, inbox, got>> /\ thread = "receiving"
      BY <1>0, <1>4, <2>1, TakesFacts DEF TakePublish
    <2>3. InReply' = InReply
      <3>1. CASE r.from = current /\ process \in Alive
        <4>1. process # "in_next"
          BY <1>0, <2>1, <3>1 DEF CallInv
        <4> QED
          BY <2>2, <4>1 DEF InReply
      <3>2. CASE ~(r.from = current /\ process \in Alive)
        BY <2>1, <2>2, <3>2 DEF Answer, InReply
      <3> QED
        BY <3>1, <3>2
    <2>4. Lost' = Lost
      BY <1>0, <2>2, <2>3, SameLoss
    <2>5. Settled \subseteq Settled'
      BY <1>0, <2>1, <2>2, TakesFacts DEF Settled
    <2> QED
      BY <2>4, <2>5, NoFurtherLoss
  <1>5. CASE FetchNextMsg
    <2>1. /\ thread = "fetching" /\ thread' = "receiving"
          /\ UNCHANGED <<serving, requests, process, current, arrived, got>>
      BY <1>5 DEF FetchNextMsg
    <2>2. Taken' = Taken + 1
      <3>1. Len(inbox') = Len(inbox) - 1
        BY <1>0, <1>5, EventTypes, TailFacts DEF FetchNextMsg, Fetched
      <3> QED
        BY <1>0, <2>1, <3>1, EventTypes DEF Taken
    <2>3. Settled \subseteq Settled'
      BY <2>1 DEF Settled
    <2>4. CASE serving = current /\ process = "in_next"
      <3>1. InReply' /\ ~InReply
        <4>1. Head(inbox) \in 1..MaxArrivals
          BY <1>0, <1>5, EventTypes, TailFacts DEF FetchNextMsg
        <4>2. reply = NoReply
          BY <2>1, <2>4, NoReplyYet DEF Owing
        <4> QED
          BY <1>5, <2>4, <4>1, <4>2, Replies DEF FetchNextMsg, Answer, InReply, Alive
      <3>2. Lost' = Lost
        BY <1>1, <2>2, <3>1, LostNow, LostNext
      <3> QED
        BY <2>3, <3>2, NoFurtherLoss
    <2>5. CASE ~(serving = current /\ process = "in_next")
      <3>1. InReply' = InReply
        BY <1>5, <2>1, <2>5 DEF FetchNextMsg, Answer, InReply
      <3>2. Lost' = Lost + 1
        BY <1>1, <2>2, <3>1, LostNow, LostNext
      <3>3. serving \in 1..current /\ serving \notin Settled
        BY <1>0, <2>1 DEF QueueInv, Settled
      <3>4. serving = current => process \in Gone
        BY <1>0, <2>1, <2>5 DEF CallInv, InNext, Gone
      <3>5. serving \in Settled'
        BY <1>0, <2>1, <3>3, <3>4 DEF QueueInv, Settled
      <3> QED
        BY <2>3, <3>2, <3>3, <3>5, LossSettles
    <2> QED
      BY <2>4, <2>5
  <1>6. CASE Arrive
    <2>1. Taken' = Taken
      <3>1. Len(arrived) + 1 \in 1..MaxArrivals
        BY <1>0, <1>6, EventTypes, ExternalPluginAssumption DEF Arrive
      <3>2. Len(arrived') = Len(arrived) + 1 /\ Len(inbox') = Len(inbox) + 1 /\ got' = got
        BY <1>0, <1>6, <3>1, EventTypes, AppendFacts DEF Arrive
      <3> QED
        BY <1>0, <3>2, EventTypes DEF Taken
    <2>2. InReply' = InReply
      BY <1>6 DEF Arrive, InReply
    <2>3. Lost' = Lost
      BY <2>1, <2>2, LostNow, LostNext
    <2>4. Settled \subseteq Settled'
      BY <1>6 DEF Arrive, Settled
    <2> QED
      BY <2>3, <2>4, NoFurtherLoss
  <1>7. CASE CallNextMsg \/ CallPublish
    <2>1. /\ process = "idle"
          /\ UNCHANGED <<current, thread, serving, arrived, inbox, got, reply>>
      BY <1>7 DEF CallNextMsg, CallPublish
    <2>2. Lost' = Lost
      BY <1>0, <2>1, IdleOwesNothing, SameLoss, Replies DEF InReply
    <2>3. \A r \in requests' : r \in requests \/ r.from = current
      <3>1. CASE CallNextMsg
        BY <1>0, <3>1, SendFacts, Requests DEF CallNextMsg
      <3>2. CASE CallPublish
        <4>1. NextCall \in 1..MaxPublished
          BY <1>0, <3>2, EventTypes, ExternalPluginAssumption DEF CallPublish, NextCall
        <4> QED
          BY <1>0, <3>2, <4>1, SendFacts, Requests DEF CallPublish
      <3> QED
        BY <1>7, <3>1, <3>2
    <2>4. Settled \subseteq Settled'
      BY <2>1, <2>3 DEF Settled, Gone
    <2> QED
      BY <2>2, <2>4, NoFurtherLoss
  <1>8. CASE SendQuit
    <2>1. UNCHANGED <<current, thread, serving, arrived, inbox, got, reply>>
      BY <1>8 DEF SendQuit
    <2>2. Lost' = Lost
      BY <1>0, <1>8, <2>1, SameLoss DEF SendQuit, InReply
    <2>3. CASE process = "idle"
      <3>1. \A r \in requests' : r \in requests \/ r.from = current
        BY <1>0, <1>8, <2>3, SendFacts, Requests DEF SendQuit
      <3>2. Settled \subseteq Settled'
        BY <2>1, <2>3, <3>1 DEF Settled, Gone
      <3> QED
        BY <2>2, <3>2, NoFurtherLoss
    <2>4. CASE process = "broken"
      <3>1. requests' = requests /\ process' = "ended"
        BY <1>8, <2>4 DEF SendQuit
      <3>2. Settled \subseteq Settled'
        BY <2>1, <3>1 DEF Settled, Gone
      <3> QED
        BY <2>2, <3>2, NoFurtherLoss
    <2> QED
      BY <1>8, <2>3, <2>4 DEF SendQuit
  <1>9. CASE ReturnNextMsg
    <2>1. InReply /\ ~InReply'
      BY <1>0, <1>9, ReplyType, Replies DEF ReturnNextMsg, ReplyInv, TypeOK, InReply
    <2>2. Taken' = Taken - 1
      <3>1. reply.event \in 1..MaxArrivals
        BY <1>0, <2>1, ReplyHasEvent DEF InReply
      <3>2. Len(got') = Len(got) + 1 /\ UNCHANGED <<arrived, inbox>>
        BY <1>0, <1>9, <3>1, EventTypes, AppendFacts DEF ReturnNextMsg
      <3> QED
        BY <1>0, <3>2, EventTypes DEF Taken
    <2>3. Lost' = Lost
      BY <1>1, <2>1, <2>2, LostNow, LostNext
    <2>4. Settled \subseteq Settled'
      BY <1>9 DEF ReturnNextMsg, Settled, Gone
    <2> QED
      BY <2>3, <2>4, NoFurtherLoss
  <1>10. CASE ReturnPublish
    <2>1. Lost' = Lost
      BY <1>0, <1>10, SameLoss DEF ReturnPublish, InReply
    <2>2. Settled \subseteq Settled'
      BY <1>10 DEF ReturnPublish, Settled, Gone
    <2> QED
      BY <2>1, <2>2, NoFurtherLoss
  <1>11. CASE TimeOut \/ Die
    <2>1. UNCHANGED <<current, thread, serving, arrived, inbox, got>> /\ process' \in Gone
      BY <1>11 DEF TimeOut, Die, Gone
    <2>2. Taken' = Taken /\ ~InReply'
      BY <1>11, <2>1 DEF TimeOut, Die, Taken, InReply
    <2>3. \A r \in requests' : r \in requests
      BY <1>11, WithdrawFacts DEF TimeOut, Die
    <2>4. Settled \subseteq Settled'
      BY <2>1, <2>3 DEF Settled
    <2>5. CASE InReply
      <3>1. Lost' = Lost + 1
        BY <1>1, <2>2, <2>5, LostNow, LostNext
      <3>2. ~Owing /\ process \notin Gone
        BY <1>0, <2>5, Replies DEF ReplyInv, InReply, Gone
      <3>3. current \in 1..current
        BY <1>0, EventTypes
      <3>4. current \in Settled' /\ current \notin Settled
        BY <2>1, <2>3, <3>2, <3>3 DEF Owing, Settled
      <3> QED
        BY <2>4, <3>1, <3>4, LossSettles
    <2>6. CASE ~InReply
      <3>1. Lost' = Lost
        BY <1>1, <2>2, <2>6, LostNow, LostNext
      <3> QED
        BY <2>4, <3>1, NoFurtherLoss
    <2> QED
      BY <2>5, <2>6
  <1>12. CASE Restart
    <2>1. Lost' = Lost
      BY <1>0, <1>12, SameLoss DEF Restart, InReply
    <2>2. current' = current + 1 /\ UNCHANGED <<thread, serving, requests>>
      BY <1>12 DEF Restart
    <2>3. Settled \subseteq Settled'
      BY <1>0, <2>2 DEF Settled
    <2> QED
      BY <2>1, <2>3, NoFurtherLoss
  <1> QED
    BY <1>2, <1>3, <1>4, <1>5, <1>6, <1>7, <1>8, <1>9, <1>10, <1>11, <1>12
    DEF Next, ThreadStep, ProcessStep

-----------------------------------------------------------------------------
(* Theorems                                                                *)

\* The inductive invariant holds at first.
LEMMA InitIInv == Init => IInv
  <1> SUFFICES ASSUME Init
               PROVE  IInv
    OBVIOUS
  <1>1. TypeOK
    BY InitTypeOK
  <1>2. /\ requests = {} /\ DOMAIN inbox = {} /\ DOMAIN arrived = {}
        /\ DOMAIN got = {} /\ DOMAIN outbox = {}
    BY DEF Init
  <1>3. Lost = 0
    <2>1. Len(arrived) = 0 /\ Len(inbox) = 0 /\ Len(got) = 0 /\ ~InReply
      BY Replies DEF Init, InReply
    <2> QED
      BY <2>1, LostNow DEF Taken
  <1>4. QueueInv /\ CallInv /\ OutboxInv
    BY <1>2 DEF Init, QueueInv, CallInv, OutboxInv
  <1>5. ReplyInv /\ InboxInv
    BY <1>2, Replies DEF Init, ReplyInv, InboxInv, Owing
  <1>6. LossInv
    <2>1. Cardinality(Settled) \in Nat
      BY <1>1, SettledFacts
    <2> QED
      BY <1>3, <2>1 DEF LossInv
  <1> QED
    BY <1>1, <1>4, <1>5, <1>6 DEF IInv

\* A step that changes nothing keeps it.
LEMMA IInvUnchanged ==
    ASSUME IInv, UNCHANGED vars
    PROVE  IInv'
  BY DEF IInv, vars, TypeOK, QueueInv, CallInv, ReplyInv, Owing, OutboxInv, InboxInv,
     LossInv, Lost, Settled

\* The inductive invariant of the dialogue: who has asked, who is served, what has
\* been answered and what each departed process has cost.
THEOREM InductiveInvariant == Spec => []IInv
  <1>1. IInv /\ [Next]_vars => IInv'
    <2> SUFFICES ASSUME IInv, [Next]_vars
                 PROVE  IInv'
      OBVIOUS
    <2>1. CASE Next
      <3>1. TypeOK'
        BY <2>1, ThreadTypeOK, ProcessTypeOK DEF Next
      <3> QED
        BY <2>1, <3>1, QueueInvKept, CallInvKept, ReplyInvKept, OutboxInvKept, InboxInvKept,
           LossInvKept DEF IInv
    <2> QED
      BY <2>1, IInvUnchanged
  <1> QED
    BY InitIInv, <1>1, PTL DEF Spec

\* The sockets, the thread and the process only ever hold values of their types.
THEOREM TypeCorrect == Spec => []TypeOK
  <1>1. IInv => TypeOK
    BY DEF IInv
  <1> QED
    BY InductiveInvariant, <1>1, PTL

\* An answer of ExternalPlugin::start is an answer to the call the process made,
\* however many processes died waiting for theirs.
THEOREM AnswersFitCalls == Spec => []ReplyFitsCall
  <1>1. IInv => ReplyFitsCall
    BY DEF IInv, ReplyInv, ReplyFitsCall
  <1> QED
    BY InductiveInvariant, <1>1, PTL

\* What publish_msg sends is published once, and before it returns; no later call
\* overtakes one that has returned.
THEOREM PublishedOnce == Spec => []PublishedAsConfirmed
  <1>1. IInv => PublishedAsConfirmed
    BY DEF IInv, OutboxInv, PublishedAsConfirmed
  <1> QED
    BY InductiveInvariant, <1>1, PTL

\* A process that dies or times out costs its successors one event at most.
THEOREM OneLossEach == Spec => []OneLossPerProcess
  <1>1. IInv => OneLossPerProcess
    <2> SUFFICES ASSUME IInv
                 PROVE  OneLossPerProcess
      OBVIOUS
    <2>1. TypeOK /\ LossInv
      BY DEF IInv
    <2>2. current \in Nat /\ Lost \in Int
      BY <2>1, EventTypes, LostNow DEF Taken
    <2>3. Lost <= Cardinality(Settled)
      BY <2>1 DEF LossInv
    <2>4. CASE process \in Gone
      <3>1. Lost <= current
        BY <2>1, <2>2, <2>3, SettledFacts
      <3> QED
        BY <2>4, <3>1 DEF Gone, OneLossPerProcess
    <2>5. CASE process \notin Gone
      <3>1. Lost <= current - 1
        BY <2>1, <2>2, <2>3, <2>5, SettledFacts
      <3> QED
        BY <2>5, <3>1 DEF Gone, OneLossPerProcess
    <2> QED
      BY <2>4, <2>5
  <1> QED
    BY InductiveInvariant, <1>1, PTL

\* An event that reaches the queue is the next of the log.
LEMMA ArriveIsTake ==
    ASSUME IInv, Arrive
    PROVE  \E e \in 1..MaxArrivals : L!Take(e)
  <1>1. TypeOK /\ InboxInv
    BY DEF IInv
  <1>2. Len(arrived) + 1 \in 1..MaxArrivals
    BY <1>1, EventTypes, ExternalPluginAssumption DEF Arrive
  <1>3. ~L!InLog(Len(arrived) + 1)
    BY <1>1, EventTypes DEF InboxInv, L!InLog
  <1>4. L!Take(Len(arrived) + 1)
    BY <1>3 DEF Arrive, L!Take
  <1> QED
    BY <1>2, <1>4

\* An event that get_next_msg returns is ahead of all it has returned.
LEMMA ReturnIsDeliver ==
    ASSUME IInv, ReturnNextMsg
    PROVE  L!Deliver("plugin")
  <1>1. TypeOK /\ ReplyInv /\ InboxInv
    BY DEF IInv
  <1>2. reply.kind = "event"
    BY <1>1, ReplyType DEF ReturnNextMsg, ReplyInv, TypeOK
  <1> DEFINE n == reply.event
  <1>3. n \in 1..MaxArrivals /\ n <= Len(arrived) /\ \A k \in DOMAIN got : got[k] < n
    BY <1>1, <1>2, ReplyHasEvent DEF InboxInv
  <1>4. n \in DOMAIN arrived /\ arrived[n] = n
    <2>1. n \in 1..Len(arrived)
      BY <1>1, <1>3, EventTypes, ExternalPluginAssumption
    <2> QED
      BY <1>1, <2>1, EventTypes DEF InboxInv
  <1>5. got' = Append(got, arrived[n]) /\ arrived' = arrived
    BY <1>4 DEF ReturnNextMsg
  <1> HIDE DEF n
  <1>6. L!AheadOf("plugin", n)
    <2>1. ASSUME NEW j \in n..Len(arrived), NEW k \in DOMAIN got
          PROVE  got[k] # arrived[j]
      <3>1. j \in DOMAIN arrived /\ j >= n /\ j \in Nat /\ n \in Nat
        BY <1>1, <1>3, <2>1, EventTypes
      <3>2. arrived[j] = j /\ got[k] < n /\ got[k] \in Nat
        BY <1>1, <1>3, <3>1, EventTypes DEF InboxInv
      <3> QED
        BY <3>1, <3>2
    <2> QED
      BY <2>1 DEF L!AheadOf
  <1>7. [r \in {"plugin"} |-> got'] = [[r \in {"plugin"} |-> got] EXCEPT !["plugin"] = Append(@, arrived[n])]
    BY <1>5
  <1> QED
    BY <1>4, <1>5, <1>6, <1>7 DEF L!Deliver, Wants

\* To its processes, one after another, ExternalPlugin::start is a log of events
\* read forwards: none is seen twice, none out of order.
THEOREM RefinesLog == Spec => ImplementsLog
  <1>1. Init => L!Init
    BY DEF Init, L!Init
  <1>2. IInv /\ [Next]_vars => [L!Next]_(L!vars)
    <2> SUFFICES ASSUME IInv, [Next]_vars
                 PROVE  [L!Next]_(L!vars)
      OBVIOUS
    <2>1. CASE Arrive
      BY <2>1, ArriveIsTake DEF L!Next
    <2>2. CASE ReturnNextMsg
      BY <2>2, ReturnIsDeliver DEF L!Next
    <2>3. CASE UNCHANGED <<arrived, got>>
      BY <2>3 DEF L!vars
    <2> QED
      BY <2>1, <2>2, <2>3
      DEF Next, ThreadStep, ProcessStep, vars, TakeNextMsg, FetchNextMsg, TakePublish,
          TakeQuit,
          CallNextMsg, TimeOut, CallPublish, ReturnPublish, SendQuit, Die, Restart
  <1> QED
    BY InductiveInvariant, <1>1, <1>2, PTL DEF Spec, ImplementsLog, L!Spec
=============================================================================
