---------------------------- MODULE Subscriptions ----------------------------
(***************************************************************************)
(* The subscriptions/listen streams of one worker: SubscriptionManager     *)
(* (core/sse.py) and the response that consumes a stream                   *)
(* (_subscription_response, mcp/routes.py), with the cross-worker broker.  *)
(*                                                                         *)
(* No critical section of the manager's lock contains an await, so the     *)
(* lock is never waited for: open, publish, disconnect and the closing     *)
(* loop of close_all are one step of the event loop each.  What            *)
(* interleaves is the consumer of each stream, its client, the broker task *)
(* and the two halves of close_all.                                        *)
(*                                                                         *)
(* An event is its number in the order of publication, and an accepted     *)
(* filter is the set of events it matches.                                 *)
(***************************************************************************)
EXTENDS Naturals, Sequences, FiniteSets

CONSTANTS
  Listeners,     \* subscriptions/listen requests
  Filters,       \* what a request may ask for
  Capacity,      \* stream_queue_capacity
  MaxStreams,    \* the largest max_streams considered
  MaxEvents      \* bound: events published

Events == 1..MaxEvents

ASSUME SubscriptionAssumption ==
  /\ Capacity \in Nat \ {0} /\ MaxStreams \in Nat /\ MaxEvents \in Nat
  /\ Filters \subseteq SUBSET Events

VARIABLES
  limit,       \* max_streams
  channels,    \* a ChannelsPlugin was supplied
  broker,      \* the broker task
  feed,        \* events the broker has for this worker
  published,   \* events published so far, by any worker
  streams,     \* per request its subscription and the place of its consumer
  shutdown     \* how far close_all has come

vars == <<limit, channels, broker, feed, published, streams, shutdown>>

\* Messages; the last is the sentinel of the queue and is never sent.
Ack == [kind |-> "acknowledged", event |-> 0]
Notification(e) == [kind |-> "notification", event |-> e]
Complete == [kind |-> "complete", event |-> 0]
Closed == [kind |-> "closed", event |-> 0]
Garbled == 0              \* an event of the broker that does not decode

NoStream == [at |-> "none", registered |-> FALSE, closed |-> FALSE, queue |-> <<>>,
             filter |-> {}, held |-> Ack, sent |-> <<>>, due |-> <<>>]

Registered == {l \in Listeners : streams[l].registered}

Init ==
  /\ limit \in 1..MaxStreams
  /\ channels \in BOOLEAN
  /\ broker = IF channels THEN "sleeping" ELSE "off"
  /\ feed = <<>>
  /\ published = 0
  /\ streams = [l \in Listeners |-> NoStream]
  /\ shutdown = "none"

-----------------------------------------------------------------------------
(* Queues *)

Full(s) == Len(s.queue) >= Capacity
Put(s, m) == [s EXCEPT !.queue = Append(@, m)]

\* _close: the sentinel is left out when there is no room for it.
Close(s) == LET c == [s EXCEPT !.closed = TRUE] IN IF Full(c) THEN c ELSE Put(c, Closed)

\* The response is left out when there is no room for it.
FaultEnd(s) == Close(IF Full(s) THEN s ELSE Put(s, Complete))

\* _complete: what is undelivered is dropped when there is no room for the response.
End(s) == Close(Put(IF Full(s) THEN [s EXCEPT !.queue = <<>>] ELSE s, Complete))

Remove(s) == [s EXCEPT !.registered = FALSE]

\* disconnect, without effect for a stream that was removed before.
Disconnect(s) == IF s.registered THEN Close(Remove(s)) ELSE s

-----------------------------------------------------------------------------
(* The manager *)

Limited == Cardinality(Registered) >= limit

Open(l) ==
  /\ streams[l].at = "none"
  /\ \/ /\ ~Limited
        /\ \E f \in Filters :
             streams' = [streams EXCEPT ![l] =
               [NoStream EXCEPT !.at = "opened", !.registered = TRUE, !.queue = <<Ack>>,
                                !.filter = f, !.due = <<Ack>>]]
     \/ /\ Limited
        /\ streams' = [streams EXCEPT ![l].at = "refused"]
  /\ UNCHANGED <<limit, channels, broker, feed, published, shutdown>>

\* A slow subscriber misses the event and stays.
FaultOffer(s, e) ==
  IF ~s.registered \/ e \notin s.filter \/ Full(s) THEN s ELSE Put(s, Notification(e))

\* What an event does to one stream: a full queue ends it.
Offer(s, e) ==
  IF ~s.registered \/ e \notin s.filter THEN s
  ELSE IF Full(s) THEN End(Remove(s)) ELSE Put(s, Notification(e))

\* History: what a stream is owed since it was opened, whether it still is registered or not.
Owe(s, e) == IF e \in s.filter THEN [s EXCEPT !.due = Append(@, Notification(e))] ELSE s

PublishLocal(e) == streams' = [l \in Listeners |-> Offer(Owe(streams[l], e), e)]

\* publish in this worker, or in another one that shares the broker.
Publish ==
  /\ published < MaxEvents
  /\ published' = published + 1
  /\ IF channels
       THEN /\ feed' = IF broker = "subscribed" THEN Append(feed, published') ELSE feed
            /\ UNCHANGED streams
       ELSE PublishLocal(published') /\ UNCHANGED feed
  /\ UNCHANGED <<limit, channels, broker, shutdown>>

-----------------------------------------------------------------------------
(* The broker task *)

Subscribe ==
  /\ broker = "sleeping"
  /\ broker' = "subscribed"
  /\ UNCHANGED <<limit, channels, feed, published, streams, shutdown>>

\* Somebody else writes to the channel.
Garble ==
  /\ broker = "subscribed"
  /\ Garbled \notin {feed[i] : i \in DOMAIN feed}
  /\ feed' = Append(feed, Garbled)
  /\ UNCHANGED <<limit, channels, broker, published, streams, shutdown>>

\* An event that does not decode is ignored.
Receive ==
  /\ broker = "subscribed"
  /\ feed # <<>>
  /\ feed' = Tail(feed)
  /\ IF Head(feed) = Garbled THEN UNCHANGED streams ELSE PublishLocal(Head(feed))
  /\ UNCHANGED <<limit, channels, broker, published, shutdown>>

\* The backend fails or its stream ends; events meanwhile do not come back.
BrokerFails ==
  /\ broker = "subscribed"
  /\ broker' = "sleeping"
  /\ feed' = <<>>
  /\ UNCHANGED <<limit, channels, published, streams, shutdown>>

-----------------------------------------------------------------------------
(* close_all: the broker task is cancelled and awaited, then the streams are ended. *)

StopBroker ==
  /\ shutdown = "none"
  /\ shutdown' = "stopping"
  /\ broker' = "off"
  /\ feed' = <<>>
  /\ UNCHANGED <<limit, channels, published, streams>>

CloseAll ==
  /\ shutdown = "stopping"
  /\ shutdown' = "done"
  /\ streams' = [l \in Listeners |-> IF streams[l].registered THEN End(Remove(streams[l]))
                                                              ELSE streams[l]]
  /\ UNCHANGED <<limit, channels, broker, feed, published>>

-----------------------------------------------------------------------------
(* The response *)

ConsumerStep(l, s) ==
  /\ streams' = [streams EXCEPT ![l] = s]
  /\ UNCHANGED <<limit, channels, broker, feed, published, shutdown>>

\* The first iteration of event_stream.
StartResponse(l) ==
  /\ streams[l].at = "opened"
  /\ ConsumerStep(l, [streams[l] EXCEPT !.at = "next"])

\* The sentinel alone ends the stream.
FaultNext(l) ==
  /\ streams[l].at = "next"
  /\ ConsumerStep(l, [streams[l] EXCEPT !.at = "waiting"])

\* What is left of a stream whose consumer is through: its queue is out of reach.
Done(s, at) == [Disconnect(s) EXCEPT !.at = at, !.queue = <<>>, !.held = Ack]

\* A step of the generator up to queue.get: it ends, or waits.
Next_(l) ==
  /\ streams[l].at = "next"
  /\ ConsumerStep(l, IF streams[l].closed /\ streams[l].queue = <<>>
                       THEN Done(streams[l], "ended")
                       ELSE [streams[l] EXCEPT !.at = "waiting"])

\* queue.get returns.
Get(l) ==
  LET s == streams[l]
      rest == [s EXCEPT !.queue = Tail(@)]
  IN  /\ s.at = "waiting" /\ s.queue # <<>>
      /\ ConsumerStep(l, IF Head(s.queue) = Closed
                           THEN Done(rest, "ended")
                           ELSE [rest EXCEPT !.at = "sending", !.held = Head(s.queue)])

\* The client takes what event_stream yields.
Send(l) ==
  /\ streams[l].at = "sending"
  /\ ConsumerStep(l, [streams[l] EXCEPT !.at = "next", !.held = Ack,
                                        !.sent = Append(@, streams[l].held)])

\* No finally.
FaultLeave(l) ==
  /\ streams[l].at \in {"opened", "next", "waiting", "sending"}
  /\ ConsumerStep(l, [streams[l] EXCEPT !.at = "gone"])

\* The client goes away.  A response that was iterated runs its finally; the generators of
\* one that never was do not.  The history of a stream without a client is forgotten.
Leave(l) ==
  \/ /\ streams[l].at = "opened"
     /\ ConsumerStep(l, [streams[l] EXCEPT !.at = "abandoned"])
  \/ /\ streams[l].at \in {"next", "waiting", "sending"}
     /\ ConsumerStep(l, [Done(streams[l], "gone") EXCEPT !.sent = <<>>, !.due = <<>>, !.filter = {}])

Consume(l) == StartResponse(l) \/ Next_(l) \/ Get(l) \/ Send(l)

Next ==
  \/ \E l \in Listeners : Open(l) \/ Consume(l) \/ Leave(l)
  \/ Publish \/ Subscribe \/ Garble \/ Receive \/ BrokerFails \/ StopBroker \/ CloseAll

\* The event loop serves every consumer, and a client reads what it is sent or goes away.
Fairness ==
  /\ \A l \in Listeners : WF_vars(Consume(l))
  /\ WF_vars(Receive)
  /\ WF_vars(Subscribe)

Spec == Init /\ [][Next]_vars /\ Fairness

-----------------------------------------------------------------------------
(* Properties *)

Owed == {Ack} \union {Notification(e) : e \in Events}
Message == Owed \union {Complete}

Stream ==
  [at : {"none", "refused", "opened", "next", "waiting", "sending", "ended", "gone", "abandoned"},
   registered : BOOLEAN, closed : BOOLEAN, filter : SUBSET Events, held : Message,
   queue : Seq(Message \union {Closed}), sent : Seq(Message), due : Seq(Owed)]

TypeOK ==
  /\ limit \in 1..MaxStreams /\ channels \in BOOLEAN
  /\ broker \in {"off", "sleeping", "subscribed"}
  /\ feed \in Seq(Events \union {Garbled})
  /\ published \in 0..MaxEvents
  /\ streams \in [Listeners -> Stream]
  /\ \A l \in Listeners : Len(streams[l].queue) <= Capacity
  /\ shutdown \in {"none", "stopping", "done"}
  /\ Cardinality(Registered) <= limit

\* All a client has got and would get if it read on: what was sent, what is in the hand of
\* the consumer, and the queue.
InHand(s) == IF s.at = "sending" THEN <<s.held>> ELSE <<>>
Flow(s) == s.sent \o InHand(s) \o s.queue

\* The client gets its acknowledgement and the matching events in order and without a gap,
\* whatever was dropped when its queue overflowed: what it misses comes after all it got
\* (core/sse.py:102).  A stream that is still registered owes its client exactly what it
\* holds.
NothingLost ==
  /\ \A l \in Listeners :
       LET s == streams[l]
       IN  \A i \in DOMAIN s.sent :
             s.sent[i] # Complete => i <= Len(s.due) /\ s.sent[i] = s.due[i]
  /\ \A l \in Registered : Flow(streams[l]) = streams[l].due

\* "A subscriber that falls behind receives the resultType: "complete" response for its
\* subscription and is then closed" (docs/changelog.md:135), and so does one at shutdown:
\* a stream ends with its response, which comes once and last.
EndsWithResponse ==
  \A l \in Listeners :
    LET s == streams[l]
    IN  /\ \A i \in 1..(Len(s.sent) - 1) : s.sent[i] # Complete
        /\ s.at = "ended" => s.sent # <<>> /\ s.sent[Len(s.sent)] = Complete

\* A stream counts against max_streams only while it has a consumer, except when its
\* response was never iterated (mcp/routes.py:523).
NoLeak ==
  \A l \in Registered : streams[l].at \in {"opened", "next", "waiting", "sending", "abandoned"}

\* A stream that was closed, for overflow or at shutdown, ends for a client that reads:
\* the consumer is woken even when the queue has no room for the sentinel.
ClosedEnds ==
  \A l \in Listeners :
    streams[l].closed ~> streams[l].at \in {"ended", "gone", "abandoned"}

=============================================================================
