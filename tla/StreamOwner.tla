----------------------------- MODULE StreamOwner -----------------------------
(***************************************************************************)
(* One request answered by a stream (core/_streaming.py) and its handler:  *)
(* a progress response of the MCP route, an A2A stream, or an agent chat.  *)
(*                                                                         *)
(* The producer is a task of its own that fills a bounded channel.  The    *)
(* request reads the channel, first inside the handler (prefetch, not for  *)
(* progress) and then inside the generator of the response.  The owner is  *)
(* closed when the generator ends and again by StreamCleanupMiddleware:    *)
(* a request cancelled while a message is being sent leaves its generator  *)
(* suspended, and the event loop closes it later, in a task of its own.    *)
(*                                                                         *)
(* The items are 1, 2, ... in the order in which the producer sends them.  *)
(***************************************************************************)
EXTENDS Naturals, Sequences

CONSTANTS
  Kinds,      \* the handlers, of "progress", "a2a" and "chat"
  Capacity,   \* of the channel
  MaxItems    \* bound: items a producer sends

StreamAssumption ==
  /\ Kinds \subseteq {"progress", "a2a", "chat"}
  /\ Capacity \in Nat \ {0} /\ MaxItems \in Nat

VARIABLES
  kind,       \* the handler of this request
  producer,   \* where the task is, the items it sent, cancellations it was sent and not yet got
  channel,    \* the items in the channel, and whether each end is open
  owner,      \* deadline, _timed_out, _result_observed, and whether the log has the exception
  request,    \* where the request is, and the message being sent
  closer,     \* the two callers of close(): the generator and the middleware
  client      \* the items it got, the message that ended its stream, whether it left

vars == <<kind, producer, channel, owner, request, closer, client>>

Closers == {"generator", "middleware"}
Over == {"done", "failed", "cancelled"}

Init ==
  /\ kind \in Kinds
  /\ producer = [at |-> "none", sent |-> 0, pending |-> FALSE, cancels |-> 0]
  /\ channel = [items |-> <<>>, sender |-> TRUE, receiver |-> TRUE]
  /\ owner = [deadline |-> "unset", timedOut |-> FALSE, observed |-> FALSE, logged |-> FALSE]
  /\ request = [at |-> "handler", message |-> "none", item |-> 0]
  /\ closer = [c \in Closers |-> [at |-> "idle", interrupted |-> FALSE]]
  /\ client = [got |-> <<>>, last |-> "none", gone |-> FALSE]

-----------------------------------------------------------------------------
(* The producer *)

\* start_stream
Start ==
  /\ request.at = "handler"
  /\ producer' = [producer EXCEPT !.at = "running"]
  /\ request' = [request EXCEPT !.at = IF kind = "progress" THEN "receiving" ELSE "prefetching"]
  /\ UNCHANGED <<kind, channel, owner, closer, client>>

\* The task ends and its `finally` closes the sender.  After a timed out cleanup the
\* done callback retrieves the exception.
Stop(how) ==
  /\ producer' = [producer EXCEPT !.at = how, !.pending = FALSE]
  /\ channel' = [channel EXCEPT !.sender = FALSE]
  /\ owner' = [owner EXCEPT !.logged = @ \/ (owner.timedOut /\ how = "failed" /\ ~owner.observed)]

\* Sending to a closed channel raises; report() makes that a cancellation.
Send ==
  /\ producer.at = "running" /\ producer.sent < MaxItems
  /\ IF ~channel.sender \/ ~channel.receiver
     THEN Stop(IF kind = "progress" THEN "cancelled" ELSE "failed")
     ELSE /\ Len(channel.items) < Capacity
          /\ producer' = [producer EXCEPT !.sent = @ + 1]
          /\ channel' = [channel EXCEPT !.items = Append(@, producer.sent + 1)]
          /\ UNCHANGED owner
  /\ UNCHANGED <<kind, request, closer, client>>

\* The router turns the exceptions of a method into its result.
Return ==
  /\ producer.at = "running"
  /\ \E how \in {"done", "failed"} : (kind = "progress" => how = "done") /\ Stop(how)
  /\ UNCHANGED <<kind, request, closer, client>>

\* CancelledError is raised in the producer, which ends, fails, or goes on.
CancelArrives ==
  /\ producer.at = "running" /\ producer.pending
  /\ \/ \E how \in {"cancelled", "failed"} : Stop(how)
     \/ producer' = [producer EXCEPT !.pending = FALSE] /\ UNCHANGED <<channel, owner>>
  /\ UNCHANGED <<kind, request, closer, client>>

-----------------------------------------------------------------------------
(* The request: prefetch_stream, then the generator of the response *)

Goes(at) == request' = [request EXCEPT !.at = at]
Sends(message) == request' = [at |-> "sending", message |-> message, item |-> 0]
SendsItem == request' = [at |-> "sending", message |-> "item", item |-> Head(channel.items)]
Receivable == channel.items # <<>>
Drained == channel.items = <<>> /\ ~channel.sender

\* A handler that only looks whether there is a first item.
FaultPrefetchItem ==
  /\ request.at = "prefetching" /\ Receivable
  /\ channel' = [channel EXCEPT !.items = Tail(@)]
  /\ Goes(IF client.gone THEN "leaving" ELSE "receiving")
  /\ UNCHANGED <<kind, producer, owner, closer, client>>

\* If the client left meanwhile the watcher has cancelled the scope, and
\* checkpoint_if_cancelled raises: the item is dropped.
PrefetchItem ==
  /\ request.at = "prefetching" /\ Receivable
  /\ channel' = [channel EXCEPT !.items = Tail(@)]
  /\ IF client.gone THEN Goes("leaving") ELSE SendsItem
  /\ UNCHANGED <<kind, producer, owner, closer, client>>

\* End of stream: the exception of the producer is raised to the handler, which
\* answers with an error instead of a stream.
PrefetchEnd ==
  /\ request.at = "prefetching" /\ Drained /\ producer.at \in Over
  /\ owner' = [owner EXCEPT !.observed = TRUE]
  /\ Goes(IF producer.at = "done" /\ ~client.gone THEN "receiving" ELSE "leaving")
  /\ client' = IF producer.at = "failed" /\ ~client.gone THEN [client EXCEPT !.last = "error"] ELSE client
  /\ UNCHANGED <<kind, producer, channel, closer>>

Receive ==
  /\ request.at = "receiving" /\ Receivable
  /\ channel' = [channel EXCEPT !.items = Tail(@)]
  /\ SendsItem
  /\ UNCHANGED <<kind, producer, owner, closer, client>>

\* Nothing for ping_interval.
Ping ==
  /\ kind = "chat" /\ request.at = "receiving" /\ ~Receivable /\ ~Drained
  /\ Sends("ping")
  /\ UNCHANGED <<kind, producer, channel, owner, closer, client>>

\* After the last item result() awaits the task: the response of a progress request,
\* or the exception, which A2A reports and a chat suppresses.
Result ==
  /\ request.at = "receiving" /\ Drained /\ producer.at \in Over
  /\ owner' = [owner EXCEPT !.observed = TRUE]
  /\ CASE kind = "progress" /\ producer.at = "done" -> Sends("response")
       [] kind = "a2a" /\ producer.at = "failed" -> Sends("error")
       [] OTHER -> Goes("closing")
  /\ UNCHANGED <<kind, producer, channel, closer, client>>

\* The client takes the message, and the generator is resumed.
Sent ==
  /\ request.at = "sending" /\ ~client.gone
  /\ client' = CASE request.message = "item" -> [client EXCEPT !.got = Append(@, request.item)]
                 [] request.message = "ping" -> client
                 [] OTHER -> [client EXCEPT !.last = request.message]
  /\ Goes(IF request.message \in {"response", "error"} THEN "closing" ELSE "receiving")
  /\ UNCHANGED <<kind, producer, channel, owner, closer>>

\* The client leaves: prefetch's watcher or the server finds out.
Leave ==
  /\ ~client.gone /\ request.at \notin {"handler", "over"}
  /\ client' = [client EXCEPT !.gone = TRUE]
  /\ UNCHANGED <<kind, producer, channel, owner, request, closer>>

\* The request is cancelled where it waits: in the handler, in the generator, whose
\* `finally` runs, or outside of it, in send, and the generator stays suspended.
Cancelled ==
  /\ client.gone /\ request.at \in {"prefetching", "receiving", "sending"}
  /\ Goes(IF request.at = "receiving" THEN "closing" ELSE "leaving")
  /\ UNCHANGED <<kind, producer, channel, owner, closer, client>>

-----------------------------------------------------------------------------
(* close() *)

First == producer.at # "none" /\ owner.deadline = "unset"

\* The first call sets the one deadline and cancels the task.
CloseStarts(c) ==
  /\ closer[c].at = "idle"
  /\ CASE c = "middleware" -> request.at = "leaving"
       [] c = "generator" -> \/ request.at = "closing"
                             \/ request.at \in {"leaving", "over"} /\ request.message # "none"
  /\ closer' = [closer EXCEPT ![c].at = "waiting"]
  /\ channel' = [channel EXCEPT !.sender = FALSE, !.receiver = FALSE]
  /\ owner' = IF First THEN [owner EXCEPT !.deadline = "running"] ELSE owner
  /\ producer' = IF First /\ producer.at = "running"
                 THEN [producer EXCEPT !.pending = TRUE, !.cancels = @ + 1] ELSE producer
  /\ UNCHANGED <<kind, request, client>>

DeadlinePasses ==
  /\ owner.deadline = "running"
  /\ owner' = [owner EXCEPT !.deadline = "passed"]
  /\ UNCHANGED <<kind, producer, channel, request, closer, client>>

\* What follows a call of close().
Closed(c) ==
  /\ closer' = [closer EXCEPT ![c].at = "closed"]
  /\ request' = [request EXCEPT !.at =
       CASE c = "middleware" -> "over"
         [] c = "generator" /\ @ = "closing" -> "leaving"
         [] OTHER -> @]

\* The task is over, and its exception is retrieved.
CloseEnds(c) ==
  /\ closer[c].at = "waiting" /\ producer.at \in Over \union {"none"}
  /\ owner' = [owner EXCEPT !.logged = @ \/ (producer.at = "failed" /\ ~owner.observed)]
  /\ Closed(c)
  /\ UNCHANGED <<kind, producer, channel, client>>

\* Late tasks are cancelled again and waited for.
FaultCloseTimesOut(c) ==
  /\ closer[c].at = "waiting" /\ producer.at = "running" /\ owner.deadline = "passed"
  /\ ~owner.timedOut
  /\ owner' = [owner EXCEPT !.timedOut = TRUE]
  /\ producer' = [producer EXCEPT !.pending = TRUE, !.cancels = @ + 1]
  /\ UNCHANGED <<kind, channel, request, closer, client>>

\* It is not in time: that is logged once, and the task cancelled again.
CloseTimesOut(c) ==
  /\ closer[c].at = "waiting" /\ producer.at = "running" /\ owner.deadline = "passed"
  /\ IF owner.timedOut THEN UNCHANGED <<owner, producer>>
     ELSE /\ owner' = [owner EXCEPT !.timedOut = TRUE]
          /\ producer' = [producer EXCEPT !.pending = TRUE, !.cancels = @ + 1]
  /\ Closed(c)
  /\ UNCHANGED <<kind, channel, client>>

\* A close whose cancellation ends the wait.
FaultInterrupt(c) ==
  /\ closer[c].at = "waiting" /\ producer.at = "running"
  /\ Closed(c)
  /\ UNCHANGED <<kind, producer, channel, owner, client>>

\* Cancelled while it waits, close goes on waiting and raises at its end.
Interrupt(c) ==
  /\ closer[c].at = "waiting" /\ producer.at = "running"
  /\ closer' = [closer EXCEPT ![c].interrupted = TRUE]
  /\ UNCHANGED <<kind, producer, channel, owner, request, client>>

-----------------------------------------------------------------------------
Close(c) == CloseStarts(c) \/ CloseEnds(c) \/ CloseTimesOut(c)
Request == Start \/ PrefetchItem \/ PrefetchEnd \/ Receive \/ Result \/ Sent \/ Cancelled
Producer == Send \/ Return \/ CancelArrives

\* The generator of a request cancelled in send may never be collected.
Rest == request.at = "over" /\ producer.at \in Over /\ UNCHANGED vars

Next ==
  \/ Request \/ Producer \/ Ping \/ Leave \/ DeadlinePasses \/ Rest
  \/ \E c \in Closers : Close(c) \/ Interrupt(c)

\* The event loop runs the request and delivers cancellations; time passes.  Nothing
\* obliges a producer to end.
Fairness ==
  /\ WF_vars(Request) /\ WF_vars(DeadlinePasses) /\ WF_vars(CancelArrives)
  /\ \A c \in Closers : WF_vars(Close(c))

Spec == Init /\ [][Next]_vars /\ Fairness

-----------------------------------------------------------------------------
(* Properties *)

TypeOK ==
  /\ kind \in Kinds
  /\ producer \in [at : {"none", "running"} \union Over, sent : 0..MaxItems,
                   pending : BOOLEAN, cancels : 0..2]
  /\ channel \in [items : Seq(1..MaxItems), sender : BOOLEAN, receiver : BOOLEAN]
  /\ Len(channel.items) <= Capacity
  /\ owner \in [deadline : {"unset", "running", "passed"}, timedOut : BOOLEAN,
                observed : BOOLEAN, logged : BOOLEAN]
  /\ request \in [at : {"handler", "prefetching", "receiving", "sending", "closing", "leaving", "over"},
                  message : {"none", "item", "ping", "response", "error"}, item : 0..MaxItems]
  /\ closer \in [Closers -> [at : {"idle", "waiting", "closed"}, interrupted : BOOLEAN]]
  /\ client \in [got : Seq(1..MaxItems), last : {"none", "response", "error"}, gone : BOOLEAN]

\* What the client, the send in progress and the open channel hold is what the producer
\* sent, in order and with no gap: an item prefetched in the handler is not lost to the
\* generator, and the message that ends a stream comes after every item.
InOrder ==
  LET sending == IF request.at = "sending" /\ request.message = "item"
                 THEN <<request.item>> ELSE <<>>
      known == client.got \o sending
                 \o (IF channel.receiver /\ request.at # "leaving" THEN channel.items ELSE <<>>)
  IN  /\ \A i \in DOMAIN known : known[i] = i
      /\ client.last # "none" => Len(client.got) = producer.sent

\* A producer outlives its request only if it was cancelled twice, the second time at
\* the deadline, and reported: whoever closes, in whatever order, and however often the
\* closing itself is cancelled.  And no exception of a producer vanishes: the request gets
\* it or the log does, now or, from a producer that outlived its request, later.
Contained ==
  request.at = "over" /\ producer.at # "none" =>
    /\ producer.at \in Over \/ (owner.timedOut /\ producer.cancels = 2)
    /\ producer.at = "failed" => owner.observed \/ owner.logged

\* A request ends once its client left or its producer ended, even if the producer
\* ignores every cancellation.
RequestEnds == (client.gone \/ producer.at \in Over) ~> request.at = "over"

=============================================================================
