---------------------------- MODULE StreamsProofs ----------------------------
(***************************************************************************)
(* Proofs about Streams.  For the stream of a request: what the client     *)
(* has, what is on its way and what is in the channel are consecutive as   *)
(* long as the generator reads, and whoever closes finds the one deadline. *)
(* For the stream of a queued turn: no frame that a connection is still to *)
(* take is more than one ahead of what the client will know by then.       *)
(***************************************************************************)
EXTENDS Streams, SequenceTheorems, TLAPS

-----------------------------------------------------------------------------
(* The stream of a request *)

Reading == {"handler", "prefetching", "receiving", "sending"}
Leaving == {"closing", "leaving", "over"}

Producers == [at : {"none", "running"} \union Owner!Over, sent : Nat, pending : BOOLEAN, cancels : Nat]
Channels == [items : Seq(Nat), sender : BOOLEAN, receiver : BOOLEAN]
Owners == [deadline : {"unset", "running", "passed"}, timedOut : BOOLEAN, observed : BOOLEAN, logged : BOOLEAN]
Requests == [at : Reading \union Leaving, message : {"none", "item", "ping", "response", "error"}, item : Nat]
Closings == [Owner!Closers -> [at : {"idle", "waiting", "closed"}, interrupted : BOOLEAN]]
Receivers == [got : Seq(Nat), last : {"none", "response", "error"}, gone : BOOLEAN]

OwnerTypes ==
  /\ producer \in Producers /\ channel \in Channels /\ owner \in Owners
  /\ request \in Requests /\ closer \in Closings /\ client \in Receivers

Sending == request.at = "sending" /\ request.message = "item"
Reached == IF Sending THEN Len(client.got) + 1 ELSE Len(client.got)

\* The items of the channel follow those that left it, up to the last one sent.
Consecutive ==
  /\ \A i \in DOMAIN client.got : client.got[i] = i
  /\ Sending => request.item = Len(client.got) + 1
  /\ channel.receiver /\ request.at # "leaving" =>
       /\ \A i \in DOMAIN channel.items : channel.items[i] = Reached + i
       /\ producer.sent = Reached + Len(channel.items)
  /\ request.at \in Reading => channel.receiver
  /\ \A c \in Owner!Closers : closer[c].at # "idle" => ~channel.receiver

\* The message that ends the stream comes from a producer that is over.
LastComes ==
  /\ request.at = "sending" /\ request.message \in {"response", "error"} =>
       producer.at \in Owner!Over /\ channel.items = <<>>
  /\ client.last # "none" =>
       producer.at \in Owner!Over /\ request.at \in Leaving /\ Len(client.got) = producer.sent

\* The cancellations of a producer, and who hears of its exception.
Cleanup ==
  /\ request.at = "handler" => producer.at = "none"
  /\ producer.at = "none" => owner.deadline = "unset"
  /\ owner.deadline = "unset" => producer.cancels = 0 /\ ~owner.timedOut
  /\ owner.timedOut => producer.cancels = 2
  /\ owner.deadline # "unset" /\ ~owner.timedOut /\ producer.at = "running" => producer.cancels = 1
  /\ request.at = "over" /\ producer.at = "running" => owner.timedOut
  /\ request.at = "over" /\ producer.at = "failed" => owner.observed \/ owner.logged

OwnerInv == OwnerTypes /\ Consecutive /\ LastComes /\ Cleanup

LEMMA Lists ==
  ASSUME NEW s \in Seq(Nat), NEW n \in Nat
  PROVE  /\ Append(s, n) \in Seq(Nat) /\ Len(Append(s, n)) = Len(s) + 1 /\ Len(s) \in Nat
         /\ DOMAIN s = 1..Len(s) /\ DOMAIN Append(s, n) = 1..(Len(s) + 1)
         /\ Append(s, n)[Len(s) + 1] = n /\ \A i \in 1..Len(s) : Append(s, n)[i] = s[i]
OBVIOUS

LEMMA Rests ==
  ASSUME NEW s \in Seq(Nat), s # <<>>
  PROVE  /\ Tail(s) \in Seq(Nat) /\ Len(Tail(s)) = Len(s) - 1 /\ Len(s) \in Nat \ {0}
         /\ DOMAIN s = 1..Len(s) /\ DOMAIN Tail(s) = 1..(Len(s) - 1)
         /\ Head(s) = s[1] /\ Head(s) \in Nat /\ \A i \in 1..(Len(s) - 1) : Tail(s)[i] = s[i + 1]
OBVIOUS

LEMMA OwnerStarts == Owner!Init => OwnerInv
<1> SUFFICES ASSUME Owner!Init
             PROVE  OwnerInv
  OBVIOUS
<1>1. OwnerTypes
  <2>1. <<>> \in Seq(Nat)
    OBVIOUS
  <2> QED
    BY <2>1 DEF OwnerTypes, Producers, Channels, Owners, Requests, Closings, Receivers, Owner!Init, Reading, Leaving
<1>2. Consecutive /\ LastComes /\ Cleanup
  BY DEF Consecutive, LastComes, Cleanup, Sending, Reached, Reading, Leaving, Owner!Init
<1> QED
  BY <1>1, <1>2 DEF OwnerInv

LEMMA OwnerIdle == NoRequest => OwnerInv
<1> SUFFICES ASSUME NoRequest
             PROVE  OwnerInv
  OBVIOUS
<1>1. OwnerTypes
  <2>1. <<>> \in Seq(Nat)
    OBVIOUS
  <2> QED
    BY <2>1 DEF OwnerTypes, Producers, Channels, Owners, Requests, Closings, Receivers, NoRequest, Reading, Leaving, Owner!Over
<1>2. Consecutive /\ LastComes /\ Cleanup
  BY DEF Consecutive, LastComes, Cleanup, Sending, Reached, Reading, Leaving, NoRequest
<1> QED
  BY <1>1, <1>2 DEF OwnerInv

\* The producer is started, and the request waits for its first item.
LEMMA StartKeeps ==
  ASSUME OwnerInv, Owner!Start
  PROVE  OwnerInv'
<1>1. OwnerTypes'
  BY DEF OwnerInv, OwnerTypes, Producers, Requests, Owner!Start, Reading
<1>2. /\ producer'.at = "running" /\ producer'.sent = producer.sent /\ producer'.cancels = producer.cancels
      /\ request'.at \in {"receiving", "prefetching"} /\ request.at = "handler"
      /\ UNCHANGED <<channel, owner, closer, client>>
  BY DEF OwnerInv, OwnerTypes, Producers, Requests, Owner!Start
<1>3. Consecutive'
  BY <1>2 DEF OwnerInv, Consecutive, Sending, Reached, Reading
<1>4. LastComes' /\ Cleanup'
  BY <1>2 DEF OwnerInv, LastComes, Cleanup, Leaving
<1> QED
  BY <1>1, <1>3, <1>4 DEF OwnerInv

LEMMA StopKeeps ==
  ASSUME OwnerInv, producer.at = "running", NEW how \in Owner!Over, Owner!Stop(how),
         UNCHANGED <<request, closer, client>>
  PROVE  OwnerInv'
<1>1. /\ producer' = [producer EXCEPT !.at = how, !.pending = FALSE]
      /\ channel' = [channel EXCEPT !.sender = FALSE]
      /\ owner' = [owner EXCEPT !.logged = @ \/ (owner.timedOut /\ how = "failed" /\ ~owner.observed)]
  BY DEF Owner!Stop
<1>2. OwnerTypes'
  BY <1>1 DEF OwnerInv, OwnerTypes, Producers, Channels, Owners
<1>3. /\ producer'.at = how /\ producer'.sent = producer.sent /\ producer'.cancels = producer.cancels
      /\ channel'.items = channel.items /\ channel'.receiver = channel.receiver
      /\ owner'.deadline = owner.deadline /\ owner'.timedOut = owner.timedOut
      /\ owner'.observed = owner.observed
      /\ owner'.logged <=> owner.logged \/ (owner.timedOut /\ how = "failed" /\ ~owner.observed)
  BY <1>1 DEF OwnerInv, OwnerTypes, Producers, Channels, Owners
<1>4. Consecutive'
  BY <1>3 DEF OwnerInv, Consecutive, Sending, Reached
<1>5. LastComes'
  BY <1>3 DEF OwnerInv, LastComes
<1>6. Cleanup'
  BY <1>3 DEF OwnerInv, Cleanup, Owner!Over
<1> QED
  BY <1>2, <1>4, <1>5, <1>6 DEF OwnerInv

LEMMA SendKeeps ==
  ASSUME OwnerInv, Owner!Send
  PROVE  OwnerInv'
<1>1. producer.at = "running" /\ UNCHANGED <<request, closer, client>>
  BY DEF Owner!Send
<1>2. CASE ~channel.sender \/ ~channel.receiver
  <2>1. Owner!Stop(IF kind = "progress" THEN "cancelled" ELSE "failed")
    BY <1>2 DEF Owner!Send
  <2>2. CASE kind = "progress"
    BY <1>1, <2>1, <2>2, StopKeeps DEF Owner!Over
  <2>3. CASE kind # "progress"
    BY <1>1, <2>1, <2>3, StopKeeps DEF Owner!Over
  <2> QED
    BY <2>2, <2>3
<1>3. CASE ~(~channel.sender \/ ~channel.receiver)
  <2> DEFINE n == producer.sent + 1
             items == Append(channel.items, n)
  <2>1. /\ producer' = [producer EXCEPT !.sent = n] /\ channel' = [channel EXCEPT !.items = items]
        /\ owner' = owner
    BY <1>3 DEF Owner!Send
  <2>2. /\ producer.sent \in Nat /\ n \in Nat /\ channel.items \in Seq(Nat)
        /\ client.got \in Seq(Nat) /\ Len(client.got) \in Nat
    BY DEF OwnerInv, OwnerTypes, Producers, Channels, Receivers
  <2>3. /\ items \in Seq(Nat) /\ Len(items) = Len(channel.items) + 1 /\ Len(channel.items) \in Nat
        /\ DOMAIN channel.items = 1..Len(channel.items) /\ DOMAIN items = 1..(Len(channel.items) + 1)
        /\ items[Len(channel.items) + 1] = n /\ \A i \in 1..Len(channel.items) : items[i] = channel.items[i]
    BY <2>2, Lists
  <2> HIDE DEF items
  <2>4. OwnerTypes'
    BY <1>1, <2>1, <2>2, <2>3 DEF OwnerInv, OwnerTypes, Producers, Channels, Receivers
  <2>5. /\ producer'.at = "running" /\ producer'.sent = n /\ producer'.cancels = producer.cancels
        /\ channel'.items = items /\ channel'.receiver = channel.receiver
    BY <1>1, <2>1 DEF OwnerInv, OwnerTypes, Producers, Channels, Receivers
  <2>6. Reached \in Nat /\ Reached' = Reached /\ (Sending <=> Sending')
    BY <1>1, <2>2 DEF Reached, Sending
  <2>7. Consecutive'
    <3>1. ASSUME channel.receiver, request.at # "leaving"
          PROVE  /\ \A i \in DOMAIN items : items[i] = Reached + i
                 /\ n = Reached + Len(items)
      <4>1. /\ \A i \in DOMAIN channel.items : channel.items[i] = Reached + i
            /\ producer.sent = Reached + Len(channel.items)
        BY <3>1 DEF OwnerInv, Consecutive
      <4>2. n = Reached + (Len(channel.items) + 1)
        BY <2>2, <2>3, <2>6, <4>1
      <4>3. ASSUME NEW i \in 1..(Len(channel.items) + 1)
            PROVE  items[i] = Reached + i
        <5>1. CASE i = Len(channel.items) + 1
          BY <2>3, <4>2, <5>1
        <5>2. CASE i # Len(channel.items) + 1
          <6>1. i \in 1..Len(channel.items)
            BY <2>3, <5>2
          <6> QED
            BY <2>3, <4>1, <6>1
        <5> QED
          BY <5>1, <5>2
      <4> QED
        BY <2>3, <4>2, <4>3
    <3> QED
      BY <1>1, <2>5, <2>6, <3>1 DEF OwnerInv, Consecutive
  <2>8. LastComes'
    BY <1>1, <2>5 DEF OwnerInv, LastComes, Owner!Over
  <2>9. Cleanup'
    BY <1>1, <2>1, <2>5 DEF OwnerInv, Cleanup
  <2> QED
    BY <2>4, <2>7, <2>8, <2>9 DEF OwnerInv
<1> QED
  BY <1>2, <1>3

LEMMA ProducerKeeps ==
  ASSUME OwnerInv, Owner!Return \/ Owner!CancelArrives
  PROVE  OwnerInv'
<1>1. producer.at = "running" /\ UNCHANGED <<request, closer, client>>
  BY DEF Owner!Return, Owner!CancelArrives
<1>2. CASE \E how \in Owner!Over : Owner!Stop(how)
  BY <1>1, <1>2, StopKeeps
<1>3. CASE producer' = [producer EXCEPT !.pending = FALSE] /\ UNCHANGED <<channel, owner>>
  <2>1. OwnerTypes'
    BY <1>1, <1>3 DEF OwnerInv, OwnerTypes, Producers
  <2>2. producer'.at = producer.at /\ producer'.sent = producer.sent /\ producer'.cancels = producer.cancels
    BY <1>3 DEF OwnerInv, OwnerTypes, Producers
  <2>3. Consecutive'
    BY <1>1, <1>3, <2>2 DEF OwnerInv, Consecutive, Sending, Reached
  <2>4. LastComes' /\ Cleanup'
    BY <1>1, <1>3, <2>2 DEF OwnerInv, LastComes, Cleanup
  <2> QED
    BY <2>1, <2>3, <2>4 DEF OwnerInv
<1> QED
  BY <1>2, <1>3 DEF Owner!Return, Owner!CancelArrives, Owner!Over

\* The first item of the channel leaves it, to be sent or, in the handler, to be dropped.
LEMMA ItemKeeps ==
  ASSUME OwnerInv, Owner!PrefetchItem \/ Owner!Receive
  PROVE  OwnerInv'
<1> DEFINE items == Tail(channel.items)
           first == Head(channel.items)
<1>1. /\ request.at \in {"prefetching", "receiving"} /\ channel.items # <<>>
      /\ channel' = [channel EXCEPT !.items = items] /\ UNCHANGED <<producer, owner, closer, client>>
      /\ \/ request' = [at |-> "sending", message |-> "item", item |-> first]
         \/ request' = [request EXCEPT !.at = "leaving"]
  BY DEF Owner!PrefetchItem, Owner!Receive, Owner!Receivable, Owner!SendsItem, Owner!Goes
<1>2. /\ channel.items \in Seq(Nat) /\ client.got \in Seq(Nat) /\ Len(client.got) \in Nat
      /\ producer.sent \in Nat
  BY DEF OwnerInv, OwnerTypes, Producers, Channels, Requests, Receivers
<1>3. /\ items \in Seq(Nat) /\ Len(items) = Len(channel.items) - 1 /\ Len(channel.items) \in Nat \ {0}
      /\ DOMAIN channel.items = 1..Len(channel.items) /\ DOMAIN items = 1..(Len(channel.items) - 1)
      /\ first = channel.items[1] /\ first \in Nat
      /\ \A i \in 1..(Len(channel.items) - 1) : items[i] = channel.items[i + 1]
  BY <1>1, <1>2, Rests
<1> HIDE DEF items, first
<1>4. OwnerTypes'
  <2>1. channel' \in Channels
    BY <1>1, <1>3 DEF OwnerInv, OwnerTypes, Channels
  <2>2. first \in Nat /\ request \in Requests
    BY <1>3 DEF OwnerInv, OwnerTypes
  <2>3. request' \in Requests
    BY <1>1, <2>2 DEF Requests, Reading, Leaving
  <2> QED
    BY <1>1, <2>1, <2>3 DEF OwnerInv, OwnerTypes
<1>5. /\ channel'.items = items /\ channel'.receiver = channel.receiver
      /\ \/ request'.at = "sending" /\ request'.message = "item" /\ request'.item = first
         \/ request'.at = "leaving"
  BY <1>1 DEF OwnerInv, OwnerTypes, Producers, Channels, Requests, Receivers
<1>6. /\ channel.receiver /\ ~Sending /\ Reached = Len(client.got)
      /\ \A i \in DOMAIN channel.items : channel.items[i] = Len(client.got) + i
      /\ producer.sent = Len(client.got) + Len(channel.items)
  BY <1>1 DEF OwnerInv, Consecutive, Sending, Reached, Reading
<1>7. Consecutive'
  <2>1. CASE request'.at = "leaving"
    BY <1>1, <1>5, <2>1 DEF OwnerInv, Consecutive, Sending, Reading
  <2>2. CASE request'.at = "sending" /\ request'.message = "item" /\ request'.item = first
    <3>1. Sending' /\ Reached' = Len(client.got) + 1
      BY <1>1, <2>2 DEF Sending, Reached
    <3>2. first = Len(client.got) + 1
      <4>1. 1 \in DOMAIN channel.items
        BY <1>3
      <4> QED
        BY <1>3, <1>6, <4>1
    <3>3. /\ \A i \in DOMAIN items : items[i] = (Len(client.got) + 1) + i
          /\ producer.sent = (Len(client.got) + 1) + Len(items)
      <4>1. producer.sent = (Len(client.got) + 1) + Len(items)
        <5> DEFINE g == Len(client.got)
                   l == Len(channel.items)
        <5>1. g \in Nat /\ l \in Nat /\ Len(items) = l - 1 /\ producer.sent = g + l
          BY <1>2, <1>3, <1>6
        <5> HIDE DEF g, l
        <5>2. producer.sent = (g + 1) + (l - 1)
          BY <5>1
        <5> QED
          BY <5>1, <5>2 DEF g
      <4>2. ASSUME NEW i \in DOMAIN items
            PROVE  items[i] = (Len(client.got) + 1) + i
        <5> DEFINE g == Len(client.got)
                   l == Len(channel.items)
        <5>1. g \in Nat /\ l \in Nat /\ i \in 1..(l - 1) /\ items[i] = channel.items[i + 1]
          BY <1>2, <1>3
        <5>2. DOMAIN channel.items = 1..l /\ \A j \in DOMAIN channel.items : channel.items[j] = g + j
          BY <1>3, <1>6
        <5> HIDE DEF g, l
        <5>3. i \in Nat /\ i + 1 \in 1..l
          BY <5>1
        <5>4. items[i] = g + (i + 1)
          BY <5>1, <5>2, <5>3
        <5>5. g + (i + 1) = (g + 1) + i
          BY <5>1, <5>3
        <5> QED
          BY <5>4, <5>5 DEF g
      <4> QED
        BY <4>1, <4>2
    <3> QED
      BY <1>1, <1>5, <1>6, <2>2, <3>1, <3>2, <3>3 DEF OwnerInv, Consecutive
  <2> QED
    BY <1>5, <2>1, <2>2
<1>8. LastComes' /\ Cleanup'
  BY <1>1, <1>5 DEF OwnerInv, LastComes, Cleanup, Leaving
<1> QED
  BY <1>4, <1>7, <1>8 DEF OwnerInv

\* The end of the channel, in the handler or in the generator.
LEMMA EndKeeps ==
  ASSUME OwnerInv, Owner!PrefetchEnd \/ Owner!Result
  PROVE  OwnerInv'
<1>1. /\ request.at \in {"prefetching", "receiving"} /\ channel.items = <<>> /\ producer.at \in Owner!Over
      /\ owner' = [owner EXCEPT !.observed = TRUE] /\ UNCHANGED <<producer, channel, closer>>
  BY DEF Owner!PrefetchEnd, Owner!Result, Owner!Drained
<1>2. /\ channel.receiver /\ ~Sending /\ Reached = Len(client.got)
      /\ producer.sent = Len(client.got) + Len(channel.items)
      /\ client.last = "none"
  BY <1>1 DEF OwnerInv, Consecutive, LastComes, Sending, Reached, Reading, Leaving
<1>3. Len(channel.items) = 0 /\ Len(client.got) \in Nat /\ producer.sent = Len(client.got)
  BY <1>1, <1>2 DEF OwnerInv, OwnerTypes, Producers, Channels, Owners, Requests, Receivers
<1>4. /\ owner'.deadline = owner.deadline /\ owner'.timedOut = owner.timedOut
  BY <1>1 DEF OwnerInv, OwnerTypes, Producers, Channels, Owners, Requests, Receivers
<1>5. CASE Owner!PrefetchEnd
  <2>1. /\ request' = [request EXCEPT !.at = IF producer.at = "done" /\ ~client.gone THEN "receiving" ELSE "leaving"]
        /\ client' = IF producer.at = "failed" /\ ~client.gone THEN [client EXCEPT !.last = "error"] ELSE client
    BY <1>5 DEF Owner!PrefetchEnd, Owner!Goes
  <2>2. OwnerTypes'
    <3>1. owner' \in Owners
      BY <1>1 DEF OwnerInv, OwnerTypes, Owners
    <3>2. request' \in Requests
      BY <2>1 DEF OwnerInv, OwnerTypes, Requests, Reading, Leaving
    <3>3. client' \in Receivers
      BY <2>1 DEF OwnerInv, OwnerTypes, Receivers
    <3> QED
      BY <1>1, <3>1, <3>2, <3>3 DEF OwnerInv, OwnerTypes
  <2>3. /\ request'.at = IF producer.at = "done" /\ ~client.gone THEN "receiving" ELSE "leaving"
        /\ client'.got = client.got
        /\ client'.last # "none" => producer.at = "failed"
    BY <1>2, <2>1 DEF OwnerInv, OwnerTypes, Producers, Channels, Owners, Requests, Receivers
  <2>4. ~Sending' /\ Reached' = Reached
    BY <1>2, <2>3 DEF Sending, Reached
  <2>5. Consecutive'
    BY <1>1, <1>2, <2>3, <2>4 DEF OwnerInv, Consecutive
  <2>6. LastComes'
    BY <1>1, <1>3, <2>3 DEF OwnerInv, LastComes, Leaving
  <2>7. Cleanup'
    BY <1>1, <1>4, <2>3 DEF OwnerInv, Cleanup, Owner!Over
  <2> QED
    BY <2>2, <2>5, <2>6, <2>7 DEF OwnerInv
<1>6. CASE Owner!Result
  <2>1. /\ \/ request' = [at |-> "sending", message |-> "response", item |-> 0]
           \/ request' = [at |-> "sending", message |-> "error", item |-> 0]
           \/ request' = [request EXCEPT !.at = "closing"]
        /\ client' = client
    BY <1>6 DEF Owner!Result, Owner!Sends, Owner!Goes
  <2>2. OwnerTypes'
    <3>1. owner' \in Owners
      BY <1>1 DEF OwnerInv, OwnerTypes, Owners
    <3>2. request' \in Requests
      BY <2>1 DEF OwnerInv, OwnerTypes, Requests, Reading, Leaving
    <3> QED
      BY <1>1, <2>1, <3>1, <3>2 DEF OwnerInv, OwnerTypes
  <2>3. \/ request'.at = "sending" /\ request'.message \in {"response", "error"}
        \/ request'.at = "closing"
    BY <2>1 DEF OwnerInv, OwnerTypes, Producers, Channels, Owners, Requests, Receivers
  <2>4. ~Sending' /\ Reached' = Reached
    BY <1>2, <2>1, <2>3 DEF Sending, Reached
  <2>5. Consecutive'
    BY <1>1, <1>2, <2>1, <2>3, <2>4 DEF OwnerInv, Consecutive
  <2>6. LastComes'
    BY <1>1, <1>2, <2>1, <2>3 DEF OwnerInv, LastComes, Leaving
  <2>7. Cleanup'
    BY <1>1, <1>4, <2>3 DEF OwnerInv, Cleanup, Owner!Over
  <2> QED
    BY <2>2, <2>5, <2>6, <2>7 DEF OwnerInv
<1> QED
  BY <1>5, <1>6

LEMMA SentKeeps ==
  ASSUME OwnerInv, Owner!Sent
  PROVE  OwnerInv'
<1>1. /\ request.at = "sending" /\ UNCHANGED <<producer, channel, owner, closer>>
      /\ request' = [request EXCEPT !.at = IF request.message \in {"response", "error"} THEN "closing" ELSE "receiving"]
  BY DEF Owner!Sent, Owner!Goes
<1>2. /\ client.got \in Seq(Nat) /\ request.item \in Nat /\ Len(client.got) \in Nat /\ client.last = "none"
      /\ producer.sent \in Nat /\ channel.receiver
  BY <1>1 DEF OwnerInv, OwnerTypes, Producers, Channels, Requests, Receivers, LastComes, Consecutive, Leaving, Reading
<1>3. /\ request'.at = IF request.message \in {"response", "error"} THEN "closing" ELSE "receiving"
      /\ request'.message = request.message
  BY <1>1 DEF OwnerInv, OwnerTypes, Producers, Channels, Requests, Receivers
<1>4. ~Sending'
  BY <1>3 DEF Sending
<1>5. CASE request.message = "item"
  <2> DEFINE got == Append(client.got, request.item)
  <2>1. client' = [client EXCEPT !.got = got]
    BY <1>5 DEF Owner!Sent
  <2>2. /\ got \in Seq(Nat) /\ Len(got) = Len(client.got) + 1
        /\ DOMAIN client.got = 1..Len(client.got) /\ DOMAIN got = 1..(Len(client.got) + 1)
        /\ got[Len(client.got) + 1] = request.item /\ \A i \in 1..Len(client.got) : got[i] = client.got[i]
    BY <1>2, Lists
  <2> HIDE DEF got
  <2>3. OwnerTypes'
    BY <1>1, <2>1, <2>2 DEF OwnerInv, OwnerTypes, Producers, Channels, Requests, Receivers, Reading, Leaving
  <2>4. client'.got = got /\ client'.last = "none"
    BY <1>2, <2>1 DEF OwnerInv, OwnerTypes, Producers, Channels, Requests, Receivers
  <2>5. Sending /\ Reached = Len(client.got) + 1 /\ Reached' = Reached
    BY <1>1, <1>4, <1>5, <2>2, <2>4 DEF Sending, Reached
  <2>6. \A i \in DOMAIN got : got[i] = i
    <3>1. /\ \A i \in DOMAIN client.got : client.got[i] = i
          /\ request.item = Len(client.got) + 1
      BY <2>5 DEF OwnerInv, Consecutive
    <3>2. ASSUME NEW i \in DOMAIN got
          PROVE  got[i] = i
      <4>1. i = Len(client.got) + 1 \/ i \in 1..Len(client.got)
        BY <1>2, <2>2
      <4> QED
        BY <2>2, <3>1, <4>1
    <3> QED
      BY <3>2
  <2>7. Consecutive'
    <3>1. /\ \A i \in DOMAIN channel.items : channel.items[i] = Reached + i
          /\ producer.sent = Reached + Len(channel.items)
          /\ \A c \in Owner!Closers : closer[c].at # "idle" => ~channel.receiver
      BY <1>1, <1>2 DEF OwnerInv, Consecutive
    <3> QED
      BY <1>1, <1>2, <1>4, <2>4, <2>5, <2>6, <3>1 DEF Consecutive
  <2>8. LastComes' /\ Cleanup'
    BY <1>1, <1>3, <1>5, <2>4 DEF OwnerInv, LastComes, Cleanup
  <2> QED
    BY <2>3, <2>7, <2>8 DEF OwnerInv
<1>6. CASE request.message # "item"
  <2>1. /\ client' = IF request.message = "ping" THEN client ELSE [client EXCEPT !.last = request.message]
    BY <1>6 DEF Owner!Sent
  <2>2. request.message \notin {"response", "error"} => client' = client \/ request.message = "none"
    BY <2>1, <1>6 DEF OwnerInv, OwnerTypes, Producers, Channels, Requests, Receivers
  <2>3. OwnerTypes'
    BY <1>1, <1>6, <2>1 DEF OwnerInv, OwnerTypes, Producers, Channels, Requests, Receivers, Reading, Leaving
  <2>4. client'.got = client.got /\ (client'.last # "none" => request.message \in {"response", "error"})
    BY <1>2, <1>6, <2>1 DEF OwnerInv, OwnerTypes, Producers, Channels, Requests, Receivers
  <2>5. ~Sending /\ Reached' = Reached /\ Reached = Len(client.got)
    BY <1>1, <1>4, <1>6, <2>4 DEF Sending, Reached
  <2>6. Consecutive'
    BY <1>1, <1>4, <2>4, <2>5 DEF OwnerInv, Consecutive, Reading
  <2>7. request.message \in {"response", "error"} => Len(client.got) = producer.sent
    <3>1. producer.sent = Len(client.got) + Len(channel.items)
      BY <1>1, <1>2, <2>5 DEF OwnerInv, Consecutive
    <3>2. request.message \in {"response", "error"} => Len(channel.items) = 0
      BY <1>1 DEF OwnerInv, LastComes
    <3>3. Len(client.got) \in Nat /\ (Len(channel.items) = 0 => producer.sent = Len(client.got))
      <4> DEFINE g == Len(client.got)
                 l == Len(channel.items)
      <4>1. g \in Nat /\ producer.sent = g + l
        BY <1>2, <3>1
      <4> HIDE DEF g, l
      <4>2. g \in Nat /\ (l = 0 => producer.sent = g)
        BY <4>1
      <4> QED
        BY <4>2 DEF g, l
    <3> QED
      BY <3>2, <3>3
  <2>8. LastComes'
    BY <1>1, <1>3, <2>4, <2>7 DEF OwnerInv, LastComes, Leaving
  <2>9. Cleanup'
    BY <1>1, <1>3 DEF OwnerInv, Cleanup
  <2> QED
    BY <2>3, <2>6, <2>8, <2>9 DEF OwnerInv
<1> QED
  BY <1>5, <1>6

\* Steps that touch neither items nor cancellations.
LEMMA QuietKeeps ==
  ASSUME OwnerInv, Owner!Ping \/ Owner!Leave \/ Owner!Cancelled
  PROVE  OwnerInv'
<1>1. UNCHANGED <<producer, channel, owner, closer>>
  BY DEF Owner!Ping, Owner!Leave, Owner!Cancelled
<1>2. /\ request' \in Requests
      /\ \/ request' = request
         \/ request.at = "receiving" /\ request'.at = "sending" /\ request'.message = "ping"
         \/ request.at \in {"prefetching", "sending"} /\ request'.at = "leaving"
         \/ request.at = "receiving" /\ request'.at = "closing"
  <2>1. request \in Requests
    BY DEF OwnerInv, OwnerTypes
  <2>2. CASE Owner!Ping
    BY <2>1, <2>2 DEF Requests, Reading, Owner!Ping, Owner!Sends
  <2>3. CASE Owner!Leave
    BY <2>1, <2>3 DEF Owner!Leave
  <2>4. CASE Owner!Cancelled
    BY <2>1, <2>4 DEF Requests, Leaving, Owner!Cancelled, Owner!Goes
  <2> QED
    BY <2>2, <2>3, <2>4
<1>3. client' \in Receivers /\ client'.got = client.got /\ client'.last = client.last
  BY DEF OwnerInv, OwnerTypes, Receivers, Owner!Ping, Owner!Leave, Owner!Cancelled
<1>4. OwnerTypes'
  BY <1>1, <1>2, <1>3 DEF OwnerInv, OwnerTypes
<1>5. Consecutive'
  <2>1. CASE request' = request
    BY <1>1, <1>3, <2>1 DEF OwnerInv, Consecutive, Sending, Reached
  <2>2. CASE request.at = "receiving" /\ request'.at \in {"sending", "closing"} /\ ~Sending'
    <3>1. ~Sending /\ Reached' = Reached
      BY <1>3, <2>2 DEF Sending, Reached
    <3> QED
      BY <1>1, <1>3, <2>2, <3>1 DEF OwnerInv, Consecutive, Reading
  <2>3. CASE request'.at = "leaving"
    BY <1>1, <1>3, <2>3 DEF OwnerInv, Consecutive, Sending, Reading
  <2> QED
    BY <1>2, <2>1, <2>2, <2>3 DEF Sending
<1>6. LastComes' /\ Cleanup'
  BY <1>1, <1>2, <1>3 DEF OwnerInv, LastComes, Cleanup, Leaving
<1> QED
  BY <1>4, <1>5, <1>6 DEF OwnerInv

LEMMA CloseStartsKeeps ==
  ASSUME OwnerInv, NEW c \in Owner!Closers, Owner!CloseStarts(c)
  PROVE  OwnerInv'
<1>1. /\ request.at \in Leaving /\ UNCHANGED <<request, client>>
      /\ closer' = [closer EXCEPT ![c].at = "waiting"]
      /\ channel' = [channel EXCEPT !.sender = FALSE, !.receiver = FALSE]
      /\ owner' = IF Owner!First THEN [owner EXCEPT !.deadline = "running"] ELSE owner
      /\ producer' = IF Owner!First /\ producer.at = "running"
                     THEN [producer EXCEPT !.pending = TRUE, !.cancels = @ + 1] ELSE producer
  BY DEF Owner!CloseStarts, Owner!Closers, Leaving
<1>2. /\ channel' \in Channels /\ channel'.receiver = FALSE /\ channel'.items = channel.items
      /\ closer' \in Closings
      /\ owner' \in Owners /\ owner'.timedOut = owner.timedOut
      /\ owner'.observed = owner.observed /\ owner'.logged = owner.logged
      /\ owner'.deadline = IF Owner!First THEN "running" ELSE owner.deadline
  BY <1>1 DEF OwnerInv, OwnerTypes, Channels, Closings, Owners
<1>3. /\ producer' \in Producers /\ producer'.at = producer.at /\ producer'.sent = producer.sent
      /\ producer'.cancels = IF Owner!First /\ producer.at = "running" THEN producer.cancels + 1
                             ELSE producer.cancels
  <2>1. CASE Owner!First /\ producer.at = "running"
    <3>1. producer \in Producers /\ producer.cancels + 1 \in Nat
      BY DEF OwnerInv, OwnerTypes, Producers
    <3>2. producer' = [producer EXCEPT !.pending = TRUE, !.cancels = producer.cancels + 1]
      BY <1>1, <2>1, <3>1 DEF Producers
    <3> QED
      BY <2>1, <3>1, <3>2 DEF Producers
  <2>2. CASE ~(Owner!First /\ producer.at = "running")
    BY <1>1, <2>2 DEF OwnerInv, OwnerTypes
  <2> QED
    BY <2>1, <2>2
<1>4. Consecutive'
  BY <1>1, <1>2 DEF OwnerInv, Consecutive, Sending, Leaving, Reading
<1>5. LastComes'
  BY <1>1, <1>2, <1>3 DEF OwnerInv, LastComes
<1>6. Cleanup'
  <2>1. CASE Owner!First
    <3>1. /\ producer.at # "none" /\ owner.deadline = "unset" /\ owner'.deadline = "running"
          /\ producer.cancels = 0 /\ ~owner.timedOut
      BY <1>2, <2>1 DEF Owner!First, OwnerInv, Cleanup
    <3>2. producer.at = "running" => producer'.cancels = 1
      BY <1>3, <2>1, <3>1
    <3> QED
      BY <1>1, <1>2, <1>3, <3>1, <3>2 DEF OwnerInv, Cleanup
  <2>2. CASE ~Owner!First
    BY <1>1, <1>2, <1>3, <2>2 DEF OwnerInv, Cleanup
  <2> QED
    BY <2>1, <2>2
<1> QED
  BY <1>1, <1>2, <1>3, <1>4, <1>5, <1>6 DEF OwnerInv, OwnerTypes

\* Where the request goes after a close.
LEMMA ClosedIs ==
  ASSUME OwnerInv, NEW c \in Owner!Closers, Owner!Closed(c)
  PROVE  /\ closer' \in Closings /\ request' \in Requests
         /\ request'.message = request.message
         /\ \/ c = "middleware" /\ request'.at = "over"
            \/ c = "generator" /\ request.at = "closing" /\ request'.at = "leaving"
            \/ c = "generator" /\ request'.at = request.at /\ request' = request
<1>1. closer' = [closer EXCEPT ![c].at = "closed"]
  BY DEF Owner!Closed
<1>2. closer' \in Closings
  BY <1>1 DEF OwnerInv, OwnerTypes, Closings
<1>3. request \in Requests
  BY DEF OwnerInv, OwnerTypes
<1>4. \/ c = "middleware" /\ request' = [request EXCEPT !.at = "over"]
      \/ c = "generator" /\ request.at = "closing" /\ request' = [request EXCEPT !.at = "leaving"]
      \/ c = "generator" /\ request' = [request EXCEPT !.at = request.at]
  BY DEF Owner!Closed, Owner!Closers
<1> QED
  BY <1>2, <1>3, <1>4 DEF Requests, Leaving

\* After a close that waited for the task, or found it late.
LEMMA CloseOverKeeps ==
  ASSUME OwnerInv, NEW c \in Owner!Closers, closer[c].at = "waiting",
         Owner!CloseEnds(c) \/ Owner!CloseTimesOut(c)
  PROVE  OwnerInv'
<1>0. ~channel.receiver
  BY DEF OwnerInv, Consecutive
<1>1. Owner!Closed(c) /\ UNCHANGED <<channel, client>>
  BY DEF Owner!CloseEnds, Owner!CloseTimesOut
<1>2. /\ closer' \in Closings /\ request' \in Requests
      /\ request'.message = request.message
      /\ \/ c = "middleware" /\ request'.at = "over"
         \/ c = "generator" /\ request.at = "closing" /\ request'.at = "leaving"
         \/ c = "generator" /\ request'.at = request.at /\ request' = request
  BY <1>1, ClosedIs
<1>3. /\ producer' \in Producers /\ producer'.at = producer.at /\ producer'.sent = producer.sent
      /\ owner' \in Owners /\ owner'.deadline = owner.deadline /\ owner'.observed = owner.observed
  <2>1. CASE Owner!CloseEnds(c)
    BY <2>1 DEF OwnerInv, OwnerTypes, Owners, Owner!CloseEnds
  <2>2. CASE Owner!CloseTimesOut(c) /\ owner.timedOut
    BY <2>2 DEF OwnerInv, OwnerTypes, Owner!CloseTimesOut
  <2>3. CASE Owner!CloseTimesOut(c) /\ ~owner.timedOut
    <3>1. producer \in Producers /\ producer.cancels + 1 \in Nat /\ owner \in Owners
      BY DEF OwnerInv, OwnerTypes, Producers
    <3>2. /\ producer' = [producer EXCEPT !.pending = TRUE, !.cancels = producer.cancels + 1]
          /\ owner' = [owner EXCEPT !.timedOut = TRUE]
      BY <2>3, <3>1 DEF Producers, Owner!CloseTimesOut
    <3>3. producer' \in Producers /\ producer'.at = producer.at /\ producer'.sent = producer.sent
      BY <3>1, <3>2 DEF Producers
    <3>4. owner' \in Owners /\ owner'.deadline = owner.deadline /\ owner'.observed = owner.observed
      BY <3>1, <3>2 DEF Owners
    <3> QED
      BY <3>3, <3>4
  <2> QED
    BY <2>1, <2>2, <2>3
<1>4. Consecutive'
  <2>1. CASE request' = request
    BY <1>0, <1>1, <1>3, <2>1 DEF OwnerInv, Consecutive, Sending, Reached
  <2>2. CASE request'.at \in {"leaving", "over"}
    BY <1>0, <1>1, <2>2 DEF OwnerInv, Consecutive, Sending, Reading
  <2> QED
    BY <1>2, <2>1, <2>2
<1>5. LastComes'
  BY <1>1, <1>2, <1>3 DEF OwnerInv, LastComes, Leaving
<1>6. Cleanup'
  <2>1. CASE Owner!CloseEnds(c)
    <3>1. /\ producer' = producer /\ producer.at \in Owner!Over \union {"none"}
          /\ owner'.timedOut = owner.timedOut
          /\ owner'.logged <=> owner.logged \/ (producer.at = "failed" /\ ~owner.observed)
      BY <2>1 DEF Owner!CloseEnds, OwnerInv, OwnerTypes, Owners
    <3> QED
      BY <1>2, <1>3, <3>1 DEF OwnerInv, Cleanup, Owner!Over
  <2>2. CASE Owner!CloseTimesOut(c)
    <3>1. /\ producer.at = "running" /\ owner.deadline = "passed" /\ owner'.logged = owner.logged
          /\ owner'.timedOut = TRUE
          /\ producer'.cancels = IF owner.timedOut THEN producer.cancels ELSE producer.cancels + 1
      BY <2>2 DEF Owner!CloseTimesOut, OwnerInv, OwnerTypes, Owners, Producers
    <3>2. producer'.cancels = 2
      BY <3>1 DEF OwnerInv, Cleanup
    <3> QED
      BY <1>2, <1>3, <3>1, <3>2 DEF OwnerInv, Cleanup
  <2> QED
    BY <2>1, <2>2
<1> QED
  BY <1>1, <1>2, <1>3, <1>4, <1>5, <1>6 DEF OwnerInv, OwnerTypes

LEMMA WaitKeeps ==
  ASSUME OwnerInv,
         Owner!DeadlinePasses \/ (\E c \in Owner!Closers : Owner!Interrupt(c)) \/ UNCHANGED ownerVars
  PROVE  OwnerInv'
<1>1. CASE Owner!DeadlinePasses
  <2>1. /\ owner' = [owner EXCEPT !.deadline = "passed"] /\ owner.deadline = "running"
        /\ UNCHANGED <<producer, channel, request, closer, client>>
    BY <1>1 DEF Owner!DeadlinePasses
  <2>2. /\ owner' \in Owners /\ owner'.deadline = "passed" /\ owner'.timedOut = owner.timedOut
        /\ owner'.observed = owner.observed /\ owner'.logged = owner.logged
    BY <2>1 DEF OwnerInv, OwnerTypes, Owners
  <2>3. OwnerTypes'
    BY <2>1, <2>2 DEF OwnerInv, OwnerTypes
  <2>4. Consecutive' /\ LastComes'
    BY <2>1, <2>2 DEF OwnerInv, Consecutive, Sending, Reached, LastComes
  <2>5. Cleanup'
    BY <2>1, <2>2 DEF OwnerInv, Cleanup
  <2> QED
    BY <2>3, <2>4, <2>5 DEF OwnerInv
<1>2. CASE \E c \in Owner!Closers : Owner!Interrupt(c)
  <2>1. /\ closer' \in Closings /\ UNCHANGED <<producer, channel, owner, request, client>>
        /\ \A c \in Owner!Closers : closer'[c].at = closer[c].at
    <3>1. PICK c \in Owner!Closers :
            /\ closer' = [closer EXCEPT ![c].interrupted = TRUE]
            /\ UNCHANGED <<producer, channel, owner, request, client>>
      BY <1>2 DEF Owner!Interrupt
    <3>2. closer \in Closings
      BY DEF OwnerInv, OwnerTypes
    <3> QED
      BY <3>1, <3>2 DEF Closings
  <2>2. OwnerTypes'
    BY <2>1 DEF OwnerInv, OwnerTypes
  <2>3. Consecutive' /\ LastComes'
    BY <2>1 DEF OwnerInv, Consecutive, Sending, Reached, LastComes
  <2>4. Cleanup'
    BY <2>1 DEF OwnerInv, Cleanup
  <2> QED
    BY <2>2, <2>3, <2>4 DEF OwnerInv
<1>3. CASE UNCHANGED ownerVars
  <2>1. OwnerTypes' /\ Cleanup'
    BY <1>3 DEF ownerVars, OwnerInv, OwnerTypes, Cleanup
  <2>2. Consecutive' /\ LastComes'
    BY <1>3 DEF ownerVars, OwnerInv, Consecutive, Sending, Reached, LastComes
  <2> QED
    BY <2>1, <2>2 DEF OwnerInv
<1> QED
  BY <1>1, <1>2, <1>3

LEMMA OwnerStep ==
  ASSUME OwnerInv, Owner!Next \/ UNCHANGED ownerVars
  PROVE  OwnerInv'
<1>1. CASE Owner!Request
  BY <1>1, StartKeeps, ItemKeeps, EndKeeps, SentKeeps, QuietKeeps DEF Owner!Request
<1>2. CASE Owner!Producer
  BY <1>2, SendKeeps, ProducerKeeps DEF Owner!Producer
<1>3. CASE Owner!Ping \/ Owner!Leave
  BY <1>3, QuietKeeps
<1>4. CASE \E c \in Owner!Closers : Owner!Close(c)
  <2>1. PICK c \in Owner!Closers : Owner!CloseStarts(c) \/ Owner!CloseEnds(c) \/ Owner!CloseTimesOut(c)
    BY <1>4 DEF Owner!Close
  <2>2. CASE Owner!CloseStarts(c)
    BY <2>2, CloseStartsKeeps
  <2>3. CASE Owner!CloseEnds(c) \/ Owner!CloseTimesOut(c)
    <3>1. closer[c].at = "waiting"
      BY <2>3 DEF Owner!CloseEnds, Owner!CloseTimesOut
    <3> QED
      BY <2>3, <3>1, CloseOverKeeps
  <2> QED
    BY <2>1, <2>2, <2>3
<1>5. CASE Owner!DeadlinePasses \/ (\E c \in Owner!Closers : Owner!Interrupt(c)) \/ Owner!Rest \/ UNCHANGED ownerVars
  <2>1. Owner!Rest => UNCHANGED ownerVars
    BY DEF Owner!Rest, Owner!vars, ownerVars
  <2> QED
    BY <1>5, <2>1, WaitKeeps
<1> QED
  BY <1>1, <1>2, <1>3, <1>4, <1>5 DEF Owner!Next

LEMMA OwnerHolds ==
  ASSUME OwnerInv
  PROVE  InOrder /\ Contained
<1>1. Owner!Contained
  BY DEF OwnerInv, OwnerTypes, Cleanup, Owner!Contained, Owner!Over, Producers
<1>2. Owner!InOrder
  <2> DEFINE sending == IF request.at = "sending" /\ request.message = "item" THEN <<request.item>> ELSE <<>>
             open == IF channel.receiver /\ request.at # "leaving" THEN channel.items ELSE <<>>
             g == Len(client.got)
             a == client.got \o sending
             known == a \o open
  <2>1. /\ client.got \in Seq(Nat) /\ channel.items \in Seq(Nat) /\ request.item \in Nat /\ g \in Nat
    BY DEF OwnerInv, OwnerTypes, Receivers, Channels, Requests
  <2>2. /\ sending \in Seq(Nat) /\ Len(sending) \in {0, 1} /\ Reached = g + Len(sending)
        /\ Len(sending) = 1 => sending[1] = g + 1
    <3>1. Sending => request.item = g + 1
      BY DEF OwnerInv, Consecutive
    <3>2. CASE Sending
      <4>1. sending = <<request.item>> /\ Reached = g + 1
        BY <3>2 DEF Sending, Reached
      <4> HIDE DEF sending, g
      <4> QED
        BY <2>1, <3>1, <3>2, <4>1
    <3>3. CASE ~Sending
      <4>1. sending = <<>> /\ Reached = g
        BY <3>3 DEF Sending, Reached
      <4> HIDE DEF sending, g
      <4> QED
        BY <2>1, <4>1
    <3> QED
      BY <3>2, <3>3
  <2>3. a \in Seq(Nat) /\ Len(a) = Reached /\ \A i \in 1..Reached : a[i] = i
    <3> HIDE DEF sending, g
    <3>1. /\ a \in Seq(Nat) /\ Len(a) = Len(client.got) + Len(sending)
          /\ \A i \in 1..(Len(client.got) + Len(sending)) :
               a[i] = IF i <= Len(client.got) THEN client.got[i] ELSE sending[i - Len(client.got)]
      BY <2>1, <2>2, ConcatProperties, Zenon
    <3> HIDE DEF a
    <3>2. \A i \in 1..g : client.got[i] = i
      BY <2>1 DEF OwnerInv, Consecutive, g
    <3> DEFINE k == Len(sending)
    <3>3. /\ g \in Nat /\ k \in {0, 1} /\ Reached = g + k /\ Len(a) = g + k
          /\ \A i \in 1..(g + k) : a[i] = IF i <= g THEN client.got[i] ELSE sending[i - g]
          /\ k = 1 => sending[1] = g + 1
      BY <2>1, <2>2, <3>1 DEF g
    <3> HIDE DEF k
    <3>4. ASSUME NEW i \in 1..(g + k)
          PROVE  a[i] = i
      <4>1. CASE i <= g
        <5>1. i \in 1..g /\ a[i] = client.got[i]
          BY <3>3, <4>1
        <5> QED
          BY <3>2, <5>1
      <4>2. CASE ~(i <= g)
        <5>1. k = 1 /\ i = g + 1 /\ i - g = 1
          BY <3>3, <4>2
        <5>2. a[i] = sending[i - g]
          BY <3>3, <4>2
        <5> QED
          BY <3>3, <5>1, <5>2
      <4> QED
        BY <4>1, <4>2
    <3> QED
      BY <3>1, <3>3, <3>4
  <2>4. open \in Seq(Nat) /\ \A i \in DOMAIN open : open[i] = Reached + i
    <3>1. CASE channel.receiver /\ request.at # "leaving"
      <4>1. \A i \in DOMAIN channel.items : channel.items[i] = Reached + i
        BY <3>1 DEF OwnerInv, Consecutive
      <4> QED
        BY <2>1, <3>1, <4>1
    <3>2. CASE ~(channel.receiver /\ request.at # "leaving")
      BY <3>2
    <3> QED
      BY <3>1, <3>2
  <2>5. Reached \in Nat
    BY <2>1 DEF Reached
  <2>6. \A i \in DOMAIN known : known[i] = i
    <3> HIDE DEF a, open
    <3>1. /\ known \in Seq(Nat) /\ Len(known) = Len(a) + Len(open)
          /\ \A i \in 1..(Len(a) + Len(open)) : known[i] = IF i <= Len(a) THEN a[i] ELSE open[i - Len(a)]
      BY <2>3, <2>4, ConcatProperties, Zenon
    <3> DEFINE m == Len(open)
    <3>2. m \in Nat /\ DOMAIN open = 1..m
      BY <2>4
    <3> HIDE DEF known, m
    <3>3. DOMAIN known = 1..(Reached + m) /\ \A i \in 1..(Reached + m) :
            known[i] = IF i <= Reached THEN a[i] ELSE open[i - Reached]
      BY <2>3, <3>1 DEF m
    <3>4. ASSUME NEW i \in 1..(Reached + m)
          PROVE  known[i] = i
      <4>1. CASE i <= Reached
        <5>1. i \in 1..Reached /\ known[i] = a[i]
          BY <2>5, <3>2, <3>3, <4>1
        <5> QED
          BY <2>3, <5>1
      <4>2. CASE ~(i <= Reached)
        <5>1. i - Reached \in 1..m /\ Reached + (i - Reached) = i
          BY <2>5, <3>2, <4>2
        <5>2. known[i] = open[i - Reached]
          BY <3>3, <4>2
        <5> QED
          BY <2>4, <3>2, <5>1, <5>2
      <4> QED
        BY <4>1, <4>2
    <3> QED
      BY <3>3, <3>4
  <2>7. client.last # "none" => Len(client.got) = producer.sent
    BY DEF OwnerInv, LastComes
  <2> QED
    BY <2>6, <2>7 DEF Owner!InOrder
<1> QED
  BY <1>1, <1>2 DEF InOrder, Contained

-----------------------------------------------------------------------------
(* The stream of a queued turn *)

Frame == [seq : Nat, terminal : BOOLEAN]
Jobs == [at : {"none", "queued", "running", "told", "over"}, count : Nat, seq : Nat]
Connections == [at : {"away", "joined", "open"}, queue : Seq(Frame), lastSeq : Nat, ended : BOOLEAN]
Readers == [seqs : Seq(Nat), told : BOOLEAN, drops : Nat, truncated : BOOLEAN, overtaken : BOOLEAN,
            displaced : BOOLEAN]

QueuedTypes ==
  /\ job \in Jobs /\ history \in Seq(Frame) /\ feed \in Seq(Frame)
  /\ streams \in [Clients -> Connections] /\ clients \in [Clients -> Readers]

\* Every job numbers from 1, and what is still to be delivered is the end of the history.
Numbered ==
  /\ \A i \in DOMAIN history :
       history[i].seq <= 1 \/ (i > 1 /\ history[i].seq <= history[i - 1].seq + 1)
  /\ job.seq = 0 \/ (history # <<>> /\ job.seq <= history[Len(history)].seq)
  /\ Len(feed) <= Len(history)
  /\ \A i \in DOMAIN feed : feed[i] = history[(Len(history) - Len(feed)) + i]

\* To somebody who knows the frames up to k, no frame of s comes before the one it follows.
Follows(s, k) ==
  \A i \in DOMAIN s : s[i].seq <= k + 1 \/ \E j \in DOMAIN s : j < i /\ s[i].seq <= s[j].seq + 1

\* By the end of s they know the frames up to n.
Knows(s, k, n) == n <= k \/ \E j \in DOMAIN s : n <= s[j].seq

Whole(c) == ~clients[c].truncated /\ ~clients[c].overtaken /\ ~clients[c].displaced

\* What an open connection is still to take continues what its client has got.
Continues(c) ==
  /\ streams[c].at # "away" => streams[c].lastSeq = Queued!LastSeq(c)
  /\ streams[c].at = "open" /\ Whole(c) =>
       /\ Follows(streams[c].queue \o feed, streams[c].lastSeq)
       /\ Knows(streams[c].queue \o feed, streams[c].lastSeq, job.seq)

GotOnce(c) ==
  /\ \A i \in DOMAIN clients[c].seqs : i > 1 => clients[c].seqs[i] > clients[c].seqs[i - 1]
  /\ Whole(c) => \A i \in DOMAIN clients[c].seqs : clients[c].seqs[i] = i

QueuedInv ==
  /\ QueuedTypes /\ Numbered
  /\ \A c \in Clients : Continues(c) /\ GotOnce(c)

LEMMA Appended ==
  ASSUME NEW s \in Seq(Frame), NEW x \in Frame
  PROVE  /\ Append(s, x) \in Seq(Frame) /\ Len(Append(s, x)) = Len(s) + 1 /\ Len(s) \in Nat
         /\ Append(s, x) # <<>>
         /\ DOMAIN s = 1..Len(s) /\ DOMAIN Append(s, x) = 1..(Len(s) + 1)
         /\ Append(s, x)[Len(s) + 1] = x /\ \A i \in 1..Len(s) : Append(s, x)[i] = s[i]
OBVIOUS

LEMMA Remainder ==
  ASSUME NEW s \in Seq(Frame), s # <<>>
  PROVE  /\ Tail(s) \in Seq(Frame) /\ Len(Tail(s)) = Len(s) - 1 /\ Len(s) \in Nat \ {0}
         /\ DOMAIN s = 1..Len(s) /\ DOMAIN Tail(s) = 1..(Len(s) - 1)
         /\ Head(s) = s[1] /\ Head(s) \in Frame /\ \A i \in 1..(Len(s) - 1) : Tail(s)[i] = s[i + 1]
OBVIOUS

LEMMA Joined ==
  ASSUME NEW s \in Seq(Frame), NEW t \in Seq(Frame)
  PROVE  /\ s \o t \in Seq(Frame) /\ Len(s \o t) = Len(s) + Len(t) /\ Len(s) \in Nat /\ Len(t) \in Nat
         /\ DOMAIN s = 1..Len(s) /\ DOMAIN t = 1..Len(t) /\ DOMAIN (s \o t) = 1..(Len(s) + Len(t))
         /\ \A i \in 1..Len(s) : (s \o t)[i] = s[i]
         /\ \A i \in 1..Len(t) : (s \o t)[Len(s) + i] = t[i]
<1> DEFINE c == s \o t
<1>1. /\ c \in Seq(Frame) /\ Len(c) = Len(s) + Len(t)
      /\ \A i \in 1..(Len(s) + Len(t)) : c[i] = IF i <= Len(s) THEN s[i] ELSE t[i - Len(s)]
  BY ConcatProperties, Zenon
<1>2. Len(s) \in Nat /\ Len(t) \in Nat /\ DOMAIN s = 1..Len(s) /\ DOMAIN t = 1..Len(t)
  OBVIOUS
<1> HIDE DEF c
<1>3. DOMAIN c = 1..(Len(s) + Len(t))
  BY <1>1
<1> DEFINE m == Len(s)
           n == Len(t)
<1>4. m \in Nat /\ n \in Nat /\ \A i \in 1..(m + n) : c[i] = IF i <= m THEN s[i] ELSE t[i - m]
  BY <1>1, <1>2
<1> HIDE DEF m, n
<1>5. \A i \in 1..m : c[i] = s[i]
  BY <1>4
<1>6. ASSUME NEW i \in 1..n
      PROVE  c[m + i] = t[i]
  <2>1. m + i \in 1..(m + n) /\ ~(m + i <= m) /\ (m + i) - m = i
    BY <1>4
  <2> QED
    BY <1>4, <2>1
<1> QED
  BY <1>1, <1>2, <1>3, <1>5, <1>6 DEF c, m, n

LEMMA JoinAppended ==
  ASSUME NEW s \in Seq(Frame), NEW t \in Seq(Frame), NEW x \in Frame
  PROVE  s \o Append(t, x) = Append(s \o t, x)
OBVIOUS

LEMMA JoinMoved ==
  ASSUME NEW s \in Seq(Frame), NEW t \in Seq(Frame), t # <<>>
  PROVE  Append(s, Head(t)) \o Tail(t) = s \o t
BY SMTT(30)

LEMMA JoinTaken ==
  ASSUME NEW s \in Seq(Frame), NEW t \in Seq(Frame), s # <<>>
  PROVE  Tail(s) \o t = Tail(s \o t) /\ Head(s \o t) = Head(s) /\ s \o t # <<>>
OBVIOUS

\* The next frame of the job may always be published.
LEMMA NextFollows ==
  ASSUME NEW s \in Seq(Frame), NEW k \in Nat, NEW n \in Nat, NEW x \in Frame, x.seq = n + 1,
         Follows(s, k), Knows(s, k, n)
  PROVE  Follows(Append(s, x), k) /\ Knows(Append(s, x), k, n + 1)
<1> DEFINE t == Append(s, x)
           m == Len(s)
<1>1. /\ m \in Nat /\ DOMAIN s = 1..m /\ DOMAIN t = 1..(m + 1)
      /\ t[m + 1] = x /\ \A i \in 1..m : t[i] = s[i] /\ s[i] \in Frame
  BY Appended
<1> HIDE DEF t, m
<1>2. \A i \in 1..m : s[i].seq \in Nat
  BY <1>1 DEF Frame
<1>3. ASSUME NEW i \in 1..m
      PROVE  t[i].seq <= k + 1 \/ \E j \in DOMAIN t : j < i /\ t[i].seq <= t[j].seq + 1
  <2>1. CASE s[i].seq <= k + 1
    BY <1>1, <2>1
  <2>2. ASSUME NEW j \in 1..m, j < i, s[i].seq <= s[j].seq + 1
        PROVE  \E l \in DOMAIN t : l < i /\ t[i].seq <= t[l].seq + 1
    <3>1. j \in DOMAIN t /\ t[j] = s[j] /\ t[i] = s[i]
      BY <1>1
    <3> QED
      BY <3>1, <2>2
  <2> QED
    BY <1>1, <2>1, <2>2 DEF Follows
<1>4. t[m + 1].seq <= k + 1 \/ \E j \in DOMAIN t : j < m + 1 /\ t[m + 1].seq <= t[j].seq + 1
  <2>1. CASE n <= k
    BY <1>1, <2>1
  <2>2. ASSUME NEW j \in 1..m, n <= s[j].seq
        PROVE  \E l \in DOMAIN t : l < m + 1 /\ t[m + 1].seq <= t[l].seq + 1
    <3>1. j \in DOMAIN t /\ j < m + 1 /\ t[j] = s[j]
      BY <1>1
    <3>2. t[m + 1].seq = n + 1 /\ n + 1 <= t[j].seq + 1
      BY <1>1, <1>2, <2>2, <3>1
    <3> QED
      BY <3>1, <3>2
  <2> QED
    BY <1>1, <2>1, <2>2 DEF Knows
<1>5. Follows(t, k)
  <2>1. \A i \in DOMAIN t : i \in 1..m \/ i = m + 1
    BY <1>1
  <2> QED
    BY <1>3, <1>4, <2>1 DEF Follows
<1>6. Knows(t, k, n + 1)
  <2>1. m + 1 \in DOMAIN t /\ n + 1 <= t[m + 1].seq
    BY <1>1
  <2> QED
    BY <2>1 DEF Knows
<1> QED
  BY <1>5, <1>6 DEF t

\* Once the first frame was taken, what is left continues from there.
LEMMA RestFollows ==
  ASSUME NEW s \in Seq(Frame), s # <<>>, NEW k \in Nat, NEW n \in Nat, Follows(s, k), Knows(s, k, n),
         NEW l \in Nat, l = IF Head(s).seq > k THEN Head(s).seq ELSE k
  PROVE  Head(s).seq <= k + 1 /\ Follows(Tail(s), l) /\ Knows(Tail(s), l, n)
<1> DEFINE t == Tail(s)
           h == Head(s)
           m == Len(s)
<1>1. /\ m \in Nat \ {0} /\ DOMAIN s = 1..m /\ DOMAIN t = 1..(m - 1) /\ h = s[1]
      /\ \A i \in 1..m : s[i] \in Frame
      /\ \A i \in 1..(m - 1) : t[i] = s[i + 1]
  BY Remainder
<1> HIDE DEF t, m
<1>2. \A i \in 1..m : s[i].seq \in Nat
  BY <1>1 DEF Frame
<1>3. h.seq <= k + 1
  BY <1>1 DEF Follows
<1>4. l >= k /\ l >= h.seq
  BY <1>1, <1>2
<1> HIDE DEF h
<1>5. ASSUME NEW i \in 1..(m - 1)
      PROVE  t[i].seq <= l + 1 \/ \E j \in DOMAIN t : j < i /\ t[i].seq <= t[j].seq + 1
  <2>1. i + 1 \in 1..m /\ t[i] = s[i + 1]
    BY <1>1
  <2>2. CASE s[i + 1].seq <= k + 1
    BY <1>2, <1>4, <2>1, <2>2
  <2>3. ASSUME NEW j \in 1..m, j < i + 1, s[i + 1].seq <= s[j].seq + 1
        PROVE  t[i].seq <= l + 1 \/ \E q \in DOMAIN t : q < i /\ t[i].seq <= t[q].seq + 1
    <3>1. CASE j = 1
      BY <1>1, <1>2, <1>4, <2>1, <2>3, <3>1
    <3>2. CASE j # 1
      <4>1. j - 1 \in 1..(m - 1) /\ j - 1 < i /\ (j - 1) + 1 = j
        BY <1>1, <2>3, <3>2
      <4>2. t[j - 1] = s[j]
        BY <1>1, <4>1
      <4> QED
        BY <1>1, <2>1, <2>3, <4>1, <4>2
    <3> QED
      BY <3>1, <3>2
  <2> QED
    BY <1>1, <2>1, <2>2, <2>3 DEF Follows
<1>6. Knows(t, l, n)
  <2>1. CASE n <= k
    BY <1>4, <2>1 DEF Knows
  <2>2. ASSUME NEW j \in 1..m, n <= s[j].seq
        PROVE  Knows(t, l, n)
    <3>1. CASE j = 1
      BY <1>1, <1>2, <1>4, <2>2, <3>1 DEF Knows
    <3>2. CASE j # 1
      <4>1. j - 1 \in 1..(m - 1) /\ (j - 1) + 1 = j
        BY <1>1, <3>2
      <4>2. t[j - 1] = s[j]
        BY <1>1, <4>1
      <4> QED
        BY <1>1, <2>2, <4>1, <4>2 DEF Knows
    <3> QED
      BY <3>1, <3>2
  <2> QED
    BY <1>1, <2>1, <2>2 DEF Knows
<1>7. Follows(t, l)
  BY <1>1, <1>5 DEF Follows
<1> QED
  BY <1>3, <1>6, <1>7 DEF t, h

LEMMA ReplayedIs == QueuedTypes => Queued!Replayed \in Seq(Frame)
<1> SUFFICES ASSUME QueuedTypes
             PROVE  Queued!Replayed \in Seq(Frame)
  OBVIOUS
<1> DEFINE n == Len(history)
           o == IF n > ReplayLimit THEN n - ReplayLimit + 1 ELSE 1
<1>1. n \in Nat /\ ReplayLimit \in Nat \ {0} /\ \A i \in 1..n : history[i] \in Frame
  BY StreamsAssumption DEF QueuedTypes, Queued!QueuedTurnAssumption
<1>2. Queued!Replayed = SubSeq(history, o, n)
  BY DEF Queued!Replayed
<1> HIDE DEF n
<1>3. o \in Int /\ n \in Int /\ \A i \in o..n : history[i] \in Frame
  BY <1>1
<1> HIDE DEF o
<1> QED
  BY <1>2, <1>3, SubSeqProperties

\* A replay that skips nothing continues what the client has got, and with the live frames
\* behind it reaches the end of the history.
LEMMA ReplayFollows ==
  ASSUME QueuedTypes, Numbered, NEW c \in Clients, ~Queued!Skips(c), Queued!LastSeq(c) \in Nat
  PROVE  /\ Queued!Replayed \in Seq(Frame)
         /\ Follows(Queued!Replayed \o feed, Queued!LastSeq(c))
         /\ Knows(Queued!Replayed \o feed, Queued!LastSeq(c), job.seq)
<1> DEFINE k == Queued!LastSeq(c)
           r == Queued!Replayed
           n == Len(history)
           f == Len(feed)
           o == IF n > ReplayLimit THEN n - ReplayLimit ELSE 0
           m == n - o
           s == r \o feed
<1>1. n \in Nat /\ f \in Nat /\ ReplayLimit \in Nat \ {0} /\ k \in Nat
      /\ DOMAIN history = 1..n /\ DOMAIN feed = 1..f
  BY StreamsAssumption DEF QueuedTypes, Queued!QueuedTurnAssumption
<1>2. /\ \A i \in 1..n : history[i] \in Frame
      /\ \A i \in 1..f : feed[i] \in Frame
  BY DEF QueuedTypes
<1>3. job.seq \in Nat
  BY DEF QueuedTypes, Jobs
<1>4. r = SubSeq(history, o + 1, n)
  BY <1>1 DEF Queued!Replayed
<1> HIDE DEF k, r
<1>5. r \in Seq(Frame) /\ Len(r) = m /\ \A i \in 1..m : r[i] = history[o + i]
  <2>1. o + 1 \in Int /\ n \in Int /\ \A i \in (o + 1)..n : history[i] \in Frame
    BY <1>1, <1>2
  <2>2. /\ SubSeq(history, o + 1, n) \in Seq(Frame)
        /\ Len(SubSeq(history, o + 1, n)) = IF o + 1 <= n THEN n - (o + 1) + 1 ELSE 0
        /\ \A i \in 1..(n - (o + 1) + 1) : SubSeq(history, o + 1, n)[i] = history[(o + 1) + i - 1]
    <3> HIDE DEF o, n
    <3> QED
      BY <2>1, SubSeqProperties
  <2>3. o \in Nat /\ n \in Nat /\ o <= n /\ m = n - o
    BY <1>1
  <2> HIDE DEF o, n, m
  <2>4. r \in Seq(Frame)
    BY <1>4, <2>2
  <2>5. Len(r) = m
    BY <1>4, <2>2, <2>3
  <2>6. \A i \in 1..m : i \in 1..(n - (o + 1) + 1) /\ (o + 1) + i - 1 = o + i
    BY <2>3
  <2>7. \A i \in 1..m : r[i] = history[o + i]
    BY <1>4, <2>2, <2>6
  <2> QED
    BY <2>4, <2>5, <2>7
<1>6. o \in Nat /\ m \in Nat /\ o + m = n /\ (o > 0 => m = ReplayLimit)
  BY <1>1
<1>7. /\ \A i \in 1..n : history[i].seq \in Nat
      /\ \A i \in 1..n : history[i].seq <= 1 \/ (i > 1 /\ history[i].seq <= history[i - 1].seq + 1)
      /\ job.seq = 0 \/ (n > 0 /\ job.seq <= history[n].seq)
      /\ f <= n /\ \A i \in 1..f : feed[i] = history[(n - f) + i]
  <2>1. \A i \in 1..n : history[i].seq \in Nat
    BY <1>2 DEF Frame
  <2>2. \A i \in 1..n : history[i].seq <= 1 \/ (i > 1 /\ history[i].seq <= history[i - 1].seq + 1)
    BY <1>1 DEF Numbered
  <2>3. history # <<>> => n > 0
    BY DEF QueuedTypes
  <2>4. job.seq = 0 \/ (n > 0 /\ job.seq <= history[n].seq)
    BY <2>3 DEF Numbered
  <2>5. f <= n /\ \A i \in 1..f : feed[i] = history[(n - f) + i]
    BY <1>1 DEF Numbered
  <2> QED
    BY <2>1, <2>2, <2>4, <2>5
<1>8. o > 0 => (r[1].seq <= k + 1 /\ f <= m)
  <2> SUFFICES ASSUME o > 0
               PROVE  r[1].seq <= k + 1 /\ f <= m
    OBVIOUS
  <2>1. n > ReplayLimit /\ m = ReplayLimit
    <3>1. n > ReplayLimit
      <4> HIDE DEF n
      <4> QED
        BY <1>1
    <3> HIDE DEF m, o
    <3> QED
      BY <1>6, <3>1
  <2>2. ~(Head(r).seq > k + 1) /\ ~(f > ReplayLimit)
    BY <2>1 DEF Queued!Skips, k, r
  <2>3. Head(r) = r[1] /\ r[1] \in Frame
    BY <1>5, <2>1, <1>1
  <2> QED
    BY <2>1, <2>2, <2>3, <1>1 DEF Frame
<1>9. f <= m
  BY <1>6, <1>7, <1>8
<1>10. /\ DOMAIN s = 1..(m + f)
       /\ \A i \in 1..m : s[i] = history[o + i]
       /\ \A i \in 1..f : s[m + i] = history[(n - f) + i]
  <2>1. feed \in Seq(Frame)
    BY DEF QueuedTypes
  <2>2. /\ DOMAIN s = 1..(Len(r) + f)
        /\ \A i \in 1..Len(r) : s[i] = r[i]
        /\ \A i \in 1..f : s[Len(r) + i] = feed[i]
    <3> HIDE DEF n, o, m
    <3> QED
      BY <1>5, <2>1, Joined
  <2> HIDE DEF s, n, f, o, m
  <2> QED
    BY <1>5, <1>7, <2>2
<1> HIDE DEF s, n, f, o, m
<1>11. ASSUME NEW i \in 1..m
       PROVE  s[i].seq <= k + 1 \/ \E j \in DOMAIN s : j < i /\ s[i].seq <= s[j].seq + 1
  <2>1. o + i \in 1..n /\ s[i] = history[o + i]
    BY <1>1, <1>6, <1>10
  <2>2. CASE history[o + i].seq <= 1
    BY <1>1, <1>7, <2>1, <2>2
  <2>3. CASE ~(history[o + i].seq <= 1) /\ i = 1
    <3>1. o > 0
      BY <1>6, <1>7, <2>1, <2>3
    <3> QED
      BY <1>5, <1>8, <2>1, <2>3, <3>1
  <2>4. CASE ~(history[o + i].seq <= 1) /\ i # 1
    <3>1. i - 1 \in 1..m /\ o + (i - 1) = (o + i) - 1 /\ i - 1 < i /\ i - 1 \in 1..(m + f)
      BY <1>1, <1>6, <2>4
    <3>2. s[i - 1] = history[(o + i) - 1]
      BY <1>10, <3>1
    <3> QED
      BY <1>7, <1>10, <2>1, <2>4, <3>1, <3>2
  <2> QED
    BY <2>2, <2>3, <2>4
<1>12. ASSUME NEW i \in 1..f
       PROVE  \E j \in DOMAIN s : j < m + i /\ s[m + i].seq <= s[j].seq + 1
  <2> DEFINE q == (m - f) + i
  <2>1. q \in 1..m /\ q < m + i /\ o + q = (n - f) + i /\ q \in 1..(m + f)
    BY <1>1, <1>6, <1>9
  <2>2. s[q] = history[(n - f) + i] /\ s[m + i] = history[(n - f) + i]
    BY <1>10, <2>1
  <2>3. (n - f) + i \in 1..n
    BY <1>1, <1>7
  <2>4. s[q] = s[m + i] /\ s[q].seq \in Nat
    BY <1>7, <2>2, <2>3
  <2> QED
    BY <1>10, <2>1, <2>4
<1>13. Follows(s, k)
  <2>1. ASSUME NEW i \in 1..(m + f)
        PROVE  s[i].seq <= k + 1 \/ \E j \in DOMAIN s : j < i /\ s[i].seq <= s[j].seq + 1
    <3>1. CASE i <= m
      BY <1>6, <1>11, <3>1
    <3>2. CASE i > m
      <4>1. i - m \in 1..f /\ m + (i - m) = i
        BY <1>1, <1>6, <3>2
      <4> QED
        BY <1>12, <4>1
    <3> QED
      BY <3>1, <3>2, <1>6
  <2> QED
    BY <1>10, <2>1 DEF Follows
<1>14. Knows(s, k, job.seq)
  <2>1. CASE job.seq = 0
    BY <1>1, <2>1 DEF Knows
  <2>2. CASE n > 0 /\ job.seq <= history[n].seq
    <3>1. m \in 1..m /\ m \in 1..(m + f)
      <4>1. m > 0
        BY <1>1, <1>6, <2>2
      <4> QED
        BY <4>1, <1>6, <1>1
    <3> QED
      BY <1>6, <1>10, <2>2, <3>1 DEF Knows
  <2> QED
    BY <1>7, <2>1, <2>2
<1> QED
  BY <1>5, <1>13, <1>14 DEF s, r, k

LEMMA QueuedStarts == Queued!Init => QueuedInv
<1> SUFFICES ASSUME Queued!Init
             PROVE  QueuedInv
  OBVIOUS
<1> USE DEF Queued!Init, Queued!NoStream
<1>1. QueuedTypes
  BY DEF QueuedTypes, Jobs, Connections, Readers
<1>2. Numbered
  BY DEF Numbered
<1>3. ASSUME NEW c \in Clients
      PROVE  Continues(c) /\ GotOnce(c)
  <2>1. streams[c].at = "away" /\ clients[c].seqs = <<>>
    OBVIOUS
  <2> QED
    BY <2>1 DEF Continues, GotOnce
<1> QED
  BY <1>1, <1>2, <1>3 DEF QueuedInv

LEMMA QueuedIdle == NoTurn => QueuedInv
<1> SUFFICES ASSUME NoTurn
             PROVE  QueuedInv
  OBVIOUS
<1> USE DEF NoTurn, Queued!NoStream
<1>1. QueuedTypes
  BY StreamsAssumption DEF QueuedTypes, Jobs, Connections, Readers, Queued!QueuedTurnAssumption
<1>2. Numbered
  BY DEF Numbered
<1>3. ASSUME NEW c \in Clients
      PROVE  Continues(c) /\ GotOnce(c)
  <2>1. streams[c].at = "away" /\ clients[c].seqs = <<>>
    OBVIOUS
  <2> QED
    BY <2>1 DEF Continues, GotOnce
<1> QED
  BY <1>1, <1>2, <1>3 DEF QueuedInv

\* What a client has got tells the last frame it knows.
LEMMA Latest ==
  ASSUME QueuedTypes, NEW c \in Clients
  PROVE  /\ clients[c] \in Readers /\ streams[c] \in Connections
         /\ clients[c].seqs \in Seq(Nat) /\ Len(clients[c].seqs) \in Nat
         /\ DOMAIN clients[c].seqs = 1..Len(clients[c].seqs)
         /\ streams[c].queue \in Seq(Frame) /\ streams[c].lastSeq \in Nat
         /\ Queued!LastSeq(c) \in Nat
         /\ clients[c].seqs # <<>> =>
              Len(clients[c].seqs) > 0 /\ Queued!LastSeq(c) = clients[c].seqs[Len(clients[c].seqs)]
         /\ clients[c].seqs = <<>> => Len(clients[c].seqs) = 0 /\ Queued!LastSeq(c) = 0
         /\ GotOnce(c) /\ Whole(c) => Queued!LastSeq(c) = Len(clients[c].seqs)
<1>1. clients[c] \in Readers /\ streams[c] \in Connections
  BY DEF QueuedTypes
<1>2. clients[c].seqs \in Seq(Nat) /\ streams[c].queue \in Seq(Frame) /\ streams[c].lastSeq \in Nat
  BY <1>1 DEF Readers, Connections
<1> DEFINE s == clients[c].seqs
<1>3. Queued!LastSeq(c) = IF s = <<>> THEN 0 ELSE s[Len(s)]
  BY DEF Queued!LastSeq, Queued!Last
<1>4. s \in Seq(Nat)
  BY <1>2
<1>5. GotOnce(c) /\ Whole(c) => \A i \in DOMAIN s : s[i] = i
  BY DEF GotOnce
<1> HIDE DEF s
<1>6. /\ Len(s) \in Nat /\ DOMAIN s = 1..Len(s)
      /\ s # <<>> => Len(s) > 0 /\ Len(s) \in DOMAIN s /\ s[Len(s)] \in Nat
      /\ s = <<>> => Len(s) = 0
  BY <1>4
<1> QED
  BY <1>1, <1>2, <1>3, <1>5, <1>6 DEF s

LEMMA OthersKeep ==
  ASSUME NEW d \in Clients, Continues(d), GotOnce(d), streams'[d] = streams[d], clients'[d] = clients[d],
         feed' = feed, job'.seq = job.seq
  PROVE  Continues(d)' /\ GotOnce(d)'
BY DEF Continues, GotOnce, Whole, Queued!LastSeq

LEMMA JobKeeps ==
  ASSUME QueuedInv, Queued!Enqueue \/ Queued!RunStarts \/ Queued!RunEnds
  PROVE  QueuedInv'
<1> USE DEF QueuedInv
<1>1. /\ job' \in Jobs /\ job'.seq \in {job.seq, 0}
      /\ UNCHANGED <<history, feed, streams, clients>>
  BY DEF QueuedTypes, Jobs, Queued!Enqueue, Queued!RunStarts, Queued!RunEnds
<1>2. QueuedTypes'
  BY <1>1 DEF QueuedTypes
<1>3. Numbered'
  BY <1>1 DEF Numbered
<1>4. ASSUME NEW c \in Clients
      PROVE  Continues(c)' /\ GotOnce(c)'
  <2>1. CASE job'.seq = job.seq
    BY <1>1, <2>1, OthersKeep
  <2>2. CASE job'.seq = 0
    <3>1. streams[c].lastSeq \in Nat
      BY Latest
    <3>2. Knows(streams[c].queue \o feed, streams[c].lastSeq, 0)
      BY <3>1 DEF Knows
    <3> QED
      BY <1>1, <2>2, <3>2 DEF Continues, GotOnce, Whole, Queued!LastSeq
  <2> QED
    BY <1>1, <2>1, <2>2
<1> QED
  BY <1>2, <1>3, <1>4

LEMMA EmitKeeps ==
  ASSUME QueuedInv, Queued!Emit
  PROVE  QueuedInv'
<1> USE DEF QueuedInv
<1> PICK terminal \in BOOLEAN :
      /\ Queued!Publish([seq |-> Queued!Number, terminal |-> terminal])
      /\ job' = [job EXCEPT !.seq = @ + 1, !.at = IF terminal THEN "told" ELSE "running"]
  BY DEF Queued!Emit
<1> DEFINE x == [seq |-> job.seq + 1, terminal |-> terminal]
<1>1. job \in Jobs /\ history \in Seq(Frame) /\ feed \in Seq(Frame)
  BY DEF QueuedTypes
<1>2. job' \in Jobs /\ job'.seq = job.seq + 1 /\ job.seq \in Nat /\ x \in Frame /\ x.seq = job.seq + 1
  <2>1. job.seq \in Nat
    BY <1>1 DEF Jobs
  <2>2. x \in Frame /\ x.seq = job.seq + 1
    BY <2>1 DEF Frame
  <2>3. CASE terminal
    <3> DEFINE k == job.seq + 1
    <3>1. job' = [job EXCEPT !.seq = k, !.at = "told"] /\ k \in Nat
      BY <2>1, <2>3
    <3> HIDE DEF k, x
    <3>2. job' \in Jobs /\ job'.seq = k
      BY <1>1, <3>1 DEF Jobs
    <3> QED
      BY <2>1, <2>2, <3>2 DEF k
  <2>4. CASE ~terminal
    <3> DEFINE k == job.seq + 1
    <3>1. job' = [job EXCEPT !.seq = k, !.at = "running"] /\ k \in Nat
      BY <2>1, <2>4
    <3> HIDE DEF k, x
    <3>2. job' \in Jobs /\ job'.seq = k
      BY <1>1, <3>1 DEF Jobs
    <3> QED
      BY <2>1, <2>2, <3>2 DEF k
  <2> QED
    BY <2>3, <2>4
<1>3. /\ history' = Append(history, x) /\ feed' = Append(feed, x)
      /\ UNCHANGED <<streams, clients>>
  BY DEF Queued!Emit, Queued!Publish, Queued!Number
<1> HIDE DEF x
<1> DEFINE n == Len(history)
           f == Len(feed)
<1>4. /\ history' \in Seq(Frame) /\ feed' \in Seq(Frame) /\ history' # <<>>
      /\ n \in Nat /\ f \in Nat /\ Len(history') = n + 1 /\ Len(feed') = f + 1
      /\ DOMAIN history' = 1..(n + 1) /\ DOMAIN feed' = 1..(f + 1)
      /\ DOMAIN history = 1..n /\ DOMAIN feed = 1..f
      /\ history'[n + 1] = x /\ feed'[f + 1] = x
      /\ \A i \in 1..n : history'[i] = history[i]
      /\ \A i \in 1..f : feed'[i] = feed[i]
  BY <1>1, <1>2, <1>3, Appended
<1>5. QueuedTypes'
  BY <1>2, <1>3, <1>4 DEF QueuedTypes
<1>6. Numbered'
  <2>1. /\ \A i \in 1..n : history[i].seq <= 1 \/ (i > 1 /\ history[i].seq <= history[i - 1].seq + 1)
        /\ job.seq = 0 \/ (n > 0 /\ job.seq <= history[n].seq)
        /\ f <= n /\ \A i \in 1..f : feed[i] = history[(n - f) + i]
    <3>1. history # <<>> => n > 0
      BY <1>1
    <3> QED
      BY <1>4, <3>1 DEF Numbered
  <2>2. \A i \in 1..n : history[i].seq \in Nat
    <3>1. \A i \in 1..n : history[i] \in Frame
      BY <1>1
    <3> QED
      BY <3>1 DEF Frame
  <2> HIDE DEF n, f
  <2>3. ASSUME NEW i \in 1..(n + 1)
        PROVE  history'[i].seq <= 1 \/ (i > 1 /\ history'[i].seq <= history'[i - 1].seq + 1)
    <3>1. CASE i = n + 1
      <4>1. CASE job.seq = 0
        BY <1>2, <1>4, <3>1, <4>1
      <4>2. CASE n > 0 /\ job.seq <= history[n].seq
        <5>1. n \in 1..n /\ i > 1 /\ i - 1 = n
          BY <1>4, <3>1, <4>2
        <5> QED
          BY <1>2, <1>4, <2>2, <3>1, <4>2, <5>1
      <4> QED
        BY <2>1, <4>1, <4>2
    <3>2. CASE i \in 1..n
      <4>1. i > 1 => i - 1 \in 1..n
        BY <1>4, <3>2
      <4> QED
        BY <1>4, <2>1, <3>2, <4>1
    <3> QED
      BY <1>4, <3>1, <3>2
  <2>4. ASSUME NEW i \in 1..(f + 1)
        PROVE  feed'[i] = history'[((n + 1) - (f + 1)) + i]
    <3>1. CASE i = f + 1
      <4>1. ((n + 1) - (f + 1)) + i = n + 1
        BY <1>4, <3>1
      <4> QED
        BY <1>4, <3>1, <4>1
    <3>2. CASE i \in 1..f
      <4>1. ((n + 1) - (f + 1)) + i = (n - f) + i /\ (n - f) + i \in 1..n
        BY <1>4, <2>1, <3>2
      <4> QED
        BY <1>4, <2>1, <3>2, <4>1
    <3> QED
      BY <1>4, <3>1, <3>2
  <2>5. job'.seq <= history'[n + 1].seq /\ f + 1 <= n + 1
    BY <1>2, <1>4, <2>1
  <2> QED
    BY <1>4, <2>3, <2>4, <2>5 DEF Numbered
<1>7. ASSUME NEW c \in Clients
      PROVE  Continues(c)' /\ GotOnce(c)'
  <2>1. GotOnce(c)'
    BY <1>3 DEF GotOnce, Whole
  <2>2. streams[c].queue \in Seq(Frame) /\ streams[c].lastSeq \in Nat
    BY Latest
  <2>3. /\ streams'[c] = streams[c] /\ clients'[c] = clients[c] /\ Queued!LastSeq(c)' = Queued!LastSeq(c)
        /\ streams[c].queue \o feed' = Append(streams[c].queue \o feed, x)
        /\ streams[c].queue \o feed \in Seq(Frame)
    <3>1. streams'[c] = streams[c] /\ clients'[c] = clients[c] /\ Queued!LastSeq(c)' = Queued!LastSeq(c)
      BY <1>3 DEF Queued!LastSeq
    <3>2. feed \in Seq(Frame) /\ feed' = Append(feed, x) /\ x \in Frame
      BY <1>1, <1>2, <1>3
    <3> QED
      BY <2>2, <3>1, <3>2, JoinAppended, Joined
  <2>4. ASSUME streams[c].at = "open", Whole(c)
        PROVE  /\ Follows(streams[c].queue \o feed', streams[c].lastSeq)
               /\ Knows(streams[c].queue \o feed', streams[c].lastSeq, job.seq + 1)
    <3>1. /\ Follows(streams[c].queue \o feed, streams[c].lastSeq)
          /\ Knows(streams[c].queue \o feed, streams[c].lastSeq, job.seq)
      BY <2>4 DEF Continues
    <3> QED
      BY <1>2, <2>2, <2>3, <3>1, NextFollows
  <2>5. Continues(c)'
    BY <1>2, <2>3, <2>4 DEF Continues, Whole
  <2> QED
    BY <2>1, <2>5
<1> QED
  BY <1>5, <1>6, <1>7

LEMMA DispatchKeeps ==
  ASSUME QueuedInv, Queued!Dispatch
  PROVE  QueuedInv'
<1> USE DEF QueuedInv
<1> DEFINE n == Len(history)
           f == Len(feed)
<1>1. /\ history \in Seq(Frame) /\ feed \in Seq(Frame) /\ feed # <<>>
      /\ feed' = Tail(feed) /\ UNCHANGED <<job, history, clients>>
      /\ streams' = [c \in Clients |->
           IF streams[c].at = "away" THEN streams[c]
           ELSE [streams[c] EXCEPT !.queue = Append(@, Head(feed))]]
  BY DEF QueuedTypes, Queued!Dispatch
<1>2. /\ feed' \in Seq(Frame) /\ f \in Nat \ {0} /\ Len(feed') = f - 1
      /\ DOMAIN feed = 1..f /\ DOMAIN feed' = 1..(f - 1) /\ Head(feed) \in Frame
      /\ \A i \in 1..(f - 1) : feed'[i] = feed[i + 1]
  BY <1>1, Remainder
<1>3. ASSUME NEW c \in Clients
      PROVE  /\ streams'[c] \in Connections
             /\ streams'[c].at = streams[c].at /\ streams'[c].lastSeq = streams[c].lastSeq
             /\ streams[c].at # "away" => streams'[c].queue = Append(streams[c].queue, Head(feed))
  <2>1. streams[c] \in Connections /\ streams[c].queue \in Seq(Frame)
    BY Latest
  <2>2. Append(streams[c].queue, Head(feed)) \in Seq(Frame)
    BY <1>2, <2>1, Appended
  <2> DEFINE q == Append(streams[c].queue, Head(feed))
  <2>3. streams'[c] = IF streams[c].at = "away" THEN streams[c] ELSE [streams[c] EXCEPT !.queue = q]
    BY <1>1
  <2>4. q \in Seq(Frame)
    BY <2>2
  <2> HIDE DEF q
  <2>5. /\ streams'[c] \in Connections
        /\ streams'[c].at = streams[c].at /\ streams'[c].lastSeq = streams[c].lastSeq
        /\ streams[c].at # "away" => streams'[c].queue = q
    BY <2>1, <2>3, <2>4 DEF Connections
  <2> QED
    BY <2>5 DEF q
<1>4. QueuedTypes'
  <2>1. streams' \in [Clients -> Connections]
    BY <1>1, <1>3
  <2> QED
    BY <1>1, <1>2, <2>1 DEF QueuedTypes
<1>5. Numbered'
  <2>1. /\ n \in Nat /\ f <= n /\ \A i \in 1..f : feed[i] = history[(n - f) + i]
    BY <1>1, <1>2 DEF Numbered
  <2>2. /\ \A i \in DOMAIN history :
             history[i].seq <= 1 \/ (i > 1 /\ history[i].seq <= history[i - 1].seq + 1)
        /\ job.seq = 0 \/ (history # <<>> /\ job.seq <= history[n].seq)
    BY DEF Numbered
  <2> HIDE DEF n, f
  <2>3. ASSUME NEW i \in 1..(f - 1)
        PROVE  feed'[i] = history[(n - (f - 1)) + i]
    <3>1. i + 1 \in 1..f /\ (n - (f - 1)) + i = (n - f) + (i + 1)
      BY <1>2, <2>1
    <3> QED
      BY <1>2, <2>1, <3>1
  <2>4. f - 1 <= n
    BY <1>2, <2>1
  <2>5. Len(history') = n
    BY <1>1 DEF n
  <2> QED
    BY <1>1, <1>2, <2>2, <2>3, <2>4, <2>5 DEF Numbered
<1>6. ASSUME NEW c \in Clients
      PROVE  Continues(c)' /\ GotOnce(c)'
  <2>1. GotOnce(c)' /\ Queued!LastSeq(c)' = Queued!LastSeq(c)
    BY <1>1 DEF GotOnce, Whole, Queued!LastSeq
  <2>2. streams[c].at # "away" => streams'[c].queue \o feed' = streams[c].queue \o feed
    <3>1. streams[c].queue \in Seq(Frame)
      BY Latest
    <3>2. Append(streams[c].queue, Head(feed)) \o Tail(feed) = streams[c].queue \o feed
      BY <1>1, <3>1, JoinMoved
    <3> QED
      BY <1>1, <1>3, <3>2
  <2> QED
    BY <1>1, <1>3, <2>1, <2>2 DEF Continues, Whole
<1> QED
  BY <1>4, <1>5, <1>6

LEMMA ReplaysKeeps ==
  ASSUME QueuedInv, NEW c \in Clients, NEW stream \in Connections, Queued!Replays(c, stream),
         stream.lastSeq = Queued!LastSeq(c), UNCHANGED <<job, history, feed>>
  PROVE  QueuedInv'
<1> USE DEF QueuedInv
<1> DEFINE r == Queued!Replayed
           q == stream.queue \o r
<1>1. /\ streams' = [streams EXCEPT ![c] = [stream EXCEPT !.at = "open", !.queue = q]]
      /\ clients' = [clients EXCEPT ![c].truncated = @ \/ Queued!Skips(c),
                                    ![c].overtaken = @ \/ stream.queue # <<>>]
  BY DEF Queued!Replays
<1>2. stream.queue \in Seq(Frame) /\ stream.lastSeq \in Nat
  BY DEF Connections
<1>3. r \in Seq(Frame)
  BY ReplayedIs
<1>4. q \in Seq(Frame)
  BY <1>2, <1>3
<1> DEFINE skips == Queued!Skips(c)
<1>5. skips \in BOOLEAN
  BY DEF Queued!Skips
<1>6. /\ clients[c] \in Readers /\ streams \in [Clients -> Connections] /\ clients \in [Clients -> Readers]
  BY DEF QueuedTypes
<1>7. /\ clients'[c] \in Readers /\ clients'[c].seqs = clients[c].seqs
      /\ clients'[c].truncated = (clients[c].truncated \/ skips)
      /\ clients'[c].overtaken = (clients[c].overtaken \/ stream.queue # <<>>)
      /\ clients'[c].displaced = clients[c].displaced
      /\ clients' \in [Clients -> Readers] /\ \A d \in Clients \ {c} : clients'[d] = clients[d]
  <2> DEFINE t == clients[c].truncated \/ skips
             o == clients[c].overtaken \/ stream.queue # <<>>
             reader == [clients[c] EXCEPT !.truncated = t, !.overtaken = o]
  <2>1. t \in BOOLEAN /\ o \in BOOLEAN
    BY <1>5, <1>6 DEF Readers
  <2>2. clients' = [clients EXCEPT ![c] = reader]
    BY <1>1, <1>6
  <2> HIDE DEF t, o
  <2>3. /\ reader \in Readers /\ reader.seqs = clients[c].seqs
        /\ reader.truncated = t /\ reader.overtaken = o /\ reader.displaced = clients[c].displaced
    BY <1>6, <2>1 DEF Readers
  <2> HIDE DEF reader
  <2>4. clients'[c] = reader /\ clients' \in [Clients -> Readers] /\ \A d \in Clients \ {c} : clients'[d] = clients[d]
    BY <1>6, <2>2, <2>3
  <2> QED
    BY <2>3, <2>4, Zenon DEF t, o
<1>8. /\ streams'[c].at = "open" /\ streams'[c].queue = q /\ streams'[c].lastSeq = stream.lastSeq
      /\ streams' \in [Clients -> Connections] /\ \A d \in Clients \ {c} : streams'[d] = streams[d]
  <2> HIDE DEF q
  <2> QED
    BY <1>1, <1>4, <1>6 DEF Connections
<1>9. QueuedTypes' /\ Numbered'
  BY <1>7, <1>8 DEF QueuedTypes, Numbered
<1>10. Queued!LastSeq(c)' = Queued!LastSeq(c)
  BY <1>7 DEF Queued!LastSeq
<1>11. Continues(c)'
  <2> SUFFICES ASSUME Whole(c)'
               PROVE  Follows(q \o feed, stream.lastSeq) /\ Knows(q \o feed, stream.lastSeq, job.seq)
    BY <1>8, <1>10 DEF Continues
  <2>1. ~skips /\ stream.queue = <<>>
    BY <1>7 DEF Whole
  <2>2. q = r
    BY <1>3, <2>1
  <2> QED
    BY <1>2, <2>1, <2>2, ReplayFollows
<1>12. GotOnce(c)'
  BY <1>7 DEF GotOnce, Whole
<1>13. ASSUME NEW d \in Clients \ {c}
       PROVE  Continues(d)' /\ GotOnce(d)'
  BY <1>7, <1>8, OthersKeep
<1> QED
  BY <1>9, <1>11, <1>12, <1>13

\* A connection that begins or ends: nothing of it is open, and its client has what it had.
LEMMA NotOpenKeeps ==
  ASSUME QueuedInv, NEW c \in Clients, NEW stream \in Connections, NEW reader \in Readers,
         streams' = [streams EXCEPT ![c] = stream], stream.at # "open",
         stream.at = "joined" => stream.lastSeq = Queued!LastSeq(c),
         clients' = [clients EXCEPT ![c] = reader], reader.seqs = clients[c].seqs,
         reader.truncated = clients[c].truncated, reader.overtaken = clients[c].overtaken,
         reader.displaced = clients[c].displaced,
         UNCHANGED <<job, history, feed>>
  PROVE  QueuedInv'
<1> USE DEF QueuedInv
<1>1. /\ streams'[c] = stream /\ clients'[c] = reader
      /\ \A d \in Clients \ {c} : streams'[d] = streams[d] /\ clients'[d] = clients[d]
      /\ streams' \in [Clients -> Connections] /\ clients' \in [Clients -> Readers]
  BY DEF QueuedTypes
<1>2. QueuedTypes' /\ Numbered'
  BY <1>1 DEF QueuedTypes, Numbered
<1>3. Queued!LastSeq(c)' = Queued!LastSeq(c)
  BY <1>1 DEF Queued!LastSeq
<1>4. stream.at \in {"away", "joined"}
  BY DEF Connections
<1>5. Continues(c)' /\ GotOnce(c)'
  BY <1>1, <1>3, <1>4 DEF Continues, GotOnce, Whole
<1>6. ASSUME NEW d \in Clients \ {c}
      PROVE  Continues(d)' /\ GotOnce(d)'
  BY <1>1, OthersKeep
<1> QED
  BY <1>2, <1>5, <1>6

LEMMA ConnectKeeps ==
  ASSUME QueuedInv, NEW c \in Clients, Queued!Connect(c) \/ Queued!Replay(c)
  PROVE  QueuedInv'
<1> USE DEF QueuedInv
<1> DEFINE stream == [Queued!NoStream EXCEPT !.at = "joined", !.lastSeq = Queued!LastSeq(c)]
<1>1. /\ stream \in Connections /\ stream.at = "joined" /\ stream.lastSeq = Queued!LastSeq(c)
      /\ clients[c] \in Readers /\ streams[c] \in Connections
  <2> DEFINE k == Queued!LastSeq(c)
  <2>1. k \in Nat /\ clients[c] \in Readers /\ streams[c] \in Connections
    BY Latest
  <2> HIDE DEF k
  <2> DEFINE joined == [Queued!NoStream EXCEPT !.at = "joined", !.lastSeq = k]
  <2>4. Queued!NoStream \in Connections
    BY DEF Connections, Queued!NoStream
  <2>2. joined \in Connections /\ joined.at = "joined" /\ joined.lastSeq = k
    BY <2>1, <2>4 DEF Connections
  <2>3. stream = joined
    BY DEF k
  <2> HIDE DEF stream, joined
  <2> QED
    BY <2>1, <2>2, <2>3 DEF k
<1> HIDE DEF stream
<1>2. CASE Queued!Connect(c) /\ broker = "memory"
  <2>1. Queued!Replays(c, stream) /\ UNCHANGED <<job, history, feed>>
    BY <1>2 DEF Queued!Connect, stream
  <2> QED
    BY <1>1, <2>1, ReplaysKeeps
<1>3. CASE Queued!Connect(c) /\ broker # "memory"
  <2>1. streams' = [streams EXCEPT ![c] = stream] /\ UNCHANGED <<clients, job, history, feed>>
    BY <1>3 DEF Queued!Connect, stream
  <2>2. clients' = [clients EXCEPT ![c] = clients[c]]
    BY <2>1 DEF QueuedTypes
  <2> QED
    BY <1>1, <2>1, <2>2, NotOpenKeeps
<1>4. CASE Queued!Replay(c)
  <2>1. Queued!Replays(c, streams[c]) /\ UNCHANGED <<job, history, feed>> /\ streams[c].at = "joined"
    BY <1>4 DEF Queued!Replay
  <2>2. streams[c].lastSeq = Queued!LastSeq(c)
    BY <2>1 DEF Continues
  <2> QED
    BY <1>1, <2>1, <2>2, ReplaysKeeps
<1> QED
  BY <1>2, <1>3, <1>4

\* What a step of the connection of c does to it and to its client.
LEMMA ReadKeeps ==
  ASSUME QueuedInv, NEW c \in Clients, NEW stream \in Connections, NEW reader \in Readers,
         streams' = [streams EXCEPT ![c] = stream], clients' = [clients EXCEPT ![c] = reader],
         UNCHANGED <<job, history, feed>>, (Continues(c) /\ GotOnce(c))'
  PROVE  QueuedInv'
<1> USE DEF QueuedInv
<1>1. /\ \A d \in Clients \ {c} : streams'[d] = streams[d] /\ clients'[d] = clients[d]
      /\ streams' \in [Clients -> Connections] /\ clients' \in [Clients -> Readers]
  BY DEF QueuedTypes
<1>2. QueuedTypes' /\ Numbered'
  BY <1>1 DEF QueuedTypes, Numbered
<1>3. ASSUME NEW d \in Clients \ {c}
      PROVE  Continues(d)' /\ GotOnce(d)'
  BY <1>1, OthersKeep
<1> QED
  BY <1>2, <1>3

LEMMA SkipKeeps ==
  ASSUME QueuedInv, NEW c \in Clients, Queued!Take(c), ~Queued!Fresh(c)
  PROVE  QueuedInv'
<1> USE DEF QueuedInv
<1> DEFINE q == streams[c].queue
           k == streams[c].lastSeq
           stream == [streams[c] EXCEPT !.queue = Tail(q)]
<1>1. /\ clients[c] \in Readers /\ streams[c] \in Connections /\ q \in Seq(Frame) /\ k \in Nat
      /\ feed \in Seq(Frame) /\ job \in Jobs
  BY Latest DEF QueuedTypes
<1>2. /\ streams[c].at = "open" /\ q # <<>> /\ ~(Head(q).seq > k)
      /\ streams' = [streams EXCEPT ![c] = stream] /\ UNCHANGED <<clients, job, history, feed>>
  BY <1>1 DEF Queued!Take, Queued!Fresh, QueuedTypes
<1> HIDE DEF q
<1>3. Tail(q) \in Seq(Frame)
  BY <1>1, <1>2, Remainder
<1>4. /\ stream \in Connections /\ stream.at = "open" /\ stream.queue = Tail(q) /\ stream.lastSeq = k
  BY <1>1, <1>2, <1>3 DEF Connections
<1> HIDE DEF stream
<1>5. streams'[c] = stream /\ clients'[c] = clients[c] /\ clients' = [clients EXCEPT ![c] = clients[c]]
  BY <1>2 DEF QueuedTypes
<1>6. ASSUME Whole(c)
      PROVE  Follows(Tail(q) \o feed, k) /\ Knows(Tail(q) \o feed, k, job.seq)
  <2>1. Follows(q \o feed, k) /\ Knows(q \o feed, k, job.seq)
    BY <1>2, <1>6 DEF Continues, q
  <2>2. /\ Tail(q) \o feed = Tail(q \o feed) /\ Head(q \o feed) = Head(q) /\ q \o feed # <<>>
        /\ q \o feed \in Seq(Frame)
    BY <1>1, <1>2, JoinTaken, Joined
  <2>3. k = (IF Head(q \o feed).seq > k THEN Head(q \o feed).seq ELSE k) /\ job.seq \in Nat
    BY <1>1, <1>2, <2>2 DEF Jobs
  <2> DEFINE s == q \o feed
  <2>4. s \in Seq(Frame) /\ s # <<>> /\ Follows(s, k) /\ Knows(s, k, job.seq)
    BY <2>1, <2>2
  <2>5. k = IF Head(s).seq > k THEN Head(s).seq ELSE k
    BY <2>3
  <2> HIDE DEF s, k
  <2>6. Follows(Tail(s), k) /\ Knows(Tail(s), k, job.seq)
    BY <1>1, <2>3, <2>4, <2>5, RestFollows
  <2> QED
    BY <2>2, <2>6 DEF s
<1>7. Continues(c)'
  BY <1>2, <1>4, <1>5, <1>6 DEF Continues, Whole, Queued!LastSeq
<1>8. GotOnce(c)'
  BY <1>5 DEF GotOnce, Whole
<1> QED
  BY <1>1, <1>2, <1>4, <1>5, <1>7, <1>8, ReadKeeps

LEMMA FreshKeeps ==
  ASSUME QueuedInv, NEW c \in Clients, Queued!Take(c), Queued!Fresh(c)
  PROVE  QueuedInv'
<1> USE DEF QueuedInv
<1> DEFINE q == streams[c].queue
           k == streams[c].lastSeq
           h == Head(q)
           seqs == clients[c].seqs
           stream == IF h.terminal THEN Queued!NoStream
                     ELSE [streams[c] EXCEPT !.queue = Tail(q), !.lastSeq = h.seq]
           reader == [clients[c] EXCEPT !.seqs = Append(seqs, h.seq), !.told = h.terminal]
<1>1. /\ clients[c] \in Readers /\ streams[c] \in Connections /\ q \in Seq(Frame) /\ k \in Nat
      /\ feed \in Seq(Frame) /\ job \in Jobs
      /\ seqs \in Seq(Nat) /\ Len(seqs) \in Nat /\ DOMAIN seqs = 1..Len(seqs)
  BY Latest DEF QueuedTypes
<1>2. /\ streams[c].at = "open" /\ q # <<>> /\ h.seq > k
      /\ UNCHANGED <<job, history, feed>>
      /\ streams' = [streams EXCEPT ![c] = stream]
      /\ clients' = [clients EXCEPT ![c] = reader]
  <2>1. /\ streams[c].at = "open" /\ q # <<>> /\ h.seq > k
        /\ UNCHANGED <<job, history, feed>>
        /\ clients' = [clients EXCEPT ![c].seqs = Append(@, h.seq), ![c].told = h.terminal]
    BY DEF Queued!Take, Queued!Fresh
  <2>3. streams' = [streams EXCEPT ![c] = stream]
    BY DEF Queued!Take
  <2>2. clients \in [Clients -> Readers]
    BY DEF QueuedTypes
  <2> QED
    BY <2>1, <2>2, <2>3
<1>3. k = Queued!LastSeq(c)
  BY <1>2 DEF Continues
<1> HIDE DEF q
<1>4. Tail(q) \in Seq(Frame) /\ h \in Frame
  BY <1>1, <1>2, Remainder
<1>5. h.seq \in Nat /\ h.terminal \in BOOLEAN
  BY <1>4 DEF Frame
<1> HIDE DEF h
<1> DEFINE n == Len(seqs)
           got == Append(seqs, h.seq)
<1>6. /\ got \in Seq(Nat) /\ Len(got) = n + 1 /\ DOMAIN got = 1..(n + 1) /\ got[n + 1] = h.seq /\ got # <<>>
      /\ \A i \in 1..n : got[i] = seqs[i]
  <2> DEFINE x == h.seq
  <2>1. x \in Nat /\ seqs \in Seq(Nat)
    BY <1>1, <1>5
  <2> HIDE DEF seqs, x
  <2>2. /\ Append(seqs, x) \in Seq(Nat) /\ Len(Append(seqs, x)) = Len(seqs) + 1
        /\ DOMAIN Append(seqs, x) = 1..(Len(seqs) + 1) /\ Append(seqs, x)[Len(seqs) + 1] = x
        /\ Append(seqs, x) # <<>> /\ \A i \in 1..Len(seqs) : Append(seqs, x)[i] = seqs[i]
    BY <2>1
  <2> QED
    BY <2>2 DEF x
<1>7. /\ stream \in Connections
      /\ stream.at = (IF h.terminal THEN "away" ELSE "open")
      /\ ~h.terminal => stream.queue = Tail(q) /\ stream.lastSeq = h.seq
  <2>1. CASE h.terminal
    BY <2>1 DEF Connections, Queued!NoStream
  <2>2. CASE ~h.terminal
    <3> DEFINE next == [streams[c] EXCEPT !.queue = Tail(q), !.lastSeq = h.seq]
    <3>1. /\ next \in Connections /\ next.at = "open" /\ next.queue = Tail(q) /\ next.lastSeq = h.seq
      BY <1>1, <1>2, <1>4, <1>5 DEF Connections
    <3>2. stream = next
      BY <2>2
    <3> HIDE DEF next
    <3> QED
      BY <2>2, <3>1, <3>2
  <2> QED
    BY <2>1, <2>2
<1>8. /\ reader \in Readers /\ reader.seqs = got
      /\ reader.truncated = clients[c].truncated /\ reader.overtaken = clients[c].overtaken
        /\ reader.displaced = clients[c].displaced
  <2> HIDE DEF got
  <2> QED
    BY <1>1, <1>5, <1>6 DEF Readers, got
<1> HIDE DEF stream, reader, got
<1>9. streams'[c] = stream /\ clients'[c] = reader
  BY <1>2 DEF QueuedTypes
<1>10. Queued!LastSeq(c)' = h.seq
  <2>1. Queued!LastSeq(c)' = IF got = <<>> THEN 0 ELSE got[Len(got)]
    BY <1>8, <1>9 DEF Queued!LastSeq, Queued!Last
  <2> QED
    BY <1>6, <2>1
<1>11. ASSUME Whole(c)
       PROVE  h.seq = n + 1 /\ Follows(Tail(q) \o feed, h.seq) /\ Knows(Tail(q) \o feed, h.seq, job.seq)
  <2>1. Follows(q \o feed, k) /\ Knows(q \o feed, k, job.seq)
    BY <1>2, <1>11 DEF Continues, q
  <2>2. /\ Tail(q) \o feed = Tail(q \o feed) /\ Head(q \o feed) = h /\ q \o feed # <<>>
        /\ q \o feed \in Seq(Frame)
    BY <1>1, <1>2, JoinTaken, Joined DEF h
  <2> DEFINE s == q \o feed
  <2>3. s \in Seq(Frame) /\ s # <<>> /\ Follows(s, k) /\ Knows(s, k, job.seq) /\ job.seq \in Nat
    BY <1>1, <2>1, <2>2 DEF Jobs
  <2>4. h.seq = (IF Head(s).seq > k THEN Head(s).seq ELSE k) /\ Head(s) = h
    BY <1>2, <2>2
  <2>5. k = n
    BY <1>3, <1>11, Latest
  <2> HIDE DEF s, k, n
  <2>6. h.seq <= k + 1 /\ Follows(Tail(s), h.seq) /\ Knows(Tail(s), h.seq, job.seq)
    BY <1>1, <1>5, <2>3, <2>4, RestFollows
  <2>7. h.seq = n + 1
    BY <1>1, <1>2, <1>5, <2>5, <2>6
  <2> QED
    BY <2>2, <2>6, <2>7 DEF s
<1>12. Continues(c)'
  <2>1. Whole(c)' => Whole(c)
    BY <1>8, <1>9 DEF Whole
  <2> QED
    BY <1>2, <1>7, <1>9, <1>10, <1>11, <2>1 DEF Continues
<1>13. GotOnce(c)'
  <2>1. /\ \A i \in 1..n : i > 1 => seqs[i] > seqs[i - 1]
        /\ Whole(c) => \A i \in 1..n : seqs[i] = i
    BY <1>1 DEF GotOnce
  <2>2. n > 0 => k = seqs[n]
    BY <1>3, Latest
  <2>3. Whole(c)' = Whole(c) /\ clients'[c].seqs = got
    BY <1>8, <1>9 DEF Whole
  <2> HIDE DEF seqs, n, k
  <2>4. n \in Nat
    BY <1>1 DEF n
  <2>5. ASSUME NEW i \in 1..(n + 1), i > 1
        PROVE  got[i] > got[i - 1]
    <3>1. CASE i = n + 1
      <4>1. n > 0 /\ i - 1 = n /\ n \in 1..n
        BY <2>4, <2>5, <3>1
      <4> QED
        BY <1>2, <1>6, <2>2, <3>1, <4>1
    <3>2. CASE i \in 1..n
      <4>1. i - 1 \in 1..n
        BY <2>4, <2>5, <3>2
      <4> QED
        BY <1>6, <2>1, <2>5, <3>2, <4>1
    <3> QED
      BY <2>4, <3>1, <3>2
  <2>6. ASSUME Whole(c), NEW i \in 1..(n + 1)
        PROVE  got[i] = i
    <3>1. CASE i = n + 1
      BY <1>6, <1>11, <2>6, <3>1
    <3>2. CASE i \in 1..n
      BY <1>6, <2>1, <2>6, <3>2
    <3> QED
      BY <2>4, <3>1, <3>2
  <2> QED
    BY <1>6, <2>3, <2>5, <2>6 DEF GotOnce
<1> QED
  BY <1>2, <1>7, <1>8, <1>9, <1>12, <1>13, ReadKeeps

LEMMA AwayKeeps ==
  ASSUME QueuedInv, NEW c \in Clients, Queued!Ping(c) \/ Queued!End(c) \/ Queued!Disconnect(c)
  PROVE  QueuedInv'
<1> USE DEF QueuedInv
<1>1. clients[c] \in Readers /\ streams[c] \in Connections /\ clients = [clients EXCEPT ![c] = clients[c]]
  BY Latest DEF QueuedTypes
<1>2. Queued!NoStream \in Connections /\ Queued!NoStream.at = "away"
  BY DEF Connections, Queued!NoStream
<1>3. CASE Queued!Ping(c)
  <2> DEFINE stream == [streams[c] EXCEPT !.ended = TRUE]
  <2>1. streams' = [streams EXCEPT ![c] = stream] /\ UNCHANGED <<clients, job, history, feed>>
    BY <1>3 DEF Queued!Ping
  <2>2. /\ stream \in Connections /\ stream.at = streams[c].at /\ stream.queue = streams[c].queue
        /\ stream.lastSeq = streams[c].lastSeq
    BY <1>1 DEF Connections
  <2> HIDE DEF stream
  <2>3. streams'[c] = stream /\ clients'[c] = clients[c]
    BY <2>1 DEF QueuedTypes
  <2>4. (Continues(c) /\ GotOnce(c))'
    BY <2>1, <2>2, <2>3 DEF Continues, GotOnce, Whole, Queued!LastSeq
  <2> QED
    BY <1>1, <2>1, <2>2, <2>4, ReadKeeps
<1>4. CASE Queued!End(c)
  <2>1. streams' = [streams EXCEPT ![c] = Queued!NoStream] /\ UNCHANGED <<clients, job, history, feed>>
    BY <1>4 DEF Queued!End
  <2> QED
    BY <1>1, <1>2, <2>1, NotOpenKeeps
<1>5. CASE Queued!Disconnect(c)
  <2> DEFINE reader == [clients[c] EXCEPT !.drops = @ + 1]
  <2>1. /\ streams' = [streams EXCEPT ![c] = Queued!NoStream] /\ clients' = [clients EXCEPT ![c] = reader]
        /\ UNCHANGED <<job, history, feed>>
    BY <1>1, <1>5 DEF Queued!Disconnect
  <2>2. /\ reader \in Readers /\ reader.seqs = clients[c].seqs
        /\ reader.truncated = clients[c].truncated /\ reader.overtaken = clients[c].overtaken
        /\ reader.displaced = clients[c].displaced
    BY <1>1 DEF Readers
  <2> HIDE DEF reader
  <2> QED
    BY <1>2, <2>1, <2>2, NotOpenKeeps
<1> QED
  BY <1>3, <1>4, <1>5

\* A frame that a ping displaces is missing from what its client gets.
LEMMA DisplacedKeeps ==
  ASSUME QueuedInv, NEW c \in Clients, Queued!PingInstead(c)
  PROVE  QueuedInv'
<1> USE DEF QueuedInv
<1> DEFINE q == streams[c].queue
           stream == [streams[c] EXCEPT !.queue = Tail(q)]
           reader == [clients[c] EXCEPT !.displaced = TRUE]
<1>1. clients[c] \in Readers /\ streams[c] \in Connections /\ q \in Seq(Frame)
  BY Latest
<1>2. /\ q # <<>> /\ UNCHANGED <<job, history, feed>>
      /\ streams' = [streams EXCEPT ![c] = stream] /\ clients' = [clients EXCEPT ![c] = reader]
  BY <1>1 DEF Queued!PingInstead, QueuedTypes
<1> HIDE DEF q
<1>3. Tail(q) \in Seq(Frame)
  BY <1>1, <1>2, Remainder
<1>4. stream \in Connections /\ stream.at = streams[c].at /\ stream.lastSeq = streams[c].lastSeq
  BY <1>1, <1>3 DEF Connections
<1>5. reader \in Readers /\ reader.seqs = clients[c].seqs /\ reader.displaced
  BY <1>1 DEF Readers
<1> HIDE DEF stream, reader
<1>6. streams'[c] = stream /\ clients'[c] = reader
  BY <1>2 DEF QueuedTypes
<1>7. ~Whole(c)' /\ Queued!LastSeq(c)' = Queued!LastSeq(c)
  BY <1>5, <1>6 DEF Whole, Queued!LastSeq
<1>8. (Continues(c) /\ GotOnce(c))'
  BY <1>4, <1>5, <1>6, <1>7 DEF Continues, GotOnce
<1> QED
  BY <1>2, <1>4, <1>5, <1>8, ReadKeeps

LEMMA QueuedStep ==
  ASSUME QueuedInv, Queued!Next \/ UNCHANGED queuedVars
  PROVE  QueuedInv'
<1>1. CASE Queued!Enqueue \/ Queued!RunStarts \/ Queued!RunEnds
  BY <1>1, JobKeeps
<1>2. CASE Queued!Emit
  BY <1>2, EmitKeeps
<1>3. CASE Queued!Dispatch
  BY <1>3, DispatchKeeps
<1>4. ASSUME NEW c \in Clients, Queued!Connect(c) \/ Queued!Disconnect(c) \/ Queued!Stream(c) \/ Queued!PingInstead(c)
      PROVE  QueuedInv'
  <2>1. CASE Queued!Connect(c) \/ Queued!Replay(c)
    BY <2>1, ConnectKeeps
  <2>2. CASE Queued!Take(c)
    BY <2>2, SkipKeeps, FreshKeeps
  <2>3. CASE Queued!Ping(c) \/ Queued!End(c) \/ Queued!Disconnect(c)
    BY <2>3, AwayKeeps
  <2>4. CASE Queued!PingInstead(c)
    BY <2>4, DisplacedKeeps
  <2> QED
    BY <1>4, <2>1, <2>2, <2>3, <2>4 DEF Queued!Stream
<1>5. CASE UNCHANGED queuedVars
  BY <1>5 DEF queuedVars, QueuedInv, QueuedTypes, Numbered, Continues, GotOnce, Whole, Queued!LastSeq
<1> QED
  BY <1>1, <1>2, <1>3, <1>4, <1>5 DEF Queued!Next

LEMMA QueuedHolds == QueuedInv => OnceInOrder
BY DEF QueuedInv, GotOnce, Whole, OnceInOrder, Queued!OnceInOrder

-----------------------------------------------------------------------------
\* Both invariants hold in every behaviour (core/_streaming.py:62, queues/bridge.py:121).
THEOREM Invariance == Spec => [](OwnerInv /\ QueuedInv)
<1>1. Init => OwnerInv /\ QueuedInv
  BY OwnerStarts, OwnerIdle, QueuedStarts, QueuedIdle DEF Init
<1>2. OwnerInv /\ QueuedInv /\ [Next]_vars => (OwnerInv /\ QueuedInv)'
  <2> SUFFICES ASSUME OwnerInv, QueuedInv, [Next]_vars
               PROVE  (OwnerInv /\ QueuedInv)'
    OBVIOUS
  <2>1. Owner!Next \/ UNCHANGED ownerVars
    BY DEF Next, vars
  <2>2. Queued!Next \/ UNCHANGED queuedVars
    BY DEF Next, vars
  <2> QED
    BY <2>1, <2>2, OwnerStep, QueuedStep
<1> QED
  BY <1>1, <1>2, PTL DEF Spec

\* The items of a request's stream reach its client in order and with no gap, and the
\* message that ends the stream comes last (core/_streaming.py:141).
THEOREM Ordered == Spec => []InOrder
BY Invariance, OwnerHolds, PTL

\* A closed request leaves no producer behind, but for one that was cancelled twice and
\* reported, and no failure goes unheard (core/_streaming.py:62).
THEOREM Supervised == Spec => []Contained
BY Invariance, OwnerHolds, PTL

\* A client of a queued turn gets every frame once and in order (queues/bridge.py:121).
THEOREM Resumed == Spec => []OnceInOrder
BY Invariance, QueuedHolds, PTL

=============================================================================
