------------------------ MODULE SubscriptionsProofs ------------------------
(***************************************************************************)
(* Proofs about Subscriptions.  The argument follows the flow of a stream, *)
(* that is what its client got, what the consumer holds and what is        *)
(* queued: taking a message from the queue and sending it leave the flow   *)
(* as it is, so only an event, an end and a departure can change it.       *)
(* While a stream is registered its flow is all it is owed; once it was    *)
(* ended, the flow is a part of that, from the start, then the response,   *)
(* then the sentinel if there was room.                                    *)
(***************************************************************************)
EXTENDS Subscriptions, TLAPS, FiniteSetTheorems, SequenceTheorems

Live == {"opened", "next", "waiting", "sending", "abandoned"}

\* f is an initial part of d, the response, and possibly the sentinel.
EndsWell(f, d) ==
  \E n \in 1..(Len(d) + 1) :
    /\ Len(f) \in {n, n + 1}
    /\ \A i \in 1..(n - 1) : f[i] = d[i]
    /\ f[n] = Complete
    /\ Len(f) = n + 1 => f[n + 1] = Closed

Sound(s) ==
  /\ s.registered => ~s.closed /\ s.at \in Live /\ Flow(s) = s.due
  /\ ~s.registered /\ s.at \in Live => EndsWell(Flow(s), s.due)
  /\ s.at = "ended" => s.queue = <<>> /\ EndsWell(Flow(s), s.due)
  /\ s.at \in {"none", "refused", "gone"} => s.sent = <<>> /\ ~s.registered
  /\ Len(s.queue) <= Capacity

\* The inductive invariant.
IInv ==
  /\ TypeOK
  /\ IsFiniteSet(Registered)
  /\ \A l \in Listeners : Sound(streams[l])

-----------------------------------------------------------------------------
(* Messages and sequences of them *)

Item == Message \union {Closed}

LEMMA Kinds ==
  /\ Ack \in Owed /\ Ack \in Message /\ Complete \in Message /\ Complete \notin Owed
  /\ Closed \notin Message /\ Closed \in Item
  /\ Owed \subseteq Message /\ Message \subseteq Item
  /\ \A e \in Events : Notification(e) \in Owed
BY DEF Owed, Message, Item, Ack, Complete, Closed, Notification, Events

LEMMA Appending ==
  ASSUME NEW q \in Seq(Item), NEW a \in Item, NEW b \in Item
  PROVE  /\ Append(q, a) = q \o <<a>>
         /\ Append(q \o <<a>>, b) = q \o <<a, b>>
         /\ q \o <<a>> \in Seq(Item) /\ Len(q \o <<a>>) = Len(q) + 1
         /\ q \o <<a, b>> \in Seq(Item) /\ Len(q \o <<a, b>>) = Len(q) + 2
OBVIOUS

LEMMA Splitting ==
  ASSUME NEW g \in Seq(Item), NEW q \in Seq(Item), q # <<>>
  PROVE  /\ Len(g) + 1 \in 1..Len(g \o q)
         /\ (g \o q)[Len(g) + 1] = Head(q)
         /\ (g \o <<Head(q)>>) \o Tail(q) = g \o q
OBVIOUS

LEMMA Empty ==
  ASSUME NEW g \in Seq(Item)
  PROVE  g \o <<>> = g /\ <<>> \o g = g
OBVIOUS

\* A part that ends in the middle of a sequence is an initial part of it.
LEMMA InitialPart ==
  ASSUME NEW g \in Seq(Item), NEW q \in Seq(Item), NEW h \in Seq(Item), q = h \/ q = <<>>
  PROVE  /\ g \o q \in Seq(Item) /\ g \o h \in Seq(Item)
         /\ Len(g \o q) <= Len(g \o h)
         /\ \A i \in 1..Len(g \o q) : (g \o q)[i] = (g \o h)[i]
OBVIOUS

LEMMA InitialInitial ==
  ASSUME NEW p \in Seq(Item), NEW f \in Seq(Item), NEW d \in Seq(Owed),
         Len(p) <= Len(f), \A i \in 1..Len(p) : p[i] = f[i],
         Len(f) <= Len(d), \A i \in 1..Len(f) : f[i] = d[i]
  PROVE  Len(p) <= Len(d) /\ \A i \in 1..Len(p) : p[i] = d[i]
OBVIOUS

LEMMA Joining ==
  ASSUME NEW g \in Seq(Item), NEW q \in Seq(Item), NEW h \in Seq(Item)
  PROVE  g \o (q \o h) = (g \o q) \o h
OBVIOUS

LEMMA MoreOwed ==
  ASSUME NEW f \in Seq(Item), NEW d \in Seq(Owed), NEW m \in Owed, EndsWell(f, d)
  PROVE  EndsWell(f, Append(d, m))
BY DEF EndsWell

LEMMA EndOf ==
  ASSUME NEW p \in Seq(Item), NEW d \in Seq(Owed), Len(p) <= Len(d),
         \A i \in 1..Len(p) : p[i] = d[i]
  PROVE  /\ EndsWell(p \o <<Complete>>, d)
         /\ EndsWell(p \o <<Complete, Closed>>, d)
<1>1. Complete \in Item /\ Closed \in Item
  BY Kinds
<1>2. EndsWell(p \o <<Complete>>, d)
  <2> DEFINE f == p \o <<Complete>>
             n == Len(p) + 1
  <2>1. n \in 1..(Len(d) + 1) /\ Len(f) = n /\ f[n] = Complete
    BY <1>1
  <2>2. \A i \in 1..(n - 1) : f[i] = d[i]
    BY <1>1
  <2>3. Len(f) \in {n, n + 1} /\ Len(f) # n + 1
    BY <2>1
  <2> HIDE DEF f, n
  <2> QED
    BY <2>1, <2>2, <2>3 DEF EndsWell, f
<1>3. EndsWell(p \o <<Complete, Closed>>, d)
  <2> DEFINE f == p \o <<Complete, Closed>>
             n == Len(p) + 1
  <2>1. n \in 1..(Len(d) + 1) /\ Len(f) = n + 1 /\ f[n] = Complete /\ f[n + 1] = Closed
    BY <1>1
  <2>2. \A i \in 1..(n - 1) : f[i] = d[i]
    BY <1>1
  <2> QED
    BY <2>1, <2>2 DEF EndsWell
<1> QED
  BY <1>2, <1>3

LEMMA FlowType ==
  ASSUME NEW s \in Stream
  PROVE  Flow(s) \in Seq(Item) /\ InHand(s) \in Seq(Item) /\ s.sent \o InHand(s) \in Seq(Item)
<1>1. s.sent \in Seq(Item) /\ s.held \in Item /\ s.queue \in Seq(Item)
  BY Kinds DEF Stream, Item
<1> HIDE DEF Item
<1>2. InHand(s) \in Seq(Item)
  BY <1>1 DEF InHand
<1>3. s.sent \o InHand(s) \in Seq(Item)
  BY <1>1, <1>2
<1> QED
  BY <1>1, <1>2, <1>3 DEF Flow

-----------------------------------------------------------------------------
(* What happens to a stream from the side of the manager *)

LEMMA EndShape ==
  ASSUME NEW s \in Stream, Len(s.queue) <= Capacity
  PROVE  LET q == IF Full(s) THEN <<>> ELSE s.queue
         IN  \E r \in {q \o <<Complete>>, q \o <<Complete, Closed>>} :
               End(s) = [s EXCEPT !.closed = TRUE, !.queue = r] /\ Len(r) <= Capacity
<1> DEFINE q == IF Full(s) THEN <<>> ELSE s.queue
           v == IF Full(s) THEN [s EXCEPT !.queue = <<>>] ELSE s
           w == Put(v, Complete)
           c == [w EXCEPT !.closed = TRUE]
<1> USE SubscriptionAssumption
<1>1. s.queue \in Seq(Item) /\ q \in Seq(Item) /\ Complete \in Item /\ Closed \in Item
  BY Kinds DEF Stream, Item
<1> HIDE DEF Item
<1>2. Len(q) < Capacity
  BY <1>1 DEF Full
<1>3. w = [s EXCEPT !.queue = q \o <<Complete>>]
  <2>1. v = [s EXCEPT !.queue = q] /\ v.queue = q
    BY DEF Stream
  <2>2. w = [v EXCEPT !.queue = Append(v.queue, Complete)]
    BY DEF Put
  <2>3. Append(q, Complete) = q \o <<Complete>>
    BY <1>1, Appending
  <2> HIDE DEF v, q, w
  <2> QED
    BY <2>1, <2>2, <2>3 DEF Stream
<1>4. c = [s EXCEPT !.closed = TRUE, !.queue = q \o <<Complete>>] /\ c.queue = q \o <<Complete>>
  BY <1>3 DEF Stream
<1>5. End(s) = IF Full(c) THEN c ELSE Put(c, Closed)
  BY DEF End, Close
<1>6. CASE Full(c)
  BY <1>1, <1>2, <1>4, <1>5, <1>6
<1>7. CASE ~Full(c)
  <2>1. Len(q) + 1 < Capacity
    BY <1>1, <1>4, <1>7 DEF Full
  <2>2. Append(q \o <<Complete>>, Closed) = q \o <<Complete, Closed>>
    BY <1>1, Appending
  <2>3. End(s) = [s EXCEPT !.closed = TRUE, !.queue = q \o <<Complete, Closed>>]
    <3>1. End(s) = [c EXCEPT !.queue = Append(c.queue, Closed)]
      BY <1>5, <1>7 DEF Put
    <3> HIDE DEF c, q
    <3> QED
      BY <1>4, <2>2, <3>1 DEF Stream
  <2> QED
    BY <1>1, <2>1, <2>3
<1> QED
  BY <1>6, <1>7

\* An end, whether by overflow or at shutdown, keeps what is delivered an initial part.
LEMMA EndSound ==
  ASSUME NEW s \in Stream, s.at \in Live, Len(s.queue) <= Capacity,
         Len(Flow(s)) <= Len(s.due), \A i \in 1..Len(Flow(s)) : Flow(s)[i] = s.due[i]
  PROVE  End(Remove(s)) \in Stream /\ Sound(End(Remove(s))) /\ ~End(Remove(s)).registered
<1> DEFINE u == Remove(s)
           q == IF Full(u) THEN <<>> ELSE s.queue
           t == End(u)
<1>1. u \in Stream /\ u = [s EXCEPT !.registered = FALSE] /\ u.queue = s.queue
  BY DEF Remove, Stream
<1>2. PICK r \in {q \o <<Complete>>, q \o <<Complete, Closed>>} :
        t = [u EXCEPT !.closed = TRUE, !.queue = r] /\ Len(r) <= Capacity
  BY <1>1, EndShape
<1>3. s.queue \in Seq(Item) /\ q \in Seq(Item) /\ Complete \in Item /\ Closed \in Item
  BY Kinds DEF Stream, Item
<1>4. s.due \in Seq(Owed)
  BY DEF Stream
<1> HIDE DEF t
<1>5. t = [s EXCEPT !.registered = FALSE, !.closed = TRUE, !.queue = r]
  BY <1>1, <1>2 DEF Stream
<1>6. r \in Seq(Item)
  <2> HIDE DEF Item, q
  <2> QED
    BY <1>2, <1>3, Appending
<1>7. t \in Stream
  BY <1>5, <1>6 DEF Stream, Item
<1>8. EndsWell(Flow(t), s.due)
  <2>1. Flow(t) = (s.sent \o InHand(s)) \o r
    BY <1>5 DEF InHand, Flow, Stream
  <2>2. s.sent \o InHand(s) \in Seq(Item)
    BY FlowType
  <2> DEFINE g == s.sent \o InHand(s)
             p == g \o q
  <2> HIDE DEF Item, g, q
  <2>3. Flow(s) = g \o s.queue /\ g \in Seq(Item) /\ (q = s.queue \/ q = <<>>)
    BY <2>2 DEF g, Flow, q
  <2>4. Flow(t) \in {p \o <<Complete>>, p \o <<Complete, Closed>>}
    <3>1. <<Complete>> \in Seq(Item) /\ <<Complete, Closed>> \in Seq(Item)
      BY <1>3
    <3>2. /\ g \o (q \o <<Complete>>) = p \o <<Complete>>
          /\ g \o (q \o <<Complete, Closed>>) = p \o <<Complete, Closed>>
      BY <1>3, <2>3, <3>1, Joining
    <3>3. Flow(t) = g \o r
      BY <2>1 DEF g
    <3> QED
      BY <1>2, <3>2, <3>3
  <2>5. /\ p \in Seq(Item) /\ Len(p) <= Len(Flow(s)) /\ Flow(s) \in Seq(Item)
        /\ \A i \in 1..Len(p) : p[i] = Flow(s)[i]
    BY <1>3, <2>3, InitialPart
  <2> HIDE DEF p
  <2>6. Len(p) <= Len(s.due) /\ \A i \in 1..Len(p) : p[i] = s.due[i]
    BY <1>4, <2>5, InitialInitial
  <2> QED
    BY <1>4, <2>4, <2>5, <2>6, EndOf
<1> QED
  BY <1>2, <1>5, <1>7, <1>8 DEF Sound, Stream, Live, t

LEMMA CloseAllSound ==
  ASSUME NEW s \in Stream, Sound(s), s.registered
  PROVE  End(Remove(s)) \in Stream /\ Sound(End(Remove(s))) /\ ~End(Remove(s)).registered
<1>1. s.at \in Live /\ Len(s.queue) <= Capacity /\ Flow(s) = s.due /\ s.due \in Seq(Owed)
  BY DEF Sound, Stream
<1> QED
  BY <1>1, EndSound

\* An event is added to what a stream is owed and to its queue, or ends it.
LEMMA OfferSound ==
  ASSUME NEW s \in Stream, Sound(s), NEW e \in Events
  PROVE  LET t == Offer(Owe(s, e), e)
         IN  t \in Stream /\ Sound(t) /\ (t.registered => s.registered)
<1> DEFINE m == Notification(e)
           w == [s EXCEPT !.due = Append(@, m)]
           t == Offer(Owe(s, e), e)
<1>1. m \in Owed /\ m \in Item
  BY Kinds DEF Item
<1>2. s.due \in Seq(Owed) /\ s.queue \in Seq(Item) /\ Append(s.due, m) \in Seq(Owed)
  BY <1>1 DEF Stream, Item
<1>3. w \in Stream /\ w.due = Append(s.due, m) /\ w.queue = s.queue /\ w.at = s.at
      /\ w.registered = s.registered /\ w.filter = s.filter /\ Flow(w) = Flow(s)
  BY <1>2 DEF Stream, Flow, InHand
<1>4. CASE e \notin s.filter
  BY <1>4 DEF Offer, Owe
<1>5. CASE e \in s.filter /\ ~s.registered
  <2>1. t = w
    BY <1>3, <1>5 DEF Offer, Owe
  <2>2. ASSUME EndsWell(Flow(s), s.due)
        PROVE  EndsWell(Flow(w), w.due)
    BY <1>1, <1>2, <1>3, <2>2, FlowType, MoreOwed
  <2>3. Sound(w)
    BY <1>3, <1>5, <2>2 DEF Sound, Stream
  <2> QED
    BY <1>3, <2>1, <2>3
<1>6. CASE e \in s.filter /\ s.registered /\ Full(s)
  <2>1. t = End(Remove(w))
    BY <1>3, <1>6 DEF Offer, Owe, Full
  <2>2. s.at \in Live /\ Len(s.queue) <= Capacity /\ Flow(s) = s.due
    BY <1>6 DEF Sound
  <2>3. Len(Flow(w)) <= Len(w.due) /\ \A i \in 1..Len(Flow(w)) : Flow(w)[i] = w.due[i]
    <3>1. ASSUME NEW b \in Seq(Owed)
          PROVE  Len(b) <= Len(Append(b, m)) /\ \A i \in 1..Len(b) : b[i] = Append(b, m)[i]
      BY <1>1
    <3> QED
      <4>1. Flow(w) = s.due /\ w.due = Append(s.due, m)
        BY <1>3, <2>2
      <4> QED
        BY <1>2, <3>1, <4>1
  <2> QED
    BY <1>3, <2>1, <2>2, <2>3, EndSound
<1>7. CASE e \in s.filter /\ s.registered /\ ~Full(s)
  <2>1. t = [w EXCEPT !.queue = Append(@, m)]
    BY <1>3, <1>7 DEF Offer, Owe, Full, Put
  <2>2. t = [s EXCEPT !.due = Append(@, m), !.queue = Append(@, m)]
    BY <2>1 DEF Stream
  <2>3. Append(s.queue, m) \in Seq(Item) /\ Len(Append(s.queue, m)) <= Capacity
    BY <1>1, <1>2, <1>7, SubscriptionAssumption DEF Full
  <2>4. t \in Stream
    BY <1>2, <2>2, <2>3 DEF Stream, Item
  <2>5. Flow(t) = Append(Flow(s), m)
    <3>1. Flow(t) = (s.sent \o InHand(s)) \o Append(s.queue, m)
      BY <2>2 DEF Flow, InHand, Stream
    <3>2. s.sent \o InHand(s) \in Seq(Item)
      BY FlowType
    <3> QED
      <4> HIDE DEF Item
      <4>1. ASSUME NEW g \in Seq(Item)
            PROVE  g \o Append(s.queue, m) = Append(g \o s.queue, m)
        BY <1>1, <1>2
      <4> QED
        BY <3>1, <3>2, <4>1 DEF Flow
  <2> QED
    BY <1>7, <2>2, <2>3, <2>4, <2>5 DEF Sound, Stream, Live
<1> QED
  BY <1>4, <1>5, <1>6, <1>7

-----------------------------------------------------------------------------
(* What happens to a stream from the side of its consumer *)

\* What the steps of a consumer must leave of a stream.
Fine(s, t) == t \in Stream /\ Sound(t) /\ (t.registered => s.registered)

\* A step that keeps the flow keeps everything else a stream needs.
LEMMA SameFlow ==
  ASSUME NEW s \in Stream, NEW t \in Stream, Sound(s), s.at \in Live, t.at \in Live,
         Flow(t) = Flow(s), t.due = s.due, t.registered = s.registered, t.closed = s.closed,
         Len(t.queue) <= Capacity
  PROVE  Fine(s, t)
BY DEF Sound, Live, Fine

LEMMA StartFine ==
  ASSUME NEW s \in Stream, Sound(s), s.at = "opened"
  PROVE  Fine(s, [s EXCEPT !.at = "next"])
<1> DEFINE t == [s EXCEPT !.at = "next"]
<1>1. t \in Stream /\ Flow(t) = Flow(s)
  BY DEF Stream, Flow, InHand
<1> QED
  BY <1>1, SameFlow DEF Live, Sound, Stream

LEMMA DoneShape ==
  ASSUME NEW s \in Stream, NEW at \in {"ended", "gone"}
  PROVE  \E b \in BOOLEAN :
           Done(s, at) = [s EXCEPT !.registered = FALSE, !.closed = b, !.at = at,
                                   !.queue = <<>>, !.held = Ack]
<1>1. CASE s.registered
  <2> DEFINE c == [Remove(s) EXCEPT !.closed = TRUE]
  <2>1. \E q : Close(Remove(s)) = [c EXCEPT !.queue = q]
    <3>1. Close(Remove(s)) \in {c, [c EXCEPT !.queue = Append(@, Closed)]}
      BY DEF Close, Put
    <3>2. c = [c EXCEPT !.queue = c.queue]
      BY DEF Remove, Stream
    <3> QED
      BY <3>1, <3>2
  <2> QED
    BY <1>1, <2>1 DEF Done, Disconnect, Remove, Stream
<1>2. CASE ~s.registered
  <2>1. Done(s, at) = [s EXCEPT !.at = at, !.queue = <<>>, !.held = Ack]
    BY <1>2 DEF Done, Disconnect
  <2> QED
    <3>1. s.registered = FALSE /\ s.closed \in BOOLEAN
      BY <1>2 DEF Stream
    <3>2. Done(s, at) = [s EXCEPT !.registered = FALSE, !.closed = s.closed, !.at = at,
                                  !.queue = <<>>, !.held = Ack]
      BY <2>1, <3>1 DEF Stream
    <3> QED
      BY <3>1, <3>2
<1> QED
  BY <1>1, <1>2 DEF Stream

\* The generator ends by itself once the stream was closed and its queue is empty.
LEMMA NextFine ==
  ASSUME NEW s \in Stream, Sound(s), s.at = "next"
  PROVE  Fine(s, IF s.closed /\ s.queue = <<>> THEN Done(s, "ended") ELSE [s EXCEPT !.at = "waiting"])
<1>1. CASE s.closed /\ s.queue = <<>>
  <2> DEFINE t == Done(s, "ended")
  <2>1. ~s.registered /\ EndsWell(Flow(s), s.due)
    BY <1>1 DEF Sound, Live
  <2>2. PICK b \in BOOLEAN : t = [s EXCEPT !.registered = FALSE, !.closed = b, !.at = "ended",
                                          !.queue = <<>>, !.held = Ack]
    BY DoneShape
  <2> HIDE DEF t
  <2>3. t \in Stream /\ Flow(t) = Flow(s)
    BY <1>1, <2>2, Kinds DEF Stream, Flow, InHand
  <2> QED
    BY <1>1, <2>1, <2>2, <2>3, SubscriptionAssumption DEF Fine, Sound, Live, Stream, t
<1>2. CASE ~(s.closed /\ s.queue = <<>>)
  <2> DEFINE t == [s EXCEPT !.at = "waiting"]
  <2>1. t \in Stream /\ Flow(t) = Flow(s)
    BY DEF Stream, Flow, InHand
  <2>2. Fine(s, t)
    BY <2>1, SameFlow DEF Live, Sound, Stream
  <2> QED
    BY <1>2, <2>2
<1> QED
  BY <1>1, <1>2

\* The sentinel comes after the response, so what was sent before it is all there is.
LEMMA SentinelEnds ==
  ASSUME NEW g \in Seq(Item), NEW q \in Seq(Item), NEW d \in Seq(Owed), q # <<>>,
         Head(q) = Closed, EndsWell(g \o q, d)
  PROVE  EndsWell(g, d)
<1> DEFINE f == g \o q
           k == Len(g)
<1>1. Len(q) \in Nat \ {0} /\ f \in Seq(Item) /\ Len(f) = k + Len(q) /\ f[k + 1] = Closed
      /\ k \in Nat /\ \A i \in 1..k : g[i] = f[i]
  BY DEF Item
<1>2. PICK n \in 1..(Len(d) + 1) :
        /\ Len(f) \in {n, n + 1}
        /\ \A i \in 1..(n - 1) : f[i] = d[i]
        /\ f[n] = Complete
        /\ Len(f) = n + 1 => f[n + 1] = Closed
  BY DEF EndsWell
<1> HIDE DEF f, k
<1>3. n \in Nat /\ \A i \in 1..(n - 1) : i \in 1..Len(d)
  OBVIOUS
<1>4. k + 1 = n + 1
  <2>1. \A i \in 1..(n - 1) : f[i] # Closed
    BY <1>2, <1>3, Kinds
  <2>2. f[n] # Closed
    BY <1>2, Kinds
  <2>3. k + 1 \in 1..(n + 1)
    BY <1>1, <1>2
  <2> QED
    BY <1>1, <2>1, <2>2, <2>3
<1>5. Len(g) = n
  BY <1>1, <1>4 DEF k
<1> QED
  BY <1>1, <1>2, <1>3, <1>4, <1>5 DEF EndsWell

LEMMA GetFine ==
  ASSUME NEW s \in Stream, Sound(s), s.at = "waiting", s.queue # <<>>
  PROVE  LET rest == [s EXCEPT !.queue = Tail(@)]
         IN  Fine(s, IF Head(s.queue) = Closed THEN Done(rest, "ended")
                     ELSE [rest EXCEPT !.at = "sending", !.held = Head(s.queue)])
<1> DEFINE rest == [s EXCEPT !.queue = Tail(@)]
<1>1. s.sent \in Seq(Item) /\ s.queue \in Seq(Item) /\ s.due \in Seq(Owed) /\ s.due \in Seq(Message)
  BY Kinds DEF Stream, Item
<1> HIDE DEF Item
<1>2. /\ Head(s.queue) \in Item /\ Tail(s.queue) \in Seq(Item)
      /\ Len(Tail(s.queue)) = Len(s.queue) - 1 /\ Len(s.queue) \in Nat
  BY <1>1
<1>3. rest \in Stream
  BY <1>2 DEF Stream, Item
<1>4. Flow(s) = s.sent \o s.queue
  BY <1>1 DEF Flow, InHand
<1>5. CASE Head(s.queue) = Closed
  <2> DEFINE t == Done(rest, "ended")
  <2>1. ~s.registered
    <3>1. ASSUME s.registered PROVE FALSE
      <4>1. s.sent \o s.queue = s.due
        BY <1>4, <3>1 DEF Sound
      <4>2. (s.sent \o s.queue)[Len(s.sent) + 1] = Closed
            /\ Len(s.sent) + 1 \in 1..Len(s.sent \o s.queue)
        BY <1>1, <1>5, Splitting
      <4> QED
        BY <1>1, <4>1, <4>2, Kinds
    <3> QED
      BY <3>1
  <2>2. EndsWell(s.sent, s.due)
    <3>1. EndsWell(s.sent \o s.queue, s.due)
      BY <1>4, <2>1 DEF Sound, Live
    <3> QED
      BY <1>1, <1>5, <3>1, SentinelEnds
  <2>3. PICK b \in BOOLEAN : t = [rest EXCEPT !.registered = FALSE, !.closed = b, !.at = "ended",
                                             !.queue = <<>>, !.held = Ack]
    BY <1>3, DoneShape
  <2>4. t = [s EXCEPT !.registered = FALSE, !.closed = b, !.at = "ended", !.queue = <<>>, !.held = Ack]
    BY <2>3 DEF Stream
  <2> HIDE DEF t
  <2>5. t \in Stream /\ Flow(t) = s.sent
    <3>1. t \in Stream
      <4>1. Ack \in Message /\ <<>> \in Seq(Message \union {Closed})
        BY Kinds
      <4> QED
        BY <2>4, <4>1 DEF Stream
    <3>2. Flow(t) = (s.sent \o <<>>) \o <<>>
      BY <2>4 DEF Stream, Flow, InHand
    <3> QED
      BY <1>1, <3>1, <3>2
  <2>6. Fine(s, t)
    BY <2>1, <2>2, <2>4, <2>5, SubscriptionAssumption DEF Fine, Sound, Live, Stream
  <2> QED
    BY <1>5, <2>6 DEF t
<1>6. CASE Head(s.queue) # Closed
  <2> DEFINE t == [rest EXCEPT !.at = "sending", !.held = Head(s.queue)]
  <2>1. t = [s EXCEPT !.queue = Tail(@), !.at = "sending", !.held = Head(s.queue)]
    BY DEF Stream
  <2>2. Head(s.queue) \in Message
    BY <1>2, <1>6 DEF Item
  <2> HIDE DEF t
  <2>3. t \in Stream
    BY <1>2, <2>1, <2>2 DEF Stream, Item
  <2>4. Flow(t) = Flow(s)
    <3>1. Flow(t) = (s.sent \o <<Head(s.queue)>>) \o Tail(s.queue)
      BY <2>1 DEF Flow, InHand, Stream
    <3>2. (s.sent \o <<Head(s.queue)>>) \o Tail(s.queue) = s.sent \o s.queue
      BY <1>1, Splitting
    <3> QED
      BY <1>4, <3>1, <3>2
  <2>5. Fine(s, t)
    <3>1. /\ t.at = "sending" /\ t.due = s.due /\ t.registered = s.registered
          /\ t.closed = s.closed /\ t.queue = Tail(s.queue)
      BY <2>1 DEF Stream
    <3>2. Len(t.queue) <= Capacity
      BY <1>2, <3>1, SubscriptionAssumption DEF Sound
    <3> QED
      BY <2>3, <2>4, <3>1, <3>2, SameFlow DEF Live
  <2> QED
    BY <1>6, <2>5 DEF t
<1> QED
  BY <1>5, <1>6

LEMMA SendFine ==
  ASSUME NEW s \in Stream, Sound(s), s.at = "sending"
  PROVE  Fine(s, [s EXCEPT !.at = "next", !.held = Ack, !.sent = Append(@, s.held)])
<1> DEFINE t == [s EXCEPT !.at = "next", !.held = Ack, !.sent = Append(@, s.held)]
<1>1. s.sent \in Seq(Item) /\ s.queue \in Seq(Item) /\ s.held \in Item
  BY Kinds DEF Stream, Item
<1>2. t \in Stream
  <2>1. Append(s.sent, s.held) \in Seq(Message)
    BY DEF Stream
  <2> QED
    BY <2>1, Kinds DEF Stream
<1>3. Flow(t) = Flow(s)
  <2> HIDE DEF Item
  <2>1. Flow(t) = (Append(s.sent, s.held) \o <<>>) \o s.queue
    BY DEF Flow, InHand, Stream
  <2>2. Flow(s) = (s.sent \o <<s.held>>) \o s.queue
    BY DEF Flow, InHand
  <2>3. Append(s.sent, s.held) = s.sent \o <<s.held>> /\ s.sent \o <<s.held>> \in Seq(Item)
    BY <1>1, Appending
  <2> QED
    BY <2>1, <2>2, <2>3, Empty
<1> QED
  BY <1>2, <1>3, SameFlow DEF Live, Sound, Stream

\* A client that goes away takes the history with it; a response that was never iterated
\* stays as it is.
LEMMA LeaveFine ==
  ASSUME NEW s \in Stream, Sound(s)
  PROVE  /\ s.at = "opened" => Fine(s, [s EXCEPT !.at = "abandoned"])
         /\ Fine(s, [Done(s, "gone") EXCEPT !.sent = <<>>, !.due = <<>>, !.filter = {}])
<1>1. ASSUME s.at = "opened" PROVE Fine(s, [s EXCEPT !.at = "abandoned"])
  <2> DEFINE t == [s EXCEPT !.at = "abandoned"]
  <2>1. t \in Stream /\ Flow(t) = Flow(s)
    BY <1>1 DEF Stream, Flow, InHand
  <2> QED
    BY <1>1, <2>1, SameFlow DEF Live, Sound, Stream
<1>2. Fine(s, [Done(s, "gone") EXCEPT !.sent = <<>>, !.due = <<>>, !.filter = {}])
  <2> DEFINE t == [Done(s, "gone") EXCEPT !.sent = <<>>, !.due = <<>>, !.filter = {}]
  <2>1. PICK b \in BOOLEAN : Done(s, "gone") = [s EXCEPT !.registered = FALSE, !.closed = b,
                                                  !.at = "gone", !.queue = <<>>, !.held = Ack]
    BY DoneShape
  <2>2. t = [s EXCEPT !.registered = FALSE, !.closed = b, !.at = "gone", !.queue = <<>>,
                      !.held = Ack, !.sent = <<>>, !.due = <<>>, !.filter = {}]
    BY <2>1 DEF Stream
  <2> HIDE DEF t
  <2>3. t \in Stream
    <3>1. Ack \in Message /\ <<>> \in Seq(Message \union {Closed}) /\ <<>> \in Seq(Message)
          /\ <<>> \in Seq(Owed) /\ {} \in SUBSET Events
      BY Kinds
    <3> QED
      BY <2>2, <3>1 DEF Stream
  <2>4. Fine(s, t)
    BY <2>2, <2>3, SubscriptionAssumption DEF Fine, Sound, Live, Stream
  <2> QED
    BY <2>4 DEF t
<1> QED
  BY <1>1, <1>2

LEMMA OpenFine ==
  ASSUME NEW f \in Filters
  PROVE  LET t == [NoStream EXCEPT !.at = "opened", !.registered = TRUE, !.queue = <<Ack>>,
                                   !.filter = f, !.due = <<Ack>>]
         IN  t \in Stream /\ Sound(t)
<1> DEFINE t == [NoStream EXCEPT !.at = "opened", !.registered = TRUE, !.queue = <<Ack>>,
                                 !.filter = f, !.due = <<Ack>>]
<1>1. Ack \in Owed /\ Ack \in Message /\ Ack \in Item /\ f \subseteq Events
  BY Kinds, SubscriptionAssumption
<1>2. NoStream \in Stream /\ NoStream.sent = <<>> /\ NoStream.closed = FALSE
  BY <1>1 DEF NoStream, Stream
<1>3. /\ t \in Stream /\ t.at = "opened" /\ t.registered = TRUE /\ t.closed = FALSE
      /\ t.queue = <<Ack>> /\ t.sent = <<>> /\ t.due = <<Ack>>
  <2>1. <<Ack>> \in Seq(Message \union {Closed}) /\ <<Ack>> \in Seq(Owed)
    BY <1>1
  <2> QED
    BY <1>1, <1>2, <2>1 DEF Stream
<1> HIDE DEF t
<1>4. Flow(t) = <<Ack>>
  <2>1. Flow(t) = (<<>> \o <<>>) \o <<Ack>>
    BY <1>3 DEF Flow, InHand
  <2> QED
    BY <2>1
<1> QED
  BY <1>3, <1>4, SubscriptionAssumption DEF Sound, Live, t

-----------------------------------------------------------------------------
(* The invariant *)

\* A step that opens no stream leaves the number of them within the limit.
LEMMA FewerStay ==
  ASSUME IsFiniteSet(Registered), Cardinality(Registered) <= limit, limit \in Nat,
         Registered' \subseteq Registered, UNCHANGED limit
  PROVE  IsFiniteSet(Registered') /\ Cardinality(Registered') <= limit'
<1>1. IsFiniteSet(Registered') /\ Cardinality(Registered') <= Cardinality(Registered)
  BY FS_Subset
<1>2. Cardinality(Registered') \in Nat /\ Cardinality(Registered) \in Nat
  BY <1>1, FS_CardinalityType
<1> QED
  BY <1>1, <1>2

\* A step of the event loop that treats every stream fairly keeps the invariant.
LEMMA StreamsStep ==
  ASSUME IInv, streams' \in [Listeners -> Stream], \A l \in Listeners : Fine(streams[l], streams'[l]),
         UNCHANGED limit
  PROVE  /\ streams' \in [Listeners -> Stream]
         /\ \A l \in Listeners : Sound(streams[l])' /\ Len(streams'[l].queue) <= Capacity
         /\ IsFiniteSet(Registered') /\ Cardinality(Registered') <= limit'
<1>1. Registered' \subseteq Registered
  BY DEF Registered, Fine
<1>2. limit \in Nat
  BY SubscriptionAssumption DEF IInv, TypeOK
<1>3. IsFiniteSet(Registered') /\ Cardinality(Registered') <= limit'
  BY <1>1, <1>2, FewerStay DEF IInv, TypeOK
<1>4. \A l \in Listeners : Sound(streams'[l])
  BY DEF Fine
<1>5. \A l \in Listeners : Sound(streams[l])' /\ Len(streams'[l].queue) <= Capacity
  BY <1>4 DEF Sound, Flow, InHand
<1> QED
  BY <1>3, <1>5

LEMMA ConsumerStepOK ==
  ASSUME IInv, NEW l \in Listeners, NEW t, ConsumerStep(l, t), Fine(streams[l], t)
  PROVE  IInv'
<1>1. streams \in [Listeners -> Stream] /\ t \in Stream
  BY DEF IInv, TypeOK, Fine
<1>2. streams' = [streams EXCEPT ![l] = t]
      /\ UNCHANGED <<limit, channels, broker, feed, published, shutdown>>
  BY DEF ConsumerStep
<1>3. \A k \in Listeners : Fine(streams[k], streams[k])
  BY <1>1 DEF IInv, Fine
<1>4. streams' \in [Listeners -> Stream] /\ \A k \in Listeners : Fine(streams[k], streams'[k])
  BY <1>1, <1>2, <1>3
<1> QED
  BY <1>2, <1>4, StreamsStep DEF IInv, TypeOK

LEMMA InitOK == Init => IInv
<1> SUFFICES ASSUME Init PROVE IInv
  OBVIOUS
<1>1. Ack \in Message /\ <<>> \in Seq(Message \union {Closed}) /\ <<>> \in Seq(Message)
      /\ <<>> \in Seq(Owed) /\ {} \in SUBSET Events
  BY Kinds
<1>2. NoStream \in Stream /\ Sound(NoStream)
  BY <1>1, SubscriptionAssumption DEF NoStream, Stream, Sound, Live
<1>3. Registered = {}
  BY DEF Init, Registered, NoStream
<1>4. IsFiniteSet(Registered) /\ Cardinality(Registered) = 0
  BY <1>3, FS_EmptySet
<1> QED
  <2>1. streams \in [Listeners -> Stream] /\ \A l \in Listeners : Sound(streams[l])
    BY <1>2 DEF Init
  <2>2. /\ limit \in 1..MaxStreams /\ channels \in BOOLEAN
        /\ broker \in {"off", "sleeping", "subscribed"} /\ shutdown = "none"
        /\ feed \in Seq(Events \union {Garbled}) /\ published \in 0..MaxEvents
    BY SubscriptionAssumption DEF Init
  <2>3. \A l \in Listeners : Len(streams[l].queue) <= Capacity
    BY <2>1 DEF Sound
  <2>4. Cardinality(Registered) <= limit
    BY <1>4, <2>2, SubscriptionAssumption
  <2> QED
    BY <1>4, <2>1, <2>2, <2>3, <2>4 DEF IInv, TypeOK

LEMMA OpenOK ==
  ASSUME IInv, NEW l \in Listeners, Open(l)
  PROVE  IInv'
<1>1. streams \in [Listeners -> Stream] /\ limit \in Nat /\ limit \in 1..MaxStreams
  BY SubscriptionAssumption DEF IInv, TypeOK
<1>2. UNCHANGED <<limit, channels, broker, feed, published, shutdown>> /\ streams[l].at = "none"
  BY DEF Open
<1>3. CASE Limited /\ streams' = [streams EXCEPT ![l].at = "refused"]
  <2> DEFINE t == [streams[l] EXCEPT !.at = "refused"]
  <2>1. t \in Stream /\ Fine(streams[l], t)
    BY <1>1, <1>2 DEF IInv, Sound, Fine, Stream, Live
  <2> QED
    BY <1>2, <1>3, <2>1, ConsumerStepOK DEF ConsumerStep
<1>4. ASSUME ~Limited, NEW f \in Filters,
             streams' = [streams EXCEPT ![l] =
               [NoStream EXCEPT !.at = "opened", !.registered = TRUE, !.queue = <<Ack>>,
                                !.filter = f, !.due = <<Ack>>]]
      PROVE  IInv'
  <2> DEFINE t == [NoStream EXCEPT !.at = "opened", !.registered = TRUE, !.queue = <<Ack>>,
                                   !.filter = f, !.due = <<Ack>>]
  <2>1. t \in Stream /\ Sound(t)
    BY OpenFine
  <2> HIDE DEF t
  <2>2. streams' = [streams EXCEPT ![l] = t]
    BY <1>4 DEF t
  <2>3. streams' \in [Listeners -> Stream] /\ \A k \in Listeners : Sound(streams'[k])
    BY <1>1, <2>1, <2>2 DEF IInv
  <2>4. \A k \in Listeners : Sound(streams[k])' /\ Len(streams'[k].queue) <= Capacity
    BY <2>3 DEF Sound, Flow, InHand
  <2>5. Registered' \subseteq Registered \union {l}
    BY <1>1, <2>2 DEF Registered
  <2>6. IsFiniteSet(Registered') /\ Cardinality(Registered') <= limit'
    <3> DEFINE more == Registered \union {l}
    <3>1. IsFiniteSet(more) /\ Cardinality(Registered) \in Nat
      BY FS_AddElement, FS_CardinalityType DEF IInv
    <3>2. \/ Cardinality(more) = Cardinality(Registered)
          \/ Cardinality(more) = Cardinality(Registered) + 1
      BY FS_AddElement DEF IInv
    <3>3. IsFiniteSet(Registered') /\ Cardinality(Registered') <= Cardinality(more)
      BY <2>5, <3>1, FS_Subset
    <3>4. Cardinality(Registered) < limit /\ limit' = limit
      BY <1>1, <1>2, <1>4, FS_CardinalityType DEF Limited, IInv
    <3>5. Cardinality(Registered) \in Nat /\ Cardinality(more) \in Nat /\ Cardinality(Registered') \in Nat
      BY <3>1, <3>3, FS_CardinalityType DEF IInv
    <3> QED
      BY <1>1, <3>1, <3>3, <3>4, <3>5, <3>2
  <2> QED
    BY <1>2, <2>3, <2>4, <2>6 DEF IInv, TypeOK
<1> QED
  BY <1>3, <1>4 DEF Open

LEMMA RestOK ==
  ASSUME IInv, UNCHANGED <<limit, streams>>, channels' \in BOOLEAN,
         broker' \in {"off", "sleeping", "subscribed"}, shutdown' \in {"none", "stopping", "done"},
         published' \in 0..MaxEvents, feed' \in Seq(Events \union {Garbled})
  PROVE  IInv'
<1>1. streams' \in [Listeners -> Stream] /\ \A l \in Listeners : Fine(streams[l], streams'[l])
  BY DEF IInv, TypeOK, Fine
<1> QED
  BY <1>1, StreamsStep DEF IInv, TypeOK

LEMMA PublishOK ==
  ASSUME IInv, NEW e \in Events, PublishLocal(e), UNCHANGED <<limit, channels, shutdown>>,
         published' \in 0..MaxEvents, broker' \in {"off", "sleeping", "subscribed"}, feed' \in Seq(Events \union {Garbled})
  PROVE  IInv'
<1>1. streams \in [Listeners -> Stream]
  BY DEF IInv, TypeOK
<1>2. \A l \in Listeners : Fine(streams[l], Offer(Owe(streams[l], e), e))
  BY <1>1, OfferSound DEF IInv, Fine
<1>3. streams' \in [Listeners -> Stream] /\ \A l \in Listeners : Fine(streams[l], streams'[l])
  BY <1>1, <1>2 DEF PublishLocal, Fine
<1> QED
  BY <1>3, StreamsStep DEF IInv, TypeOK

LEMMA CloseAllOK ==
  ASSUME IInv, CloseAll
  PROVE  IInv'
<1>1. streams \in [Listeners -> Stream]
  BY DEF IInv, TypeOK
<1>2. /\ streams' = [l \in Listeners |-> IF streams[l].registered THEN End(Remove(streams[l]))
                                                                 ELSE streams[l]]
      /\ shutdown' = "done" /\ UNCHANGED <<limit, channels, broker, feed, published>>
  BY DEF CloseAll
<1>3. \A l \in Listeners : Fine(streams[l], streams'[l])
  BY <1>1, <1>2, CloseAllSound DEF IInv, Fine
<1>4. streams' \in [Listeners -> Stream]
  BY <1>1, <1>2, <1>3 DEF Fine
<1> QED
  BY <1>2, <1>3, <1>4, StreamsStep DEF IInv, TypeOK

LEMMA ConsumeOK ==
  ASSUME IInv, NEW l \in Listeners, Consume(l) \/ Leave(l)
  PROVE  IInv'
<1>1. streams[l] \in Stream /\ Sound(streams[l])
  BY DEF IInv, TypeOK
<1>2. CASE StartResponse(l)
  BY <1>1, <1>2, StartFine, ConsumerStepOK DEF StartResponse
<1>3. CASE Next_(l)
  BY <1>1, <1>3, NextFine, ConsumerStepOK DEF Next_
<1>4. CASE Get(l)
  BY <1>1, <1>4, GetFine, ConsumerStepOK DEF Get
<1>5. CASE Send(l)
  BY <1>1, <1>5, SendFine, ConsumerStepOK DEF Send
<1>6. CASE Leave(l)
  BY <1>1, <1>6, LeaveFine, ConsumerStepOK DEF Leave
<1> QED
  BY <1>2, <1>3, <1>4, <1>5, <1>6 DEF Consume

LEMMA PublishingOK ==
  ASSUME IInv, Publish
  PROVE  IInv'
<1>1. /\ published' = published + 1 /\ published' \in 0..MaxEvents /\ published' \in Events
      /\ UNCHANGED <<limit, channels, broker, shutdown>>
  BY SubscriptionAssumption DEF IInv, TypeOK, Publish, Events
<1>2. /\ broker \in {"off", "sleeping", "subscribed"} /\ channels \in BOOLEAN
      /\ shutdown \in {"none", "stopping", "done"} /\ feed \in Seq(Events \union {Garbled})
  BY DEF IInv, TypeOK
<1>3. CASE channels
  <2>1. UNCHANGED streams /\ feed' \in {feed, Append(feed, published')}
    BY <1>3 DEF Publish
  <2>2. feed' \in Seq(Events \union {Garbled})
    BY <1>1, <1>2, <2>1
  <2> QED
    BY <1>1, <1>2, <2>1, <2>2, RestOK
<1>4. CASE ~channels
  BY <1>1, <1>2, <1>4, PublishOK DEF Publish
<1> QED
  BY <1>3, <1>4

LEMMA BrokerOK ==
  ASSUME IInv, Subscribe \/ Garble \/ Receive \/ BrokerFails \/ StopBroker
  PROVE  IInv'
<1>1. /\ broker \in {"off", "sleeping", "subscribed"} /\ channels \in BOOLEAN
      /\ published \in 0..MaxEvents
      /\ shutdown \in {"none", "stopping", "done"} /\ feed \in Seq(Events \union {Garbled})
  BY DEF IInv, TypeOK
<1>2. CASE Subscribe
  BY <1>1, <1>2, RestOK DEF Subscribe
<1>3. CASE Garble
  BY <1>1, <1>3, RestOK DEF Garble
<1>4. CASE BrokerFails
  BY <1>1, <1>4, RestOK DEF BrokerFails
<1>5. CASE StopBroker
  BY <1>1, <1>5, RestOK DEF StopBroker
<1>6. CASE Receive
  <2>1. /\ feed # <<>> /\ feed' = Tail(feed)
        /\ UNCHANGED <<limit, channels, broker, published, shutdown>>
    BY <1>6 DEF Receive
  <2>2. Head(feed) \in Events \union {Garbled} /\ feed' \in Seq(Events \union {Garbled})
    BY <1>1, <2>1
  <2>3. CASE Head(feed) = Garbled
    BY <1>1, <1>6, <2>1, <2>2, <2>3, RestOK DEF Receive
  <2>4. CASE Head(feed) # Garbled
    BY <1>1, <1>6, <2>1, <2>2, <2>4, PublishOK DEF Receive
  <2> QED
    BY <2>3, <2>4
<1> QED
  BY <1>2, <1>3, <1>4, <1>5, <1>6

LEMMA StepOK == IInv /\ [Next]_vars => IInv'
<1> SUFFICES ASSUME IInv, [Next]_vars PROVE IInv'
  OBVIOUS
<1>1. ASSUME NEW l \in Listeners, Open(l) PROVE IInv'
  BY <1>1, OpenOK
<1>2. ASSUME NEW l \in Listeners, Consume(l) \/ Leave(l) PROVE IInv'
  BY <1>2, ConsumeOK
<1>3. CASE Publish
  BY <1>3, PublishingOK
<1>4. CASE Subscribe \/ Garble \/ Receive \/ BrokerFails \/ StopBroker
  BY <1>4, BrokerOK
<1>5. CASE CloseAll
  BY <1>5, CloseAllOK
<1>6. CASE UNCHANGED vars
  BY <1>6, RestOK DEF vars, IInv, TypeOK
<1> QED
  BY <1>1, <1>2, <1>3, <1>4, <1>5, <1>6 DEF Next

\* The invariant holds in every reachable state.
THEOREM Invariance == Spec => []IInv
<1>1. Init => IInv
  BY InitOK
<1>2. IInv /\ [Next]_vars => IInv'
  BY StepOK
<1> QED
  BY <1>1, <1>2, PTL DEF Spec

\* Variables keep their types, no queue holds more than stream_queue_capacity, and no more
\* than max_streams streams are registered (core/sse.py:67).
THEOREM TypeCorrect == Spec => []TypeOK
<1>1. IInv => TypeOK
  BY DEF IInv
<1> QED
  BY <1>1, Invariance, PTL

-----------------------------------------------------------------------------
(* What a client got is the initial part of the flow, and the sentinel is never sent. *)

LEMMA SentIsFlow ==
  ASSUME NEW s \in Stream
  PROVE  /\ Len(s.sent) \in Nat /\ Len(s.sent) <= Len(Flow(s)) /\ Len(Flow(s)) \in Nat
         /\ \A i \in 1..Len(s.sent) : s.sent[i] = Flow(s)[i] /\ s.sent[i] # Closed
<1>1. s.sent \in Seq(Item) /\ InHand(s) \in Seq(Item) /\ s.queue \in Seq(Item)
  BY Kinds, FlowType DEF Stream, Item
<1>2. \A i \in 1..Len(s.sent) : s.sent[i] # Closed
  BY Kinds DEF Stream
<1> HIDE DEF Item
<1>3. ASSUME NEW a \in Seq(Item), NEW b \in Seq(Item), NEW c \in Seq(Item)
      PROVE  /\ Len(a) \in Nat /\ Len((a \o b) \o c) \in Nat /\ Len(a) <= Len((a \o b) \o c)
             /\ \A i \in 1..Len(a) : a[i] = ((a \o b) \o c)[i]
  OBVIOUS
<1> QED
  BY <1>1, <1>2, <1>3 DEF Flow

LEMMA NothingLostFollows == IInv => NothingLost
<1> SUFFICES ASSUME IInv PROVE NothingLost
  OBVIOUS
<1>1. ASSUME NEW l \in Listeners, NEW i \in DOMAIN streams[l].sent,
             streams[l].sent[i] # Complete
      PROVE  i <= Len(streams[l].due) /\ streams[l].sent[i] = streams[l].due[i]
  <2> DEFINE s == streams[l]
  <2>1. s \in Stream /\ Sound(s) /\ s.due \in Seq(Owed) /\ i \in 1..Len(s.sent)
    BY DEF IInv, TypeOK, Stream
  <2> HIDE DEF s
  <2>2. s.sent[i] = Flow(s)[i] /\ s.sent[i] # Closed /\ i \in 1..Len(Flow(s))
    BY <2>1, SentIsFlow
  <2>3. s.registered \/ EndsWell(Flow(s), s.due)
    <3>1. s.sent # <<>>
      BY <2>1
    <3> QED
      BY <2>1, <3>1 DEF Sound, Live, Stream
  <2>4. CASE s.registered
    BY <2>1, <2>2, <2>4 DEF Sound, s
  <2>5. CASE EndsWell(Flow(s), s.due)
    BY <1>1, <2>1, <2>2, <2>5 DEF EndsWell, s
  <2> QED
    BY <2>3, <2>4, <2>5 DEF s
<1>2. \A l \in Registered : Flow(streams[l]) = streams[l].due
  BY DEF IInv, Registered, Sound
<1> QED
  BY <1>1, <1>2 DEF NothingLost

\* A client gets a gapless initial part of what its filter matches, and a registered stream
\* holds all the rest (core/sse.py:102).
THEOREM NoGap == Spec => []NothingLost
BY NothingLostFollows, Invariance, PTL

LEMMA EndsWithResponseFollows == IInv => EndsWithResponse
<1> SUFFICES ASSUME IInv, NEW l \in Listeners
             PROVE  /\ \A i \in 1..(Len(streams[l].sent) - 1) : streams[l].sent[i] # Complete
                    /\ streams[l].at = "ended" =>
                         streams[l].sent # <<>> /\ streams[l].sent[Len(streams[l].sent)] = Complete
  BY DEF EndsWithResponse
<1> DEFINE s == streams[l]
           k == Len(s.sent)
<1>1. s \in Stream /\ Sound(s) /\ s.due \in Seq(Owed)
  BY DEF IInv, TypeOK, Stream
<1> HIDE DEF s
<1>2. /\ k \in Nat /\ k <= Len(Flow(s)) /\ Len(Flow(s)) \in Nat
      /\ \A i \in 1..k : s.sent[i] = Flow(s)[i] /\ s.sent[i] # Closed
  BY <1>1, SentIsFlow
<1>3. \A i \in 1..Len(s.due) : s.due[i] # Complete
  BY <1>1, Kinds
<1>4. \A i \in 1..(k - 1) : s.sent[i] # Complete
  <2>1. CASE s.registered
    BY <1>1, <1>2, <1>3, <2>1 DEF Sound
  <2>2. CASE EndsWell(Flow(s), s.due)
    <3>1. PICK n \in 1..(Len(s.due) + 1) :
            /\ Len(Flow(s)) \in {n, n + 1}
            /\ \A i \in 1..(n - 1) : Flow(s)[i] = s.due[i]
            /\ Flow(s)[n] = Complete
            /\ Len(Flow(s)) = n + 1 => Flow(s)[n + 1] = Closed
      BY <2>2 DEF EndsWell
    <3>2. k # n + 1
      BY <1>2, <3>1
    <3>3. k <= n /\ n \in Nat /\ Len(s.due) \in Nat /\ k \in Nat
      BY <1>1, <1>2, <3>1, <3>2
    <3>4. \A i \in 1..(k - 1) : i \in 1..k /\ i \in 1..(n - 1) /\ i \in 1..Len(s.due)
      BY <3>1, <3>3
    <3>5. \A i \in 1..(k - 1) : s.sent[i] = s.due[i]
      BY <1>2, <3>1, <3>4
    <3> QED
      BY <1>3, <3>4, <3>5
  <2>3. CASE s.sent = <<>>
    BY <2>3
  <2> QED
    BY <1>1, <2>1, <2>2, <2>3 DEF Sound, Live, Stream
<1>5. ASSUME s.at = "ended"
      PROVE  s.sent # <<>> /\ s.sent[k] = Complete
  <2>1. EndsWell(Flow(s), s.due) /\ Flow(s) = s.sent
    <3>1. s.queue = <<>> /\ InHand(s) = <<>> /\ s.sent \in Seq(Message)
      BY <1>1, <1>5 DEF Sound, InHand, Stream
    <3> QED
      BY <1>1, <1>5, <3>1 DEF Sound, Flow
  <2>2. PICK n \in 1..(Len(s.due) + 1) :
          k \in {n, n + 1} /\ s.sent[n] = Complete /\ (k = n + 1 => s.sent[n + 1] = Closed)
    BY <2>1 DEF EndsWell
  <2>3. k = n /\ k >= 1
    BY <1>2, <2>2
  <2> QED
    BY <1>1, <2>2, <2>3
<1> QED
  BY <1>4, <1>5 DEF s

\* A stream that ends does so with its response, which comes once and last
\* (docs/changelog.md:135).
THEOREM ResponseLast == Spec => []EndsWithResponse
BY EndsWithResponseFollows, Invariance, PTL

\* Only a stream with a consumer, or one whose response was never iterated, counts against
\* max_streams (mcp/routes.py:523).
THEOREM CountsOnlyConsumers == Spec => []NoLeak
<1>1. IInv => NoLeak
  BY DEF IInv, NoLeak, Registered, Sound, Live
<1> QED
  BY <1>1, Invariance, PTL

=============================================================================
