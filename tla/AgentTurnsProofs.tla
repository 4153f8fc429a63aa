-------------------------- MODULE AgentTurnsProofs --------------------------
(***************************************************************************)
(* Proofs about AgentTurns.  The turns of a session that kept its lock     *)
(* share that lock, so one of them at most is between its load and its     *)
(* save; what the store holds of the session meanwhile is part of what     *)
(* that turn loaded, and its save extends it.  The rest of a turn, and     *)
(* what its client is told, concerns that turn alone.                      *)
(***************************************************************************)
EXTENDS AgentTurns, SequenceTheorems, TLAPS

Working == {"model", "yielding", "tools", "results"}
Using == Working \union {"waiting"}
Last_ == {"complete", "error"}

\* The coroutine of a turn by itself.
Runs(r) ==
  /\ r.at = "new" => r = NoTurn
  /\ r.at # "new" => r.session \in Sessions
  /\ r.holds <=> r.at \in Working
  /\ r.at \in Using => r.lock # NoLock
  /\ r.at \in {"tools", "results"} => r.batch > 0
  /\ r.saved => r.at \in {"finishing", "over"}
  /\ r.at = "finishing" => r.saved

\* What its client is told.
Tells(r) ==
  /\ \A i \in DOMAIN r.buffer :
       r.buffer[i] \in Last_ => r.at = "over" /\ (r.buffer[i] = "complete" <=> r.saved)
  /\ r.got \in Last_ => r.at = "over" /\ (r.got = "complete" <=> r.saved)
  /\ r.client = "reading" => r.streamed
  /\ r.client = "reading" /\ r.at = "over" =>
       \/ r.muted \/ r.got \in Last_
       \/ r.buffer # <<>> /\ r.buffer[Len(r.buffer)] \in Last_
  /\ r.client = "ended" => r.got \in Last_ \/ r.muted

Fine(r) == r \in Coroutine /\ Runs(r) /\ Tells(r)

\* The turns of a session that did not lose its lock hold or wait for that lock.
LocksKept ==
  \A t \in Turns :
    turns[t].at \in Using /\ turns[t].session \notin torn => turns[t].lock = locks[turns[t].session]

Exclusive ==
  \A t, u \in Turns : turns[t].holds /\ turns[u].holds /\ turns[t].lock = turns[u].lock => t = u

\* The turn at work on a session loaded all that the store has of it.
BaseCovers ==
  \A t \in Turns :
    turns[t].holds /\ turns[t].session \notin torn => entries[turns[t].session].turns \subseteq turns[t].base

Histories ==
  {e \in [Sessions -> [kept : {"absent", "fresh", "expired"}, turns : SUBSET Turns]] :
     \A s \in Sessions : e[s].kept = "absent" => e[s].turns = {}}

\* The inductive invariant.
IInv ==
  /\ entries \in Histories
  /\ locks \in [Sessions -> Turns \union {NoLock}]
  /\ turns \in [Turns -> Coroutine]
  /\ \A t \in Turns : Fine(turns[t])
  /\ LocksKept /\ Exclusive /\ BaseCovers
  /\ HistoryKept

-----------------------------------------------------------------------------
(* The steps of a turn by itself *)

\* A step of a turn that takes no lock and adds nothing to a session.
Keeps(r, q) ==
  /\ Fine(q)
  /\ q.saved => r.saved /\ q.session = r.session
  /\ q.at \in Using =>
       /\ r.at \in Using /\ q.session = r.session
       /\ q.lock = r.lock /\ q.holds = r.holds /\ q.base = r.base

LEMMA Buffers ==
  ASSUME NEW b \in Seq(Frames), NEW f \in Frames
  PROVE  /\ Append(b, f) \in Seq(Frames) /\ Append(b, f) # <<>>
         /\ Append(b, f)[Len(Append(b, f))] = f
         /\ \A i \in DOMAIN Append(b, f) : Append(b, f)[i] = f \/ (i \in DOMAIN b /\ Append(b, f)[i] = b[i])
OBVIOUS

LEMMA Tails ==
  ASSUME NEW b \in Seq(Frames), b # <<>>
  PROVE  /\ Tail(b) \in Seq(Frames) /\ Head(b) \in Frames /\ Head(b) = b[1] /\ 1 \in DOMAIN b
         /\ \A i \in DOMAIN Tail(b) : i + 1 \in DOMAIN b /\ Tail(b)[i] = b[i + 1]
         /\ Tail(b) = <<>> => b[Len(b)] = Head(b)
         /\ Tail(b) # <<>> => Tail(b)[Len(Tail(b))] = b[Len(b)]
OBVIOUS

\* A frame of a turn at work.
LEMMA FrameFine ==
  ASSUME NEW r, Fine(r), r.at \notin {"new", "over"}
  PROVE  LET q == Put(r, "frame")
         IN  q = [r EXCEPT !.buffer = q.buffer] /\ Fine(q)
<1> DEFINE q == Put(r, "frame")
<1>1. r \in Coroutine /\ r.buffer \in Seq(Frames) /\ "frame" \in Frames
  BY DEF Fine, Coroutine, Frames
<1>2. CASE r.streamed
  <2> DEFINE b == Append(r.buffer, "frame")
  <2>1. /\ b \in Seq(Frames) /\ b # <<>> /\ b[Len(b)] = "frame"
        /\ \A i \in DOMAIN b : b[i] = "frame" \/ (i \in DOMAIN r.buffer /\ b[i] = r.buffer[i])
    BY <1>1, Buffers
  <2>2. q = [r EXCEPT !.buffer = b]
    BY <1>2 DEF Put
  <2> HIDE DEF b, q
  <2>3. q \in Coroutine /\ q.buffer = b
    BY <1>1, <2>1, <2>2 DEF Coroutine
  <2>4. Fine(q)
    <3>1. /\ q.at = r.at /\ q.session = r.session /\ q.holds = r.holds /\ q.lock = r.lock
          /\ q.batch = r.batch /\ q.saved = r.saved /\ q.got = r.got /\ q.client = r.client
          /\ q.streamed = r.streamed /\ q.muted = r.muted
      BY <1>1, <2>2 DEF Coroutine
    <3>2. Runs(q)
      BY <3>1 DEF Fine, Runs
    <3>3. Tells(q)
      BY <2>1, <2>3, <3>1 DEF Fine, Tells, Last_
    <3> QED
      BY <2>3, <3>2, <3>3 DEF Fine
  <2> QED
    BY <2>2, <2>3, <2>4 DEF q
<1>3. CASE ~r.streamed
  BY <1>1, <1>3 DEF Put, Coroutine
<1> QED
  BY <1>2, <1>3

\* An end without a frame, and one with a frame that tells of it.
LEMMA OverFine ==
  ASSUME NEW r \in Coroutine, NEW f \in Last_,
         r.at \notin {"new", "over"}, r.session \in Sessions, Tells(r), ~r.holds,
         f = "complete" <=> r.saved
  PROVE  LET over == [r EXCEPT !.at = "over"]
             q == IF Room(over) THEN Put(over, f) ELSE [over EXCEPT !.muted = TRUE]
         IN  Fine(q) /\ q.at = "over" /\ q.session = r.session /\ q.saved = r.saved
<1> DEFINE over == [r EXCEPT !.at = "over"]
           q == IF Room(over) THEN Put(over, f) ELSE [over EXCEPT !.muted = TRUE]
<1>1. r.buffer \in Seq(Frames) /\ f \in Frames /\ "over" \in Points
  BY DEF Coroutine, Frames, Last_, Points
<1>2. /\ over \in Coroutine /\ over.at = "over" /\ over.session = r.session /\ over.saved = r.saved
      /\ over.buffer = r.buffer /\ over.client = r.client /\ over.streamed = r.streamed
      /\ over.got = r.got /\ over.muted = r.muted /\ over.holds = r.holds /\ over.lock = r.lock
  BY <1>1 DEF Coroutine
<1> HIDE DEF over
<1>3. \A i \in DOMAIN r.buffer : r.buffer[i] \notin Last_
  BY DEF Tells
<1>4. r.got \notin Last_ /\ (r.client = "reading" => r.streamed) /\ (r.client = "ended" => r.muted)
  BY DEF Tells
<1>5. CASE Room(over) /\ over.streamed
  <2> DEFINE b == Append(r.buffer, f)
  <2>1. /\ b \in Seq(Frames) /\ b # <<>> /\ b[Len(b)] = f
        /\ \A i \in DOMAIN b : b[i] = f \/ (i \in DOMAIN r.buffer /\ b[i] = r.buffer[i])
    BY <1>1, Buffers
  <2>2. q = [over EXCEPT !.buffer = b]
    BY <1>2, <1>5 DEF Put
  <2> HIDE DEF b, q
  <2>3. /\ q \in Coroutine /\ q.buffer = b /\ q.at = "over" /\ q.session = r.session /\ q.saved = r.saved
        /\ q.client = r.client /\ q.streamed = r.streamed /\ q.got = r.got /\ q.muted = r.muted
        /\ q.holds = r.holds /\ q.lock = r.lock
    BY <1>2, <2>1, <2>2 DEF Coroutine
  <2>4. Tells(q)
    BY <1>3, <1>4, <2>1, <2>3 DEF Tells
  <2>5. Runs(q)
    BY <2>3 DEF Runs, Working, Using
  <2> QED
    BY <2>3, <2>4, <2>5 DEF Fine, q, over
<1>6. CASE Room(over) /\ ~over.streamed
  <2>1. q = over
    BY <1>6 DEF Put
  <2>2. Tells(over) /\ Runs(over)
    BY <1>2, <1>3, <1>4, <1>6 DEF Tells, Runs, Working, Using
  <2> QED
    BY <1>2, <2>1, <2>2 DEF Fine, over
<1>7. CASE ~Room(over)
  <2>1. q = [over EXCEPT !.muted = TRUE]
    BY <1>7
  <2> HIDE DEF q
  <2>2. /\ q \in Coroutine /\ q.buffer = r.buffer /\ q.at = "over" /\ q.session = r.session
        /\ q.saved = r.saved /\ q.client = r.client /\ q.streamed = r.streamed /\ q.got = r.got
        /\ q.muted = TRUE /\ q.holds = r.holds /\ q.lock = r.lock
    BY <1>2, <2>1 DEF Coroutine
  <2>3. Tells(q) /\ Runs(q)
    BY <1>3, <1>4, <2>2 DEF Tells, Runs, Working, Using
  <2> QED
    BY <2>2, <2>3 DEF Fine, q, over
<1> QED
  BY <1>5, <1>6, <1>7

LEMMA ReleasedIs ==
  ASSUME NEW r \in Coroutine
  PROVE  LET q == Released(r)
         IN  /\ q \in Coroutine /\ q.lock = NoLock /\ q.holds = FALSE /\ q.base = {}
             /\ q.at = r.at /\ q.session = r.session /\ q.saved = r.saved /\ q.batch = r.batch
             /\ q.buffer = r.buffer /\ q.client = r.client /\ q.streamed = r.streamed
             /\ q.got = r.got /\ q.muted = r.muted
<1> DEFINE q == Released(r)
<1>1. 0 \in 0..MaxTurns /\ 0 \in Nat /\ NoLock \in Turns \union {NoLock} /\ {} \in SUBSET Turns
  BY TurnsAssumption
<1>2. q \in Coroutine
  BY <1>1 DEF Released, Coroutine
<1>3. q.lock = NoLock /\ q.holds = FALSE /\ q.base = {}
  BY DEF Released, Coroutine
<1>4. /\ q.at = r.at /\ q.session = r.session /\ q.saved = r.saved /\ q.batch = r.batch
      /\ q.buffer = r.buffer /\ q.client = r.client /\ q.streamed = r.streamed
      /\ q.got = r.got /\ q.muted = r.muted
  BY DEF Released, Coroutine
<1> QED
  BY <1>2, <1>3, <1>4

\* A turn that fails at work, whatever its batch.
LEMMA FailedFine ==
  ASSUME NEW r \in Coroutine, Tells(r), r.at \in Working, r.session \in Sessions, ~r.saved
  PROVE  Keeps(r, Failed(r))
<1> DEFINE p == [Released(r) EXCEPT !.batch = 0]
           over == [p EXCEPT !.at = "over"]
<1>1. /\ p \in Coroutine /\ p.at = r.at /\ p.session = r.session /\ p.saved = r.saved /\ p.holds = FALSE
      /\ p.buffer = r.buffer /\ p.client = r.client /\ p.streamed = r.streamed
      /\ p.got = r.got /\ p.muted = r.muted
  <2> DEFINE z == Released(r)
  <2>1. /\ z \in Coroutine /\ z.holds = FALSE
        /\ z.at = r.at /\ z.session = r.session /\ z.saved = r.saved
        /\ z.buffer = r.buffer /\ z.client = r.client /\ z.streamed = r.streamed
        /\ z.got = r.got /\ z.muted = r.muted
    BY ReleasedIs
  <2>2. 0 \in Nat /\ p = [z EXCEPT !.batch = 0]
    OBVIOUS
  <2> HIDE DEF z, p
  <2>3. /\ p \in Coroutine /\ p.holds = z.holds
        /\ p.at = z.at /\ p.session = z.session /\ p.saved = z.saved
    BY <2>1, <2>2 DEF Coroutine
  <2>4. /\ p.buffer = z.buffer /\ p.client = z.client /\ p.streamed = z.streamed
        /\ p.got = z.got /\ p.muted = z.muted
    BY <2>1, <2>2 DEF Coroutine
  <2> QED
    BY <2>1, <2>3, <2>4
<1>2. over = [Released(r) EXCEPT !.at = "over", !.batch = 0]
  BY ReleasedIs DEF Coroutine
<1>3. Tells(p)
  BY <1>1 DEF Tells
<1>4. Room(r) <=> Room(over)
  BY <1>1 DEF Room, Coroutine
<1>5. Failed(r) = IF Room(r) THEN Put(over, "error") ELSE [over EXCEPT !.muted = TRUE]
  BY <1>2 DEF Failed
<1>6. Failed(r) = IF Room(over) THEN Put(over, "error") ELSE [over EXCEPT !.muted = TRUE]
  BY <1>4, <1>5
<1> HIDE DEF p
<1> QED
  BY <1>1, <1>3, <1>6, OverFine DEF Keeps, Working, Using, Last_

\* A step that touches neither stream nor outcome needs only the fields of the coroutine.
LEMMA Quiet ==
  ASSUME NEW r, Fine(r), NEW q \in Coroutine, q.at # "over", r.at # "over",
         q.buffer = r.buffer, q.got = r.got, q.client = r.client, q.streamed = r.streamed,
         q.muted = r.muted
  PROVE  Tells(q)
BY DEF Fine, Tells

LEMMA StartFine ==
  ASSUME NEW r, Fine(r), r.at = "new", NEW q \in Coroutine,
         q.at = "opening", q.session \in Sessions, q.client = IF q.streamed THEN "reading" ELSE "none",
         q.buffer = r.buffer, q.got = r.got, q.saved = r.saved, q.holds = r.holds
  PROVE  Keeps(r, q)
<1>1. r.buffer = <<>> /\ r.got = "none" /\ r.saved = FALSE /\ r.holds = FALSE
  BY DEF Fine, Runs, NoTurn
<1>2. (q.client = "reading" => q.streamed) /\ q.client # "ended"
  OBVIOUS
<1>3. Tells(q)
  BY <1>1, <1>2 DEF Tells, Last_
<1>4. Runs(q)
  BY <1>1 DEF Runs, Working, Using
<1> QED
  BY <1>1, <1>3, <1>4 DEF Fine, Keeps, Working, Using

LEMMA OpenFine ==
  ASSUME NEW r, Fine(r), r.at = "opening", NEW l \in Turns
  PROVE  LET q == [Put(r, "frame") EXCEPT !.at = "waiting", !.lock = l]
         IN  /\ Fine(q) /\ q.at = "waiting" /\ q.lock = l /\ q.session = r.session
             /\ q.saved = FALSE /\ r.saved = FALSE /\ q.holds = FALSE /\ r.holds = FALSE
<1> DEFINE p == Put(r, "frame")
           q == [p EXCEPT !.at = "waiting", !.lock = l]
<1>1. p = [r EXCEPT !.buffer = p.buffer] /\ Fine(p) /\ r \in Coroutine
  BY FrameFine DEF Fine
<1>2. p.at = "opening" /\ p.session = r.session /\ p.saved = r.saved /\ p.holds = r.holds /\ p \in Coroutine
  BY <1>1 DEF Coroutine, Fine
<1>3. r.saved = FALSE /\ r.holds = FALSE /\ r.session \in Sessions /\ l # NoLock
  BY <1>1, TurnsAssumption DEF Fine, Runs, Working, Coroutine
<1> HIDE DEF p
<1>4. /\ q \in Coroutine /\ q.at = "waiting" /\ q.lock = l /\ q.session = p.session /\ q.saved = p.saved
      /\ q.holds = p.holds /\ q.buffer = p.buffer /\ q.got = p.got /\ q.client = p.client
      /\ q.streamed = p.streamed /\ q.muted = p.muted
  BY <1>2 DEF Coroutine, Points
<1> HIDE DEF q
<1>5. Tells(q)
  BY <1>1, <1>2, <1>4, Quiet
<1>6. Runs(q)
  BY <1>2, <1>3, <1>4 DEF Runs, Working, Using
<1> QED
  BY <1>2, <1>3, <1>4, <1>5, <1>6 DEF Fine, q, p

LEMMA AcquireFine ==
  ASSUME NEW r, Fine(r), r.at = "waiting", NEW q \in Coroutine,
         q.at = "model", q.lock = r.lock, q.session = r.session, q.saved = r.saved, q.holds = TRUE,
         q.buffer = r.buffer, q.got = r.got, q.client = r.client, q.streamed = r.streamed,
         q.muted = r.muted
  PROVE  Fine(q) /\ q.saved = FALSE
<1>1. r.saved = FALSE /\ r.session \in Sessions /\ r.lock # NoLock
  BY DEF Fine, Runs, Using, Coroutine
<1>2. Tells(q)
  BY Quiet
<1>3. Runs(q)
  BY <1>1 DEF Runs, Working, Using
<1> QED
  BY <1>1, <1>2, <1>3 DEF Fine

\* A step from one place of work to another.
LEMMA WorkFine ==
  ASSUME NEW r, Fine(r), r.at \in Working, NEW at \in Working, NEW batch \in Nat, NEW calls \in Nat,
         NEW steps \in 0..MaxTurns, at \in {"tools", "results"} => batch > 0
  PROVE  Keeps(r, [r EXCEPT !.at = at, !.batch = batch, !.calls = calls, !.steps = steps])
<1> DEFINE q == [r EXCEPT !.at = at, !.batch = batch, !.calls = calls, !.steps = steps]
<1>1. r \in Coroutine /\ r.saved = FALSE /\ r.session \in Sessions /\ r.lock # NoLock /\ r.holds = TRUE
      /\ at \in Points /\ at # "over" /\ r.at # "over"
  BY DEF Fine, Runs, Using, Coroutine, Working, Points
<1>2. /\ q \in Coroutine /\ q.at = at /\ q.lock = r.lock /\ q.session = r.session /\ q.saved = r.saved
      /\ q.holds = r.holds /\ q.buffer = r.buffer /\ q.got = r.got /\ q.client = r.client /\ q.base = r.base
      /\ q.streamed = r.streamed /\ q.muted = r.muted /\ q.batch = batch
  BY <1>1 DEF Coroutine
<1> HIDE DEF q
<1>3. Tells(q)
  BY <1>1, <1>2, Quiet
<1>4. Runs(q)
  BY <1>1, <1>2 DEF Runs, Working, Using
<1>5. Keeps(r, q)
  BY <1>1, <1>2, <1>3, <1>4 DEF Fine, Keeps, Using
<1> QED
  BY <1>5 DEF q

LEMMA EmitFine ==
  ASSUME NEW r, Fine(r), r.at = "yielding"
  PROVE  Keeps(r, [Put(r, "frame") EXCEPT !.at = "model"])
<1> DEFINE p == Put(r, "frame")
<1>1. p = [r EXCEPT !.buffer = p.buffer] /\ Fine(p) /\ r \in Coroutine /\ p \in Coroutine
  BY FrameFine DEF Fine
<1>2. /\ p.at = r.at /\ p.session = r.session /\ p.saved = r.saved
      /\ p.lock = r.lock /\ p.holds = r.holds /\ p.base = r.base
  BY <1>1 DEF Coroutine
<1> HIDE DEF p
<1>3. /\ p.batch \in Nat /\ p.calls \in Nat /\ p.steps \in 0..MaxTurns
      /\ [p EXCEPT !.at = "model"]
         = [p EXCEPT !.at = "model", !.batch = p.batch, !.calls = p.calls, !.steps = p.steps]
  BY <1>1 DEF Coroutine
<1>4. Keeps(p, [p EXCEPT !.at = "model", !.batch = p.batch, !.calls = p.calls, !.steps = p.steps])
  <2>1. p.at \in Working /\ "model" \in Working /\ "model" \notin {"tools", "results"}
    BY <1>2 DEF Working
  <2> QED
    BY <1>1, <1>3, <2>1, WorkFine
<1> QED
  BY <1>2, <1>3, <1>4 DEF Keeps, p, Using, Working

LEMMA ResultFine ==
  ASSUME NEW r, Fine(r), r.at = "results"
  PROVE  LET sent == [Put(r, "frame") EXCEPT !.batch = @ - 1]
         IN  Keeps(r, IF sent.batch > 0 THEN sent
                      ELSE IF r.steps = MaxTurns THEN Failed(sent)
                      ELSE [sent EXCEPT !.at = "model", !.steps = @ + 1])
<1> DEFINE p == Put(r, "frame")
           sent == [p EXCEPT !.batch = @ - 1]
           q == IF sent.batch > 0 THEN sent
                ELSE IF r.steps = MaxTurns THEN Failed(sent)
                ELSE [sent EXCEPT !.at = "model", !.steps = @ + 1]
<1>1. p = [r EXCEPT !.buffer = p.buffer] /\ Fine(p) /\ r \in Coroutine /\ p \in Coroutine
  BY FrameFine DEF Fine
<1>2. /\ p.at = r.at /\ p.session = r.session /\ p.saved = r.saved /\ p.steps = r.steps
      /\ p.lock = r.lock /\ p.holds = r.holds /\ p.base = r.base /\ p.batch = r.batch
  BY <1>1 DEF Coroutine
<1> HIDE DEF p
<1>3. /\ p.batch \in Nat /\ p.calls \in Nat /\ p.steps \in 0..MaxTurns
      /\ p.batch > 0 /\ p.session \in Sessions /\ p.saved = FALSE
  BY <1>1, <1>2 DEF Coroutine, Fine, Runs
<1>w. p.at \in Working /\ p.at = "results" /\ "model" \in Working /\ "model" \notin {"tools", "results"}
  BY <1>2 DEF Working
<1>4. Keeps(p, q)
  <2>1. CASE p.batch - 1 > 0
    <3>1. p.batch - 1 \in Nat
      BY <1>3
    <3>2. q = [p EXCEPT !.at = "results", !.batch = p.batch - 1, !.calls = p.calls, !.steps = p.steps]
      <4>1. sent.batch > 0
        BY <1>1, <2>1 DEF Coroutine
      <4>2. sent = [p EXCEPT !.at = p.at, !.batch = p.batch - 1, !.calls = p.calls, !.steps = p.steps]
        BY <1>1 DEF Coroutine
      <4> HIDE DEF sent
      <4>3. q = sent
        BY <4>1
      <4> QED
        BY <1>w, <4>2, <4>3 DEF sent
    <3>3. Keeps(p, [p EXCEPT !.at = "results", !.batch = p.batch - 1, !.calls = p.calls, !.steps = p.steps])
      BY <1>1, <1>3, <1>w, <2>1, <3>1, WorkFine
    <3> QED
      BY <3>2, <3>3
  <2>2. CASE ~(p.batch - 1 > 0) /\ r.steps = MaxTurns
    <3>1. q = Failed(sent)
      BY <1>1, <2>2 DEF Coroutine
    <3>2. /\ sent \in Coroutine /\ sent.at = p.at /\ sent.session = p.session /\ sent.saved = p.saved
          /\ sent.buffer = p.buffer /\ sent.got = p.got /\ sent.client = p.client
          /\ sent.streamed = p.streamed /\ sent.muted = p.muted /\ sent.lock = p.lock
          /\ sent.holds = p.holds /\ sent.base = p.base
      <4>1. p.batch - 1 \in Nat
        BY <1>3
      <4> QED
        BY <1>1, <4>1 DEF Coroutine
    <3> HIDE DEF sent
    <3>3. Tells(sent)
      BY <1>1, <1>2, <3>2, Quiet
    <3>4. Keeps(sent, Failed(sent))
      BY <1>2, <1>3, <3>2, <3>3, FailedFine DEF Working
    <3> QED
      BY <3>1, <3>2, <3>4 DEF Keeps
  <2>3. CASE ~(p.batch - 1 > 0) /\ r.steps # MaxTurns
    <3>1. p.batch - 1 \in Nat /\ p.steps + 1 \in 0..MaxTurns
      BY <1>2, <1>3, <2>3, TurnsAssumption
    <3>2. q = [p EXCEPT !.at = "model", !.batch = p.batch - 1, !.calls = p.calls, !.steps = p.steps + 1]
      BY <1>1, <2>3 DEF Coroutine
    <3>3. Keeps(p, [p EXCEPT !.at = "model", !.batch = p.batch - 1, !.calls = p.calls, !.steps = p.steps + 1])
      BY <1>1, <1>3, <1>w, <3>1, WorkFine
    <3> QED
      BY <3>2, <3>3
  <2> QED
    BY <2>1, <2>2, <2>3
<1> QED
  BY <1>2, <1>4 DEF Keeps, p

LEMMA AnswerFine ==
  ASSUME NEW r, Fine(r), r.at = "model"
  PROVE  LET q == [Released(r) EXCEPT !.at = "finishing", !.saved = TRUE]
         IN  Fine(q) /\ q.at = "finishing" /\ q.saved = TRUE /\ q.session = r.session /\ q.holds = FALSE
<1> DEFINE p == Released(r)
           q == [p EXCEPT !.at = "finishing", !.saved = TRUE]
<1>1. r \in Coroutine /\ r.session \in Sessions
  BY DEF Fine, Runs
<1>2. /\ p \in Coroutine /\ p.holds = FALSE /\ p.session = r.session
      /\ p.buffer = r.buffer /\ p.client = r.client /\ p.streamed = r.streamed
      /\ p.got = r.got /\ p.muted = r.muted
  BY <1>1, ReleasedIs
<1> HIDE DEF p
<1>3. /\ q \in Coroutine /\ q.at = "finishing" /\ q.saved = TRUE /\ q.holds = FALSE
      /\ q.session = r.session /\ q.buffer = r.buffer /\ q.client = r.client
      /\ q.streamed = r.streamed /\ q.got = r.got /\ q.muted = r.muted
  BY <1>2 DEF Coroutine, Points
<1> HIDE DEF q
<1>4. Tells(q)
  BY <1>3, Quiet
<1>5. Runs(q)
  BY <1>1, <1>3 DEF Runs, Working, Using
<1> QED
  BY <1>3, <1>4, <1>5 DEF Fine, q, p

LEMMA FinishFine ==
  ASSUME NEW r, Fine(r), r.at = "finishing", Room(r)
  PROVE  Keeps(r, [Put(r, "complete") EXCEPT !.at = "over"])
<1> DEFINE over == [r EXCEPT !.at = "over"]
<1>1. r \in Coroutine /\ r.session \in Sessions /\ r.saved = TRUE /\ r.holds = FALSE /\ Tells(r)
  BY DEF Fine, Runs, Working, Coroutine
<1>2. Room(over)
  BY <1>1 DEF Room, Coroutine
<1>3. [Put(r, "complete") EXCEPT !.at = "over"] = Put(over, "complete")
  BY <1>1 DEF Put, Coroutine
<1>4. Fine(Put(over, "complete")) /\ Put(over, "complete").at = "over"
      /\ Put(over, "complete").session = r.session
  BY <1>1, <1>2, OverFine DEF Last_
<1> QED
  BY <1>1, <1>3, <1>4 DEF Keeps, Using, Working

\* The client reads a frame.
LEMMA TakeFine ==
  ASSUME NEW r, Fine(r), r.buffer # <<>>
  PROVE  Keeps(r, [r EXCEPT !.buffer = Tail(@), !.got = IF Head(r.buffer) = "frame" THEN @ ELSE Head(r.buffer)])
<1> DEFINE b == Tail(r.buffer)
           f == Head(r.buffer)
           g == IF f = "frame" THEN r.got ELSE f
           q == [r EXCEPT !.buffer = b, !.got = g]
<1>1. r \in Coroutine /\ r.buffer \in Seq(Frames) /\ r.got \in {"none", "complete", "error"}
  BY DEF Fine, Coroutine
<1>2. /\ b \in Seq(Frames) /\ f \in Frames /\ f = r.buffer[1] /\ 1 \in DOMAIN r.buffer
      /\ \A i \in DOMAIN b : i + 1 \in DOMAIN r.buffer /\ b[i] = r.buffer[i + 1]
      /\ b = <<>> => r.buffer[Len(r.buffer)] = f
      /\ b # <<>> => b[Len(b)] = r.buffer[Len(r.buffer)]
  BY <1>1, Tails
<1>3. /\ g \in {"none", "complete", "error"}
      /\ f \in Last_ => g = f
      /\ f \notin Last_ => g = r.got
  BY <1>1, <1>2 DEF Frames, Last_
<1> HIDE DEF b, f, g
<1>4. /\ q \in Coroutine /\ q.buffer = b /\ q.got = g /\ q.at = r.at /\ q.session = r.session
      /\ q.saved = r.saved /\ q.holds = r.holds /\ q.lock = r.lock /\ q.base = r.base
      /\ q.client = r.client /\ q.streamed = r.streamed /\ q.muted = r.muted /\ q.batch = r.batch
  BY <1>1, <1>2, <1>3 DEF Coroutine
<1> HIDE DEF q
<1>5. r.at # "new"
  BY DEF Fine, Runs, NoTurn
<1>6. Runs(q)
  BY <1>4, <1>5 DEF Fine, Runs
<1>7. Tells(q)
  BY <1>2, <1>3, <1>4 DEF Fine, Tells
<1>8. Keeps(r, q)
  BY <1>4, <1>6, <1>7 DEF Keeps, Fine
<1> QED
  BY <1>8 DEF q, b, f, g

\* The client reads the end of the stream.
LEMMA EndFine ==
  ASSUME NEW r, Fine(r), r.client = "reading", r.at = "over", r.buffer = <<>>
  PROVE  Keeps(r, [r EXCEPT !.client = "ended"])
<1> DEFINE q == [r EXCEPT !.client = "ended"]
<1>1. /\ q \in Coroutine /\ q.client = "ended" /\ q.buffer = r.buffer /\ q.got = r.got /\ q.at = r.at
      /\ q.session = r.session /\ q.saved = r.saved /\ q.holds = r.holds /\ q.lock = r.lock
      /\ q.base = r.base /\ q.streamed = r.streamed /\ q.muted = r.muted /\ q.batch = r.batch
  BY DEF Fine, Coroutine
<1> HIDE DEF q
<1>2. Runs(q) /\ Tells(q)
  BY <1>1 DEF Fine, Runs, Tells
<1>3. Keeps(r, q)
  BY <1>1, <1>2 DEF Keeps, Fine
<1> QED
  BY <1>3 DEF q

\* The client goes away.
LEMMA LeaveFine ==
  ASSUME NEW r, Fine(r), r.client = "reading"
  PROVE  Keeps(r, [Released(r) EXCEPT !.at = "over", !.batch = 0, !.buffer = <<>>, !.client = "gone"])
<1> DEFINE p == Released(r)
           q == [p EXCEPT !.at = "over", !.batch = 0, !.buffer = <<>>, !.client = "gone"]
<1>1. r \in Coroutine /\ r.at # "new" /\ r.session \in Sessions /\ <<>> \in Seq(Frames)
  BY DEF Fine, Runs, NoTurn
<1>2. /\ p \in Coroutine /\ p.holds = FALSE /\ p.session = r.session /\ p.saved = r.saved
      /\ p.got = r.got /\ p.muted = r.muted /\ p.streamed = r.streamed
  BY <1>1, ReleasedIs
<1> HIDE DEF p
<1>3. /\ q \in Coroutine /\ q.at = "over" /\ q.buffer = <<>> /\ q.client = "gone" /\ q.holds = FALSE
      /\ q.session = r.session /\ q.saved = r.saved /\ q.got = r.got
  BY <1>1, <1>2 DEF Coroutine, Points
<1> HIDE DEF q
<1>4. Runs(q)
  BY <1>1, <1>3 DEF Runs, Working, Using
<1>5. Tells(q)
  BY <1>3 DEF Fine, Tells
<1>6. Keeps(r, q)
  BY <1>3, <1>4, <1>5 DEF Keeps, Fine, Using, Working
<1> QED
  BY <1>6 DEF q, p

-----------------------------------------------------------------------------
(* The store *)

\* What the store may do beside adding to the sessions of but: forget sessions whole.
Tidy(but) ==
  /\ entries' \in Histories
  /\ locks' \in [Sessions -> Turns \union {NoLock}]
  /\ forgotten \subseteq forgotten' /\ torn \subseteq torn'
  /\ \A s \in Sessions :
       /\ s \notin but => entries'[s].turns \subseteq entries[s].turns
       /\ s \notin but => entries[s].turns \subseteq entries'[s].turns \union forgotten'
       /\ locks'[s] = locks[s] \/ s \in torn' \/ ~InUse(s)

LEMMA UnchangedTidy ==
  ASSUME IInv, UNCHANGED store
  PROVE  Tidy({})
BY DEF IInv, Tidy, store

LEMMA DropTidy ==
  ASSUME IInv, NEW gone, Drop(gone)
  PROVE  /\ locks' \in [Sessions -> Turns \union {NoLock}]
         /\ forgotten \subseteq forgotten' /\ torn \subseteq torn'
         /\ \A s \in Sessions : locks'[s] = locks[s] \/ s \in torn' \/ ~InUse(s)
         /\ \A s \in gone : entries[s].turns \subseteq forgotten'
<1>1. locks \in [Sessions -> Turns \union {NoLock}]
  BY DEF IInv
<1>2. locks' = [s \in Sessions |-> IF s \in gone THEN NoLock ELSE locks[s]]
  BY DEF Drop
<1>3. \A s \in gone : InUse(s) => s \in torn'
  BY DEF Drop
<1>4. \A s \in gone : entries[s].turns \subseteq forgotten'
  BY DEF Drop
<1>5. forgotten \subseteq forgotten' /\ torn \subseteq torn'
  BY DEF Drop
<1> QED
  BY <1>1, <1>2, <1>3, <1>4, <1>5

LEMMA LoadTidy ==
  ASSUME IInv, NEW s \in Sessions, Load(s)
  PROVE  /\ Tidy({})
         /\ entries[s].kept # "fresh" => entries'[s].turns = {}
<1>1. entries \in Histories
  BY DEF IInv
<1>2. CASE entries[s].kept = "expired"
  <2>1. entries' = [entries EXCEPT ![s] = NoEntry] /\ Drop({s})
    BY <1>2 DEF Load
  <2>2. entries' \in Histories
    BY <1>1, <2>1 DEF Histories, NoEntry
  <2>3. entries'[s].turns = {} /\ \A k \in Sessions \ {s} : entries'[k] = entries[k]
    BY <1>1, <2>1 DEF Histories, NoEntry
  <2> QED
    BY <2>1, <2>2, <2>3, DropTidy DEF Tidy
<1>3. CASE entries[s].kept = "fresh"
  <2>1. UNCHANGED <<entries, locks, forgotten, torn>>
    BY <1>3 DEF Load
  <2> QED
    BY <1>3, <2>1 DEF Tidy, IInv
<1>4. CASE entries[s].kept \notin {"fresh", "expired"}
  <2>1. UNCHANGED store /\ entries[s].kept = "absent"
    BY <1>1, <1>4 DEF Load, Histories
  <2>2. entries'[s].turns = {}
    BY <1>1, <2>1 DEF store, Histories
  <2> QED
    BY <2>1, <2>2, UnchangedTidy
<1> QED
  BY <1>2, <1>3, <1>4

LEMMA SaveTidy ==
  ASSUME IInv, NEW s \in Sessions, NEW history \in SUBSET Turns, Save(s, history)
  PROVE  Tidy({s}) /\ entries'[s].turns = history
<1> DEFINE used == Append(Without(s), s)
           gone == IF Len(used) > MaxSessions THEN {Head(used)} ELSE {}
<1>1. entries \in Histories
  BY DEF IInv
<1>2. /\ Drop(gone)
      /\ entries' = [k \in Sessions |->
           IF k = s THEN [kept |-> "fresh", turns |-> history]
           ELSE IF k \in gone THEN NoEntry ELSE entries[k]]
  BY DEF Save
<1> HIDE DEF gone
<1>3. entries' \in Histories
  BY <1>1, <1>2 DEF Histories, NoEntry
<1>4. /\ entries'[s].turns = history
      /\ \A k \in Sessions \ {s} : IF k \in gone THEN entries'[k].turns = {} ELSE entries'[k] = entries[k]
  BY <1>2 DEF NoEntry
<1>5. /\ locks' \in [Sessions -> Turns \union {NoLock}]
      /\ forgotten \subseteq forgotten' /\ torn \subseteq torn'
      /\ \A k \in Sessions : locks'[k] = locks[k] \/ k \in torn' \/ ~InUse(k)
      /\ \A k \in gone : entries[k].turns \subseteq forgotten'
  BY <1>2, DropTidy
<1> QED
  BY <1>3, <1>4, <1>5 DEF Tidy

-----------------------------------------------------------------------------
(* The steps *)

\* The lock a turn of a session that kept its lock holds or waits for is in use.
LEMMA UsingKnown ==
  ASSUME IInv, NEW t \in Turns, turns[t].at \in Using
  PROVE  /\ turns[t].session \in Sessions /\ turns[t].lock \in Turns
         /\ turns[t].session \notin torn => turns[t].lock = locks[turns[t].session] /\ InUse(turns[t].session)
<1>1. Fine(turns[t])
  BY DEF IInv
<1>2. turns[t].session \in Sessions /\ turns[t].lock # NoLock /\ turns[t].lock \in Turns
  BY <1>1 DEF Fine, Runs, Coroutine, Using, Working
<1> QED
  BY <1>2 DEF IInv, LocksKept, InUse

\* Turns that take no lock, and a store that adds to no session a turn is about.
LEMMA StepSafe ==
  ASSUME IInv, NEW but, Tidy(but), \A t \in Turns : turns[t].session \notin but,
         turns' \in [Turns -> Coroutine], \A t \in Turns : Keeps(turns[t], turns'[t])
  PROVE  IInv'
<1>1. \A t \in Turns : Fine(turns'[t])
  BY DEF Keeps
<1>2. LocksKept'
  <2> SUFFICES ASSUME NEW t \in Turns, turns'[t].at \in Using, turns'[t].session \notin torn'
               PROVE  turns'[t].lock = locks'[turns'[t].session]
    BY DEF LocksKept, Using, Working
  <2>1. turns[t].at \in Using /\ turns'[t].session = turns[t].session /\ turns'[t].lock = turns[t].lock
    BY DEF Keeps
  <2> QED
    BY <2>1, UsingKnown DEF Tidy
<1>3. Exclusive'
  <2> SUFFICES ASSUME NEW t \in Turns, NEW u \in Turns, turns'[t].holds, turns'[u].holds,
                      turns'[t].lock = turns'[u].lock
               PROVE  t = u
    BY DEF Exclusive
  <2>1. turns'[t].at \in Using /\ turns'[u].at \in Using
    BY <1>1 DEF Fine, Runs, Using
  <2> QED
    BY <2>1 DEF Keeps, IInv, Exclusive
<1>4. BaseCovers'
  <2> SUFFICES ASSUME NEW t \in Turns, turns'[t].holds, turns'[t].session \notin torn'
               PROVE  entries'[turns'[t].session].turns \subseteq turns'[t].base
    BY DEF BaseCovers
  <2>1. turns'[t].at \in Using
    BY <1>1 DEF Fine, Runs, Using
  <2>2. /\ turns'[t].session = turns[t].session /\ turns[t].holds /\ turns'[t].base = turns[t].base
        /\ turns[t].session \in Sessions /\ turns[t].session \notin torn
    BY <2>1, UsingKnown DEF Keeps, Tidy
  <2> QED
    BY <2>2 DEF Tidy, IInv, BaseCovers
<1>5. HistoryKept'
  <2> SUFFICES ASSUME NEW t \in Turns, turns'[t].saved, turns'[t].session \notin torn'
               PROVE  t \in entries'[turns'[t].session].turns \/ t \in forgotten'
    BY DEF HistoryKept, Kept
  <2>1. turns[t].saved /\ turns'[t].session = turns[t].session /\ turns[t].session \notin torn
    BY DEF Keeps, Tidy
  <2>2. turns[t].session \in Sessions
    BY <2>1 DEF IInv, Fine, Runs
  <2> QED
    BY <2>1, <2>2 DEF Tidy, IInv, HistoryKept, Kept
<1> QED
  BY <1>1, <1>2, <1>3, <1>4, <1>5 DEF IInv, Tidy

LEMMA KeepsItself ==
  ASSUME NEW r, Fine(r)
  PROVE  Keeps(r, r)
BY DEF Keeps

\* One turn takes such a step.
LEMMA TurnSafe ==
  ASSUME IInv, NEW t \in Turns, NEW q, Goes(t, q), Keeps(turns[t], q), Tidy({})
  PROVE  IInv'
<1>1. turns \in [Turns -> Coroutine] /\ q \in Coroutine
  BY DEF IInv, Keeps, Fine
<1>2. turns' = [turns EXCEPT ![t] = q]
  BY DEF Goes
<1>3. turns' \in [Turns -> Coroutine] /\ turns'[t] = q /\ \A u \in Turns \ {t} : turns'[u] = turns[u]
  BY <1>1, <1>2
<1>4. \A u \in Turns : Keeps(turns[u], turns'[u])
  BY <1>3, KeepsItself DEF IInv
<1> QED
  BY <1>3, <1>4, StepSafe

LEMMA OthersSafe ==
  ASSUME IInv, UNCHANGED turns, NEW but, Tidy(but), \A t \in Turns : turns[t].session \notin but
  PROVE  IInv'
<1>1. turns' \in [Turns -> Coroutine]
  BY DEF IInv
<1>2. \A u \in Turns : Keeps(turns[u], turns'[u])
  BY KeepsItself DEF IInv
<1> QED
  BY <1>1, <1>2, StepSafe

LEMMA ResolveSafe ==
  ASSUME IInv, NEW t \in Turns, Resolve(t)
  PROVE  IInv'
<1>1. Tidy({})
  <2>1. CASE UNCHANGED store
    BY <2>1, UnchangedTidy
  <2>2. CASE \E s \in Anonymous : Load(s)
    BY <2>2, LoadTidy, TurnsAssumption
  <2> QED
    BY <2>1, <2>2 DEF Resolve
<1>2. PICK s \in Sessions : Starts(t, s)
  BY TurnsAssumption DEF Resolve
<1>3. PICK streamed \in BOOLEAN :
        Goes(t, [turns[t] EXCEPT !.at = "opening", !.session = s, !.streamed = streamed,
                                 !.client = IF streamed THEN "reading" ELSE "none"])
  BY <1>2 DEF Starts
<1> DEFINE q == [turns[t] EXCEPT !.at = "opening", !.session = s, !.streamed = streamed,
                                 !.client = IF streamed THEN "reading" ELSE "none"]
<1>4. Fine(turns[t]) /\ turns[t].at = "new"
  BY DEF IInv, Resolve
<1>5. /\ turns[t] \in Coroutine /\ "opening" \in Points
      /\ (IF streamed THEN "reading" ELSE "none") \in {"none", "reading", "ended", "gone"}
  BY <1>4 DEF Fine, Points
<1>6. /\ q \in Coroutine /\ q.at = "opening" /\ q.session = s
      /\ q.streamed = streamed /\ q.client = IF streamed THEN "reading" ELSE "none"
      /\ q.buffer = turns[t].buffer /\ q.got = turns[t].got
      /\ q.saved = turns[t].saved /\ q.holds = turns[t].holds
  BY <1>5 DEF Coroutine
<1> HIDE DEF q
<1>7. Keeps(turns[t], q)
  BY <1>4, <1>6, StartFine
<1> QED
  BY <1>1, <1>3, <1>7, TurnSafe DEF q

LEMMA OpenSafe ==
  ASSUME IInv, NEW t \in Turns, Open(t)
  PROVE  IInv'
<1> DEFINE s == turns[t].session
           lock == IF locks[s] = NoLock THEN t ELSE locks[s]
           q == [Put(turns[t], "frame") EXCEPT !.at = "waiting", !.lock = lock]
<1>1. Fine(turns[t]) /\ turns[t].at = "opening" /\ turns \in [Turns -> Coroutine]
  BY DEF IInv, Open
<1>2. s \in Sessions /\ lock \in Turns /\ locks \in [Sessions -> Turns \union {NoLock}]
  BY <1>1 DEF IInv, Fine, Runs
<1>3. /\ locks' = [locks EXCEPT ![s] = lock] /\ turns' = [turns EXCEPT ![t] = q]
      /\ UNCHANGED <<entries, order, forgotten, torn>>
  BY DEF Open, Goes
<1>4. locks[s] # NoLock => lock = locks[s]
  OBVIOUS
<1> HIDE DEF lock
<1>5. /\ Fine(q) /\ q.at = "waiting" /\ q.lock = lock /\ q.session = s
      /\ q.saved = FALSE /\ q.holds = FALSE
  <2>1. /\ Fine(turns[t]) /\ turns[t].at = "opening" /\ lock \in Turns
    BY <1>1, <1>2
  <2> QED
    BY <2>1, OpenFine, ZenonT(60)
<1> HIDE DEF q
<1>6. q \in Coroutine
  BY <1>5 DEF Fine
<1>7. /\ turns' \in [Turns -> Coroutine] /\ turns'[t] = q
      /\ \A u \in Turns \ {t} : turns'[u] = turns[u]
      /\ locks' \in [Sessions -> Turns \union {NoLock}] /\ locks'[s] = lock
      /\ \A k \in Sessions \ {s} : locks'[k] = locks[k]
  BY <1>1, <1>2, <1>3, <1>6
<1>8. \A u \in Turns : Fine(turns'[u])
  BY <1>5, <1>7 DEF IInv
<1>9. LocksKept'
  <2> SUFFICES ASSUME NEW u \in Turns, turns'[u].at \in Using, turns'[u].session \notin torn'
               PROVE  turns'[u].lock = locks'[turns'[u].session]
    BY DEF LocksKept, Using, Working
  <2>1. CASE u = t
    BY <1>5, <1>7, <2>1
  <2>2. CASE u # t
    <3>1. /\ turns[u].lock = locks[turns[u].session] /\ turns[u].lock \in Turns
          /\ turns[u].session \in Sessions
      BY <1>3, <1>7, <2>2, UsingKnown
    <3>2. turns[u].lock # NoLock
      BY <3>1, TurnsAssumption
    <3> QED
      BY <1>4, <1>7, <2>2, <3>1, <3>2
  <2> QED
    BY <2>1, <2>2
<1>10. Exclusive'
  BY <1>5, <1>7 DEF IInv, Exclusive
<1>11. BaseCovers'
  BY <1>3, <1>5, <1>7 DEF IInv, BaseCovers
<1>12. HistoryKept'
  BY <1>3, <1>5, <1>7 DEF IInv, HistoryKept, Kept
<1> QED
  BY <1>3, <1>7, <1>8, <1>9, <1>10, <1>11, <1>12 DEF IInv

LEMMA AcquireSafe ==
  ASSUME IInv, NEW t \in Turns, Acquire(t)
  PROVE  IInv'
<1> DEFINE s == turns[t].session
           base == IF entries[s].kept = "fresh" THEN entries[s].turns ELSE {}
           q == [turns[t] EXCEPT !.at = "model", !.holds = TRUE, !.steps = 1, !.base = base]
<1>1. Fine(turns[t]) /\ turns[t].at = "waiting" /\ turns \in [Turns -> Coroutine] /\ LockFree(t)
  BY DEF IInv, Acquire
<1>2. s \in Sessions /\ turns[t].at \in Using
  BY <1>1 DEF Fine, Runs, Using
<1>3. Load(s) /\ turns' = [turns EXCEPT ![t] = q]
  BY DEF Acquire, Goes
<1>4. Tidy({}) /\ (entries[s].kept # "fresh" => entries'[s].turns = {})
  BY <1>2, <1>3, LoadTidy
<1>5. base \in SUBSET Turns /\ entries'[s].turns \subseteq base
  BY <1>2, <1>4 DEF IInv, Histories, Tidy
<1> HIDE DEF base
<1>6. /\ Fine(q) /\ q.at = "model" /\ q.lock = turns[t].lock /\ q.session = s
      /\ q.saved = FALSE /\ q.base = base /\ q.holds
  <2>1. 1 \in 0..MaxTurns /\ "model" \in Points /\ turns[t] \in Coroutine
    BY <1>1, TurnsAssumption DEF Points, Fine
  <2> HIDE DEF s
  <2>2. /\ q \in Coroutine /\ q.at = "model" /\ q.lock = turns[t].lock /\ q.session = turns[t].session
        /\ q.saved = turns[t].saved /\ q.holds = TRUE /\ q.base = base
        /\ q.buffer = turns[t].buffer /\ q.got = turns[t].got /\ q.client = turns[t].client
        /\ q.streamed = turns[t].streamed /\ q.muted = turns[t].muted
    BY <1>5, <2>1 DEF Coroutine
  <2> HIDE DEF q
  <2>3. Fine(q) /\ q.saved = FALSE
    BY <1>1, <2>2, AcquireFine
  <2> QED
    BY <2>2, <2>3 DEF s
<1> HIDE DEF q
<1>7. q \in Coroutine
  BY <1>6 DEF Fine
<1>8. turns' \in [Turns -> Coroutine] /\ turns'[t] = q /\ \A u \in Turns \ {t} : turns'[u] = turns[u]
  BY <1>1, <1>3, <1>7
<1>9. \A u \in Turns : Fine(turns'[u])
  BY <1>6, <1>8 DEF IInv
<1>10. LocksKept'
  <2> SUFFICES ASSUME NEW u \in Turns, turns'[u].at \in Using, turns'[u].session \notin torn'
               PROVE  turns'[u].lock = locks'[turns'[u].session]
    BY DEF LocksKept, Using, Working
  <2>1. turns[u].at \in Using /\ turns'[u].session = turns[u].session /\ turns'[u].lock = turns[u].lock
    BY <1>2, <1>6, <1>8
  <2> QED
    BY <1>4, <2>1, UsingKnown DEF Tidy
<1>11. Exclusive'
  BY <1>1, <1>6, <1>8 DEF IInv, Exclusive, LockFree
<1>12. BaseCovers'
  <2> SUFFICES ASSUME NEW u \in Turns, turns'[u].holds, turns'[u].session \notin torn'
               PROVE  entries'[turns'[u].session].turns \subseteq turns'[u].base
    BY DEF BaseCovers
  <2>1. CASE u = t
    BY <1>5, <1>6, <1>8, <2>1
  <2>2. CASE u # t
    <3>1. turns[u].holds /\ turns[u].at \in Using /\ turns'[u] = turns[u]
      BY <1>8, <2>2 DEF IInv, Fine, Runs, Using
    <3>2. turns[u].session \in Sessions /\ turns[u].session \notin torn
      BY <1>4, <3>1, UsingKnown DEF Tidy
    <3> QED
      BY <1>4, <3>1, <3>2 DEF Tidy, IInv, BaseCovers
  <2> QED
    BY <2>1, <2>2
<1>13. HistoryKept'
  <2> SUFFICES ASSUME NEW u \in Turns, turns'[u].saved, turns'[u].session \notin torn'
               PROVE  u \in entries'[turns'[u].session].turns \/ u \in forgotten'
    BY DEF HistoryKept, Kept
  <2>1. turns[u].saved /\ turns'[u] = turns[u] /\ turns[u].session \notin torn
    BY <1>4, <1>6, <1>8 DEF Tidy
  <2>2. turns[u].session \in Sessions
    BY <2>1 DEF IInv, Fine, Runs
  <2> QED
    BY <1>4, <2>1, <2>2 DEF Tidy, IInv, HistoryKept, Kept
<1> QED
  BY <1>4, <1>8, <1>9, <1>10, <1>11, <1>12, <1>13 DEF IInv, Tidy

\* The save writes all that the store had of the session, and the turn itself.
LEMMA AnswerSafe ==
  ASSUME IInv, NEW t \in Turns, Answer(t)
  PROVE  IInv'
<1> DEFINE s == turns[t].session
           history == turns[t].base \union {t}
           q == [Released(turns[t]) EXCEPT !.at = "finishing", !.saved = TRUE]
<1>1. Fine(turns[t]) /\ turns[t].at = "model" /\ turns \in [Turns -> Coroutine]
  BY DEF IInv, Answer
<1>2. s \in Sessions /\ history \in SUBSET Turns /\ turns[t].holds /\ turns[t].at \in Using
  BY <1>1 DEF Fine, Runs, Coroutine, Using, Working
<1>3. Save(s, history) /\ turns' = [turns EXCEPT ![t] = q]
  BY DEF Answer, Goes
<1>4. Tidy({s}) /\ entries'[s].turns = history
  BY <1>2, <1>3, SaveTidy
<1>5. Fine(q) /\ q.at = "finishing" /\ q.saved = TRUE /\ q.session = s /\ q.holds = FALSE
  BY <1>1, AnswerFine
<1> HIDE DEF q
<1>6. q \in Coroutine
  BY <1>5 DEF Fine
<1>7. turns' \in [Turns -> Coroutine] /\ turns'[t] = q /\ \A u \in Turns \ {t} : turns'[u] = turns[u]
  BY <1>1, <1>3, <1>6
<1>8. \A u \in Turns : Fine(turns'[u])
  BY <1>5, <1>7 DEF IInv
<1>9. \A u \in Turns : turns'[u].at \in Using => u # t /\ turns'[u] = turns[u]
  BY <1>5, <1>7 DEF Using, Working
<1>10. LocksKept'
  <2> SUFFICES ASSUME NEW u \in Turns, turns'[u].at \in Using, turns'[u].session \notin torn'
               PROVE  turns'[u].lock = locks'[turns'[u].session]
    BY DEF LocksKept, Using, Working
  <2> QED
    BY <1>4, <1>9, UsingKnown DEF Tidy
<1>11. Exclusive'
  <2>1. \A u \in Turns : turns'[u].holds => turns'[u] = turns[u]
    BY <1>5, <1>7
  <2> QED
    BY <2>1 DEF IInv, Exclusive
<1>12. BaseCovers'
  <2> SUFFICES ASSUME NEW u \in Turns, turns'[u].holds, turns'[u].session \notin torn'
               PROVE  entries'[turns'[u].session].turns \subseteq turns'[u].base
    BY DEF BaseCovers
  <2>1. u # t /\ turns'[u] = turns[u] /\ turns[u].holds /\ turns[u].at \in Using
    BY <1>5, <1>7 DEF IInv, Fine, Runs, Using
  <2>2. turns[u].session \in Sessions /\ turns[u].session \notin torn
    BY <1>4, <2>1, UsingKnown DEF Tidy
  <2>3. turns[u].session # s
    <3> SUFFICES ASSUME turns[u].session = s
                 PROVE  FALSE
      OBVIOUS
    <3>1. turns[u].lock = turns[t].lock
      BY <1>2, <2>1, <2>2, UsingKnown
    <3> QED
      BY <1>2, <2>1, <3>1 DEF IInv, Exclusive
  <2> QED
    BY <1>4, <2>1, <2>2, <2>3 DEF Tidy, IInv, BaseCovers
<1>13. HistoryKept'
  <2> SUFFICES ASSUME NEW u \in Turns, turns'[u].saved, turns'[u].session \notin torn'
               PROVE  u \in entries'[turns'[u].session].turns \/ u \in forgotten'
    BY DEF HistoryKept, Kept
  <2>1. CASE u = t
    BY <1>4, <1>5, <1>7, <2>1
  <2>2. CASE u # t
    <3>1. turns[u].saved /\ turns'[u] = turns[u] /\ turns[u].session \notin torn
      BY <1>4, <1>7, <2>2 DEF Tidy
    <3>2. turns[u].session \in Sessions /\ (u \in entries[turns[u].session].turns \/ u \in forgotten)
      BY <3>1 DEF IInv, Fine, Runs, HistoryKept, Kept
    <3>3. turns[u].session = s => entries[s].turns \subseteq history
      BY <1>2, <3>1 DEF IInv, BaseCovers
    <3> QED
      BY <1>4, <3>1, <3>2, <3>3 DEF Tidy
  <2> QED
    BY <2>1, <2>2
<1> QED
  BY <1>4, <1>7, <1>8, <1>10, <1>11, <1>12, <1>13 DEF IInv, Tidy

\* Every other step of a turn or of its client.
LEMMA WorkSafe ==
  ASSUME IInv, NEW t \in Turns,
         Yield(t) \/ Emit(t) \/ Batch(t) \/ ToolsReturn(t) \/ EmitResult(t) \/ Fails(t) \/ Finish(t)
  PROVE  IInv'
<1> DEFINE r == turns[t]
<1>1. Fine(r) /\ r \in Coroutine
  BY DEF IInv, Fine
<1>2. Tidy({})
  <2>1. UNCHANGED store
    BY DEF Yield, Emit, Batch, ToolsReturn, EmitResult, Fails, Finish
  <2> QED
    BY <2>1, UnchangedTidy
<1>3. SUFFICES \E q : Goes(t, q) /\ Keeps(r, q)
  BY <1>2, TurnSafe
<1>4. /\ r.batch \in Nat /\ r.calls \in Nat /\ r.steps \in 0..MaxTurns
  BY <1>1 DEF Coroutine
<1>5. ASSUME r.at \in Working
      PROVE  Keeps(r, Failed(r))
  <2>1. Tells(r) /\ r.session \in Sessions /\ ~r.saved
    BY <1>1, <1>5 DEF Fine, Runs, Working
  <2> QED
    BY <1>1, <1>5, <2>1, FailedFine
<1>6. CASE Yield(t)
  <2>1. PICK call \in {0, 1} : Goes(t, [r EXCEPT !.at = "yielding", !.batch = @ + call])
    BY <1>6 DEF Yield
  <2>2. r.at = "model" /\ r.batch + call \in Nat
    BY <1>4, <1>6 DEF Yield
  <2>3. [r EXCEPT !.at = "yielding", !.batch = @ + call]
        = [r EXCEPT !.at = "yielding", !.batch = r.batch + call, !.calls = r.calls, !.steps = r.steps]
    BY <1>1 DEF Coroutine
  <2>4. "yielding" \in Working /\ r.at \in Working /\ "yielding" \notin {"tools", "results"}
    BY <2>2 DEF Working
  <2>5. Keeps(r, [r EXCEPT !.at = "yielding", !.batch = r.batch + call, !.calls = r.calls, !.steps = r.steps])
    BY <1>1, <1>4, <2>2, <2>4, WorkFine
  <2> QED
    BY <2>1, <2>3, <2>5
<1>7. CASE Emit(t)
  BY <1>1, <1>7, EmitFine DEF Emit
<1>8. CASE Batch(t)
  <2> DEFINE total == r.calls + r.batch
  <2>1. r.at \in Working /\ r.at = "model" /\ r.batch > 0 /\ "tools" \in Working
    BY <1>8 DEF Batch, Working
  <2>2. CASE total > MaxToolCalls
    BY <1>5, <1>8, <2>1, <2>2 DEF Batch
  <2>3. CASE ~(total > MaxToolCalls)
    <3>1. total \in Nat
      BY <1>4
    <3>2. [r EXCEPT !.at = "tools", !.calls = total]
          = [r EXCEPT !.at = "tools", !.batch = r.batch, !.calls = total, !.steps = r.steps]
      BY <1>1 DEF Coroutine
    <3>3. Keeps(r, [r EXCEPT !.at = "tools", !.batch = r.batch, !.calls = total, !.steps = r.steps])
      BY <1>1, <1>4, <2>1, <3>1, WorkFine
    <3>4. Goes(t, [r EXCEPT !.at = "tools", !.calls = total])
      BY <1>8, <2>3 DEF Batch
    <3> QED
      BY <3>2, <3>3, <3>4
  <2> QED
    BY <2>2, <2>3
<1>9. CASE ToolsReturn(t)
  <2>1. PICK transfer \in {0, 1} : Goes(t, [r EXCEPT !.at = "results", !.batch = @ + transfer])
    BY <1>9 DEF ToolsReturn
  <2>2. r.at = "tools" /\ r.batch > 0
    BY <1>1, <1>9 DEF ToolsReturn, Fine, Runs
  <2>3. r.batch + transfer \in Nat /\ r.batch + transfer > 0
    BY <1>4, <2>2
  <2>4. [r EXCEPT !.at = "results", !.batch = @ + transfer]
        = [r EXCEPT !.at = "results", !.batch = r.batch + transfer, !.calls = r.calls, !.steps = r.steps]
    BY <1>1 DEF Coroutine
  <2>5. "results" \in Working /\ r.at \in Working
    BY <2>2 DEF Working
  <2>6. Keeps(r, [r EXCEPT !.at = "results", !.batch = r.batch + transfer, !.calls = r.calls, !.steps = r.steps])
    BY <1>1, <1>4, <2>3, <2>5, WorkFine
  <2> QED
    BY <2>1, <2>4, <2>6
<1>10. CASE EmitResult(t)
  BY <1>1, <1>10, ResultFine DEF EmitResult
<1>11. CASE Fails(t)
  BY <1>5, <1>11 DEF Fails, Working
<1>12. CASE Finish(t)
  BY <1>1, <1>12, FinishFine DEF Finish
<1> QED
  BY <1>6, <1>7, <1>8, <1>9, <1>10, <1>11, <1>12

LEMMA ClientSafe ==
  ASSUME IInv, NEW t \in Turns, Take(t) \/ EndOfStream(t) \/ Leave(t)
  PROVE  IInv'
<1>1. Fine(turns[t])
  BY DEF IInv
<1>2. Tidy({})
  <2>1. UNCHANGED store
    BY DEF Take, EndOfStream, Leave
  <2> QED
    BY <2>1, UnchangedTidy
<1>3. CASE Take(t)
  BY <1>1, <1>2, <1>3, TakeFine, TurnSafe DEF Take
<1>4. CASE EndOfStream(t)
  BY <1>1, <1>2, <1>4, EndFine, TurnSafe DEF EndOfStream
<1>5. CASE Leave(t)
  BY <1>1, <1>2, <1>5, LeaveFine, TurnSafe DEF Leave
<1> QED
  BY <1>3, <1>4, <1>5

LEMMA SessionSafe ==
  ASSUME IInv, NEW s \in Sessions, Expire(s) \/ GetHistory(s) \/ Elsewhere(s)
  PROVE  IInv'
<1>1. CASE Expire(s)
  <2>1. entries \in Histories /\ entries' = [entries EXCEPT ![s].kept = "expired"]
    BY <1>1 DEF IInv, Expire
  <2>2. entries' \in Histories /\ \A k \in Sessions : entries'[k].turns = entries[k].turns
    BY <2>1 DEF Histories
  <2>3. Tidy({}) /\ UNCHANGED turns
    BY <1>1, <2>2 DEF Expire, Tidy, IInv
  <2> QED
    BY <2>3, OthersSafe
<1>2. CASE GetHistory(s)
  BY <1>2, LoadTidy, OthersSafe DEF GetHistory
<1>3. CASE Elsewhere(s)
  <2>1. Tidy({s}) /\ UNCHANGED turns /\ \A t \in Turns : turns[t].session \notin {s}
    BY <1>3, SaveTidy DEF Elsewhere, Unused
  <2> QED
    BY <2>1, OthersSafe
<1> QED
  BY <1>1, <1>2, <1>3

LEMMA InitSafe == Init => IInv
<1> SUFFICES ASSUME Init
             PROVE  IInv
  OBVIOUS
<1>1. entries \in Histories /\ \A s \in Sessions : entries[s].turns = {}
  BY DEF Init, Histories, NoEntry
<1>2. NoTurn \in Coroutine
  <2>1. <<>> \in Seq(Frames) /\ 0 \in 0..MaxTurns
    BY TurnsAssumption
  <2> QED
    BY <2>1 DEF NoTurn, Coroutine, Points
<1>3. /\ NoTurn.at = "new" /\ NoTurn.holds = FALSE /\ NoTurn.saved = FALSE /\ NoTurn.buffer = <<>>
      /\ NoTurn.got = "none" /\ NoTurn.client = "none"
  BY DEF NoTurn
<1>4. Fine(NoTurn)
  BY <1>2, <1>3 DEF Fine, Runs, Tells, Working, Using, Last_
<1>5. locks \in [Sessions -> Turns \union {NoLock}] /\ turns = [t \in Turns |-> NoTurn]
  BY DEF Init
<1>6. LocksKept /\ Exclusive /\ BaseCovers /\ HistoryKept
  BY <1>3, <1>5 DEF LocksKept, Exclusive, BaseCovers, HistoryKept, Using, Working
<1> QED
  BY <1>1, <1>2, <1>4, <1>5, <1>6 DEF IInv

LEMMA StutterSafe ==
  ASSUME IInv, UNCHANGED vars
  PROVE  IInv'
BY UnchangedTidy, OthersSafe DEF vars

\* The inductive invariant holds of every behaviour (agent/runtime.py, agent/sessions.py).
THEOREM Invariance == Spec => []IInv
<1>1. ASSUME IInv, [Next]_vars
      PROVE  IInv'
  <2>1. CASE \E t \in Turns : Turn(t) \/ Client(t) \/ Leave(t)
    BY <1>1, <2>1, ResolveSafe, OpenSafe, AcquireSafe, AnswerSafe, WorkSafe, ClientSafe
    DEF Turn, Client, Settles
  <2>2. CASE \E s \in Sessions : Expire(s) \/ GetHistory(s) \/ Elsewhere(s)
    BY <1>1, <2>2, SessionSafe
  <2>3. CASE UNCHANGED vars \/ Rest
    BY <1>1, <2>3, StutterSafe DEF Rest
  <2> QED
    BY <1>1, <2>1, <2>2, <2>3 DEF Next
<1> QED
  BY <1>1, InitSafe, PTL DEF Spec

\* What a finished turn added to its session stays there until the session expires or is
\* evicted, in every session that did not lose its lock (agent/sessions.py).
THEOREM Serialized == Spec => []HistoryKept
<1>1. IInv => HistoryKept
  BY DEF IInv
<1> QED
  BY <1>1, Invariance, PTL

\* A stream tells of the outcome of its turn, and of that outcome only (agent/runtime.py).
THEOREM Told == Spec => []ToldTheOutcome
<1>1. IInv => ToldTheOutcome
  BY DEF IInv, Fine, Tells, ToldTheOutcome, Last_
<1> QED
  BY <1>1, Invariance, PTL

-----------------------------------------------------------------------------
(* The order of the store's sessions *)

Distinct(o) == o \in Seq(Sessions) /\ \A i, j \in DOMAIN o : o[i] = o[j] => i = j
Held(o) == {o[i] : i \in DOMAIN o}

Ordered ==
  /\ Distinct(order) /\ Len(order) <= MaxSessions
  /\ Held(order) = {s \in Sessions : entries[s].kept # "absent"}

LEMMA Shift ==
  ASSUME NEW n \in Nat, NEW i \in 1..n, NEW j \in 1..(n - 1), ~(j < i)
  PROVE  j - (i - 1) \in 1..(n - i) /\ j = (i - 1) + (j - (i - 1)) /\ j \in 1..((i - 1) + (n - i))
OBVIOUS

LEMMA RemoveAtIs ==
  ASSUME NEW o \in Seq(Sessions), NEW i \in DOMAIN o
  PROVE  /\ RemoveAt(o, i) \in Seq(Sessions) /\ Len(RemoveAt(o, i)) = Len(o) - 1
         /\ \A j \in 1..(Len(o) - 1) : RemoveAt(o, i)[j] = IF j < i THEN o[j] ELSE o[j + 1]
<1> DEFINE a == SubSeq(o, 1, i - 1)
           b == SubSeq(o, i + 1, Len(o))
<1>1. i \in 1..Len(o) /\ Len(o) \in Nat
  OBVIOUS
<1>2. a \in Seq(Sessions) /\ Len(a) = i - 1 /\ \A j \in 1..(i - 1) : a[j] = o[j]
  BY <1>1
<1>3. b \in Seq(Sessions) /\ Len(b) = Len(o) - i /\ \A j \in 1..(Len(o) - i) : b[j] = o[j + i]
  BY <1>1
<1>4. RemoveAt(o, i) = a \o b
  BY DEF RemoveAt
<1> HIDE DEF a, b
<1>5. a \o b \in Seq(Sessions) /\ Len(a \o b) = Len(o) - 1
  BY <1>1, <1>2, <1>3
<1>6. \A j \in 1..(Len(o) - 1) : (a \o b)[j] = IF j < i THEN o[j] ELSE o[j + 1]
  <2> SUFFICES ASSUME NEW j \in 1..(Len(o) - 1)
               PROVE  (a \o b)[j] = IF j < i THEN o[j] ELSE o[j + 1]
    OBVIOUS
  <2>1. CASE j < i
    BY <1>1, <1>2, <1>3, <2>1
  <2>2. CASE ~(j < i)
    <3>1. (a \o b)[j] = b[j - (i - 1)] /\ j - (i - 1) \in 1..(Len(o) - i)
      <4>1. j - (i - 1) \in 1..(Len(o) - i) /\ j = (i - 1) + (j - (i - 1)) /\ j \in 1..(Len(a) + Len(b))
        BY <1>1, <1>2, <1>3, <2>2, Shift
      <4>2. j > Len(a)
        BY <1>1, <1>2, <2>2
      <4>3. (a \o b)[j] = b[j - Len(a)]
        <5> DEFINE c == a \o b
        <5>1. a \in Seq(Sessions) /\ b \in Seq(Sessions)
          BY <1>2, <1>3
        <5>2. \A k \in 1..(Len(a) + Len(b)) : c[k] = IF k <= Len(a) THEN a[k] ELSE b[k - Len(a)]
          BY <5>1, ConcatProperties, Zenon
        <5> HIDE DEF c
        <5>3. ~(j <= Len(a))
          BY <1>1, <1>2, <4>2
        <5>4. c[j] = b[j - Len(a)]
          BY <4>1, <5>2, <5>3
        <5> QED
          BY <5>4 DEF c
      <4> QED
        BY <1>2, <4>1, <4>3
    <3>2. b[j - (i - 1)] = o[(j - (i - 1)) + i]
      BY <1>3, <3>1
    <3>3. (j - (i - 1)) + i = j + 1
      BY <1>1
    <3> QED
      BY <2>2, <3>1, <3>2, <3>3
  <2> QED
    BY <2>1, <2>2
<1> QED
  BY <1>4, <1>5, <1>6

LEMMA WithoutIs ==
  ASSUME Distinct(order), NEW s \in Sessions
  PROVE  /\ Distinct(Without(s)) /\ Held(Without(s)) = Held(order) \ {s}
         /\ Len(Without(s)) = IF s \in Held(order) THEN Len(order) - 1 ELSE Len(order)
<1>1. CASE Holds(s) = {}
  BY <1>1 DEF Without, Holds, Held
<1>2. CASE Holds(s) # {}
  <2> DEFINE i == CHOOSE i \in Holds(s) : TRUE
             w == RemoveAt(order, i)
  <2>1. i \in DOMAIN order /\ order[i] = s /\ order \in Seq(Sessions) /\ w = Without(s)
    BY <1>2 DEF Holds, Distinct, Without
  <2> HIDE DEF i
  <2>2. /\ w \in Seq(Sessions) /\ Len(w) = Len(order) - 1
        /\ \A j \in 1..(Len(order) - 1) : w[j] = IF j < i THEN order[j] ELSE order[j + 1]
    BY <2>1, RemoveAtIs
  <2>3. /\ DOMAIN w = 1..(Len(order) - 1) /\ DOMAIN order = 1..Len(order) /\ i \in 1..Len(order)
        /\ Len(order) \in Nat
    BY <2>1, <2>2
  <2> HIDE DEF w
  <2>4. Distinct(w)
    <3> SUFFICES ASSUME NEW j \in DOMAIN w, NEW k \in DOMAIN w, w[j] = w[k]
                 PROVE  j = k
      BY <2>2 DEF Distinct
    <3> DEFINE jj == IF j < i THEN j ELSE j + 1
               kk == IF k < i THEN k ELSE k + 1
    <3>1. jj \in DOMAIN order /\ kk \in DOMAIN order /\ order[jj] = order[kk]
      BY <2>2, <2>3
    <3>2. jj = kk
      BY <3>1 DEF Distinct
    <3> QED
      BY <2>3, <3>2
  <2>5. Held(w) \subseteq Held(order) \ {s}
    <3> SUFFICES ASSUME NEW j \in DOMAIN w
                 PROVE  w[j] \in Held(order) \ {s}
      BY DEF Held
    <3> DEFINE jj == IF j < i THEN j ELSE j + 1
    <3>1. jj \in DOMAIN order /\ order[jj] = w[j] /\ jj # i
      BY <2>2, <2>3
    <3> QED
      BY <2>1, <3>1 DEF Held, Distinct
  <2>6. Held(order) \ {s} \subseteq Held(w)
    <3> SUFFICES ASSUME NEW j \in DOMAIN order, order[j] # s
                 PROVE  order[j] \in Held(w)
      BY DEF Held
    <3> DEFINE jj == IF j < i THEN j ELSE j - 1
    <3>1. j # i
      BY <2>1
    <3>2. jj \in DOMAIN w /\ w[jj] = order[j]
      BY <2>2, <2>3, <3>1
    <3> QED
      BY <3>2 DEF Held
  <2>7. s \in Held(order)
    BY <2>1 DEF Held
  <2> QED
    BY <2>1, <2>2, <2>4, <2>5, <2>6, <2>7
<1> QED
  BY <1>1, <1>2

LEMMA AppendIs ==
  ASSUME NEW o, Distinct(o), NEW s \in Sessions, s \notin Held(o)
  PROVE  /\ Distinct(Append(o, s)) /\ Held(Append(o, s)) = Held(o) \union {s}
         /\ Len(Append(o, s)) = Len(o) + 1 /\ Append(o, s)[Len(o) + 1] = s
<1> DEFINE a == Append(o, s)
<1>1. /\ o \in Seq(Sessions) /\ Len(o) \in Nat /\ DOMAIN o = 1..Len(o)
      /\ a \in Seq(Sessions) /\ Len(a) = Len(o) + 1 /\ DOMAIN a = 1..(Len(o) + 1)
      /\ a[Len(o) + 1] = s /\ \A i \in 1..Len(o) : a[i] = o[i]
  BY DEF Distinct
<1> HIDE DEF a
<1>2. \A i \in 1..Len(o) : o[i] # s
  BY <1>1 DEF Held
<1>3. Distinct(a)
  BY <1>1, <1>2 DEF Distinct
<1>4. Held(a) = Held(o) \union {s}
  BY <1>1 DEF Held
<1> QED
  BY <1>1, <1>3, <1>4 DEF a

LEMMA TailIs ==
  ASSUME NEW o, Distinct(o), Len(o) > 1
  PROVE  /\ Distinct(Tail(o)) /\ Held(Tail(o)) = Held(o) \ {Head(o)} /\ Len(Tail(o)) = Len(o) - 1
         /\ Head(o) # o[Len(o)]
<1> DEFINE a == Tail(o)
<1>1. /\ o \in Seq(Sessions) /\ Len(o) \in Nat /\ DOMAIN o = 1..Len(o)
      /\ a \in Seq(Sessions) /\ Len(a) = Len(o) - 1 /\ DOMAIN a = 1..(Len(o) - 1)
      /\ \A i \in 1..(Len(o) - 1) : a[i] = o[i + 1]
      /\ Head(o) = o[1]
  BY DEF Distinct
<1> HIDE DEF a
<1>2. Distinct(a)
  <2>1. \A i \in DOMAIN a : a[i] = o[i + 1] /\ i + 1 \in DOMAIN o /\ i \in Nat
    BY <1>1
  <2>2. ASSUME NEW i \in DOMAIN a, NEW j \in DOMAIN a, a[i] = a[j]
        PROVE  i = j
    <3>1. i + 1 = j + 1
      BY <2>1, <2>2 DEF Distinct
    <3> QED
      BY <2>1, <3>1
  <2> QED
    BY <1>1, <2>2 DEF Distinct
<1>3. Head(o) # o[Len(o)]
  <2>1. 1 \in DOMAIN o /\ Len(o) \in DOMAIN o /\ 1 # Len(o)
    BY <1>1
  <2> QED
    BY <1>1, <2>1 DEF Distinct
<1>4. Held(a) \subseteq Held(o) \ {Head(o)}
  <2> SUFFICES ASSUME NEW i \in DOMAIN a
               PROVE  a[i] \in Held(o) \ {Head(o)}
    BY DEF Held
  <2>1. a[i] = o[i + 1] /\ i + 1 \in DOMAIN o /\ i + 1 # 1 /\ 1 \in DOMAIN o
    BY <1>1
  <2> QED
    BY <1>1, <2>1 DEF Held, Distinct
<1>5. Held(o) \ {Head(o)} \subseteq Held(a)
  <2> SUFFICES ASSUME NEW i \in DOMAIN o, o[i] # Head(o)
               PROVE  o[i] \in Held(a)
    BY DEF Held
  <2>1. i # 1
    BY <1>1
  <2>2. i - 1 \in DOMAIN a /\ a[i - 1] = o[i]
    BY <1>1, <2>1
  <2> QED
    BY <2>2 DEF Held
<1> QED
  BY <1>1, <1>2, <1>3, <1>4, <1>5 DEF a

\* What the history variables are about.
Recorded == torn \subseteq Sessions /\ forgotten \subseteq Turns

LEMMA DropRecorded ==
  ASSUME Recorded, entries \in Histories, NEW gone \in SUBSET Sessions, Drop(gone)
  PROVE  Recorded'
BY DEF Recorded, Histories, Drop

LEMMA OrderKept ==
  ASSUME Ordered, UNCHANGED order, \A s \in Sessions : entries'[s].kept = "absent" <=> entries[s].kept = "absent"
  PROVE  Ordered'
BY DEF Ordered, Distinct, Held

LEMMA LoadOrdered ==
  ASSUME Ordered, Recorded, entries \in Histories, NEW s \in Sessions, Load(s)
  PROVE  Ordered' /\ Recorded'
<1> DEFINE w == Without(s)
<1>1. /\ Distinct(order) /\ Len(order) \in Nat /\ Len(order) <= MaxSessions /\ MaxSessions \in Nat
      /\ Held(order) = {k \in Sessions : entries[k].kept # "absent"}
  BY TurnsAssumption DEF Ordered, Distinct
<1>2. /\ Distinct(w) /\ Held(w) = Held(order) \ {s}
      /\ Len(w) = IF s \in Held(order) THEN Len(order) - 1 ELSE Len(order)
  BY <1>1, WithoutIs
<1> HIDE DEF w
<1>3. CASE entries[s].kept = "expired"
  <2>1. entries' = [entries EXCEPT ![s] = NoEntry] /\ order' = w /\ Recorded'
    BY <1>3, DropRecorded DEF Load, w
  <2>2. \A k \in Sessions : entries'[k].kept # "absent" <=> (entries[k].kept # "absent" /\ k # s)
    BY <2>1 DEF Histories, NoEntry
  <2>3. Held(w) = {k \in Sessions : entries'[k].kept # "absent"}
    BY <1>1, <1>2, <2>2
  <2>4. Len(w) <= MaxSessions
    BY <1>1, <1>2
  <2> QED
    BY <1>2, <2>1, <2>3, <2>4 DEF Ordered, Distinct, Held
<1>4. CASE entries[s].kept = "fresh"
  <2> DEFINE a == Append(w, s)
  <2>1. entries' = entries /\ order' = a /\ Recorded'
    BY <1>4 DEF Load, w, Recorded
  <2>2. s \in Held(order)
    BY <1>1, <1>4
  <2>3. Distinct(a) /\ Held(a) = Held(w) \union {s} /\ Len(a) = Len(w) + 1
    BY <1>2, AppendIs
  <2> HIDE DEF a
  <2>4. Held(a) = {k \in Sessions : entries'[k].kept # "absent"} /\ Len(a) <= MaxSessions
    BY <1>1, <1>2, <2>1, <2>2, <2>3
  <2> QED
    BY <2>1, <2>3, <2>4 DEF Ordered, Distinct, Held
<1>5. CASE entries[s].kept \notin {"fresh", "expired"}
  BY <1>5, OrderKept DEF Load, store, Recorded
<1> QED
  BY <1>3, <1>4, <1>5

\* A save beyond max_sessions drops another session, the first of the order.
LEMMA SaveOrdered ==
  ASSUME Ordered, Recorded, entries \in Histories, NEW s \in Sessions, NEW history, Save(s, history)
  PROVE  Ordered' /\ Recorded'
<1> DEFINE used == Append(Without(s), s)
           gone == IF Len(used) > MaxSessions THEN {Head(used)} ELSE {}
<1>1. /\ Distinct(order) /\ Len(order) \in Nat /\ Len(order) <= MaxSessions /\ MaxSessions \in Nat \ {0}
      /\ Held(order) = {k \in Sessions : entries[k].kept # "absent"}
  BY TurnsAssumption DEF Ordered, Distinct
<1>2. /\ Distinct(used) /\ Held(used) = Held(order) \union {s}
      /\ Len(used) \in Nat /\ Len(used) <= MaxSessions + 1 /\ used[Len(used)] = s
  <2> DEFINE w == Without(s)
  <2>1. /\ Distinct(w) /\ Held(w) = Held(order) \ {s} /\ Len(w) \in Nat
        /\ Len(w) = IF s \in Held(order) THEN Len(order) - 1 ELSE Len(order)
    BY <1>1, WithoutIs DEF Distinct
  <2> HIDE DEF w
  <2>2. /\ Distinct(Append(w, s)) /\ Held(Append(w, s)) = Held(w) \union {s}
        /\ Len(Append(w, s)) = Len(w) + 1 /\ Append(w, s)[Len(w) + 1] = s
    BY <2>1, AppendIs
  <2>3. Distinct(used) /\ Held(used) = Held(w) \union {s} /\ Len(used) = Len(w) + 1 /\ used[Len(w) + 1] = s
    BY <2>2 DEF w
  <2> HIDE DEF used
  <2> QED
    BY <1>1, <2>1, <2>3
<1>3. /\ Drop(gone) /\ order' = IF gone = {} THEN used ELSE Tail(used)
      /\ entries' = [k \in Sessions |->
           IF k = s THEN [kept |-> "fresh", turns |-> history]
           ELSE IF k \in gone THEN NoEntry ELSE entries[k]]
  BY DEF Save
<1> HIDE DEF used, gone
<1>4. \A k \in Sessions : entries'[k].kept # "absent" <=> (k = s \/ (k \notin gone /\ entries[k].kept # "absent"))
  BY <1>3 DEF NoEntry
<1>5. CASE Len(used) > MaxSessions
  <2>1. gone = {Head(used)}
    BY <1>5 DEF gone
  <2>2. /\ Distinct(Tail(used)) /\ Held(Tail(used)) = Held(used) \ {Head(used)}
        /\ Len(Tail(used)) = Len(used) - 1 /\ Head(used) # s
    BY <1>1, <1>2, <1>5, TailIs
  <2>3. order' = Tail(used)
    BY <1>3, <2>1
  <2>4. Held(Tail(used)) = {k \in Sessions : entries'[k].kept # "absent"}
    BY <1>1, <1>2, <1>4, <2>1, <2>2
  <2>5. Len(Tail(used)) <= MaxSessions
    BY <1>1, <1>2, <2>2
  <2>6. Head(used) \in Sessions
    BY <1>1, <1>2, <1>5 DEF Distinct
  <2>7. Recorded'
    BY <1>3, <2>1, <2>6, DropRecorded
  <2> QED
    BY <2>2, <2>3, <2>4, <2>5, <2>7 DEF Ordered, Distinct, Held
<1>6. CASE ~(Len(used) > MaxSessions)
  <2>1. gone = {} /\ order' = used
    BY <1>3, <1>6 DEF gone
  <2>2. Held(used) = {k \in Sessions : entries'[k].kept # "absent"}
    BY <1>1, <1>2, <1>4, <2>1
  <2>3. Len(used) <= MaxSessions
    BY <1>1, <1>2, <1>6
  <2>4. Recorded'
    BY <1>3, <2>1, DropRecorded
  <2> QED
    BY <1>2, <2>1, <2>2, <2>3, <2>4 DEF Ordered, Distinct, Held
<1> QED
  BY <1>5, <1>6

\* The store holds its sessions once each, at most max_sessions of them.
THEOREM Bounded == Spec => [](Ordered /\ Recorded)
<1>1. Init => Ordered /\ Recorded
  <2> SUFFICES ASSUME Init
               PROVE  Ordered /\ Recorded
    OBVIOUS
  <2>1. PICK earlier \in {<<>>} \union {<<s>> : s \in Sessions} :
          /\ order = earlier
          /\ entries = [s \in Sessions |->
               IF \E i \in DOMAIN earlier : earlier[i] = s THEN [NoEntry EXCEPT !.kept = "fresh"] ELSE NoEntry]
    BY DEF Init
  <2>2. earlier \in Seq(Sessions) /\ Len(earlier) <= 1 /\ DOMAIN earlier \subseteq {1}
    <3>1. CASE earlier = <<>>
      BY <3>1
    <3>2. ASSUME NEW s \in Sessions, earlier = <<s>>
          PROVE  earlier \in Seq(Sessions) /\ Len(earlier) <= 1 /\ DOMAIN earlier \subseteq {1}
      BY <3>2
    <3> QED
      BY <2>1, <3>1, <3>2
  <2>3. \A s \in Sessions : entries[s].kept # "absent" <=> \E i \in DOMAIN earlier : earlier[i] = s
    BY <2>1 DEF NoEntry
  <2>4. Distinct(order) /\ Len(order) <= MaxSessions
    BY <2>1, <2>2, TurnsAssumption DEF Distinct
  <2>5. \A i \in DOMAIN earlier : earlier[i] \in Sessions
    BY <2>2
  <2> QED
    BY <2>1, <2>3, <2>4, <2>5 DEF Ordered, Held, Init, Recorded
<1>2. ASSUME IInv, Ordered, Recorded, [Next]_vars
      PROVE  Ordered' /\ Recorded'
  <2>1. entries \in Histories /\ \A t \in Turns : turns[t].at # "new" => turns[t].session \in Sessions
    BY <1>2 DEF IInv, Fine, Runs
  <2>2. CASE UNCHANGED <<entries, order, forgotten, torn>>
    BY <1>2, <2>2, OrderKept DEF Recorded
  <2>3. CASE \E s \in Sessions : Load(s)
    BY <1>2, <2>1, <2>3, LoadOrdered
  <2>4. CASE \E s \in Sessions : \E h : Save(s, h)
    BY <1>2, <2>1, <2>4, SaveOrdered
  <2>5. ASSUME NEW s \in Sessions, Expire(s)
        PROVE  Ordered' /\ Recorded'
    <3>1. \A k \in Sessions : entries'[k].kept = "absent" <=> entries[k].kept = "absent"
      BY <2>1, <2>5 DEF Expire, Histories
    <3> QED
      BY <1>2, <2>5, <3>1, OrderKept DEF Expire, Recorded
  <2>6. ASSUME NEW t \in Turns, Turn(t) \/ Client(t) \/ Leave(t)
        PROVE  Ordered' /\ Recorded'
    <3>1. CASE Resolve(t)
      BY <2>2, <2>3, <3>1, TurnsAssumption DEF Resolve, store
    <3>2. CASE Acquire(t)
      BY <2>1, <2>3, <3>2 DEF Acquire
    <3>3. CASE Answer(t)
      BY <2>1, <2>4, <3>3 DEF Answer
    <3>4. CASE Open(t) \/ Yield(t) \/ Emit(t) \/ Batch(t) \/ ToolsReturn(t) \/ EmitResult(t) \/ Fails(t)
               \/ Finish(t) \/ Client(t) \/ Leave(t)
      BY <2>2, <3>4 DEF Open, Yield, Emit, Batch, ToolsReturn, EmitResult, Fails, Finish, Client, Take,
                        EndOfStream, Leave, store
    <3> QED
      BY <2>6, <3>1, <3>2, <3>3, <3>4 DEF Turn, Settles
  <2>7. CASE UNCHANGED vars \/ Rest
    BY <2>2, <2>7 DEF Rest, vars, store
  <2> QED
    BY <1>2, <2>3, <2>4, <2>5, <2>6, <2>7 DEF Next, GetHistory, Elsewhere
<1> QED
  BY <1>1, <1>2, Invariance, PTL DEF Spec

\* The type invariant, the bound and the order of the store among it (agent/sessions.py).
THEOREM TypeCorrect == Spec => []TypeOK
<1>1. IInv /\ Ordered /\ Recorded => TypeOK
  BY DEF IInv, Ordered, Recorded, Distinct, Held, Histories, TypeOK
<1> QED
  BY <1>1, Invariance, Bounded, PTL

=============================================================================
