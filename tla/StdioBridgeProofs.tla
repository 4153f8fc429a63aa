-------------------------- MODULE StdioBridgeProofs --------------------------
(***************************************************************************)
(* Proofs about StdioBridge.  Where the task of a line is tells whether    *)
(* its request is in flight, what its application may have done, where the *)
(* answer is on its way, and whether it was written.                       *)
(***************************************************************************)
EXTENDS StdioBridge, TLAPS

Before == {"unread", "queued", "locked", "loading"}
Open == {"waiting", "reading", "writing"}
After == {"closing", "over"}

Chunks == {<<>>, <<"note">>, <<"answer">>}
Lines == [kind : Kinds, of : Ids]
Posts == [at : Before \union Open \union After, hand : {"none", "note", "answer"},
          raising : BOOLEAN, retried : BOOLEAN]
Apps == [at : {"none", "running", "done", "failed"},
         form : {"none", "json", "sse", "accepted", "error", "denied"},
         pipe : Chunks, answered : BOOLEAN, asked : BOOLEAN]
Endings == [bridge : {"no", "clean", "error"}, lifespan : {"no", "closed", "failed", "given up"}]

Types ==
  /\ lines \in Seq(Lines) /\ Len(lines) <= MaxLines
  /\ eof \in BOOLEAN /\ loaded \in BOOLEAN /\ failing \in BOOLEAN
  /\ post \in [Ids -> Posts] /\ app \in [Ids -> Apps]
  /\ inflight \subseteq Ids /\ stopped \subseteq Ids /\ missed \subseteq Ids /\ stray \subseteq Ids
  /\ writer \in {0} \union Ids /\ answers \in [Ids -> Nat] /\ ended \in Endings

\* A cancellation names an earlier request.
Named ==
  \A n \in ReadLines : Kind(n) = "cancel" => lines[n].of < n /\ Kind(lines[n].of) \in Requests

\* A scope is registered from the sending of a request to the end of its task.
Registered(n) ==
  /\ post[n].at = "unread" <=> n \notin ReadLines
  /\ post[n].at \in {"locked", "loading"} => Kind(n) = "tool"
  /\ n \in inflight <=> n \in ReadLines /\ Kind(n) \in Requests /\ post[n].at \in Open \union {"closing"}

\* Where the answer of an application is that has given it.
Carried(n) ==
  /\ app[n].form \in {"none", "json"} => app[n].pipe # <<"note">>
  /\ app[n].answered =>
       \/ app[n].pipe = <<"answer">>
       \/ post[n].at = "reading" /\ app[n].form = "json" /\ post[n].hand = "answer"
       \/ post[n].at = "writing" /\ post[n].hand = "answer"

\* What its application is to a task, by the place of the task.
Served(n) ==
  /\ post[n].at \in Before => app[n] = NewApp
  /\ post[n].at \in Open =>
       /\ ~app[n].asked /\ Carried(n)
       /\ app[n].form = "accepted" => Kind(n) = "notify"
       /\ app[n].at = "done" => app[n].form # "none" /\ (app[n].form \in Body => app[n].answered)
  /\ post[n].at \in {"reading", "writing"} => app[n].form \in Body
  /\ post[n].at = "writing" /\ app[n].form = "json" => post[n].hand = "answer"
  /\ post[n].at \in After => app[n].form = "none" /\ (Runs(n) => app[n].asked)

\* An answer is written once, and a task that is through with a call has written it,
\* unless it was stopped or brings the bridge down.
Counted(n) ==
  /\ answers[n] + (IF n \in stray THEN 1 ELSE 0) <= 1
  /\ post[n].at \notin After => answers[n] = 0 /\ n \notin stray
  /\ post[n].at \in After /\ Kind(n) \in {"call", "tool"} =>
       answers[n] = 1 \/ failing \/ n \in stopped \/ (post[n].at = "closing" /\ post[n].raising)

\* Who is stopped was a subscription or is cancelled by its client.
Stopped == \A n \in stopped : n \in ReadLines /\ (Kind(n) = "listen" \/ Cancelled(n))

Held == writer # 0 => post[writer].at = "writing"

Closing ==
  ended.bridge = "clean" =>
    /\ eof /\ AllOver
    /\ \A n \in ReadLines : Kind(n) \in {"call", "tool"} /\ ~Cancelled(n) => answers[n] = 1

TaskInv(n) == Registered(n) /\ Served(n) /\ Counted(n)

IInv ==
  /\ Types /\ Named /\ Stopped /\ Held /\ Closing
  /\ missed \subseteq ReadLines /\ CancelFinds
  /\ \A n \in Ids : TaskInv(n)

-----------------------------------------------------------------------------
(* What a step leaves alone *)

LEMMA Fields ==
  ASSUME Types, NEW n \in Ids
  PROVE  /\ post[n] \in Posts /\ app[n] \in Apps /\ answers[n] \in Nat
         /\ post[n].at \in Before \union Open \union After
         /\ post[n].raising \in BOOLEAN /\ post[n].hand \in {"none", "note", "answer"}
         /\ app[n].at \in {"none", "running", "done", "failed"}
         /\ app[n].form \in {"none", "json", "sse", "accepted", "error", "denied"}
         /\ app[n].pipe \in Chunks /\ app[n].answered \in BOOLEAN /\ app[n].asked \in BOOLEAN
<1>1. post[n] \in Posts /\ app[n] \in Apps /\ answers[n] \in Nat
  BY DEF Types
<1> QED
  BY <1>1 DEF Posts, Apps

LEMMA LinesRead ==
  ASSUME Types
  PROVE  /\ Len(lines) \in Nat /\ DOMAIN lines = 1..Len(lines) /\ ReadLines \subseteq Ids
         /\ \A n \in ReadLines : n \in Nat /\ lines[n] \in Lines
BY BridgeAssumption DEF Types, ReadLines, Ids

\* A step of the task of line n, of its application or of its thread.
Only(n) ==
  /\ post' \in [Ids -> Posts] /\ app' \in [Ids -> Apps] /\ answers' \in [Ids -> Nat]
  /\ inflight' \subseteq Ids /\ stray' \subseteq Ids
  /\ \A m \in Ids \ {n} :
       /\ post'[m] = post[m] /\ app'[m] = app[m] /\ answers'[m] = answers[m]
       /\ m \in inflight' <=> m \in inflight
       /\ m \in stray' <=> m \in stray
  /\ UNCHANGED <<lines, eof, ended>>
  /\ failing' \in BOOLEAN /\ (failing => failing') /\ loaded' \in BOOLEAN

LEMMA OthersKeep ==
  ASSUME NEW n \in Ids, NEW m \in Ids \ {n}, Only(n), stopped \subseteq stopped', TaskInv(m)
  PROVE  TaskInv(m)'
<1>1. /\ post'[m] = post[m] /\ app'[m] = app[m] /\ answers'[m] = answers[m]
      /\ m \in inflight' <=> m \in inflight
      /\ m \in stray' <=> m \in stray
      /\ lines' = lines /\ (failing => failing')
  BY DEF Only
<1>2. Registered(m)'
  BY <1>1 DEF TaskInv, Registered, Kind, ReadLines
<1>3. Served(m)'
  BY <1>1 DEF TaskInv, Served, Carried, Kind, Runs
<1>4. Counted(m)'
  BY <1>1 DEF TaskInv, Counted, Kind
<1> QED
  BY <1>2, <1>3, <1>4 DEF TaskInv

LEMMA StaysClosed ==
  ASSUME Closing, NEW n \in ReadLines, ReadLines \subseteq Ids, Only(n),
         post[n].at # "over" \/ (post'[n] = post[n] /\ answers'[n] = answers[n])
  PROVE  Closing'
<1>1. /\ lines' = lines /\ eof' = eof /\ ended' = ended
      /\ \A m \in Ids \ {n} : post'[m] = post[m] /\ answers'[m] = answers[m]
  BY DEF Only
<1> SUFFICES ASSUME ended.bridge = "clean"
             PROVE  Closing'
  BY <1>1 DEF Closing
<1>2. post[n].at = "over"
  BY DEF Closing, AllOver
<1>3. \A m \in ReadLines : post'[m] = post[m] /\ answers'[m] = answers[m]
  BY <1>1, <1>2
<1> QED
  BY <1>1, <1>3 DEF Closing, AllOver, ReadLines, Kind, Cancelled

LEMMA OneTask ==
  ASSUME IInv, NEW n \in ReadLines, Only(n), stopped' = stopped, missed' = missed,
         writer' \in {writer, 0, n}, writer' = n => post'[n].at = "writing",
         Closing', TaskInv(n)'
  PROVE  IInv'
<1>1. Types /\ ReadLines \subseteq Ids /\ n \in Ids /\ n # 0
  BY LinesRead, BridgeAssumption DEF IInv, Ids
<1>2. Types'
  BY <1>1 DEF Types, Only
<1>3. lines' = lines /\ Named' /\ Stopped' /\ missed' \subseteq ReadLines' /\ CancelFinds'
  BY DEF IInv, Only, Named, Stopped, Kind, ReadLines, Cancelled, CancelFinds
<1>4. Held'
  BY <1>1 DEF IInv, Held, Only, Types
<1>5. \A m \in Ids : TaskInv(m)'
  BY <1>1, OthersKeep DEF IInv
<1> QED
  BY <1>2, <1>3, <1>4, <1>5 DEF IInv

\* The response of n is closed.
LEMMA ClosesMeans ==
  ASSUME Types, NEW n \in Ids, NEW raises \in BOOLEAN, Closes(n, raises)
  PROVE  /\ post' \in [Ids -> Posts] /\ app' \in [Ids -> Apps]
         /\ \A m \in Ids \ {n} : post'[m] = post[m] /\ app'[m] = app[m]
         /\ post'[n].at = "closing" /\ post'[n].raising = raises
         /\ app'[n].at = app[n].at /\ app'[n].form = "none" /\ (Runs(n)' => app'[n].asked)
<1> DEFINE p == [NewPost EXCEPT !.at = "closing", !.raising = raises]
           a == [NewApp EXCEPT !.at = app[n].at, !.asked = Runs(n)]
<1>1. p \in Posts /\ p.at = "closing" /\ p.raising = raises
  BY DEF Posts, NewPost, After
<1>2. Runs(n) \in BOOLEAN
  BY DEF Runs
<1>3. a \in Apps /\ a.at = app[n].at /\ a.form = "none" /\ a.asked = Runs(n)
  BY <1>2, Fields DEF Apps, NewApp, Chunks
<1>4. post' = [post EXCEPT ![n] = p] /\ app' = [app EXCEPT ![n] = a]
  BY DEF Closes
<1> HIDE DEF p, a
<1>5. /\ post' \in [Ids -> Posts] /\ app' \in [Ids -> Apps] /\ post'[n] = p /\ app'[n] = a
      /\ \A m \in Ids \ {n} : post'[m] = post[m] /\ app'[m] = app[m]
  BY <1>1, <1>3, <1>4 DEF Types
<1> QED
  BY <1>1, <1>3, <1>5 DEF Runs

\* Whatever closes it, the task of n is as it has to be.
LEMMA CloseKeeps ==
  ASSUME IInv, NEW n \in ReadLines, NEW raises \in BOOLEAN, Closes(n, raises), post[n].at \in Open,
         UNCHANGED <<lines, eof, ended, inflight, stopped, loaded, missed, failing>>,
         writer' \in {writer, 0}, writer' # n,
         answers' \in [Ids -> Nat], stray' \subseteq Ids,
         \A m \in Ids \ {n} : answers'[m] = answers[m] /\ (m \in stray' <=> m \in stray),
         answers'[n] + (IF n \in stray' THEN 1 ELSE 0) <= 1,
         Kind(n) \in {"call", "tool"} => answers'[n] = 1 \/ failing \/ n \in stopped \/ raises
  PROVE  IInv'
<1>1. Types /\ ReadLines \subseteq Ids /\ n \in Ids /\ TaskInv(n)
  BY LinesRead DEF IInv
<1>2. /\ post' \in [Ids -> Posts] /\ app' \in [Ids -> Apps]
      /\ \A m \in Ids \ {n} : post'[m] = post[m] /\ app'[m] = app[m]
      /\ post'[n].at = "closing" /\ post'[n].raising = raises
      /\ app'[n].form = "none" /\ (Runs(n)' => app'[n].asked)
  BY <1>1, ClosesMeans
<1>3. Only(n)
  BY <1>1, <1>2 DEF Only, Types
<1>4. Closing'
  BY <1>1, <1>3, StaysClosed DEF IInv, Open
<1>5. Registered(n)'
  BY <1>1, <1>2 DEF TaskInv, Registered, Kind, ReadLines, Open
<1>6. Served(n)'
  BY <1>2 DEF Served, Before, Open, After
<1>7. Counted(n)'
  BY <1>2 DEF Counted, Kind, After
<1> QED
  BY <1>2, <1>3, <1>4, <1>5, <1>6, <1>7, OneTask DEF TaskInv

-----------------------------------------------------------------------------
(* The pump and the end *)

LEMMA Starts0 == Init => IInv
<1> SUFFICES ASSUME Init
             PROVE  IInv
  OBVIOUS
<1> USE DEF Init
<1>1. 1 \in Ids /\ Len(lines) = 0 /\ ReadLines = {}
  BY BridgeAssumption DEF Ids, ReadLines
<1>2. NewPost \in Posts /\ NewApp \in Apps
  BY DEF Posts, Apps, NewPost, NewApp, Before, Chunks
<1>3. Types
  <2>1. lines \in Seq(Lines) /\ Len(lines) <= MaxLines
    BY BridgeAssumption
  <2>2. post \in [Ids -> Posts] /\ app \in [Ids -> Apps] /\ answers \in [Ids -> Nat]
    BY <1>2
  <2>3. ended \in Endings
    BY DEF Endings
  <2> QED
    BY <2>1, <2>2, <2>3 DEF Types
<1>4. Named /\ Stopped /\ Held /\ Closing /\ missed \subseteq ReadLines /\ CancelFinds
  BY <1>1 DEF Named, Stopped, Held, Closing, CancelFinds
<1>5. ASSUME NEW n \in Ids
      PROVE  TaskInv(n)
  <2>1. post[n] = NewPost /\ app[n] = NewApp /\ answers[n] = 0 /\ post[n].at = "unread"
    BY DEF NewPost
  <2> QED
    BY <1>1, <2>1 DEF TaskInv, Registered, Served, Counted, Before, Open, After
<1> QED
  BY <1>3, <1>4, <1>5 DEF IInv

LEMMA ReadKeeps == ASSUME IInv, Read PROVE IInv'
<1>1. Types /\ ReadLines \subseteq Ids /\ Len(lines) \in Nat /\ DOMAIN lines = 1..Len(lines)
  BY LinesRead DEF IInv
<1> PICK kind \in Kinds, of \in Ids :
      /\ IF kind = "cancel" THEN of <= Len(lines) /\ Kind(of) \in Requests ELSE of = 1
      /\ lines' = Append(lines, [kind |-> kind, of |-> of])
  BY DEF Read
<1> PICK n \in Ids : n = Len(lines) + 1
  BY <1>1, BridgeAssumption DEF Read, Ids
<1> DEFINE line == [kind |-> kind, of |-> of]
<1>2. line \in Lines /\ line.kind = kind /\ line.of = of /\ lines \in Seq(Lines)
  BY <1>1 DEF Lines, Types
<1>3. lines' = Append(lines, line)
  OBVIOUS
<1> HIDE DEF line
<1>4. /\ lines' \in Seq(Lines) /\ Len(lines') = n /\ lines'[n] = line
      /\ \A m \in ReadLines : lines'[m] = lines[m]
  BY <1>2, <1>3 DEF ReadLines
<1>5. n \notin ReadLines /\ ReadLines' = ReadLines \union {n} /\ n <= MaxLines
  BY <1>1, <1>4, BridgeAssumption DEF Read, Ids, ReadLines
<1>6. /\ Kind(n)' = kind
      /\ \A m \in ReadLines : Kind(m)' = Kind(m)
  BY <1>2, <1>4 DEF Kind
<1>7. /\ post' = [post EXCEPT ![n].at = "queued"] /\ post[n].at = "unread"
      /\ ~eof /\ UNCHANGED <<eof, inflight, stopped, loaded, app, writer, failing, answers, stray, missed, ended>>
  BY <1>5 DEF Read, Reading, IInv, TaskInv, Registered
<1>8. /\ post' \in [Ids -> Posts] /\ post'[n].at = "queued"
      /\ \A m \in Ids \ {n} : post'[m] = post[m]
  <2>1. n \in Ids /\ post \in [Ids -> Posts]
    BY <1>1, <1>5 DEF Types
  <2>2. post[n] \in Posts /\ "queued" \in Before
    BY <2>1 DEF Before
  <2>3. [post[n] EXCEPT !.at = "queued"] \in Posts
    BY <2>2 DEF Posts
  <2> QED
    BY <1>7, <2>1, <2>3
<1>9. Types'
  BY <1>1, <1>4, <1>5, <1>7, <1>8 DEF Types
<1>10. Named'
  <2>1. ASSUME NEW m \in ReadLines', Kind(m)' = "cancel"
        PROVE  (lines[m].of < m /\ Kind(lines[m].of) \in Requests)'
    <3>1. CASE m = n
      <4>1. lines'[m].of = of /\ of <= Len(lines) /\ Kind(of) \in Requests
        BY <1>2, <1>4, <1>6, <2>1, <3>1
      <4>2. of \in ReadLines /\ of < n
        BY <1>1, <4>1 DEF ReadLines, Ids
      <4> QED
        BY <1>6, <3>1, <4>1, <4>2 DEF Kind
    <3>2. CASE m \in ReadLines
      <4>1. lines[m].of < m /\ Kind(lines[m].of) \in Requests /\ lines[m] \in Lines /\ lines'[m] = lines[m]
        BY <1>1, <1>4, <1>6, <2>1, <3>2, LinesRead DEF IInv, Named
      <4>2. lines[m].of \in ReadLines
        BY <1>1, <3>2, <4>1 DEF Lines, ReadLines, Ids
      <4> QED
        BY <1>4, <4>1, <4>2 DEF Kind
    <3> QED
      BY <1>5, <3>1, <3>2
  <2> QED
    BY <2>1 DEF Named
<1>11. Stopped' /\ Held' /\ Closing' /\ missed' \subseteq ReadLines' /\ CancelFinds'
  <2>1. Stopped'
    <3>1. ASSUME NEW m \in stopped
          PROVE  m \in ReadLines' /\ (Kind(m)' = "listen" \/ Cancelled(m)')
      <4>1. m \in ReadLines /\ (Kind(m) = "listen" \/ Cancelled(m))
        BY DEF IInv, Stopped
      <4>2. ASSUME NEW l \in ReadLines, Kind(l) = "cancel", lines[l].of = m
            PROVE  Cancelled(m)'
        <5>1. l \in ReadLines' /\ lines'[l] = lines[l] /\ Kind(l)' = "cancel"
          BY <1>4, <1>5, <1>6, <4>2
        <5> QED
          BY <4>2, <5>1 DEF Cancelled
      <4> QED
        BY <1>5, <1>6, <4>1, <4>2 DEF Cancelled
    <3> QED
      BY <1>7, <3>1 DEF Stopped
  <2>2. Held'
    BY <1>1, <1>7, <1>8 DEF IInv, Held, Types
  <2>3. Closing'
    BY <1>7 DEF IInv, Closing
  <2> QED
    BY <1>5, <1>6, <1>7, <2>1, <2>2, <2>3 DEF IInv, CancelFinds
<1>12. ASSUME NEW m \in Ids
       PROVE  TaskInv(m)'
  <2>1. CASE m = n
    <3>1. /\ post[m].at = "unread" /\ post'[m].at = "queued" /\ m \in ReadLines' /\ TaskInv(m)
      BY <1>5, <1>7, <1>8, <2>1 DEF IInv
    <3> QED
      BY <1>5, <1>7, <2>1, <3>1 DEF TaskInv, Registered, Served, Counted, Before, Open, After
  <2>2. CASE m # n /\ m \in ReadLines
    <3>1. TaskInv(m) /\ post'[m] = post[m] /\ Kind(m)' = Kind(m) /\ m \in ReadLines'
      BY <1>5, <1>6, <1>8, <2>2 DEF IInv
    <3> QED
      BY <1>7, <2>2, <3>1 DEF TaskInv, Registered, Served, Carried, Counted, Runs
  <2>3. CASE m # n /\ m \notin ReadLines
    <3>1. TaskInv(m) /\ post'[m] = post[m] /\ m \notin ReadLines' /\ post[m].at = "unread"
      BY <1>5, <1>8, <2>3 DEF IInv, TaskInv, Registered
    <3> QED
      BY <1>7, <2>3, <3>1 DEF TaskInv, Registered, Served, Counted, Before, Open, After
  <2> QED
    BY <2>1, <2>2, <2>3
<1> QED
  BY <1>9, <1>10, <1>11, <1>12 DEF IInv

\* Steps that leave the tasks, their applications and their answers alone.
LEMMA PumpKeeps ==
  ASSUME IInv, BadLine \/ EndOfInput \/ LifespanEnds \/ UNCHANGED vars
  PROVE  IInv'
<1>1. Types /\ ReadLines \subseteq Ids
  BY LinesRead DEF IInv
<1>2. /\ UNCHANGED <<lines, post, app, inflight, loaded, writer, answers, stray, missed>>
      /\ eof' \in BOOLEAN /\ failing' \in BOOLEAN /\ (failing => failing')
      /\ stopped \subseteq stopped' /\ stopped' \subseteq Ids
      /\ \A n \in stopped' \ stopped : n \in inflight /\ Kind(n) = "listen"
      /\ ended' \in Endings /\ ended'.bridge = ended.bridge
      /\ eof => eof'
  <2>1. CASE BadLine
    BY <1>1, <2>1 DEF BadLine, Types
  <2>2. CASE EndOfInput
    BY <1>1, <2>2 DEF EndOfInput, Subscriptions, Types
  <2>3. CASE LifespanEnds
    BY <1>1, <2>3 DEF LifespanEnds, Types, Endings
  <2>4. CASE UNCHANGED vars
    BY <1>1, <2>4 DEF vars, Types
  <2> QED
    BY <2>1, <2>2, <2>3, <2>4
<1>3. Types' /\ Named' /\ Held' /\ missed' \subseteq ReadLines' /\ CancelFinds'
  BY <1>1, <1>2 DEF IInv, Types, Named, Held, CancelFinds, Kind, ReadLines
<1>4. Stopped'
  <2>1. \A n \in inflight : n \in ReadLines
    BY <1>1 DEF IInv, Types, TaskInv, Registered
  <2> QED
    BY <1>2, <2>1 DEF IInv, Stopped, Kind, ReadLines, Cancelled
<1>5. Closing'
  BY <1>2 DEF IInv, Closing, AllOver, ReadLines, Kind, Cancelled
<1>6. ASSUME NEW n \in Ids
      PROVE  TaskInv(n)'
  <2>1. TaskInv(n)
    BY DEF IInv
  <2>2. Registered(n)' /\ Served(n)'
    BY <1>2, <2>1 DEF TaskInv, Registered, Served, Carried, Kind, ReadLines, Runs
  <2>3. Counted(n)'
    BY <1>2, <2>1 DEF TaskInv, Counted, Kind
  <2> QED
    BY <2>2, <2>3 DEF TaskInv
<1> QED
  BY <1>3, <1>4, <1>5, <1>6 DEF IInv

LEMMA BridgeEndsKeeps == ASSUME IInv, BridgeEnds PROVE IInv'
<1>1. Types /\ ReadLines \subseteq Ids
  BY LinesRead DEF IInv
<1>2. /\ UNCHANGED <<lines, eof, post, inflight, stopped, loaded, app, writer, failing, answers, stray, missed>>
      /\ (eof \/ failing) /\ AllOver
      /\ ended' = [ended EXCEPT !.bridge = IF failing THEN "error" ELSE "clean"]
  BY DEF BridgeEnds
<1>3. ended' \in Endings /\ (ended'.bridge = "clean" => ~failing)
  BY <1>1, <1>2 DEF Types, Endings
<1>4. Types' /\ Named' /\ Stopped' /\ Held' /\ missed' \subseteq ReadLines' /\ CancelFinds'
  BY <1>1, <1>2, <1>3 DEF IInv, Types, Named, Stopped, Held, CancelFinds, Kind, ReadLines, Cancelled
<1>5. Closing'
  <2> SUFFICES ASSUME ended'.bridge = "clean"
               PROVE  Closing'
    BY DEF Closing
  <2>1. ASSUME NEW n \in ReadLines, Kind(n) \in {"call", "tool"}, ~Cancelled(n)
        PROVE  answers[n] = 1
    <3>1. post[n].at = "over" /\ ~failing /\ Counted(n)
      BY <1>1, <1>2, <1>3, <2>1 DEF IInv, TaskInv, AllOver
    <3>2. n \notin stopped
      BY <2>1 DEF IInv, Stopped
    <3> QED
      BY <2>1, <3>1, <3>2 DEF Counted, After
  <2> QED
    BY <1>2, <1>3, <2>1 DEF Closing, AllOver, ReadLines, Kind, Cancelled
<1>6. ASSUME NEW n \in Ids
      PROVE  TaskInv(n)'
  <2>1. TaskInv(n)
    BY DEF IInv
  <2> QED
    BY <1>2, <2>1 DEF TaskInv, Registered, Served, Carried, Counted, Kind, ReadLines, Runs
<1> QED
  BY <1>4, <1>5, <1>6 DEF IInv

-----------------------------------------------------------------------------
(* The tasks *)

LEMMA AtMeans ==
  ASSUME Types, NEW n \in Ids, NEW at \in Before \union Open \union After, At(n, at)
  PROVE  /\ post' \in [Ids -> Posts] /\ post'[n].at = at
         /\ post'[n].hand = post[n].hand /\ post'[n].raising = post[n].raising
         /\ \A m \in Ids \ {n} : post'[m] = post[m]
<1>1. post[n] \in Posts /\ post' = [post EXCEPT ![n] = [post[n] EXCEPT !.at = at]] /\ post \in [Ids -> Posts]
  BY DEF Types, At
<1> DEFINE p == [post[n] EXCEPT !.at = at]
<1>2. p \in Posts /\ p.at = at /\ p.hand = post[n].hand /\ p.raising = post[n].raising
  BY <1>1 DEF Posts
<1> HIDE DEF p
<1> QED
  BY <1>1, <1>2 DEF p

\* A request is sent.
LEMMA SendKeeps ==
  ASSUME IInv, NEW n \in ReadLines, Sends(n), post[n].at \in {"queued", "locked", "loading"}, Kind(n) # "cancel",
         loaded' \in BOOLEAN,
         UNCHANGED <<lines, eof, ended, stopped, missed, failing, writer, answers, stray>>
  PROVE  IInv'
<1>1. Types /\ ReadLines \subseteq Ids /\ n \in Ids /\ TaskInv(n) /\ lines[n] \in Lines
  BY LinesRead DEF IInv
<1>2. /\ post' \in [Ids -> Posts] /\ post'[n].at = "waiting" /\ post'[n].hand = post[n].hand
      /\ \A m \in Ids \ {n} : post'[m] = post[m]
  <2>1. "waiting" \in Open /\ At(n, "waiting")
    BY DEF Open, Sends
  <2> QED
    BY <1>1, <2>1, AtMeans
<1>3. app[n] = NewApp
  BY <1>1 DEF TaskInv, Served, Before
<1>4. /\ app' \in [Ids -> Apps] /\ \A m \in Ids \ {n} : app'[m] = app[m]
      /\ app'[n].at = "running" /\ app'[n].form = "none" /\ app'[n].pipe = <<>>
      /\ app'[n].answered = FALSE /\ app'[n].asked = FALSE
  <2> DEFINE a == [app[n] EXCEPT !.at = "running"]
  <2>1. app' = [app EXCEPT ![n] = a] /\ app \in [Ids -> Apps]
    BY <1>1 DEF Sends, Types
  <2>2. a \in Apps /\ a.at = "running" /\ a.form = "none" /\ a.pipe = <<>> /\ a.answered = FALSE /\ a.asked = FALSE
    <3>1. app[n] \in Apps /\ app[n].form = "none" /\ app[n].pipe = <<>> /\ app[n].answered = FALSE /\ app[n].asked = FALSE
      BY <1>1, <1>3, Fields DEF NewApp
    <3> QED
      BY <3>1 DEF Apps
  <2> HIDE DEF a
  <2> QED
    BY <1>1, <2>1, <2>2
<1>5. /\ inflight' = IF Kind(n) \in Requests THEN inflight \union {n} ELSE inflight
      /\ inflight' \subseteq Ids
  BY <1>1 DEF Sends, Types
<1>6. Only(n)
  BY <1>1, <1>2, <1>4, <1>5 DEF Only, Types
<1>7. Closing'
  BY <1>1, <1>6, StaysClosed DEF IInv
<1>8. Registered(n)'
  BY <1>1, <1>2, <1>5 DEF TaskInv, Registered, Kind, ReadLines, Open
<1>9. Served(n)'
  BY <1>2, <1>4 DEF Served, Carried, Before, Open, After, Runs
<1>10. Counted(n)'
  BY <1>1, <1>2 DEF TaskInv, Counted, After, Kind
<1>11. writer' = n => post'[n].at = "writing"
  BY <1>1 DEF IInv, Held, Ids
<1> QED
  BY <1>6, <1>7, <1>8, <1>9, <1>10, <1>11, OneTask DEF TaskInv

\* A task that has not sent anything goes on waiting, or is over.
LEMMA DropKeeps ==
  ASSUME IInv, NEW n \in ReadLines, NEW at \in {"locked", "loading", "over"}, At(n, at),
         post[n].at \in {"queued", "locked", "loading"},
         IF at = "over" THEN Kind(n) \in {"call", "tool"} => failing' ELSE Kind(n) = "tool",
         failing' \in BOOLEAN, failing => failing', writer' \in {writer, 0},
         UNCHANGED <<lines, eof, ended, stopped, missed, loaded, answers, stray, inflight, app>>
  PROVE  IInv'
<1>1. Types /\ ReadLines \subseteq Ids /\ n \in Ids /\ TaskInv(n) /\ n # 0
  BY LinesRead DEF IInv, Ids
<1>2. /\ post' \in [Ids -> Posts] /\ post'[n].at = at
      /\ \A m \in Ids \ {n} : post'[m] = post[m]
  BY <1>1, AtMeans DEF Before, After
<1>3. Only(n)
  BY <1>1, <1>2 DEF Only, Types
<1>4. Closing'
  BY <1>1, <1>3, StaysClosed DEF IInv
<1>5. Registered(n)'
  BY <1>1, <1>2 DEF TaskInv, Registered, Kind, ReadLines, Open
<1>6. app[n].at = "none" /\ app[n].form = "none" /\ app[n] = NewApp
  BY <1>1 DEF TaskInv, Served, Before, NewApp
<1>7. Served(n)'
  BY <1>2, <1>6 DEF Served, Before, Open, After, Runs
<1>8. Counted(n)'
  BY <1>1, <1>2 DEF TaskInv, Counted, After, Kind
<1>9. writer' # n
  BY <1>1 DEF IInv, Held
<1> QED
  BY <1>3, <1>4, <1>5, <1>7, <1>8, <1>9, OneTask DEF TaskInv

LEMMA CancelsKeeps ==
  ASSUME IInv, NEW n \in ReadLines, Turn(n), Kind(n) = "cancel", Cancels(n),
         UNCHANGED <<lines, eof, ended, loaded, failing, writer, answers, stray>>
  PROVE  IInv'
<1>1. Types /\ ReadLines \subseteq Ids /\ n \in Ids /\ TaskInv(n) /\ lines[n] \in Lines /\ post[n].at = "queued"
  BY LinesRead DEF IInv, Turn
<1> PICK of \in Ids : of = lines[n].of
  BY <1>1 DEF Lines
<1>2. /\ stopped' = stopped \union (inflight \intersect {of})
      /\ missed' = IF of \in inflight \/ post[of].at = "over" THEN missed ELSE missed \union {of}
      /\ At(n, "over") /\ UNCHANGED <<inflight, app>>
  BY DEF Cancels
<1>3. of < n /\ Kind(of) \in Requests
  BY DEF IInv, Named
<1>4. of \in ReadLines /\ post[of].at # "queued" /\ TaskInv(of)
  BY <1>1, <1>3, LinesRead DEF IInv, Turn, ReadLines, Ids
<1>5. of \in inflight \/ post[of].at = "over" \/ Kind(of) = "tool"
  BY <1>1, <1>3, <1>4, Fields DEF TaskInv, Registered, Before, After
<1>6. /\ post' \in [Ids -> Posts] /\ post'[n].at = "over"
      /\ \A m \in Ids \ {n} : post'[m] = post[m]
  <2>1. "over" \in After
    BY DEF After
  <2> QED
    BY <1>1, <1>2, <2>1, AtMeans
<1>7. Only(n)
  BY <1>1, <1>2, <1>6 DEF Only, Types
<1>8. Closing'
  BY <1>1, <1>7, StaysClosed DEF IInv
<1>9. Types'
  BY <1>1, <1>2, <1>7 DEF Types, Only
<1>10. Named' /\ missed' \subseteq ReadLines' /\ CancelFinds'
  BY <1>2, <1>4, <1>5 DEF IInv, Named, CancelFinds, Kind, ReadLines
<1>11. Stopped'
  <2>1. Cancelled(of)
    BY DEF Cancelled
  <2> QED
    BY <1>2, <1>4, <2>1 DEF IInv, Stopped, Kind, ReadLines, Cancelled
<1>12. Held'
  BY <1>1, <1>6 DEF IInv, Held, Types
<1>13. TaskInv(n)'
  <2>1. app[n] = NewApp
    BY <1>1 DEF TaskInv, Served, Before
  <2>2. app[n].at = "none" /\ app[n].form = "none"
    BY <2>1 DEF NewApp
  <2>3. Registered(n)'
    BY <1>1, <1>2, <1>6 DEF TaskInv, Registered, Kind, ReadLines, Open, Requests
  <2>4. Served(n)'
    BY <1>2, <1>6, <2>2 DEF Served, Before, Open, After, Runs
  <2>5. Counted(n)'
    BY <1>1, <1>2, <1>6 DEF TaskInv, Counted, After, Kind
  <2> QED
    BY <2>3, <2>4, <2>5 DEF TaskInv
<1>14. \A m \in Ids : TaskInv(m)'
  BY <1>1, <1>2, <1>7, <1>13, OthersKeep DEF IInv
<1> QED
  BY <1>8, <1>9, <1>10, <1>11, <1>12, <1>14 DEF IInv

LEMMA BeginKeeps ==
  ASSUME IInv, NEW n \in ReadLines, Begin(n) \/ Lock(n) \/ Load(n)
  PROVE  IInv'
<1>1. Types /\ n \in Ids /\ TaskInv(n) /\ failing \in BOOLEAN
  BY LinesRead DEF IInv, Types
<1>2. CASE Begin(n)
  <2>1. Turn(n) /\ post[n].at = "queued" /\ UNCHANGED <<loaded, writer, failing, lines, eof, answers, stray, ended>>
    BY <1>2 DEF Begin, Turn, Stays
  <2>2. CASE Kind(n) = "cancel"
    <3>1. Cancels(n)
      BY <1>2, <2>2 DEF Begin
    <3> QED
      BY <2>1, <2>2, <3>1, CancelsKeeps
  <2>3. CASE Kind(n) # "cancel" /\ TooLate(n)
    <3>1. At(n, "over") /\ UNCHANGED <<inflight, stopped, missed, app>> /\ Kind(n) = "listen"
      BY <1>2, <2>3 DEF Begin, TooLate
    <3> QED
      BY <1>1, <2>1, <3>1, DropKeeps
  <2>4. CASE Kind(n) = "tool" /\ ~TooLate(n) /\ ~loaded
    <3>1. At(n, "locked") /\ UNCHANGED <<inflight, stopped, missed, app>>
      BY <1>2, <2>4 DEF Begin
    <3> QED
      BY <1>1, <2>1, <2>4, <3>1, DropKeeps
  <2>5. CASE Kind(n) # "cancel" /\ ~TooLate(n) /\ ~(Kind(n) = "tool" /\ ~loaded)
    <3>1. Sends(n) /\ UNCHANGED <<stopped, missed>>
      BY <1>2, <2>5 DEF Begin
    <3>2. loaded' \in BOOLEAN
      BY <1>1, <2>1 DEF Types
    <3> QED
      BY <2>1, <2>5, <3>1, <3>2, SendKeeps
  <2> QED
    BY <2>2, <2>3, <2>4, <2>5
<1>3. CASE Lock(n)
  <2>1. /\ post[n].at = "locked" /\ Kind(n) = "tool"
        /\ UNCHANGED <<stopped, missed, loaded, writer, failing, lines, eof, answers, stray, ended>>
    BY <1>1, <1>3 DEF Lock, Stays, TaskInv, Registered
  <2>2. CASE loaded
    <3>1. Sends(n) /\ loaded' \in BOOLEAN
      BY <1>1, <1>3, <2>1, <2>2 DEF Lock, Types
    <3> QED
      BY <2>1, <3>1, SendKeeps
  <2>3. CASE ~loaded
    <3>1. At(n, "loading") /\ UNCHANGED <<inflight, app>>
      BY <1>3, <2>3 DEF Lock
    <3> QED
      BY <1>1, <2>1, <3>1, DropKeeps
  <2> QED
    BY <2>2, <2>3
<1>4. CASE Loads(n)
  <2>1. /\ post[n].at = "loading" /\ Kind(n) = "tool" /\ Sends(n) /\ loaded' \in BOOLEAN
        /\ UNCHANGED <<stopped, missed, writer, failing, lines, eof, answers, stray, ended>>
    BY <1>1, <1>4 DEF Loads, Stays, TaskInv, Registered
  <2> QED
    BY <2>1, SendKeeps
<1>5. CASE LoadFails(n)
  <2>1. /\ post[n].at = "loading" /\ At(n, "over") /\ failing' = TRUE
        /\ UNCHANGED <<inflight, app, stopped, missed, loaded, writer, lines, eof, answers, stray, ended>>
    BY <1>5 DEF LoadFails, Stays
  <2> QED
    BY <2>1, DropKeeps
<1> QED
  BY <1>2, <1>3, <1>4, <1>5 DEF Load

-----------------------------------------------------------------------------
(* The applications *)

LEMMA AppKeeps ==
  ASSUME IInv, NEW n \in ReadLines, NEW a \in Apps, app' = [app EXCEPT ![n] = a], AppOnly, Served(n)'
  PROVE  IInv'
<1>1. Types /\ ReadLines \subseteq Ids /\ n \in Ids /\ TaskInv(n) /\ n # 0
  BY LinesRead DEF IInv, Ids
<1>2. UNCHANGED <<lines, eof, post, inflight, stopped, loaded, writer, failing, answers, stray, missed, ended>>
  BY DEF AppOnly
<1>3. Only(n)
  BY <1>1, <1>2 DEF Only, Types
<1>4. Closing'
  BY <1>1, <1>2, <1>3, StaysClosed DEF IInv
<1>5. Registered(n)' /\ Counted(n)'
  BY <1>1, <1>2 DEF TaskInv, Registered, Counted, Kind, ReadLines
<1>6. writer' = n => post'[n].at = "writing"
  BY <1>1, <1>2 DEF IInv, Held
<1> QED
  BY <1>2, <1>3, <1>4, <1>5, <1>6, OneTask DEF TaskInv

LEMMA StartsKeeps == ASSUME IInv, NEW n \in ReadLines, Starts(n) PROVE IInv'
<1>1. Types /\ ReadLines \subseteq Ids /\ n \in Ids /\ TaskInv(n) /\ app[n] \in Apps
  BY LinesRead, Fields DEF IInv
<1> PICK form \in {"json", "sse", "accepted", "error", "denied"} :
      /\ form = "accepted" => Kind(n) = "notify"
      /\ app' = [app EXCEPT ![n].form = form, ![n].at = IF form = "denied" THEN "done" ELSE @]
  BY DEF Starts
<1> DEFINE a == [app[n] EXCEPT !.form = form, !.at = IF form = "denied" THEN "done" ELSE app[n].at]
<1>2. app' = [app EXCEPT ![n] = a]
  BY <1>1 DEF Types
<1>3. /\ a \in Apps /\ a.form = form /\ a.pipe = app[n].pipe /\ a.answered = app[n].answered /\ a.asked = app[n].asked
      /\ a.at = "done" => app[n].at = "done" \/ form = "denied"
  BY <1>1 DEF Apps
<1> HIDE DEF a
<1>4. app'[n] = a /\ post' = post /\ lines' = lines
  BY <1>1, <1>2 DEF Types, Starts, AppOnly
<1>5. post[n].at = "waiting" /\ app[n].at = "running" /\ app[n].form = "none"
  BY DEF Starts, Runs
<1>6. /\ ~app[n].asked /\ app[n].pipe # <<"note">>
      /\ app[n].answered => app[n].pipe = <<"answer">>
  BY <1>1, <1>5 DEF TaskInv, Served, Carried, Open
<1>7. Served(n)'
  BY <1>3, <1>4, <1>5, <1>6 DEF Served, Carried, Before, Open, After, Body, Kind
<1> QED
  BY <1>2, <1>3, <1>7, AppKeeps DEF Starts

LEMMA SendsBodyKeeps == ASSUME IInv, NEW n \in ReadLines, SendsBody(n) PROVE IInv'
<1>1. Types /\ ReadLines \subseteq Ids /\ n \in Ids /\ TaskInv(n) /\ app[n] \in Apps
  BY LinesRead, Fields DEF IInv
<1> PICK chunk \in {"note", "answer"} :
      /\ chunk = "note" => app[n].form = "sse"
      /\ app' = [app EXCEPT ![n].pipe = <<chunk>>, ![n].answered = chunk = "answer"]
  BY DEF SendsBody
<1> DEFINE answer == chunk = "answer"
           a == [app[n] EXCEPT !.pipe = <<chunk>>, !.answered = answer]
<1>2. app' = [app EXCEPT ![n] = a]
  BY <1>1 DEF Types
<1>3. <<chunk>> \in Chunks /\ answer \in BOOLEAN
  BY DEF Chunks
<1>4. /\ a \in Apps /\ a.form = app[n].form /\ a.pipe = <<chunk>> /\ a.answered = answer /\ a.asked = app[n].asked
      /\ a.at = app[n].at
  <2> HIDE DEF answer
  <2> DEFINE pipe == <<chunk>>
  <2>1. pipe \in Chunks
    BY <1>3
  <2> HIDE DEF pipe
  <2>2. [app[n] EXCEPT !.pipe = pipe, !.answered = answer] \in Apps
    BY <1>1, <1>3, <2>1 DEF Apps
  <2> QED
    BY <1>1, <2>2 DEF pipe, Apps
<1> HIDE DEF a
<1>5. app'[n] = a /\ post' = post /\ lines' = lines
  BY <1>1, <1>2 DEF Types, SendsBody, AppOnly
<1>6. app[n].at = "running" /\ app[n].form \in Body /\ ~app[n].asked
  BY DEF SendsBody, Runs
<1>7. post[n].at \in Open
  <2>1. app[n] # NewApp /\ app[n].form # "none"
    BY <1>6 DEF NewApp, Body
  <2> QED
    BY <1>1, <2>1, Fields DEF TaskInv, Served
<1>8. /\ post[n].at = "writing" /\ app[n].form = "json" => post[n].hand = "answer"
      /\ app[n].form = "accepted" => Kind(n) = "notify"
  BY <1>1, <1>7 DEF TaskInv, Served
<1>9. answer => <<chunk>> = <<"answer">> /\ chunk # "note"
  OBVIOUS
<1>10. ~answer => <<chunk>> = <<"note">> /\ app[n].form = "sse"
  OBVIOUS
<1>11. Carried(n)'
  <2>1. <<"answer">> # <<"note">>
    OBVIOUS
  <2> QED
    BY <1>4, <1>5, <1>6, <1>9, <1>10, <2>1 DEF Carried, Body
<1>12. Served(n)'
  BY <1>4, <1>5, <1>6, <1>7, <1>8, <1>11 DEF Served, Before, Open, After, Body, Kind
<1> QED
  BY <1>2, <1>4, <1>12, AppKeeps DEF SendsBody

LEMMA EndsKeeps == ASSUME IInv, NEW n \in ReadLines, Ends(n) PROVE IInv'
<1>1. Types /\ ReadLines \subseteq Ids /\ n \in Ids /\ TaskInv(n) /\ app[n] \in Apps
  BY LinesRead, Fields DEF IInv
<1> PICK how \in {"done", "failed"} :
      /\ how = "done" /\ ~app[n].asked =>
            app[n].form # "none" /\ (app[n].form \in Body => app[n].answered)
      /\ app' = [app EXCEPT ![n].at = how]
  BY DEF Ends, Over
<1> DEFINE a == [app[n] EXCEPT !.at = how]
<1>2. app' = [app EXCEPT ![n] = a]
  BY <1>1 DEF Types
<1>3. /\ a \in Apps /\ a.form = app[n].form /\ a.pipe = app[n].pipe /\ a.answered = app[n].answered
      /\ a.asked = app[n].asked /\ a.at = how
  BY <1>1 DEF Apps
<1> HIDE DEF a
<1>4. app'[n] = a /\ post' = post /\ lines' = lines
  BY <1>1, <1>2 DEF Types, Ends, AppOnly
<1>5. post[n].at \notin Before
  <2>1. app[n] # NewApp
    BY DEF Ends, Runs, NewApp
  <2> QED
    BY <1>1, <2>1 DEF TaskInv, Served
<1>6. Carried(n) => Carried(n)'
  BY <1>3, <1>4 DEF Carried
<1>7. Served(n)'
  BY <1>1, <1>3, <1>4, <1>5, <1>6 DEF TaskInv, Served, Runs, Kind
<1> QED
  BY <1>2, <1>3, <1>7, AppKeeps DEF Ends

LEMMA ApplicationKeeps == ASSUME IInv, NEW n \in ReadLines, Application(n) PROVE IInv'
BY StartsKeeps, SendsBodyKeeps, EndsKeeps DEF Application

-----------------------------------------------------------------------------
(* The responses *)

LEMMA RespondsKeeps == ASSUME IInv, NEW n \in ReadLines, Responds(n) PROVE IInv'
<1>1. Types /\ ReadLines \subseteq Ids /\ n \in Ids /\ TaskInv(n) /\ app[n] \in Apps /\ post[n] \in Posts /\ n # 0
  BY LinesRead, Fields DEF IInv, Ids
<1>2. /\ post[n].at = "waiting" /\ app[n].form # "none"
      /\ UNCHANGED <<writer, answers, stray, lines, eof, inflight, stopped, loaded, missed, failing, ended>>
  BY DEF Responds, Rest
<1>3. writer # n
  BY <1>1, <1>2 DEF IInv, Held
<1>4. /\ ~app[n].asked /\ Carried(n)
      /\ app[n].form = "accepted" => Kind(n) = "notify"
      /\ app[n].at = "done" => app[n].form # "none" /\ (app[n].form \in Body => app[n].answered)
  BY <1>1, <1>2 DEF TaskInv, Served, Open
<1>5. CASE app[n].form \in Body
  <2> DEFINE p == [post[n] EXCEPT !.at = "reading", !.retried = FALSE]
  <2>1. post' = [post EXCEPT ![n] = p] /\ app' = app
    BY <1>1, <1>5 DEF Responds, Types, Body
  <2>2. p \in Posts /\ p.at = "reading" /\ p.raising = post[n].raising
    BY <1>1 DEF Posts, Open
  <2> HIDE DEF p
  <2>3. post' \in [Ids -> Posts] /\ post'[n] = p /\ \A m \in Ids \ {n} : post'[m] = post[m]
    BY <1>1, <2>1, <2>2 DEF Types
  <2>4. Only(n)
    BY <1>1, <1>2, <2>1, <2>3 DEF Only, Types
  <2>5. Closing'
    BY <1>1, <1>2, <2>4, StaysClosed DEF IInv
  <2>6. Registered(n)' /\ Counted(n)'
    BY <1>1, <1>2, <2>2, <2>3 DEF TaskInv, Registered, Counted, Kind, ReadLines, Open, After
  <2>7. Served(n)'
    BY <1>2, <1>4, <1>5, <2>1, <2>2, <2>3 DEF Served, Carried, Before, Open, After, Kind
  <2> QED
    BY <1>2, <1>3, <2>4, <2>5, <2>6, <2>7, OneTask DEF TaskInv
<1>6. CASE app[n].form = "denied" /\ ~post[n].retried
  <2> DEFINE p == [post[n] EXCEPT !.retried = TRUE]
             a == [NewApp EXCEPT !.at = "running"]
  <2>1. post' = [post EXCEPT ![n] = p] /\ app' = [app EXCEPT ![n] = a]
    BY <1>1, <1>6 DEF Responds, Types, Body
  <2>2. p \in Posts /\ p.at = "waiting" /\ p.raising = post[n].raising
    BY <1>1, <1>2 DEF Posts
  <2>3. a \in Apps /\ a.at = "running" /\ a.form = "none" /\ a.pipe = <<>> /\ a.answered = FALSE /\ a.asked = FALSE
    BY DEF Apps, NewApp, Chunks
  <2> HIDE DEF p, a
  <2>4. /\ post' \in [Ids -> Posts] /\ post'[n] = p /\ \A m \in Ids \ {n} : post'[m] = post[m]
        /\ app' \in [Ids -> Apps] /\ app'[n] = a /\ \A m \in Ids \ {n} : app'[m] = app[m]
    BY <1>1, <2>1, <2>2, <2>3 DEF Types
  <2>5. Only(n)
    BY <1>1, <1>2, <2>4 DEF Only, Types
  <2>6. Closing'
    BY <1>1, <1>2, <2>5, StaysClosed DEF IInv
  <2>7. Registered(n)' /\ Counted(n)'
    BY <1>1, <1>2, <2>2, <2>4 DEF TaskInv, Registered, Counted, Kind, ReadLines, Open, After
  <2>8. Served(n)'
    <3>1. <<>> # <<"note">>
      OBVIOUS
    <3> QED
      BY <2>2, <2>3, <2>4, <3>1 DEF Served, Carried, Before, Open, After, Kind
  <2> QED
    BY <1>2, <1>3, <2>5, <2>6, <2>7, <2>8, OneTask DEF TaskInv
<1>7. CASE app[n].form \notin Body /\ ~(app[n].form = "denied" /\ ~post[n].retried)
  <2>1. Closes(n, app[n].form # "accepted")
    BY <1>7 DEF Responds
  <2>2. answers[n] = 0 /\ n \notin stray /\ (Kind(n) \in {"call", "tool"} => app[n].form # "accepted")
    BY <1>1, <1>2, <1>4 DEF TaskInv, Counted, After
  <2>3. answers' \in [Ids -> Nat] /\ stray' \subseteq Ids /\ (app[n].form # "accepted") \in BOOLEAN
    BY <1>1, <1>2 DEF Types
  <2> DEFINE raises == app[n].form # "accepted"
  <2>4. raises \in BOOLEAN /\ Closes(n, raises) /\ (Kind(n) \in {"call", "tool"} => raises)
    BY <2>1, <2>2
  <2> HIDE DEF raises
  <2> QED
    BY <1>2, <1>3, <2>2, <2>3, <2>4, CloseKeeps DEF Open
<1> QED
  BY <1>5, <1>6, <1>7

LEMMA FailsKeeps ==
  ASSUME IInv, NEW n \in ReadLines, NoResponse(n) \/ TimesOut(n)
  PROVE  IInv'
<1>1. Types /\ ReadLines \subseteq Ids /\ n \in Ids /\ TaskInv(n) /\ n # 0
  BY LinesRead DEF IInv, Ids
<1>2. /\ Closes(n, TRUE) /\ post[n].at \in {"waiting", "reading"}
      /\ UNCHANGED <<writer, answers, stray, lines, eof, inflight, stopped, loaded, missed, failing, ended>>
  BY DEF NoResponse, TimesOut, Rest
<1>3. answers[n] = 0 /\ n \notin stray
  BY <1>1, <1>2 DEF TaskInv, Counted, After
<1>4. writer # n
  BY <1>1, <1>2 DEF IInv, Held
<1>5. /\ answers' \in [Ids -> Nat] /\ stray' \subseteq Ids
      /\ answers'[n] + (IF n \in stray' THEN 1 ELSE 0) <= 1
  BY <1>1, <1>2, <1>3 DEF Types
<1>6. post[n].at \in Open
  BY <1>2 DEF Open
<1> QED
  BY <1>1, <1>2, <1>4, <1>5, <1>6, CloseKeeps

\* What is in the hand of a task is written, or read on.
LEMMA HandKeeps ==
  ASSUME IInv, NEW n \in ReadLines, NEW p \in Posts, NEW a \in Apps,
         post' = [post EXCEPT ![n] = p], app' = [app EXCEPT ![n] = a],
         post[n].at \in {"reading", "writing"}, p.at \in {"reading", "writing"},
         a.form = app[n].form, a.at = app[n].at, a.asked = app[n].asked, a.answered = app[n].answered,
         Carried(n)', p.at = "writing" /\ a.form = "json" => p.hand = "answer",
         writer' \in {writer, 0, n}, writer' = n => p.at = "writing",
         UNCHANGED <<lines, eof, inflight, stopped, loaded, missed, failing, ended, answers, stray>>
  PROVE  IInv'
<1>1. Types /\ ReadLines \subseteq Ids /\ n \in Ids /\ TaskInv(n)
  BY LinesRead DEF IInv
<1>2. /\ post' \in [Ids -> Posts] /\ post'[n] = p /\ \A m \in Ids \ {n} : post'[m] = post[m]
      /\ app' \in [Ids -> Apps] /\ app'[n] = a /\ \A m \in Ids \ {n} : app'[m] = app[m]
  BY <1>1 DEF Types
<1>3. Only(n)
  BY <1>1, <1>2 DEF Only, Types
<1>4. Closing'
  BY <1>1, <1>3, StaysClosed DEF IInv
<1>5. Registered(n)' /\ Counted(n)'
  BY <1>1, <1>2 DEF TaskInv, Registered, Counted, Kind, ReadLines, Open, After
<1>6. Served(n)'
  BY <1>1, <1>2 DEF TaskInv, Served, Before, Open, After, Kind, Body
<1> QED
  BY <1>2, <1>3, <1>4, <1>5, <1>6, OneTask DEF TaskInv

LEMMA TakesKeeps == ASSUME IInv, NEW n \in ReadLines, Takes(n) PROVE IInv'
<1>1. Types /\ ReadLines \subseteq Ids /\ n \in Ids /\ TaskInv(n) /\ app[n] \in Apps /\ post[n] \in Posts /\ n # 0
  BY LinesRead, Fields DEF IInv, Ids
<1>2. /\ post[n].at = "reading" /\ app[n].pipe # <<>>
      /\ UNCHANGED <<writer, answers, stray, lines, eof, inflight, stopped, loaded, missed, failing, ended>>
  BY DEF Takes, Rest
<1>3. Carried(n) /\ app[n].form \in Body /\ writer # n
  BY <1>1, <1>2 DEF IInv, TaskInv, Served, Held, Open
<1>4. app[n].pipe \in {<<"note">>, <<"answer">>}
  BY <1>1, <1>2 DEF Apps, Chunks
<1> DEFINE chunk == Head(app[n].pipe)
           p == [post[n] EXCEPT !.hand = chunk, !.at = IF app[n].form = "sse" THEN "writing" ELSE "reading"]
           a == [app[n] EXCEPT !.pipe = <<>>]
<1>5. chunk \in {"note", "answer"} /\ app[n].pipe = <<chunk>>
  BY <1>4
<1>6. post' = [post EXCEPT ![n] = p] /\ app' = [app EXCEPT ![n] = a]
  BY <1>1, <1>2 DEF Takes, Types
<1> HIDE DEF chunk
<1>7. p \in Posts /\ p.hand = chunk /\ p.at = IF app[n].form = "sse" THEN "writing" ELSE "reading"
  BY <1>1, <1>5 DEF Posts, Open
<1>8. /\ a \in Apps /\ a.form = app[n].form /\ a.at = app[n].at /\ a.asked = app[n].asked
      /\ a.answered = app[n].answered /\ a.pipe = <<>>
  BY <1>1 DEF Apps, Chunks
<1> HIDE DEF p, a
<1>9. <<>> # <<"note">> /\ <<"note">> # <<"answer">>
  OBVIOUS
<1>10. /\ app[n].form = "json" => chunk = "answer"
       /\ app[n].answered => chunk = "answer" \/ (app[n].form = "json" /\ post[n].hand = "answer")
  <2>1. chunk = "note" => app[n].pipe = <<"note">>
    BY <1>5
  <2>2. app[n].pipe = <<"answer">> => chunk = "answer"
    BY <1>5, <1>9, <2>1
  <2> QED
    BY <1>2, <1>3, <1>5, <2>1, <2>2 DEF Carried
<1>11. post'[n] = p /\ app'[n] = a
  BY <1>1, <1>6 DEF Types
<1>12. Carried(n)'
  BY <1>3, <1>7, <1>8, <1>9, <1>10, <1>11 DEF Carried, Body
<1> QED
  BY <1>2, <1>3, <1>6, <1>7, <1>8, <1>10, <1>12, HandKeeps

LEMMA DrainsKeeps == ASSUME IInv, NEW n \in ReadLines, Drains(n) PROVE IInv'
<1>1. Types /\ ReadLines \subseteq Ids /\ n \in Ids /\ TaskInv(n) /\ app[n] \in Apps /\ post[n] \in Posts /\ n # 0
  BY LinesRead, Fields DEF IInv, Ids
<1>2. /\ post[n].at = "reading" /\ app[n].pipe = <<>> /\ app[n].at \in {"done", "failed"}
      /\ UNCHANGED <<writer, answers, stray, lines, eof, inflight, stopped, loaded, missed, failing, ended>>
  BY DEF Drains, Rest, Over
<1>3. Carried(n) /\ app[n].form \in Body /\ writer # n /\ (app[n].at = "done" => app[n].answered)
  BY <1>1, <1>2 DEF IInv, TaskInv, Served, Held, Open
<1>4. app[n].at = "done" => app[n].form = "json" /\ post[n].hand = "answer"
  <2>1. app[n].pipe # <<"answer">>
    BY <1>2
  <2> QED
    BY <1>2, <1>3, <2>1 DEF Carried
<1>5. CASE app[n].at = "done"
  <2> DEFINE p == [post[n] EXCEPT !.at = "writing"]
  <2>1. post' = [post EXCEPT ![n] = p] /\ app' = [app EXCEPT ![n] = app[n]]
    BY <1>1, <1>4, <1>5 DEF Drains, Types, At
  <2>2. p \in Posts /\ p.at = "writing" /\ p.hand = "answer"
    BY <1>1, <1>4, <1>5 DEF Posts, Open
  <2> HIDE DEF p
  <2>3. post'[n] = p /\ app'[n] = app[n]
    BY <1>1, <2>1 DEF Types
  <2>4. Carried(n)'
    BY <1>3, <2>2, <2>3 DEF Carried
  <2> QED
    BY <1>1, <1>2, <1>3, <2>1, <2>2, <2>4, HandKeeps
<1>6. CASE app[n].at # "done"
  <2>1. Closes(n, app[n].at = "failed") /\ app[n].at = "failed"
    BY <1>2, <1>6 DEF Drains
  <2>2. Closes(n, TRUE)
    BY <2>1
  <2>3. answers[n] = 0 /\ n \notin stray
    BY <1>1, <1>2 DEF TaskInv, Counted, After
  <2>4. /\ answers' \in [Ids -> Nat] /\ stray' \subseteq Ids
        /\ answers'[n] + (IF n \in stray' THEN 1 ELSE 0) <= 1
    BY <1>1, <1>2, <2>3 DEF Types
  <2>5. post[n].at \in Open
    BY <1>2 DEF Open
  <2> QED
    BY <1>1, <1>2, <1>3, <2>2, <2>4, <2>5, CloseKeeps
<1> QED
  BY <1>5, <1>6

LEMMA TakesLockKeeps == ASSUME IInv, NEW n \in ReadLines, TakesLock(n) PROVE IInv'
<1>1. Types /\ ReadLines \subseteq Ids /\ n \in Ids /\ TaskInv(n) /\ app[n] \in Apps /\ post[n] \in Posts
  BY LinesRead, Fields DEF IInv
<1>2. /\ post[n].at = "writing" /\ writer' = n
      /\ UNCHANGED <<post, app, answers, stray, lines, eof, inflight, stopped, loaded, missed, failing, ended>>
  BY DEF TakesLock, Rest
<1>3. post' = [post EXCEPT ![n] = post[n]] /\ app' = [app EXCEPT ![n] = app[n]]
  BY <1>1, <1>2 DEF Types
<1>4. Carried(n)' /\ (app[n].form = "json" => post[n].hand = "answer")
  BY <1>1, <1>2 DEF TaskInv, Served, Carried, Open
<1> QED
  BY <1>1, <1>2, <1>3, <1>4, HandKeeps

LEMMA WritesKeeps == ASSUME IInv, NEW n \in ReadLines, Writes(n) PROVE IInv'
<1>1. Types /\ ReadLines \subseteq Ids /\ n \in Ids /\ TaskInv(n) /\ app[n] \in Apps /\ post[n] \in Posts /\ n # 0
  BY LinesRead, Fields DEF IInv, Ids
<1>2. /\ post[n].at = "writing" /\ writer' = 0
      /\ UNCHANGED <<stray, lines, eof, inflight, stopped, loaded, missed, failing, ended>>
  BY DEF Writes, Rest
<1>3. CASE post[n].hand = "answer"
  <2>1. Closes(n, FALSE) /\ answers' = [answers EXCEPT ![n] = @ + 1]
    BY <1>3 DEF Writes
  <2>2. answers[n] = 0 /\ n \notin stray
    BY <1>1, <1>2 DEF TaskInv, Counted, After
  <2>3. answers' \in [Ids -> Nat] /\ answers'[n] = 1 /\ \A m \in Ids \ {n} : answers'[m] = answers[m]
    BY <1>1, <2>1, <2>2 DEF Types
  <2>4. /\ stray' \subseteq Ids /\ answers'[n] + (IF n \in stray' THEN 1 ELSE 0) <= 1
        /\ \A m \in Ids \ {n} : answers'[m] = answers[m] /\ (m \in stray' <=> m \in stray)
    BY <1>1, <1>2, <2>2, <2>3 DEF Types
  <2>5. post[n].at \in Open
    BY <1>2 DEF Open
  <2> QED
    BY <1>1, <1>2, <2>1, <2>3, <2>4, <2>5, CloseKeeps
<1>4. CASE post[n].hand # "answer"
  <2> DEFINE p == [post[n] EXCEPT !.at = "reading"]
  <2>1. post' = [post EXCEPT ![n] = p] /\ app' = [app EXCEPT ![n] = app[n]] /\ answers' = answers
    BY <1>1, <1>4 DEF Writes, Types, At
  <2>2. p \in Posts /\ p.at = "reading" /\ p.hand = post[n].hand
    BY <1>1 DEF Posts, Open
  <2> HIDE DEF p
  <2>3. post'[n] = p /\ app'[n] = app[n]
    BY <1>1, <2>1 DEF Types
  <2>4. Carried(n)'
    BY <1>1, <1>2, <1>4, <2>2, <2>3 DEF TaskInv, Served, Carried, Open
  <2> QED
    BY <1>1, <1>2, <2>1, <2>2, <2>4, HandKeeps
<1> QED
  BY <1>3, <1>4

LEMMA WritesLateKeeps == ASSUME IInv, NEW n \in ReadLines, WritesLate(n) PROVE IInv'
<1>1. Types /\ ReadLines \subseteq Ids /\ n \in Ids /\ TaskInv(n) /\ n # 0 /\ answers[n] \in Nat
  BY LinesRead, Fields DEF IInv, Ids
<1>2. /\ n \in stray /\ stray' = stray \ {n} /\ answers' = [answers EXCEPT ![n] = @ + 1]
      /\ UNCHANGED <<post, app, writer, lines, eof, inflight, stopped, loaded, missed, failing, ended>>
  BY DEF WritesLate, Rest
<1>3. answers[n] = 0 /\ post[n].at \in After
  BY <1>1, <1>2 DEF TaskInv, Counted
<1>4. answers' \in [Ids -> Nat] /\ answers'[n] = 1 /\ \A m \in Ids \ {n} : answers'[m] = answers[m]
  BY <1>1, <1>2, <1>3 DEF Types
<1>5. Only(n)
  BY <1>1, <1>2, <1>4 DEF Only, Types
<1>6. Closing'
  <2>1. ASSUME NEW m \in ReadLines, ended.bridge = "clean", Kind(m) \in {"call", "tool"}, ~Cancelled(m)
        PROVE  answers'[m] = 1
    BY <1>1, <1>4, <2>1 DEF IInv, Closing
  <2> QED
    BY <1>2, <2>1 DEF IInv, Closing, AllOver, ReadLines, Kind, Cancelled
<1>7. TaskInv(n)'
  BY <1>1, <1>2, <1>3, <1>4 DEF TaskInv, Registered, Served, Carried, Counted, Kind, ReadLines, Runs
<1>8. writer' = n => post'[n].at = "writing"
  BY <1>1, <1>2 DEF IInv, Held
<1> QED
  BY <1>2, <1>5, <1>6, <1>7, <1>8, OneTask

LEMMA FinishesKeeps == ASSUME IInv, NEW n \in ReadLines, Closed(n) \/ GivesUp(n) PROVE IInv'
<1>1. Types /\ ReadLines \subseteq Ids /\ n \in Ids /\ TaskInv(n) /\ n # 0
  BY LinesRead DEF IInv, Ids
<1> DEFINE p == [NewPost EXCEPT !.at = "over"]
<1>2. /\ post[n].at = "closing" /\ post' = [post EXCEPT ![n] = p] /\ inflight' = inflight \ {n}
      /\ failing' = (failing \/ post[n].raising \/ app[n].at = "failed")
      /\ UNCHANGED <<lines, eof, stopped, loaded, writer, missed, answers, stray, app, ended>>
  BY DEF Closed, GivesUp, Finishes
<1>3. p \in Posts /\ p.at = "over"
  BY DEF Posts, NewPost, After
<1> HIDE DEF p
<1>4. post' \in [Ids -> Posts] /\ post'[n].at = "over" /\ \A m \in Ids \ {n} : post'[m] = post[m]
  BY <1>1, <1>2, <1>3 DEF Types
<1>5. failing' \in BOOLEAN /\ (failing => failing') /\ (post[n].raising => failing')
  BY <1>1, <1>2, Fields DEF Types
<1>6. Only(n)
  BY <1>1, <1>2, <1>4, <1>5 DEF Only, Types
<1>7. Closing'
  BY <1>1, <1>2, <1>6, StaysClosed DEF IInv
<1>8. Registered(n)'
  BY <1>1, <1>2, <1>4 DEF TaskInv, Registered, Kind, ReadLines, Open
<1>9. Served(n)'
  BY <1>1, <1>2, <1>4 DEF TaskInv, Served, Before, Open, After, Runs
<1>10. Counted(n)'
  BY <1>1, <1>2, <1>4, <1>5 DEF TaskInv, Counted, Kind, After
<1>11. writer' # n
  BY <1>1, <1>2 DEF IInv, Held
<1> QED
  BY <1>2, <1>6, <1>7, <1>8, <1>9, <1>10, <1>11, OneTask DEF TaskInv

LEMMA InterruptedKeeps == ASSUME IInv, NEW n \in ReadLines, Interrupted(n) PROVE IInv'
<1>1. Types /\ ReadLines \subseteq Ids /\ n \in Ids /\ TaskInv(n) /\ n # 0 /\ failing \in BOOLEAN
  BY LinesRead DEF IInv, Ids, Types
<1>2. UNCHANGED <<lines, eof, stopped, loaded, failing, missed, answers, ended>>
  BY DEF Interrupted
<1>3. CASE post[n].at \in {"locked", "loading"}
  <2>1. writer # n
    BY <1>1, <1>3 DEF IInv, Held
  <2>2. failing /\ At(n, "over") /\ UNCHANGED <<inflight, app, writer, stray>>
    BY <1>3, <2>1 DEF Interrupted
  <2> QED
    BY <1>1, <1>2, <1>3, <2>2, DropKeeps
<1>4. CASE post[n].at \notin {"locked", "loading"}
  <2>1. /\ post[n].at \in Open /\ (failing \/ n \in stopped) /\ Closes(n, FALSE) /\ inflight' = inflight
        /\ writer' = IF writer = n THEN 0 ELSE writer
        /\ stray' = IF writer = n /\ post[n].hand = "answer" THEN stray \union {n} ELSE stray
    BY <1>4 DEF Interrupted, Aborts, Open
  <2>2. answers[n] = 0 /\ n \notin stray
    BY <1>1, <2>1 DEF TaskInv, Counted, Open, After
  <2>3. answers' \in [Ids -> Nat] /\ stray' \subseteq Ids
    BY <1>1, <1>2, <2>1 DEF Types
  <2>4. \A m \in Ids \ {n} : answers'[m] = answers[m] /\ (m \in stray' <=> m \in stray)
    BY <1>2, <2>1
  <2>5. answers'[n] + (IF n \in stray' THEN 1 ELSE 0) <= 1 /\ writer' \in {writer, 0} /\ writer' # n
    BY <1>1, <1>2, <2>1, <2>2
  <2> QED
    BY <1>2, <2>1, <2>3, <2>4, <2>5, CloseKeeps
<1> QED
  BY <1>3, <1>4

-----------------------------------------------------------------------------
LEMMA Step == ASSUME IInv, [Next]_vars PROVE IInv'
<1>1. CASE Read
  BY <1>1, ReadKeeps
<1>2. CASE BadLine \/ EndOfInput \/ LifespanEnds \/ Idle \/ UNCHANGED vars
  BY <1>2, PumpKeeps DEF Idle
<1>3. CASE BridgeEnds
  BY <1>3, BridgeEndsKeeps
<1>4. ASSUME NEW n \in ReadLines,
             Task(n) \/ Load(n) \/ Application(n) \/ TimesOut(n) \/ WritesLate(n) \/ Interrupted(n)
      PROVE  IInv'
  <2>1. CASE Begin(n) \/ Lock(n) \/ Load(n)
    BY <2>1, BeginKeeps
  <2>2. CASE Application(n)
    BY <2>2, ApplicationKeeps
  <2>3. CASE Responds(n)
    BY <2>3, RespondsKeeps
  <2>4. CASE NoResponse(n) \/ TimesOut(n)
    BY <2>4, FailsKeeps
  <2>5. CASE Takes(n)
    BY <2>5, TakesKeeps
  <2>6. CASE Drains(n)
    BY <2>6, DrainsKeeps
  <2>7. CASE TakesLock(n)
    BY <2>7, TakesLockKeeps
  <2>8. CASE Writes(n)
    BY <2>8, WritesKeeps
  <2>9. CASE WritesLate(n)
    BY <2>9, WritesLateKeeps
  <2>10. CASE Closed(n) \/ GivesUp(n)
    BY <2>10, FinishesKeeps
  <2>11. CASE Interrupted(n)
    BY <2>11, InterruptedKeeps
  <2> QED
    BY <1>4, <2>1, <2>2, <2>3, <2>4, <2>5, <2>6, <2>7, <2>8, <2>9, <2>10, <2>11 DEF Task
<1> QED
  BY <1>1, <1>2, <1>3, <1>4 DEF Next

\* The invariant holds in every behaviour (mcp/bridge.py:267).
THEOREM Invariance == Spec => []IInv
<1>1. IInv /\ [Next]_vars => IInv'
  BY Step
<1> QED
  BY Starts0, <1>1, PTL DEF Spec

LEMMA Sound == IInv => TypeOK /\ Answered /\ CancelFinds /\ NothingLeftBehind
<1> SUFFICES ASSUME IInv
             PROVE  TypeOK /\ Answered /\ CancelFinds /\ NothingLeftBehind
  OBVIOUS
<1>1. Types /\ ReadLines \subseteq Ids /\ CancelFinds
  BY LinesRead DEF IInv
<1>2. \A n \in Ids : answers[n] \in Nat /\ answers[n] + (IF n \in stray THEN 1 ELSE 0) <= 1 /\ TaskInv(n)
  BY <1>1, Fields DEF IInv, TaskInv, Counted
<1>3. answers \in [Ids -> 0..2]
  <2>1. \A n \in Ids : answers[n] \in 0..2
    BY <1>2
  <2> QED
    BY <1>1, <2>1 DEF Types
<1>4. TypeOK
  BY <1>1, <1>3 DEF Types, TypeOK, Lines, Posts, Apps, Endings, Before, Open, After, Over, Chunks
<1>5. Answered
  BY <1>1, <1>2 DEF IInv, Answered, Closing
<1>6. NothingLeftBehind
  <2>1. ASSUME NEW n \in ReadLines, post[n].at = "over"
        PROVE  n \notin inflight /\ writer # n /\ (Runs(n) => app[n].asked)
    <3>1. TaskInv(n) /\ n # 0
      BY <1>1, <1>2 DEF Ids
    <3>2. n \notin inflight /\ (Runs(n) => app[n].asked)
      BY <2>1, <3>1 DEF TaskInv, Registered, Served, Open, After
    <3>3. writer # n
      BY <2>1, <3>1 DEF IInv, Held
    <3> QED
      BY <3>2, <3>3
  <2> QED
    BY <2>1 DEF NothingLeftBehind
<1> QED
  BY <1>1, <1>4, <1>5, <1>6

\* The variables of the bridge stay in their types, and no line is answered more than twice
\* (mcp/bridge.py:267).
THEOREM TypeCorrect == Spec => []TypeOK
BY Invariance, Sound, PTL

\* No request is answered twice, and a clean end leaves no call unanswered
\* (mcp/bridge.py:267).
THEOREM AnswersOnce == Spec => []Answered
BY Invariance, Sound, PTL

\* Only a tool call that still loads the headers of the tools misses its cancellation
\* (mcp/bridge.py:329).
THEOREM CancelsFind == Spec => []CancelFinds
BY Invariance, Sound, PTL

\* No application works on for a client that is gone (mcp/stdio.py:115).
THEOREM LeavesNothing == Spec => []NothingLeftBehind
BY Invariance, Sound, PTL

=============================================================================
