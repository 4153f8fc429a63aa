------------------------------ MODULE QueuedTurn ------------------------------
(***************************************************************************)
(* A queued agent turn (queues/tasks.py) and the clients that stream it    *)
(* (queues/bridge.py): the job numbers the frames of the turn and          *)
(* publishes them to the turn's channel, and every connection of a client  *)
(* gets a replay of the channel's history followed by the live frames.     *)
(*                                                                         *)
(* The queue and the channels are external.  An enqueue while the job of   *)
(* the turn is live returns that job; a job is run once (retries=0).  A    *)
(* published frame is in the history at once and reaches the subscribers   *)
(* in a later step; with a broker of its own (not in the memory of the     *)
(* process) it can reach a subscriber that has not got its history yet.    *)
(***************************************************************************)
EXTENDS Naturals, Sequences, SequencesExt

CONSTANTS
  Clients,
  Brokers,      \* of "memory" and "remote"
  MaxFrames,    \* bound: frames of one job
  MaxJobs,      \* bound: jobs of the turn
  MaxDrops,     \* bound: connections each client loses
  ReplayLimit   \* replay_limit

QueuedTurnAssumption ==
  /\ Brokers \subseteq {"memory", "remote"}
  /\ MaxFrames \in Nat /\ MaxJobs \in Nat /\ MaxDrops \in Nat /\ ReplayLimit \in Nat \ {0}

VARIABLES
  broker,      \* the kind of channels
  job,         \* where the job of the turn is, how many there were, the frames it published
  history,     \* of the channel
  feed,        \* published and not yet handed to the subscribers
  streams,     \* the connection of each client: stream_turn's generator
  clients      \* what each client has got, and the holes the design admits

vars == <<broker, job, history, feed, streams, clients>>

NoStream == [at |-> "away", queue |-> <<>>, lastSeq |-> 0, ended |-> FALSE]

Init ==
  /\ broker \in Brokers
  /\ job = [at |-> "none", count |-> 0, seq |-> 0]
  /\ history = <<>> /\ feed = <<>>
  /\ streams = [c \in Clients |-> NoStream]
  /\ clients = [c \in Clients |->
       [seqs |-> <<>>, told |-> FALSE, drops |-> 0, truncated |-> FALSE, overtaken |-> FALSE,
        displaced |-> FALSE]]

-----------------------------------------------------------------------------
(* The job *)

\* POST /turns: its key is that of the session and the turn.
Enqueue ==
  /\ job.at \in {"none", "over"} /\ job.count < MaxJobs
  /\ job' = [at |-> "queued", count |-> job.count + 1, seq |-> 0]
  /\ UNCHANGED <<broker, history, feed, streams, clients>>

RunStarts ==
  /\ job.at = "queued"
  /\ job' = [job EXCEPT !.at = "running"]
  /\ UNCHANGED <<broker, history, feed, streams, clients>>

Publish(frame) ==
  /\ history' = Append(history, frame)
  /\ feed' = Append(feed, frame)

Number == job.seq + 1

\* The frames are numbered again, from 1 and with no gap, whatever the runtime dropped.
Emit ==
  /\ job.at = "running" /\ job.seq < MaxFrames
  /\ \E terminal \in BOOLEAN :
       /\ Publish([seq |-> Number, terminal |-> terminal])
       /\ job' = [job EXCEPT !.seq = @ + 1, !.at = IF terminal THEN "told" ELSE "running"]
  /\ UNCHANGED <<broker, streams, clients>>

\* The turn is over; or there is no runtime for it, its error frame was dropped, the
\* worker died: then no terminal frame was published.
RunEnds ==
  /\ job.at \in {"queued", "running", "told"}
  /\ job' = [job EXCEPT !.at = "over"]
  /\ UNCHANGED <<broker, history, feed, streams, clients>>

-----------------------------------------------------------------------------
(* The channel *)

Dispatch ==
  /\ feed # <<>>
  /\ feed' = Tail(feed)
  /\ streams' = [c \in Clients |->
       IF streams[c].at = "away" THEN streams[c]
       ELSE [streams[c] EXCEPT !.queue = Append(@, Head(feed))]]
  /\ UNCHANGED <<broker, job, history, clients>>

Replayed == SubSeq(history, IF Len(history) > ReplayLimit THEN Len(history) - ReplayLimit + 1 ELSE 1,
                   Len(history))

\* The frame after the last one is taken for known.
FaultLastSeq(c) == IF clients[c].seqs = <<>> THEN 0 ELSE Last(clients[c].seqs) + 1

LastSeq(c) == IF clients[c].seqs = <<>> THEN 0 ELSE Last(clients[c].seqs)

\* The replay begins beyond what the client knows, or after frames still to be delivered.
Skips(c) == Len(history) > ReplayLimit /\ (Head(Replayed).seq > LastSeq(c) + 1 \/ Len(feed) > ReplayLimit)

\* The replay may come behind a live frame.
Replays(c, stream) ==
  /\ streams' = [streams EXCEPT ![c] = [stream EXCEPT !.at = "open", !.queue = @ \o Replayed]]
  /\ clients' = [clients EXCEPT
       ![c].truncated = @ \/ Skips(c),
       ![c].overtaken = @ \/ stream.queue # <<>>]

\* GET /turns/{turn_id}/stream with Last-Event-ID.
Connect(c) ==
  /\ streams[c].at = "away" /\ ~clients[c].told
  /\ LET stream == [NoStream EXCEPT !.at = "joined", !.lastSeq = LastSeq(c)]
     IN  IF broker = "memory" THEN Replays(c, stream)
         ELSE streams' = [streams EXCEPT ![c] = stream] /\ UNCHANGED clients
  /\ UNCHANGED <<broker, job, history, feed>>

Replay(c) ==
  /\ streams[c].at = "joined"
  /\ Replays(c, streams[c])
  /\ UNCHANGED <<broker, job, history, feed>>

-----------------------------------------------------------------------------
(* stream_turn *)

\* A frame is new until the next one was taken.
FaultFresh(c) == Head(streams[c].queue).seq >= streams[c].lastSeq

Fresh(c) == Head(streams[c].queue).seq > streams[c].lastSeq

\* A frame the client knows is skipped; the stream ends after a terminal one.
Take(c) ==
  LET frame == Head(streams[c].queue)
  IN  /\ streams[c].at = "open" /\ ~streams[c].ended /\ streams[c].queue # <<>>
      /\ IF Fresh(c)
         THEN /\ clients' = [clients EXCEPT ![c].seqs = Append(@, frame.seq), ![c].told = frame.terminal]
              /\ streams' = [streams EXCEPT ![c] =
                   IF frame.terminal THEN NoStream
                   ELSE [@ EXCEPT !.queue = Tail(streams[c].queue), !.lastSeq = frame.seq]]
         ELSE /\ streams' = [streams EXCEPT ![c].queue = Tail(@)]
              /\ UNCHANGED clients
      /\ UNCHANGED <<broker, job, history, feed>>

\* Nothing for ping_interval: the wait for the next event is cancelled, which ends the
\* subscriber's iterator, and a ping is sent.
Ping(c) ==
  /\ streams[c].at = "open" /\ ~streams[c].ended /\ streams[c].queue = <<>>
  /\ streams' = [streams EXCEPT ![c].ended = TRUE]
  /\ UNCHANGED <<broker, job, history, feed, clients>>

\* The interval ends after a frame was handed over and before the generator goes on: the
\* wait succeeds, and a ping is sent in place of the frame.
PingInstead(c) ==
  /\ streams[c].at = "open" /\ ~streams[c].ended /\ streams[c].queue # <<>>
  /\ Fresh(c) /\ ~clients[c].displaced
  /\ streams' = [streams EXCEPT ![c].queue = Tail(@)]
  /\ clients' = [clients EXCEPT ![c].displaced = TRUE]
  /\ UNCHANGED <<broker, job, history, feed>>

\* StopAsyncIteration
End(c) ==
  /\ streams[c].ended
  /\ streams' = [streams EXCEPT ![c] = NoStream]
  /\ UNCHANGED <<broker, job, history, feed, clients>>

Disconnect(c) ==
  /\ streams[c].at # "away" /\ clients[c].drops < MaxDrops
  /\ streams' = [streams EXCEPT ![c] = NoStream]
  /\ clients' = [clients EXCEPT ![c].drops = @ + 1]
  /\ UNCHANGED <<broker, job, history, feed>>

-----------------------------------------------------------------------------
Stream(c) == Replay(c) \/ Take(c) \/ Ping(c) \/ End(c)

Next ==
  \/ Enqueue \/ RunStarts \/ Emit \/ RunEnds \/ Dispatch
  \/ \E c \in Clients : Connect(c) \/ Disconnect(c) \/ Stream(c) \/ PingInstead(c)

\* The channel delivers, time passes for an idle connection, and a client that has not
\* seen the end of the turn connects again.
Fairness == WF_vars(Dispatch) /\ \A c \in Clients : WF_vars(Connect(c)) /\ WF_vars(Stream(c))

Spec == Init /\ [][Next]_vars /\ Fairness

-----------------------------------------------------------------------------
(* Properties *)

Frames == [seq : 1..MaxFrames, terminal : BOOLEAN]

TypeOK ==
  /\ broker \in Brokers
  /\ job \in [at : {"none", "queued", "running", "told", "over"}, count : 0..MaxJobs, seq : 0..MaxFrames]
  /\ history \in Seq(Frames) /\ feed \in Seq(Frames)
  /\ streams \in [Clients -> [at : {"away", "joined", "open"}, queue : Seq(Frames),
                              lastSeq : 0..MaxFrames, ended : BOOLEAN]]
  /\ clients \in [Clients -> [seqs : Seq(1..MaxFrames), told : BOOLEAN, drops : 0..MaxDrops,
                              truncated : BOOLEAN, overtaken : BOOLEAN,
                              displaced : BOOLEAN]]

\* However often a client connects again, and however replay and live frames overlap, it
\* gets every frame number once and in order, with no hole, unless the replay began after
\* the hole, or after frames of an earlier job that were still to come, or a live frame
\* overtook it, or a ping took the place of a frame.
OnceInOrder ==
  \A c \in Clients :
    LET seqs == clients[c].seqs
    IN  /\ \A i \in DOMAIN seqs : i > 1 => seqs[i] > seqs[i - 1]
        /\ ~clients[c].truncated /\ ~clients[c].overtaken /\ ~clients[c].displaced =>
             \A i \in DOMAIN seqs : seqs[i] = i

\* A client that connects again after every end gets the terminal frame of the turn, if
\* there is one, although its connections are lost, end with a ping, begin in the middle of
\* the history or have the frame displaced.  A turn that runs again is excused: the frames
\* of its second job have numbers that the client knows.
TurnTold ==
  \A c \in Clients :
    (job.count = 1 /\ \E i \in DOMAIN history : history[i].terminal)
      ~> clients[c].told \/ job.count > 1

\* "the generator yields an SSE `event: ping` keep-alive frame" and a terminal frame
\* "terminates the SSE response" (docs/queues/queued-agent-turns.md:81-82): a connection ends
\* with a terminal frame, or because the client leaves.
PingKeepsAlive ==
  [][\A c \in Clients : streams[c].at = "open" /\ streams'[c].at = "away" =>
       clients'[c].told \/ clients'[c].drops > clients[c].drops]_vars

=============================================================================
