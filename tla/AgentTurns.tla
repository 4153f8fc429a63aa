----------------------------- MODULE AgentTurns -----------------------------
(***************************************************************************)
(* The turns of an agent in one process: AgentRuntime.produce and its loop *)
(* of model calls and tool batches (agent/runtime.py), the sessions and    *)
(* locks of MemorySessionStore (agent/sessions.py), and the client that    *)
(* streams a turn (agent/controller.py, core/_streaming.py).               *)
(*                                                                         *)
(* The memory store awaits nothing: a load, or a save with the evictions   *)
(* it causes, belongs to the step of the coroutine that calls it.  A turn  *)
(* waits for its lock, the model, the tools, and room in its buffer.       *)
(*                                                                         *)
(* A history is the set of turns it holds, and a lock is named after the   *)
(* turn that made it.                                                      *)
(***************************************************************************)
EXTENDS Naturals, Sequences, SequencesExt

CONSTANTS
  Turns,          \* turn requests
  Sessions,       \* (owner, session id) pairs
  Anonymous,      \* the sessions whose owner is ANONYMOUS_OWNER
  MaxSessions,    \* max_sessions
  MaxTurns,       \* budget: model calls of a turn
  MaxToolCalls,   \* budget: tool calls of a turn
  Buffer,         \* stream_buffer
  NoLock

ASSUME TurnsAssumption ==
  /\ MaxSessions \in Nat \ {0} /\ MaxTurns \in Nat \ {0} /\ MaxToolCalls \in Nat \ {0}
  /\ Buffer \in Nat
  /\ Anonymous \subseteq Sessions
  /\ NoLock \notin Turns

VARIABLES
  entries,     \* _sessions: the histories
  order,       \* _sessions: its keys, the least recently used first
  locks,       \* _locks
  turns,       \* the coroutine of each turn, and what its client has got
  forgotten,   \* history: turns whose history expired or was evicted
  torn         \* history: sessions that lost a lock a turn held or waited for

store == <<entries, order, locks, forgotten, torn>>
vars == <<store, turns>>

NoEntry == [kept |-> "absent", turns |-> {}]
NoTurn == [at |-> "new", session |-> "none", streamed |-> FALSE, lock |-> NoLock,
           holds |-> FALSE, base |-> {}, steps |-> 0, calls |-> 0, batch |-> 0,
           buffer |-> <<>>, client |-> "none", got |-> "none", muted |-> FALSE, saved |-> FALSE]

\* Some sessions have a history from earlier turns.
Init ==
  /\ \E earlier \in {<<>>} \union {<<s>> : s \in Sessions} :
       /\ order = earlier
       /\ entries = [s \in Sessions |->
            IF \E i \in DOMAIN earlier : earlier[i] = s THEN [NoEntry EXCEPT !.kept = "fresh"]
                                                        ELSE NoEntry]
  /\ locks = [s \in Sessions |-> NoLock]
  /\ turns = [t \in Turns |-> NoTurn]
  /\ forgotten = {}
  /\ torn = {}

-----------------------------------------------------------------------------
(* MemorySessionStore *)

Holds(s) == {i \in DOMAIN order : order[i] = s}
Without(s) == IF Holds(s) = {} THEN order ELSE RemoveAt(order, CHOOSE i \in Holds(s) : TRUE)
InUse(s) == \E t \in Turns : locks[s] # NoLock /\ turns[t].lock = locks[s]

\* The sessions of gone are dropped, and their locks with them.
Drop(gone) ==
  /\ locks' = [s \in Sessions |-> IF s \in gone THEN NoLock ELSE locks[s]]
  /\ forgotten' = forgotten \union UNION {entries[s].turns : s \in gone}
  /\ torn' = torn \union {s \in gone : InUse(s)}

Load(s) ==
  CASE entries[s].kept = "expired" ->
         /\ entries' = [entries EXCEPT ![s] = NoEntry]
         /\ order' = Without(s)
         /\ Drop({s})
    [] entries[s].kept = "fresh" ->
         /\ order' = Append(Without(s), s)
         /\ UNCHANGED <<entries, locks, forgotten, torn>>
    [] OTHER -> UNCHANGED store

Save(s, history) ==
  LET used == Append(Without(s), s)
      gone == IF Len(used) > MaxSessions THEN {Head(used)} ELSE {}
  IN  /\ order' = IF gone = {} THEN used ELSE Tail(used)
      /\ entries' = [k \in Sessions |->
           IF k = s THEN [kept |-> "fresh", turns |-> history]
           ELSE IF k \in gone THEN NoEntry ELSE entries[k]]
      /\ Drop(gone)

\* ttl_seconds pass.
Expire(s) ==
  /\ entries[s].kept = "fresh"
  /\ entries' = [entries EXCEPT ![s].kept = "expired"]
  /\ UNCHANGED <<order, locks, turns, forgotten, torn>>

\* get_history, without the lock.
GetHistory(s) ==
  /\ entries[s].kept # "absent"
  /\ Load(s)
  /\ UNCHANGED turns

Unused(s) == \A t \in Turns : turns[t].session # s

\* A turn of somebody else, reduced to its save.
Elsewhere(s) ==
  /\ Unused(s)
  /\ Save(s, {})
  /\ UNCHANGED turns

-----------------------------------------------------------------------------
(* The stream of a turn *)

Room(r) == ~r.streamed \/ Len(r.buffer) < Buffer \/ (r.buffer = <<>> /\ r.client = "reading")
Put(r, frame) == IF r.streamed THEN [r EXCEPT !.buffer = Append(@, frame)] ELSE r

Goes(t, r) == turns' = [turns EXCEPT ![t] = r]

\* The lock is released and the locals of the loop are gone.
Released(r) == [r EXCEPT !.lock = NoLock, !.holds = FALSE, !.base = {}, !.steps = 0, !.calls = 0]

\* The exception passes the lock by.
FaultFailed(r) ==
  LET over == [r EXCEPT !.at = "over", !.batch = 0]
  IN  IF Room(r) THEN Put(over, "error") ELSE [over EXCEPT !.muted = TRUE]

\* Nobody is told.
FaultMute(r) == [Released(r) EXCEPT !.at = "over", !.batch = 0]

\* An exception leaves the lock, and its frame is left out when there is no room for it.
Failed(r) ==
  LET over == [Released(r) EXCEPT !.at = "over", !.batch = 0]
  IN  IF Room(r) THEN Put(over, "error") ELSE [over EXCEPT !.muted = TRUE]

Take(t) ==
  /\ turns[t].buffer # <<>>
  /\ Goes(t, [turns[t] EXCEPT !.buffer = Tail(@),
                              !.got = IF Head(turns[t].buffer) = "frame" THEN @
                                      ELSE Head(turns[t].buffer)])
  /\ UNCHANGED store

EndOfStream(t) ==
  /\ turns[t].client = "reading" /\ turns[t].at = "over" /\ turns[t].buffer = <<>>
  /\ Goes(t, [turns[t] EXCEPT !.client = "ended"])
  /\ UNCHANGED store

\* The client goes away: StreamOwner.close cancels the producer, wherever it waits.
Leave(t) ==
  /\ turns[t].client = "reading"
  /\ Goes(t, [Released(turns[t]) EXCEPT !.at = "over", !.batch = 0, !.buffer = <<>>,
                                        !.client = "gone"])
  /\ UNCHANGED store

-----------------------------------------------------------------------------
(* produce *)

Starts(t, s) ==
  \E streamed \in BOOLEAN :
    Goes(t, [turns[t] EXCEPT !.at = "opening", !.session = s, !.streamed = streamed,
                             !.client = IF streamed THEN "reading" ELSE "none"])

\* A new uuid4.
Minted(s) == entries[s].kept = "absent" /\ locks[s] = NoLock /\ Unused(s)

\* _resolve_session: an owner names the session, an anonymous client may only
\* continue one; otherwise the session is new.
Resolve(t) ==
  /\ turns[t].at = "new"
  /\ \/ /\ \E s \in Sessions \ Anonymous : Starts(t, s)
        /\ UNCHANGED store
     \/ \E s \in Sessions : Minted(s) /\ Starts(t, s) /\ UNCHANGED store
     \/ \E s \in Anonymous :
          /\ Load(s)
          /\ IF entries[s].kept = "fresh" THEN Starts(t, s)
             ELSE \E new \in Anonymous \ {s} : Minted(new) /\ Starts(t, new)

\* The session frame is sent, and the session's lock is looked up or made.
Open(t) ==
  LET s    == turns[t].session
      lock == IF locks[s] = NoLock THEN t ELSE locks[s]
  IN  /\ turns[t].at = "opening" /\ Room(turns[t])
      /\ locks' = [locks EXCEPT ![s] = lock]
      /\ Goes(t, [Put(turns[t], "frame") EXCEPT !.at = "waiting", !.lock = lock])
      /\ UNCHANGED <<entries, order, forgotten, torn>>

\* No lock is asked for.
FaultLockFree(t) == TRUE

LockFree(t) == ~\E u \in Turns \ {t} : turns[u].holds /\ turns[u].lock = turns[t].lock

\* The lock is taken and the history loaded.
Acquire(t) ==
  LET s == turns[t].session
  IN  /\ turns[t].at = "waiting" /\ LockFree(t)
      /\ Load(s)
      /\ Goes(t, [turns[t] EXCEPT !.at = "model", !.holds = TRUE, !.steps = 1,
                                  !.base = IF entries[s].kept = "fresh"
                                           THEN entries[s].turns ELSE {}])

-----------------------------------------------------------------------------
(* The loop of model calls and tool batches *)

\* A delta of text, or of a tool call; at most one call more than the budget allows.
Yield(t) ==
  /\ turns[t].at = "model"
  /\ \E call \in {0, 1} :
       /\ turns[t].calls + turns[t].batch + call <= MaxToolCalls + 1
       /\ Goes(t, [turns[t] EXCEPT !.at = "yielding", !.batch = @ + call])
  /\ UNCHANGED store

Emit(t) ==
  /\ turns[t].at = "yielding" /\ Room(turns[t])
  /\ Goes(t, [Put(turns[t], "frame") EXCEPT !.at = "model"])
  /\ UNCHANGED store

\* The model is done and called no tool: the history is saved and the lock released.
Answer(t) ==
  /\ turns[t].at = "model" /\ turns[t].batch = 0
  /\ Save(turns[t].session, turns[t].base \union {t})
  /\ Goes(t, [Released(turns[t]) EXCEPT !.at = "finishing", !.saved = TRUE])

\* The model called tools: they run together, unless they exceed the budget.
Batch(t) ==
  LET total == turns[t].calls + turns[t].batch
  IN  /\ turns[t].at = "model" /\ turns[t].batch > 0
      /\ Goes(t, IF total > MaxToolCalls THEN Failed(turns[t])
                 ELSE [turns[t] EXCEPT !.at = "tools", !.calls = total])
      /\ UNCHANGED store

\* One frame per result, and one more when a call transferred the turn to another agent.
ToolsReturn(t) ==
  /\ turns[t].at = "tools"
  /\ \E transfer \in {0, 1} :
       Goes(t, [turns[t] EXCEPT !.at = "results", !.batch = @ + transfer])
  /\ UNCHANGED store

\* After the last frame the model is called again, unless the budget of calls is spent.
EmitResult(t) ==
  LET sent == [Put(turns[t], "frame") EXCEPT !.batch = @ - 1]
  IN  /\ turns[t].at = "results" /\ Room(turns[t])
      /\ Goes(t, IF sent.batch > 0 THEN sent
                 ELSE IF turns[t].steps = MaxTurns THEN Failed(sent)
                 ELSE [sent EXCEPT !.at = "model", !.steps = @ + 1])
      /\ UNCHANGED store

\* The provider, a tool's dependency or the deadline raises.
Fails(t) ==
  /\ turns[t].at \in {"model", "tools"}
  /\ Goes(t, Failed(turns[t]))
  /\ UNCHANGED store

Finish(t) ==
  /\ turns[t].at = "finishing" /\ Room(turns[t])
  /\ Goes(t, [Put(turns[t], "complete") EXCEPT !.at = "over"])
  /\ UNCHANGED store

-----------------------------------------------------------------------------
Settles(t) == Answer(t) \/ Batch(t) \/ Fails(t)

Turn(t) ==
  \/ Resolve(t) \/ Open(t) \/ Acquire(t) \/ Yield(t) \/ Emit(t) \/ Settles(t)
  \/ ToolsReturn(t) \/ EmitResult(t) \/ Finish(t)

Client(t) == Take(t) \/ EndOfStream(t)

Rest ==
  /\ \A t \in Turns : turns[t].at = "over" /\ turns[t].client # "reading"
  /\ UNCHANGED vars

Next ==
  \/ \E t \in Turns : Turn(t) \/ Client(t) \/ Leave(t)
  \/ \E s \in Sessions : Expire(s) \/ GetHistory(s) \/ Elsewhere(s)
  \/ Rest

\* The event loop runs what can run, a client that stays reads, and the deadline ends
\* a model that always has another delta.
Fairness == \A t \in Turns : WF_vars(Turn(t)) /\ SF_vars(Settles(t)) /\ WF_vars(Client(t))

Spec == Init /\ [][Next]_vars /\ Fairness

-----------------------------------------------------------------------------
(* Properties *)

Points == {"new", "opening", "waiting", "model", "yielding", "tools", "results", "finishing", "over"}

Frames == {"frame", "complete", "error"}

Coroutine ==
  [at : Points, session : Sessions \union {"none"}, streamed : BOOLEAN, lock : Turns \union {NoLock},
   holds : BOOLEAN, base : SUBSET Turns, steps : 0..MaxTurns, calls : Nat, batch : Nat,
   buffer : Seq(Frames), client : {"none", "reading", "ended", "gone"},
   got : {"none", "complete", "error"}, muted : BOOLEAN, saved : BOOLEAN]

\* Among others: the store holds its sessions in the order of their use, each once, and no
\* more than max_sessions.
TypeOK ==
  /\ entries \in [Sessions -> [kept : {"absent", "fresh", "expired"}, turns : SUBSET Turns]]
  /\ order \in Seq(Sessions) /\ Len(order) <= MaxSessions
  /\ {order[i] : i \in DOMAIN order} = {s \in Sessions : entries[s].kept # "absent"}
  /\ \A i, j \in DOMAIN order : order[i] = order[j] => i = j
  /\ locks \in [Sessions -> Turns \union {NoLock}]
  /\ torn \subseteq Sessions /\ forgotten \subseteq Turns
  /\ turns \in [Turns -> Coroutine]

Kept(t) == t \in entries[turns[t].session].turns \/ t \in forgotten

\* What a turn added to its session stays there until the session expires or is evicted:
\* no other turn overwrites it.  (Except in a session that lost a lock in use.)
HistoryKept ==
  \A t \in Turns : turns[t].saved => Kept(t) \/ turns[t].session \in torn

\* The promise of docs/agents/sessions-and-streaming.md: "Concurrent requests targeting
\* the same (owner, session_id) serialize cleanly rather than overwriting each other's
\* turns."  But MemorySessionStore drops a lock with its session while it is held.
TurnsSerialize == \A t \in Turns : turns[t].saved => Kept(t)

\* A client told that its turn is complete finds it in the history, one told of an error
\* does not, and a stream that ends by itself ends with one of the two, unless there was no
\* room for the error.
ToldTheOutcome ==
  \A t \in Turns :
    /\ turns[t].got = "complete" => turns[t].saved
    /\ turns[t].got = "error" => ~turns[t].saved
    /\ turns[t].client = "ended" => turns[t].got \in {"complete", "error"} \/ turns[t].muted

\* A turn ends, whatever turns it shares its session with do, as long as the clients
\* read or leave: no turn takes a lock with it.
TurnEnds == \A t \in Turns : turns[t].at = "opening" ~> turns[t].at = "over"

=============================================================================
