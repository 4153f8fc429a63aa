------------------------------ MODULE McpTasks ------------------------------
(***************************************************************************)
(* Background tasks executed in the server's own process: MCPTaskStore     *)
(* (mcp/tasks.py), the tools/call promotion, the runner coroutine and the  *)
(* tasks/update and tasks/cancel handlers (mcp/service.py).                *)
(*                                                                         *)
(* One asyncio process: the store's asyncio.Lock is held over each lookup  *)
(* and save, so one critical section is one action.  Everything awaited    *)
(* outside the lock -- the tool, the status callback, the input queue, the *)
(* wait for the lock itself -- is a point where another coroutine runs or  *)
(* where Task.cancel() raises CancelledError, so it ends an action.        *)
(*                                                                         *)
(* The store outlives the process (Redis, a database): Crash loses the     *)
(* runners, queues and events and keeps the records.  Payloads are         *)
(* abstracted to the keys of the input requests they answer.               *)
(***************************************************************************)
EXTENDS Naturals, Sequences

CONSTANTS
  Tasks,       \* task ids
  Keys,        \* names of input requests
  MaxRounds,   \* bound: pauses for input per task
  MaxCrashes   \* bound: process restarts

ASSUME BoundsAssumption == MaxRounds \in Nat /\ MaxCrashes \in Nat

VARIABLES
  \* the stored records
  status, answer, requests, responses,
  \* process-local state of MCPTaskStore, gone after a crash
  local,        \* _input_queues and _cancel_events hold an entry for the task
  attached,     \* _runners holds the task's runner
  inputQueue,   \* _input_queues[task]
  cancelEvent,  \* _cancel_events[task].is_set()
  \* coroutines
  call,         \* where the tools/call handler that creates the task is
  runner,       \* where the _run_task coroutine is
  updating,     \* answers of tasks/update handlers between save and queue.put
  server,       \* "up", or "closed" once MCPTaskStore.close() was called
  crashes,
  \* history
  round,        \* pauses so far
  asked,        \* keys the tool asked for in the current round
  resumed,      \* tasks/update calls that resumed the task
  requested,    \* tasks/cancel was acknowledged while the record was live
  dropped,      \* a CancelledError hit the runner inside an except handler
  lost          \* a tasks/update handler died between save and queue.put

recordVars == <<status, answer, requests, responses>>
localVars == <<local, attached, inputQueue, cancelEvent>>
historyVars == <<round, asked, resumed, requested, dropped, lost>>
vars == <<recordVars, localVars, call, runner, updating, server, crashes, historyVars>>

Terminal == {"completed", "failed", "cancelled"}
Live == {"working", "input_required"}
Statuses == {"none", "expired"} \union Live \union Terminal

\* Program points of _run_task: inside its try block, inside one of its except
\* handlers, and over.
InTry == {"running", "completing", "reporting", "pausing", "notifying", "waiting"}
InHandler == {"failing", "cancelling"}
Over == {"ended", "cancelled", "crashed"}
RunnerPoints == {"none"} \union InTry \union InHandler \union Over

Resumption == [round : Nat, keys : SUBSET Keys]

Init ==
  /\ status = [t \in Tasks |-> "none"]
  /\ answer = [t \in Tasks |-> "none"]
  /\ requests = [t \in Tasks |-> {}]
  /\ responses = [t \in Tasks |-> {}]
  /\ local = [t \in Tasks |-> FALSE]
  /\ attached = [t \in Tasks |-> FALSE]
  /\ inputQueue = [t \in Tasks |-> <<>>]
  /\ cancelEvent = [t \in Tasks |-> FALSE]
  /\ call = [t \in Tasks |-> "idle"]
  /\ runner = [t \in Tasks |-> "none"]
  /\ updating = [t \in Tasks |-> {}]
  /\ server = "up"
  /\ crashes = 0
  /\ round = [t \in Tasks |-> 0]
  /\ asked = [t \in Tasks |-> {}]
  /\ resumed = [t \in Tasks |-> 0]
  /\ requested = [t \in Tasks |-> FALSE]
  /\ dropped = [t \in Tasks |-> FALSE]
  /\ lost = [t \in Tasks |-> FALSE]

-----------------------------------------------------------------------------
(* The store *)

\* _lookup finds the record.
Found(t) == status[t] \notin {"none", "expired"}

\* _save of a record with these fields.
Save(t, s, a, reqs, resps) ==
  /\ status' = [status EXCEPT ![t] = s]
  /\ answer' = [answer EXCEPT ![t] = a]
  /\ requests' = [requests EXCEPT ![t] = reqs]
  /\ responses' = [responses EXCEPT ![t] = resps]

\* Seeded faults are named "Fault...", here and below: the terminal check is missing.
FaultTransitionAlways(t, s, a, reqs) == Save(t, s, a, reqs, {})

\* _transition on a record that _lookup found: a terminal record stays as it is.
Transition(t, s, a, reqs) ==
  IF status[t] \in Terminal
    THEN UNCHANGED recordVars
    ELSE Save(t, s, a, reqs, {})

\* The store drops a record whose TTL has run out.
Expire(t) ==
  /\ Found(t)
  /\ Save(t, "expired", "none", {}, {})
  /\ UNCHANGED <<localVars, call, runner, updating, server, crashes, historyVars>>

-----------------------------------------------------------------------------
(* tools/call, promoted to a task *)

Create(t) ==
  /\ server = "up"
  /\ call[t] = "idle"
  /\ Save(t, "working", "none", {}, {})
  /\ local' = [local EXCEPT ![t] = TRUE]
  /\ call' = [call EXCEPT ![t] = "created"]
  /\ UNCHANGED <<attached, inputQueue, cancelEvent, runner, updating, server, crashes, historyVars>>

\* The status callback raised out of create(): no runner was started, and the
\* client never learns the id of the record.
CreateAborts(t) ==
  /\ call[t] = "created"
  /\ call' = [call EXCEPT ![t] = "raised"]
  /\ UNCHANGED <<recordVars, localVars, runner, updating, server, crashes, historyVars>>

StartRunner(t) ==
  /\ call[t] = "created"
  /\ call' = [call EXCEPT ![t] = "started"]
  /\ runner' = [runner EXCEPT ![t] = "running"]
  /\ UNCHANGED <<recordVars, localVars, updating, server, crashes, historyVars>>

\* attach_runner looks the record up first; the client gets the task id after it.
AttachRunner(t) ==
  /\ call[t] = "started"
  /\ attached' = [attached EXCEPT ![t] = Found(t)]
  /\ call' = [call EXCEPT ![t] = IF Found(t) THEN "answered" ELSE "raised"]
  /\ UNCHANGED <<recordVars, local, inputQueue, cancelEvent, runner, updating, server,
                 crashes, historyVars>>

-----------------------------------------------------------------------------
(* The runner: _run_task, _settle_attempt, wait_for_input *)

RunnerAt(t, from, to) ==
  /\ runner[t] = from
  /\ runner' = [runner EXCEPT ![t] = to]

RunnerMoves(t, from, to) ==
  /\ RunnerAt(t, from, to)
  /\ UNCHANGED <<recordVars, localVars, call, updating, server, crashes, historyVars>>

\* A value or an ordinary exception of the tool is a result; JSONRPCErrorException
\* goes to the except handler that fails the task.
ToolReturns(t) == RunnerMoves(t, "running", "completing")
ToolRaises(t) == RunnerMoves(t, "running", "failing")

\* The tool returns MCPInputRequiredResult asking for the given keys, none included.
ToolAsks(t, keys) ==
  /\ round[t] < MaxRounds
  /\ RunnerAt(t, "running", "pausing")
  /\ asked' = [asked EXCEPT ![t] = keys]
  /\ UNCHANGED <<recordVars, localVars, call, updating, server, crashes,
                 round, resumed, requested, dropped, lost>>

\* store.complete, unless the record is gone (TaskLookupError).
Complete(t) ==
  /\ IF Found(t)
       THEN /\ RunnerAt(t, "completing", "reporting")
            /\ Transition(t, "completed", "result", {})
       ELSE /\ RunnerAt(t, "completing", "failing")
            /\ UNCHANGED recordVars
  /\ UNCHANGED <<localVars, call, updating, server, crashes, historyVars>>

\* A result, or input requests, that cannot be encoded raise with nothing saved.
CompleteRaises(t) == RunnerMoves(t, "completing", "failing")
PauseRaises(t) == RunnerMoves(t, "pausing", "failing")

Reported(t) == RunnerMoves(t, "reporting", "ended")
ReportRaises(t) == RunnerMoves(t, "reporting", "failing")

\* store.fail in an except handler.
Fail(t) ==
  /\ RunnerAt(t, "failing", "ended")
  /\ IF Found(t) THEN Transition(t, "failed", "error", {}) ELSE UNCHANGED recordVars
  /\ UNCHANGED <<localVars, call, updating, server, crashes, historyVars>>

\* store.require_input.
Pause(t) ==
  /\ IF Found(t)
       THEN /\ RunnerAt(t, "pausing", "notifying")
            /\ Transition(t, "input_required", "none", asked[t])
            /\ round' = [round EXCEPT ![t] = @ + 1]
       ELSE /\ RunnerAt(t, "pausing", "failing")
            /\ UNCHANGED <<recordVars, round>>
  /\ UNCHANGED <<localVars, call, updating, server, crashes,
                 asked, resumed, requested, dropped, lost>>

\* wait_for_input makes a new queue instead of taking the one that is there.
FaultStartWait(t) ==
  /\ RunnerAt(t, "notifying", "waiting")
  /\ inputQueue' = [inputQueue EXCEPT ![t] = <<>>]
  /\ UNCHANGED <<recordVars, local, attached, cancelEvent, call, updating, server,
                 crashes, historyVars>>

StartWait(t) == RunnerMoves(t, "notifying", "waiting")
NotifyRaises(t) == RunnerMoves(t, "notifying", "failing")

\* wait_for_input returns the queued answers unless the cancel event is set too.
ReceiveInput(t) ==
  /\ ~cancelEvent[t]
  /\ inputQueue[t] # <<>>
  /\ RunnerAt(t, "waiting", "running")
  /\ inputQueue' = [inputQueue EXCEPT ![t] = Tail(@)]
  /\ UNCHANGED <<recordVars, local, attached, cancelEvent, call, updating, server,
                 crashes, historyVars>>

\* wait_for_input raises CancelledError.
WaitCancelled(t) ==
  /\ cancelEvent[t]
  /\ RunnerMoves(t, "waiting", "cancelling")

\* mark_cancelled in the CancelledError handler, which then re-raises.
MarkCancelled(t) ==
  /\ IF Found(t)
       THEN /\ RunnerAt(t, "cancelling", "cancelled")
            /\ Transition(t, "cancelled", "none", {})
       ELSE /\ RunnerAt(t, "cancelling", "ended")
            /\ UNCHANGED recordVars
  /\ UNCHANGED <<localVars, call, updating, server, crashes, historyVars>>

ToolStep(t) ==
  \/ ToolReturns(t)
  \/ ToolRaises(t)
  \/ \E keys \in SUBSET Keys : ToolAsks(t, keys)

RunnerStep(t) ==
  \/ Complete(t)
  \/ CompleteRaises(t)
  \/ Reported(t)
  \/ ReportRaises(t)
  \/ Fail(t)
  \/ Pause(t)
  \/ PauseRaises(t)
  \/ StartWait(t)
  \/ NotifyRaises(t)
  \/ ReceiveInput(t)
  \/ WaitCancelled(t)
  \/ MarkCancelled(t)

-----------------------------------------------------------------------------
(* tasks/update and tasks/cancel: a client knows the id once it was answered. *)

Addressable(t) == server = "up" /\ call[t] = "answered"

\* MCPTaskStore.update when some request stays open: the answers accumulate.
UpdatePart(t, keys) ==
  /\ Addressable(t)
  /\ status[t] = "input_required"
  /\ keys \intersect requests[t] # {}
  /\ requests[t] \ keys # {}
  /\ Save(t, "input_required", answer[t], requests[t] \ keys,
          responses[t] \union (keys \intersect requests[t]))
  /\ UNCHANGED <<localVars, call, runner, updating, server, crashes, historyVars>>

\* The handler wakes the runner with the answers of this call alone.
FaultUpdateLast(t, keys) ==
  /\ Addressable(t)
  /\ status[t] = "input_required"
  /\ keys \intersect requests[t] # {}
  /\ requests[t] \ keys = {}
  /\ Save(t, "working", answer[t], {}, {})
  /\ updating' = [updating EXCEPT ![t] =
       @ \union {[round |-> round[t], keys |-> keys \intersect requests[t]]}]
  /\ resumed' = [resumed EXCEPT ![t] = @ + 1]
  /\ UNCHANGED <<localVars, call, runner, server, crashes, round, asked, requested,
                 dropped, lost>>

\* MCPTaskStore.update when the last open request is answered; the accumulated
\* answers are now held by the handler, which awaits the status callback.
UpdateLast(t, keys) ==
  /\ Addressable(t)
  /\ status[t] = "input_required"
  /\ keys \intersect requests[t] # {}
  /\ requests[t] \ keys = {}
  /\ Save(t, "working", answer[t], {}, {})
  /\ updating' = [updating EXCEPT ![t] =
       @ \union {[round |-> round[t], keys |-> responses[t] \union requests[t]]}]
  /\ resumed' = [resumed EXCEPT ![t] = @ + 1]
  /\ UNCHANGED <<localVars, call, runner, server, crashes, round, asked, requested,
                 dropped, lost>>

\* The handler wakes the runner, if this process has a queue for the task.
DeliverInput(t, resumption) ==
  /\ resumption \in updating[t]
  /\ updating' = [updating EXCEPT ![t] = @ \ {resumption}]
  /\ inputQueue' = IF local[t]
                     THEN [inputQueue EXCEPT ![t] = Append(@, resumption)]
                     ELSE inputQueue
  /\ UNCHANGED <<recordVars, local, attached, cancelEvent, call, runner, server,
                 crashes, historyVars>>

\* The status callback raised, or the request was cancelled while awaiting it.
AbortUpdate(t, resumption) ==
  /\ resumption \in updating[t]
  /\ updating' = [updating EXCEPT ![t] = @ \ {resumption}]
  /\ lost' = [lost EXCEPT ![t] = TRUE]
  /\ UNCHANGED <<recordVars, localVars, call, runner, server, crashes, round, asked,
                 resumed, requested, dropped>>

\* The wait for input is outside the try block.
FaultInterrupted(point) ==
  CASE point \in InTry \ {"waiting"} -> "cancelling"
    [] point \in InHandler \union {"waiting"} -> "cancelled"
    [] OTHER -> point

\* Task.cancel() on the runners of some tasks.  Inside the try block the
\* CancelledError reaches the handler that marks the record; inside a handler it
\* ends the coroutine there: CancelScope(shield=True) stops only cancellation that
\* comes from an enclosing AnyIO scope.
Interrupted(point) ==
  CASE point \in InTry -> "cancelling"
    [] point \in InHandler -> "cancelled"
    [] OTHER -> point

Interrupt(tasks) ==
  /\ runner' = [t \in Tasks |-> IF t \in tasks THEN Interrupted(runner[t]) ELSE runner[t]]
  /\ dropped' = [t \in Tasks |-> dropped[t] \/ (t \in tasks /\ runner[t] \in InHandler)]

\* A paused task is taken for one that has nothing to cancel.
FaultCancel(t) ==
  /\ Addressable(t)
  /\ status[t] \in Live
  /\ requested' = [requested EXCEPT ![t] = TRUE]
  /\ IF status[t] = "working"
       THEN cancelEvent' = [cancelEvent EXCEPT ![t] = TRUE] /\ Interrupt({t})
       ELSE UNCHANGED <<cancelEvent, runner, dropped>>
  /\ UNCHANGED <<recordVars, local, attached, inputQueue, call, updating, server, crashes,
                 round, asked, resumed, lost>>

\* MCPTaskStore.cancel of a live record: cooperative, for a tool may catch
\* CancelledError and go on.
Cancel(t) ==
  /\ Addressable(t)
  /\ status[t] \in Live
  /\ cancelEvent' = [cancelEvent EXCEPT ![t] = TRUE]
  /\ requested' = [requested EXCEPT ![t] = TRUE]
  /\ \/ Interrupt({t} \intersect {u \in Tasks : attached[u]})
     \/ runner[t] = "running" /\ UNCHANGED <<runner, dropped>>
  /\ UNCHANGED <<recordVars, local, attached, inputQueue, call, updating, server, crashes,
                 round, asked, resumed, lost>>

-----------------------------------------------------------------------------
(* The process *)

\* MCPTaskStore.close at shutdown.
Close ==
  /\ server = "up"
  /\ server' = "closed"
  /\ \E deaf \in SUBSET {t \in Tasks : runner[t] = "running"} :
       Interrupt({t \in Tasks : attached[t]} \ deaf)
  /\ UNCHANGED <<recordVars, localVars, call, updating, crashes, round, asked, resumed,
                 requested, lost>>

\* The process dies and another one takes its place over the same store.
Crash ==
  /\ crashes < MaxCrashes
  /\ crashes' = crashes + 1
  /\ server' = "up"
  /\ local' = [t \in Tasks |-> FALSE]
  /\ attached' = [t \in Tasks |-> FALSE]
  /\ inputQueue' = [t \in Tasks |-> <<>>]
  /\ cancelEvent' = [t \in Tasks |-> FALSE]
  /\ updating' = [t \in Tasks |-> {}]
  /\ call' = [t \in Tasks |-> IF call[t] \in {"created", "started"} THEN "raised" ELSE call[t]]
  /\ runner' = [t \in Tasks |-> IF runner[t] \in InTry \union InHandler
                                  THEN "crashed" ELSE runner[t]]
  /\ UNCHANGED <<recordVars, historyVars>>

HandlerStep(t) ==
  \/ CreateAborts(t)
  \/ StartRunner(t)
  \/ AttachRunner(t)
  \/ \E resumption \in updating[t] : DeliverInput(t, resumption) \/ AbortUpdate(t, resumption)

ClientStep(t) ==
  \/ Create(t)
  \/ \E keys \in SUBSET Keys : UpdatePart(t, keys) \/ UpdateLast(t, keys)
  \/ Cancel(t)

Next ==
  \/ \E t \in Tasks : ClientStep(t) \/ HandlerStep(t) \/ ToolStep(t) \/ RunnerStep(t) \/ Expire(t)
  \/ Close
  \/ Crash

Spec == Init /\ [][Next]_vars

\* The event loop runs every coroutine that can go on, and tools end; nothing makes
\* the client answer or cancel, a record expire, or the process stop.
Fairness ==
  \A t \in Tasks :
    /\ WF_vars(HandlerStep(t))
    /\ WF_vars(ToolStep(t))
    /\ WF_vars(RunnerStep(t))

FairSpec == Spec /\ Fairness

-----------------------------------------------------------------------------
(* Properties *)

TypeOK ==
  /\ status \in [Tasks -> Statuses]
  /\ answer \in [Tasks -> {"none", "result", "error"}]
  /\ requests \in [Tasks -> SUBSET Keys]
  /\ responses \in [Tasks -> SUBSET Keys]
  /\ local \in [Tasks -> BOOLEAN]
  /\ attached \in [Tasks -> BOOLEAN]
  /\ inputQueue \in [Tasks -> Seq(Resumption)]
  /\ cancelEvent \in [Tasks -> BOOLEAN]
  /\ call \in [Tasks -> {"idle", "created", "started", "answered", "raised"}]
  /\ runner \in [Tasks -> RunnerPoints]
  /\ updating \in [Tasks -> SUBSET Resumption]
  /\ server \in {"up", "closed"}
  /\ crashes \in Nat
  /\ round \in [Tasks -> Nat]
  /\ asked \in [Tasks -> SUBSET Keys]
  /\ resumed \in [Tasks -> Nat]
  /\ requested \in [Tasks -> BOOLEAN]
  /\ dropped \in [Tasks -> BOOLEAN]
  /\ lost \in [Tasks -> BOOLEAN]

\* The answers on their way to the runner.
InFlight(t) == updating[t] \union {inputQueue[t][i] : i \in DOMAIN inputQueue[t]}

\* No wake-up is lost: a runner that waits for input while its record says
\* "working" (tasks/update has been acknowledged, further updates are refused) has
\* an answer on its way, unless the very handler that carried it died in between.
NoLostWakeup ==
  \A t \in Tasks :
    runner[t] \in {"notifying", "waiting"} /\ status[t] = "working" /\ ~lost[t]
      => InFlight(t) # {}

\* Each pause is answered at most once, by a complete set of answers to the
\* requests of that very round: never by parts of it and never by the answers of
\* an earlier round, however updates race with one another and with the runner.
AnswersFitRound ==
  \A t \in Tasks :
    /\ resumed[t] <= round[t]
    /\ \A resumption \in InFlight(t) :
         resumption.round = round[t] /\ resumption.keys = asked[t]

\* Cancellation that reached the runner is on record: a runner that ended with
\* CancelledError leaves a terminal record, unless the record had expired or the
\* error hit it inside an except handler.
CancelRecorded ==
  \A t \in Tasks :
    runner[t] = "cancelled" /\ ~dropped[t] => status[t] \in Terminal \union {"expired"}

\* The records live the life TaskLifecycle promises.
Lifecycle == INSTANCE TaskLifecycle
LifecycleSpec == Lifecycle!Spec

\* An acknowledged tasks/cancel ends the task: the record becomes terminal, unless
\* it expires, its process crashes, or an interrupt hits the runner in a handler.
CancelHonoured ==
  \A t \in Tasks :
    requested[t] ~> \/ status[t] \in Terminal \union {"expired"}
                    \/ dropped[t]
                    \/ runner[t] = "crashed"
=============================================================================
