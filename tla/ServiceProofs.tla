---------------------------- MODULE ServiceProofs ----------------------------
(***************************************************************************)
(* Proofs about what mcp/service.py keeps and serves: the tasks of one     *)
(* process (McpTasks); for whom work is done, what a client reads of a     *)
(* skill, and the pages of the lists (Identity, Skills and Registry, as    *)
(* parts of Catalog).                                                      *)
(*                                                                         *)
(* McpTasks: invariance and refinement for every set of tasks and keys and *)
(* every bound.  No property is inductive alone.  IInv adds which record   *)
(* statuses each program point of the runner allows (RunnerFits), that     *)
(* answers are in flight only between a resumption and the runner's waking *)
(* up, one set at a time (WakeupFits), and what a paused record says of    *)
(* its round (PauseFits).                                                  *)
(***************************************************************************)
EXTENDS McpTasks, Catalog, SequenceTheorems, FiniteSetTheorems, WellFoundedInduction, TLAPS

\* Where the tools/call handler is, the record exists and the runner has started; what
\* the process runs, it also has a queue for.
CallFits(t) ==
  /\ call[t] = "idle" <=> status[t] = "none"
  /\ call[t] \in {"idle", "created"} => runner[t] = "none"
  /\ runner[t] = "none" => status[t] \in {"none", "working", "expired"}
  /\ call[t] = "created" \/ runner[t] \in InTry \union InHandler => local[t]

RunnerFits(t) ==
  /\ runner[t] \in {"running", "completing", "pausing"} => status[t] \in {"working", "expired"}
  /\ runner[t] \in {"notifying", "waiting"} =>
       status[t] \in {"working", "input_required", "expired"}
  /\ runner[t] = "cancelled" /\ ~dropped[t] => status[t] \in Terminal \union {"expired"}

AnswerFits(t) ==
  /\ answer[t] = "result" <=> status[t] = "completed"
  /\ answer[t] = "error" <=> status[t] = "failed"

\* No answers are on their way.
Quiet(t) == updating[t] = {} /\ inputQueue[t] = <<>>

\* One set of answers is on its way.
OneInFlight(t) ==
  \/ inputQueue[t] = <<>> /\ \E resumption \in updating[t] : updating[t] = {resumption}
  \/ updating[t] = {} /\ Len(inputQueue[t]) = 1

WakeupFits(t) ==
  /\ Quiet(t) \/ OneInFlight(t)
  /\ runner[t] \in {"none", "running", "completing", "pausing"} => Quiet(t)
  /\ runner[t] \in {"notifying", "waiting"} /\ status[t] = "working" /\ ~lost[t] => ~Quiet(t)
  /\ \A resumption \in InFlight(t) :
       resumption.round = round[t] /\ resumption.keys = asked[t]

PauseFits(t) ==
  /\ resumed[t] <= round[t]
  /\ status[t] = "input_required" =>
       Quiet(t) /\ resumed[t] < round[t] /\ requests[t] \union responses[t] = asked[t]

TaskInv(t) ==
  CallFits(t) /\ RunnerFits(t) /\ AnswerFits(t) /\ WakeupFits(t) /\ PauseFits(t)

IInv == TypeOK /\ \A t \in Tasks : TaskInv(t)

-----------------------------------------------------------------------------
(* Types *)

RecordTypeOK ==
  /\ status \in [Tasks -> Statuses]
  /\ answer \in [Tasks -> {"none", "result", "error"}]
  /\ requests \in [Tasks -> SUBSET Keys]
  /\ responses \in [Tasks -> SUBSET Keys]

\* _save writes a record of the right type, and so does _transition, which may also
\* leave the stored record as it is.
LEMMA SaveType ==
  ASSUME NEW t \in Tasks, NEW s \in Statuses, NEW a \in {"none", "result", "error"},
         NEW reqs \in SUBSET Keys, NEW resps \in SUBSET Keys,
         RecordTypeOK, Save(t, s, a, reqs, resps)
  PROVE  RecordTypeOK'
BY DEF RecordTypeOK, Save

LEMMA TransitionType ==
  ASSUME NEW t \in Tasks, NEW s \in Statuses, NEW a \in {"none", "result", "error"},
         NEW reqs \in SUBSET Keys,
         RecordTypeOK, Transition(t, s, a, reqs)
  PROVE  RecordTypeOK'
<1>1. CASE status[t] \in Terminal
  BY <1>1 DEF RecordTypeOK, Transition, recordVars
<1>2. CASE status[t] \notin Terminal
  BY <1>2, SaveType DEF Transition
<1> QED BY <1>1, <1>2

LEMMA PointNames ==
  {"none", "running", "completing", "reporting", "pausing", "notifying", "waiting", "failing",
   "cancelling", "ended", "cancelled", "crashed"} \subseteq RunnerPoints
BY DEF RunnerPoints, InTry, InHandler, Over

\* Interrupting runners leaves them at points of _run_task.
LEMMA InterruptType ==
  ASSUME runner \in [Tasks -> RunnerPoints], dropped \in [Tasks -> BOOLEAN],
         NEW tasks, Interrupt(tasks)
  PROVE  runner' \in [Tasks -> RunnerPoints] /\ dropped' \in [Tasks -> BOOLEAN]
<1>1. \A point \in RunnerPoints : Interrupted(point) \in RunnerPoints
  BY DEF Interrupted, RunnerPoints, InTry, InHandler, Over
<1>2. runner' = [t \in Tasks |-> IF t \in tasks THEN Interrupted(runner[t]) ELSE runner[t]]
  BY DEF Interrupt
<1>3. dropped' = [t \in Tasks |-> dropped[t] \/ (t \in tasks /\ runner[t] \in InHandler)]
  BY DEF Interrupt
<1>4. runner' \in [Tasks -> RunnerPoints]
  BY <1>1, <1>2
<1>5. dropped' \in [Tasks -> BOOLEAN]
  BY <1>3
<1> QED BY <1>4, <1>5

\* Every step keeps every variable in its type.
LEMMA TypeStep == TypeOK /\ [Next]_vars => TypeOK'
<1> SUFFICES ASSUME TypeOK, [Next]_vars PROVE TypeOK'
  OBVIOUS
<1> USE DEF TypeOK
<1>1. ASSUME NEW t \in Tasks, Create(t) PROVE TypeOK'
  BY <1>1 DEF Create, Save, Statuses, Live, historyVars
<1>2. ASSUME NEW t \in Tasks, NEW keys \in SUBSET Keys, UpdatePart(t, keys) PROVE TypeOK'
  BY <1>2 DEF UpdatePart, Save, Statuses, Live, localVars, historyVars
<1>3. ASSUME NEW t \in Tasks, NEW keys \in SUBSET Keys, UpdateLast(t, keys) PROVE TypeOK'
  <2> DEFINE new == [round |-> round[t], keys |-> responses[t] \union requests[t]]
  <2>1. new \in Resumption
    BY DEF Resumption
  <2>2. updating[t] \union {new} \in SUBSET Resumption
    BY <2>1
  <2>3. updating' = [updating EXCEPT ![t] = @ \union {new}]
    BY <1>3 DEF UpdateLast
  <2>4. updating' \in [Tasks -> SUBSET Resumption]
    BY <2>2, <2>3
  <2>5. status' \in [Tasks -> Statuses] /\ answer' \in [Tasks -> {"none", "result", "error"}]
        /\ requests' \in [Tasks -> SUBSET Keys] /\ responses' \in [Tasks -> SUBSET Keys]
        /\ resumed' \in [Tasks -> Nat]
    BY <1>3 DEF UpdateLast, Save, Statuses, Live
  <2> QED BY <1>3, <2>4, <2>5 DEF UpdateLast, localVars
<1>4. ASSUME NEW t \in Tasks, Cancel(t) PROVE TypeOK'
  <2>1. runner' \in [Tasks -> RunnerPoints] /\ dropped' \in [Tasks -> BOOLEAN]
    <3>1. CASE Interrupt({t} \intersect {u \in Tasks : attached[u]})
      BY <3>1, InterruptType
    <3>2. CASE UNCHANGED <<runner, dropped>>
      BY <3>2
    <3> QED BY <1>4, <3>1, <3>2 DEF Cancel
  <2> QED BY <1>4, <2>1 DEF Cancel, recordVars
<1>5. ASSUME NEW t \in Tasks, HandlerStep(t) PROVE TypeOK'
  <2>1. CASE CreateAborts(t)
    BY <2>1 DEF CreateAborts, recordVars, localVars, historyVars
  <2>2. CASE StartRunner(t)
    BY <2>2 DEF StartRunner, recordVars, localVars, historyVars, RunnerPoints, InTry
  <2>3. CASE AttachRunner(t)
    BY <2>3 DEF AttachRunner, Found, recordVars, historyVars
  <2>4. ASSUME NEW resumption \in updating[t], DeliverInput(t, resumption) PROVE TypeOK'
    <3>1. updating' \in [Tasks -> SUBSET Resumption]
      BY <2>4 DEF DeliverInput
    <3>2. inputQueue' \in [Tasks -> Seq(Resumption)]
      <4>1. resumption \in Resumption
        OBVIOUS
      <4>2. Append(inputQueue[t], resumption) \in Seq(Resumption)
        BY <4>1
      <4> QED BY <2>4, <4>2 DEF DeliverInput
    <3> QED BY <2>4, <3>1, <3>2 DEF DeliverInput, recordVars, historyVars
  <2>5. ASSUME NEW resumption \in updating[t], AbortUpdate(t, resumption) PROVE TypeOK'
    <3>1. updating' \in [Tasks -> SUBSET Resumption]
      BY <2>5 DEF AbortUpdate
    <3> QED BY <2>5, <3>1 DEF AbortUpdate, recordVars, localVars
  <2> QED BY <1>5, <2>1, <2>2, <2>3, <2>4, <2>5 DEF HandlerStep
<1>6. ASSUME NEW t \in Tasks, ToolStep(t) PROVE TypeOK'
  <2> USE DEF RunnerMoves, RunnerAt, recordVars, localVars, RunnerPoints, InTry, InHandler
  <2>1. CASE ToolReturns(t) \/ ToolRaises(t)
    BY <2>1 DEF ToolReturns, ToolRaises, historyVars
  <2>2. ASSUME NEW keys \in SUBSET Keys, ToolAsks(t, keys) PROVE TypeOK'
    BY <2>2 DEF ToolAsks
  <2> QED BY <1>6, <2>1, <2>2 DEF ToolStep
<1>7. ASSUME NEW t \in Tasks, RunnerStep(t) PROVE TypeOK'
  <2> USE DEF RunnerStep, Complete, CompleteRaises, Reported, ReportRaises, Fail, Pause,
              PauseRaises, StartWait, NotifyRaises, ReceiveInput, WaitCancelled, MarkCancelled,
              RunnerMoves
  <2> HIDE DEF TypeOK
  <2>1. RecordTypeOK'
    <3>1. UNCHANGED recordVars \/ \E s \in Statuses, a \in {"none", "result", "error"},
                                    reqs \in SUBSET Keys : Transition(t, s, a, reqs)
      BY <1>7 DEF TypeOK, Statuses, Terminal, Live
    <3>2. CASE UNCHANGED recordVars
      BY <3>2 DEF TypeOK, RecordTypeOK, recordVars
    <3>3. ASSUME NEW s \in Statuses, NEW a \in {"none", "result", "error"},
                 NEW reqs \in SUBSET Keys, Transition(t, s, a, reqs)
          PROVE  RecordTypeOK'
      <4>1. RecordTypeOK
        BY DEF TypeOK, RecordTypeOK
      <4> QED BY <3>3, <4>1, TransitionType
    <3> QED BY <3>1, <3>2, <3>3
  <2>2. runner' \in [Tasks -> RunnerPoints]
    <3>1. \E to \in RunnerPoints : runner' = [runner EXCEPT ![t] = to]
      BY <1>7, PointNames DEF RunnerAt
    <3> QED BY <3>1 DEF TypeOK
  <2>3. round' \in [Tasks -> Nat]
    <3>1. round' = round \/ round' = [round EXCEPT ![t] = @ + 1]
      BY <1>7 DEF historyVars
    <3>2. round \in [Tasks -> Nat]
      BY DEF TypeOK
    <3> QED BY <3>1, <3>2
  <2>4. inputQueue' \in [Tasks -> Seq(Resumption)]
    <3>1. \/ inputQueue' = inputQueue
          \/ inputQueue[t] # <<>> /\ inputQueue' = [inputQueue EXCEPT ![t] = Tail(@)]
      BY <1>7 DEF localVars
    <3>2. inputQueue[t] \in Seq(Resumption)
      BY DEF TypeOK
    <3>3. inputQueue[t] # <<>> => Tail(inputQueue[t]) \in Seq(Resumption)
      BY <3>2
    <3> QED
      <4>1. CASE inputQueue' = inputQueue
        BY <4>1 DEF TypeOK
      <4>2. CASE inputQueue[t] # <<>> /\ inputQueue' = [inputQueue EXCEPT ![t] = Tail(@)]
        BY <4>2, <3>3 DEF TypeOK
      <4> QED BY <3>1, <4>1, <4>2
  <2>5. UNCHANGED <<local, attached, cancelEvent, call, updating, server, crashes, asked, resumed,
                    requested, dropped, lost>>
    BY <1>7 DEF localVars, historyVars
  <2> QED BY <2>1, <2>2, <2>3, <2>4, <2>5 DEF TypeOK, RecordTypeOK
<1>8. ASSUME NEW t \in Tasks, Expire(t) PROVE TypeOK'
  BY <1>8 DEF Expire, Save, Statuses, localVars, historyVars
<1>9. CASE Close
  <2>1. PICK deaf : Interrupt({t \in Tasks : attached[t]} \ deaf)
    BY <1>9 DEF Close
  <2>2. runner' \in [Tasks -> RunnerPoints] /\ dropped' \in [Tasks -> BOOLEAN]
    BY <2>1, InterruptType
  <2> QED BY <1>9, <2>2 DEF Close, recordVars, localVars
<1>10. CASE Crash
  <2>1. runner' \in [Tasks -> RunnerPoints]
    BY <1>10 DEF Crash, RunnerPoints, Over
  <2>2. inputQueue' \in [Tasks -> Seq(Resumption)] /\ updating' \in [Tasks -> SUBSET Resumption]
    BY <1>10 DEF Crash
  <2>3. /\ local' \in [Tasks -> BOOLEAN]
        /\ attached' \in [Tasks -> BOOLEAN]
        /\ cancelEvent' \in [Tasks -> BOOLEAN]
        /\ call' \in [Tasks -> {"idle", "created", "started", "answered", "raised"}]
    BY <1>10 DEF Crash
  <2> QED BY <1>10, <2>1, <2>2, <2>3 DEF Crash, recordVars, historyVars
<1>11. CASE UNCHANGED vars
  BY <1>11 DEF vars, recordVars, localVars, historyVars
<1> QED
  BY <1>1, <1>2, <1>3, <1>4, <1>5, <1>6, <1>7, <1>8, <1>9, <1>10, <1>11 DEF Next, ClientStep

\* TypeOK for every set of tasks and keys.
THEOREM Types == Spec => []TypeOK
<1>1. Init => TypeOK
  BY DEF Init, TypeOK, Statuses, RunnerPoints
<1>2. TypeOK /\ [Next]_vars => TypeOK'
  BY TypeStep
<1> QED BY <1>1, <1>2, PTL DEF Spec

-----------------------------------------------------------------------------
(* The inductive invariant *)

\* What TaskInv(u) speaks of.
SameTask(u) ==
  /\ status'[u] = status[u] /\ answer'[u] = answer[u]
  /\ requests'[u] = requests[u] /\ responses'[u] = responses[u]
  /\ call'[u] = call[u] /\ runner'[u] = runner[u] /\ local'[u] = local[u]
  /\ inputQueue'[u] = inputQueue[u] /\ updating'[u] = updating[u]
  /\ round'[u] = round[u] /\ asked'[u] = asked[u] /\ resumed'[u] = resumed[u]
  /\ dropped'[u] = dropped[u] /\ lost'[u] = lost[u]

LEMMA Frame ==
  ASSUME NEW u \in Tasks, TaskInv(u), SameTask(u)
  PROVE  TaskInv(u)'
<1> USE DEF TaskInv, SameTask
<1>1. CallFits(u)' /\ RunnerFits(u)' /\ AnswerFits(u)'
  BY DEF CallFits, RunnerFits, AnswerFits
<1>2. WakeupFits(u)'
  BY DEF WakeupFits, Quiet, OneInFlight, InFlight
<1>3. PauseFits(u)'
  BY DEF PauseFits, Quiet
<1> QED BY <1>1, <1>2, <1>3

\* What is on its way when nothing, or one set of answers, is.
LEMMA QuietMeans ==
  ASSUME TypeOK, NEW t \in Tasks
  PROVE  Quiet(t) <=> InFlight(t) = {}
<1>1. inputQueue[t] \in Seq(Resumption)
  BY DEF TypeOK
<1>2. CASE Quiet(t)
  BY <1>1, <1>2 DEF Quiet, InFlight
<1>3. CASE InFlight(t) = {}
  <2>1. updating[t] = {}
    BY <1>3 DEF InFlight
  <2>2. \A i \in DOMAIN inputQueue[t] : inputQueue[t][i] \in InFlight(t)
    BY DEF InFlight
  <2>3. inputQueue[t] = <<>>
    <3>1. DOMAIN inputQueue[t] = 1 .. Len(inputQueue[t])
      BY <1>1, LenProperties
    <3>2. inputQueue[t] # <<>> => Len(inputQueue[t]) \in Nat \ {0}
      BY <1>1, EmptySeq
    <3>3. inputQueue[t] # <<>> => 1 \in DOMAIN inputQueue[t]
      BY <3>1, <3>2
    <3> QED BY <1>3, <2>2, <3>3
  <2> QED BY <1>3, <2>1, <2>3 DEF Quiet
<1> QED BY <1>2, <1>3

\* A step of t that leaves its round, its answers on their way and its calls alone.
LEMMA QueueFrame ==
  ASSUME NEW t \in Tasks, WakeupFits(t), PauseFits(t),
         inputQueue'[t] = inputQueue[t], updating'[t] = updating[t],
         round'[t] = round[t], asked'[t] = asked[t], resumed'[t] = resumed[t],
         lost[t] => lost'[t],
         runner'[t] \in {"none", "running", "completing", "pausing"} =>
           runner[t] \in {"none", "running", "completing", "pausing"},
         runner'[t] \in {"notifying", "waiting"} =>
           \/ status'[t] = "expired"
           \/ runner[t] \in {"notifying", "waiting"} /\ status'[t] = status[t],
         status'[t] = "input_required" =>
           /\ status[t] = "input_required"
           /\ requests'[t] \union responses'[t] = requests[t] \union responses[t]
  PROVE  WakeupFits(t)' /\ PauseFits(t)'
<1>1. Quiet(t)' = Quiet(t) /\ OneInFlight(t)' = OneInFlight(t) /\ InFlight(t)' = InFlight(t)
  BY DEF Quiet, OneInFlight, InFlight
<1>2. WakeupFits(t)'
  BY <1>1 DEF WakeupFits
<1>3. PauseFits(t)'
  BY <1>1 DEF PauseFits
<1> QED BY <1>2, <1>3

\* A step of one task leaves the others alone.
TaskStep(t) == ClientStep(t) \/ HandlerStep(t) \/ ToolStep(t) \/ RunnerStep(t) \/ Expire(t)

LEMMA OtherTasks ==
  ASSUME TypeOK, NEW t \in Tasks, NEW u \in Tasks, u # t, TaskStep(t)
  PROVE  SameTask(u)
<1> USE DEF TypeOK, SameTask
<1>1. CASE Create(t)
  BY <1>1 DEF Create, Save, historyVars
<1>2. ASSUME NEW keys \in SUBSET Keys, UpdatePart(t, keys) PROVE SameTask(u)
  BY <1>2 DEF UpdatePart, Save, localVars, historyVars
<1>3. ASSUME NEW keys \in SUBSET Keys, UpdateLast(t, keys) PROVE SameTask(u)
  BY <1>3 DEF UpdateLast, Save, localVars
<1>4. CASE Cancel(t)
  <2>1. runner'[u] = runner[u] /\ dropped'[u] = dropped[u]
    BY <1>4 DEF Cancel, Interrupt
  <2> QED BY <1>4, <2>1 DEF Cancel, recordVars
<1>5. CASE HandlerStep(t)
  <2>1. CASE CreateAborts(t) \/ StartRunner(t) \/ AttachRunner(t)
    BY <2>1 DEF CreateAborts, StartRunner, AttachRunner, recordVars, localVars, historyVars
  <2>2. ASSUME NEW resumption \in updating[t], DeliverInput(t, resumption) PROVE SameTask(u)
    BY <2>2 DEF DeliverInput, recordVars, historyVars
  <2>3. ASSUME NEW resumption \in updating[t], AbortUpdate(t, resumption) PROVE SameTask(u)
    BY <2>3 DEF AbortUpdate, recordVars, localVars
  <2> QED BY <1>5, <2>1, <2>2, <2>3 DEF HandlerStep
<1>6. CASE ToolStep(t)
  BY <1>6 DEF ToolStep, ToolReturns, ToolRaises, ToolAsks, RunnerMoves, RunnerAt, recordVars,
              localVars, historyVars
<1>7. CASE RunnerStep(t)
  <2> USE DEF RunnerAt, RunnerMoves, recordVars, localVars, historyVars
  <2>1. CASE Complete(t) \/ Fail(t) \/ MarkCancelled(t)
    BY <2>1 DEF Complete, Fail, MarkCancelled, Transition, Save
  <2>2. CASE Pause(t)
    BY <2>2 DEF Pause, Transition, Save
  <2>3. CASE ReceiveInput(t)
    BY <2>3 DEF ReceiveInput
  <2> QED BY <1>7, <2>1, <2>2, <2>3 DEF RunnerStep, CompleteRaises, Reported, ReportRaises,
             PauseRaises, StartWait, NotifyRaises, WaitCancelled
<1>8. CASE Expire(t)
  BY <1>8 DEF Expire, Save, localVars, historyVars
<1> QED BY <1>1, <1>2, <1>3, <1>4, <1>5, <1>6, <1>7, <1>8 DEF TaskStep, ClientStep

LEMMA Interruption ==
  ASSUME TypeOK, NEW t \in Tasks, TaskInv(t),
         UNCHANGED <<status, answer, requests, responses, call, local, inputQueue, updating,
                     round, asked, resumed, lost>>,
         \/ runner'[t] = runner[t] /\ dropped'[t] = dropped[t]
         \/ runner[t] \in InTry /\ runner'[t] = "cancelling"
         \/ runner[t] \in InHandler /\ runner'[t] = "cancelled" /\ dropped'[t]
  PROVE  TaskInv(t)'
<1>1. CallFits(t)' /\ RunnerFits(t)' /\ AnswerFits(t)'
  BY DEF TaskInv, CallFits, RunnerFits, AnswerFits, InTry, InHandler
<1>2. WakeupFits(t)' /\ PauseFits(t)'
  BY QueueFrame DEF TaskInv
<1> QED BY <1>1, <1>2 DEF TaskInv

\* A step of a task keeps the invariant of that task: one step per handler and per
\* step of _run_task.
ControlFits(t) == CallFits(t) /\ RunnerFits(t) /\ AnswerFits(t)

LEMMA ClientSteps ==
  ASSUME TypeOK, NEW t \in Tasks, TaskInv(t), ClientStep(t)
  PROVE  TaskInv(t)'
<1> USE DEF TypeOK, ControlFits
<1>0. ControlFits(t) /\ WakeupFits(t) /\ PauseFits(t)
  BY DEF TaskInv
<1>1. CASE Create(t)
  <2>1. /\ call[t] = "idle" /\ status'[t] = "working" /\ answer'[t] = "none"
        /\ call'[t] = "created" /\ local'[t]
        /\ UNCHANGED <<runner, inputQueue, updating, round, asked, resumed, dropped, lost>>
    BY <1>1 DEF Create, Save, historyVars
  <2>2. ControlFits(t)'
    BY <1>0, <2>1 DEF CallFits, RunnerFits, AnswerFits, Terminal
  <2>3. runner[t] = "none"
    BY <1>0, <2>1 DEF CallFits
  <2>4. WakeupFits(t)' /\ PauseFits(t)'
    BY <1>0, <2>1, <2>3, QueueFrame
  <2> QED BY <2>2, <2>4 DEF TaskInv
<1>2. ASSUME NEW keys \in SUBSET Keys, UpdatePart(t, keys) PROVE TaskInv(t)'
  <2>1. /\ status[t] = "input_required" /\ status'[t] = status[t] /\ answer'[t] = answer[t]
        /\ UNCHANGED <<call, local, runner, inputQueue, updating, round, asked, resumed, dropped,
                       lost>>
    BY <1>2 DEF UpdatePart, Save, localVars, historyVars
  <2>2. requests'[t] = requests[t] \ keys
        /\ responses'[t] = responses[t] \union (keys \intersect requests[t])
    BY <1>2 DEF UpdatePart, Save
  <2>3. requests'[t] \union responses'[t] = requests[t] \union responses[t]
    BY <2>2
  <2>4. ControlFits(t)'
    BY <1>0, <2>1 DEF CallFits, RunnerFits, AnswerFits
  <2>5. WakeupFits(t)' /\ PauseFits(t)'
    BY <1>0, <2>1, <2>3, QueueFrame
  <2> QED BY <2>4, <2>5 DEF TaskInv
<1>3. ASSUME NEW keys \in SUBSET Keys, UpdateLast(t, keys) PROVE TaskInv(t)'
  <2> DEFINE new == [round |-> round[t], keys |-> responses[t] \union requests[t]]
  <2>1. /\ status[t] = "input_required" /\ status'[t] = "working" /\ answer'[t] = answer[t]
        /\ updating'[t] = updating[t] \union {new} /\ resumed'[t] = resumed[t] + 1
        /\ UNCHANGED <<call, local, runner, inputQueue, round, asked, dropped, lost>>
    BY <1>3 DEF UpdateLast, Save, localVars
  <2>2. /\ Quiet(t) /\ resumed[t] < round[t] /\ requests[t] \union responses[t] = asked[t]
        /\ runner[t] \notin {"none", "running", "completing", "pausing"}
        /\ call[t] # "idle"
    BY <1>0, <2>1 DEF PauseFits, RunnerFits, CallFits
  <2>3. ControlFits(t)'
    BY <1>0, <2>1, <2>2 DEF CallFits, RunnerFits, AnswerFits, Terminal
  <2>4. updating'[t] = {new} /\ inputQueue'[t] = <<>>
    BY <2>1, <2>2 DEF Quiet
  <2>5. InFlight(t)' = {new}
    <3>1. DOMAIN inputQueue'[t] = {}
      BY <2>4
    <3> QED BY <2>4, <3>1 DEF InFlight
  <2>6. WakeupFits(t)'
    <3>1. OneInFlight(t)' /\ ~Quiet(t)'
      BY <2>4 DEF OneInFlight, Quiet
    <3>2. new.round = round'[t] /\ new.keys = asked'[t]
      BY <2>1, <2>2
    <3> QED BY <2>1, <2>2, <2>5, <3>1, <3>2 DEF WakeupFits
  <2>7. PauseFits(t)'
    <3>1. resumed[t] \in Nat /\ round[t] \in Nat
      OBVIOUS
    <3> QED BY <2>1, <2>2, <3>1 DEF PauseFits
  <2> QED BY <2>3, <2>6, <2>7 DEF TaskInv
<1>4. CASE Cancel(t)
  <2>1. UNCHANGED <<status, answer, requests, responses, call, local, inputQueue, updating,
                    round, asked, resumed, lost>>
    BY <1>4 DEF Cancel, recordVars
  <2>2. \/ runner'[t] = runner[t] /\ dropped'[t] = dropped[t]
        \/ runner[t] \in InTry /\ runner'[t] = "cancelling"
        \/ runner[t] \in InHandler /\ runner'[t] = "cancelled" /\ dropped'[t]
    BY <1>4 DEF Cancel, Interrupt, Interrupted
  <2> QED BY <2>1, <2>2, Interruption
<1> QED BY <1>1, <1>2, <1>3, <1>4 DEF ClientStep

LEMMA HandlerSteps ==
  ASSUME TypeOK, NEW t \in Tasks, TaskInv(t), HandlerStep(t)
  PROVE  TaskInv(t)'
<1> USE DEF TypeOK, ControlFits
<1>0. ControlFits(t) /\ WakeupFits(t) /\ PauseFits(t)
  BY DEF TaskInv
<1>1. CASE CreateAborts(t) \/ StartRunner(t) \/ AttachRunner(t)
  <2>1. /\ UNCHANGED <<recordVars, inputQueue, updating, historyVars>>
        /\ local'[t] = local[t]
        /\ call[t] # "idle" /\ call'[t] \in {"started", "answered", "raised"}
        /\ \/ runner'[t] = runner[t]
           \/ call[t] = "created" /\ runner'[t] = "running"
    <3>1. CASE CreateAborts(t)
      BY <3>1 DEF CreateAborts, localVars
    <3>2. CASE StartRunner(t)
      BY <3>2 DEF StartRunner, localVars
    <3>3. CASE AttachRunner(t)
      BY <3>3 DEF AttachRunner
    <3> QED BY <1>1, <3>1, <3>2, <3>3
  <2>2. runner[t] = "none" \/ runner'[t] = runner[t]
    BY <1>0, <2>1 DEF CallFits
  <2>3. ControlFits(t)'
    BY <1>0, <2>1, <2>2 DEF CallFits, RunnerFits, AnswerFits, recordVars, historyVars, Terminal
  <2>4. WakeupFits(t)' /\ PauseFits(t)'
    BY <1>0, <2>1, <2>2, QueueFrame DEF recordVars, historyVars
  <2> QED BY <2>3, <2>4 DEF TaskInv
<1>2. ASSUME NEW resumption \in updating[t], DeliverInput(t, resumption) PROVE TaskInv(t)'
  <2>1. /\ UNCHANGED <<recordVars, local, call, runner, historyVars>>
        /\ updating'[t] = updating[t] \ {resumption}
        /\ inputQueue'[t] = IF local[t] THEN Append(inputQueue[t], resumption)
                                        ELSE inputQueue[t]
    BY <1>2 DEF DeliverInput
  <2>2. ControlFits(t)'
    BY <1>0, <2>1 DEF CallFits, RunnerFits, AnswerFits, recordVars, historyVars
  <2>3. updating[t] = {resumption} /\ inputQueue[t] = <<>> /\ ~Quiet(t)
    BY <1>0, <1>2 DEF WakeupFits, Quiet, OneInFlight
  <2>4. resumption \in InFlight(t) /\ resumption \in Resumption
    BY <1>2 DEF InFlight
  <2>5. updating'[t] = {}
    BY <2>1, <2>3
  <2>6. WakeupFits(t)'
    <3>1. CASE local[t]
      <4>1. inputQueue'[t] = <<resumption>>
        BY <2>1, <2>3, <3>1
      <4>2. Len(inputQueue'[t]) = 1 /\ DOMAIN inputQueue'[t] = {1} /\ inputQueue'[t][1] = resumption
            /\ inputQueue'[t] # <<>>
        BY <4>1
      <4>3. OneInFlight(t)' /\ ~Quiet(t)'
        BY <2>5, <4>2 DEF OneInFlight, Quiet
      <4>4. InFlight(t)' = {resumption}
        BY <2>5, <4>2 DEF InFlight
      <4> QED BY <1>0, <2>1, <2>3, <2>4, <4>3, <4>4 DEF WakeupFits, recordVars, historyVars
    <3>2. CASE ~local[t]
      <4>1. Quiet(t)'
        BY <2>1, <2>3, <2>5, <3>2 DEF Quiet
      <4>2. InFlight(t)' = {}
        <5>1. inputQueue'[t] = <<>> /\ DOMAIN inputQueue'[t] = {}
          BY <2>1, <2>3, <3>2
        <5> QED BY <2>5, <5>1 DEF InFlight
      <4>3. runner'[t] \notin {"notifying", "waiting"}
        BY <1>0, <2>1, <3>2 DEF CallFits, InTry
      <4> QED BY <4>1, <4>2, <4>3 DEF WakeupFits
    <3> QED BY <3>1, <3>2
  <2>7. PauseFits(t)'
    BY <1>0, <2>1, <2>3 DEF PauseFits, recordVars, historyVars
  <2> QED BY <2>2, <2>6, <2>7 DEF TaskInv
<1>3. ASSUME NEW resumption \in updating[t], AbortUpdate(t, resumption) PROVE TaskInv(t)'
  <2>1. /\ UNCHANGED <<recordVars, local, call, runner, inputQueue, round, asked, resumed, dropped>>
        /\ updating'[t] = updating[t] \ {resumption} /\ lost'[t] = TRUE
    BY <1>3 DEF AbortUpdate, localVars
  <2>2. ControlFits(t)'
    BY <1>0, <2>1 DEF CallFits, RunnerFits, AnswerFits, recordVars
  <2>3. updating[t] = {resumption} /\ inputQueue[t] = <<>> /\ ~Quiet(t)
    BY <1>0, <1>3 DEF WakeupFits, Quiet, OneInFlight
  <2>4. Quiet(t)'
    BY <2>1, <2>3 DEF Quiet
  <2>5. InFlight(t)' = {}
    <3>1. updating'[t] = {} /\ inputQueue'[t] = <<>> /\ DOMAIN inputQueue'[t] = {}
      BY <2>1, <2>3
    <3> QED BY <3>1 DEF InFlight
  <2>6. WakeupFits(t)'
    BY <2>1, <2>4, <2>5 DEF WakeupFits
  <2>7. PauseFits(t)'
    BY <1>0, <2>1, <2>3 DEF PauseFits, recordVars
  <2> QED BY <2>2, <2>6, <2>7 DEF TaskInv
<1> QED BY <1>1, <1>2, <1>3 DEF HandlerStep

LEMMA ToolSteps ==
  ASSUME TypeOK, NEW t \in Tasks, TaskInv(t), ToolStep(t)
  PROVE  TaskInv(t)'
<1> USE DEF TypeOK, ControlFits
<1>0. ControlFits(t) /\ WakeupFits(t) /\ PauseFits(t)
  BY DEF TaskInv
<1>1. PICK keys \in SUBSET Keys : ToolReturns(t) \/ ToolRaises(t) \/ ToolAsks(t, keys)
  BY DEF ToolStep
<1>2. /\ runner[t] = "running" /\ runner'[t] \in {"completing", "failing", "pausing"}
      /\ UNCHANGED <<recordVars, localVars, call, updating, round, resumed, dropped, lost>>
      /\ asked'[t] = asked[t] \/ runner'[t] = "pausing"
  BY <1>1 DEF ToolReturns, ToolRaises, ToolAsks, RunnerMoves, RunnerAt, historyVars
<1>3. ControlFits(t)'
  BY <1>0, <1>2 DEF CallFits, RunnerFits, AnswerFits, recordVars, localVars, InTry, InHandler
<1>4. Quiet(t) /\ Quiet(t)'
  BY <1>0, <1>2 DEF WakeupFits, Quiet, localVars
<1>5. InFlight(t)' = {}
  <2>1. updating'[t] = {} /\ inputQueue'[t] = <<>> /\ DOMAIN inputQueue'[t] = {}
    BY <1>4 DEF Quiet
  <2> QED BY <2>1 DEF InFlight
<1>6. WakeupFits(t)' /\ PauseFits(t)'
  <2>1. status[t] # "input_required"
    BY <1>0, <1>2 DEF RunnerFits
  <2> QED BY <1>0, <1>2, <1>4, <1>5, <2>1 DEF WakeupFits, PauseFits, recordVars
<1> QED BY <1>3, <1>6 DEF TaskInv

LEMMA RunnerSteps ==
  ASSUME TypeOK, NEW t \in Tasks, TaskInv(t), RunnerStep(t)
  PROVE  TaskInv(t)'
<1> USE DEF TypeOK, ControlFits
<1>0. ControlFits(t) /\ WakeupFits(t) /\ PauseFits(t)
  BY DEF TaskInv
<1> DEFINE Rest == UNCHANGED <<local, call, inputQueue, updating, round, asked, resumed, dropped,
                               lost>>
<1>1. CASE \/ CompleteRaises(t) \/ PauseRaises(t) \/ Reported(t) \/ ReportRaises(t)
           \/ NotifyRaises(t) \/ WaitCancelled(t) \/ StartWait(t)
  <2>1. /\ Rest /\ UNCHANGED recordVars
        /\ \/ runner[t] \in InTry /\ runner'[t] \in {"failing", "cancelling", "ended"}
           \/ runner[t] = "notifying" /\ runner'[t] = "waiting"
    BY <1>1 DEF CompleteRaises, PauseRaises, Reported, ReportRaises, NotifyRaises,
                WaitCancelled, StartWait, RunnerMoves, RunnerAt, localVars, historyVars, InTry
  <2>2. ControlFits(t)'
    BY <1>0, <2>1 DEF CallFits, RunnerFits, AnswerFits, recordVars, InTry, InHandler
  <2>3. WakeupFits(t)' /\ PauseFits(t)'
    BY <1>0, <2>1, QueueFrame DEF recordVars
  <2> QED BY <2>2, <2>3 DEF TaskInv
<1>2. CASE Complete(t) \/ Fail(t) \/ MarkCancelled(t)
  <2>1. /\ Rest
        /\ \/ runner[t] = "completing" /\ runner'[t] = "reporting"
           \/ runner[t] = "completing" /\ runner'[t] = "failing"
           \/ runner[t] = "failing" /\ runner'[t] = "ended"
           \/ runner[t] = "cancelling" /\ runner'[t] \in {"cancelled", "ended"}
    BY <1>2 DEF Complete, Fail, MarkCancelled, RunnerAt, localVars, historyVars
  <2>2. \/ UNCHANGED recordVars
        \/ /\ status[t] \notin Terminal \union {"none", "expired"}
           /\ \/ status'[t] = "completed" /\ answer'[t] = "result"
              \/ status'[t] = "failed" /\ answer'[t] = "error"
              \/ status'[t] = "cancelled" /\ answer'[t] = "none"
    BY <1>2 DEF Complete, Fail, MarkCancelled, Found, Transition, Save
  <2>3. status'[t] = "input_required" => UNCHANGED recordVars
    BY <2>2
  <2>4. runner'[t] = "cancelled" => status'[t] \in Terminal
    <3>1. CASE MarkCancelled(t)
      BY <3>1 DEF MarkCancelled, Found, Transition, Save, recordVars, RunnerAt, Terminal
    <3>2. CASE Complete(t) \/ Fail(t)
      BY <3>2 DEF Complete, Fail, RunnerAt
    <3> QED BY <1>2, <3>1, <3>2
  <2>5. ControlFits(t)'
    BY <1>0, <2>1, <2>2, <2>4
       DEF CallFits, RunnerFits, AnswerFits, recordVars, InTry, InHandler, Terminal
  <2>6. WakeupFits(t)' /\ PauseFits(t)'
    BY <1>0, <2>1, <2>3, QueueFrame DEF recordVars
  <2> QED BY <2>5, <2>6 DEF TaskInv
<1>3. CASE Pause(t)
  <2>1. runner[t] = "pausing" /\ UNCHANGED <<local, call, inputQueue, updating, asked, resumed,
                                              dropped, lost>>
    BY <1>3 DEF Pause, RunnerAt, localVars
  <2>2. CASE Found(t)
    <3>1. status[t] = "working"
      BY <1>0, <2>1, <2>2 DEF RunnerFits, Found
    <3>2. /\ status'[t] = "input_required" /\ answer'[t] = "none"
          /\ requests'[t] = asked[t] /\ responses'[t] = {}
          /\ runner'[t] = "notifying" /\ round'[t] = round[t] + 1
      BY <1>3, <2>2, <3>1 DEF Pause, RunnerAt, Transition, Save, Terminal
    <3>3. ControlFits(t)'
      BY <1>0, <2>1, <3>1, <3>2 DEF CallFits, RunnerFits, AnswerFits, InTry
    <3>4. Quiet(t) /\ Quiet(t)'
      BY <1>0, <2>1 DEF WakeupFits, Quiet
    <3>5. InFlight(t)' = {}
      <4>1. updating'[t] = {} /\ inputQueue'[t] = <<>> /\ DOMAIN inputQueue'[t] = {}
        BY <3>4 DEF Quiet
      <4> QED BY <4>1 DEF InFlight
    <3>6. WakeupFits(t)'
      BY <3>2, <3>4, <3>5 DEF WakeupFits
    <3>7. resumed[t] \in Nat /\ round[t] \in Nat
      OBVIOUS
    <3>8. PauseFits(t)'
      BY <1>0, <2>1, <3>2, <3>4, <3>7 DEF PauseFits
    <3> QED BY <3>3, <3>6, <3>8 DEF TaskInv
  <2>3. CASE ~Found(t)
    <3>1. UNCHANGED <<recordVars, round>> /\ runner'[t] = "failing"
      BY <1>3, <2>3 DEF Pause, RunnerAt
    <3>2. ControlFits(t)'
      BY <1>0, <2>1, <3>1 DEF CallFits, RunnerFits, AnswerFits, recordVars, InTry, InHandler
    <3>3. WakeupFits(t)' /\ PauseFits(t)'
      BY <1>0, <2>1, <3>1, QueueFrame DEF recordVars
    <3> QED BY <3>2, <3>3 DEF TaskInv
  <2> QED BY <2>2, <2>3
<1>4. CASE ReceiveInput(t)
  <2>1. /\ inputQueue[t] # <<>> /\ runner[t] = "waiting" /\ runner'[t] = "running"
        /\ inputQueue'[t] = Tail(inputQueue[t])
        /\ UNCHANGED <<recordVars, local, call, updating, historyVars>>
    BY <1>4 DEF ReceiveInput, RunnerAt
  <2>2. ~Quiet(t) /\ updating[t] = {} /\ Len(inputQueue[t]) = 1
    BY <1>0, <2>1 DEF WakeupFits, Quiet, OneInFlight
  <2>3. status[t] \in {"working", "expired"}
    BY <1>0, <2>1, <2>2 DEF RunnerFits, PauseFits
  <2>4. ControlFits(t)'
    BY <1>0, <2>1, <2>3 DEF CallFits, RunnerFits, AnswerFits, recordVars, historyVars, InTry
  <2>5. inputQueue'[t] = <<>>
    <3>1. inputQueue[t] \in Seq(Resumption)
      OBVIOUS
    <3>2. Tail(inputQueue[t]) \in Seq(Resumption) /\ Len(Tail(inputQueue[t])) = 0
      BY <2>1, <2>2, <3>1, HeadTailProperties
    <3>3. Tail(inputQueue[t]) # <<>> => Len(Tail(inputQueue[t])) \in Nat \ {0}
      BY <3>2, EmptySeq
    <3> QED BY <2>1, <3>2, <3>3
  <2>6. Quiet(t)' /\ InFlight(t)' = {}
    <3>1. updating'[t] = {} /\ DOMAIN inputQueue'[t] = {}
      BY <2>1, <2>2, <2>5
    <3> QED BY <2>5, <3>1 DEF Quiet, InFlight
  <2>7. WakeupFits(t)'
    BY <2>1, <2>6 DEF WakeupFits
  <2>8. PauseFits(t)'
    BY <1>0, <2>1, <2>6 DEF PauseFits, recordVars, historyVars
  <2> QED BY <2>4, <2>7, <2>8 DEF TaskInv
<1> QED BY <1>1, <1>2, <1>3, <1>4 DEF RunnerStep

LEMMA ExpireStep ==
  ASSUME TypeOK, NEW t \in Tasks, TaskInv(t), Expire(t)
  PROVE  TaskInv(t)'
<1> USE DEF TypeOK, ControlFits
<1>0. ControlFits(t) /\ WakeupFits(t) /\ PauseFits(t)
  BY DEF TaskInv
<1>1. /\ status[t] # "none" /\ status'[t] = "expired" /\ answer'[t] = "none"
      /\ UNCHANGED <<local, call, runner, inputQueue, updating, round, asked, resumed, dropped,
                     lost>>
  BY DEF Expire, Found, Save, localVars, historyVars
<1>2. ControlFits(t)'
  BY <1>0, <1>1 DEF CallFits, RunnerFits, AnswerFits
<1>3. WakeupFits(t)' /\ PauseFits(t)'
  BY <1>0, <1>1, QueueFrame
<1> QED BY <1>2, <1>3 DEF TaskInv

\* The process steps touch every task at once.
LEMMA CloseStep ==
  ASSUME TypeOK, NEW t \in Tasks, TaskInv(t), Close
  PROVE  TaskInv(t)'
<1> USE DEF TypeOK
<1>1. UNCHANGED <<status, answer, requests, responses, call, local, inputQueue, updating,
                  round, asked, resumed, lost>>
  BY DEF Close, recordVars, localVars
<1>2. PICK tasks : Interrupt(tasks)
  BY DEF Close
<1>3. \/ runner'[t] = runner[t] /\ dropped'[t] = dropped[t]
      \/ runner[t] \in InTry /\ runner'[t] = "cancelling"
      \/ runner[t] \in InHandler /\ runner'[t] = "cancelled" /\ dropped'[t]
  <2>1. /\ runner'[t] = IF t \in tasks THEN Interrupted(runner[t]) ELSE runner[t]
        /\ dropped'[t] = (dropped[t] \/ (t \in tasks /\ runner[t] \in InHandler))
    BY <1>2 DEF Interrupt
  <2>2. CASE t \notin tasks
    BY <2>1, <2>2
  <2>3. CASE t \in tasks
    BY <2>1, <2>3 DEF Interrupted, InTry, InHandler
  <2> QED BY <2>2, <2>3
<1> QED BY <1>1, <1>3, Interruption

LEMMA CrashStep ==
  ASSUME TypeOK, NEW t \in Tasks, TaskInv(t), Crash
  PROVE  TaskInv(t)'
<1> USE DEF TypeOK, ControlFits
<1>0. ControlFits(t) /\ WakeupFits(t) /\ PauseFits(t)
  BY DEF TaskInv
<1>1. /\ UNCHANGED <<recordVars, historyVars>>
      /\ inputQueue'[t] = <<>> /\ updating'[t] = {}
      /\ call'[t] = IF call[t] \in {"created", "started"} THEN "raised" ELSE call[t]
      /\ runner'[t] = IF runner[t] \in InTry \union InHandler THEN "crashed" ELSE runner[t]
  BY DEF Crash
<1>2. runner'[t] \notin InTry \union InHandler /\ call'[t] # "created"
  BY <1>1 DEF InTry, InHandler
<1>3. ControlFits(t)'
  BY <1>0, <1>1, <1>2
     DEF CallFits, RunnerFits, AnswerFits, recordVars, historyVars, InTry, InHandler
<1>4. Quiet(t)' /\ InFlight(t)' = {}
  <2>1. DOMAIN inputQueue'[t] = {}
    BY <1>1
  <2> QED BY <1>1, <2>1 DEF Quiet, InFlight
<1>5. WakeupFits(t)' /\ PauseFits(t)'
  BY <1>0, <1>1, <1>2, <1>4 DEF WakeupFits, PauseFits, recordVars, historyVars, InTry
<1> QED BY <1>3, <1>5 DEF TaskInv

LEMMA InvInit == Init => IInv
<1> SUFFICES ASSUME Init PROVE IInv
  OBVIOUS
<1>1. TypeOK
  BY DEF Init, TypeOK, Statuses, RunnerPoints
<1>2. ASSUME NEW t \in Tasks PROVE TaskInv(t)
  <2>1. CallFits(t) /\ RunnerFits(t) /\ AnswerFits(t) /\ PauseFits(t)
    BY DEF Init, CallFits, RunnerFits, AnswerFits, PauseFits, InTry, InHandler
  <2>2. Quiet(t) /\ InFlight(t) = {}
    <3>1. updating[t] = {} /\ inputQueue[t] = <<>> /\ DOMAIN inputQueue[t] = {}
      BY DEF Init
    <3> QED BY <3>1 DEF Quiet, InFlight
  <2>3. WakeupFits(t)
    BY <2>2 DEF WakeupFits, Init
  <2> QED BY <2>1, <2>3 DEF TaskInv
<1> QED BY <1>1, <1>2 DEF IInv

LEMMA InvStep == IInv /\ [Next]_vars => IInv'
<1> SUFFICES ASSUME IInv, [Next]_vars PROVE IInv'
  OBVIOUS
<1>1. TypeOK /\ \A t \in Tasks : TaskInv(t)
  BY DEF IInv
<1>2. ASSUME NEW u \in Tasks PROVE TaskInv(u)'
  <2>1. ASSUME NEW t \in Tasks, TaskStep(t) PROVE TaskInv(u)'
    <3>1. CASE u = t
      BY <1>1, <2>1, <3>1, ClientSteps, HandlerSteps, ToolSteps, RunnerSteps, ExpireStep
         DEF TaskStep
    <3>2. CASE u # t
      BY <1>1, <2>1, <3>2, OtherTasks, Frame
    <3> QED BY <3>1, <3>2
  <2>2. CASE Close
    BY <1>1, <2>2, CloseStep
  <2>3. CASE Crash
    BY <1>1, <2>3, CrashStep
  <2>4. CASE UNCHANGED vars
    <3>1. SameTask(u)
      BY <2>4 DEF vars, recordVars, localVars, historyVars, SameTask
    <3> QED BY <1>1, <3>1, Frame
  <2> QED BY <2>1, <2>2, <2>3, <2>4 DEF Next, TaskStep
<1>3. TypeOK'
  BY <1>1, TypeStep
<1> QED BY <1>2, <1>3 DEF IInv

LEMMA Invariance == Spec => []IInv
BY InvInit, InvStep, PTL DEF Spec

-----------------------------------------------------------------------------
(* The safety properties *)

\* No wake-up is lost, whatever updates, cancels, expiry and crashes interleave.
THEOREM NoWakeupIsLost == Spec => []NoLostWakeup
<1>1. IInv => NoLostWakeup
  BY QuietMeans DEF IInv, TaskInv, WakeupFits, NoLostWakeup
<1> QED BY <1>1, Invariance, PTL

\* Answers belong to the round they were given for, and resume it at most once.
THEOREM AnswersAreOfTheirRound == Spec => []AnswersFitRound
<1>1. IInv => AnswersFitRound
  BY DEF IInv, TaskInv, WakeupFits, PauseFits, AnswersFitRound
<1> QED BY <1>1, Invariance, PTL

\* A runner that ended with CancelledError in its try block has its record terminal.
THEOREM CancellationIsRecorded == Spec => []CancelRecorded
<1>1. IInv => CancelRecorded
  BY DEF IInv, TaskInv, RunnerFits, CancelRecorded
<1> QED BY <1>1, Invariance, PTL

-----------------------------------------------------------------------------
(* Refinement: the records live the life TaskLifecycle promises *)

\* A _transition of a working record, or a failing or cancelled one.
LEMMA TransitionRefines ==
  ASSUME TypeOK, NEW t \in Tasks, AnswerFits(t), NEW s, NEW a, NEW reqs,
         Found(t), Transition(t, s, a, reqs),
         \/ s = "completed" /\ a = "result" /\ status[t] \in {"working"} \union Terminal
         \/ s = "failed" /\ a = "error"
         \/ s = "cancelled" /\ a = "none"
         \/ s = "input_required" /\ a = "none" /\ status[t] = "working"
  PROVE  [Lifecycle!Next]_(Lifecycle!vars)
<1> USE DEF TypeOK
<1>1. CASE status[t] \in Terminal
  BY <1>1 DEF Transition, recordVars, Lifecycle!vars
<1>2. CASE status[t] \notin Terminal
  <2>1. status[t] \in Lifecycle!Live
    BY <1>2 DEF Found, Statuses, Live, Lifecycle!Live
  <2>2. status' = [status EXCEPT ![t] = s] /\ answer' = [answer EXCEPT ![t] = a]
    BY <1>2 DEF Transition, Save
  <2>3. a = "none" => UNCHANGED answer
    <3>1. answer[t] = "none"
      BY <1>2, <2>1 DEF AnswerFits, Lifecycle!Live
    <3> QED BY <2>2, <3>1
  <2>4. Lifecycle!Complete(t) \/ Lifecycle!Fail(t) \/ Lifecycle!Cancel(t) \/ Lifecycle!Pause(t)
    BY <1>2, <2>1, <2>2, <2>3 DEF Lifecycle!Complete, Lifecycle!Fail, Lifecycle!Cancel,
       Lifecycle!Pause
  <2> QED BY <2>4 DEF Lifecycle!Next
<1> QED BY <1>1, <1>2

LEMMA StepRefines == IInv /\ [Next]_vars => [Lifecycle!Next]_(Lifecycle!vars)
<1> SUFFICES ASSUME IInv, [Next]_vars PROVE [Lifecycle!Next]_(Lifecycle!vars)
  OBVIOUS
<1>0. TypeOK /\ \A t \in Tasks : CallFits(t) /\ RunnerFits(t) /\ AnswerFits(t)
  BY DEF IInv, TaskInv
<1> USE DEF TypeOK
<1>1. ASSUME UNCHANGED <<status, answer>> PROVE [Lifecycle!Next]_(Lifecycle!vars)
  BY <1>1 DEF Lifecycle!vars
<1>2. ASSUME NEW t \in Tasks, Create(t) PROVE [Lifecycle!Next]_(Lifecycle!vars)
  <2>1. status[t] = "none" /\ status' = [status EXCEPT ![t] = "working"]
        /\ answer' = [answer EXCEPT ![t] = "none"]
    BY <1>0, <1>2 DEF Create, Save, CallFits
  <2>2. answer[t] = "none"
    BY <1>0, <2>1 DEF AnswerFits
  <2>3. Lifecycle!Create(t)
    BY <1>0, <2>1, <2>2 DEF Lifecycle!Create
  <2> QED BY <2>3 DEF Lifecycle!Next
<1>3. ASSUME NEW t \in Tasks, NEW keys \in SUBSET Keys, UpdatePart(t, keys)
      PROVE  [Lifecycle!Next]_(Lifecycle!vars)
  <2>1. UNCHANGED <<status, answer>>
    BY <1>0, <1>3 DEF UpdatePart, Save
  <2> QED BY <1>1, <2>1
<1>4. ASSUME NEW t \in Tasks, NEW keys \in SUBSET Keys, UpdateLast(t, keys)
      PROVE  [Lifecycle!Next]_(Lifecycle!vars)
  <2>1. Lifecycle!Resume(t)
    BY <1>0, <1>4 DEF UpdateLast, Save, Lifecycle!Resume
  <2> QED BY <2>1 DEF Lifecycle!Next
<1>5. ASSUME NEW t \in Tasks, Cancel(t) \/ HandlerStep(t) \/ ToolStep(t)
      PROVE  [Lifecycle!Next]_(Lifecycle!vars)
  <2>1. UNCHANGED <<status, answer>>
    BY <1>5 DEF Cancel, HandlerStep, CreateAborts, StartRunner, AttachRunner, DeliverInput,
       AbortUpdate, ToolStep, ToolReturns, ToolRaises, ToolAsks, RunnerMoves, recordVars
  <2> QED BY <1>1, <2>1
<1>6. ASSUME NEW t \in Tasks, RunnerStep(t) PROVE [Lifecycle!Next]_(Lifecycle!vars)
  <2>1. ASSUME UNCHANGED recordVars PROVE [Lifecycle!Next]_(Lifecycle!vars)
    BY <1>1, <2>1 DEF recordVars
  <2>2. CASE Complete(t) /\ Found(t)
    <3>1. status[t] \in {"working"} \union Terminal
      BY <1>0, <2>2 DEF Complete, RunnerAt, RunnerFits, Found
    <3>2. Transition(t, "completed", "result", {})
      BY <2>2 DEF Complete
    <3> QED BY <1>0, <2>2, <3>1, <3>2, TransitionRefines
  <2>3. CASE Fail(t) /\ Found(t)
    <3>1. Transition(t, "failed", "error", {})
      BY <2>3 DEF Fail
    <3> QED BY <1>0, <2>3, <3>1, TransitionRefines
  <2>4. CASE MarkCancelled(t) /\ Found(t)
    <3>1. Transition(t, "cancelled", "none", {})
      BY <2>4 DEF MarkCancelled
    <3> QED BY <1>0, <2>4, <3>1, TransitionRefines
  <2>5. CASE Pause(t) /\ Found(t)
    <3>1. status[t] = "working"
      BY <1>0, <2>5 DEF Pause, RunnerAt, RunnerFits, Found
    <3>2. Transition(t, "input_required", "none", asked[t])
      BY <2>5 DEF Pause
    <3> QED BY <1>0, <2>5, <3>1, <3>2, TransitionRefines
  <2>6. CASE ~Found(t) /\ (Complete(t) \/ Fail(t) \/ MarkCancelled(t) \/ Pause(t))
    <3>1. UNCHANGED recordVars
      BY <2>6 DEF Complete, Fail, MarkCancelled, Pause
    <3> QED BY <2>1, <3>1
  <2>7. CASE \/ CompleteRaises(t) \/ PauseRaises(t) \/ Reported(t) \/ ReportRaises(t)
             \/ NotifyRaises(t) \/ WaitCancelled(t) \/ StartWait(t) \/ ReceiveInput(t)
    <3>1. UNCHANGED recordVars
      BY <2>7 DEF CompleteRaises, PauseRaises, Reported, ReportRaises, NotifyRaises,
         WaitCancelled, StartWait, ReceiveInput, RunnerMoves
    <3> QED BY <2>1, <3>1
  <2> QED BY <1>6, <2>2, <2>3, <2>4, <2>5, <2>6, <2>7 DEF RunnerStep
<1>7. ASSUME NEW t \in Tasks, Expire(t) PROVE [Lifecycle!Next]_(Lifecycle!vars)
  <2>1. Lifecycle!Expire(t)
    BY <1>0, <1>7 DEF Expire, Found, Save, Statuses, Live, Terminal, Lifecycle!Expire,
       Lifecycle!Live, Lifecycle!Terminal
  <2> QED BY <2>1 DEF Lifecycle!Next
<1>8. CASE Close \/ Crash \/ UNCHANGED vars
  BY <1>1, <1>8 DEF Close, Crash, vars, recordVars
<1> QED
  BY <1>2, <1>3, <1>4, <1>5, <1>6, <1>7, <1>8 DEF Next, ClientStep

\* Each in-process task lives the life of the abstract specification: terminal statuses
\* are final, tasks complete only from "working", a resumption only ends a pause.
THEOREM Refinement == Spec => LifecycleSpec
<1>1. Init => Lifecycle!Init
  BY DEF Init, Lifecycle!Init
<1> QED BY <1>1, Invariance, StepRefines, PTL DEF Spec, LifecycleSpec, Lifecycle!Spec

-----------------------------------------------------------------------------
(* What the life cycle guarantees, and so this refinement of it *)

\* In a task's life a result is shown exactly by completed records, an error exactly by
\* failed ones (TaskRecord.to_dict).
THEOREM AnswersMatch == Lifecycle!Spec => [](Lifecycle!TypeOK /\ Lifecycle!AnswerMatchesStatus)
<1> DEFINE Inv == Lifecycle!TypeOK /\ Lifecycle!AnswerMatchesStatus
<1>1. Lifecycle!Init => Inv
  BY DEF Lifecycle!Init, Lifecycle!TypeOK, Lifecycle!AnswerMatchesStatus, Lifecycle!Statuses, Lifecycle!Answers
<1>2. Inv /\ [Lifecycle!Next]_(Lifecycle!vars) => Inv'
  <2> SUFFICES ASSUME Inv, [Lifecycle!Next]_(Lifecycle!vars) PROVE Inv'
    OBVIOUS
  <2> USE DEF Lifecycle!TypeOK, Lifecycle!AnswerMatchesStatus, Lifecycle!Statuses, Lifecycle!Live,
          Lifecycle!Terminal, Lifecycle!Answers
  <2>1. CASE UNCHANGED Lifecycle!vars
    BY <2>1 DEF Lifecycle!vars
  <2>2. ASSUME NEW t \in Tasks,
               Lifecycle!Create(t) \/ Lifecycle!Pause(t) \/ Lifecycle!Resume(t) \/ Lifecycle!Cancel(t)
        PROVE  Inv'
    BY <2>2 DEF Lifecycle!Create, Lifecycle!Pause, Lifecycle!Resume, Lifecycle!Cancel
  <2>3. ASSUME NEW t \in Tasks, Lifecycle!Complete(t) \/ Lifecycle!Fail(t) \/ Lifecycle!Expire(t)
        PROVE  Inv'
    BY <2>3 DEF Lifecycle!Complete, Lifecycle!Fail, Lifecycle!Expire
  <2> QED BY <2>1, <2>2, <2>3 DEF Lifecycle!Next
<1> QED BY <1>1, <1>2, PTL DEF Lifecycle!Spec

\* In a task's life a terminal status stays until the record expires, whoever writes
\* afterwards.
THEOREM TerminalStays == Lifecycle!Spec => Lifecycle!TerminalIsFinal
<1>1. Lifecycle!TypeOK /\ [Lifecycle!Next]_(Lifecycle!vars) =>
        [\A t \in Tasks : status[t] \in Lifecycle!Terminal =>
                            status'[t] \in {status[t], "expired"}]_(Lifecycle!vars)
  <2> SUFFICES ASSUME Lifecycle!TypeOK, [Lifecycle!Next]_(Lifecycle!vars), ~UNCHANGED Lifecycle!vars,
                      NEW t \in Tasks, status[t] \in Lifecycle!Terminal
               PROVE  status'[t] \in {status[t], "expired"}
    OBVIOUS
  <2> USE DEF Lifecycle!Create, Lifecycle!Pause, Lifecycle!Resume, Lifecycle!Complete, Lifecycle!Fail,
          Lifecycle!Cancel, Lifecycle!Expire, Lifecycle!TypeOK
  <2>1. PICK u \in Tasks : \/ Lifecycle!Create(u) \/ Lifecycle!Pause(u) \/ Lifecycle!Resume(u)
                           \/ Lifecycle!Complete(u) \/ Lifecycle!Fail(u) \/ Lifecycle!Cancel(u)
                           \/ Lifecycle!Expire(u)
    BY DEF Lifecycle!Next
  <2>2. CASE u = t
    BY <2>1, <2>2 DEF Lifecycle!Terminal, Lifecycle!Live
  <2>3. CASE u # t
    BY <2>1, <2>3
  <2> QED BY <2>2, <2>3
<1>2. Lifecycle!Spec => []Lifecycle!TypeOK
  BY AnswersMatch, PTL
<1> QED BY <1>1, <1>2, PTL DEF Lifecycle!Spec, Lifecycle!TerminalIsFinal

\* Both hold of the in-process store.
COROLLARY RecordsEndOnce ==
  Spec => []Lifecycle!AnswerMatchesStatus /\ Lifecycle!TerminalIsFinal
BY Refinement, AnswersMatch, TerminalStays, PTL DEF LifecycleSpec

-----------------------------------------------------------------------------
(* For whom work is done: Identity *)

LEMMA Upto == 1..1 = {1} /\ 1..2 = {1, 2} /\ 1..3 = {1, 2, 3} /\ 1..4 = {1, 2, 3, 4}
OBVIOUS

LEMMA Nobody ==
  /\ Who!NoOne.roles = {} /\ Who!NoOne.tenant = "none" /\ DOMAIN Who!NoOne.ids = {} /\ Who!NoOne.shape = "none"
  /\ Who!Opaque.roles = {} /\ Who!Opaque.tenant = "none" /\ DOMAIN Who!Opaque.ids = {} /\ Who!Opaque.shape = "object"
BY DEF Who!NoOne, Who!Opaque

LEMMA WhoseRoles ==
  ASSUME NEW s
  PROVE  Who!RolesOf(s) = IF s.holder # "user" /\ s.user.roles # {} THEN s.user.roles ELSE s.auth.roles
<1>1. CASE s.holder # "user" /\ s.user.roles # {}
  <2>1. Who!UserOf(s) = s.user
    BY <1>1, Nobody DEF Who!UserOf
  <2> QED
    BY <1>1, <2>1 DEF Who!RolesOf
<1>2. CASE ~(s.holder # "user" /\ s.user.roles # {})
  <2>1. Who!UserOf(s).roles = {} \/ Who!UserOf(s) = s.auth
    BY <1>2, Nobody DEF Who!UserOf
  <2> QED
    BY <1>2, <2>1 DEF Who!RolesOf
<1> QED
  BY <1>1, <1>2

LEMMA Counted ==
  ASSUME NEW S
  PROVE  Who!IsFiniteSet(S) <=> IsFiniteSet(S)
BY DEF Who!IsFiniteSet, IsFiniteSet

\* A finite set that was made a sequence is the set of its elements.
LEMMA ThereAndBack ==
  ASSUME NEW S, IsFiniteSet(S)
  PROVE  Who!ToSet(Who!SetToSeq(S)) = S
<1>0. Who!Cardinality(S) = Cardinality(S)
  BY DEF Who!Cardinality, Cardinality
<1> DEFINE n == Cardinality(S)
<1>1. PICK g : g \in Bijection(1..n, S) /\ n \in Nat
  BY FS_CardinalityType DEF ExistsBijection
<1> DEFINE P(f) == f \in [1..n -> S] /\ Who!IsInjective(f)
<1>2. P(g)
  BY <1>1 DEF Bijection, Injection, IsInjective, Who!IsInjective
<1> DEFINE q == Who!SetToSeq(S)
<1>3. P(q)
  <2>1. q = CHOOSE f \in [1..n -> S] : Who!IsInjective(f)
    BY <1>0 DEF Who!SetToSeq
  <2> QED
    BY <1>2, <2>1
<1>4. q \in Bijection(1..n, S)
  <2>1. q \in Injection(1..n, S)
    BY <1>3 DEF Injection, IsInjective, Who!IsInjective
  <2>2. IsFiniteSet(1..n) /\ Cardinality(1..n) = n
    BY <1>1, FS_Interval
  <2>3. q \in Surjection(1..n, S)
    BY <2>1, <2>2, FS_Injection
  <2> QED
    BY <2>1, <2>3 DEF Bijection
<1>5. \A x \in S : \E i \in 1..n : q[i] = x
  BY <1>4 DEF Bijection, Surjection
<1>6. DOMAIN q = 1..n
  BY <1>3
<1> QED
  BY <1>3, <1>5, <1>6 DEF Who!ToSet

\* The roles that a context grants survive the way to the worker.
LEMMA SentContext ==
  ASSUME NEW c, Who!IsContext(c)
  PROVE  Who!Granted([[c EXCEPT !.present = TRUE, !.restrictions = Who!Serialized(@)]
                        EXCEPT !.restrictions = Who!Reconstructed(@)]) = Who!Granted(c)
<1> DEFINE e == [c EXCEPT !.present = TRUE, !.restrictions = Who!Serialized(@)]
           d == [e EXCEPT !.restrictions = Who!Reconstructed(@)]
<1>0. c = [present |-> c.present, roles |-> c.roles, restrictions |-> c.restrictions]
  BY DEF Who!IsContext
<1>1. e.roles = c.roles /\ e.restrictions = Who!Serialized(c.restrictions) /\ DOMAIN e = DOMAIN c
  <2> DEFINE x == Who!Serialized(c.restrictions)
  <2>1. e = [c EXCEPT !.present = TRUE, !.restrictions = x]
    OBVIOUS
  <2> HIDE DEF e, x
  <2>2. e.roles = c.roles /\ e.restrictions = x /\ DOMAIN e = DOMAIN c
    BY <1>0, <2>1
  <2> QED
    BY <2>2 DEF x
<1> HIDE DEF e
<1>9. d.roles = c.roles /\ d.restrictions = Who!Reconstructed(Who!Serialized(c.restrictions))
  <2> DEFINE x == Who!Reconstructed(Who!Serialized(c.restrictions))
  <2>1. d = [e EXCEPT !.restrictions = x]
    BY <1>1
  <2> HIDE DEF d, x
  <2>2. d.roles = e.roles /\ d.restrictions = x
    BY <1>0, <1>1, <2>1
  <2> QED
    BY <1>1, <2>2 DEF x
<1> HIDE DEF d
<1>2. DOMAIN d.restrictions = DOMAIN c.restrictions
  BY <1>9 DEF Who!Reconstructed, Who!Serialized
<1>3. ASSUME NEW i \in DOMAIN c.restrictions
      PROVE  /\ d.restrictions[i].limited = c.restrictions[i].limited
             /\ c.restrictions[i].limited => d.restrictions[i].roles = c.restrictions[i].roles
  <2>0. c.restrictions[i].limited \in BOOLEAN /\ IsFiniteSet(c.restrictions[i].roles)
    BY Counted DEF Who!IsContext
  <2> DEFINE l == Who!Serialized(c.restrictions)
  <2>1. d.restrictions[i] = IF l[i] = <<>> THEN Who!Unlimited ELSE Who!Limit(Who!ToSet(l[i][1]))
    BY <1>9 DEF Who!Reconstructed, Who!Serialized
  <2>2. l[i] = IF c.restrictions[i].limited THEN <<Who!SetToSeq(c.restrictions[i].roles)>> ELSE <<>>
    BY DEF Who!Serialized
  <2>3. CASE c.restrictions[i].limited
    <3>1. l[i] # <<>> /\ l[i][1] = Who!SetToSeq(c.restrictions[i].roles)
      BY <2>2, <2>3
    <3>2. d.restrictions[i] = Who!Limit(c.restrictions[i].roles)
      BY <2>0, <2>1, <3>1, ThereAndBack
    <3> DEFINE x == d.restrictions[i]
    <3>3. x = [limited |-> TRUE, roles |-> c.restrictions[i].roles]
      BY <3>2 DEF Who!Limit
    <3> HIDE DEF x
    <3>4. x.limited = TRUE /\ x.roles = c.restrictions[i].roles
      BY <3>3
    <3> QED
      BY <2>3, <3>4 DEF x
  <2>4. CASE ~c.restrictions[i].limited
    <3>1. d.restrictions[i] = Who!Unlimited /\ Who!Unlimited.limited = FALSE
      BY <2>1, <2>2, <2>4 DEF Who!Unlimited
    <3> QED
      BY <2>0, <2>4, <3>1
  <2> QED
    BY <2>0, <2>3, <2>4
<1>4. Who!Granted(d) = Who!Granted(c)
  BY <1>2, <1>3, <1>9 DEF Who!Granted
<1> QED
  BY <1>4 DEF d, e

LEMMA Parts ==
  ASSUME NEW shape, NEW ids, NEW roles, NEW tenant, NEW p, p = Who!Person(shape, ids, roles, tenant)
  PROVE  p.shape = shape /\ p.ids = ids /\ p.roles = roles /\ p.tenant = tenant
BY DEF Who!Person

LEMMA Reshaped ==
  ASSUME NEW p, p = Who!Person(p.shape, p.ids, p.roles, p.tenant), NEW shape, NEW ids,
         NEW q, q = [p EXCEPT !.shape = shape, !.ids = ids]
  PROVE  q = Who!Person(shape, ids, p.roles, p.tenant)
BY DEF Who!Person

LEMMA NooneIs == Who!NoOne = Who!Person("none", Who!NoOne.ids, {}, "none")
BY DEF Who!NoOne, Who!Person

\* What is kept of a person's fields.
LEMMA KeptFields ==
  ASSUME NEW p, Who!IsPerson(p), NEW f, f = Who!Fields(p)
  PROVE  /\ f = Who!Person(f.shape, f.ids, f.roles, f.tenant)
         /\ f.roles = p.roles /\ f.tenant = IF p.shape = "text" THEN "none" ELSE p.tenant
         /\ f.ids = CASE p.shape \in {"none", "text"} -> Who!NoOne.ids
                     [] p.shape = "object" -> [n \in DOMAIN p.ids \intersect Who!Attributes |-> p.ids[n]]
                     [] OTHER -> p.ids
<1>1. /\ p = Who!Person(p.shape, p.ids, p.roles, p.tenant) /\ (p.shape = "none" => p = Who!NoOne)
      /\ p.shape = "text" => p.roles = {}
  BY DEF Who!IsPerson
<1>2. CASE p.shape \in {"none", "text"}
  <2>1. f = Who!NoOne
    BY <1>2 DEF Who!Fields
  <2> QED
    BY <1>1, <1>2, <2>1, NooneIs, Nobody
<1>3. CASE p.shape = "object"
  <2> DEFINE ids == [n \in DOMAIN p.ids \intersect Who!Attributes |-> p.ids[n]]
  <2>1. f = [p EXCEPT !.shape = "fields", !.ids = ids]
    BY <1>3 DEF Who!Fields
  <2> HIDE DEF ids
  <2>2. f = Who!Person("fields", ids, p.roles, p.tenant)
    BY <1>1, <2>1, Reshaped
  <2>3. f.shape = "fields" /\ f.ids = ids /\ f.roles = p.roles /\ f.tenant = p.tenant
    BY <2>2, Parts
  <2> QED
    BY <1>3, <2>2, <2>3 DEF ids
<1>4. CASE p.shape \notin {"none", "text", "object"}
  <2>1. f = [p EXCEPT !.shape = "fields"]
    BY <1>4 DEF Who!Fields
  <2>2. f = Who!Person("fields", p.ids, p.roles, p.tenant)
    BY <1>1, <2>1 DEF Who!Person
  <2>3. f.shape = "fields" /\ f.ids = p.ids /\ f.roles = p.roles /\ f.tenant = p.tenant
    BY <2>2, Parts
  <2> QED
    BY <1>4, <2>2, <2>3
<1> QED
  BY <1>2, <1>3, <1>4

\* The person that a worker makes of the fields it is sent.
LEMMA SentPerson ==
  ASSUME NEW sent, sent = Who!Person("fields", sent.ids, sent.roles, sent.tenant), NEW tag, NEW imports,
         NEW q, q = Who!Rehydrated(sent, tag, imports)
  PROVE  /\ q = Who!Person(q.shape, q.ids, q.roles, q.tenant)
         /\ q.shape \in {"none", "typed", "proxy"} /\ q.roles = sent.roles /\ q.tenant = sent.tenant
         /\ q.ids = IF tag # {} /\ imports THEN [n \in DOMAIN sent.ids \intersect tag |-> sent.ids[n]] ELSE sent.ids
         /\ q = Who!NoOne <=> q.shape = "none"
         /\ q.shape = "none" <=> /\ ~(tag # {} /\ imports)
                                /\ sent.ids = Who!NoOne.ids /\ sent.roles = {} /\ sent.tenant = "none"
<1>1. CASE tag # {} /\ imports
  <2> DEFINE kept == [n \in DOMAIN sent.ids \intersect tag |-> sent.ids[n]]
  <2>1. q = [sent EXCEPT !.shape = "typed", !.ids = kept]
    BY <1>1 DEF Who!Rehydrated
  <2> HIDE DEF kept
  <2>0. sent = Who!Person(sent.shape, sent.ids, sent.roles, sent.tenant)
    BY Parts
  <2>2. q = Who!Person("typed", kept, sent.roles, sent.tenant)
    BY <2>0, <2>1, Reshaped
  <2>3. q.shape = "typed" /\ q.ids = kept /\ q.roles = sent.roles /\ q.tenant = sent.tenant
    BY <2>2, Parts
  <2> QED
    BY <1>1, <2>2, <2>3, Nobody DEF kept
<1>2. CASE ~(tag # {} /\ imports)
  <2>1. CASE sent.ids = Who!NoOne.ids /\ sent.roles = {} /\ sent.tenant = "none"
    <3>1. q = Who!NoOne
      BY <1>2, <2>1 DEF Who!Rehydrated
    <3> QED
      BY <1>2, <2>1, <3>1, NooneIs, Nobody
  <2>2. CASE ~(sent.ids = Who!NoOne.ids /\ sent.roles = {} /\ sent.tenant = "none")
    <3>1. q = [sent EXCEPT !.shape = "proxy"]
      BY <1>2, <2>2 DEF Who!Rehydrated
    <3>2. q = Who!Person("proxy", sent.ids, sent.roles, sent.tenant)
      BY <3>1 DEF Who!Person
    <3>3. q.shape = "proxy" /\ q.ids = sent.ids /\ q.roles = sent.roles /\ q.tenant = sent.tenant
      BY <3>2, Parts
    <3> QED
      BY <1>2, <2>2, <3>2, <3>3, Nobody
  <2> QED
    BY <2>1, <2>2
<1> QED
  BY <1>1, <1>2

LEMMA Scoped ==
  ASSUME NEW user, NEW owner, NEW context, NEW holder, NEW auth, NEW w,
         w = [Who!NoScope EXCEPT !.user = user, !.owner = owner, !.context = context, !.holder = holder, !.auth = auth]
  PROVE  w = [user |-> user, auth |-> auth, context |-> context, holder |-> holder, owner |-> owner,
              tenant |-> "none", state |-> "none"]
BY DEF Who!NoScope

ScopeParts(s) ==
  s = [user |-> s.user, auth |-> s.auth, context |-> s.context, holder |-> s.holder,
       owner |-> s.owner, tenant |-> s.tenant, state |-> s.state]

\* The scope that a worker makes of what Submit sent.
LEMMA SentScope ==
  ASSUME NEW s, Who!IsScope(s), NEW owner, NEW imports, NEW e,
         e = [owner |-> owner, snapshot |-> Who!Snapshot(s, owner)],
         NEW w, w = Who!WorkerScope(e, imports)
  PROVE  LET ids == Who!Default(Who!Fields(s.user).ids, owner)
             tag == IF s.user.shape = "typed" THEN DOMAIN s.user.ids ELSE {}
             beside == s.holder # "none" \/ s.context.present
         IN /\ ScopeParts(w) /\ w.owner = owner /\ w.tenant = "none" /\ w.state = "none"
            /\ w.holder = (IF s.holder # "none" THEN "user" ELSE "none")
            /\ Who!Granted(w.context) = Who!Granted(s.context) /\ w.context.present = beside
            /\ w.user = Who!Person(w.user.shape, w.user.ids, w.user.roles, w.user.tenant)
            /\ w.user.shape \in {"none", "typed", "proxy"} /\ (w.user = Who!NoOne <=> w.user.shape = "none")
            /\ w.user.roles = s.user.roles /\ w.user.tenant = (IF s.user.shape = "text" THEN "none" ELSE s.user.tenant)
            /\ w.user.ids = (IF tag # {} /\ imports THEN [n \in DOMAIN ids \intersect tag |-> ids[n]] ELSE ids)
            /\ w.user.shape = "none" <=> /\ ~(tag # {} /\ imports) /\ ids = Who!NoOne.ids
                                        /\ w.user.roles = {} /\ w.user.tenant = "none"
            /\ beside => w.auth = Who!NoOne
            /\ ~beside => /\ w.auth.roles = s.auth.roles
                          /\ w.auth.tenant = (IF s.auth.shape = "text" THEN "none" ELSE s.auth.tenant)
                          /\ w.auth.ids = Who!Fields(s.auth).ids /\ w.auth.shape \in {"none", "proxy"}
<1> DEFINE f == Who!Fields(s.user)
           ids == Who!Default(f.ids, owner)
           tag == IF s.user.shape = "typed" THEN DOMAIN s.user.ids ELSE {}
           beside == s.holder # "none" \/ s.context.present
           fields == [f EXCEPT !.shape = "fields", !.ids = ids]
           security == IF beside THEN [s.context EXCEPT !.present = TRUE, !.restrictions = Who!Serialized(@)]
                       ELSE Who!NoContext
           auth == IF beside THEN Who!NoOne ELSE Who!Fields(s.auth)
           snapshot == Who!Snapshot(s, owner)
<1>1. snapshot.fields = fields /\ snapshot.tag = tag /\ snapshot.security = security
      /\ snapshot.principal = (s.holder # "none") /\ snapshot.auth = auth
  <2> HIDE DEF beside
  <2>1. snapshot = [fields |-> fields, tag |-> tag, security |-> security, principal |-> s.holder # "none", auth |-> auth]
    BY DEF Who!Snapshot, beside
  <2> HIDE DEF snapshot, fields, tag, security, auth
  <2> QED
    BY <2>1
<1>0. /\ Who!IsPerson(s.user) /\ Who!IsPerson(s.auth) /\ Who!IsContext(s.context)
      /\ s.holder \in {"none", "user", "context"} /\ s.context.present \in BOOLEAN
  BY DEF Who!IsScope, Who!IsContext
<1> DEFINE user == Who!Rehydrated(fields, tag, imports)
           context == IF security.present THEN [security EXCEPT !.restrictions = Who!Reconstructed(@)] ELSE Who!NoContext
           holder == IF s.holder # "none" THEN "user" ELSE "none"
           proxy == IF auth = Who!NoOne THEN Who!NoOne ELSE [auth EXCEPT !.shape = "proxy"]
<1> HIDE DEF fields, tag, security, auth, snapshot
<1>2. w = [user |-> user, auth |-> proxy, context |-> context, holder |-> holder, owner |-> owner,
           tenant |-> "none", state |-> "none"]
  <2>1. e.owner = owner /\ e.snapshot = snapshot
    BY DEF snapshot
  <2>2. w = [Who!NoScope EXCEPT !.user = user, !.owner = owner, !.context = context, !.holder = holder, !.auth = proxy]
    BY <1>1, <2>1 DEF Who!WorkerScope
  <2> HIDE DEF user, context, holder, proxy
  <2> QED
    BY <2>2, Scoped
<1>3. fields = Who!Person("fields", ids, f.roles, f.tenant) /\ f.roles = s.user.roles
      /\ f.tenant = IF s.user.shape = "text" THEN "none" ELSE s.user.tenant
  <2>1. f = Who!Person(f.shape, f.ids, f.roles, f.tenant) /\ f.roles = s.user.roles
        /\ f.tenant = IF s.user.shape = "text" THEN "none" ELSE s.user.tenant
    BY <1>0, KeptFields
  <2> HIDE DEF f
  <2> QED
    BY <2>1, Reshaped DEF fields
<1>4. /\ user = Who!Person(user.shape, user.ids, user.roles, user.tenant)
      /\ user.shape \in {"none", "typed", "proxy"} /\ (user = Who!NoOne <=> user.shape = "none")
      /\ user.roles = s.user.roles /\ user.tenant = (IF s.user.shape = "text" THEN "none" ELSE s.user.tenant)
      /\ user.ids = (IF tag # {} /\ imports THEN [n \in DOMAIN ids \intersect tag |-> ids[n]] ELSE ids)
      /\ user.shape = "none" <=> /\ ~(tag # {} /\ imports) /\ ids = Who!NoOne.ids
                                /\ user.roles = {} /\ user.tenant = "none"
  <2> HIDE DEF f, ids
  <2>1. fields.ids = ids /\ fields.roles = f.roles /\ fields.tenant = f.tenant
    BY <1>3, Parts
  <2>2. fields = Who!Person("fields", fields.ids, fields.roles, fields.tenant)
    BY <1>3, <2>1
  <2> QED
    <3>1. /\ user = Who!Person(user.shape, user.ids, user.roles, user.tenant)
          /\ user.shape \in {"none", "typed", "proxy"} /\ (user = Who!NoOne <=> user.shape = "none")
          /\ user.roles = fields.roles /\ user.tenant = fields.tenant
          /\ user.ids = (IF tag # {} /\ imports THEN [n \in DOMAIN fields.ids \intersect tag |-> fields.ids[n]] ELSE fields.ids)
          /\ user.shape = "none" <=> /\ ~(tag # {} /\ imports)
                                    /\ fields.ids = Who!NoOne.ids /\ fields.roles = {} /\ fields.tenant = "none"
      <4> HIDE DEF user
      <4>1. user = Who!Rehydrated(fields, tag, imports)
        BY DEF user
      <4> QED
        BY <2>2, <4>1, SentPerson
    <3> HIDE DEF user
    <3> QED
      BY <1>3, <2>1, <3>1
<1>5. Who!Granted(context) = Who!Granted(s.context) /\ context.present = beside
  <2>1. CASE beside
    <3> DEFINE c == [s.context EXCEPT !.present = TRUE, !.restrictions = Who!Serialized(@)]
               d == [c EXCEPT !.restrictions = Who!Reconstructed(@)]
    <3>1. s.context = [present |-> s.context.present, roles |-> s.context.roles, restrictions |-> s.context.restrictions]
      BY <1>0 DEF Who!IsContext
    <3>2. c.present = TRUE /\ d.present = TRUE
      <4> DEFINE z == Who!Serialized(s.context.restrictions)
      <4>0. c = [s.context EXCEPT !.present = TRUE, !.restrictions = z]
        OBVIOUS
      <4> HIDE DEF c, z
      <4>1. c = [present |-> TRUE, roles |-> s.context.roles, restrictions |-> z]
        BY <3>1, <4>0
      <4>2. c.present = TRUE
        BY <4>1
      <4> DEFINE y == Who!Reconstructed(c.restrictions)
      <4>3. d = [c EXCEPT !.restrictions = y]
        OBVIOUS
      <4> HIDE DEF y, d
      <4> QED
        BY <4>1, <4>2, <4>3
    <3>3. context = d
      BY <2>1, <3>2 DEF security
    <3>4. Who!Granted(d) = Who!Granted(s.context)
      BY <1>0, SentContext
    <3> QED
      BY <2>1, <3>2, <3>3, <3>4
  <2>2. CASE ~beside
    <3>1. s.context = Who!NoContext
      BY <1>0, <2>2 DEF Who!IsContext
    <3>2. context = Who!NoContext /\ Who!NoContext.present = FALSE
      BY <2>2 DEF security, Who!NoContext
    <3> QED
      BY <2>2, <3>1, <3>2
  <2> QED
    BY <2>1, <2>2
<1>6. /\ beside => proxy = Who!NoOne
      /\ ~beside => /\ proxy.roles = s.auth.roles
                    /\ proxy.tenant = (IF s.auth.shape = "text" THEN "none" ELSE s.auth.tenant)
                    /\ proxy.ids = Who!Fields(s.auth).ids /\ proxy.shape \in {"none", "proxy"}
  <2>1. CASE beside
    BY <2>1 DEF auth
  <2>2. CASE ~beside
    <3> DEFINE a == Who!Fields(s.auth)
    <3>1. auth = a
      BY <2>2 DEF auth
    <3>2. /\ a = Who!Person(a.shape, a.ids, a.roles, a.tenant) /\ a.roles = s.auth.roles
          /\ a.tenant = IF s.auth.shape = "text" THEN "none" ELSE s.auth.tenant
      BY <1>0, KeptFields
    <3> HIDE DEF a
    <3>3. CASE a = Who!NoOne
      BY <2>2, <3>1, <3>2, <3>3, Nobody DEF a
    <3>4. CASE a # Who!NoOne
      <4> DEFINE b == [a EXCEPT !.shape = "proxy"]
      <4>1. b = Who!Person("proxy", a.ids, a.roles, a.tenant)
        BY <3>2 DEF Who!Person
      <4> HIDE DEF b
      <4>2. b.shape = "proxy" /\ b.ids = a.ids /\ b.roles = a.roles /\ b.tenant = a.tenant
        BY <4>1, Parts
      <4>3. proxy = b
        BY <3>1, <3>4 DEF b
      <4> QED
        BY <2>2, <3>2, <4>2, <4>3 DEF a
    <3> QED
      BY <3>3, <3>4
  <2> QED
    BY <2>1, <2>2
<1> HIDE DEF user, context, holder, proxy, f, ids, beside
<1>7. ScopeParts(w) /\ w.user = user /\ w.auth = proxy /\ w.context = context /\ w.holder = holder /\ w.owner = owner
      /\ w.tenant = "none" /\ w.state = "none"
  BY <1>2 DEF ScopeParts
<1> QED
  BY <1>4, <1>5, <1>6, <1>7 DEF holder, f, ids, tag, beside

LEMMA MinIs ==
  ASSUME NEW S, S \subseteq Nat, NEW i \in S, \A k \in S : i <= k
  PROVE  Who!Min(S) = i
<1> DEFINE Least(x) == x \in S /\ \A y \in S : x <= y
<1>1. Least(Who!Min(S))
  <2>1. Least(i)
    OBVIOUS
  <2>2. Who!Min(S) = CHOOSE x \in S : \A y \in S : x <= y
    BY DEF Who!Min
  <2> QED
    BY <2>1, <2>2
<1>2. Who!Min(S) \in Nat /\ Who!Min(S) <= i /\ i <= Who!Min(S) /\ i \in Nat
  BY <1>1
<1> QED
  BY <1>2

LEMMA FirstHit ==
  ASSUME NEW ids, NEW fields, DOMAIN fields \subseteq Nat, NEW i \in DOMAIN fields, fields[i] \in DOMAIN ids,
         \A j \in DOMAIN fields : j < i => fields[j] \notin DOMAIN ids
  PROVE  Who!First(ids, fields) = ids[fields[i]]
<1> DEFINE known == {k \in DOMAIN fields : fields[k] \in DOMAIN ids}
<1>1. i \in known /\ i \in Nat /\ (\A k \in known : i <= k)
  OBVIOUS
<1>2. known \subseteq Nat
  OBVIOUS
<1> HIDE DEF known
<1>3. Who!Min(known) = i
  BY <1>1, <1>2, MinIs
<1>4. Who!First(ids, fields) = IF known = {} THEN "none" ELSE ids[fields[Who!Min(known)]]
  BY DEF Who!First, known
<1> QED
  BY <1>1, <1>3, <1>4

LEMMA FirstMiss ==
  ASSUME NEW ids, NEW fields, \A j \in DOMAIN fields : fields[j] \notin DOMAIN ids
  PROVE  Who!First(ids, fields) = "none"
BY DEF Who!First

LEMMA KnownHit ==
  ASSUME NEW list, DOMAIN list \subseteq Nat, NEW i \in DOMAIN list, list[i] # "none",
         \A j \in DOMAIN list : j < i => list[j] = "none"
  PROVE  Who!FirstKnown(list) = list[i]
<1> DEFINE known == {k \in DOMAIN list : list[k] # "none"}
<1>1. i \in known /\ i \in Nat /\ (\A k \in known : i <= k)
  OBVIOUS
<1>2. known \subseteq Nat
  OBVIOUS
<1> HIDE DEF known
<1>3. Who!Min(known) = i
  BY <1>1, <1>2, MinIs
<1>4. Who!FirstKnown(list) = IF known = {} THEN "none" ELSE list[Who!Min(known)]
  BY DEF Who!FirstKnown, known
<1> QED
  BY <1>1, <1>3, <1>4

LEMMA KnownMiss ==
  ASSUME NEW list, \A j \in DOMAIN list : list[j] = "none"
  PROVE  Who!FirstKnown(list) = "none"
BY DEF Who!FirstKnown

LEMMA FirstOf1 ==
  ASSUME NEW ids, NEW a
  PROVE  Who!First(ids, <<a>>) =
           IF a \in DOMAIN ids THEN ids[a] ELSE "none"
<1> DEFINE l == <<a>>
<1>1. DOMAIN l = 1..1 /\ l[1] = a
  OBVIOUS
<1> HIDE DEF l
<1>2. CASE a \in DOMAIN ids
  <2>1. \A j \in DOMAIN l : j < 1 => l[j] \notin DOMAIN ids
    BY <1>1, <1>2, Upto
  <2>2. 1 \in DOMAIN l /\ DOMAIN l \subseteq Nat /\ l[1] \in DOMAIN ids
    BY <1>1, <1>2
  <2>3. Who!First(ids, l) = ids[l[1]]
    BY <2>1, <2>2, FirstHit
  <2> QED
    BY <1>1, <1>2, <2>3 DEF l
<1>3. CASE a \notin DOMAIN ids
  <2>1. \A j \in DOMAIN l : l[j] \notin DOMAIN ids
    BY <1>1, <1>3, Upto
  <2>2. Who!First(ids, l) = "none"
    BY <2>1, FirstMiss
  <2> QED
    BY <1>3, <2>2 DEF l
<1> QED
  BY <1>2, <1>3

LEMMA FirstOf2 ==
  ASSUME NEW ids, NEW a, NEW b
  PROVE  Who!First(ids, <<a, b>>) =
           IF a \in DOMAIN ids THEN ids[a] ELSE IF b \in DOMAIN ids THEN ids[b] ELSE "none"
<1> DEFINE l == <<a, b>>
<1>1. DOMAIN l = 1..2 /\ l[1] = a /\ l[2] = b
  OBVIOUS
<1> HIDE DEF l
<1>2. CASE a \in DOMAIN ids
  <2>1. \A j \in DOMAIN l : j < 1 => l[j] \notin DOMAIN ids
    BY <1>1, <1>2, Upto
  <2>2. 1 \in DOMAIN l /\ DOMAIN l \subseteq Nat /\ l[1] \in DOMAIN ids
    BY <1>1, <1>2
  <2>3. Who!First(ids, l) = ids[l[1]]
    BY <2>1, <2>2, FirstHit
  <2> QED
    BY <1>1, <1>2, <2>3 DEF l
<1>3. CASE a \notin DOMAIN ids /\ b \in DOMAIN ids
  <2>1. \A j \in DOMAIN l : j < 2 => l[j] \notin DOMAIN ids
    BY <1>1, <1>3, Upto
  <2>2. 2 \in DOMAIN l /\ DOMAIN l \subseteq Nat /\ l[2] \in DOMAIN ids
    BY <1>1, <1>3
  <2>3. Who!First(ids, l) = ids[l[2]]
    BY <2>1, <2>2, FirstHit
  <2> QED
    BY <1>1, <1>3, <2>3 DEF l
<1>4. CASE a \notin DOMAIN ids /\ b \notin DOMAIN ids
  <2>1. \A j \in DOMAIN l : l[j] \notin DOMAIN ids
    BY <1>1, <1>4, Upto
  <2>2. Who!First(ids, l) = "none"
    BY <2>1, FirstMiss
  <2> QED
    BY <1>4, <2>2 DEF l
<1> QED
  BY <1>2, <1>3, <1>4

LEMMA FirstOf3 ==
  ASSUME NEW ids, NEW a, NEW b, NEW c
  PROVE  Who!First(ids, <<a, b, c>>) =
           IF a \in DOMAIN ids THEN ids[a] ELSE IF b \in DOMAIN ids THEN ids[b] ELSE IF c \in DOMAIN ids THEN ids[c] ELSE "none"
<1> DEFINE l == <<a, b, c>>
<1>1. DOMAIN l = 1..3 /\ l[1] = a /\ l[2] = b /\ l[3] = c
  OBVIOUS
<1> HIDE DEF l
<1>2. CASE a \in DOMAIN ids
  <2>1. \A j \in DOMAIN l : j < 1 => l[j] \notin DOMAIN ids
    BY <1>1, <1>2, Upto
  <2>2. 1 \in DOMAIN l /\ DOMAIN l \subseteq Nat /\ l[1] \in DOMAIN ids
    BY <1>1, <1>2
  <2>3. Who!First(ids, l) = ids[l[1]]
    BY <2>1, <2>2, FirstHit
  <2> QED
    BY <1>1, <1>2, <2>3 DEF l
<1>3. CASE a \notin DOMAIN ids /\ b \in DOMAIN ids
  <2>1. \A j \in DOMAIN l : j < 2 => l[j] \notin DOMAIN ids
    BY <1>1, <1>3, Upto
  <2>2. 2 \in DOMAIN l /\ DOMAIN l \subseteq Nat /\ l[2] \in DOMAIN ids
    BY <1>1, <1>3
  <2>3. Who!First(ids, l) = ids[l[2]]
    BY <2>1, <2>2, FirstHit
  <2> QED
    BY <1>1, <1>3, <2>3 DEF l
<1>4. CASE a \notin DOMAIN ids /\ b \notin DOMAIN ids /\ c \in DOMAIN ids
  <2>1. \A j \in DOMAIN l : j < 3 => l[j] \notin DOMAIN ids
    BY <1>1, <1>4, Upto
  <2>2. 3 \in DOMAIN l /\ DOMAIN l \subseteq Nat /\ l[3] \in DOMAIN ids
    BY <1>1, <1>4
  <2>3. Who!First(ids, l) = ids[l[3]]
    BY <2>1, <2>2, FirstHit
  <2> QED
    BY <1>1, <1>4, <2>3 DEF l
<1>5. CASE a \notin DOMAIN ids /\ b \notin DOMAIN ids /\ c \notin DOMAIN ids
  <2>1. \A j \in DOMAIN l : l[j] \notin DOMAIN ids
    BY <1>1, <1>5, Upto
  <2>2. Who!First(ids, l) = "none"
    BY <2>1, FirstMiss
  <2> QED
    BY <1>5, <2>2 DEF l
<1> QED
  BY <1>2, <1>3, <1>4, <1>5

LEMMA FirstOf4 ==
  ASSUME NEW ids, NEW a, NEW b, NEW c, NEW d
  PROVE  Who!First(ids, <<a, b, c, d>>) =
           IF a \in DOMAIN ids THEN ids[a] ELSE IF b \in DOMAIN ids THEN ids[b] ELSE IF c \in DOMAIN ids THEN ids[c] ELSE IF d \in DOMAIN ids THEN ids[d] ELSE "none"
<1> DEFINE l == <<a, b, c, d>>
<1>1. DOMAIN l = 1..4 /\ l[1] = a /\ l[2] = b /\ l[3] = c /\ l[4] = d
  OBVIOUS
<1> HIDE DEF l
<1>2. CASE a \in DOMAIN ids
  <2>1. \A j \in DOMAIN l : j < 1 => l[j] \notin DOMAIN ids
    BY <1>1, <1>2, Upto
  <2>2. 1 \in DOMAIN l /\ DOMAIN l \subseteq Nat /\ l[1] \in DOMAIN ids
    BY <1>1, <1>2
  <2>3. Who!First(ids, l) = ids[l[1]]
    BY <2>1, <2>2, FirstHit
  <2> QED
    BY <1>1, <1>2, <2>3 DEF l
<1>3. CASE a \notin DOMAIN ids /\ b \in DOMAIN ids
  <2>1. \A j \in DOMAIN l : j < 2 => l[j] \notin DOMAIN ids
    BY <1>1, <1>3, Upto
  <2>2. 2 \in DOMAIN l /\ DOMAIN l \subseteq Nat /\ l[2] \in DOMAIN ids
    BY <1>1, <1>3
  <2>3. Who!First(ids, l) = ids[l[2]]
    BY <2>1, <2>2, FirstHit
  <2> QED
    BY <1>1, <1>3, <2>3 DEF l
<1>4. CASE a \notin DOMAIN ids /\ b \notin DOMAIN ids /\ c \in DOMAIN ids
  <2>1. \A j \in DOMAIN l : j < 3 => l[j] \notin DOMAIN ids
    BY <1>1, <1>4, Upto
  <2>2. 3 \in DOMAIN l /\ DOMAIN l \subseteq Nat /\ l[3] \in DOMAIN ids
    BY <1>1, <1>4
  <2>3. Who!First(ids, l) = ids[l[3]]
    BY <2>1, <2>2, FirstHit
  <2> QED
    BY <1>1, <1>4, <2>3 DEF l
<1>5. CASE a \notin DOMAIN ids /\ b \notin DOMAIN ids /\ c \notin DOMAIN ids /\ d \in DOMAIN ids
  <2>1. \A j \in DOMAIN l : j < 4 => l[j] \notin DOMAIN ids
    BY <1>1, <1>5, Upto
  <2>2. 4 \in DOMAIN l /\ DOMAIN l \subseteq Nat /\ l[4] \in DOMAIN ids
    BY <1>1, <1>5
  <2>3. Who!First(ids, l) = ids[l[4]]
    BY <2>1, <2>2, FirstHit
  <2> QED
    BY <1>1, <1>5, <2>3 DEF l
<1>6. CASE a \notin DOMAIN ids /\ b \notin DOMAIN ids /\ c \notin DOMAIN ids /\ d \notin DOMAIN ids
  <2>1. \A j \in DOMAIN l : l[j] \notin DOMAIN ids
    BY <1>1, <1>6, Upto
  <2>2. Who!First(ids, l) = "none"
    BY <2>1, FirstMiss
  <2> QED
    BY <1>6, <2>2 DEF l
<1> QED
  BY <1>2, <1>3, <1>4, <1>5, <1>6

LEMMA KnownOf2 ==
  ASSUME NEW a, NEW b
  PROVE  Who!FirstKnown(<<a, b>>) =
           IF a # "none" THEN a ELSE IF b # "none" THEN b ELSE "none"
<1> DEFINE l == <<a, b>>
<1>1. DOMAIN l = 1..2 /\ l[1] = a /\ l[2] = b
  OBVIOUS
<1> HIDE DEF l
<1>2. CASE a # "none"
  <2>1. \A j \in DOMAIN l : j < 1 => l[j] = "none"
    BY <1>1, <1>2, Upto
  <2>2. 1 \in DOMAIN l /\ DOMAIN l \subseteq Nat /\ l[1] # "none"
    BY <1>1, <1>2
  <2>3. Who!FirstKnown(l) = l[1]
    BY <2>1, <2>2, KnownHit
  <2> QED
    BY <1>1, <1>2, <2>3 DEF l
<1>3. CASE a = "none" /\ b # "none"
  <2>1. \A j \in DOMAIN l : j < 2 => l[j] = "none"
    BY <1>1, <1>3, Upto
  <2>2. 2 \in DOMAIN l /\ DOMAIN l \subseteq Nat /\ l[2] # "none"
    BY <1>1, <1>3
  <2>3. Who!FirstKnown(l) = l[2]
    BY <2>1, <2>2, KnownHit
  <2> QED
    BY <1>1, <1>3, <2>3 DEF l
<1>4. CASE a = "none" /\ b = "none"
  <2>1. \A j \in DOMAIN l : l[j] = "none"
    BY <1>1, <1>4, Upto
  <2>2. Who!FirstKnown(l) = "none"
    BY <2>1, KnownMiss
  <2> QED
    BY <1>4, <2>2 DEF l
<1> QED
  BY <1>2, <1>3, <1>4

LEMMA KnownOf4 ==
  ASSUME NEW a, NEW b, NEW c, NEW d
  PROVE  Who!FirstKnown(<<a, b, c, d>>) =
           IF a # "none" THEN a ELSE IF b # "none" THEN b ELSE IF c # "none" THEN c ELSE IF d # "none" THEN d ELSE "none"
<1> DEFINE l == <<a, b, c, d>>
<1>1. DOMAIN l = 1..4 /\ l[1] = a /\ l[2] = b /\ l[3] = c /\ l[4] = d
  OBVIOUS
<1> HIDE DEF l
<1>2. CASE a # "none"
  <2>1. \A j \in DOMAIN l : j < 1 => l[j] = "none"
    BY <1>1, <1>2, Upto
  <2>2. 1 \in DOMAIN l /\ DOMAIN l \subseteq Nat /\ l[1] # "none"
    BY <1>1, <1>2
  <2>3. Who!FirstKnown(l) = l[1]
    BY <2>1, <2>2, KnownHit
  <2> QED
    BY <1>1, <1>2, <2>3 DEF l
<1>3. CASE a = "none" /\ b # "none"
  <2>1. \A j \in DOMAIN l : j < 2 => l[j] = "none"
    BY <1>1, <1>3, Upto
  <2>2. 2 \in DOMAIN l /\ DOMAIN l \subseteq Nat /\ l[2] # "none"
    BY <1>1, <1>3
  <2>3. Who!FirstKnown(l) = l[2]
    BY <2>1, <2>2, KnownHit
  <2> QED
    BY <1>1, <1>3, <2>3 DEF l
<1>4. CASE a = "none" /\ b = "none" /\ c # "none"
  <2>1. \A j \in DOMAIN l : j < 3 => l[j] = "none"
    BY <1>1, <1>4, Upto
  <2>2. 3 \in DOMAIN l /\ DOMAIN l \subseteq Nat /\ l[3] # "none"
    BY <1>1, <1>4
  <2>3. Who!FirstKnown(l) = l[3]
    BY <2>1, <2>2, KnownHit
  <2> QED
    BY <1>1, <1>4, <2>3 DEF l
<1>5. CASE a = "none" /\ b = "none" /\ c = "none" /\ d # "none"
  <2>1. \A j \in DOMAIN l : j < 4 => l[j] = "none"
    BY <1>1, <1>5, Upto
  <2>2. 4 \in DOMAIN l /\ DOMAIN l \subseteq Nat /\ l[4] # "none"
    BY <1>1, <1>5
  <2>3. Who!FirstKnown(l) = l[4]
    BY <2>1, <2>2, KnownHit
  <2> QED
    BY <1>1, <1>5, <2>3 DEF l
<1>6. CASE a = "none" /\ b = "none" /\ c = "none" /\ d = "none"
  <2>1. \A j \in DOMAIN l : l[j] = "none"
    BY <1>1, <1>6, Upto
  <2>2. Who!FirstKnown(l) = "none"
    BY <2>1, KnownMiss
  <2> QED
    BY <1>6, <2>2 DEF l
<1> QED
  BY <1>2, <1>3, <1>4, <1>5, <1>6

Uid(ids) == Who!First(ids, <<"id", "sub", "username", "pk">>)

LEMMA UidIs ==
  ASSUME NEW ids
  PROVE  Uid(ids) = IF "id" \in DOMAIN ids THEN ids["id"] ELSE IF "sub" \in DOMAIN ids THEN ids["sub"]
                    ELSE IF "username" \in DOMAIN ids THEN ids["username"] ELSE IF "pk" \in DOMAIN ids THEN ids["pk"]
                    ELSE "none"
BY FirstOf4 DEF Uid

\* The key of an owner is made of an id and of a tenant.
LEMMA KeyIs ==
  ASSUME NEW s
  PROVE  LET id == Who!UserId(Who!UserOf(s))
         IN Who!OwnerKey(Who!Seen(s)) =
              IF id = "none" THEN <<>> ELSE <<IF Who!TenantOf(s) = "none" THEN "default" ELSE Who!TenantOf(s), id>>
<1>1. Who!Seen(s).user = Who!UserOf(s) /\ Who!Seen(s).tenant = Who!TenantOf(s) /\ Who!Seen(s).roles = Who!RolesOf(s)
  BY DEF Who!Seen
<1> QED
  BY <1>1 DEF Who!OwnerKey

LEMMA TenantIs ==
  ASSUME NEW s
  PROVE  Who!TenantOf(s) =
           IF s.tenant # "none" THEN s.tenant ELSE IF Who!UserOf(s).tenant # "none" THEN Who!UserOf(s).tenant
           ELSE IF s.auth.tenant # "none" THEN s.auth.tenant ELSE IF s.state # "none" THEN s.state ELSE "none"
<1>1. Who!TenantOf(s) = Who!FirstKnown(<<s.tenant, Who!UserOf(s).tenant, s.auth.tenant, s.state>>)
  BY DEF Who!TenantOf
<1> QED
  BY <1>1, KnownOf4

\* The names under which a person is known to the server are sent, unless a pk is all there is.
LEMMA NamesSent ==
  ASSUME NEW p, Who!IsPerson(p), p.shape # "text",
         ~(p.shape = "object" /\ DOMAIN p.ids \intersect {"id", "sub", "username", "pk"} = {"pk"})
  PROVE  LET f == Who!Fields(p)
         IN /\ Uid(f.ids) = Uid(p.ids)
            /\ \A n \in {"id", "sub"} : n \in DOMAIN f.ids <=> n \in DOMAIN p.ids
            /\ \A n \in DOMAIN f.ids : n \in DOMAIN p.ids /\ f.ids[n] = p.ids[n]
            /\ DOMAIN f.ids = {} => p.ids = Who!NoOne.ids
<1> DEFINE f == Who!Fields(p)
<1>1. f.ids = CASE p.shape \in {"none", "text"} -> Who!NoOne.ids
                [] p.shape = "object" -> [n \in DOMAIN p.ids \intersect Who!Attributes |-> p.ids[n]]
                [] OTHER -> p.ids
  BY KeptFields
<1>2. p.ids = [n \in DOMAIN p.ids |-> p.ids[n]] /\ (p.shape = "none" => p = Who!NoOne)
      /\ DOMAIN p.ids \subseteq {"id", "sub", "username", "pk", "user_id"}
  BY DEF Who!IsPerson
<1> HIDE DEF f
<1>3. CASE p.shape = "object"
  <2>1. f.ids = [n \in DOMAIN p.ids \intersect Who!Attributes |-> p.ids[n]]
    BY <1>1, <1>3
  <2>2. DOMAIN f.ids = DOMAIN p.ids \ {"pk"}
    BY <1>2, <2>1 DEF Who!Attributes
  <2>3. \A n \in DOMAIN f.ids : n \in DOMAIN p.ids /\ f.ids[n] = p.ids[n]
    BY <2>1
  <2>4. "pk" \in DOMAIN p.ids => "id" \in DOMAIN p.ids \/ "sub" \in DOMAIN p.ids \/ "username" \in DOMAIN p.ids
    BY <1>3
  <2>5. Uid(f.ids) = Uid(p.ids)
    BY <2>2, <2>3, <2>4, UidIs
  <2>6. ASSUME DOMAIN f.ids = {} PROVE p.ids = Who!NoOne.ids
    <3>1. DOMAIN p.ids = {}
      BY <2>2, <2>4, <2>6
    <3> QED
      BY <1>2, <3>1 DEF Who!NoOne
  <2> QED
    BY <2>2, <2>3, <2>5, <2>6 DEF f
<1>4. CASE p.shape # "object"
  <2>1. f.ids = p.ids
    BY <1>1, <1>2, <1>4
  <2>2. DOMAIN p.ids = {} => p.ids = Who!NoOne.ids
    BY <1>2 DEF Who!NoOne
  <2> QED
    BY <2>1, <2>2 DEF f
<1> QED
  BY <1>3, <1>4

\* A worker works for the owner who asked, but for what Renamed and ToldAside name.
LEMMA OwnerSent ==
  ASSUME NEW s, Who!IsScope(s), NEW imports, NEW e,
         e = [owner |-> Who!Owner(s), snapshot |-> Who!Snapshot(s, Who!Owner(s))],
         NEW w, w = Who!WorkerScope(e, imports),
         ~Who!Renamed(s), ~Who!ToldAside(s), s.holder # "context"
  PROVE  Who!OwnerKey(Who!Seen(w)) = Who!OwnerKey(Who!Seen(s))
<1> DEFINE owner == Who!Owner(s)
           f == Who!Fields(s.user)
           ids == Who!Default(f.ids, owner)
           tag == IF s.user.shape = "typed" THEN DOMAIN s.user.ids ELSE {}
           beside == s.holder # "none" \/ s.context.present
<1>1. /\ w.holder = (IF s.holder # "none" THEN "user" ELSE "none") /\ w.context.present = beside
      /\ w.user.shape \in {"none", "typed", "proxy"} /\ (w.user = Who!NoOne <=> w.user.shape = "none")
      /\ w.user.roles = s.user.roles /\ w.user.tenant = (IF s.user.shape = "text" THEN "none" ELSE s.user.tenant)
      /\ w.user.ids = (IF tag # {} /\ imports THEN [n \in DOMAIN ids \intersect tag |-> ids[n]] ELSE ids)
      /\ w.user.shape = "none" <=> ~(tag # {} /\ imports) /\ ids = Who!NoOne.ids
                                        /\ w.user.roles = {} /\ w.user.tenant = "none"
      /\ beside => w.auth = Who!NoOne
      /\ ~beside => /\ w.auth.tenant = (IF s.auth.shape = "text" THEN "none" ELSE s.auth.tenant)
                    /\ w.auth.ids = Who!Fields(s.auth).ids /\ w.auth.shape \in {"none", "proxy"}
      /\ w.tenant = "none" /\ w.state = "none"
  <2> HIDE DEF owner
  <2>1. e = [owner |-> owner, snapshot |-> Who!Snapshot(s, owner)]
    BY DEF owner
  <2> QED
    BY <2>1, SentScope
<1>2. /\ Who!IsPerson(s.user) /\ Who!IsPerson(s.auth) /\ s.holder \in {"none", "user"} /\ s.context.present \in BOOLEAN
      /\ s.user.shape = "none" => s.user = Who!NoOne
      /\ s.auth.shape = "text" => s.auth.tenant = "none"
  BY DEF Who!IsScope, Who!IsContext, Who!IsPerson
<1>3. /\ "id" \notin DOMAIN s.user.ids => owner \in {"none", Who!UserId(Who!UserOf(s))}
      /\ Who!UserOf(s).shape # "text"
      /\ ~(Who!UserOf(s).shape = "object" /\ DOMAIN Who!UserOf(s).ids \intersect {"id", "sub", "username", "pk"} = {"pk"})
      /\ s.user # Who!NoOne /\ DOMAIN s.user.ids = {} => s.auth = Who!NoOne
      /\ s.tenant = "none"
      /\ Who!UserOf(s).tenant = "none" /\ s.auth.tenant = "none" => s.state = "none"
      /\ s.context.present => s.auth = Who!NoOne
  BY DEF Who!Renamed, Who!ToldAside
<1>4. /\ \A p : p.shape # "text" => Who!UserId(p) = Uid(p.ids)
      /\ Uid(Who!NoOne.ids) = "none" /\ Uid(Who!Opaque.ids) = "none"
  BY UidIs, Nobody DEF Uid, Who!UserId
<1> HIDE DEF owner, f, ids, tag
<1>8. ids = Who!Default(f.ids, owner)
  BY DEF ids
<1>9. /\ owner = "none" => ids = f.ids
      /\ owner # "none" => /\ DOMAIN ids = DOMAIN f.ids \union {"id", "sub"}
                           /\ \A n \in DOMAIN f.ids : ids[n] = f.ids[n]
                           /\ \A n \in {"id", "sub"} : n \notin DOMAIN f.ids => ids[n] = owner
  BY <1>8 DEF Who!Default
<1>5. CASE s.holder = "user"
  <2>1. Who!UserOf(s) = Who!Opaque /\ Who!UserOf(w) = Who!Opaque
    BY <1>1, <1>5 DEF Who!UserOf
  <2> QED
    BY <1>4, <2>1, Nobody, KeyIs
<1>6. CASE s.holder = "none" /\ s.user # Who!NoOne
  <2>1. Who!UserOf(s) = s.user /\ s.user.shape \notin {"none", "text"} /\ w.holder = "none"
    BY <1>1, <1>2, <1>3, <1>6 DEF Who!UserOf
  <2>2. /\ Uid(f.ids) = Uid(s.user.ids)
        /\ \A n \in {"id", "sub"} : n \in DOMAIN f.ids <=> n \in DOMAIN s.user.ids
        /\ \A n \in DOMAIN f.ids : n \in DOMAIN s.user.ids /\ f.ids[n] = s.user.ids[n]
        /\ DOMAIN f.ids = {} => s.user.ids = Who!NoOne.ids
    BY <1>2, <1>3, <2>1, NamesSent DEF f
  <2>3. Who!UserId(s.user) = Uid(s.user.ids)
    BY <1>4, <2>1
  <2>4. Uid(w.user.ids) = Uid(s.user.ids)
    <3>1. CASE owner = "none"
      <4>1. ids = f.ids
        BY <3>1, <1>9
      <4>2. tag # {} => f.ids = s.user.ids /\ tag = DOMAIN s.user.ids
        BY <1>2, KeptFields DEF tag, f
      <4>3. CASE tag # {} /\ imports
        <5>0. w.user.ids = [n \in DOMAIN ids \intersect tag |-> ids[n]]
          BY <1>1, <4>3
        <5>1. DOMAIN w.user.ids = DOMAIN s.user.ids /\ \A n \in DOMAIN s.user.ids : w.user.ids[n] = s.user.ids[n]
          <6>1. ids = s.user.ids /\ tag = DOMAIN s.user.ids
            BY <4>1, <4>2, <4>3
          <6> QED
            BY <5>0, <6>1
        <5> QED
          BY <5>1, UidIs
      <4>4. CASE ~(tag # {} /\ imports)
        BY <1>1, <2>2, <4>1, <4>4
      <4> QED
        BY <4>3, <4>4
    <3>2. CASE owner # "none"
      <4>1. /\ DOMAIN ids = DOMAIN f.ids \union {"id", "sub"}
            /\ \A n \in DOMAIN f.ids : ids[n] = f.ids[n]
            /\ \A n \in {"id", "sub"} : n \notin DOMAIN f.ids => ids[n] = owner
        BY <3>2, <1>9
      <4>2. "id" \notin DOMAIN s.user.ids => owner = Uid(s.user.ids)
        BY <1>3, <2>1, <2>3, <3>2
      <4>3. CASE tag # {} /\ imports
        <5>1. f.ids = s.user.ids /\ tag = DOMAIN s.user.ids
          BY <1>2, <4>3, KeptFields DEF tag, f
        <5>0. w.user.ids = [n \in DOMAIN ids \intersect tag |-> ids[n]]
          BY <1>1, <4>3
        <5>2. DOMAIN w.user.ids = DOMAIN s.user.ids /\ \A n \in DOMAIN s.user.ids : w.user.ids[n] = s.user.ids[n]
          BY <4>1, <5>0, <5>1
        <5> QED
          BY <5>2, UidIs
      <4>4. CASE ~(tag # {} /\ imports)
        <5>1. w.user.ids = ids /\ "id" \in DOMAIN ids
          BY <1>1, <4>1, <4>4
        <5>2. ids["id"] = Uid(s.user.ids)
          <6>1. CASE "id" \in DOMAIN s.user.ids
            BY <2>2, <4>1, <6>1, UidIs
          <6>2. CASE "id" \notin DOMAIN s.user.ids
            BY <2>2, <4>1, <4>2, <6>2
          <6> QED
            BY <6>1, <6>2
        <5> QED
          BY <5>1, <5>2, UidIs
      <4> QED
        BY <4>3, <4>4
    <3> QED
      BY <3>1, <3>2
  <2>5. CASE w.user # Who!NoOne
    <3>1. Who!UserOf(w) = w.user
      BY <2>1, <2>5 DEF Who!UserOf
    <3>2. Who!UserId(w.user) = Uid(s.user.ids)
      BY <1>1, <1>4, <2>4
    <3>3. w.auth.tenant = s.auth.tenant
      BY <1>1, <1>2, <1>3, <1>6, Nobody
    <3>4. Who!TenantOf(w) = Who!TenantOf(s)
      BY <1>1, <1>3, <2>1, <3>1, <3>3, TenantIs
    <3> QED
      BY <2>1, <2>3, <3>1, <3>2, <3>4, KeyIs
  <2>6. CASE w.user = Who!NoOne
    <3>1. Uid(s.user.ids) = "none" /\ ids = Who!NoOne.ids
      BY <1>1, <1>4, <2>4, <2>6
    <3>2. s.user.ids = Who!NoOne.ids
      <4>1. owner = "none"
        BY <1>9, <3>1, Nobody
      <4>2. ids = f.ids
        BY <4>1, <1>9
      <4> QED
        BY <2>2, <3>1, <4>2, Nobody
    <3>3. s.auth = Who!NoOne
      BY <1>3, <1>6, <3>2, Nobody
    <3>4. Who!UserOf(w) \in {Who!Opaque, w.auth}
      BY <2>1, <2>6 DEF Who!UserOf
    <3>5. w.auth.shape # "text" /\ Uid(w.auth.ids) = "none"
      <4>1. Who!Fields(Who!NoOne) = Who!NoOne
        BY Nobody DEF Who!Fields
      <4> QED
        BY <1>1, <1>4, <3>3, <4>1, Nobody
    <3>6. Who!UserId(Who!UserOf(w)) = "none"
      BY <1>4, <3>4, <3>5, Nobody
    <3> QED
      BY <2>1, <2>3, <3>1, <3>6, KeyIs
  <2> QED
    BY <2>5, <2>6
<1>7. CASE s.holder = "none" /\ s.user = Who!NoOne
  <2>1. f = Who!NoOne /\ tag = {} /\ "id" \notin DOMAIN s.user.ids /\ w.holder = "none"
    BY <1>1, <1>7, Nobody DEF f, Who!Fields, tag
  <2>2. w.user.ids = ids /\ (w.user.shape = "none" <=> ids = Who!NoOne.ids) /\ w.user.tenant = "none"
    BY <1>1, <1>7, <2>1, Nobody
  <2>3. CASE s.context.present
    <3>1. Who!UserOf(s) = Who!Opaque
      BY <1>3, <1>7, <2>3 DEF Who!UserOf
    <3>2. owner = "none"
      BY <1>3, <1>4, <2>1, <3>1, Nobody
    <3>3. w.user = Who!NoOne /\ w.auth = Who!NoOne
      <4>1. ids = f.ids
        BY <3>2, <1>9
      <4> QED
        BY <1>1, <2>1, <2>2, <2>3, <4>1
    <3>4. Who!UserOf(w) = Who!Opaque
      BY <1>1, <2>1, <2>3, <3>3 DEF Who!UserOf
    <3> QED
      BY <1>4, <3>1, <3>4, Nobody, KeyIs
  <2>4. CASE ~s.context.present
    <3>1. Who!UserOf(s) = s.auth
      BY <1>7, <2>4 DEF Who!UserOf
    <3>2. w.auth.tenant = s.auth.tenant /\ w.auth.ids = Who!Fields(s.auth).ids /\ w.auth.shape \in {"none", "proxy"}
      BY <1>1, <1>2, <1>7, <2>4
    <3>3. Uid(Who!Fields(s.auth).ids) = Uid(s.auth.ids)
      BY <1>2, <1>3, <3>1, NamesSent
    <3>4. Who!UserId(s.auth) = Uid(s.auth.ids)
      BY <1>3, <1>4, <3>1
    <3>5. CASE owner = "none"
      <4>1. w.user = Who!NoOne
        <5>1. ids = f.ids
          BY <3>5, <1>9
        <5> QED
          BY <1>1, <2>1, <2>2, <5>1
      <4>2. Who!UserOf(w) = w.auth
        BY <1>1, <1>7, <2>1, <2>4, <4>1 DEF Who!UserOf
      <4>3. Who!UserId(w.auth) = Uid(s.auth.ids)
        BY <1>4, <3>2, <3>3
      <4>4. Who!TenantOf(w) = Who!TenantOf(s)
        BY <1>1, <1>3, <3>1, <3>2, <4>2, TenantIs
      <4> QED
        BY <3>1, <3>4, <4>2, <4>3, <4>4, KeyIs
    <3>6. CASE owner # "none"
      <4>1. "id" \in DOMAIN ids /\ ids["id"] = owner
        BY <1>9, <2>1, <3>6, Nobody
      <4>2. owner = Uid(s.auth.ids)
        BY <1>3, <2>1, <3>1, <3>4, <3>6
      <4>3. w.user # Who!NoOne /\ w.user.shape # "text"
        BY <1>1, <2>2, <4>1, Nobody
      <4>4. Who!UserOf(w) = w.user
        BY <2>1, <4>3 DEF Who!UserOf
      <4>5. Who!UserId(w.user) = Uid(s.auth.ids)
        BY <1>4, <2>2, <4>1, <4>2, <4>3, UidIs
      <4>6. Who!TenantOf(w) = Who!TenantOf(s)
        BY <1>1, <1>3, <2>2, <3>1, <3>2, <4>4, TenantIs
      <4> QED
        BY <3>1, <3>4, <4>4, <4>5, <4>6, KeyIs
    <3> QED
      BY <3>5, <3>6
  <2> QED
    BY <1>2, <2>3, <2>4
<1> QED
  BY <1>2, <1>5, <1>6, <1>7

\* A turn works for the owner who asked, but for who Unlike names.
LEMMA TurnOwner ==
  ASSUME NEW s, Who!IsScope(s), ~Who!Unlike(s)
  PROVE  Who!TurnUser(s) = Who!UserId(Who!UserOf(s))
<1> DEFINE u == Who!UserOf(s)
<1>1. u \in {Who!Opaque, s.user, s.auth}
  BY DEF Who!UserOf
<1>2. /\ Who!IsPerson(s.user) /\ Who!IsPerson(s.auth)
      /\ DOMAIN u.ids \intersect {"user_id", "pk", "text"} = {} /\ (DOMAIN u.ids = {} => s.auth = Who!NoOne)
  BY DEF Who!IsScope, Who!Unlike
<1>3. DOMAIN u.ids \subseteq {"id", "sub", "username"} /\ (\A n \in DOMAIN u.ids : u.ids[n] # "none") /\ u.shape # "text"
  BY <1>1, <1>2, Nobody DEF Who!IsPerson
<1>4. /\ Who!UserId(u) = Uid(u.ids)
      /\ Who!First(u.ids, <<"user_id", "id", "sub", "username">>) = Uid(u.ids)
      /\ DOMAIN u.ids # {} => Uid(u.ids) # "none"
      /\ DOMAIN u.ids = {} => Uid(u.ids) = "none" /\ Who!First(s.auth.ids, <<"sub", "user_id", "id">>) = "none"
  <2> HIDE DEF u
  <2>1. Who!UserId(u) = Uid(u.ids)
    BY <1>3 DEF Who!UserId, Uid
  <2>2. Who!First(u.ids, <<"user_id", "id", "sub", "username">>) = Uid(u.ids)
    BY <1>2, <1>3, FirstOf4, UidIs
  <2>3. DOMAIN u.ids # {} => Uid(u.ids) # "none"
    BY <1>3, UidIs
  <2>4. DOMAIN u.ids = {} => Uid(u.ids) = "none" /\ Who!First(s.auth.ids, <<"sub", "user_id", "id">>) = "none"
    BY <1>2, UidIs, FirstOf3, Nobody
  <2> QED
    BY <2>1, <2>2, <2>3, <2>4
<1>5. Who!TurnUser(s) = Who!FirstKnown(<<Who!First(u.ids, <<"user_id", "id", "sub", "username">>),
                                         Who!First(s.auth.ids, <<"sub", "user_id", "id">>)>>)
  BY DEF Who!TurnUser
<1> HIDE DEF u
<1> QED
  BY <1>4, <1>5, KnownOf2 DEF u

LEMMA NamedIs ==
  ASSUME NEW name, NEW roles, NEW p, p = Who!Named(name, roles)
  PROVE  /\ p = Who!Person(p.shape, p.ids, p.roles, p.tenant) /\ p.shape = "mapping" /\ p.roles = roles
         /\ DOMAIN p.ids = {"id"} /\ p.ids["id"] = name /\ Who!UserId(p) = name /\ p # Who!NoOne
<1>1. p = Who!Person("mapping", [f \in {"id"} |-> name], roles, "none")
  BY DEF Who!Named
<1>2. p.shape = "mapping" /\ p.ids = [f \in {"id"} |-> name] /\ p.roles = roles /\ p.tenant = "none"
  BY <1>1, Parts
<1>3. DOMAIN p.ids = {"id"} /\ p.ids["id"] = name
  BY <1>2
<1>4. Who!UserId(p) = Uid(p.ids) /\ Uid(p.ids) = name
  BY <1>2, <1>3, UidIs DEF Who!UserId, Uid
<1> QED
  BY <1>1, <1>2, <1>3, <1>4, Nobody

\* A2A names the user as the server does.
LEMMA A2aUser ==
  ASSUME NEW s, Who!IsScope(s), s.user # Who!NoOne, Who!UserName(s) # "none"
  PROVE  Who!UserId(Who!UserOf(s)) = Who!UserName(s)
<1>1. s.holder # "user" /\ Who!UserName(s) = Who!First(s.user.ids, <<"id", "sub", "username">>)
  BY DEF Who!UserName
<1>2. Who!UserOf(s) = s.user
  BY <1>1 DEF Who!UserOf
<1>3. Who!UserName(s) = IF "id" \in DOMAIN s.user.ids THEN s.user.ids["id"] ELSE IF "sub" \in DOMAIN s.user.ids THEN s.user.ids["sub"]
                        ELSE IF "username" \in DOMAIN s.user.ids THEN s.user.ids["username"] ELSE "none"
  BY <1>1, FirstOf3
<1>4. s.user.shape # "text"
  BY <1>3 DEF Who!IsScope, Who!IsPerson
<1>5. Who!UserId(s.user) = Uid(s.user.ids) /\ Uid(s.user.ids) = Who!UserName(s)
  BY <1>3, <1>4, UidIs DEF Who!UserId, Uid
<1> QED
  BY <1>2, <1>5

-----------------------------------------------------------------------------
Aside(s) == Who!Renamed(s) \/ Who!ToldAside(s) \/ s.holder = "context"

\* Whom the account may be of that takes the place of who was sent.
Asking(r) ==
  {Who!Owner(r)} \union IF worker.dependency \in {"declared", "unfit"} THEN {Who!Id(r.user)} ELSE {}

\* The scope a task has between its attempt and its end: what it grants, of whom it is.
TaskScope(r, scope, fresh, roles) ==
  /\ ScopeParts(scope) /\ scope.user = Who!Person(scope.user.shape, scope.user.ids, scope.user.roles, scope.user.tenant)
  /\ Who!Granted(scope.context) = Who!Granted(r.context) /\ scope.auth.roles \subseteq r.auth.roles
  /\ scope.tenant = "none" /\ Who!Id(scope.user) \in {"none", Who!Owner(r), Who!Id(r.user)}
  /\ fresh => /\ scope.user.roles \subseteq roles /\ scope.holder = "none" /\ scope.user.shape \notin {"none", "text"}
              /\ "id" \in DOMAIN scope.user.ids /\ scope.user.ids["id"] \in Asking(r) \ {"none"}
  /\ ~fresh => /\ Who!RolesOf(scope) \subseteq Who!RolesOf(r)
               /\ Who!OwnerKey(Who!Seen(scope)) = Who!OwnerKey(Who!Seen(r)) \/ Aside(r)

\* The parts of the inductive invariant, one for each way: what is carried along
\* (request r, envelope e) and what is made of it (work w).
Working(e, w) ==
  /\ w = [way |-> w.way, at |-> w.at, scope |-> w.scope, fresh |-> w.fresh, seen |-> w.seen]
  /\ w.fresh \in BOOLEAN /\ (w.way # "task" => ~w.fresh)
  /\ w.way \in {"none", "chat", "call", "kept", "task", "turn", "a2a"}
  /\ w.way = "none" => w.at \in {"none", "refused"} /\ e = Who!NoEnvelope

Called(r, w) ==
  /\ w.way = "chat" => w.at = "ran" /\ w.seen = Who!Seen(r)
  /\ w.way = "call" => w.at = "ran" /\ w.scope = Who!Dispatched(r) /\ w.seen = Who!Seen(Who!Dispatched(r))

KeptHere(r, e, w) ==
  w.way = "kept" => /\ w.at \in {"prepared", "ran"} /\ e = Who!NoEnvelope
                    /\ w.at = "prepared" => w.scope = r
                    /\ w.at = "ran" => w.scope = Who!Dispatched(r) /\ w.seen = Who!Seen(w.scope)

TurnEnvelope(r) == [user |-> Who!TurnUser(r), tenant |-> Who!TenantOf(r), roles |-> Who!RolesOf(r)]
TurnSeen(e) ==
  [user |-> IF e.user = "none" THEN Who!NoOne ELSE Who!Named(e.user, {}), roles |-> e.roles, tenant |-> e.tenant]
Turned(r, e, w) ==
  w.way = "turn" => /\ w.at \in {"queued", "ran"} /\ e = TurnEnvelope(r)
                    /\ w.at = "ran" => w.seen = TurnSeen(e)

A2aSeen(r, seen) ==
  seen.roles = {} /\ (r.user = Who!NoOne \/ Who!OwnerKey(seen)[2] = Who!OwnerKey(Who!Seen(r))[2])
Messaged(r, w) == w.way = "a2a" => w.at \in {"ran", "refused"} /\ (w.at = "ran" => A2aSeen(r, w.seen))

TaskEnvelope(r) == [owner |-> Who!Owner(r), snapshot |-> Who!Snapshot(r, Who!Owner(r))]
Tasked(r, e, w, roles) ==
  w.way = "task" => /\ w.at \in {"queued", "loaded", "prepared", "ran"} /\ e = TaskEnvelope(r)
                    /\ w.at # "queued" => TaskScope(r, w.scope, w.fresh, roles)
                    /\ w.at = "ran" => w.seen = Who!Seen(w.scope)

Ways(r, e, w, roles) ==
  Working(e, w) /\ Called(r, w) /\ KeptHere(r, e, w) /\ Turned(r, e, w) /\ Messaged(r, w) /\ Tasked(r, e, w, roles)
Holding ==
  work.way = "task" /\ work.at \in {"loaded", "prepared"} => \A n \in Who!AskedFor : Who!Account(n).roles \subseteq held

Carried == Who!IsScope(request) /\ DOMAIN accounts = Holders /\ Ways(request, envelope, work, held) /\ Holding

LEMMA SentRights ==
  ASSUME NEW s, Who!IsScope(s), NEW imports, NEW e,
         e = [owner |-> Who!Owner(s), snapshot |-> Who!Snapshot(s, Who!Owner(s))],
         NEW w, w = Who!WorkerScope(e, imports)
  PROVE  /\ ScopeParts(w) /\ w.user = Who!Person(w.user.shape, w.user.ids, w.user.roles, w.user.tenant)
         /\ Who!Granted(w.context) = Who!Granted(s.context)
         /\ w.auth.roles \subseteq s.auth.roles /\ Who!RolesOf(w) \subseteq Who!RolesOf(s)
<1> DEFINE owner == Who!Owner(s)
           ids == Who!Default(Who!Fields(s.user).ids, owner)
           tag == IF s.user.shape = "typed" THEN DOMAIN s.user.ids ELSE {}
           beside == s.holder # "none" \/ s.context.present
<1>1. /\ ScopeParts(w) /\ w.user = Who!Person(w.user.shape, w.user.ids, w.user.roles, w.user.tenant)
      /\ w.holder = (IF s.holder # "none" THEN "user" ELSE "none")
      /\ Who!Granted(w.context) = Who!Granted(s.context)
      /\ w.user.roles = s.user.roles
      /\ w.user.ids = (IF tag # {} /\ imports THEN [n \in DOMAIN ids \intersect tag |-> ids[n]] ELSE ids)
      /\ beside => w.auth = Who!NoOne
      /\ ~beside => w.auth.roles = s.auth.roles
  <2> HIDE DEF owner
  <2>1. e = [owner |-> owner, snapshot |-> Who!Snapshot(s, owner)]
    BY DEF owner
  <2> QED
    BY <2>1, SentScope
<1>2. w.auth.roles \subseteq s.auth.roles
  BY <1>1, Nobody
<1>3. Who!RolesOf(w) \subseteq Who!RolesOf(s)
  <2>1. s.holder \in {"none", "user", "context"}
    BY DEF Who!IsScope
  <2>2. CASE s.holder # "none"
    BY <1>1, <2>2, WhoseRoles, Nobody
  <2>3. CASE s.holder = "none"
    BY <1>1, <1>2, <2>3, WhoseRoles
  <2> QED
    BY <2>2, <2>3
<1> QED
  BY <1>1, <1>2, <1>3

\* A worker knows the user by the id it had, or by the owner for one that had none.
LEMMA SentId ==
  ASSUME NEW s, Who!IsScope(s), NEW imports, NEW e,
         e = [owner |-> Who!Owner(s), snapshot |-> Who!Snapshot(s, Who!Owner(s))],
         NEW w, w = Who!WorkerScope(e, imports)
  PROVE  w.tenant = "none" /\ Who!Id(w.user) \in {"none", Who!Owner(s), Who!Id(s.user)}
<1> DEFINE owner == Who!Owner(s)
           f == Who!Fields(s.user)
           ids == Who!Default(f.ids, owner)
           tag == IF s.user.shape = "typed" THEN DOMAIN s.user.ids ELSE {}
<1>1. /\ w.tenant = "none"
      /\ w.user.ids = (IF tag # {} /\ imports THEN [n \in DOMAIN ids \intersect tag |-> ids[n]] ELSE ids)
  <2> HIDE DEF owner
  <2>1. e = [owner |-> owner, snapshot |-> Who!Snapshot(s, owner)]
    BY DEF owner
  <2> QED
    BY <2>1, SentScope
<1>2. "id" \in DOMAIN f.ids => "id" \in DOMAIN s.user.ids /\ f.ids["id"] = s.user.ids["id"]
  <2>1. s.user = Who!Person(s.user.shape, s.user.ids, s.user.roles, s.user.tenant)
    BY DEF Who!IsScope, Who!IsPerson
  <2>2. CASE s.user.shape \in {"none", "text"}
    BY <2>2, Nobody DEF Who!Fields
  <2>3. CASE s.user.shape = "object"
    BY <2>1, <2>3 DEF Who!Fields, Who!Person
  <2>4. CASE s.user.shape \notin {"none", "text", "object"}
    BY <2>1, <2>4 DEF Who!Fields, Who!Person
  <2> QED
    BY <2>2, <2>3, <2>4
<1> HIDE DEF f, owner, tag
<1>3. ASSUME "id" \in DOMAIN ids PROVE ids["id"] \in {owner, Who!Id(s.user)}
  <2>1. Who!Id(s.user) = IF "id" \in DOMAIN s.user.ids THEN s.user.ids["id"] ELSE "none"
    BY FirstOf1 DEF Who!Id
  <2>2. CASE "id" \in DOMAIN f.ids
    BY <1>2, <2>1, <2>2 DEF Who!Default
  <2>3. CASE "id" \notin DOMAIN f.ids
    BY <1>3, <2>3 DEF Who!Default
  <2> QED
    BY <2>2, <2>3
<1>4. Who!Id(w.user) = IF "id" \in DOMAIN w.user.ids THEN w.user.ids["id"] ELSE "none"
  BY FirstOf1 DEF Who!Id
<1> HIDE DEF ids
<1>5. "id" \in DOMAIN w.user.ids => "id" \in DOMAIN ids /\ w.user.ids["id"] = ids["id"]
  BY <1>1
<1> QED
  BY <1>1, <1>3, <1>4, <1>5 DEF owner

LEMMA Loading ==
  ASSUME Who!IsScope(request), NEW imports, NEW roles, NEW e,
         e = [owner |-> Who!Owner(request), snapshot |-> Who!Snapshot(request, Who!Owner(request))],
         NEW w, w = Who!WorkerScope(e, imports)
  PROVE  TaskScope(request, w, FALSE, roles)
<1>1. /\ ScopeParts(w) /\ w.user = Who!Person(w.user.shape, w.user.ids, w.user.roles, w.user.tenant)
      /\ Who!Granted(w.context) = Who!Granted(request.context)
      /\ w.auth.roles \subseteq request.auth.roles /\ Who!RolesOf(w) \subseteq Who!RolesOf(request)
  BY SentRights
<1>3. w.tenant = "none" /\ Who!Id(w.user) \in {"none", Who!Owner(request), Who!Id(request.user)}
  BY SentId
<1>2. Who!OwnerKey(Who!Seen(w)) = Who!OwnerKey(Who!Seen(request)) \/ Aside(request)
  BY OwnerSent DEF Aside
<1> QED
  BY <1>1, <1>2, <1>3 DEF TaskScope

\* A scope's holder is none already.
LEMMA Untouched ==
  ASSUME NEW scope, ScopeParts(scope), scope.holder = "none", NEW user, NEW a, a = [scope EXCEPT !.user = user]
  PROVE  a = [scope EXCEPT !.user = user, !.holder = "none"]
<1> DEFINE b == [scope EXCEPT !.user = user, !.holder = "none"]
<1>1. b = [scope EXCEPT !.user = user, !.holder = "none"]
  OBVIOUS
<1> HIDE DEF b
<1>2. a = [user |-> user, auth |-> scope.auth, context |-> scope.context, holder |-> "none",
           owner |-> scope.owner, tenant |-> scope.tenant, state |-> scope.state]
  BY DEF ScopeParts
<1>3. b = [user |-> user, auth |-> scope.auth, context |-> scope.context, holder |-> "none",
           owner |-> scope.owner, tenant |-> scope.tenant, state |-> scope.state]
  BY <1>1 DEF ScopeParts
<1> QED
  BY <1>1, <1>2, <1>3

\* Who the application knows takes the place of who was sent.
LEMMA Replacing ==
  ASSUME NEW scope, NEW fresh, NEW roles, TaskScope(request, scope, fresh, roles), NEW user,
         user = Who!Person(user.shape, user.ids, user.roles, user.tenant), user.roles \subseteq roles,
         user.shape \notin {"none", "text"}, "id" \in DOMAIN user.ids,
         user.ids["id"] \in Asking(request) \ {"none"},
         NEW next, next = [scope EXCEPT !.user = user, !.holder = "none"]
  PROVE  TaskScope(request, next, TRUE, roles)
<1>1. ScopeParts(scope)
  BY DEF TaskScope
<1>2. /\ ScopeParts(next) /\ next.user = user /\ next.holder = "none" /\ next.context = scope.context /\ next.auth = scope.auth
      /\ next.tenant = scope.tenant
  BY <1>1 DEF ScopeParts
<1>3. Who!Id(user) \in {"none", Who!Owner(request), Who!Id(request.user)}
  BY FirstOf1 DEF Who!Id, Asking
<1> QED
  BY <1>2, <1>3 DEF TaskScope

\* What a tool is dispatched in tells of a scope all but the owner and the tenant.
LEMMA DispatchedParts ==
  ASSUME NEW s, ScopeParts(s), NEW d, d = Who!Dispatched(s)
  PROVE  /\ ScopeParts(d) /\ d.user = s.user /\ d.auth = s.auth /\ d.context = s.context /\ d.holder = s.holder
         /\ d.tenant = "none" /\ d.state = s.state
         /\ Who!UserOf(d) = Who!UserOf(s) /\ Who!RolesOf(d) = Who!RolesOf(s)
<1>1. d = [user |-> s.user, auth |-> s.auth, context |-> s.context, holder |-> s.holder,
           owner |-> "none", tenant |-> "none", state |-> s.state]
  <2>1. d = [s EXCEPT !.owner = "none", !.tenant = "none"]
    BY DEF Who!Dispatched
  <2> QED
    BY <2>1 DEF ScopeParts
<1>2. /\ ScopeParts(d) /\ d.user = s.user /\ d.auth = s.auth /\ d.context = s.context /\ d.holder = s.holder
      /\ d.tenant = "none" /\ d.state = s.state
  BY <1>1 DEF ScopeParts
<1>3. Who!UserOf(d) = Who!UserOf(s)
  BY <1>2 DEF Who!UserOf
<1> QED
  BY <1>2, <1>3 DEF Who!RolesOf

\* A tool that is told no tenant sees the same user.
LEMMA DispatchedKey ==
  ASSUME NEW s, ScopeParts(s), NEW d, d = Who!Dispatched(s)
  PROVE  LET k == Who!OwnerKey(Who!Seen(s))
             c == Who!OwnerKey(Who!Seen(d))
         IN  (s.tenant = "none" => c = k) /\ (c = k \/ c[2] = k[2])
<1>1. /\ d.user = s.user /\ d.auth = s.auth /\ d.state = s.state /\ d.tenant = "none"
      /\ Who!UserOf(d) = Who!UserOf(s)
  BY DispatchedParts
<1>2. s.tenant = "none" => Who!TenantOf(d) = Who!TenantOf(s)
  BY <1>1 DEF Who!TenantOf
<1> DEFINE id == Who!UserId(Who!UserOf(s))
           t(x) == IF Who!TenantOf(x) = "none" THEN "default" ELSE Who!TenantOf(x)
<1>3. /\ Who!OwnerKey(Who!Seen(s)) = IF id = "none" THEN <<>> ELSE <<t(s), id>>
      /\ Who!OwnerKey(Who!Seen(d)) = IF id = "none" THEN <<>> ELSE <<t(d), id>>
  BY <1>1, KeyIs
<1>4. s.tenant = "none" => t(d) = t(s)
  BY <1>2
<1> HIDE DEF id, t
<1> QED
  BY <1>3, <1>4

LEMMA TaskDispatched ==
  ASSUME NEW scope, NEW fresh, NEW roles, TaskScope(request, scope, fresh, roles), NEW d, d = Who!Dispatched(scope)
  PROVE  TaskScope(request, d, fresh, roles)
<1>1. ScopeParts(scope) /\ scope.tenant = "none"
  BY DEF TaskScope
<1>2. /\ ScopeParts(d) /\ d.user = scope.user /\ d.auth = scope.auth /\ d.context = scope.context /\ d.holder = scope.holder
      /\ d.tenant = "none" /\ Who!RolesOf(d) = Who!RolesOf(scope)
  BY <1>1, DispatchedParts
<1>3. Who!OwnerKey(Who!Seen(d)) = Who!OwnerKey(Who!Seen(scope))
  BY <1>1, DispatchedKey
<1> QED
  BY <1>2, <1>3 DEF TaskScope

\* At the end of a task.
LEMMA Ended ==
  ASSUME NEW scope, NEW fresh \in BOOLEAN, NEW roles, TaskScope(request, scope, fresh, roles), NEW seen, seen = Who!Seen(scope)
  PROVE  /\ seen.roles \subseteq (IF fresh THEN roles \union request.auth.roles ELSE Who!RolesOf(request))
         /\ fresh => Who!OwnerKey(seen)[2] \in Asking(request)
<1>1. seen.roles = Who!RolesOf(scope)
  BY DEF Who!Seen
<1>2. CASE fresh
  <2>1. scope.user.roles \subseteq roles /\ scope.holder = "none" /\ scope.user.shape \notin {"none", "text"}
        /\ "id" \in DOMAIN scope.user.ids /\ scope.user.ids["id"] \in Asking(request) \ {"none"}
        /\ scope.auth.roles \subseteq request.auth.roles
    BY <1>2 DEF TaskScope
  <2>2. Who!UserOf(scope) = scope.user
    BY <2>1, Nobody DEF Who!UserOf
  <2>3. Who!UserId(scope.user) = scope.user.ids["id"]
    <3>1. Who!UserId(scope.user) = Uid(scope.user.ids)
      BY <2>1 DEF Who!UserId, Uid
    <3> QED
      BY <2>1, <3>1, UidIs
  <2>4. Who!OwnerKey(seen)[2] = scope.user.ids["id"]
    BY <2>1, <2>2, <2>3, KeyIs
  <2> QED
    BY <1>1, <1>2, <2>1, <2>4, WhoseRoles
<1>3. CASE ~fresh
  BY <1>1, <1>3 DEF TaskScope
<1> QED
  BY <1>2, <1>3

\* An account, and its owner.
LEMMA Accounts ==
  ASSUME NEW owner, NEW p, p = Who!Account(owner), p # Who!NoOne
  PROVE  /\ p = Who!Person(p.shape, p.ids, p.roles, p.tenant) /\ p.shape = "mapping" /\ "id" \in DOMAIN p.ids
         /\ p.ids["id"] = owner /\ owner # "none" /\ owner \in Holders /\ DOMAIN p.ids = {"id"}
<1>1. owner \in Holders /\ p = Who!Named(owner, accounts[owner])
  BY DEF Who!Account
<1> QED
  BY <1>1, NamedIs, IdentityAssumption DEF IdentityAssumption

LEMMA CarriedKept == Carried => Who!NoMoreRights /\ Who!SameOwner
<1> SUFFICES ASSUME Carried, work.at = "ran" PROVE Who!NoMoreRights /\ Who!SameOwner
  BY DEF Who!NoMoreRights, Who!SameOwner
<1>0. /\ work.way \in {"chat", "call", "kept", "task", "turn", "a2a"} /\ work.fresh \in BOOLEAN
      /\ work.way # "task" => ~work.fresh
  BY DEF Carried, Ways, Working, Called
<1>1. Who!Seen(request).roles = Who!RolesOf(request)
  BY DEF Who!Seen
<1>2. CASE work.way = "chat"
  <2>1. work.seen = Who!Seen(request) /\ ~work.fresh
    BY <1>0, <1>2 DEF Carried, Ways, Called
  <2> QED
    BY <1>1, <1>2, <2>1 DEF Who!NoMoreRights, Who!SameOwner
<1>6. CASE work.way \in {"call", "kept"}
  <2> DEFINE d == Who!Dispatched(request)
  <2>1. work.scope = d /\ work.seen = Who!Seen(d) /\ ~work.fresh
    BY <1>0, <1>6 DEF Carried, Ways, Called, KeptHere
  <2>2. ScopeParts(request)
    BY DEF Carried, Who!IsScope, ScopeParts
  <2>d. d = Who!Dispatched(request)
    OBVIOUS
  <2> HIDE DEF d
  <2>3. d.context = request.context /\ Who!RolesOf(d) = Who!RolesOf(request)
    BY <2>2, <2>d, DispatchedParts
  <2>4. Who!Seen(d).roles = Who!RolesOf(request)
    BY <2>3 DEF Who!Seen
  <2>5. Who!NoMoreRights
    BY <1>6, <2>1, <2>3, <2>4 DEF Who!NoMoreRights
  <2>6. LET k == Who!OwnerKey(Who!Seen(request))
            c == Who!OwnerKey(work.seen)
        IN  c = k \/ (request.tenant # "none" /\ c[2] = k[2])
    BY <2>1, <2>2, <2>d, DispatchedKey
  <2>7. Who!SameOwner
    BY <1>6, <2>6 DEF Who!SameOwner
  <2> QED
    BY <2>5, <2>7
<1>3. CASE work.way = "task"
  <2>1. TaskScope(request, work.scope, work.fresh, held) /\ work.seen = Who!Seen(work.scope) /\ envelope.owner = Who!Owner(request)
    BY <1>3 DEF Carried, Ways, Tasked, TaskEnvelope
  <2>2. /\ work.seen.roles \subseteq (IF work.fresh THEN held \union request.auth.roles ELSE Who!RolesOf(request))
        /\ work.fresh => Who!OwnerKey(work.seen)[2] \in Asking(request)
    BY <1>0, <2>1, Ended
  <2>3. /\ Who!Granted(work.scope.context) = Who!Granted(request.context)
        /\ ~work.fresh => Who!OwnerKey(work.seen) = Who!OwnerKey(Who!Seen(request)) \/ Aside(request)
    BY <2>1 DEF TaskScope
  <2>4. Who!NoMoreRights
    BY <1>0, <2>2, <2>3 DEF Who!NoMoreRights
  <2>5. Who!SameOwner
    BY <1>0, <1>3, <2>1, <2>2, <2>3 DEF Who!SameOwner, Aside, Asking
  <2> QED
    BY <2>4, <2>5
<1>4. CASE work.way = "turn"
  <2>1. /\ envelope = [user |-> Who!TurnUser(request), tenant |-> Who!TenantOf(request), roles |-> Who!RolesOf(request)]
        /\ work.seen = TurnSeen(envelope)
    BY <1>4 DEF Carried, Ways, Turned, TurnEnvelope
  <2> DEFINE user == IF Who!TurnUser(request) = "none" THEN Who!NoOne ELSE Who!Named(Who!TurnUser(request), {})
  <2>2. work.seen.user = user /\ work.seen.roles = Who!RolesOf(request) /\ work.seen.tenant = Who!TenantOf(request)
    BY <2>1 DEF TurnSeen
  <2>3. Who!NoMoreRights
    BY <1>0, <1>4, <2>2 DEF Who!NoMoreRights
  <2>4. Who!UserId(user) = Who!TurnUser(request)
    <3>1. CASE Who!TurnUser(request) = "none"
      BY <3>1, UidIs, Nobody DEF Who!UserId, Uid
    <3>2. CASE Who!TurnUser(request) # "none"
      BY <3>2, NamedIs
    <3> QED
      BY <3>1, <3>2
  <2>5. ~Who!Unlike(request) => Who!TurnUser(request) = Who!UserId(Who!UserOf(request))
    BY TurnOwner DEF Carried
  <2> HIDE DEF user
  <2>6. ~Who!Unlike(request) => Who!OwnerKey(work.seen) = Who!OwnerKey(Who!Seen(request))
    <3>1. Who!OwnerKey(work.seen) =
            IF Who!TurnUser(request) = "none" THEN <<>>
            ELSE <<IF Who!TenantOf(request) = "none" THEN "default" ELSE Who!TenantOf(request), Who!TurnUser(request)>>
      BY <2>2, <2>4 DEF Who!OwnerKey
    <3> QED
      BY <2>5, <3>1, KeyIs
  <2>7. Who!SameOwner
    BY <1>4, <2>6 DEF Who!SameOwner
  <2> QED
    BY <2>3, <2>7
<1>5. CASE work.way = "a2a"
  <2>1. /\ work.seen.roles = {} /\ ~work.fresh
        /\ request.user = Who!NoOne \/ Who!OwnerKey(work.seen)[2] = Who!OwnerKey(Who!Seen(request))[2]
    BY <1>0, <1>5 DEF Carried, Ways, Messaged, A2aSeen
  <2> QED
    BY <1>5, <2>1 DEF Who!NoMoreRights, Who!SameOwner
<1> QED
  BY <1>0, <1>2, <1>3, <1>4, <1>5, <1>6

\* What one way demands is all that is demanded of its work.
LEMMA ChatWays ==
  ASSUME NEW r, NEW e, NEW roles, NEW w, NEW seen, seen = Who!Seen(r),
         w = [way |-> "chat", at |-> "ran", scope |-> r, fresh |-> FALSE, seen |-> seen]
  PROVE  Ways(r, e, w, roles)
BY DEF Ways, Working, Called, KeptHere, Turned, Messaged, Tasked

LEMMA CallWays ==
  ASSUME NEW r, NEW e, NEW roles, NEW w, NEW scope, scope = Who!Dispatched(r), NEW seen, seen = Who!Seen(scope),
         w = [way |-> "call", at |-> "ran", scope |-> scope, fresh |-> FALSE, seen |-> seen]
  PROVE  Ways(r, e, w, roles)
BY DEF Ways, Working, Called, KeptHere, Turned, Messaged, Tasked

LEMMA KeptWays ==
  ASSUME NEW r, NEW e, NEW roles, NEW w, NEW where \in {"prepared", "ran"}, NEW scope, NEW seen,
         where = "prepared" => scope = r, where = "ran" => scope = Who!Dispatched(r) /\ seen = Who!Seen(scope),
         w = [way |-> "kept", at |-> where, scope |-> scope, fresh |-> FALSE, seen |-> seen], e = Who!NoEnvelope
  PROVE  Ways(r, e, w, roles)
BY DEF Ways, Working, Called, KeptHere, Turned, Messaged, Tasked

LEMMA TurnWays ==
  ASSUME NEW r, NEW e, NEW roles, NEW w, NEW where \in {"queued", "ran"}, NEW scope, NEW seen,
         where = "ran" => seen = TurnSeen(e), e = TurnEnvelope(r),
         w = [way |-> "turn", at |-> where, scope |-> scope, fresh |-> FALSE, seen |-> seen]
  PROVE  Ways(r, e, w, roles)
BY DEF Ways, Working, Called, KeptHere, Turned, Messaged, Tasked

LEMMA A2aWays ==
  ASSUME NEW r, NEW e, NEW roles, NEW w, NEW where \in {"refused", "ran"}, NEW scope, NEW seen,
         where = "ran" => A2aSeen(r, seen),
         w = [way |-> "a2a", at |-> where, scope |-> scope, fresh |-> FALSE, seen |-> seen]
  PROVE  Ways(r, e, w, roles)
BY DEF Ways, Working, Called, KeptHere, Turned, Messaged, Tasked

LEMMA TaskWays ==
  ASSUME NEW r, NEW e, NEW roles, NEW w, NEW where \in {"queued", "loaded", "prepared", "ran"},
         NEW scope, NEW fresh \in BOOLEAN, NEW seen, e = TaskEnvelope(r),
         where # "queued" => TaskScope(r, scope, fresh, roles), where = "ran" => seen = Who!Seen(scope),
         w = [way |-> "task", at |-> where, scope |-> scope, fresh |-> fresh, seen |-> seen]
  PROVE  Ways(r, e, w, roles)
BY DEF Ways, Working, Called, KeptHere, Turned, Messaged, Tasked

LEMMA NoWays ==
  ASSUME NEW r, NEW e, NEW roles, NEW w, NEW where \in {"none", "refused"}, NEW scope, NEW seen, e = Who!NoEnvelope,
         w = [way |-> "none", at |-> where, scope |-> scope, fresh |-> FALSE, seen |-> seen]
  PROVE  Ways(r, e, w, roles)
BY DEF Ways, Working, Called, KeptHere, Turned, Messaged, Tasked

LEMMA CarriedInit == CatalogInit => Carried
<1> USE DEF Who!NoWork
<1>1. ASSUME Who!IsScope(request), DOMAIN accounts = Holders, envelope = Who!NoEnvelope,
             NEW where \in {"none", "refused"}, NEW scope, NEW seen,
             work = [way |-> "none", at |-> where, scope |-> scope, fresh |-> FALSE, seen |-> seen]
      PROVE  Carried
  <2>1. Ways(request, envelope, work, held) /\ Holding
    BY <1>1, NoWays DEF Holding
  <2> QED
    BY <1>1, <2>1 DEF Carried
<1>2. Who!IsScope(Who!NoScope)
  <2>1. Who!IsPerson(Who!NoOne)
    <3>1. Who!NoOne = Who!Person(Who!NoOne.shape, Who!NoOne.ids, Who!NoOne.roles, Who!NoOne.tenant)
      BY NooneIs, Nobody
    <3>2. Who!NoOne.ids = [f \in DOMAIN Who!NoOne.ids |-> Who!NoOne.ids[f]]
      BY DEF Who!NoOne
    <3> QED
      BY <3>1, <3>2, Nobody DEF Who!IsPerson
  <2>2. Who!IsContext(Who!NoContext)
    BY DEF Who!IsContext, Who!NoContext
  <2> DEFINE s == Who!NoScope
  <2>3. s = [user |-> Who!NoOne, auth |-> Who!NoOne, context |-> Who!NoContext, holder |-> "none",
             owner |-> "none", tenant |-> "none", state |-> "none"]
    BY DEF Who!NoScope
  <2> HIDE DEF s
  <2>4. Who!IsScope(s)
    BY <2>1, <2>2, <2>3 DEF Who!IsScope
  <2> QED
    BY <2>4 DEF s
<1>3. ASSUME NEW t, Who!IsScope(t) PROVE Who!IsScope(Who!Seeded(t))
  <2> DEFINE s == Who!Seeded(t)
  <2>1. s = [user |-> t.user, auth |-> t.auth, context |-> Who!NoContext, holder |-> "none",
             owner |-> t.owner, tenant |-> "none", state |-> t.state]
    <3>1. s = [Who!NoScope EXCEPT !.user = t.user, !.auth = t.auth, !.owner = t.owner, !.state = t.state]
      BY DEF Who!Seeded
    <3> HIDE DEF s
    <3> QED
      BY <3>1 DEF Who!NoScope
  <2>2. Who!IsContext(Who!NoContext) /\ Who!IsPerson(t.user) /\ Who!IsPerson(t.auth)
    BY <1>3 DEF Who!IsScope, Who!IsContext, Who!NoContext
  <2> HIDE DEF s
  <2>3. Who!IsScope(s)
    BY <2>1, <2>2 DEF Who!IsScope
  <2> QED
    BY <2>3 DEF s
<1>4. NoIdentity => Carried
  <2> SUFFICES ASSUME NoIdentity PROVE Carried
    OBVIOUS
  <2>1. request = Who!NoScope /\ DOMAIN accounts = Holders /\ envelope = Who!NoEnvelope
    BY DEF NoIdentity
  <2>2. work = [[way |-> "none", at |-> "none", scope |-> Who!NoScope, fresh |-> FALSE, seen |-> Who!Anonymous]
                  EXCEPT !.at = "refused"]
    BY DEF NoIdentity
  <2>3. work = [way |-> "none", at |-> "refused", scope |-> Who!NoScope, fresh |-> FALSE, seen |-> Who!Anonymous]
    BY <2>2
  <2> QED
    BY <1>1, <1>2, <2>1, <2>3
<1>5. Who!IdentityInit => Carried
  <2> SUFFICES ASSUME Who!IdentityInit PROVE Carried
    OBVIOUS
  <2>1. Who!IsScope(request)
    BY <1>3, IdentityAssumption DEF IdentityAssumption, Who!IdentityInit
  <2>2. work = [way |-> "none", at |-> "none", scope |-> Who!NoScope, fresh |-> FALSE, seen |-> Who!Anonymous]
        /\ DOMAIN accounts = Holders /\ envelope = Who!NoEnvelope
    BY DEF Who!IdentityInit
  <2> QED
    BY <1>1, <2>1, <2>2
<1> QED
  BY <1>4, <1>5 DEF CatalogInit

\* The invariant after a step that leaves the request as it was.
LEMMA Onward ==
  ASSUME Carried, request' = request, worker' = worker, DOMAIN accounts' = Holders, Ways(request, envelope', work', held'), Holding'
  PROVE  Carried'
<1>1. Ways(request, envelope', work', held') <=> Ways(request, envelope, work, held)'
  <2>1. Asking(request)' = Asking(request)
    BY DEF Asking
  <2>2. \A scope, fresh, roles : TaskScope(request, scope, fresh, roles)' <=> TaskScope(request, scope, fresh, roles)
    BY <2>1 DEF TaskScope
  <2> QED
    BY <2>2 DEF Ways, Tasked
<1> QED
  BY <1>1 DEF Carried

LEMMA CarriedNext == Carried /\ [Who!IdentityNext]_(Who!identityVars) => Carried'
<1> SUFFICES ASSUME Carried, [Who!IdentityNext]_(Who!identityVars) PROVE Carried'
  OBVIOUS
<1>0. /\ Who!IsScope(request) /\ DOMAIN accounts = Holders /\ Ways(request, envelope, work, held) /\ Holding
      /\ work = [way |-> work.way, at |-> work.at, scope |-> work.scope, fresh |-> work.fresh, seen |-> work.seen]
      /\ work.fresh \in BOOLEAN /\ (work.way # "task" => ~work.fresh)
      /\ work.way \in {"none", "chat", "call", "kept", "task", "turn", "a2a"}
      /\ (work.way = "none" => work.at \in {"none", "refused"} /\ envelope = Who!NoEnvelope)
  BY DEF Carried, Ways, Working
<1>k. work.way = "kept" => /\ work.at \in {"prepared", "ran"} /\ envelope = Who!NoEnvelope
                           /\ (work.at = "prepared" => work.scope = request)
  BY <1>0 DEF Ways, KeptHere
<1>t. work.way = "task" => /\ work.at \in {"queued", "loaded", "prepared", "ran"} /\ envelope = TaskEnvelope(request)
                           /\ (work.at # "queued" => TaskScope(request, work.scope, work.fresh, held))
                           /\ (work.at = "ran" => work.seen = Who!Seen(work.scope))
  BY <1>0 DEF Ways, Tasked
<1>a. work.at \in {"loaded", "prepared"} => work.way \in {"kept", "task"}
  BY <1>0 DEF Ways, Called, Turned, Messaged
<1>r. work.way = "turn" => envelope = TurnEnvelope(request)
  BY <1>0 DEF Ways, Turned
<1>1. ASSUME NEW n \in Holders, NEW roles \in Roles, Who!Change(n, roles) PROVE Carried'
  <2>1. /\ work.at # "ran" /\ accounts' = [accounts EXCEPT ![n] = roles]
        /\ held' = IF work.at \in {"loaded", "prepared"} /\ n \in Who!AskedFor THEN held \union roles ELSE held
        /\ request' = request /\ worker' = worker /\ envelope' = envelope /\ work' = work
    BY <1>1 DEF Who!Change
  <2>2. DOMAIN accounts' = Holders /\ held \subseteq held'
    BY <1>0, <2>1
  <2>3. ASSUME TaskScope(request, work.scope, work.fresh, held) PROVE TaskScope(request, work.scope, work.fresh, held')
    BY <2>2, <2>3 DEF TaskScope
  <2>4. Ways(request, envelope, work, held')
    BY <1>0, <2>3 DEF Ways, Tasked
  <2>5. ASSUME work.way = "task", work.at \in {"loaded", "prepared"}, NEW m \in Who!AskedFor
        PROVE  Who!Account(m)'.roles \subseteq held'
    <3>1. Who!Account(m).roles \subseteq held
      BY <1>0, <2>5 DEF Holding
    <3>2. CASE m = n
      <4>1. Who!Account(m)' = Who!Named(n, roles)
        BY <1>0, <2>1, <3>2 DEF Who!Account
      <4>2. Who!Account(m)'.roles = roles
        BY <4>1, NamedIs
      <4> QED
        BY <2>1, <2>5, <3>2, <4>2
    <3>3. CASE m # n
      <4>1. Who!Account(m)' = Who!Account(m)
        BY <1>0, <2>1, <3>3 DEF Who!Account
      <4> QED
        BY <2>2, <3>1, <4>1
    <3> QED
      BY <3>2, <3>3
  <2>6. Holding'
    BY <2>1, <2>5 DEF Holding, Who!AskedFor
  <2> QED
    BY <2>1, <2>2, <2>4, <2>6, Onward
<1>2. CASE Who!Chat
  <2>1. /\ work = Who!NoWork /\ UNCHANGED <<request, worker, accounts, envelope, held>>
        /\ work' = [Who!NoWork EXCEPT !.way = "chat", !.at = "ran", !.scope = request, !.seen = Who!Seen(request)]
    BY <1>2 DEF Who!Chat
  <2> DEFINE seen == Who!Seen(request)
  <2>s. work' = [Who!NoWork EXCEPT !.way = "chat", !.at = "ran", !.scope = request, !.seen = seen] /\ seen = Who!Seen(request)
    BY <2>1
  <2> HIDE DEF seen
  <2>2. work' = [way |-> "chat", at |-> "ran", scope |-> request, fresh |-> FALSE, seen |-> seen]
    BY <2>s DEF Who!NoWork
  <2>3. Ways(request, envelope', work', held') /\ Holding'
    BY <2>s, <2>2, ChatWays DEF Holding
  <2> QED
    BY <1>0, <2>1, <2>3, Onward
<1>13. CASE Who!Call
  <2> DEFINE scope == Who!Dispatched(request)
             seen == Who!Seen(scope)
  <2>1. /\ work = Who!NoWork /\ UNCHANGED <<request, worker, accounts, envelope, held>>
        /\ work' = [Who!NoWork EXCEPT !.way = "call", !.at = "ran", !.scope = scope, !.seen = seen]
        /\ scope = Who!Dispatched(request) /\ seen = Who!Seen(scope)
    BY <1>13 DEF Who!Call
  <2> HIDE DEF scope, seen
  <2>2. work' = [way |-> "call", at |-> "ran", scope |-> scope, fresh |-> FALSE, seen |-> seen]
    BY <2>1 DEF Who!NoWork
  <2>3. Ways(request, envelope', work', held') /\ Holding'
    BY <2>1, <2>2, CallWays DEF Holding
  <2> QED
    BY <1>0, <2>1, <2>3, Onward
<1>3. CASE Who!CallInProcess
  <2>1. /\ work = Who!NoWork /\ UNCHANGED <<request, worker, accounts, envelope, held>>
        /\ work' = [Who!NoWork EXCEPT !.way = "kept", !.at = "prepared", !.scope = request]
    BY <1>3 DEF Who!CallInProcess
  <2>2. work' = [way |-> "kept", at |-> "prepared", scope |-> request, fresh |-> FALSE, seen |-> Who!Anonymous]
    BY <2>1 DEF Who!NoWork
  <2>3. envelope' = Who!NoEnvelope
    BY <1>0, <2>1 DEF Who!NoWork
  <2>4. Ways(request, envelope', work', held') /\ Holding'
    BY <2>2, <2>3, KeptWays DEF Holding
  <2> QED
    BY <1>0, <2>1, <2>4, Onward
<1>4. CASE Who!Submit
  <2>1. /\ work = Who!NoWork /\ UNCHANGED <<request, worker, accounts, held>>
        /\ work' = [Who!NoWork EXCEPT !.way = "task", !.at = "queued"]
        /\ envelope' = [owner |-> Who!Owner(request), snapshot |-> Who!Snapshot(request, Who!Owner(request))]
    BY <1>4 DEF Who!Submit
  <2>2. work' = [way |-> "task", at |-> "queued", scope |-> Who!NoScope, fresh |-> FALSE, seen |-> Who!Anonymous]
    BY <2>1 DEF Who!NoWork
  <2>3. envelope' = TaskEnvelope(request)
    BY <2>1 DEF TaskEnvelope
  <2>4. Ways(request, envelope', work', held')
    BY <2>2, <2>3, TaskWays
  <2>5. Holding'
    BY <2>2 DEF Holding
  <2> QED
    BY <1>0, <2>1, <2>4, <2>5, Onward
<1>5. CASE Who!Load
  <2> DEFINE w == Who!WorkerScope(envelope, worker.imports)
             known == IF worker.loader = "has" /\ envelope.owner # "none" THEN Who!Account(envelope.owner) ELSE Who!NoOne
             user == Who!Account(envelope.owner)
             roles == UNION {Who!Account(n).roles : n \in Who!AskedFor}
  <2>1. /\ work.way = "task" /\ work.at = "queued" /\ UNCHANGED <<request, worker, accounts, envelope>>
        /\ work' = IF known # Who!NoOne
                   THEN [work EXCEPT !.at = "prepared", !.scope = [w EXCEPT !.user = known, !.holder = "none"],
                                     !.fresh = TRUE]
                   ELSE [work EXCEPT !.at = "loaded", !.scope = w, !.fresh = FALSE]
        /\ held' = roles
    BY <1>5 DEF Who!Load
  <2>2. envelope = TaskEnvelope(request) /\ envelope.owner = Who!Owner(request)
    BY <1>t, <2>1 DEF TaskEnvelope
  <2>u. user.roles \subseteq roles
    BY DEF Who!AskedFor
  <2>4. Holding'
    <3>1. \A n : Who!Account(n)' = Who!Account(n)
      BY <2>1 DEF Who!Account
    <3>2. Who!AskedFor' = Who!AskedFor
      BY <2>1 DEF Who!AskedFor
    <3> QED
      BY <2>1, <3>1, <3>2 DEF Holding
  <2> HIDE DEF w, known, roles
  <2>3. TaskScope(request, w, FALSE, roles)
    BY <1>0, <2>2, Loading DEF w, TaskEnvelope
  <2>5. CASE known # Who!NoOne
    <3> DEFINE next == [w EXCEPT !.user = known, !.holder = "none"]
    <3>1. known = user
      BY <2>5 DEF known
    <3>2. /\ user = Who!Person(user.shape, user.ids, user.roles, user.tenant) /\ user.shape = "mapping"
          /\ "id" \in DOMAIN user.ids /\ user.ids["id"] \in Asking(request) \ {"none"}
      BY <2>2, <2>5, <3>1, Accounts DEF Asking
    <3>r. held' = roles /\ user.roles \subseteq roles
      BY <2>1, <2>u
    <3>s. TaskScope(request, w, FALSE, roles)
      BY <2>3
    <3> HIDE DEF user
    <3>3. next = [w EXCEPT !.user = user, !.holder = "none"]
      BY <3>1
    <3> HIDE DEF next
    <3>4. TaskScope(request, next, TRUE, held')
      BY <3>r, <3>s, <3>2, <3>3, Replacing
    <3>5. work' = [work EXCEPT !.at = "prepared", !.scope = next, !.fresh = TRUE]
      BY <2>1, <2>5 DEF next
    <3>6. work' = [way |-> "task", at |-> "prepared", scope |-> next, fresh |-> TRUE, seen |-> work.seen]
      BY <1>0, <2>1, <3>5
    <3>7. Ways(request, envelope', work', held')
      BY <2>1, <2>2, <3>4, <3>6, TaskWays
    <3> QED
      BY <1>0, <2>1, <2>4, <3>7, Onward
  <2>6. CASE known = Who!NoOne
    <3>1. work' = [work EXCEPT !.at = "loaded", !.scope = w, !.fresh = FALSE]
      BY <2>1, <2>6
    <3>2. work' = [way |-> "task", at |-> "loaded", scope |-> w, fresh |-> FALSE, seen |-> work.seen]
      BY <1>0, <2>1, <3>1
    <3>3. Ways(request, envelope', work', held')
      BY <2>1, <2>2, <2>3, <3>2, TaskWays
    <3> QED
      BY <1>0, <2>1, <2>4, <3>3, Onward
  <2> QED
    BY <2>5, <2>6
<1>6. CASE Who!Prepare
  <2> DEFINE resolved == IF worker.dependency \in {"declared", "unused"} THEN Who!Account(envelope.owner) ELSE Who!NoOne
             merges == worker.dependency = "declared" /\ work.scope.user.shape = "proxy" /\ work.scope.holder = "none"
             user == IF merges THEN Who!Merged(work.scope.user, resolved, envelope.owner) ELSE resolved
             next == IF merges THEN [work.scope EXCEPT !.user = Who!Merged(work.scope.user, resolved, envelope.owner)]
                     ELSE [work.scope EXCEPT !.user = resolved, !.holder = "none"]
  <2>1. /\ work.way = "task" /\ work.at = "loaded" /\ UNCHANGED <<request, worker, accounts, envelope, held>>
        /\ work' = IF resolved = Who!NoOne THEN [work EXCEPT !.at = "prepared"]
                   ELSE [work EXCEPT !.at = "prepared", !.fresh = TRUE, !.scope = next]
    <3>1. /\ work.way # "kept" /\ work.at = "loaded" /\ UNCHANGED <<request, worker, accounts, envelope, held>>
          /\ work' = IF resolved = Who!NoOne THEN [work EXCEPT !.at = "prepared"]
                     ELSE [work EXCEPT !.at = "prepared", !.fresh = TRUE, !.scope = next]
      BY <1>6, <1>k DEF Who!Prepare
    <3> HIDE DEF next, resolved
    <3> QED
      BY <1>a, <3>1
  <2>2. /\ TaskScope(request, work.scope, work.fresh, held) /\ envelope = TaskEnvelope(request)
        /\ envelope.owner = Who!Owner(request) /\ Who!Account(envelope.owner).roles \subseteq held
    BY <1>0, <1>t, <2>1 DEF Holding, TaskEnvelope, Who!AskedFor
  <2>3. Holding'
    <3>1. \A n : Who!Account(n)' = Who!Account(n)
      BY <2>1 DEF Who!Account
    <3>2. Who!AskedFor' = Who!AskedFor
      BY <2>1 DEF Who!AskedFor
    <3> QED
      BY <1>0, <2>1, <3>1, <3>2 DEF Holding
  <2>4. CASE resolved = Who!NoOne
    <3>1. work' = [work EXCEPT !.at = "prepared"]
      BY <2>1, <2>4
    <3>2. work' = [way |-> "task", at |-> "prepared", scope |-> work.scope, fresh |-> work.fresh, seen |-> work.seen]
      BY <1>0, <2>1, <3>1
    <3>3. Ways(request, envelope', work', held')
      BY <1>0, <2>1, <2>2, <3>2, TaskWays
    <3> QED
      BY <1>0, <2>1, <2>3, <3>3, Onward
  <2>5. CASE resolved # Who!NoOne
    <3>1. /\ resolved = Who!Person(resolved.shape, resolved.ids, resolved.roles, resolved.tenant)
          /\ resolved.shape = "mapping" /\ DOMAIN resolved.ids = {"id"}
          /\ resolved.ids["id"] = Who!Owner(request) /\ Who!Owner(request) # "none" /\ resolved.roles \subseteq held
      BY <2>2, <2>5, Accounts
    <3>2. ScopeParts(work.scope) /\ work.scope.user = Who!Person(work.scope.user.shape, work.scope.user.ids,
                                                                 work.scope.user.roles, work.scope.user.tenant)
      BY <2>2 DEF TaskScope
    <3>m. work.scope.user.shape = "proxy" => Who!Merged(work.scope.user, resolved, envelope.owner) =
            Who!Person("proxy",
                       [f \in DOMAIN work.scope.user.ids \union DOMAIN Who!Default(resolved.ids, envelope.owner) |->
                          IF f \in DOMAIN Who!Default(resolved.ids, envelope.owner)
                          THEN Who!Default(resolved.ids, envelope.owner)[f] ELSE work.scope.user.ids[f]],
                       resolved.roles, work.scope.user.tenant)
      <4> DEFINE old == work.scope.user
                 more == Who!Default(resolved.ids, envelope.owner)
                 ids == [f \in DOMAIN old.ids \union DOMAIN more |-> IF f \in DOMAIN more THEN more[f] ELSE old.ids[f]]
                 merged == Who!Merged(old, resolved, envelope.owner)
      <4>1. merged = [old EXCEPT !.ids = ids, !.roles = resolved.roles]
        BY DEF Who!Merged
      <4>2. old = Who!Person(old.shape, old.ids, old.roles, old.tenant)
        BY <3>2
      <4> HIDE DEF merged, ids, old, resolved
      <4>3. merged = Who!Person(old.shape, ids, resolved.roles, old.tenant)
        BY <4>1, <4>2 DEF Who!Person
      <4> QED
        BY <4>3 DEF merged, ids, old
    <3>3. /\ user = Who!Person(user.shape, user.ids, user.roles, user.tenant) /\ user.roles \subseteq held
          /\ user.shape \notin {"none", "text"} /\ "id" \in DOMAIN user.ids /\ user.ids["id"] = Who!Owner(request)
      <4>1. CASE merges
        <5> DEFINE old == work.scope.user
                   more == Who!Default(resolved.ids, envelope.owner)
                   ids == [f \in DOMAIN old.ids \union DOMAIN more |-> IF f \in DOMAIN more THEN more[f] ELSE old.ids[f]]
        <5>1. user = Who!Person("proxy", ids, resolved.roles, old.tenant)
          BY <3>m, <4>1
        <5>2. "id" \in DOMAIN more /\ more["id"] = Who!Owner(request)
          BY <2>2, <3>1 DEF Who!Default
        <5>3. "id" \in DOMAIN ids /\ ids["id"] = Who!Owner(request)
          BY <5>2
        <5>4. resolved.roles \subseteq held
          BY <3>1
        <5> HIDE DEF user, ids, resolved, old
        <5>5. user.shape = "proxy" /\ user.ids = ids /\ user.roles = resolved.roles /\ user.tenant = old.tenant
          BY <5>1, Parts
        <5> QED
          BY <5>1, <5>3, <5>4, <5>5
      <4>2. CASE ~merges
        BY <3>1, <4>2
      <4> QED
        BY <4>1, <4>2
    <3>4. work' = [work EXCEPT !.at = "prepared", !.fresh = TRUE, !.scope = next]
      BY <2>1, <2>5
    <3>5. next = [work.scope EXCEPT !.user = user, !.holder = "none"]
      <4>1. CASE merges
        <5>1. next = [work.scope EXCEPT !.user = user] /\ work.scope.holder = "none"
          BY <4>1
        <5> HIDE DEF user, next
        <5> QED
          BY <3>2, <5>1, Untouched
      <4>2. CASE ~merges
        BY <4>2
      <4> QED
        BY <4>1, <4>2
    <3> HIDE DEF user
    <3> HIDE DEF next, resolved, merges
    <3>6. TaskScope(request, next, TRUE, held)
      BY <2>2, <3>1, <3>3, <3>5, Replacing DEF Asking
    <3>7. work' = [way |-> "task", at |-> "prepared", scope |-> next, fresh |-> TRUE, seen |-> work.seen]
      BY <1>0, <2>1, <3>4
    <3>8. Ways(request, envelope', work', held')
      BY <2>1, <2>2, <3>6, <3>7, TaskWays
    <3> QED
      BY <1>0, <2>1, <2>3, <3>8, Onward
  <2> QED
    BY <2>4, <2>5
<1>7. CASE Who!Run
  <2> DEFINE id == Who!Id(work.scope.user)
             resolved == IF worker.dependency \in {"declared", "unfit"} THEN Who!Account(id) ELSE Who!NoOne
             replaced == resolved # Who!NoOne /\ work.scope.user.shape = "proxy" /\ work.scope.holder = "none"
             before == IF replaced THEN [work.scope EXCEPT !.user = resolved] ELSE work.scope
             next == Who!Dispatched(before)
  <2>1. /\ work.at = "prepared" /\ UNCHANGED <<request, worker, accounts, envelope, held>>
        /\ work' = [work EXCEPT !.at = "ran", !.scope = next, !.seen = Who!Seen(next), !.fresh = @ \/ replaced]
    BY <1>7 DEF Who!Run
  <2>2. work' = [way |-> work.way, at |-> "ran", scope |-> next, fresh |-> work.fresh \/ replaced, seen |-> Who!Seen(next)]
    <3> DEFINE seen == Who!Seen(next)
               fresh == work.fresh \/ replaced
    <3>1. work' = [work EXCEPT !.at = "ran", !.scope = next, !.seen = seen, !.fresh = fresh]
      BY <2>1
    <3> HIDE DEF seen, next, fresh
    <3>2. work' = [way |-> work.way, at |-> "ran", scope |-> next, fresh |-> fresh, seen |-> seen]
      BY <1>0, <3>1
    <3> QED
      BY <3>2 DEF seen, fresh
  <2>5. Holding'
    BY <2>2 DEF Holding
  <2>3. CASE work.way = "kept"
    <3>1. envelope = Who!NoEnvelope /\ work.scope = request
      BY <1>k, <2>1, <2>3
    <3>2. request.user.shape # "proxy"
      BY <1>0 DEF Who!IsScope, Who!IsPerson
    <3>3. ~replaced /\ before = request /\ next = Who!Dispatched(request) /\ (work.fresh \/ replaced) = FALSE
      BY <1>0, <2>3, <3>1, <3>2
    <3> DEFINE seen == Who!Seen(next)
    <3>4. work' = [way |-> "kept", at |-> "ran", scope |-> next, fresh |-> FALSE, seen |-> seen]
      BY <2>2, <2>3, <3>3
    <3>5. next = Who!Dispatched(request) /\ seen = Who!Seen(next)
      BY <3>3
    <3> HIDE DEF next, replaced, seen, before
    <3>6. Ways(request, envelope', work', held')
      BY <2>1, <3>1, <3>4, <3>5, KeptWays
    <3> QED
      BY <1>0, <2>1, <2>5, <3>6, Onward
  <2>4. CASE work.way = "task"
    <3>1. /\ TaskScope(request, work.scope, work.fresh, held) /\ envelope = TaskEnvelope(request)
          /\ envelope.owner = Who!Owner(request) /\ \A n \in Who!AskedFor : Who!Account(n).roles \subseteq held
      BY <1>0, <1>t, <2>1, <2>4 DEF Holding, TaskEnvelope
    <3>2. TaskScope(request, before, work.fresh \/ replaced, held)
      <4>1. CASE replaced
        <5>1. /\ resolved = Who!Person(resolved.shape, resolved.ids, resolved.roles, resolved.tenant)
              /\ resolved.shape = "mapping" /\ DOMAIN resolved.ids = {"id"}
              /\ resolved.ids["id"] = id /\ id # "none"
          BY <4>1, Accounts
        <5>2. id \in {Who!Owner(request), Who!Id(request.user)}
          BY <3>1, <5>1 DEF TaskScope
        <5>3. id \in Asking(request) /\ id \in Who!AskedFor
          BY <3>1, <4>1, <5>2 DEF Asking, Who!AskedFor
        <5>4. resolved.roles \subseteq held
          BY <3>1, <4>1, <5>3
        <5>5. before = [work.scope EXCEPT !.user = resolved, !.holder = "none"]
          <6>1. work.scope.holder = "none" /\ before = [work.scope EXCEPT !.user = resolved] /\ ScopeParts(work.scope)
            BY <3>1, <4>1 DEF TaskScope
          <6> HIDE DEF before, resolved
          <6> QED
            BY <6>1, Untouched
        <5>6. (work.fresh \/ replaced) = TRUE
          BY <1>0, <4>1
        <5> HIDE DEF before, resolved, replaced, id
        <5>7. TaskScope(request, before, TRUE, held)
          BY <3>1, <5>1, <5>3, <5>4, <5>5, Replacing
        <5> QED
          BY <5>6, <5>7
      <4>2. CASE ~replaced
        <5>1. before = work.scope /\ (work.fresh \/ replaced) = work.fresh
          BY <1>0, <4>2
        <5> QED
          BY <3>1, <5>1
      <4> QED
        BY <4>1, <4>2
    <3> DEFINE fresh == work.fresh \/ replaced
               seen == Who!Seen(next)
    <3>3. fresh \in BOOLEAN
      OBVIOUS
    <3>4. /\ work' = [way |-> "task", at |-> "ran", scope |-> next, fresh |-> fresh, seen |-> seen]
          /\ seen = Who!Seen(next) /\ next = Who!Dispatched(before) /\ TaskScope(request, before, fresh, held)
      BY <2>2, <2>4, <3>2
    <3> HIDE DEF before
    <3> HIDE DEF next, fresh, seen
    <3>5. envelope' = TaskEnvelope(request) /\ held' = held
      BY <2>1, <3>1
    <3>7. TaskScope(request, next, fresh, held)
      BY <3>4, TaskDispatched
    <3>6. Ways(request, envelope', work', held')
      BY <3>3, <3>4, <3>5, <3>7, TaskWays
    <3> QED
      BY <1>0, <2>1, <2>5, <3>6, Onward
  <2> QED
    BY <1>a, <2>1, <2>3, <2>4
<1>8. CASE Who!Resume
  <2>1. /\ work.way = "task" /\ UNCHANGED <<request, worker, accounts, envelope, held>>
        /\ work' = [work EXCEPT !.at = "queued", !.scope = Who!NoScope, !.fresh = FALSE, !.seen = Who!Anonymous]
    BY <1>8 DEF Who!Resume
  <2> DEFINE nobody == Who!Anonymous
             no == Who!NoScope
  <2>2. work' = [work EXCEPT !.at = "queued", !.scope = no, !.fresh = FALSE, !.seen = nobody]
    BY <2>1
  <2> HIDE DEF nobody, no
  <2>3. work' = [way |-> "task", at |-> "queued", scope |-> no, fresh |-> FALSE, seen |-> nobody]
    BY <1>0, <2>1, <2>2
  <2>4. Ways(request, envelope', work', held')
    BY <1>t, <2>1, <2>3, TaskWays
  <2>5. Holding'
    BY <2>3 DEF Holding
  <2> QED
    BY <1>0, <2>1, <2>4, <2>5, Onward
<1>9. CASE Who!EnqueueTurn
  <2>1. /\ work = Who!NoWork /\ UNCHANGED <<request, worker, accounts, held>>
        /\ work' = [Who!NoWork EXCEPT !.way = "turn", !.at = "queued"]
        /\ envelope' = TurnEnvelope(request)
    BY <1>9 DEF Who!EnqueueTurn, TurnEnvelope
  <2>2. work' = [way |-> "turn", at |-> "queued", scope |-> Who!NoScope, fresh |-> FALSE, seen |-> Who!Anonymous]
    BY <2>1 DEF Who!NoWork
  <2>3. Ways(request, envelope', work', held')
    BY <2>1, <2>2, TurnWays
  <2>4. Holding'
    BY <2>2 DEF Holding
  <2> QED
    BY <1>0, <2>1, <2>3, <2>4, Onward
<1>10. CASE Who!RunTurn
  <2> DEFINE seen == TurnSeen(envelope)
  <2>1. work.way = "turn" /\ UNCHANGED <<request, worker, accounts, envelope, held>> /\ work' = [work EXCEPT !.at = "ran", !.seen = seen]
    BY <1>10 DEF Who!RunTurn, TurnSeen
  <2>s. seen = TurnSeen(envelope)
    OBVIOUS
  <2> HIDE DEF seen
  <2>2. work' = [way |-> "turn", at |-> "ran", scope |-> work.scope, fresh |-> FALSE, seen |-> seen]
    BY <1>0, <2>1
  <2>3. Ways(request, envelope', work', held')
    BY <1>r, <2>1, <2>s, <2>2, TurnWays
  <2>4. Holding'
    BY <2>2 DEF Holding
  <2> QED
    BY <1>0, <2>1, <2>3, <2>4, Onward
<1>11. ASSUME NEW tenant \in {"none", "t"}, Who!Send(tenant) PROVE Carried'
  <2> DEFINE name == Who!UserName(request)
             owner == Who!A2aOwner(name, tenant)
             seen == IF owner = <<>> THEN Who!Anonymous
                     ELSE [user |-> Who!Named(owner[2], {}), roles |-> {}, tenant |-> owner[1]]
  <2>1. /\ work = Who!NoWork /\ UNCHANGED <<request, worker, accounts, envelope, held>>
        /\ work' = IF Who!Authenticated(request) /\ name = "none"
                   THEN [Who!NoWork EXCEPT !.way = "a2a", !.at = "refused"]
                   ELSE [Who!NoWork EXCEPT !.way = "a2a", !.at = "ran", !.seen = seen]
    BY <1>11 DEF Who!Send
  <2>2. CASE Who!Authenticated(request) /\ name = "none"
    <3>1. work' = [way |-> "a2a", at |-> "refused", scope |-> Who!NoScope, fresh |-> FALSE, seen |-> Who!Anonymous]
      BY <2>1, <2>2 DEF Who!NoWork
    <3>2. Ways(request, envelope', work', held') /\ Holding'
      BY <3>1, A2aWays DEF Holding
    <3> QED
      BY <1>0, <2>1, <3>2, Onward
  <2>3. CASE ~(Who!Authenticated(request) /\ name = "none")
    <3>1. seen.roles = {}
      <4>1. Who!Anonymous.roles = {}
        <5>1. Who!RolesOf(Who!NoScope) = {}
          BY WhoseRoles, Nobody DEF Who!NoScope
        <5> QED
          BY <5>1 DEF Who!Anonymous, Who!Seen
      <4> QED
        BY <4>1
    <3>2. ASSUME request.user # Who!NoOne PROVE Who!OwnerKey(seen)[2] = Who!OwnerKey(Who!Seen(request))[2]
      <4>1. name # "none"
        BY <2>3, <3>2 DEF Who!Authenticated
      <4>2. owner # <<>> /\ owner[2] = name
        BY <4>1, <1>11 DEF Who!A2aOwner
      <4> HIDE DEF owner
      <4>3. seen.user = Who!Named(name, {}) /\ Who!UserId(seen.user) = name
        BY <4>2, NamedIs
      <4>4. Who!UserId(Who!UserOf(request)) = name
        BY <1>0, <3>2, <4>1, A2aUser
      <4> HIDE DEF seen, name
      <4>5. Who!OwnerKey(seen)[2] = name
        BY <4>1, <4>3 DEF Who!OwnerKey
      <4>6. Who!OwnerKey(Who!Seen(request))[2] = name
        BY <4>1, <4>4, KeyIs
      <4> QED
        BY <4>5, <4>6
    <3>3. work' = [Who!NoWork EXCEPT !.way = "a2a", !.at = "ran", !.seen = seen]
      BY <2>1, <2>3
    <3> HIDE DEF seen
    <3>4. work' = [way |-> "a2a", at |-> "ran", scope |-> Who!NoScope, fresh |-> FALSE, seen |-> seen]
      BY <3>3 DEF Who!NoWork
    <3>5. A2aSeen(request, seen)
      BY <3>1, <3>2 DEF A2aSeen
    <3>6. Ways(request, envelope', work', held') /\ Holding'
      BY <3>4, <3>5, A2aWays DEF Holding
    <3> QED
      BY <1>0, <2>1, <3>6, Onward
  <2> QED
    BY <2>2, <2>3
<1>12. CASE UNCHANGED Who!identityVars
  <2>1. UNCHANGED <<request, worker, accounts, changes, envelope, work, held>>
    BY <1>12 DEF Who!identityVars
  <2>2. Holding'
    <3>1. \A n : Who!Account(n)' = Who!Account(n)
      BY <2>1 DEF Who!Account
    <3>2. Who!AskedFor' = Who!AskedFor
      BY <2>1 DEF Who!AskedFor
    <3> QED
      BY <1>0, <2>1, <3>1, <3>2 DEF Holding
  <2>3. Ways(request, envelope', work', held')
    BY <1>0, <2>1
  <2> QED
    BY <1>0, <2>1, <2>2, <2>3, Onward
<1> QED
  BY <1>1, <1>2, <1>3, <1>4, <1>5, <1>6, <1>7, <1>8, <1>9, <1>10, <1>11, <1>12, <1>13 DEF Who!IdentityNext

LEMMA CatalogIdentity == CatalogNext => [Who!IdentityNext]_(Who!identityVars)
BY DEF CatalogNext, identityVars, Who!identityVars

LEMMA CarriedAlways == CatalogSpec => []Carried
<1>1. Carried /\ [CatalogNext]_catalogVars => Carried'
  BY CarriedNext, CatalogIdentity DEF catalogVars, identityVars, Who!identityVars
<1> QED
  BY CarriedInit, <1>1, PTL DEF CatalogSpec

\* Work done later has no more rights than its request had, whatever the scopes, the workers
\* and the changes of accounts (mcp/tasks.py:788).
THEOREM RightsKept == CatalogSpec => []NoMoreRights
<1>1. Carried => NoMoreRights
  BY CarriedKept DEF NoMoreRights
<1> QED
  BY CarriedAlways, <1>1, PTL

\* Whichever way work takes it is done for the owner who asked for it, a tool's without the
\* tenant that the scope names, but for the cases that Renamed, ToldAside and Unlike name
\* (core/context.py:97, mcp/executor.py:870).
THEOREM OwnerKept == CatalogSpec => []SameOwner
<1>1. Carried => SameOwner
  BY CarriedKept DEF SameOwner
<1> QED
  BY CarriedAlways, <1>1, PTL

-----------------------------------------------------------------------------
(* What a client reads of a skill: Skills *)

FilesKnown(files) ==
  \A n \in DOMAIN files : \A p \in DOMAIN files[n] : p \in Seq(STRING) /\ files[n][p] \in Skill!AllContents

\* What a source holds, on the disk, of its own, and in the manifests.
SourcesKept ==
  /\ FilesKnown(disk)
  /\ \A n \in DOMAIN custom : \A p \in DOMAIN custom[n] : p \in Seq(STRING) /\ custom[n][p].content \in Skill!AllContents
  /\ FilesKnown([n \in DOMAIN loaded |-> loaded[n].files])
  /\ DOMAIN loaded \subseteq DOMAIN disk

FrontsFit == \A n \in DOMAIN loaded : loaded[n].front = loaded[n].files[Skill!Main].front

\* What the loader holds is from the disk; as long as no one edited it is what is there.
LoaderKept ==
  /\ DOMAIN loader = {"at", "todo", "front", "paths", "bytes", "files", "edited"}
  /\ edits \in Nat
  /\ Skill!Loading => loader.todo \in Seq(DOMAIN disk)
  /\ loader.at \in {"walk", "files"} =>
       /\ loader.todo # <<>>
       /\ edits = 0 => loader.front = disk[Skill!Current][Skill!Main].front
  /\ loader.at = "files" =>
       \A p \in DOMAIN loader.files :
         /\ p \in Seq(STRING) /\ loader.files[p] \in Skill!AllContents
         /\ edits = 0 => loader.files[p] = disk[Skill!Current][p]
  /\ (Skill!Loading /\ edits = 0) \/ (loader.at = "serving" /\ ~loader.edited) => FrontsFit

\* What a client was told, what is looked for and what was answered agree with the manifests.
Manifested(m) ==
  /\ m.from = "disk" =>
       m.name \in DOMAIN loaded /\ m.path \in DOMAIN loaded[m.name].files /\ m.manifest = loaded[m.name].files[m.path]
  /\ m.from # "disk" => m.name \notin DOMAIN loaded

ToldKept ==
  \A t \in told : t.name \in DOMAIN loaded =>
    t.path \in DOMAIN loaded[t.name].files /\ t.content = loaded[t.name].files[t.path]
MatchKept == match # Skill!NoMatch => Manifested(match) /\ match.manifest \in Skill!AllContents
ReadKept ==
  /\ read.outcome = "served" => read.data = read.match.manifest /\ Manifested(read.match)
  /\ read.fresh => read.outcome = "served"
  /\ read.outcome = "notFound" /\ read.match.name \in DOMAIN loaded =>
       read.match.path \notin DOMAIN loaded[read.match.name].files
AskedKept ==
  /\ Skill!Loading => told = {} /\ match = Skill!NoMatch /\ read = Skill!NoAnswer
  /\ ToldKept /\ MatchKept /\ ReadKept

FilesKept == SourcesKept /\ LoaderKept /\ AskedKept

LEMMA Nested ==
  ASSUME NEW p \in Seq(STRING), NEW i \in 0..(Len(p) - 1)
  PROVE  Skill!IsStrictPrefix(SubSeq(p, 1, i), p) /\ Len(SubSeq(p, 1, i)) = i
<1>1. Len(p) \in Nat /\ i \in Nat /\ i < Len(p)
  OBVIOUS
<1> DEFINE q == SubSeq(p, 1, i)
<1>2. q \in Seq(STRING) /\ Len(q) = i
  BY <1>1
<1>3. SubSeq(q, 1, i) = SubSeq(p, 1, i)
  BY <1>1, <1>2
<1> HIDE DEF q
<1>4. q # p
  BY <1>1, <1>2
<1> QED
  BY <1>1, <1>2, <1>3, <1>4 DEF Skill!IsStrictPrefix, Skill!IsPrefix, q

LEMMA DirectoriesReached == SourcesKept => Skill!DirectoriesReach
<1> SUFFICES ASSUME SourcesKept, NEW n \in Skill!Named, NEW p \in DOMAIN Skill!Files(n), NEW i \in 0..(Len(p) - 1),
                    SubSeq(p, 1, i) \notin DOMAIN Skill!Files(n)
             PROVE  p[Len(SubSeq(p, 1, i)) + 1] \in Skill!Directory(n, SubSeq(p, 1, i))
  BY DEF Skill!DirectoriesReach
<1>1. p \in Seq(STRING)
  BY DEF SourcesKept, FilesKnown, Skill!Files, Skill!Named
<1>2. Skill!IsStrictPrefix(SubSeq(p, 1, i), p)
  BY <1>1, Nested
<1> DEFINE q == SubSeq(p, 1, i)
<1> HIDE DEF q
<1>3. p \in {r \in DOMAIN Skill!Files(n) : Skill!IsStrictPrefix(q, r)}
  BY <1>2 DEF q
<1>4. Skill!Directory(n, q) = {r[Len(q) + 1] : r \in {r \in DOMAIN Skill!Files(n) : Skill!IsStrictPrefix(q, r)}}
  BY DEF Skill!Directory, q
<1> QED
  BY <1>3, <1>4 DEF q

LEMMA FilesServed == FilesKept => ServedAsListed
<1> SUFFICES ASSUME FilesKept PROVE Skill!ServedAsListed
  BY DEF ServedAsListed
<1>1. Skill!FrontmatterFits
  BY DEF FilesKept, LoaderKept, FrontsFit, Skill!FrontmatterFits
<1>2. Skill!DirectoriesReach
  BY DirectoriesReached DEF FilesKept
<1>3. ReadKept /\ ToldKept
  BY DEF FilesKept, AskedKept
<1> QED
  BY <1>1, <1>2, <1>3 DEF Skill!ServedAsListed, ReadKept, ToldKept, Manifested

LEMMA Sequenced ==
  ASSUME NEW S, IsFiniteSet(S)
  PROVE  Skill!SetToSeq(S) \in Seq(S)
<1>0. Skill!Cardinality(S) = Cardinality(S)
  BY DEF Skill!Cardinality, Cardinality
<1> DEFINE n == Cardinality(S)
<1>1. PICK g : g \in Bijection(1..n, S) /\ n \in Nat
  BY FS_CardinalityType DEF ExistsBijection
<1>2. g \in [1..n -> S] /\ Skill!IsInjective(g)
  BY <1>1 DEF Bijection, Injection, IsInjective, Skill!IsInjective
<1> DEFINE q == Skill!SetToSeq(S)
<1>3. q = CHOOSE f \in [1..n -> S] : Skill!IsInjective(f)
  BY <1>0 DEF Skill!SetToSeq
<1>4. q \in [1..n -> S]
  BY <1>2, <1>3
<1> HIDE DEF q, n
<1>5. q \in Seq(S)
  BY <1>1, <1>4
<1> QED
  BY <1>5 DEF q

LEMMA OnDisk ==
  ASSUME NEW d \in Disk, NEW n \in DOMAIN d, NEW p \in DOMAIN d[n]
  PROVE  p \in Seq(STRING) /\ d[n][p] \in Skill!AllContents
<1>1. p \in Seq(STRING)
  BY FilesAssumption DEF FilesAssumption, Skill!SkillsAssumption
<1>2. d[n][p] \in Skill!ContentsOf(d)
  BY DEF Skill!ContentsOf
<1> QED
  BY <1>1, <1>2 DEF Skill!AllContents

LEMMA OfCustom ==
  ASSUME NEW d \in Customs, NEW n \in DOMAIN d, NEW p \in DOMAIN d[n]
  PROVE  p \in Seq(STRING) /\ d[n][p].content \in Skill!AllContents
<1>1. p \in Seq(STRING)
  BY FilesAssumption DEF FilesAssumption, Skill!SkillsAssumption
<1>2. d[n][p] \in Skill!ContentsOf(d)
  BY DEF Skill!ContentsOf
<1> DEFINE own(c) == {f.content : f \in Skill!ContentsOf(c)}
<1>3. d[n][p].content \in own(d)
  BY <1>2
<1>4. \A c \in Customs : own(c) \subseteq Skill!AllContents
  BY DEF Skill!AllContents
<1> HIDE DEF own
<1> QED
  BY <1>1, <1>3, <1>4

LEMMA FilesInit == CatalogInit => FilesKept
<1>1. ASSUME NoSkills PROVE FilesKept
  <2>1. disk = Skill!None /\ custom = Skill!None /\ loaded = Skill!None /\ DOMAIN Skill!None = {}
    BY <1>1 DEF NoSkills, Skill!None
  <2>2. SourcesKept
    BY <2>1 DEF SourcesKept, FilesKnown
  <2>3. LoaderKept
    BY <1>1, <2>1, FilesAssumption DEF NoSkills, LoaderKept, FilesAssumption, Skill!SkillsAssumption, FrontsFit,
      Skill!Idle, Skill!Loading
  <2>4. AskedKept
    BY <1>1 DEF NoSkills, AskedKept, Skill!Idle, Skill!Loading, ToldKept, MatchKept, ReadKept, Skill!NoAnswer
  <2> QED
    BY <2>2, <2>3, <2>4 DEF FilesKept
<1>2. ASSUME Skill!SkillsInit PROVE FilesKept
  <2>1. disk \in Disk /\ custom \in Customs /\ loaded = Skill!None /\ DOMAIN Skill!None = {}
    BY <1>2 DEF Skill!SkillsInit, Skill!None
  <2>2. SourcesKept
    <3>1. ASSUME NEW n \in DOMAIN disk, NEW p \in DOMAIN disk[n]
          PROVE  p \in Seq(STRING) /\ disk[n][p] \in Skill!AllContents
      BY <2>1, OnDisk
    <3>2. ASSUME NEW n \in DOMAIN custom, NEW p \in DOMAIN custom[n]
          PROVE  p \in Seq(STRING) /\ custom[n][p].content \in Skill!AllContents
      BY <2>1, OfCustom
    <3> QED
      BY <2>1, <3>1, <3>2 DEF SourcesKept, FilesKnown
  <2>3. LoaderKept
    <3>1. Skill!SetToSeq(DOMAIN disk) \in Seq(DOMAIN disk)
      <4>1. IsFiniteSet(DOMAIN disk)
        BY <2>1, FilesAssumption DEF FilesAssumption, Skill!SkillsAssumption, Skill!IsFiniteSet, IsFiniteSet
      <4> QED
        BY <4>1, Sequenced
    <3>2. loader = [Skill!Idle EXCEPT !.todo = Skill!SetToSeq(DOMAIN disk)] /\ edits = 0
      BY <1>2 DEF Skill!SkillsInit
    <3> QED
      BY <2>1, <3>1, <3>2 DEF LoaderKept, FrontsFit, Skill!Idle, Skill!Loading
  <2>4. AskedKept
    BY <1>2 DEF Skill!SkillsInit, AskedKept, ToldKept, MatchKept, ReadKept, Skill!NoAnswer
  <2> QED
    BY <2>2, <2>3, <2>4 DEF FilesKept
<1> QED
  BY <1>1, <1>2 DEF CatalogInit

\* An entry of a list is what the manifest of a skill on the disk says.
LEMMA Listed ==
  ASSUME NEW t \in Skill!Entries, t.name \in DOMAIN loaded
  PROVE  t.path \in DOMAIN loaded[t.name].files /\ t.content = loaded[t.name].files[t.path]
<1>1. PICK n \in Skill!Named : \E p \in DOMAIN Skill!Files(n) :
        t = [name |-> n, path |-> p, content |-> Skill!Files(n)[p].content]
  BY DEF Skill!Entries
<1> QED
  BY <1>1 DEF Skill!Files

LEMMA FilesNext == FilesKept /\ [Skill!SkillsNext]_(Skill!skillVars) => FilesKept'
<1> SUFFICES ASSUME FilesKept, [Skill!SkillsNext]_(Skill!skillVars) PROVE FilesKept'
  OBVIOUS
<1>0. SourcesKept /\ LoaderKept /\ AskedKept
  BY DEF FilesKept
<1>1. CASE Skill!ReadFrontmatter
  <2>1. UNCHANGED <<disk, custom, edits, loaded, told, match, read>> /\ loader.at = "directory" /\ loader.todo # <<>>
    BY <1>1 DEF Skill!ReadFrontmatter
  <2>2. SourcesKept'
    BY <1>0, <2>1 DEF SourcesKept, FilesKnown
  <2>3. LoaderKept'
    <3>1. loader' \in {[loader EXCEPT !.todo = Tail(@)], [loader EXCEPT !.at = "refused"],
                       [loader EXCEPT !.at = "walk", !.front = disk[Skill!Current][Skill!Main].front]}
      BY <1>1 DEF Skill!ReadFrontmatter, Skill!Refuse
    <3>2. Tail(loader.todo) \in Seq(DOMAIN disk) /\ Skill!Loading
      BY <1>0, <2>1 DEF LoaderKept, Skill!Loading
    <3> QED
      BY <1>0, <2>1, <3>1, <3>2 DEF LoaderKept, FrontsFit, Skill!Loading, Skill!Current
  <2>4. AskedKept'
    BY <1>0, <2>1 DEF AskedKept, ToldKept, MatchKept, ReadKept, Manifested, Skill!Loading
  <2> QED
    BY <2>2, <2>3, <2>4 DEF FilesKept
<1>2. CASE Skill!CollectPaths
  <2>1. UNCHANGED <<disk, custom, edits, loaded, told, match, read>> /\ loader.at = "walk"
    BY <1>2 DEF Skill!CollectPaths
  <2>2. SourcesKept'
    BY <1>0, <2>1 DEF SourcesKept, FilesKnown
  <2>3. LoaderKept'
    <3>1. loader' \in {[loader EXCEPT !.at = "refused"],
                       [loader EXCEPT !.at = "files", !.paths = DOMAIN disk[Skill!Current], !.bytes = 0, !.files = Skill!None]}
      BY <1>2 DEF Skill!CollectPaths, Skill!Refuse
    <3>2. DOMAIN Skill!None = {}
      BY DEF Skill!None
    <3> QED
      BY <1>0, <2>1, <3>1, <3>2 DEF LoaderKept, FrontsFit, Skill!Loading, Skill!Current
  <2>4. AskedKept'
    BY <1>0, <2>1 DEF AskedKept, ToldKept, MatchKept, ReadKept, Manifested, Skill!Loading
  <2> QED
    BY <2>2, <2>3, <2>4 DEF FilesKept
<1>3. CASE Skill!ReadPath
  <2>1. UNCHANGED <<disk, custom, edits, loaded, told, match, read>> /\ loader.at = "files"
    BY <1>3 DEF Skill!ReadPath
  <2>2. SourcesKept'
    BY <1>0, <2>1 DEF SourcesKept, FilesKnown
  <2>3. LoaderKept'
    <3> DEFINE c(p) == IF p \in DOMAIN disk[Skill!Current] THEN disk[Skill!Current][p] ELSE Skill!Gone
    <3>1. PICK p : \/ loader' = [loader EXCEPT !.at = "refused"]
                   \/ c(p) # Skill!Gone /\ loader' = [loader EXCEPT !.paths = @ \ {p}, !.bytes = @ + c(p).size, !.files = Skill!With(@, p, c(p))]
      BY <1>3 DEF Skill!ReadPath, Skill!Refuse
    <3>2. CASE loader' = [loader EXCEPT !.at = "refused"]
      BY <1>0, <2>1, <3>2 DEF LoaderKept, FrontsFit, Skill!Loading
    <3>3. CASE c(p) # Skill!Gone /\ loader' = [loader EXCEPT !.paths = @ \ {p}, !.bytes = @ + c(p).size, !.files = Skill!With(@, p, c(p))]
      <4>1. Skill!Current \in DOMAIN disk
        BY <1>0, <2>1 DEF LoaderKept, Skill!Loading, Skill!Current
      <4>2. p \in DOMAIN disk[Skill!Current] /\ c(p) = disk[Skill!Current][p]
        BY <3>3
      <4>3. p \in Seq(STRING) /\ c(p) \in Skill!AllContents
        BY <1>0, <4>1, <4>2 DEF SourcesKept, FilesKnown
      <4>4. /\ DOMAIN loader' = DOMAIN loader /\ loader'.at = loader.at /\ loader'.todo = loader.todo
            /\ loader'.front = loader.front /\ loader'.edited = loader.edited
            /\ loader'.files = Skill!With(loader.files, p, c(p))
        BY <1>0, <3>3 DEF LoaderKept
      <4>5. \A q \in DOMAIN loader'.files :
              \/ q = p /\ loader'.files[q] = c(p)
              \/ q \in DOMAIN loader.files /\ loader'.files[q] = loader.files[q]
        BY <4>4 DEF Skill!With
      <4> HIDE DEF c
      <4>6. Skill!Current' = Skill!Current /\ (Skill!Loading' <=> Skill!Loading)
        BY <4>4 DEF Skill!Current, Skill!Loading
      <4> QED
        BY <1>0, <2>1, <4>2, <4>3, <4>4, <4>5, <4>6 DEF LoaderKept, FrontsFit
    <3> QED
      BY <3>1, <3>2, <3>3
  <2>4. AskedKept'
    BY <1>0, <2>1 DEF AskedKept, ToldKept, MatchKept, ReadKept, Manifested, Skill!Loading
  <2> QED
    BY <2>2, <2>3, <2>4 DEF FilesKept
<1>4. CASE Skill!FinishSkill
  <2>1. UNCHANGED <<disk, custom, edits, told, match, read>> /\ loader.at = "files"
    BY <1>4 DEF Skill!FinishSkill
  <2> DEFINE skill == [front |-> loader.front, files |-> loader.files]
  <2>2. \/ loader' = [loader EXCEPT !.at = "refused"] /\ loaded' = loaded
        \/ /\ Skill!Main \in DOMAIN loader.files
           /\ loader' = [loader EXCEPT !.at = "directory", !.todo = Tail(@)]
           /\ loaded' = Skill!With(loaded, Skill!Current, skill)
    BY <1>4 DEF Skill!FinishSkill, Skill!Refuse
  <2>3. AskedKept'
    BY <1>0, <2>1 DEF AskedKept, ToldKept, MatchKept, ReadKept, Manifested, Skill!Loading, Skill!NoAnswer
  <2>4. CASE loader' = [loader EXCEPT !.at = "refused"] /\ loaded' = loaded
    <3>1. SourcesKept'
      BY <1>0, <2>1, <2>4 DEF SourcesKept, FilesKnown
    <3>2. LoaderKept'
      BY <1>0, <2>1, <2>4 DEF LoaderKept, FrontsFit, Skill!Loading
    <3> QED
      BY <2>3, <3>1, <3>2 DEF FilesKept
  <2>5. CASE /\ Skill!Main \in DOMAIN loader.files
             /\ loader' = [loader EXCEPT !.at = "directory", !.todo = Tail(@)]
             /\ loaded' = Skill!With(loaded, Skill!Current, skill)
    <3>1. \A n \in DOMAIN loaded' : loaded'[n] = skill \/ (n \in DOMAIN loaded /\ loaded'[n] = loaded[n])
      BY <2>5 DEF Skill!With
    <3>2. skill.front = loader.front /\ skill.files = loader.files
      OBVIOUS
    <3> HIDE DEF skill
    <3>3. SourcesKept'
      <4>1. Skill!Current \in DOMAIN disk /\ DOMAIN loaded' = DOMAIN loaded \union {Skill!Current}
        BY <1>0, <2>1, <2>5 DEF LoaderKept, Skill!Loading, Skill!Current, Skill!With
      <4>2. DOMAIN loaded' \subseteq DOMAIN disk'
        BY <1>0, <2>1, <4>1 DEF SourcesKept
      <4>3. FilesKnown([n \in DOMAIN loaded |-> loaded[n].files])'
        BY <1>0, <2>1, <3>1, <3>2 DEF SourcesKept, FilesKnown, LoaderKept
      <4> QED
        BY <1>0, <2>1, <4>2, <4>3 DEF SourcesKept, FilesKnown
    <3>4. FrontsFit /\ edits = 0 => FrontsFit'
      BY <1>0, <2>1, <2>5, <3>1, <3>2 DEF LoaderKept, FrontsFit
    <3>5. Tail(loader.todo) \in Seq(DOMAIN disk) /\ Skill!Loading
      BY <1>0, <2>1 DEF LoaderKept, Skill!Loading
    <3>6. LoaderKept'
      BY <1>0, <2>1, <2>5, <3>4, <3>5 DEF LoaderKept, Skill!Loading
    <3> QED
      BY <2>3, <3>3, <3>6 DEF FilesKept
  <2> QED
    BY <2>2, <2>4, <2>5
<1>5. CASE Skill!Serve
  <2>1. /\ UNCHANGED <<disk, custom, edits, loaded, told, match, read>>
        /\ loader.at = "directory" /\ loader' = [loader EXCEPT !.at = "serving", !.edited = edits > 0]
    BY <1>5 DEF Skill!Serve
  <2>2. SourcesKept'
    BY <1>0, <2>1 DEF SourcesKept, FilesKnown
  <2>3. LoaderKept'
    <3>1. /\ DOMAIN loader' = DOMAIN loader /\ loader'.at = "serving"
          /\ loader'.edited = (edits > 0)
      BY <1>0, <2>1 DEF LoaderKept
    <3>2. edits = 0 => FrontsFit
      BY <1>0, <2>1 DEF LoaderKept, Skill!Loading
    <3>3. ~loader'.edited => edits = 0
      <4>1. edits > 0 => loader'.edited
        BY <3>1, Zenon
      <4>2. edits > 0 \/ edits = 0
        BY <1>0 DEF LoaderKept
      <4> QED
        BY <4>1, <4>2
    <3>4. ~Skill!Loading' /\ FrontsFit' = FrontsFit
      BY <2>1, <3>1 DEF Skill!Loading, FrontsFit
    <3> QED
      BY <1>0, <2>1, <3>1, <3>2, <3>3, <3>4 DEF LoaderKept
  <2>4. AskedKept'
    BY <1>0, <2>1 DEF AskedKept, LoaderKept, ToldKept, MatchKept, ReadKept, Manifested, Skill!Loading
  <2> QED
    BY <2>2, <2>3, <2>4 DEF FilesKept
<1>6. CASE Skill!ListResources
  <2>1. UNCHANGED <<disk, custom, edits, loader, loaded, match, read>> /\ loader.at = "serving" /\ told' = Skill!Entries
    BY <1>6 DEF Skill!ListResources
  <2>2. SourcesKept' /\ LoaderKept'
    BY <1>0, <2>1 DEF SourcesKept, FilesKnown, LoaderKept, FrontsFit, Skill!Loading, Skill!Current
  <2>3. ToldKept'
    BY <2>1, Listed DEF ToldKept
  <2>4. AskedKept'
    BY <1>0, <2>1, <2>3 DEF AskedKept, MatchKept, ReadKept, Manifested, Skill!Loading
  <2> QED
    BY <2>2, <2>4 DEF FilesKept
<1>7. CASE Skill!ReadFile
  <2> DEFINE data == Skill!Stored(match)
             outcome == CASE data = Skill!Gone -> IF match.from = "disk" THEN "unreadable" ELSE "notFound"
                          [] data # Skill!Gone /\ Skill!Intact(data, match.manifest) -> "served"
                          [] OTHER -> "integrity"
  <2>1. /\ UNCHANGED <<disk, custom, edits, loader, loaded, told>> /\ match # Skill!NoMatch /\ match' = Skill!NoMatch
        /\ read' = [match |-> match, data |-> data, fresh |-> data = match.manifest, outcome |-> outcome]
    BY <1>7 DEF Skill!ReadFile
  <2>2. SourcesKept' /\ LoaderKept'
    BY <1>0, <2>1 DEF SourcesKept, FilesKnown, LoaderKept, FrontsFit, Skill!Loading, Skill!Current
  <2>3. Manifested(match) /\ match.manifest \in Skill!AllContents /\ ~Skill!Loading
    BY <1>0, <2>1 DEF AskedKept, MatchKept
  <2>4. /\ Skill!Gone \notin Skill!AllContents
        /\ \A c, d \in Skill!AllContents : c.text = d.text /\ c.size = d.size => c = d
    BY FilesAssumption DEF FilesAssumption, Skill!SkillsAssumption
  <2>5. data = Skill!Gone \/ data \in Skill!AllContents
    <3>1. CASE match.from = "disk" /\ ~match.inline
      <4>1. data = IF match.path \in DOMAIN disk[match.name] THEN disk[match.name][match.path] ELSE Skill!Gone
        BY <3>1 DEF Skill!Stored
      <4> QED
        <5>1. match.name \in DOMAIN disk
          BY <1>0, <2>3, <3>1 DEF SourcesKept, Manifested
        <5>2. FilesKnown(disk)
          BY <1>0 DEF SourcesKept
        <5> QED
          BY <4>1, <5>1, <5>2 DEF FilesKnown
    <3>2. CASE match.inline
      BY <2>3, <3>2 DEF Skill!Stored
    <3>3. CASE match.from # "disk" /\ ~match.inline
      BY <1>0, <3>3 DEF Skill!Stored, SourcesKept
    <3> QED
      BY <3>1, <3>2, <3>3
  <2> HIDE DEF data
  <2>6. outcome = "served" => data = match.manifest
    BY <2>3, <2>4, <2>5 DEF Skill!Intact
  <2>7. data = match.manifest => outcome = "served"
    BY <2>3, <2>4 DEF Skill!Intact
  <2>8. outcome = "notFound" => match.from # "disk"
    OBVIOUS
  <2> HIDE DEF outcome
  <2>9. ReadKept'
    BY <2>1, <2>3, <2>6, <2>7, <2>8 DEF ReadKept, Manifested
  <2> QED
    BY <1>0, <2>1, <2>2, <2>3, <2>9 DEF FilesKept, AskedKept, ToldKept, MatchKept, Skill!Loading
<1>8. CASE Skill!Edit
  <2>1. /\ UNCHANGED <<custom, loader, loaded, told, match, read>> /\ edits' = edits + 1
        /\ \E n \in DOMAIN disk : \E p \in DOMAIN disk[n] :
             \/ \E c \in Contents : disk' = [disk EXCEPT ![n][p] = c]
             \/ disk' = [disk EXCEPT ![n] = [q \in DOMAIN disk[n] \ {p} |-> disk[n][q]]]
    BY <1>8 DEF Skill!Edit
  <2>2. FilesKnown(disk) /\ Contents \subseteq Skill!AllContents
    BY <1>0 DEF SourcesKept, Skill!AllContents
  <2>3. FilesKnown(disk)' /\ DOMAIN disk' = DOMAIN disk
    <3>1. PICK n \in DOMAIN disk : \E p \in DOMAIN disk[n] :
             \/ \E c \in Contents : disk' = [disk EXCEPT ![n][p] = c]
             \/ disk' = [disk EXCEPT ![n] = [q \in DOMAIN disk[n] \ {p} |-> disk[n][q]]]
      BY <2>1
    <3>2. PICK p \in DOMAIN disk[n] :
             \/ \E c \in Contents : disk' = [disk EXCEPT ![n] = [disk[n] EXCEPT ![p] = c]]
             \/ disk' = [disk EXCEPT ![n] = [q \in DOMAIN disk[n] \ {p} |-> disk[n][q]]]
      BY <3>1
    <3>3. DOMAIN disk' = DOMAIN disk /\ \A m \in DOMAIN disk : m # n => disk'[m] = disk[m]
      BY <3>2
    <3>4. \/ \E c \in Contents : disk'[n] = [disk[n] EXCEPT ![p] = c]
          \/ disk'[n] = [q \in DOMAIN disk[n] \ {p} |-> disk[n][q]]
      BY <3>2
    <3>5. \A q \in DOMAIN disk'[n] : q \in DOMAIN disk[n] /\ (disk'[n][q] \in Contents \/ disk'[n][q] = disk[n][q])
      BY <3>4
    <3> QED
      BY <2>2, <3>3, <3>5 DEF FilesKnown
  <2>4. SourcesKept'
    BY <1>0, <2>1, <2>3 DEF SourcesKept, FilesKnown
  <2>5. LoaderKept'
    BY <1>0, <2>1, <2>3 DEF LoaderKept, FrontsFit, Skill!Loading
  <2>6. AskedKept'
    BY <1>0, <2>1 DEF AskedKept, ToldKept, MatchKept, ReadKept, Manifested, Skill!Loading
  <2> QED
    BY <2>4, <2>5, <2>6 DEF FilesKept
<1>9. CASE Skill!Vary
  <2>1. /\ UNCHANGED <<disk, loader, loaded, match, read>> /\ edits' = edits + 1 /\ ~Skill!Loading
        /\ custom' \in Customs /\ told' \subseteq told
    BY <1>9 DEF Skill!Vary
  <2>2. \A n \in DOMAIN custom' : \A p \in DOMAIN custom'[n] : p \in Seq(STRING) /\ custom'[n][p].content \in Skill!AllContents
    BY <2>1, OfCustom
  <2>3. SourcesKept'
    BY <1>0, <2>1, <2>2 DEF SourcesKept, FilesKnown
  <2>4. LoaderKept'
    BY <1>0, <2>1 DEF LoaderKept, FrontsFit, Skill!Loading
  <2>5. AskedKept'
    BY <1>0, <2>1 DEF AskedKept, ToldKept, MatchKept, ReadKept, Manifested, Skill!Loading
  <2> QED
    BY <2>3, <2>4, <2>5 DEF FilesKept
<1>10. ASSUME NEW n, NEW p, Skill!GetFile(n, p) PROVE FilesKept'
  <2> DEFINE m == [from |-> IF n \in DOMAIN loaded THEN "disk" ELSE "custom", name |-> n, path |-> p,
                   manifest |-> Skill!Files(n)[p].content, inline |-> Skill!Files(n)[p].inline]
             found == n \in Skill!Named /\ p \in DOMAIN Skill!Files(n)
  <2>1. /\ UNCHANGED <<disk, custom, edits, loader, loaded, told>> /\ loader.at = "serving" /\ match = Skill!NoMatch
        /\ \/ ~found /\ read' = [Skill!NoAnswer EXCEPT !.outcome = "notFound", !.match.name = n, !.match.path = p] /\ match' = match
           \/ read' = [Skill!NoAnswer EXCEPT !.outcome = "tooLarge", !.match = m] /\ match' = match
           \/ found /\ match' = m /\ read' = read
    BY <1>10 DEF Skill!GetFile
  <2>2. SourcesKept' /\ LoaderKept'
    BY <1>0, <2>1 DEF SourcesKept, FilesKnown, LoaderKept, FrontsFit, Skill!Loading, Skill!Current
  <2>3. found => m.manifest \in Skill!AllContents /\ Manifested(m)
    <3>1. CASE n \in DOMAIN loaded
      BY <1>0, <3>1 DEF SourcesKept, FilesKnown, Skill!Files, Manifested
    <3>2. CASE n \notin DOMAIN loaded
      BY <1>0, <3>2 DEF SourcesKept, Skill!Files, Skill!Named, Manifested
    <3> QED
      BY <3>1, <3>2
  <2>4. ~found /\ n \in DOMAIN loaded => p \notin DOMAIN loaded[n].files
    BY DEF Skill!Files, Skill!Named
  <2> HIDE DEF m, found
  <2>5. MatchKept'
    BY <1>0, <2>1, <2>3 DEF MatchKept, Manifested
  <2>6. ReadKept'
    <3>1. ASSUME ~found, read' = [Skill!NoAnswer EXCEPT !.outcome = "notFound", !.match.name = n, !.match.path = p]
          PROVE  ReadKept'
      <4>1. read'.outcome = "notFound" /\ read'.fresh = FALSE /\ read'.match.name = n /\ read'.match.path = p
        BY <3>1 DEF Skill!NoAnswer, Skill!NoMatch
      <4> QED
        BY <2>1, <2>4, <3>1, <4>1 DEF ReadKept
    <3>2. ASSUME read' = [Skill!NoAnswer EXCEPT !.outcome = "tooLarge", !.match = m] PROVE ReadKept'
      <4>1. read'.outcome = "tooLarge" /\ read'.fresh = FALSE
        BY <3>2 DEF Skill!NoAnswer
      <4> QED
        BY <4>1 DEF ReadKept
    <3>3. ASSUME read' = read PROVE ReadKept'
      BY <1>0, <2>1, <3>3 DEF AskedKept, ReadKept, Manifested
    <3> QED
      BY <2>1, <3>1, <3>2, <3>3
  <2> QED
    BY <1>0, <2>1, <2>2, <2>5, <2>6 DEF FilesKept, AskedKept, ToldKept, Skill!Loading
<1>11. CASE UNCHANGED Skill!skillVars
  <2>1. UNCHANGED <<disk, custom, edits, loader, loaded, told, match, read>>
    BY <1>11 DEF Skill!skillVars
  <2> QED
    BY <1>0, <2>1 DEF FilesKept, SourcesKept, FilesKnown, LoaderKept, FrontsFit, Skill!Loading, Skill!Current,
      AskedKept, ToldKept, MatchKept, ReadKept, Manifested
<1>12. CASE Skill!SkillsRest
  BY <1>11, <1>12 DEF Skill!SkillsRest
<1> QED
  BY <1>1, <1>2, <1>3, <1>4, <1>5, <1>6, <1>7, <1>8, <1>9, <1>10, <1>11, <1>12 DEF Skill!SkillsNext

LEMMA CatalogSkills == CatalogNext => [Skill!SkillsNext]_(Skill!skillVars)
BY DEF CatalogNext, skillVars, Skill!skillVars

\* What a client reads is what it was told of, whatever the skills, the edits and the custom
\* sources (mcp/skills.py:578).
THEOREM ListedRead == CatalogSpec => []ServedAsListed
<1>1. FilesKept /\ [CatalogNext]_catalogVars => FilesKept'
  BY FilesNext, CatalogSkills DEF catalogVars, skillVars, Skill!skillVars
<1>2. FilesKept => ServedAsListed
  BY FilesServed
<1> QED
  BY FilesInit, <1>1, <1>2, PTL DEF CatalogSpec


(***************************************************************************)
(* The lists.  What the dictionaries hold is sound (ListsKept): entries of *)
(* the routed copies of the handlers, no two under one key.  A list shows  *)
(* them by their keys; registering another one never moves an item towards *)
(* the start of its list.  So what was listed when a client began its pages*)
(* and stayed is either among what the client got or behind its offset.    *)
(***************************************************************************)
Below(S, key, x) == {y \in S : key[y] < key[x]}

\* The order of a finite set by distinct keys: every element has its place.
LEMMA Ordered ==
  ASSUME NEW S, IsFiniteSet(S), NEW key, \A x \in S : key[x] \in Nat,
         \A x, y \in S : key[x] = key[y] => x = y,
         NEW order, order = Offer!InOrder(S, key)
  PROVE  /\ order \in Seq(S) /\ Len(order) = Cardinality(S) /\ Cardinality(S) \in Nat
         /\ \A x \in S : /\ Cardinality(Below(S, key, x)) + 1 \in 1..Len(order)
                         /\ order[Cardinality(Below(S, key, x)) + 1] = x
         /\ \A i, j \in 1..Len(order) : order[i] = order[j] => i = j
<1> DEFINE n == Cardinality(S)
           B(x) == Below(S, key, x)
<1>0. n \in Nat /\ \A T : Offer!Cardinality(T) = Cardinality(T)
  BY FS_CardinalityType DEF Offer!Cardinality, Cardinality
<1>1. ASSUME NEW x \in S PROVE IsFiniteSet(B(x)) /\ Cardinality(B(x)) \in Nat /\ Cardinality(B(x)) < n
  <2>1. IsFiniteSet(S \ {x}) /\ Cardinality(S \ {x}) = n - 1
    BY FS_RemoveElement
  <2>2. B(x) \in SUBSET (S \ {x})
    BY DEF Below
  <2>3. IsFiniteSet(B(x)) /\ Cardinality(B(x)) <= Cardinality(S \ {x})
    BY <2>1, <2>2, FS_Subset
  <2>4. Cardinality(B(x)) \in Nat
    BY <2>3, FS_CardinalityType
  <2> HIDE DEF B, n
  <2> QED
    BY <1>0, <2>1, <2>3, <2>4
<1>2. ASSUME NEW x \in S, NEW z \in S, key[x] < key[z] PROVE Cardinality(B(x)) < Cardinality(B(z))
  <2>1. B(x) \in SUBSET B(z) /\ x \in B(z) /\ x \notin B(x)
    BY <1>2 DEF Below
  <2>2. Cardinality(B(x)) <= Cardinality(B(z)) /\ Cardinality(B(x)) # Cardinality(B(z))
    BY <1>1, <2>1, FS_Subset
  <2> HIDE DEF B
  <2> QED
    BY <1>1, <2>2
<1>3. ASSUME NEW x \in S, NEW z \in S, Cardinality(B(x)) = Cardinality(B(z)) PROVE x = z
  <2>1. ~(key[x] < key[z]) /\ ~(key[z] < key[x])
    <3> HIDE DEF B
    <3> QED  BY <1>1, <1>2, <1>3
  <2> QED
    BY <2>1
<1> DEFINE f == [x \in S |-> Cardinality(B(x)) + 1]
<1> HIDE DEF B, n
<1>4. f \in Injection(S, 1..n)
  BY <1>0, <1>1, <1>3 DEF Injection, IsInjective
<1>5. IsFiniteSet(1..n) /\ Cardinality(1..n) = n
  BY <1>0, FS_Interval
<1>6. f \in Surjection(S, 1..n)
  BY <1>4, <1>5, FS_Injection DEF n
<1>7. ASSUME NEW k \in 1..n PROVE \E x \in S : Cardinality(B(x)) = k - 1
  <2>1. PICK x \in S : f[x] = k
    BY <1>6 DEF Surjection
  <2>2. Cardinality(B(x)) + 1 = k
    BY <2>1
  <2> QED
    BY <1>0, <1>1, <2>2
<1>8. order = [k \in 1..n |-> CHOOSE x \in S : Cardinality(B(x)) = k - 1]
  BY DEF Offer!InOrder, Offer!Cardinality, Cardinality, B, Below, n
<1>9. \A k \in 1..n : order[k] \in S /\ Cardinality(B(order[k])) = k - 1
  BY <1>7, <1>8
<1>10. order \in Seq(S) /\ Len(order) = n
  BY <1>0, <1>8, <1>9
<1>11. ASSUME NEW x \in S PROVE Cardinality(B(x)) + 1 \in 1..n /\ order[Cardinality(B(x)) + 1] = x
  <2>1. Cardinality(B(x)) + 1 \in 1..n
    BY <1>0, <1>1
  <2>2. Cardinality(B(order[Cardinality(B(x)) + 1])) = Cardinality(B(x)) /\ order[Cardinality(B(x)) + 1] \in S
    BY <1>1, <1>9, <2>1
  <2> QED
    BY <1>3, <2>1, <2>2
<1>12. \A i, j \in 1..n : order[i] = order[j] => i = j
  BY <1>9
<1> QED
  BY <1>0, <1>10, <1>11, <1>12 DEF B, n

\* Later in the order where more comes before.
LEMMA OrderGrows ==
  ASSUME NEW S, NEW T, IsFiniteSet(T), S \subseteq T, NEW key, NEW later,
         \A x \in T : later[x] \in Nat, \A x, y \in T : later[x] = later[y] => x = y,
         \A x \in S : key[x] = later[x],
         NEW i \in 1..Len(Offer!InOrder(S, key))
  PROVE  \E j \in 1..Len(Offer!InOrder(T, later)) :
            i <= j /\ Offer!InOrder(T, later)[j] = Offer!InOrder(S, key)[i]
<1>1. IsFiniteSet(S)
  BY FS_Subset
<1> DEFINE A == Offer!InOrder(S, key)
           M == Offer!InOrder(T, later)
<1>2. /\ A \in Seq(S)
      /\ \A x \in S : /\ Cardinality(Below(S, key, x)) + 1 \in 1..Len(A)
                      /\ A[Cardinality(Below(S, key, x)) + 1] = x
      /\ \A k, j \in 1..Len(A) : A[k] = A[j] => k = j
  BY <1>1, Ordered
<1>3. \A x \in T : /\ Cardinality(Below(T, later, x)) + 1 \in 1..Len(M)
                   /\ M[Cardinality(Below(T, later, x)) + 1] = x
  BY Ordered
<1> HIDE DEF A, M
<1> DEFINE x == A[i]
<1>4. x \in S /\ x \in T
  BY <1>2 DEF A
<1>5. i = Cardinality(Below(S, key, x)) + 1
  BY <1>2, <1>4 DEF A
<1>6. Below(S, key, x) \in SUBSET Below(T, later, x) /\ Below(T, later, x) \in SUBSET T
  BY <1>4 DEF Below
<1>7. IsFiniteSet(Below(T, later, x))
  BY <1>6, FS_Subset
<1>8. IsFiniteSet(Below(S, key, x)) /\ Cardinality(Below(S, key, x)) <= Cardinality(Below(T, later, x))
  BY <1>6, <1>7, FS_Subset
<1>9. Cardinality(Below(S, key, x)) \in Nat /\ Cardinality(Below(T, later, x)) \in Nat
  BY <1>7, <1>8, FS_CardinalityType
<1> DEFINE j == Cardinality(Below(T, later, x)) + 1
<1>10. j \in 1..Len(M) /\ M[j] = x
  BY <1>3, <1>4
<1>11. i <= j
  BY <1>5, <1>8, <1>9
<1> HIDE DEF j
<1> QED
  BY <1>10, <1>11 DEF A, M

-----------------------------------------------------------------------------
(* Sequences and dictionaries *)

LEMMA AsSeq ==
  ASSUME NEW s, Offer!IsSequence(s)
  PROVE  s \in Seq({s[i] : i \in 1..Len(s)}) /\ Len(s) \in Nat /\ DOMAIN s = 1..Len(s)
<1> DEFINE n == Len(s)
           T == {s[i] : i \in 1..n}
<1>1. n \in Nat /\ s = [i \in 1..n |-> s[i]]
  BY DEF Offer!IsSequence
<1> HIDE DEF n
<1>2. s \in [1..n -> T]
  BY <1>1
<1>3. DOMAIN s = 1..n
  BY <1>1
<1> HIDE DEF T
<1>4. s \in Seq(T)
  BY <1>1, <1>2
<1> QED
  BY <1>1, <1>3, <1>4 DEF n, T

LEMMA IsSeq ==
  ASSUME NEW T, NEW s \in Seq(T)
  PROVE  Offer!IsSequence(s)
BY DEF Offer!IsSequence

\* What a dictionary is once an entry was put into it.
Puts(d, e, with) ==
  /\ Offer!IsSequence(with) /\ Len(with) >= Len(d)
  /\ \A i \in 1..Len(with) : with[i] = e \/ (i \in 1..Len(d) /\ with[i] = d[i] /\ d[i].name # e.name)
  /\ \A i \in 1..Len(d) : with[i].name = d[i].name
  /\ Offer!Held(with, e.name) # {}
  /\ \A n : Offer!Held(d, n) # {} => Offer!Held(with, n) = Offer!Held(d, n)

LEMMA Putting ==
  ASSUME NEW d, Offer!IsSequence(d), NEW e
  PROVE  Puts(d, e, Offer!Put(d, e))
<1> DEFINE with == Offer!Put(d, e)
<1> SUFFICES Puts(d, e, with)
  OBVIOUS
<1>0. with = Offer!Put(d, e)
  OBVIOUS
<1> HIDE DEF with
<1>1. d \in Seq({d[i] : i \in 1..Len(d)}) /\ Len(d) \in Nat /\ DOMAIN d = 1..Len(d)
  BY AsSeq
<1>2. CASE Offer!Held(d, e.name) = {}
  <2> DEFINE T == {d[i] : i \in 1..Len(d)} \union {e}
  <2>1. d \in Seq(T) /\ e \in T
    BY <1>1
  <2>2. with = Append(d, e)
    BY <1>0, <1>2 DEF Offer!Put
  <2> HIDE DEF T
  <2>3. /\ with \in Seq(T) /\ Len(with) = Len(d) + 1 /\ with[Len(d) + 1] = e
        /\ \A i \in 1..Len(d) : with[i] = d[i]
    BY <1>1, <2>1, <2>2
  <2>4. Offer!IsSequence(with) /\ DOMAIN with = 1..Len(with)
    BY <2>3, IsSeq
  <2>5. \A i \in 1..Len(d) : d[i].name # e.name
    BY <1>1, <1>2 DEF Offer!Held
  <2>6. \A n : Offer!Held(d, n) # {} => Offer!Held(with, n) = Offer!Held(d, n)
    <3> SUFFICES ASSUME NEW n, Offer!Held(d, n) # {} PROVE Offer!Held(with, n) = Offer!Held(d, n)
      OBVIOUS
    <3>1. n # e.name
      BY <1>1, <2>5 DEF Offer!Held
    <3>2. with[Len(d) + 1].name # n
      BY <2>3, <3>1
    <3> QED
      BY <1>1, <2>3, <2>4, <3>2 DEF Offer!Held
  <2>7. Offer!Held(with, e.name) # {}
    <3>1. Len(d) + 1 \in DOMAIN with
      BY <1>1, <2>3, <2>4
    <3> QED
      BY <2>3, <3>1 DEF Offer!Held
  <2>8. \A i \in 1..Len(with) : with[i] = e \/ (i \in 1..Len(d) /\ with[i] = d[i] /\ d[i].name # e.name)
    BY <1>1, <2>3, <2>5
  <2>9. Len(with) >= Len(d)
    BY <1>1, <2>3
  <2> QED
    BY <2>3, <2>4, <2>6, <2>7, <2>8, <2>9 DEF Puts
<1>3. CASE Offer!Held(d, e.name) # {}
  <2> DEFINE T == {d[i] : i \in 1..Len(d)} \union {e}
             n == Len(d)
  <2>1. with = [i \in 1..n |-> IF d[i].name = e.name THEN e ELSE d[i]]
    BY <1>0, <1>1, <1>3 DEF Offer!Put
  <2>2. with \in [1..n -> T]
    BY <2>1
  <2> HIDE DEF T, n
  <2>3. n \in Nat
    BY <1>1 DEF n
  <2>4. with \in Seq(T) /\ Len(with) = n /\ DOMAIN with = 1..n
    BY <2>2, <2>3
  <2>5. Offer!IsSequence(with)
    BY <2>4, IsSeq
  <2>6. \A i \in 1..n : with[i].name = d[i].name
    BY <2>1
  <2>7. \A k : Offer!Held(with, k) = Offer!Held(d, k)
    BY <1>1, <2>4, <2>6 DEF Offer!Held, n
  <2>8. \A i \in 1..n : with[i] = e \/ (with[i] = d[i] /\ d[i].name # e.name)
    BY <2>1
  <2>9. Offer!Held(with, e.name) # {}
    BY <1>3, <2>7
  <2>10. Len(with) >= n
    BY <2>3, <2>4
  <2> QED
    BY <2>4, <2>5, <2>6, <2>7, <2>8, <2>9, <2>10 DEF n, Puts
<1> QED
  BY <1>2, <1>3

Claimed == {"tools", "resources", "prompts"}
Fine(e) == Offer!IsClaim(e.claim) /\ e.name = e.claim.name

ListsKept(r) ==
  /\ r = [kind \in Offer!Kinds |-> r[kind]]
  /\ \A kind \in Offer!Kinds :
       /\ Offer!IsSequence(r[kind])
       /\ \A i \in 1..Len(r[kind]) :
            Fine(r[kind][i]) /\ r[kind][i].claim.kind = (IF kind = "templates" THEN "resources" ELSE kind)

\* The entries of a name are among those of a set.
Holds(r, kind, name, E) ==
  Offer!Held(r[kind], name) # {} /\ \A i \in Offer!Held(r[kind], name) : r[kind][i] \in E

LEMMA Registering ==
  ASSUME NEW r, ListsKept(r), NEW e, Fine(e), NEW with, with = Offer!Register(r, e)
  PROVE  /\ ListsKept(with)
         /\ e.claim.kind \in Claimed /\ with[e.claim.kind] = Offer!Put(r[e.claim.kind], e)
         /\ \A kind \in Offer!Kinds : with[kind] = r[kind] \/ with[kind] = Offer!Put(r[kind], e)
<1>1. e.claim.kind \in Claimed /\ Claimed \subseteq Offer!Kinds /\ "templates" \notin Claimed
  BY DEF Fine, Offer!IsClaim, Claimed, Offer!Kinds
<1> DEFINE k == e.claim.kind
           one == [r EXCEPT ![k] = Offer!Renew(@, e)]
<1>2. one = [kind \in Offer!Kinds |-> IF kind = k THEN Offer!Put(r[kind], e) ELSE r[kind]]
  BY <1>1 DEF ListsKept, Offer!Renew
<1>3. with = one \/ (k = "resources" /\ with = [one EXCEPT !.templates = Offer!Renew(@, e)])
  BY DEF Offer!Register, Offer!Templated
<1> HIDE DEF one, k
<1>4. with = one \/ (k = "resources" /\ with = [kind \in Offer!Kinds |->
                         IF kind \in {"resources", "templates"} THEN Offer!Put(r[kind], e) ELSE r[kind]])
  BY <1>2, <1>3 DEF Offer!Renew, Offer!Kinds
<1>5. \A kind \in Offer!Kinds :
        \/ with[kind] = r[kind]
        \/ with[kind] = Offer!Put(r[kind], e) /\ k = (IF kind = "templates" THEN "resources" ELSE kind)
  BY <1>1, <1>2, <1>4 DEF Offer!Kinds, k
<1>6. with = [kind \in Offer!Kinds |-> with[kind]] /\ with[k] = Offer!Put(r[k], e)
  BY <1>1, <1>2, <1>4 DEF Offer!Kinds, k, Claimed
<1>7. ASSUME NEW kind \in Offer!Kinds
      PROVE  /\ Offer!IsSequence(with[kind])
             /\ \A i \in 1..Len(with[kind]) :
                  /\ Fine(with[kind][i])
                  /\ with[kind][i].claim.kind = (IF kind = "templates" THEN "resources" ELSE kind)
  <2>1. CASE with[kind] = r[kind]
    BY <2>1 DEF ListsKept
  <2>2. CASE with[kind] = Offer!Put(r[kind], e) /\ k = (IF kind = "templates" THEN "resources" ELSE kind)
    <3>1. Offer!IsSequence(r[kind])
      BY DEF ListsKept
    <3> DEFINE d == r[kind]
               m == with[kind]
    <3>0. Offer!IsSequence(d) /\ m = Offer!Put(d, e)
      BY <2>2, <3>1
    <3>3. \A i \in 1..Len(d) : Fine(d[i]) /\ d[i].claim.kind = (IF kind = "templates" THEN "resources" ELSE kind)
      BY DEF ListsKept
    <3> HIDE DEF d, m
    <3>a. Puts(d, e, m)
      BY <3>0, Putting
    <3>2. /\ Offer!IsSequence(m)
          /\ \A i \in 1..Len(m) : m[i] = e \/ (i \in 1..Len(d) /\ m[i] = d[i])
      BY <3>a DEF Puts
    <3> QED
      BY <2>2, <3>2, <3>3 DEF m, k
  <2> QED
    BY <1>5, <2>1, <2>2
<1> QED
  BY <1>1, <1>5, <1>6, <1>7 DEF ListsKept, k

LEMMA HoldsOn ==
  ASSUME NEW r, ListsKept(r), NEW e, Fine(e), NEW with, with = Offer!Register(r, e), NEW E, e \in E
  PROVE  /\ Holds(with, e.claim.kind, e.name, E)
         /\ \A kind \in Claimed : \A n : Holds(r, kind, n, E) => Holds(with, kind, n, E)
<1>1. /\ e.claim.kind \in Claimed /\ with[e.claim.kind] = Offer!Put(r[e.claim.kind], e)
      /\ \A kind \in Offer!Kinds : with[kind] = r[kind] \/ with[kind] = Offer!Put(r[kind], e)
      /\ Claimed \subseteq Offer!Kinds
  BY Registering DEF Claimed, Offer!Kinds
<1>2. ASSUME NEW kind \in Claimed, with[kind] = Offer!Put(r[kind], e)
      PROVE  /\ Holds(with, kind, e.name, E)
             /\ \A n : Holds(r, kind, n, E) => Holds(with, kind, n, E)
  <2> DEFINE d == r[kind]
             m == with[kind]
  <2>1. Offer!IsSequence(d) /\ m = Offer!Put(d, e)
    BY <1>1, <1>2 DEF ListsKept
  <2> HIDE DEF d, m
  <2>a. Puts(d, e, m)
    BY <2>1, Putting
  <2>2. /\ Offer!IsSequence(m)
        /\ \A i \in 1..Len(m) : m[i] = e \/ (i \in 1..Len(d) /\ m[i] = d[i] /\ d[i].name # e.name)
        /\ Offer!Held(m, e.name) # {}
        /\ \A n : Offer!Held(d, n) # {} => Offer!Held(m, n) = Offer!Held(d, n)
    BY <2>a DEF Puts
  <2>3. DOMAIN m = 1..Len(m)
    BY <2>2, AsSeq
  <2>4. \A i \in Offer!Held(m, e.name) : m[i] = e
    BY <2>2, <2>3 DEF Offer!Held
  <2>5. ASSUME NEW n, Offer!Held(d, n) # {}, \A i \in Offer!Held(d, n) : d[i] \in E
        PROVE  Offer!Held(m, n) # {} /\ \A i \in Offer!Held(m, n) : m[i] \in E
    <3>1. Offer!Held(m, n) = Offer!Held(d, n)
      BY <2>2, <2>5
    <3>2. ASSUME NEW i \in Offer!Held(m, n) PROVE m[i] \in E
      <4>1. i \in 1..Len(m)
        BY <2>3 DEF Offer!Held
      <4> QED
        BY <2>2, <2>5, <3>1, <4>1
    <3> QED
      BY <2>5, <3>1, <3>2
  <2> QED
    BY <2>2, <2>4, <2>5 DEF Holds, d, m
<1> QED
  BY <1>1, <1>2 DEF Holds

LEMMA LeastNat ==
  ASSUME NEW S, S \subseteq Nat, S # {}
  PROVE  \E i \in S : \A k \in S : i <= k
<1>1. PICK i \in S : \A k \in S : ~(<<k, i>> \in OpToRel(<, Nat))
  BY NatLessThanWellFounded, WFMin
<1>2. \A k \in S : ~(k < i)
  BY <1>1 DEF OpToRel
<1> QED
  BY <1>2

\* The steps of a registration in turn.
Registered(r, entries, after) ==
  after = [n \in 0..Len(entries) |-> IF n = 0 THEN r ELSE Offer!Register(after[n - 1], entries[n])]

LEMMA RegisteredEach ==
  ASSUME NEW r, NEW entries, Len(entries) \in Nat
  PROVE  \E after : Registered(r, entries, after) /\ Offer!RegisterAll(r, entries) = after[Len(entries)]
<1> DEFINE m == Len(entries)
           Done(k, f) == f = [n \in 0..k |-> IF n = 0 THEN r ELSE Offer!Register(f[n - 1], entries[n])]
           Missing == {k \in 0..m : ~\E f : Done(k, f)}
<1>0. m \in Nat
  OBVIOUS
<1>1. Missing = {}
  <2> SUFFICES ASSUME Missing # {} PROVE FALSE
    OBVIOUS
  <2>1. PICK k \in Missing : \A j \in Missing : k <= j
    <3>1. Missing \subseteq Nat
      BY <1>0
    <3> HIDE DEF Missing
    <3> QED
      BY <3>1, LeastNat
  <2>2. CASE k = 0
    <3> DEFINE f == [n \in 0..0 |-> r]
    <3>1. f = [n \in 0..0 |-> IF n = 0 THEN r ELSE Offer!Register(f[n - 1], entries[n])]
      OBVIOUS
    <3> QED
      BY <2>2, <3>1
  <2>3. CASE k # 0
    <3>1. k \in Nat /\ k - 1 \in 0..m /\ k - 1 < k /\ k - 1 \notin Missing
      BY <1>0, <2>1, <2>3
    <3>2. PICK g : Done(k - 1, g)
      BY <3>1
    <3> DEFINE f == [n \in 0..k |-> IF n = k THEN Offer!Register(g[k - 1], entries[k]) ELSE g[n]]
    <3>3. \A n \in 0..(k - 1) : g[n] = IF n = 0 THEN r ELSE Offer!Register(g[n - 1], entries[n])
      BY <3>2
    <3>4. \A n \in 0..(k - 1) : f[n] = g[n]
      BY <3>1
    <3>5. f[k] = Offer!Register(f[k - 1], entries[k])
      BY <2>3, <3>1, <3>4
    <3>6. ASSUME NEW n \in 0..k
          PROVE  f[n] = IF n = 0 THEN r ELSE Offer!Register(f[n - 1], entries[n])
      <4>1. CASE n = k
        BY <2>3, <3>5, <4>1
      <4>2. CASE n # k
        <5>1. n \in 0..(k - 1) /\ (n # 0 => n - 1 \in 0..(k - 1))
          BY <3>1, <4>2
        <5> QED
          BY <3>3, <3>4, <5>1
      <4> QED
        BY <4>1, <4>2
    <3>7. f = [n \in 0..k |-> f[n]]
      OBVIOUS
    <3> HIDE DEF f
    <3>8. Done(k, f)
      BY <3>6, <3>7
    <3> QED
      BY <2>1, <3>8
  <2> QED
    BY <2>2, <2>3
<1>2. \E f : Registered(r, entries, f)
  BY <1>0, <1>1 DEF Registered
<1>3. Registered(r, entries, CHOOSE f : Registered(r, entries, f))
  BY <1>2
<1>4. Offer!RegisterAll(r, entries) = (CHOOSE f : Registered(r, entries, f))[m]
  BY DEF Offer!RegisterAll, Registered
<1> QED
  BY <1>3, <1>4

\* What is known after some registrations.
Gathers(r, with, entries, k, E) ==
  /\ ListsKept(with)
  /\ \A kind \in Claimed : \A n : Holds(r, kind, n, E) => Holds(with, kind, n, E)
  /\ \A i \in 1..k : Holds(with, entries[i].claim.kind, entries[i].name, E)

LEMMA AllHeld ==
  ASSUME NEW r, ListsKept(r), NEW entries, Len(entries) \in Nat, NEW E,
         \A i \in 1..Len(entries) : Fine(entries[i]) /\ entries[i] \in E
  PROVE  Gathers(r, Offer!RegisterAll(r, entries), entries, Len(entries), E)
<1>1. PICK after : Registered(r, entries, after) /\ Offer!RegisterAll(r, entries) = after[Len(entries)]
  BY RegisteredEach
<1> DEFINE m == Len(entries)
           Lost == {k \in 0..m : ~Gathers(r, after[k], entries, k, E)}
<1>2. after = [n \in 0..m |-> IF n = 0 THEN r ELSE Offer!Register(after[n - 1], entries[n])]
  BY <1>1 DEF Registered
<1> SUFFICES ASSUME Lost # {} PROVE FALSE
  BY <1>1
<1>3. PICK k \in Lost : \A j \in Lost : k <= j
  <2>1. Lost \subseteq Nat
    OBVIOUS
  <2> HIDE DEF Lost
  <2> QED
    BY <2>1, LeastNat
<1>4. CASE k = 0
  <2>1. after[0] = r
    BY <1>2
  <2>2. Gathers(r, after[0], entries, 0, E)
    BY <2>1 DEF Gathers
  <2> QED
    BY <1>3, <1>4, <2>2
<1>5. CASE k # 0
  <2>1. k \in Nat /\ k \in 1..m /\ k - 1 \in 0..m /\ k - 1 < k /\ k - 1 \notin Lost
    BY <1>3, <1>5
  <2> DEFINE q == after[k - 1]
             e == entries[k]
  <2>2. Gathers(r, q, entries, k - 1, E) /\ after[k] = Offer!Register(q, e)
    BY <1>2, <1>5, <2>1
  <2>3. ListsKept(q) /\ Fine(e) /\ e \in E
    BY <2>1, <2>2 DEF Gathers
  <2> DEFINE with == after[k]
  <2>4. with = Offer!Register(q, e)
    BY <2>2
  <2> HIDE DEF q, e, with
  <2>5. ListsKept(with)
    BY <2>3, <2>4, Registering
  <2>6. /\ Holds(with, e.claim.kind, e.name, E)
        /\ \A kind \in Claimed : \A n : Holds(q, kind, n, E) => Holds(with, kind, n, E)
    BY <2>3, <2>4, HoldsOn
  <2>7. ASSUME NEW i \in 1..k PROVE Holds(with, entries[i].claim.kind, entries[i].name, E)
    <3>1. CASE i = k
      BY <2>6, <3>1 DEF e
    <3>2. CASE i # k
      <4>1. i \in 1..(k - 1) /\ i \in 1..m
        BY <2>1, <3>2
      <4>2. Holds(q, entries[i].claim.kind, entries[i].name, E)
        BY <2>2, <4>1 DEF Gathers, q
      <4>3. entries[i].claim.kind \in Claimed
        BY <4>1 DEF Fine, Offer!IsClaim, Claimed
      <4> QED
        BY <2>6, <4>2, <4>3
    <3> QED
      BY <3>1, <3>2
  <2>8. Gathers(r, with, entries, k, E)
    BY <2>2, <2>5, <2>6, <2>7 DEF Gathers, q
  <2> QED
    BY <1>3, <2>8 DEF with
<1> QED
  BY <1>4, <1>5


\* Copies are taken in turn, too.
Discovered(r, a, copies, after) ==
  after = [n \in 0..Len(copies) |->
             IF n = 0 THEN r ELSE Offer!RegisterAll(after[n - 1], Offer!EntriesOf(a, copies[n]))]

LEMMA DiscoveredEach ==
  ASSUME NEW r, NEW a, NEW copies, Len(copies) \in Nat
  PROVE  \E after : Discovered(r, a, copies, after) /\ Offer!Discover(r, a, copies) = after[Len(copies)]
<1> DEFINE m == Len(copies)
           Done(k, f) == f = [n \in 0..k |-> IF n = 0 THEN r ELSE Offer!RegisterAll(f[n - 1], Offer!EntriesOf(a, copies[n]))]
           Missing == {k \in 0..m : ~\E f : Done(k, f)}
<1>0. m \in Nat
  OBVIOUS
<1>1. Missing = {}
  <2> SUFFICES ASSUME Missing # {} PROVE FALSE
    OBVIOUS
  <2>1. PICK k \in Missing : \A j \in Missing : k <= j
    <3>1. Missing \subseteq Nat
      BY <1>0
    <3> HIDE DEF Missing
    <3> QED
      BY <3>1, LeastNat
  <2>2. CASE k = 0
    <3> DEFINE f == [n \in 0..0 |-> r]
    <3>1. f = [n \in 0..0 |-> IF n = 0 THEN r ELSE Offer!RegisterAll(f[n - 1], Offer!EntriesOf(a, copies[n]))]
      OBVIOUS
    <3> QED
      BY <2>2, <3>1
  <2>3. CASE k # 0
    <3>1. k \in Nat /\ k - 1 \in 0..m /\ k - 1 < k /\ k - 1 \notin Missing
      BY <1>0, <2>1, <2>3
    <3>2. PICK g : Done(k - 1, g)
      BY <3>1
    <3> DEFINE f == [n \in 0..k |-> IF n = k THEN Offer!RegisterAll(g[k - 1], Offer!EntriesOf(a, copies[k])) ELSE g[n]]
    <3>3. \A n \in 0..(k - 1) : g[n] = IF n = 0 THEN r ELSE Offer!RegisterAll(g[n - 1], Offer!EntriesOf(a, copies[n]))
      BY <3>2
    <3>4. \A n \in 0..(k - 1) : f[n] = g[n]
      BY <3>1
    <3>5. f[k] = Offer!RegisterAll(f[k - 1], Offer!EntriesOf(a, copies[k]))
      BY <2>3, <3>1, <3>4
    <3>6. ASSUME NEW n \in 0..k
          PROVE  f[n] = IF n = 0 THEN r ELSE Offer!RegisterAll(f[n - 1], Offer!EntriesOf(a, copies[n]))
      <4>1. CASE n = k
        BY <2>3, <3>5, <4>1
      <4>2. CASE n # k
        <5>1. n \in 0..(k - 1) /\ (n # 0 => n - 1 \in 0..(k - 1))
          BY <3>1, <4>2
        <5> QED
          BY <3>3, <3>4, <5>1
      <4> QED
        BY <4>1, <4>2
    <3>7. f = [n \in 0..k |-> f[n]]
      OBVIOUS
    <3> HIDE DEF f
    <3>8. Done(k, f)
      BY <3>6, <3>7
    <3> QED
      BY <2>1, <3>8
  <2> QED
    BY <2>2, <2>3
<1>2. \E f : Discovered(r, a, copies, f)
  BY <1>0, <1>1 DEF Discovered
<1>3. Discovered(r, a, copies, CHOOSE f : Discovered(r, a, copies, f))
  BY <1>2
<1>4. Offer!Discover(r, a, copies) = (CHOOSE f : Discovered(r, a, copies, f))[m]
  BY DEF Offer!Discover, Discovered
<1> QED
  BY <1>3, <1>4

FoundAll(r, with, a, copies, k, E) ==
  /\ ListsKept(with)
  /\ \A kind \in Claimed : \A n : Holds(r, kind, n, E) => Holds(with, kind, n, E)
  /\ \A c \in 1..k : \A i \in 1..Len(Offer!EntriesOf(a, copies[c])) :
       LET e == Offer!EntriesOf(a, copies[c])[i] IN Holds(with, e.claim.kind, e.name, E)

LEMMA AllFound ==
  ASSUME NEW r, ListsKept(r), NEW a, NEW copies, Len(copies) \in Nat, NEW E,
         \A c \in 1..Len(copies) :
           /\ Len(Offer!EntriesOf(a, copies[c])) \in Nat
           /\ \A i \in 1..Len(Offer!EntriesOf(a, copies[c])) :
                Fine(Offer!EntriesOf(a, copies[c])[i]) /\ Offer!EntriesOf(a, copies[c])[i] \in E
  PROVE  FoundAll(r, Offer!Discover(r, a, copies), a, copies, Len(copies), E)
<1>1. PICK after : Discovered(r, a, copies, after) /\ Offer!Discover(r, a, copies) = after[Len(copies)]
  BY DiscoveredEach
<1> DEFINE m == Len(copies)
           Of(c) == Offer!EntriesOf(a, copies[c])
           Lost == {k \in 0..m : ~FoundAll(r, after[k], a, copies, k, E)}
<1>2. after = [n \in 0..m |-> IF n = 0 THEN r ELSE Offer!RegisterAll(after[n - 1], Of(n))]
  BY <1>1 DEF Discovered
<1> HIDE DEF Of
<1> SUFFICES ASSUME Lost # {} PROVE FALSE
  BY <1>1
<1>3. PICK k \in Lost : \A j \in Lost : k <= j
  <2>1. Lost \subseteq Nat
    OBVIOUS
  <2> HIDE DEF Lost
  <2> QED
    BY <2>1, LeastNat
<1>4. CASE k = 0
  <2>1. after[0] = r
    BY <1>2
  <2>2. FoundAll(r, after[0], a, copies, 0, E)
    BY <2>1 DEF FoundAll
  <2> QED
    BY <1>3, <1>4, <2>2
<1>5. CASE k # 0
  <2>1. k \in Nat /\ k \in 1..m /\ k - 1 \in 0..m /\ k - 1 < k /\ k - 1 \notin Lost
    BY <1>3, <1>5
  <2> DEFINE q == after[k - 1]
             with == after[k]
             entries == Of(k)
  <2>2. FoundAll(r, q, a, copies, k - 1, E) /\ with = Offer!RegisterAll(q, entries)
    BY <1>2, <1>5, <2>1
  <2>3. /\ ListsKept(q) /\ Len(entries) \in Nat
        /\ \A i \in 1..Len(entries) : Fine(entries[i]) /\ entries[i] \in E
    BY <2>1, <2>2 DEF FoundAll, Of
  <2> HIDE DEF q, with, entries
  <2>4. Gathers(q, with, entries, Len(entries), E)
    BY <2>2, <2>3, AllHeld
  <2>5. ASSUME NEW c \in 1..k, NEW i \in 1..Len(Of(c))
        PROVE  Holds(with, Of(c)[i].claim.kind, Of(c)[i].name, E)
    <3>1. CASE c = k
      BY <2>4, <2>5, <3>1 DEF entries, Gathers
    <3>2. CASE c # k
      <4>1. c \in 1..(k - 1) /\ c \in 1..m
        BY <2>1, <3>2
      <4>2. Holds(q, Of(c)[i].claim.kind, Of(c)[i].name, E)
        BY <2>2, <2>5, <4>1 DEF FoundAll, Of
      <4>3. Of(c)[i].claim.kind \in Claimed
        BY <2>5, <4>1 DEF Of, Fine, Offer!IsClaim, Claimed
      <4> QED
        BY <2>4, <4>2, <4>3 DEF Gathers
    <3> QED
      BY <3>1, <3>2
  <2>6. \A kind \in Claimed : \A n : Holds(r, kind, n, E) => Holds(with, kind, n, E)
    BY <2>2, <2>4 DEF FoundAll, Gathers
  <2>7. FoundAll(r, with, a, copies, k, E)
    BY <2>4, <2>5, <2>6 DEF FoundAll, Gathers, Of
  <2> QED
    BY <1>3, <2>7 DEF with
<1> QED
  BY <1>4, <1>5

-----------------------------------------------------------------------------
(* What handlers declare *)

Joins(s, t, both) ==
  /\ Offer!IsSequence(both) /\ Len(both) = Len(s) + Len(t)
  /\ \A i \in 1..Len(s) : both[i] = s[i]
  /\ \A i \in 1..Len(t) : both[Len(s) + i] = t[i]

LEMMA Joined ==
  ASSUME NEW s, NEW t, Offer!IsSequence(s), Offer!IsSequence(t)
  PROVE  Joins(s, t, s \o t)
<1> DEFINE T == {s[i] : i \in 1..Len(s)} \union {t[i] : i \in 1..Len(t)}
<1>1. /\ s \in Seq({s[i] : i \in 1..Len(s)}) /\ Len(s) \in Nat
      /\ t \in Seq({t[i] : i \in 1..Len(t)}) /\ Len(t) \in Nat
  BY AsSeq
<1>2. s \in Seq(T) /\ t \in Seq(T)
  BY <1>1
<1> HIDE DEF T
<1>3. s \o t \in Seq(T) /\ Len(s \o t) = Len(s) + Len(t)
  BY <1>2
<1>4. Offer!IsSequence(s \o t)
  BY <1>3, IsSeq
<1> QED
  BY <1>1, <1>2, <1>3, <1>4 DEF Joins

LEMMA ClaimsListed ==
  ASSUME NEW a, NEW h \in DOMAIN Marked
  PROVE  Offer!IsSequence(Offer!Claims(a, h))
<1> DEFINE foreign == Marked[h].foreign
           marks == [i \in DOMAIN foreign |-> Offer!McpTool(h, foreign[i])]
           At(by) == IF by \in DOMAIN Offer!Opt(h) THEN <<Offer!Written(h, Offer!Opt(h)[by])>> ELSE <<>>
<1>1. Offer!IsSequence(<<>>) /\ \A x : Offer!IsSequence(<<x>>)
  <2>1. <<>> \in Seq({})
    OBVIOUS
  <2>2. \A x : <<x>> \in Seq({x})
    OBVIOUS
  <2> QED
    BY <2>1, <2>2, IsSeq
<1>2. Offer!IsSequence(Offer!Metadata(a, h))
  BY <1>1 DEF Offer!Metadata
<1>3. Offer!IsSequence(marks)
  <2>1. Offer!IsSequence(foreign)
    BY ListsAssumption DEF ListsAssumption, Offer!RegistryAssumption
  <2>2. Len(foreign) \in Nat /\ DOMAIN foreign = 1..Len(foreign)
    BY <2>1, AsSeq
  <2> HIDE DEF foreign
  <2>3. marks \in Seq({marks[i] : i \in 1..Len(foreign)})
    BY <2>2
  <2> QED
    BY <2>3, IsSeq
<1>4. \A by : Offer!IsSequence(At(by))
  BY <1>1
<1> DEFINE first == IF Offer!Metadata(a, h) # <<>> THEN Offer!Metadata(a, h) ELSE marks
           opts == At("mcp_tool") \o At("mcp_resource") \o At("mcp_prompt")
<1>5. Offer!Claims(a, h) = first \o opts
  BY DEF Offer!Claims, Offer!OptClaims
<1>6. Offer!IsSequence(first)
  BY <1>2, <1>3
<1> HIDE DEF At, first
<1>7. Offer!IsSequence(At("mcp_tool") \o At("mcp_resource"))
  BY <1>4, Joined DEF Joins
<1>8. Offer!IsSequence(opts)
  BY <1>4, <1>7, Joined DEF Joins
<1> HIDE DEF opts
<1> QED
  BY <1>5, <1>6, <1>8, Joined DEF Joins

LEMMA EntriesKnown ==
  ASSUME NEW a \in Apps, NEW h \in DOMAIN Marked, NEW m
  PROVE  LET entries == Offer!EntriesOf(a, <<h, m>>) IN
         /\ Len(entries) \in Nat /\ Len(entries) = Len(Offer!Claims(a, h))
         /\ DOMAIN Offer!Claims(a, h) = 1..Len(entries)
         /\ \A i \in 1..Len(entries) :
              Fine(entries[i]) /\ entries[i] = Offer!Entry(h, m, Offer!Claims(a, h)[i])
<1> DEFINE claims == Offer!Claims(a, h)
           entries == Offer!EntriesOf(a, <<h, m>>)
<1>1. Len(claims) \in Nat /\ DOMAIN claims = 1..Len(claims)
  BY ClaimsListed, AsSeq
<1>2. \A i \in DOMAIN claims : Offer!IsClaim(claims[i])
  BY ListsAssumption DEF ListsAssumption, Offer!RegistryAssumption
<1>3. entries = [i \in DOMAIN claims |-> Offer!Entry(h, m, claims[i])]
  BY DEF Offer!EntriesOf
<1> HIDE DEF claims, entries
<1>4. Len(entries) = Len(claims)
  BY <1>1, <1>3
<1>5. ASSUME NEW i \in 1..Len(entries) PROVE Fine(entries[i]) /\ entries[i] = Offer!Entry(h, m, claims[i])
  <2>1. entries[i] = Offer!Entry(h, m, claims[i]) /\ Offer!IsClaim(claims[i])
    BY <1>1, <1>2, <1>3, <1>4
  <2> QED
    BY <2>1 DEF Fine, Offer!Entry
<1> QED
  BY <1>1, <1>4, <1>5 DEF claims, entries

LEMMA MountedMarked ==
  ASSUME NEW a \in Apps
  PROVE  /\ a.routes \in Seq(DOMAIN Marked) /\ Offer!Dynamic(a) \in Seq(DOMAIN Marked)
         /\ Offer!Mounted(a) \subseteq DOMAIN Marked /\ IsFiniteSet(Offer!Mounted(a))
<1>1. a.routes \in Seq(DOMAIN Marked) /\ a.dynamic \in Seq(DOMAIN Marked)
  BY ListsAssumption DEF ListsAssumption, Offer!RegistryAssumption
<1> DEFINE added == {i \in DOMAIN a.dynamic : Offer!Added(a, i)}
           place == [i \in added |-> i]
           order == Offer!InOrder(added, place)
<1>2. added \in SUBSET (1..Len(a.dynamic)) /\ Len(a.dynamic) \in Nat
  BY <1>1
<1>3. IsFiniteSet(added)
  BY <1>2, FS_Interval, FS_Subset
<1>4. (\A x \in added : place[x] \in Nat) /\ \A x, y \in added : place[x] = place[y] => x = y
  BY <1>2
<1> HIDE DEF place, added
<1>5. order \in Seq(added)
  BY <1>3, <1>4, Ordered
<1>6. Offer!Dynamic(a) = [k \in DOMAIN order |-> a.dynamic[order[k]]]
  BY DEF Offer!Dynamic, added, place
<1> HIDE DEF order
<1>7. ASSUME NEW k \in DOMAIN order PROVE a.dynamic[order[k]] \in DOMAIN Marked
  <2>1. order[k] \in added
    BY <1>5
  <2>2. order[k] \in 1..Len(a.dynamic)
    BY <1>2, <2>1
  <2> QED
    BY <1>1, <2>2
<1>8. Offer!Dynamic(a) \in Seq(DOMAIN Marked)
  BY <1>5, <1>6, <1>7
<1>9. ASSUME NEW s \in Seq(DOMAIN Marked)
      PROVE  Offer!ToSet(s) \subseteq DOMAIN Marked /\ IsFiniteSet(Offer!ToSet(s))
  <2>0. Len(s) \in Nat
    OBVIOUS
  <2>1. Offer!ToSet(s) = {s[i] : i \in 1..Len(s)}
    BY DEF Offer!ToSet
  <2>2. IsFiniteSet(1..Len(s))
    BY ONLY <2>0, FS_Interval
  <2>3. [i \in 1..Len(s) |-> s[i]] \in Surjection(1..Len(s), Offer!ToSet(s))
    BY <2>1 DEF Surjection
  <2> QED
    BY <2>1, <2>2, <2>3, FS_Surjection
<1>10. Offer!Mounted(a) = Offer!ToSet(a.routes) \union Offer!ToSet(Offer!Dynamic(a))
  BY DEF Offer!Mounted
<1> QED
  BY <1>1, <1>8, <1>9, <1>10, FS_Union

-----------------------------------------------------------------------------
(* The lists *)

LEMMA Places ==
  ASSUME NEW d, Offer!IsSequence(d)
  PROVE  /\ IsFiniteSet(Offer!Shown(d))
         /\ \A n \in Offer!Shown(d) :
              /\ Offer!Place(d)[n] \in Nat /\ Offer!Held(d, n) # {}
              /\ Offer!Place(d)[n] = CHOOSE i \in Offer!Held(d, n) : TRUE
         /\ \A m, n \in Offer!Shown(d) : Offer!Place(d)[m] = Offer!Place(d)[n] => m = n
<1>1. Len(d) \in Nat /\ DOMAIN d = 1..Len(d)
  BY AsSeq
<1>2. Offer!Visible(d) \in SUBSET (1..Len(d))
  BY <1>1 DEF Offer!Visible
<1>3. IsFiniteSet(Offer!Visible(d))
  <2>1. IsFiniteSet(1..Len(d))
    BY <1>1, FS_Interval
  <2> QED
    BY <1>2, <2>1, FS_Subset
<1>4. [i \in Offer!Visible(d) |-> d[i].name] \in Surjection(Offer!Visible(d), Offer!Shown(d))
  BY DEF Surjection, Offer!Shown
<1>5. IsFiniteSet(Offer!Shown(d))
  BY <1>3, <1>4, FS_Surjection
<1>6. ASSUME NEW n \in Offer!Shown(d)
      PROVE  /\ Offer!Held(d, n) # {}
             /\ Offer!Place(d)[n] = CHOOSE i \in Offer!Held(d, n) : TRUE
             /\ Offer!Place(d)[n] \in Offer!Held(d, n)
  <2>1. Offer!Held(d, n) # {}
    BY DEF Offer!Shown, Offer!Visible, Offer!Held
  <2>2. Offer!Place(d)[n] = CHOOSE i \in Offer!Held(d, n) : TRUE
    BY DEF Offer!Place
  <2> QED
    BY <2>1, <2>2
<1>7. \A n \in Offer!Shown(d) : Offer!Place(d)[n] \in 1..Len(d) /\ d[Offer!Place(d)[n]].name = n
  BY <1>1, <1>6 DEF Offer!Held
<1> QED
  BY <1>1, <1>5, <1>6, <1>7

KeyOf(r, kind) == IF kind = "tools" THEN Rank ELSE Offer!Place(r[kind])

LEMMA KeysOrder ==
  ASSUME NEW r, ListsKept(r), NEW kind \in Offer!Kinds
  PROVE  /\ IsFiniteSet(Offer!Shown(r[kind]))
         /\ \A x \in Offer!Shown(r[kind]) : KeyOf(r, kind)[x] \in Nat
         /\ \A x, y \in Offer!Shown(r[kind]) : KeyOf(r, kind)[x] = KeyOf(r, kind)[y] => x = y
         /\ Offer!Listing(r, kind) = Offer!InOrder(Offer!Shown(r[kind]), KeyOf(r, kind))
<1> DEFINE d == r[kind]
<1>1. Offer!IsSequence(d) /\ \A i \in 1..Len(d) : Fine(d[i]) /\ d[i].claim.kind = (IF kind = "templates" THEN "resources" ELSE kind)
  BY DEF ListsKept
<1>2. DOMAIN d = 1..Len(d)
  BY <1>1, AsSeq
<1>3. Offer!Listing(r, kind) = Offer!InOrder(Offer!Shown(d), KeyOf(r, kind))
  BY DEF Offer!Listing, KeyOf
<1>4. Rank \in [DOMAIN Rank -> Nat] /\ \A m, n \in DOMAIN Rank : Rank[m] = Rank[n] => m = n
  BY ListsAssumption DEF ListsAssumption, Offer!RegistryAssumption
<1> HIDE DEF d
<1>5. ASSUME kind = "tools", NEW x \in Offer!Shown(d) PROVE x \in DOMAIN Rank
  <2>1. PICK i \in 1..Len(d) : d[i].name = x
    BY <1>2 DEF Offer!Shown, Offer!Visible
  <2>2. Fine(d[i]) /\ d[i].claim.kind = "tools"
    BY <1>1, <1>5
  <2> QED
    BY <2>1, <2>2 DEF Fine, Offer!IsClaim
<1> QED
  BY <1>1, <1>3, <1>4, <1>5, Places DEF KeyOf, d

Grows(old, new) == \A i \in 1..Len(old) : \E j \in 1..Len(new) : i <= j /\ new[j] = old[i]

\* A registration that hides nothing moves what is listed away from the start only.
LEMMA ListingGrows ==
  ASSUME NEW r, ListsKept(r), NEW e, NEW with, ListsKept(with), NEW kind \in Offer!Kinds,
         with[kind] = r[kind] \/ with[kind] = Offer!Put(r[kind], e),
         Offer!Shown(r[kind]) \subseteq Offer!Shown(with[kind])
  PROVE  Grows(Offer!Listing(r, kind), Offer!Listing(with, kind))
<1> DEFINE S == Offer!Shown(r[kind])
           T == Offer!Shown(with[kind])
           key == KeyOf(r, kind)
           later == KeyOf(with, kind)
<1>1. /\ IsFiniteSet(T) /\ S \subseteq T
      /\ \A x \in T : later[x] \in Nat
      /\ \A x, y \in T : later[x] = later[y] => x = y
      /\ Offer!Listing(r, kind) = Offer!InOrder(S, key)
      /\ Offer!Listing(with, kind) = Offer!InOrder(T, later)
  BY KeysOrder
<1>2. ASSUME NEW x \in S PROVE key[x] = later[x]
  <2>1. CASE kind = "tools"
    BY <2>1 DEF KeyOf
  <2>2. CASE kind # "tools" /\ with[kind] = r[kind]
    BY <2>2 DEF KeyOf
  <2>3. CASE kind # "tools" /\ with[kind] = Offer!Put(r[kind], e)
    <3>1. Offer!IsSequence(r[kind]) /\ Offer!IsSequence(with[kind]) /\ x \in T
      BY <1>1 DEF ListsKept
    <3>2. Puts(r[kind], e, with[kind])
      BY <2>3, <3>1, Putting
    <3>3. /\ Offer!Held(r[kind], x) # {}
          /\ Offer!Place(r[kind])[x] = CHOOSE i \in Offer!Held(r[kind], x) : TRUE
          /\ Offer!Place(with[kind])[x] = CHOOSE i \in Offer!Held(with[kind], x) : TRUE
      BY <3>1, Places
    <3>4. Offer!Held(with[kind], x) = Offer!Held(r[kind], x)
      BY <3>2, <3>3 DEF Puts
    <3> QED
      BY <2>3, <3>3, <3>4 DEF KeyOf
  <2> QED
    BY <2>1, <2>2, <2>3
<1> HIDE DEF S, T, key, later
<1>3. ASSUME NEW i \in 1..Len(Offer!InOrder(S, key))
      PROVE  \E j \in 1..Len(Offer!InOrder(T, later)) :
                i <= j /\ Offer!InOrder(T, later)[j] = Offer!InOrder(S, key)[i]
  BY <1>1, <1>2, OrderGrows
<1> QED
  BY <1>1, <1>3 DEF Grows

\* The items before and behind those of the registry.
Ahead(kind) == IF kind = "resources" THEN 1 ELSE 0
Behind(kind) == IF kind = "resources" THEN Len(SkillNames) ELSE 0

\* A list made of the items it is made of.
Laid(r, kind, own, list) ==
  /\ Len(own) \in Nat /\ Behind(kind) \in Nat /\ Ahead(kind) \in {0, 1}
  /\ own \in Seq(Offer!Shown(r[kind]))
  /\ \A x \in Offer!Shown(r[kind]) : \E i \in 1..Len(own) : own[i] = x
  /\ \A i, j \in 1..Len(own) : own[i] = own[j] => i = j
  /\ Offer!IsSequence(list) /\ Len(list) = Ahead(kind) + Len(own) + Behind(kind)
  /\ \A i \in 1..Ahead(kind) : list[i] = Offer!Item("openapi", "openapi")
  /\ \A i \in 1..Len(own) : list[Ahead(kind) + i] = Offer!Item("handler", own[i])
  /\ \A i \in 1..Behind(kind) : list[Ahead(kind) + Len(own) + i] = Offer!Item("skill", SkillNames[i])

LEMMA ListParts ==
  ASSUME NEW r, ListsKept(r), NEW kind \in Offer!Kinds,
         NEW own, own = Offer!Listing(r, kind), NEW list, list = Offer!Listed(r, kind)
  PROVE  Laid(r, kind, own, list)
<1>1. /\ own \in Seq(Offer!Shown(r[kind]))
      /\ \A x \in Offer!Shown(r[kind]) : \E i \in 1..Len(own) : own[i] = x
      /\ \A i, j \in 1..Len(own) : own[i] = own[j] => i = j
  <2> DEFINE S == Offer!Shown(r[kind])
             key == KeyOf(r, kind)
  <2>1. /\ IsFiniteSet(S) /\ \A x \in S : key[x] \in Nat
        /\ \A x, y \in S : key[x] = key[y] => x = y
        /\ own = Offer!InOrder(S, key)
    BY KeysOrder
  <2> HIDE DEF S, key
  <2>2. /\ own \in Seq(S)
        /\ \A x \in S : /\ Cardinality(Below(S, key, x)) + 1 \in 1..Len(own)
                        /\ own[Cardinality(Below(S, key, x)) + 1] = x
        /\ \A i, j \in 1..Len(own) : own[i] = own[j] => i = j
    BY <2>1, Ordered
  <2>3. \A x \in S : \E i \in 1..Len(own) : own[i] = x
    BY <2>2
  <2> QED
    BY <2>2, <2>3 DEF S
<1>2. Offer!IsSequence(SkillNames)
  BY ListsAssumption DEF ListsAssumption, Offer!RegistryAssumption
<1>3. Len(SkillNames) \in Nat /\ DOMAIN SkillNames = 1..Len(SkillNames)
  BY <1>2, AsSeq
<1>4. Len(own) \in Nat /\ DOMAIN own = 1..Len(own)
  BY <1>1
<1> DEFINE mine == Offer!Items("handler", own)
           skills == Offer!Items("skill", SkillNames)
           schema == <<Offer!Item("openapi", "openapi")>>
<1>5. ASSUME NEW s, Len(s) \in Nat, DOMAIN s = 1..Len(s), NEW of
      PROVE  /\ Offer!IsSequence(Offer!Items(of, s)) /\ Len(Offer!Items(of, s)) = Len(s)
             /\ \A i \in 1..Len(s) : Offer!Items(of, s)[i] = Offer!Item(of, s[i])
  <2> DEFINE t == Offer!Items(of, s)
             n == Len(s)
  <2>1. t = [i \in 1..n |-> Offer!Item(of, s[i])] /\ n \in Nat
    BY <1>5 DEF Offer!Items
  <2> HIDE DEF t, n
  <2>2. t \in Seq({t[i] : i \in 1..n}) /\ Len(t) = n
    BY <2>1
  <2> QED
    BY <2>1, <2>2, IsSeq DEF t, n
<1>6. /\ Offer!IsSequence(mine) /\ Len(mine) = Len(own)
      /\ \A i \in 1..Len(own) : mine[i] = Offer!Item("handler", own[i])
  BY <1>4, <1>5
<1>7. /\ Offer!IsSequence(skills) /\ Len(skills) = Len(SkillNames)
      /\ \A i \in 1..Len(SkillNames) : skills[i] = Offer!Item("skill", SkillNames[i])
  BY <1>3, <1>5
<1>8. Offer!IsSequence(schema) /\ Len(schema) = 1 /\ schema[1] = Offer!Item("openapi", "openapi")
  <2>1. schema \in Seq({Offer!Item("openapi", "openapi")})
    OBVIOUS
  <2> QED
    BY <2>1, IsSeq
<1>9. list = IF kind = "resources" THEN schema \o mine \o skills ELSE mine
  BY DEF Offer!Listed
<1> HIDE DEF mine, skills, schema
<1>10. CASE kind = "resources"
  <2> DEFINE front == schema \o mine
  <2>1. Joins(schema, mine, front)
    BY <1>6, <1>8, Joined
  <2>2. list = front \o skills /\ Ahead(kind) = 1 /\ Behind(kind) = Len(SkillNames)
    BY <1>9, <1>10 DEF Ahead, Behind
  <2> HIDE DEF front
  <2>3. Joins(front, skills, front \o skills)
    <3>1. Offer!IsSequence(front)
      BY <2>1 DEF Joins
    <3> QED
      BY <1>7, <3>1, Joined
  <2>4. /\ Len(front) = 1 + Len(own)
        /\ \A i \in 1..1 : front[i] = Offer!Item("openapi", "openapi")
        /\ \A i \in 1..Len(own) : front[1 + i] = Offer!Item("handler", own[i])
    BY <1>6, <1>8, <2>1 DEF Joins
  <2>5. /\ Offer!IsSequence(list) /\ Len(list) = Len(front) + Len(SkillNames)
        /\ \A i \in 1..Len(front) : list[i] = front[i]
        /\ \A i \in 1..Len(SkillNames) : list[Len(front) + i] = Offer!Item("skill", SkillNames[i])
    BY <1>7, <2>2, <2>3 DEF Joins
  <2>6. \A i \in 1..1 : list[i] = Offer!Item("openapi", "openapi")
    BY <1>4, <2>4, <2>5
  <2>7. \A i \in 1..Len(own) : list[1 + i] = Offer!Item("handler", own[i])
    BY <1>4, <2>4, <2>5
  <2>8. \A i \in 1..Len(SkillNames) : list[1 + Len(own) + i] = Offer!Item("skill", SkillNames[i])
    BY <2>4, <2>5
  <2>9. Len(list) = 1 + Len(own) + Len(SkillNames)
    BY <2>4, <2>5
  <2> QED
    BY <1>1, <1>3, <1>4, <2>2, <2>5, <2>6, <2>7, <2>8, <2>9 DEF Laid
<1>11. CASE kind # "resources"
  BY <1>1, <1>4, <1>6, <1>9, <1>11 DEF Ahead, Behind, Laid
<1> QED
  BY <1>10, <1>11

LEMMA Regions ==
  ASSUME NEW r, NEW kind, NEW own, NEW list, Laid(r, kind, own, list), NEW i \in 1..Len(list)
  PROVE  \/ i \in 1..Ahead(kind)
         \/ \E k \in 1..Len(own) : i = Ahead(kind) + k
         \/ \E k \in 1..Behind(kind) : i = Ahead(kind) + Len(own) + k
<1>1. /\ Len(own) \in Nat /\ Behind(kind) \in Nat /\ Ahead(kind) \in {0, 1}
      /\ Len(list) = Ahead(kind) + Len(own) + Behind(kind)
  BY DEF Laid
<1>2. CASE i <= Ahead(kind)
  BY <1>1, <1>2
<1>3. CASE i > Ahead(kind) /\ i <= Ahead(kind) + Len(own)
  <2>1. i - Ahead(kind) \in 1..Len(own) /\ i = Ahead(kind) + (i - Ahead(kind))
    BY <1>1, <1>3
  <2> QED
    BY <2>1
<1>4. CASE i > Ahead(kind) + Len(own)
  <2>1. /\ i - (Ahead(kind) + Len(own)) \in 1..Behind(kind)
        /\ i = Ahead(kind) + Len(own) + (i - (Ahead(kind) + Len(own)))
    BY <1>1, <1>4
  <2> QED
    BY <2>1
<1> QED
  BY <1>1, <1>2, <1>3, <1>4

LEMMA ListedOnce ==
  ASSUME NEW r, NEW kind, NEW own, NEW list, Laid(r, kind, own, list),
         NEW i \in 1..Len(list), NEW j \in 1..Len(list), list[i] = list[j]
  PROVE  i = j
<1>1. /\ Len(own) \in Nat /\ Behind(kind) \in Nat /\ Ahead(kind) \in {0, 1}
      /\ \A n \in 1..Ahead(kind) : list[n] = Offer!Item("openapi", "openapi")
      /\ \A n \in 1..Len(own) : list[Ahead(kind) + n] = Offer!Item("handler", own[n])
      /\ \A n \in 1..Behind(kind) : list[Ahead(kind) + Len(own) + n] = Offer!Item("skill", SkillNames[n])
      /\ \A m, n \in 1..Len(own) : own[m] = own[n] => m = n
  BY DEF Laid
<1>2. \A m, n \in 1..Behind(kind) : SkillNames[m] = SkillNames[n] => m = n
  <2>1. Offer!IsSequence(SkillNames) /\ \A m, n \in DOMAIN SkillNames : SkillNames[m] = SkillNames[n] => m = n
    BY ListsAssumption DEF ListsAssumption, Offer!RegistryAssumption
  <2>2. DOMAIN SkillNames = 1..Len(SkillNames)
    BY <2>1, AsSeq
  <2> QED
    BY <2>1, <2>2 DEF Behind
<1>3. \A k \in {i, j} :
        \/ k \in 1..Ahead(kind) /\ list[k].of = "openapi"
        \/ \E n \in 1..Len(own) : k = Ahead(kind) + n /\ list[k].of = "handler" /\ list[k].name = own[n]
        \/ \E n \in 1..Behind(kind) : k = Ahead(kind) + Len(own) + n /\ list[k].of = "skill" /\ list[k].name = SkillNames[n]
  <2> SUFFICES ASSUME NEW k \in {i, j}
               PROVE  \/ k \in 1..Ahead(kind) /\ list[k].of = "openapi"
                      \/ \E n \in 1..Len(own) : k = Ahead(kind) + n /\ list[k].of = "handler" /\ list[k].name = own[n]
                      \/ \E n \in 1..Behind(kind) : k = Ahead(kind) + Len(own) + n /\ list[k].of = "skill" /\ list[k].name = SkillNames[n]
    OBVIOUS
  <2>1. k \in 1..Len(list)
    OBVIOUS
  <2>2. \/ k \in 1..Ahead(kind)
        \/ \E n \in 1..Len(own) : k = Ahead(kind) + n
        \/ \E n \in 1..Behind(kind) : k = Ahead(kind) + Len(own) + n
    BY <2>1, Regions
  <2>3. CASE k \in 1..Ahead(kind)
    <3>1. list[k] = Offer!Item("openapi", "openapi")
      BY <1>1, <2>3
    <3> QED
      BY <2>3, <3>1 DEF Offer!Item
  <2>4. ASSUME NEW n \in 1..Len(own), k = Ahead(kind) + n
        PROVE  list[k].of = "handler" /\ list[k].name = own[n]
    <3>1. list[k] = Offer!Item("handler", own[n])
      BY <2>4 DEF Laid
    <3> QED
      BY <3>1 DEF Offer!Item
  <2>5. ASSUME NEW n \in 1..Behind(kind), k = Ahead(kind) + Len(own) + n
        PROVE  list[k].of = "skill" /\ list[k].name = SkillNames[n]
    <3>1. list[k] = Offer!Item("skill", SkillNames[n])
      BY <2>5 DEF Laid
    <3> QED
      BY <3>1 DEF Offer!Item
  <2> QED
    BY <2>2, <2>3, <2>4, <2>5
<1> QED
  BY <1>1, <1>2, <1>3

LEMMA HandlerItems ==
  ASSUME NEW r, NEW kind, NEW own, NEW list, Laid(r, kind, own, list), NEW x
  PROVE  x \in Offer!Shown(r[kind]) <=> \E i \in 1..Len(list) : list[i] = Offer!Item("handler", x)
<1>1. /\ Len(own) \in Nat /\ Behind(kind) \in Nat /\ Ahead(kind) \in {0, 1}
      /\ Len(list) = Ahead(kind) + Len(own) + Behind(kind)
      /\ own \in Seq(Offer!Shown(r[kind]))
      /\ \A y \in Offer!Shown(r[kind]) : \E i \in 1..Len(own) : own[i] = y
      /\ \A n \in 1..Ahead(kind) : list[n] = Offer!Item("openapi", "openapi")
      /\ \A n \in 1..Len(own) : list[Ahead(kind) + n] = Offer!Item("handler", own[n])
      /\ \A n \in 1..Behind(kind) : list[Ahead(kind) + Len(own) + n] = Offer!Item("skill", SkillNames[n])
  BY DEF Laid
<1>2. ASSUME x \in Offer!Shown(r[kind]) PROVE \E i \in 1..Len(list) : list[i] = Offer!Item("handler", x)
  <2>1. PICK k \in 1..Len(own) : own[k] = x
    BY <1>1, <1>2
  <2>2. Ahead(kind) + k \in 1..Len(list)
    BY <1>1
  <2>3. list[Ahead(kind) + k] = Offer!Item("handler", own[k])
    BY DEF Laid
  <2> QED
    BY <2>1, <2>2, <2>3
<1>3. ASSUME NEW i \in 1..Len(list), list[i] = Offer!Item("handler", x) PROVE x \in Offer!Shown(r[kind])
  <2>1. \/ i \in 1..Ahead(kind)
        \/ \E k \in 1..Len(own) : i = Ahead(kind) + k
        \/ \E k \in 1..Behind(kind) : i = Ahead(kind) + Len(own) + k
    BY Regions
  <2>2. list[i].of = "handler" /\ list[i].name = x
    BY <1>3 DEF Offer!Item
  <2>3. ~(i \in 1..Ahead(kind))
    BY <2>2 DEF Laid, Offer!Item
  <2>4. ASSUME NEW k \in 1..Behind(kind), i = Ahead(kind) + Len(own) + k PROVE FALSE
    <3>1. list[i] = Offer!Item("skill", SkillNames[k])
      BY <2>4 DEF Laid
    <3> QED
      BY <2>2, <3>1 DEF Offer!Item
  <2>5. PICK k \in 1..Len(own) : i = Ahead(kind) + k
    BY <2>1, <2>3, <2>4
  <2>6. list[i] = Offer!Item("handler", own[k])
    BY <2>5 DEF Laid
  <2>7. x = own[k]
    BY <2>2, <2>6 DEF Offer!Item
  <2> QED
    BY <1>1, <2>7
<1> QED
  BY <1>2, <1>3

\* What is registered moves the items of a list away from its start, unless one went.
LEMMA ListGrows ==
  ASSUME NEW r, ListsKept(r), NEW e, NEW with, ListsKept(with), NEW kind \in Offer!Kinds,
         with[kind] = r[kind] \/ with[kind] = Offer!Put(r[kind], e),
         Offer!ToSet(Offer!Listed(r, kind)) \subseteq Offer!ToSet(Offer!Listed(with, kind))
  PROVE  Grows(Offer!Listed(r, kind), Offer!Listed(with, kind))
<1> DEFINE own == Offer!Listing(r, kind)
           more == Offer!Listing(with, kind)
           L == Offer!Listed(r, kind)
           M == Offer!Listed(with, kind)
<1>1. Laid(r, kind, own, L) /\ Laid(with, kind, more, M)
  BY ListParts
<1>0. Offer!ToSet(L) \subseteq Offer!ToSet(M)
  OBVIOUS
<1> HIDE DEF L, M
<1>2. Offer!ToSet(L) = {L[i] : i \in 1..Len(L)} /\ Offer!ToSet(M) = {M[i] : i \in 1..Len(M)}
  BY <1>1, AsSeq DEF Laid, Offer!ToSet
<1>3. Offer!Shown(r[kind]) \subseteq Offer!Shown(with[kind])
  <2> SUFFICES ASSUME NEW x \in Offer!Shown(r[kind]) PROVE x \in Offer!Shown(with[kind])
    OBVIOUS
  <2>1. PICK i \in 1..Len(L) : L[i] = Offer!Item("handler", x)
    BY <1>1, HandlerItems
  <2>2. PICK j \in 1..Len(M) : M[j] = Offer!Item("handler", x)
    BY <1>0, <1>2, <2>1
  <2> QED
    BY <1>1, <2>2, HandlerItems
<1>4. Grows(own, more)
  BY <1>3, ListingGrows
<1> HIDE DEF own, more
<1>5. /\ Len(own) \in Nat /\ Len(more) \in Nat /\ Behind(kind) \in Nat /\ Ahead(kind) \in {0, 1}
      /\ Len(L) = Ahead(kind) + Len(own) + Behind(kind) /\ Len(M) = Ahead(kind) + Len(more) + Behind(kind)
  BY <1>1 DEF Laid
<1>6. Len(own) <= Len(more)
  <2>1. CASE Len(own) = 0
    BY <1>5, <2>1
  <2>2. CASE Len(own) # 0
    <3>1. Len(own) \in 1..Len(own)
      BY <1>5, <2>2
    <3>2. PICK j \in 1..Len(more) : Len(own) <= j
      BY <1>4, <3>1 DEF Grows
    <3> QED
      BY <1>5, <3>2
  <2> QED
    BY <2>1, <2>2
<1>7. ASSUME NEW i \in 1..Len(L) PROVE \E j \in 1..Len(M) : i <= j /\ M[j] = L[i]
  <2>1. \/ i \in 1..Ahead(kind)
        \/ \E k \in 1..Len(own) : i = Ahead(kind) + k
        \/ \E k \in 1..Behind(kind) : i = Ahead(kind) + Len(own) + k
    BY <1>1, Regions
  <2>2. CASE i \in 1..Ahead(kind)
    <3>1. i \in 1..Len(M) /\ M[i] = L[i] /\ i <= i
      BY <1>1, <1>5, <2>2 DEF Laid
    <3> QED
      BY <3>1
  <2>3. ASSUME NEW k \in 1..Len(own), i = Ahead(kind) + k PROVE \E j \in 1..Len(M) : i <= j /\ M[j] = L[i]
    <3>1. PICK j \in 1..Len(more) : k <= j /\ more[j] = own[k]
      BY <1>4 DEF Grows
    <3>2. L[i] = Offer!Item("handler", own[k]) /\ M[Ahead(kind) + j] = Offer!Item("handler", more[j])
      BY <1>1, <2>3 DEF Laid
    <3>3. Ahead(kind) + j \in 1..Len(M) /\ i <= Ahead(kind) + j
      BY <1>5, <2>3, <3>1
    <3> QED
      BY <3>1, <3>2, <3>3
  <2>4. ASSUME NEW k \in 1..Behind(kind), i = Ahead(kind) + Len(own) + k
        PROVE  \E j \in 1..Len(M) : i <= j /\ M[j] = L[i]
    <3>1. L[i] = Offer!Item("skill", SkillNames[k]) /\ M[Ahead(kind) + Len(more) + k] = Offer!Item("skill", SkillNames[k])
      BY <1>1, <2>4 DEF Laid
    <3>2. Ahead(kind) + Len(more) + k \in 1..Len(M) /\ i <= Ahead(kind) + Len(more) + k
      BY <1>5, <1>6, <2>4
    <3> QED
      BY <3>1, <3>2
  <2> QED
    BY <2>1, <2>2, <2>3, <2>4
<1> QED
  BY <1>7 DEF Grows, L, M

LEMMA Counts ==
  ASSUME NEW list, Offer!IsSequence(list), \A i, j \in 1..Len(list) : list[i] = list[j] => i = j
  PROVE  Cardinality(Offer!ToSet(list)) = Len(list)
<1>1. Len(list) \in Nat /\ DOMAIN list = 1..Len(list)
  BY AsSeq
<1> DEFINE n == Len(list)
           T == Offer!ToSet(list)
           f == [i \in 1..n |-> list[i]]
<1>2. T = {list[i] : i \in 1..n}
  BY <1>1 DEF Offer!ToSet
<1> HIDE DEF T
<1>3. f \in Bijection(1..n, T)
  BY <1>2 DEF Bijection, Injection, Surjection, IsInjective
<1>4. ExistsBijection(1..n, T)
  BY <1>3 DEF ExistsBijection
<1>5. Cardinality(T) = n
  BY <1>1, <1>4, FS_CountingElements
<1> QED
  BY <1>5 DEF T

LEMMA LeastIs ==
  ASSUME NEW S, S \subseteq Nat, NEW i \in S, \A k \in S : i <= k
  PROVE  Offer!Min(S) = i
<1> DEFINE Least(x) == x \in S /\ \A y \in S : x <= y
<1>1. Least(Offer!Min(S))
  <2>1. Least(i)
    OBVIOUS
  <2>2. Offer!Min(S) = CHOOSE x \in S : \A y \in S : x <= y
    BY DEF Offer!Min
  <2> QED
    BY <2>1, <2>2
<1>2. Offer!Min(S) \in Nat /\ Offer!Min(S) <= i /\ i <= Offer!Min(S) /\ i \in Nat
  BY <1>1
<1> QED
  BY <1>2

-----------------------------------------------------------------------------
(* Paging: what is there and still to come is behind the offset. *)

PageOf(list, offset, page) ==
  /\ Offer!IsSequence(page.names)
  /\ \A i \in 1..Len(list) : offset < i /\ i <= offset + PageSize =>
       \E k \in 1..Len(page.names) : page.names[k] = list[i]
  /\ offset <= Len(list) =>
       Len(page.names) = (IF offset + PageSize < Len(list) THEN PageSize ELSE Len(list) - offset)
  /\ page.next = (IF offset + PageSize < Len(list) THEN offset + PageSize ELSE 0)

LEMMA Paged ==
  ASSUME NEW list, Offer!IsSequence(list), NEW offset \in Nat
  PROVE  PageOf(list, offset, Offer!Page(list, offset))
<1> DEFINE n == Len(list)
           last == IF offset + PageSize < n THEN offset + PageSize ELSE n
           names == SubSeq(list, offset + 1, last)
<1>1. PageSize \in Nat \ {0}
  BY ListsAssumption DEF ListsAssumption, Offer!RegistryAssumption
<1>2. list \in Seq({list[i] : i \in 1..n}) /\ n \in Nat
  BY AsSeq
<1>3. Offer!Min({offset + PageSize, n}) = last
  <2> DEFINE S == {offset + PageSize, n}
  <2>1. S \subseteq Nat /\ last \in S /\ \A k \in S : last <= k
    BY <1>1, <1>2
  <2> HIDE DEF S, last
  <2>2. Offer!Min(S) = last
    BY <2>1, LeastIs
  <2> QED
    BY <2>2 DEF S
<1>4. Offer!Page(list, offset) = [names |-> names, next |-> IF offset + PageSize < n THEN offset + PageSize ELSE 0]
  BY <1>3 DEF Offer!Page, Offer!Names, Offer!More
<1>5. last \in Nat /\ last <= n /\ last <= offset + PageSize
      /\ \A i \in 1..n : i <= offset + PageSize => i <= last
  BY <1>1, <1>2
<1> DEFINE T == {list[i] : i \in 1..n}
<1>6. /\ names \in Seq(T) /\ Len(names) = (IF offset + 1 <= last THEN last - (offset + 1) + 1 ELSE 0)
      /\ \A i \in 1..(last - (offset + 1) + 1) : names[i] = list[offset + 1 + i - 1]
  <2>1. \A i \in (offset + 1)..last : list[i] \in T
    BY <1>2, <1>5
  <2>2. offset + 1 \in Int /\ last \in Int
    BY <1>5
  <2> HIDE DEF T, last
  <2> QED
    BY <2>1, <2>2, SubSeqProperties
<1> HIDE DEF T, names, last, n
<1>7. Offer!IsSequence(names)
  BY <1>6, IsSeq
<1>8. ASSUME NEW i \in 1..n, offset < i, i <= offset + PageSize
      PROVE  \E k \in 1..Len(names) : names[k] = list[i]
  <2>1. i <= last /\ last \in Nat /\ n \in Nat
    BY <1>2, <1>5, <1>8
  <2>2. i - offset \in 1..Len(names) /\ i - offset \in 1..(last - (offset + 1) + 1) /\ offset + 1 + (i - offset) - 1 = i
    BY <1>6, <1>8, <2>1
  <2>3. names[i - offset] = list[i]
    BY <1>6, <2>2
  <2> QED
    BY <2>2, <2>3
<1>9. offset <= n => Len(names) = IF offset + PageSize < n THEN PageSize ELSE n - offset
  BY <1>1, <1>2, <1>6 DEF last
<1> QED
  BY <1>4, <1>7, <1>8, <1>9 DEF PageOf, n

IsClient(c) ==
  c = [kind |-> c.kind, at |-> c.at, offset |-> c.offset, got |-> c.got, stayed |-> c.stayed,
       changed |-> c.changed, shrank |-> c.shrank]

PagingKept(c, list) ==
  /\ c.offset \in Nat /\ Offer!IsSequence(c.got)
  /\ ~c.shrank => \A x \in c.stayed : \/ \E i \in 1..Len(c.got) : c.got[i] = x
                                      \/ \E i \in 1..Len(list) : c.offset < i /\ list[i] = x
  /\ ~c.changed => /\ c.stayed = Offer!ToSet(list)
                   /\ Len(c.got) = c.offset /\ c.offset <= Len(list)

AllGot(c) ==
  /\ ~c.shrank => c.stayed \subseteq Offer!ToSet(c.got)
  /\ ~c.changed => Len(c.got) = Cardinality(c.stayed)

ClientKept(c, r) ==
  /\ IsClient(c) /\ c.at \in {"away", "paging", "done"}
  /\ c.at = "paging" => c.kind \in Offer!Kinds /\ PagingKept(c, Offer!Listed(r, c.kind))
  /\ c.at = "done" => AllGot(c)

ListsInv ==
  /\ ListsKept(registry) /\ ClientKept(client, registry)
  /\ stage \in {"configured", "initialised"} => app \in Apps /\ client.at = "away"

\* A list is a sequence without repetition.
LEMMA ListFacts ==
  ASSUME NEW r, ListsKept(r), NEW kind \in Offer!Kinds, NEW list, list = Offer!Listed(r, kind)
  PROVE  /\ Offer!IsSequence(list) /\ Offer!ToSet(list) = {list[i] : i \in 1..Len(list)}
         /\ Cardinality(Offer!ToSet(list)) = Len(list)
<1> DEFINE own == Offer!Listing(r, kind)
<1>1. Laid(r, kind, own, list)
  BY ListParts
<1> HIDE DEF own
<1>2. Offer!IsSequence(list)
  BY <1>1 DEF Laid
<1>3. \A i, j \in 1..Len(list) : list[i] = list[j] => i = j
  BY <1>1, ListedOnce
<1>4. Cardinality(Offer!ToSet(list)) = Len(list)
  BY <1>2, <1>3, Counts
<1>5. DOMAIN list = 1..Len(list)
  BY <1>2, AsSeq
<1> QED
  BY <1>2, <1>4, <1>5 DEF Offer!ToSet

Receiving(c, page) ==
  [c EXCEPT !.got = @ \o page.names, !.offset = page.next, !.at = IF page.next = 0 THEN "done" ELSE "paging"]

LEMMA PageReceived ==
  ASSUME NEW c, NEW r, ListsKept(r), ClientKept(c, r), c.at = "paging",
         NEW page, page = Offer!Page(Offer!Listed(r, c.kind), c.offset), NEW d, d = Receiving(c, page)
  PROVE  ClientKept(d, r)
<1> DEFINE list == Offer!Listed(r, c.kind)
           n == Len(list)
<1>1. IsClient(c) /\ c.kind \in Offer!Kinds /\ PagingKept(c, list)
  BY DEF ClientKept
<1>2. /\ Offer!IsSequence(list) /\ Offer!ToSet(list) = {list[i] : i \in 1..n}
      /\ Cardinality(Offer!ToSet(list)) = n
  BY <1>1, ListFacts
<1>0. page = Offer!Page(list, c.offset)
  OBVIOUS
<1> HIDE DEF list
<1>3. PageOf(list, c.offset, page)
  <2>1. c.offset \in Nat
    BY <1>1 DEF PagingKept
  <2> QED
    BY <1>0, <1>2, <2>1, Paged
<1>4. n \in Nat /\ PageSize \in Nat \ {0} /\ c.offset \in Nat
  BY <1>1, <1>2, ListsAssumption DEF ListsAssumption, Offer!RegistryAssumption, Offer!IsSequence, PagingKept
<1> DEFINE got == c.got \o page.names
<1>5. Joins(c.got, page.names, got)
  BY <1>1, <1>3, Joined DEF PagingKept, PageOf
<1>6. d = [kind |-> c.kind, at |-> IF page.next = 0 THEN "done" ELSE "paging", offset |-> page.next, got |-> got,
           stayed |-> c.stayed, changed |-> c.changed, shrank |-> c.shrank]
  BY <1>1 DEF IsClient, Receiving
<1> HIDE DEF got
<1>7. Len(c.got) \in Nat /\ Len(page.names) \in Nat /\ Offer!IsSequence(got)
  BY <1>1, <1>3, <1>5 DEF PagingKept, PageOf, Offer!IsSequence, Joins
<1> DEFINE p == Len(c.got)
           q == Len(page.names)
           g == Len(got)
<1>a. p \in Nat /\ q \in Nat /\ g = p + q
  BY <1>5, <1>7 DEF Joins
<1> HIDE DEF p, q, g
<1>8. ASSUME NEW x, \E i \in 1..Len(c.got) : c.got[i] = x PROVE \E i \in 1..Len(got) : got[i] = x
  <2>1. PICK i \in 1..Len(c.got) : c.got[i] = x
    BY <1>8
  <2>2. i \in 1..g
    BY <1>a, <2>1 DEF p
  <2>3. got[i] = c.got[i]
    BY <1>5 DEF Joins
  <2> QED
    BY <2>1, <2>2, <2>3 DEF g
<1>9. ASSUME NEW x, \E i \in 1..Len(page.names) : page.names[i] = x PROVE \E i \in 1..Len(got) : got[i] = x
  <2>1. PICK i \in 1..Len(page.names) : page.names[i] = x
    BY <1>9
  <2>2. got[Len(c.got) + i] = x
    BY <1>5, <2>1 DEF Joins
  <2>3. Len(c.got) + i \in 1..Len(got)
    <3>1. i \in 1..q /\ p = Len(c.got) /\ g = Len(got)
      BY DEF p, q, g
    <3> HIDE DEF p, q, g
    <3>2. p + i \in 1..g
      BY <1>a, <3>1
    <3> QED
      BY <3>1, <3>2
  <2> QED
    BY <2>2, <2>3
<1>10. ASSUME NEW i \in 1..n, c.offset < i
       PROVE  (\E k \in 1..Len(got) : got[k] = list[i]) \/ (c.offset + PageSize < n /\ c.offset + PageSize < i)
  <2>1. CASE i <= c.offset + PageSize
    <3>1. \E k \in 1..Len(page.names) : page.names[k] = list[i]
      BY <1>3, <1>10, <2>1 DEF PageOf
    <3> QED
      BY <1>9, <3>1
  <2>2. CASE ~(i <= c.offset + PageSize)
    BY <1>4, <1>10, <2>2
  <2> QED
    BY <2>1, <2>2
<1>11. ~c.shrank => \A x \in c.stayed :
         \/ \E i \in 1..Len(got) : got[i] = x
         \/ \E i \in 1..n : c.offset + PageSize < n /\ c.offset + PageSize < i /\ list[i] = x
  <2> SUFFICES ASSUME ~c.shrank, NEW x \in c.stayed
               PROVE  \/ \E i \in 1..Len(got) : got[i] = x
                      \/ \E i \in 1..n : c.offset + PageSize < n /\ c.offset + PageSize < i /\ list[i] = x
    OBVIOUS
  <2>1. \/ \E i \in 1..Len(c.got) : c.got[i] = x
        \/ \E i \in 1..n : c.offset < i /\ list[i] = x
    BY <1>1 DEF PagingKept
  <2>2. CASE \E i \in 1..Len(c.got) : c.got[i] = x
    BY <1>8, <2>2
  <2>3. CASE \E i \in 1..n : c.offset < i /\ list[i] = x
    BY <1>10, <2>3
  <2> QED
    BY <2>1, <2>2, <2>3
<1>12. ~c.changed => c.stayed = Offer!ToSet(list) /\ Len(c.got) = c.offset /\ c.offset <= n
  BY <1>1 DEF PagingKept
<1>13. CASE c.offset + PageSize < n
  <2>1. page.next = c.offset + PageSize /\ page.next \in Nat /\ page.next # 0
    BY <1>3, <1>4, <1>13 DEF PageOf
  <2>2. IsClient(d) /\ d.at = "paging" /\ d.kind = c.kind
    BY <1>6, <2>1 DEF IsClient
  <2>3. ~c.changed => Len(got) = page.next /\ page.next <= n
    <3>1. c.offset <= n => q = PageSize
      BY <1>3, <1>13 DEF PageOf, q
    <3>2. ~c.changed => p = c.offset /\ c.offset <= n
      BY <1>12 DEF p
    <3>3. ASSUME ~c.changed PROVE g = c.offset + PageSize
      BY <1>4, <1>a, <3>1, <3>2, <3>3
    <3>4. c.offset + PageSize <= n
      BY <1>4, <1>13
    <3> QED
      BY <2>1, <3>3, <3>4 DEF g
  <2>4. PagingKept(d, list)
    BY <1>6, <1>7, <1>11, <1>12, <2>1, <2>3 DEF PagingKept
  <2> QED
    BY <1>1, <2>2, <2>4 DEF ClientKept, list
<1>14. CASE ~(c.offset + PageSize < n)
  <2>1. page.next = 0
    BY <1>3, <1>14 DEF PageOf
  <2>2. IsClient(d) /\ d.at = "done" /\ d.kind = c.kind
    BY <1>6, <2>1 DEF IsClient
  <2>3. Offer!ToSet(got) = {got[i] : i \in 1..Len(got)}
    BY <1>7, AsSeq DEF Offer!ToSet
  <2>4. ~c.shrank => c.stayed \subseteq Offer!ToSet(got)
    BY <1>11, <1>14, <2>3
  <2>5. ~c.changed => Len(got) = n
    <3>1. c.offset <= n => q = n - c.offset
      BY <1>3, <1>14 DEF PageOf, q
    <3>2. ~c.changed => p = c.offset /\ c.offset <= n
      BY <1>12 DEF p
    <3>3. ASSUME ~c.changed PROVE g = n
      BY <1>4, <1>a, <3>1, <3>2, <3>3
    <3> QED
      BY <3>3 DEF g
  <2>6. AllGot(d)
    <3>1. d.got = got /\ d.stayed = c.stayed /\ d.changed = c.changed /\ d.shrank = c.shrank
      BY <1>6
    <3>2. ~c.changed => Len(got) = Cardinality(c.stayed)
      BY <1>2, <1>12, <2>5
    <3> QED
      BY <2>4, <3>1, <3>2 DEF AllGot
  <2> QED
    BY <2>2, <2>6 DEF ClientKept
<1> QED
  BY <1>13, <1>14

Watching(c, r, with) ==
  [c EXCEPT !.stayed = @ \cap Offer!ToSet(Offer!Listed(with, c.kind)),
            !.changed = @ \/ Offer!Listed(with, c.kind) # Offer!Listed(r, c.kind),
            !.shrank = @ \/ ~(Offer!ToSet(Offer!Listed(r, c.kind)) \subseteq Offer!ToSet(Offer!Listed(with, c.kind)))]

LEMMA Watches ==
  ASSUME NEW c, NEW r, ListsKept(r), ClientKept(c, r), c.at = "paging",
         NEW e, NEW with, ListsKept(with),
         \A kind \in Offer!Kinds : with[kind] = r[kind] \/ with[kind] = Offer!Put(r[kind], e),
         NEW d, d = Watching(c, r, with)
  PROVE  ClientKept(d, with)
<1> DEFINE L == Offer!Listed(r, c.kind)
           M == Offer!Listed(with, c.kind)
           now == Offer!ToSet(M)
           before == Offer!ToSet(L)
<1>1. IsClient(c) /\ c.kind \in Offer!Kinds /\ PagingKept(c, L)
  BY DEF ClientKept
<1>2. Offer!ToSet(L) = {L[i] : i \in 1..Len(L)} /\ Offer!ToSet(M) = {M[i] : i \in 1..Len(M)}
      /\ Offer!IsSequence(L) /\ Offer!IsSequence(M)
  BY <1>1, ListFacts
<1>3. before \subseteq now => Grows(L, M)
  BY <1>1, ListGrows
<1>4. d = [kind |-> c.kind, at |-> c.at, offset |-> c.offset, got |-> c.got,
           stayed |-> c.stayed \cap now, changed |-> c.changed \/ M # L, shrank |-> c.shrank \/ ~(before \subseteq now)]
  BY <1>1 DEF IsClient, Watching
<1>5. ClientKept(d, with) <=> (IsClient(d) /\ d.at = "paging" /\ PagingKept(d, M))
  BY <1>1, <1>4 DEF ClientKept
<1> HIDE DEF L, M
<1>6. IsClient(d) /\ d.at = "paging" /\ d.offset = c.offset /\ d.got = c.got /\ d.stayed = c.stayed \cap now
      /\ (~d.changed => ~c.changed /\ M = L) /\ (~d.shrank => ~c.shrank /\ before \subseteq now)
  <2>1. /\ d.kind = c.kind /\ d.at = c.at /\ d.offset = c.offset /\ d.got = c.got /\ d.stayed = c.stayed \cap now
        /\ d.changed = (c.changed \/ M # L) /\ d.shrank = (c.shrank \/ ~(before \subseteq now))
    BY <1>4
  <2>2. IsClient(d)
    BY <1>4, <2>1 DEF IsClient
  <2> QED
    BY <2>1, <2>2
<1>7. c.offset \in Nat /\ Offer!IsSequence(c.got)
  BY <1>1 DEF PagingKept
<1>8. ASSUME ~d.shrank, NEW x \in d.stayed
      PROVE  \/ \E i \in 1..Len(c.got) : c.got[i] = x
             \/ \E i \in 1..Len(M) : c.offset < i /\ M[i] = x
  <2>1. \/ \E i \in 1..Len(c.got) : c.got[i] = x
        \/ \E i \in 1..Len(L) : c.offset < i /\ L[i] = x
    BY <1>1, <1>6, <1>8 DEF PagingKept
  <2>2. ASSUME NEW i \in 1..Len(L), c.offset < i, L[i] = x
        PROVE  \E j \in 1..Len(M) : c.offset < j /\ M[j] = x
    <3>1. PICK j \in 1..Len(M) : i <= j /\ M[j] = L[i]
      BY <1>3, <1>6, <1>8 DEF Grows
    <3>2. Len(L) \in Nat /\ Len(M) \in Nat
      BY <1>2 DEF Offer!IsSequence
    <3>3. c.offset < j
      BY <1>7, <2>2, <3>1, <3>2
    <3> QED
      BY <2>2, <3>1, <3>3
  <2> QED
    BY <2>1, <2>2
<1>9. ASSUME ~d.changed PROVE d.stayed = Offer!ToSet(M) /\ Len(c.got) = c.offset /\ c.offset <= Len(M)
  BY <1>1, <1>6, <1>9 DEF PagingKept
<1>10. PagingKept(d, M)
  BY <1>6, <1>7, <1>8, <1>9 DEF PagingKept
<1> QED
  BY <1>5, <1>6, <1>10

-----------------------------------------------------------------------------
(* The lists in every state *)

LEMMA NothingHeld == ListsKept(Offer!Empty)
<1>1. \A kind \in Offer!Kinds : Offer!Empty[kind] = <<>>
  BY DEF Offer!Empty
<1>2. Offer!IsSequence(<<>>) /\ Len(<<>>) = 0
  <2>1. <<>> \in Seq({})
    OBVIOUS
  <2> QED
    BY <2>1, IsSeq
<1>3. Offer!Empty = [kind \in Offer!Kinds |-> Offer!Empty[kind]]
  BY DEF Offer!Empty
<1> HIDE DEF Offer!Empty
<1> QED
  BY <1>1, <1>2, <1>3 DEF ListsKept

LEMMA AwayKept ==
  ASSUME NEW r
  PROVE  ClientKept(Offer!NoClient, r) /\ Offer!NoClient.at = "away"
BY DEF ClientKept, IsClient, Offer!NoClient

LEMMA ListsInit == CatalogInit => ListsInv
<1>1. ASSUME NoRegistry PROVE ListsInv
  BY <1>1, NothingHeld, AwayKept DEF NoRegistry, ListsInv
<1>2. ASSUME Offer!RegistryInit PROVE ListsInv
  BY <1>2, NothingHeld, AwayKept DEF Offer!RegistryInit, ListsInv
<1> QED
  BY <1>1, <1>2 DEF CatalogInit

\* Discovery keeps the lists what they are.
LEMMA Discovering ==
  ASSUME NEW r, ListsKept(r), NEW a \in Apps, NEW copies, Len(copies) \in Nat, NEW E,
         \A c \in 1..Len(copies) : /\ copies[c] = <<copies[c][1], copies[c][2]>> /\ copies[c][1] \in DOMAIN Marked
                                  /\ \A i \in 1..Len(Offer!EntriesOf(a, copies[c])) : Offer!EntriesOf(a, copies[c])[i] \in E
  PROVE  FoundAll(r, Offer!Discover(r, a, copies), a, copies, Len(copies), E)
<1>1. ASSUME NEW c \in 1..Len(copies)
      PROVE  /\ Len(Offer!EntriesOf(a, copies[c])) \in Nat
             /\ \A i \in 1..Len(Offer!EntriesOf(a, copies[c])) :
                  Fine(Offer!EntriesOf(a, copies[c])[i]) /\ Offer!EntriesOf(a, copies[c])[i] \in E
  <2> DEFINE h == copies[c][1]
             m == copies[c][2]
  <2>1. copies[c] = <<h, m>> /\ h \in DOMAIN Marked
    OBVIOUS
  <2>2. \A i \in 1..Len(Offer!EntriesOf(a, copies[c])) : Offer!EntriesOf(a, copies[c])[i] \in E
    OBVIOUS
  <2> HIDE DEF h, m
  <2>3. /\ Len(Offer!EntriesOf(a, <<h, m>>)) \in Nat
        /\ \A i \in 1..Len(Offer!EntriesOf(a, <<h, m>>)) : Fine(Offer!EntriesOf(a, <<h, m>>)[i])
    BY <2>1, EntriesKnown
  <2> QED
    BY <2>1, <2>2, <2>3
<1> QED
  BY <1>1, AllFound

\* Every copy of what is mounted, in some order.
LEMMA Ordering ==
  ASSUME NEW a \in Apps, NEW copies, copies = UNION {{<<h, n>> : n \in 1..Marked[h].copies} : h \in Offer!Mounted(a)},
         NEW order \in Offer!SetToSeqs(copies)
  PROVE  /\ Len(order) \in Nat /\ \A c \in 1..Len(order) : order[c] \in copies
         /\ \A x \in copies : \E c \in 1..Len(order) : order[c] = x
<1>1. Offer!Mounted(a) \subseteq DOMAIN Marked /\ IsFiniteSet(Offer!Mounted(a))
  BY MountedMarked
<1> DEFINE Of(h) == {<<h, n>> : n \in 1..Marked[h].copies}
           All == {Of(h) : h \in Offer!Mounted(a)}
<1>2. IsFiniteSet(All)
  <2>1. [h \in Offer!Mounted(a) |-> Of(h)] \in Surjection(Offer!Mounted(a), All)
    BY DEF Surjection
  <2> HIDE DEF All
  <2> QED
    BY <1>1, <2>1, FS_Surjection
<1>3. ASSUME NEW T \in All PROVE IsFiniteSet(T)
  <2>1. PICK h \in Offer!Mounted(a) : T = Of(h)
    OBVIOUS
  <2>2. Marked[h].copies \in Nat
    BY <1>1, ListsAssumption DEF ListsAssumption, Offer!RegistryAssumption
  <2>3. IsFiniteSet(1..Marked[h].copies)
    BY <2>2, FS_Interval
  <2>4. [n \in 1..Marked[h].copies |-> <<h, n>>] \in Surjection(1..Marked[h].copies, T)
    BY <2>1 DEF Surjection
  <2> QED
    BY <2>3, <2>4, FS_Surjection
<1>4. copies = UNION All
  OBVIOUS
<1> HIDE DEF All
<1>5. IsFiniteSet(copies)
  BY <1>2, <1>3, <1>4, FS_UNION
<1> DEFINE m == Cardinality(copies)
<1>6. m \in Nat /\ IsFiniteSet(1..m) /\ Cardinality(1..m) = m
  BY <1>5, FS_CardinalityType, FS_Interval
<1>7. order \in [1..m -> copies] /\ \A i, j \in 1..m : i # j => order[i] # order[j]
  BY DEF Offer!SetToSeqs, Offer!Cardinality, Cardinality
<1> HIDE DEF m
<1>8. order \in Injection(1..m, copies)
  BY <1>7 DEF Injection, IsInjective
<1>9. order \in Surjection(1..m, copies)
  BY <1>5, <1>6, <1>8, FS_Injection DEF m
<1>10. order \in Seq(copies) /\ Len(order) = m
  BY <1>6, <1>7
<1> QED
  BY <1>6, <1>7, <1>9, <1>10 DEF Surjection

LEMMA DiscoverKept ==
  ASSUME NEW r, ListsKept(r), NEW a \in Apps, NEW copies, Len(copies) \in Nat,
         \A c \in 1..Len(copies) : copies[c] = <<copies[c][1], copies[c][2]>> /\ copies[c][1] \in DOMAIN Marked
  PROVE  ListsKept(Offer!Discover(r, a, copies))
<1> DEFINE Of(c) == Offer!EntriesOf(a, copies[c])
           E == UNION {{Of(c)[i] : i \in 1..Len(Of(c))} : c \in 1..Len(copies)}
<1> HIDE DEF Of
<1>0. \A c \in 1..Len(copies) : \A i \in 1..Len(Of(c)) : Of(c)[i] \in E
  OBVIOUS
<1>1. \A c \in 1..Len(copies) : \A i \in 1..Len(Offer!EntriesOf(a, copies[c])) : Offer!EntriesOf(a, copies[c])[i] \in E
  BY <1>0 DEF Of
<1> HIDE DEF E
<1>2. FoundAll(r, Offer!Discover(r, a, copies), a, copies, Len(copies), E)
  BY <1>1, Discovering
<1> QED
  BY <1>2 DEF FoundAll

\* What is discovered before Litestar routes it.
LEMMA FirstCopies ==
  ASSUME NEW a \in Apps, NEW handlers, handlers = a.routes \o Offer!Dynamic(a),
         NEW copies, copies = [i \in DOMAIN handlers |-> <<handlers[i], 0>>]
  PROVE  /\ Len(copies) \in Nat
         /\ \A c \in 1..Len(copies) : copies[c] = <<copies[c][1], copies[c][2]>> /\ copies[c][1] \in DOMAIN Marked
<1>1. handlers \in Seq(DOMAIN Marked)
  BY MountedMarked
<1>2. Len(handlers) \in Nat /\ DOMAIN handlers = 1..Len(handlers)
  BY <1>1
<1>3. Len(copies) = Len(handlers)
  BY <1>2
<1>4. ASSUME NEW c \in 1..Len(copies) PROVE copies[c] = <<handlers[c], 0>> /\ handlers[c] \in DOMAIN Marked
  BY <1>1, <1>2, <1>3
<1> QED
  BY <1>2, <1>3, <1>4

LEMMA RoutedCopies ==
  ASSUME NEW a \in Apps, NEW copies, copies = UNION {{<<h, n>> : n \in 1..Marked[h].copies} : h \in Offer!Mounted(a)},
         NEW order \in Offer!SetToSeqs(copies)
  PROVE  /\ Len(order) \in Nat
         /\ \A c \in 1..Len(order) : order[c] = <<order[c][1], order[c][2]>> /\ order[c][1] \in DOMAIN Marked
<1>1. Len(order) \in Nat /\ \A c \in 1..Len(order) : order[c] \in copies
  BY Ordering
<1>2. Offer!Mounted(a) \subseteq DOMAIN Marked
  BY MountedMarked
<1>3. ASSUME NEW x \in copies PROVE x = <<x[1], x[2]>> /\ x[1] \in DOMAIN Marked
  <2>1. PICK h \in Offer!Mounted(a) : \E n \in 1..Marked[h].copies : x = <<h, n>>
    OBVIOUS
  <2> QED
    BY <1>2, <2>1
<1> QED
  BY <1>1, <1>3

LEMMA StayKept ==
  ASSUME NEW c, NEW r, ClientKept(c, r), c.at # "paging", NEW with
  PROVE  ClientKept(c, with)
BY DEF ClientKept

LEMMA LaterFine ==
  ASSUME NEW l \in Later, NEW e, e = Offer!Entry(l.handler, 0, Offer!Written(l.handler, l.mark))
  PROVE  Fine(e)
<1>1. Offer!IsClaim(Offer!Written(l.handler, l.mark))
  BY ListsAssumption DEF ListsAssumption, Offer!RegistryAssumption
<1> QED
  BY <1>1 DEF Fine, Offer!Entry

LEMMA ListsNext == ListsInv /\ [Offer!RegistryNext]_(Offer!registryVars) => ListsInv'
<1> SUFFICES ASSUME ListsInv, [Offer!RegistryNext]_(Offer!registryVars) PROVE ListsInv'
  OBVIOUS
<1>0. /\ ListsKept(registry) /\ ClientKept(client, registry)
      /\ stage \in {"configured", "initialised"} => app \in Apps /\ client.at = "away"
  BY DEF ListsInv
<1>1. CASE Offer!OnAppInit
  <2> DEFINE handlers == app.routes \o Offer!Dynamic(app)
             copies == [i \in DOMAIN handlers |-> <<handlers[i], 0>>]
  <2>1. /\ app \in Apps /\ client.at = "away" /\ stage' = "initialised" /\ app' = app /\ client' = client
        /\ registry' = Offer!Discover(registry, app, copies)
    BY <1>0, <1>1 DEF Offer!OnAppInit
  <2> HIDE DEF copies
  <2>2. Len(copies) \in Nat
        /\ \A c \in 1..Len(copies) : copies[c] = <<copies[c][1], copies[c][2]>> /\ copies[c][1] \in DOMAIN Marked
    BY <2>1, FirstCopies DEF copies
  <2>3. ListsKept(registry')
    BY <1>0, <2>1, <2>2, DiscoverKept
  <2>4. ClientKept(client, registry')
    BY <1>0, <2>1, StayKept
  <2> QED
    BY <2>1, <2>3, <2>4 DEF ListsInv
<1>2. CASE Offer!OnStartup
  <2> DEFINE copies == UNION {{<<h, n>> : n \in 1..Marked[h].copies} : h \in Offer!Mounted(app)}
  <2>1. /\ app \in Apps /\ client.at = "away" /\ stage' \in {"serving", "refused"} /\ client' = client
    BY <1>0, <1>2 DEF Offer!OnStartup
  <2>2. PICK order \in Offer!SetToSeqs(copies) : registry' = Offer!Discover(registry, app, order)
    BY <1>2 DEF Offer!OnStartup
  <2> HIDE DEF copies
  <2>3. Len(order) \in Nat
        /\ \A c \in 1..Len(order) : order[c] = <<order[c][1], order[c][2]>> /\ order[c][1] \in DOMAIN Marked
    BY <2>1, RoutedCopies DEF copies
  <2>4. ListsKept(registry')
    BY <1>0, <2>1, <2>2, <2>3, DiscoverKept
  <2>5. ClientKept(client, registry')
    BY <1>0, <2>1, StayKept
  <2> QED
    BY <2>1, <2>4, <2>5 DEF ListsInv
<1>3. CASE Offer!RegisterLater
  <2>1. stage = "serving" /\ stage' = stage /\ client' = Offer!Watched(registry')
    BY <1>3 DEF Offer!RegisterLater
  <2>2. PICK l \in Later : registry' = Offer!Register(registry, Offer!Entry(l.handler, 0, Offer!Written(l.handler, l.mark)))
    BY <1>3 DEF Offer!RegisterLater
  <2> DEFINE e == Offer!Entry(l.handler, 0, Offer!Written(l.handler, l.mark))
             with == registry'
  <2>3. Fine(e)
    BY LaterFine
  <2>4. with = Offer!Register(registry, e)
    BY <2>2
  <2> HIDE DEF e, with
  <2>5. /\ ListsKept(with)
        /\ \A kind \in Offer!Kinds : with[kind] = registry[kind] \/ with[kind] = Offer!Put(registry[kind], e)
    BY <1>0, <2>3, <2>4, Registering
  <2>6. CASE client.at # "paging"
    <3>1. client' = client
      BY <2>1, <2>6 DEF Offer!Watched
    <3>2. ClientKept(client, with)
      BY <1>0, <2>6, StayKept
    <3> QED
      BY <2>1, <2>5, <3>1, <3>2 DEF ListsInv, with
  <2>7. CASE client.at = "paging"
    <3>1. client' = Watching(client, registry, with)
      BY <2>1, <2>7 DEF Offer!Watched, Watching, with
    <3>2. ClientKept(client', with)
      BY <1>0, <2>5, <2>7, <3>1, Watches
    <3> QED
      BY <2>1, <2>5, <3>2 DEF ListsInv, with
  <2> QED
    BY <2>6, <2>7
<1>4. CASE Offer!Notify
  BY <1>0, <1>4 DEF Offer!Notify, ListsInv
<1>5. CASE Offer!Ask
  <2>1. stage = "serving" /\ stage' = stage /\ registry' = registry
    BY <1>5 DEF Offer!Ask
  <2>2. PICK kind \in Offer!Kinds :
          client' = [Offer!NoClient EXCEPT !.kind = kind, !.at = "paging", !.stayed = Offer!ToSet(Offer!Listed(registry, kind))]
    BY <1>5 DEF Offer!Ask
  <2> DEFINE list == Offer!Listed(registry, kind)
             c == client'
  <2>3. c = [kind |-> kind, at |-> "paging", offset |-> 0, got |-> <<>>, stayed |-> Offer!ToSet(list),
             changed |-> FALSE, shrank |-> FALSE]
    BY <2>2 DEF Offer!NoClient
  <2>4. Offer!IsSequence(list) /\ Offer!ToSet(list) = {list[i] : i \in 1..Len(list)}
    BY <1>0, ListFacts
  <2>0. ClientKept(c, registry) <=> (IsClient(c) /\ PagingKept(c, list))
    BY <2>3 DEF ClientKept
  <2> HIDE DEF list, c
  <2>5. IsClient(c)
    BY <2>3 DEF IsClient
  <2>6. Offer!IsSequence(<<>>) /\ Len(<<>>) = 0 /\ Len(list) \in Nat
    <3>1. <<>> \in Seq({})
      OBVIOUS
    <3> QED
      BY <2>4, <3>1, IsSeq DEF Offer!IsSequence
  <2>7. PagingKept(c, list)
    BY <2>3, <2>4, <2>6 DEF PagingKept
  <2> QED
    BY <1>0, <2>0, <2>1, <2>5, <2>7 DEF ListsInv, c
<1>6. CASE Offer!Receive
  <2>1. /\ stage = "serving" /\ stage' = stage /\ registry' = registry /\ client.at = "paging"
        /\ client' = Receiving(client, Offer!Page(Offer!Listed(registry, client.kind), client.offset))
    BY <1>6 DEF Offer!Receive, Receiving
  <2>2. ClientKept(client', registry)
    BY <1>0, <2>1, PageReceived
  <2> QED
    BY <1>0, <2>1, <2>2 DEF ListsInv
<1>7. CASE Offer!OnShutdown
  BY <1>0, <1>7 DEF Offer!OnShutdown, ListsInv
<1>8. CASE UNCHANGED Offer!registryVars
  BY <1>0, <1>8 DEF Offer!registryVars, ListsInv
<1>9. CASE Offer!RegistryEnds
  BY <1>8, <1>9 DEF Offer!RegistryEnds
<1> QED
  BY <1>1, <1>2, <1>3, <1>4, <1>5, <1>6, <1>7, <1>8, <1>9 DEF Offer!RegistryNext

LEMMA CatalogLists == CatalogNext => [Offer!RegistryNext]_(Offer!registryVars)
BY DEF CatalogNext, registryVars, Offer!registryVars

\* Whatever is registered while a client pages through a list, it gets every item that was
\* there all the time (core/_cursor.py:11).
THEOREM PagesKept == CatalogSpec => []PagesComplete
<1>1. ListsInv /\ [CatalogNext]_catalogVars => ListsInv'
  BY ListsNext, CatalogLists DEF catalogVars, registryVars, Offer!registryVars
<1>2. ListsInv => PagesComplete
  BY DEF ListsInv, ClientKept, AllGot, PagesComplete, Offer!PagesComplete, Offer!Cardinality, Cardinality
<1> QED
  BY ListsInit, <1>1, <1>2, PTL DEF CatalogSpec

-----------------------------------------------------------------------------
(* URI templates: what a URI was made from is what matching it returns. *)

Piece(t, v, i) == IF t[i].var THEN v[t[i].text] ELSE t[i].text

Expanded(t, v, f) == f = [i \in 0..Len(t) |-> IF i = 0 THEN <<>> ELSE f[i - 1] \o Piece(t, v, i)]

LEMMA ExpandedEach ==
  ASSUME NEW t, NEW v, Len(t) \in Nat
  PROVE  \E f : Expanded(t, v, f) /\ Offer!Expand(t, v) = f[Len(t)]
<1> DEFINE m == Len(t)
           More(s, i) == s \o Piece(t, v, i)
           Done(k, f) == f = [i \in 0..k |-> IF i = 0 THEN <<>> ELSE More(f[i - 1], i)]
           Missing == {k \in 0..m : ~\E f : Done(k, f)}
<1>0. m \in Nat
  OBVIOUS
<1>a. \A f : Expanded(t, v, f) <=> Done(m, f)
  BY DEF Expanded
<1> HIDE DEF More
<1>1. Missing = {}
  <2> SUFFICES ASSUME Missing # {} PROVE FALSE
    OBVIOUS
  <2>1. PICK k \in Missing : \A j \in Missing : k <= j
    <3>1. Missing \subseteq Nat
      BY <1>0
    <3> HIDE DEF Missing
    <3> QED
      BY <3>1, LeastNat
  <2>2. CASE k = 0
    <3> DEFINE f == [i \in 0..0 |-> <<>>]
    <3>1. f = [i \in 0..0 |-> IF i = 0 THEN <<>> ELSE More(f[i - 1], i)]
      OBVIOUS
    <3> QED
      BY <2>2, <3>1
  <2>3. CASE k # 0
    <3>1. k \in Nat /\ k - 1 \in 0..m /\ k - 1 < k /\ k - 1 \notin Missing
      BY <1>0, <2>1, <2>3
    <3>2. PICK g : Done(k - 1, g)
      BY <3>1
    <3> DEFINE f == [i \in 0..k |-> IF i = k THEN More(g[k - 1], k) ELSE g[i]]
    <3>3. \A i \in 0..(k - 1) : g[i] = IF i = 0 THEN <<>> ELSE More(g[i - 1], i)
      BY <3>2
    <3>4. \A i \in 0..(k - 1) : f[i] = g[i]
      BY <3>1
    <3>5. f[k] = More(f[k - 1], k)
      BY <2>3, <3>1, <3>4
    <3>6. ASSUME NEW i \in 0..k
          PROVE  f[i] = IF i = 0 THEN <<>> ELSE More(f[i - 1], i)
      <4>1. CASE i = k
        BY <2>3, <3>5, <4>1
      <4>2. CASE i # k
        <5>1. i \in 0..(k - 1) /\ (i # 0 => i - 1 \in 0..(k - 1))
          BY <3>1, <4>2
        <5> QED
          BY <3>3, <3>4, <5>1
      <4> QED
        BY <4>1, <4>2
    <3>7. f = [i \in 0..k |-> f[i]]
      OBVIOUS
    <3> HIDE DEF f
    <3>8. Done(k, f)
      BY <3>6, <3>7
    <3> QED
      BY <2>1, <3>8
  <2> QED
    BY <2>2, <2>3
<1>2. \E f : Expanded(t, v, f)
  BY <1>0, <1>1, <1>a
<1>3. Expanded(t, v, CHOOSE f : Expanded(t, v, f))
  BY <1>2
<1>4. Offer!Expand(t, v) = (CHOOSE f : Expanded(t, v, f))[m]
  BY DEF Offer!Expand, Expanded, Piece
<1> QED
  BY <1>3, <1>4

\* Where the parts of a template are in its URI: part i follows position at[i - 1].
Spread(t, v, uri, at) ==
  /\ Offer!IsSequence(t) /\ Offer!IsSequence(uri) /\ at \in [0..Len(t) -> Nat] /\ at[0] = 0 /\ at[Len(t)] = Len(uri)
  /\ \A i \in 1..Len(t) :
       /\ Offer!IsSequence(Piece(t, v, i)) /\ at[i] = at[i - 1] + Len(Piece(t, v, i)) /\ at[i] <= Len(uri)
       /\ \A j \in 1..Len(Piece(t, v, i)) : uri[at[i - 1] + j] = Piece(t, v, i)[j]

\* The same of the first k parts.
Till(t, v, f, k) ==
  /\ Offer!IsSequence(f[k])
  /\ \A i \in 1..k :
       /\ Len(f[i]) = Len(f[i - 1]) + Len(Piece(t, v, i)) /\ Len(f[i - 1]) \in Nat /\ Len(f[i]) <= Len(f[k])
       /\ \A j \in 1..Len(Piece(t, v, i)) : f[k][Len(f[i - 1]) + j] = Piece(t, v, i)[j]

LEMMA Spreads ==
  ASSUME NEW t, Offer!IsSequence(t), NEW v, \A i \in 1..Len(t) : Offer!IsSequence(Piece(t, v, i)),
         NEW uri, uri = Offer!Expand(t, v)
  PROVE  \E at : Spread(t, v, uri, at)
<1> DEFINE m == Len(t)
<1>0. m \in Nat
  BY DEF Offer!IsSequence
<1>1. PICK f : Expanded(t, v, f) /\ uri = f[m]
  BY <1>0, ExpandedEach
<1>2. f[0] = <<>> /\ \A i \in 1..m : f[i] = f[i - 1] \o Piece(t, v, i)
  <2> DEFINE More(s, i) == s \o Piece(t, v, i)
  <2>1. f = [i \in 0..m |-> IF i = 0 THEN <<>> ELSE More(f[i - 1], i)]
    BY <1>1 DEF Expanded
  <2> HIDE DEF More
  <2>2. f[0] = <<>> /\ \A i \in 1..m : f[i] = More(f[i - 1], i)
    BY <1>0, <2>1
  <2> QED
    BY <2>2 DEF More
<1> DEFINE Lost == {k \in 0..m : ~Till(t, v, f, k)}
<1>3. Lost = {}
  <2> SUFFICES ASSUME Lost # {} PROVE FALSE
    OBVIOUS
  <2>1. PICK k \in Lost : \A j \in Lost : k <= j
    <3>1. Lost \subseteq Nat
      BY <1>0
    <3> HIDE DEF Lost
    <3> QED
      BY <3>1, LeastNat
  <2>2. CASE k = 0
    <3>1. Offer!IsSequence(f[0])
      <4>1. <<>> \in Seq({})
        OBVIOUS
      <4> QED
        BY <1>2, <4>1, IsSeq
    <3>2. Till(t, v, f, 0)
      BY <3>1 DEF Till
    <3> QED
      BY <2>1, <2>2, <3>2
  <2>3. CASE k # 0
    <3>1. k \in 1..m /\ k - 1 \in 0..m /\ k - 1 < k /\ k - 1 \notin Lost /\ k \in Nat
      BY <1>0, <2>1, <2>3
    <3> DEFINE q == f[k - 1]
               x == Piece(t, v, k)
               z == f[k]
    <3>2. Till(t, v, f, k - 1)
      BY <3>1
    <3>3. Offer!IsSequence(q) /\ Offer!IsSequence(x)
      BY <3>1, <3>2 DEF Till
    <3>4. z = q \o x
      BY <1>2, <3>1
    <3> HIDE DEF q, x, z
    <3>5. Joins(q, x, z)
      BY <3>3, <3>4, Joined
    <3>6. Offer!IsSequence(z) /\ Len(z) = Len(q) + Len(x) /\ Len(q) \in Nat /\ Len(x) \in Nat
          /\ (\A i \in 1..Len(q) : z[i] = q[i]) /\ \A i \in 1..Len(x) : z[Len(q) + i] = x[i]
      BY <3>3, <3>5 DEF Joins, Offer!IsSequence
    <3>7. ASSUME NEW i \in 1..k
          PROVE  /\ Len(f[i]) = Len(f[i - 1]) + Len(Piece(t, v, i)) /\ Len(f[i - 1]) \in Nat /\ Len(f[i]) <= Len(z)
                 /\ \A j \in 1..Len(Piece(t, v, i)) : z[Len(f[i - 1]) + j] = Piece(t, v, i)[j]
      <4>1. CASE i = k
        BY <3>6, <4>1 DEF q, x, z
      <4>2. CASE i # k
        <5> DEFINE y == Piece(t, v, i)
                   a == Len(f[i - 1])
                   b == Len(f[i])
        <5>1. i \in 1..(k - 1) /\ i \in 1..m
          BY <3>1, <4>2
        <5>2. b = a + Len(y) /\ a \in Nat /\ b <= Len(q) /\ \A j \in 1..Len(y) : q[a + j] = y[j]
          BY <3>2, <5>1 DEF Till, q
        <5>3. Len(y) \in Nat
          BY <5>1 DEF Offer!IsSequence
        <5> HIDE DEF y, a, b
        <5>4. b <= Len(z)
          BY <3>6, <5>2, <5>3
        <5>5. \A j \in 1..Len(y) : a + j \in 1..Len(q)
          BY <3>6, <5>2, <5>3
        <5>6. \A j \in 1..Len(y) : z[a + j] = y[j]
          BY <3>6, <5>2, <5>5
        <5> QED
          BY <5>2, <5>4, <5>6 DEF y, a, b
      <4> QED
        BY <4>1, <4>2
    <3>8. Till(t, v, f, k)
      BY <3>6, <3>7 DEF Till, z
    <3> QED
      BY <2>1, <3>8
  <2> QED
    BY <2>2, <2>3
<1>4. \A k \in 0..m : Till(t, v, f, k)
  BY <1>3
<1> DEFINE at == [i \in 0..m |-> Len(f[i])]
<1>5. \A k \in 0..m : Len(f[k]) \in Nat
  BY <1>4 DEF Till, Offer!IsSequence
<1>6. Till(t, v, f, m) /\ Offer!IsSequence(uri)
  BY <1>0, <1>1, <1>4 DEF Till
<1>7. at \in [0..m -> Nat] /\ at[0] = 0 /\ at[m] = Len(uri)
  BY <1>0, <1>1, <1>2, <1>5
<1>8. ASSUME NEW i \in 1..m
      PROVE  /\ at[i] = at[i - 1] + Len(Piece(t, v, i)) /\ at[i] <= Len(uri)
             /\ \A j \in 1..Len(Piece(t, v, i)) : uri[at[i - 1] + j] = Piece(t, v, i)[j]
  <2>1. i \in 0..m /\ i - 1 \in 0..m
    BY <1>0
  <2>2. at[i] = Len(f[i]) /\ at[i - 1] = Len(f[i - 1])
    BY <2>1
  <2> HIDE DEF at
  <2> QED
    BY <1>1, <1>6, <2>2 DEF Till
<1> HIDE DEF at
<1>9. Spread(t, v, uri, at)
  BY <1>6, <1>7, <1>8 DEF Spread
<1> QED
  BY <1>9

\* Part of a sequence is a text if it has the same elements.
LEMMA Window ==
  ASSUME NEW s, NEW text, Offer!IsSequence(text), NEW b \in Nat
  PROVE  SubSeq(s, b + 1, b + Len(text)) = text <=> \A j \in 1..Len(text) : s[b + j] = text[j]
<1> DEFINE n == Len(text)
           w == SubSeq(s, b + 1, b + n)
           T == {s[i] : i \in (b + 1)..(b + n)}
<1>1. n \in Nat /\ text = [i \in 1..n |-> text[i]]
  BY DEF Offer!IsSequence
<1> HIDE DEF n
<1>2. b + 1 \in Int /\ b + n \in Int /\ (\A i \in (b + 1)..(b + n) : s[i] \in T)
  BY <1>1
<1> HIDE DEF T
<1>3. /\ w \in Seq(T) /\ Len(w) = (IF b + 1 <= b + n THEN (b + n) - (b + 1) + 1 ELSE 0)
      /\ \A i \in 1..((b + n) - (b + 1) + 1) : w[i] = s[b + 1 + i - 1]
  BY <1>2, SubSeqProperties
<1> HIDE DEF w
<1>4. Len(w) = n /\ \A i \in 1..n : w[i] = s[b + i]
  <2>1. (b + n) - (b + 1) + 1 = n /\ Len(w) = n
    BY <1>1, <1>3
  <2>2. ASSUME NEW i \in 1..n PROVE b + 1 + i - 1 = b + i
    BY <1>1
  <2> QED
    BY <1>3, <2>1, <2>2
<1>5. w = [i \in 1..n |-> w[i]]
  BY <1>3, <1>4
<1>6. w = text <=> \A i \in 1..n : s[b + i] = text[i]
  BY <1>1, <1>4, <1>5
<1> QED
  BY <1>6 DEF w, n

\* The parts of Match.
FoundAt(uri, text, p) == p + Len(text) <= Len(uri) + 1 /\ SubSeq(uri, p, p + Len(text) - 1) = text
LiteralsAfter(t, i) == {j \in DOMAIN t : j > i /\ ~t[j].var}
Stops(t, uri, i, p) ==
  IF LiteralsAfter(t, i) = {} THEN {Len(uri) + 1}
  ELSE {q \in p..Len(uri) : FoundAt(uri, t[Offer!Min(LiteralsAfter(t, i))].text, q)}
ValueEnd(t, uri, i, p) ==
  IF Stops(t, uri, i, p) = {} THEN 0
  ELSE LET q == Offer!Min(Stops(t, uri, i, p))
       IN IF q = p \/ \E k \in p..(q - 1) : uri[k] = "/" THEN 0 ELSE q
After(t, uri, i, p) ==
  CASE p = 0 -> 0
    [] p # 0 /\ t[i].var -> ValueEnd(t, uri, i, p)
    [] OTHER -> IF FoundAt(uri, t[i].text, p) THEN p + Len(t[i].text) ELSE 0
Begins(t, uri, b) == b = [i \in 1..(Len(t) + 1) |-> IF i = 1 THEN 1 ELSE After(t, uri, i - 1, b[i - 1])]
ValuesOf(t, uri, b) ==
  [n \in Offer!Variables(t) |->
     LET i == Offer!Max({j \in DOMAIN t : t[j].var /\ t[j].text = n}) IN SubSeq(uri, b[i], b[i + 1] - 1)]

LEMMA Matching ==
  ASSUME NEW t, NEW uri
  PROVE  LET b == CHOOSE b : Begins(t, uri, b)
         IN Offer!Match(t, uri) = IF b[Len(t) + 1] # Len(uri) + 1 THEN {} ELSE {ValuesOf(t, uri, b)}
BY DEF Offer!Match, Begins, After, ValueEnd, Stops, LiteralsAfter, FoundAt, ValuesOf

LEMMA MatchIs ==
  ASSUME NEW t, Len(t) \in Nat, NEW uri, NEW b, Begins(t, uri, b)
  PROVE  Offer!Match(t, uri) = IF b[Len(t) + 1] # Len(uri) + 1 THEN {} ELSE {ValuesOf(t, uri, b)}
<1> DEFINE c == CHOOSE x : Begins(t, uri, x)
           m == Len(t)
<1>1. Begins(t, uri, c)
  OBVIOUS
<1> HIDE DEF c
<1> DEFINE Differs == {i \in 1..(m + 1) : c[i] # b[i]}
<1>2. Differs = {}
  <2> SUFFICES ASSUME Differs # {} PROVE FALSE
    OBVIOUS
  <2>1. PICK i \in Differs : \A j \in Differs : i <= j
    <3>1. Differs \subseteq Nat
      OBVIOUS
    <3> HIDE DEF Differs
    <3> QED
      BY <3>1, LeastNat
  <2>2. i \in 1..(m + 1)
    BY <2>1
  <2>3. i # 1
    BY <1>1, <2>1, <2>2 DEF Begins
  <2>4. i - 1 \in 1..(m + 1) /\ i - 1 \notin Differs
    BY <2>1, <2>2, <2>3
  <2>5. c[i - 1] = b[i - 1]
    BY <2>4
  <2>6. c[i] = After(t, uri, i - 1, c[i - 1]) /\ b[i] = After(t, uri, i - 1, b[i - 1])
    BY <1>1, <2>2, <2>3 DEF Begins
  <2> QED
    BY <2>1, <2>5, <2>6
<1>3. c = b
  <2>1. c = [i \in 1..(m + 1) |-> c[i]] /\ b = [i \in 1..(m + 1) |-> b[i]]
    BY <1>1 DEF Begins
  <2> QED
    BY <1>2, <2>1
<1>4. Offer!Match(t, uri) = IF c[m + 1] # Len(uri) + 1 THEN {} ELSE {ValuesOf(t, uri, c)}
  BY Matching DEF c
<1> QED
  BY <1>3, <1>4

\* A value ends where the literal that follows its variable begins.
LEMMA ValueEnds ==
  ASSUME NEW t, NEW v, NEW uri, NEW at, Spread(t, v, uri, at), Offer!Fits(t, v), NEW i \in 1..Len(t), t[i].var
  PROVE  ValueEnd(t, uri, i, at[i - 1] + 1) = at[i] + 1
<1> DEFINE m == Len(t)
           x == Piece(t, v, i)
           p == at[i - 1] + 1
           n == Len(uri)
<1>1. /\ m \in Nat /\ DOMAIN t = 1..m /\ n \in Nat /\ at \in [0..m -> Nat] /\ at[m] = n
      /\ Offer!IsSequence(x) /\ at[i] = at[i - 1] + Len(x) /\ at[i] <= n /\ Len(x) \in Nat
      /\ \A j \in 1..Len(x) : uri[at[i - 1] + j] = x[j]
  BY AsSeq DEF Spread, Offer!IsSequence
<1>2. at[i - 1] \in Nat /\ at[i] \in Nat /\ i \in Nat
  BY <1>1
<1>a. m \in Nat /\ DOMAIN t = 1..m /\ i \in 1..m /\ n \in Nat
  BY <1>1
<1>3. x = v[t[i].text] /\ t[i].text \in Offer!Variables(t)
  BY <1>1 DEF Piece, Offer!Variables
<1>4. x # <<>> /\ \A j \in 1..Len(x) : x[j] # "/"
  <2>1. x # <<>> /\ "/" \notin Offer!ToSet(x)
    BY <1>3 DEF Offer!Fits
  <2>2. DOMAIN x = 1..Len(x)
    BY <1>1, AsSeq
  <2> QED
    BY <2>1, <2>2 DEF Offer!ToSet
<1>5. Len(x) > 0
  <2>1. x = [j \in 1..Len(x) |-> x[j]]
    BY <1>1 DEF Offer!IsSequence
  <2>2. Len(x) = 0 => x = <<>>
    BY <2>1
  <2> QED
    BY <1>1, <1>4, <2>2
<1> DEFINE a == at[i - 1]
           e == at[i]
           k == Len(x)
<1>6. a \in Nat /\ k \in Nat /\ k > 0 /\ e = a + k /\ e <= n /\ p = a + 1
  BY <1>1, <1>2, <1>5
<1> HIDE DEF a, e, k, p, x, m, n
<1>7. \A j \in p..e : uri[j] # "/"
  <2> SUFFICES ASSUME NEW j \in p..e PROVE uri[j] # "/"
    OBVIOUS
  <2>1. j - a \in 1..k /\ a + (j - a) = j
    BY <1>6
  <2>2. uri[a + (j - a)] = x[j - a]
    BY <1>1, <2>1 DEF a, k
  <2> QED
    BY <1>4, <2>1, <2>2 DEF k
<1>8. ASSUME Offer!Min(Stops(t, uri, i, p)) = e + 1, Stops(t, uri, i, p) # {}
      PROVE  ValueEnd(t, uri, i, at[i - 1] + 1) = at[i] + 1
  <2>1. e + 1 # p
    BY <1>6
  <2> DEFINE S == Stops(t, uri, i, p)
             q == Offer!Min(S)
  <2>2. ValueEnd(t, uri, i, p) = IF S = {} THEN 0 ELSE IF q = p \/ \E j \in p..(q - 1) : uri[j] = "/" THEN 0 ELSE q
    BY DEF ValueEnd
  <2>4. S # {} /\ q = e + 1
    BY <1>8
  <2> HIDE DEF S, q
  <2>5. ValueEnd(t, uri, i, p) = e + 1
    <3>1. ~(q = p \/ \E j \in p..(q - 1) : uri[j] = "/")
      <4>1. q # p
        BY <2>1, <2>4
      <4>2. q - 1 = e
        BY <1>6, <2>4
      <4>3. ~\E j \in p..(q - 1) : uri[j] = "/"
        BY <1>7, <4>2
      <4> QED
        BY <4>1, <4>3
    <3> DEFINE Bad == q = p \/ \E j \in p..(q - 1) : uri[j] = "/"
    <3> HIDE DEF Bad
    <3>2. ValueEnd(t, uri, i, p) = IF S = {} THEN 0 ELSE IF Bad THEN 0 ELSE q
      BY <2>2 DEF Bad
    <3> QED
      BY <2>4, <3>1, <3>2 DEF Bad
  <2> QED
    BY <2>5 DEF p, e
<1>9. CASE i = m
  <2>1. LiteralsAfter(t, i) = {}
    BY <1>1, <1>2, <1>9 DEF LiteralsAfter
  <2>2. Stops(t, uri, i, p) = {n + 1} /\ n = e
    BY <1>1, <1>9, <2>1 DEF Stops, n, e
  <2>3. Offer!Min({n + 1}) = n + 1
    <3> DEFINE S == {n + 1}
    <3>1. S \subseteq Nat /\ n + 1 \in S /\ \A j \in S : n + 1 <= j
      BY <1>1
    <3> HIDE DEF S
    <3>2. Offer!Min(S) = n + 1
      BY <3>1, LeastIs
    <3> QED
      BY <3>2 DEF S
  <2> QED
    BY <1>8, <2>2, <2>3
<1>10. CASE i # m
  <2>1. i \in 1..(m - 1) /\ i + 1 \in 1..m /\ i + 1 - 1 = i
    BY <1>a, <1>10
  <2> DEFINE text == t[i + 1].text
             w == Len(text)
  <2>2. ~t[i + 1].var
    BY <2>1 DEF Offer!Fits, m
  <2>3. Piece(t, v, i + 1) = text
    BY <2>2 DEF Piece
  <2>4. /\ Offer!IsSequence(text) /\ at[i + 1] = e + w /\ e + w <= n /\ w \in Nat
        /\ \A j \in 1..w : uri[e + j] = text[j]
    <3>1. /\ Offer!IsSequence(Piece(t, v, i + 1))
          /\ at[i + 1] = at[i + 1 - 1] + Len(Piece(t, v, i + 1)) /\ at[i + 1] <= Len(uri)
          /\ \A j \in 1..Len(Piece(t, v, i + 1)) : uri[at[i + 1 - 1] + j] = Piece(t, v, i + 1)[j]
      BY <2>1 DEF Spread, m
    <3>2. at[i + 1 - 1] = e
      BY <2>1 DEF e
    <3>3. w \in Nat
      BY <2>3, <3>1 DEF Offer!IsSequence
    <3> QED
      BY <2>3, <3>1, <3>2, <3>3 DEF n
  <2>5. Offer!Min(LiteralsAfter(t, i)) = i + 1 /\ LiteralsAfter(t, i) # {}
    <3> DEFINE S == LiteralsAfter(t, i)
    <3>1. S \subseteq Nat /\ i + 1 \in S /\ \A j \in S : i + 1 <= j
      BY <1>a, <2>1, <2>2 DEF LiteralsAfter
    <3> HIDE DEF S
    <3>2. Offer!Min(S) = i + 1
      BY <3>1, LeastIs
    <3> QED
      BY <3>1, <3>2 DEF S
  <2>6. Stops(t, uri, i, p) = {q \in p..n : FoundAt(uri, text, q)}
    BY <2>5 DEF Stops, n
  <2>a. Offer!IsSequence(text) /\ w = Len(text)
    BY <2>4
  <2> HIDE DEF text, w
  \* The literal does not begin within the value.
  <2>7. ~\E j \in 1..k : SubSeq(x \o text, j, j + w - 1) = text
    BY <1>3, <2>1 DEF Offer!Fits, k, m, text, w
  <2>8. Joins(x, text, x \o text)
    BY <1>1, <2>4, Joined
  <2>9. ASSUME NEW q \in Nat, p <= q, q <= e, \A j \in 1..w : uri[q - 1 + j] = text[j] PROVE FALSE
    <3> DEFINE both == x \o text
               b == q - 1 - a
    <3>1. b \in Nat /\ b + 1 \in 1..k /\ b < k /\ a + b = q - 1
      BY <1>6, <2>9
    <3>2. /\ \A j \in 1..k : both[j] = x[j] /\ x[j] = uri[a + j]
          /\ \A j \in 1..w : both[k + j] = text[j] /\ text[j] = uri[e + j]
      BY <1>1, <2>4, <2>8 DEF Joins, k, w, a
    <3> HIDE DEF both, b
    <3>3. \A j \in 1..(k + w) : both[j] = uri[a + j]
      <4> SUFFICES ASSUME NEW j \in 1..(k + w) PROVE both[j] = uri[a + j]
        OBVIOUS
      <4>1. CASE j <= k
        BY <1>6, <2>4, <3>2, <4>1
      <4>2. CASE j > k
        <5>1. j - k \in 1..w /\ k + (j - k) = j /\ e + (j - k) = a + j
          BY <1>6, <2>4, <4>2
        <5>2. both[k + (j - k)] = uri[e + (j - k)]
          BY <3>2, <5>1
        <5> QED
          BY <5>1, <5>2
      <4> QED
        BY <1>6, <4>1, <4>2
    <3>4. ASSUME NEW j \in 1..w PROVE both[b + j] = text[j]
      <4>1. b + j \in 1..(k + w) /\ a + (b + j) = q - 1 + j
        BY <1>6, <2>4, <3>1
      <4> QED
        BY <2>9, <3>3, <4>1
    <3>5. SubSeq(both, b + 1, b + w) = text
      <4>1. \A j \in 1..Len(text) : both[b + j] = text[j]
        BY <2>a, <3>4
      <4>2. SubSeq(both, b + 1, b + Len(text)) = text
        BY <2>a, <3>1, <4>1, Window
      <4> QED
        BY <2>a, <4>2
    <3>6. b + w = (b + 1) + w - 1
      BY <2>4, <3>1
    <3> QED
      BY <2>7, <3>1, <3>5, <3>6 DEF both
  <2>10. w > 0
    <3> SUFFICES ASSUME w = 0 PROVE FALSE
      BY <2>4
    <3>1. p \in Nat /\ p <= p /\ p <= e
      BY <1>6
    <3> QED
      BY <2>9, <3>1
  <2>11. e + 1 \in p..n /\ FoundAt(uri, text, e + 1)
    <3>1. e \in Nat /\ e + 1 + w - 1 = e + w /\ e + 1 + w <= n + 1 /\ e + 1 \in p..n
      BY <1>1, <1>6, <2>4, <2>10
    <3>2. SubSeq(uri, e + 1, e + w) = text
      <4>1. \A j \in 1..Len(text) : uri[e + j] = text[j]
        BY <2>4, <2>a
      <4>2. SubSeq(uri, e + 1, e + Len(text)) = text
        BY <2>a, <3>1, <4>1, Window
      <4> QED
        BY <2>a, <4>2
    <3> QED
      BY <3>1, <3>2 DEF FoundAt, w, n
  <2>12. ASSUME NEW q \in p..n, FoundAt(uri, text, q) PROVE e + 1 <= q
    <3>1. q \in Nat /\ q - 1 \in Nat /\ q - 1 + 1 = q /\ q - 1 + w = q + w - 1 /\ p <= q /\ e \in Nat
      BY <1>1, <1>6, <2>4
    <3>2. SubSeq(uri, q - 1 + 1, q - 1 + w) = text
      BY <2>12, <3>1 DEF FoundAt, w
    <3>3. \A j \in 1..w : uri[q - 1 + j] = text[j]
      BY <2>4, <3>1, <3>2, Window DEF w
    <3>4. ~(q <= e)
      BY <2>9, <3>1, <3>3
    <3> QED
      BY <3>1, <3>4
  <2> DEFINE S == Stops(t, uri, i, p)
  <2>13. S \subseteq Nat /\ e + 1 \in S /\ \A q \in S : e + 1 <= q
    <3>1. p \in Nat
      BY <1>6
    <3> QED
      BY <1>a, <2>6, <2>11, <2>12, <3>1
  <2> HIDE DEF S
  <2>14. Offer!Min(S) = e + 1
    BY <2>13, LeastIs
  <2> QED
    BY <1>8, <2>13, <2>14 DEF S
<1> QED
  BY <1>9, <1>10

\* The walk of Match through a URI that was made from the template.
LEMMA Walks ==
  ASSUME NEW t, NEW v, NEW uri, NEW at, Spread(t, v, uri, at), Offer!Fits(t, v)
  PROVE  Begins(t, uri, [i \in 1..(Len(t) + 1) |-> at[i - 1] + 1])
<1> DEFINE m == Len(t)
           b == [i \in 1..(m + 1) |-> at[i - 1] + 1]
<1>1. m \in Nat /\ at \in [0..m -> Nat] /\ at[0] = 0 /\ Len(uri) \in Nat
  BY DEF Spread, Offer!IsSequence
<1>2. ASSUME NEW i \in 1..m PROVE After(t, uri, i, at[i - 1] + 1) = at[i] + 1
  <2> DEFINE p == at[i - 1] + 1
             x == Piece(t, v, i)
  <2>1. at[i - 1] \in Nat /\ at[i] \in Nat /\ p # 0
    BY <1>1
  <2>2. CASE t[i].var
    <3>1. ValueEnd(t, uri, i, at[i - 1] + 1) = at[i] + 1
      BY <2>2, ValueEnds
    <3> QED
      BY <2>1, <2>2, <3>1 DEF After
  <2>3. CASE ~t[i].var
    <3>1. x = t[i].text
      BY <2>3 DEF Piece
    <3>2. /\ Offer!IsSequence(x) /\ at[i] = at[i - 1] + Len(x) /\ at[i] <= Len(uri)
          /\ \A j \in 1..Len(x) : uri[at[i - 1] + j] = x[j]
      BY DEF Spread
    <3> HIDE DEF x
    <3>3. SubSeq(uri, at[i - 1] + 1, at[i - 1] + Len(x)) = x
      BY <2>1, <3>2, Window
    <3>4. Len(x) \in Nat
      BY <3>2 DEF Offer!IsSequence
    <3>5. p + Len(x) - 1 = at[i - 1] + Len(x) /\ p + Len(x) <= Len(uri) + 1 /\ p + Len(x) = at[i] + 1
      BY <1>1, <2>1, <3>2, <3>4
    <3>6. FoundAt(uri, x, p)
      BY <3>3, <3>5 DEF FoundAt
    <3> HIDE DEF p
    <3>7. After(t, uri, i, p) = p + Len(x)
      BY <2>1, <2>3, <3>1, <3>6 DEF After
    <3> QED
      BY <3>5, <3>7 DEF p
  <2> QED
    BY <2>2, <2>3
<1>3. ASSUME NEW i \in 1..(m + 1) PROVE b[i] = IF i = 1 THEN 1 ELSE After(t, uri, i - 1, b[i - 1])
  <2>1. CASE i = 1
    BY <1>1, <2>1
  <2>2. CASE i # 1
    <3>1. i - 1 \in 1..m /\ i - 1 \in 1..(m + 1)
      BY <1>1, <2>2
    <3>2. b[i] = at[i - 1] + 1 /\ b[i - 1] = at[i - 1 - 1] + 1
      BY <3>1
    <3> HIDE DEF b
    <3>3. After(t, uri, i - 1, at[i - 1 - 1] + 1) = at[i - 1] + 1
      BY <1>2, <3>1
    <3> QED
      BY <2>2, <3>2, <3>3
  <2> QED
    BY <2>1, <2>2
<1>4. b = [i \in 1..(m + 1) |-> b[i]]
  OBVIOUS
<1> HIDE DEF b
<1>5. Begins(t, uri, b)
  BY <1>3, <1>4 DEF Begins
<1> QED
  BY <1>5 DEF b

LEMMA Greatest ==
  ASSUME NEW n \in Nat, NEW S, S \subseteq 1..n, S # {}
  PROVE  Offer!Max(S) \in S
<1> DEFINE Left == {n - i : i \in S}
<1>1. Left \subseteq Nat /\ Left # {}
  OBVIOUS
<1> HIDE DEF Left
<1>2. PICK k \in Left : \A j \in Left : k <= j
  BY <1>1, LeastNat
<1>3. PICK i \in S : k = n - i
  BY DEF Left
<1>4. \A j \in S : i >= j
  <2> SUFFICES ASSUME NEW j \in S PROVE i >= j
    OBVIOUS
  <2>1. n - j \in Left
    BY DEF Left
  <2>2. n - i <= n - j
    BY <1>2, <1>3, <2>1
  <2> QED
    BY <2>2
<1>5. Offer!Max(S) = CHOOSE x \in S : \A y \in S : x >= y
  BY DEF Offer!Max
<1> QED
  BY <1>3, <1>4, <1>5

\* Matching returns the values that a URI was made from.
LEMMA RoundTrip ==
  ASSUME NEW t, Offer!IsSequence(t), \A i \in DOMAIN t : t[i].var \/ Offer!IsSequence(t[i].text),
         NEW v \in [Offer!Variables(t) -> Values], Offer!Fits(t, v), NEW uri, uri = Offer!Expand(t, v)
  PROVE  Offer!Match(t, uri) = {v}
<1> DEFINE m == Len(t)
<1>1. m \in Nat /\ DOMAIN t = 1..m
  BY AsSeq
<1>2. \A i \in 1..m : t[i].var => v[t[i].text] \in Values
  BY <1>1 DEF Offer!Variables
<1>3. \A i \in 1..m : Offer!IsSequence(Piece(t, v, i))
  BY <1>1, <1>2, ListsAssumption DEF Piece, ListsAssumption, Offer!RegistryAssumption
<1>4. PICK at : Spread(t, v, uri, at)
  BY <1>3, Spreads
<1> DEFINE b == [i \in 1..(m + 1) |-> at[i - 1] + 1]
<1>5. Begins(t, uri, b)
  BY <1>4, Walks
<1>6. /\ at \in [0..m -> Nat] /\ at[m] = Len(uri)
      /\ \A i \in 1..m : /\ at[i] = at[i - 1] + Len(Piece(t, v, i))
                         /\ \A j \in 1..Len(Piece(t, v, i)) : uri[at[i - 1] + j] = Piece(t, v, i)[j]
  BY <1>4 DEF Spread
<1>7. b[m + 1] = Len(uri) + 1
  BY <1>1, <1>6
<1>8. \A i \in 1..m : b[i] = at[i - 1] + 1 /\ b[i + 1] = at[i] + 1
  BY <1>1
<1> HIDE DEF b
<1>9. Offer!Match(t, uri) = {ValuesOf(t, uri, b)}
  <2>1. Offer!Match(t, uri) = IF b[m + 1] # Len(uri) + 1 THEN {} ELSE {ValuesOf(t, uri, b)}
    BY <1>1, <1>5, MatchIs
  <2> QED
    BY <1>7, <2>1
<1>10. ASSUME NEW n \in Offer!Variables(t)
       PROVE  LET i == Offer!Max({j \in DOMAIN t : t[j].var /\ t[j].text = n})
              IN SubSeq(uri, b[i], b[i + 1] - 1) = v[n]
  <2> DEFINE S == {j \in DOMAIN t : t[j].var /\ t[j].text = n}
             i == Offer!Max(S)
  <2>1. S \subseteq 1..m /\ S # {}
    BY <1>1 DEF Offer!Variables
  <2> HIDE DEF S
  <2>2. i \in S
    BY <1>1, <2>1, Greatest
  <2>3. i \in 1..m /\ t[i].var /\ t[i].text = n
    BY <2>1, <2>2 DEF S
  <2> HIDE DEF i
  <2> DEFINE x == v[n]
  <2>4. Piece(t, v, i) = x
    BY <2>3 DEF Piece
  <2>5. Offer!IsSequence(x) /\ at[i] = at[i - 1] + Len(x) /\ \A j \in 1..Len(x) : uri[at[i - 1] + j] = x[j]
    BY <1>3, <1>6, <2>3, <2>4
  <2>6. at[i - 1] \in Nat /\ at[i] \in Nat
    BY <1>1, <1>6, <2>3
  <2> HIDE DEF x
  <2>7. SubSeq(uri, at[i - 1] + 1, at[i - 1] + Len(x)) = x
    BY <2>5, <2>6, Window
  <2>8. b[i] = at[i - 1] + 1 /\ b[i + 1] - 1 = at[i - 1] + Len(x)
    <3>1. b[i] = at[i - 1] + 1 /\ b[i + 1] = at[i] + 1
      BY <1>8, <2>3
    <3> QED
      BY <2>5, <2>6, <3>1
  <2>9. SubSeq(uri, b[i], b[i + 1] - 1) = x
    BY <2>7, <2>8
  <2> QED
    BY <2>9 DEF x, i, S
<1>11. ValuesOf(t, uri, b) = [n \in Offer!Variables(t) |-> v[n]]
  BY <1>10 DEF ValuesOf
<1>12. ValuesOf(t, uri, b) = v
  BY <1>11
<1> QED
  BY <1>9, <1>12

-----------------------------------------------------------------------------
(* What is listed is served. *)

LEMMA ResourceServed ==
  ASSUME ListsKept(registry), NEW i \in DOMAIN registry.resources
  PROVE  Offer!ResourceIsServed(i)
<1> DEFINE e == registry.resources[i]
           uri == Offer!Uri(e.claim)
           S == {j \in DOMAIN registry.resources : Offer!Uri(registry.resources[j].claim) = uri}
<1>1. DOMAIN registry.resources = 1..Len(registry.resources) /\ Len(registry.resources) \in Nat
  <2>1. Offer!IsSequence(registry["resources"])
    BY DEF ListsKept, Offer!Kinds
  <2> QED
    BY <2>1, AsSeq
<1> SUFFICES ASSUME uri # Offer!OpenApi, ~(SkillNames # <<>> /\ Head(uri) = "skill"),
                    ~\E j \in 1..(i - 1) : Offer!Uri(registry.resources[j].claim) = uri
             PROVE  Offer!Served(registry, uri).entries = IF e.claim.visible THEN {e} ELSE {}
  BY DEF Offer!ResourceIsServed, Offer!Reserved
<1>2. S \subseteq Nat /\ i \in S /\ \A j \in S : i <= j
  BY <1>1
<1> HIDE DEF S
<1>3. Offer!Min(S) = i /\ S # {}
  BY <1>2, LeastIs
<1>4. Offer!Served(registry, uri) =
        IF e.claim.visible THEN [by |-> "resource", entries |-> {e}, values |-> [n \in {} |-> <<>>]]
        ELSE [by |-> "notFound", entries |-> {}, values |-> [n \in {} |-> <<>>]]
  <2> DEFINE T == {j \in DOMAIN registry.resources : Offer!Uri(registry.resources[j].claim) = uri}
  <2>1. S = T
    BY DEF S
  <2>2. Offer!Min(T) = i /\ T # {}
    BY <1>3, <2>1
  <2> QED
    BY <2>2 DEF Offer!Served
<1> QED
  BY <1>4

\* How a URI that was made from a template with values v may be answered.
AnswersFor(i, v, uri, answered) ==
  LET e == registry.templates[i]
      Shadowed == Offer!Reserved(uri) \/ \E j \in DOMAIN registry.resources : Offer!Uri(registry.resources[j].claim) = uri
      Earlier(j) ==
        LET f == registry.templates[j]
        IN f.claim.visible /\ answered.entries = {f} /\ answered.values \in Offer!Match(f.claim.template, uri)
  IN /\ \A f \in answered.entries : f.claim.visible
     /\ e.claim.visible /\ ~Shadowed =>
          \/ answered.entries = {e} /\ answered.values = v
          \/ \E j \in 1..(i - 1) : Earlier(j)

\* Only what is visible answers, and the first template that matches.
LEMMA Answering ==
  ASSUME NEW uri, NEW served, served = Offer!Served(registry, uri),
         NEW T, T = {j \in Offer!Visible(registry.templates) : Offer!Match(registry.templates[j].claim.template, uri) # {}},
         NEW S, S = {j \in DOMAIN registry.resources : Offer!Uri(registry.resources[j].claim) = uri}
  PROVE  LET first == registry.templates[Offer!Min(T)]
         IN /\ ~Offer!Reserved(uri) /\ S = {} /\ T # {} =>
                 served.entries = {first} /\ served.values = CHOOSE u \in Offer!Match(first.claim.template, uri) : TRUE
            /\ \/ \A f \in served.entries : f.claim.visible
               \/ T # {} /\ served.entries = {first}
<1> DEFINE none == [n \in {} |-> <<>>]
           first == registry.templates[Offer!Min(T)]
           one == registry.resources[Offer!Min(S)]
           value == CHOOSE u \in Offer!Match(first.claim.template, uri) : TRUE
<1>1. CASE Offer!Reserved(uri)
  <2>1. served.entries = {}
    BY <1>1 DEF Offer!Served, Offer!Reserved
  <2> QED
    BY <1>1, <2>1
<1>2. CASE ~Offer!Reserved(uri) /\ S # {}
  <2>1. served = IF one.claim.visible THEN [by |-> "resource", entries |-> {one}, values |-> none]
                 ELSE [by |-> "notFound", entries |-> {}, values |-> none]
    BY <1>2 DEF Offer!Served, Offer!Reserved
  <2> QED
    BY <1>2, <2>1
<1>3. CASE ~Offer!Reserved(uri) /\ S = {} /\ T # {}
  <2>1. served = [by |-> "template", entries |-> {first}, values |-> value]
    BY <1>3 DEF Offer!Served, Offer!Reserved
  <2>v. value = CHOOSE u \in Offer!Match(first.claim.template, uri) : TRUE
    OBVIOUS
  <2> HIDE DEF value
  <2>2. served.entries = {first} /\ served.values = value
    BY <2>1
  <2>3. served.entries = {first} /\ served.values = CHOOSE u \in Offer!Match(first.claim.template, uri) : TRUE
    BY <2>v, <2>2
  <2> QED
    BY <1>3, <2>2, <2>3
<1>4. CASE ~Offer!Reserved(uri) /\ S = {} /\ T = {}
  <2>1. served.entries = {}
    BY <1>4 DEF Offer!Served, Offer!Reserved
  <2> QED
    BY <1>4, <2>1
<1> QED
  BY <1>1, <1>2, <1>3, <1>4

LEMMA TemplateServed ==
  ASSUME ListsKept(registry), NEW i \in DOMAIN registry.templates
  PROVE  Offer!TemplateIsServed(i)
<1> DEFINE d == registry.templates
           e == d[i]
           t == e.claim.template
<1>1. DOMAIN d = 1..Len(d) /\ Len(d) \in Nat
  <2>1. Offer!IsSequence(registry["templates"])
    BY DEF ListsKept, Offer!Kinds
  <2> QED
    BY <2>1, AsSeq
<1>2. Offer!IsSequence(t) /\ \A j \in DOMAIN t : t[j].var \/ Offer!IsSequence(t[j].text)
  <2>1. Fine(registry["templates"][i])
    BY <1>1 DEF ListsKept, Offer!Kinds
  <2> QED
    BY <2>1 DEF Fine, Offer!IsClaim
<1> SUFFICES ASSUME NEW v \in [Offer!Variables(t) -> Values], Offer!Fits(t, v)
             PROVE  AnswersFor(i, v, Offer!Expand(t, v), Offer!Served(registry, Offer!Expand(t, v)))
  BY DEF Offer!TemplateIsServed, AnswersFor
<1> DEFINE uri == Offer!Expand(t, v)
           served == Offer!Served(registry, uri)
           S == {j \in DOMAIN registry.resources : Offer!Uri(registry.resources[j].claim) = uri}
           T == {j \in Offer!Visible(d) : Offer!Match(d[j].claim.template, uri) # {}}
           m == Offer!Min(T)
           first == d[m]
<1>3. Offer!Match(t, uri) = {v}
  <2> HIDE DEF t
  <2> QED
    BY <1>2, RoundTrip
<1>4. e.claim.visible => i \in T
  BY <1>3 DEF Offer!Visible
<1>5. T \subseteq Nat /\ \A j \in T : j \in DOMAIN d /\ d[j].claim.visible /\ Offer!Match(d[j].claim.template, uri) # {}
  BY <1>1 DEF Offer!Visible
<1>6. /\ ~Offer!Reserved(uri) /\ S = {} /\ T # {} =>
           served.entries = {first} /\ served.values = CHOOSE u \in Offer!Match(first.claim.template, uri) : TRUE
      /\ (\A f \in served.entries : f.claim.visible) \/ (T # {} /\ served.entries = {first})
  <2> HIDE DEF served, S, T, uri
  <2>1. served = Offer!Served(registry, uri)
    BY DEF served
  <2> QED
    BY <2>1, Answering DEF S, T
<1> HIDE DEF T
<1>7. T # {} => m \in T /\ \A j \in T : m <= j
  <2> SUFFICES ASSUME T # {} PROVE m \in T /\ \A j \in T : m <= j
    OBVIOUS
  <2>1. PICK k \in T : \A j \in T : k <= j
    BY <1>5, LeastNat
  <2>2. m = k
    BY <1>5, <2>1, LeastIs
  <2> QED
    BY <2>1, <2>2
<1> HIDE DEF m, served, uri
<1>8. \A f \in served.entries : f.claim.visible
  BY <1>5, <1>6, <1>7
<1>9. ASSUME e.claim.visible, ~Offer!Reserved(uri), S = {}
      PROVE  \/ served.entries = {e} /\ served.values = v
             \/ \E j \in 1..(i - 1) : /\ d[j].claim.visible /\ served.entries = {d[j]}
                                      /\ served.values \in Offer!Match(d[j].claim.template, uri)
  <2>1. i \in T /\ m \in T /\ m <= i /\ m \in 1..Len(d)
    BY <1>1, <1>4, <1>5, <1>7, <1>9
  <2>2. served.entries = {first} /\ served.values = CHOOSE u \in Offer!Match(first.claim.template, uri) : TRUE
    BY <1>6, <1>9, <2>1
  <2>3. served.values \in Offer!Match(first.claim.template, uri)
    BY <1>5, <2>1, <2>2
  <2>4. CASE m = i
    <3>1. first = e
      BY <2>4
    <3>2. served.values \in {v}
      BY <1>3, <2>3, <3>1
    <3> QED
      BY <2>2, <3>1, <3>2
  <2>5. CASE m # i
    <3>1. m \in 1..(i - 1)
      BY <1>1, <2>1, <2>5
    <3> QED
      BY <1>5, <2>1, <2>2, <2>3, <3>1
  <2> QED
    BY <2>4, <2>5
<1> HIDE DEF S
<1>10. (S = {}) = ~\E j \in DOMAIN registry.resources : Offer!Uri(registry.resources[j].claim) = uri
  BY DEF S
<1>11. AnswersFor(i, v, uri, served)
  BY <1>8, <1>9, <1>10 DEF AnswersFor
<1> QED
  BY <1>11 DEF served, uri

\* DeclaredIsHeld of an application, its registry and the registrations so far.
SoleIn(a, h, claim) ==
  \A g \in Offer!Mounted(a) : \A i \in DOMAIN Offer!Claims(a, g) :
    Offer!Claims(a, g)[i].name = claim.name /\ Offer!Claims(a, g)[i].kind = claim.kind
      => Marked[g].fn = Marked[h].fn

ClaimHeld(a, r, n, h, claim) ==
  \E j \in Offer!Held(r[claim.kind], claim.name) :
    n = 0 /\ SoleIn(a, h, claim) =>
      Marked[r[claim.kind][j].handler].fn = Marked[h].fn /\ r[claim.kind][j].copy > 0

Declared(a, r, n) ==
  \A h \in Offer!Mounted(a) : \A i \in DOMAIN Offer!Claims(a, h) : ClaimHeld(a, r, n, h, Offer!Claims(a, h)[i])

LEMMA StartHolds ==
  ASSUME NEW r, ListsKept(r), NEW a \in Apps,
         NEW copies, copies = UNION {{<<h, n>> : n \in 1..Marked[h].copies} : h \in Offer!Mounted(a)},
         NEW order \in Offer!SetToSeqs(copies), NEW with, with = Offer!Discover(r, a, order), NEW n
  PROVE  Declared(a, with, n)
<1>1. Offer!Mounted(a) \subseteq DOMAIN Marked
  BY MountedMarked
<1>2. /\ Len(order) \in Nat /\ \A c \in 1..Len(order) : order[c] \in copies
      /\ \A x \in copies : \E c \in 1..Len(order) : order[c] = x
  <2>1. Len(order) \in Nat /\ \A c \in 1..Len(order) : order[c] \in copies
    BY Ordering
  <2>2. \A x \in copies : \E c \in 1..Len(order) : order[c] = x
    BY Ordering
  <2> QED
    BY <2>1, <2>2
<1> DEFINE Of(x) == Offer!EntriesOf(a, x)
           E == UNION {{Of(x)[i] : i \in 1..Len(Of(x))} : x \in copies}
<1>3. \A c \in 1..Len(order) : order[c] = <<order[c][1], order[c][2]>> /\ order[c][1] \in DOMAIN Marked
  BY RoutedCopies
<1>4. \A c \in 1..Len(order) : \A i \in 1..Len(Offer!EntriesOf(a, order[c])) : Offer!EntriesOf(a, order[c])[i] \in E
  <2> HIDE DEF Of
  <2>1. \A c \in 1..Len(order) : \A i \in 1..Len(Of(order[c])) : Of(order[c])[i] \in E
    BY <1>2
  <2> QED
    BY <2>1 DEF Of
<1> HIDE DEF E
<1>5. FoundAll(r, with, a, order, Len(order), E)
  BY <1>2, <1>3, <1>4, Discovering
<1> SUFFICES ASSUME NEW h \in Offer!Mounted(a), NEW i \in DOMAIN Offer!Claims(a, h)
             PROVE  ClaimHeld(a, with, n, h, Offer!Claims(a, h)[i])
  BY DEF Declared
<1> DEFINE claim == Offer!Claims(a, h)[i]
           first == Offer!Entry(h, 1, claim)
<1>6. h \in DOMAIN Marked /\ 1 \in 1..Marked[h].copies
  BY <1>1, ListsAssumption DEF ListsAssumption, Offer!RegistryAssumption
<1>7. PICK c \in 1..Len(order) : order[c] = <<h, 1>>
  <2>1. <<h, 1>> \in copies
    BY <1>6
  <2> QED
    BY <1>2, <2>1
<1>8. /\ DOMAIN Offer!Claims(a, h) = 1..Len(Offer!EntriesOf(a, <<h, 1>>))
      /\ Fine(Offer!EntriesOf(a, <<h, 1>>)[i]) /\ Offer!EntriesOf(a, <<h, 1>>)[i] = first
  BY <1>6, EntriesKnown
<1>9. Holds(with, claim.kind, claim.name, E) /\ claim.kind \in Claimed
  <2>1. Holds(with, first.claim.kind, first.name, E)
    BY <1>5, <1>7, <1>8 DEF FoundAll
  <2>2. first.claim = claim /\ first.name = claim.name
    BY DEF Offer!Entry
  <2>3. claim.kind \in Claimed
    BY <1>8, <2>2 DEF Fine, Offer!IsClaim, Claimed
  <2> QED
    BY <2>1, <2>2, <2>3
<1>10. PICK j \in Offer!Held(with[claim.kind], claim.name) : with[claim.kind][j] \in E
  BY <1>9 DEF Holds
<1> DEFINE kind == claim.kind
           e == with[kind][j]
<1>11. e.name = claim.name /\ e.claim.kind = kind
  <2>1. j \in DOMAIN with[kind] /\ e.name = claim.name
    BY DEF Offer!Held
  <2>2. kind \in Offer!Kinds /\ kind # "templates"
    BY <1>9 DEF Claimed, Offer!Kinds
  <2>3. Offer!IsSequence(with[kind]) /\ \A k \in 1..Len(with[kind]) : with[kind][k].claim.kind = kind
    BY <1>5, <2>2 DEF FoundAll, ListsKept
  <2>4. DOMAIN with[kind] = 1..Len(with[kind])
    BY <2>3, AsSeq
  <2> QED
    BY <2>1, <2>3, <2>4
<1>12. PICK x \in copies : \E k \in 1..Len(Of(x)) : e = Of(x)[k]
  BY <1>10 DEF E
<1>13. PICK g \in Offer!Mounted(a) : \E m \in 1..Marked[g].copies : x = <<g, m>>
  OBVIOUS
<1>14. PICK m \in 1..Marked[g].copies : x = <<g, m>>
  BY <1>13
<1>15. PICK k \in 1..Len(Of(x)) : e = Of(x)[k]
  BY <1>12
<1> HIDE DEF claim
<1>16. k \in DOMAIN Offer!Claims(a, g) /\ e = Offer!Entry(g, m, Offer!Claims(a, g)[k])
  <2>1. g \in DOMAIN Marked
    BY <1>1
  <2>2. /\ DOMAIN Offer!Claims(a, g) = 1..Len(Offer!EntriesOf(a, <<g, m>>))
        /\ \A l \in 1..Len(Offer!EntriesOf(a, <<g, m>>)) :
             Offer!EntriesOf(a, <<g, m>>)[l] = Offer!Entry(g, m, Offer!Claims(a, g)[l])
    BY <2>1, EntriesKnown
  <2> HIDE DEF e
  <2> QED
    BY <1>14, <1>15, <2>2
<1> HIDE DEF e
<1>17. /\ e.handler = g /\ e.copy = m /\ e.claim = Offer!Claims(a, g)[k] /\ e.name = e.claim.name
  BY <1>16 DEF Offer!Entry
<1>18. SoleIn(a, h, claim) => Marked[e.handler].fn = Marked[h].fn
  BY <1>11, <1>16, <1>17 DEF SoleIn
<1>19. e.copy > 0
  <2>1. Marked[g].copies \in Nat
    BY <1>1, ListsAssumption DEF ListsAssumption, Offer!RegistryAssumption
  <2> QED
    BY <1>14, <1>17, <2>1
<1>20. ClaimHeld(a, with, n, h, claim)
  BY <1>18, <1>19 DEF ClaimHeld, e
<1> QED
  BY <1>20 DEF claim

LEMMA StaysHeld ==
  ASSUME NEW a \in Apps, NEW r, ListsKept(r), NEW e, NEW with,
         \A kind \in Offer!Kinds : with[kind] = r[kind] \/ with[kind] = Offer!Put(r[kind], e),
         NEW n \in Nat, Declared(a, r, n)
  PROVE  Declared(a, with, n + 1)
<1> SUFFICES ASSUME NEW h \in Offer!Mounted(a), NEW i \in DOMAIN Offer!Claims(a, h)
             PROVE  ClaimHeld(a, with, n + 1, h, Offer!Claims(a, h)[i])
  BY DEF Declared
<1> DEFINE claim == Offer!Claims(a, h)[i]
           kind == claim.kind
<1>1. kind \in Offer!Kinds
  <2>1. h \in DOMAIN Marked
    BY MountedMarked
  <2>2. Offer!IsClaim(claim)
    BY <2>1, ListsAssumption DEF ListsAssumption, Offer!RegistryAssumption
  <2> QED
    BY <2>2 DEF Offer!IsClaim, Offer!Kinds
<1>2. Offer!Held(r[kind], claim.name) # {}
  BY DEF Declared, ClaimHeld
<1> HIDE DEF claim
<1>3. Offer!Held(with[kind], claim.name) # {}
  <2>1. CASE with[kind] = r[kind]
    BY <1>2, <2>1
  <2>2. CASE with[kind] = Offer!Put(r[kind], e)
    <3>1. Offer!IsSequence(r[kind])
      BY <1>1 DEF ListsKept
    <3>2. Puts(r[kind], e, with[kind])
      BY <2>2, <3>1, Putting
    <3> QED
      BY <1>2, <3>2 DEF Puts
  <2> QED
    BY <1>1, <2>1, <2>2
<1>4. n + 1 # 0
  OBVIOUS
<1>5. ClaimHeld(a, with, n + 1, h, claim)
  BY <1>3, <1>4 DEF ClaimHeld
<1> QED
  BY <1>5 DEF claim

OfferInv ==
  /\ ListsInv /\ registered \in Nat
  /\ stage = "serving" => app \in Apps /\ Declared(app, registry, registered)

LEMMA OfferInit == CatalogInit => OfferInv
<1>1. CatalogInit => stage \in {"configured", "stopped", "serving"} /\ stage # "serving" /\ registered = 0
  BY DEF CatalogInit, NoRegistry, Offer!RegistryInit
<1> QED
  BY <1>1, ListsInit DEF OfferInv

LEMMA OfferNext == OfferInv /\ [Offer!RegistryNext]_(Offer!registryVars) => OfferInv'
<1> SUFFICES ASSUME OfferInv, [Offer!RegistryNext]_(Offer!registryVars) PROVE OfferInv'
  OBVIOUS
<1>0. /\ ListsInv' /\ ListsKept(registry) /\ registered \in Nat
      /\ stage = "serving" => app \in Apps /\ Declared(app, registry, registered)
      /\ stage \in {"configured", "initialised"} => app \in Apps
  BY ListsNext DEF OfferInv, ListsInv
<1>1. CASE Offer!OnAppInit
  <2>1. stage' = "initialised" /\ registered' = registered
    BY <1>1 DEF Offer!OnAppInit
  <2> QED
    BY <1>0, <2>1 DEF OfferInv
<1>2. CASE Offer!OnStartup
  <2> DEFINE copies == UNION {{<<h, n>> : n \in 1..Marked[h].copies} : h \in Offer!Mounted(app)}
  <2>1. app \in Apps /\ app' = app /\ registered' = registered
    BY <1>0, <1>2 DEF Offer!OnStartup
  <2>2. PICK order \in Offer!SetToSeqs(copies) : registry' = Offer!Discover(registry, app, order)
    BY <1>2 DEF Offer!OnStartup
  <2> HIDE DEF copies
  <2>3. Declared(app, registry', registered)
    BY <1>0, <2>1, <2>2, StartHolds DEF copies
  <2> QED
    BY <1>0, <2>1, <2>3 DEF OfferInv
<1>3. CASE Offer!RegisterLater
  <2>1. stage = "serving" /\ stage' = stage /\ app' = app /\ registered' = registered + 1
    BY <1>3 DEF Offer!RegisterLater
  <2>2. PICK l \in Later : registry' = Offer!Register(registry, Offer!Entry(l.handler, 0, Offer!Written(l.handler, l.mark)))
    BY <1>3 DEF Offer!RegisterLater
  <2> DEFINE e == Offer!Entry(l.handler, 0, Offer!Written(l.handler, l.mark))
             with == registry'
  <2>3. Fine(e)
    BY LaterFine
  <2>4. with = Offer!Register(registry, e)
    BY <2>2
  <2> HIDE DEF e, with
  <2>5. \A kind \in Offer!Kinds : with[kind] = registry[kind] \/ with[kind] = Offer!Put(registry[kind], e)
    BY <1>0, <2>3, <2>4, Registering
  <2>6. Declared(app, with, registered + 1)
    BY <1>0, <2>1, <2>5, StaysHeld
  <2> QED
    BY <1>0, <2>1, <2>6 DEF OfferInv, with
<1>4. CASE Offer!Notify
  BY <1>0, <1>4 DEF Offer!Notify, OfferInv
<1>5. CASE Offer!Ask
  BY <1>0, <1>5 DEF Offer!Ask, OfferInv
<1>6. CASE Offer!Receive
  BY <1>0, <1>6 DEF Offer!Receive, OfferInv
<1>7. CASE Offer!OnShutdown
  BY <1>0, <1>7 DEF Offer!OnShutdown, OfferInv
<1>8. CASE UNCHANGED Offer!registryVars
  BY <1>0, <1>8 DEF Offer!registryVars, OfferInv
<1>9. CASE Offer!RegistryEnds
  BY <1>8, <1>9 DEF Offer!RegistryEnds
<1> QED
  BY <1>1, <1>2, <1>3, <1>4, <1>5, <1>6, <1>7, <1>8, <1>9 DEF Offer!RegistryNext

\* Whatever handlers are marked, held and registered later: what is declared is held as it is
\* routed, what is listed is served by the first that was registered for the URI, a template
\* with the values the URI was made from, and what is hidden serves nothing
\* (mcp/registry.py:43, mcp/service.py:1126).
THEOREM ListedServed == CatalogSpec => []ListedIsServed
<1>1. OfferInv /\ [CatalogNext]_catalogVars => OfferInv'
  BY OfferNext, CatalogLists DEF catalogVars, registryVars, Offer!registryVars
<1>2. OfferInv => ListedIsServed
  <2> SUFFICES ASSUME OfferInv, stage = "serving" PROVE Offer!DeclaredIsHeld
      /\ (\A i \in DOMAIN registry.resources : Offer!ResourceIsServed(i))
      /\ \A i \in DOMAIN registry.templates : Offer!TemplateIsServed(i)
    BY DEF ListedIsServed, Offer!ListedIsServed
  <2>1. Offer!DeclaredIsHeld
    BY DEF OfferInv, Declared, ClaimHeld, SoleIn, Offer!DeclaredIsHeld, Offer!Sole
  <2> QED
    BY <2>1, ResourceServed, TemplateServed DEF OfferInv, ListsInv
<1> QED
  BY OfferInit, <1>1, <1>2, PTL DEF CatalogSpec

(***************************************************************************)
(* The arguments of a call.  Sources says of each parameter, without the   *)
(* split over path, query and body, which keys it is made of.  A key that  *)
(* the schema names has a plain parameter that takes it, or is excused; a  *)
(* parameter is made of its own keys; and a tool gives back the names that *)
(* its handler was synthesized with.                                       *)
(***************************************************************************)

Everything(s) == s.params \union UNION {s.providers[d] : d \in Arguments!Dependencies(s)}
Announced(s) == Arguments!Advertised(s, {})
Wires(s) == {Arguments!WireName(p) : p \in Announced(s)}
Left(s, keys) == Arguments!Leftover(keys, Announced(s))
Resolve(s, keys) == Arguments!Resolved(keys, Announced(s))

\* Taken from elsewhere than the arguments.
IsInjected(s, p) ==
  p.kind \in Arguments!Markers \union {"context"} \/ p.name \in Arguments!Dependencies(s) \union {"request", "state"}

\* The names of a callable that is well named and can be called.
Named(s) == Arguments!WellNamed(s) /\ ~Arguments!Collides(s)

LEMMA NamesTell ==
  ASSUME NEW s, Named(s)
  PROVE  /\ \A p, q \in Everything(s) : Arguments!WireName(p) = Arguments!WireName(q) <=> p.name = q.name
         /\ \A p \in Everything(s) : p.kind \in {"plain", "header", "context"} \union Arguments!Markers
         /\ \A p, q \in s.params : p.name = q.name => p = q
         /\ \A p \in Everything(s) : p.name = "data" =>
              p \in s.params /\ p.kind = "plain" /\ p.alias = "data" /\ Arguments!WireName(p) = "data"
         /\ \A p \in s.params : p.name = "data" => Arguments!HasBody(s)
<1>1. \A p, q \in Everything(s) : Arguments!WireName(p) = Arguments!WireName(q) <=> p.name = q.name
  BY DEF Named, Arguments!WellNamed, Arguments!OneNameEach, Everything
<1>2. \A p \in Everything(s) : p.kind \in {"plain", "header", "context"} \union Arguments!Markers
  BY DEF Named, Arguments!WellNamed, Everything
<1>3. \A p, q \in s.params : p.name = q.name => p = q
  BY DEF Named, Arguments!WellNamed
<1>4. \A p \in Everything(s) : p.name = "data" =>
        p \in s.params /\ p.kind = "plain" /\ p.alias = "data" /\ Arguments!WireName(p) = "data"
  BY DEF Named, Arguments!WellNamed, Everything, Arguments!WireName
<1>5. \A p \in s.params : p.name = "data" => Arguments!HasBody(s)
  BY DEF Arguments!HasBody, Arguments!Names
<1> QED
  BY <1>1, <1>2, <1>3, <1>4, <1>5

LEMMA OfferedTells ==
  ASSUME NEW s, Named(s)
  PROVE  /\ Announced(s) \subseteq Everything(s) /\ Arguments!Inputs(s) \subseteq Everything(s)
         /\ \A p \in Announced(s) : p.name \notin {"request", "state"} \union Arguments!Dependencies(s)
         /\ \A p \in Everything(s) : p \in Announced(s) \/ IsInjected(s, p)
         /\ \A p \in s.params : p.name \in s.path =>
              p \in Announced(s) /\ p.kind = "plain" /\ p.alias = p.name /\ Arguments!WireName(p) = p.name
         /\ \A n \in s.path : n # "data" /\ \E p \in s.params : p.name = n
         /\ Arguments!Advertised(s, s.path) = {p \in Announced(s) : p.name \notin s.path}
<1>1. Announced(s) \subseteq Everything(s)
  BY DEF Announced, Everything, Arguments!Advertised, Arguments!DependencyInputs
<1>2. Arguments!Inputs(s) \subseteq Everything(s)
  BY DEF Everything, Arguments!Inputs, Arguments!Used
<1>3. \A p \in Announced(s) : p.name \notin {"request", "state"} \union Arguments!Dependencies(s)
  BY DEF Announced, Arguments!Advertised, Arguments!DependencyInputs, Arguments!Collected, Arguments!Reserved
<1>4. ASSUME NEW p \in Everything(s), ~IsInjected(s, p) PROVE p \in Announced(s)
  <2>1. CASE p \in s.params
    BY <1>4, <2>1 DEF IsInjected, Announced, Arguments!Advertised, Arguments!Reserved
  <2>2. CASE p \in UNION {s.providers[d] : d \in Arguments!Dependencies(s)}
    <3>1. p.name # "data"
      BY <2>2 DEF Named, Arguments!WellNamed
    <3> QED
      BY <1>4, <2>2, <3>1
      DEF IsInjected, Announced, Arguments!Advertised, Arguments!DependencyInputs, Arguments!Collected, Arguments!Reserved
  <2> QED
    BY <2>1, <2>2 DEF Everything
<1>5. \A n \in s.path : n \notin Arguments!Dependencies(s) \union {"request", "state", "data"}
  BY DEF Named, Arguments!WellNamed, Arguments!Reserved
<1>6. ASSUME NEW p \in s.params, p.name \in s.path
      PROVE  p \in Announced(s) /\ p.kind = "plain" /\ p.alias = p.name /\ Arguments!WireName(p) = p.name
  <2>1. PICK q \in s.params : q.kind = "plain" /\ q.alias = q.name /\ q.name = p.name
    BY <1>6 DEF Named, Arguments!WellNamed
  <2>2. q = p
    BY <2>1, NamesTell
  <2>3. ~IsInjected(s, p)
    BY <1>5, <1>6, <2>1, <2>2 DEF IsInjected, Arguments!Markers
  <2> QED
    BY <1>4, <2>1, <2>2, <2>3 DEF Everything, Arguments!WireName
<1>7. \A n \in s.path : \E p \in s.params : p.name = n
  BY DEF Named, Arguments!WellNamed
<1>8. Arguments!Advertised(s, s.path) = {p \in Announced(s) : p.name \notin s.path}
  BY DEF Announced, Arguments!Advertised, Arguments!DependencyInputs, Arguments!Collected
<1> QED
  BY <1>1, <1>2, <1>3, <1>4, <1>5, <1>6, <1>7, <1>8

\* Which key serves a parameter: its wire name, or else its Python name if that is no wire name.
LEMMA Resolves ==
  ASSUME NEW offered, NEW keys,
         \A p, q \in offered : Arguments!WireName(p) = Arguments!WireName(q) <=> p.name = q.name,
         NEW p \in offered, p.name # "data"
  PROVE  LET w == Arguments!WireName(p)
             r == Arguments!Resolved(keys, offered)
             wires == {Arguments!WireName(q) : q \in {o \in offered : o.name # "data"}}
         IN /\ w \in DOMAIN r <=> w \in keys \/ (p.name \in keys /\ p.name \notin wires)
            /\ w \in DOMAIN r => r[w] = IF w \in keys THEN w ELSE p.name
            /\ DOMAIN r \subseteq wires
<1> DEFINE w == Arguments!WireName(p)
           r == Arguments!Resolved(keys, offered)
           named == {o \in offered : o.name # "data"}
           wires == {Arguments!WireName(q) : q \in named}
           Legacy(v) == {o.name : o \in {q \in named : Arguments!WireName(q) = v /\ q.name # v}} \cap (keys \ wires)
<1>1. r = [v \in {u \in wires : u \in keys \/ Legacy(u) # {}} |->
             IF v \in keys THEN v ELSE CHOOSE n \in Legacy(v) : TRUE]
  BY DEF Arguments!Resolved
<1>2. p \in named /\ w \in wires
  OBVIOUS
<1>3. \A n : n \in Legacy(w) <=> n = p.name /\ n \in keys /\ n \notin wires
  BY <1>2
<1> HIDE DEF w, r, named, wires, Legacy
<1>4. Legacy(w) # {} <=> p.name \in keys /\ p.name \notin wires
  BY <1>3
<1>5. Legacy(w) # {} => (CHOOSE n \in Legacy(w) : TRUE) = p.name
  BY <1>3
<1>6. w \in DOMAIN r <=> w \in keys \/ (p.name \in keys /\ p.name \notin wires)
  BY <1>1, <1>2, <1>4
<1>7. w \in DOMAIN r => r[w] = IF w \in keys THEN w ELSE p.name
  BY <1>1, <1>2, <1>4, <1>5, <1>6
<1>8. DOMAIN r \subseteq wires
  BY <1>1
<1> QED
  BY <1>6, <1>7, <1>8 DEF w, r, named, wires

\* The body of a call: all that nothing else is named after.
BodyOf(s, keys) ==
  IF ~Arguments!HasBody(s) THEN {} ELSE IF "data" \in Left(s, keys) THEN {"data"} ELSE Left(s, keys)

LEMMA Splits ==
  ASSUME NEW s, Named(s), NEW keys
  PROVE  LET split == Arguments!Split(s, keys) IN
         /\ split.path = [n \in keys \cap s.path |-> n]
         /\ split.body = BodyOf(s, keys)
         /\ \A p \in Announced(s) : p.name \notin s.path /\ p.name # "data" =>
              LET w == Arguments!WireName(p) IN
              /\ w \in DOMAIN split.query <=> w \in DOMAIN Resolve(s, keys)
              /\ w \in DOMAIN split.query => split.query[w] = Resolve(s, keys)[w]
<1> DEFINE offered == Arguments!Advertised(s, s.path)
           r == Arguments!Resolved(keys, offered)
           all == {Arguments!WireName(q) : q \in {o \in Announced(s) : o.name # "data"}}
           rest == {Arguments!WireName(q) : q \in {o \in offered : o.name # "data"}}
           split == Arguments!Split(s, keys)
<1>1. offered = {p \in Announced(s) : p.name \notin s.path}
  BY OfferedTells
<1>2. Announced(s) \subseteq Everything(s) /\ s.params \subseteq Everything(s)
  BY OfferedTells DEF Everything
<1>3. \A p, q \in Everything(s) : Arguments!WireName(p) = Arguments!WireName(q) <=> p.name = q.name
  BY NamesTell
<1>4. ASSUME NEW n \in s.path
      PROVE  \E p \in Announced(s) : p.name = n /\ Arguments!WireName(p) = n /\ n # "data"
  <2>1. PICK p \in s.params : p.name = n
    BY OfferedTells
  <2> QED
    BY <2>1, OfferedTells
<1>5. ASSUME NEW q \in Announced(s) PROVE q.name \in s.path <=> Arguments!WireName(q) \in s.path
  <2>1. ASSUME NEW n \in s.path, q.name = n \/ Arguments!WireName(q) = n
        PROVE  q.name = n /\ Arguments!WireName(q) = n
    BY <1>2, <1>3, <1>4, <2>1
  <2> QED
    BY <2>1
<1>6. rest = all \ s.path
  <2>1. ASSUME NEW w \in rest PROVE w \in all \ s.path
    <3>1. PICK q \in offered : q.name # "data" /\ w = Arguments!WireName(q)
      BY <2>1
    <3> QED
      BY <1>1, <1>5, <3>1
  <2>2. ASSUME NEW w \in all \ s.path PROVE w \in rest
    <3>1. PICK q \in Announced(s) : q.name # "data" /\ w = Arguments!WireName(q)
      BY <2>2
    <3>2. q \in offered
      BY <1>1, <1>5, <2>2, <3>1
    <3> QED
      BY <3>1, <3>2
  <2> QED
    BY <2>1, <2>2
<1>7. s.path \subseteq all
  BY <1>4
<1>8. DOMAIN r \subseteq rest
  BY DEF Arguments!Resolved
<1> HIDE DEF offered, r, all, rest, split
<1>9. split = [path |-> [n \in (keys \cap s.path) \union (DOMAIN r \cap s.path) |->
                           IF n \in keys \cap s.path THEN n ELSE r[n]],
               query |-> [w \in DOMAIN r \ s.path |-> r[w]],
               body |-> LET left == Arguments!Leftover(keys, offered) \ (keys \cap s.path)
                        IN IF ~Arguments!HasBody(s) THEN {} ELSE IF "data" \in left THEN {"data"} ELSE left]
  BY DEF Arguments!Split, offered, r, split
<1>10. DOMAIN r \cap s.path = {}
  BY <1>6, <1>8
<1>11. split.path = [n \in keys \cap s.path |-> n]
  BY <1>9, <1>10
<1>12. Arguments!Leftover(keys, offered) \ (keys \cap s.path) = Left(s, keys)
  <2>1. Arguments!Leftover(keys, offered) = keys \ (rest \union Arguments!Names({p \in offered : p.name # "data"}))
    BY DEF Arguments!Leftover, rest
  <2>2. Left(s, keys) = keys \ (all \union Arguments!Names({p \in Announced(s) : p.name # "data"}))
    BY DEF Arguments!Leftover, Left, all
  <2>3. Arguments!Names({p \in Announced(s) : p.name # "data"}) \subseteq
          s.path \union Arguments!Names({p \in offered : p.name # "data"})
    BY <1>1 DEF Arguments!Names
  <2>4. Arguments!Names({p \in offered : p.name # "data"}) \subseteq
          Arguments!Names({p \in Announced(s) : p.name # "data"}) \ s.path
    BY <1>1 DEF Arguments!Names
  <2> QED
    BY <1>6, <1>7, <2>1, <2>2, <2>3, <2>4
<1>13. split.body = BodyOf(s, keys)
  BY <1>9, <1>12 DEF BodyOf
<1>14. ASSUME NEW p \in Announced(s), p.name \notin s.path, p.name # "data"
       PROVE  LET w == Arguments!WireName(p) IN
              /\ w \in DOMAIN split.query <=> w \in DOMAIN Resolve(s, keys)
              /\ w \in DOMAIN split.query => split.query[w] = Resolve(s, keys)[w]
  <2> DEFINE w == Arguments!WireName(p)
             r0 == Resolve(s, keys)
  <2>1. p \in offered
    BY <1>1, <1>14
  <2>2. \A o, q \in offered : Arguments!WireName(o) = Arguments!WireName(q) <=> o.name = q.name
    BY <1>1, <1>2, <1>3
  <2>3. \A o, q \in Announced(s) : Arguments!WireName(o) = Arguments!WireName(q) <=> o.name = q.name
    BY <1>2, <1>3
  <2>4. /\ w \in DOMAIN r <=> w \in keys \/ (p.name \in keys /\ p.name \notin rest)
        /\ w \in DOMAIN r => r[w] = IF w \in keys THEN w ELSE p.name
    BY <1>14, <2>1, <2>2, Resolves DEF r, rest
  <2>5. /\ w \in DOMAIN r0 <=> w \in keys \/ (p.name \in keys /\ p.name \notin all)
        /\ w \in DOMAIN r0 => r0[w] = IF w \in keys THEN w ELSE p.name
    BY <1>14, <2>3, Resolves DEF all, Resolve
  <2>6. p.name \in all <=> p.name \in rest
    BY <1>6, <1>14
  <2>7. w \notin s.path
    BY <1>5, <1>14
  <2> HIDE DEF w, r0
  <2>8. split.query = [v \in DOMAIN r \ s.path |-> r[v]]
    BY <1>9
  <2>9. (w \in DOMAIN split.query <=> w \in DOMAIN r0) /\ (w \in DOMAIN split.query => split.query[w] = r0[w])
    BY <2>4, <2>5, <2>6, <2>7, <2>8
  <2> QED
    BY <2>9 DEF w, r0
<1> QED
  BY <1>11, <1>13, <1>14 DEF split

Absent(p) == IF p.required THEN {} ELSE {"default"}

\* What a parameter of a dispatched call is made of.
Sources(s, keys, unfit, p) ==
  LET w == Arguments!WireName(p)
      r == Resolve(s, keys)
      body == BodyOf(s, keys)
  IN IF IsInjected(s, p) THEN {"injected"}
     ELSE IF p.name \in s.path THEN IF p.name \in keys THEN {p.name} ELSE Absent(p)
     ELSE IF p.name = "data"
     THEN IF body # {} /\ Arguments!Converts(s, body, unfit) THEN body \cap (s.body \union {"data"})
          ELSE IF p.required \/ body # {} THEN {} ELSE {"default"}
     ELSE IF p.kind = "plain" /\ w \in DOMAIN r THEN {r[w]} \ unfit ELSE Absent(p)

LEMMA Bounds ==
  ASSUME NEW s, Named(s), NEW keys, NEW unfit, NEW p \in Arguments!Inputs(s)
  PROVE  Arguments!Bound(s, Arguments!Split(s, keys), unfit, p) = Sources(s, keys, unfit, p)
<1> DEFINE split == Arguments!Split(s, keys)
<1>1. p \in Everything(s) /\ (IsInjected(s, p) \/ p \in Announced(s))
  BY OfferedTells
<1>2. /\ split.path = [n \in keys \cap s.path |-> n]
      /\ split.body = BodyOf(s, keys)
      /\ p \in Announced(s) /\ p.name \notin s.path /\ p.name # "data" =>
           LET w == Arguments!WireName(p) IN
           /\ w \in DOMAIN split.query <=> w \in DOMAIN Resolve(s, keys)
           /\ w \in DOMAIN split.query => split.query[w] = Resolve(s, keys)[w]
  BY Splits
<1> HIDE DEF split
<1>3. p.kind = "plain" => Arguments!WireName(p) = p.alias
  BY DEF Arguments!WireName
<1>4. IsInjected(s, p) <=> p.kind \in Arguments!Markers \union {"context"}
                           \/ p.name \in Arguments!Dependencies(s) \union (Arguments!Reserved \ {"data"})
  BY DEF IsInjected, Arguments!Reserved
<1>5. CASE IsInjected(s, p)
  BY <1>4, <1>5 DEF Arguments!Bound, Sources, split
<1>6. CASE ~IsInjected(s, p) /\ p.name \in s.path
  <2>1. p.name \in DOMAIN split.path <=> p.name \in keys
    BY <1>2, <1>6
  <2>2. p.name \in keys => split.path[p.name] = p.name
    BY <1>2, <1>6
  <2>3. Arguments!Bound(s, split, unfit, p) = IF p.name \in DOMAIN split.path THEN {split.path[p.name]} ELSE Absent(p)
    BY <1>4, <1>6 DEF Arguments!Bound, Absent
  <2> QED
    BY <1>6, <2>1, <2>2, <2>3 DEF Sources, split
<1>7. CASE ~IsInjected(s, p) /\ p.name \notin s.path /\ p.name = "data"
  <2>1. Arguments!Bound(s, split, unfit, p) =
          IF split.body # {} /\ Arguments!Converts(s, split.body, unfit)
          THEN split.body \cap (s.body \union {"data"})
          ELSE IF p.required \/ split.body # {} THEN {} ELSE {"default"}
    BY <1>4, <1>7 DEF Arguments!Bound
  <2> QED
    BY <1>2, <1>7, <2>1 DEF Sources, split
<1>8. CASE ~IsInjected(s, p) /\ p.name \notin s.path /\ p.name # "data"
  <2>1. Arguments!Bound(s, split, unfit, p) =
          IF p.kind = "plain" /\ p.alias \in DOMAIN split.query THEN {split.query[p.alias]} \ unfit ELSE Absent(p)
    BY <1>4, <1>8 DEF Arguments!Bound, Absent
  <2> QED
    BY <1>1, <1>2, <1>3, <1>8, <2>1 DEF Sources, split
<1> QED
  BY <1>5, <1>6, <1>7, <1>8

\* What the keys of a call leave for the body.
LEMMA LeftTells ==
  ASSUME NEW s, Named(s), NEW keys
  PROVE  /\ Left(s, keys) \subseteq keys
         /\ \A k \in keys : k \in Left(s, keys) \/ \E p \in Announced(s) : p.name # "data" /\ k \in {p.name, Arguments!WireName(p)}
         /\ keys \subseteq Wires(s) => Left(s, keys) \subseteq {"data"} /\ (~Arguments!HasBody(s) => Left(s, keys) = {})
         /\ \A p \in Announced(s) : p.name = "data" /\ "data" \in keys => "data" \in Left(s, keys)
<1> DEFINE named == {o \in Announced(s) : o.name # "data"}
<1>1. Left(s, keys) = keys \ ({Arguments!WireName(p) : p \in named} \union {p.name : p \in named})
  BY DEF Left, Arguments!Leftover, Arguments!Names
<1>2. \A k \in keys : k \in Left(s, keys) \/ \E p \in Announced(s) : p.name # "data" /\ k \in {p.name, Arguments!WireName(p)}
  BY <1>1
<1>3. ASSUME keys \subseteq Wires(s), NEW k \in Left(s, keys) PROVE k = "data" /\ Arguments!HasBody(s)
  <2>1. PICK p \in Announced(s) : k = Arguments!WireName(p)
    BY <1>1, <1>3 DEF Wires
  <2>2. p.name = "data"
    BY <1>1, <1>3, <2>1
  <2> QED
    BY <2>1, <2>2, NamesTell, OfferedTells
<1>4. ASSUME NEW p \in Announced(s), p.name = "data", "data" \in keys PROVE "data" \in Left(s, keys)
  <2>1. Arguments!WireName(p) = "data"
    BY <1>4, NamesTell, OfferedTells
  <2>2. \A q \in named : Arguments!WireName(q) # "data"
    BY <1>4, <2>1, NamesTell, OfferedTells
  <2> QED
    BY <1>1, <1>4, <2>2
<1> QED
  BY <1>1, <1>2, <1>3, <1>4

LEMMA AnnouncedApart ==
  ASSUME NEW s, Named(s), NEW keys, NEW p \in Announced(s), p.name # "data"
  PROVE  LET w == Arguments!WireName(p)
             r == Resolve(s, keys)
         IN /\ w \in DOMAIN r <=> w \in keys \/ (p.name \in keys /\ p.name \notin Wires(s))
            /\ w \in DOMAIN r => r[w] = IF w \in keys THEN w ELSE p.name
<1> DEFINE wires == {Arguments!WireName(q) : q \in {o \in Announced(s) : o.name # "data"}}
<1>1. \A o, q \in Announced(s) : Arguments!WireName(o) = Arguments!WireName(q) <=> o.name = q.name
  BY NamesTell, OfferedTells
<1>2. p.name \in wires <=> p.name \in Wires(s)
  <2>1. \A q \in Announced(s) : q.name = "data" => Arguments!WireName(q) = "data"
    BY NamesTell, OfferedTells
  <2> QED
    BY <2>1 DEF Wires
<1> QED
  BY <1>1, <1>2, Resolves DEF Resolve

\* Arguments that the schema asks for are valid.
LEMMA ConformsValid ==
  ASSUME NEW s, Named(s), NEW keys,
         keys \subseteq Arguments!Schema(s).properties, Arguments!Schema(s).required \subseteq keys
  PROVE  Arguments!Valid(s, keys, {})
<1>1. keys \subseteq Wires(s) /\ \A p \in Announced(s) : p.required => Arguments!WireName(p) \in keys
  BY DEF Arguments!Schema, Wires, Announced
<1>2. Left(s, keys) \subseteq {"data"} /\ (~Arguments!HasBody(s) => Left(s, keys) = {})
  BY <1>1, LeftTells
<1> DEFINE body == IF "data" \in Left(s, keys) THEN {"data"} ELSE Left(s, keys)
<1>3. Arguments!HasBody(s) /\ body # {} => Arguments!Converts(s, body, {})
  BY <1>2 DEF Arguments!Converts
<1>4. ASSUME NEW p \in Announced(s)
      PROVE  IF p.name = "data" THEN p.required => Left(s, keys) # {}
             ELSE IF Arguments!WireName(p) \in DOMAIN Resolve(s, keys)
             THEN Resolve(s, keys)[Arguments!WireName(p)] \notin {}
             ELSE ~p.required
  <2>1. CASE p.name = "data"
    BY <1>1, <2>1, NamesTell, OfferedTells, LeftTells
  <2>2. CASE p.name # "data"
    BY <1>1, <2>2, AnnouncedApart
  <2> QED
    BY <2>1, <2>2
<1> QED
  BY <1>2, <1>3, <1>4 DEF Arguments!Valid, Left, Resolve, Announced

\* What a valid call may still lack is a header.
LEMMA ValidBound ==
  ASSUME NEW s, Named(s), NEW keys, NEW unfit, Arguments!Valid(s, keys, unfit)
  PROVE  /\ ~Arguments!Rejected(Arguments!Split(s, keys), unfit)
         /\ \A p \in Arguments!Inputs(s) : Sources(s, keys, unfit, p) = {} => p.kind = "header" /\ p.required
<1> DEFINE r == Resolve(s, keys)
           body == IF "data" \in Left(s, keys) THEN {"data"} ELSE Left(s, keys)
<1>1. /\ Arguments!HasBody(s) /\ body # {} => Arguments!Converts(s, body, unfit)
      /\ ~Arguments!HasBody(s) => Left(s, keys) = {}
      /\ \A p \in Announced(s) :
           IF p.name = "data" THEN p.required => Left(s, keys) # {}
           ELSE IF Arguments!WireName(p) \in DOMAIN r THEN r[Arguments!WireName(p)] \notin unfit
           ELSE ~p.required
  BY DEF Arguments!Valid, Left, Resolve, Announced
<1> HIDE DEF r
<1>2. ASSUME NEW n \in keys \cap s.path PROVE n \notin unfit
  <2>1. PICK p \in s.params : p.name = n
    BY OfferedTells
  <2>2. p \in Announced(s) /\ Arguments!WireName(p) = n /\ n # "data"
    BY <2>1, OfferedTells
  <2>3. n \in DOMAIN r /\ r[n] = n
    BY <2>1, <2>2, AnnouncedApart DEF r
  <2> QED
    BY <1>1, <2>1, <2>2, <2>3
<1>3. ~Arguments!Rejected(Arguments!Split(s, keys), unfit)
  <2>1. Arguments!Split(s, keys).path = [n \in keys \cap s.path |-> n]
    BY Splits
  <2> QED
    BY <1>2, <2>1 DEF Arguments!Rejected
<1>4. ASSUME NEW p \in Arguments!Inputs(s), Sources(s, keys, unfit, p) = {}
      PROVE  p.kind = "header" /\ p.required
  <2>1. p \in Everything(s) /\ ~IsInjected(s, p)
    BY <1>4, OfferedTells DEF Sources
  <2>2. p \in Announced(s)
    BY <2>1, OfferedTells
  <2>3. CASE p.name \in s.path
    <3>1. p.name \notin keys /\ p.required
      BY <1>4, <2>1, <2>3 DEF Sources, Absent
    <3>2. PICK q \in s.params : q.name = p.name /\ p.name # "data"
      BY <2>3, OfferedTells
    <3>3. Arguments!WireName(p) = p.name
      BY <2>1, <2>3, <3>2, OfferedTells, NamesTell DEF Everything
    <3>4. p.name \notin DOMAIN r
      BY <2>2, <3>1, <3>2, <3>3, AnnouncedApart DEF r
    <3> QED
      BY <1>1, <2>2, <3>1, <3>2, <3>3, <3>4
  <2>4. CASE p.name = "data" /\ p.name \notin s.path
    <3>1. Arguments!HasBody(s)
      BY <2>1, <2>4, NamesTell
    <3>2. BodyOf(s, keys) = body
      BY <3>1 DEF BodyOf
    <3>3. s.body # {}
      BY <3>1 DEF Named, Arguments!WellNamed
    <3>4. body = {} <=> Left(s, keys) = {}
      OBVIOUS
    <3>5. CASE body = {}
      BY <1>1, <1>4, <2>1, <2>2, <2>4, <3>2, <3>4, <3>5 DEF Sources
    <3>6. CASE body # {}
      <4>1. Arguments!Converts(s, body, unfit)
        BY <1>1, <3>1, <3>6
      <4>2. body \cap (s.body \union {"data"}) # {}
        BY <3>3, <4>1 DEF Arguments!Converts
      <4> QED
        BY <1>4, <2>1, <2>4, <3>2, <3>6, <4>1, <4>2 DEF Sources
    <3> QED
      BY <3>5, <3>6
  <2>5. CASE p.name # "data" /\ p.name \notin s.path
    <3>1. p.kind \in {"plain", "header"}
      BY <2>1, NamesTell DEF IsInjected
    <3>2. CASE p.kind = "plain" /\ Arguments!WireName(p) \in DOMAIN r
      <4>1. r[Arguments!WireName(p)] \notin unfit
        BY <1>1, <2>2, <2>5, <3>2
      <4> QED
        BY <1>4, <2>1, <2>5, <3>2, <4>1 DEF Sources, r
    <3>3. CASE ~(p.kind = "plain" /\ Arguments!WireName(p) \in DOMAIN r)
      <4>1. p.required
        BY <1>4, <2>1, <2>5, <3>3 DEF Sources, r, Absent
      <4>2. Arguments!WireName(p) \in DOMAIN r
        BY <1>1, <2>2, <2>5, <4>1
      <4> QED
        BY <3>1, <3>3, <4>1, <4>2
    <3> QED
      BY <3>2, <3>3
  <2> QED
    BY <2>3, <2>4, <2>5
<1> QED
  BY <1>3, <1>4

TakenAs(s, p) == \E q \in Arguments!Inputs(s) : q.name = p.name /\ q.kind = "plain"

Unreached(s, keys) ==
  {k \in keys :
     \/ Arguments!HasBody(s) /\ k \in Left(s, keys) \ (IF "data" \in Left(s, keys) THEN {"data"} ELSE s.body)
     \/ \E p \in Announced(s) :
          \/ k = Arguments!WireName(p) /\ ~TakenAs(s, p)
          \/ k = p.name /\ k \notin Wires(s) /\ (~TakenAs(s, p) \/ Arguments!WireName(p) \in keys)}

\* In a call that binds everything, each key that can be passed is bound.
LEMMA KeysReach ==
  ASSUME NEW s, Named(s), NEW keys, NEW unfit,
         ~Arguments!HasBody(s) => Left(s, keys) = {},
         \A p \in Arguments!Inputs(s) : Sources(s, keys, unfit, p) # {},
         NEW k \in keys, k \notin Unreached(s, keys)
  PROVE  \E q \in Arguments!Inputs(s) : k \in Sources(s, keys, unfit, q)
<1>1. s.params \subseteq Arguments!Inputs(s) /\ Arguments!Inputs(s) \subseteq Everything(s)
  BY OfferedTells DEF Arguments!Inputs
<1>2. CASE k \in Left(s, keys)
  <2>1. Arguments!HasBody(s)
    BY <1>2
  <2>2. k \in IF "data" \in Left(s, keys) THEN {"data"} ELSE s.body
    BY <1>2, <2>1 DEF Unreached
  <2>3. PICK p \in s.params : p.name = "data"
    BY <2>1 DEF Arguments!HasBody, Arguments!Names
  <2>4. k \in BodyOf(s, keys)
    BY <1>2, <2>1, <2>2 DEF BodyOf
  <2>5. p.kind = "plain" /\ p \in Everything(s)
    BY <1>1, <2>3, NamesTell
  <2>6. ~IsInjected(s, p) \/ Sources(s, keys, unfit, p) = {"injected"}
    BY DEF Sources
  <2>7. "data" \notin s.path
    BY OfferedTells
  <2>8. CASE ~IsInjected(s, p)
    <3>1. Sources(s, keys, unfit, p) = BodyOf(s, keys) \cap (s.body \union {"data"})
      BY <1>1, <2>3, <2>4, <2>7, <2>8 DEF Sources
    <3> QED
      BY <1>1, <2>2, <2>3, <2>4, <3>1
  <2>9. CASE IsInjected(s, p)
    <3>1. "data" \in Arguments!Dependencies(s)
      BY <2>3, <2>5, <2>9 DEF IsInjected, Arguments!Markers
    <3> QED
      BY <3>1 DEF Named, Arguments!WellNamed, Arguments!Reserved
  <2> QED
    BY <2>8, <2>9
<1>3. CASE k \notin Left(s, keys)
  <2>1. PICK o \in Announced(s) : o.name # "data" /\ k \in {o.name, Arguments!WireName(o)}
    BY <1>3, LeftTells
  <2>2. PICK p \in Announced(s) : p.name # "data" /\ (k = Arguments!WireName(p) \/ (k = p.name /\ k \notin Wires(s)))
    <3>1. CASE k \in Wires(s)
      <4>1. PICK p \in Announced(s) : k = Arguments!WireName(p)
        BY <3>1 DEF Wires
      <4>2. p.name = "data" => k \in Left(s, keys)
        BY <4>1, LeftTells, NamesTell, OfferedTells
      <4> QED
        BY <1>3, <4>1, <4>2
    <3>2. CASE k \notin Wires(s)
      BY <2>1, <3>2 DEF Wires
    <3> QED
      BY <3>1, <3>2
  <2>3. TakenAs(s, p) /\ (k = Arguments!WireName(p) \/ Arguments!WireName(p) \notin keys)
    BY <2>2 DEF Unreached
  <2>4. PICK q \in Arguments!Inputs(s) : q.name = p.name /\ q.kind = "plain"
    BY <2>3 DEF TakenAs
  <2>5. p \in Everything(s) /\ q \in Everything(s) /\ Arguments!WireName(q) = Arguments!WireName(p)
    BY <1>1, <2>4, NamesTell, OfferedTells
  <2>6. ~IsInjected(s, q)
    BY <2>4, OfferedTells DEF IsInjected, Arguments!Markers
  <2>7. CASE q.name \in s.path
    <3>1. PICK n \in s.params : n.name = q.name
      BY <2>7, OfferedTells
    <3>2. Arguments!WireName(q) = q.name
      BY <2>5, <2>7, <3>1, NamesTell, OfferedTells DEF Everything
    <3>3. k = q.name
      BY <2>2, <2>4, <2>5, <3>2
    <3> QED
      BY <2>6, <2>7, <3>3 DEF Sources
  <2>8. CASE q.name \notin s.path
    <3>1. Arguments!WireName(p) \in DOMAIN Resolve(s, keys) /\ Resolve(s, keys)[Arguments!WireName(p)] = k
      BY <2>2, <2>3, AnnouncedApart
    <3>2. Sources(s, keys, unfit, q) = {k} \ unfit
      BY <2>2, <2>4, <2>5, <2>6, <2>8, <3>1 DEF Sources
    <3> QED
      BY <3>2
  <2> QED
    BY <2>7, <2>8
<1> QED
  BY <1>2, <1>3

\* A parameter is made of its own keys.
LEMMA KeysOwn ==
  ASSUME NEW s, Named(s), NEW keys, NEW unfit, {"injected", "default"} \cap keys = {}, NEW p \in Arguments!Inputs(s)
  PROVE  Sources(s, keys, unfit, p) \cap keys \subseteq
           IF p.kind \in Arguments!Markers \union {"context"} THEN {}
           ELSE IF p.name = "data" THEN s.body \union {"data"} ELSE {p.name, p.alias}
<1>1. p \in Everything(s) /\ (IsInjected(s, p) \/ p \in Announced(s))
  BY OfferedTells
<1>2. CASE IsInjected(s, p)
  BY <1>2 DEF Sources
<1>3. CASE ~IsInjected(s, p) /\ p.name \in s.path
  <2>1. p.name # "data" /\ Sources(s, keys, unfit, p) \cap keys \subseteq {p.name}
    BY <1>3, OfferedTells DEF Sources, Absent
  <2> QED
    BY <1>3, <2>1 DEF IsInjected
<1>4. CASE ~IsInjected(s, p) /\ p.name \notin s.path /\ p.name = "data"
  BY <1>4 DEF IsInjected, Sources
<1>5. CASE ~IsInjected(s, p) /\ p.name \notin s.path /\ p.name # "data"
  <2>1. p.kind = "plain" => Arguments!WireName(p) = p.alias
    BY DEF Arguments!WireName
  <2>2. Arguments!WireName(p) \in DOMAIN Resolve(s, keys) =>
          Resolve(s, keys)[Arguments!WireName(p)] \in {Arguments!WireName(p), p.name}
    BY <1>1, <1>5, AnnouncedApart
  <2>3. Sources(s, keys, unfit, p) \cap keys \subseteq {p.name, p.alias}
    BY <1>5, <2>1, <2>2 DEF Sources, Absent
  <2> QED
    BY <1>5, <2>3 DEF IsInjected
<1> QED
  BY <1>2, <1>3, <1>4, <1>5

-----------------------------------------------------------------------------
(* The way of a call *)

Own(c, p) ==
  (IF c.target = "tool" /\ p.name \in Arguments!Reserved THEN {Arguments!Synthesized[p.name]} ELSE {})
  \union IF p.name = "data" THEN c.callable.body \union {"data"} ELSE {p.name, p.alias}

Reaches(c, vals, use) ==
  /\ c.keys \subseteq Unreached(Arguments!Handler(c), c.keys) \union use \union UNION {vals[n] : n \in DOMAIN vals}
  /\ \A p \in c.callable.params :
       vals[p.name] \cap c.keys \subseteq
         IF p.kind = "rest" THEN c.keys \ UNION {Own(c, q) : q \in c.callable.params \ {p}}
         ELSE IF p.kind \notin Arguments!Markers \union {"context"} THEN Own(c, p)
         ELSE IF c.target = "agent" THEN {p.name} ELSE {}

\* An accepted call is valid, but that the strings of a prompt need not convert.
Accepts(c) ==
  LET s == Arguments!Handler(c)
  IN /\ c.target \in {"handler", "tool", "prompt"} /\ ~Arguments!Collides(s)
     /\ ~Arguments!HasBody(s) => Left(s, c.keys) = {}
     /\ Arguments!Valid(s, c.keys, c.unfit) \/ (c.target = "prompt" /\ c.unfit # {})

\* What a tool is executed with.
Prepared(c, vals, use) ==
  /\ c.target = "tool"
  /\ DOMAIN vals = {p.name : p \in {q \in c.callable.params : q.kind \in {"plain", "header", "dependency"}}}
  /\ \A n \in DOMAIN vals : vals[n] # {}
  /\ c.keys \subseteq Unreached(Arguments!Handler(c), c.keys) \union use \union UNION {vals[n] : n \in DOMAIN vals}
  /\ \A p \in c.callable.params :
       /\ p.kind \in {"plain", "header"} => vals[p.name] \cap c.keys \subseteq Own(c, p)
       /\ p.kind = "dependency" => vals[p.name] \cap c.keys = {}

ArgsInv ==
  step # "done" =>
    /\ passing \in Passes /\ step \in {"sent", "accepted", "refused", "failed", "bound", "called"}
    /\ step = "refused" => ~Arguments!Conforms
    /\ step = "failed" => Arguments!MayFail
    /\ step = "accepted" => Accepts(passing)
    /\ step = "bound" => Prepared(passing, values, used)
    /\ step = "called" => Reaches(passing, values, used)

LEMMA ReachesIs ==
  ASSUME step = "called", Reaches(passing, values, used)
  PROVE  Arguments!ArgumentsReach
<1>1. Arguments!Unreachable = Unreached(Arguments!Handler(passing), passing.keys)
  BY DEF Arguments!Unreachable, Unreached, Wires, Left, Announced, TakenAs
<1> QED
  BY <1>1 DEF Arguments!ArgumentsReach, Reaches, Own

LEMMA CallKept ==
  ASSUME passing' = passing
  PROVE  (Arguments!Conforms)' = Arguments!Conforms /\ (Arguments!MayFail)' = Arguments!MayFail
BY DEF Arguments!Conforms, Arguments!Offered, Arguments!PromptArguments, Arguments!MayFail

LEMMA HandlerNamed ==
  ASSUME NEW c \in Passes, c.target \in {"handler", "tool", "prompt"}, ~Arguments!Collides(Arguments!Handler(c))
  PROVE  Named(Arguments!Handler(c))
BY PassesAssumption DEF PassesAssumption, Arguments!IsCall, Arguments!Handler, Named

LEMMA ValidateKeeps ==
  ASSUME ArgsInv, Arguments!Validate
  PROVE  ArgsInv'
<1> DEFINE s == Arguments!Handler(passing)
<1>1. /\ step = "sent" /\ passing.target \in {"handler", "tool"} /\ passing' = passing /\ values' = values /\ used' = used
      /\ step' = IF Arguments!Collides(s) THEN "failed"
                 ELSE IF Arguments!Valid(s, passing.keys, passing.unfit) THEN "accepted" ELSE "refused"
  BY DEF Arguments!Validate
<1>2. passing \in Passes /\ (Arguments!Conforms)' = Arguments!Conforms /\ (Arguments!MayFail)' = Arguments!MayFail
  BY <1>1, CallKept DEF ArgsInv
<1>3. CASE Arguments!Collides(s)
  <2>1. Arguments!MayFail
    BY <1>3 DEF Arguments!MayFail
  <2> QED
    BY <1>1, <1>2, <1>3, <2>1 DEF ArgsInv
<1>4. CASE ~Arguments!Collides(s) /\ Arguments!Valid(s, passing.keys, passing.unfit)
  <2>1. ~Arguments!HasBody(s) => Left(s, passing.keys) = {}
    BY <1>4 DEF Arguments!Valid, Left, Announced
  <2>2. Accepts(passing)
    BY <1>1, <1>4, <2>1 DEF Accepts
  <2> QED
    BY <1>1, <1>2, <1>4, <2>2 DEF ArgsInv
<1>5. CASE ~Arguments!Collides(s) /\ ~Arguments!Valid(s, passing.keys, passing.unfit)
  <2>1. Named(s)
    BY <1>1, <1>2, <1>5, HandlerNamed
  <2>2. ASSUME Arguments!Conforms PROVE FALSE
    <3>1. Arguments!Offered = Arguments!Schema(s)
      BY <1>1 DEF Arguments!Offered
    <3>2. passing.keys \subseteq Arguments!Schema(s).properties /\ Arguments!Schema(s).required \subseteq passing.keys
          /\ passing.unfit = {}
      BY <2>2, <3>1 DEF Arguments!Conforms
    <3> QED
      BY <1>5, <2>1, <3>2, ConformsValid
  <2> QED
    BY <1>1, <1>2, <1>5, <2>2 DEF ArgsInv
<1> QED
  BY <1>3, <1>4, <1>5

LEMMA GetPromptKeeps ==
  ASSUME ArgsInv, Arguments!GetPrompt
  PROVE  ArgsInv'
<1> DEFINE s == passing.callable
           declared == Arguments!HandlerArguments(s)
           Fit == /\ \A a \in declared : a.required => a.name \in passing.keys
                  /\ passing.keys \subseteq {a.name : a \in declared}
<1>1. /\ step = "sent" /\ passing.target = "prompt" /\ passing' = passing /\ values' = values /\ used' = used
      /\ step' = IF Arguments!Collides(s) THEN "failed" ELSE IF Fit THEN "accepted" ELSE "refused"
  BY DEF Arguments!GetPrompt, Arguments!PromptArguments
<1>2. passing \in Passes /\ (Arguments!Conforms)' = Arguments!Conforms /\ (Arguments!MayFail)' = Arguments!MayFail
  BY <1>1, CallKept DEF ArgsInv
<1>3. Arguments!Handler(passing) = s
  BY <1>1 DEF Arguments!Handler
<1>4. CASE Arguments!Collides(s)
  <2>1. Arguments!MayFail
    BY <1>3, <1>4 DEF Arguments!MayFail
  <2> QED
    BY <1>1, <1>2, <1>4, <2>1 DEF ArgsInv
<1>5. CASE ~Arguments!Collides(s) /\ Fit
  <2>1. Named(s)
    BY <1>1, <1>2, <1>3, <1>5, HandlerNamed
  <2>2. /\ passing.keys \subseteq Arguments!Schema(s).properties /\ Arguments!Schema(s).required \subseteq passing.keys
        /\ passing.keys \subseteq Wires(s)
    <3>1. \A p \in Announced(s) : [name |-> Arguments!WireName(p), required |-> p.required] \in declared
      BY DEF Arguments!HandlerArguments, Announced
    <3>2. \A a \in declared : a.name \in Wires(s)
      BY DEF Arguments!HandlerArguments, Wires, Announced
    <3> HIDE DEF declared
    <3>3. passing.keys \subseteq Wires(s)
      BY <1>5, <3>2
    <3>4. \A p \in Announced(s) : p.required => Arguments!WireName(p) \in passing.keys
      BY <1>5, <3>1
    <3> QED
      BY <3>3, <3>4 DEF Arguments!Schema, Wires, Announced
  <2>3. ~Arguments!HasBody(s) => Left(s, passing.keys) = {}
    BY <2>1, <2>2, LeftTells
  <2>4. passing.unfit = {} => Arguments!Valid(s, passing.keys, passing.unfit)
    BY <2>1, <2>2, ConformsValid
  <2>5. Accepts(passing)
    BY <1>1, <1>3, <1>5, <2>3, <2>4 DEF Accepts
  <2> QED
    BY <1>1, <1>2, <1>5, <2>5 DEF ArgsInv
<1>6. CASE ~Arguments!Collides(s) /\ ~Fit
  <2>1. ~Arguments!Conforms
    BY <1>1, <1>6 DEF Arguments!Conforms, Arguments!Offered, Arguments!PromptArguments, Arguments!Names
  <2> QED
    BY <1>1, <1>2, <1>6, <2>1 DEF ArgsInv
<1> QED
  BY <1>4, <1>5, <1>6

LEMMA CallPromptKeeps ==
  ASSUME ArgsInv, Arguments!CallPrompt
  PROVE  ArgsInv'
<1> DEFINE s == passing.callable
           keys == passing.keys
           known == Arguments!Names({p \in s.params : p.kind # "rest"})
<1>1. /\ step = "sent" /\ passing.target = "function" /\ passing' = passing /\ used' = used
      /\ IF Arguments!Binds(s, keys)
         THEN /\ step' = "called"
              /\ values' = [n \in Arguments!Names(s.params) |->
                             IF n \notin known THEN keys \ known ELSE IF n \in keys THEN {n} ELSE {"default"}]
         ELSE step' = "refused" /\ values' = values
  BY DEF Arguments!CallPrompt
<1>2. passing \in Passes /\ (Arguments!Conforms)' = Arguments!Conforms
  BY <1>1, CallKept DEF ArgsInv
<1>3. /\ {"injected", "default"} \cap keys = {}
      /\ \A p, q \in s.params : p.name = q.name => p = q
      /\ s.body = {}
      /\ \A p \in s.params : p.alias = p.name /\ p.kind \in {"plain", "rest"}
      /\ \A p, q \in s.params : p.kind = "rest" /\ q.kind = "rest" => p = q
      /\ \A p \in s.params : p.kind = "rest" => ~p.required
  BY <1>1, <1>2, PassesAssumption DEF PassesAssumption, Arguments!IsCall
<1>4. \A p \in s.params : p.name \in known <=> p.kind # "rest"
  BY <1>3 DEF Arguments!Names
<1>5. CASE Arguments!Binds(s, keys)
  <2> DEFINE vals == [n \in Arguments!Names(s.params) |->
                        IF n \notin known THEN keys \ known ELSE IF n \in keys THEN {n} ELSE {"default"}]
  <2>1. \A p \in s.params : p.name \in DOMAIN vals
    BY DEF Arguments!Names
  <2>2. \A p \in s.params : vals[p.name] = IF p.kind = "rest" THEN keys \ known ELSE IF p.name \in keys THEN {p.name} ELSE {"default"}
    BY <1>4, <2>1
  <2>3. \A n \in known : \E p \in s.params : p.name = n /\ p.kind # "rest"
    BY DEF Arguments!Names
  <2>4. \A k \in keys : k \in known \/ \E p \in s.params : p.kind = "rest"
    BY <1>5 DEF Arguments!Binds, Arguments!Names
  <2> HIDE DEF vals, known
  <2>5. ASSUME NEW k \in keys PROVE \E p \in s.params : k \in vals[p.name]
    <3>1. CASE k \in known
      <4>1. PICK p \in s.params : p.name = k /\ p.kind # "rest"
        BY <2>3, <3>1
      <4>2. vals[p.name] = {k}
        BY <2>2, <2>5, <4>1
      <4> QED
        BY <4>1, <4>2
    <3>2. CASE k \notin known
      <4>1. PICK p \in s.params : p.kind = "rest"
        BY <2>4, <2>5, <3>2
      <4>2. vals[p.name] = keys \ known
        BY <2>2, <4>1
      <4> QED
        BY <2>5, <3>2, <4>1, <4>2
    <3> QED
      BY <3>1, <3>2
  <2>6. keys \subseteq UNION {vals[n] : n \in DOMAIN vals}
    BY <2>1, <2>5
  <2>7. \A q \in s.params : Own(passing, q) \subseteq {q.name, "data"} /\ ("data" \in Own(passing, q) => q.name = "data")
    BY <1>1, <1>3 DEF Own
  <2>8. ASSUME NEW p \in s.params
        PROVE  vals[p.name] \cap keys \subseteq
                 IF p.kind = "rest" THEN keys \ UNION {Own(passing, q) : q \in s.params \ {p}}
                 ELSE IF p.kind \notin Arguments!Markers \union {"context"} THEN Own(passing, p)
                 ELSE IF passing.target = "agent" THEN {p.name} ELSE {}
    <3>1. CASE p.kind = "rest"
      <4>1. \A q \in s.params \ {p} : q.name \in known /\ Own(passing, q) \subseteq {q.name}
        BY <1>3, <1>4, <2>7, <3>1
      <4>2. UNION {Own(passing, q) : q \in s.params \ {p}} \subseteq known
        BY <4>1
      <4>3. vals[p.name] = keys \ known
        BY <2>2, <3>1
      <4> QED
        BY <3>1, <4>2, <4>3
    <3>2. CASE p.kind = "plain"
      <4>1. p.name \in Own(passing, p)
        BY DEF Own
      <4>2. vals[p.name] \cap keys \subseteq {p.name}
        BY <1>3, <2>2, <3>2
      <4> QED
        BY <3>2, <4>1, <4>2 DEF Arguments!Markers
    <3> QED
      BY <1>3, <3>1, <3>2
  <2>9. Reaches(passing, vals, used)
    BY <2>6, <2>8 DEF Reaches
  <2>10. step' = "called" /\ values' = vals
    BY <1>1, <1>5 DEF vals, known
  <2> QED
    BY <1>1, <1>2, <2>9, <2>10 DEF ArgsInv
<1>6. CASE ~Arguments!Binds(s, keys)
  <2>1. ASSUME Arguments!Conforms PROVE FALSE
    <3> DEFINE declared == Arguments!PromptArguments(passing)
    <3>1. declared = {[name |-> p.name, required |-> p.required] : p \in {q \in s.params : q.kind # "rest"}}
      BY <1>1 DEF Arguments!PromptArguments
    <3>2. /\ passing.keys \subseteq Arguments!Names(declared)
          /\ Arguments!Names({a \in declared : a.required}) \subseteq passing.keys
      BY <1>1, <2>1 DEF Arguments!Conforms, Arguments!Offered
    <3>3. \A k \in keys : k \in Arguments!Names(s.params)
      BY <3>1, <3>2 DEF Arguments!Names
    <3>4. ASSUME NEW p \in s.params, p.required PROVE p.name \in keys
      <4>1. [name |-> p.name, required |-> p.required] \in declared
        <5>1. p.kind # "rest"
          BY <1>3, <3>4
        <5> QED
          BY <3>1, <5>1
      <4> HIDE DEF declared
      <4>2. p.name \in Arguments!Names({a \in declared : a.required})
        BY <3>4, <4>1 DEF Arguments!Names
      <4> QED
        BY <3>2, <4>2
    <3> QED
      BY <1>6, <3>3, <3>4 DEF Arguments!Binds
  <2> QED
    BY <1>1, <1>2, <1>6, <2>1 DEF ArgsInv
<1> QED
  BY <1>5, <1>6

\* What an accepted call binds.
LEMMA AcceptedBinds ==
  ASSUME NEW c \in Passes, Accepts(c)
  PROVE  LET s == Arguments!Handler(c) IN
         /\ Named(s) /\ {"injected", "default"} \cap c.keys = {}
         /\ ~Arguments!HasBody(s) => Left(s, c.keys) = {}
         /\ \/ c.target = "prompt" /\ c.unfit # {}
            \/ /\ ~Arguments!Rejected(Arguments!Split(s, c.keys), c.unfit)
               /\ \A p \in Arguments!Inputs(s) : Sources(s, c.keys, c.unfit, p) = {} => p.kind = "header" /\ p.required
<1>1. Named(Arguments!Handler(c))
  BY HandlerNamed DEF Accepts
<1>2. {"injected", "default"} \cap c.keys = {}
  BY PassesAssumption DEF PassesAssumption, Arguments!IsCall
<1> QED
  BY <1>1, <1>2, ValidBound DEF Accepts

\* What a handler is given, of each parameter.
Given(c) ==
  LET s == Arguments!Handler(c)
  IN [n \in Arguments!Names(s.params) |-> Sources(s, c.keys, c.unfit, CHOOSE p \in s.params : p.name = n)]

\* The keys that the inputs of dependencies are made of.
SetAside(c) ==
  LET s == Arguments!Handler(c)
  IN c.keys \cap UNION {Sources(s, c.keys, c.unfit, p) : p \in Arguments!Inputs(s) \ s.params}

AllBound(c) ==
  LET s == Arguments!Handler(c) IN \A p \in Arguments!Inputs(s) : Sources(s, c.keys, c.unfit, p) # {}

LEMMA GivenTells ==
  ASSUME NEW c \in Passes, Accepts(c), AllBound(c)
  PROVE  LET s == Arguments!Handler(c) IN
         /\ DOMAIN Given(c) = {p.name : p \in s.params}
         /\ \A p \in s.params : Given(c)[p.name] = Sources(s, c.keys, c.unfit, p) /\ Given(c)[p.name] # {}
         /\ \A p \in s.params :
              Given(c)[p.name] \cap c.keys \subseteq
                IF p.kind \in Arguments!Markers \union {"context"} THEN {}
                ELSE IF p.name = "data" THEN s.body \union {"data"} ELSE {p.name, p.alias}
         /\ c.keys \subseteq Unreached(s, c.keys) \union SetAside(c) \union UNION {Given(c)[p.name] : p \in s.params}
<1> DEFINE s == Arguments!Handler(c)
<1>1. Named(s) /\ {"injected", "default"} \cap c.keys = {} /\ (~Arguments!HasBody(s) => Left(s, c.keys) = {})
  BY AcceptedBinds
<1>2. DOMAIN Given(c) = {p.name : p \in s.params}
  BY DEF Given, Arguments!Names
<1>3. ASSUME NEW p \in s.params PROVE Given(c)[p.name] = Sources(s, c.keys, c.unfit, p)
  <2>1. (CHOOSE q \in s.params : q.name = p.name) = p
    BY <1>1, NamesTell
  <2>2. p.name \in Arguments!Names(s.params)
    BY DEF Arguments!Names
  <2> QED
    BY <2>1, <2>2 DEF Given
<1>4. s.params \subseteq Arguments!Inputs(s)
  BY DEF Arguments!Inputs
<1>5. \A p \in s.params :
        Given(c)[p.name] \cap c.keys \subseteq
          IF p.kind \in Arguments!Markers \union {"context"} THEN {}
          ELSE IF p.name = "data" THEN s.body \union {"data"} ELSE {p.name, p.alias}
  BY <1>1, <1>3, <1>4, KeysOwn
<1>6. ASSUME NEW k \in c.keys, k \notin Unreached(s, c.keys)
      PROVE  k \in SetAside(c) \/ \E p \in s.params : k \in Given(c)[p.name]
  <2>1. \A p \in Arguments!Inputs(s) : Sources(s, c.keys, c.unfit, p) # {}
    BY DEF AllBound
  <2>2. PICK q \in Arguments!Inputs(s) : k \in Sources(s, c.keys, c.unfit, q)
    BY <1>1, <1>6, <2>1, KeysReach
  <2>3. CASE q \in s.params
    BY <1>3, <2>2, <2>3
  <2>4. CASE q \notin s.params
    <3> DEFINE others == Arguments!Inputs(s) \ s.params
               Of(p) == Sources(s, c.keys, c.unfit, p)
    <3>1. q \in others /\ k \in Of(q)
      BY <2>2, <2>4
    <3>2. SetAside(c) = c.keys \cap UNION {Of(p) : p \in others}
      BY DEF SetAside
    <3> HIDE DEF others, Of
    <3> QED
      BY <1>6, <3>1, <3>2
  <2> QED
    BY <2>3, <2>4
<1>7. \A p \in s.params : Given(c)[p.name] # {}
  BY <1>3, <1>4 DEF AllBound
<1> HIDE DEF s
<1>8. c.keys \subseteq Unreached(s, c.keys) \union SetAside(c) \union UNION {Given(c)[p.name] : p \in s.params}
  BY <1>6
<1> QED
  BY <1>2, <1>3, <1>5, <1>7, <1>8 DEF s

LEMMA GivenReaches ==
  ASSUME NEW c \in Passes, Accepts(c), AllBound(c), c.target \in {"handler", "prompt"}
  PROVE  Reaches(c, Given(c), SetAside(c))
<1> DEFINE s == c.callable
<1>1. Arguments!Handler(c) = s
  BY DEF Arguments!Handler
<1>2. /\ DOMAIN Given(c) = {p.name : p \in s.params}
      /\ \A p \in s.params :
              Given(c)[p.name] \cap c.keys \subseteq
                IF p.kind \in Arguments!Markers \union {"context"} THEN {}
                ELSE IF p.name = "data" THEN s.body \union {"data"} ELSE {p.name, p.alias}
      /\ c.keys \subseteq Unreached(s, c.keys) \union SetAside(c) \union UNION {Given(c)[p.name] : p \in s.params}
  BY <1>1, GivenTells
<1>3. \A p \in s.params : p.kind # "rest"
  BY <1>1, AcceptedBinds, NamesTell DEF Everything, Arguments!Markers
<1>4. \A p \in s.params : Own(c, p) = IF p.name = "data" THEN s.body \union {"data"} ELSE {p.name, p.alias}
  BY DEF Own
<1> HIDE DEF s
<1>5. UNION {Given(c)[p.name] : p \in s.params} \subseteq UNION {Given(c)[n] : n \in DOMAIN Given(c)}
  BY <1>2
<1>6. c.keys \subseteq Unreached(Arguments!Handler(c), c.keys) \union SetAside(c) \union UNION {Given(c)[n] : n \in DOMAIN Given(c)}
  BY <1>1, <1>2, <1>5
<1>7. ASSUME NEW p \in s.params
      PROVE  Given(c)[p.name] \cap c.keys \subseteq
               IF p.kind = "rest" THEN c.keys \ UNION {Own(c, q) : q \in s.params \ {p}}
               ELSE IF p.kind \notin Arguments!Markers \union {"context"} THEN Own(c, p)
               ELSE IF c.target = "agent" THEN {p.name} ELSE {}
  BY <1>2, <1>3, <1>4
<1> QED
  BY <1>6, <1>7 DEF Reaches, s

\* The name a parameter has in the handler of a tool.
CalledWith(p) == IF p.name \in Arguments!Reserved THEN Arguments!Synthesized[p.name] ELSE p.name

LEMMA RestoredFits ==
  ASSUME NEW c \in Passes, Accepts(c), AllBound(c), c.target = "tool"
  PROVE  Prepared(c, Arguments!Restored(c.callable, Given(c)), SetAside(c))
<1> DEFINE t == c.callable
           s == Arguments!Handler(c)
           passed == {q \in t.params : q.kind \in {"plain", "header", "dependency"}}
           vals == Arguments!Restored(t, Given(c))
           Ren(p) == [name |-> CalledWith(p), alias |-> p.name, kind |-> p.kind, required |-> p.required]
<1>1. /\ DOMAIN Given(c) = {p.name : p \in s.params}
      /\ \A p \in s.params : Given(c)[p.name] # {}
      /\ \A p \in s.params :
              Given(c)[p.name] \cap c.keys \subseteq
                IF p.kind \in Arguments!Markers \union {"context"} THEN {}
                ELSE IF p.name = "data" THEN s.body \union {"data"} ELSE {p.name, p.alias}
      /\ c.keys \subseteq Unreached(s, c.keys) \union SetAside(c) \union UNION {Given(c)[p.name] : p \in s.params}
  BY GivenTells
<1>2. /\ \A p, q \in t.params : p.name = q.name => p = q
      /\ \A p \in t.params : p.kind = "dependency" => p.name \notin Arguments!Reserved
  BY PassesAssumption DEF PassesAssumption, Arguments!IsCall
<1>3. s.params = {Ren(p) : p \in {q \in t.params : q.kind \in {"plain", "header"}}}
                 \union {p \in t.params : p.kind = "dependency"} \union {Arguments!Request}
  BY DEF Arguments!Handler, Arguments!Endpoint, CalledWith
<1>4. vals = [n \in {p.name : p \in passed} |->
                IF n \in Arguments!Reserved THEN Given(c)[Arguments!Synthesized[n]] ELSE Given(c)[n]]
  BY DEF Arguments!Restored
<1>5. \A p \in passed : vals[p.name] = Given(c)[CalledWith(p)]
  BY <1>4 DEF CalledWith
<1>6. \A p \in passed : p.kind \in {"plain", "header"} => Ren(p) \in s.params
  BY <1>3
<1>7. \A p \in passed : p.kind = "dependency" => p \in s.params /\ CalledWith(p) = p.name
  BY <1>2, <1>3 DEF CalledWith
<1>8. \A p \in t.params : Ren(p).name = CalledWith(p) /\ Ren(p).alias = p.name /\ Ren(p).kind = p.kind
  OBVIOUS
<1>9. \A p \in t.params : CalledWith(p) # "data" /\ {CalledWith(p), p.name} \subseteq Own(c, p)
  BY DEF CalledWith, Own, Arguments!Reserved, Arguments!Synthesized
<1> HIDE DEF s, t, vals, Ren
<1>10. DOMAIN vals = {p.name : p \in passed}
  BY <1>4
<1>11. ASSUME NEW n \in DOMAIN vals PROVE vals[n] # {}
  <2>1. PICK p \in passed : n = p.name
    BY <1>10, <1>11
  <2>2. \E q \in s.params : q.name = CalledWith(p)
    BY <1>6, <1>7, <1>8, <2>1
  <2> QED
    BY <1>1, <1>5, <2>1, <2>2
<1>12. ASSUME NEW p \in t.params, p.kind \in {"plain", "header"}
       PROVE  vals[p.name] \cap c.keys \subseteq Own(c, p)
  <2>1. p \in passed /\ Ren(p) \in s.params
    BY <1>6, <1>12
  <2>2. Given(c)[Ren(p).name] \cap c.keys \subseteq
          IF Ren(p).kind \in Arguments!Markers \union {"context"} THEN {}
          ELSE IF Ren(p).name = "data" THEN s.body \union {"data"} ELSE {Ren(p).name, Ren(p).alias}
    BY <1>1, <2>1
  <2>3. Given(c)[CalledWith(p)] \cap c.keys \subseteq {CalledWith(p), p.name}
    BY <1>8, <1>9, <1>12, <2>2 DEF Arguments!Markers
  <2> QED
    BY <1>5, <1>9, <2>1, <2>3
<1>13. ASSUME NEW p \in t.params, p.kind = "dependency"
       PROVE  vals[p.name] \cap c.keys = {}
  <2>1. p \in passed /\ p \in s.params /\ CalledWith(p) = p.name
    BY <1>7, <1>13
  <2>2. Given(c)[p.name] \cap c.keys \subseteq {}
    BY <1>1, <1>13, <2>1 DEF Arguments!Markers
  <2> QED
    BY <1>5, <2>1, <2>2
<1>14. ASSUME NEW k \in c.keys, k \notin Unreached(s, c.keys), k \notin SetAside(c)
       PROVE  \E n \in DOMAIN vals : k \in vals[n]
  <2>1. PICK q \in s.params : k \in Given(c)[q.name]
    BY <1>1, <1>14
  <2>2. q.kind \notin Arguments!Markers \union {"context"}
    BY <1>1, <1>14, <2>1
  <2>3. q # Arguments!Request /\ q.kind # "dependency"
    BY <2>2 DEF Arguments!Request, Arguments!Markers
  <2>4. PICK p \in passed : p.kind \in {"plain", "header"} /\ q = Ren(p)
    BY <1>3, <2>3 DEF Ren
  <2>5. vals[p.name] = Given(c)[q.name] /\ p.name \in DOMAIN vals
    BY <1>5, <1>8, <1>10, <2>4
  <2> QED
    BY <2>1, <2>5
<1>15. c.keys \subseteq Unreached(s, c.keys) \union SetAside(c) \union UNION {vals[n] : n \in DOMAIN vals}
  BY <1>14
<1> QED
  BY <1>10, <1>11, <1>12, <1>13, <1>15 DEF Prepared, s, t, vals

LEMMA DispatchKeeps ==
  ASSUME ArgsInv, Arguments!Dispatch
  PROVE  ArgsInv'
<1> DEFINE c == passing
           s == Arguments!Handler(passing)
           split == Arguments!Split(s, passing.keys)
           bound == [p \in Arguments!Inputs(s) |-> Arguments!Bound(s, split, passing.unfit, p)]
           given == [n \in Arguments!Names(s.params) |-> bound[CHOOSE p \in s.params : p.name = n]]
<1>1. /\ step = "accepted" /\ passing' = passing
      /\ IF Arguments!Rejected(split, passing.unfit) \/ \E p \in Arguments!Inputs(s) : bound[p] = {}
         THEN step' = "failed" /\ values' = values /\ used' = used
         ELSE /\ values' = IF passing.target = "tool" THEN Arguments!Restored(passing.callable, given) ELSE given
              /\ used' = passing.keys \cap UNION {bound[p] : p \in Arguments!Inputs(s) \ s.params}
              /\ step' = IF passing.target = "tool" THEN "bound" ELSE "called"
  BY DEF Arguments!Dispatch
<1>2. c \in Passes /\ Accepts(c) /\ (Arguments!MayFail)' = Arguments!MayFail
  BY <1>1, CallKept DEF ArgsInv
<1>3. Named(s)
  BY <1>2, AcceptedBinds
<1>4. bound = [p \in Arguments!Inputs(s) |-> Sources(s, passing.keys, passing.unfit, p)]
  BY <1>3, Bounds
<1>5. \A p \in Arguments!Inputs(s) : bound[p] = Sources(s, passing.keys, passing.unfit, p)
  BY <1>4
<1> HIDE DEF bound
<1>6. CASE Arguments!Rejected(split, passing.unfit) \/ \E p \in Arguments!Inputs(s) : bound[p] = {}
  <2>1. ASSUME passing.target = "prompt" /\ passing.unfit # {} PROVE Arguments!MayFail
    BY <2>1 DEF Arguments!MayFail
  <2>2. ASSUME ~(passing.target = "prompt" /\ passing.unfit # {}) PROVE Arguments!MayFail
    <3>1. /\ ~Arguments!Rejected(split, passing.unfit)
          /\ \A p \in Arguments!Inputs(s) : Sources(s, passing.keys, passing.unfit, p) = {} => p.kind = "header" /\ p.required
      BY <1>2, <2>2, AcceptedBinds
    <3>2. PICK p \in Arguments!Inputs(s) : p.kind = "header" /\ p.required
      BY <1>5, <1>6, <3>1
    <3> QED
      BY <3>2 DEF Arguments!MayFail
  <2>3. Arguments!MayFail
    BY <2>1, <2>2
  <2> QED
    BY <1>1, <1>2, <1>6, <2>3 DEF ArgsInv
<1>7. CASE ~(Arguments!Rejected(split, passing.unfit) \/ \E p \in Arguments!Inputs(s) : bound[p] = {})
  <2>1. AllBound(c)
    BY <1>5, <1>7 DEF AllBound
  <2>2. given = Given(c)
    <3>1. \A n \in Arguments!Names(s.params) : (CHOOSE p \in s.params : p.name = n) \in Arguments!Inputs(s)
      BY DEF Arguments!Names, Arguments!Inputs
    <3> QED
      BY <1>5, <3>1 DEF Given
  <2>3. used' = SetAside(c)
    <3>1. {bound[p] : p \in Arguments!Inputs(s) \ s.params} =
            {Sources(s, passing.keys, passing.unfit, p) : p \in Arguments!Inputs(s) \ s.params}
      BY <1>5
    <3> QED
      BY <1>1, <1>7, <3>1 DEF SetAside
  <2>4. CASE passing.target = "tool"
    <3>1. Prepared(c, Arguments!Restored(c.callable, Given(c)), SetAside(c))
      BY <1>2, <2>1, <2>4, RestoredFits
    <3>2. step' = "bound" /\ values' = Arguments!Restored(c.callable, Given(c))
      BY <1>1, <1>7, <2>2, <2>4
    <3> QED
      BY <1>1, <1>2, <2>3, <3>1, <3>2 DEF ArgsInv
  <2>5. CASE passing.target # "tool"
    <3>1. passing.target \in {"handler", "prompt"}
      BY <1>2, <2>5 DEF Accepts
    <3>2. Reaches(c, Given(c), SetAside(c))
      BY <1>2, <2>1, <3>1, GivenReaches
    <3>3. step' = "called" /\ values' = Given(c)
      BY <1>1, <1>7, <2>2, <2>5
    <3> QED
      BY <1>1, <1>2, <2>3, <3>2, <3>3 DEF ArgsInv
  <2> QED
    BY <2>4, <2>5
<1> QED
  BY <1>6, <1>7

\* What the execution of a tool needs of its callable, which need not be that of a handler.
Tooled(c) ==
  /\ {"injected", "default"} \cap c.keys = {}
  /\ \A p, q \in c.callable.params : p.name = q.name => p = q
  /\ \A p \in c.callable.params : p.kind \in {"plain", "header", "context"} \union Arguments!Markers

\* What a tool's function is called with.
Passed(c, given, p) ==
  IF p.kind = "context" THEN {"injected"}
  ELSE IF p.name \in DOMAIN given THEN given[p.name]
  ELSE IF p.kind \in Arguments!Markers THEN Arguments!Supplied(p, c.supply)
  ELSE Absent(p)

LEMMA ExecutedTells ==
  ASSUME NEW c, Tooled(c), NEW given
  PROVE  LET passed == Arguments!Executed(c.callable, given, c.supply) IN
         /\ DOMAIN passed = {p.name : p \in c.callable.params}
         /\ \A p \in c.callable.params : passed[p.name] = Passed(c, given, p)
<1> DEFINE t == c.callable
           passed == Arguments!Executed(t, given, c.supply)
<1>1. passed = [n \in {p.name : p \in t.params} |-> Passed(c, given, CHOOSE q \in t.params : q.name = n)]
  <2>1. ASSUME NEW n \in {p.name : p \in t.params} PROVE (CHOOSE q \in t.params : q.name = n).name = n
    BY <2>1
  <2> QED
    BY <2>1 DEF Arguments!Executed, Arguments!Names, Passed, Absent
<1>2. ASSUME NEW p \in t.params PROVE (CHOOSE q \in t.params : q.name = p.name) = p
  BY DEF Tooled
<1> HIDE DEF passed
<1>3. \A p \in t.params : passed[p.name] = Passed(c, given, p)
  BY <1>1, <1>2
<1> QED
  BY <1>1, <1>3 DEF passed

LEMMA ExecuteFits ==
  ASSUME NEW c \in Passes, Tooled(c), NEW given, NEW use,
         \/ Prepared(c, given, use)
         \/ c.target = "agent" /\ given = [k \in c.keys |-> {k}],
         Arguments!Convertible(c.callable, given, c.unfit)
  PROVE  LET passed == Arguments!Executed(c.callable, given, c.supply) IN
         /\ (\E n \in DOMAIN passed : passed[n] = {}) => \E p \in c.callable.params : p.kind \in Arguments!Markers
         /\ Reaches(c, passed, use)
<1> DEFINE t == c.callable
           passed == Arguments!Executed(t, given, c.supply)
<1>1. /\ DOMAIN passed = {p.name : p \in t.params}
      /\ \A p \in t.params : passed[p.name] = Passed(c, given, p)
  BY ExecutedTells
<1>2. /\ {"injected", "default"} \cap c.keys = {}
      /\ \A p, q \in t.params : p.name = q.name => p = q
      /\ \A p \in t.params : p.kind \in {"plain", "header", "context"} \union Arguments!Markers
  BY DEF Tooled
<1>3. /\ \A n \in DOMAIN given : \E p \in t.params : p.name = n /\ p.kind \in {"plain", "header"} \union Arguments!Markers
      /\ \A p \in t.params : p.kind \in {"plain", "header"} /\ p.name \notin DOMAIN given => ~p.required
  BY DEF Arguments!Convertible, Arguments!Fields, Arguments!Names
<1>4. \A n \in DOMAIN given : given[n] # {}
  BY DEF Prepared
<1>5. "context" \notin Arguments!Markers /\ "plain" \notin Arguments!Markers /\ "header" \notin Arguments!Markers
      /\ "rest" \notin Arguments!Markers
  BY DEF Arguments!Markers
<1>6. \A p : Arguments!Supplied(p, c.supply) \cap c.keys = {} /\ Absent(p) \cap c.keys = {}
  BY <1>2 DEF Arguments!Supplied, Absent
<1> HIDE DEF passed
<1>7. ASSUME NEW n \in DOMAIN passed, passed[n] = {} PROVE \E p \in t.params : p.kind \in Arguments!Markers
  <2>1. PICK p \in t.params : p.name = n
    BY <1>1, <1>7
  <2>2. Passed(c, given, p) = {}
    BY <1>1, <1>7, <2>1
  <2> QED
    BY <1>2, <1>3, <1>4, <2>2 DEF Passed, Absent
<1>8. \A n \in DOMAIN given : n \in DOMAIN passed /\ passed[n] = given[n]
  BY <1>1, <1>2, <1>3, <1>5 DEF Passed
<1>9. ASSUME NEW k \in c.keys, k \notin Unreached(Arguments!Handler(c), c.keys), k \notin use
      PROVE  \E n \in DOMAIN given : k \in given[n]
  BY <1>9 DEF Prepared
<1>10. c.keys \subseteq Unreached(Arguments!Handler(c), c.keys) \union use \union UNION {passed[n] : n \in DOMAIN passed}
  <2>1. ASSUME NEW k \in c.keys, k \notin Unreached(Arguments!Handler(c), c.keys), k \notin use
        PROVE  \E n \in DOMAIN passed : k \in passed[n]
    BY <1>8, <1>9, <2>1
  <2> QED
    BY <2>1
<1>11. ASSUME NEW p \in t.params, p.name \in DOMAIN given
       PROVE  given[p.name] \cap c.keys \subseteq
                IF p.kind \in {"plain", "header"} THEN Own(c, p) ELSE IF c.target = "agent" THEN {p.name} ELSE {}
  <2>1. CASE Prepared(c, given, use)
    <3>1. PICK q \in t.params : q.kind \in {"plain", "header", "dependency"} /\ q.name = p.name
      BY <1>11, <2>1 DEF Prepared
    <3>2. q = p
      BY <1>2, <3>1
    <3> QED
      BY <2>1, <3>1, <3>2 DEF Prepared
  <2>2. CASE c.target = "agent" /\ given = [k \in c.keys |-> {k}]
    <3>1. given[p.name] = {p.name} /\ p.name \in Own(c, p)
      BY <1>11, <2>2 DEF Own
    <3> QED
      BY <2>2, <3>1
  <2> QED
    BY <2>1, <2>2
<1>12. ASSUME NEW p \in t.params
       PROVE  passed[p.name] \cap c.keys \subseteq
                IF p.kind = "rest" THEN c.keys \ UNION {Own(c, q) : q \in t.params \ {p}}
                ELSE IF p.kind \notin Arguments!Markers \union {"context"} THEN Own(c, p)
                ELSE IF c.target = "agent" THEN {p.name} ELSE {}
  <2>1. passed[p.name] = Passed(c, given, p) /\ p.kind # "rest"
    BY <1>1, <1>2, <1>5
  <2>2. CASE p.name \in DOMAIN given
    BY <1>2, <1>5, <1>11, <2>1, <2>2 DEF Passed
  <2>3. CASE p.name \notin DOMAIN given
    <3>1. passed[p.name] \cap c.keys = {}
      BY <1>2, <1>6, <2>1, <2>3 DEF Passed
    <3> QED
      BY <2>1, <3>1
  <2> QED
    BY <2>2, <2>3
<1> QED
  BY <1>7, <1>10, <1>12 DEF Reaches, passed

LEMMA ExecuteKeeps ==
  ASSUME ArgsInv, Arguments!Execute
  PROVE  ArgsInv'
<1> DEFINE c == passing
           t == passing.callable
           given == IF step = "bound" THEN values ELSE [k \in passing.keys |-> {k}]
           passed == Arguments!Executed(t, given, passing.supply)
<1>1. /\ step = "bound" \/ (step = "sent" /\ passing.target = "agent")
      /\ passing' = passing /\ used' = used
      /\ step' = IF ~Arguments!Convertible(t, given, passing.unfit) THEN "refused"
                 ELSE IF \E n \in DOMAIN passed : passed[n] = {} THEN "failed" ELSE "called"
      /\ values' = IF step' = "called" THEN passed ELSE values
  BY DEF Arguments!Execute
<1>2. /\ c \in Passes /\ (step = "bound" => Prepared(c, values, used))
      /\ (Arguments!Conforms)' = Arguments!Conforms /\ (Arguments!MayFail)' = Arguments!MayFail
  BY <1>1, CallKept DEF ArgsInv
<1>3. c.target \in {"tool", "agent"}
  BY <1>1, <1>2 DEF Prepared
<1>4. Tooled(c)
  BY <1>2, <1>3, PassesAssumption DEF PassesAssumption, Arguments!IsCall, Tooled
<1>5. \/ Prepared(c, given, used)
      \/ c.target = "agent" /\ given = [k \in c.keys |-> {k}]
  BY <1>1, <1>2
<1>6. CASE ~Arguments!Convertible(t, given, passing.unfit)
  <2>1. ASSUME Arguments!Conforms PROVE FALSE
    <3>1. passing.unfit = {}
      BY <2>1 DEF Arguments!Conforms
    <3>2. CASE Prepared(c, given, used)
      <4>1. DOMAIN given = {p.name : p \in {q \in t.params : q.kind \in {"plain", "header", "dependency"}}}
        BY <3>2 DEF Prepared
      <4> HIDE DEF given
      <4>2. Arguments!Convertible(t, given, {})
        BY <4>1 DEF Arguments!Convertible, Arguments!Fields, Arguments!Names, Arguments!Markers
      <4> QED
        BY <1>6, <3>1, <4>2
    <3>3. CASE c.target = "agent" /\ given = [k \in c.keys |-> {k}]
      <4>1. /\ c.keys \subseteq Arguments!Names(Arguments!Fields(t))
            /\ Arguments!Names({a \in Arguments!Fields(t) : a.required}) \subseteq c.keys
        BY <2>1, <3>3 DEF Arguments!Conforms, Arguments!Offered
      <4>2. DOMAIN given = c.keys
        BY <3>3
      <4> HIDE DEF given
      <4>3. Arguments!Convertible(t, given, {})
        BY <4>1, <4>2 DEF Arguments!Convertible, Arguments!Names
      <4> QED
        BY <1>6, <3>1, <4>3
    <3> QED
      BY <1>5, <3>2, <3>3
  <2> QED
    BY <1>1, <1>2, <1>6, <2>1 DEF ArgsInv
<1>7. CASE Arguments!Convertible(t, given, passing.unfit)
  <2> HIDE DEF given
  <2>1. /\ (\E n \in DOMAIN passed : passed[n] = {}) => \E p \in t.params : p.kind \in Arguments!Markers
        /\ Reaches(c, passed, used)
    BY <1>2, <1>4, <1>5, <1>7, ExecuteFits
  <2> HIDE DEF passed
  <2>2. (\E n \in DOMAIN passed : passed[n] = {}) => Arguments!MayFail
    BY <2>1 DEF Arguments!MayFail
  <2>3. CASE \E n \in DOMAIN passed : passed[n] = {}
    BY <1>1, <1>2, <1>7, <2>2, <2>3 DEF ArgsInv
  <2>4. CASE ~\E n \in DOMAIN passed : passed[n] = {}
    BY <1>1, <1>2, <1>7, <2>1, <2>4 DEF ArgsInv
  <2> QED
    BY <2>3, <2>4
<1> QED
  BY <1>6, <1>7

LEMMA ArgsInit ==
  ASSUME CatalogInit
  PROVE  ArgsInv
<1>1. (step = "sent" /\ passing \in Passes) \/ step = "done"
  BY DEF CatalogInit, NoPassing, Arguments!CallInit
<1> QED
  BY <1>1 DEF ArgsInv

LEMMA ArgsNext ==
  ASSUME ArgsInv, [CatalogNext]_catalogVars
  PROVE  ArgsInv'
<1>1. CASE UNCHANGED passingVars
  <2>1. passing' = passing /\ step' = step /\ values' = values /\ used' = used
    BY <1>1 DEF passingVars
  <2>2. (Arguments!Conforms)' = Arguments!Conforms /\ (Arguments!MayFail)' = Arguments!MayFail
    BY <2>1, CallKept
  <2> QED
    BY <2>1, <2>2 DEF ArgsInv
<1>2. CASE Arguments!Validate
  BY <1>2, ValidateKeeps
<1>3. CASE Arguments!GetPrompt
  BY <1>3, GetPromptKeeps
<1>4. CASE Arguments!CallPrompt
  BY <1>4, CallPromptKeeps
<1>5. CASE Arguments!Dispatch
  BY <1>5, DispatchKeeps
<1>6. CASE Arguments!Execute
  BY <1>6, ExecuteKeeps
<1>7. CASE Arguments!CallRest
  BY <1>1, <1>7 DEF Arguments!CallRest, Arguments!callVars, passingVars
<1> QED
  BY <1>1, <1>2, <1>3, <1>4, <1>5, <1>6, <1>7 DEF CatalogNext, catalogVars, Arguments!CallNext

\* For every call of a well-named callable: arguments that its schema asks for are accepted,
\* what is accepted fails only for a header, an injection or a string of a prompt, and reaches the
\* parameters that it names and no other (mcp/executor.py:792).
THEOREM ArgumentsPassed == CatalogSpec => []ArgumentsReach
<1>1. ArgsInv /\ [CatalogNext]_catalogVars => ArgsInv'
  BY ArgsNext
<1>2. ArgsInv => ArgumentsReach
  <2>1. CASE step = "called"
    BY <2>1, ReachesIs DEF ArgsInv, ArgumentsReach
  <2>2. CASE step # "called"
    BY <2>2 DEF ArgsInv, ArgumentsReach, Arguments!ArgumentsReach
  <2> QED
    BY <2>1, <2>2
<1> QED
  BY ArgsInit, <1>1, <1>2, PTL DEF CatalogSpec

=============================================================================
