---------------------------- MODULE McpTaskQueue ----------------------------
(***************************************************************************)
(* One background task executed by queue workers: the executor branch of   *)
(* tools/call, tasks/update and tasks/cancel (mcp/service.py), the         *)
(* QueueTaskExecutor and its job (queues/mcp_tasks.py) and the store they  *)
(* share (mcp/tasks.py).                                                   *)
(*                                                                         *)
(* The store's asyncio.Lock excludes the coroutines of one process only:   *)
(* a lookup and the save that follows are two actions, and the lock keeps  *)
(* apart the actors that share a host.  With SharedProcess the worker runs *)
(* inside the one web process; without it every actor has a process of its *)
(* own (web replicas behind a balancer, external workers).                 *)
(*                                                                         *)
(* litestar-queues is external: enqueue returns the live job with the same *)
(* key or makes a new one, cancel_task(include_running=True) wins against  *)
(* pending and running jobs, a job runs at most once (retries=0).          *)
(***************************************************************************)
EXTENDS Naturals, Sequences, FiniteSets

CONSTANTS
  Keys,           \* names of input requests
  Submit,         \* the tools/call handler that creates the task
  Updates,        \* tasks/update handlers
  Cancels,        \* tasks/cancel handlers
  MaxJobs,        \* bound: jobs the queue may create
  SharedProcess   \* deployment: TRUE, one process for web and worker

\* No actor plays two parts.
ASSUME QueueAssumption ==
  /\ MaxJobs \in Nat \ {0} /\ SharedProcess \in BOOLEAN
  /\ Submit \notin Updates \union Cancels \union (1..MaxJobs)
  /\ Updates \intersect Cancels = {}
  /\ (Updates \union Cancels) \intersect (1..MaxJobs) = {}

VARIABLES
  record,     \* "mcp-task:{id}": the stored record, its dispatch envelope included
  pointer,    \* "mcp-task:{id}:job": id of the current job, 0 for none
  jobs,       \* the jobs of the queue, a job id is a place in the sequence
  pc,         \* where each actor is; a worker's attempt is an actor named by its job id
  copy,       \* the record an actor has looked up
  intent,     \* what an actor is about to save, or the envelope it is about to send
  asked,      \* history: the key sets of the pauses so far
  stranded    \* history: a step failed in a way no handler records

vars == <<record, pointer, jobs, pc, copy, intent, asked, stranded>>

Terminal == {"completed", "failed", "cancelled"}
JobIds == 1..MaxJobs
Actors == {Submit} \union Updates \union Cancels \union JobIds

\* attempt and inputs are the dispatch envelope; attempt 0 stands for none saved.
NoRecord == [status |-> "none", answer |-> "none", requests |-> {}, responses |-> {},
             attempt |-> 0, inputs |-> {}]
Found == record.status \notin {"none", "expired"}

NoIntent == [status |-> "none", requests |-> {}, attempt |-> 0, inputs |-> {}]

Init ==
  /\ record = NoRecord
  /\ pointer = 0
  /\ jobs = <<>>
  /\ pc = [a \in Actors |-> "idle"]
  /\ copy = [a \in Actors |-> NoRecord]
  /\ intent = [a \in Actors |-> NoIntent]
  /\ asked = <<>>
  /\ stranded = FALSE

-----------------------------------------------------------------------------
(* Critical sections of the store *)

\* Where an actor goes whose handler raises, and one that has settled the record: that
\* the handler of an update or a cancel raised makes no difference afterwards.
Raised(a) == IF a = Submit THEN "raised" ELSE "over"
Settled(a) == IF a \in JobIds THEN "settled" ELSE "over"

Host(a) == IF SharedProcess THEN "server" ELSE a

\* Places between a lookup and its save, where the host's lock is held.
Holding == {"dispatchWrite", "updateWrite", "transitionWrite"}

LockFree(a) == \A b \in Actors : Host(b) = Host(a) => pc[b] \notin Holding

Go(a, from, to) ==
  /\ pc[a] = from
  /\ pc' = [pc EXCEPT ![a] = to]

\* _lookup under the lock; the copy is what the save will be made from.
Lookup(a, from, to) ==
  /\ LockFree(a)
  /\ Found
  /\ Go(a, from, to)
  /\ copy' = [copy EXCEPT ![a] = record]
  /\ UNCHANGED <<record, pointer, jobs, intent, asked, stranded>>

\* An actor that is through with what it carried.
Forget(a) ==
  /\ copy' = [copy EXCEPT ![a] = NoRecord]
  /\ intent' = [intent EXCEPT ![a] = NoIntent]

\* set_dispatch: the envelope of the copy is replaced, its status is not looked at.
SetDispatch(a) ==
  \/ Lookup(a, "dispatch", "dispatchWrite")
  \/ /\ ~Found
     /\ LockFree(a)
     /\ Go(a, "dispatch", Raised(a))
     /\ Forget(a)
     /\ UNCHANGED <<record, pointer, jobs, asked, stranded>>

SaveDispatch(a) ==
  /\ Go(a, "dispatchWrite", "enqueue")
  /\ record' = [copy[a] EXCEPT !.attempt = intent[a].attempt, !.inputs = intent[a].inputs]
  /\ copy' = [copy EXCEPT ![a] = NoRecord]
  /\ UNCHANGED <<pointer, jobs, intent, asked, stranded>>

\* Seeded faults of this module are named "Fault...": the terminal check is missing.
FaultTransition(a) == Lookup(a, "transition", "transitionWrite")

\* The first half of _transition: a terminal record is left alone, and a lookup that
\* finds nothing ends the operation with TaskLookupError.
Transition(a) ==
  \/ record.status \notin Terminal /\ Lookup(a, "transition", "transitionWrite")
  \/ /\ ~Found \/ record.status \in Terminal
     /\ LockFree(a)
     /\ Go(a, "transition", Settled(a))
     /\ Forget(a)
     /\ UNCHANGED <<record, pointer, jobs, asked, stranded>>

AnswerOf(status) ==
  CASE status = "completed" -> "result" [] status = "failed" -> "error" [] OTHER -> "none"

\* The second half.
SaveTransition(a) ==
  /\ Go(a, "transitionWrite", Settled(a))
  /\ record' = [copy[a] EXCEPT !.status = intent[a].status,
                               !.answer = AnswerOf(intent[a].status),
                               !.requests = intent[a].requests,
                               !.responses = {}]
  /\ asked' = IF intent[a].status = "input_required"
                THEN Append(asked, intent[a].requests) ELSE asked
  /\ Forget(a)
  /\ UNCHANGED <<pointer, jobs, stranded>>

StoreStep(a) == SetDispatch(a) \/ SaveDispatch(a) \/ Transition(a) \/ SaveTransition(a)

\* The record and the job pointer are dropped when their TTL has run out.  Who holds
\* the lock has the record in hand, and who waits for it cannot tell when it went.
Expire ==
  /\ Found
  /\ \A a \in Actors : pc[a] \notin Holding
  /\ record' = [NoRecord EXCEPT !.status = "expired"]
  /\ pointer' = 0
  /\ UNCHANGED <<jobs, pc, copy, intent, asked, stranded>>

-----------------------------------------------------------------------------
(* The queue *)

Over(id) == jobs[id].state \in {"done", "failed", "cancelled"}

\* QueueTaskExecutor._enqueue_attempt, first call: QueueService.enqueue with the key
\* of the attempt.
Enqueue(a) ==
  LET sameKey == {id \in DOMAIN jobs : jobs[id].attempt = intent[a].attempt /\ ~Over(id)}
  IN
  /\ Go(a, "enqueue", "pointer")
  /\ IF sameKey # {}
       THEN /\ UNCHANGED jobs
            /\ intent' = [intent EXCEPT ![a] =
                 [NoIntent EXCEPT !.attempt = CHOOSE id \in sameKey : TRUE]]
       ELSE /\ Len(jobs) < MaxJobs
            /\ jobs' = Append(jobs, [attempt |-> intent[a].attempt, inputs |-> intent[a].inputs,
                                     state |-> "pending", signalled |-> FALSE])
            /\ intent' = [intent EXCEPT ![a] = [NoIntent EXCEPT !.attempt = Len(jobs) + 1]]
  /\ UNCHANGED <<record, pointer, copy, asked, stranded>>

\* The broker refuses the job: the handler raises, the record stays "working".
EnqueueRaises(a) ==
  /\ Go(a, "enqueue", Raised(a))
  /\ stranded' = TRUE
  /\ Forget(a)
  /\ UNCHANGED <<record, pointer, jobs, asked>>

\* _enqueue_attempt, second call: set_job_id looks the record up, then writes a key
\* of its own.  The job id travels in the attempt field of the actor's intent.
SetJobId(a) ==
  /\ LockFree(a)
  /\ Go(a, "pointer", IF Found /\ a = Submit THEN "answered" ELSE Raised(a))
  /\ pointer' = IF Found THEN intent[a].attempt ELSE pointer
  /\ Forget(a)
  /\ UNCHANGED <<record, jobs, asked, stranded>>

EnqueueStep(a) == Enqueue(a) \/ EnqueueRaises(a) \/ SetJobId(a)

-----------------------------------------------------------------------------
(* tools/call: create, set_dispatch, submit *)

Create ==
  /\ Go(Submit, "idle", "dispatch")
  /\ LockFree(Submit)
  /\ record' = [NoRecord EXCEPT !.status = "working"]
  /\ intent' = [intent EXCEPT ![Submit] = [NoIntent EXCEPT !.attempt = 1]]
  /\ UNCHANGED <<pointer, jobs, copy, asked, stranded>>

Addressable == pc[Submit] = "answered"

-----------------------------------------------------------------------------
(* tasks/update *)

\* MCPTaskStore.update, first half: answers to open requests are taken, anything
\* else returns at once.  The accepted keys wait in the handler's intent.
Update(u, keys) ==
  /\ Addressable
  /\ record.status = "input_required"
  /\ keys \intersect record.requests # {}
  /\ LockFree(u)
  /\ Go(u, "idle", "updateWrite")
  /\ copy' = [copy EXCEPT ![u] = record]
  /\ intent' = [intent EXCEPT ![u].requests = keys \intersect record.requests]
  /\ UNCHANGED <<record, pointer, jobs, asked, stranded>>

\* Second half: answers accumulate until none is missing, then the task resumes.
SaveUpdate(u) ==
  LET answered == copy[u].responses \union intent[u].requests
      open == copy[u].requests \ intent[u].requests
  IN
  /\ IF open # {}
       THEN /\ Go(u, "updateWrite", "over")
            /\ record' = [copy[u] EXCEPT !.requests = open, !.responses = answered]
            /\ intent' = [intent EXCEPT ![u] = NoIntent]
       ELSE /\ Go(u, "updateWrite", "resume")
            /\ record' = [copy[u] EXCEPT !.status = "working", !.requests = {},
                                         !.responses = {}]
            /\ intent' = [intent EXCEPT ![u] = [NoIntent EXCEPT !.inputs = answered]]
  /\ copy' = [copy EXCEPT ![u] = NoRecord]
  /\ UNCHANGED <<pointer, jobs, asked, stranded>>

\* The answers of earlier rounds are replaced instead of merged.
FaultReadDispatch(u) ==
  /\ LockFree(u)
  /\ Go(u, "resume", IF Found THEN "dispatch" ELSE "over")
  /\ intent' = [intent EXCEPT ![u].attempt = record.attempt + 1]
  /\ UNCHANGED <<record, pointer, jobs, copy, asked, stranded>>

\* tasks_update reads the record and its dispatch, and prepares the next attempt with
\* all answers so far.  A dispatch is always there: tools/call saved it.
ReadDispatch(u) ==
  /\ LockFree(u)
  /\ Go(u, "resume", IF Found THEN "dispatch" ELSE "over")
  /\ intent' = [intent EXCEPT ![u].attempt = record.attempt + 1,
                              ![u].inputs = record.inputs \union @]
  /\ UNCHANGED <<record, pointer, jobs, copy, asked, stranded>>

\* The process of an update or cancel handler dies, or the status callback raises
\* (broker down), between two of its steps.
HandlerDies(a) ==
  /\ pc[a] \in {"resume", "dispatch", "enqueue", "pointer", "transition"}
  /\ pc' = [pc EXCEPT ![a] = "over"]
  /\ stranded' = (stranded \/ pc[a] # "pointer")
  /\ Forget(a)
  /\ UNCHANGED <<record, pointer, jobs, asked>>

UpdateStep(u) == SaveUpdate(u) \/ ReadDispatch(u) \/ StoreStep(u) \/ EnqueueStep(u)

-----------------------------------------------------------------------------
(* tasks/cancel: QueueTaskExecutor.cancel *)

\* tasks_cancel reads the record; its status is used after two more awaits.
Cancel(c) ==
  /\ Addressable
  /\ record.status \notin Terminal
  /\ Lookup(c, "idle", "readPointer")

\* get_job_id; the id travels in the attempt field of the handler's copy.
ReadPointer(c) ==
  /\ Go(c, "readPointer", "cancelJob")
  /\ intent' = [intent EXCEPT ![c] = [NoIntent EXCEPT !.attempt = pointer,
                                                        !.status = "cancelled"]]
  /\ UNCHANGED <<record, pointer, jobs, copy, asked, stranded>>

\* Winning the job is taken for enough: the record is left to the worker.
FaultCancelJob(c) ==
  LET id == intent[c].attempt
      won == id # 0 /\ ~Over(id)
  IN
  /\ Go(c, "cancelJob", IF id = 0 \/ copy[c].status = "input_required" THEN "transition"
                                                                       ELSE "over")
  /\ jobs' = IF won
               THEN IF jobs[id].state = "pending"
                      THEN [jobs EXCEPT ![id].state = "cancelled"]
                      ELSE [jobs EXCEPT ![id].signalled = TRUE]
               ELSE jobs
  /\ copy' = [copy EXCEPT ![c] = NoRecord]
  /\ intent' = [intent EXCEPT ![c].attempt = 0]
  /\ UNCHANGED <<record, pointer, asked, stranded>>

\* cancel_task, and mark_cancelled when it won, when there was no job, or when the
\* record it read was paused.
CancelJob(c) ==
  LET id == intent[c].attempt
      won == id # 0 /\ ~Over(id)
  IN
  /\ Go(c, "cancelJob",
        IF won \/ id = 0 \/ copy[c].status = "input_required" THEN "transition" ELSE "over")
  /\ jobs' = IF won
               THEN IF jobs[id].state = "pending"
                      THEN [jobs EXCEPT ![id].state = "cancelled"]
                      ELSE [jobs EXCEPT ![id].signalled = TRUE]
               ELSE jobs
  /\ copy' = [copy EXCEPT ![c] = NoRecord]
  /\ intent' = [intent EXCEPT ![c].attempt = 0]
  /\ UNCHANGED <<record, pointer, asked, stranded>>

CancelStep(c) == ReadPointer(c) \/ CancelJob(c) \/ Transition(c) \/ SaveTransition(c)

-----------------------------------------------------------------------------
(* The worker's attempt: run_mcp_tool_task and run_task_attempt *)

Claim(id) ==
  /\ id \in DOMAIN jobs
  /\ jobs[id].state = "pending"
  /\ Go(id, "idle", "loading")
  /\ jobs' = [jobs EXCEPT ![id].state = "running"]
  /\ UNCHANGED <<record, pointer, copy, intent, asked, stranded>>

Loaded(id) ==
  /\ Go(id, "loading", "tool")
  /\ UNCHANGED <<record, pointer, jobs, copy, intent, asked, stranded>>

\* Who signalled the job records the cancellation.
JobFails(id) ==
  /\ jobs' = [jobs EXCEPT ![id].state = "failed"]
  /\ pc' = [pc EXCEPT ![id] = "over"]
  /\ stranded' = (stranded \/ ~jobs[id].signalled)
  /\ Forget(id)
  /\ UNCHANGED <<record, pointer, asked>>

\* principal_loader, or the rehydration of the user, raises: both are outside the
\* try block that records failures.
LoadRaises(id) == pc[id] = "loading" /\ JobFails(id)

\* The worker process dies; the queue does not retry the job.
WorkerDies(id) == pc[id] \in {"loading", "tool", "transition"} /\ JobFails(id)

Settle(id, status, requests) ==
  /\ Go(id, "tool", "transition")
  /\ intent' = [intent EXCEPT ![id].status = status, ![id].requests = requests]
  /\ UNCHANGED <<record, pointer, jobs, copy, asked, stranded>>

ToolReturns(id) == Settle(id, "completed", {})
ToolRaises(id) == Settle(id, "failed", {})
ToolAsks(id, keys) == Len(jobs) < MaxJobs /\ Settle(id, "input_required", keys)

\* What the attempt was about to save is replaced.
Instead(id, status) ==
  /\ pc' = [pc EXCEPT ![id] = "transition"]
  /\ intent' = [intent EXCEPT ![id] = [NoIntent EXCEPT !.status = status]]
  /\ copy' = [copy EXCEPT ![id] = NoRecord]
  /\ UNCHANGED <<record, pointer, jobs, asked, stranded>>

Saving(id) == pc[id] \in {"transition", "transitionWrite"}

\* The cancellation signal or the timeout of the attempt reaches its scope: "cancelled" is
\* saved, under a shield.  A failure that is being saved is not replaced: one except clause
\* does not catch what is raised in another.
Interrupted(id) ==
  /\ pc[id] = "tool" \/ Saving(id)
  /\ intent[id].status \notin {"failed", "cancelled"}
  /\ Instead(id, "cancelled")

\* complete() or require_input() raises: a failure is saved.
SaveRaises(id) ==
  /\ Saving(id) /\ intent[id].status \in {"completed", "input_required"}
  /\ Instead(id, "failed")

\* fail() or mark_cancelled() raises, or fail() is interrupted.
Unsaved(id) ==
  /\ Saving(id) /\ intent[id].status \in {"failed", "cancelled"}
  /\ JobFails(id)

Finish(id) ==
  /\ Go(id, "settled", "over")
  /\ jobs' = [jobs EXCEPT ![id].state = "done"]
  /\ UNCHANGED <<record, pointer, copy, intent, asked, stranded>>

WorkerStep(id) ==
  \/ Claim(id)
  \/ Loaded(id)
  \/ ToolReturns(id)
  \/ ToolRaises(id)
  \/ \E keys \in SUBSET Keys : ToolAsks(id, keys)
  \/ Transition(id)
  \/ SaveTransition(id)
  \/ Finish(id)

WorkerFails(id) ==
  LoadRaises(id) \/ WorkerDies(id) \/ Interrupted(id) \/ SaveRaises(id) \/ Unsaved(id)

-----------------------------------------------------------------------------
SubmitStep == SetDispatch(Submit) \/ SaveDispatch(Submit) \/ EnqueueStep(Submit)

Next ==
  \/ Create
  \/ SubmitStep
  \/ \E u \in Updates : UpdateStep(u) \/ \E keys \in SUBSET Keys : Update(u, keys)
  \/ \E c \in Cancels : Cancel(c) \/ CancelStep(c)
  \/ \E a \in Updates \union Cancels : HandlerDies(a)
  \/ \E id \in JobIds : WorkerStep(id) \/ WorkerFails(id)
  \/ Expire

Spec == Init /\ [][Next]_vars

\* Handlers that began go on and workers claim and run jobs; clients, expiry, signals,
\* timeouts and failures owe nothing.
Fairness ==
  /\ WF_vars(SubmitStep)
  /\ \A u \in Updates : WF_vars(UpdateStep(u))
  /\ \A c \in Cancels : WF_vars(CancelStep(c))
  /\ \A id \in JobIds : WF_vars(WorkerStep(id))

FairSpec == Spec /\ Fairness

-----------------------------------------------------------------------------
(* Properties *)

Records == [status : {"none", "expired", "working", "input_required"} \union Terminal,
            answer : {"none", "result", "error"}, requests : SUBSET Keys,
            responses : SUBSET Keys, attempt : Nat, inputs : SUBSET Keys]
Points == {"idle", "dispatch", "enqueue", "pointer", "answered", "raised", "over", "resume",
           "readPointer", "cancelJob", "transition", "settled", "loading", "tool"}
            \union Holding

TypeOK ==
  /\ record \in Records
  /\ pointer \in 0..MaxJobs
  /\ jobs \in Seq([attempt : Nat, inputs : SUBSET Keys, signalled : BOOLEAN,
                   state : {"pending", "running", "done", "failed", "cancelled"}])
  /\ Len(jobs) <= MaxJobs
  /\ pc \in [Actors -> Points]
  /\ copy \in [Actors -> Records]
  /\ intent \in [Actors -> [status : {"none", "input_required"} \union Terminal,
                            requests : SUBSET Keys, attempt : Nat, inputs : SUBSET Keys]]
  /\ asked \in Seq(SUBSET Keys)
  /\ stranded \in BOOLEAN

\* Every attempt follows from one answered pause: the queue holds one job per attempt
\* number, in order, and each carries the answers to all pauses before it; and the tool of
\* one task never runs twice at once.
AttemptsFollowRounds ==
  /\ Len(jobs) <= Len(asked) + 1
  /\ \A id \in DOMAIN jobs :
       /\ jobs[id].attempt = id
       /\ jobs[id].inputs = UNION {asked[i] : i \in 1..(id - 1)}
  /\ \A i, j \in DOMAIN jobs :
       pc[i] \in {"loading", "tool"} /\ pc[j] \in {"loading", "tool"} => i = j

\* The record lives the life TaskLifecycle promises.
Lifecycle == INSTANCE TaskLifecycle WITH
  Tasks <- {Submit},
  status <- [t \in {Submit} |-> record.status],
  answer <- [t \in {Submit} |-> record.answer]
LifecycleSpec == Lifecycle!Spec

\* A task the client can see does not stay "working" for ever: its attempt ends it or
\* pauses it, unless it expires or a failure struck that no handler records.
WorkingMovesOn ==
  Addressable /\ record.status = "working" ~> record.status # "working" \/ stranded

=============================================================================
