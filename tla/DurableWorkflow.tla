--------------------------- MODULE DurableWorkflow ---------------------------
(***************************************************************************)
(* One durable run of a workflow: DurableWorkflowEngine.start, advance,    *)
(* execute_node and watch (queues/workflow.py), executed by any number of  *)
(* queue workers over the records of WorkflowStore                         *)
(* (queues/workflow_store.py), and the DAG check a workflow passes at      *)
(* registration (agent/workflow.py).                                       *)
(*                                                                         *)
(* No lock is shared between workers: every await on the store or on the   *)
(* queue service is a step of its own.  litestar-queues is external: an    *)
(* enqueue with a reserved key makes no new job, advance and watch jobs    *)
(* are run again after a crash (retries=3), a node job never (retries=0),  *)
(* and its key stays reserved when it is over (unique_until="forever").    *)
(*                                                                         *)
(* A unit of the clock is one watchdog interval.                           *)
(***************************************************************************)
EXTENDS Naturals, FiniteSets

CONSTANTS
  Nodes,        \* names of workflow nodes
  Graphs,       \* the workflows an application registers: dependencies per node
  Workers,      \* workers that run advance jobs
  MaxJobs,      \* bound: jobs per node
  MaxCrashes,   \* bound: workers that die
  RunTimeout,   \* run_timeout_seconds, in watchdog intervals
  TTL           \* ttl_seconds of the store, in watchdog intervals

Retries == 3  \* of advance and watch jobs

\* With no more crashes than that no advance or watch job is given up.
WorkflowAssumption ==
  /\ IsFiniteSet(Nodes) /\ Graphs \subseteq [Nodes -> SUBSET Nodes]
  /\ MaxJobs \in Nat \ {0} /\ MaxCrashes \in 0..Retries
  /\ RunTimeout \in Nat /\ TTL \in Nat

Watch == "watch"
Actors == Workers \union {Watch}
Jobs == Nodes \X (1..MaxJobs)

VARIABLES
  graph,      \* the registered workflow of the run
  launch,     \* how far start() has come
  run,        \* status of the run record
  records,    \* "{run_id}:node:{name}": status of each node record
  pending,    \* advance jobs in the queue
  reserved,   \* nodes whose key "wf-node:{run_id}:{name}" is reserved
  jobs,       \* the jobs of each node
  actors,     \* the advance and watch jobs being executed
  clock,      \* watchdog intervals since the run was created
  due,        \* when the next watch job may run
  crashes,    \* workers that died so far
  timedOut    \* history: the watchdog found the run too old

vars == <<graph, launch, run, records, pending, reserved, jobs, actors, clock, due,
          crashes, timedOut>>

Terminal == {"completed", "failed"}
Recorded == {n \in Nodes : records[n] # "none"}

-----------------------------------------------------------------------------
(* Registration *)

\* validate_dependencies: Kahn's algorithm must visit every node.
Accepted(g) ==
  LET Visit[done \in SUBSET Nodes] ==
        LET ready == {n \in Nodes \ done : g[n] \subseteq done}
        IN  IF ready = {} THEN done ELSE Visit[done \union {CHOOSE n \in ready : TRUE}]
  IN  Visit[{}] = Nodes

NoJob == [at |-> "free", seen |-> {}, outcome |-> "none", ran |-> FALSE]
Idle == [at |-> "idle", seen |-> {}, todo |-> {}, verdict |-> "none"]

Init ==
  /\ graph \in {g \in Graphs : Accepted(g)}
  /\ launch = "new"
  /\ run = "none"
  /\ records = [n \in Nodes |-> "none"]
  /\ pending = 0
  /\ reserved = {}
  /\ jobs = [x \in Jobs |-> NoJob]
  /\ actors = [a \in Actors |-> IF a = Watch THEN [Idle EXCEPT !.at = "off"] ELSE Idle]
  /\ clock = 0
  /\ due = 0
  /\ crashes = 0
  /\ timedOut = FALSE

-----------------------------------------------------------------------------
(* start *)

CreateRun ==
  /\ launch = "new"
  /\ launch' = "created"
  /\ run' = "running"
  /\ UNCHANGED <<graph, records, pending, reserved, jobs, actors, clock, due, crashes, timedOut>>

EnqueueAdvance ==
  /\ launch = "created"
  /\ launch' = "advancing"
  /\ pending' = pending + 1
  /\ UNCHANGED <<graph, run, records, reserved, jobs, actors, clock, due, crashes, timedOut>>

EnqueueWatch ==
  /\ launch = "advancing"
  /\ launch' = "started"
  /\ actors' = [actors EXCEPT ![Watch].at = "idle"]
  /\ due' = clock + 1
  /\ UNCHANGED <<graph, run, records, pending, reserved, jobs, clock, crashes, timedOut>>

\* An enqueue raises, or the web process dies: start() ends without its run id.
StartAborts ==
  /\ launch \in {"created", "advancing"}
  /\ launch' = "aborted"
  /\ UNCHANGED <<graph, run, records, pending, reserved, jobs, actors, clock, due, crashes, timedOut>>

Start == CreateRun \/ EnqueueAdvance \/ EnqueueWatch \/ StartAborts

-----------------------------------------------------------------------------
(* advance, and watch which ends in it *)

Goes(a, from, to) ==
  /\ actors[a].at = from
  /\ actors' = [actors EXCEPT ![a] = to]

\* The watchdog has its own place to rest when the run needs it no more.
Over(a) == IF a = Watch THEN [Idle EXCEPT !.at = "off"] ELSE Idle

\* Off by one.
FaultTooOld == clock > RunTimeout

TooOld == clock >= RunTimeout

\* A worker takes the watch job when it is due, and watch reads the run and its age.
CheckAge ==
  /\ clock >= due
  /\ Goes(Watch, "idle",
          IF run # "running" THEN Over(Watch)
          ELSE IF TooOld THEN [Idle EXCEPT !.at = "status", !.verdict = "failed"]
          ELSE [Idle EXCEPT !.at = "advance"])
  /\ timedOut' = (timedOut \/ (run = "running" /\ TooOld))
  /\ UNCHANGED <<graph, launch, run, records, pending, reserved, jobs, clock, due, crashes>>

\* advance: the read of the run, in an advance job a worker takes or called by watch.
\* What is recorded by now will be seen by get_nodes.
ReadRun(a) ==
  /\ IF a = Watch THEN pending' = pending ELSE pending > 0 /\ pending' = pending - 1
  /\ Goes(a, IF a = Watch THEN "advance" ELSE "idle",
          IF run = "running" THEN [Idle EXCEPT !.at = "nodes", !.seen = Recorded] ELSE Over(a))
  /\ UNCHANGED <<graph, launch, run, records, reserved, jobs, clock, due, crashes, timedOut>>

Ready(nodes) == {n \in Nodes \ nodes : graph[n] \subseteq nodes}

\* get_nodes reads the node records concurrently: of the records written meanwhile it
\* sees some and not others.
ReadNodes(a) ==
  /\ \E nodes \in SUBSET Recorded :
       /\ actors[a].seen \subseteq nodes
       /\ Goes(a, "nodes", [Idle EXCEPT !.at = "enqueue", !.todo = Ready(nodes),
                                        !.seen = IF nodes = Nodes THEN Nodes ELSE {}])
  /\ UNCHANGED <<graph, launch, run, records, pending, reserved, jobs, clock, due, crashes, timedOut>>

\* Every enqueue makes a job.
FaultFresh(n) == TRUE

\* The queue makes a job for a key that is not reserved.
Fresh(n) == n \notin reserved

EnqueueNode(a) ==
  /\ \E n \in actors[a].todo :
       /\ Goes(a, "enqueue", [actors[a] EXCEPT !.todo = @ \ {n}])
       /\ \/ ~Fresh(n) /\ UNCHANGED <<jobs, reserved>>
          \/ /\ Fresh(n)
             /\ \E i \in 1..MaxJobs :
                  /\ jobs[<<n, i>>].at = "free"
                  /\ \A k \in 1..(i - 1) : jobs[<<n, k>>].at # "free"
                  /\ jobs' = [jobs EXCEPT ![<<n, i>>].at = "pending"]
             /\ reserved' = reserved \union {n}
  /\ UNCHANGED <<graph, launch, run, records, pending, clock, due, crashes, timedOut>>

\* Failed nodes are not looked for.
FaultVerdict == "completed"

Verdict == IF \E n \in Nodes : records[n] = "failed" THEN "failed" ELSE "completed"

\* With all nodes recorded the run is finalized; otherwise watch arms its next tick.
CountNodes(a) ==
  /\ actors[a].todo = {}
  /\ \/ /\ actors[a].seen = Nodes
        /\ Goes(a, "enqueue", [Idle EXCEPT !.at = "status", !.verdict = Verdict])
        /\ UNCHANGED due
     \/ /\ actors[a].seen # Nodes
        /\ Goes(a, "enqueue", Idle)
        /\ due' = IF a = Watch THEN clock + 1 ELSE due
  /\ UNCHANGED <<graph, launch, run, records, pending, reserved, jobs, clock, crashes, timedOut>>

\* set_run_status: the read.  A missing run raises KeyError, and the job, run again,
\* finds no run; a terminal one is returned as it is.
ReadStatus(a) ==
  /\ Goes(a, "status",
          CASE run = "running" -> [actors[a] EXCEPT !.at = "write"]
            [] run \in Terminal -> [Idle EXCEPT !.at = "reset"]
            [] OTHER -> Over(a))
  /\ UNCHANGED <<graph, launch, run, records, pending, reserved, jobs, clock, due, crashes, timedOut>>

\* set_run_status: the write of what was read, with the status replaced.
WriteStatus(a) ==
  /\ Goes(a, "write", [Idle EXCEPT !.at = "reset"])
  /\ run' = actors[a].verdict
  /\ UNCHANGED <<graph, launch, records, pending, reserved, jobs, clock, due, crashes, timedOut>>

\* reset_task_identity for every node: the other actors' enqueues of different nodes come
\* in any order, so that the loop may be one step.
ResetIdentity(a) ==
  /\ Goes(a, "reset", Over(a))
  /\ reserved' = {}
  /\ UNCHANGED <<graph, launch, run, records, pending, jobs, clock, due, crashes, timedOut>>

ActorStep(a) ==
  \/ a = Watch /\ CheckAge
  \/ ReadRun(a) \/ ReadNodes(a) \/ EnqueueNode(a) \/ CountNodes(a)
  \/ ReadStatus(a) \/ WriteStatus(a) \/ ResetIdentity(a)

\* The worker of an advance or a watch job dies; the queue runs the job again.
ActorCrash(a) ==
  /\ actors[a].at \notin {"idle", "off"}
  /\ crashes < MaxCrashes
  /\ crashes' = crashes + 1
  /\ actors' = [actors EXCEPT ![a] = Idle]
  /\ pending' = IF a = Watch THEN pending ELSE pending + 1
  /\ UNCHANGED <<graph, launch, run, records, reserved, jobs, clock, due, timedOut>>

-----------------------------------------------------------------------------
(* execute_node *)

Becomes(x, from, to) ==
  /\ jobs[x].at = from
  /\ jobs' = [jobs EXCEPT ![x] = to]

JobOver(x) == [jobs[x] EXCEPT !.at = "over", !.seen = {}, !.outcome = "none"]

\* get_node and get_run: an executed node is not executed again, nor is one of a run that
\* is gone; the status of the run is not looked at.
ReadNode(x) ==
  Becomes(x, "pending", IF records[x[1]] # "none" \/ run = "expired" THEN JobOver(x)
                        ELSE [jobs[x] EXCEPT !.at = "context",
                                             !.seen = Recorded \intersect graph[x[1]]])

\* should_skip, the part about dependencies.
Skips(nodes) == \E d \in nodes : records[d] # "completed"

\* get_nodes, and should_skip or the start of the handler.  The node's condition may
\* hold, not hold, or raise, and nothing catches what it raises.
ReadContext(x) ==
  \E nodes \in SUBSET (Recorded \intersect graph[x[1]]) :
    /\ jobs[x].seen \subseteq nodes
    /\ \/ Becomes(x, "context", [jobs[x] EXCEPT !.at = "put", !.seen = {}, !.outcome = "skipped"])
       \/ /\ ~Skips(nodes)
          /\ Becomes(x, "context", [jobs[x] EXCEPT !.at = "running", !.seen = {}, !.ran = TRUE])
       \/ /\ ~Skips(nodes)
          /\ Becomes(x, "context", [JobOver(x) EXCEPT !.at = "raised"])

\* The handler returns, or it raises, times out or returns what cannot be encoded.
HandlerEnds(x) ==
  \E outcome \in {"completed", "failed"} :
    Becomes(x, "running", [jobs[x] EXCEPT !.at = "put", !.outcome = outcome])

\* put_node: exists.
CheckNode(x) ==
  Becomes(x, "put", IF records[x[1]] = "none" THEN [jobs[x] EXCEPT !.at = "write"]
                    ELSE [jobs[x] EXCEPT !.at = "notify", !.outcome = "none"])

\* put_node: set.
WriteNode(x) ==
  /\ records' = [records EXCEPT ![x[1]] = jobs[x].outcome]
  /\ Becomes(x, "write", [jobs[x] EXCEPT !.at = "notify", !.outcome = "none"])

\* No advance is enqueued while another is being executed.
FaultNotify(x) ==
  /\ Becomes(x, "notify", JobOver(x))
  /\ pending' = IF \A a \in Workers : actors[a].at = "idle" THEN pending + 1 ELSE pending

\* The advance that follows each record.
Notify(x) ==
  /\ Becomes(x, "notify", JobOver(x))
  /\ pending' = pending + 1

NotifyRaises(x) == Becomes(x, "notify", [JobOver(x) EXCEPT !.at = "raised"])

JobStep(x) ==
  /\ \/ (ReadNode(x) \/ ReadContext(x) \/ HandlerEnds(x) \/ CheckNode(x)
         \/ NotifyRaises(x)) /\ UNCHANGED <<records, pending>>
     \/ WriteNode(x) /\ UNCHANGED pending
     \/ Notify(x) /\ UNCHANGED records
  /\ UNCHANGED <<graph, launch, run, reserved, actors, clock, due, crashes, timedOut>>

\* The worker of a node job dies; the job is not run again.
JobCrash(x) ==
  /\ jobs[x].at \notin {"free", "pending", "over", "raised", "dead"}
  /\ crashes < MaxCrashes
  /\ crashes' = crashes + 1
  /\ jobs' = [jobs EXCEPT ![x] = [JobOver(x) EXCEPT !.at = "dead"]]
  /\ UNCHANGED <<graph, launch, run, records, pending, reserved, actors, clock, due, timedOut>>

-----------------------------------------------------------------------------
(* Time *)

\* The watchdog is served within its interval: no unit of the clock passes while a watch
\* job is due.  Whatever else the workers do may take any time.
Tick ==
  /\ run = "running" /\ clock < TTL
  /\ actors[Watch].at = "off" \/ (actors[Watch].at = "idle" /\ clock < due)
  /\ launch \in {"started", "aborted"}
  /\ clock' = clock + 1
  /\ UNCHANGED <<graph, launch, run, records, pending, reserved, jobs, actors, due, crashes, timedOut>>

\* The run record lapses; that of a finished run is left out.
Lapse ==
  /\ run = "running" /\ clock >= TTL
  /\ run' = "expired"
  /\ UNCHANGED <<graph, launch, records, pending, reserved, jobs, actors, clock, due, crashes, timedOut>>

Next ==
  \/ Start
  \/ \E a \in Actors : ActorStep(a) \/ ActorCrash(a)
  \/ \E x \in Jobs : JobStep(x) \/ JobCrash(x)
  \/ Tick \/ Lapse

\* Workers serve the queue; no fairness for failures, for aborted starts or for time.
Fairness ==
  /\ WF_vars(CreateRun \/ EnqueueAdvance \/ EnqueueWatch)
  /\ \A a \in Actors : WF_vars(ActorStep(a))
  /\ \A x \in Jobs : WF_vars(JobStep(x))

Spec == Init /\ [][Next]_vars /\ Fairness

-----------------------------------------------------------------------------
(* Properties *)

Outcomes == {"none", "completed", "skipped", "failed"}
JobStates == [at : {"free", "pending", "context", "running", "put", "write", "notify", "over",
                    "raised", "dead"},
              seen : SUBSET Nodes, outcome : Outcomes, ran : BOOLEAN]
ActorStates == [at : {"off", "idle", "advance", "nodes", "enqueue", "status", "write", "reset"},
                seen : SUBSET Nodes, todo : SUBSET Nodes, verdict : {"none"} \union Terminal]

TypeOK ==
  /\ graph \in [Nodes -> SUBSET Nodes]
  /\ launch \in {"new", "created", "advancing", "started", "aborted"}
  /\ run \in {"none", "running", "expired"} \union Terminal
  /\ records \in [Nodes -> Outcomes]
  /\ pending \in Nat
  /\ reserved \subseteq Nodes
  /\ jobs \in [Jobs -> JobStates]
  /\ actors \in [Actors -> ActorStates]
  /\ clock \in 0..TTL /\ due \in 0..(TTL + 1) /\ crashes \in 0..MaxCrashes
  /\ timedOut \in BOOLEAN

\* Whatever the order in which workers advance the run, and however their reads of the
\* records interleave with writes, a node completes only after all it depends on did: a
\* failed or skipped node is followed by skipped ones (agent/workflow.py:158).
SkipsPropagate ==
  ~timedOut => \A n \in Nodes : records[n] = "completed" =>
                 \A d \in graph[n] : records[d] = "completed"

\* A node's handler is started once, although several advance jobs find it ready, jobs are
\* run again after crashes and its key is released when the run ends.  A run that timed out
\* is excused: its keys are released while an advance may still be about to enqueue.
NodeRunsOnce ==
  ~timedOut => \A n \in Nodes : Cardinality({i \in 1..MaxJobs : jobs[<<n, i>>].ran}) <= 1

\* Both hold together: what the reservation keys and the skip rule are there for.
Orderly == NodeRunsOnce /\ SkipsPropagate

\* The status written by whichever advance comes first is the one the records call for:
\* no run ends before its last node, and none that has a failed node ends completed.
VerdictFits ==
  (run \in Terminal /\ ~timedOut) =>
    /\ Recorded = Nodes
    /\ run = "failed" <=> \E n \in Nodes : records[n] = "failed"

\* A run is settled before its record lapses, whatever died, if its start() came through:
\* run_timeout_seconds is the "Maximum wall-clock lifetime in seconds (24 hours) for a
\* workflow run before the watchdog marks the run "failed"" (docs/queues/
\* durable-workflows.md:87).  It holds with run_timeout_seconds below ttl_seconds, and not
\* with the defaults, which are 86,400 both (queues/workflow_store.py:58).
NeverVanishes == run = "expired" => launch = "aborted"

\* Until it times out a run is one of the abstract runs that the in-process engine
\* implements too: nodes start once and after what they depend on, records are written
\* once, the verdict follows from them.
Run == INSTANCE WorkflowRun WITH
  depends <- graph,
  started <- {n \in Nodes : \E i \in 1..MaxJobs : jobs[<<n, i>>].ran},
  record <- records,
  verdict <- CASE run = "none" -> "new" [] run = "expired" -> "lapsed" [] OTHER -> run

RunSpec == Run!Init /\ [][timedOut' \/ Run!Next]_(Run!vars)

\* The run ends without waiting for any timeout, unless start() was aborted or a job
\* of a node was lost: some advance sees the last record.
Lost == \E x \in Jobs : jobs[x].at \in {"raised", "dead"}
RunEnds == run = "running" ~> (run # "running" \/ launch = "aborted" \/ Lost)

=============================================================================
