------------------------------ MODULE Workflows ------------------------------
(***************************************************************************)
(* The two engines that may execute a workflow: the durable one, whose     *)
(* nodes are jobs of a queue (DurableWorkflow), and the one that lives in  *)
(* a process (WorkflowEngine).  They share nothing: in a behaviour one of  *)
(* the two is at work.  Both implement WorkflowRun.                        *)
(***************************************************************************)
EXTENDS Naturals, Sequences

CONSTANTS
  Nodes, Graphs, Workers, MaxJobs, MaxCrashes, RunTimeout, TTL,  \* of DurableWorkflow
  EngineNodes, Uses                                              \* of WorkflowEngine

VARIABLES graph, launch, run, records, pending, reserved, jobs, actors, clock, due, crashes, timedOut
VARIABLES uses, inDegrees, channel, received, loop, workers, results, cancelled

Durable == INSTANCE DurableWorkflow
Engine == INSTANCE WorkflowEngine WITH Nodes <- EngineNodes, Workflows <- Uses

ASSUME WorkflowsAssumption == Durable!WorkflowAssumption /\ Engine!WorkflowsAssumption

durableVars == <<graph, launch, run, records, pending, reserved, jobs, actors, clock, due, crashes, timedOut>>
engineVars == <<uses, inDegrees, channel, received, loop, workers, results, cancelled>>
vars == <<durableVars, engineVars>>

\* A run that was never created, and a workflow that was not accepted.
NoRun ==
  /\ graph = [n \in Nodes |-> {}] /\ launch = "aborted" /\ run = "none"
  /\ records = [n \in Nodes |-> "none"] /\ pending = 0 /\ reserved = {}
  /\ jobs = [x \in Durable!Jobs |-> Durable!NoJob]
  /\ actors = [a \in Durable!Actors |-> IF a = Durable!Watch THEN [Durable!Idle EXCEPT !.at = "off"] ELSE Durable!Idle]
  /\ clock = 0 /\ due = 0 /\ crashes = 0 /\ timedOut = FALSE

NoExecution ==
  /\ uses = [n \in EngineNodes |-> [m \in EngineNodes |-> 0]] /\ inDegrees = [n \in EngineNodes |-> 0]
  /\ channel = <<>> /\ received = 0 /\ loop = "rejected" /\ cancelled = FALSE
  /\ workers = [n \in EngineNodes |-> [at |-> "none", tell |-> {}, ran |-> FALSE]]
  /\ results = [n \in EngineNodes |-> "none"]

Init == (Durable!Init /\ NoExecution) \/ (Engine!Init /\ NoRun)

Next == (Durable!Next /\ UNCHANGED engineVars) \/ (Engine!Next /\ UNCHANGED durableVars)

Spec == Init /\ [][Next]_vars /\ Durable!Fairness /\ Engine!Fairness

-----------------------------------------------------------------------------
\* What the in-process engine does is an abstract run, also when a worker fails and its
\* siblings are cancelled (agent/workflow.py:291).
EngineSpec == (loop = "rejected" \/ Engine!Run!Init) /\ [][Engine!Run!Next]_(Engine!Run!vars)

\* Both engines implement an abstract run, the durable one until it times out: each node is
\* started once, after what it depends on, its record is written once, and the verdict
\* follows from the records, whichever worker is at it when (queues/workflow.py:246).
ImplementsRun == Durable!RunSpec /\ EngineSpec

\* However workers, the watchdog and crashes interleave, a node of a durable run starts once
\* and completes only behind completed ones (queues/workflow.py:259, agent/workflow.py:158).
Orderly == Durable!Orderly

\* The status of a durable run, whichever advance writes it, is the one that its records call
\* for, and is not written before the last of them (queues/workflow.py:271).
VerdictFits == Durable!VerdictFits

\* A durable run whose start() came through is settled before its record lapses, whatever
\* died, if run_timeout_seconds is below ttl_seconds (queues/workflow_store.py:58).
NeverVanishes == Durable!NeverVanishes

\* A run ends without waiting for a timeout: some advance of a durable run whose jobs all come
\* through sees the last record (queues/workflow.py:336), and the loop of the in-process engine
\* hears from its last worker, however they interleave (agent/workflow.py:344).
RunEnds == Durable!RunEnds /\ Engine!RunEnds

=============================================================================
