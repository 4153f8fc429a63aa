--------------------------- MODULE WorkflowEngine ---------------------------
(***************************************************************************)
(* WorkflowEngine.execute_run (agent/workflow.py): the in-process engine.  *)
(* A main loop receives the names of ready nodes from a channel and starts *)
(* a worker for each; a worker executes its node and sends the nodes that  *)
(* have become ready.  A worker that fails cancels the task group, that    *)
(* is, the loop and its siblings.                                          *)
(*                                                                         *)
(* depends_on may name a node twice: `uses` counts how often, and so do    *)
(* the in-degrees and the dependents.                                      *)
(***************************************************************************)
EXTENDS Naturals, FiniteSets, Sequences, SequencesExt, FiniteSetsExt

CONSTANTS
  Nodes,
  Workflows   \* how often each node of a workflow names each other one

WorkflowsAssumption ==
  /\ IsFiniteSet(Nodes)
  /\ Workflows \subseteq [Nodes -> [Nodes -> Nat]]

VARIABLES
  uses,        \* the workflow of this run
  inDegrees,
  channel,     \* names of ready nodes
  received,    \* how many the loop has received
  loop,        \* where execute_run is
  workers,     \* the worker of each node, and the dependents it has yet to tell
  results,     \* step_results
  cancelled    \* the task group's scope

vars == <<uses, inDegrees, channel, received, loop, workers, results, cancelled>>

NodeCount == Cardinality(Nodes)
DependsOn(n) == {d \in Nodes : uses[n][d] > 0}
Dependents(n) == {m \in Nodes : uses[m][n] > 0}
InDegree(w, n) == FoldFunction(LAMBDA k, sum : k + sum, 0, w[n])

\* validate_dependencies: Kahn's algorithm on the counted dependencies must visit every node.
Accepted(w) ==
  LET Left(n, done) == FoldFunctionOnSet(LAMBDA k, sum : k + sum, 0, w[n], Nodes \ done)
      Visit[done \in SUBSET Nodes] ==
        LET ready == {n \in Nodes \ done : Left(n, done) = 0}
        IN  IF ready = {} THEN done ELSE Visit[done \union {CHOOSE n \in ready : TRUE}]
  IN  Visit[{}] = Nodes

Init ==
  /\ uses \in Workflows
  /\ inDegrees = [n \in Nodes |-> InDegree(uses, n)]
  /\ channel = <<>>
  /\ received = 0
  /\ loop = "new"
  /\ workers = [n \in Nodes |-> [at |-> "none", tell |-> {}, ran |-> FALSE]]
  /\ results = [n \in Nodes |-> "none"]
  /\ cancelled = FALSE

Over == \A n \in Nodes : workers[n].at \in {"none", "over"}

-----------------------------------------------------------------------------
(* The main loop *)

\* A workflow that fails the validation is not begun, one without nodes returns at once.
Begin ==
  /\ loop = "new"
  /\ loop' = IF ~Accepted(uses) THEN "rejected" ELSE IF Nodes = {} THEN "returned" ELSE "looping"
  /\ channel' = IF Accepted(uses) THEN SetToSeq({n \in Nodes : inDegrees[n] = 0}) ELSE channel
  /\ UNCHANGED <<uses, inDegrees, received, workers, results, cancelled>>

Receive ==
  /\ loop = "looping" /\ ~cancelled /\ channel # <<>>
  /\ channel' = Tail(channel)
  /\ workers' = [workers EXCEPT ![Head(channel)].at = "scheduled"]
  /\ received' = received + 1
  /\ loop' = IF received' = NodeCount THEN "exiting" ELSE "looping"
  /\ UNCHANGED <<uses, inDegrees, results, cancelled>>

\* Nothing arrived for 3600 seconds, while every worker waits for its node or is over.
Stall ==
  /\ loop = "looping" /\ ~cancelled /\ channel = <<>>
  /\ \A n \in Nodes : workers[n].at \notin {"scheduled", "telling"}
  /\ loop' = "stalled" /\ cancelled' = TRUE
  /\ UNCHANGED <<uses, inDegrees, channel, received, workers, results>>

\* receive() is cancelled with its scope.
Stop ==
  /\ loop = "looping" /\ cancelled
  /\ loop' = "exiting"
  /\ UNCHANGED <<uses, inDegrees, channel, received, workers, results, cancelled>>

\* The task group waits for its workers.
Exit ==
  /\ loop \in {"exiting", "stalled"} /\ Over
  /\ loop' = IF \E n \in Nodes : results[n] = "failed" THEN "raised"
             ELSE IF loop = "stalled" THEN "gaveUp" ELSE "returned"
  /\ UNCHANGED <<uses, inDegrees, channel, received, workers, results, cancelled>>

-----------------------------------------------------------------------------
(* _worker and execute_node *)

Settles(n, result) ==
  /\ results' = [results EXCEPT ![n] = result]
  /\ workers' = [workers EXCEPT ![n] =
       IF result = "failed" THEN [@ EXCEPT !.at = "over"]
       ELSE [@ EXCEPT !.at = "telling", !.tell = Dependents(n)]]
  /\ cancelled' = (cancelled \/ result = "failed")
  /\ UNCHANGED <<uses, inDegrees, channel, received, loop>>

\* Only a failed dependency counts.
FaultBehind(n) == \E d \in DependsOn(n) : results[d] = "failed"

\* should_skip: a dependency without a result does not count.
Behind(n) == \E d \in DependsOn(n) : results[d] \notin {"none", "completed"}

\* A dependency that did not complete, or the node's condition; the condition may raise.
\* A worker that is already scheduled begins even when its scope is cancelled.
Skip(n) ==
  /\ workers[n].at = "scheduled"
  /\ Settles(n, "skipped")

ConditionRaises(n) ==
  /\ workers[n].at = "scheduled" /\ ~Behind(n)
  /\ Settles(n, "failed")

StartHandler(n) ==
  /\ workers[n].at = "scheduled" /\ ~Behind(n)
  /\ workers' = [workers EXCEPT ![n].at = "running", ![n].ran = TRUE]
  /\ UNCHANGED <<uses, inDegrees, channel, received, loop, results, cancelled>>

\* It returns, raises, or exceeds its timeout.
HandlerEnds(n) ==
  /\ workers[n].at = "running"
  /\ \E result \in {"completed", "failed"} : Settles(n, result)

\* Entries of one dependent are told together: nothing is awaited between them.
Tell(n) ==
  \E d \in workers[n].tell :
    LET left == inDegrees[d] - uses[d][n]
    IN  /\ workers[n].at = "telling" /\ (left = 0 => ~cancelled)
        /\ inDegrees' = [inDegrees EXCEPT ![d] = left]
        /\ channel' = IF left = 0 THEN Append(channel, d) ELSE channel
        /\ workers' = [workers EXCEPT ![n].tell = @ \ {d}]
        /\ UNCHANGED <<uses, received, loop, results, cancelled>>

Told(n) ==
  /\ workers[n].at = "telling" /\ workers[n].tell = {}
  /\ workers' = [workers EXCEPT ![n].at = "over"]
  /\ UNCHANGED <<uses, inDegrees, channel, received, loop, results, cancelled>>

\* A cancelled sibling leaves no result.
Cancelled(n) ==
  /\ cancelled /\ workers[n].at \in {"running", "telling"}
  /\ workers' = [workers EXCEPT ![n].at = "over", ![n].tell = {}]
  /\ UNCHANGED <<uses, inDegrees, channel, received, loop, results, cancelled>>

-----------------------------------------------------------------------------
Loop == Begin \/ Receive \/ Stop \/ Exit
Worker(n) ==
  Skip(n) \/ ConditionRaises(n) \/ StartHandler(n) \/ HandlerEnds(n) \/ Tell(n) \/ Told(n) \/ Cancelled(n)

Ended == loop \in {"rejected", "returned", "raised", "gaveUp"}
Rest == Ended /\ UNCHANGED vars

Next == Loop \/ Stall \/ Rest \/ \E n \in Nodes : Worker(n)

\* The event loop runs what can run, and a handler ends, at the latest by its timeout.
Fairness == WF_vars(Loop) /\ \A n \in Nodes : WF_vars(Worker(n))

Spec == Init /\ [][Next]_vars /\ Fairness

-----------------------------------------------------------------------------
(* Properties *)

TypeOK ==
  /\ uses \in Workflows
  /\ inDegrees \in [Nodes -> Nat]
  /\ channel \in Seq(Nodes)
  /\ received \in 0..NodeCount
  /\ loop \in {"new", "looping", "exiting", "stalled", "rejected", "returned", "raised", "gaveUp"}
  /\ workers \in [Nodes -> [at : {"none", "scheduled", "running", "telling", "over"},
                         tell : SUBSET Nodes, ran : BOOLEAN]]
  /\ results \in [Nodes -> {"none", "completed", "failed", "skipped"}]
  /\ cancelled \in BOOLEAN

\* A workflow is run exactly when no nodes depend on one another in a circle; every node
\* is executed once, in an order its dependencies allow, and the run returns or raises
\* what the results say: the engine implements the abstract run.
Run == INSTANCE WorkflowRun WITH
  depends <- [n \in Nodes |-> DependsOn(n)],
  started <- {n \in Nodes : workers[n].ran},
  record <- results,
  verdict <- CASE loop = "new" -> "new"
               [] loop \in {"looping", "exiting", "stalled"} -> "running"
               [] loop = "returned" -> "completed"
               [] loop = "raised" -> "failed"
               [] loop = "gaveUp" -> "stalled"
               [] OTHER -> loop

\* Every run ends without the help of the stall timeout: the loop never waits for a node
\* that nobody is left to send.
RunEnds == <>Ended

=============================================================================
