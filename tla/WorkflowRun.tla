----------------------------- MODULE WorkflowRun -----------------------------
(***************************************************************************)
(* What a run of a workflow promises, whichever engine executes it: the    *)
(* in-process engine (agent/workflow.py) or the durable one                *)
(* (queues/workflow.py).  A node is started at most once, after all it     *)
(* depends on completed; a node behind one that did not complete is        *)
(* skipped; the record of a node is written once; the run ends once, as    *)
(* what its records say.                                                   *)
(***************************************************************************)
EXTENDS Naturals

CONSTANT Nodes

VARIABLES
  depends,   \* the nodes each node depends on
  started,   \* the nodes whose handler was started
  record,    \* of each node
  verdict    \* of the run

vars == <<depends, started, record, verdict>>

Outcomes == {"completed", "failed", "skipped"}

\* A set of nodes that each depend on another of the set.
HasCycle(g) == \E S \in (SUBSET Nodes) \ {{}} : \A n \in S : g[n] \intersect S # {}

Init ==
  /\ depends \in [Nodes -> SUBSET Nodes]
  /\ started = {}
  /\ record = [n \in Nodes |-> "none"]
  /\ verdict = "new"

\* A run without nodes may be over at once.
Begin ==
  /\ verdict = "new"
  /\ \/ verdict' = IF HasCycle(depends) THEN "rejected" ELSE "running"
     \/ Nodes = {} /\ verdict' = "completed"
  /\ UNCHANGED <<depends, started, record>>

\* A run whose record lapsed is not stopped by that.
Goes == verdict \in {"running", "lapsed"}

Start(n) ==
  /\ Goes /\ n \notin started /\ record[n] = "none"
  /\ \A d \in depends[n] : record[d] = "completed"
  /\ started' = started \union {n}
  /\ UNCHANGED <<depends, record, verdict>>

\* The handler's end; a condition that raises fails a node that was not started.
Settle(n) ==
  /\ Goes /\ record[n] = "none"
  /\ \E outcome \in Outcomes :
       /\ outcome = "completed" => n \in started
       /\ outcome = "skipped" => n \notin started
       /\ record' = [record EXCEPT ![n] = outcome]
  /\ \A d \in depends[n] : record[d] # "none"
  /\ (\E d \in depends[n] : record[d] # "completed") => record'[n] = "skipped"
  /\ UNCHANGED <<depends, started, verdict>>

Complete ==
  /\ Goes /\ verdict' = "completed"
  /\ \A n \in Nodes : record[n] \in {"completed", "skipped"}
  /\ UNCHANGED <<depends, started, record>>

Fail ==
  /\ Goes /\ verdict' = "failed"
  /\ \E n \in Nodes : record[n] = "failed"
  /\ UNCHANGED <<depends, started, record>>

\* Given up: no node became ready for the stall timeout.  Lapsed: the TTL is over.
Abandon ==
  /\ verdict \in {"running", "completed", "failed"}
  /\ \/ verdict = "running" /\ verdict' = "stalled"
     \/ verdict' = "lapsed"
  /\ UNCHANGED <<depends, started, record>>

Next == Begin \/ Complete \/ Fail \/ Abandon \/ \E n \in Nodes : Start(n) \/ Settle(n)

Spec == Init /\ [][Next]_vars

=============================================================================
