----------------------------- MODULE MCWorkflows -----------------------------
EXTENDS Workflows

CONSTANTS a, b, c, w

\* A chain, two independent nodes and a loop, which registration rejects.
MCGraphs ==
  {[n \in {a, b} |-> IF n = b THEN {a} ELSE {}],
   [n \in {a, b} |-> {}],
   [n \in {a, b} |-> IF n = b THEN {b} ELSE {}]}

\* Every workflow of three nodes in which a later node names an earlier one up to twice,
\* and loops of one and two nodes, which are rejected.
Order == <<a, b, c>>
Before(n, m) == \E i, j \in 1..3 : i < j /\ Order[i] = n /\ Order[j] = m
MCUses ==
  LET Layered == {u \in [EngineNodes -> [EngineNodes -> 0..2]] :
                    \A n, m \in EngineNodes : u[n][m] > 0 => Before(m, n)}
      None == [n \in EngineNodes |-> [m \in EngineNodes |-> 0]]
  IN  Layered \union {[None EXCEPT ![a][a] = 1], [None EXCEPT ![a][b] = 1, ![b][a] = 2]}

=============================================================================
