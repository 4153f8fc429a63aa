SPECIFICATION Spec
CONSTANTS
  a = a
  b = b
  c = c
  w = w
  Nodes = {a, b}
  Graphs <- MCGraphs
  Workers = {w}
  MaxJobs = 2
  MaxCrashes = 1
  RunTimeout = 1
  TTL = 2
  EngineNodes = {a, b, c}
  Uses <- MCUses
INVARIANTS Orderly VerdictFits NeverVanishes
PROPERTIES ImplementsRun RunEnds
CHECK_DEADLOCK FALSE
