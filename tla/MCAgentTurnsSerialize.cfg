CONSTANTS
  Turns = {t1, t2}
  Sessions = {o, a}
  Anonymous = {a}
  MaxSessions = 1
  MaxTurns = 2
  MaxToolCalls = 1
  Buffer = 1
  NoLock = NoLock
SPECIFICATION Spec
INVARIANT TurnsSerialize
