CONSTANTS
  Keys = {k1, k2}
  Submit = submit
  Updates = {u1, u2}
  Cancels = {c1}
  MaxJobs = 3
  SharedProcess = TRUE
SPECIFICATION FairSpec
INVARIANT AttemptsFollowRounds
PROPERTY LifecycleSpec
PROPERTY WorkingMovesOn
CHECK_DEADLOCK FALSE
