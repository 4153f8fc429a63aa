CONSTANTS
  Tasks = {t1}
  Keys = {k1, k2}
  MaxRounds = 3
  MaxCrashes = 1
SPECIFICATION FairSpec
INVARIANT NoLostWakeup
INVARIANT AnswersFitRound
INVARIANT CancelRecorded
PROPERTY LifecycleSpec
PROPERTY CancelHonoured
CHECK_DEADLOCK FALSE
