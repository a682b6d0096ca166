SPECIFICATION FairSpec
CONSTANTS
  Procs = {p1, p2}
  Keys = {a, b}
  NoKey = NoKey
  Wrapped <- MCNoIP
  MaxCount = 1
  Burst = 1
  MaxBuckets = 1
  ReapInterval = 0
  MaxTime = 1
INVARIANTS LimitsKept
PROPERTY TakeReturns
CHECK_DEADLOCK FALSE
