SPECIFICATION Spec
CONSTANTS
  t1 = t1  t2 = t2
  Timers <- MCTimers
  NoTimer = NoTimer
  Delays <- MCDelays
  MaxTime = 3
  MaxStarts = 3
  MayDelete = TRUE
INVARIANTS
  NoDeadHandle
CHECK_DEADLOCK FALSE
