SPECIFICATION FairSpec
CONSTANTS
  t1 = t1  t2 = t2
  Timers <- MCTimers
  NoTimer = NoTimer
  Delays <- MCDelays
  MaxTime = 2
  MaxStarts = 3
  MayDelete = TRUE
INVARIANTS
  TypeOK
  SoonestIsArmed
  DeletedNotUsed
  ClientMirrorsTimer
  OneOutcome
PROPERTIES
  TimersExpire
CHECK_DEADLOCK FALSE
