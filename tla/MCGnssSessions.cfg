SPECIFICATION FairSpec
CONSTANTS
  c1=c1 c2=c2
  Clients <- MCClients
  NoClient = NoClient
  Intervals <- MCIntervals
  CallbackSets <- MCCallbackSets
  MaxIds = 2
  MaxPosted = 1
  MaxTroubles = 1
INVARIANTS
  SessionTypeOK
  EngineServesSmallest
  NoOrphanSession
  EventsFollowSessions
CHECK_DEADLOCK FALSE
PROPERTIES
  StartsAnswered
  EngineComesBack
