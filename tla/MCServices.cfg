SPECIFICATION ServicesSpec
CONSTANTS
  o1 = o1  o2 = o2  i1 = i1  i2 = i2  id1 = id1  id2 = id2
  x1 = x1  x2 = x2  x3 = x3  x4 = x4  x5 = x5
  Rankables <- MCRankables
  Rank <- MCRank
  MaxOdcpiQueue = 3
  Observers <- MCObservers
  Items <- MCItems
  Uses <- MCUses
  MaxChanges = 1
  MaxNotes = 1
  MaxNiRequests = 2
  UserResponses = {"ACCEPT", "DENY"}
  NMessages = 3
  Ids = {id1, id2}
  Modes = {"fix", "trip"}
  NiIds = {2, 4}
  TrackingAdapters = {"gnss", "flp"}
  MaxSessions = 3
  MaxRequests = 3
INVARIANTS
  PartsTypeOK
  MapsMirror
  FrameworkFollows
  SubscribersKnow
  OneOwner
  AnswersAreOwn
  DelegateLives
  ResponsesMatch
  SessionsFollow
  HeapIsSound
  OdcpiIsRepeated
PROPERTIES
  ImplementsTaskQueue
  NiRequestsEnd
  MessagesEnd
CHECK_DEADLOCK FALSE
