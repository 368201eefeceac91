SPECIFICATION Spec
CONSTANTS
  h1 = h1  h2 = h2  h3 = h3
  Handles <- MCTwoHandles
  Types <- AllTypes
  MaxRestarts = 1
SYMMETRY Symmetry
INVARIANTS
  TypeOK
  StateMatchesSubscribers
  OpenHandleIsHeld
  NoSpuriousStatus
  OpeningIsPending
PROPERTIES
  WaitsForClose
CHECK_DEADLOCK FALSE
