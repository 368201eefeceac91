SPECIFICATION Spec
CONSTANTS
  h1 = h1  h2 = h2  h3 = h3
  Handles <- MCTwoHandles
  Types <- MCSuplTypes
  MaxRestarts = 0
INVARIANTS
  ClosingIsPending
CHECK_DEADLOCK FALSE
