SPECIFICATION FairSpec
CONSTANTS
  h1 = h1  h2 = h2  h3 = h3
  Handles <- MCTwoHandles
  Types <- MCSuplTypes
  MaxRestarts = 1
PROPERTIES
  RestartDropsSubscribers
CHECK_DEADLOCK FALSE
