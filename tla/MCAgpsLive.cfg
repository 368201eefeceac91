SPECIFICATION FairSpec
CONSTANTS
  h1 = h1  h2 = h2  h3 = h3
  Handles <- MCHandles
  Types <- AllTypes
  MaxRestarts = 0
PROPERTIES
  OpensAnswered
  PlainClosesAnswered
CHECK_DEADLOCK FALSE
