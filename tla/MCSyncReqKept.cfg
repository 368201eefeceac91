SPECIFICATION Spec
CONSTANTS
  c1 = c1  c2 = c2  c3 = c3
  k1 = k1  k2 = k2
  Callers <- MCTwoCallers
  Keys <- MCKeys
  NSlots = 2
  MaxCalls = 2
  NoKey = NoKey
  NoCaller = NoCaller
  NoInd = NoInd
PROPERTIES
  AnswerKept
