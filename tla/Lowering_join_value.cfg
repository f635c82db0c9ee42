CONSTANTS
  x = x
  y = y
  Bases <- MCBases
  FloatGlobals <- MCBases
  StoreOps = {"lit", "expr"}
  MaxSSA = 2
  MaxRounds = 1
  MaxDepth = 1
SPECIFICATION Spec
CHECK_DEADLOCK FALSE
INVARIANT IteJoinCorrect
