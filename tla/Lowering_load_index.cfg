CONSTANTS
  x = x
  y = y
  Bases <- MCBases
  FloatGlobals <- MCBases
  StoreOps = {"lit", "load"}
  MaxSSA = 2
  MaxRounds = 1
  MaxDepth = 0
SPECIFICATION Spec
CHECK_DEADLOCK FALSE
INVARIANT DeclaredBeforeUse
