\* An indexed state x[1] compared with a literal, the state logged in
\* any round.
CONSTANTS
  x = x
  y = y
  Bases <- MCBases
  FloatGlobals <- MCBases
  StoreOps = {"lit", "expr"}
  MaxSSA = 2
  MaxRounds = 1
  MaxDepth = 1
  Operands <- MCIndexLit
SPECIFICATION Spec
SYMMETRY MCSymmetry
CHECK_DEADLOCK FALSE
INVARIANTS
  ClausesFaithful
