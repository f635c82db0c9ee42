\* Conditionals nested two deep; every base is a Float global.
CONSTANTS
  x = x
  y = y
  Bases <- MCBases
  FloatGlobals <- MCBases
  StoreOps = {"lit"}
  MaxSSA = 3
  MaxRounds = 0
  MaxDepth = 2
SPECIFICATION Spec
SYMMETRY MCSymmetry
CHECK_DEADLOCK FALSE
INVARIANTS
  TypeOK
  RoundLogExact
  IteSynced
  DeclaredBeforeUse
