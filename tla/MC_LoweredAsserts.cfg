\* Straight-line stores, rounds and one level of conditionals, every base
\* a Float global, then one assertion compiled over the round log.
CONSTANTS
  x = x
  y = y
  Bases <- MCBases
  FloatGlobals <- MCBases
  StoreOps = {"lit", "expr"}
  MaxSSA = 2
  MaxRounds = 1
  MaxDepth = 1
  Operands <- MCOperands
SPECIFICATION Spec
SYMMETRY MCSymmetry
CHECK_DEADLOCK FALSE
INVARIANTS
  RoundLogExact
  IteSynced
  DeclaredBeforeUse
  ClausesFaithful
