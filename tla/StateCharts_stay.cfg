\* advance(a) || advance(b) || stay() in the state function of component c.
\* The run block has stored every state before the step: each base starts at
\* index 0, logged in round 0 and declared, as FloatGlobals gives it.
CONSTANTS
  a = a
  b = b
  c = c
  stay = stay
  Bases <- MCBases
  FloatGlobals <- MCBases
  StoreOps = {"lit"}
  MaxSSA = 3
  MaxRounds = 0
  MaxDepth = 1
  Comp = c
  Targets <- MCTargets
  Stay = stay
  Chains <- MCChainsStay
INIT Init
NEXT SNext
CHECK_DEADLOCK FALSE
INVARIANTS
  ChoicesSynced
