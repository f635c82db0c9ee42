\* A state function of component c with states a and b: one level of
\* conditionals, plain advance calls and chains of at most two branches
\* (SNext has no Store or NewRound; StoreOps is given only because Lowering
\* declares it).
\* The run block has stored every state before the step: each base starts at
\* index 0, logged in round 0 and declared, as FloatGlobals gives it.
CONSTANTS
  a = a
  b = b
  c = c
  stay = stay
  Bases <- MCBases
  FloatGlobals <- MCBases
  StoreOps = {"lit"}
  MaxSSA = 3
  MaxRounds = 0
  MaxDepth = 1
  Comp = c
  Targets <- MCTargets
  Stay = stay
  Chains <- MCChains
INIT Init
NEXT SNext
CHECK_DEADLOCK FALSE
INVARIANTS
  RoundLogExact
  DeclaredBeforeUse
  ChoicesSynced
  ChainMeaning
