\* Group tag before the round tag.
CONSTANTS
  f1 = f1
  f2 = f2
  f3 = f3
  Callees <- MCCallees
  TagOrders = {"group_first"}
  MaxCalls = 4
  MaxGroups = 2
  MaxRounds = 2
SPECIFICATION Spec
SYMMETRY MCSymmetry
CHECK_DEADLOCK FALSE
INVARIANT
  BatchesShareGroup
