\* Round tag before the group tag; up to 4 calls in 2 groups over 2 rounds.
CONSTANTS
  f1 = f1
  f2 = f2
  f3 = f3
  Callees <- MCCallees
  TagOrders = {"round_first"}
  MaxCalls = 4
  MaxGroups = 2
  MaxRounds = 2
SPECIFICATION Spec
SYMMETRY MCSymmetry
CHECK_DEADLOCK FALSE
INVARIANTS
  BatchesShareGroup
  AllInterleavings
