\* Every temporal modifier, no filter or nft, up to 4 states and N up to 3.
CONSTANTS
  MaxStates = 4
  MaxN = 3
  Temporals = {"", "eventually", "always", "eventually-always"}
  Filters = {"", "nft"}
SPECIFICATION Spec
CHECK_DEADLOCK FALSE
INVARIANTS
  AssumeMeaning
  AssertMeaning
