SPECIFICATION Spec
CONSTANTS
  Rank = {0, 1, 2}
  MaxCalls = 3
  Source <- MCSource
CONSTRAINT RanksInOrder
INVARIANT ConditionsAreRead
CHECK_DEADLOCK FALSE
