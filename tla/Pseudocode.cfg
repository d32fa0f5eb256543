SPECIFICATION Spec
CONSTANTS
  Rank = {0, 1, 2}
  MaxCalls = 4
  Source <- MCSource
CONSTRAINT RanksInOrder
INVARIANTS
  TypeOK
  BlocksNest
  EveryCallIsRead
  PathsAreRead
  FailsWithoutCommonCall
CHECK_DEADLOCK FALSE
