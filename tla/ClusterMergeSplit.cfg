SPECIFICATION Spec
CONSTANTS
  Base = 11
  MaxDepth = 3
  WithLoopInfo = FALSE
  Programs <- SplitExample
  Trips = {}
  CondTrips = {}
INVARIANTS DataConditionsSolved
