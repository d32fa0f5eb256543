SPECIFICATION Spec
CONSTANTS
  Base = 7
  MaxDepth = 3
  WithLoopInfo = TRUE
  Programs <- Successive
  Trips = {}
  CondTrips = {}
INVARIANTS UnmergedAreTopLevel
