SPECIFICATION Spec
CONSTANTS
  Base = 7
  MaxDepth = 3
  WithLoopInfo = FALSE
  Programs <- MCPrograms
  Trips = {2, 3}
  CondTrips = {4, 6}
INVARIANTS TypeOK EveryCallInOneLoop IterationsReplayCalls NoFalseRelations StructureEmerges
PROPERTIES MergedLoopsStay
