SPECIFICATION ProfSpec
CONSTANTS
  Loop <- MCLoop
  Hash <- MCHash
  OnlyMpi = FALSE
  WithIters = TRUE
  Jumps <- AllJumps
  UIntMod = 16
  MaxDepth = 2
  MaxIters = 2
  MaxStack = 4
  MpiCounters = FALSE
  Recursion = FALSE
  MaxEntries = 3
  MaxWork = 1
INVARIANTS ProfTypeOK NoNullCounter NestedDecisions ParserNeverFails ParserFollowsProgram ProfileExact IterationCountersComplete
