SPECIFICATION StructuredSpec
CONSTANTS
  Loop <- MCLoop
  Hash <- MCHash
  OnlyMpi = FALSE
  WithIters = TRUE
  Jumps <- NoJumps
  UIntMod = 3
  MaxDepth = 3
  MaxIters = 4
  MaxStack = 3
INVARIANTS TypeOK StacksFollowProgram TraceFollowsProgram
PROPERTY NiterOfTheLoopLeft
