SPECIFICATION TableSpec
CONSTANTS
  Loop <- MCLoop
  Hash <- MCHash
  Where <- MCWhere
  OnlyMpi = TRUE
  WithIters = FALSE
  Jumps <- LocalJumps
  UIntMod = 1000
  HASHMAP_SIZE = 2
  MaxDepth = 2
  MaxIters = 1
  MaxStack = 3
  MaxFrames = 1
INVARIANTS
  TableSound
  LabelsComplete
  PopsAreBalanced
  LoopInfoIsTheOpenLoops
PROPERTY MpiLabelsAreTheOpenLoops
