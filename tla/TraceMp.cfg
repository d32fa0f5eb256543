SPECIFICATION Spec
CONSTANTS
  nparsers = 3
  MAX_BUFFER_CHUNKS = 2
  Capacity = 1
  MaxLines = 15
INVARIANTS
  TypeOK
  ChunksAreDealtInTurn
PROPERTIES
  EndsOrWaitsForTheDead
  ImplementsTraceReading
CHECK_DEADLOCK FALSE
