SPECIFICATION Spec
CONSTANTS
  a = a
  b = b
  send = send
  recv = recv
  coll = coll
  Task <- MCTask
  SendPath <- MCSendPath
  RecvPath <- MCRecvPath
  CollPath <- MCCollPath
  Split = FALSE
  MaxCalls = 3
  MaxComms = 3
  MaxMissing = 1
SYMMETRY TaskSymmetry
INVARIANTS TypeOK ParserNeverFails SizesExact PartnersExact CountersAreOneRecordLate
CHECK_DEADLOCK FALSE
