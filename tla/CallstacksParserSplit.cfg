SPECIFICATION Spec
CONSTANTS
  a = a
  b = b
  send = send
  recv = recv
  coll = coll
  Task <- MCTask
  SendPath <- MCSendPath
  RecvPath <- MCRecvPath
  CollPath <- MCCollPath
  Split = TRUE
  MaxCalls = 3
  MaxComms = 3
  MaxMissing = 0
SYMMETRY TaskSymmetry
INVARIANT ParserNeverFails
CHECK_DEADLOCK FALSE
