SPECIFICATION Spec
CHECK_DEADLOCK FALSE
CONSTANTS
  FileLen = 4
  Source <- MCSource
  BufLen = 2
  SendCap = 3
  RecvCap = 2
  MaxFaults = 2
INVARIANTS
  TypeOK
  NothingLost
  DispatchSafe
  DonePostedOnce
PROPERTIES
  ClientReturns
  IsFileCopy
