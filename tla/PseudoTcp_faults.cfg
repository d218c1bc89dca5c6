CONSTANTS
  FileLen = 6
  SBufLen = 5
  RBufLen = 4
  Mss = 2
  IoSizes = {4}
  SeqSpace = 64
  MaxXmit = 3
  MaxFaults = 2
SPECIFICATION Spec
INVARIANTS
  TypeOK
  SegmentsCoverBuffer
  AckedIsDelivered
  WindowBacked
  TimerArmed
PROPERTY IsByteStream
CHECK_DEADLOCK FALSE
