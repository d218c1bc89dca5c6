SPECIFICATION Spec
CHECK_DEADLOCK FALSE
CONSTANTS
  FileLen = 2
  Source <- MCSource
  BufLen = 2
  SendCap = 3
  RecvCap = 2
  MaxFaults = 0
INVARIANT
  ReturnsWhenCopied
