SPECIFICATION Spec
CHECK_DEADLOCK FALSE
CONSTANTS
  Candidates <- MCCandidates
  MaxFaults = 1
  ChannelFirst = {FALSE}
PROPERTY
  RequestsSettle
