SPECIFICATION Spec
CHECK_DEADLOCK FALSE
CONSTANTS
  Candidates <- MCCandidates
  MaxFaults = 1
  ChannelFirst = {TRUE, FALSE}
INVARIANTS
  TypeOK
  InitiateFirst
  CandidatesNotStranded
  ErrorForCause
PROPERTIES
  EndingEnds
  LoneEndGivesUp
