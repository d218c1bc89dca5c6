SPECIFICATION Spec
CHECK_DEADLOCK FALSE
CONSTANTS
  a = a
  b = b
  c = c
  Threads <- MCThreads
  Scenarios <- MCScenarios
  Delays = {1, 2}
  TimeSpace = 16
  Start = 0
INVARIANTS
  TypeOK
  ReadyAlive
  NoLostWake
PROPERTIES
  TimersInOrder
  CallsSettle
