SPECIFICATION Spec
CHECK_DEADLOCK FALSE
CONSTANTS
  a = a
  b = b
  c = c
  Threads <- MCThreads
  Scenarios <- QuitScenarios
  Delays = {1, 2}
  TimeSpace = 16
  Start = 0
INVARIANTS
  QuitDelivers
