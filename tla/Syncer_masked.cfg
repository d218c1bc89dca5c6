SPECIFICATION Spec
CHECK_DEADLOCK FALSE
CONSTANTS
  NULL = NULL
  Files = {"a", "b"}
  FileUnits = 2
  WireCap = 1
  Scenarios <- BusyScenarios
PROPERTY
  EventuallySynced
