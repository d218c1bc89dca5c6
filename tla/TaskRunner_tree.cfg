SPECIFICATION Spec
CHECK_DEADLOCK FALSE
CONSTANTS
  MaxTasks = 3
  MaxDeeds = 3
  MaxSteps = 1
  Timeouts = {0, 1}
  MaxTime = 2
  LateChildren = FALSE
  Polled = TRUE
INVARIANTS
  TypeOK
  NoLostWake
  NoOrphans
  NextTimeoutWatched
PROPERTIES
  DoneIsDeleted
