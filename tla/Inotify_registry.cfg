SPECIFICATION Spec
CONSTANTS
  w1 = w1
  w2 = w2
  w3 = w3
  path1 = path1
  path2 = path2
  file1 = file1
  NULL = NULL
  Watches = {w1, w2, w3}
  Paths = {path1, path2}
  Names = {file1}
  PathOf <- MCPathOf
  Resolve <- MCResolve
  MaxWd = 2
  MaxQueued = 2
  MaxEvents = 1
  Habits = {}
SYMMETRY
  Alike
INVARIANTS
  TypeOK
  RegistryConsistent
  NoOrphanKernelWatch
  DeadWatchReported
PROPERTIES
  DisableOnlyDead
