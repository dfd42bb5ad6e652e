CONSTANTS
  f1 = f1
  f2 = f2
  s1 = s1
  s2 = s2
  Files <- MCOneFile
  Syncs <- MCOneSync
  WriteBound = 2
  SyncBound = 3
  Settings <- MCNoFaults
SPECIFICATION Spec
INVARIANTS
  ArchivedWasAbsent
SYMMETRY Symmetry
CHECK_DEADLOCK FALSE
