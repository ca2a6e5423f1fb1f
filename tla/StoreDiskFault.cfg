SPECIFICATION Spec
CONSTANTS
  MaxRecords = 3
  MaxObjects = 3
  MaxCrashes = 1
  MultiByte = FALSE
  MaxDiskFaults = 1
INVARIANTS
  LiveEqualsFold
CHECK_DEADLOCK FALSE
