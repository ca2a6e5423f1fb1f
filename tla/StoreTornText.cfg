SPECIFICATION Spec
CONSTANTS
  MaxRecords = 3
  MaxObjects = 3
  MaxCrashes = 1
  MultiByte = TRUE
  MaxDiskFaults = 0
INVARIANTS
  AlwaysOpens
CHECK_DEADLOCK FALSE
