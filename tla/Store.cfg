SPECIFICATION Spec
CONSTANTS
  MaxRecords = 3
  MaxObjects = 3
  MaxCrashes = 2
  MultiByte = FALSE
  MaxDiskFaults = 1
INVARIANTS
  TypeOK
  AlwaysOpens
  SlotsHoldVectors
  SnapshotsReadable
  IdsArePositions
  ReplayRows
PROPERTIES
  ImplementsLedger
CHECK_DEADLOCK FALSE
