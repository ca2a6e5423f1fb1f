SPECIFICATION HarnessSpec
CONSTANTS
  None = None
  t1 = t1
  t2 = t2
  n1 = n1
  n2 = n2
  Text <- Texts
  Name <- Names
  MaxCommits = 4
SYMMETRY Symmetry
INVARIANTS
  EngineTypeOK
  AuditTrail
  VersionsCountTransitions
  VectorsMatchText
  EntitiesResolve
PROPERTIES
  ProvenanceGrows
  MergeKeepsSources
CHECK_DEADLOCK FALSE
