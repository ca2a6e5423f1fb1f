SPECIFICATION FairSpec
CONSTANTS
  a = a
  b = b
  Key = {a, b}
  Raw <- RawAnswers
  MaxAttempts = 3
  MaxCalls = 2
  MaxRuns = 3
  MaxFaults = 2
INVARIANTS
  ReplayReproduces
PROPERTIES
  RecordedIsOnDisk
  RunsEnd
CHECK_DEADLOCK FALSE
