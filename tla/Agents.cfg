SPECIFICATION Spec
CONSTANTS
  None = None
  worker = worker
  c1 = c1
  c2 = c2
  t1 = t1
  t2 = t2
  q1 = q1
  q2 = q2
  Worker = worker
  Clients <- OneClient
  Text <- Texts
  Question <- OneQuestion
  Runs <- AllAgents
  MaxQuestions = 2
  MaxAnswers = 2
  MaxEach = 1
  MaxRuns = 3
SYMMETRY Symmetry
INVARIANTS
  Grounded
  LiveRowsDistinct
  LiveMemoriesDistinct
PROPERTIES
  EndedMemoriesStay
CHECK_DEADLOCK FALSE
