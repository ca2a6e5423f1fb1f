SPECIFICATION Spec
CONSTANTS
  None = None
  worker = worker
  c1 = c1
  c2 = c2
  t1 = t1
  t2 = t2
  q1 = q1
  q2 = q2
  Worker = worker
  Clients <- TwoClients
  Text <- OneText
  Question <- Questions2
  Runs <- Asking
  MaxQuestions = 2
  MaxAnswers = 2
  MaxEach = 1
  MaxRuns = 2
PROPERTIES
  QuestionsNotLost
CHECK_DEADLOCK FALSE
