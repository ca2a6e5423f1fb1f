SPECIFICATION FairInteractionSpec
CONSTANTS
  loop = loop
  ann = ann
  bob = bob
  Runner = {loop}
  Loop = loop
  Client = {ann, bob}
  NumConsumers = 1
  Embedding <- NoEmbedding
  BatchSize = 2
  MaxPerCycle = 1
  MaxFailures = 1
  ReflectEvery = 2
  Faults <- Crashes
  MaxEvents = 4
  MaxRequests = 0
  MaxAttempts = 0
  MaxInterrupts = 1
  MaxAsks = 2
  MaxCrashes = 1
INVARIANTS
  RepliesMatch
  MessagesHandledFirst
PROPERTIES
  AnswersReflected
