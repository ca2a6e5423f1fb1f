SPECIFICATION FairSpec
CONSTANTS
  loop = loop
  admin = admin
  Runner = {loop, admin}
  Loop = loop
  NumConsumers = 2
  Embedding <- FirstEmbeds
  BatchSize = 1
  MaxPerCycle = 1
  MaxFailures = 2
  ReflectEvery = 2
  Faults <- Absorbed
  MaxEvents = 2
  MaxRequests = 1
  MaxAttempts = 3
  MaxInterrupts = 1
PROPERTIES
  EveryEventConsumed
  EveryEventReflected
