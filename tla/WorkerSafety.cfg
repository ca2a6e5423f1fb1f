SPECIFICATION Spec
CONSTANTS
  loop = loop
  admin = admin
  Runner = {loop, admin}
  Loop = loop
  NumConsumers = 1
  Embedding <- FirstEmbeds
  BatchSize = 2
  MaxPerCycle = 2
  MaxFailures = 2
  ReflectEvery = 2
  Faults <- AllFaults
  MaxEvents = 3
  MaxRequests = 1
  MaxAttempts = 3
  MaxInterrupts = 1
INVARIANTS
  SingleFlight
  NoEventLost
  CommittedOnce
  FailuresCountHead
  ReflectedIsSnapshotted
PROPERTIES
  ImplementsDelivery
