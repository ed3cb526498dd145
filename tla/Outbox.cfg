SPECIFICATION FairSpec
CONSTANTS
  p1 = p1
  p2 = p2
  p3 = p3
  e1 = e1
  e2 = e2
  Producers <- MCProducers
  Events <- MCEvents
  KeyOf <- MCKeyOf
  CreatedAt <- MCCreatedAt
  DemoEvents <- MCDemo
  Workers = {w1, w2}
  NoWorker = NoWorker
  MaxAttempts = 2
  BatchLimit = 2
  MaxCrashes = 1
INVARIANTS
  TypeOK
  ScheduledIffCommitted
  AttemptsExclusive
  OverrunExplained
PROPERTIES
  KeepsPromise
  EventuallySettled
CHECK_DEADLOCK FALSE
