SPECIFICATION FairSpec
CONSTANTS
  Steps = {s1}
  Workers = {w1, w2}
  Admins = {a1}
  NoStep = NoStep
  NoJob = NoJob
  MaxAttempts = 2
  QStashRetries = 2
  MaxIncidents = 2
PROPERTY StepsSettle
CHECK_DEADLOCK FALSE
