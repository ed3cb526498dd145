SPECIFICATION Spec
CONSTANTS
  Steps = {s1, s2}
  Workers = {w1, w2}
  Admins = {a1}
  NoStep = NoStep
  NoJob = NoJob
  MaxAttempts = 2
  QStashRetries = 2
  MaxIncidents = 1
INVARIANTS
  TypeOK
  CompletedIsGone
  CallsCapped
  QuietRunAgrees
PROPERTY SuccessIsFinal
SYMMETRY Symmetry
CHECK_DEADLOCK FALSE
