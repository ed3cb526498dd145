SPECIFICATION FairSpec
CONSTANTS
  Calls = {k1}
  Subs = {s1}
  Workers = {w1, w2}
  NoJob = NoJob
  NoWorker = NoWorker
  MaxRetries = 2
  QStashRetries = 1
  MaxPauses = 1
  MaxFaults = 2
  MaxCopies = 1
INVARIANTS
  TypeOK
  OneSender
  Attended
  PostsBounded
  OneLetterPerDead
  OnlyFaultsHurt
PROPERTIES
  TerminalIsFinal
  EventuallyTerminal
CHECK_DEADLOCK FALSE
