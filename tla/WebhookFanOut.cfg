SPECIFICATION FairSpec
CONSTANTS
  Calls = {k1, k2}
  Subs = {s1, s2}
  Workers = {w1}
  NoJob = NoJob
  NoWorker = NoWorker
  MaxRetries = 1
  QStashRetries = 1
  MaxPauses = 0
  MaxFaults = 2
  MaxCopies = 0
INVARIANT FanOutIsolated
CHECK_DEADLOCK FALSE
