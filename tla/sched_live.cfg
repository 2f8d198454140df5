SPECIFICATION FairSpec
CONSTANTS
  j1 = j1
  j2 = j2
  c1 = c1
  c2 = c2
  None = None
  Jobs = {j1, j2}
  Contents = {c1}
  Crons = {2, 3}
  MaxRetry = 1
  RetryBackoff = 1
  Specs <- EveryTwo
  Edits <- NoEdits
  Commands = {"crash"}
  MaxWorkers = 1
  KeepRuns = 1
  MaxRuns = 3
  MaxTime = 3
CHECK_DEADLOCK FALSE
INVARIANTS
  NotifiedAsRecorded
PROPERTIES
  RunsTerminate
  DueJobIsClaimed
