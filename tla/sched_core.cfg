SPECIFICATION Spec
CONSTANTS
  j1 = j1
  j2 = j2
  c1 = c1
  c2 = c2
  None = None
  Jobs = {j1}
  Contents = {c1, c2}
  Crons = {2}
  MaxRetry = 1
  RetryBackoff = 1
  Specs <- Retries
  Edits <- Toggles
  Commands = {"trigger", "crash", "edit file"}
  MaxWorkers = 2
  KeepRuns = 1
  MaxRuns = 3
  MaxTime = 2
SYMMETRY Symmetry
CHECK_DEADLOCK FALSE
INVARIANTS
  TypeOK
  MutualExclusion
  RunningJobHasExecutor
  SkipHasBasis
  DeadOnlyAfterBudget
  ScheduleFollowsCron
PROPERTIES
  RunsEndOnce
  LeaseSpec
