SPECIFICATION Spec
CONSTANTS
  j1 = j1
  j2 = j2
  c1 = c1
  c2 = c2
  None = None
  Jobs = {j1}
  Contents = {c1, c2}
  Crons = {2, 3}
  MaxRetry = 1
  RetryBackoff = 1
  Specs <- NoHook
  Edits <- NoEdits
  Commands = {"trigger", "cancel"}
  MaxWorkers = 1
  KeepRuns = 1
  MaxRuns = 2
  MaxTime = 2
SYMMETRY Symmetry
CHECK_DEADLOCK FALSE
INVARIANTS
  MutualExclusion
