SPECIFICATION Spec
CONSTANTS
  r1 = r1
  r2 = r2
  w1 = w1
  w2 = w2
  None = None
  Runs = {r1, r2}
  Workers = {w1, w2}
  After <- Ring
  First = w1
  Pooled = {r1, r2}
  Retries = 0
  Cooldown = 1
  MaxTime = 1
SYMMETRY Symmetry
CHECK_DEADLOCK FALSE
INVARIANTS
  MarkIsHonoured
  ScanIsRegistered
  FailsAfterWholeRound
