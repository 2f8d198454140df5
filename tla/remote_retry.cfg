SPECIFICATION Spec
CONSTANTS
  r1 = r1
  r2 = r2
  w1 = w1
  w2 = w2
  None = None
  Runs = {r1}
  Workers = {w1, w2}
  After <- Ring
  First = w1
  Pooled = {}
  Retries = 1
  Cooldown = 1
  MaxTime = 1

CHECK_DEADLOCK FALSE
INVARIANTS
  MarkIsHonoured
