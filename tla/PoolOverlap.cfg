SPECIFICATION Spec
CONSTANTS
  MaxRuns = 1
  MaxApplies = 0
  Names = {a}
  SkipNames = {a}
  PanicNames = {}
  Workers = {w1, w2}
  Firings = {f1, f2}
  QueueCap = 2
  RetryMax = 0
  None = None
CHECK_DEADLOCK FALSE
INVARIANT NoOverlap
