SPECIFICATION FairSpec
CONSTANTS
  MaxRuns = 1
  MaxApplies = 1
  Names = {a}
  SkipNames = {}
  PanicNames = {}
  Workers = {w1}
  Firings = {f1}
  QueueCap = 1
  RetryMax = 0
  None = None
CHECK_DEADLOCK FALSE
PROPERTY ApplyReturns
