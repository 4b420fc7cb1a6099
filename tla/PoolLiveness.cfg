SPECIFICATION FairSpec
CONSTANTS
  MaxRuns = 2
  MaxApplies = 0
  Names = {a}
  SkipNames = {a}
  PanicNames = {}
  Workers = {w1, w2}
  Firings = {f1, f2}
  QueueCap = 2
  RetryMax = 1
  None = None
CHECK_DEADLOCK FALSE
INVARIANTS FreshOnly StoppedIsQuiet
PROPERTIES StopCompletes QueueServed FlagFalls LedgerSpec
