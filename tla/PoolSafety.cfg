SPECIFICATION Spec
CONSTANTS
  MaxRuns = 2
  MaxApplies = 1
  Names = {a, b}
  SkipNames = {a}
  PanicNames = {b}
  Workers = {w1, w2}
  Firings = {f1, f2}
  QueueCap = 1
  RetryMax = 1
  None = None
CHECK_DEADLOCK FALSE
SYMMETRY Symmetry
INVARIANTS TypeOK OneWorkerPool HeldOnce RunningHasWorker PoolShrinksOnlyByPanic OneLateTask
