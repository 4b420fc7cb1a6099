SPECIFICATION FairSpec
CONSTANTS
  Goroutines = {"dispatch", "reload"}
  None = None
  Updates = {u1, u2}
  Workers = {w1, w2}
  UpdatesCap = 1
  JobsCap = 1
  Hanging = {u1}
  Stuck = {"reload"}
CHECK_DEADLOCK FALSE
INVARIANTS InOnePlace QuietWhenJoined FatalIsTold
PROPERTIES WaySpec Served MainExits
