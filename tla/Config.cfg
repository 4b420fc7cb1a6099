SPECIFICATION FairSpec
CONSTANTS
  Configs = {A, B}
  Refused = {R}
  Garbage = {G}
  Callbacks = {k1}
  Buffer = 2
  MaxEdits = 5
  None = None
CHECK_DEADLOCK FALSE
INVARIANTS OnlyAccepted LatestOnItsWay
PROPERTY Converges
