SPECIFICATION Spec
CONSTANTS
  Configs = {A, B}
  Refused = {R}
  Garbage = {G}
  Callbacks = {k1, k2}
  Buffer = 2
  MaxEdits = 2
  None = None
CHECK_DEADLOCK FALSE
INVARIANT SettledAgrees
