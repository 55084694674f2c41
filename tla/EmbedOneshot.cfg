SPECIFICATION Spec
CONSTANTS
  Reqs = {1}
  NULL = NULL
  MaxPid = 1
  PipeCap = 2
  Retain = 2
  ReadCap = 1
  Loads <- Long
INVARIANT OneshotComplete
CHECK_DEADLOCK FALSE
