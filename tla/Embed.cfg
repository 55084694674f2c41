SPECIFICATION FairSpec
CONSTANTS
  Reqs = {1, 2}
  NULL = NULL
  MaxPid = 2
  PipeCap = 2
  Retain = 1
  ReadCap = 1
  Loads <- PassingLoads
INVARIANTS StreamSound
PROPERTIES RemoteProcessSpec 
CHECK_DEADLOCK FALSE
