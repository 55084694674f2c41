SPECIFICATION FairTasksSpec
CONSTANTS
  NULL = NULL
  init = "init"
  Others = {"p2", "p3", "p4"}
  Codes = {"c1", "c2"}
  Loads <- PassingLoads
  MAX_PID = 3
  GroupLoads <- GroupPrograms
  Parts = {"process", "groups"}
INVARIANTS TreeSound ExitStatus 
PROPERTIES GroupExitCompletes InitReaps
