SPECIFICATION TasksSpec
CONSTANTS
  NULL = NULL
  init = "init"
  Others = {"p2", "p3", "p4"}
  Codes = {"c1", "c2"}
  Loads <- StopLoads
  MAX_PID = 4
  GroupLoads <- GroupPrograms
  Parts = {"process"}
INVARIANT ExitStatus
