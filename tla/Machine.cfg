SPECIFICATION MachineSpec
CONSTANTS
  NULL = NULL
  Parts = {"memory", "jit", "exec", "vectors", "paths", "text"}
  Threads = {"t1", "t2", "t3"}
  First = "t1"
  Mms = {"m1", "m2"}
  ZERO = "zero"
  SHARED = "shared"
  HOLE_END = 0
  HOLE_START = 4
  STACK_TOP = 7
  HIGH = 8
  BAD_PAGE = 11
  StackLimit = 2
  AnonLimit = 5
  Lazy = 2
  MaxData = 6
  Loads <- MemoryPrograms
  NREGS = 4
  VectorLoads <- VectorPrograms
INVARIANTS AddressSpaces CodeSound  InstructionResults PathsFound
PROPERTY AnonCounted
CHECK_DEADLOCK FALSE
