SPECIFICATION FilesSpec
CONSTANTS
  NULL = NULL
  Parts = {"locks", "fakefs"}
  Owner = {o1, o2, o3}
  MaxOff = 2
  Cmds = {"F_SETLK"}
  Threads = {t1, t2}
  PathOrder <- Order
  MaxIno = 8
  Bound <- A
  Loads <- FakeFsPrograms
SYMMETRY Symmetry
INVARIANTS LockList 
PROPERTIES ByteLockSteps 
