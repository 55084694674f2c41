SPECIFICATION FilesSpec
CONSTANTS
  NULL = NULL
  Parts = {"locks"}
  Owner = {o1, o2}
  MaxOff = 1
  Cmds = {"F_SETLK", "F_SETLKW", "F_SETLK64", "F_SETLKW64"}
  Threads = {t1, t2}
  PathOrder <- Order
  MaxIno = 8
  Bound <- A
  Loads <- FakeFsPrograms
INVARIANT SetlkwWaits
