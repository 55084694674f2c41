SPECIFICATION NativeSpec
CONSTANTS
  NULL = NULL
  Parts = {"futex", "timer", "atomics", "guest", "offload"}
  Thread = {"t1", "t2", "t3"}
  Addr = {a1, a2}
  Val = {0, 1}
  MaxCount = 2
  MaxValue = 3
  MaxLate = 3
  MaxSets = 4
  Calls <- Roles
INVARIANTS FutexSound StructLifetime GuestTimersSound AtomicsSound OffloadSound
PROPERTIES WokenReturns NoStrandedWaiter EventuallyFreed ArmedFires OffloadEnds
CHECK_DEADLOCK FALSE
