SPECIFICATION FairSignalsSpec
CONSTANTS
  Sender = {"s1", "s2", "s3"}
  NULL = NULL
  Sig = {"SIGKILL", "SIGCHLD", "SIGSEGV", "SIGUSR1"}
  Programs <- AllPrograms
  MaxFrames = 2
  Parts = {"signal", "wait", "jobs"}
INVARIANTS SignalSound WaitForSound JobsSound
PROPERTIES  ReadyNotMissed
CHECK_DEADLOCK FALSE
