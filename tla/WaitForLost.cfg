SPECIFICATION SignalsSpec
CONSTANTS
  Sender = {"s1", "s2", "s3"}
  NULL = NULL
  Sig = {"SIGKILL", "SIGCHLD", "SIGSEGV", "SIGUSR1"}
  Programs <- AllPrograms
  MaxFrames = 2
  Parts = {"wait"}
INVARIANT NoLostSignal
