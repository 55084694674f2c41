SPECIFICATION SignalsSpec
CONSTANTS
  Sender = {"s1", "s2", "s3"}
  NULL = NULL
  Sig = {"SIGUSR1"}
  Programs <- OnlyIdler
  MaxFrames = 2
  Parts = {"signal"}
PROPERTY ReceivedAll
