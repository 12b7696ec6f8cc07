SPECIFICATION Spec
CONSTANTS
  BufSize = 8
  ByteBits = 2
  SyncLen = 4
  Drop = TRUE
  WordLen = 2
  PollAt = 2
  Pace = 3
  Pause = TRUE
  MaxSyncs = 1
  MaxBits = 12
CHECK_DEADLOCK FALSE
INVARIANT ReadsOnlyReceived
