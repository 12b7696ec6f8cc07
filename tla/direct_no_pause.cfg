SPECIFICATION Spec
CONSTANTS
  BufSize = 6
  ByteBits = 2
  SyncLen = 3
  Drop = TRUE
  WordLen = 1
  PollAt = 2
  Pace = 4
  Pause = FALSE
  MaxSyncs = 3
  MaxBits = 14
INVARIANT InOrder
