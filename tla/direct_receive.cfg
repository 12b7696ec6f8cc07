SPECIFICATION Spec
CONSTANTS
  BufSize = 6
  ByteBits = 2
  SyncLen = 3
  Drop = TRUE
  WordLen = 1
  PollAt = 2
  Pace = 4
  Pause = TRUE
  MaxSyncs = 3
  MaxBits = 14
INVARIANT TypeOK
INVARIANT InOrder
INVARIANT NothingLeft
PROPERTY EveryBurstRead
