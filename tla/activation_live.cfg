SPECIFICATION FairSpec
CONSTANTS
  Modes = {"OTAA", "ABP"}
  Revs = {0, 1}
  LateRevs = {1}
  SavePending = FALSE
  DevNonceMod = 4
  MaxJoinNonce = 3
  MaxFCnt = 0
  AdrAckLimit = 2
  FOptsMax = 15
  Foreign = TRUE
  MaxMishaps = 2
  Signature <- XorSignature
CHECK_DEADLOCK FALSE
PROPERTY EventuallyJoined
