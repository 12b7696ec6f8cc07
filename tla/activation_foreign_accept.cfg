SPECIFICATION FairSpec
CONSTANTS
  Modes = {"OTAA"}
  Revs = {1}
  LateRevs = {}
  SavePending = FALSE
  DevNonceMod = 4
  MaxJoinNonce = 3
  MaxFCnt = 1
  AdrAckLimit = 2
  FOptsMax = 15
  Foreign = TRUE
  MaxMishaps = 1
  Signature <- XorSignature
CHECK_DEADLOCK FALSE
PROPERTY JoinedWhateverHeard
