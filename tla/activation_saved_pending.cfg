SPECIFICATION Spec
CONSTANTS
  Modes = {"OTAA"}
  Revs = {1}
  LateRevs = {}
  SavePending = TRUE
  DevNonceMod = 4
  MaxJoinNonce = 3
  MaxFCnt = 1
  AdrAckLimit = 2
  FOptsMax = 15
  Foreign = FALSE
  MaxMishaps = 2
  Signature <- XorSignature
CHECK_DEADLOCK FALSE
INVARIANT RestoredSessionIntact
