SPECIFICATION Spec
CONSTANTS
  Modes = {"OTAA"}
  Revs = {1}
  LateRevs = {}
  SavePending = FALSE
  DevNonceMod = 4
  MaxJoinNonce = 3
  MaxFCnt = 3
  AdrAckLimit = 1
  FOptsMax = 15
  Foreign = FALSE
  MaxMishaps = 0
  Signature <- XorSignature
CHECK_DEADLOCK FALSE
INVARIANT UnheardSessionReverts
