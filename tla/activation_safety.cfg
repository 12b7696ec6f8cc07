SPECIFICATION Spec
CONSTANTS
  Modes = {"OTAA", "ABP"}
  Revs = {0, 1}
  LateRevs = {1}
  SavePending = FALSE
  DevNonceMod = 3
  MaxJoinNonce = 2
  MaxFCnt = 2
  AdrAckLimit = 1
  FOptsMax = 3
  Foreign = TRUE
  MaxMishaps = 2
  Signature <- XorSignature
CHECK_DEADLOCK FALSE
INVARIANTS TypeOK KeysAgreed SessionSignedByNonces RestoredSessionIntact PendingRekeyReverts
PROPERTIES DevNonceFresh AnswerNotRefused KeepsPromise
