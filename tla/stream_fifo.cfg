SPECIFICATION Spec
CONSTANTS
  FifoSize = 6
  Thresh = 3
  Totals = {7, 8}
  Lag = 1
  Prompt = TRUE
  Quick = TRUE
INVARIANT TypeOK
INVARIANT SentInOrder
INVARIANT DoneMeansSent
INVARIANT ReceivedWhole
PROPERTY EveryPacketReported
