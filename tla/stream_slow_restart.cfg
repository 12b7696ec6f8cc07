SPECIFICATION Spec
CONSTANTS
  FifoSize = 6
  Thresh = 3
  Totals = {7, 8}
  Lag = 1
  Prompt = TRUE
  Quick = FALSE
INVARIANT ReceivedWhole
