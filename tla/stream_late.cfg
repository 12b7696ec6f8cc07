SPECIFICATION Spec
CONSTANTS
  FifoSize = 6
  Thresh = 3
  Totals = {7, 8}
  Lag = 1
  Prompt = FALSE
  Quick = TRUE
INVARIANT DoneMeansSent
