SPECIFICATION Spec
CONSTANTS
  RxDelay <- Delays
  ScanGuard = 2
  Launch = 1
  ToAMin = 1
  ToAMax = 10
  Durations <- ShortAndMedium
  IrqWait = 3
  TimerLate <- Punctual
  Oversleep = 1
  TimeMod = 200
  NbTrans = 2
  MaxNow = 65
INVARIANT MembersListen
