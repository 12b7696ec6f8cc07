SPECIFICATION Spec
CONSTANTS
  RxDelay <- Delays
  ScanGuard = 2
  Launch = 1
  ToAMin = 1
  ToAMax = 35
  Durations <- ShortToLong
  IrqWait = 3
  TimerLate <- Punctual
  Oversleep = 1
  TimeMod = 200
  NbTrans = 2
  MaxNow = 90
INVARIANT TypeOK
INVARIANT WindowHeardFrame
INVARIANT WindowsOnTime
INVARIANT ReturnsInTime
INVARIANT ClassCListens
PROPERTY ScheduledIsReturned
