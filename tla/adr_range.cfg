SPECIFICATION Spec
CONSTANTS
  Default <- DefaultChannels
  Extra <- ExtraChannels
  DefaultRange <- Slow
  Ranges <- Allowed
  RadioDRs <- AllDRs
  MaxDR = 2
  MaxStep = 1
  PowerSteps <- AllSteps
  DwellDR = 1
  Limit = 1
  Delay = 2
  Rev = 1
  MaxTrans = 2
  Requests <- SomeRequests
  MaxEvents = 1
INVARIANT RangeRespected
