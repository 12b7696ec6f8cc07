SPECIFICATION Spec
CONSTANTS
  Nodes <- PlainNodes
  FCntMod = 3
  FCntHigh = 4
  Uplinks <- MixedUplinks
  Contents <- ConfirmedCommands
  McFCntMax = 2
  MaxUp = 3
  MaxDown <- ShortCounters
  MaxAir = 1
CHECK_DEADLOCK FALSE
INVARIANT OwedAckPending
