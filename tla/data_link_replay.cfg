SPECIFICATION Spec
CONSTANTS
  Nodes <- MixedNodes
  FCntMod = 3
  FCntHigh = 4
  Uplinks <- MixedUplinks
  Contents <- MixedContents
  McFCntMax = 2
  MaxUp = 3
  MaxDown <- ShortCounters
  MaxAir = 1
CHECK_DEADLOCK FALSE
PROPERTY TakenOnce
