\* Two launches, of two tiles in two splits or one in three, on a device of two slots.
SPECIFICATION FairSpec
CONSTANTS
  MaxTiles = 2
  MaxSplits = 3
  Waves <- TwoWaves
  Leader = 1
  AddsTo <- Crossed
  Slots = 2
  Shapes <- TwoShapes
  MaxLaunches = 2
  OwnStream = TRUE
INVARIANTS Summed
PROPERTIES AllEnd
\* The stream may be used no more.
CHECK_DEADLOCK FALSE
