\* Two ranks, two projections of one pair each.
SPECIFICATION FairSpec
CONSTANTS
  World = 2
  R0 = 0
  R1 = 1
  Regions = {0}
  Size <- Sizes
  Threads = 1
  LayerSlots = 4
  Programs <- Standalone
  Steps = 2
  Size0 = 1
  Size1 = 1
PROPERTIES AllReturn
\* A behaviour ends when every rank has made its calls.
CHECK_DEADLOCK FALSE
