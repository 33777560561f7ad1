\* Three ranks, two steps of one pair per region, in two regions or in one with
\* alternating slots.
SPECIFICATION FairSpec
CONSTANTS
  World = 3
  R0 = 0
  R1 = 1
  Regions = {0, 1}
  Size <- Sizes
  Threads = 2
  LayerSlots = 4
  Programs <- Safe
  Steps = 2
  Size0 = 1
  Size1 = 1
PROPERTIES CollectiveSpec NoneLost AllReturn
\* A behaviour ends when every rank has made its calls.
CHECK_DEADLOCK FALSE
