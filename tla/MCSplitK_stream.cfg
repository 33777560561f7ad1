\* The kernel runs in a stream other than the one torch.zeros works in.
SPECIFICATION Spec
CONSTANTS
  MaxTiles = 1
  MaxSplits = 2
  Waves <- TwoWaves
  Leader = 1
  AddsTo <- Crossed
  Slots = 2
  Shapes <- OneShape
  MaxLaunches = 1
  OwnStream = FALSE
INVARIANTS Summed
CHECK_DEADLOCK FALSE
