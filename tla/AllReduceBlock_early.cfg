\* A two-stage call of three packs for two waves: one wave makes one iteration.
SPECIFICATION Spec
CONSTANTS
  World = 2
  Waves = 2
  MaxBlocks = 1
  Kernels = {"twostage"}
  Sizes = {3}
INVARIANTS EndSyncHolds
\* A behaviour ends when every wave is done.
CHECK_DEADLOCK FALSE
