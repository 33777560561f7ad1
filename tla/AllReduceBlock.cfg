\* Two ranks, blocks of four waves, up to three iterations, even and uneven, in
\* all kernels.
SPECIFICATION FairSpec
CONSTANTS
  World = 2
  Waves = 2
  MaxBlocks = 1
  Kernels = {"onestage", "twostage", "write"}
  Sizes = {1, 3, 4, 5, 6}
INVARIANTS Summed EndedIsStored
PROPERTIES Finishes
\* A behaviour ends when every wave is done.
CHECK_DEADLOCK FALSE
