\* Two ranks, two blocks of one wave, three calls of every mix of the three
\* kernels in which a call finds its buffers free.
SPECIFICATION FairSpec
CONSTANTS
  World = 2
  Lanes = 1
  WaveRanks = 2
  MaxBlocks = 2
  MaxPacks = 6
  SmallBelow = 2
  LargeAbove = 4
  OneStageWorlds = {}
  WriteWorlds = {2}
  FlagMod = 64
  Programs <- SafePrograms
  Sizes = {1, 2, 4, 6}
  MaxCalls = 3
INVARIANTS Met
PROPERTIES CollectiveSpec AllReturn
\* A behaviour ends when every rank has made its calls.
CHECK_DEADLOCK FALSE
