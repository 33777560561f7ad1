\* Two ranks, the one-stage kernel only, two calls.
SPECIFICATION Spec
CONSTANTS
  World = 2
  Lanes = 1
  WaveRanks = 1
  MaxBlocks = 1
  MaxPacks = 2
  SmallBelow = 2
  LargeAbove = 4
  OneStageWorlds = {2}
  WriteWorlds = {2}
  FlagMod = 64
  Programs <- AllPrograms
  Sizes = {1, 2}
  MaxCalls = 2
INVARIANTS AllReduced
\* A behaviour ends when every rank has made its calls.
CHECK_DEADLOCK FALSE
