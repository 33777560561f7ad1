\* Two ranks, blocks of one wave, one call: of three packs in two stages, or of five
\* in write mode. Either alone (Sizes) returns wrong sums.
SPECIFICATION Spec
CONSTANTS
  World = 2
  Lanes = 1
  WaveRanks = 2
  MaxBlocks = 2
  MaxPacks = 5
  SmallBelow = 2
  LargeAbove = 4
  OneStageWorlds = {}
  WriteWorlds = {2}
  FlagMod = 64
  Programs <- AllPrograms
  Sizes = {3, 5}
  MaxCalls = 1
INVARIANTS AllReduced
\* A behaviour ends when every rank has made its calls.
CHECK_DEADLOCK FALSE
