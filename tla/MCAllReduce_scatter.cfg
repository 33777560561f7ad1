\* Two ranks, one write-mode call of six packs, a wave for each rank.
SPECIFICATION Spec
CONSTANTS
  World = 2
  Lanes = 1
  WaveRanks = 1
  MaxBlocks = 1
  MaxPacks = 6
  SmallBelow = 2
  LargeAbove = 4
  OneStageWorlds = {}
  WriteWorlds = {2}
  FlagMod = 64
  Programs <- AllPrograms
  Sizes = {6}
  MaxCalls = 1
INVARIANTS AllReduced
\* A behaviour ends when every rank has made its calls.
CHECK_DEADLOCK FALSE
