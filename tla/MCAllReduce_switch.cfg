\* Two ranks, a two-stage call and a write-mode call, blocks of one wave.
SPECIFICATION Spec
CONSTANTS
  World = 2
  Lanes = 1
  WaveRanks = 2
  MaxBlocks = 2
  MaxPacks = 6
  SmallBelow = 2
  LargeAbove = 4
  OneStageWorlds = {}
  WriteWorlds = {2}
  FlagMod = 64
  Programs <- AllPrograms
  Sizes = {4, 6}
  MaxCalls = 2
INVARIANTS AllReduced
\* A behaviour ends when every rank has made its calls.
CHECK_DEADLOCK FALSE
