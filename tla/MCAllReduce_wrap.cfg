\* Two ranks, signal words of two bits, three two-stage calls.
SPECIFICATION Spec
CONSTANTS
  World = 2
  Lanes = 1
  WaveRanks = 1
  MaxBlocks = 1
  MaxPacks = 2
  SmallBelow = 2
  LargeAbove = 4
  OneStageWorlds = {}
  WriteWorlds = {2}
  FlagMod = 4
  Programs <- AllPrograms
  Sizes = {2}
  MaxCalls = 3
INVARIANTS Met
\* A behaviour ends when every rank has made its calls.
CHECK_DEADLOCK FALSE
