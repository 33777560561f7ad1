SPECIFICATION Spec
CONSTANTS
  World = 2
  Local = 2
  TopK = 2
  MaxTok = 2
  MaxRecv = 4
  Program <- OneRound
  Grid <- SameGrid
  Modes = {"copy", "std"}
  Memory = {0}
  Routes <- MCRoutes
INVARIANT
  WeightsCounted
CHECK_DEADLOCK FALSE
