SPECIFICATION Spec
CONSTANTS
  World = 2
  Local = 2
  TopK = 2
  MaxTok = 2
  MaxRecv = 2
  Program <- TwoRounds
  Grid <- SameGrid
  Modes = {"copy", "zero", "std"}
  Memory = {0}
  Routes <- MCRoutes
INVARIANTS
  Delivered
  Combined
  Packed
PROPERTY
  AllReturn
CHECK_DEADLOCK FALSE
