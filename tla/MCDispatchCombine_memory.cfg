\* The counters that nobody clears start with what the memory held.
SPECIFICATION Spec
CONSTANTS
  World = 2
  Local = 2
  TopK = 2
  MaxTok = 2
  MaxRecv = 4
  Program <- OneRound
  Grid <- SameGrid
  Modes = {"copy"}
  Memory = {0, 1}
  Routes <- MCRoutes
INVARIANT
  Delivered
CHECK_DEADLOCK FALSE
