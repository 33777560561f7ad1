SPECIFICATION Spec
CONSTANTS
  World = 1
  Local = 2
  TopK = 2
  MaxTok = 1
  MaxRecv = 1
  Program <- TwoRounds
  Grid <- OtherGrid
  Modes = {"std"}
  Memory = {0}
  Routes <- OneRank
PROPERTY
  AllReturn
CHECK_DEADLOCK FALSE
