\* Two ranks, two captures, a failed open.
SPECIFICATION Spec
CONSTANTS
  World = 2
  Tensor = {t1, t2}
  Address = {a1, a2}
  Programs <- TwoCaptures
  MaxFaults = 1
  MaxCalls = 2
INVARIANTS PeersAgree
\* A behaviour ends when every rank has made its captures.
CHECK_DEADLOCK FALSE
