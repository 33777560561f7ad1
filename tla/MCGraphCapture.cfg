\* Two ranks, two captures of up to three calls on two tensors, one HIP call that fails.
SPECIFICATION FairSpec
CONSTANTS
  World = 2
  Tensor = {t1, t2}
  Address = {a1, a2}
  Programs <- TwoCaptures
  MaxFaults = 1
  MaxCalls = 3
INVARIANTS Aligned OwnEntries
PROPERTIES CapturesEnd
\* A behaviour ends when every rank has made its captures.
CHECK_DEADLOCK FALSE
