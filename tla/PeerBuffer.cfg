\* Three ranks, three failed closes and a failed open, a kernel each.
SPECIFICATION FairBufferSpec
CONSTANTS
  Group = {r1, r2, r3}
  MaxOpenFaults = 1
  MaxCloseFaults = 3
  MaxKernels = 1
INVARIANTS KernelHasPeers ClosedTogether
PROPERTIES AllReleased
\* A behaviour ends when every rank has freed its buffer, or one has failed to open it.
CHECK_DEADLOCK FALSE
