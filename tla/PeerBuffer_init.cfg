\* Three ranks, one failed open.
SPECIFICATION BufferSpec
CONSTANTS
  Group = {r1, r2, r3}
  MaxOpenFaults = 1
  MaxCloseFaults = 0
  MaxKernels = 0
INVARIANTS MappedIsLive
\* A behaviour ends when every rank has freed its buffer, or one has failed to open it.
CHECK_DEADLOCK FALSE
