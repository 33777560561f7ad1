\* The instances with a read or a refill that no explicit wait covers.
SPECIFICATION Spec
CONSTANTS
  Kernels <- Racing
INVARIANTS NoRace Accumulated
\* A workgroup stops when its waves have ended.
CHECK_DEADLOCK FALSE
