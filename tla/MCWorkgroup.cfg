\* The instances whose explicit waits cover their reads; MCWorkgroup_racing.cfg has others.
SPECIFICATION Spec
CONSTANTS
  Kernels <- Sound
INVARIANTS NoRace Accumulated
\* A workgroup stops when its waves have ended.
CHECK_DEADLOCK FALSE
