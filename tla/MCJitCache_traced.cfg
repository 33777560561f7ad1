\* Two traced keys: two threads of one process, files named by other processes.
SPECIFICATION Spec
CONSTANTS
  t1 = t1  t2 = t2  t3 = t3  t4 = t4  p1 = p1  p2 = p2  p3 = p3  k1 = k1  k2 = k2
  NoKey = NoKey  NoThread = NoThread
  Thread = {t1, t2}
  Proc = {p1}
  ProcOf <- OneProcess
  Key = {k1, k2}
  Traced = {k1, k2}
  Extern = {}
  NoDisk = {}
  RunOnly = {}
  Modes = {"call"}
  InitKinds = {"absent", "good"}
  Id = {1, 2, 3, 4, 5, 6, 7, 8}
  EventId = {1, 2}
  MaxCalls = 3
  MaxCrashes = 0
SYMMETRY SwapThreadsAndKeys
INVARIANTS NamesAgree CaptureFits
\* A behaviour ends when MaxCalls calls have been made.
CHECK_DEADLOCK FALSE
