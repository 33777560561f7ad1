\* Two processes, one thread each, a plain and an extern-linked key; the files may
\* start in any state, one process may be killed.
SPECIFICATION Spec
CONSTANTS
  t1 = t1  t2 = t2  t3 = t3  t4 = t4  p1 = p1  p2 = p2  p3 = p3  k1 = k1  k2 = k2
  NoKey = NoKey  NoThread = NoThread
  Thread = {t1, t2}
  Proc = {p1, p2}
  ProcOf <- TwoProcesses
  Key = {k1, k2}
  Traced = {}
  Extern = {k2}
  NoDisk = {}
  RunOnly = {}
  Modes = {"call", "compile"}
  InitKinds = {"absent", "good", "linked", "corrupt"}
  Id = {1, 2, 3, 4, 5, 6, 7, 8}
  EventId = {1}
  MaxCalls = 3
  MaxCrashes = 1
SYMMETRY SwapProcesses
INVARIANTS TypeOK BuildersExclude NoRebuild CodeAlive ExternStaysLocal
PROPERTIES StoreSpec
\* A behaviour ends when MaxCalls calls have been made.
CHECK_DEADLOCK FALSE
