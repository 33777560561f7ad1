\* Two threads of a run-only process make their first call together.
SPECIFICATION Spec
CONSTANTS
  t1 = t1  t2 = t2  t3 = t3  t4 = t4  p1 = p1  p2 = p2  p3 = p3  k1 = k1  k2 = k2
  NoKey = NoKey  NoThread = NoThread
  Thread = {t1, t2}
  Proc = {p1}
  ProcOf <- OneProcess
  Key = {k1}
  Traced = {}
  Extern = {}
  NoDisk = {}
  RunOnly = {p1}
  Modes = {"call"}
  InitKinds = {"good"}
  Id = {1, 2, 3, 4, 5, 6, 7, 8}
  EventId = {1}
  MaxCalls = 2
  MaxCrashes = 0
INVARIANTS RunOnlyServed
\* A behaviour ends when MaxCalls calls have been made.
CHECK_DEADLOCK FALSE
