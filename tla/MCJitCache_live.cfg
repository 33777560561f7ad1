\* Two threads of one process, a process without the disk cache and a run-only
\* one; a traced key, contended locks, every way to call.
SPECIFICATION FairSpec
CONSTANTS
  t1 = t1  t2 = t2  t3 = t3  t4 = t4  p1 = p1  p2 = p2  p3 = p3  k1 = k1  k2 = k2
  NoKey = NoKey  NoThread = NoThread
  Thread = {t1, t2, t3, t4}
  Proc = {p1, p2, p3}
  ProcOf <- ThreeProcesses
  Key = {k1}
  Traced = {k1}
  Extern = {}
  NoDisk = {p2}
  RunOnly = {p3}
  Modes = {"call", "compile", "placeholder", "prepare"}
  InitKinds = {"absent", "good", "corrupt"}
  Id = {1, 2, 3, 4, 5, 6, 7, 8}
  EventId = {1}
  MaxCalls = 2
  MaxCrashes = 0
INVARIANTS KeepaliveFound
PROPERTIES CallsEnd
\* A behaviour ends when MaxCalls calls have been made.
CHECK_DEADLOCK FALSE
