\* Two threads, two devices, a module of two kernels; every call but
\* hipGetDevice may fail.
SPECIFICATION FairSpec
CONSTANTS
  Thread = {t1, t2}
  Device = {d1, d2}
  Slot = {s1}
  Launches = 2
  Failing = {"alloc", "loaddata", "getfunction", "cache", "launch", "setdevice", "sync", "unload"}
  MaxCalls = 4
  NoThread = NoThread
  Current = Current
  Broken = Broken
INVARIANTS NoDangling CodeResident ListedIsLoaded StatusIsOwn NothingLeaked DeviceKept
PROPERTIES CallsReturn
