----------------------------- MODULE AotRuntime -----------------------------
(***************************************************************************)
(* The runtime linked into an exported kernel object: Init, Load, Unload   *)
(* and Launch of lib/Runtime/ROCm/FlyRocmAotRuntime.cpp, the error latch   *)
(* of FlyRocmRuntimeError.cpp and the entry wrapper _aot.py generates,     *)
(* called by the threads of an application while kernels run on the GPUs.  *)
(***************************************************************************)
EXTENDS Naturals, FiniteSets

CONSTANTS
  Thread, Device, Slot,
  Launches,    \* kernels an exported entry launches
  Failing,     \* the HIP and libc calls that may fail
  MaxCalls,    \* bound: calls made in a behaviour
  NoThread,
  Current,     \* the device argument -1
  Broken       \* device selection unusable, or unknown

Calls == {"alloc", "getdevice", "setdevice", "loaddata", "getfunction", "cache",
          "launch", "sync", "unload"}

ASSUME ConstantsAssumption ==
  /\ Launches \in Nat \ {0} /\ MaxCalls \in Nat
  /\ Failing \subseteq Calls
  /\ Slot # {} /\ NoThread \notin Thread
  /\ {Current, Broken} \cap Device = {} /\ Current # Broken

Module   == 1..MaxCalls   \* one call makes at most one
NoModule == 0
Ops      == {"init", "load", "unload", "launch"}

VARIABLES
  slot,       \* AotModule **slot: the module each slot points to
  live,       \* AotModules not freed
  devices,    \* AotModule.devices
  functions,  \* devices whose AotDeviceModule has the kernel's function cached
  made,       \* AotModules ever made; addresses are not reused
  writer, readers,  \* aotStateLock
  mutex,      \* AotModule.mutex
  resident,   \* times an AotModule's binary is loaded on a device
  running,    \* <<module, device>> of the kernels the GPUs execute
  device,     \* each thread's selected device
  chosen,     \* the device its application selected
  latch,      \* thread_local lastError
  pc, loc,    \* where each thread is and its locals
  ret,        \* the last call each thread has returned from
  calls

lockVars   == <<writer, readers, mutex>>
moduleVars == <<slot, live, devices, functions, made>>
gpuVars    == <<resident, running>>
callVars   == <<pc, loc, ret>>
vars == <<lockVars, moduleVars, gpuVars, device, chosen, latch, callVars, calls>>

Status == {"ok", "uninit", "unloaded", "hip"}
NoLocals == [op |-> "none", slot |-> CHOOSE s \in Slot : TRUE, aot |-> NoModule,
             arg |-> Current, cur |-> Broken, todo |-> {}, left |-> 0, done |-> 0,
             status |-> "ok"]
NoReturn == [op |-> "none", aot |-> NoModule, status |-> "ok", done |-> 0]

Init ==
  /\ slot = [s \in Slot |-> NoModule] /\ live = {} /\ made = 0
  /\ devices = [m \in Module |-> {}] /\ functions = [m \in Module |-> {}]
  /\ writer = NoThread /\ readers = {} /\ mutex = [m \in Module |-> NoThread]
  /\ resident = [m \in Module |-> [d \in Device |-> 0]] /\ running = {}
  /\ chosen \in [Thread -> Device] /\ device = chosen
  /\ latch = [t \in Thread |-> "ok"]
  /\ pc = [t \in Thread |-> "idle"] /\ loc = [t \in Thread |-> NoLocals]
  /\ ret = [t \in Thread |-> NoReturn] /\ calls = 0

-----------------------------------------------------------------------------
May(call) == call \in Failing
NoDevice(t) == May("getdevice") \/ device[t] = Broken   \* hipGetDevice fails
Goto(t, l) == pc' = [pc EXCEPT ![t] = l] /\ UNCHANGED ret
SetLocals(t, l) == loc' = [loc EXCEPT ![t] = l]
SelectDevice(t, d) == device' = [device EXCEPT ![t] = d]

\* Mutant: one latch for the process.
SharedLatch(t) == CHOOSE u \in Thread : TRUE

\* lastError is thread_local.
LatchOf(t) == t

Latch(t, e) == latch' = [latch EXCEPT ![LatchOf(t)] = e]
Latched(t)  == latch[LatchOf(t)]

\* Mutant: an early return forgets the mutex.
ReleaseRwlock(t) ==
  /\ writer' = IF writer = t THEN NoThread ELSE writer
  /\ readers' = readers \ {t}
  /\ UNCHANGED mutex

\* Every path out of a function gives its mutex and its rwlock back.
Release(t) ==
  /\ writer' = IF writer = t THEN NoThread ELSE writer
  /\ readers' = readers \ {t}
  /\ mutex' = [m \in Module |-> IF mutex[m] = t THEN NoThread ELSE mutex[m]]

End(t, status) ==
  /\ pc' = [pc EXCEPT ![t] = "idle"] /\ SetLocals(t, NoLocals)
  /\ ret' = [ret EXCEPT ![t] = [op |-> loc[t].op, aot |-> loc[t].aot, status |-> status,
                                done |-> loc[t].done]]

Return(t, status) == End(t, status) /\ Release(t)

\* The application selects a device, or calls an exported function. The entry
\* wrapper drops what an earlier call left in the latch.
UseDevice(t, d) ==
  /\ pc[t] = "idle" /\ SelectDevice(t, d)
  /\ chosen' = [chosen EXCEPT ![t] = d]
  /\ UNCHANGED <<lockVars, moduleVars, gpuVars, latch, callVars, calls>>

Call(t, op, s, d) ==
  /\ pc[t] = "idle" /\ calls < MaxCalls /\ calls' = calls + 1
  /\ Goto(t, IF op \in {"init", "unload"} THEN "wrlock" ELSE "rdlock")
  /\ SetLocals(t, [NoLocals EXCEPT !.op = op, !.slot = s, !.arg = d, !.left = Launches])
  /\ IF op = "launch" THEN Latch(t, "ok") ELSE UNCHANGED latch
  /\ UNCHANGED <<lockVars, moduleVars, gpuVars, device, chosen>>

\* Mutant: the exclusive lock is taken like a shared one.
WriteLockShared(t) ==
  /\ pc[t] = "wrlock" /\ writer = NoThread
  /\ readers' = readers \cup {t} /\ Goto(t, loc[t].op)
  /\ UNCHANGED <<writer, mutex, moduleVars, gpuVars, device, chosen, latch, loc, calls>>

WriteLock(t) ==
  /\ pc[t] = "wrlock" /\ writer = NoThread /\ readers = {}
  /\ writer' = t /\ Goto(t, loc[t].op)
  /\ UNCHANGED <<readers, mutex, moduleVars, gpuVars, device, chosen, latch, loc, calls>>

ReadLock(t) ==
  /\ pc[t] = "rdlock" /\ writer = NoThread
  /\ readers' = readers \cup {t} /\ Goto(t, loc[t].op)
  /\ UNCHANGED <<writer, mutex, moduleVars, gpuVars, device, chosen, latch, loc, calls>>

-----------------------------------------------------------------------------
(* flydslAotModuleInit                                                     *)

InitCheck(t) ==
  /\ pc[t] = "init"
  /\ \/ slot[loc[t].slot] # NoModule /\ Return(t, "ok")
     \/ slot[loc[t].slot] = NoModule /\ Goto(t, "create") /\ UNCHANGED <<lockVars, loc>>
  /\ UNCHANGED <<moduleVars, gpuVars, device, chosen, latch, calls>>

Create(t) ==
  /\ pc[t] = "create"
  /\ \/ /\ made' = made + 1 /\ live' = live \cup {made'}
        /\ slot' = [slot EXCEPT ![loc[t].slot] = made']
        /\ Return(t, "ok")
     \/ May("alloc") /\ Return(t, "hip") /\ UNCHANGED <<made, live, slot>>
  /\ UNCHANGED <<devices, functions, gpuVars, device, chosen, latch, calls>>

-----------------------------------------------------------------------------
(* flydslAotModuleLoad                                                     *)

LoadStart(t) ==
  LET a == slot[loc[t].slot] IN
  /\ pc[t] = "load"
  /\ \/ a = NoModule /\ Return(t, "uninit")
     \/ a # NoModule /\ NoDevice(t) /\ Return(t, "hip")
     \/ /\ a # NoModule /\ device[t] # Broken /\ Goto(t, "mutex")
        /\ SetLocals(t, [loc[t] EXCEPT !.aot = a, !.cur = device[t],
                                       !.arg = IF @ = Current THEN device[t] ELSE @])
        /\ UNCHANGED lockVars
  /\ UNCHANGED <<moduleVars, gpuVars, device, chosen, latch, calls>>

\* Mutant: the module's mutex is not waited for.
MutexIgnored(t) == TRUE

MutexFree(t) == mutex[loc[t].aot] = NoThread

MutexLock(t) ==
  /\ pc[t] = "mutex" /\ MutexFree(t)
  /\ mutex' = [mutex EXCEPT ![loc[t].aot] = t]
  /\ Goto(t, IF loc[t].op = "load" THEN "find" ELSE "function")
  /\ UNCHANGED <<writer, readers, moduleVars, gpuVars, device, chosen, latch, loc, calls>>

\* Mutant: a failed hipSetDevice is not followed by one to the old device.
StaysBroken(t) == SelectDevice(t, Broken)

\* Mutant: the device argument is selected in place of the saved device.
RestoresArgument(t) == SelectDevice(t, loc[t].arg)

\* A failed hipSetDevice may leave the selection unusable: it is restored;
\* setting a device that worked before does not fail.
Restored(t) == SelectDevice(t, loc[t].cur)

\* findDevice, the new entry and the change of device.
LoadFind(t) ==
  LET d == loc[t].arg  found == d \in devices[loc[t].aot] IN
  /\ pc[t] = "find"
  /\ \/ found /\ Return(t, "ok") /\ UNCHANGED device
     \/ ~found /\ May("alloc") /\ Return(t, "hip") /\ UNCHANGED device
     \/ ~found /\ d # loc[t].cur /\ May("setdevice") /\ Return(t, "hip") /\ Restored(t)
     \/ ~found /\ Goto(t, "loaddata") /\ SelectDevice(t, d) /\ UNCHANGED <<lockVars, loc>>
  /\ UNCHANGED <<moduleVars, gpuVars, chosen, latch, calls>>

LoadData(t) ==
  /\ pc[t] = "loaddata" /\ SelectDevice(t, loc[t].cur)
  /\ \/ /\ resident' = [resident EXCEPT ![loc[t].aot][loc[t].arg] = @ + 1]
        /\ Goto(t, "insert") /\ UNCHANGED <<lockVars, loc>>
     \/ May("loaddata") /\ Return(t, "hip") /\ UNCHANGED resident
  /\ UNCHANGED <<moduleVars, running, chosen, latch, calls>>

Insert(t) ==
  /\ pc[t] = "insert" /\ Return(t, "ok")
  /\ devices' = [devices EXCEPT ![loc[t].aot] = @ \cup {loc[t].arg}]
  /\ UNCHANGED <<slot, live, functions, made, gpuVars, device, chosen, latch, calls>>

-----------------------------------------------------------------------------
(* flydslAotModuleUnload                                                   *)

UnloadStart(t) ==
  LET a == slot[loc[t].slot] IN
  /\ pc[t] = "unload"
  /\ slot' = [slot EXCEPT ![loc[t].slot] = NoModule]
  /\ \/ a = NoModule /\ Return(t, "ok")
     \/ /\ a # NoModule /\ Goto(t, "each") /\ UNCHANGED lockVars
        /\ \E c \in {device[t]} \cup IF May("getdevice") THEN {Broken} ELSE {} :
             SetLocals(t, [loc[t] EXCEPT !.aot = a, !.cur = c, !.todo = devices[a]])
  /\ UNCHANGED <<live, devices, functions, made, gpuVars, device, chosen, latch, calls>>

UnloadSet(t) ==
  /\ pc[t] = "each"
  /\ \E d \in loc[t].todo :
       \/ /\ SelectDevice(t, d) /\ Goto(t, "sync")
          /\ SetLocals(t, [loc[t] EXCEPT !.arg = d])
       \/ /\ May("setdevice") /\ UNCHANGED <<pc, ret>>
          /\ \E b \in {device[t], Broken} : SelectDevice(t, b)
          /\ SetLocals(t, [loc[t] EXCEPT !.todo = @ \ {d}, !.status = "hip"])
  /\ UNCHANGED <<lockVars, moduleVars, gpuVars, chosen, latch, calls>>

\* Mutant: the device is not synchronized.
UnloadUnsynced(t) ==
  /\ pc[t] = "sync" /\ Goto(t, "hipunload")
  /\ UNCHANGED <<lockVars, moduleVars, gpuVars, device, chosen, latch, loc, calls>>

\* hipDeviceSynchronize waits for every kernel of the device; it fails when
\* the device is lost, and its kernels with it.
UnloadSync(t) ==
  LET there == {r \in running : r[2] = loc[t].arg} IN
  /\ pc[t] = "sync" /\ Goto(t, "hipunload")
  /\ \/ there = {} /\ UNCHANGED <<running, loc>>
     \/ /\ May("sync") /\ running' = running \ there
        /\ SetLocals(t, [loc[t] EXCEPT !.status = "hip"])
  /\ UNCHANGED <<lockVars, moduleVars, resident, device, chosen, latch, calls>>

\* Mutant: the status of the last device wins.
LastStatus(old, err) == err

\* The first error is the one reported.
FirstStatus(old, err) == IF old = "ok" THEN err ELSE old

UnloadModule(t) ==
  /\ pc[t] = "hipunload" /\ Goto(t, "each")
  /\ \E err \in {"ok"} \cup IF May("unload") THEN {"hip"} ELSE {} :
       /\ resident' = [resident EXCEPT ![loc[t].aot][loc[t].arg] = IF err = "ok" THEN @ - 1 ELSE @]
       /\ SetLocals(t, [loc[t] EXCEPT !.todo = @ \ {loc[t].arg},
                                      !.status = FirstStatus(@, err)])
  /\ UNCHANGED <<lockVars, moduleVars, running, device, chosen, latch, calls>>

UnloadDone(t) ==
  /\ pc[t] = "each" /\ loc[t].todo = {}
  /\ IF loc[t].cur = Broken THEN UNCHANGED device ELSE Restored(t)
  /\ live' = live \ {loc[t].aot}
  /\ Return(t, loc[t].status)
  /\ UNCHANGED <<slot, devices, functions, made, gpuVars, chosen, latch, calls>>

-----------------------------------------------------------------------------
(* flydslAotModuleLaunchKernel, once per kernel of the entry.              *)

\* flydslRecordRuntimeError keeps the first error.
Record(t, e) == IF Latched(t) = "ok" THEN e ELSE Latched(t)

\* One launch ends with error e. After its last launch the entry returns what
\* the latch holds and clears it.
Launched(t, e) ==
  LET ok == IF e = "ok" THEN 1 ELSE 0 IN
  /\ Release(t)
  /\ \/ /\ loc[t].left > 1 /\ Goto(t, "rdlock") /\ Latch(t, Record(t, e))
        /\ SetLocals(t, [loc[t] EXCEPT !.left = @ - 1, !.done = @ + ok])
     \/ /\ loc[t].left = 1 /\ Latch(t, "ok")
        /\ pc' = [pc EXCEPT ![t] = "idle"] /\ SetLocals(t, NoLocals)
        /\ ret' = [ret EXCEPT ![t] = [op |-> "launch", aot |-> loc[t].aot,
                                      status |-> Record(t, e), done |-> loc[t].done + ok]]

LaunchStart(t) ==
  LET a == slot[loc[t].slot] IN
  /\ pc[t] = "launch"
  /\ \/ a = NoModule /\ Launched(t, "uninit")
     \/ a # NoModule /\ NoDevice(t) /\ Launched(t, "hip")
     \/ /\ a # NoModule /\ device[t] # Broken /\ Goto(t, "mutex")
        /\ SetLocals(t, [loc[t] EXCEPT !.aot = a, !.cur = device[t]])
        /\ UNCHANGED <<lockVars, latch>>
  /\ UNCHANGED <<moduleVars, gpuVars, device, chosen, calls>>

\* getFunction under the mutex: the cached function, or hipModuleGetFunction.
GetFunction(t) ==
  LET a == loc[t].aot  d == loc[t].cur IN
  /\ pc[t] = "function"
  /\ \/ d \notin devices[a] /\ Launched(t, "unloaded") /\ UNCHANGED functions
     \/ /\ d \in devices[a] \ functions[a] /\ May("getfunction")
        /\ Launched(t, "hip") /\ UNCHANGED functions
     \/ /\ d \in devices[a] /\ Goto(t, "submit")
        /\ mutex' = [mutex EXCEPT ![a] = NoThread]
        /\ functions' \in {[functions EXCEPT ![a] = @ \cup {d}]}
                            \cup IF May("cache") THEN {functions} ELSE {}
        /\ UNCHANGED <<writer, readers, latch, loc>>
  /\ UNCHANGED <<slot, live, devices, made, gpuVars, device, chosen, calls>>

Submit(t) ==
  /\ pc[t] = "submit"
  /\ \/ Launched(t, "ok") /\ running' = running \cup {<<loc[t].aot, loc[t].cur>>}
     \/ May("launch") /\ Launched(t, "hip") /\ UNCHANGED running
  /\ UNCHANGED <<moduleVars, resident, device, chosen, calls>>

\* The kernels of one module on one device finish.
KernelsEnd(r) ==
  /\ r \in running /\ running' = running \ {r}
  /\ UNCHANGED <<lockVars, moduleVars, resident, device, chosen, latch, callVars, calls>>

-----------------------------------------------------------------------------
Step(t) ==
  \/ WriteLock(t) \/ ReadLock(t) \/ InitCheck(t) \/ Create(t)
  \/ LoadStart(t) \/ MutexLock(t) \/ LoadFind(t) \/ LoadData(t) \/ Insert(t)
  \/ UnloadStart(t) \/ UnloadSet(t) \/ UnloadSync(t) \/ UnloadModule(t) \/ UnloadDone(t)
  \/ LaunchStart(t) \/ GetFunction(t) \/ Submit(t)

Next ==
  \/ \E t \in Thread, d \in Device : UseDevice(t, d)
  \/ \E t \in Thread, op \in Ops, s \in Slot, d \in Device \cup {Current} :
       (d # Current => op = "load") /\ Call(t, op, s, d)
  \/ \E t \in Thread : Step(t)
  \/ \E r \in running : KernelsEnd(r)

Spec == Init /\ [][Next]_vars

\* Threads run, and kernels terminate.
FairSpec ==
  /\ Spec
  /\ \A t \in Thread : WF_vars(Step(t))
  /\ \A r \in Module \X Device : WF_vars(KernelsEnd(r))

-----------------------------------------------------------------------------
Users == {"mutex", "find", "loaddata", "insert", "function", "submit"}
Enders == {"each", "sync", "hipunload"}
Ending == {loc[t].aot : t \in {u \in Thread : pc[u] \in Enders}}

Locals == [op : Ops \cup {"none"}, slot : Slot, aot : Module \cup {NoModule},
           arg : Device \cup {Current}, cur : Device \cup {Broken},
           todo : SUBSET Device, left : 0..Launches, done : 0..Launches, status : Status]
Returns == [op : Ops \cup {"none"}, aot : Module \cup {NoModule},
            status : Status, done : 0..Launches]

\* Every variable has its type.
TypeOK ==
  /\ slot \in [Slot -> Module \cup {NoModule}] /\ live \subseteq Module
  /\ devices \in [Module -> SUBSET Device] /\ functions \in [Module -> SUBSET Device]
  /\ made \in 0..MaxCalls /\ calls \in 0..MaxCalls
  /\ writer \in Thread \cup {NoThread} /\ readers \subseteq Thread
  /\ mutex \in [Module -> Thread \cup {NoThread}]
  /\ resident \in [Module -> [Device -> Nat]] /\ running \subseteq Module \X Device
  /\ chosen \in [Thread -> Device] /\ device \in [Thread -> Device \cup {Broken}]
  /\ latch \in [Thread -> Status]
  /\ pc \in [Thread -> {"idle", "wrlock", "rdlock", "create"} \cup Ops \cup Users \cup Enders]
  /\ loc \in [Thread -> Locals] /\ ret \in [Thread -> Returns]

\* No slot points to a freed AotModule, and a call that holds one between two
\* steps, its lists included, never finds it freed or its function's binary
\* unloaded: what `aotStateLock` and the mutex inside the module are for.
NoDangling ==
  /\ \A s \in Slot : slot[s] # NoModule => slot[s] \in live
  /\ \A t \in Thread : pc[t] \in Users \cup Enders => loc[t].aot \in live
  /\ \A t \in Thread : pc[t] = "submit" => resident[loc[t].aot][loc[t].cur] > 0

\* A kernel the GPU is executing has its binary loaded: Unload waits for the
\* kernels submitted before it (the comment in flydslAotModuleUnload).
CodeResident == \A r \in running : resident[r[1]][r[2]] > 0

\* A module in use is loaded exactly on the devices it lists, once on each,
\* whichever Loads and Launches race; only the Load that is about to add the
\* entry is ahead of the list.
ListedIsLoaded ==
  \A m \in live \ Ending, d \in Device :
    LET adding == \E t \in Thread : pc[t] = "insert" /\ loc[t].aot = m /\ loc[t].arg = d
    IN  resident[m][d] = IF d \in devices[m] \/ adding THEN 1 ELSE 0

\* An exported entry returns 0 when, and only when, every kernel of its own
\* call was submitted: no error of it is lost and none of another thread or an
\* earlier call is reported (the latch and the wrapper of _aot.py).
StatusIsOwn ==
  \A t \in Thread :
    ret[t].op = "launch" => (ret[t].status = "ok" <=> ret[t].done = Launches)

\* An Unload that returns 0 left the module's binary on no device.
NothingLeaked ==
  \A t \in Thread : ret[t].op = "unload" /\ ret[t].aot # NoModule /\ ret[t].status = "ok"
                      => \A d \in Device : resident[ret[t].aot][d] = 0

\* Between calls every thread has the device its application selected, also
\* after a Load or an Unload that failed halfway over several devices. For
\* threads whose hipGetDevice works: otherwise Unload has nothing to restore.
DeviceKept == \A t \in Thread : pc[t] = "idle" => device[t] = chosen[t]

\* Every call returns: no path out keeps a lock, and an Unload that waits for
\* a device holds nothing the kernels there need.
CallsReturn == \A t \in Thread : pc[t] # "idle" ~> pc[t] = "idle"
=============================================================================
