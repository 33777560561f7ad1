------------------------- MODULE AotRuntime_proofs -------------------------
(***************************************************************************)
(* The safety properties of AotRuntime for any number of threads, devices, *)
(* slots, kernels of an entry and calls, whichever HIP calls fail.         *)
(***************************************************************************)
EXTENDS AotRuntime, FiniteSetTheorems, TLAPS

\* Where a thread holds the rwlock exclusively, shared, or a module's mutex.
Writing == {"init", "create", "unload"} \cup Enders
Reading == {"load", "launch"} \cup Users
Locking == {"find", "loaddata", "insert", "function"}

\* The exported function a thread is in, by where it is.
OpFits(l, op) ==
  /\ l = "wrlock" => op \in {"init", "unload"}
  /\ l \in {"init", "create"} => op = "init"
  /\ l \in {"rdlock", "mutex"} => op \in {"load", "launch"}
  /\ l \in {"load", "find", "loaddata", "insert"} => op = "load"
  /\ l \in {"launch", "function", "submit"} => op = "launch"
  /\ l \in {"unload"} \cup Enders => op = "unload"
InOp == \A t \in Thread : OpFits(pc[t], loc[t].op)

\* Who holds the rwlock and the mutexes is where the threads are.
Locked ==
  /\ \A t \in Thread : writer = t <=> pc[t] \in Writing
  /\ \A t \in Thread : t \in readers <=> pc[t] \in Reading
  /\ writer # NoThread => readers = {}
  /\ \A t \in Thread, m \in Module : mutex[m] = t <=> pc[t] \in Locking /\ loc[t].aot = m

\* Each call of Init makes a module at most once.
Makers == {t \in Thread : pc[t] \in {"wrlock", "init", "create"} /\ loc[t].op = "init"}
Counted == IsFiniteSet(Makers) /\ made + Cardinality(Makers) <= calls

\* Modules are in one slot at most, and freed after they left it.
Owned ==
  /\ live \subseteq 1..made
  /\ \A s \in Slot : slot[s] # NoModule => slot[s] \in live
  /\ \A s, u \in Slot : slot[s] = slot[u] /\ slot[s] # NoModule => s = u
  /\ \A t \in Thread : pc[t] \in Users \cup Enders => loc[t].aot \in live
  /\ \A t \in Thread, s \in Slot : pc[t] \in Enders => slot[s] # loc[t].aot

\* The devices a call works on.
PlacedAt(t) ==
  /\ loc[t].op = "unload" /\ pc[t] \in {"wrlock", "unload"} => loc[t].aot = NoModule
  /\ pc[t] \in {"loaddata", "insert"} => loc[t].arg \notin devices[loc[t].aot]
  /\ pc[t] \in {"find", "loaddata", "insert", "sync", "hipunload"} => loc[t].arg \in Device
  /\ loc[t].op = "load" /\ pc[t] = "mutex" => loc[t].arg \in Device
  /\ pc[t] \in Users => loc[t].cur \in Device
  /\ pc[t] = "submit" => loc[t].cur \in devices[loc[t].aot]
  /\ pc[t] \in Enders => loc[t].todo \subseteq devices[loc[t].aot]
  /\ pc[t] \in {"sync", "hipunload"} => loc[t].arg \in loc[t].todo
  /\ pc[t] = "hipunload" => <<loc[t].aot, loc[t].arg>> \notin running
Placed == \A t \in Thread : PlacedAt(t)

\* An Unload on its way has one binary left on each device still to do, and, as
\* long as nothing has failed, none on the others.
PartlyUnloaded(t) ==
  pc[t] \in Enders =>
    \A d \in Device :
      /\ d \in loc[t].todo => resident[loc[t].aot][d] = 1
      /\ d \notin loc[t].todo /\ loc[t].status = "ok" => resident[loc[t].aot][d] = 0

\* What is loaded where, before, at the end of and after the life of a module.
Fresh == \A m \in Module, d \in Device : m > made => devices[m] = {} /\ resident[m][d] = 0
Freed(t) == ret[t].op = "unload" /\ ret[t].aot # NoModule => ret[t].aot \in (1..made) \ live
Loaded == Fresh /\ \A t \in Thread : PartlyUnloaded(t) /\ Freed(t)

\* The latch tells whether a launch of this call has failed.
Latching ==
  \A t \in Thread :
    loc[t].op = "launch" /\ pc[t] # "idle" =>
      /\ loc[t].left >= 1 /\ loc[t].done + loc[t].left <= Launches
      /\ latch[t] = "ok" <=> loc[t].done + loc[t].left = Launches

\* The device a call has saved is the application's, and selected but in the
\* middle of a Load and of an Unload.
Saved ==
  \A t \in Thread :
    /\ pc[t] \notin {"loaddata"} \cup Enders => device[t] = chosen[t]
    /\ pc[t] \in Users \cup Enders => loc[t].cur = chosen[t]

Kept == Owned /\ Placed /\ Loaded /\ ListedIsLoaded /\ CodeResident /\ NothingLeaked

Inv == TypeOK /\ InOp /\ Locked /\ Counted /\ Kept /\ Latching /\ StatusIsOwn
-----------------------------------------------------------------------------
\* Locals with some fields changed are locals.
LEMMA LocalsExcept ==
  ASSUME NEW l \in Locals
  PROVE  /\ \A op \in Ops, s \in Slot, d \in Device \cup {Current}, n \in 0..Launches :
              [l EXCEPT !.op = op, !.slot = s, !.arg = d, !.left = n] \in Locals
         /\ \A m, n \in 0..Launches : [l EXCEPT !.left = m, !.done = n] \in Locals
         /\ \A a \in Module, c \in Device \cup {Broken}, d \in Device \cup {Current} :
              /\ [l EXCEPT !.aot = a, !.cur = c, !.arg = d] \in Locals
              /\ [l EXCEPT !.aot = a, !.cur = c] \in Locals
         /\ \A a \in Module, c \in Device \cup {Broken}, T \in SUBSET Device :
              [l EXCEPT !.aot = a, !.cur = c, !.todo = T] \in Locals
         /\ \A d \in Device : [l EXCEPT !.arg = d] \in Locals
         /\ \A T \in SUBSET Device, e \in Status : [l EXCEPT !.todo = T, !.status = e] \in Locals
         /\ \A e \in Status : [l EXCEPT !.status = e] \in Locals
<1> USE DEF Locals
<1>1. \A op \in Ops, s \in Slot, d \in Device \cup {Current}, n \in 0..Launches :
        [l EXCEPT !.op = op, !.slot = s, !.arg = d, !.left = n] \in Locals
  OBVIOUS
<1>2. \A m, n \in 0..Launches : [l EXCEPT !.left = m, !.done = n] \in Locals
  OBVIOUS
<1>3. \A a \in Module, c \in Device \cup {Broken}, d \in Device \cup {Current} :
        /\ [l EXCEPT !.aot = a, !.cur = c, !.arg = d] \in Locals
        /\ [l EXCEPT !.aot = a, !.cur = c] \in Locals
  OBVIOUS
<1>4. \A a \in Module, c \in Device \cup {Broken}, T \in SUBSET Device :
        [l EXCEPT !.aot = a, !.cur = c, !.todo = T] \in Locals
  OBVIOUS
<1>5. \A d \in Device : [l EXCEPT !.arg = d] \in Locals
  OBVIOUS
<1>6. \A T \in SUBSET Device, e \in Status : [l EXCEPT !.todo = T, !.status = e] \in Locals
  OBVIOUS
<1>7. \A e \in Status : [l EXCEPT !.status = e] \in Locals
  OBVIOUS
<1> QED
  BY <1>1, <1>2, <1>3, <1>4, <1>5, <1>6, <1>7

\* A thread's locals between calls.
LEMMA NoLocalsFacts ==
  NoLocals \in Locals /\ NoLocals.op = "none" /\ NoLocals.done = 0
<1>1. (CHOOSE s \in Slot : TRUE) \in Slot
  BY ConstantsAssumption
<1> QED
  BY <1>1, ConstantsAssumption DEF NoLocals, NoModule, Status, Locals

\* What a thread sets its locals to is what they are, and it sets no other's.
LEMMA LocalsSet ==
  ASSUME TypeOK, NEW t \in Thread, NEW l \in Locals, SetLocals(t, l)
  PROVE  /\ loc' \in [Thread -> Locals]
         /\ loc'[t] = l
         /\ \A u \in Thread : u # t => loc'[u] = loc[u]
BY DEF TypeOK, SetLocals

\* The locks a thread gives back.
LEMMA Released ==
  ASSUME TypeOK, NEW t \in Thread, Release(t)
  PROVE  /\ writer' \in Thread \cup {NoThread} /\ readers' \subseteq Thread
         /\ mutex' \in [Module -> Thread \cup {NoThread}]
BY DEF TypeOK, Release

\* A function ends.
LEMMA Returned ==
  ASSUME TypeOK, NEW t \in Thread, NEW e \in Status, Return(t, e)
  PROVE  /\ writer' \in Thread \cup {NoThread} /\ readers' \subseteq Thread
         /\ mutex' \in [Module -> Thread \cup {NoThread}]
         /\ pc' = [pc EXCEPT ![t] = "idle"]
         /\ loc' \in [Thread -> Locals] /\ ret' \in [Thread -> Returns]
<1>1. [op |-> loc[t].op, aot |-> loc[t].aot, status |-> e, done |-> loc[t].done] \in Returns
  BY DEF TypeOK, Locals, Returns
<1>2. ret' \in [Thread -> Returns] /\ pc' = [pc EXCEPT ![t] = "idle"]
  BY <1>1 DEF TypeOK, Return, End
<1>3. loc' \in [Thread -> Locals]
  BY NoLocalsFacts, LocalsSet DEF Return, End
<1> QED
  BY <1>2, <1>3, Released DEF Return

\* An entry's launch ends, and the entry with its last one.
LEMMA LaunchEnds ==
  ASSUME TypeOK, Latching, NEW t \in Thread, NEW e \in Status, Launched(t, e),
         loc[t].op = "launch", pc[t] # "idle"
  PROVE  /\ writer' \in Thread \cup {NoThread} /\ readers' \subseteq Thread
         /\ mutex' \in [Module -> Thread \cup {NoThread}]
         /\ pc' = [pc EXCEPT ![t] = "rdlock"] \/ pc' = [pc EXCEPT ![t] = "idle"]
         /\ loc' \in [Thread -> Locals] /\ ret' \in [Thread -> Returns]
         /\ latch' \in [Thread -> Status]
<1> DEFINE ok == IF e = "ok" THEN 1 ELSE 0
<1>1. Record(t, e) \in Status
  BY DEF TypeOK, Record, Latched, LatchOf
<1>2. latch' \in [Thread -> Status]
  BY <1>1 DEF TypeOK, Launched, Latch, LatchOf, Status
<1>3. /\ loc[t] \in Locals /\ loc[t].left \in 0..Launches
      /\ loc[t].done \in 0..Launches /\ loc[t].aot \in Module \cup {NoModule}
  BY DEF TypeOK, Locals
<1>4. loc[t].done + ok \in 0..Launches /\ loc[t].left - 1 \in 0..Launches
  BY <1>3, ConstantsAssumption DEF Latching
<1>5. [loc[t] EXCEPT !.left = @ - 1, !.done = @ + ok] \in Locals
  BY <1>3, <1>4, LocalsExcept
<1>6. loc' \in [Thread -> Locals]
  BY <1>5, NoLocalsFacts, LocalsSet DEF Launched
<1>7. [op |-> "launch", aot |-> loc[t].aot, status |-> Record(t, e), done |-> loc[t].done + ok]
        \in Returns
  BY <1>1, <1>3, <1>4 DEF Returns, Ops
<1>8. /\ ret' \in [Thread -> Returns]
      /\ pc' = [pc EXCEPT ![t] = "rdlock"] \/ pc' = [pc EXCEPT ![t] = "idle"]
  BY <1>7 DEF TypeOK, Launched, Goto
<1> QED
  BY <1>2, <1>6, <1>8, Released DEF Launched

\* A thread about to make a module is counted for.
LEMMA RoomForOne ==
  ASSUME TypeOK, Counted, InOp, NEW t \in Thread, pc[t] = "create"
  PROVE  made + 1 \in Module /\ made + 1 <= MaxCalls
<1>1. t \in Makers
  BY DEF Makers, InOp, OpFits
<1>2. Cardinality(Makers) \in Nat /\ Cardinality(Makers) # 0
  BY <1>1, FS_CardinalityType, FS_EmptySet DEF Counted
<1> QED
  BY <1>2, ConstantsAssumption DEF Counted, TypeOK, Module

\* What a call between two steps knows of its module.
LEMMA Using ==
  ASSUME Inv, NEW t \in Thread
  PROVE  /\ loc[t] \in Locals
         /\ loc[t].aot \in Module \cup {NoModule} /\ loc[t].slot \in Slot
         /\ loc[t].arg \in Device \cup {Current} /\ loc[t].cur \in Device \cup {Broken}
         /\ loc[t].todo \in SUBSET Device /\ loc[t].status \in Status
         /\ loc[t].left \in 0..Launches /\ loc[t].done \in 0..Launches
         /\ pc[t] \in Users \cup Enders =>
              loc[t].aot \in live /\ loc[t].aot \in Module /\ loc[t].aot \in 1..made
<1>1. loc[t] \in Locals
  BY DEF Inv, TypeOK
<1>2. pc[t] \in Users \cup Enders =>
        loc[t].aot \in live /\ loc[t].aot \in Module /\ loc[t].aot \in 1..made
  BY DEF Inv, TypeOK, Kept, Owned
<1> QED
  BY <1>1, <1>2 DEF Locals

\* A load or unload of a binary changes one count.
LEMMA ResidentSet ==
  ASSUME TypeOK, NEW a \in Module, NEW d \in Device, NEW n \in Nat,
         resident' = [resident EXCEPT ![a][d] = n]
  PROVE  /\ resident' \in [Module -> [Device -> Nat]]
         /\ resident'[a][d] = n
         /\ \A m \in Module, e \in Device : m # a \/ e # d => resident'[m][e] = resident[m][e]
BY DEF TypeOK

LEMMA Typed == Inv /\ [Next]_vars => TypeOK'
<1> SUFFICES ASSUME Inv, [Next]_vars PROVE TypeOK'
  OBVIOUS
<1>1. ASSUME NEW t \in Thread, NEW d \in Device, UseDevice(t, d) PROVE TypeOK'
  BY <1>1 DEF Inv, TypeOK, UseDevice, SelectDevice, lockVars, moduleVars, gpuVars, callVars
<1>2. ASSUME NEW t \in Thread, NEW op \in Ops, NEW s \in Slot, NEW d \in Device \cup {Current},
             Call(t, op, s, d)
      PROVE  TypeOK'
  <2>1. loc' \in [Thread -> Locals]
    <3>1. Launches \in 0..Launches
      BY ConstantsAssumption
    <3> QED
      BY <1>2, <3>1, NoLocalsFacts, LocalsExcept, LocalsSet DEF Call, Inv
  <2>2. latch' \in [Thread -> Status]
    BY <1>2 DEF Inv, TypeOK, Call, Latch, LatchOf, Status
  <2>3. pc' \in [Thread -> {"idle", "wrlock", "rdlock", "create"} \cup Ops \cup Users \cup Enders]
    BY <1>2 DEF Inv, TypeOK, Call, Goto
  <2>4. calls' \in 0..MaxCalls
    BY <1>2, ConstantsAssumption DEF Inv, TypeOK, Call
  <2> QED
    BY <1>2, <2>1, <2>2, <2>3, <2>4 DEF Inv, TypeOK, Call, Goto, lockVars, moduleVars, gpuVars
<1>3. ASSUME NEW t \in Thread, WriteLock(t) PROVE TypeOK'
  BY <1>3 DEF Inv, TypeOK, WriteLock, Goto, moduleVars, gpuVars, InOp, OpFits, Ops
<1>4. ASSUME NEW t \in Thread, ReadLock(t) PROVE TypeOK'
  BY <1>4 DEF Inv, TypeOK, ReadLock, Goto, moduleVars, gpuVars, InOp, OpFits, Ops
<1>5. ASSUME NEW t \in Thread, InitCheck(t) PROVE TypeOK'
  <2>1. CASE Return(t, "ok")
    BY <1>5, <2>1, Returned DEF Inv, TypeOK, InitCheck, Status, moduleVars, gpuVars
  <2>2. CASE ~Return(t, "ok")
    BY <1>5, <2>2 DEF Inv, TypeOK, InitCheck, Goto, lockVars, moduleVars, gpuVars
  <2> QED
    BY <2>1, <2>2
<1>6. ASSUME NEW t \in Thread, Create(t) PROVE TypeOK'
  <2>1. /\ made' \in 0..MaxCalls /\ live' \subseteq Module
        /\ slot' \in [Slot -> Module \cup {NoModule}]
    <3>1. made + 1 \in Module /\ made + 1 \in 0..MaxCalls /\ loc[t].slot \in Slot
      BY <1>6, RoomForOne, Using DEF Inv, TypeOK, Create
    <3> QED
      BY <1>6, <3>1 DEF Inv, TypeOK, Create
  <2>2. \E e \in Status : Return(t, e)
    BY <1>6 DEF Create, Status
  <2> QED
    BY <1>6, <2>1, <2>2, Returned DEF Inv, TypeOK, Create, gpuVars
<1>7. ASSUME NEW t \in Thread, LoadStart(t) PROVE TypeOK'
  <2>1. CASE \E e \in Status : Return(t, e)
    BY <1>7, <2>1, Returned DEF Inv, TypeOK, LoadStart, moduleVars, gpuVars
  <2>2. CASE ~ \E e \in Status : Return(t, e)
    <3>1. /\ slot[loc[t].slot] \in Module /\ device[t] \in Device
          /\ loc[t].arg \in Device \cup {Current} /\ loc[t] \in Locals
      BY <1>7, <2>2 DEF LoadStart, Status, Inv, TypeOK, Locals
    <3>2. loc' \in [Thread -> Locals]
      BY <1>7, <2>2, <3>1, LocalsExcept, LocalsSet DEF LoadStart, Status, Inv
    <3> QED
      BY <1>7, <2>2, <3>2 DEF Inv, TypeOK, LoadStart, Goto, Status, Users, lockVars, moduleVars, gpuVars
  <2> QED
    BY <2>1, <2>2
<1>8. ASSUME NEW t \in Thread, MutexLock(t) PROVE TypeOK'
  BY <1>8 DEF Inv, TypeOK, MutexLock, Goto, moduleVars, gpuVars, Users
<1>9. ASSUME NEW t \in Thread, LoadFind(t) PROVE TypeOK'
  <2>1. device' \in [Thread -> Device \cup {Broken}]
    BY <1>9 DEF LoadFind, SelectDevice, Restored, Inv, TypeOK, Locals, Kept, Placed, PlacedAt
  <2>2. CASE \E e \in Status : Return(t, e)
    BY <1>9, <2>1, <2>2, Returned DEF Inv, TypeOK, LoadFind, moduleVars, gpuVars
  <2>3. CASE ~ \E e \in Status : Return(t, e)
    BY <1>9, <2>1, <2>3 DEF Inv, TypeOK, LoadFind, Goto, Status, Users, lockVars, moduleVars, gpuVars
  <2> QED
    BY <2>2, <2>3
<1>10. ASSUME NEW t \in Thread, LoadData(t) PROVE TypeOK'
  <2>1. device' \in [Thread -> Device \cup {Broken}] /\ resident' \in [Module -> [Device -> Nat]]
    <3>1. loc[t].aot \in Module /\ loc[t].arg \in Device /\ loc[t].cur \in Device \cup {Broken}
      BY <1>10, Using DEF LoadData, Inv, Kept, Placed, PlacedAt, Users
    <3>2. device' \in [Thread -> Device \cup {Broken}]
      BY <1>10, <3>1 DEF LoadData, SelectDevice, Inv, TypeOK
    <3>3. resident[loc[t].aot][loc[t].arg] + 1 \in Nat
      BY <3>1 DEF Inv, TypeOK
    <3> QED
      <4>1. \/ resident' = resident
            \/ resident' = [resident EXCEPT ![loc[t].aot][loc[t].arg]
                             = resident[loc[t].aot][loc[t].arg] + 1]
        BY <1>10 DEF LoadData
      <4> QED
        BY <3>1, <3>2, <3>3, <4>1, ResidentSet DEF Inv, TypeOK
  <2>2. CASE \E e \in Status : Return(t, e)
    BY <1>10, <2>1, <2>2, Returned DEF Inv, TypeOK, LoadData, moduleVars
  <2>3. CASE ~ \E e \in Status : Return(t, e)
    BY <1>10, <2>1, <2>3 DEF Inv, TypeOK, LoadData, Goto, Status, Users, lockVars, moduleVars
  <2> QED
    BY <2>2, <2>3
<1>11. ASSUME NEW t \in Thread, Insert(t) PROVE TypeOK'
  <2>1. devices' \in [Module -> SUBSET Device]
    BY <1>11 DEF Insert, Inv, TypeOK, Kept, Placed, PlacedAt
  <2> QED
    BY <1>11, <2>1, Returned DEF Inv, TypeOK, Insert, Status, gpuVars
<1>12. ASSUME NEW t \in Thread, UnloadStart(t) PROVE TypeOK'
  <2>1. CASE Return(t, "ok")
    BY <1>12, <2>1, Returned DEF Inv, TypeOK, UnloadStart, Status, gpuVars
  <2>2. CASE ~Return(t, "ok")
    <3>1. /\ slot[loc[t].slot] \in Module /\ loc[t] \in Locals
          /\ device[t] \in Device \cup {Broken} /\ devices[slot[loc[t].slot]] \in SUBSET Device
      BY <1>12, <2>2 DEF UnloadStart, Inv, TypeOK, Locals
    <3>2. loc' \in [Thread -> Locals]
      BY <1>12, <2>2, <3>1, LocalsExcept, LocalsSet DEF UnloadStart, Inv
    <3> QED
      BY <1>12, <2>2, <3>2 DEF Inv, TypeOK, UnloadStart, Goto, Enders, lockVars, gpuVars
  <2> QED
    BY <2>1, <2>2
<1>13. ASSUME NEW t \in Thread, UnloadSet(t) PROVE TypeOK'
  <2>1. loc[t] \in Locals /\ loc[t].todo \in SUBSET Device
    BY DEF Inv, TypeOK, Locals
  <2>2. loc' \in [Thread -> Locals]
    BY <1>13, <2>1, LocalsExcept, LocalsSet DEF UnloadSet, Inv, Status
  <2> QED
    BY <1>13, <2>1, <2>2 DEF Inv, TypeOK, UnloadSet, Goto, SelectDevice, Enders, lockVars, moduleVars, gpuVars
<1>14. ASSUME NEW t \in Thread, UnloadSync(t) PROVE TypeOK'
  <2>1. loc' \in [Thread -> Locals]
    BY <1>14, LocalsExcept, LocalsSet DEF UnloadSync, Inv, TypeOK, Status
  <2> QED
    BY <1>14, <2>1 DEF Inv, TypeOK, UnloadSync, Goto, Enders, lockVars, moduleVars
<1>15. ASSUME NEW t \in Thread, UnloadModule(t) PROVE TypeOK'
  <2>1. /\ loc[t] \in Locals /\ loc[t].todo \in SUBSET Device /\ loc[t].status \in Status
        /\ loc[t].aot \in Module /\ loc[t].arg \in Device /\ resident[loc[t].aot][loc[t].arg] = 1
    <3>1. pc[t] = "hipunload"
      BY <1>15 DEF UnloadModule
    <3>2. loc[t].arg \in Device /\ loc[t].arg \in loc[t].todo
      BY <3>1 DEF Inv, Kept, Placed, PlacedAt
    <3> QED
      BY <3>1, <3>2, Using DEF Inv, Kept, Loaded, PartlyUnloaded, Enders
  <2>2. loc' \in [Thread -> Locals]
    BY <1>15, <2>1, LocalsExcept, LocalsSet DEF UnloadModule, FirstStatus, Inv, Status
  <2>3. resident' \in [Module -> [Device -> Nat]]
    BY <1>15, <2>1 DEF UnloadModule, Inv, TypeOK
  <2> QED
    BY <1>15, <2>2, <2>3 DEF Inv, TypeOK, UnloadModule, Goto, Enders, lockVars, moduleVars
<1>16. ASSUME NEW t \in Thread, UnloadDone(t) PROVE TypeOK'
  <2>1. loc[t].status \in Status /\ loc[t].cur \in Device \cup {Broken}
    BY DEF Inv, TypeOK, Locals
  <2> QED
    BY <1>16, <2>1, Returned DEF Inv, TypeOK, UnloadDone, SelectDevice, Restored, gpuVars
<1>17. ASSUME NEW t \in Thread, LaunchStart(t) PROVE TypeOK'
  <2>1. loc[t].op = "launch" /\ pc[t] # "idle"
    BY <1>17 DEF LaunchStart, Inv, InOp, OpFits
  <2>2. CASE \E e \in Status : Launched(t, e)
    BY <1>17, <2>1, <2>2, LaunchEnds DEF Inv, TypeOK, LaunchStart, moduleVars, gpuVars
  <2>3. CASE ~ \E e \in Status : Launched(t, e)
    <3>1. slot[loc[t].slot] \in Module /\ device[t] \in Device /\ loc[t] \in Locals
      BY <1>17, <2>3 DEF LaunchStart, Status, Inv, TypeOK, Locals
    <3>2. loc' \in [Thread -> Locals]
      BY <1>17, <2>3, <3>1, LocalsExcept, LocalsSet DEF LaunchStart, Status, Inv
    <3> QED
      BY <1>17, <2>3, <3>2 DEF Inv, TypeOK, LaunchStart, Goto, Status, Users, lockVars, moduleVars, gpuVars
  <2> QED
    BY <2>2, <2>3
<1>18. ASSUME NEW t \in Thread, GetFunction(t) PROVE TypeOK'
  <2>1. loc[t].op = "launch" /\ pc[t] # "idle"
    BY <1>18 DEF GetFunction, Inv, InOp, OpFits
  <2>2. functions' \in [Module -> SUBSET Device]
    BY <1>18 DEF GetFunction, Inv, TypeOK
  <2>3. CASE \E e \in Status : Launched(t, e)
    BY <1>18, <2>1, <2>2, <2>3, LaunchEnds DEF Inv, TypeOK, GetFunction, gpuVars
  <2>4. CASE ~ \E e \in Status : Launched(t, e)
    BY <1>18, <2>2, <2>4 DEF Inv, TypeOK, GetFunction, Goto, Status, Users, gpuVars
  <2> QED
    BY <2>3, <2>4
<1>19. ASSUME NEW t \in Thread, Submit(t) PROVE TypeOK'
  <2>1. loc[t].op = "launch" /\ pc[t] # "idle"
    BY <1>19 DEF Submit, Inv, InOp, OpFits
  <2>2. running' \subseteq Module \X Device
    <3>1. loc[t].aot \in Module /\ loc[t].cur \in Device
      BY <1>19, Using DEF Submit, Inv, Kept, Placed, PlacedAt, Users
    <3> QED
      BY <1>19, <3>1 DEF Submit, Inv, TypeOK
  <2>3. \E e \in Status : Launched(t, e)
    BY <1>19 DEF Submit, Status
  <2> QED
    BY <1>19, <2>1, <2>2, <2>3, LaunchEnds DEF Inv, TypeOK, Submit, moduleVars
<1>20. ASSUME NEW r \in running, KernelsEnd(r) PROVE TypeOK'
  BY <1>20 DEF Inv, TypeOK, KernelsEnd, lockVars, moduleVars, callVars
<1>21. CASE UNCHANGED vars
  BY <1>21 DEF Inv, TypeOK, vars, lockVars, moduleVars, gpuVars, callVars
<1> QED
  BY <1>1, <1>2, <1>3, <1>4, <1>5, <1>6, <1>7, <1>8, <1>9, <1>10, <1>11, <1>12, <1>13,
     <1>14, <1>15, <1>16, <1>17, <1>18, <1>19, <1>20, <1>21 DEF Next, Step

-----------------------------------------------------------------------------
(* Where the threads are, and the locks.                                   *)

\* The other threads are where they were.
OthersStay(t) ==
  \A u \in Thread : u # t => pc'[u] = pc[u] /\ loc'[u] = loc[u] /\ ret'[u] = ret[u]

LEMMA ReturnStays ==
  ASSUME TypeOK, NEW t \in Thread, NEW e \in Status, Return(t, e)
  PROVE  /\ OthersStay(t) /\ pc'[t] = "idle" /\ loc'[t] = NoLocals
         /\ ret'[t] = [op |-> loc[t].op, aot |-> loc[t].aot, status |-> e, done |-> loc[t].done]
BY DEF TypeOK, OthersStay, Return, End, SetLocals

LEMMA ReturnSays ==
  ASSUME TypeOK, NEW t \in Thread, NEW e \in Status, Return(t, e)
  PROVE  /\ ret'[t].op = loc[t].op /\ ret'[t].aot = loc[t].aot /\ ret'[t].status = e
         /\ ret'[t].done = loc[t].done
<1>1. ret'[t] = [op |-> loc[t].op, aot |-> loc[t].aot, status |-> e, done |-> loc[t].done]
  BY ReturnStays
<1> QED
  BY <1>1

LEMMA LaunchedStays ==
  ASSUME TypeOK, NEW t \in Thread, NEW e \in Status, Launched(t, e)
  PROVE  /\ OthersStay(t)
         /\ \/ pc'[t] = "rdlock" /\ loc'[t].op = loc[t].op /\ ret'[t] = ret[t]
            \/ pc'[t] = "idle" /\ ret'[t].op = "launch"
<1>1. loc[t] \in Locals
  BY DEF TypeOK
<1>2. OthersStay(t)
  BY DEF TypeOK, OthersStay, Launched, Goto, SetLocals
<1>3. \/ /\ Goto(t, "rdlock")
         /\ \E m, n : SetLocals(t, [loc[t] EXCEPT !.left = m, !.done = n])
      \/ /\ pc' = [pc EXCEPT ![t] = "idle"]
         /\ \E d : ret' = [ret EXCEPT ![t] = [op |-> "launch", aot |-> loc[t].aot,
                                              status |-> Record(t, e), done |-> d]]
  BY DEF Launched
<1>4. ASSUME NEW m, NEW n PROVE [loc[t] EXCEPT !.left = m, !.done = n].op = loc[t].op
  BY <1>1 DEF Locals
<1>5. CASE /\ Goto(t, "rdlock")
           /\ \E m, n : SetLocals(t, [loc[t] EXCEPT !.left = m, !.done = n])
  <2>1. PICK m, n : loc' = [loc EXCEPT ![t] = [loc[t] EXCEPT !.left = m, !.done = n]]
    BY <1>5 DEF SetLocals
  <2>2. loc'[t] = [loc[t] EXCEPT !.left = m, !.done = n]
    BY <2>1 DEF TypeOK
  <2> QED
    BY <1>2, <1>4, <1>5, <2>2 DEF TypeOK, Goto
<1>6. CASE /\ pc' = [pc EXCEPT ![t] = "idle"]
           /\ \E d : ret' = [ret EXCEPT ![t] = [op |-> "launch", aot |-> loc[t].aot,
                                                status |-> Record(t, e), done |-> d]]
  BY <1>2, <1>6 DEF TypeOK
<1> QED
  BY <1>3, <1>5, <1>6

LEMMA GotoStays ==
  ASSUME TypeOK, NEW t \in Thread, NEW l, Goto(t, l),
         UNCHANGED loc \/ \E x : SetLocals(t, x)
  PROVE  OthersStay(t) /\ pc'[t] = l /\ ret'[t] = ret[t]
BY DEF TypeOK, OthersStay, Goto, SetLocals

\* A thread gives its locks back.
LEMMA ReleaseLocks ==
  ASSUME Inv, NEW t \in Thread, OthersStay(t), Release(t),
         pc'[t] \notin Writing \cup Reading \cup Locking
  PROVE  Locked'
<1> USE ConstantsAssumption DEF Inv, TypeOK, OthersStay, Release
<1>1. ASSUME NEW u \in Thread PROVE writer' = u <=> pc'[u] \in Writing
  BY <1>1 DEF Locked
<1>2. ASSUME NEW u \in Thread PROVE u \in readers' <=> pc'[u] \in Reading
  BY <1>2 DEF Locked
<1>3. writer' # NoThread => readers' = {}
  BY DEF Locked
<1>4. ASSUME NEW u \in Thread, NEW m \in Module
      PROVE  mutex'[m] = u <=> pc'[u] \in Locking /\ loc'[u].aot = m
  BY <1>4 DEF Locked
<1> QED
  BY <1>1, <1>2, <1>3, <1>4 DEF Locked

\* A thread goes on with the locks it has.
LEMMA KeepLocks ==
  ASSUME Inv, NEW t \in Thread, OthersStay(t), UNCHANGED lockVars,
         pc'[t] \in Writing <=> pc[t] \in Writing,
         pc'[t] \in Reading <=> pc[t] \in Reading,
         pc'[t] \in Locking <=> pc[t] \in Locking,
         pc[t] \in Locking => loc'[t].aot = loc[t].aot
  PROVE  Locked'
<1> USE DEF OthersStay, lockVars
<1>1. ASSUME NEW u \in Thread PROVE writer' = u <=> pc'[u] \in Writing
  BY <1>1 DEF Inv, Locked
<1>2. ASSUME NEW u \in Thread PROVE u \in readers' <=> pc'[u] \in Reading
  BY <1>2 DEF Inv, Locked
<1>3. writer' # NoThread => readers' = {}
  BY DEF Inv, Locked
<1>4. ASSUME NEW u \in Thread, NEW m \in Module
      PROVE  mutex'[m] = u <=> pc'[u] \in Locking /\ loc'[u].aot = m
  BY <1>4 DEF Inv, Locked
<1> QED
  BY <1>1, <1>2, <1>3, <1>4 DEF Locked

\* What a step sets the locals to, and that they were locals before.
LEMMA SetIs ==
  ASSUME TypeOK, NEW t \in Thread, NEW l, SetLocals(t, l)
  PROVE  loc'[t] = l /\ loc[t] \in Locals
BY DEF TypeOK, SetLocals

\* What a step leaves of the locals.
Same(t, fields) ==
  /\ "op" \in fields => loc'[t].op = loc[t].op
  /\ "aot" \in fields => loc'[t].aot = loc[t].aot
  /\ "cur" \in fields => loc'[t].cur = loc[t].cur
  /\ "todo" \in fields => loc'[t].todo = loc[t].todo
  /\ "status" \in fields => loc'[t].status = loc[t].status
  /\ "counts" \in fields => loc'[t].left = loc[t].left /\ loc'[t].done = loc[t].done

\* A Load and a launch find their module, or return.
LoadFinds(t) ==
  /\ slot[loc[t].slot] # NoModule /\ device[t] # Broken
  /\ loc'[t].aot = slot[loc[t].slot] /\ loc'[t].cur = device[t]
  /\ loc'[t].arg = IF loc[t].arg = Current THEN device[t] ELSE loc[t].arg
LEMMA LoadStartDoes ==
  ASSUME TypeOK, NEW t \in Thread, LoadStart(t)
  PROVE  \/ Return(t, "uninit") \/ Return(t, "hip")
         \/ /\ OthersStay(t) /\ pc'[t] = "mutex" /\ ret'[t] = ret[t] /\ UNCHANGED lockVars
            /\ LoadFinds(t) /\ Same(t, {"op", "counts"})
<1> DEFINE l == [loc[t] EXCEPT !.aot = slot[loc[t].slot], !.cur = device[t],
                               !.arg = IF @ = Current THEN device[t] ELSE @]
<1>1. CASE Return(t, "uninit") \/ Return(t, "hip")
  BY <1>1
<1>2. CASE ~(Return(t, "uninit") \/ Return(t, "hip"))
  <2>1. /\ slot[loc[t].slot] # NoModule /\ device[t] # Broken
        /\ Goto(t, "mutex") /\ UNCHANGED lockVars
        /\ SetLocals(t, l)
    BY <1>2 DEF LoadStart
  <2>2. OthersStay(t) /\ pc'[t] = "mutex" /\ ret'[t] = ret[t]
    BY <2>1, GotoStays
  <2>3. loc'[t] = l /\ loc[t] \in Locals
    BY <2>1, SetIs
  <2>4. LoadFinds(t)
    BY <2>1, <2>3 DEF Locals, LoadFinds
  <2>5. Same(t, {"op", "counts"})
    BY <2>3 DEF Locals, Same
  <2> QED
    BY <2>1, <2>2, <2>4, <2>5
<1> QED
  BY <1>1, <1>2

LaunchFinds(t) ==
  /\ slot[loc[t].slot] # NoModule /\ device[t] # Broken
  /\ loc'[t].aot = slot[loc[t].slot] /\ loc'[t].cur = device[t]
LEMMA LaunchStartDoes ==
  ASSUME TypeOK, NEW t \in Thread, LaunchStart(t)
  PROVE  \/ Launched(t, "uninit") \/ Launched(t, "hip")
         \/ /\ OthersStay(t) /\ pc'[t] = "mutex" /\ ret'[t] = ret[t] /\ UNCHANGED <<lockVars, latch>>
            /\ LaunchFinds(t) /\ Same(t, {"op", "counts"})
<1> DEFINE l == [loc[t] EXCEPT !.aot = slot[loc[t].slot], !.cur = device[t]]
<1>1. CASE Launched(t, "uninit") \/ Launched(t, "hip")
  BY <1>1
<1>2. CASE ~(Launched(t, "uninit") \/ Launched(t, "hip"))
  <2>1. /\ slot[loc[t].slot] # NoModule /\ device[t] # Broken
        /\ Goto(t, "mutex") /\ UNCHANGED <<lockVars, latch>>
        /\ SetLocals(t, l)
    BY <1>2 DEF LaunchStart
  <2>2. OthersStay(t) /\ pc'[t] = "mutex" /\ ret'[t] = ret[t]
    BY <2>1, GotoStays
  <2>3. loc'[t] = l /\ loc[t] \in Locals
    BY <2>1, SetIs
  <2>4. LaunchFinds(t)
    BY <2>1, <2>3 DEF Locals, LaunchFinds
  <2>5. Same(t, {"op", "counts"})
    BY <2>3 DEF Locals, Same
  <2> QED
    BY <2>1, <2>2, <2>4, <2>5
<1> QED
  BY <1>1, <1>2

\* Unload finds a module and its devices, or returns.
UnloadFinds(t) ==
  /\ slot[loc[t].slot] # NoModule /\ loc'[t].aot = slot[loc[t].slot]
  /\ loc'[t].todo = devices[slot[loc[t].slot]]
  /\ loc'[t].cur = device[t] \/ (May("getdevice") /\ loc'[t].cur = Broken)
LEMMA UnloadStartDoes ==
  ASSUME TypeOK, NEW t \in Thread, UnloadStart(t)
  PROVE  \/ Return(t, "ok") /\ slot[loc[t].slot] = NoModule
         \/ /\ OthersStay(t) /\ pc'[t] = "each" /\ ret'[t] = ret[t] /\ UNCHANGED lockVars
            /\ UnloadFinds(t) /\ Same(t, {"op", "status"})
<1>1. CASE slot[loc[t].slot] = NoModule
  BY <1>1 DEF UnloadStart
<1>2. CASE slot[loc[t].slot] # NoModule
  <2>1. /\ Goto(t, "each") /\ UNCHANGED lockVars
        /\ \E c \in {device[t]} \cup IF May("getdevice") THEN {Broken} ELSE {} :
             SetLocals(t, [loc[t] EXCEPT !.aot = slot[loc[t].slot], !.cur = c,
                                         !.todo = devices[slot[loc[t].slot]]])
    BY <1>2 DEF UnloadStart
  <2>2. PICK c : /\ c = device[t] \/ (May("getdevice") /\ c = Broken)
                 /\ SetLocals(t, [loc[t] EXCEPT !.aot = slot[loc[t].slot], !.cur = c,
                                                !.todo = devices[slot[loc[t].slot]]])
    BY <2>1
  <2>3. OthersStay(t) /\ pc'[t] = "each" /\ ret'[t] = ret[t]
    BY <2>1, GotoStays
  <2>4. UnloadFinds(t) /\ Same(t, {"op", "status"})
    <3>1. /\ loc[t] \in Locals
          /\ loc'[t] = [loc[t] EXCEPT !.aot = slot[loc[t].slot], !.cur = c,
                                      !.todo = devices[slot[loc[t].slot]]]
      BY <2>2, SetIs
    <3>2. UnloadFinds(t)
      BY <1>2, <2>2, <3>1 DEF Locals, UnloadFinds
    <3> QED
      BY <3>1, <3>2 DEF Locals, Same
  <2> QED
    BY <2>1, <2>3, <2>4
<1> QED
  BY <1>1, <1>2

\* Unload selects a device, or gives it up with an error.
LEMMA UnloadSetDoes ==
  ASSUME TypeOK, NEW t \in Thread, UnloadSet(t)
  PROVE  /\ OthersStay(t) /\ ret'[t] = ret[t] /\ UNCHANGED lockVars /\ Same(t, {"op", "aot", "cur"})
         /\ \E d \in loc[t].todo :
              \/ pc'[t] = "sync" /\ loc'[t].arg = d /\ Same(t, {"todo", "status"})
              \/ pc'[t] = "each" /\ loc'[t].todo = loc[t].todo \ {d} /\ loc'[t].status = "hip"
<1>1. PICK d \in loc[t].todo :
        \/ Goto(t, "sync") /\ SetLocals(t, [loc[t] EXCEPT !.arg = d])
        \/ /\ UNCHANGED <<pc, ret>>
           /\ SetLocals(t, [loc[t] EXCEPT !.todo = @ \ {d}, !.status = "hip"])
  BY DEF UnloadSet
<1>2. UNCHANGED lockVars /\ pc[t] = "each"
  BY DEF UnloadSet
<1>3. CASE Goto(t, "sync") /\ SetLocals(t, [loc[t] EXCEPT !.arg = d])
  <2>1. OthersStay(t) /\ pc'[t] = "sync" /\ ret'[t] = ret[t]
    BY <1>3, GotoStays
  <2>2. /\ loc'[t].arg = d /\ Same(t, {"op", "aot", "cur"}) /\ Same(t, {"todo", "status"})
    BY <1>3, SetIs DEF Locals, Same
  <2> QED
    BY <1>2, <2>1, <2>2
<1>4. CASE /\ UNCHANGED <<pc, ret>>
           /\ SetLocals(t, [loc[t] EXCEPT !.todo = @ \ {d}, !.status = "hip"])
  <2>1. OthersStay(t)
    BY <1>4 DEF OthersStay, SetLocals, TypeOK
  <2>2. loc'[t].todo = loc[t].todo \ {d} /\ loc'[t].status = "hip" /\ Same(t, {"op", "aot", "cur"})
    <3>1. loc'[t] = [loc[t] EXCEPT !.todo = @ \ {d}, !.status = "hip"] /\ loc[t] \in Locals
      BY <1>4, SetIs
    <3> QED
      BY <3>1 DEF Locals, Same
  <2> QED
    BY <1>2, <1>4, <2>1, <2>2
<1> QED
  BY <1>1, <1>3, <1>4

LEMMA UnloadSyncDoes ==
  ASSUME TypeOK, NEW t \in Thread, UnloadSync(t)
  PROVE  /\ OthersStay(t) /\ pc'[t] = "hipunload" /\ ret'[t] = ret[t] /\ UNCHANGED lockVars
         /\ Same(t, {"op", "aot", "cur", "todo"}) /\ loc'[t].arg = loc[t].arg
         /\ loc'[t].status \in {loc[t].status, "hip"}
<1>1. Goto(t, "hipunload") /\ UNCHANGED lockVars
  BY DEF UnloadSync
<1>2. loc' = loc \/ SetLocals(t, [loc[t] EXCEPT !.status = "hip"])
  BY DEF UnloadSync
<1>3. OthersStay(t) /\ pc'[t] = "hipunload" /\ ret'[t] = ret[t]
  BY <1>1, <1>2, GotoStays
<1>4. /\ Same(t, {"op", "aot", "cur", "todo"}) /\ loc'[t].arg = loc[t].arg
      /\ loc'[t].status \in {loc[t].status, "hip"}
  BY <1>2, SetIs DEF Locals, Same
<1> QED
  BY <1>1, <1>3, <1>4

LEMMA UnloadModuleDoes ==
  ASSUME TypeOK, NEW t \in Thread, UnloadModule(t)
  PROVE  /\ OthersStay(t) /\ pc'[t] = "each" /\ ret'[t] = ret[t] /\ UNCHANGED lockVars
         /\ Same(t, {"op", "aot", "cur"})
         /\ loc'[t].todo = loc[t].todo \ {loc[t].arg}
         /\ LET n == resident[loc[t].aot][loc[t].arg] IN
            \/ /\ resident' = [resident EXCEPT ![loc[t].aot][loc[t].arg] = n - 1]
               /\ Same(t, {"status"})
            \/ /\ resident' = [resident EXCEPT ![loc[t].aot][loc[t].arg] = n]
               /\ loc'[t].status # "ok"
<1>1. Goto(t, "each") /\ UNCHANGED lockVars
  BY DEF UnloadModule
<1>2. PICK err \in {"ok", "hip"} :
        /\ resident' = [resident EXCEPT ![loc[t].aot][loc[t].arg] = IF err = "ok" THEN @ - 1 ELSE @]
        /\ SetLocals(t, [loc[t] EXCEPT !.todo = @ \ {loc[t].arg}, !.status = FirstStatus(@, err)])
  BY DEF UnloadModule
<1>3. OthersStay(t) /\ pc'[t] = "each" /\ ret'[t] = ret[t]
  BY <1>1, <1>2, GotoStays
<1>4. /\ Same(t, {"op", "aot", "cur"}) /\ loc'[t].todo = loc[t].todo \ {loc[t].arg}
      /\ loc'[t].status = FirstStatus(loc[t].status, err)
  <2>1. /\ loc'[t] = [loc[t] EXCEPT !.todo = @ \ {loc[t].arg}, !.status = FirstStatus(@, err)]
        /\ loc[t] \in Locals
    BY <1>2, SetIs
  <2> QED
    BY <2>1 DEF Locals, Same
<1>5. CASE err = "ok"
  BY <1>1, <1>2, <1>3, <1>4, <1>5 DEF FirstStatus, Same
<1>6. CASE err = "hip"
  BY <1>1, <1>2, <1>3, <1>4, <1>6 DEF FirstStatus
<1> QED
  BY <1>2, <1>5, <1>6

\* Where a thread goes fits the function it is in.
LEMMA InOpKept ==
  ASSUME Inv, NEW t \in Thread, OthersStay(t), OpFits(pc'[t], loc'[t].op)
  PROVE  InOp'
BY DEF Inv, InOp, OthersStay

LEMMA IdleFits == \A op : OpFits("idle", op)
BY DEF OpFits, Enders

\* The classes of places.
LEMMA Places ==
  /\ "idle" \notin Writing \cup Reading \cup Locking
  /\ {"wrlock", "rdlock"} \cap (Writing \cup Reading \cup Locking) = {}
  /\ {"init", "create", "unload", "each", "sync", "hipunload"} = Writing
  /\ {"load", "launch", "mutex", "find", "loaddata", "insert", "function", "submit"} = Reading
BY DEF Writing, Reading, Locking, Users, Enders

\* Every return, early or late, leaves a thread without a lock.
LEMMA ReturnLocks ==
  ASSUME Inv, NEW t \in Thread, NEW e \in Status, Return(t, e)
  PROVE  InOp' /\ Locked' /\ OthersStay(t) /\ pc'[t] = "idle"
<1>1. OthersStay(t) /\ pc'[t] = "idle" /\ Release(t)
  BY ReturnStays DEF Inv, Return
<1> QED
  BY <1>1, InOpKept, IdleFits, Places, ReleaseLocks

LEMMA LaunchedLocks ==
  ASSUME Inv, NEW t \in Thread, NEW e \in Status, Launched(t, e), loc[t].op = "launch"
  PROVE  InOp' /\ Locked' /\ OthersStay(t) /\ pc'[t] \in {"idle", "rdlock"}
<1>1. /\ OthersStay(t) /\ Release(t) /\ pc'[t] \in {"idle", "rdlock"}
      /\ pc'[t] = "rdlock" => loc'[t].op = loc[t].op
  BY LaunchedStays DEF Inv, Launched
<1>2. OpFits(pc'[t], loc'[t].op)
  BY <1>1, IdleFits DEF OpFits, Enders
<1> QED
  BY <1>1, <1>2, InOpKept, Places, ReleaseLocks

LEMMA StepControl ==
  ASSUME Inv, NEW t \in Thread, Step(t)
  PROVE  InOp' /\ Locked' /\ OthersStay(t)
<1> USE DEF Inv
<1>1. CASE WriteLock(t)
  <2>1. OthersStay(t) /\ pc'[t] = loc[t].op /\ loc' = loc /\ loc[t].op \in {"init", "unload"}
    BY <1>1, GotoStays DEF WriteLock, InOp, OpFits
  <2>2. Locked'
    <3>1. readers' = {} /\ readers = {} /\ writer = NoThread /\ writer' = t /\ mutex' = mutex
      BY <1>1 DEF WriteLock
    <3>2. pc[t] = "wrlock"
      BY <1>1 DEF WriteLock
    <3>3. \A u \in Thread : writer' = u <=> pc'[u] \in Writing
      BY <2>1, <3>1, Places, ConstantsAssumption DEF Locked, OthersStay
    <3>4. \A u \in Thread : u \in readers' <=> pc'[u] \in Reading
      BY <2>1, <3>1, Places DEF Locked, OthersStay
    <3>5. \A u \in Thread, m \in Module : mutex'[m] = u <=> pc'[u] \in Locking /\ loc'[u].aot = m
      BY <2>1, <3>1, <3>2, Places DEF Locked, OthersStay, Locking
    <3> QED
      BY <3>1, <3>3, <3>4, <3>5 DEF Locked
  <2> QED
    BY <2>1, <2>2, InOpKept DEF OpFits, Enders
<1>2. CASE ReadLock(t)
  <2>1. OthersStay(t) /\ pc'[t] = loc[t].op /\ loc' = loc /\ loc[t].op \in {"load", "launch"}
    BY <1>2, GotoStays DEF ReadLock, InOp, OpFits
  <2>2. Locked'
    BY <1>2, <2>1, Places DEF ReadLock, Locked, OthersStay, Writing, Reading, Locking, Users, Enders
  <2> QED
    BY <2>1, <2>2, InOpKept DEF OpFits, Enders
<1>3. CASE InitCheck(t)
  <2>1. CASE Return(t, "ok")
    BY <2>1, ReturnLocks DEF Status
  <2>2. CASE ~Return(t, "ok")
    <3>1. OthersStay(t) /\ pc[t] = "init" /\ pc'[t] = "create" /\ loc' = loc /\ UNCHANGED lockVars
      BY <1>3, <2>2, GotoStays DEF InitCheck
    <3> QED
      BY <3>1, InOpKept, KeepLocks, Places DEF InOp, OpFits, Enders, Locking
  <2> QED
    BY <2>1, <2>2
<1>4. CASE Create(t)
  BY <1>4, ReturnLocks DEF Create, Status
<1>5. CASE LoadStart(t)
  <2>1. CASE \E e \in Status : Return(t, e)
    BY <2>1, ReturnLocks
  <2>2. CASE ~ \E e \in Status : Return(t, e)
    <3>1. /\ OthersStay(t) /\ pc[t] = "load" /\ pc'[t] = "mutex" /\ UNCHANGED lockVars
          /\ loc'[t].op = loc[t].op
      BY <1>5, <2>2, LoadStartDoes DEF LoadStart, Status, Same
    <3> QED
      BY <3>1, InOpKept, KeepLocks, Places DEF InOp, OpFits, Enders, Locking
  <2> QED
    BY <2>1, <2>2
<1>6. CASE MutexLock(t)
  <2>1. /\ OthersStay(t) /\ loc' = loc /\ pc[t] = "mutex"
        /\ \/ loc[t].op = "load" /\ pc'[t] = "find"
           \/ loc[t].op = "launch" /\ pc'[t] = "function"
    BY <1>6, GotoStays DEF MutexLock, InOp, OpFits
  <2>2. /\ UNCHANGED <<writer, readers>> /\ mutex' = [mutex EXCEPT ![loc[t].aot] = t]
        /\ mutex[loc[t].aot] = NoThread /\ loc[t].aot \in Module
    BY <1>6, Using DEF MutexLock, MutexFree, Users
  <2>3. ASSUME NEW u \in Thread, NEW m \in Module
        PROVE  mutex'[m] = u <=> pc'[u] \in Locking /\ loc'[u].aot = m
    BY <2>1, <2>2, <2>3, ConstantsAssumption DEF Locked, OthersStay, Locking, TypeOK
  <2>4. Locked'
    BY <2>1, <2>2, <2>3, Places DEF Locked, OthersStay
  <2> QED
    BY <2>1, <2>4, InOpKept DEF OpFits, Enders
<1>7. CASE LoadFind(t)
  <2>1. CASE \E e \in Status : Return(t, e)
    BY <2>1, ReturnLocks
  <2>2. CASE ~ \E e \in Status : Return(t, e)
    <3>1. OthersStay(t) /\ pc[t] = "find" /\ pc'[t] = "loaddata" /\ loc' = loc /\ UNCHANGED lockVars
      BY <1>7, <2>2, GotoStays DEF LoadFind, Status
    <3> QED
      BY <3>1, InOpKept, KeepLocks, Places DEF InOp, OpFits, Enders, Locking
  <2> QED
    BY <2>1, <2>2
<1>8. CASE LoadData(t)
  <2>1. CASE \E e \in Status : Return(t, e)
    BY <2>1, ReturnLocks
  <2>2. CASE ~ \E e \in Status : Return(t, e)
    <3>1. OthersStay(t) /\ pc[t] = "loaddata" /\ pc'[t] = "insert" /\ loc' = loc /\ UNCHANGED lockVars
      BY <1>8, <2>2, GotoStays DEF LoadData, Status
    <3> QED
      BY <3>1, InOpKept, KeepLocks, Places DEF InOp, OpFits, Enders, Locking
  <2> QED
    BY <2>1, <2>2
<1>9. CASE Insert(t)
  BY <1>9, ReturnLocks DEF Insert, Status
<1>10. CASE UnloadStart(t)
  <2>1. CASE Return(t, "ok")
    BY <2>1, ReturnLocks DEF Status
  <2>2. CASE ~Return(t, "ok")
    <3>1. /\ OthersStay(t) /\ pc[t] = "unload" /\ pc'[t] = "each" /\ UNCHANGED lockVars
          /\ loc'[t].op = loc[t].op
      BY <1>10, <2>2, UnloadStartDoes DEF UnloadStart, Same
    <3> QED
      BY <3>1, InOpKept, KeepLocks, Places DEF InOp, OpFits, Enders, Locking
  <2> QED
    BY <2>1, <2>2
<1>11. CASE UnloadSet(t)
  <2>1. /\ OthersStay(t) /\ pc[t] = "each" /\ pc'[t] \in {"each", "sync"} /\ UNCHANGED lockVars
        /\ loc'[t].op = loc[t].op
    BY <1>11, UnloadSetDoes DEF UnloadSet, Same
  <2> QED
    BY <2>1, InOpKept, KeepLocks, Places DEF InOp, OpFits, Enders, Locking
<1>12. CASE UnloadSync(t)
  <2>1. /\ OthersStay(t) /\ pc[t] = "sync" /\ pc'[t] = "hipunload" /\ UNCHANGED lockVars
        /\ loc'[t].op = loc[t].op
    BY <1>12, UnloadSyncDoes DEF UnloadSync, Same
  <2> QED
    BY <2>1, InOpKept, KeepLocks, Places DEF InOp, OpFits, Enders, Locking
<1>13. CASE UnloadModule(t)
  <2>1. /\ OthersStay(t) /\ pc[t] = "hipunload" /\ pc'[t] = "each" /\ UNCHANGED lockVars
        /\ loc'[t].op = loc[t].op
    BY <1>13, UnloadModuleDoes DEF UnloadModule, Same
  <2> QED
    BY <2>1, InOpKept, KeepLocks, Places DEF InOp, OpFits, Enders, Locking
<1>14. CASE UnloadDone(t)
  BY <1>14, ReturnLocks, Using DEF UnloadDone
<1>15. CASE LaunchStart(t)
  <2>1. pc[t] = "launch" /\ loc[t].op = "launch"
    BY <1>15 DEF LaunchStart, InOp, OpFits
  <2>2. CASE \E e \in Status : Launched(t, e)
    BY <2>1, <2>2, LaunchedLocks
  <2>3. CASE ~ \E e \in Status : Launched(t, e)
    <3>1. /\ OthersStay(t) /\ pc'[t] = "mutex" /\ UNCHANGED lockVars /\ loc'[t].op = loc[t].op
      BY <1>15, <2>3, LaunchStartDoes DEF Status, Same
    <3> QED
      BY <2>1, <3>1, InOpKept, KeepLocks, Places DEF OpFits, Enders, Locking
  <2> QED
    BY <2>2, <2>3
<1>16. CASE GetFunction(t)
  <2>1. pc[t] = "function" /\ loc[t].op = "launch"
    BY <1>16 DEF GetFunction, InOp, OpFits
  <2>2. CASE \E e \in Status : Launched(t, e)
    BY <2>1, <2>2, LaunchedLocks
  <2>3. CASE ~ \E e \in Status : Launched(t, e)
    <3>1. /\ OthersStay(t) /\ pc'[t] = "submit" /\ loc' = loc /\ UNCHANGED <<writer, readers>>
          /\ mutex' = [mutex EXCEPT ![loc[t].aot] = NoThread]
      BY <1>16, <2>3, GotoStays DEF GetFunction, Status
    <3>2. ASSUME NEW u \in Thread, NEW m \in Module
          PROVE  mutex'[m] = u <=> pc'[u] \in Locking /\ loc'[u].aot = m
      <4>1. loc[t].aot \in Module /\ mutex[loc[t].aot] = t
        BY <2>1, Using DEF Locked, Locking, Users
      <4> QED
        BY <2>1, <3>1, <3>2, <4>1, ConstantsAssumption DEF Locked, OthersStay, Locking, TypeOK
    <3>3. Locked'
      BY <2>1, <3>1, <3>2, Places DEF Locked, OthersStay
    <3> QED
      BY <2>1, <3>1, <3>3, InOpKept DEF OpFits, Enders
  <2> QED
    BY <2>2, <2>3
<1>17. CASE Submit(t)
  <2>1. pc[t] = "submit" /\ loc[t].op = "launch"
    BY <1>17 DEF Submit, InOp, OpFits
  <2> QED
    BY <1>17, <2>1, LaunchedLocks DEF Submit, Status
<1> QED
  BY <1>1, <1>2, <1>3, <1>4, <1>5, <1>6, <1>7, <1>8, <1>9, <1>10, <1>11, <1>12, <1>13,
     <1>14, <1>15, <1>16, <1>17 DEF Step

-----------------------------------------------------------------------------
(* The modules.                                                            *)

\* While a thread holds the rwlock exclusively, no other is inside.
LEMMA WriterAlone ==
  ASSUME Inv, NEW t \in Thread, pc[t] \in Writing
  PROVE  \A u \in Thread : u # t => pc[u] \notin Writing \cup Reading
<1>1. writer = t
  BY DEF Inv, Locked
<1>2. readers = {}
  BY <1>1, ConstantsAssumption DEF Inv, Locked
<1> QED
  BY <1>1, <1>2 DEF Inv, Locked

\* While one is inside at all, nobody frees.
LEMMA ReadersKeepOut ==
  ASSUME Inv, NEW t \in Thread, pc[t] \in Reading
  PROVE  \A u \in Thread : pc[u] \notin Writing
BY ConstantsAssumption DEF Inv, Locked

\* Of the threads inside, one at a time holds a module's mutex.
LEMMA MutexAlone ==
  ASSUME Inv, NEW t \in Thread, pc[t] \in Locking, loc[t].aot \in Module
  PROVE  \A u \in Thread : u # t /\ pc[u] \in Locking => loc[u].aot # loc[t].aot
BY DEF Inv, Locked

\* What the modules are is kept by a step that leaves them alone, other than
\* that kernels may end, and that neither adds an entry nor unloads.
LEMMA QuietKeeps ==
  ASSUME Inv, NEW t \in Thread, OthersStay(t),
         UNCHANGED <<slot, live, devices, made, resident>>, running' \subseteq running,
         pc[t] # "insert", pc[t] \notin Enders, pc'[t] # "insert", pc'[t] \notin Enders,
         pc'[t] \in Users => loc'[t].aot \in live,
         PlacedAt(t)',
         ret'[t] = ret[t] \/ ret'[t].op # "unload" \/ ret'[t].aot = NoModule
  PROVE  Kept'
<1> USE DEF Inv, Kept
<1>1. Owned'
  BY DEF Owned, OthersStay
<1>2. Placed'
  <2> SUFFICES ASSUME NEW u \in Thread, u # t PROVE PlacedAt(u)'
    BY DEF Placed
  <2> QED
    BY DEF Placed, PlacedAt, OthersStay
<1>3. Loaded'
  <2>1. Fresh'
    BY DEF Loaded, Fresh
  <2>2. ASSUME NEW u \in Thread PROVE PartlyUnloaded(u)'
    BY <2>2 DEF Loaded, PartlyUnloaded, OthersStay
  <2>3. ASSUME NEW u \in Thread PROVE Freed(u)'
    BY <2>3 DEF Loaded, Freed, OthersStay
  <2> QED
    BY <2>1, <2>2, <2>3 DEF Loaded
<1>4. ListedIsLoaded'
  <2>1. Ending' = Ending
    BY DEF Ending, OthersStay
  <2>2. ASSUME NEW m, NEW d, NEW u \in Thread
        PROVE  pc'[u] = "insert" /\ loc'[u].aot = m /\ loc'[u].arg = d
                 <=> pc[u] = "insert" /\ loc[u].aot = m /\ loc[u].arg = d
    BY <2>2 DEF OthersStay
  <2> QED
    BY <2>1, <2>2 DEF ListedIsLoaded
<1>5. CodeResident'
  BY DEF CodeResident
<1>6. NothingLeaked'
  BY DEF NothingLeaked, OthersStay
<1> QED
  BY <1>1, <1>2, <1>3, <1>4, <1>5, <1>6

\* In particular by one that ends, before it has changed anything.
LEMMA LeaveKeeps ==
  ASSUME Inv, NEW t \in Thread, OthersStay(t), pc'[t] \in {"idle", "rdlock"},
         UNCHANGED <<slot, live, devices, made, resident>>, running' \subseteq running,
         pc[t] # "insert", pc[t] \notin Enders,
         ret'[t] = ret[t] \/ ret'[t].op # "unload" \/ ret'[t].aot = NoModule
  PROVE  Kept'
<1>1. PlacedAt(t)'
  BY DEF PlacedAt, Users, Enders
<1> QED
  BY <1>1, QuietKeeps DEF Users, Enders

\* Init makes a module nobody has seen.
LEMMA CreateKeeps ==
  ASSUME Inv, NEW t \in Thread, Create(t)
  PROVE  Kept'
<1> USE DEF Inv, Kept
<1>1. PICK e \in Status : Return(t, e)
  BY DEF Create, Status
<1>2. /\ OthersStay(t) /\ pc'[t] = "idle" /\ pc[t] = "create"
      /\ ret'[t].op = "init"
  <2>1. loc[t].op = "init" /\ pc[t] = "create"
    BY DEF Create, InOp, OpFits
  <2> QED
    BY <1>1, <2>1, ReturnStays, ReturnSays
<1>3. UNCHANGED <<devices, resident, running>>
  BY DEF Create, gpuVars
<1>4. CASE UNCHANGED <<slot, live, made>>
  BY <1>2, <1>3, <1>4, LeaveKeeps DEF Enders
<1>5. CASE ~ UNCHANGED <<slot, live, made>>
  <2> DEFINE n == made + 1
  <2>1. /\ made' = n /\ live' = live \cup {n} /\ slot' = [slot EXCEPT ![loc[t].slot] = n]
        /\ n \in Module /\ made \in Nat /\ loc[t].slot \in Slot
    BY <1>5, <1>2, RoomForOne, Using, ConstantsAssumption DEF Create, TypeOK
  <2>2. n \notin live /\ n \notin 1..made /\ n # NoModule
    BY <2>1 DEF Owned, NoModule
  <2>3. \A u \in Thread : pc'[u] \in Users \cup Enders \cup {"insert"} => u # t
    BY <1>2 DEF Users, Enders
  <2>4. Owned'
    <3>1. live' \subseteq 1..made'
      <4>1. live \subseteq 1..made /\ 1..made \subseteq 1..n /\ n \in 1..n
        BY <2>1 DEF Owned
      <4> QED
        BY <2>1, <4>1
    <3>2. \A q \in Slot : slot'[q] # NoModule => slot'[q] \in live'
      BY <2>1 DEF Owned, TypeOK
    <3>3. \A q, p \in Slot : slot'[q] = slot'[p] /\ slot'[q] # NoModule => q = p
      BY <2>1, <2>2 DEF Owned, TypeOK
    <3>4. \A u \in Thread : pc'[u] \in Users \cup Enders => loc'[u].aot \in live'
      BY <1>2, <2>1, <2>3 DEF Owned, OthersStay
    <3>5. \A u \in Thread, q \in Slot : pc'[u] \in Enders => slot'[q] # loc'[u].aot
      BY <1>2, <2>1, <2>2, <2>3 DEF Owned, OthersStay, TypeOK
    <3> QED
      BY <3>1, <3>2, <3>3, <3>4, <3>5 DEF Owned
  <2>5. Placed'
    <3>1. PlacedAt(t)'
      BY <1>2 DEF PlacedAt, Users, Enders
    <3>2. ASSUME NEW u \in Thread, u # t PROVE PlacedAt(u)'
      BY <1>2, <1>3, <3>2 DEF Placed, PlacedAt, OthersStay
    <3> QED
      BY <3>1, <3>2 DEF Placed
  <2>6. Loaded'
    <3>1. Fresh'
      BY <1>3, <2>1 DEF Loaded, Fresh, Module
    <3>2. ASSUME NEW u \in Thread PROVE PartlyUnloaded(u)' /\ Freed(u)'
      <4>1. CASE u = t
        BY <1>2, <4>1 DEF PartlyUnloaded, Freed, Enders
      <4>2. CASE u # t
        <5>1. PartlyUnloaded(u)'
          BY <1>2, <1>3, <4>2 DEF Loaded, PartlyUnloaded, OthersStay
        <5>2. Freed(u)'
          BY <1>2, <2>1, <2>2, <4>2 DEF Loaded, Freed, OthersStay
        <5> QED
          BY <5>1, <5>2
      <4> QED
        BY <4>1, <4>2
    <3> QED
      BY <3>1, <3>2 DEF Loaded
  <2>7. ListedIsLoaded'
    <3> SUFFICES ASSUME NEW m \in live' \ Ending', NEW d \in Device
                 PROVE  resident'[m][d] =
                          IF d \in devices'[m] \/ \E u \in Thread :
                               pc'[u] = "insert" /\ loc'[u].aot = m /\ loc'[u].arg = d
                          THEN 1 ELSE 0
      BY DEF ListedIsLoaded
    <3>1. \A u \in Thread : /\ pc'[u] = "insert" => u # t
                            /\ u # t => pc'[u] = pc[u] /\ loc'[u] = loc[u]
      BY <1>2 DEF OthersStay
    <3>2. CASE m = n
      <4>1. \A u \in Thread : ~(pc'[u] = "insert" /\ loc'[u].aot = m /\ loc'[u].arg = d)
        BY <2>2, <3>1, <3>2 DEF Owned, Users
      <4>2. devices[m] = {} /\ resident[m][d] = 0
        BY <2>1, <3>2 DEF Loaded, Fresh
      <4> QED
        BY <1>3, <4>1, <4>2
    <3>3. CASE m # n
      <4>1. m \in live /\ m \notin Ending
        BY <1>2, <2>1, <3>1, <3>3 DEF Ending, Enders
      <4>2. \A u \in Thread : pc'[u] = "insert" /\ loc'[u].aot = m /\ loc'[u].arg = d
                                <=> pc[u] = "insert" /\ loc[u].aot = m /\ loc[u].arg = d
        BY <1>2, <3>1
      <4> QED
        BY <1>3, <4>1, <4>2 DEF ListedIsLoaded
    <3> QED
      BY <3>2, <3>3
  <2>8. CodeResident'
    BY <1>3 DEF CodeResident
  <2>9. NothingLeaked'
    BY <1>2, <1>3 DEF NothingLeaked, OthersStay
  <2> QED
    BY <2>4, <2>5, <2>6, <2>7, <2>8, <2>9
<1> QED
  BY <1>4, <1>5

\* Load has the binary on one more device, and is about to say so.
LEMMA LoadDataKeeps ==
  ASSUME Inv, NEW t \in Thread, LoadData(t)
  PROVE  Kept'
<1> USE DEF Inv, Kept
<1>1. pc[t] = "loaddata" /\ UNCHANGED <<slot, live, devices, made, running>>
  BY DEF LoadData, moduleVars
<1>2. CASE Return(t, "hip") /\ UNCHANGED resident
  <2>1. OthersStay(t) /\ pc'[t] = "idle" /\ ret'[t].op = "load"
    <3>1. loc[t].op = "load" /\ "hip" \in Status
      BY <1>1 DEF Status, InOp, OpFits
    <3> QED
      BY <1>2, <3>1, ReturnStays, ReturnSays
  <2> QED
    BY <1>1, <1>2, <2>1, LeaveKeeps DEF Enders
<1>3. CASE /\ resident' = [resident EXCEPT ![loc[t].aot][loc[t].arg]
                             = resident[loc[t].aot][loc[t].arg] + 1]
           /\ Goto(t, "insert") /\ UNCHANGED <<lockVars, loc>>
  <2> DEFINE a == loc[t].aot  c == loc[t].arg
  <2>1. /\ OthersStay(t) /\ pc'[t] = "insert" /\ ret'[t] = ret[t] /\ loc' = loc
        /\ a \in live /\ a \in Module /\ a \in 1..made /\ c \in Device /\ c \notin devices[a]
    BY <1>1, <1>3, GotoStays, Using DEF Placed, PlacedAt, Users
  <2>2. /\ resident'[a][c] = resident[a][c] + 1
        /\ \A m \in Module, d \in Device : m # a \/ d # c => resident'[m][d] = resident[m][d]
    BY <1>3, <2>1, ResidentSet DEF TypeOK
  <2>3. \A u \in Thread : pc[u] \notin Enders /\ pc'[u] \notin Enders
    BY <1>1, <2>1, ReadersKeepOut, Places DEF OthersStay, Writing, Enders
  <2>4. Ending = {} /\ Ending' = {}
    BY <2>3 DEF Ending
  <2>5. \A u \in Thread : ~(pc[u] = "insert" /\ loc[u].aot = a)
    BY <1>1, <2>1, MutexAlone DEF Locking
  <2>6. resident[a][c] = 0
    BY <2>1, <2>4, <2>5 DEF ListedIsLoaded
  <2>7. Owned'
    BY <1>1, <2>1, <2>3 DEF Owned, OthersStay, Users
  <2>8. Placed'
    <3>1. PlacedAt(t)'
      BY <1>1, <2>1 DEF Placed, PlacedAt, Users, Enders
    <3>2. ASSUME NEW u \in Thread, u # t PROVE PlacedAt(u)'
      BY <1>1, <2>1, <3>2 DEF Placed, PlacedAt, OthersStay
    <3> QED
      BY <3>1, <3>2 DEF Placed
  <2>9. Loaded'
    <3>1. Fresh'
      BY <1>1, <2>1, <2>2 DEF Loaded, Fresh, TypeOK
    <3>2. \A u \in Thread : PartlyUnloaded(u)'
      BY <2>3 DEF PartlyUnloaded
    <3>3. \A u \in Thread : Freed(u)'
      BY <1>1, <2>1 DEF Loaded, Freed, OthersStay
    <3> QED
      BY <3>1, <3>2, <3>3 DEF Loaded
  <2>10. ListedIsLoaded'
    <3> SUFFICES ASSUME NEW m \in live, NEW d \in Device
                 PROVE  resident'[m][d] =
                          IF d \in devices[m] \/ \E u \in Thread :
                               pc'[u] = "insert" /\ loc[u].aot = m /\ loc[u].arg = d
                          THEN 1 ELSE 0
      BY <1>1, <2>1 DEF ListedIsLoaded
    <3>1. CASE m = a /\ d = c
      BY <2>1, <2>2, <2>6, <3>1
    <3>2. CASE ~(m = a /\ d = c)
      <4>1. \A u \in Thread : pc'[u] = "insert" /\ loc[u].aot = m /\ loc[u].arg = d
                                <=> pc[u] = "insert" /\ loc[u].aot = m /\ loc[u].arg = d
        BY <1>1, <2>1, <3>2 DEF OthersStay
      <4>2. m \in Module
        BY DEF TypeOK
      <4> QED
        BY <2>2, <2>4, <3>2, <4>1, <4>2 DEF ListedIsLoaded
    <3> QED
      BY <3>1, <3>2
  <2>11. CodeResident'
    BY <1>1, <2>1, <2>2, <2>6 DEF CodeResident, TypeOK
  <2>12. NothingLeaked'
    <3> SUFFICES ASSUME NEW u \in Thread, ret[u].op = "unload", ret[u].aot # NoModule,
                        ret[u].status = "ok", NEW d \in Device
                 PROVE  resident'[ret[u].aot][d] = 0
      BY <2>1 DEF NothingLeaked, OthersStay
    <3>1. ret[u].aot \in 1..made /\ ret[u].aot \notin live
      BY DEF Loaded, Freed
    <3>2. ret[u].aot \in Module /\ ret[u].aot # a
      BY <2>1, <3>1 DEF TypeOK, Returns
    <3>3. resident[ret[u].aot][d] = 0
      BY DEF NothingLeaked
    <3> QED
      BY <2>2, <3>2, <3>3
  <2> QED
    BY <2>7, <2>8, <2>9, <2>10, <2>11, <2>12
<1> QED
  BY <1>2, <1>3 DEF LoadData

\* Load enters the device in the list.
LEMMA InsertKeeps ==
  ASSUME Inv, NEW t \in Thread, Insert(t)
  PROVE  Kept'
<1> USE DEF Inv, Kept
<1> DEFINE a == loc[t].aot  c == loc[t].arg
<1>1. /\ pc[t] = "insert" /\ UNCHANGED <<slot, live, made, resident, running>>
      /\ loc[t].op = "load" /\ Return(t, "ok") /\ "ok" \in Status
      /\ devices' = [devices EXCEPT ![a] = devices[a] \cup {c}]
  BY DEF Insert, gpuVars, Status, InOp, OpFits
<1>2. /\ OthersStay(t) /\ pc'[t] = "idle" /\ ret'[t].op = "load"
  BY <1>1, ReturnStays, ReturnSays
<1>3. a \in live /\ a \in Module /\ a \in 1..made /\ c \in Device
  BY <1>1, Using DEF Placed, PlacedAt, Users
<1>4. \A u \in Thread : pc[u] \notin Enders /\ pc'[u] \notin Enders
  BY <1>1, <1>2, ReadersKeepOut, Places DEF OthersStay, Writing, Enders
<1>5. Ending = {} /\ Ending' = {}
  BY <1>4 DEF Ending
<1>6. \A u \in Thread : u # t /\ pc[u] \in Locking => loc[u].aot # a
  BY <1>1, <1>3, MutexAlone DEF Locking
<1>7. /\ devices'[a] = devices[a] \cup {c}
      /\ \A m \in Module : m # a => devices'[m] = devices[m]
      /\ \A m \in Module : devices[m] \subseteq devices'[m]
  BY <1>1, <1>3 DEF TypeOK
<1>8. Owned'
  BY <1>1, <1>2 DEF Owned, OthersStay, Users, Enders
<1>9. Placed'
  <2>1. PlacedAt(t)'
    BY <1>2 DEF PlacedAt, Users, Enders
  <2>2. ASSUME NEW u \in Thread, u # t PROVE PlacedAt(u)'
    <3>1. pc'[u] = pc[u] /\ loc'[u] = loc[u] /\ PlacedAt(u)
      BY <1>2, <2>2 DEF Placed, OthersStay
    <3>2. pc[u] \in Users => loc[u].aot \in Module
      BY Using
    <3>3. pc[u] \in {"loaddata", "insert"} => loc[u].arg \notin devices'[loc[u].aot]
      BY <1>6, <1>7, <2>2, <3>1, <3>2 DEF PlacedAt, Locking, Users
    <3>4. pc[u] = "submit" => loc[u].cur \in devices'[loc[u].aot]
      BY <1>7, <3>1, <3>2 DEF PlacedAt, Users
    <3> QED
      BY <1>1, <1>4, <3>1, <3>3, <3>4 DEF PlacedAt
  <2> QED
    BY <2>1, <2>2 DEF Placed
<1>10. Loaded'
  <2>1. Fresh'
    BY <1>1, <1>3, <1>7 DEF Loaded, Fresh, TypeOK
  <2>2. \A u \in Thread : PartlyUnloaded(u)'
    BY <1>4 DEF PartlyUnloaded
  <2>3. \A u \in Thread : Freed(u)'
    BY <1>1, <1>2 DEF Loaded, Freed, OthersStay
  <2> QED
    BY <2>1, <2>2, <2>3 DEF Loaded
<1>11. ListedIsLoaded'
  <2> SUFFICES ASSUME NEW m \in live, NEW d \in Device
               PROVE  resident[m][d] =
                        IF d \in devices'[m] \/ \E u \in Thread :
                             pc'[u] = "insert" /\ loc'[u].aot = m /\ loc'[u].arg = d
                        THEN 1 ELSE 0
    BY <1>1 DEF ListedIsLoaded
  <2>1. m \in Module
    BY DEF TypeOK
  <2>2. resident[m][d] = IF d \in devices[m] \/ \E u \in Thread :
                              pc[u] = "insert" /\ loc[u].aot = m /\ loc[u].arg = d
                         THEN 1 ELSE 0
    BY <1>5 DEF ListedIsLoaded
  <2>3. CASE m = a /\ d = c
    BY <1>1, <1>7, <2>2, <2>3
  <2>4. CASE ~(m = a /\ d = c)
    <3>1. \A u \in Thread : pc'[u] = "insert" /\ loc'[u].aot = m /\ loc'[u].arg = d
                              <=> pc[u] = "insert" /\ loc[u].aot = m /\ loc[u].arg = d
      BY <1>1, <1>2, <2>4 DEF OthersStay
    <3>2. d \in devices'[m] <=> d \in devices[m]
      BY <1>7, <2>1, <2>4
    <3> QED
      BY <2>2, <3>1, <3>2
  <2> QED
    BY <2>3, <2>4
<1>12. CodeResident'
  BY <1>1 DEF CodeResident
<1>13. NothingLeaked'
  BY <1>1, <1>2 DEF NothingLeaked, OthersStay
<1> QED
  BY <1>8, <1>9, <1>10, <1>11, <1>12, <1>13

\* A launch submits the kernel where its binary is.
LEMMA SubmitKeeps ==
  ASSUME Inv, NEW t \in Thread, Submit(t)
  PROVE  Kept'
<1> USE DEF Inv, Kept
<1> DEFINE a == loc[t].aot  c == loc[t].cur
<1>1. PICK e \in Status : Launched(t, e)
  BY DEF Submit, Status
<1>2. /\ pc[t] = "submit" /\ loc[t].op = "launch"
      /\ UNCHANGED <<slot, live, devices, made, resident>>
  BY DEF Submit, InOp, OpFits, moduleVars
<1>3. /\ OthersStay(t) /\ pc'[t] \in {"idle", "rdlock"}
      /\ ret'[t] = ret[t] \/ ret'[t].op = "launch"
  BY <1>1, LaunchedStays
<1>4. CASE UNCHANGED running
  BY <1>2, <1>3, <1>4, LeaveKeeps DEF Enders
<1>5. CASE running' = running \cup {<<a, c>>}
  <2>1. a \in live /\ a \in Module /\ c \in Device /\ c \in devices[a]
    BY <1>2, Using DEF Placed, PlacedAt, Users
  <2>2. \A u \in Thread : pc[u] \notin Enders /\ pc'[u] \notin Enders
    BY <1>2, <1>3, ReadersKeepOut, Places DEF OthersStay, Writing, Enders
  <2>3. Ending = {} /\ Ending' = {}
    BY <2>2 DEF Ending
  <2>4. resident[a][c] = 1
    BY <2>1, <2>3 DEF ListedIsLoaded
  <2>5. Owned'
    BY <1>2, <1>3 DEF Owned, OthersStay, Users, Enders
  <2>6. Placed'
    <3>1. PlacedAt(t)'
      BY <1>3 DEF PlacedAt, Users, Enders
    <3>2. ASSUME NEW u \in Thread, u # t PROVE PlacedAt(u)'
      BY <1>2, <1>3, <2>2, <3>2 DEF Placed, PlacedAt, OthersStay, Enders
    <3> QED
      BY <3>1, <3>2 DEF Placed
  <2>7. Loaded'
    <3>1. Fresh'
      BY <1>2 DEF Loaded, Fresh
    <3>2. \A u \in Thread : PartlyUnloaded(u)'
      BY <2>2 DEF PartlyUnloaded
    <3>3. \A u \in Thread : Freed(u)'
      BY <1>2, <1>3 DEF Loaded, Freed, OthersStay
    <3> QED
      BY <3>1, <3>2, <3>3 DEF Loaded
  <2>8. ListedIsLoaded'
    <3>1. ASSUME NEW m, NEW d, NEW u \in Thread
          PROVE  pc'[u] = "insert" /\ loc'[u].aot = m /\ loc'[u].arg = d
                   <=> pc[u] = "insert" /\ loc[u].aot = m /\ loc[u].arg = d
      BY <1>2, <1>3, <3>1 DEF OthersStay
    <3> QED
      BY <1>2, <2>3, <3>1 DEF ListedIsLoaded
  <2>9. CodeResident'
    BY <1>2, <1>5, <2>4 DEF CodeResident
  <2>10. NothingLeaked'
    BY <1>2, <1>3 DEF NothingLeaked, OthersStay
  <2> QED
    BY <2>5, <2>6, <2>7, <2>8, <2>9, <2>10
<1> QED
  BY <1>4, <1>5 DEF Submit

\* Unload takes the module out of its slot and has all its devices to do.
LEMMA UnloadStartKeeps ==
  ASSUME Inv, NEW t \in Thread, UnloadStart(t)
  PROVE  Kept'
<1> USE DEF Inv, Kept
<1> DEFINE a == slot[loc[t].slot]
<1>1. /\ pc[t] = "unload" /\ slot' = [slot EXCEPT ![loc[t].slot] = NoModule]
      /\ loc[t].op = "unload" /\ loc[t].aot = NoModule /\ loc[t].slot \in Slot
      /\ UNCHANGED <<live, devices, made, resident, running>>
  BY Using DEF UnloadStart, InOp, OpFits, Placed, PlacedAt, gpuVars
<1>2. CASE Return(t, "ok") /\ a = NoModule
  <2>1. slot' = slot
    BY <1>1, <1>2 DEF TypeOK
  <2>2. OthersStay(t) /\ pc'[t] = "idle" /\ ret'[t].aot = NoModule
    <3>1. "ok" \in Status
      BY DEF Status
    <3> QED
      BY <1>1, <1>2, <3>1, ReturnStays, ReturnSays
  <2> QED
    BY <1>1, <2>1, <2>2, LeaveKeeps DEF Enders
<1>3. CASE /\ OthersStay(t) /\ pc'[t] = "each" /\ ret'[t] = ret[t]
           /\ UnloadFinds(t) /\ Same(t, {"op", "status"})
  <2>1. /\ a # NoModule /\ a \in live /\ a \in Module
        /\ loc'[t].aot = a /\ loc'[t].todo = devices[a]
    BY <1>1, <1>3 DEF UnloadFinds, Owned, TypeOK
  <2>2. \A u \in Thread : u # t => pc[u] \notin Writing \cup Reading
    BY <1>1, WriterAlone, Places
  <2>3. \A u \in Thread : pc[u] \notin Enders /\ pc[u] # "insert"
    BY <1>1, <2>2, Places DEF Writing, Enders
  <2>4. Ending = {}
    BY <2>3 DEF Ending
  <2>5. Owned'
    <3>1. \A q \in Slot : slot'[q] # a /\ (slot'[q] = slot[q] \/ slot'[q] = NoModule)
      BY <1>1, <2>1 DEF Owned, TypeOK
    <3>2. /\ live' \subseteq 1..made'
          /\ \A q \in Slot : slot'[q] # NoModule => slot'[q] \in live'
          /\ \A q, p \in Slot : slot'[q] = slot'[p] /\ slot'[q] # NoModule => q = p
      BY <1>1, <3>1 DEF Owned
    <3>3. ASSUME NEW u \in Thread, pc'[u] \in Users \cup Enders PROVE u = t
      BY <1>3, <2>2, <3>3, Places DEF OthersStay, Users, Enders
    <3> QED
      BY <1>1, <2>1, <3>1, <3>2, <3>3 DEF Owned
  <2>6. Placed'
    <3>1. PlacedAt(t)'
      BY <1>1, <1>3, <2>1 DEF PlacedAt, Users, Enders
    <3>2. ASSUME NEW u \in Thread, u # t PROVE PlacedAt(u)'
      BY <1>1, <1>3, <3>2 DEF Placed, PlacedAt, OthersStay
    <3> QED
      BY <3>1, <3>2 DEF Placed
  <2>7. Loaded'
    <3>1. Fresh'
      BY <1>1 DEF Loaded, Fresh
    <3>2. ASSUME NEW u \in Thread PROVE PartlyUnloaded(u)'
      <4>1. CASE u = t
        BY <1>1, <2>1, <2>3, <2>4, <4>1 DEF ListedIsLoaded, PartlyUnloaded
      <4>2. CASE u # t
        BY <1>3, <2>3, <4>2 DEF PartlyUnloaded, OthersStay
      <4> QED
        BY <4>1, <4>2
    <3>3. \A u \in Thread : Freed(u)'
      BY <1>1, <1>3 DEF Loaded, Freed, OthersStay
    <3> QED
      BY <3>1, <3>2, <3>3 DEF Loaded
  <2>8. ListedIsLoaded'
    <3>1. \A u \in Thread : pc'[u] # "insert"
      BY <1>3, <2>3 DEF OthersStay
    <3> QED
      BY <1>1, <2>3, <2>4, <3>1 DEF ListedIsLoaded
  <2>9. CodeResident'
    BY <1>1 DEF CodeResident
  <2>10. NothingLeaked'
    BY <1>1, <1>3 DEF NothingLeaked, OthersStay
  <2> QED
    BY <2>5, <2>6, <2>7, <2>8, <2>9, <2>10
<1> QED
  BY <1>2, <1>3, UnloadStartDoes

\* While Unload works through the devices only its module's binaries go.
LEMMA UnloadingKeeps ==
  ASSUME Inv, NEW t \in Thread, OthersStay(t), ret'[t] = ret[t],
         pc[t] \in Enders, pc'[t] \in Enders, loc'[t].aot = loc[t].aot, loc'[t].op = loc[t].op,
         UNCHANGED <<slot, live, devices, made>>, running' \subseteq running,
         \A m \in Module, d \in Device : m # loc[t].aot => resident'[m][d] = resident[m][d],
         \A d \in Device : <<loc[t].aot, d>> \in running' => resident'[loc[t].aot][d] > 0,
         PlacedAt(t)', PartlyUnloaded(t)'
  PROVE  Kept'
<1> USE DEF Inv, Kept
<1> DEFINE a == loc[t].aot
<1>1. a \in live /\ a \in Module /\ a \in 1..made
  BY Using
<1>2. \A u \in Thread : u # t => pc[u] \notin Writing \cup Reading
  BY WriterAlone DEF Writing
<1>3. \A u \in Thread : pc[u] # "insert" /\ pc'[u] # "insert"
  BY <1>2, Places DEF OthersStay, Enders
<1>4. Owned'
  <2>1. \A u \in Thread : pc'[u] \in Users \cup Enders => u = t
    BY <1>2, Places DEF OthersStay, Users, Enders
  <2> QED
    BY <1>1, <2>1 DEF Owned
<1>5. Placed'
  <2>1. ASSUME NEW u \in Thread, u # t PROVE PlacedAt(u)'
    BY <2>1 DEF Placed, PlacedAt, OthersStay
  <2> QED
    BY <2>1 DEF Placed
<1>6. Loaded'
  <2>1. Fresh'
    BY <1>1 DEF Loaded, Fresh, TypeOK
  <2>2. ASSUME NEW u \in Thread, u # t PROVE PartlyUnloaded(u)'
    BY <1>2, <2>2 DEF PartlyUnloaded, OthersStay, Writing
  <2>3. \A u \in Thread : Freed(u)'
    BY DEF Loaded, Freed, OthersStay
  <2> QED
    BY <2>1, <2>2, <2>3 DEF Loaded
<1>7. ListedIsLoaded'
  <2>1. a \in Ending'
    BY DEF Ending
  <2>2. \A u \in Thread : pc[u] \in Enders => pc'[u] \in Enders /\ loc'[u].aot = loc[u].aot
    BY DEF OthersStay
  <2>3. Ending \subseteq Ending'
    BY <2>2 DEF Ending
  <2>4. live \subseteq Module
    BY DEF TypeOK
  <2>5. ASSUME NEW m \in live \ Ending' PROVE m \notin Ending /\ m # a /\ m \in Module
    BY <2>1, <2>3, <2>4, <2>5
  <2> QED
    BY <1>3, <2>5 DEF ListedIsLoaded
<1>8. CodeResident'
  <2> SUFFICES ASSUME NEW r \in running' PROVE resident'[r[1]][r[2]] > 0
    BY DEF CodeResident
  <2>1. r \in running /\ r[1] \in Module /\ r[2] \in Device /\ r = <<r[1], r[2]>>
    BY DEF TypeOK
  <2>2. CASE r[1] = a
    BY <2>1, <2>2
  <2>3. CASE r[1] # a
    BY <2>1, <2>3 DEF CodeResident
  <2> QED
    BY <2>2, <2>3
<1>9. NothingLeaked'
  <2> SUFFICES ASSUME NEW u \in Thread, ret[u].op = "unload", ret[u].aot # NoModule,
                      ret[u].status = "ok", NEW d \in Device
               PROVE  resident'[ret[u].aot][d] = 0
    BY DEF NothingLeaked, OthersStay
  <2>1. ret[u].aot \in 1..made /\ ret[u].aot \notin live
    BY DEF Loaded, Freed
  <2>2. ret[u].aot \in Module /\ ret[u].aot # a
    BY <1>1, <2>1 DEF TypeOK, Returns
  <2>3. resident[ret[u].aot][d] = 0
    BY DEF NothingLeaked
  <2> QED
    BY <2>2, <2>3
<1> QED
  BY <1>4, <1>5, <1>6, <1>7, <1>8, <1>9

LEMMA UnloadSetKeeps ==
  ASSUME Inv, NEW t \in Thread, UnloadSet(t)
  PROVE  Kept'
<1> USE DEF Inv, Kept
<1>1. pc[t] = "each" /\ UNCHANGED <<slot, live, devices, made, resident, running>>
  BY DEF UnloadSet, moduleVars, gpuVars
<1>2. /\ OthersStay(t) /\ ret'[t] = ret[t]
      /\ loc'[t].op = loc[t].op /\ loc'[t].aot = loc[t].aot
  BY UnloadSetDoes DEF Same
<1>3. PICK d \in loc[t].todo :
        \/ pc'[t] = "sync" /\ loc'[t].arg = d /\ Same(t, {"todo", "status"})
        \/ pc'[t] = "each" /\ loc'[t].todo = loc[t].todo \ {d} /\ loc'[t].status = "hip"
  BY UnloadSetDoes
<1>4. pc'[t] \in Enders /\ pc[t] \in Enders
  BY <1>1, <1>3 DEF Enders
<1>5. PlacedAt(t) /\ PartlyUnloaded(t) /\ loc[t].todo \subseteq Device
  BY Using DEF Placed, Loaded
<1>6. PlacedAt(t)'
  <2>1. CASE pc'[t] = "sync" /\ loc'[t].arg = d /\ Same(t, {"todo", "status"})
    BY <1>1, <1>2, <1>3, <1>5, <2>1 DEF PlacedAt, Same, Users, Enders
  <2>2. CASE pc'[t] = "each" /\ loc'[t].todo = loc[t].todo \ {d} /\ loc'[t].status = "hip"
    BY <1>1, <1>2, <1>5, <2>2 DEF PlacedAt, Users, Enders
  <2> QED
    BY <1>3, <2>1, <2>2
<1>7. PartlyUnloaded(t)'
  <2>1. CASE pc'[t] = "sync" /\ loc'[t].arg = d /\ Same(t, {"todo", "status"})
    BY <1>1, <1>2, <1>4, <1>5, <2>1 DEF PartlyUnloaded, Same
  <2>2. CASE pc'[t] = "each" /\ loc'[t].todo = loc[t].todo \ {d} /\ loc'[t].status = "hip"
    BY <1>1, <1>2, <1>4, <1>5, <2>2 DEF PartlyUnloaded
  <2> QED
    BY <1>3, <2>1, <2>2
<1>8. \A e \in Device : <<loc[t].aot, e>> \in running' => resident'[loc[t].aot][e] > 0
  BY <1>1 DEF CodeResident
<1> QED
  BY <1>1, <1>2, <1>4, <1>6, <1>7, <1>8, UnloadingKeeps

LEMMA UnloadSyncKeeps ==
  ASSUME Inv, NEW t \in Thread, UnloadSync(t)
  PROVE  Kept'
<1> USE DEF Inv, Kept
<1>1. pc[t] = "sync" /\ UNCHANGED <<slot, live, devices, made, resident>>
  BY DEF UnloadSync, moduleVars
<1>2. /\ OthersStay(t) /\ ret'[t] = ret[t] /\ pc'[t] = "hipunload"
      /\ loc'[t].op = loc[t].op /\ loc'[t].aot = loc[t].aot
      /\ loc'[t].arg = loc[t].arg /\ loc'[t].todo = loc[t].todo
      /\ loc'[t].status \in {loc[t].status, "hip"}
  BY UnloadSyncDoes DEF Same
<1>3. running' \subseteq running /\ \A r \in running' : r[2] # loc[t].arg
  BY DEF UnloadSync
<1>4. pc'[t] \in Enders /\ pc[t] \in Enders
  BY <1>1, <1>2 DEF Enders
<1>5. PlacedAt(t) /\ PartlyUnloaded(t)
  BY DEF Placed, Loaded
<1>6. PlacedAt(t)'
  BY <1>1, <1>2, <1>3, <1>5 DEF PlacedAt, Users, Enders
<1>7. PartlyUnloaded(t)'
  BY <1>1, <1>2, <1>4, <1>5 DEF PartlyUnloaded
<1>8. \A e \in Device : <<loc[t].aot, e>> \in running' => resident'[loc[t].aot][e] > 0
  BY <1>1, <1>3 DEF CodeResident
<1> QED
  BY <1>1, <1>2, <1>3, <1>4, <1>6, <1>7, <1>8, UnloadingKeeps

LEMMA UnloadModuleKeeps ==
  ASSUME Inv, NEW t \in Thread, UnloadModule(t)
  PROVE  Kept'
<1> USE DEF Inv, Kept
<1> DEFINE a == loc[t].aot  c == loc[t].arg
<1>1. pc[t] = "hipunload" /\ UNCHANGED <<slot, live, devices, made, running>>
  BY DEF UnloadModule, moduleVars
<1>2. /\ OthersStay(t) /\ ret'[t] = ret[t] /\ pc'[t] = "each"
      /\ loc'[t].op = loc[t].op /\ loc'[t].aot = a /\ loc'[t].todo = loc[t].todo \ {c}
  BY UnloadModuleDoes DEF Same
<1>3. pc'[t] \in Enders /\ pc[t] \in Enders
  BY <1>1, <1>2 DEF Enders
<1>4. PlacedAt(t) /\ PartlyUnloaded(t)
  BY DEF Placed, Loaded
<1>5. /\ c \in Device /\ c \in loc[t].todo /\ <<a, c>> \notin running
      /\ a \in Module /\ resident[a][c] = 1
  BY <1>1, <1>3, <1>4, Using DEF PlacedAt, PartlyUnloaded
<1>6. \/ resident' = [resident EXCEPT ![a][c] = 0] /\ loc'[t].status = loc[t].status
      \/ resident' = [resident EXCEPT ![a][c] = 1] /\ loc'[t].status # "ok"
  <2>1. LET n == resident[a][c] IN
        \/ resident' = [resident EXCEPT ![a][c] = n - 1] /\ Same(t, {"status"})
        \/ resident' = [resident EXCEPT ![a][c] = n] /\ loc'[t].status # "ok"
    BY UnloadModuleDoes
  <2>2. resident[a][c] - 1 = 0
    BY <1>5
  <2> QED
    BY <1>5, <2>1, <2>2 DEF Same
<1>7. /\ \A m \in Module, d \in Device : m # a \/ d # c => resident'[m][d] = resident[m][d]
      /\ resident'[a][c] = 0 \/ loc'[t].status # "ok"
  BY <1>5, <1>6, ResidentSet
<1>8. PlacedAt(t)'
  BY <1>1, <1>2, <1>4 DEF PlacedAt, Users, Enders
<1>9. PartlyUnloaded(t)'
  <2> SUFFICES ASSUME NEW d \in Device
               PROVE  /\ d \in loc'[t].todo => resident'[a][d] = 1
                      /\ d \notin loc'[t].todo /\ loc'[t].status = "ok" => resident'[a][d] = 0
    BY <1>2 DEF PartlyUnloaded
  <2>1. CASE d = c
    BY <1>2, <1>7, <2>1
  <2>2. CASE d # c
    BY <1>2, <1>3, <1>4, <1>5, <1>6, <1>7, <2>2 DEF PartlyUnloaded
  <2> QED
    BY <2>1, <2>2
<1>10. \A e \in Device : <<a, e>> \in running' => resident'[a][e] > 0
  BY <1>1, <1>5, <1>7 DEF CodeResident
<1> QED
  BY <1>1, <1>2, <1>3, <1>7, <1>8, <1>9, <1>10, UnloadingKeeps

\* Unload frees the module when no device is left to do.
LEMMA UnloadDoneKeeps ==
  ASSUME Inv, NEW t \in Thread, UnloadDone(t)
  PROVE  Kept'
<1> USE DEF Inv, Kept
<1> DEFINE a == loc[t].aot
<1>1. /\ pc[t] = "each" /\ loc[t].todo = {} /\ live' = live \ {a}
      /\ Return(t, loc[t].status) /\ loc[t].status \in Status
      /\ UNCHANGED <<slot, devices, made, resident, running>>
  BY Using DEF UnloadDone, gpuVars
<1>2. /\ OthersStay(t) /\ pc'[t] = "idle"
      /\ ret'[t].aot = a /\ ret'[t].status = loc[t].status
  BY <1>1, ReturnStays, ReturnSays
<1>3. a \in live /\ a \in Module /\ a \in 1..made
  BY <1>1, Using DEF Enders
<1>4. \A u \in Thread : u # t => pc[u] \notin Writing \cup Reading
  BY <1>1, WriterAlone, Places
<1>5. \A u \in Thread : /\ pc'[u] \notin Users \cup Enders
                        /\ pc[u] # "insert" /\ pc'[u] # "insert"
                        /\ pc[u] \in Enders => u = t
  BY <1>1, <1>2, <1>4, Places DEF OthersStay, Users, Enders
<1>6. Owned'
  <2>1. \A q \in Slot : slot[q] # a
    BY <1>1 DEF Owned, Enders
  <2> QED
    BY <1>1, <1>5, <2>1 DEF Owned
<1>7. Placed'
  <2>1. PlacedAt(t)'
    BY <1>2 DEF PlacedAt, Users, Enders
  <2>2. ASSUME NEW u \in Thread, u # t PROVE PlacedAt(u)'
    BY <1>1, <1>2, <2>2 DEF Placed, PlacedAt, OthersStay
  <2> QED
    BY <2>1, <2>2 DEF Placed
<1>8. Loaded'
  <2>1. Fresh'
    BY <1>1 DEF Loaded, Fresh
  <2>2. \A u \in Thread : PartlyUnloaded(u)'
    BY <1>5 DEF PartlyUnloaded
  <2>3. \A u \in Thread : Freed(u)'
    BY <1>1, <1>2, <1>3 DEF Loaded, Freed, OthersStay
  <2> QED
    BY <2>1, <2>2, <2>3 DEF Loaded
<1>9. ListedIsLoaded'
  <2>1. ASSUME NEW m \in live' PROVE m \in live /\ m \notin Ending
    BY <1>1, <1>5, <2>1 DEF Ending
  <2> QED
    BY <1>1, <1>5, <2>1 DEF ListedIsLoaded
<1>10. CodeResident'
  BY <1>1 DEF CodeResident
<1>11. NothingLeaked'
  <2>1. loc[t].status = "ok" => \A d \in Device : resident[a][d] = 0
    BY <1>1 DEF Loaded, PartlyUnloaded, Enders
  <2> QED
    BY <1>1, <1>2, <2>1 DEF NothingLeaked, OthersStay
<1> QED
  BY <1>6, <1>7, <1>8, <1>9, <1>10, <1>11

LEMMA StepKept ==
  ASSUME Inv, NEW t \in Thread, Step(t)
  PROVE  Kept'
<1> USE DEF Inv
<1>1. PlacedAt(t) /\ (pc[t] \in Users => loc[t].aot \in live)
  BY Using DEF Kept, Placed
<1>2. {"ok", "hip", "uninit", "unloaded"} = Status
  BY DEF Status
<1>3. OthersStay(t)
  BY StepControl
<1>4. CASE WriteLock(t)
  <2>1. /\ pc[t] = "wrlock" /\ pc'[t] = loc[t].op /\ loc' = loc /\ ret' = ret
        /\ loc[t].op \in {"init", "unload"}
        /\ UNCHANGED <<slot, live, devices, made, resident, running>>
    BY <1>4 DEF WriteLock, Goto, TypeOK, InOp, OpFits, moduleVars, gpuVars
  <2>2. PlacedAt(t)'
    BY <1>1, <2>1 DEF PlacedAt, Users, Enders
  <2> QED
    BY <1>3, <2>1, <2>2, QuietKeeps DEF Users, Enders
<1>5. CASE ReadLock(t)
  <2>1. /\ pc[t] = "rdlock" /\ pc'[t] = loc[t].op /\ loc' = loc /\ ret' = ret
        /\ loc[t].op \in {"load", "launch"}
        /\ UNCHANGED <<slot, live, devices, made, resident, running>>
    BY <1>5 DEF ReadLock, Goto, TypeOK, InOp, OpFits, moduleVars, gpuVars
  <2>2. PlacedAt(t)'
    BY <2>1 DEF PlacedAt, Users, Enders
  <2> QED
    BY <1>3, <2>1, <2>2, QuietKeeps DEF Users, Enders
<1>6. CASE InitCheck(t)
  <2>1. /\ pc[t] = "init" /\ loc[t].op = "init"
        /\ UNCHANGED <<slot, live, devices, made, resident, running>>
    BY <1>6 DEF InitCheck, InOp, OpFits, moduleVars, gpuVars
  <2>2. CASE Return(t, "ok")
    BY <1>2, <1>3, <2>1, <2>2, ReturnStays, ReturnSays, LeaveKeeps DEF Enders
  <2>3. CASE Goto(t, "create") /\ loc' = loc
    <3>1. pc'[t] = "create" /\ ret' = ret
      BY <2>3 DEF Goto, TypeOK
    <3>2. PlacedAt(t)'
      BY <3>1 DEF PlacedAt, Users, Enders
    <3> QED
      BY <1>3, <2>1, <3>1, <3>2, QuietKeeps DEF Users, Enders
  <2> QED
    BY <1>6, <2>2, <2>3 DEF InitCheck
<1>7. CASE LoadStart(t)
  <2>1. /\ pc[t] = "load" /\ loc[t].op = "load"
        /\ UNCHANGED <<slot, live, devices, made, resident, running>>
    BY <1>7 DEF LoadStart, InOp, OpFits, moduleVars, gpuVars
  <2>2. CASE Return(t, "uninit") \/ Return(t, "hip")
    BY <1>2, <1>3, <2>1, <2>2, ReturnStays, ReturnSays, LeaveKeeps DEF Enders
  <2>3. CASE pc'[t] = "mutex" /\ ret'[t] = ret[t] /\ LoadFinds(t) /\ Same(t, {"op", "counts"})
    <3>1. loc'[t].aot \in live /\ loc'[t].cur \in Device /\ loc'[t].arg \in Device
      <4>1. /\ loc[t].slot \in Slot /\ loc[t].arg \in Device \cup {Current}
            /\ device[t] \in Device \cup {Broken}
        BY Using DEF TypeOK
      <4> QED
        BY <2>3, <4>1 DEF LoadFinds, Kept, Owned
    <3>2. PlacedAt(t)'
      BY <2>1, <2>3, <3>1 DEF PlacedAt, Same, Users, Enders
    <3> QED
      BY <1>3, <2>1, <2>3, <3>1, <3>2, QuietKeeps DEF Enders
  <2> QED
    BY <1>7, <2>2, <2>3, LoadStartDoes
<1>8. CASE LaunchStart(t)
  <2>1. /\ pc[t] = "launch" /\ loc[t].op = "launch"
        /\ UNCHANGED <<slot, live, devices, made, resident, running>>
    BY <1>8 DEF LaunchStart, InOp, OpFits, moduleVars, gpuVars
  <2>2. CASE Launched(t, "uninit") \/ Launched(t, "hip")
    BY <1>2, <1>3, <2>1, <2>2, LaunchedStays, LeaveKeeps DEF Enders
  <2>3. CASE pc'[t] = "mutex" /\ ret'[t] = ret[t] /\ LaunchFinds(t) /\ Same(t, {"op", "counts"})
    <3>1. loc'[t].aot \in live /\ loc'[t].cur \in Device
      <4>1. loc[t].slot \in Slot /\ device[t] \in Device \cup {Broken}
        BY Using DEF TypeOK
      <4> QED
        BY <2>3, <4>1 DEF LaunchFinds, Kept, Owned
    <3>2. PlacedAt(t)'
      BY <2>1, <2>3, <3>1 DEF PlacedAt, Same, Users, Enders
    <3> QED
      BY <1>3, <2>1, <2>3, <3>1, <3>2, QuietKeeps DEF Enders
  <2> QED
    BY <1>8, <2>2, <2>3, LaunchStartDoes
<1>9. CASE MutexLock(t)
  <2>1. /\ pc[t] = "mutex" /\ loc' = loc /\ ret' = ret
        /\ \/ loc[t].op = "load" /\ pc'[t] = "find"
           \/ loc[t].op = "launch" /\ pc'[t] = "function"
        /\ UNCHANGED <<slot, live, devices, made, resident, running>>
    BY <1>9 DEF MutexLock, Goto, TypeOK, InOp, OpFits, moduleVars, gpuVars
  <2>2. PlacedAt(t)'
    BY <1>1, <2>1 DEF PlacedAt, Users, Enders
  <2> QED
    BY <1>1, <1>3, <2>1, <2>2, QuietKeeps DEF Users, Enders
<1>10. CASE LoadFind(t)
  <2>1. /\ pc[t] = "find" /\ loc[t].op = "load"
        /\ UNCHANGED <<slot, live, devices, made, resident, running>>
    BY <1>10 DEF LoadFind, InOp, OpFits, moduleVars, gpuVars
  <2>2. CASE Return(t, "ok") \/ Return(t, "hip")
    BY <1>2, <1>3, <2>1, <2>2, ReturnStays, ReturnSays, LeaveKeeps DEF Enders
  <2>3. CASE /\ loc[t].arg \notin devices[loc[t].aot]
             /\ Goto(t, "loaddata") /\ loc' = loc
    <3>1. pc'[t] = "loaddata" /\ ret' = ret
      BY <2>3 DEF Goto, TypeOK
    <3>2. PlacedAt(t)'
      BY <1>1, <2>1, <2>3, <3>1 DEF PlacedAt, Users, Enders
    <3> QED
      BY <1>1, <1>3, <2>1, <2>3, <3>1, <3>2, QuietKeeps DEF Users, Enders
  <2> QED
    BY <1>10, <2>2, <2>3 DEF LoadFind
<1>11. CASE GetFunction(t)
  <2>1. /\ pc[t] = "function" /\ loc[t].op = "launch"
        /\ UNCHANGED <<slot, live, devices, made, resident, running>>
    BY <1>11 DEF GetFunction, InOp, OpFits, gpuVars
  <2>2. CASE Launched(t, "unloaded") \/ Launched(t, "hip")
    BY <1>2, <1>3, <2>1, <2>2, LaunchedStays, LeaveKeeps DEF Enders
  <2>3. CASE /\ loc[t].cur \in devices[loc[t].aot]
             /\ Goto(t, "submit") /\ loc' = loc
    <3>1. pc'[t] = "submit" /\ ret' = ret
      BY <2>3 DEF Goto, TypeOK
    <3>2. PlacedAt(t)'
      BY <1>1, <2>1, <2>3, <3>1 DEF PlacedAt, Users, Enders
    <3> QED
      BY <1>1, <1>3, <2>1, <2>3, <3>1, <3>2, QuietKeeps DEF Users, Enders
  <2> QED
    BY <1>11, <2>2, <2>3 DEF GetFunction
<1> QED
  BY <1>4, <1>5, <1>6, <1>7, <1>8, <1>9, <1>10, <1>11, CreateKeeps, LoadDataKeeps, InsertKeeps,
     SubmitKeeps, UnloadStartKeeps, UnloadSetKeeps, UnloadSyncKeeps, UnloadModuleKeeps,
     UnloadDoneKeeps DEF Step

-----------------------------------------------------------------------------
(* The counts, the latch and the device.                                   *)

\* A step goes on within the function, ends a launch or ends the function.
LEMMA StepKinds ==
  ASSUME Inv, NEW t \in Thread, Step(t)
  PROVE  \/ \E e \in Status : Return(t, e) /\ latch' = latch /\ loc[t].op # "launch"
         \/ \E e \in Status : Launched(t, e) /\ loc[t].op = "launch" /\ pc[t] # "idle"
         \/ /\ ret'[t] = ret[t] /\ latch' = latch /\ loc'[t].op = loc[t].op /\ pc[t] # "idle"
            /\ loc[t].op = "launch" => loc'[t].left = loc[t].left /\ loc'[t].done = loc[t].done
            /\ pc'[t] # "wrlock"
            /\ pc'[t] \in {"init", "create"} => pc[t] \in {"wrlock", "init"}
<1> USE DEF Inv
<1>1. {"ok", "hip", "uninit", "unloaded"} = Status
  BY DEF Status
<1>2. CASE WriteLock(t)
  BY <1>2 DEF WriteLock, Goto, TypeOK, InOp, OpFits
<1>3. CASE ReadLock(t)
  BY <1>3 DEF ReadLock, Goto, TypeOK, InOp, OpFits
<1>4. CASE InitCheck(t)
  BY <1>1, <1>4 DEF InitCheck, Goto, TypeOK, InOp, OpFits
<1>5. CASE Create(t)
  BY <1>1, <1>5 DEF Create, InOp, OpFits
<1>6. CASE LoadStart(t)
  <2>1. pc[t] = "load" /\ loc[t].op = "load" /\ latch' = latch
    BY <1>6 DEF LoadStart, InOp, OpFits
  <2> QED
    BY <1>1, <1>6, <2>1, LoadStartDoes DEF Same
<1>7. CASE MutexLock(t)
  BY <1>7 DEF MutexLock, Goto, TypeOK
<1>8. CASE LoadFind(t)
  BY <1>1, <1>8 DEF LoadFind, Goto, TypeOK, InOp, OpFits
<1>9. CASE LoadData(t)
  BY <1>1, <1>9 DEF LoadData, Goto, TypeOK, InOp, OpFits
<1>10. CASE Insert(t)
  BY <1>1, <1>10 DEF Insert, InOp, OpFits
<1>11. CASE UnloadStart(t)
  <2>1. pc[t] = "unload" /\ loc[t].op = "unload" /\ latch' = latch
    BY <1>11 DEF UnloadStart, InOp, OpFits
  <2> QED
    BY <1>1, <1>11, <2>1, UnloadStartDoes DEF Same
<1>12. CASE UnloadSet(t)
  <2>1. pc[t] = "each" /\ loc[t].op = "unload" /\ latch' = latch
    BY <1>12 DEF UnloadSet, InOp, OpFits, Enders
  <2> QED
    BY <1>12, <2>1, UnloadSetDoes DEF Same
<1>13. CASE UnloadSync(t)
  <2>1. pc[t] = "sync" /\ loc[t].op = "unload" /\ latch' = latch
    BY <1>13 DEF UnloadSync, InOp, OpFits, Enders
  <2> QED
    BY <1>13, <2>1, UnloadSyncDoes DEF Same
<1>14. CASE UnloadModule(t)
  <2>1. pc[t] = "hipunload" /\ loc[t].op = "unload" /\ latch' = latch
    BY <1>14 DEF UnloadModule, InOp, OpFits, Enders
  <2> QED
    BY <1>14, <2>1, UnloadModuleDoes DEF Same
<1>15. CASE UnloadDone(t)
  BY <1>15, Using DEF UnloadDone, InOp, OpFits, Enders
<1>16. CASE LaunchStart(t)
  <2>1. pc[t] = "launch" /\ loc[t].op = "launch"
    BY <1>16 DEF LaunchStart, InOp, OpFits
  <2> QED
    BY <1>1, <1>16, <2>1, LaunchStartDoes DEF Same
<1>17. CASE GetFunction(t)
  BY <1>1, <1>17 DEF GetFunction, Goto, TypeOK, InOp, OpFits
<1>18. CASE Submit(t)
  BY <1>1, <1>18 DEF Submit, InOp, OpFits
<1> QED
  BY <1>2, <1>3, <1>4, <1>5, <1>6, <1>7, <1>8, <1>9, <1>10, <1>11, <1>12, <1>13, <1>14,
     <1>15, <1>16, <1>17, <1>18 DEF Step

\* The latch of a thread is its own.
LEMMA LatchKept ==
  ASSUME Inv, NEW t \in Thread, Step(t)
  PROVE  Latching' /\ StatusIsOwn'
<1> USE DEF Inv
<1>1. OthersStay(t)
  BY StepControl
<1> DEFINE Fits(u) == loc[u].op = "launch" /\ pc[u] # "idle" =>
             /\ loc[u].left >= 1 /\ loc[u].done + loc[u].left <= Launches
             /\ latch[u] = "ok" <=> loc[u].done + loc[u].left = Launches
           Own(u) == ret[u].op = "launch" => (ret[u].status = "ok" <=> ret[u].done = Launches)
<1>2. Fits(t) /\ Own(t)
  BY DEF Latching, StatusIsOwn
<1>3. SUFFICES Fits(t)' /\ Own(t)' /\ \A u \in Thread : u # t => latch'[u] = latch[u]
  BY <1>1 DEF Latching, StatusIsOwn, OthersStay
<1>4. CASE \E e \in Status : Return(t, e) /\ latch' = latch /\ loc[t].op # "launch"
  BY <1>4, ReturnStays, ReturnSays, NoLocalsFacts
<1>5. ASSUME NEW e \in Status, Launched(t, e), loc[t].op = "launch", pc[t] # "idle"
      PROVE  Fits(t)' /\ Own(t)' /\ \A u \in Thread : u # t => latch'[u] = latch[u]
  <2> DEFINE ok == IF e = "ok" THEN 1 ELSE 0
  <2>1. /\ loc[t].left \in Nat /\ loc[t].done \in Nat /\ Launches \in Nat
        /\ loc[t].left \in 0..Launches /\ loc[t].done \in 0..Launches
        /\ loc[t] \in Locals
    BY Using, ConstantsAssumption
  <2>2. /\ loc[t].left >= 1 /\ loc[t].done + loc[t].left <= Launches
        /\ latch[t] = "ok" <=> loc[t].done + loc[t].left = Launches
    BY <1>2, <1>5
  <2>3. Record(t, e) = "ok" <=> latch[t] = "ok" /\ e = "ok"
    BY DEF Record, Latched, LatchOf
  <2>4. CASE loc[t].left > 1 /\ Goto(t, "rdlock") /\ Latch(t, Record(t, e))
             /\ SetLocals(t, [loc[t] EXCEPT !.left = @ - 1, !.done = @ + ok])
    <3>1. loc'[t] = [loc[t] EXCEPT !.left = @ - 1, !.done = @ + ok]
      BY <2>4, SetIs
    <3>2. loc'[t].left = loc[t].left - 1 /\ loc'[t].done = loc[t].done + ok
      BY <2>1, <3>1 DEF Locals
    <3>3. /\ latch'[t] = Record(t, e) /\ \A u \in Thread : u # t => latch'[u] = latch[u]
          /\ ret'[t] = ret[t]
      BY <2>4 DEF TypeOK, Latch, LatchOf, Goto
    <3> HIDE DEF ok
    <3>4. ok \in {0, 1} /\ (ok = 1 <=> e = "ok")
      BY DEF ok
    <3>5. Own(t)'
      BY <1>2, <3>3
    <3>6. Fits(t)'
      BY <2>1, <2>2, <2>3, <2>4, <3>2, <3>3, <3>4
    <3> QED
      BY <3>3, <3>5, <3>6
  <2>5. CASE /\ loc[t].left = 1 /\ Latch(t, "ok")
             /\ pc' = [pc EXCEPT ![t] = "idle"] /\ SetLocals(t, NoLocals)
             /\ ret' = [ret EXCEPT ![t] = [op |-> "launch", aot |-> loc[t].aot,
                                           status |-> Record(t, e), done |-> loc[t].done + ok]]
    <3>1. /\ \A u \in Thread : u # t => latch'[u] = latch[u]
          /\ pc'[t] = "idle"
          /\ ret'[t].status = Record(t, e) /\ ret'[t].done = loc[t].done + ok
      BY <2>5 DEF TypeOK, Latch, LatchOf
    <3>2. Fits(t)'
      BY <3>1
    <3> HIDE DEF ok
    <3>3. ok \in {0, 1} /\ (ok = 1 <=> e = "ok")
      BY DEF ok
    <3>4. ret'[t].status = "ok" <=> ret'[t].done = Launches
      BY <2>1, <2>2, <2>3, <2>5, <3>1, <3>3
    <3> QED
      BY <3>1, <3>2, <3>4
  <2> QED
    BY <1>5, <2>4, <2>5 DEF Launched
<1>6. CASE /\ ret'[t] = ret[t] /\ latch' = latch /\ loc'[t].op = loc[t].op /\ pc[t] # "idle"
           /\ loc[t].op = "launch" => loc'[t].left = loc[t].left /\ loc'[t].done = loc[t].done
  BY <1>2, <1>6
<1> QED
  BY <1>4, <1>5, <1>6, StepKinds

\* Only Create makes a module, and its thread is then through.
LEMMA CountKept ==
  ASSUME Inv, NEW t \in Thread, Step(t)
  PROVE  Counted'
<1> USE DEF Inv
<1>1. OthersStay(t) /\ calls' = calls
  BY StepControl DEF Step, WriteLock, ReadLock, InitCheck, Create, LoadStart, MutexLock, LoadFind,
     LoadData, Insert, UnloadStart, UnloadSet, UnloadSync, UnloadModule, UnloadDone, LaunchStart,
     GetFunction, Submit
<1>2. /\ IsFiniteSet(Makers) /\ made + Cardinality(Makers) <= calls
      /\ Cardinality(Makers) \in Nat /\ made \in Nat /\ calls \in Nat
  BY FS_CardinalityType, ConstantsAssumption DEF Counted, TypeOK
<1>3. CASE Create(t)
  <2>1. pc'[t] = "idle"
    BY <1>3, ReturnStays DEF Create, Status
  <2>2. t \in Makers
    BY <1>3 DEF Create, Makers, InOp, OpFits
  <2>3. Makers' = Makers \ {t}
    BY <1>1, <2>1 DEF Makers, OthersStay
  <2>4. made' = made \/ made' = made + 1
    BY <1>3 DEF Create
  <2>5. IsFiniteSet(Makers') /\ Cardinality(Makers') = Cardinality(Makers) - 1
    BY <1>2, <2>2, <2>3, FS_RemoveElement
  <2> QED
    BY <1>1, <1>2, <2>4, <2>5 DEF Counted
<1>4. CASE ~Create(t)
  <2>1. made' = made
    BY <1>4 DEF Step, WriteLock, ReadLock, InitCheck, LoadStart, MutexLock, LoadFind,
       LoadData, Insert, UnloadStart, UnloadSet, UnloadSync, UnloadModule, UnloadDone, LaunchStart,
       GetFunction, Submit, moduleVars
  <2>2. t \in Makers' => t \in Makers
    <3>1. CASE \E e \in Status : Return(t, e)
      BY <3>1, ReturnStays DEF Makers
    <3>2. CASE \E e \in Status : Launched(t, e)
      BY <3>2, LaunchedStays DEF Makers
    <3>3. CASE ~(\E e \in Status : Return(t, e) \/ Launched(t, e))
      BY <3>3, StepKinds DEF Makers
    <3> QED
      BY <3>1, <3>2, <3>3
  <2>3. Makers' \subseteq Makers
    BY <1>1, <2>2 DEF Makers, OthersStay
  <2>4. /\ IsFiniteSet(Makers') /\ Cardinality(Makers') <= Cardinality(Makers)
        /\ Cardinality(Makers') \in Nat
    BY <1>2, <2>3, FS_Subset, FS_CardinalityType
  <2> QED
    BY <1>1, <1>2, <2>1, <2>4 DEF Counted
<1> QED
  BY <1>3, <1>4

\* A call gives a thread back the device it found, if it could ask for it.
LEMMA DeviceSaved ==
  ASSUME Inv, Saved, "getdevice" \notin Failing, NEW t \in Thread, Step(t)
  PROVE  Saved'
<1> USE DEF Inv
<1> DEFINE At(u) == /\ pc[u] \notin {"loaddata"} \cup Enders => device[u] = chosen[u]
                    /\ pc[u] \in Users \cup Enders => loc[u].cur = chosen[u]
<1>1. OthersStay(t) /\ chosen' = chosen
  BY StepControl DEF Step, WriteLock, ReadLock, InitCheck, Create, LoadStart, MutexLock, LoadFind,
     LoadData, Insert, UnloadStart, UnloadSet, UnloadSync, UnloadModule, UnloadDone, LaunchStart,
     GetFunction, Submit
<1>2. At(t) /\ chosen[t] \in Device /\ chosen[t] # Broken
  BY ConstantsAssumption DEF Saved, TypeOK
<1>3. device' = device \/ \E d : SelectDevice(t, d)
  BY DEF Step, WriteLock, ReadLock, InitCheck, Create, LoadStart, MutexLock, LoadFind,
     LoadData, Insert, UnloadStart, UnloadSet, UnloadSync, UnloadModule, UnloadDone, LaunchStart,
     GetFunction, Submit, Restored
<1>4. \A u \in Thread : u # t => device'[u] = device[u]
  BY <1>3 DEF SelectDevice, TypeOK
<1>5. SUFFICES At(t)'
  BY <1>1, <1>4 DEF Saved, OthersStay
<1>6. ASSUME pc[t] \notin {"loaddata"} \cup Enders, device' = device,
             pc'[t] \in {"idle", "rdlock", "init", "load", "unload", "launch", "create"}
      PROVE  At(t)'
  BY <1>1, <1>2, <1>6 DEF Users, Enders
<1>7. ASSUME NEW e \in Status, Return(t, e) PROVE pc'[t] = "idle"
  BY <1>7, ReturnStays
<1>8. ASSUME NEW e \in Status, Launched(t, e) PROVE pc'[t] \in {"idle", "rdlock"}
  BY <1>8, LaunchedStays
<1>9. {"ok", "hip", "uninit", "unloaded"} = Status
  BY DEF Status
<1>10. CASE WriteLock(t)
  BY <1>6, <1>10 DEF WriteLock, Goto, TypeOK, InOp, OpFits, Enders
<1>11. CASE ReadLock(t)
  BY <1>6, <1>11 DEF ReadLock, Goto, TypeOK, InOp, OpFits, Enders
<1>12. CASE InitCheck(t)
  BY <1>6, <1>7, <1>9, <1>12 DEF InitCheck, Goto, TypeOK, Enders
<1>13. CASE Create(t)
  BY <1>6, <1>7, <1>9, <1>13 DEF Create, Enders
<1>14. CASE LoadStart(t)
  <2>1. pc[t] = "load" /\ device' = device
    BY <1>14 DEF LoadStart
  <2> QED
    BY <1>1, <1>2, <1>6, <1>7, <1>9, <1>14, <2>1, LoadStartDoes DEF LoadFinds, Users, Enders
<1>15. CASE LaunchStart(t)
  <2>1. pc[t] = "launch" /\ device' = device
    BY <1>15 DEF LaunchStart
  <2> QED
    BY <1>1, <1>2, <1>6, <1>8, <1>9, <1>15, <2>1, LaunchStartDoes DEF LaunchFinds, Users, Enders
<1>16. CASE MutexLock(t)
  BY <1>1, <1>2, <1>16 DEF MutexLock, Goto, TypeOK, Users, Enders
<1>17. CASE LoadFind(t)
  <2>1. loc[t].cur = chosen[t] /\ device[t] = chosen[t] /\ pc[t] = "find"
    BY <1>2, <1>17 DEF LoadFind, Users, Enders
  <2>2. CASE \E e \in Status : Return(t, e) /\ device' = device
    BY <1>6, <1>7, <2>1, <2>2 DEF Enders
  <2>3. CASE \E e \in Status : Return(t, e) /\ Restored(t)
    BY <1>1, <1>7, <2>1, <2>3 DEF Restored, SelectDevice, TypeOK, Users, Enders
  <2>4. CASE Goto(t, "loaddata") /\ loc' = loc
    BY <1>1, <2>1, <2>4 DEF Goto, TypeOK, Users, Enders
  <2> QED
    BY <1>9, <1>17, <2>2, <2>3, <2>4 DEF LoadFind
<1>18. CASE LoadData(t)
  <2>1. loc[t].cur = chosen[t] /\ device'[t] = chosen[t]
    BY <1>2, <1>18 DEF LoadData, SelectDevice, TypeOK, Users
  <2>2. CASE Return(t, "hip")
    BY <1>1, <1>7, <1>9, <2>1, <2>2 DEF Users, Enders
  <2>3. CASE Goto(t, "insert") /\ loc' = loc
    BY <1>1, <2>1, <2>3 DEF Goto, TypeOK, Users, Enders
  <2> QED
    BY <1>18, <2>2, <2>3 DEF LoadData
<1>19. CASE Insert(t)
  BY <1>6, <1>7, <1>9, <1>19 DEF Insert, Enders
<1>20. CASE UnloadStart(t)
  <2>1. pc[t] = "unload" /\ device' = device
    BY <1>20 DEF UnloadStart
  <2> QED
    BY <1>1, <1>2, <1>6, <1>7, <1>9, <1>20, <2>1, UnloadStartDoes
       DEF UnloadFinds, May, Users, Enders
<1>21. CASE UnloadSet(t) \/ UnloadSync(t) \/ UnloadModule(t)
  <2>1. pc[t] \in Enders
    BY <1>21 DEF UnloadSet, UnloadSync, UnloadModule, Enders
  <2>2. pc'[t] \in Enders /\ loc'[t].cur = loc[t].cur
    BY <1>21, UnloadSetDoes, UnloadSyncDoes, UnloadModuleDoes DEF Same, Enders
  <2> QED
    BY <1>1, <1>2, <2>1, <2>2
<1>22. CASE UnloadDone(t)
  <2>1. loc[t].cur = chosen[t] /\ device'[t] = chosen[t]
    BY <1>2, <1>22 DEF UnloadDone, Restored, SelectDevice, TypeOK, Users, Enders
  <2>2. pc'[t] = "idle"
    BY <1>7, <1>22, Using DEF UnloadDone
  <2> QED
    BY <1>1, <2>1, <2>2 DEF Users, Enders
<1>23. CASE GetFunction(t)
  <2>1. pc[t] = "function" /\ device' = device
    BY <1>23 DEF GetFunction
  <2>2. CASE \E e \in Status : Launched(t, e)
    BY <1>6, <1>8, <2>1, <2>2 DEF Enders
  <2>3. CASE Goto(t, "submit") /\ loc' = loc
    BY <1>1, <1>2, <2>1, <2>3 DEF Goto, TypeOK, Users, Enders
  <2> QED
    BY <1>9, <1>23, <2>2, <2>3 DEF GetFunction
<1>24. CASE Submit(t)
  BY <1>6, <1>8, <1>9, <1>24 DEF Submit, Enders
<1> QED
  BY <1>10, <1>11, <1>12, <1>13, <1>14, <1>15, <1>16, <1>17, <1>18, <1>19, <1>20, <1>21,
     <1>22, <1>23, <1>24 DEF Step

-----------------------------------------------------------------------------
(* The invariant, and the theorems.                                        *)

LEMMA InitHolds == Init => Inv /\ Saved
<1> SUFFICES ASSUME Init PROVE Inv /\ Saved
  OBVIOUS
<1> USE DEF Init
<1>1. \A t \in Thread : /\ pc[t] = "idle" /\ loc[t] = NoLocals /\ ret[t] = NoReturn
                        /\ device[t] = chosen[t]
  OBVIOUS
<1>2. TypeOK
  <2>1. NoReturn \in Returns
    BY ConstantsAssumption DEF NoReturn, Returns, Status
  <2>2. latch \in [Thread -> Status] /\ calls \in 0..MaxCalls /\ made \in 0..MaxCalls
    BY ConstantsAssumption DEF Status
  <2> QED
    BY <2>1, <2>2, NoLocalsFacts DEF TypeOK
<1>3. InOp /\ Latching
  BY <1>1 DEF InOp, OpFits, Enders, Latching
<1>4. Locked
  BY <1>1, Places, ConstantsAssumption DEF Locked
<1>5. Counted
  <2>1. Makers = {}
    BY <1>1 DEF Makers
  <2> QED
    BY <2>1, FS_EmptySet DEF Counted
<1>6. Owned /\ Placed /\ Saved
  BY <1>1 DEF Owned, Placed, PlacedAt, Saved, Users, Enders, NoModule
<1>7. Loaded
  BY <1>1 DEF Loaded, Fresh, PartlyUnloaded, Freed, NoReturn, Enders
<1>8. ListedIsLoaded /\ CodeResident /\ NothingLeaked /\ StatusIsOwn
  BY <1>1 DEF ListedIsLoaded, CodeResident, NothingLeaked, StatusIsOwn, NoReturn
<1> QED
  BY <1>2, <1>3, <1>4, <1>5, <1>6, <1>7, <1>8 DEF Inv, Kept

\* A call begins.
LEMMA CallKeeps ==
  ASSUME Inv, NEW t \in Thread, NEW op \in Ops, NEW s \in Slot, NEW d \in Device \cup {Current},
         Call(t, op, s, d)
  PROVE  InOp' /\ Locked' /\ Counted' /\ Kept' /\ Latching' /\ StatusIsOwn' /\ (Saved => Saved')
<1> USE DEF Inv
<1> DEFINE l == [NoLocals EXCEPT !.op = op, !.slot = s, !.arg = d, !.left = Launches]
           w == IF op \in {"init", "unload"} THEN "wrlock" ELSE "rdlock"
<1>1. /\ pc[t] = "idle" /\ calls' = calls + 1 /\ Goto(t, w) /\ SetLocals(t, l)
      /\ UNCHANGED <<lockVars, device, chosen>>
      /\ UNCHANGED <<slot, live, devices, made, resident, running>>
      /\ IF op = "launch" THEN Latch(t, "ok") ELSE latch' = latch
  BY DEF Call, moduleVars, gpuVars
<1>2. OthersStay(t) /\ pc'[t] = w /\ ret'[t] = ret[t]
  BY <1>1, GotoStays
<1>3. /\ loc'[t].op = op /\ loc'[t].aot = NoModule
      /\ loc'[t].left = Launches /\ loc'[t].done = 0
  <2>1. loc'[t] = l
    BY <1>1, SetIs
  <2>2. NoLocals.aot = NoModule
    BY DEF NoLocals
  <2> QED
    BY <2>1, <2>2, NoLocalsFacts DEF Locals
<1>4. InOp'
  <2>1. OpFits(pc'[t], loc'[t].op)
    BY <1>2, <1>3 DEF OpFits, Ops, Enders
  <2> QED
    BY <1>2, <2>1, InOpKept
<1>5. Locked'
  BY <1>1, <1>2, Places, KeepLocks
<1>6. Counted'
  <2>1. Makers' \subseteq Makers \cup {t}
    BY <1>2 DEF Makers, OthersStay
  <2>2. /\ IsFiniteSet(Makers) /\ made + Cardinality(Makers) <= calls
        /\ Cardinality(Makers) \in Nat /\ made \in Nat /\ calls \in Nat /\ t \notin Makers
    BY <1>1, FS_CardinalityType, ConstantsAssumption DEF Counted, TypeOK, Makers
  <2>3. /\ IsFiniteSet(Makers \cup {t})
        /\ Cardinality(Makers \cup {t}) = Cardinality(Makers) + 1
    BY <2>2, FS_AddElement
  <2>4. /\ IsFiniteSet(Makers') /\ Cardinality(Makers') <= Cardinality(Makers) + 1
        /\ Cardinality(Makers') \in Nat
    BY <2>1, <2>3, FS_Subset, FS_CardinalityType
  <2> QED
    BY <1>1, <2>2, <2>4 DEF Counted
<1>7. Kept'
  <2>1. PlacedAt(t)'
    BY <1>2, <1>3 DEF PlacedAt, Users, Enders
  <2> QED
    BY <1>1, <1>2, <2>1, QuietKeeps DEF Users, Enders
<1>8. Latching' /\ StatusIsOwn'
  <2>1. /\ \A u \in Thread : u # t => latch'[u] = latch[u]
        /\ op = "launch" => latch'[t] = "ok"
    BY <1>1 DEF Latch, LatchOf, TypeOK
  <2>2. Launches \in Nat /\ Launches >= 1
    BY ConstantsAssumption
  <2>3. Latching'
    <3> SUFFICES ASSUME NEW u \in Thread, loc'[u].op = "launch", pc'[u] # "idle"
                 PROVE  /\ loc'[u].left >= 1 /\ loc'[u].done + loc'[u].left <= Launches
                        /\ latch'[u] = "ok" <=> loc'[u].done + loc'[u].left = Launches
      BY DEF Latching
    <3>1. CASE u = t
      BY <1>3, <2>1, <2>2, <3>1
    <3>2. CASE u # t
      BY <1>2, <2>1, <3>2 DEF Latching, OthersStay
    <3> QED
      BY <3>1, <3>2
  <2> QED
    BY <1>2, <2>3 DEF StatusIsOwn, OthersStay
<1>9. Saved => Saved'
  BY <1>1, <1>2 DEF Saved, OthersStay, Users, Enders
<1> QED
  BY <1>4, <1>5, <1>6, <1>7, <1>8, <1>9

\* Nothing else touches a call: the application selects a device between calls,
\* and kernels finish.
LEMMA OutsideKeeps ==
  ASSUME Inv, UNCHANGED <<lockVars, slot, live, devices, made, resident, latch, callVars, calls>>,
         running' \subseteq running
  PROVE  InOp' /\ Locked' /\ Counted' /\ Kept' /\ Latching' /\ StatusIsOwn'
<1> USE DEF Inv, Kept, lockVars, callVars
<1>1. InOp' /\ Locked' /\ Latching' /\ StatusIsOwn'
  BY DEF InOp, Locked, Latching, StatusIsOwn
<1>2. Counted'
  <2>1. Makers' = Makers
    BY DEF Makers
  <2> QED
    BY <2>1 DEF Counted
<1>3. Owned' /\ CodeResident' /\ NothingLeaked'
  BY DEF Owned, CodeResident, NothingLeaked
<1>4. Placed'
  BY DEF Placed, PlacedAt
<1>5. Loaded'
  BY DEF Loaded, Fresh, PartlyUnloaded, Freed
<1>6. ListedIsLoaded'
  <2>1. Ending' = Ending
    BY DEF Ending
  <2> QED
    BY <2>1 DEF ListedIsLoaded
<1> QED
  BY <1>1, <1>2, <1>3, <1>4, <1>5, <1>6

\* The inductive invariant.
LEMMA InvNext == Inv /\ [Next]_vars => Inv' /\ ("getdevice" \notin Failing /\ Saved => Saved')
<1> SUFFICES ASSUME Inv, [Next]_vars
             PROVE  Inv' /\ ("getdevice" \notin Failing /\ Saved => Saved')
  OBVIOUS
<1>1. TypeOK'
  BY Typed
<1> SUFFICES /\ InOp' /\ Locked' /\ Counted' /\ Kept' /\ Latching' /\ StatusIsOwn'
             /\ "getdevice" \notin Failing /\ Saved => Saved'
  BY <1>1 DEF Inv
<1>2. ASSUME NEW t \in Thread, NEW d \in Device, UseDevice(t, d)
      PROVE  /\ InOp' /\ Locked' /\ Counted' /\ Kept' /\ Latching' /\ StatusIsOwn'
             /\ Saved => Saved'
  <2>1. /\ InOp' /\ Locked' /\ Counted' /\ Kept' /\ Latching' /\ StatusIsOwn'
    BY <1>2, OutsideKeeps DEF UseDevice, moduleVars, gpuVars
  <2>2. Saved => Saved'
    BY <1>2 DEF UseDevice, SelectDevice, Saved, Inv, TypeOK, callVars, Users, Enders
  <2> QED
    BY <2>1, <2>2
<1>3. ASSUME NEW t \in Thread, Step(t)
      PROVE  /\ InOp' /\ Locked' /\ Counted' /\ Kept' /\ Latching' /\ StatusIsOwn'
             /\ "getdevice" \notin Failing /\ Saved => Saved'
  BY <1>3, StepControl, CountKept, StepKept, LatchKept, DeviceSaved
<1>4. ASSUME NEW r \in running, KernelsEnd(r)
      PROVE  /\ InOp' /\ Locked' /\ Counted' /\ Kept' /\ Latching' /\ StatusIsOwn'
             /\ Saved => Saved'
  <2>1. /\ InOp' /\ Locked' /\ Counted' /\ Kept' /\ Latching' /\ StatusIsOwn'
    BY <1>4, OutsideKeeps DEF KernelsEnd, moduleVars
  <2>2. Saved => Saved'
    BY <1>4 DEF KernelsEnd, Saved, callVars
  <2> QED
    BY <2>1, <2>2
<1>5. CASE UNCHANGED vars
  <2>1. /\ InOp' /\ Locked' /\ Counted' /\ Kept' /\ Latching' /\ StatusIsOwn'
    BY <1>5, OutsideKeeps DEF vars, moduleVars, gpuVars
  <2>2. Saved => Saved'
    BY <1>5 DEF vars, Saved, callVars
  <2> QED
    BY <2>1, <2>2
<1> QED
  BY <1>2, <1>3, <1>4, <1>5, CallKeeps DEF Next

LEMMA Invariance == Spec => []Inv
<1>1. Init => Inv
  BY InitHolds
<1>2. Inv /\ [Next]_vars => Inv'
  BY InvNext
<1> QED
  BY <1>1, <1>2, PTL DEF Spec

\* Every variable has its type: no call is counted twice, no count of loads
\* falls below zero, and every local is what the function left it.
THEOREM TypeCorrect == Spec => []TypeOK
<1>1. Inv => TypeOK
  BY DEF Inv
<1> QED
  BY <1>1, Invariance, PTL

\* No slot and no call under the locks points to a freed AotModule, and a
\* function about to be launched has its binary loaded.
THEOREM NeverDangling == Spec => []NoDangling
<1>1. Inv => NoDangling
  <2> SUFFICES ASSUME Inv PROVE NoDangling
    OBVIOUS
  <2>1. ASSUME NEW t \in Thread, pc[t] = "submit" PROVE resident[loc[t].aot][loc[t].cur] > 0
    <3>1. /\ loc[t].aot \in live /\ loc[t].cur \in Device
          /\ loc[t].cur \in devices[loc[t].aot]
      BY <2>1 DEF Inv, Kept, Owned, Placed, PlacedAt, Users
    <3>2. Ending = {}
      BY <2>1, ReadersKeepOut, Places DEF Ending, Writing, Enders
    <3> QED
      BY <3>1, <3>2 DEF Inv, Kept, ListedIsLoaded
  <2> QED
    BY <2>1 DEF NoDangling, Inv, Kept, Owned
<1> QED
  BY <1>1, Invariance, PTL

\* A kernel that runs has its binary loaded, whichever threads unload.
THEOREM RunsResident == Spec => []CodeResident
<1>1. Inv => CodeResident
  BY DEF Inv, Kept
<1> QED
  BY <1>1, Invariance, PTL

\* A module is loaded once on each device it lists and on no other.
THEOREM LoadedOnce == Spec => []ListedIsLoaded
<1>1. Inv => ListedIsLoaded
  BY DEF Inv, Kept
<1> QED
  BY <1>1, Invariance, PTL

\* An Unload that returns 0 has unloaded the module's binary everywhere.
THEOREM UnloadIsWhole == Spec => []NothingLeaked
<1>1. Inv => NothingLeaked
  BY DEF Inv, Kept
<1> QED
  BY <1>1, Invariance, PTL

\* An entry reports the failures of its own launches, all and no other.
THEOREM ReportsItsOwn == Spec => []StatusIsOwn
<1>1. Inv => StatusIsOwn
  BY DEF Inv
<1> QED
  BY <1>1, Invariance, PTL

\* Every call gives its thread the device it found, when hipGetDevice works.
THEOREM GivesDeviceBack == ASSUME "getdevice" \notin Failing PROVE Spec => []DeviceKept
<1>1. Init => Inv /\ Saved
  BY InitHolds
<1>2. (Inv /\ Saved) /\ [Next]_vars => (Inv /\ Saved)'
  BY InvNext
<1>3. Saved => DeviceKept
  BY DEF Saved, DeviceKept, Enders
<1> QED
  BY <1>1, <1>2, <1>3, PTL DEF Spec
=============================================================================
