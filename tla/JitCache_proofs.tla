-------------------------- MODULE JitCache_proofs --------------------------
(***************************************************************************)
(* Theorems about JitCache for every value of its constants: any number of *)
(* processes, threads, keys, calls and crashes.                            *)
(***************************************************************************)
EXTENDS JitCache, TLAPS

-----------------------------------------------------------------------------
(* What the helper operators return.                                       *)

\* An artifact slot.
Slot == Artifact \cup {NoArt}

\* Merging keeps a name table a name table.
LEMMA MergeType ==
  ASSUME NEW live \in NameTable, NEW added \in NameTable
  PROVE  Merge(live, added) \in NameTable
BY DEF Merge, NameTable

\* The object made of a file is an artifact.
LEMMA LoadedType ==
  ASSUME NEW i \in Id, NEW c \in Content
  PROVE  Loaded(i, c) \in Artifact
BY DEF Loaded, Artifact, Content

\* The empty table is a table, and the start values have their types.
LEMMA EmptyTypes ==
  /\ NoNames \in NameTable
  /\ NoCaches \in Caches
  /\ NoLocals \in Locals
  /\ NoHandle \in Handles
BY DEF NoNames, NameTable, NoCaches, Caches, Slots, NoLocals, Locals, CallModes,
       NoHandle, Handles

-----------------------------------------------------------------------------
(* The pieces actions are made of keep the types.                          *)

\* What a step leaves alone keeps its type.
LEMMA FrameTypes ==
  ASSUME TypeOK
  PROVE  /\ UNCHANGED diskVars => DiskTypes'
         /\ UNCHANGED nameVars => NameTypes'
         /\ UNCHANGED cache => CacheTypes'
         /\ UNCHANGED boundVars => BoundTypes'
BY DEF TypeOK, DiskTypes, NameTypes, CacheTypes, BoundTypes,
       diskVars, nameVars, boundVars

\* A thread inside a call moves on with its locals as they are.
LEMMA GotoTypes ==
  ASSUME TypeOK, NEW t \in Thread, pc[t] # "idle",
         NEW l \in PcValues, Goto(t, l), UNCHANGED <<loc, handle>>
  PROVE  ThreadTypes'
BY DEF TypeOK, ThreadTypes, Goto

\* A thread inside a call moves on with another artifact at hand.
LEMMA SetArtTypes ==
  ASSUME TypeOK, NEW t \in Thread, pc[t] # "idle",
         NEW l \in PcValues, Goto(t, l), NEW a \in Slot, SetArt(t, a), UNCHANGED handle
  PROVE  ThreadTypes'
<1>1. \A u \in Thread : loc'[u] \in Locals
  BY DEF TypeOK, ThreadTypes, SetArt, Locals, Slot
<1>2. \A u \in Thread : loc'[u].key = loc[u].key
  BY DEF TypeOK, ThreadTypes, SetArt, Locals
<1> QED
  BY <1>1, <1>2 DEF TypeOK, ThreadTypes, Goto, SetArt

\* A call ends.
LEMMA LeaveTypes ==
  ASSUME TypeOK, NEW t \in Thread, Leave(t)
  PROVE  /\ pc' \in [Thread -> PcValues] /\ loc' \in [Thread -> Locals]
         /\ \A u \in Thread : pc'[u] # "idle" => loc'[u].key \in Key
BY EmptyTypes DEF TypeOK, ThreadTypes, Leave, Goto, PcValues

\* A call ends with a CompiledFunction or without one.
LEMMA LeaveHandleTypes ==
  ASSUME TypeOK, NEW t \in Thread, NEW a \in Slot, loc[t].key \in Key
  PROVE  /\ LeavePlain(t) => ThreadTypes'
         /\ LeaveWithHandle(t, a) => ThreadTypes'
         /\ LeaveUnexecuted(t, a) => ThreadTypes'
<1>1. Mine(t).mem[KeyOf(t)] \in Slot
  BY ConstantsAssumption DEF ConstantsAssumption, TypeOK, CacheTypes, Mine, KeyOf,
     Caches, Slots, Slot
<1>2. LeavePlain(t) => ThreadTypes'
  BY LeaveTypes DEF TypeOK, ThreadTypes, LeavePlain
<1>3. LeaveWithHandle(t, a) => ThreadTypes'
  BY <1>1, LeaveTypes DEF TypeOK, ThreadTypes, LeaveWithHandle, Handles, Slot
<1> QED
  BY <1>2, <1>3 DEF LeaveUnexecuted

\* Giving the locks back keeps their types.
LEMMA ReleaseTypes ==
  ASSUME TypeOK, NEW t \in Thread, ReleaseLocks(t)
  PROVE  DiskTypes' /\ NameTypes'
BY DEF TypeOK, DiskTypes, NameTypes, ReleaseLocks

\* Accepting or rejecting an artifact's names keeps the tables typed.
LEMMA AcceptTypes ==
  ASSUME TypeOK, NEW t \in Thread, Accepted(t) \/ Rejected(t),
         loc[t].art \in Slot
  PROVE  NameTypes'
<1>1. loc[t].art.names \in NameTable
  BY EmptyTypes DEF Slot, Artifact, NoArt
<1>2. CASE Accepted(t)
  BY <1>1, <1>2, MergeType, ConstantsAssumption
  DEF ConstantsAssumption, TypeOK, NameTypes, Accepted
<1>3. CASE Rejected(t)
  BY <1>3 DEF TypeOK, NameTypes, Rejected, nameVars
<1> QED
  BY <1>2, <1>3

-----------------------------------------------------------------------------
(* Type correctness, action by action.                                     *)

LEMMA TypeInit == Init => TypeOK
<1> SUFFICES ASSUME Init PROVE TypeOK
  OBVIOUS
<1>1. DiskTypes /\ NameTypes /\ CacheTypes
  BY EmptyTypes DEF Init, DiskTypes, NameTypes, CacheTypes
<1>2. ThreadTypes
  BY EmptyTypes DEF Init, ThreadTypes, PcValues
<1>3. BoundTypes
  BY ConstantsAssumption DEF ConstantsAssumption, Init, BoundTypes
<1> QED
  BY <1>1, <1>2, <1>3 DEF TypeOK

LEMMA TypeCall ==
  ASSUME TypeOK, NEW t \in Thread, NEW k \in Key, NEW m \in Modes, Call(t, k, m)
  PROVE  TypeOK'
<1>1. ASSUME NEW u \in Thread PROVE loc'[u] \in Locals
  <2>1. CASE u # t
    BY <2>1 DEF TypeOK, ThreadTypes, Call
  <2>2. CASE u = t
    <3>1. m \in CallModes /\ loc[t] \in Locals
      BY ConstantsAssumption DEF ConstantsAssumption, TypeOK, ThreadTypes
    <3>2. loc'[t] = [loc[t] EXCEPT !.key = k, !.mode = m]
      BY DEF Call, TypeOK, ThreadTypes
    <3> QED
      BY <2>2, <3>1, <3>2 DEF Locals
  <2> QED
    BY <2>1, <2>2
<1>2. loc'[t].key = k /\ \A u \in Thread \ {t} : loc'[u] = loc[u]
  BY DEF TypeOK, ThreadTypes, Call, Locals
<1>3. ThreadTypes'
  BY <1>1, <1>2 DEF TypeOK, ThreadTypes, Call, Move, Goto, PcValues
<1>4. BoundTypes'
  BY ConstantsAssumption DEF ConstantsAssumption, TypeOK, BoundTypes, Call
<1> QED
  BY <1>3, <1>4, FrameTypes DEF TypeOK, Call

\* The cache manager's creation and its load_all.
LEMMA TypeManager ==
  ASSUME TypeOK, NEW t \in Thread,
         EnsureManager(t) \/ StoreManagerKey(t) \/ MakeManager(t)
           \/ LoadAllLock(t) \/ LoadAllRead(t) \/ LoadAllDone(t)
  PROVE  TypeOK'
<1> USE DEF Move
<1>1. CASE EnsureManager(t)
  <2>1. CacheTypes'
    BY <1>1, ConstantsAssumption
    DEF ConstantsAssumption, TypeOK, CacheTypes, EnsureManager, Caches
  <2> QED
    BY <1>1, <2>1, FrameTypes, GotoTypes DEF TypeOK, EnsureManager, PcValues
<1>2. CASE StoreManagerKey(t)
  <2>1. CacheTypes'
    BY <1>2, ConstantsAssumption
    DEF ConstantsAssumption, TypeOK, CacheTypes, StoreManagerKey, Caches
  <2> QED
    BY <1>2, <2>1, FrameTypes, GotoTypes DEF TypeOK, StoreManagerKey, PcValues
<1>3. CASE MakeManager(t)
  <2> DEFINE none == [k \in Key |-> NoArt]
  <2>1. \A c \in Caches : [c EXCEPT !.mgr = "ready", !.memory = none] \in Caches
    BY DEF Caches, Slots
  <2>1a. cache' = [cache EXCEPT ![ProcOf[t]] =
                     [cache[ProcOf[t]] EXCEPT !.mgr = "ready", !.memory = none]]
    BY <1>3, ConstantsAssumption
    DEF ConstantsAssumption, TypeOK, CacheTypes, MakeManager
  <2>1b. CacheTypes'
    BY <2>1, <2>1a, ConstantsAssumption DEF ConstantsAssumption, TypeOK, CacheTypes
  <2>2. \A u \in Thread : loc'[u] \in Locals /\ loc'[u].key = loc[u].key
    BY <1>3 DEF TypeOK, ThreadTypes, MakeManager, Locals
  <2>3. ThreadTypes'
    BY <1>3, <2>2 DEF TypeOK, ThreadTypes, MakeManager, Goto, PcValues
  <2> QED
    BY <1>3, <2>1b, <2>3, FrameTypes DEF TypeOK, MakeManager
<1>4. CASE LoadAllLock(t)
  <2>1. \A u \in Thread : loc'[u] \in Locals /\ loc'[u].key = loc[u].key
    BY <1>4 DEF TypeOK, ThreadTypes, LoadAllLock, Locals
  <2>2. ThreadTypes'
    BY <1>4, <2>1 DEF TypeOK, ThreadTypes, LoadAllLock, Goto, PcValues
  <2>3. DiskTypes'
    BY <1>4 DEF TypeOK, DiskTypes, LoadAllLock
  <2> QED
    BY <1>4, <2>2, <2>3, FrameTypes DEF TypeOK, LoadAllLock
<1>5. CASE LoadAllRead(t)
  <2>1. \A u \in Thread : loc'[u] \in Locals /\ loc'[u].key = loc[u].key
    BY <1>5 DEF TypeOK, ThreadTypes, LoadAllRead, Locals
  <2>2. ThreadTypes'
    BY <1>5, <2>1 DEF TypeOK, ThreadTypes, LoadAllRead, Goto, PcValues
  <2>3. DiskTypes'
    BY <1>5 DEF TypeOK, DiskTypes, LoadAllRead
  <2> QED
    BY <1>5, <2>2, <2>3, FrameTypes DEF TypeOK, LoadAllRead
<1>6. CASE LoadAllDone(t)
  BY <1>6, FrameTypes, GotoTypes DEF TypeOK, LoadAllDone, PcValues
<1> QED
  BY <1>1, <1>2, <1>3, <1>4, <1>5, <1>6

\* The slots a thread reads hold artifacts.
LEMMA SlotTypes ==
  ASSUME TypeOK, NEW t \in Thread, NEW k \in Key
  PROVE  /\ Mine(t) \in Caches
         /\ Mine(t).mem[k] \in Slot /\ Mine(t).memory[k] \in Slot
         /\ Mine(t).callState[k] \in Slot
         /\ loc[t] \in Locals
         /\ loc[t].art \in Slot /\ loc[t].fn \in Slot
BY ConstantsAssumption
DEF ConstantsAssumption, TypeOK, CacheTypes, ThreadTypes, Mine, Caches, Slots, Slot, Locals

\* A cache slot set to an artifact keeps the caches typed.
LEMMA SetSlotTypes ==
  ASSUME TypeOK, NEW t \in Thread, NEW k \in Key, NEW a \in Slot
  PROVE  /\ cache' = [cache EXCEPT ![ProcOf[t]].mem[k] = a] => CacheTypes'
         /\ cache' = [cache EXCEPT ![ProcOf[t]].memory[k] = a] => CacheTypes'
         /\ cache' = [cache EXCEPT ![ProcOf[t]].callState[k] = a] => CacheTypes'
         /\ cache' = [cache EXCEPT ![ProcOf[t]].last = a,
                                  ![ProcOf[t]].mem[k] = a] => CacheTypes'
<1> DEFINE c == cache[ProcOf[t]]
<1>1. c \in Caches
  BY ConstantsAssumption DEF ConstantsAssumption, TypeOK, CacheTypes
<1>2. /\ [c EXCEPT !.mem[k] = a] \in Caches
      /\ [c EXCEPT !.memory[k] = a] \in Caches
      /\ [c EXCEPT !.callState[k] = a] \in Caches
      /\ [c EXCEPT !.last = a, !.mem[k] = a] \in Caches
  BY <1>1 DEF Caches, Slots, Slot
<1>3. ProcOf[t] \in DOMAIN cache
  BY ConstantsAssumption DEF ConstantsAssumption, TypeOK, CacheTypes
<1>4. ASSUME NEW d \in Caches PROVE [cache EXCEPT ![ProcOf[t]] = d] \in [Proc -> Caches]
  BY ConstantsAssumption DEF ConstantsAssumption, TypeOK, CacheTypes
<1>5. [cache EXCEPT ![ProcOf[t]].mem[k] = a] \in [Proc -> Caches]
  BY <1>2, <1>3, <1>4
<1>6. [cache EXCEPT ![ProcOf[t]].memory[k] = a] \in [Proc -> Caches]
  BY <1>2, <1>3, <1>4
<1>7. [cache EXCEPT ![ProcOf[t]].callState[k] = a] \in [Proc -> Caches]
  BY <1>2, <1>3, <1>4
<1>8. [cache EXCEPT ![ProcOf[t]].last = a, ![ProcOf[t]].mem[k] = a] \in [Proc -> Caches]
  BY <1>2, <1>3, <1>4
<1> QED
  BY <1>5, <1>6, <1>7, <1>8 DEF CacheTypes

\* The lookups up to a cached artifact or a miss.
LEMMA TypeLookup ==
  ASSUME TypeOK, NEW t \in Thread,
         FastPath(t) \/ LookupMem(t) \/ GetMemory(t) \/ GetLock(t) \/ GetTimeout(t)
           \/ GetRead(t) \/ GetKeep(t) \/ KeepCached(t) \/ AcceptCached(t) \/ Missed(t)
  PROVE  TypeOK'
<1> USE DEF Move
<1>0. pc[t] # "idle"
  BY DEF FastPath, LookupMem, GetMemory, GetLock, GetTimeout, GetRead, GetKeep,
         KeepCached, AcceptCached, Missed
<1>k. KeyOf(t) \in Key
  BY <1>0 DEF TypeOK, ThreadTypes, KeyOf
<1>s. /\ Mine(t).mem[KeyOf(t)] \in Slot /\ Mine(t).memory[KeyOf(t)] \in Slot
      /\ Mine(t).callState[KeyOf(t)] \in Slot /\ loc[t].art \in Slot
      /\ NoArt \in Slot
  BY <1>k, SlotTypes DEF Slot
<1>1. CASE FastPath(t)
  <2>1. CASE loc' = [loc EXCEPT ![t].fn = Mine(t).callState[KeyOf(t)]] /\ UNCHANGED handle
              /\ Goto(t, "invoke")
    <3>1. \A u \in Thread : loc'[u] \in Locals /\ loc'[u].key = loc[u].key
      BY <2>1, <1>s DEF TypeOK, ThreadTypes, Locals, Slot
    <3>2. ThreadTypes'
      BY <2>1, <3>1, <1>0 DEF TypeOK, ThreadTypes, Goto, PcValues
    <3> QED
      BY <1>1, <3>2, FrameTypes DEF TypeOK, FastPath
  <2>2. CASE LeaveUnexecuted(t, Mine(t).callState[KeyOf(t)])
    BY <1>1, <2>2, <1>k, <1>s, FrameTypes, LeaveHandleTypes DEF TypeOK, FastPath, KeyOf
  <2>3. CASE Goto(t, "mem") /\ UNCHANGED <<loc, handle>>
    BY <1>1, <2>3, <1>0, FrameTypes, GotoTypes DEF TypeOK, FastPath, PcValues
  <2> QED
    BY <1>1, <2>1, <2>2, <2>3 DEF FastPath
<1>2. CASE LookupMem(t)
  <2>1. ThreadTypes'
    BY <1>2, <1>0, <1>s, GotoTypes, SetArtTypes DEF LookupMem, PcValues
  <2> QED
    BY <1>2, <2>1, FrameTypes DEF TypeOK, LookupMem
<1>3. CASE GetMemory(t)
  <2>1. ThreadTypes'
    BY <1>3, <1>0, <1>s, GotoTypes, SetArtTypes DEF GetMemory, PcValues
  <2> QED
    BY <1>3, <2>1, FrameTypes DEF TypeOK, GetMemory
<1>4. CASE GetLock(t)
  <2>1. DiskTypes'
    BY <1>4 DEF TypeOK, DiskTypes, GetLock
  <2> QED
    BY <1>4, <2>1, <1>0, FrameTypes, GotoTypes DEF TypeOK, GetLock, PcValues
<1>5. CASE GetTimeout(t)
  BY <1>5, <1>0, FrameTypes, GotoTypes DEF TypeOK, GetTimeout, PcValues
<1>6. CASE GetRead(t)
  <2>1. DiskTypes'
    BY <1>6 DEF TypeOK, DiskTypes, GetRead
  <2>2. \A i \in Id : Loaded(i, file[KeyOf(t)]) \in Slot
    BY <1>k, LoadedType DEF TypeOK, DiskTypes, Slot
  <2>3. ThreadTypes'
    BY <1>6, <1>0, <2>2, GotoTypes, SetArtTypes DEF GetRead, PcValues
  <2> QED
    BY <1>6, <2>1, <2>3, FrameTypes DEF TypeOK, GetRead
<1>7. CASE GetKeep(t)
  <2>1. CacheTypes'
    BY <1>7, <1>s, SetSlotTypes, <1>k DEF GetKeep
  <2> QED
    BY <1>7, <2>1, <1>0, FrameTypes, GotoTypes DEF TypeOK, GetKeep, PcValues
<1>8. CASE KeepCached(t)
  <2>1. CacheTypes'
    BY <1>8, <1>s, SetSlotTypes, FrameTypes, <1>k DEF KeepCached
  <2>2. ThreadTypes'
    BY <1>8, <1>0, <1>s, GotoTypes, SetArtTypes DEF KeepCached, PcValues
  <2> QED
    BY <1>8, <2>1, <2>2, FrameTypes DEF TypeOK, KeepCached
<1>9. CASE AcceptCached(t)
  <2>1. NameTypes'
    BY <1>9, <1>s, AcceptTypes DEF AcceptCached
  <2>2. ThreadTypes'
    BY <1>9, <1>0, <1>k, <1>s, GotoTypes, SetArtTypes, LeaveHandleTypes
    DEF AcceptCached, PcValues, KeyOf
  <2> QED
    BY <1>9, <2>1, <2>2, FrameTypes DEF TypeOK, AcceptCached
<1>10. CASE Missed(t)
  <2>1. CASE LeavePlain(t)
    BY <1>10, <2>1, <1>k, <1>s, FrameTypes, LeaveHandleTypes DEF TypeOK, Missed, KeyOf
  <2>2. CASE loc' = [loc EXCEPT ![t].useLock = Mine(t).mgr = "ready"]
              /\ Goto(t, "names") /\ UNCHANGED handle
    <3>1. \A u \in Thread : loc'[u] \in Locals /\ loc'[u].key = loc[u].key
      BY <2>2 DEF TypeOK, ThreadTypes, Locals
    <3>2. ThreadTypes'
      BY <2>2, <3>1, <1>0 DEF TypeOK, ThreadTypes, Goto, PcValues
    <3> QED
      BY <1>10, <3>2, FrameTypes DEF TypeOK, Missed
  <2> QED
    BY <1>10, <2>1, <2>2 DEF Missed
<1> QED
  BY <1>1, <1>2, <1>3, <1>4, <1>5, <1>6, <1>7, <1>8, <1>9, <1>10

\* A thread gives its locks back and its call ends.
LEMMA RaiseTypes ==
  ASSUME TypeOK, NEW t \in Thread, pc[t] # "idle", ReleaseLocks(t), LeavePlain(t)
  PROVE  DiskTypes' /\ NameTypes' /\ ThreadTypes'
<1>1. loc[t].key \in Key /\ NoArt \in Slot
  BY DEF TypeOK, ThreadTypes, Slot
<1> QED
  BY <1>1, ReleaseTypes, LeaveHandleTypes

\* The with statement: locks, re-check, compilation.
LEMMA TypeLocked ==
  ASSUME TypeOK, NEW t \in Thread,
         AcquireNames(t) \/ CompileLock(t) \/ CompileLockTimeout(t) \/ Recheck(t)
           \/ UnlinkCorrupt(t) \/ Adjudge(t) \/ Adopt(t) \/ Compile(t)
           \/ CompileRaises(t) \/ Capture(t)
  PROVE  TypeOK'
<1> USE DEF Move
<1>0. pc[t] # "idle"
  BY DEF AcquireNames, CompileLock, CompileLockTimeout, Recheck, UnlinkCorrupt, Adjudge,
         Adopt, Compile, CompileRaises, Capture
<1>k. KeyOf(t) \in Key
  BY <1>0 DEF TypeOK, ThreadTypes, KeyOf
<1>s. loc[t].art \in Slot /\ NoArt \in Slot
  BY <1>k, SlotTypes DEF Slot
<1>1. CASE AcquireNames(t)
  <2>1. NameTypes'
    BY <1>1 DEF TypeOK, NameTypes, AcquireNames
  <2>2. DiskTypes'
    BY <1>1 DEF TypeOK, DiskTypes, diskVars, AcquireNames
  <2> QED
    BY <1>1, <2>1, <2>2, <1>0, FrameTypes, GotoTypes DEF TypeOK, AcquireNames, PcValues
<1>2. CASE CompileLock(t)
  <2>1. DiskTypes'
    BY <1>2 DEF TypeOK, DiskTypes, CompileLock
  <2> QED
    BY <1>2, <2>1, <1>0, FrameTypes, GotoTypes DEF TypeOK, CompileLock, PcValues
<1>3. CASE CompileLockTimeout(t)
  BY <1>3, <1>0, RaiseTypes, FrameTypes DEF TypeOK, CompileLockTimeout
<1>4. CASE Recheck(t)
  <2>1. \A i \in Id : Loaded(i, file[KeyOf(t)]) \in Slot
    BY <1>k, LoadedType DEF TypeOK, DiskTypes, Slot
  <2>2. ThreadTypes'
    BY <1>4, <1>0, <2>1, GotoTypes, SetArtTypes DEF Recheck, PcValues
  <2> QED
    BY <1>4, <2>2, FrameTypes DEF TypeOK, Recheck
<1>5. CASE UnlinkCorrupt(t)
  <2>1. NoFile \in Content
    BY EmptyTypes DEF NoFile, Content, Kinds
  <2>2. DiskTypes'
    BY <1>5, <2>1 DEF TypeOK, DiskTypes, UnlinkCorrupt
  <2> QED
    BY <1>5, <2>2, <1>0, FrameTypes, GotoTypes DEF TypeOK, UnlinkCorrupt, PcValues
<1>6. CASE Adjudge(t)
  <2>1. NameTypes'
    <3>1. Accepted(t) \/ Rejected(t) \/ UNCHANGED nameVars
      BY <1>6 DEF Adjudge
    <3> QED
      BY <3>1, <1>s, AcceptTypes, FrameTypes
  <2>2. CacheTypes'
    <3>1. \/ cache' = [cache EXCEPT ![ProcOf[t]].memory[KeyOf(t)] = loc[t].art]
          \/ UNCHANGED cache
      BY <1>6 DEF Adjudge
    <3> QED
      BY <3>1, <1>k, <1>s, SetSlotTypes, FrameTypes
  <2>3. ThreadTypes'
    BY <1>6, <1>0, <1>s, GotoTypes, SetArtTypes DEF Adjudge, PcValues
  <2> QED
    BY <1>6, <2>1, <2>2, <2>3, FrameTypes DEF TypeOK, Adjudge
<1>7. CASE Adopt(t)
  <2>1. CacheTypes'
    BY <1>7, <1>s, <1>k, SetSlotTypes DEF Adopt
  <2> QED
    BY <1>7, <2>1, <1>0, FrameTypes, GotoTypes DEF TypeOK, Adopt, PcValues
<1>8. CASE Compile(t)
  <2>1. PICK i \in Id, table \in NameTable :
          SetArt(t, [id |-> i, linked |-> KeyOf(t) \in Extern, names |-> table])
    BY <1>8 DEF Compile
  <2>2. [id |-> i, linked |-> KeyOf(t) \in Extern, names |-> table] \in Slot
    BY DEF Slot, Artifact
  <2>3. ThreadTypes'
    BY <1>8, <1>0, <2>1, <2>2, SetArtTypes DEF Compile, PcValues
  <2>4. CacheTypes'
    <3>1. \A c \in Caches : [c EXCEPT !.externKeys = @ \cup ({KeyOf(t)} \cap Extern)] \in Caches
      BY <1>k DEF Caches
    <3>2. cache' = [cache EXCEPT ![ProcOf[t]] =
             [cache[ProcOf[t]] EXCEPT !.externKeys = @ \cup ({KeyOf(t)} \cap Extern)]]
      BY <1>8, ConstantsAssumption DEF ConstantsAssumption, TypeOK, CacheTypes, Compile
    <3> QED
      BY <3>1, <3>2, ConstantsAssumption DEF ConstantsAssumption, TypeOK, CacheTypes
  <2> QED
    BY <1>8, <2>3, <2>4, FrameTypes DEF TypeOK, Compile
<1>9. CASE CompileRaises(t)
  BY <1>9, <1>0, RaiseTypes, FrameTypes DEF TypeOK, CompileRaises
<1>10. CASE Capture(t)
  <2>1. CASE ReleaseLocks(t) /\ LeavePlain(t)
    BY <1>10, <2>1, <1>0, RaiseTypes, FrameTypes DEF TypeOK, Capture
  <2>2. CASE Accepted(t) /\ Goto(t, "publish") /\ UNCHANGED <<diskVars, loc, handle>>
    BY <1>10, <2>2, <1>0, <1>s, AcceptTypes, GotoTypes, FrameTypes
    DEF TypeOK, Capture, PcValues
  <2> QED
    BY <1>10, <2>1, <2>2 DEF Capture
<1> QED
  BY <1>1, <1>2, <1>3, <1>4, <1>5, <1>6, <1>7, <1>8, <1>9, <1>10

\* Publishing the artifact, the disk write, the launch.
LEMMA TypePublished ==
  ASSUME TypeOK, NEW t \in Thread,
         Publish(t) \/ WriteTemp(t) \/ Replace(t) \/ Remember(t) \/ Unlock(t)
           \/ BuildCallState(t) \/ BuildRaises(t) \/ Invoke(t)
  PROVE  TypeOK'
<1> USE DEF Move
<1>0. pc[t] # "idle"
  BY DEF Publish, WriteTemp, Replace, Remember, Unlock, BuildCallState, BuildRaises, Invoke
<1>k. KeyOf(t) \in Key
  BY <1>0 DEF TypeOK, ThreadTypes, KeyOf
<1>s. loc[t].art \in Slot /\ loc[t].fn \in Slot /\ NoArt \in Slot
  BY <1>k, SlotTypes DEF Slot
<1>1. CASE Publish(t)
  <2>1. CacheTypes'
    BY <1>1, <1>s, <1>k, SetSlotTypes DEF Publish
  <2>2. ThreadTypes'
    BY <1>1, <1>0, GotoTypes DEF Publish, PcValues
  <2> QED
    BY <1>1, <2>1, <2>2, FrameTypes DEF TypeOK, Publish
<1>2. CASE WriteTemp(t)
  BY <1>2, <1>0, FrameTypes, GotoTypes DEF TypeOK, WriteTemp, PcValues
<1>3. CASE Replace(t)
  <2>1. loc[t].art.names \in NameTable
    BY <1>s, EmptyTypes DEF Slot, Artifact, NoArt
  <2>2. DiskTypes'
    BY <1>3, <2>1 DEF TypeOK, DiskTypes, Replace, Content, Kinds
  <2>3. ThreadTypes'
    BY <1>3, <1>0, GotoTypes DEF Replace, PcValues
  <2> QED
    BY <1>3, <2>2, <2>3, FrameTypes DEF TypeOK, Replace
<1>4. CASE Remember(t)
  <2>1. CacheTypes'
    BY <1>4, <1>s, <1>k, SetSlotTypes DEF Remember
  <2> QED
    BY <1>4, <2>1, <1>0, FrameTypes, GotoTypes DEF TypeOK, Remember, PcValues
<1>5. CASE Unlock(t)
  <2>1. ThreadTypes'
    BY <1>5, <1>0, <1>k, <1>s, GotoTypes, LeaveHandleTypes DEF Unlock, PcValues, KeyOf
  <2> QED
    BY <1>5, <2>1, ReleaseTypes, FrameTypes DEF TypeOK, Unlock
<1>6. CASE BuildCallState(t)
  <2>1. CacheTypes'
    BY <1>6, <1>s, <1>k, SetSlotTypes DEF BuildCallState
  <2>2. \A u \in Thread : loc'[u] \in Locals /\ loc'[u].key = loc[u].key
    BY <1>6, <1>s DEF TypeOK, ThreadTypes, BuildCallState, Locals, Slot
  <2>3. ThreadTypes'
    BY <1>6, <2>2, <1>0 DEF TypeOK, ThreadTypes, BuildCallState, Goto, PcValues
  <2> QED
    BY <1>6, <2>1, <2>3, FrameTypes DEF TypeOK, BuildCallState
<1>7. CASE BuildRaises(t)
  BY <1>7, <1>k, <1>s, FrameTypes, LeaveHandleTypes DEF TypeOK, BuildRaises, KeyOf
<1>8. CASE Invoke(t)
  BY <1>8, <1>k, <1>s, FrameTypes, LeaveHandleTypes DEF TypeOK, Invoke, KeyOf
<1> QED
  BY <1>1, <1>2, <1>3, <1>4, <1>5, <1>6, <1>7, <1>8

LEMMA TypeCrash ==
  ASSUME TypeOK, NEW p \in Proc, Crash(p)
  PROVE  TypeOK'
<1>1. DiskTypes'
  BY DEF TypeOK, DiskTypes, Crash
<1>2. NameTypes' /\ CacheTypes'
  BY EmptyTypes DEF TypeOK, NameTypes, CacheTypes, Crash
<1>3. ThreadTypes'
  <2>1. \A u \in Thread : /\ pc'[u] \in PcValues /\ loc'[u] \in Locals /\ handle'[u] \in Handles
                          /\ pc'[u] # "idle" => loc'[u].key \in Key
    BY EmptyTypes DEF TypeOK, ThreadTypes, Crash, PcValues
  <2> QED
    BY <2>1 DEF ThreadTypes, Crash
<1>4. BoundTypes'
  BY ConstantsAssumption DEF ConstantsAssumption, TypeOK, BoundTypes, Crash
<1> QED
  BY <1>1, <1>2, <1>3, <1>4 DEF TypeOK

LEMMA TypeStep == TypeOK /\ [Next]_vars => TypeOK'
<1> SUFFICES ASSUME TypeOK, [Next]_vars PROVE TypeOK'
  OBVIOUS
<1>1. CASE UNCHANGED vars
  BY <1>1 DEF TypeOK, DiskTypes, NameTypes, CacheTypes, ThreadTypes, BoundTypes,
              vars, diskVars, nameVars, boundVars
<1>2. ASSUME NEW t \in Thread, Step(t) PROVE TypeOK'
  BY <1>2, TypeManager, TypeLookup, TypeLocked, TypePublished DEF Step
<1> QED
  BY <1>1, <1>2, TypeCall, TypeCrash DEF Next

\* In every reachable state of every instance, each variable has its type.
THEOREM TypeCorrect == Spec => []TypeOK
BY TypeInit, TypeStep, PTL DEF Spec

-----------------------------------------------------------------------------
(* The locks: the strengthening that makes BuildersExclude inductive.      *)

\* Sections only a thread that uses the file lock enters.
FileSection == {"exlock", "recheck", "unlink", "adjudge", "adopt", "write", "replace", "remember"}

\* flock's compatibility, and which lock a thread holds where.
LockInv ==
  /\ \A k \in Key, t, u \in Thread : t \in excl[k] /\ u \in excl[k] => t = u
  /\ \A k \in Key, t, u \in Thread : t \in excl[k] => u \notin shared[k]
  /\ \A t \in Thread :
       /\ pc[t] \in Guarded /\ loc[t].useLock => t \in excl[loc[t].key]
       /\ pc[t] = "getread" => t \in shared[loc[t].key]
       /\ pc[t] \in FileSection => loc[t].useLock

\* A thread that moves on without touching a file lock keeps the invariant
\* unless it enters a section the lock guards.
LEMMA LockMove ==
  ASSUME TypeOK, LockInv, NEW t \in Thread, NEW l \in PcValues, Goto(t, l),
         UNCHANGED <<shared, excl>>,
         \A u \in Thread \ {t} : loc'[u] = loc[u],
         l \in Guarded => /\ pc[t] \in Guarded \/ ~loc[t].useLock
                          /\ loc'[t].key = loc[t].key /\ loc'[t].useLock = loc[t].useLock,
         l \in FileSection => loc'[t].useLock,
         l # "getread"
  PROVE  LockInv'
<1>1. pc'[t] = l /\ \A u \in Thread \ {t} : pc'[u] = pc[u]
  BY DEF TypeOK, ThreadTypes, Goto
<1>2. ASSUME NEW u \in Thread
      PROVE  /\ pc'[u] \in Guarded /\ loc'[u].useLock => u \in excl[loc'[u].key]
             /\ pc'[u] = "getread" => u \in shared[loc'[u].key]
  <2>1. CASE u = t
    BY <1>1, <2>1 DEF LockInv, FileSection, Guarded
  <2>2. CASE u # t
    BY <1>1, <2>2 DEF LockInv, FileSection, Guarded
  <2> QED
    BY <2>1, <2>2
<1>3. \A u \in Thread : pc'[u] \in FileSection => loc'[u].useLock
  BY <1>1 DEF LockInv
<1> QED
  BY <1>2, <1>3 DEF LockInv

\* Writing a thread's own locals leaves those of the others alone.
LEMMA OwnLocals ==
  ASSUME TypeOK, NEW t \in Thread
  PROVE  /\ \A a : SetArt(t, a) => /\ \A u \in Thread \ {t} : loc'[u] = loc[u]
                                   /\ loc'[t].key = loc[t].key
                                   /\ loc'[t].useLock = loc[t].useLock
         /\ Leave(t) => \A u \in Thread \ {t} : loc'[u] = loc[u]
BY DEF TypeOK, ThreadTypes, SetArt, Leave, Locals

\* A thread that gives its locks back and leaves the section keeps it too.
LEMMA LockRelease ==
  ASSUME TypeOK, LockInv, NEW t \in Thread, ReleaseLocks(t),
         NEW l \in {"idle", "build"}, Goto(t, l),
         \A u \in Thread \ {t} : loc'[u] = loc[u]
  PROVE  LockInv'
BY DEF TypeOK, DiskTypes, ThreadTypes, LockInv, ReleaseLocks, Goto, Guarded, FileSection, KeyOf

\* Every way a call ends is a Leave.
LEMMA EveryLeave ==
  ASSUME NEW t \in Thread, NEW a
  PROVE  /\ LeavePlain(t) => Leave(t)
         /\ LeaveWithHandle(t, a) => Leave(t)
         /\ LeaveUnexecuted(t, a) => Leave(t)
         /\ Leave(t) => Goto(t, "idle")
BY DEF LeavePlain, LeaveWithHandle, LeaveUnexecuted, Leave

LEMMA LockStep ==
  ASSUME TypeOK, LockInv, NEW t \in Thread, Step(t)
  PROVE  LockInv'
<1> USE DEF Move, KeyOf
<1>1. CASE EnsureManager(t)
  BY <1>1 DEF TypeOK, DiskTypes, ThreadTypes, Locals, LockInv, Guarded, FileSection,
     Goto, diskVars, EnsureManager
<1>2. CASE StoreManagerKey(t)
  BY <1>2 DEF TypeOK, DiskTypes, ThreadTypes, Locals, LockInv, Guarded, FileSection,
     Goto, diskVars, StoreManagerKey
<1>3. CASE MakeManager(t)
  BY <1>3 DEF TypeOK, DiskTypes, ThreadTypes, Locals, LockInv, Guarded, FileSection,
     Goto, diskVars, MakeManager
<1>4. CASE LoadAllLock(t)
  <2>1. \A u \in Thread : loc'[u].key = loc[u].key /\ loc'[u].useLock = loc[u].useLock
    BY <1>4 DEF TypeOK, ThreadTypes, LoadAllLock, Locals
  <2>2. \A u \in Thread : pc'[u] \in Guarded \cup FileSection \cup {"getread"} => pc'[u] = pc[u]
    BY <1>4 DEF TypeOK, ThreadTypes, LoadAllLock, Goto, Guarded, FileSection
  <2>3. \A k \in Key : shared'[k] = shared[k] \/ (excl[k] = {} /\ shared'[k] = shared[k] \cup {t})
    BY <1>4 DEF TypeOK, DiskTypes, LoadAllLock
  <2> QED
    BY <1>4, <2>1, <2>2, <2>3 DEF LockInv, LoadAllLock, TypeOK, ThreadTypes
<1>5. CASE LoadAllRead(t)
  BY <1>5 DEF TypeOK, DiskTypes, ThreadTypes, Locals, LockInv, Guarded, FileSection,
     Goto, diskVars, LoadAllRead
<1>6. CASE LoadAllDone(t)
  BY <1>6 DEF TypeOK, DiskTypes, ThreadTypes, Locals, LockInv, Guarded, FileSection,
     Goto, diskVars, LoadAllDone
<1>7. CASE FastPath(t)
  <2>1. CASE LeaveUnexecuted(t, Mine(t).callState[KeyOf(t)])
    BY <1>7, <2>1, EveryLeave, OwnLocals, LockMove
    DEF FastPath, diskVars, PcValues, Guarded, FileSection
  <2>2. CASE ~LeaveUnexecuted(t, Mine(t).callState[KeyOf(t)])
    <3>1. \A u \in Thread \ {t} : loc'[u] = loc[u]
      BY <1>7, <2>2 DEF TypeOK, ThreadTypes, FastPath
    <3> QED
      BY <1>7, <2>2, <3>1, LockMove DEF FastPath, diskVars, PcValues, Guarded, FileSection
  <2> QED
    BY <2>1, <2>2
<1>8. CASE LookupMem(t)
  BY <1>8, OwnLocals, LockMove DEF LookupMem, diskVars, PcValues, Guarded, FileSection
<1>9. CASE GetMemory(t)
  BY SMTT(30), <1>9 DEF TypeOK, DiskTypes, ThreadTypes, Locals, LockInv, Guarded, FileSection,
     Goto, diskVars, GetMemory, SetArt
<1>10. CASE GetLock(t)
  BY <1>10 DEF TypeOK, DiskTypes, ThreadTypes, Locals, LockInv, Guarded, FileSection,
     Goto, diskVars, GetLock
<1>11. CASE GetTimeout(t)
  BY <1>11 DEF TypeOK, DiskTypes, ThreadTypes, Locals, LockInv, Guarded, FileSection,
     Goto, diskVars, GetTimeout
<1>12. CASE GetRead(t)
  BY <1>12 DEF TypeOK, DiskTypes, ThreadTypes, Locals, LockInv, Guarded, FileSection,
     Goto, diskVars, GetRead, SetArt
<1>13. CASE GetKeep(t)
  BY <1>13 DEF TypeOK, DiskTypes, ThreadTypes, Locals, LockInv, Guarded, FileSection,
     Goto, diskVars, GetKeep
<1>14. CASE KeepCached(t)
  BY <1>14, OwnLocals, LockMove DEF KeepCached, diskVars, PcValues, Guarded, FileSection
<1>15. CASE AcceptCached(t)
  BY <1>15, EveryLeave, OwnLocals, LockMove
  DEF AcceptCached, diskVars, PcValues, Guarded, FileSection
<1>16. CASE Missed(t)
  <2>1. \A u \in Thread \ {t} : loc'[u] = loc[u]
    BY <1>16, EveryLeave, OwnLocals DEF TypeOK, ThreadTypes, Missed
  <2> QED
    BY <1>16, <2>1, EveryLeave, LockMove DEF Missed, diskVars, PcValues, Guarded, FileSection
<1>17. CASE AcquireNames(t)
  BY <1>17 DEF TypeOK, DiskTypes, ThreadTypes, Locals, LockInv, Guarded, FileSection,
     Goto, diskVars, AcquireNames
<1>18. CASE CompileLock(t)
  <2>1. excl'[KeyOf(t)] = {t} /\ \A k \in Key \ {KeyOf(t)} : excl'[k] = excl[k]
    BY <1>18 DEF TypeOK, DiskTypes, ThreadTypes, CompileLock, Unlocked
  <2>2. shared' = shared /\ loc' = loc /\ Unlocked(KeyOf(t)) /\ loc[t].useLock
    BY <1>18 DEF CompileLock, LockInv, FileSection
  <2>3. \A u \in Thread \ {t} : pc'[u] = pc[u]
    BY <1>18 DEF TypeOK, ThreadTypes, CompileLock, Goto
  <2>4. pc'[t] = "recheck"
    BY <1>18 DEF TypeOK, ThreadTypes, CompileLock, Goto
  <2>5. \A u \in Thread : pc[u] \in Guarded /\ loc[u].useLock => loc[u].key # KeyOf(t)
    BY <2>2 DEF LockInv, Unlocked
  <2>6. \A u \in Thread :
          /\ pc'[u] \in Guarded /\ loc'[u].useLock => u \in excl'[loc'[u].key]
          /\ pc'[u] = "getread" => u \in shared'[loc'[u].key]
          /\ pc'[u] \in FileSection => loc'[u].useLock
    BY <2>1, <2>2, <2>3, <2>4, <2>5 DEF LockInv, Guarded, FileSection, TypeOK, ThreadTypes
  <2> QED
    BY <2>1, <2>2, <2>6 DEF LockInv, Unlocked
<1>19. CASE CompileLockTimeout(t)
  BY <1>19, EveryLeave, OwnLocals, LockRelease DEF CompileLockTimeout
<1>20. CASE Recheck(t)
  BY <1>20, OwnLocals, LockMove DEF Recheck, diskVars, PcValues, Guarded, FileSection, LockInv
<1>21. CASE UnlinkCorrupt(t)
  BY <1>21 DEF TypeOK, DiskTypes, ThreadTypes, Locals, LockInv, Guarded, FileSection,
     Goto, diskVars, UnlinkCorrupt
<1>22. CASE Adjudge(t)
  BY <1>22, OwnLocals, LockMove DEF Adjudge, diskVars, PcValues, Guarded, FileSection, LockInv
<1>23. CASE Adopt(t)
  BY <1>23 DEF TypeOK, DiskTypes, ThreadTypes, Locals, LockInv, Guarded, FileSection,
     Goto, diskVars, Adopt
<1>24. CASE Compile(t)
  BY <1>24 DEF TypeOK, DiskTypes, ThreadTypes, Locals, LockInv, Guarded, FileSection,
     Goto, diskVars, Compile, SetArt
<1>25. CASE CompileRaises(t)
  BY <1>25, EveryLeave, OwnLocals, LockRelease DEF CompileRaises
<1>26. CASE Capture(t)
  <2>1. CASE ReleaseLocks(t) /\ LeavePlain(t)
    BY <2>1, EveryLeave, OwnLocals, LockRelease
  <2>2. CASE Accepted(t) /\ Goto(t, "publish") /\ UNCHANGED <<diskVars, loc, handle>>
    BY <1>26, <2>2, LockMove DEF Capture, diskVars, PcValues, Guarded, FileSection
  <2> QED
    BY <1>26, <2>1, <2>2 DEF Capture
<1>27. CASE Publish(t)
  BY <1>27 DEF TypeOK, DiskTypes, ThreadTypes, Locals, LockInv, Guarded, FileSection,
     Goto, diskVars, Publish, Stores
<1>28. CASE WriteTemp(t)
  BY <1>28 DEF TypeOK, DiskTypes, ThreadTypes, Locals, LockInv, Guarded, FileSection,
     Goto, diskVars, WriteTemp
<1>29. CASE Replace(t)
  BY <1>29 DEF TypeOK, DiskTypes, ThreadTypes, Locals, LockInv, Guarded, FileSection,
     Goto, diskVars, Replace
<1>30. CASE Remember(t)
  BY <1>30 DEF TypeOK, DiskTypes, ThreadTypes, Locals, LockInv, Guarded, FileSection,
     Goto, diskVars, Remember
<1>31. CASE Unlock(t)
  BY <1>31, EveryLeave, OwnLocals, LockRelease DEF Unlock
<1>32. CASE BuildCallState(t)
  BY <1>32 DEF TypeOK, DiskTypes, ThreadTypes, Locals, LockInv, Guarded, FileSection,
     Goto, diskVars, BuildCallState
<1>33. CASE BuildRaises(t)
  BY <1>33 DEF TypeOK, DiskTypes, ThreadTypes, Locals, LockInv, Guarded, FileSection,
     Goto, diskVars, BuildRaises, LeavePlain, Leave, NoLocals
<1>34. CASE Invoke(t)
  BY <1>34, EveryLeave, OwnLocals, LockMove DEF Invoke, diskVars, PcValues, Guarded, FileSection
<1> QED
  BY <1>1, <1>2, <1>3, <1>4, <1>5, <1>6, <1>7, <1>8, <1>9, <1>10, <1>11, <1>12,
     <1>13, <1>14, <1>15, <1>16, <1>17, <1>18, <1>19, <1>20, <1>21, <1>22, <1>23, <1>24,
     <1>25, <1>26, <1>27, <1>28, <1>29, <1>30, <1>31, <1>32, <1>33, <1>34
  DEF Step

LEMMA LockInit == Init => LockInv
BY DEF Init, LockInv, Guarded, FileSection

LEMMA LockCall ==
  ASSUME TypeOK, LockInv, NEW t \in Thread, NEW k \in Key, NEW m \in Modes, Call(t, k, m)
  PROVE  LockInv'
<1>1. \A u \in Thread \ {t} : loc'[u] = loc[u]
  BY DEF TypeOK, ThreadTypes, Call
<1> QED
  BY <1>1, LockMove DEF Call, Move, diskVars, PcValues, Guarded, FileSection

LEMMA LockCrash ==
  ASSUME TypeOK, LockInv, NEW p \in Proc, Crash(p)
  PROVE  LockInv'
<1> DEFINE dead == ThreadsOf(p)
<1>1. /\ shared' = [k \in Key |-> shared[k] \ dead]
      /\ excl' = [k \in Key |-> excl[k] \ dead]
  BY DEF Crash
<1>2. \A u \in Thread : pc'[u] # "idle" => u \notin dead /\ pc'[u] = pc[u] /\ loc'[u] = loc[u]
  BY DEF Crash
<1>3. \A u \in Thread : pc'[u] \in Guarded \cup FileSection \cup {"getread"} => pc'[u] # "idle"
  BY DEF Guarded, FileSection
<1> HIDE DEF dead
<1> QED
  BY <1>1, <1>2, <1>3 DEF TypeOK, ThreadTypes, LockInv, Guarded, FileSection

LEMMA LockNext == TypeOK /\ LockInv /\ [Next]_vars => LockInv'
<1> SUFFICES ASSUME TypeOK, LockInv, [Next]_vars PROVE LockInv'
  OBVIOUS
<1>1. CASE UNCHANGED vars
  BY <1>1 DEF LockInv, vars, diskVars
<1> QED
  BY <1>1, LockCall, LockStep, LockCrash DEF Next

LEMMA LockExcludes == TypeOK /\ LockInv => BuildersExclude
BY DEF TypeOK, ThreadTypes, LockInv, BuildersExclude, Building

\* At most one thread of any process is building a key under the file lock,
\* and nobody reads the key's file meanwhile, however many threads, processes
\* and crashes there are.
THEOREM BuildersAreExclusive == Spec => []BuildersExclude
<1>1. Init => TypeOK /\ LockInv
  BY TypeInit, LockInit
<1>2. TypeOK /\ LockInv /\ [Next]_vars => (TypeOK /\ LockInv)'
  BY TypeStep, LockNext
<1> QED
  BY <1>1, <1>2, LockExcludes, PTL DEF Spec

-----------------------------------------------------------------------------
(* Steps touch the file of the lock holder's key only.                     *)

\* A step of a thread is a step of no other thread.
LEMMA OthersStay ==
  ASSUME TypeOK, NEW t \in Thread, Step(t), NEW u \in Thread, u # t
  PROVE  pc'[u] = pc[u] /\ loc'[u] = loc[u]
<1> USE DEF TypeOK, ThreadTypes, Goto, Move, SetArt, Leave, LeavePlain, LeaveWithHandle,
            LeaveUnexecuted, nameVars
<1>1. CASE EnsureManager(t) \/ StoreManagerKey(t) \/ MakeManager(t) \/ LoadAllLock(t)
             \/ LoadAllRead(t) \/ LoadAllDone(t)
  BY <1>1 DEF EnsureManager, StoreManagerKey, MakeManager, LoadAllLock, LoadAllRead, LoadAllDone
<1>2. CASE FastPath(t) \/ LookupMem(t) \/ GetMemory(t) \/ GetLock(t) \/ GetTimeout(t)
             \/ GetRead(t) \/ GetKeep(t) \/ KeepCached(t) \/ AcceptCached(t) \/ Missed(t)
  BY <1>2 DEF FastPath, LookupMem, GetMemory, GetLock, GetTimeout, GetRead, GetKeep,
              KeepCached, AcceptCached, Missed
<1>3. CASE AcquireNames(t) \/ CompileLock(t) \/ CompileLockTimeout(t) \/ Recheck(t)
             \/ UnlinkCorrupt(t) \/ Adjudge(t) \/ Adopt(t) \/ Compile(t)
             \/ CompileRaises(t) \/ Capture(t)
  BY <1>3 DEF AcquireNames, CompileLock, CompileLockTimeout, Recheck, UnlinkCorrupt, Adjudge,
              Adopt, Compile, CompileRaises, Capture
<1>4. CASE Publish(t) \/ WriteTemp(t) \/ Replace(t) \/ Remember(t) \/ Unlock(t)
             \/ BuildCallState(t) \/ BuildRaises(t) \/ Invoke(t)
  BY <1>4 DEF Publish, WriteTemp, Replace, Remember, Unlock, BuildCallState, BuildRaises, Invoke
<1> QED
  BY <1>1, <1>2, <1>3, <1>4 DEF Step

\* Only unlink and replace change a file.
LEMMA FileKept ==
  ASSUME TypeOK, NEW t \in Thread, Step(t)
  PROVE  UNCHANGED file \/ UnlinkCorrupt(t) \/ Replace(t)
<1> USE DEF diskVars, ReleaseLocks
<1>2. CASE EnsureManager(t) \/ StoreManagerKey(t) \/ MakeManager(t) \/ LoadAllLock(t)
             \/ LoadAllRead(t) \/ LoadAllDone(t)
  BY <1>2 DEF EnsureManager, StoreManagerKey, MakeManager, LoadAllLock, LoadAllRead, LoadAllDone
<1>3. CASE FastPath(t) \/ LookupMem(t) \/ GetMemory(t) \/ GetLock(t) \/ GetTimeout(t)
             \/ GetRead(t) \/ GetKeep(t) \/ KeepCached(t) \/ AcceptCached(t) \/ Missed(t)
  BY <1>3 DEF FastPath, LookupMem, GetMemory, GetLock, GetTimeout, GetRead, GetKeep,
              KeepCached, AcceptCached, Missed
<1>4. CASE AcquireNames(t) \/ CompileLock(t) \/ CompileLockTimeout(t) \/ Recheck(t)
             \/ Adjudge(t) \/ Adopt(t) \/ Compile(t) \/ CompileRaises(t) \/ Capture(t)
  BY <1>4 DEF AcquireNames, CompileLock, CompileLockTimeout, Recheck, Adjudge,
              Adopt, Compile, CompileRaises, Capture
<1>5. CASE Publish(t) \/ WriteTemp(t) \/ Remember(t) \/ Unlock(t)
             \/ BuildCallState(t) \/ BuildRaises(t) \/ Invoke(t)
  BY <1>5 DEF Publish, WriteTemp, Remember, Unlock, BuildCallState, BuildRaises, Invoke
<1> QED
  BY <1>2, <1>3, <1>4, <1>5 DEF Step

\* Only unlink and replace change a file, and only the lock holder's.
LEMMA FileStep ==
  ASSUME TypeOK, LockInv, NEW t \in Thread, Step(t)
  PROVE  \/ UNCHANGED file
         \/ /\ UnlinkCorrupt(t) \/ Replace(t)
            /\ t \in excl[loc[t].key] /\ UNCHANGED excl
            /\ \A k \in Key \ {loc[t].key} : file'[k] = file[k]
<1>1. CASE UnlinkCorrupt(t) \/ Replace(t)
  <2>1. t \in excl[loc[t].key]
    BY <1>1 DEF LockInv, UnlinkCorrupt, Replace, Move, FileSection, Guarded
  <2>2. UNCHANGED excl
    BY <1>1 DEF UnlinkCorrupt, Replace
  <2>3. \A k \in Key \ {loc[t].key} : file'[k] = file[k]
    BY <1>1 DEF TypeOK, DiskTypes, UnlinkCorrupt, Replace, KeyOf
  <2> QED
    BY <1>1, <2>1, <2>2, <2>3
<1> QED
  BY <1>1, FileKept

-----------------------------------------------------------------------------
(* What the lock holder knows about its file.                              *)

Compiling == {"compile", "capture", "publish", "write", "replace"}
Named     == {"capture", "publish", "write", "replace"}

\* Files of untraced keys carry no event names.
PlainFiles == \A k \in Key \ Traced : file[k].names = NoNames

\* What the re-check saw still holds, and untraced compilations have no names.
Knows(t) ==
  /\ pc[t] = "unlink" => file[loc[t].key].kind = "corrupt"
  /\ pc[t] = "adjudge" =>
       /\ loc[t].art.linked = (file[loc[t].key].kind = "linked")
       /\ loc[t].art.names = file[loc[t].key].names
       /\ file[loc[t].key].kind \in {"good", "linked"}
  /\ pc[t] \in Named /\ loc[t].key \in Key \ Traced => loc[t].art.names = NoNames
  /\ pc[t] \in Compiling /\ loc[t].useLock /\ loc[t].key \in Key \ Traced
       => file[loc[t].key].kind # "good"

FileInv == PlainFiles /\ \A t \in Thread : Knows(t)

\* An artifact without names conflicts with nothing.
LEMMA PlainCompatible ==
  ASSUME NEW live \in NameTable
  PROVE  Compatible(live, NoNames)
BY DEF Compatible, NoNames

LEMMA PlainStep ==
  ASSUME TypeOK, LockInv, FileInv, NEW t \in Thread, Step(t)
  PROVE  PlainFiles'
<1>1. CASE UNCHANGED file
  BY <1>1 DEF FileInv, PlainFiles
<1>2. CASE UnlinkCorrupt(t)
  BY <1>2 DEF FileInv, PlainFiles, UnlinkCorrupt, NoFile, TypeOK, DiskTypes
<1>3. CASE Replace(t)
  BY <1>3 DEF FileInv, PlainFiles, Knows, Named, Replace, KeyOf, TypeOK, DiskTypes
<1> QED
  BY <1>1, <1>2, <1>3, FileStep

\* No step disturbs what another thread knows.
LEMMA KnowsOthers ==
  ASSUME TypeOK, LockInv, FileInv, NEW t \in Thread, Step(t), NEW u \in Thread, u # t
  PROVE  Knows(u)'
<1>1. pc'[u] = pc[u] /\ loc'[u] = loc[u]
  BY OthersStay
<1>2. CASE UNCHANGED file
  BY <1>1, <1>2 DEF FileInv, Knows
<1>3. CASE t \in excl[loc[t].key] /\ \A k \in Key \ {loc[t].key} : file'[k] = file[k]
  <2>1. CASE pc[u] \in Guarded /\ loc[u].useLock
    <3>1. u \in excl[loc[u].key] /\ loc[u].key \in Key
      BY <2>1 DEF LockInv, TypeOK, ThreadTypes, Guarded
    <3>2. loc[u].key # loc[t].key
      BY <1>3, <3>1 DEF LockInv
    <3> QED
      BY <1>1, <1>3, <3>1, <3>2 DEF FileInv, Knows
  <2>2. CASE ~(pc[u] \in Guarded /\ loc[u].useLock)
    <3>1. pc[u] \notin {"unlink", "adjudge"} /\ ~(pc[u] \in Compiling /\ loc[u].useLock)
      BY <2>2 DEF LockInv, Guarded, FileSection, Compiling
    <3> QED
      BY <1>1, <3>1 DEF FileInv, Knows
  <2> QED
    BY <2>1, <2>2
<1> QED
  BY <1>2, <1>3, FileStep

\* A thread's own step keeps what it knows.
LEMMA KnowsOwn ==
  ASSUME TypeOK, LockInv, FileInv, NEW t \in Thread, Step(t)
  PROVE  Knows(t)'
<1> USE DEF Move, KeyOf
<1>0. Knows(t) /\ PlainFiles
  BY DEF FileInv
<1>1. CASE Recheck(t)
  <2>1. file' = file /\ loc'[t].key = loc[t].key
    BY <1>1, OwnLocals DEF Recheck, diskVars
  <2>2. CASE pc'[t] = "adjudge"
    BY <1>1, <2>1, <2>2
    DEF Recheck, Goto, SetArt, Loaded, Knows, Named, Compiling, TypeOK, ThreadTypes, Locals
  <2>3. CASE pc'[t] # "adjudge"
    BY <1>1, <2>1, <2>3 DEF Recheck, Goto, Knows, Named, Compiling, TypeOK, ThreadTypes
  <2> QED
    BY <2>2, <2>3
<1>2. CASE UnlinkCorrupt(t)
  BY <1>0, <1>2
  DEF UnlinkCorrupt, Goto, Knows, Named, Compiling, NoFile, TypeOK, DiskTypes, ThreadTypes
<1>3. CASE Adjudge(t)
  <2>1. file' = file /\ pc'[t] \in {"adopt", "compile"}
    BY <1>3 DEF Adjudge, diskVars, Goto, TypeOK, ThreadTypes
  <2>2. loc'[t].key = loc[t].key
    BY <1>3, OwnLocals DEF Adjudge
  <2>3. CASE pc'[t] = "compile" /\ loc[t].key \in Key \ Traced
    <3>1. Refused(loc[t].art) \/ Rejected(t)
      BY <1>3, <2>3 DEF Adjudge, Goto, TypeOK, ThreadTypes
    <3>2. CASE Rejected(t)
      <4>1. loc[t].art.names = NoNames
        BY <1>0, <1>3, <2>3 DEF Knows, PlainFiles, Adjudge
      <4>2. names[ProcOf[t]] \in NameTable
        BY ConstantsAssumption DEF ConstantsAssumption, TypeOK, NameTypes
      <4> QED
        BY <3>2, <4>1, <4>2, PlainCompatible DEF Rejected
    <3>3. CASE Refused(loc[t].art)
      <4>1. file[loc[t].key].kind # "good"
        BY <1>0, <1>3, <3>3 DEF Knows, Adjudge, Refused
      <4> QED
        BY <2>1, <2>2, <2>3, <4>1 DEF Knows, Named
    <3> QED
      BY <3>1, <3>2, <3>3
  <2> QED
    BY <2>1, <2>2, <2>3 DEF Knows, Named, Compiling
<1>4. CASE AcquireNames(t)
  BY <1>4 DEF AcquireNames, Goto, Knows, Named, Compiling, TypeOK, ThreadTypes
<1>5. CASE Compile(t)
  <2>1. PICK i \in Id, table \in NameTable :
          /\ loc[t].key \notin Traced => table = NoNames
          /\ SetArt(t, [id |-> i, linked |-> KeyOf(t) \in Extern, names |-> table])
    BY <1>5 DEF Compile
  <2>2. loc'[t].art.names = table
    BY <2>1 DEF SetArt, TypeOK, ThreadTypes, Locals
  <2>3. loc'[t].key = loc[t].key /\ loc'[t].useLock = loc[t].useLock
    BY <2>1, OwnLocals
  <2> QED
    BY <1>0, <1>5, <2>1, <2>2, <2>3
    DEF Compile, Goto, Knows, Named, Compiling, diskVars, TypeOK, ThreadTypes
<1>6. CASE Capture(t) \/ Publish(t) \/ WriteTemp(t)
  BY <1>0, <1>6, EveryLeave
  DEF Capture, Publish, WriteTemp, Goto, ReleaseLocks, Knows, Named, Compiling, diskVars,
      TypeOK, ThreadTypes
<1>7. CASE pc'[t] \notin Compiling \cup {"unlink", "adjudge"}
  BY <1>7 DEF Knows, Named, Compiling
<1> QED
  <2> USE DEF TypeOK, ThreadTypes, Goto, Leave, LeavePlain, LeaveWithHandle,
              LeaveUnexecuted, nameVars, Compiling
  <2>1. CASE EnsureManager(t) \/ StoreManagerKey(t) \/ MakeManager(t) \/ LoadAllLock(t)
               \/ LoadAllRead(t) \/ LoadAllDone(t)
    BY <1>7, <2>1 DEF EnsureManager, StoreManagerKey, MakeManager, LoadAllLock, LoadAllRead,
                      LoadAllDone
  <2>2. CASE FastPath(t) \/ LookupMem(t) \/ GetMemory(t) \/ GetLock(t) \/ GetTimeout(t)
               \/ GetRead(t) \/ GetKeep(t) \/ KeepCached(t) \/ AcceptCached(t) \/ Missed(t)
    BY <1>7, <2>2 DEF FastPath, LookupMem, GetMemory, GetLock, GetTimeout, GetRead, GetKeep,
                      KeepCached, AcceptCached, Missed
  <2>3. CASE CompileLock(t) \/ CompileLockTimeout(t) \/ Adopt(t) \/ CompileRaises(t)
               \/ Replace(t) \/ Remember(t) \/ Unlock(t)
               \/ BuildCallState(t) \/ BuildRaises(t) \/ Invoke(t)
    BY <1>7, <2>3 DEF CompileLock, CompileLockTimeout, Adopt, CompileRaises, Replace, Remember,
                      Unlock, BuildCallState, BuildRaises, Invoke
  <2> QED
    BY <1>1, <1>2, <1>3, <1>4, <1>5, <1>6, <2>1, <2>2, <2>3 DEF Step

LEMMA FileInit == Init => FileInv
<1> SUFFICES ASSUME Init PROVE FileInv
  OBVIOUS
<1>1. PlainFiles
  BY DEF Init, InitFile, TablesNaming, PlainFiles
<1>2. \A t \in Thread : Knows(t)
  BY DEF Init, Knows, Named, Compiling
<1> QED
  BY <1>1, <1>2 DEF FileInv

LEMMA FileNext == TypeOK /\ LockInv /\ FileInv /\ [Next]_vars => FileInv'
<1> SUFFICES ASSUME TypeOK, LockInv, FileInv, [Next]_vars PROVE FileInv'
  OBVIOUS
<1>1. CASE UNCHANGED vars
  BY <1>1 DEF FileInv, PlainFiles, Knows, vars, diskVars
<1>2. ASSUME NEW t \in Thread, Step(t) PROVE FileInv'
  BY <1>2, PlainStep, KnowsOthers, KnowsOwn DEF FileInv
<1>3. ASSUME NEW t \in Thread, NEW k \in Key, NEW m \in Modes, Call(t, k, m) PROVE FileInv'
  <2>1. UNCHANGED file /\ pc'[t] = "ensure"
    BY <1>3 DEF Call, Move, Goto, diskVars, TypeOK, ThreadTypes
  <2>2. \A u \in Thread \ {t} : pc'[u] = pc[u] /\ loc'[u] = loc[u]
    BY <1>3 DEF Call, Move, Goto, TypeOK, ThreadTypes
  <2> QED
    BY <2>1, <2>2 DEF FileInv, PlainFiles, Knows, Named, Compiling
<1>4. ASSUME NEW p \in Proc, Crash(p) PROVE FileInv'
  <2>1. UNCHANGED file
    BY <1>4 DEF Crash
  <2>2. \A u \in Thread : pc'[u] = "idle" \/ (pc'[u] = pc[u] /\ loc'[u] = loc[u])
    BY <1>4 DEF Crash
  <2> QED
    BY <2>1, <2>2 DEF FileInv, PlainFiles, Knows, Named, Compiling
<1> QED
  BY <1>1, <1>2, <1>3, <1>4 DEF Next

\* The three invariants together are inductive.
LEMMA StoreInvariants == Spec => [](TypeOK /\ LockInv /\ FileInv)
<1>1. Init => TypeOK /\ LockInv /\ FileInv
  BY TypeInit, LockInit, FileInit
<1>2. TypeOK /\ LockInv /\ FileInv /\ [Next]_vars => (TypeOK /\ LockInv /\ FileInv)'
  BY TypeStep, LockNext, FileNext
<1> QED
  BY <1>1, <1>2, PTL DEF Spec

\* Nobody who took the file lock compiles an untraced key whose file can be
\* loaded: waiting for another process's compilation always pays.
THEOREM NothingRebuilt == Spec => []NoRebuild
<1>1. TypeOK /\ FileInv => NoRebuild
  BY DEF TypeOK, ThreadTypes, FileInv, Knows, Compiling, NoRebuild
<1> QED
  BY <1>1, StoreInvariants, PTL

-----------------------------------------------------------------------------
(* The directory implements the abstract store.                            *)

\* What a step does to the exclusive locks.
LEMMA ExclStep ==
  ASSUME TypeOK, NEW t \in Thread, Step(t)
  PROVE  \/ UNCHANGED excl
         \/ CompileLock(t)
         \/ ReleaseLocks(t)
<1> USE DEF diskVars
<1>1. CASE EnsureManager(t) \/ StoreManagerKey(t) \/ MakeManager(t) \/ LoadAllLock(t)
             \/ LoadAllRead(t) \/ LoadAllDone(t)
  BY <1>1 DEF EnsureManager, StoreManagerKey, MakeManager, LoadAllLock, LoadAllRead, LoadAllDone
<1>2. CASE FastPath(t) \/ LookupMem(t) \/ GetMemory(t) \/ GetLock(t) \/ GetTimeout(t)
             \/ GetRead(t) \/ GetKeep(t) \/ KeepCached(t) \/ AcceptCached(t) \/ Missed(t)
  BY <1>2 DEF FastPath, LookupMem, GetMemory, GetLock, GetTimeout, GetRead, GetKeep,
              KeepCached, AcceptCached, Missed
<1>3. CASE AcquireNames(t) \/ CompileLock(t) \/ CompileLockTimeout(t) \/ Recheck(t)
             \/ UnlinkCorrupt(t) \/ Adjudge(t) \/ Adopt(t) \/ Compile(t)
             \/ CompileRaises(t) \/ Capture(t)
  BY <1>3 DEF AcquireNames, CompileLockTimeout, Recheck, UnlinkCorrupt, Adjudge, Adopt,
              Compile, CompileRaises, Capture
<1>4. CASE Publish(t) \/ WriteTemp(t) \/ Replace(t) \/ Remember(t) \/ Unlock(t)
             \/ BuildCallState(t) \/ BuildRaises(t) \/ Invoke(t)
  BY <1>4 DEF Publish, WriteTemp, Replace, Remember, Unlock, BuildCallState, BuildRaises, Invoke
<1> QED
  BY <1>1, <1>2, <1>3, <1>4 DEF Step

\* The entries of the abstract store, as a function of the files.
entries == [k \in Key |-> Entry(file[k])]

LEMMA StoreInit == Init => Store!Init
BY DEF Init, Store!Init, Store!Entries, Entry

LEMMA StoreStep ==
  ASSUME TypeOK, LockInv, FileInv, NEW t \in Thread, Step(t)
  PROVE  [Store!Next]_(Store!vars)
<1> DEFINE k == loc[t].key
<1>1. CASE UnlinkCorrupt(t)
  <2>1. k \in Key /\ t \in excl[k] /\ UNCHANGED excl
    BY <1>1, FileStep DEF LockInv, UnlinkCorrupt, Move, FileSection, Guarded, TypeOK, ThreadTypes
  <2>2. entries[k] = "unusable"
    BY <1>1, <2>1 DEF FileInv, Knows, UnlinkCorrupt, Move, Entry, entries
  <2>3. CASE UNCHANGED file
    BY <2>1, <2>3 DEF Store!vars
  <2>4. CASE file' = [file EXCEPT ![k] = NoFile]
    <3>1. entries' = [entries EXCEPT ![k] = "empty"]
      BY <2>1, <2>4 DEF entries, Entry, NoFile, TypeOK, DiskTypes
    <3>2. Store!Discard(t, k)
      BY <2>1, <2>2, <3>1 DEF Store!Discard, entries
    <3> QED
      BY <2>1, <3>2 DEF Store!Next
  <2> QED
    BY <1>1, <2>3, <2>4 DEF UnlinkCorrupt, KeyOf
<1>2. CASE Replace(t)
  <2>1. k \in Key /\ t \in excl[k] /\ UNCHANGED excl
    BY <1>2 DEF LockInv, Replace, FileSection, Guarded, TypeOK, ThreadTypes
  <2>3. CASE UNCHANGED file
    BY <2>1, <2>3 DEF Store!vars
  <2>4. CASE file' = [file EXCEPT ![k] = [kind |-> "good", names |-> loc[t].art.names]]
    <3>1. entries' = [entries EXCEPT ![k] = "loadable"]
      BY <2>1, <2>4 DEF entries, Entry, TypeOK, DiskTypes
    <3>2. Store!Store(t, k)
      BY <2>1, <3>1 DEF Store!Store, entries
    <3> QED
      BY <2>1, <3>2 DEF Store!Next
  <2> QED
    BY <1>2, <2>3, <2>4 DEF Replace, KeyOf
<1>3. CASE UNCHANGED file /\ UNCHANGED excl
  BY <1>3 DEF Store!vars
<1>4. CASE CompileLock(t)
  <2>1. k \in Key /\ excl[k] = {} /\ UNCHANGED file
    BY <1>4 DEF CompileLock, Move, KeyOf, Unlocked, TypeOK, ThreadTypes
  <2>2. excl' = [excl EXCEPT ![k] = {t}]
    BY <1>4, <2>1 DEF CompileLock, KeyOf, TypeOK, DiskTypes
  <2>3. Store!Enter(t, k)
    BY <2>1, <2>2 DEF Store!Enter
  <2> QED
    BY <2>1, <2>3 DEF Store!Next
<1>5. CASE ReleaseLocks(t)
  <2>1. UNCHANGED file /\ excl' = [excl EXCEPT ![k] = @ \ {t}]
    BY <1>5 DEF ReleaseLocks, KeyOf
  <2>2. CASE k \in Key /\ t \in excl[k]
    BY <2>1, <2>2 DEF Store!Next, Store!Quit
  <2>3. CASE ~(k \in Key /\ t \in excl[k])
    <3>1. UNCHANGED excl
      BY <2>1, <2>3 DEF TypeOK, DiskTypes
    <3> QED
      BY <2>1, <3>1 DEF Store!vars
  <2> QED
    BY <2>2, <2>3
<1>6. UNCHANGED file \/ UnlinkCorrupt(t) \/ Replace(t)
  BY FileStep
<1> QED
  BY <1>1, <1>2, <1>3, <1>4, <1>5, <1>6, ExclStep

\* The shared directory, with its locks, re-checks, temporary files, timeouts
\* and killed processes, implements the abstract store.
THEOREM StoreImplemented == Spec => StoreSpec
<1>1. TypeOK /\ LockInv /\ FileInv /\ [Next]_vars => [Store!Next]_(Store!vars)
  <2> SUFFICES ASSUME TypeOK, LockInv, FileInv, [Next]_vars
               PROVE  [Store!Next]_(Store!vars)
    OBVIOUS
  <2>1. CASE UNCHANGED vars
    BY <2>1 DEF vars, diskVars, Store!vars
  <2>2. ASSUME NEW t \in Thread, NEW k \in Key, NEW m \in Modes, Call(t, k, m)
        PROVE  [Store!Next]_(Store!vars)
    BY <2>2 DEF Call, diskVars, Store!vars
  <2>3. ASSUME NEW p \in Proc, Crash(p) PROVE [Store!Next]_(Store!vars)
    <3>1. Store!Exit(ThreadsOf(p))
      BY <2>3 DEF Crash, Store!Exit
    <3>2. ThreadsOf(p) \in SUBSET Thread
      BY DEF ThreadsOf
    <3> QED
      BY <3>1, <3>2 DEF Store!Next
  <2> QED
    BY <2>1, <2>2, <2>3, StoreStep DEF Next
<1> QED
  BY <1>1, StoreInit, StoreInvariants, PTL DEF Spec, StoreSpec, Store!Spec

-----------------------------------------------------------------------------
(* What a step does to the memory of the process.                          *)

\* A thread leaves the memory of other processes alone.
LEMMA OtherProcess ==
  ASSUME TypeOK, NEW t \in Thread, Step(t), NEW p \in Proc, p # ProcOf[t]
  PROVE  cache'[p] = cache[p] /\ names'[p] = names[p] /\ namesLock'[p] = namesLock[p]
<1> USE DEF TypeOK, CacheTypes, NameTypes, nameVars, Accepted, Rejected, ReleaseLocks
<1>1. CASE EnsureManager(t) \/ StoreManagerKey(t) \/ MakeManager(t) \/ LoadAllLock(t)
             \/ LoadAllRead(t) \/ LoadAllDone(t)
  BY <1>1 DEF EnsureManager, StoreManagerKey, MakeManager, LoadAllLock, LoadAllRead, LoadAllDone
<1>2. CASE FastPath(t) \/ LookupMem(t) \/ GetMemory(t) \/ GetLock(t) \/ GetTimeout(t)
             \/ GetRead(t) \/ GetKeep(t) \/ KeepCached(t) \/ AcceptCached(t) \/ Missed(t)
  BY <1>2 DEF FastPath, LookupMem, GetMemory, GetLock, GetTimeout, GetRead, GetKeep,
              KeepCached, AcceptCached, Missed
<1>3. CASE AcquireNames(t) \/ CompileLock(t) \/ CompileLockTimeout(t) \/ Recheck(t)
             \/ UnlinkCorrupt(t) \/ Adjudge(t) \/ Adopt(t) \/ Compile(t)
             \/ CompileRaises(t) \/ Capture(t)
  BY <1>3 DEF AcquireNames, CompileLock, CompileLockTimeout, Recheck, UnlinkCorrupt, Adjudge,
              Adopt, Compile, CompileRaises, Capture
<1>4. CASE Publish(t) \/ WriteTemp(t) \/ Replace(t) \/ Remember(t) \/ Unlock(t)
             \/ BuildCallState(t) \/ BuildRaises(t) \/ Invoke(t)
  BY <1>4 DEF Publish, WriteTemp, Replace, Remember, Unlock, BuildCallState, BuildRaises, Invoke
<1> QED
  BY <1>1, <1>2, <1>3, <1>4 DEF Step

\* A cache with one slot set has that slot set and no other.
LEMMA MemSet ==
  ASSUME TypeOK, NEW t \in Thread, NEW k \in Key, NEW a,
         cache' = [cache EXCEPT ![ProcOf[t]].mem[k] = a]
  PROVE  /\ \A j \in Key : Mine(t).mem'[j] = IF j = k THEN a ELSE Mine(t).mem[j]
         /\ UNCHANGED <<Mine(t).memory, Mine(t).callState, Mine(t).externKeys>>
<1>1. Mine(t) \in Caches /\ ProcOf[t] \in DOMAIN cache
  BY ConstantsAssumption DEF ConstantsAssumption, TypeOK, CacheTypes, Mine
<1>2. Mine(t)' = [Mine(t) EXCEPT !.mem[k] = a]
  BY <1>1 DEF Mine
<1> QED
  BY <1>1, <1>2 DEF Caches, Slots

LEMMA MemorySet ==
  ASSUME TypeOK, NEW t \in Thread, NEW k \in Key, NEW a,
         cache' = [cache EXCEPT ![ProcOf[t]].memory[k] = a]
  PROVE  /\ \A j \in Key : Mine(t).memory'[j] = IF j = k THEN a ELSE Mine(t).memory[j]
         /\ UNCHANGED <<Mine(t).mem, Mine(t).callState, Mine(t).externKeys>>
<1>1. Mine(t) \in Caches /\ ProcOf[t] \in DOMAIN cache
  BY ConstantsAssumption DEF ConstantsAssumption, TypeOK, CacheTypes, Mine
<1>2. Mine(t)' = [Mine(t) EXCEPT !.memory[k] = a]
  BY <1>1 DEF Mine
<1> QED
  BY <1>1, <1>2 DEF Caches, Slots

LEMMA StateSet ==
  ASSUME TypeOK, NEW t \in Thread, NEW k \in Key, NEW a,
         cache' = [cache EXCEPT ![ProcOf[t]].callState[k] = a]
  PROVE  /\ \A j \in Key : Mine(t).callState'[j] = IF j = k THEN a ELSE Mine(t).callState[j]
         /\ UNCHANGED <<Mine(t).mem, Mine(t).memory, Mine(t).externKeys>>
<1>1. Mine(t) \in Caches /\ ProcOf[t] \in DOMAIN cache
  BY ConstantsAssumption DEF ConstantsAssumption, TypeOK, CacheTypes, Mine
<1>2. Mine(t)' = [Mine(t) EXCEPT !.callState[k] = a]
  BY <1>1 DEF Mine
<1> QED
  BY <1>1, <1>2 DEF Caches, Slots

LEMMA LastSet ==
  ASSUME TypeOK, NEW t \in Thread, NEW k \in Key, NEW a,
         cache' = [cache EXCEPT ![ProcOf[t]].last = a, ![ProcOf[t]].mem[k] = a]
  PROVE  /\ \A j \in Key : Mine(t).mem'[j] = IF j = k THEN a ELSE Mine(t).mem[j]
         /\ UNCHANGED <<Mine(t).memory, Mine(t).callState, Mine(t).externKeys>>
<1>1. Mine(t) \in Caches /\ ProcOf[t] \in DOMAIN cache
  BY ConstantsAssumption DEF ConstantsAssumption, TypeOK, CacheTypes, Mine
<1>2. Mine(t)' = [Mine(t) EXCEPT !.last = a, !.mem[k] = a]
  BY <1>1 DEF Mine
<1> QED
  BY <1>1, <1>2 DEF Caches, Slots

\* The slots a step sets are those of the call's key, with the artifact at hand.
SlotsAfter(t, j) ==
  /\ \/ Mine(t).mem'[j] = Mine(t).mem[j]
     \/ /\ j = loc[t].key /\ Mine(t).mem'[j] = loc[t].art
        /\ pc[t] \in {"adopt", "publish"} \/ (pc[t] = "keep" /\ ~Refused(loc[t].art))
  /\ \/ Mine(t).callState'[j] = Mine(t).callState[j]
     \/ j = loc[t].key /\ Mine(t).callState'[j] = loc[t].art /\ pc[t] = "build"
  /\ \/ Mine(t).memory'[j] \in {Mine(t).memory[j], NoArt}
     \/ j = loc[t].key /\ Mine(t).memory'[j] = loc[t].art
  /\ Mine(t).externKeys \subseteq Mine(t).externKeys'

LEMMA SlotStep ==
  ASSUME TypeOK, NEW t \in Thread, Step(t), NEW j \in Key
  PROVE  SlotsAfter(t, j)
<1> USE DEF Move, KeyOf
<1>0. Mine(t) \in Caches /\ ProcOf[t] \in DOMAIN cache
  BY ConstantsAssumption DEF ConstantsAssumption, TypeOK, CacheTypes, Mine
<1>k. pc[t] # "idle" => loc[t].key \in Key
  BY DEF TypeOK, ThreadTypes
<1>1. CASE UNCHANGED cache
  BY <1>1 DEF SlotsAfter, Mine
<1>2. CASE EnsureManager(t) \/ StoreManagerKey(t) \/ MakeManager(t)
  BY <1>0, <1>2 DEF SlotsAfter, Mine, EnsureManager, StoreManagerKey, MakeManager, Caches, Slots
<1>3. CASE GetKeep(t) \/ Remember(t) \/ Adjudge(t)
  <2>1. cache' = [cache EXCEPT ![ProcOf[t]].memory[loc[t].key] = loc[t].art] \/ UNCHANGED cache
    BY <1>3 DEF GetKeep, Remember, Adjudge
  <2>2. loc[t].key \in Key
    BY <1>3, <1>k DEF GetKeep, Remember, Adjudge
  <2>3. ASSUME cache' = [cache EXCEPT ![ProcOf[t]].memory[loc[t].key] = loc[t].art]
        PROVE  /\ \A i \in Key : Mine(t).memory'[i] =
                    IF i = loc[t].key THEN loc[t].art ELSE Mine(t).memory[i]
               /\ UNCHANGED <<Mine(t).mem, Mine(t).callState, Mine(t).externKeys>>
    BY <2>2, <2>3, MemorySet
  <2> QED
    BY <1>1, <2>1, <2>3 DEF SlotsAfter
<1>4. CASE KeepCached(t) \/ Adopt(t)
  <2>1. \/ UNCHANGED cache
        \/ /\ cache' = [cache EXCEPT ![ProcOf[t]].mem[loc[t].key] = loc[t].art]
           /\ pc[t] = "adopt" \/ (pc[t] = "keep" /\ ~Refused(loc[t].art))
    BY <1>4 DEF KeepCached, Adopt
  <2>2. loc[t].key \in Key
    BY <1>4, <1>k DEF KeepCached, Adopt
  <2>3. ASSUME cache' = [cache EXCEPT ![ProcOf[t]].mem[loc[t].key] = loc[t].art]
        PROVE  /\ \A i \in Key : Mine(t).mem'[i] =
                    IF i = loc[t].key THEN loc[t].art ELSE Mine(t).mem[i]
               /\ UNCHANGED <<Mine(t).memory, Mine(t).callState, Mine(t).externKeys>>
    BY <2>2, <2>3, MemSet
  <2> QED
    BY <1>1, <2>1, <2>3 DEF SlotsAfter
<1>5. CASE Publish(t)
  <2>1. loc[t].key \in Key /\ pc[t] = "publish"
    BY <1>5, <1>k DEF Publish
  <2>2. /\ \A i \in Key : Mine(t).mem'[i] = IF i = loc[t].key THEN loc[t].art ELSE Mine(t).mem[i]
        /\ UNCHANGED <<Mine(t).memory, Mine(t).callState, Mine(t).externKeys>>
    BY <1>5, <2>1, LastSet DEF Publish
  <2> QED
    BY <2>1, <2>2 DEF SlotsAfter
<1>6. CASE BuildCallState(t)
  <2>1. loc[t].key \in Key /\ pc[t] = "build"
    BY <1>6, <1>k DEF BuildCallState
  <2>2. /\ \A i \in Key : Mine(t).callState'[i] =
             IF i = loc[t].key THEN loc[t].art ELSE Mine(t).callState[i]
        /\ UNCHANGED <<Mine(t).mem, Mine(t).memory, Mine(t).externKeys>>
    BY <1>6, <2>1, StateSet DEF BuildCallState
  <2> QED
    BY <2>1, <2>2 DEF SlotsAfter
<1>7. CASE Compile(t)
  <2>1. cache' = [cache EXCEPT ![ProcOf[t]] =
                    [Mine(t) EXCEPT !.externKeys = @ \cup ({loc[t].key} \cap Extern)]]
    BY <1>7, <1>0 DEF Compile, Mine
  <2>2. Mine(t)' = [Mine(t) EXCEPT !.externKeys = @ \cup ({loc[t].key} \cap Extern)]
    BY <1>0, <2>1 DEF Mine
  <2> QED
    BY <1>0, <2>2 DEF SlotsAfter, Caches
<1>8. CASE LoadAllLock(t) \/ LoadAllRead(t) \/ LoadAllDone(t)
  BY <1>1, <1>8 DEF LoadAllLock, LoadAllRead, LoadAllDone
<1>9. CASE FastPath(t) \/ LookupMem(t) \/ GetMemory(t) \/ GetLock(t) \/ GetTimeout(t)
             \/ GetRead(t) \/ AcceptCached(t) \/ Missed(t)
  BY <1>1, <1>9 DEF FastPath, LookupMem, GetMemory, GetLock, GetTimeout, GetRead,
                    AcceptCached, Missed
<1>10. CASE AcquireNames(t) \/ CompileLock(t) \/ CompileLockTimeout(t) \/ Recheck(t)
             \/ UnlinkCorrupt(t) \/ CompileRaises(t) \/ Capture(t)
  BY <1>1, <1>10 DEF AcquireNames, CompileLock, CompileLockTimeout, Recheck, UnlinkCorrupt,
                     CompileRaises, Capture
<1>11. CASE WriteTemp(t) \/ Replace(t) \/ Unlock(t) \/ BuildRaises(t) \/ Invoke(t)
  BY <1>1, <1>11 DEF WriteTemp, Replace, Unlock, BuildRaises, Invoke
<1> QED
  BY <1>2, <1>3, <1>4, <1>5, <1>6, <1>7, <1>8, <1>9, <1>10, <1>11 DEF Step

\* Where a step leaves its thread, and with which artifact.
LEMMA Lands ==
  ASSUME TypeOK, NEW t \in Thread
  PROVE  /\ \A l : Goto(t, l) => pc'[t] = l
         /\ \A a : SetArt(t, a) => /\ loc'[t].art = a /\ loc'[t].fn = loc[t].fn
                                   /\ loc'[t].key = loc[t].key /\ loc'[t].mode = loc[t].mode
                                   /\ loc'[t].useLock = loc[t].useLock
BY DEF TypeOK, ThreadTypes, Goto, SetArt, Locals

-----------------------------------------------------------------------------
(* Linked artifacts, and the entries of _mem_cache.                        *)

\* Where a thread has an artifact at hand, where it is one that may be used, and
\* where _mem_cache has an entry for the key.
WithArt  == {"getkeep", "keep", "accept", "adjudge", "adopt", "capture", "publish", "write",
             "replace", "remember", "unlock", "build"}
Usable   == WithArt \ {"getkeep", "keep", "adjudge"}
Compiled == {"capture", "publish", "write", "replace"}
InMem    == {"accept", "write", "replace", "remember", "unlock", "build", "invoke"}

\* What a thread knows of the artifact at hand: one with link libraries is of a
\* key this process has compiled, and is not stored.
Holds(t) ==
  /\ pc[t] \in WithArt => loc[t].art # NoArt
  /\ pc[t] \in InMem => Mine(t).mem[loc[t].key] # NoArt
  /\ pc[t] \in Usable /\ loc[t].art.linked => loc[t].key \in Mine(t).externKeys
  /\ pc[t] \in Compiled => (loc[t].art.linked <=> loc[t].key \in Extern)
  /\ pc[t] \in {"write", "replace"} => ~loc[t].art.linked

KeepInv == ExternStaysLocal /\ KeepaliveFound /\ \A t \in Thread : Holds(t)

\* What is read from a file or made by the compiler is no empty slot.
LEMMA ArtIsThere ==
  ASSUME NEW a, a.id \in Id
  PROVE  a # NoArt
BY ConstantsAssumption DEF ConstantsAssumption, NoArt

\* An entry of _mem_cache may be replaced but not dropped, and a process does not
\* forget which keys are linked.
LEMMA MemStays ==
  ASSUME TypeOK, KeepInv, NEW t \in Thread, Step(t), NEW p \in Proc, NEW k \in Key
  PROVE  /\ cache[p].mem[k] # NoArt => cache'[p].mem[k] # NoArt
         /\ cache[p].externKeys \subseteq cache'[p].externKeys
<1>1. CASE p # ProcOf[t]
  BY <1>1, OtherProcess
<1>2. CASE p = ProcOf[t]
  <2>1. pc[t] \in {"adopt", "publish", "keep"} => loc[t].art # NoArt
    BY DEF KeepInv, Holds, WithArt
  <2> QED
    BY <1>2, <2>1, SlotStep DEF SlotsAfter, Mine
<1> QED
  BY <1>1, <1>2

LEMMA HoldsOthers ==
  ASSUME TypeOK, KeepInv, NEW t \in Thread, Step(t), NEW u \in Thread, u # t
  PROVE  Holds(u)'
<1>1. pc'[u] = pc[u] /\ loc'[u] = loc[u]
  BY OthersStay
<1>2. pc[u] # "idle" => loc[u].key \in Key
  BY DEF TypeOK, ThreadTypes
<1>3. ProcOf[u] \in Proc
  BY ConstantsAssumption DEF ConstantsAssumption
<1>4. Holds(u)
  BY DEF KeepInv
<1>5. pc[u] \in WithArt \cup InMem => pc[u] # "idle"
  BY DEF WithArt, InMem
<1>6. pc[u] \in InMem => Mine(u)'.mem[loc[u].key] # NoArt
  BY <1>2, <1>3, <1>4, <1>5, MemStays DEF Holds, Mine
<1>7. pc[u] \in Usable /\ loc[u].art.linked => loc[u].key \in Mine(u)'.externKeys
  BY <1>2, <1>3, <1>4, <1>5, MemStays DEF Holds, Mine, Usable
<1> QED
  BY <1>1, <1>4, <1>6, <1>7 DEF Holds

\* The files and slots stay free of foreign linked artifacts.
LEMMA ExternStep ==
  ASSUME TypeOK, KeepInv, NEW t \in Thread, Step(t)
  PROVE  ExternStaysLocal'
<1>1. ASSUME NEW k \in Extern PROVE file'[k].kind # "good"
  <2>0. k \in Key /\ file[k].kind # "good"
    BY <1>1, ConstantsAssumption DEF ConstantsAssumption, KeepInv, ExternStaysLocal
  <2>1. CASE UNCHANGED file
    BY <2>0, <2>1
  <2>2. CASE UnlinkCorrupt(t)
    BY <2>0, <2>2 DEF UnlinkCorrupt, NoFile, TypeOK, DiskTypes
  <2>3. CASE Replace(t)
    <3>1. pc[t] = "replace"
      BY <2>3 DEF Replace
    <3>2. loc[t].key \notin Extern
      BY <3>1 DEF KeepInv, Holds, Compiled
    <3> QED
      BY <1>1, <2>0, <2>3, <3>2 DEF Replace, KeyOf, TypeOK, DiskTypes
  <2> QED
    BY <2>1, <2>2, <2>3, FileKept
<1>2. ASSUME NEW p \in Proc, NEW k \in Key,
             cache'[p].mem[k].linked \/ cache'[p].callState[k].linked
      PROVE  k \in cache'[p].externKeys
  <2>0. cache[p].mem[k].linked \/ cache[p].callState[k].linked => k \in cache[p].externKeys
    BY DEF KeepInv, ExternStaysLocal
  <2>1. cache[p].externKeys \subseteq cache'[p].externKeys
    BY MemStays
  <2>2. CASE p # ProcOf[t]
    BY <1>2, <2>0, <2>2, OtherProcess
  <2>3. CASE p = ProcOf[t]
    <3>1. pc[t] \in {"adopt", "publish", "build"} /\ loc[t].art.linked
            => loc[t].key \in cache[p].externKeys
      BY <2>3 DEF KeepInv, Holds, Usable, WithArt, Mine
    <3> QED
      BY <1>2, <2>0, <2>1, <2>3, <3>1, SlotStep DEF SlotsAfter, Mine, Refused
  <2> QED
    BY <2>2, <2>3
<1> QED
  BY <1>1, <1>2 DEF ExternStaysLocal

LEMMA KeepaliveStep ==
  ASSUME TypeOK, KeepInv, NEW t \in Thread, Step(t), NEW p \in Proc, NEW k \in Key
  PROVE  cache'[p].callState[k] # NoArt => cache'[p].mem[k] # NoArt
<1>1. cache[p].callState[k] # NoArt => cache[p].mem[k] # NoArt
  BY DEF KeepInv, KeepaliveFound
<1>2. CASE p # ProcOf[t]
  BY <1>1, <1>2, OtherProcess
<1>3. CASE p = ProcOf[t]
  <2>1. pc[t] = "build" => Mine(t).mem[loc[t].key] # NoArt
    BY DEF KeepInv, Holds, InMem
  <2> QED
    BY <1>1, <1>3, <2>1, SlotStep, MemStays DEF SlotsAfter, Mine
<1> QED
  BY <1>2, <1>3

\* Where a thread has no artifact at hand there is nothing to know of one.
Empty == PcValues \ (WithArt \cup InMem)

\* A thread's own step.
LEMMA HoldsOwn ==
  ASSUME TypeOK, KeepInv, NEW t \in Thread, Step(t)
  PROVE  Holds(t)'
<1> USE DEF Move, KeyOf
<1>h. Holds(t)
  BY DEF KeepInv
<1>k. pc[t] # "idle" => loc[t].key \in Key
  BY DEF TypeOK, ThreadTypes
<1>p. ProcOf[t] \in Proc
  BY ConstantsAssumption DEF ConstantsAssumption
<1>m. pc[t] # "idle" /\ Mine(t).mem[loc[t].key] # NoArt => Mine(t)'.mem[loc[t].key] # NoArt
  BY <1>k, <1>p, MemStays DEF Mine
<1>x. pc[t] # "idle" => Mine(t).externKeys \subseteq Mine(t)'.externKeys
  BY <1>k, <1>p, MemStays DEF Mine
<1>0. ASSUME pc'[t] \in Empty
      PROVE  Holds(t)'
  BY <1>0 DEF Holds, Empty, WithArt, InMem, Usable, Compiled
<1>1. CASE EnsureManager(t) \/ StoreManagerKey(t) \/ MakeManager(t) \/ LoadAllLock(t)
             \/ LoadAllRead(t) \/ LoadAllDone(t) \/ GetLock(t) \/ GetTimeout(t) \/ Missed(t)
             \/ AcquireNames(t) \/ CompileLock(t) \/ CompileLockTimeout(t)
             \/ UnlinkCorrupt(t) \/ CompileRaises(t) \/ BuildRaises(t) \/ Invoke(t)
  <2>1. pc'[t] \in Empty
    BY <1>1, Lands, EveryLeave
    DEF EnsureManager, StoreManagerKey, MakeManager, LoadAllLock, LoadAllRead, LoadAllDone,
        GetLock, GetTimeout, Missed, AcquireNames, CompileLock, CompileLockTimeout,
        UnlinkCorrupt, CompileRaises, BuildRaises, Invoke, Empty, WithArt, InMem, PcValues
  <2> QED
    BY <1>0, <2>1
<1>2. CASE FastPath(t)
  <2>1. CASE Goto(t, "invoke")
    <3>1. Mine(t).callState[loc[t].key] # NoArt
      BY <1>2, <2>1, Lands, EveryLeave DEF FastPath
    <3>2. Mine(t).mem[loc[t].key] # NoArt /\ pc[t] # "idle"
      BY <1>2, <3>1, <1>k, <1>p DEF KeepInv, KeepaliveFound, FastPath, Mine
    <3>3. loc'[t].key = loc[t].key
      BY <1>2, <2>1, Lands, EveryLeave DEF FastPath, TypeOK, ThreadTypes, Locals
    <3> QED
      BY <2>1, <3>2, <3>3, <1>m, Lands DEF Holds, WithArt, InMem, Usable, Compiled
  <2>2. CASE ~Goto(t, "invoke")
    BY <1>0, <1>2, <2>2, Lands, EveryLeave DEF FastPath, Empty, WithArt, InMem, PcValues
  <2> QED
    BY <2>1, <2>2
<1>3. CASE LookupMem(t)
  <2>1. CASE /\ Goto(t, "accept") /\ SetArt(t, Mine(t).mem[loc[t].key])
             /\ Mine(t).mem[loc[t].key] # NoArt
    <3>1. Mine(t).mem[loc[t].key].linked => loc[t].key \in Mine(t).externKeys
      BY <1>3, <1>k, <1>p DEF KeepInv, ExternStaysLocal, LookupMem, Mine
    <3>2. pc[t] # "idle"
      BY <1>3 DEF LookupMem
    <3> QED
      BY <2>1, <3>1, <3>2, <1>m, <1>x, Lands DEF Holds, WithArt, InMem, Usable, Compiled
  <2>2. CASE pc'[t] \in Empty
    BY <1>0, <2>2
  <2> QED
    BY <1>3, <2>1, <2>2, Lands DEF LookupMem, Empty, WithArt, InMem, PcValues
<1>4. CASE GetMemory(t) \/ GetRead(t) \/ Recheck(t)
  <2>1. \/ pc'[t] \in Empty
        \/ /\ pc'[t] \in {"keep", "getkeep", "adjudge"}
           /\ \/ \E i \in Id : SetArt(t, Loaded(i, file[loc[t].key]))
              \/ Mine(t).memory[loc[t].key] # NoArt /\ SetArt(t, Mine(t).memory[loc[t].key])
    BY <1>4, Lands DEF GetMemory, GetRead, Recheck, Empty, WithArt, InMem, PcValues
  <2>2. \A i \in Id : Loaded(i, file[loc[t].key]) # NoArt
    BY ArtIsThere DEF Loaded
  <2>3. pc'[t] \in Empty \/ loc'[t].art # NoArt
    BY <2>1, <2>2, Lands
  <2> QED
    BY <1>0, <2>1, <2>3 DEF Holds, WithArt, InMem, Usable, Compiled
<1>5. CASE GetKeep(t)
  BY <1>5, <1>h, Lands DEF GetKeep, Holds, WithArt, InMem, Usable, Compiled
<1>6. CASE KeepCached(t)
  <2>1. CASE Goto(t, "missed")
    BY <1>0, <2>1, Lands DEF Empty, WithArt, InMem, PcValues
  <2>2. CASE /\ ~Refused(loc[t].art) /\ Goto(t, "accept") /\ UNCHANGED loc
             /\ cache' = [cache EXCEPT ![ProcOf[t]].mem[loc[t].key] = loc[t].art]
    <3>1. loc[t].key \in Key /\ loc[t].art # NoArt
      BY <1>6, <1>h, <1>k DEF KeepCached, Holds, WithArt
    <3>0. \A i \in Key : Mine(t).mem'[i] = IF i = loc[t].key THEN loc[t].art ELSE Mine(t).mem[i]
      BY <2>2, <3>1, MemSet
    <3>2. Mine(t).mem'[loc[t].key] = loc[t].art
      BY <3>0, <3>1
    <3> QED
      BY <2>2, <3>1, <3>2, Lands DEF Holds, WithArt, InMem, Usable, Compiled, Refused
  <2> QED
    BY <1>6, <2>1, <2>2 DEF KeepCached
<1>7. CASE AcceptCached(t)
  <2>1. CASE Goto(t, "build") /\ UNCHANGED <<loc, handle>>
    BY <1>7, <2>1, <1>h, <1>m, <1>x, Lands
    DEF AcceptCached, Holds, WithArt, InMem, Usable, Compiled
  <2>2. CASE pc'[t] \in {"idle", "missed"}
    BY <1>0, <2>2 DEF Empty, WithArt, InMem, PcValues
  <2> QED
    BY <1>7, <2>1, <2>2, Lands, EveryLeave DEF AcceptCached
<1>8. CASE Adjudge(t)
  <2>1. CASE ~Refused(loc[t].art) /\ Goto(t, "adopt") /\ UNCHANGED loc
    BY <1>8, <2>1, <1>h, Lands DEF Adjudge, Holds, WithArt, InMem, Usable, Compiled, Refused
  <2>2. CASE Goto(t, "compile")
    BY <1>0, <2>2, Lands DEF Empty, WithArt, InMem, PcValues
  <2> QED
    BY <1>8, <2>1, <2>2 DEF Adjudge
<1>9. CASE Adopt(t)
  <2>4. pc[t] = "adopt" /\ loc[t].art # NoArt
    BY <1>9, <1>h DEF Adopt, Holds, WithArt
  <2>5. pc'[t] = "unlock"
    BY <1>9, Lands DEF Adopt
  <2>1. loc[t].key \in Key /\ loc[t].art # NoArt /\ pc'[t] = "unlock"
    BY <1>k, <2>4, <2>5
  <2>0. \A i \in Key : Mine(t).mem'[i] = IF i = loc[t].key THEN loc[t].art ELSE Mine(t).mem[i]
    <3>1. cache' = [cache EXCEPT ![ProcOf[t]].mem[loc[t].key] = loc[t].art]
      BY <1>9 DEF Adopt, KeyOf
    <3> QED
      BY <2>1, <3>1, MemSet
  <2>2. Mine(t).mem'[loc[t].key] = loc[t].art
    BY <2>0, <2>1
  <2>3. loc' = loc /\ loc[t].art.linked => loc[t].key \in Mine(t).externKeys
    BY <1>9, <1>h DEF Adopt, Holds, Usable, WithArt
  <2> QED
    BY <1>9, <2>1, <2>2, <2>3, <1>x DEF Adopt, Holds, WithArt, InMem, Usable, Compiled
<1>10. CASE Compile(t)
  <2>1. PICK i \in Id, table \in NameTable :
          SetArt(t, [id |-> i, linked |-> loc[t].key \in Extern, names |-> table])
    BY <1>10 DEF Compile
  <2>2. /\ loc'[t].art.linked <=> loc[t].key \in Extern
        /\ loc'[t].art.id \in Id /\ loc'[t].key = loc[t].key
    <3> DEFINE made == [id |-> i, linked |-> loc[t].key \in Extern, names |-> table]
    <3>1. loc'[t].art = made /\ loc'[t].key = loc[t].key
      BY <2>1, Lands
    <3>2. made.linked = (loc[t].key \in Extern) /\ made.id = i
      OBVIOUS
    <3> QED
      BY <3>1, <3>2
  <2>3. loc'[t].art # NoArt
    BY <2>2, ArtIsThere
  <2>4. loc[t].key \in Extern => loc[t].key \in Mine(t)'.externKeys
    <3>1. Mine(t) \in Caches /\ ProcOf[t] \in DOMAIN cache
      BY ConstantsAssumption DEF ConstantsAssumption, TypeOK, CacheTypes, Mine
    <3>2. Mine(t)' = [Mine(t) EXCEPT !.externKeys = @ \cup ({loc[t].key} \cap Extern)]
      BY <1>10, <3>1 DEF Compile, Mine
    <3> QED
      BY <3>1, <3>2 DEF Caches
  <2> QED
    BY <1>10, <2>2, <2>3, <2>4, Lands DEF Compile, Holds, WithArt, InMem, Usable, Compiled
<1>11. CASE Capture(t)
  <2>1. CASE Goto(t, "publish") /\ UNCHANGED <<diskVars, loc, handle>>
    BY <1>11, <2>1, <1>h, <1>x, Lands DEF Capture, Holds, WithArt, InMem, Usable, Compiled
  <2>2. CASE pc'[t] = "idle"
    BY <1>0, <2>2 DEF Empty, WithArt, InMem, PcValues
  <2> QED
    BY <1>11, <2>1, <2>2, Lands, EveryLeave DEF Capture
<1>12. CASE Publish(t)
  <2>1. loc[t].key \in Key /\ loc[t].art # NoArt
    BY <1>12, <1>h, <1>k DEF Publish, Holds, WithArt
  <2>0. \A i \in Key : Mine(t).mem'[i] = IF i = loc[t].key THEN loc[t].art ELSE Mine(t).mem[i]
    BY <1>12, <2>1, LastSet DEF Publish
  <2>2. Mine(t).mem'[loc[t].key] = loc[t].art
    BY <2>0, <2>1
  <2>3. pc'[t] = IF Stores(t) THEN "write" ELSE "unlock"
    BY <1>12, Lands DEF Publish
  <2> QED
    BY <1>12, <2>1, <2>2, <2>3, <1>h, <1>x
    DEF Publish, Stores, Holds, WithArt, InMem, Usable, Compiled
<1>13. CASE WriteTemp(t) \/ Replace(t) \/ Remember(t)
  <2>1. loc' = loc /\ pc[t] \in {"write", "replace", "remember"}
    BY <1>13 DEF WriteTemp, Replace, Remember
  <2>2. \/ pc'[t] \in {"unlock", "remember"}
        \/ pc[t] = "write" /\ pc'[t] = "replace"
    BY <1>13, Lands DEF WriteTemp, Replace, Remember
  <2> QED
    BY <2>1, <2>2, <1>h, <1>m, <1>x DEF Holds, WithArt, InMem, Usable, Compiled
<1>14. CASE Unlock(t)
  <2>1. CASE Goto(t, "build") /\ UNCHANGED <<loc, handle>>
    BY <1>14, <2>1, <1>h, <1>m, <1>x, Lands
    DEF Unlock, Holds, WithArt, InMem, Usable, Compiled
  <2>2. CASE pc'[t] = "idle"
    BY <1>0, <2>2 DEF Empty, WithArt, InMem, PcValues
  <2> QED
    BY <1>14, <2>1, <2>2, Lands, EveryLeave DEF Unlock
<1>15. CASE BuildCallState(t)
  <2>1. pc[t] = "build" /\ pc'[t] = "invoke" /\ loc'[t].key = loc[t].key
    BY <1>15, Lands DEF BuildCallState, TypeOK, ThreadTypes, Locals
  <2> QED
    BY <2>1, <1>h, <1>m DEF Holds, WithArt, InMem, Usable, Compiled
<1> QED
  BY <1>1, <1>2, <1>3, <1>4, <1>5, <1>6, <1>7, <1>8, <1>9, <1>10, <1>11, <1>12, <1>13,
     <1>14, <1>15 DEF Step

LEMMA KeepInit == Init => KeepInv
<1> SUFFICES ASSUME Init PROVE KeepInv
  OBVIOUS
<1>1. ExternStaysLocal
  <2>1. \A k \in Extern : file[k].kind # "good"
    BY ConstantsAssumption DEF ConstantsAssumption, Init, InitFile
  <2> QED
    BY <2>1 DEF Init, ExternStaysLocal, NoCaches, NoArt
<1>2. KeepaliveFound
  BY DEF Init, KeepaliveFound, NoCaches
<1>3. \A t \in Thread : Holds(t)
  BY DEF Init, Holds, WithArt, InMem, Usable, Compiled
<1> QED
  BY <1>1, <1>2, <1>3 DEF KeepInv

\* What a call and a crash leave of the threads and the memory.
LEMMA CallAndCrash ==
  ASSUME TypeOK
  PROVE  /\ \A t \in Thread, k \in Key, m \in Modes : Call(t, k, m) =>
              /\ UNCHANGED <<file, cache, names, namesLock, handle>> /\ pc'[t] = "ensure"
              /\ loc'[t].art = loc[t].art /\ loc'[t].fn = loc[t].fn
              /\ \A u \in Thread \ {t} : pc'[u] = pc[u] /\ loc'[u] = loc[u]
         /\ \A p \in Proc : Crash(p) =>
              /\ UNCHANGED file
              /\ cache'[p] = NoCaches /\ names'[p] = NoNames
              /\ \A q \in Proc \ {p} : /\ cache'[q] = cache[q] /\ names'[q] = names[q]
                                       /\ namesLock'[q] = namesLock[q]
              /\ \A u \in Thread :
                   IF ProcOf[u] = p
                   THEN pc'[u] = "idle" /\ loc'[u] = NoLocals /\ handle'[u] = NoHandle
                   ELSE pc'[u] = pc[u] /\ loc'[u] = loc[u] /\ handle'[u] = handle[u]
<1>1. ASSUME NEW t \in Thread, NEW k \in Key, NEW m \in Modes, Call(t, k, m)
      PROVE  /\ UNCHANGED <<file, cache, names, namesLock, handle>> /\ pc'[t] = "ensure"
             /\ loc'[t].art = loc[t].art /\ loc'[t].fn = loc[t].fn
             /\ \A u \in Thread \ {t} : pc'[u] = pc[u] /\ loc'[u] = loc[u]
  BY <1>1 DEF Call, Move, Goto, diskVars, nameVars, TypeOK, ThreadTypes, Locals
<1>2. ASSUME NEW p \in Proc, Crash(p)
      PROVE  /\ UNCHANGED file
             /\ cache'[p] = NoCaches /\ names'[p] = NoNames
             /\ \A q \in Proc \ {p} : /\ cache'[q] = cache[q] /\ names'[q] = names[q]
                                      /\ namesLock'[q] = namesLock[q]
  BY <1>2 DEF Crash, TypeOK, CacheTypes, NameTypes
<1>3. ASSUME NEW p \in Proc, Crash(p), NEW u \in Thread
      PROVE  IF ProcOf[u] = p
             THEN pc'[u] = "idle" /\ loc'[u] = NoLocals /\ handle'[u] = NoHandle
             ELSE pc'[u] = pc[u] /\ loc'[u] = loc[u] /\ handle'[u] = handle[u]
  BY <1>3 DEF Crash, ThreadsOf
<1> QED
  BY <1>1, <1>2, <1>3

LEMMA KeepNext == TypeOK /\ KeepInv /\ [Next]_vars => KeepInv'
<1> SUFFICES ASSUME TypeOK, KeepInv, [Next]_vars PROVE KeepInv'
  OBVIOUS
<1>1. CASE UNCHANGED vars
  BY <1>1 DEF KeepInv, ExternStaysLocal, KeepaliveFound, Holds, Mine, vars, diskVars
<1>2. ASSUME NEW t \in Thread, Step(t) PROVE KeepInv'
  <2>1. \A u \in Thread : Holds(u)'
    BY <1>2, HoldsOwn, HoldsOthers
  <2>2. KeepaliveFound'
    BY <1>2, <2>1, KeepaliveStep DEF KeepaliveFound, Holds, InMem, Mine
  <2> QED
    BY <1>2, <2>1, <2>2, ExternStep DEF KeepInv
<1>3. ASSUME NEW t \in Thread, NEW k \in Key, NEW m \in Modes, Call(t, k, m) PROVE KeepInv'
  <2>1. \A u \in Thread : Holds(u)'
    BY <1>3, CallAndCrash DEF KeepInv, Holds, WithArt, InMem, Usable, Compiled, Mine
  <2>2. KeepaliveFound'
    BY <1>3, <2>1, CallAndCrash DEF KeepInv, KeepaliveFound, Holds, InMem, Mine
  <2>3. ExternStaysLocal'
    BY <1>3, CallAndCrash DEF KeepInv, ExternStaysLocal
  <2> QED
    BY <2>1, <2>2, <2>3 DEF KeepInv
<1>4. ASSUME NEW p \in Proc, Crash(p) PROVE KeepInv'
  <2>1. ASSUME NEW u \in Thread PROVE Holds(u)'
    <3>1. CASE ProcOf[u] = p
      BY <1>4, <3>1, CallAndCrash DEF Holds, WithArt, InMem, Usable, Compiled
    <3>2. CASE ProcOf[u] # p
      <4>1. ProcOf[u] \in Proc /\ Holds(u)
        BY ConstantsAssumption DEF ConstantsAssumption, KeepInv
      <4> QED
        BY <1>4, <3>2, <4>1, CallAndCrash DEF Holds, Mine
    <3> QED
      BY <3>1, <3>2
  <2>2. \A q \in Proc, k \in Key : cache'[q].callState[k] # NoArt => cache'[q].mem[k] # NoArt
    BY <1>4, CallAndCrash DEF KeepInv, KeepaliveFound, NoCaches
  <2>3. KeepaliveFound'
    BY <2>1, <2>2 DEF KeepaliveFound, Holds, InMem, Mine
  <2>4. ExternStaysLocal'
    BY <1>4, CallAndCrash DEF KeepInv, ExternStaysLocal, NoCaches, NoArt
  <2> QED
    BY <2>1, <2>3, <2>4 DEF KeepInv
<1> QED
  BY <1>1, <1>2, <1>3, <1>4 DEF Next

LEMMA KeepAlways == Spec => []KeepInv
<1>1. Init => TypeOK /\ KeepInv
  BY TypeInit, KeepInit
<1>2. TypeOK /\ KeepInv /\ [Next]_vars => (TypeOK /\ KeepInv)'
  BY TypeStep, KeepNext
<1> QED
  BY <1>1, <1>2, PTL DEF Spec

\* An extern-linked artifact is not stored, and is launched only by a process
\* that has linked it.
THEOREM LinkedStaysLocal == Spec => []ExternStaysLocal
<1>1. KeepInv => ExternStaysLocal
  BY DEF KeepInv
<1> QED
  BY <1>1, KeepAlways, PTL

\* _make_compiled_function finds its artifact in _mem_cache.
THEOREM KeepaliveThere == Spec => []KeepaliveFound
<1>1. KeepInv => KeepaliveFound
  BY DEF KeepInv
<1> QED
  BY <1>1, KeepAlways, PTL

-----------------------------------------------------------------------------
(* Event names: tables, artifacts and the lock that spans a compilation.   *)

\* A table of names is one to one, and what it gives an artifact's events is what
\* the artifact has.
OneToOne(table) == Compatible(table, table)
Records(live, table) == \A k \in Key : table[k] # 0 => live[k] = table[k]

\* Where a thread has merged the names of its artifact, and where it holds the
\* lock of the tables if its key is traced.
Merged     == {"adopt", "publish", "write", "replace", "remember", "unlock", "build"}
NamesGuard == Guarded \cup {"exlock"}

Naming(t) ==
  LET live == names[ProcOf[t]] IN
  /\ OneToOne(loc[t].art.names)
  /\ pc[t] \in NamesGuard /\ loc[t].key \in Traced => namesLock[ProcOf[t]] = t
  /\ pc[t] = "capture" /\ loc[t].key \in Traced => Extends(loc[t].art.names, live, loc[t].key)
  /\ pc[t] \in Merged => Records(live, loc[t].art.names)

TablesInv ==
  /\ \A k \in Key : OneToOne(file[k].names)
  /\ \A p \in Proc :
       /\ OneToOne(names[p])
       /\ \A k \in Key : /\ OneToOne(cache[p].memory[k].names)
                         /\ OneToOne(cache[p].mem[k].names)
                         /\ Records(names[p], cache[p].callState[k].names)
NamesInv == TablesInv /\ \A t \in Thread : Naming(t)

LEMMA MergeOneToOne ==
  ASSUME NEW live \in NameTable, NEW added \in NameTable,
         OneToOne(live), OneToOne(added), Compatible(live, added)
  PROVE  OneToOne(Merge(live, added))
BY DEF OneToOne, Compatible, Merge, NameTable

\* Merging forgets no name.
LEMMA MergeRecords ==
  ASSUME NEW live \in NameTable, NEW added \in NameTable, Compatible(live, added)
  PROVE  /\ Records(Merge(live, added), added)
         /\ \A table : Records(live, table) => Records(Merge(live, added), table)
BY DEF Records, Compatible, Merge, NameTable

LEMMA MergeNothing ==
  ASSUME NEW live \in NameTable
  PROVE  Merge(live, NoNames) = live
BY DEF Merge, NoNames, NameTable

\* The ids a compilation chooses fit the table they were chosen from.
LEMMA ExtendsFits ==
  ASSUME NEW live \in NameTable, NEW table \in NameTable, NEW k \in Key,
         OneToOne(live), Extends(table, live, k)
  PROVE  OneToOne(table) /\ Compatible(live, table)
<1>1. CASE table = live
  BY <1>1 DEF OneToOne
<1>2. ASSUME NEW i \in EventId, live[k] = 0, \A j \in Key : live[j] < i,
             table = [live EXCEPT ![k] = i]
      PROVE  OneToOne(table) /\ Compatible(live, table)
  <2>1. i \in Nat /\ i # 0 /\ \A j \in Key : live[j] # i
    BY <1>2, ConstantsAssumption DEF ConstantsAssumption, NameTable
  <2>2. \A j \in Key : table[j] = IF j = k THEN i ELSE live[j]
    BY <1>2 DEF NameTable
  <2> QED
    BY <1>2, <2>1, <2>2 DEF OneToOne, Compatible
<1> QED
  BY <1>1, <1>2 DEF Extends

LEMMA PlainOneToOne ==
  /\ OneToOne(NoNames) /\ OneToOne(NoArt.names)
  /\ \A live : Records(live, NoNames) /\ Records(live, NoArt.names)
BY DEF OneToOne, Compatible, Records, NoNames, NoArt

-----------------------------------------------------------------------------
\* Only _merge_names changes a table.
LEMMA NameStep ==
  ASSUME TypeOK, NEW t \in Thread, Step(t)
  PROVE  UNCHANGED names \/ Accepted(t)
<1> USE DEF nameVars, ReleaseLocks, Rejected
<1>1. CASE EnsureManager(t) \/ StoreManagerKey(t) \/ MakeManager(t) \/ LoadAllLock(t)
             \/ LoadAllRead(t) \/ LoadAllDone(t)
  BY <1>1 DEF EnsureManager, StoreManagerKey, MakeManager, LoadAllLock, LoadAllRead, LoadAllDone
<1>2. CASE FastPath(t) \/ LookupMem(t) \/ GetMemory(t) \/ GetLock(t) \/ GetTimeout(t)
             \/ GetRead(t) \/ GetKeep(t) \/ KeepCached(t) \/ AcceptCached(t) \/ Missed(t)
  BY <1>2 DEF FastPath, LookupMem, GetMemory, GetLock, GetTimeout, GetRead, GetKeep,
              KeepCached, AcceptCached, Missed
<1>3. CASE AcquireNames(t) \/ CompileLock(t) \/ CompileLockTimeout(t) \/ Recheck(t)
             \/ UnlinkCorrupt(t) \/ Adjudge(t) \/ Adopt(t) \/ Compile(t)
             \/ CompileRaises(t) \/ Capture(t)
  BY <1>3 DEF AcquireNames, CompileLock, CompileLockTimeout, Recheck, UnlinkCorrupt, Adjudge,
              Adopt, Compile, CompileRaises, Capture
<1>4. CASE Publish(t) \/ WriteTemp(t) \/ Replace(t) \/ Remember(t) \/ Unlock(t)
             \/ BuildCallState(t) \/ BuildRaises(t) \/ Invoke(t)
  BY <1>4 DEF Publish, WriteTemp, Replace, Remember, Unlock, BuildCallState, BuildRaises, Invoke
<1> QED
  BY <1>1, <1>2, <1>3, <1>4 DEF Step

\* Nobody takes the lock of the tables from its owner.
LEMMA NamesLockStep ==
  ASSUME TypeOK, NEW t \in Thread, Step(t)
  PROVE  \/ UNCHANGED namesLock
         \/ MayLockNames(t) /\ namesLock' = [namesLock EXCEPT ![ProcOf[t]] = t]
         \/ namesLock' = [namesLock EXCEPT ![ProcOf[t]] = IF @ = t THEN NoThread ELSE @]
<1> USE DEF nameVars, ReleaseLocks, Accepted, Rejected
<1>1. CASE EnsureManager(t) \/ StoreManagerKey(t) \/ MakeManager(t) \/ LoadAllLock(t)
             \/ LoadAllRead(t) \/ LoadAllDone(t)
  BY <1>1 DEF EnsureManager, StoreManagerKey, MakeManager, LoadAllLock, LoadAllRead, LoadAllDone
<1>2. CASE FastPath(t) \/ LookupMem(t) \/ GetMemory(t) \/ GetLock(t) \/ GetTimeout(t)
             \/ GetRead(t) \/ GetKeep(t) \/ KeepCached(t) \/ AcceptCached(t) \/ Missed(t)
  BY <1>2 DEF FastPath, LookupMem, GetMemory, GetLock, GetTimeout, GetRead, GetKeep,
              KeepCached, AcceptCached, Missed
<1>3. CASE AcquireNames(t) \/ CompileLock(t) \/ CompileLockTimeout(t) \/ Recheck(t)
             \/ UnlinkCorrupt(t) \/ Adjudge(t) \/ Adopt(t) \/ Compile(t)
             \/ CompileRaises(t) \/ Capture(t)
  BY <1>3 DEF AcquireNames, CompileLock, CompileLockTimeout, Recheck, UnlinkCorrupt, Adjudge,
              Adopt, Compile, CompileRaises, Capture
<1>4. CASE Publish(t) \/ WriteTemp(t) \/ Replace(t) \/ Remember(t) \/ Unlock(t)
             \/ BuildCallState(t) \/ BuildRaises(t) \/ Invoke(t)
  BY <1>4 DEF Publish, WriteTemp, Replace, Remember, Unlock, BuildCallState, BuildRaises, Invoke
<1> QED
  BY <1>1, <1>2, <1>3, <1>4 DEF Step

LEMMA NamesLockStays ==
  ASSUME TypeOK, NEW t \in Thread, Step(t), NEW u \in Thread, u # t,
         namesLock[ProcOf[u]] = u
  PROVE  namesLock'[ProcOf[u]] = u
<1>1. ProcOf[u] \in Proc /\ ProcOf[t] \in Proc /\ NoThread \notin Thread
  BY ConstantsAssumption DEF ConstantsAssumption
<1> QED
  BY <1>1, NamesLockStep DEF TypeOK, NameTypes, MayLockNames

\* A step changes a process's table by merging, under the lock unless it merges
\* nothing.
LEMMA TableStep ==
  ASSUME TypeOK, NEW t \in Thread, Step(t), NEW p \in Proc
  PROVE  \/ names'[p] = names[p]
         \/ /\ p = ProcOf[t] /\ MayLockNames(t) /\ Accepted(t)
            /\ names'[p] = Merge(names[p], loc[t].art.names)
<1>1. names[p] \in NameTable
  BY DEF TypeOK, NameTypes
<1>2. CASE UNCHANGED names
  BY <1>2
<1>3. CASE Accepted(t)
  <2>1. CASE p # ProcOf[t]
    BY <2>1, OtherProcess
  <2>2. CASE p = ProcOf[t]
    <3>1. names'[p] = Merge(names[p], loc[t].art.names)
      BY <1>3, <2>2 DEF Accepted, TypeOK, NameTypes
    <3> QED
      BY <1>1, <1>3, <2>2, <3>1, MergeNothing DEF Accepted
  <2> QED
    BY <2>1, <2>2
<1> QED
  BY <1>2, <1>3, NameStep

\* Artifacts have tables.
LEMMA ArtTable ==
  ASSUME TypeOK
  PROVE  /\ \A t \in Thread : loc[t].art.names \in NameTable /\ names[ProcOf[t]] \in NameTable
         /\ \A p \in Proc : names[p] \in NameTable
         /\ \A t \in Thread : ProcOf[t] \in Proc
<1>1. \A a \in Artifact \cup {NoArt} : a.names \in NameTable
  BY EmptyTypes DEF Artifact, NoArt
<1> QED
  BY <1>1, ConstantsAssumption
  DEF ConstantsAssumption, TypeOK, ThreadTypes, NameTypes, Locals

\* What another thread of the process knows of its names survives a step: the
\* table it compiles against is locked, and merging forgets nothing.
LEMMA NamingOthers ==
  ASSUME TypeOK, NamesInv, NEW t \in Thread, Step(t), NEW u \in Thread, u # t
  PROVE  Naming(u)'
<1> DEFINE live == names[ProcOf[u]]
<1>1. pc'[u] = pc[u] /\ loc'[u] = loc[u]
  BY OthersStay
<1>2. Naming(u)
  BY DEF NamesInv
<1>3. ProcOf[u] \in Proc /\ NoThread \notin Thread
  BY ConstantsAssumption DEF ConstantsAssumption
<1>4. pc[u] \in NamesGuard /\ loc[u].key \in Traced => namesLock'[ProcOf[u]] = u
  BY <1>2, NamesLockStays DEF Naming
<1>5. CASE names'[ProcOf[u]] = live
  BY <1>1, <1>2, <1>4, <1>5 DEF Naming
<1>6. CASE /\ ProcOf[u] = ProcOf[t] /\ MayLockNames(t) /\ Accepted(t)
           /\ names'[ProcOf[u]] = Merge(live, loc[t].art.names)
  <2>1. namesLock[ProcOf[u]] # u
    BY <1>3, <1>6 DEF MayLockNames
  <2>2. ~(pc[u] = "capture" /\ loc[u].key \in Traced)
    BY <1>2, <2>1 DEF Naming, NamesGuard, Guarded
  <2>3. Compatible(live, loc[t].art.names)
    BY <1>6 DEF Accepted
  <2>4. Records(live, loc[u].art.names) => Records(names'[ProcOf[u]], loc[u].art.names)
    BY <1>6, <2>3, ArtTable, MergeRecords
  <2> QED
    BY <1>1, <1>2, <1>4, <2>2, <2>4 DEF Naming
<1> QED
  BY <1>3, <1>5, <1>6, TableStep

\* The tables a step leaves in the files and the memory.
LEMMA TablesStep ==
  ASSUME TypeOK, NamesInv, NEW t \in Thread, Step(t)
  PROVE  TablesInv'
<1>a. OneToOne(loc[t].art.names)
  BY DEF NamesInv, Naming
<1>1. ASSUME NEW k \in Key PROVE OneToOne(file'[k].names)
  <2>1. OneToOne(file[k].names)
    BY DEF NamesInv, TablesInv
  <2>2. CASE UNCHANGED file
    BY <2>1, <2>2
  <2>3. CASE UnlinkCorrupt(t)
    <3>1. file'[k] \in {file[k], NoFile}
      BY <2>3 DEF UnlinkCorrupt, TypeOK, DiskTypes
    <3> QED
      BY <2>1, <3>1, PlainOneToOne DEF NoFile
  <2>4. CASE Replace(t)
    <3>1. file'[k] = file[k] \/ file'[k].names = loc[t].art.names
      BY <2>4 DEF Replace, TypeOK, DiskTypes
    <3> QED
      BY <1>a, <2>1, <3>1
  <2> QED
    BY <2>2, <2>3, <2>4, FileKept
<1>2. ASSUME NEW p \in Proc PROVE OneToOne(names'[p])
  <2>1. OneToOne(names[p])
    BY DEF NamesInv, TablesInv
  <2>2. CASE p = ProcOf[t] /\ Accepted(t) /\ names'[p] = Merge(names[p], loc[t].art.names)
    <3>1. Compatible(names[p], loc[t].art.names)
      BY <2>2 DEF Accepted
    <3> QED
      BY <1>a, <2>1, <2>2, <3>1, ArtTable, MergeOneToOne
  <2> QED
    BY <2>1, <2>2, TableStep
<1>3. ASSUME NEW p \in Proc, NEW table, Records(names[p], table)
      PROVE  Records(names'[p], table)
  <2>1. CASE p = ProcOf[t] /\ Accepted(t) /\ names'[p] = Merge(names[p], loc[t].art.names)
    <3>1. Compatible(names[p], loc[t].art.names)
      BY <2>1 DEF Accepted
    <3> QED
      BY <1>3, <2>1, <3>1, ArtTable, MergeRecords
  <2> QED
    BY <1>3, <2>1, TableStep
<1>4. ASSUME NEW p \in Proc, NEW k \in Key
      PROVE  /\ OneToOne(cache'[p].memory[k].names)
             /\ OneToOne(cache'[p].mem[k].names)
             /\ Records(names'[p], cache'[p].callState[k].names)
  <2>1. /\ OneToOne(cache[p].memory[k].names) /\ OneToOne(cache[p].mem[k].names)
        /\ Records(names[p], cache[p].callState[k].names)
    BY DEF NamesInv, TablesInv
  <2>2. CASE p # ProcOf[t]
    BY <2>1, <2>2, <1>3, OtherProcess
  <2>3. CASE p = ProcOf[t]
    <3>1. pc[t] = "build" => Records(names[p], loc[t].art.names)
      BY <2>3 DEF NamesInv, Naming, Merged
    <3>2. SlotsAfter(t, k)
      BY SlotStep
    <3>3. /\ cache'[p].memory[k] \in {cache[p].memory[k], NoArt, loc[t].art}
          /\ cache'[p].mem[k] \in {cache[p].mem[k], loc[t].art}
          /\ \/ cache'[p].callState[k] = cache[p].callState[k]
             \/ pc[t] = "build" /\ cache'[p].callState[k] = loc[t].art
      BY <2>3, <3>2 DEF SlotsAfter, Mine
    <3> QED
      BY <1>a, <1>3, <2>1, <3>1, <3>3, PlainOneToOne
  <2> QED
    BY <2>2, <2>3
<1> QED
  BY <1>1, <1>2, <1>4 DEF TablesInv

-----------------------------------------------------------------------------
\* The artifact a step puts at hand: none, one from a slot or from the key's
\* file, or a new one.
LEMMA ArtAfter ==
  ASSUME TypeOK, NEW t \in Thread, Step(t)
  PROVE  \/ loc'[t].art \in {loc[t].art, NoArt}
         \/ /\ loc[t].key \in Key
            /\ \/ loc'[t].art \in {Mine(t).mem[loc[t].key], Mine(t).memory[loc[t].key]}
               \/ loc'[t].art.names = file[loc[t].key].names
         \/ Compile(t)
<1> USE DEF Move, KeyOf
<1>k. pc[t] # "idle" => loc[t].key \in Key
  BY DEF TypeOK, ThreadTypes
<1>n. Leave(t) => loc'[t].art = NoArt
  BY DEF Leave, NoLocals, TypeOK, ThreadTypes
<1>1. CASE EnsureManager(t) \/ StoreManagerKey(t) \/ MakeManager(t) \/ LoadAllLock(t)
             \/ LoadAllRead(t) \/ LoadAllDone(t)
  BY <1>1 DEF EnsureManager, StoreManagerKey, MakeManager, LoadAllLock, LoadAllRead,
              LoadAllDone, TypeOK, ThreadTypes, Locals
<1>2. CASE FastPath(t) \/ Missed(t) \/ BuildCallState(t)
  BY <1>2, <1>n, EveryLeave DEF FastPath, Missed, BuildCallState, TypeOK, ThreadTypes, Locals
<1>3. CASE LookupMem(t) \/ GetMemory(t)
  BY <1>3, <1>k, Lands DEF LookupMem, GetMemory
<1>4. CASE GetRead(t) \/ Recheck(t)
  <2>1. loc' = loc \/ \E i \in Id : SetArt(t, Loaded(i, file[loc[t].key]))
    BY <1>4 DEF GetRead, Recheck
  <2>2. \A i \in Id : SetArt(t, Loaded(i, file[loc[t].key]))
                      => loc'[t].art = Loaded(i, file[loc[t].key])
    BY Lands
  <2>3. \A i \in Id : Loaded(i, file[loc[t].key]).names = file[loc[t].key].names
    BY DEF Loaded
  <2>4. loc[t].key \in Key
    BY <1>4, <1>k DEF GetRead, Recheck
  <2> QED
    BY <2>1, <2>2, <2>3, <2>4
<1>5. CASE KeepCached(t) \/ AcceptCached(t) \/ Adjudge(t)
  BY <1>5, <1>n, Lands, EveryLeave DEF KeepCached, AcceptCached, Adjudge
<1>6. CASE GetLock(t) \/ GetTimeout(t) \/ GetKeep(t) \/ AcquireNames(t) \/ CompileLock(t)
             \/ UnlinkCorrupt(t) \/ Adopt(t) \/ Publish(t) \/ WriteTemp(t) \/ Replace(t)
             \/ Remember(t)
  BY <1>6 DEF GetLock, GetTimeout, GetKeep, AcquireNames, CompileLock, UnlinkCorrupt, Adopt,
              Publish, WriteTemp, Replace, Remember
<1>7. CASE CompileLockTimeout(t) \/ CompileRaises(t) \/ Capture(t) \/ Unlock(t)
             \/ BuildRaises(t) \/ Invoke(t)
  BY <1>7, <1>n, EveryLeave
  DEF CompileLockTimeout, CompileRaises, Capture, Unlock, BuildRaises, Invoke
<1> QED
  BY <1>1, <1>2, <1>3, <1>4, <1>5, <1>6, <1>7 DEF Step

\* Inside the with statement the lock of the tables is taken first and kept.
LEMMA InsideNames ==
  ASSUME TypeOK, NEW t \in Thread, Step(t), pc'[t] \in NamesGuard
  PROVE  /\ loc'[t].key = loc[t].key
         /\ AcquireNames(t) \/ (pc[t] \in NamesGuard /\ UNCHANGED namesLock)
<1> USE DEF Move, NamesGuard, Guarded
<1>1. CASE EnsureManager(t) \/ StoreManagerKey(t) \/ MakeManager(t) \/ LoadAllLock(t)
             \/ LoadAllRead(t) \/ LoadAllDone(t) \/ FastPath(t) \/ LookupMem(t)
             \/ GetMemory(t) \/ GetLock(t) \/ GetTimeout(t) \/ GetRead(t)
  BY <1>1, Lands, EveryLeave DEF EnsureManager, StoreManagerKey, MakeManager, LoadAllLock,
     LoadAllRead, LoadAllDone, FastPath, LookupMem, GetMemory, GetLock, GetTimeout, GetRead,
     TypeOK, ThreadTypes
<1>2. CASE GetKeep(t) \/ KeepCached(t) \/ AcceptCached(t) \/ Missed(t)
             \/ CompileLockTimeout(t) \/ CompileRaises(t) \/ Unlock(t) \/ BuildCallState(t)
             \/ BuildRaises(t) \/ Invoke(t)
  BY <1>2, Lands, EveryLeave DEF GetKeep, KeepCached, AcceptCached, Missed,
     CompileLockTimeout, CompileRaises, Unlock, BuildCallState, BuildRaises, Invoke
<1>3. CASE AcquireNames(t)
  BY <1>3 DEF AcquireNames
<1>4. CASE CompileLock(t) \/ Recheck(t) \/ UnlinkCorrupt(t) \/ Adjudge(t) \/ Adopt(t)
  BY <1>4, Lands DEF CompileLock, Recheck, UnlinkCorrupt, Adjudge, Adopt, nameVars,
     Accepted, Rejected
<1>5. CASE Compile(t) \/ Publish(t) \/ WriteTemp(t) \/ Replace(t) \/ Remember(t)
  BY <1>5, Lands DEF Compile, Publish, WriteTemp, Replace, Remember, nameVars
<1>6. CASE Capture(t)
  BY <1>6, Lands, EveryLeave DEF Capture, Accepted
<1> QED
  BY <1>1, <1>2, <1>3, <1>4, <1>5, <1>6 DEF Step

\* An artifact is used from where its names have been merged, and only compiling
\* leads to the merge of new ones.
LEMMA UsedNames ==
  ASSUME TypeOK, NEW t \in Thread, Step(t)
  PROVE  /\ pc'[t] = "capture" => Compile(t)
         /\ pc'[t] \in Merged => /\ loc'[t].art = loc[t].art
                                 /\ Accepted(t) \/ (pc[t] \in Merged /\ UNCHANGED names)
<1> USE DEF Move, Merged
<1>1. CASE EnsureManager(t) \/ StoreManagerKey(t) \/ MakeManager(t) \/ LoadAllLock(t)
             \/ LoadAllRead(t) \/ LoadAllDone(t) \/ FastPath(t) \/ LookupMem(t)
             \/ GetMemory(t) \/ GetLock(t) \/ GetTimeout(t) \/ GetRead(t)
  BY <1>1, Lands, EveryLeave DEF EnsureManager, StoreManagerKey, MakeManager, LoadAllLock,
     LoadAllRead, LoadAllDone, FastPath, LookupMem, GetMemory, GetLock, GetTimeout, GetRead,
     TypeOK, ThreadTypes
<1>2. CASE GetKeep(t) \/ KeepCached(t) \/ Missed(t) \/ AcquireNames(t) \/ CompileLock(t)
             \/ CompileLockTimeout(t) \/ CompileRaises(t) \/ Recheck(t) \/ UnlinkCorrupt(t)
             \/ Compile(t) \/ BuildCallState(t) \/ BuildRaises(t) \/ Invoke(t)
  BY <1>2, Lands, EveryLeave DEF GetKeep, KeepCached, Missed, AcquireNames, CompileLock,
     CompileLockTimeout, CompileRaises, Recheck, UnlinkCorrupt, Compile, BuildCallState,
     BuildRaises, Invoke
<1>3. CASE AcceptCached(t) \/ Adjudge(t) \/ Capture(t)
  BY <1>3, Lands, EveryLeave DEF AcceptCached, Adjudge, Capture
<1>4. CASE Adopt(t) \/ Publish(t) \/ WriteTemp(t) \/ Replace(t) \/ Remember(t) \/ Unlock(t)
  BY <1>4, Lands, EveryLeave DEF Adopt, Publish, WriteTemp, Replace, Remember, Unlock,
     ReleaseLocks, nameVars
<1> QED
  BY <1>1, <1>2, <1>3, <1>4 DEF Step

\* A new artifact's names extend the table they were chosen from.
LEMMA MadeNames ==
  ASSUME TypeOK, NEW t \in Thread, Compile(t)
  PROVE  /\ UNCHANGED nameVars /\ loc'[t].key = loc[t].key /\ loc[t].key \in Key
         /\ loc'[t].art.names \in NameTable
         /\ IF loc[t].key \in Traced
            THEN Extends(loc'[t].art.names, names[ProcOf[t]], loc[t].key)
            ELSE loc'[t].art.names = NoNames
<1>1. PICK i \in Id, table \in NameTable :
        /\ IF loc[t].key \in Traced THEN Extends(table, names[ProcOf[t]], loc[t].key)
                                    ELSE table = NoNames
        /\ SetArt(t, [id |-> i, linked |-> loc[t].key \in Extern, names |-> table])
  BY DEF Compile, KeyOf
<1> DEFINE made == [id |-> i, linked |-> loc[t].key \in Extern, names |-> table]
<1>2. loc'[t].art = made /\ loc'[t].key = loc[t].key
  BY <1>1, Lands
<1>3. made.names = table
  OBVIOUS
<1>4. loc[t].key \in Key /\ UNCHANGED nameVars
  BY DEF Compile, Move, TypeOK, ThreadTypes
<1> QED
  BY <1>1, <1>2, <1>3, <1>4

LEMMA NamingOwn ==
  ASSUME TypeOK, NamesInv, NEW t \in Thread, Step(t)
  PROVE  Naming(t)'
<1> DEFINE live == names[ProcOf[t]]
<1>n. Naming(t)
  BY DEF NamesInv
<1>p. ProcOf[t] \in Proc /\ live \in NameTable /\ OneToOne(live)
  BY ArtTable DEF NamesInv, TablesInv
<1>1. OneToOne(loc'[t].art.names)
  <2>1. CASE loc'[t].art \in {loc[t].art, NoArt}
    BY <1>n, <2>1, PlainOneToOne DEF Naming
  <2>2. CASE /\ loc[t].key \in Key
             /\ \/ loc'[t].art \in {Mine(t).mem[loc[t].key], Mine(t).memory[loc[t].key]}
                \/ loc'[t].art.names = file[loc[t].key].names
    BY <1>p, <2>2 DEF NamesInv, TablesInv, Mine
  <2>3. CASE Compile(t)
    BY <1>p, <2>3, MadeNames, ExtendsFits, PlainOneToOne
  <2> QED
    BY <2>1, <2>2, <2>3, ArtAfter
<1>2. pc'[t] \in NamesGuard /\ loc'[t].key \in Traced => namesLock'[ProcOf[t]] = t
  <2>1. AcquireNames(t) /\ loc[t].key \in Traced => namesLock'[ProcOf[t]] = t
    BY <1>p DEF AcquireNames, KeyOf, TypeOK, NameTypes
  <2> QED
    BY <1>n, <2>1, InsideNames DEF Naming
<1>3. pc'[t] = "capture" /\ loc'[t].key \in Traced
        => Extends(loc'[t].art.names, names'[ProcOf[t]], loc'[t].key)
  BY UsedNames, MadeNames DEF nameVars
<1>4. pc'[t] \in Merged => Records(names'[ProcOf[t]], loc'[t].art.names)
  <2>1. ASSUME Accepted(t) PROVE Records(names'[ProcOf[t]], loc[t].art.names)
    <3>1. Compatible(live, loc[t].art.names) /\ names'[ProcOf[t]] = Merge(live, loc[t].art.names)
      BY <1>p, <2>1 DEF Accepted, TypeOK, NameTypes
    <3> QED
      BY <3>1, ArtTable, MergeRecords
  <2> QED
    BY <1>n, <2>1, UsedNames DEF Naming
<1> QED
  BY <1>1, <1>2, <1>3, <1>4 DEF Naming

LEMMA NamesInit == Init => NamesInv
<1> SUFFICES ASSUME Init PROVE NamesInv
  OBVIOUS
<1>1. ASSUME NEW k \in Key PROVE OneToOne(file[k].names)
  <2>1. file[k].names = NoNames \/ OneToOne(file[k].names)
    BY DEF Init, InitFile, TablesNaming, OneToOne
  <2> QED
    BY <2>1, PlainOneToOne
<1>2. TablesInv
  BY <1>1, PlainOneToOne DEF Init, TablesInv, NoCaches
<1>3. \A t \in Thread : Naming(t)
  BY PlainOneToOne DEF Init, Naming, NoLocals, NamesGuard, Guarded, Merged
<1> QED
  BY <1>2, <1>3 DEF NamesInv

LEMMA NamesNext == TypeOK /\ NamesInv /\ [Next]_vars => NamesInv'
<1> SUFFICES ASSUME TypeOK, NamesInv, [Next]_vars PROVE NamesInv'
  OBVIOUS
<1> USE DEF NamesGuard, Guarded, Merged
<1>1. CASE UNCHANGED vars
  BY <1>1 DEF NamesInv, TablesInv, Naming, vars, diskVars, nameVars
<1>2. ASSUME NEW t \in Thread, Step(t) PROVE NamesInv'
  BY <1>2, TablesStep, NamingOwn, NamingOthers DEF NamesInv
<1>3. ASSUME NEW t \in Thread, NEW k \in Key, NEW m \in Modes, Call(t, k, m) PROVE NamesInv'
  <2>1. TablesInv'
    BY <1>3, CallAndCrash DEF NamesInv, TablesInv
  <2>2. \A u \in Thread : Naming(u)'
    BY <1>3, CallAndCrash DEF NamesInv, Naming
  <2> QED
    BY <2>1, <2>2 DEF NamesInv
<1>4. ASSUME NEW p \in Proc, Crash(p) PROVE NamesInv'
  <2>1. TablesInv'
    BY <1>4, CallAndCrash, PlainOneToOne DEF NamesInv, TablesInv, NoCaches
  <2>2. ASSUME NEW u \in Thread PROVE Naming(u)'
    <3>1. CASE ProcOf[u] = p
      BY <1>4, <3>1, CallAndCrash, PlainOneToOne DEF Naming, NoLocals
    <3>2. CASE ProcOf[u] # p
      BY <1>4, <3>2, CallAndCrash, ArtTable DEF NamesInv, Naming
    <3> QED
      BY <3>1, <3>2
  <2> QED
    BY <2>1, <2>2 DEF NamesInv
<1> QED
  BY <1>1, <1>2, <1>3, <1>4 DEF Next

LEMMA NamesAlways == Spec => [](TypeOK /\ FileInv /\ NamesInv)
<1>1. Init => NamesInv
  BY NamesInit
<1>2. TypeOK /\ NamesInv /\ [Next]_vars => NamesInv'
  BY NamesNext
<1> QED
  BY <1>1, <1>2, StoreInvariants, PTL DEF Spec

\* The live tables of names are one to one, and every CallState's event names are
\* recorded in its process's table.
THEOREM NamesAlwaysAgree == Spec => []NamesAgree
<1>1. NamesInv => NamesAgree
  <2> SUFFICES ASSUME NamesInv PROVE NamesAgree
    OBVIOUS
  <2>1. \A p \in Proc, j, k \in Key : names[p][j] = names[p][k] /\ names[p][j] # 0 => j = k
    BY DEF NamesInv, TablesInv, OneToOne, Compatible
  <2>2. \A p \in Proc, j, k \in Key :
          cache[p].callState[j].names[k] # 0 => names[p][k] = cache[p].callState[j].names[k]
    BY DEF NamesInv, TablesInv, Records
  <2> QED
    BY <2>1, <2>2 DEF NamesAgree
<1> QED
  BY <1>1, NamesAlways, PTL

\* The ids a compilation hands out fit the table when it records them: the lock
\* of the tables spans both.
THEOREM CaptureAlwaysFits == Spec => []CaptureFits
<1>1. TypeOK /\ FileInv /\ NamesInv => CaptureFits
  <2> SUFFICES ASSUME TypeOK, FileInv, NamesInv, NEW t \in Thread, pc[t] = "capture"
               PROVE  Compatible(names[ProcOf[t]], loc[t].art.names)
    BY DEF CaptureFits
  <2>1. loc[t].key \in Key
    BY DEF TypeOK, ThreadTypes
  <2>2. CASE loc[t].key \in Traced
    <3>1. Extends(loc[t].art.names, names[ProcOf[t]], loc[t].key)
      BY <2>2 DEF NamesInv, Naming
    <3>2. OneToOne(names[ProcOf[t]])
      BY ArtTable DEF NamesInv, TablesInv
    <3> QED
      BY <2>1, <3>1, <3>2, ArtTable, ExtendsFits
  <2>3. CASE loc[t].key \notin Traced
    <3>1. loc[t].art.names = NoNames
      BY <2>1, <2>3 DEF FileInv, Knows, Named
    <3> QED
      BY <3>1, ArtTable, PlainCompatible
  <2> QED
    BY <2>2, <2>3
<1> QED
  BY <1>1, NamesAlways, PTL

-----------------------------------------------------------------------------
(* Function pointers, in processes of one thread.                          *)

OneThreadEach == \A t, u \in Thread : ProcOf[t] = ProcOf[u] => t = u

\* Where a dispatch has found no CallState, and where the artifact at hand is the
\* one in _mem_cache.
Deciding == PcValues \ {"idle", "ensure", "keying", "mkmgr", "scan", "scanread", "fast", "invoke"}
Agreeing == {"accept", "write", "replace", "remember", "unlock", "build"}

Alive(t) ==
  /\ pc[t] \in Deciding => Mine(t).callState[loc[t].key] = NoArt
  /\ pc[t] \in Agreeing => loc[t].art = Mine(t).mem[loc[t].key]
  /\ loc[t].fn = IF pc[t] = "invoke" THEN Mine(t).mem[loc[t].key] ELSE NoArt
  /\ handle[t].fn \in {NoArt, handle[t].keep}

AliveInv ==
  /\ \A p \in Proc, k \in Key : cache[p].callState[k] \in {NoArt, cache[p].mem[k]}
  /\ \A t \in Thread : Alive(t)

\* A step changes the handle of its own thread's caller only.
LEMMA HandleStep ==
  ASSUME TypeOK, NEW t \in Thread, Step(t), NEW u \in Thread, u # t
  PROVE  handle'[u] = handle[u]
<1>1. ASSUME NEW a, LeaveWithHandle(t, a) PROVE handle'[u] = handle[u]
  BY <1>1 DEF LeaveWithHandle, TypeOK, ThreadTypes
<1>2. ASSUME NEW a, LeavePlain(t) \/ LeaveUnexecuted(t, a) PROVE handle'[u] = handle[u]
  BY <1>1, <1>2 DEF LeavePlain, LeaveUnexecuted
<1>3. CASE EnsureManager(t) \/ StoreManagerKey(t) \/ MakeManager(t) \/ LoadAllLock(t)
             \/ LoadAllRead(t) \/ LoadAllDone(t) \/ FastPath(t) \/ LookupMem(t)
             \/ GetMemory(t) \/ GetLock(t) \/ GetTimeout(t) \/ GetRead(t)
  BY <1>2, <1>3 DEF EnsureManager, StoreManagerKey, MakeManager, LoadAllLock,
     LoadAllRead, LoadAllDone, FastPath, LookupMem, GetMemory, GetLock, GetTimeout, GetRead
<1>4. CASE GetKeep(t) \/ KeepCached(t) \/ AcceptCached(t) \/ Missed(t) \/ AcquireNames(t)
             \/ CompileLock(t) \/ CompileLockTimeout(t) \/ Recheck(t) \/ UnlinkCorrupt(t)
             \/ Adjudge(t) \/ Adopt(t)
  BY <1>2, <1>4 DEF GetKeep, KeepCached, AcceptCached, Missed, AcquireNames, CompileLock,
     CompileLockTimeout, Recheck, UnlinkCorrupt, Adjudge, Adopt
<1>5. CASE Compile(t) \/ CompileRaises(t) \/ Capture(t) \/ Publish(t) \/ WriteTemp(t)
             \/ Replace(t) \/ Remember(t) \/ Unlock(t) \/ BuildCallState(t)
             \/ BuildRaises(t) \/ Invoke(t)
  BY <1>1, <1>2, <1>5 DEF Compile, CompileRaises, Capture, Publish, WriteTemp, Replace,
     Remember, Unlock, BuildCallState, BuildRaises, Invoke
<1> QED
  BY <1>3, <1>4, <1>5 DEF Step

\* The caches: only the build step makes a CallState, and nothing replaces the
\* artifact of a key that has one.
LEMMA AliveSlots ==
  ASSUME TypeOK, AliveInv, NEW t \in Thread, Step(t), NEW p \in Proc, NEW k \in Key
  PROVE  cache'[p].callState[k] \in {NoArt, cache'[p].mem[k]}
<1>1. cache[p].callState[k] \in {NoArt, cache[p].mem[k]} /\ Alive(t)
  BY DEF AliveInv
<1>2. CASE p # ProcOf[t]
  BY <1>1, <1>2, OtherProcess
<1>3. CASE p = ProcOf[t]
  <2>1. SlotsAfter(t, k)
    BY SlotStep
  <2>2. pc[t] \in {"keep", "adopt", "publish", "build"} => Mine(t).callState[loc[t].key] = NoArt
    BY <1>1 DEF Alive, Deciding, PcValues
  <2>3. pc[t] = "build" => loc[t].art = Mine(t).mem[loc[t].key]
    BY <1>1 DEF Alive, Agreeing
  <2> QED
    BY <1>1, <1>3, <2>1, <2>2, <2>3 DEF SlotsAfter, Mine
<1> QED
  BY <1>2, <1>3

\* A dispatch that is past the CallState lookup came from the miss.
LEMMA DecidingStep ==
  ASSUME TypeOK, NEW t \in Thread, Step(t), pc'[t] \in Deciding
  PROVE  /\ loc'[t].key = loc[t].key /\ loc[t].key \in Key
         /\ \/ pc[t] \in Deciding \ {"build"}
            \/ Mine(t).callState[loc[t].key] = NoArt /\ pc[t] = "fast"
<1> USE DEF Move, KeyOf, Deciding
<1>k. pc[t] # "idle" => loc[t].key \in Key
  BY DEF TypeOK, ThreadTypes
<1>1. CASE EnsureManager(t) \/ StoreManagerKey(t) \/ MakeManager(t) \/ LoadAllLock(t)
             \/ LoadAllRead(t) \/ LoadAllDone(t) \/ CompileLockTimeout(t) \/ CompileRaises(t)
             \/ BuildCallState(t) \/ BuildRaises(t) \/ Invoke(t)
  BY <1>1, Lands, EveryLeave DEF EnsureManager, StoreManagerKey, MakeManager, LoadAllLock,
     LoadAllRead, LoadAllDone, CompileLockTimeout, CompileRaises, BuildCallState, BuildRaises,
     Invoke
<1>2. CASE FastPath(t)
  BY <1>2, <1>k, Lands, EveryLeave DEF FastPath
<1>3. CASE LookupMem(t) \/ GetMemory(t) \/ GetLock(t) \/ GetTimeout(t) \/ GetRead(t)
             \/ GetKeep(t) \/ KeepCached(t) \/ AcquireNames(t) \/ CompileLock(t)
  BY <1>3, <1>k, Lands DEF LookupMem, GetMemory, GetLock, GetTimeout, GetRead, GetKeep,
     KeepCached, AcquireNames, CompileLock, PcValues
<1>4. CASE AcceptCached(t) \/ Missed(t) \/ Capture(t) \/ Unlock(t)
  BY <1>4, <1>k, Lands, EveryLeave
  DEF AcceptCached, Missed, Capture, Unlock, PcValues, TypeOK, ThreadTypes, Locals
<1>5. CASE Recheck(t) \/ UnlinkCorrupt(t) \/ Adjudge(t) \/ Adopt(t) \/ Compile(t)
             \/ Publish(t) \/ WriteTemp(t) \/ Replace(t) \/ Remember(t)
  BY <1>5, <1>k, Lands DEF Recheck, UnlinkCorrupt, Adjudge, Adopt, Compile, Publish,
     WriteTemp, Replace, Remember, PcValues
<1> QED
  BY <1>1, <1>2, <1>3, <1>4, <1>5 DEF Step

\* Where the artifact at hand becomes the one in _mem_cache, and stays it.
LEMMA AgreeingStep ==
  ASSUME TypeOK, AliveInv, NEW t \in Thread, Step(t), pc'[t] \in Agreeing
  PROVE  loc'[t].art = Mine(t).mem'[loc'[t].key]
<1> USE DEF Move, KeyOf, Agreeing
<1>k. pc[t] # "idle" => loc[t].key \in Key
  BY DEF TypeOK, ThreadTypes
<1>a. Alive(t)
  BY DEF AliveInv
<1>1. CASE LookupMem(t)
  BY <1>1, Lands DEF LookupMem, Mine
<1>2. CASE KeepCached(t) \/ Adopt(t) \/ Publish(t)
  <2>1. loc[t].key \in Key /\ loc' = loc
    BY <1>2, <1>k, Lands DEF KeepCached, Adopt, Publish
  <2>2. \A i \in Key : Mine(t).mem'[i] = IF i = loc[t].key THEN loc[t].art ELSE Mine(t).mem[i]
    <3>1. CASE Publish(t)
      BY <2>1, <3>1, LastSet DEF Publish
    <3>2. CASE KeepCached(t) \/ Adopt(t)
      <4>1. cache' = [cache EXCEPT ![ProcOf[t]].mem[loc[t].key] = loc[t].art]
        BY <3>2, Lands DEF KeepCached, Adopt
      <4> QED
        BY <2>1, <4>1, MemSet
    <3> QED
      BY <1>2, <3>1, <3>2
  <2> QED
    BY <2>1, <2>2
<1>3. CASE AcceptCached(t) \/ WriteTemp(t) \/ Replace(t) \/ Remember(t) \/ Unlock(t)
  <2>1. loc' = loc /\ pc[t] \in Agreeing
    BY <1>3, Lands, EveryLeave DEF AcceptCached, WriteTemp, Replace, Remember, Unlock
  <2>2. loc[t].key \in Key /\ loc[t].art = Mine(t).mem[loc[t].key]
    BY <1>a, <1>k, <2>1 DEF Alive
  <2>3. SlotsAfter(t, loc[t].key)
    BY <2>2, SlotStep
  <2> QED
    BY <2>1, <2>2, <2>3 DEF SlotsAfter
<1>4. CASE EnsureManager(t) \/ StoreManagerKey(t) \/ MakeManager(t) \/ LoadAllLock(t)
             \/ LoadAllRead(t) \/ LoadAllDone(t) \/ FastPath(t) \/ GetMemory(t) \/ GetLock(t)
             \/ GetTimeout(t) \/ GetRead(t) \/ GetKeep(t) \/ Missed(t) \/ AcquireNames(t)
  BY <1>4, Lands, EveryLeave DEF EnsureManager, StoreManagerKey, MakeManager, LoadAllLock,
     LoadAllRead, LoadAllDone, FastPath, GetMemory, GetLock, GetTimeout, GetRead, GetKeep,
     Missed, AcquireNames, TypeOK, ThreadTypes
<1>5. CASE CompileLock(t) \/ CompileLockTimeout(t) \/ Recheck(t) \/ UnlinkCorrupt(t)
             \/ Adjudge(t) \/ Compile(t) \/ CompileRaises(t) \/ Capture(t)
             \/ BuildCallState(t) \/ BuildRaises(t) \/ Invoke(t)
  BY <1>5, Lands, EveryLeave DEF CompileLock, CompileLockTimeout, Recheck, UnlinkCorrupt,
     Adjudge, Compile, CompileRaises, Capture, BuildCallState, BuildRaises, Invoke
<1> QED
  BY <1>1, <1>2, <1>3, <1>4, <1>5 DEF Step

\* The pointer a launch uses, and the one its caller is handed.
LEMMA PointerStep ==
  ASSUME TypeOK, AliveInv, NEW t \in Thread, Step(t)
  PROVE  /\ loc'[t].fn = IF pc'[t] = "invoke" THEN Mine(t).mem'[loc'[t].key] ELSE NoArt
         /\ handle'[t].fn \in {NoArt, handle'[t].keep}
<1> USE DEF Move, KeyOf
<1> DEFINE a == Mine(t).mem[loc[t].key]
<1>a. Alive(t) /\ handle[t].fn \in {NoArt, handle[t].keep}
  BY DEF AliveInv, Alive
<1>f. pc[t] # "invoke" => loc[t].fn = NoArt
  BY <1>a DEF Alive
<1>k. pc[t] # "idle" => loc[t].key \in Key
  BY DEF TypeOK, ThreadTypes
<1>h. ASSUME NEW s \in {NoArt, a}, LeaveWithHandle(t, s)
      PROVE  handle'[t].fn \in {NoArt, handle'[t].keep}
  BY <1>h DEF LeaveWithHandle, TypeOK, ThreadTypes
<1>l. Leave(t) => loc'[t].fn = NoArt /\ pc'[t] = "idle"
  BY DEF Leave, Goto, NoLocals, TypeOK, ThreadTypes
<1>1. CASE EnsureManager(t) \/ StoreManagerKey(t) \/ MakeManager(t) \/ LoadAllLock(t)
             \/ LoadAllRead(t) \/ LoadAllDone(t)
  BY <1>1, <1>a, <1>f, Lands DEF EnsureManager, StoreManagerKey, MakeManager, LoadAllLock,
     LoadAllRead, LoadAllDone, TypeOK, ThreadTypes, Locals
<1>2. CASE FastPath(t)
  <2>0. pc[t] = "fast" /\ loc[t].key \in Key /\ ProcOf[t] \in Proc
    BY <1>2, <1>k, ArtTable DEF FastPath
  <2>1. Mine(t).callState[loc[t].key] \in {NoArt, a}
    BY <2>0 DEF AliveInv, Mine
  <2>2. CASE Goto(t, "mem") /\ UNCHANGED <<loc, handle>>
    BY <1>a, <1>f, <2>0, <2>2, Lands
  <2>3. CASE /\ Mine(t).callState[loc[t].key] # NoArt /\ Goto(t, "invoke") /\ UNCHANGED handle
             /\ loc' = [loc EXCEPT ![t].fn = Mine(t).callState[loc[t].key]]
    <3>1. loc'[t].fn = a /\ loc'[t].key = loc[t].key
      BY <2>1, <2>3 DEF TypeOK, ThreadTypes, Locals
    <3>2. UNCHANGED cache
      BY <1>2 DEF FastPath
    <3> QED
      BY <1>a, <2>3, <3>1, <3>2, Lands DEF Mine
  <2>4. CASE LeaveUnexecuted(t, Mine(t).callState[loc[t].key])
    BY <1>a, <1>h, <1>l, <2>1, <2>4, EveryLeave DEF LeaveUnexecuted, LeavePlain
  <2> QED
    BY <1>2, <2>2, <2>3, <2>4 DEF FastPath
<1>3. CASE LookupMem(t) \/ GetMemory(t) \/ GetLock(t) \/ GetTimeout(t) \/ GetRead(t)
             \/ GetKeep(t) \/ KeepCached(t) \/ AcquireNames(t) \/ CompileLock(t)
  <2>1. /\ UNCHANGED handle /\ pc[t] # "invoke" /\ pc'[t] # "invoke"
        /\ loc' = loc \/ \E b : SetArt(t, b)
    BY <1>3, Lands DEF LookupMem, GetMemory, GetLock, GetTimeout, GetRead, GetKeep,
       KeepCached, AcquireNames, CompileLock
  <2> QED
    BY <1>a, <1>f, <2>1, Lands
<1>4. CASE Recheck(t) \/ UnlinkCorrupt(t) \/ Adjudge(t) \/ Adopt(t) \/ Compile(t)
             \/ Publish(t) \/ WriteTemp(t) \/ Replace(t) \/ Remember(t)
  <2>1. /\ UNCHANGED handle /\ pc[t] # "invoke" /\ pc'[t] # "invoke"
        /\ loc' = loc \/ \E b : SetArt(t, b)
    BY <1>4, Lands DEF Recheck, UnlinkCorrupt, Adjudge, Adopt, Compile, Publish, WriteTemp,
       Replace, Remember
  <2> QED
    BY <1>a, <1>f, <2>1, Lands
<1>5. CASE AcceptCached(t) \/ Unlock(t)
  <2>1. CASE Goto(t, "build") /\ UNCHANGED <<loc, handle>>
    BY <1>5, <1>a, <1>f, <2>1, Lands DEF AcceptCached, Unlock
  <2>2. CASE LeaveUnexecuted(t, NoArt) \/ LeavePlain(t)
    BY <1>a, <1>h, <1>l, <2>2, EveryLeave DEF LeaveUnexecuted, LeavePlain
  <2>3. CASE Goto(t, "missed") /\ SetArt(t, NoArt) /\ UNCHANGED handle
    BY <1>5, <1>a, <1>f, <2>3, Lands DEF AcceptCached, Unlock
  <2> QED
    BY <1>5, <2>1, <2>2, <2>3 DEF AcceptCached, Unlock
<1>6. CASE Missed(t) \/ Capture(t)
  <2>1. /\ UNCHANGED handle /\ pc[t] # "invoke"
        /\ \/ Leave(t)
           \/ pc'[t] # "invoke" /\ loc'[t].fn = loc[t].fn
    BY <1>6, Lands DEF Missed, Capture, LeavePlain, TypeOK, ThreadTypes, Locals
  <2> QED
    BY <1>a, <1>f, <1>l, <2>1
<1>7. CASE CompileLockTimeout(t) \/ CompileRaises(t) \/ BuildRaises(t)
  BY <1>7, <1>a, <1>l DEF CompileLockTimeout, CompileRaises, BuildRaises, LeavePlain
<1>8. CASE BuildCallState(t)
  <2>1. pc[t] = "build" /\ loc[t].key \in Key /\ loc[t].art = a
    BY <1>8, <1>a, <1>k DEF BuildCallState, Alive, Agreeing
  <2>2. loc'[t].fn = a /\ loc'[t].key = loc[t].key /\ pc'[t] = "invoke" /\ UNCHANGED handle
    BY <1>8, <2>1, Lands DEF BuildCallState, TypeOK, ThreadTypes, Locals
  <2>3. UNCHANGED Mine(t).mem
    BY <1>8, <2>1, StateSet DEF BuildCallState
  <2> QED
    BY <1>a, <2>2, <2>3
<1>9. CASE Invoke(t)
  <2>1. loc[t].fn = a
    BY <1>9, <1>a DEF Invoke, Alive
  <2> QED
    BY <1>9, <2>1, <1>a, <1>h, <1>l, EveryLeave DEF Invoke, LeavePlain
<1> QED
  BY <1>1, <1>2, <1>3, <1>4, <1>5, <1>6, <1>7, <1>8, <1>9 DEF Step

LEMMA AliveOwn ==
  ASSUME TypeOK, AliveInv, NEW t \in Thread, Step(t)
  PROVE  Alive(t)'
<1>1. pc'[t] \in Deciding => Mine(t)'.callState[loc'[t].key] = NoArt
  <2> SUFFICES ASSUME pc'[t] \in Deciding PROVE Mine(t)'.callState[loc'[t].key] = NoArt
    OBVIOUS
  <2>1. /\ loc'[t].key = loc[t].key /\ loc[t].key \in Key /\ pc[t] # "build"
        /\ Mine(t).callState[loc[t].key] = NoArt
    BY DecidingStep DEF AliveInv, Alive
  <2>2. SlotsAfter(t, loc[t].key)
    BY <2>1, SlotStep
  <2> QED
    BY <2>1, <2>2 DEF SlotsAfter
<1> QED
  BY <1>1, AgreeingStep, PointerStep DEF Alive

LEMMA AliveInit == Init => AliveInv
BY DEF Init, AliveInv, Alive, NoCaches, NoLocals, NoHandle, Deciding, Agreeing

LEMMA AliveNext ==
  ASSUME OneThreadEach, TypeOK, AliveInv, [Next]_vars
  PROVE  AliveInv'
<1>1. CASE UNCHANGED vars
  BY <1>1 DEF AliveInv, Alive, Mine, vars
<1>2. ASSUME NEW t \in Thread, Step(t) PROVE AliveInv'
  <2>1. ASSUME NEW u \in Thread, u # t PROVE Alive(u)'
    <3>1. /\ pc'[u] = pc[u] /\ loc'[u] = loc[u] /\ handle'[u] = handle[u]
          /\ Mine(u)' = Mine(u) /\ Alive(u)
      BY <1>2, <2>1, OthersStay, HandleStep, OtherProcess, ArtTable
      DEF OneThreadEach, AliveInv, Mine
    <3> QED
      BY <3>1 DEF Alive
  <2> QED
    BY <1>2, <2>1, AliveSlots, AliveOwn DEF AliveInv
<1>3. ASSUME NEW t \in Thread, NEW k \in Key, NEW m \in Modes, Call(t, k, m) PROVE AliveInv'
  <2>1. /\ pc[t] = "idle" /\ pc'[t] = "ensure" /\ loc'[t].fn = loc[t].fn
        /\ UNCHANGED <<cache, handle>>
        /\ \A u \in Thread \ {t} : pc'[u] = pc[u] /\ loc'[u] = loc[u]
    BY <1>3, CallAndCrash DEF Call, Move
  <2> QED
    BY <2>1 DEF AliveInv, Alive, Deciding, Agreeing, Mine
<1>4. ASSUME NEW p \in Proc, Crash(p) PROVE AliveInv'
  <2>1. \A q \in Proc, k \in Key : cache'[q].callState[k] \in {NoArt, cache'[q].mem[k]}
    BY <1>4, CallAndCrash DEF AliveInv, NoCaches
  <2>2. ASSUME NEW u \in Thread PROVE Alive(u)'
    <3>1. CASE ProcOf[u] = p
      BY <1>4, <3>1, CallAndCrash DEF Alive, NoLocals, NoHandle, Deciding, Agreeing
    <3>2. CASE ProcOf[u] # p
      BY <1>4, <3>2, CallAndCrash, ArtTable DEF AliveInv, Alive, Mine
    <3> QED
      BY <3>1, <3>2
  <2> QED
    BY <2>1, <2>2 DEF AliveInv
<1> QED
  BY <1>1, <1>2, <1>3, <1>4 DEF Next

\* In processes of one thread every function pointer points into an artifact that
\* is kept alive. (Two threads that build one key's state let it dangle.)
THEOREM CodeStaysAlive ==
  ASSUME OneThreadEach
  PROVE  Spec => []CodeAlive
<1>1. Init => TypeOK /\ AliveInv
  BY TypeInit, AliveInit
<1>2. TypeOK /\ AliveInv /\ [Next]_vars => (TypeOK /\ AliveInv)'
  BY TypeStep, AliveNext
<1>3. TypeOK /\ AliveInv => CodeAlive
  <2> SUFFICES ASSUME TypeOK, AliveInv, NEW p \in Proc, NEW i \in Pointers(p)
               PROVE  i \in Reachable(p) \cup {0}
    BY DEF CodeAlive
  <2>1. ASSUME NEW k \in Key, i = cache[p].callState[k].id PROVE i \in Reachable(p) \cup {0}
    BY <2>1 DEF AliveInv, Reachable, NoArt
  <2>2. ASSUME NEW t \in ThreadsOf(p), i = loc[t].fn.id PROVE i \in Reachable(p) \cup {0}
    <3>1. CASE pc[t] = "invoke"
      <4>1. loc[t].key \in Key /\ ProcOf[t] = p /\ loc[t].fn = Mine(t).mem[loc[t].key]
        BY <3>1 DEF TypeOK, ThreadTypes, AliveInv, Alive, ThreadsOf
      <4> QED
        BY <2>2, <4>1 DEF Reachable, Mine
    <3>2. CASE pc[t] # "invoke"
      BY <2>2, <3>2 DEF AliveInv, Alive, ThreadsOf, NoArt
    <3> QED
      BY <3>1, <3>2
  <2>3. ASSUME NEW t \in ThreadsOf(p), i = handle[t].fn.id PROVE i \in Reachable(p) \cup {0}
    BY <2>3 DEF AliveInv, Alive, Reachable, ThreadsOf, NoArt
  <2> QED
    BY <2>1, <2>2, <2>3 DEF Pointers
<1> QED
  BY <1>1, <1>2, <1>3, PTL DEF Spec
=============================================================================
