------------------------------ MODULE JitCache ------------------------------
(***************************************************************************)
(* One @flyc.jit function called by several threads of several processes   *)
(* that share one cache directory: JitFunction._compile_or_execute, the    *)
(* JitCacheManager it uses, the flock-based FileLock and the ktrace event  *)
(* name table, all of python/flydsl.                                       *)
(*                                                                         *)
(* A compiled artifact is a record: its identity in the process's heap, the*)
(* event names baked into it and whether it links external libraries. The  *)
(* identity matters because a CallState holds a raw function pointer into  *)
(* the artifact's code and no reference to the artifact itself.            *)
(***************************************************************************)
EXTENDS Naturals, FiniteSets

CONSTANTS
  Thread,      \* Python threads
  Proc,        \* processes sharing the cache directory
  ProcOf,      \* the process of each thread
  Key,         \* specializations (cache keys) of the function
  Traced,      \* keys compiled with the ktrace hint
  Extern,      \* keys whose kernel links external libraries
  NoDisk,      \* processes with FLYDSL_RUNTIME_ENABLE_CACHE=0
  RunOnly,     \* processes with FLYDSL_RUNTIME_RUN_ONLY=1
  Modes,       \* how the function is called, a subset of CallModes
  InitKinds,   \* what the cache files may be at the start
  Id,          \* heap identities of artifacts, per process
  EventId,     \* ids of ktrace events
  MaxCalls,    \* bound: calls made in a behaviour
  MaxCrashes,  \* bound: processes killed in a behaviour
  NoKey, NoThread

CallModes == {"call", "compile", "placeholder", "prepare"}
Kinds     == {"absent", "good", "linked", "corrupt"}

ASSUME ConstantsAssumption ==
  /\ ProcOf \in [Thread -> Proc]
  /\ Traced \subseteq Key /\ Extern \subseteq Key
  /\ NoDisk \subseteq Proc /\ RunOnly \subseteq Proc
  /\ NoDisk \cap RunOnly = {}
  /\ Modes \subseteq CallModes
  /\ InitKinds \subseteq Kinds
  /\ Id \subseteq Nat \ {0} /\ EventId \subseteq Nat \ {0}
  /\ MaxCalls \in Nat /\ MaxCrashes \in Nat
  /\ NoKey \notin Key /\ NoThread \notin Thread

VARIABLES
  file,       \* {cache_key}.pkl of each key
  shared,     \* threads holding flock(LOCK_SH) on {cache_key}.lock
  excl,       \* threads holding flock(LOCK_EX) on {cache_key}.lock
  names,      \* ktrace_common._NAMES of each process; 0 is no id
  namesLock,  \* owner of ktrace_common._NAMES_LOCK
  cache,      \* the JitFunction and its JitCacheManager in each process
  pc, loc,    \* where each thread is, and the locals of its call
  handle,     \* the CompiledFunction the thread's caller holds
  calls, crashes

diskVars  == <<file, shared, excl>>
nameVars  == <<names, namesLock>>
boundVars == <<calls, crashes>>
vars == <<diskVars, nameVars, cache, pc, loc, handle, boundVars>>

PcValues ==
  {"idle", "ensure", "keying", "mkmgr", "scan", "scanread", "fast", "mem",
   "get", "getlock", "getread", "getkeep", "keep", "accept", "missed",
   "names", "exlock", "recheck", "unlink", "adjudge", "adopt", "compile",
   "capture", "publish", "write", "replace", "remember", "unlock", "build",
   "invoke"}

-----------------------------------------------------------------------------
(* Event name tables: ktrace_common._NAMES, _ID_OWNER and merge_names.     *)

NameTable == [Key -> EventId \cup {0}]
NoNames   == [k \in Key |-> 0]

\* Mutant: only the id of a name is compared, not the owner of an id.
CompatibleByName(live, added) ==
  \A k \in Key : live[k] # 0 /\ added[k] # 0 => live[k] = added[k]

\* merge_names raises no EventNameConflict: no name with two ids, no id with
\* two names.
Compatible(live, added) ==
  \A j, k \in Key : live[j] # 0 /\ added[k] # 0 => (live[j] = added[k] <=> j = k)

\* Mutant: the artifact's table replaces the live one.
MergeReplaces(live, added) == [k \in {j \in Key : added[j] # 0} |-> added[k]]

Merge(live, added) == [k \in Key |-> IF added[k] # 0 THEN added[k] ELSE live[k]]

\* A table that names k besides what `live` names: the known id, or the one
\* after the largest (FlyKtraceToROCDL numbers new names from nextId).
Extends(table, live, k) ==
  \/ live[k] # 0 /\ table = live
  \/ /\ live[k] = 0
     /\ \E i \in EventId :
          /\ \A j \in Key : live[j] < i
          /\ \A i2 \in EventId : i2 < i => \E j \in Key : live[j] >= i2
          /\ table = [live EXCEPT ![k] = i]

-----------------------------------------------------------------------------
(* Artifacts, the state that refers to them, and what keeps them alive.     *)

Artifact == [id : Id, linked : BOOLEAN, names : NameTable]
NoArt    == [id |-> 0, linked |-> FALSE, names |-> NoNames]
Content  == [kind : Kinds, names : NameTable]
NoFile   == [kind |-> "absent", names |-> NoNames]
Handles  == [fn : Artifact \cup {NoArt}, keep : Artifact \cup {NoArt}]
NoHandle == [fn |-> NoArt, keep |-> NoArt]
Slots    == [Key -> Artifact \cup {NoArt}]

Caches == [mgr : {"none", "keyed", "ready"},  \* manager_key, cache_manager
           memory : Slots,                    \* JitCacheManager.memory_cache
           mem : Slots,                       \* _mem_cache
           callState : Slots,                 \* _call_state_cache
           last : Artifact \cup {NoArt},      \* _last_compiled
           externKeys : SUBSET Key]           \* _extern_linkage_keys
NoCaches == [mgr |-> "none", memory |-> [k \in Key |-> NoArt],
             mem |-> [k \in Key |-> NoArt], callState |-> [k \in Key |-> NoArt],
             last |-> NoArt, externKeys |-> {}]

Locals == [key : Key \cup {NoKey}, mode : CallModes,
           art : Artifact \cup {NoArt},       \* cached_func / compiled_func
           fn : Artifact \cup {NoArt},        \* the CallState being invoked
           useLock : BOOLEAN,                 \* _use_compile_lock
           scan : SUBSET Key]                 \* files load_all has yet to read
NoLocals == [key |-> NoKey, mode |-> "call", art |-> NoArt, fn |-> NoArt,
             useLock |-> FALSE, scan |-> {}]

ThreadsOf(p) == {t \in Thread : ProcOf[t] = p}
KeyOf(t)     == loc[t].key
Mine(t)      == cache[ProcOf[t]]

\* Strong references: both caches, _last_compiled, a call's locals and the
\* _keepalive of the CompiledFunctions callers hold.
Reachable(p) ==
  {cache[p].mem[k].id : k \in Key} \cup {cache[p].memory[k].id : k \in Key}
    \cup {cache[p].last.id} \cup {loc[t].art.id : t \in ThreadsOf(p)}
    \cup {handle[t].keep.id : t \in ThreadsOf(p)}

\* Function pointers into an artifact's code; they keep nothing alive.
Pointers(p) ==
  {cache[p].callState[k].id : k \in Key} \cup {loc[t].fn.id : t \in ThreadsOf(p)}
    \cup {handle[t].fn.id : t \in ThreadsOf(p)}

\* The identity of the next object: the smallest one nothing refers to.
Fresh(p, i) ==
  LET free == Id \ (Reachable(p) \cup Pointers(p))
  IN  i \in free /\ \A j \in free : i <= j

\* The object pickle.load makes of a file.
Loaded(i, c) == [id |-> i, linked |-> c.kind = "linked", names |-> c.names]

-----------------------------------------------------------------------------
\* The tables a process that named k can have baked into a file: ids are
\* handed out from 1 on without gaps.
TablesNaming(k) ==
  IF k \notin Traced THEN {NoNames}
  ELSE {n \in NameTable :
          /\ n[k] # 0 /\ Compatible(n, n)
          /\ \A j \in Key : n[j] # 0 =>
               /\ j \in Traced
               /\ \A i \in EventId : i < n[j] => \E m \in Key : n[m] = i}

\* Files an earlier run may have left: an artifact, a damaged file, or one
\* of an older version that stored extern-linked artifacts.
InitFile(k) ==
  {c \in Content :
     /\ c.kind \in InitKinds
     /\ c.kind = "linked" => k \in Extern
     /\ c.kind = "good" => k \notin Extern
     /\ c.names \in IF c.kind \in {"good", "linked"} THEN TablesNaming(k)
                                                   ELSE {NoNames}}

Init ==
  /\ file \in [Key -> Content]
  /\ \A k \in Key : file[k] \in InitFile(k)
  /\ shared = [k \in Key |-> {}] /\ excl = [k \in Key |-> {}]
  /\ names = [p \in Proc |-> NoNames]
  /\ namesLock = [p \in Proc |-> NoThread]
  /\ cache = [p \in Proc |-> NoCaches]
  /\ pc = [t \in Thread |-> "idle"]
  /\ loc = [t \in Thread |-> NoLocals]
  /\ handle = [t \in Thread |-> NoHandle]
  /\ calls = 0 /\ crashes = 0

-----------------------------------------------------------------------------
Goto(t, l) == pc' = [pc EXCEPT ![t] = l]
Move(t, from, to) == pc[t] = from /\ Goto(t, to)
SetArt(t, a) == loc' = [loc EXCEPT ![t].art = a]

\* The call returns or raises: its locals go, and with them the references.
Leave(t) == Goto(t, "idle") /\ loc' = [loc EXCEPT ![t] = NoLocals]
LeavePlain(t) == Leave(t) /\ UNCHANGED handle

\* _make_compiled_function: the returned CompiledFunction has the dispatch
\* state of this call, and whatever artifact _mem_cache holds for the key.
LeaveWithHandle(t, state) ==
  /\ Leave(t)
  /\ handle' = [handle EXCEPT ![t] = [fn |-> state, keep |-> Mine(t).mem[KeyOf(t)]]]

\* A CPU-only compile (`execute` false) ends as soon as an artifact is there.
Executes(t) == loc[t].mode \in {"call", "compile"}
LeaveUnexecuted(t, state) ==
  IF loc[t].mode = "placeholder" THEN LeaveWithHandle(t, state) ELSE LeavePlain(t)

Call(t, k, m) ==
  /\ Move(t, "idle", "ensure") /\ calls < MaxCalls
  /\ calls' = calls + 1
  /\ loc' = [loc EXCEPT ![t].key = k, ![t].mode = m]
  /\ UNCHANGED <<diskVars, nameVars, cache, handle, crashes>>

-----------------------------------------------------------------------------
(* _ensure_cache_manager: check, then compute and store manager_key, then   *)
(* create the manager, which lists and reads every file (load_all).         *)

EnsureManager(t) ==
  LET p == ProcOf[t] IN
  /\ \/ /\ p \in NoDisk /\ Move(t, "ensure", "fast")
        /\ cache' = [cache EXCEPT ![p].mgr = "none"]
     \/ /\ p \notin NoDisk /\ UNCHANGED cache
        /\ Move(t, "ensure", IF cache[p].mgr = "none" THEN "keying" ELSE "fast")
  /\ UNCHANGED <<diskVars, nameVars, loc, handle, boundVars>>

StoreManagerKey(t) ==
  /\ Move(t, "keying", "mkmgr")
  /\ cache' = [cache EXCEPT ![ProcOf[t]].mgr = IF @ = "none" THEN "keyed" ELSE @]
  /\ UNCHANGED <<diskVars, nameVars, loc, handle, boundVars>>

MakeManager(t) ==
  /\ Move(t, "mkmgr", "scan")
  /\ cache' = [cache EXCEPT ![ProcOf[t]].mgr = "ready",
                            ![ProcOf[t]].memory = [k \in Key |-> NoArt]]
  /\ loc' = [loc EXCEPT ![t].scan = {k \in Key : file[k].kind # "absent"}]
  /\ UNCHANGED <<diskVars, nameVars, handle, boundVars>>

\* load_all visits the listed files under shared locks and drops what it
\* reads; a lock it cannot get within 30 s skips the file.
LoadAllLock(t) ==
  /\ pc[t] = "scan"
  /\ \E k \in loc[t].scan :
       \/ /\ excl[k] = {} /\ Goto(t, "scanread")
          /\ shared' = [shared EXCEPT ![k] = @ \cup {t}]
          /\ UNCHANGED loc
       \/ /\ excl[k] # {}
          /\ loc' = [loc EXCEPT ![t].scan = @ \ {k}]
          /\ UNCHANGED <<pc, shared>>
  /\ UNCHANGED <<file, excl, nameVars, cache, handle, boundVars>>

LoadAllRead(t) ==
  /\ Move(t, "scanread", "scan")
  /\ loc' = [loc EXCEPT ![t].scan = {k \in @ : t \notin shared[k]}]
  /\ shared' = [k \in Key |-> shared[k] \ {t}]
  /\ UNCHANGED <<file, excl, nameVars, cache, handle, boundVars>>

LoadAllDone(t) ==
  /\ Move(t, "scan", "fast") /\ loc[t].scan = {}
  /\ UNCHANGED <<diskVars, nameVars, cache, loc, handle, boundVars>>

-----------------------------------------------------------------------------
(* The lookups made without a lock: _call_state_cache, _mem_cache.          *)

FastPath(t) ==
  LET state == Mine(t).callState[KeyOf(t)] IN
  /\ pc[t] = "fast"
  /\ \/ /\ state = NoArt /\ Goto(t, "mem") /\ UNCHANGED <<loc, handle>>
     \/ /\ state # NoArt /\ Executes(t) /\ Goto(t, "invoke")
        /\ loc' = [loc EXCEPT ![t].fn = state]
        /\ UNCHANGED handle
     \/ state # NoArt /\ ~Executes(t) /\ LeaveUnexecuted(t, state)
  /\ UNCHANGED <<diskVars, nameVars, cache, boundVars>>

LookupMem(t) ==
  LET c == Mine(t)  k == KeyOf(t) IN
  /\ pc[t] = "mem"
  /\ \/ c.mem[k] # NoArt /\ Goto(t, "accept") /\ SetArt(t, c.mem[k])
     \/ /\ c.mem[k] = NoArt /\ UNCHANGED loc
        /\ Goto(t, IF c.mgr = "ready" /\ k \notin c.externKeys THEN "get" ELSE "missed")
  /\ UNCHANGED <<diskVars, nameVars, cache, handle, boundVars>>

-----------------------------------------------------------------------------
(* JitCacheManager.get                                                      *)

GetMemory(t) ==
  LET k == KeyOf(t)  entry == Mine(t).memory[k] IN
  /\ pc[t] = "get"
  /\ \/ entry # NoArt /\ Goto(t, "keep") /\ SetArt(t, entry)
     \/ /\ entry = NoArt /\ UNCHANGED loc
        /\ Goto(t, IF file[k].kind = "absent" THEN "missed" ELSE "getlock")
  /\ UNCHANGED <<diskVars, nameVars, cache, handle, boundVars>>

GetLock(t) ==
  /\ Move(t, "getlock", "getread") /\ excl[KeyOf(t)] = {}
  /\ shared' = [shared EXCEPT ![KeyOf(t)] = @ \cup {t}]
  /\ UNCHANGED <<file, excl, nameVars, cache, loc, handle, boundVars>>

\* The last LOCK_NB attempt at the 30 s deadline fails; get logs the
\* RuntimeError and reports a miss.
GetTimeout(t) ==
  /\ Move(t, "getlock", "missed") /\ excl[KeyOf(t)] # {}
  /\ UNCHANGED <<diskVars, nameVars, cache, loc, handle, boundVars>>

\* exists() again, pickle.load, unlock. Any exception is a miss.
GetRead(t) ==
  LET k == KeyOf(t) IN
  /\ pc[t] = "getread"
  /\ shared' = [shared EXCEPT ![k] = @ \ {t}]
  /\ \/ file[k].kind \in {"absent", "corrupt"} /\ Goto(t, "missed") /\ UNCHANGED loc
     \/ /\ file[k].kind \in {"good", "linked"} /\ Goto(t, "getkeep")
        /\ \E i \in Id : Fresh(ProcOf[t], i) /\ SetArt(t, Loaded(i, file[k]))
  /\ UNCHANGED <<file, excl, nameVars, cache, handle, boundVars>>

GetKeep(t) ==
  /\ Move(t, "getkeep", "keep")
  /\ cache' = [cache EXCEPT ![ProcOf[t]].memory[KeyOf(t)] = loc[t].art]
  /\ UNCHANGED <<diskVars, nameVars, loc, handle, boundVars>>

\* Mutant: the loaded artifact is not kept in _mem_cache.
KeepCachedForgets(t) ==
  /\ Move(t, "keep", "accept")
  /\ UNCHANGED <<diskVars, nameVars, cache, loc, handle, boundVars>>

\* Mutant: link libraries of a loaded artifact are not looked at.
NothingRefused(a) == FALSE

\* Artifacts with link libraries are not taken from the disk.
Refused(a) == a.linked

\* Back in the dispatch: an artifact that is not refused becomes the
\* _mem_cache entry before its names are checked.
KeepCached(t) ==
  LET a == loc[t].art IN
  /\ pc[t] = "keep"
  /\ \/ Refused(a) /\ Goto(t, "missed") /\ SetArt(t, NoArt) /\ UNCHANGED cache
     \/ /\ ~Refused(a) /\ Goto(t, "accept") /\ UNCHANGED loc
        /\ cache' = [cache EXCEPT ![ProcOf[t]].mem[KeyOf(t)] = a]
  /\ UNCHANGED <<diskVars, nameVars, handle, boundVars>>

-----------------------------------------------------------------------------
(* accept_cached: restore_names merges the artifact's table under the       *)
(* reentrant _NAMES_LOCK, or finds a conflict and changes nothing.          *)

\* Mutant: _NAMES_LOCK is not taken.
NamesUnlocked(t) == TRUE

MayLockNames(t) == namesLock[ProcOf[t]] \in {NoThread, t}

Accepted(t) ==
  LET added == loc[t].art.names IN
  /\ added # NoNames => MayLockNames(t)
  /\ Compatible(names[ProcOf[t]], added)
  /\ names' = [names EXCEPT ![ProcOf[t]] = Merge(@, added)]
  /\ UNCHANGED namesLock

Rejected(t) ==
  /\ MayLockNames(t) /\ ~Compatible(names[ProcOf[t]], loc[t].art.names)
  /\ UNCHANGED nameVars

AcceptCached(t) ==
  /\ pc[t] = "accept"
  /\ \/ Accepted(t) /\ Executes(t) /\ Goto(t, "build") /\ UNCHANGED <<loc, handle>>
     \/ Accepted(t) /\ ~Executes(t) /\ LeaveUnexecuted(t, NoArt)
     \/ /\ Rejected(t) /\ ProcOf[t] \notin RunOnly
        /\ Goto(t, "missed") /\ SetArt(t, NoArt) /\ UNCHANGED handle
     \/ Rejected(t) /\ ProcOf[t] \in RunOnly /\ LeavePlain(t)
  /\ UNCHANGED <<diskVars, cache, boundVars>>

\* No usable cached artifact: RuntimeError in run-only mode, otherwise
\* decide whether the file lock protects the compilation.
Missed(t) ==
  /\ pc[t] = "missed"
  /\ \/ ProcOf[t] \in RunOnly /\ LeavePlain(t)
     \/ /\ ProcOf[t] \notin RunOnly /\ Goto(t, "names")
        /\ loc' = [loc EXCEPT ![t].useLock = Mine(t).mgr = "ready"]
        /\ UNCHANGED handle
  /\ UNCHANGED <<diskVars, nameVars, cache, boundVars>>

-----------------------------------------------------------------------------
(* with names_lock, _compile_lock_ctx: JitCacheManager.compile_lock         *)

AcquireNames(t) ==
  /\ Move(t, "names", IF loc[t].useLock THEN "exlock" ELSE "compile")
  /\ \/ KeyOf(t) \notin Traced /\ UNCHANGED namesLock
     \/ /\ KeyOf(t) \in Traced /\ MayLockNames(t)
        /\ namesLock' = [namesLock EXCEPT ![ProcOf[t]] = t]
  /\ UNCHANGED <<diskVars, names, cache, loc, handle, boundVars>>

\* Mutant: the name lock is not given back.
ReleaseFileLock(t) ==
  /\ excl' = [excl EXCEPT ![KeyOf(t)] = @ \ {t}]
  /\ UNCHANGED <<file, shared, nameVars>>

\* Leaving the with statement, normally or by an exception.
ReleaseLocks(t) ==
  /\ excl' = [excl EXCEPT ![KeyOf(t)] = @ \ {t}]
  /\ namesLock' = [namesLock EXCEPT ![ProcOf[t]] = IF @ = t THEN NoThread ELSE @]
  /\ UNCHANGED <<file, shared, names>>

\* Mutant: the exclusive lock does not wait for readers.
NoWriter(k) == excl[k] = {}

Unlocked(k) == excl[k] = {} /\ shared[k] = {}

CompileLock(t) ==
  /\ Move(t, "exlock", "recheck") /\ Unlocked(KeyOf(t))
  /\ excl' = [excl EXCEPT ![KeyOf(t)] = @ \cup {t}]
  /\ UNCHANGED <<file, shared, nameVars, cache, loc, handle, boundVars>>

\* 600 s passed and the lock is still contended: the RuntimeError leaves the
\* dispatch.
CompileLockTimeout(t) ==
  /\ pc[t] = "exlock" /\ ~Unlocked(KeyOf(t))
  /\ ReleaseLocks(t) /\ LeavePlain(t)
  /\ UNCHANGED <<cache, boundVars>>

\* Mutant: the file is not looked at again under the lock.
RecheckSkipped(t) ==
  /\ Move(t, "recheck", "compile")
  /\ UNCHANGED <<diskVars, nameVars, cache, loc, handle, boundVars>>

Recheck(t) ==
  LET c == file[KeyOf(t)] IN
  /\ pc[t] = "recheck"
  /\ \/ c.kind = "absent" /\ Goto(t, "compile") /\ UNCHANGED loc
     \/ c.kind = "corrupt" /\ Goto(t, "unlink") /\ UNCHANGED loc
     \/ /\ c.kind \in {"good", "linked"} /\ Goto(t, "adjudge")
        /\ \E i \in Id : Fresh(ProcOf[t], i) /\ SetArt(t, Loaded(i, c))
  /\ UNCHANGED <<diskVars, nameVars, cache, handle, boundVars>>

\* The damaged file is removed; an OSError of unlink is ignored.
UnlinkCorrupt(t) ==
  /\ Move(t, "unlink", "compile")
  /\ file' \in {[file EXCEPT ![KeyOf(t)] = NoFile], file}
  /\ UNCHANGED <<shared, excl, nameVars, cache, loc, handle, boundVars>>

\* accept_cached under the lock: no link libraries and compatible names.
Adjudge(t) ==
  LET a == loc[t].art IN
  /\ pc[t] = "adjudge"
  /\ \/ /\ ~Refused(a) /\ Accepted(t) /\ Goto(t, "adopt")
        /\ cache' = [cache EXCEPT ![ProcOf[t]].memory[KeyOf(t)] = a]
        /\ UNCHANGED loc
     \/ /\ IF Refused(a) THEN UNCHANGED nameVars ELSE Rejected(t)
        /\ Goto(t, "compile") /\ SetArt(t, NoArt) /\ UNCHANGED cache
  /\ UNCHANGED <<diskVars, handle, boundVars>>

Adopt(t) ==
  /\ Move(t, "adopt", "unlock")
  /\ cache' = [cache EXCEPT ![ProcOf[t]].mem[KeyOf(t)] = loc[t].art]
  /\ UNCHANGED <<diskVars, nameVars, loc, handle, boundVars>>

\* _trace_and_compile and CompiledArtifact(...): event ids are chosen from the
\* name table as it is now.
Compile(t) ==
  LET p == ProcOf[t]  k == KeyOf(t) IN
  /\ Move(t, "compile", "capture")
  /\ cache' = [cache EXCEPT ![p].externKeys = @ \cup ({k} \cap Extern)]
  /\ \E i \in Id, table \in NameTable :
       /\ Fresh(p, i)
       /\ IF k \in Traced THEN Extends(table, names[p], k) ELSE table = NoNames
       /\ SetArt(t, [id |-> i, linked |-> k \in Extern, names |-> table])
  /\ UNCHANGED <<diskVars, nameVars, handle, boundVars>>

CompileRaises(t) ==
  /\ pc[t] = "compile"
  /\ ReleaseLocks(t) /\ LeavePlain(t)
  /\ UNCHANGED <<cache, boundVars>>

\* _capture_ktrace_names merges the ids the compiler handed out; a conflict
\* would be an exception.
Capture(t) ==
  /\ pc[t] = "capture"
  /\ \/ Accepted(t) /\ Goto(t, "publish") /\ UNCHANGED <<diskVars, loc, handle>>
     \/ /\ ~Compatible(names[ProcOf[t]], loc[t].art.names)
        /\ ReleaseLocks(t) /\ LeavePlain(t)
  /\ UNCHANGED <<cache, boundVars>>

Stores(t) == loc[t].useLock /\ ~loc[t].art.linked

\* Mutant: _mem_cache is set only for what the disk cache will not hold.
PublishUncachedOnly(t) ==
  /\ Move(t, "publish", IF Stores(t) THEN "write" ELSE "unlock")
  /\ cache' = [cache EXCEPT ![ProcOf[t]].last = loc[t].art,
                            ![ProcOf[t]].mem[KeyOf(t)] =
                               IF Stores(t) THEN @ ELSE loc[t].art]
  /\ UNCHANGED <<diskVars, nameVars, loc, handle, boundVars>>

Publish(t) ==
  /\ Move(t, "publish", IF Stores(t) THEN "write" ELSE "unlock")
  /\ cache' = [cache EXCEPT ![ProcOf[t]].last = loc[t].art,
                            ![ProcOf[t]].mem[KeyOf(t)] = loc[t].art]
  /\ UNCHANGED <<diskVars, nameVars, loc, handle, boundVars>>

\* Mutant: the file is written in place.
WriteInPlace(t) ==
  /\ Move(t, "write", "replace")
  /\ file' = [file EXCEPT ![KeyOf(t)] = [kind |-> "corrupt", names |-> NoNames]]
  /\ UNCHANGED <<shared, excl, nameVars, cache, loc, handle, boundVars>>

\* _writer: atomic_write pickles into a temporary beside the file and renames
\* it over the file; a failure of either is logged and leaves the file alone.
WriteTemp(t) ==
  /\ Move(t, "write", "replace") \/ Move(t, "write", "unlock")
  /\ UNCHANGED <<diskVars, nameVars, cache, loc, handle, boundVars>>

Replace(t) ==
  /\ pc[t] = "replace"
  /\ \/ /\ Goto(t, "remember")
        /\ file' = [file EXCEPT ![KeyOf(t)] =
                      [kind |-> "good", names |-> loc[t].art.names]]
     \/ Goto(t, "unlock") /\ UNCHANGED file
  /\ UNCHANGED <<shared, excl, nameVars, cache, loc, handle, boundVars>>

Remember(t) ==
  /\ Move(t, "remember", "unlock")
  /\ cache' = [cache EXCEPT ![ProcOf[t]].memory[KeyOf(t)] = loc[t].art]
  /\ UNCHANGED <<diskVars, nameVars, loc, handle, boundVars>>

Unlock(t) ==
  /\ pc[t] = "unlock" /\ ReleaseLocks(t)
  /\ \/ Executes(t) /\ Goto(t, "build") /\ UNCHANGED <<loc, handle>>
     \/ ~Executes(t) /\ LeaveUnexecuted(t, NoArt)
  /\ UNCHANGED <<cache, boundVars>>

-----------------------------------------------------------------------------
(* _build_call_state and the launch, outside every lock. The CallState gets *)
(* the function pointer of the artifact; creating the engine may raise.     *)

BuildCallState(t) ==
  /\ Move(t, "build", "invoke")
  /\ cache' = [cache EXCEPT ![ProcOf[t]].callState[KeyOf(t)] = loc[t].art]
  /\ loc' = [loc EXCEPT ![t].fn = loc[t].art]
  /\ UNCHANGED <<diskVars, nameVars, handle, boundVars>>

BuildRaises(t) ==
  /\ pc[t] = "build" /\ LeavePlain(t)
  /\ UNCHANGED <<diskVars, nameVars, cache, boundVars>>

Invoke(t) ==
  /\ pc[t] = "invoke"
  /\ IF loc[t].mode = "compile" THEN LeaveWithHandle(t, loc[t].fn) ELSE LeavePlain(t)
  /\ UNCHANGED <<diskVars, nameVars, cache, boundVars>>

\* A process is killed and started again: the kernel drops its flocks, its
\* memory is gone, a temporary file it was writing stays behind unread.
Crash(p) ==
  LET dead == ThreadsOf(p)
      Reset(f, v) == [t \in Thread |-> IF t \in dead THEN v ELSE f[t]] IN
  /\ crashes < MaxCrashes /\ crashes' = crashes + 1
  /\ shared' = [k \in Key |-> shared[k] \ dead]
  /\ excl' = [k \in Key |-> excl[k] \ dead]
  /\ names' = [names EXCEPT ![p] = NoNames]
  /\ namesLock' = [namesLock EXCEPT ![p] = NoThread]
  /\ cache' = [cache EXCEPT ![p] = NoCaches]
  /\ pc' = Reset(pc, "idle") /\ loc' = Reset(loc, NoLocals)
  /\ handle' = Reset(handle, NoHandle)
  /\ UNCHANGED <<file, calls>>

-----------------------------------------------------------------------------
Step(t) ==
  \/ EnsureManager(t) \/ StoreManagerKey(t) \/ MakeManager(t)
  \/ LoadAllLock(t) \/ LoadAllRead(t) \/ LoadAllDone(t)
  \/ FastPath(t) \/ LookupMem(t)
  \/ GetMemory(t) \/ GetLock(t) \/ GetTimeout(t) \/ GetRead(t) \/ GetKeep(t)
  \/ KeepCached(t) \/ AcceptCached(t) \/ Missed(t)
  \/ AcquireNames(t) \/ CompileLock(t) \/ CompileLockTimeout(t)
  \/ Recheck(t) \/ UnlinkCorrupt(t) \/ Adjudge(t) \/ Adopt(t)
  \/ Compile(t) \/ CompileRaises(t) \/ Capture(t) \/ Publish(t)
  \/ WriteTemp(t) \/ Replace(t) \/ Remember(t) \/ Unlock(t)
  \/ BuildCallState(t) \/ BuildRaises(t) \/ Invoke(t)

Next ==
  \/ \E t \in Thread, k \in Key, m \in Modes : Call(t, k, m)
  \/ \E t \in Thread : Step(t)
  \/ \E p \in Proc : Crash(p)

Spec == Init /\ [][Next]_vars

\* The operating system keeps running every thread that can take a step;
\* lock waits poll and give up at a deadline, so weak fairness is enough.
FairSpec == Spec /\ \A t \in Thread : WF_vars(Step(t))

-----------------------------------------------------------------------------
(* Properties                                                               *)

DiskTypes ==
  /\ file \in [Key -> Content]
  /\ shared \in [Key -> SUBSET Thread]
  /\ excl \in [Key -> SUBSET Thread]
NameTypes ==
  /\ names \in [Proc -> NameTable]
  /\ namesLock \in [Proc -> Thread \cup {NoThread}]
CacheTypes == cache \in [Proc -> Caches]
ThreadTypes ==
  /\ pc \in [Thread -> PcValues]
  /\ loc \in [Thread -> Locals]
  /\ handle \in [Thread -> Handles]
  /\ \A t \in Thread : pc[t] # "idle" => loc[t].key \in Key
BoundTypes == calls \in 0..MaxCalls /\ crashes \in 0..MaxCrashes

\* Every variable has its type, and a thread inside a call has a key.
TypeOK == DiskTypes /\ NameTypes /\ CacheTypes /\ ThreadTypes /\ BoundTypes

\* The section compile_lock guards: from the re-check of the file to the end
\* of the with statement.
Guarded == {"recheck", "unlink", "adjudge", "adopt", "compile", "capture",
            "publish", "write", "replace", "remember", "unlock"}
Building(t, k) == pc[t] \in Guarded /\ loc[t].useLock /\ loc[t].key = k

\* Across every process, at most one thread that uses the disk cache is
\* between the re-check and the release for a key, and nobody is loading the
\* key's file then (compile_lock against get and load_all).
BuildersExclude ==
  \A t, u \in Thread, k \in Key :
    Building(t, k) =>
      /\ Building(u, k) => t = u
      /\ ~(pc[u] = "getread" /\ loc[u].key = k)
      /\ u \notin shared[k]

\* The shared directory implements the abstract store: only the lock holder
\* replaces an entry, and a loadable entry never becomes anything else, even
\* where a damaged file is unlinked or a writer is killed between its steps.
Entry(c) == IF c.kind = "absent" THEN "empty"
            ELSE IF c.kind = "good" THEN "loadable" ELSE "unusable"
Store == INSTANCE ArtifactStore WITH
           entry <- [k \in Key |-> Entry(file[k])], writers <- excl
StoreSpec == Store!Spec

\* While an untraced key's file is loadable, no thread that took the lock
\* compiles it again: whoever waited for another process's compilation
\* adopts its file.
NoRebuild ==
  \A t \in Thread :
    (/\ pc[t] \in {"compile", "capture", "publish", "write", "replace"}
     /\ loc[t].useLock /\ loc[t].key \in Key \ Traced)
      => file[loc[t].key].kind # "good"

\* Every function pointer a process may still jump through (the cached
\* CallStates, a running launch, the CompiledFunctions callers hold) points
\* into an artifact something keeps alive.
CodeAlive == \A p \in Proc : Pointers(p) \subseteq Reachable(p) \cup {0}

\* _make_compiled_function finds its key in _mem_cache: whoever is about to
\* return a CompiledFunction has an entry there, and so has every CallState.
KeepaliveFound ==
  /\ \A p \in Proc, k \in Key : cache[p].callState[k] # NoArt => cache[p].mem[k] # NoArt
  /\ \A t \in Thread :
       pc[t] \in {"accept", "unlock", "build", "invoke"}
         => cache[ProcOf[t]].mem[loc[t].key] # NoArt

\* Launchable code and the live name table agree: the table gives no two
\* events one id, and every event of a dispatchable artifact has the id that
\* was baked into it, so collected records keep their names.
NamesAgree ==
  \A p \in Proc :
    /\ \A j, k \in Key : names[p][j] = names[p][k] /\ names[p][j] # 0 => j = k
    /\ \A a \in {cache[p].callState[k] : k \in Key}, k \in Key :
         a.names[k] # 0 => names[p][k] = a.names[k]

\* The ids a compilation hands out still fit the name table when it records
\* them: between reading the table and merging into it no other thread of the
\* process has named an event (_NAMES_LOCK spans both).
CaptureFits ==
  \A t \in Thread :
    pc[t] = "capture" => Compatible(names[ProcOf[t]], loc[t].art.names)

\* An extern-linked artifact is used only by the process that linked it: it
\* is never stored, and one an older version left on disk is never adopted.
ExternStaysLocal ==
  /\ \A k \in Extern : file[k].kind # "good"
  /\ \A p \in Proc, k \in Key :
       cache[p].mem[k].linked \/ cache[p].callState[k].linked => k \in cache[p].externKeys

\* Run-only processes that find a complete cache never report a miss: the
\* files on disk are the deployment.
RunOnlyServed ==
  \A t \in Thread :
    pc[t] = "missed" /\ ProcOf[t] \in RunOnly => file[loc[t].key].kind # "good"

\* Every call returns or raises, whatever the other processes do.
CallsEnd == \A t \in Thread : pc[t] # "idle" ~> pc[t] = "idle"
=============================================================================
