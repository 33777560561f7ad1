# Verification project for FlyDSL

FlyDSL compiles Python functions decorated with `@flyc.jit` to GPU code, runs
them, exports them as objects for C programs, and ships the kernels of an
inference stack, among them several that make the GPUs of a machine reduce
values together. This directory holds TLA+ models of the parts whose
correctness depends on the order in which processes, threads and GPUs act, the
TLC configurations that check them on small instances, and TLAPS proofs that hold
for every instance. Definitions are translated from the source; `PROJECT.json`
("map") names the lines each one stands for. Paths below are relative to the
repository.

    cd tla
    tlc -workers 2 -config MCJitCache_procs.cfg MCJitCache    # a run
    tlapm --threads 2 JitCache_proofs.tla                      # proofs, two minutes

and likewise the other `_proofs` modules.

Contents: [the system](#the-system), [the modules](#the-modules),
[the runs](#the-runs), [fairness](#fairness), [what is proved](#what-is-proved),
[where code and intent disagree](#where-code-and-intent-disagree),
[what is not modelled](#what-is-not-modelled), [plan](#plan).

## The system

### How the parts interact

A call of a jitted function asks the *JIT dispatch* for compiled code, which
comes from a cache of the process, from the *disk cache* all processes of a
machine share, or from tracing (*front end*) and the MLIR pipeline (*dialects
and conversions*). The *JIT executor* loads the code into the process at its
first launch. Functions with the ktrace hint bake the ids of event names into
their code; the ids come from a process-wide table (*kernel trace*). An exported
function does not use any of this: the object file carries its own *runtime of
exported kernels*. The *autotuner* sits on top of the JIT and times variants.
The kernels under `kernels/` are users of the language. Those that span GPUs
share memory between processes: the *custom all-reduce* (eager, or recorded in
CUDA graphs), the *symmetric peer buffer* with the *mailbox all-reduce* of the
fused decode kernels in it, and *MoE dispatch and combine*. Those of one GPU
keep their multipliers busy by copying the operands of later steps into LDS
while they compute (the *GEMM kernels*), and split a long K over workgroups that
meet at a semaphore.

### Inventory

| Component | State it keeps | Operations | What is hard | What makes it correct |
|---|---|---|---|---|
| JIT dispatch and disk cache: `python/flydsl/compiler/jit_function.py`, `utils/file.py` | per function and process `_mem_cache`, `_call_state_cache`, `_last_compiled`, `_extern_linkage_keys`, `manager_key`, `cache_manager`; `.pkl` and `.lock` files | call, compile, placeholder compile, `JitCacheManager.get / compile_lock / load_all`, `atomic_write` | threads race in one process and processes on one directory; locks time out; processes die between any two steps; files of older versions | one builder per key; a loadable file stays loadable; nothing compiled twice; function pointers never outlive their code |
| Kernel trace names: `expr/ktrace_common.py` | `_NAMES`, `_ID_OWNER`, `_NAMES_LOCK` | merge, restore, capture | ids are chosen while tracing and recorded later | ids in launchable code and the live table agree |
| Runtime of exported kernels: `lib/Runtime/ROCm/FlyRocmAotRuntime.cpp`, `FlyRocmRuntimeError.cpp`, wrapper from `compiler/_aot.py` | a module per slot, its device list and functions, a process rwlock, a mutex per module, a thread-local error latch, the selected device | Init, Load, Unload, Launch | threads call anything at any time, kernels run on after the call, any HIP call fails on one of several devices | nobody touches what is freed; a status is that of its own call; the device is restored; every call returns |
| Custom all-reduce: `kernels/comm/custom_all_reduce.py`, `custom_all_reduce_kernel.py` | per rank: signal tables, flags per block, input, output and scratch buffers | eager call: one-stage, two-stage or write-mode kernel | GPUs meet only at signals; one call's buffers are the next one's; waves of a block meet at barriers | a call returns the sum of that call's inputs; nobody waits for ever |
| Graph capture of it: same file | `_graph_ptrs_cache`, `_graph_ipc_unreg_list`, pointer tables | `capture`, recording a call, `_register_graph_tensors` | tables are filled after recording from an exchange that pairs entries by position; addresses are reused; an exchange fails on one rank | a recorded call reads the same call's tensors on its peers |
| Symmetric peer buffer: `kernels/monokernel/runtime.py`, `ipc.py` | storage, IPC mappings, a latch for the barrier passed | `__init__`, kernels, `close` and its retry | a mapping outlives the owner's memory; one rank fails and the others have to follow | nobody frees what a peer maps or a kernel uses; all ranks finish in one round |
| Mailbox all-reduce: `symmetric_allreduce.py`, `gemm_a16w16.py`, callers `k3/staged.py`, `k3/kda.py` | mailboxes by region, slot, source and pair; a step counter | send, poll and sum; advance the counter | no acknowledgement: a mailbox may be overwritten before it is read | each value is read once, in its own call |
| JIT executor: `compiler/jit_executor.py` | engine, thread-local call state | lazy load under a lock | a processor raises after the load | the engine is made once |
| Autotuner: `autotune.py` | results, a JSON file | search, save, load | processes overwrite each other's results | a found result is not lost |
| Kernel trace buffer: `expr/ktrace.py`, `runtime/device_runtime/rocm_ktrace_buffer.py` | buffer, capture window | begin, launch, collect | launches between read-out and reset | a record belongs to its window |
| MoE dispatch and combine: `kernels/comm/flydsl_dispatch_combine_intranode_{op,kernel}.py` | per rank row and peer counters, three grid barriers, count signals, a call flag, symmetric buffers | dispatch (send, exchange counts, pack by expert), combine (scatter, cross-device barrier, sum) | counters are set back by the kernel that used them while peers are a launch ahead; a grid barrier is never reset; rows overflow | each token arrives once, is packed once for each expert and is combined from this round's rows; every kernel ends |
| GEMM pipelines: `kernels/gemm/*`, `kernels/moe/moe_a8w4_mxscale_gfx1250.py` | LDS buffers, fragments, accumulators; copies and LDS operations under way | issue, wait for all but n, barrier, read, multiply, stage the result | a wait counts instructions, a barrier waits for nothing but waves; each wave waits for its own copies only; the last tiles are special | no buffer is refilled while it is read; each accumulator takes each step of K once, with operands of that step |
| Split-K: `kernels/gemm/gemm_a16w16_gfx950.py`, `gemm_a16w16_gfx950_utils.py` | a semaphore and a signal word for each tile, the output | initialise, signal, poll, add, count, reset | workgroups spin for one that may not run yet; the words are the next launch's; stores and adds are asynchronous | every product is added once, over an initialised tile; every launch ends |
| Shared-memory allocator, layout algebra: `utils/smem_allocator.py`, `include/flydsl/Core/Algebra` | none | pure functions | boundaries, divisibility | agreement with a reference definition |
| Mega MoE: `kernels/mega_moe`, `kernels/mega_moe_tp` | per rank counts, order, tile words, ready queues, epochs, symmetric payload buffers | prepare, stage 1, stage 2, combine | a tile is complete when its rows came from several ranks and chunks; its words are reused with a parity by the next layer | every routed row is multiplied once and summed at its source |
| Front end, dialects, conversions, bindings, device registry, JIT wrappers, mono and other compute kernels, extensions, tools | none that outlives a call | translations and numerical code | values, addresses | tests of the repository |

`PROJECT.json` lists all components with their files and status, and under
"hazards" each thing that could go wrong at the line where it bites.

## The modules

| Module | What it is |
|---|---|
| `JitCache` | the dispatch of one jitted function in several threads of several processes over one cache directory |
| `ArtifactStore` | what the directory promises; `JitCache` implements it (`StoreSpec`) |
| `MCJitCache` | how threads are spread over processes in the runs |
| `JitCache_proofs` | theorems about `JitCache` |
| `AotRuntime` | the runtime of exported kernels |
| `AotRuntime_proofs` | theorems about `AotRuntime` |
| `Collective` | what any all-reduce promises |
| `AllReduce`, `MCAllReduce` | eager custom all-reduce, ranks and blocks; implements `Collective` |
| `AllReduce_proofs` | theorems about `AllReduce` |
| `AllReduceBlock` | the waves inside one block: the step `AllReduce` takes as atomic |
| `AllReduceBlock_proofs` | theorems about `AllReduceBlock` |
| `GraphCapture`, `MCGraphCapture` | captures and the registration of their tensors |
| `GraphCapture_proofs` | theorems about `GraphCapture` |
| `PeerBuffer` | opening and closing the symmetric buffers |
| `MailboxAllReduce`, `MCMailboxAllReduce` | the mailbox reductions, inside an open peer buffer; implements `Collective` |
| `SymmetricMailbox_proofs` | theorems about `MailboxAllReduce`, and about `PeerBuffer`, in which its mailboxes lie |
| `DispatchCombine`, `MCDispatchCombine` | MoE dispatch and combine on all ranks, kernel after kernel |
| `DispatchCombine_proofs` | theorems about `DispatchCombine` |
| `WaveOps` | the instructions the pipelines are made of |
| `GemmPipelines`, `TdmPipelines` | the pipelines of the GEMM kernels as programs of such instructions: gfx942 and gfx950, the rings and the 256x256 tiles of gfx1250 |
| `Workgroup`, `MCWorkgroup` | the waves of a workgroup that run one of the programs |
| `SplitK`, `MCSplitK` | the workgroups of split tiles, launch after launch |
| `SplitK_proofs` | the theorem about `SplitK` |

### JitCache

`pc[t]` is where a thread stands in `_compile_or_execute`, `loc[t]` the locals
of its call, `handle[t]` the `CompiledFunction` its caller keeps. Shared by the
threads of a process: `cache[p]`, `names[p]` and `namesLock[p]`. Shared by all:
`file[k]`, `shared[k]` and `excl[k]`, the content of `{key}.pkl` and who holds a
`flock` on `{key}.lock`. A step ends wherever another thread or process can
intervene and the difference shows: each lookup, each lock operation, each
assignment to a cache, and writing and renaming the temporary file. What runs
between them on locals only is part of the step.

An artifact is its identity in the heap, the event ids baked into it and whether
it links external libraries. Python's reference counting is modelled by what is
`Reachable`: an identity may be given to a new object as soon as nothing refers
to it. A `CallState` holds a bare function pointer, which is in `Pointers` and
not in `Reachable`; that is the difference `CodeAlive` is about.

`Crash` kills a process: the kernel releases its locks, its memory is gone, the
files stay. Initial files are what earlier runs and older versions leave.

### AotRuntime

One action per step between two lock operations or HIP calls of
`flydslAotModule{Init,Load,Unload,Launch}`. `writer`/`readers` is
`aotStateLock`, `mutex` the one in the module, `resident[m][d]` how often a
module's binary is loaded, `running` what the GPUs execute. Any call in
`Failing` may fail. `ret[t]` keeps what the last call returned, together with
what it had done, to say that the two agree. The rwlock is a monitor without
queueing: readers may pass a waiting writer, as POSIX allows.

### Collective, AllReduce, AllReduceBlock

`Collective`: ranks make the same calls; a call returns after all ranks have
entered it, and returns the sum of that call's values. A value is abstracted to
its contribution `<<rank, position, call>>` and a sum to a set of them, so that a
stale, missing or foreign summand shows.

`AllReduce` has per rank a stream (`Launch` copies the input, `Return` the
output) and blocks that go through `start` -> `startwait` -> `reduce` -> `end` ->
`endwait` -> `gather`. `flag` and `sig` are the flag of a block and the slots
peers write. The grid, the partition, the rotation of the pointer tables and the
choice of the kernel are the code's formulas with their thresholds as constants.
A block's loop between two signals is one step: its loads and stores have no
order a peer could rely on. In write mode the loop that scatters is a step for
each wave, since nothing but the waves' own order separates it from the signal.

`AllReduceBlock` justifies that step: the waves of one block on every rank, the
LDS buffers with their parity, the barriers, the end signal. A hardware barrier
counts waves, not places in the program, and that is how it is modelled.

### GraphCapture

Per rank: the calls it records, the pointer table allocated for each address not
seen in the capture, the list of tables to be filled, the exchange at the end and
the entries filled one by one. An address is any injective choice per rank and
capture, which covers an allocator that reuses memory. The registration raises in
three places: ahead of the exchange, when the base or the handle of a tensor is not
to be had (`HandleFails`), or behind it, when a peer's handle does not open
(`OpenFails`) or a peer's list is shorter (`TooShort`). The caller then goes on to its
next capture, as `tests/kernels/test_allreduce.py` does, and `raised` keeps what has
happened.

Two of these leave a rank waiting in an exchange. The peers of one that raised ahead
of it wait until that rank comes to an exchange of its own, of its next capture, or
for ever. And a rank whose registration raised behind the exchange still has its
list: it exchanges it at the end of a capture without calls, where its peers have
nothing to exchange. `CapturesEnd` claims that ranks get through, or else wait in one of these
two ways (`Deserted`).

### PeerBuffer

`posted[r]` is what a rank has put into its collectives; the n-th collective of a
rank completes when all ranks have entered their n-th. `mapped` is what HIP has
mapped and `bases` what the object still knows of. A close that fails leaves the
mapping and its entry; `close` then raises on all ranks and is called again.

### MailboxAllReduce

`Launch`/`Return` are the rank's stream with the step counter behind the call;
`Send(r, q, p)` stores pair `p` with its tag into rank `q`'s mailbox and
`Receive(r, p)`, behind the block's barrier, finds the tag it wants in all of its
own mailboxes for `p` and sums. The tag is `step * LAYER_SLOTS + layer + 1`, the
slot its parity. Programs (`MCMailboxAllReduce`) are the call orders of the
callers: the staged MoE layers alternate two regions; others use one region in
slots that alternate.

### DispatchCombine

A rank's stream runs the kernels of `Program`; `pc[r][b]` is where block `b` of
the one in progress stands, `work`, `reg` and `todo` its loop variable, its
registers and the peers its lanes have still to signal or to see. The rest are
the words in memory, by their names in the code. One action for each access that
another block or rank can observe: claiming a row, filling it, arriving at the
barrier, sending one peer its count, and so on to the three stages of combine. A
block is one wave, and lanes that poll one peer each leave their loops together.
`mode` is the compiled variant: with copies, `zero_copy`, or `enable_std_moe`,
which packs by expert behind the grid barrier. A token is `[round, src, tok]`, so
that one of another round shows; an expert's output is the token with the expert's
name, and a sum is a set of those.

`_alloc_buffers` takes the buffers from `shmem_malloc`, which does not clear them, and
then clears what combine reads. `shmem_tok_off` and `shmem_recv_tok_num`, which dispatch
reads, are left as they are (`op.py:642-643`, `651-655`): they start with any members of
`Memory`.

### WaveOps, Workgroup and the pipelines

The schedules of the GEMM kernels are written by Python loops that are unrolled
while tracing. An operator of `GemmPipelines` or `TdmPipelines`
does what such a loop does: it gives a wave's sequence of copies, waits, barriers,
reads and products for a number of tiles. `Workgroup` runs the sequences of all
waves in any interleaving. A copy may land at any time between its issue and the
wait that counts it done, and a read may take its data at any time until its wave
waits for it; `vm[w]` and `ds[w]` are the queues of both, and `NoRace` compares
what is under way. `Wait(n)` completes the copies behind which `n` instructions
were issued, as `vmcnt` and `tensorcnt` do. What a part of LDS holds is a tile, an
accumulator is the number of steps it has taken, or `Wrong`. A
read outlasts `s_barrier`, which waits for nothing but the other waves; only `Drain`
and a product that uses the fragment end it.

`Sound` has the instances whose explicit waits cover their reads, and the run is
about those only. `Racing` has the others. In four kernels a wave reads what no wait
has counted as landed (`EarlyReads`: both properties fail with each). In two more,
`fp8_gemm_4wave` from three tiles on and the half tiles of `gemm_a16w16`, a read may
be outstanding at the barrier behind which other waves refill its buffer
(`LateReads`: `NoRace` fails with each; `Accumulated`, which takes a read to see what
LDS holds when it is issued, does not).

### SplitK

`pc[g][w]` is where wave `w` of workgroup `<<tile, split>>` stands in
`SplitKProtocol`; `Land` is a store or an atomic add that reaches memory at some
time after it was issued. `StartGroup` gives the next workgroup in the order of
the grid a free slot of the device. `ZeroWords` is the `torch.zeros` of
`get_split_k_buffers`, which runs in torch's current stream: `OwnStream` says
whether that is the kernel's.

## The runs

Sizes are chosen so that each hazard has the actors it needs; a bound is a
CONSTANT or a definition of the MC module. All runs are exhaustive and pass.

| Run | Configuration | Checks | Shows |
|---|---|---|---|
| `jit_procs` | `MCJitCache_procs` | `TypeOK BuildersExclude NoRebuild CodeAlive ExternStaysLocal StoreSpec` | two processes, a plain and an extern-linked key, all kinds of initial files, a crash at any step |
| `jit_traced` | `MCJitCache_traced` | `NamesAgree CaptureFits` | two threads, two traced keys, files named by other processes |
| `jit_live` | `MCJitCache_live` | `KeepaliveFound CallsEnd` | two threads beside a process without disk cache and a run-only one, all ways to call; every call ends |
| `aot` | `AotRuntime` | `NoDangling CodeResident ListedIsLoaded StatusIsOwn NothingLeaked DeviceKept CallsReturn` | two threads, two devices, four calls, any HIP call but `hipGetDevice` fails at any time |
| `allreduce` | `MCAllReduce` | `Met CollectiveSpec AllReturn` | two ranks of two blocks, three calls of every mix of kernels and grids that finds its buffers free |
| `block` | `AllReduceBlock` | `Summed EndedIsStored Finishes` | all kernels and LDS schemes, one to three iterations, even and uneven |
| `graph` | `MCGraphCapture` | `Aligned OwnEntries CapturesEnd` | two ranks, two captures of up to three calls, none included, one HIP call that fails, ahead of the exchange or behind it |
| `peers` | `PeerBuffer` | `KernelHasPeers ClosedTogether AllReleased` | three ranks, a failed open, three failed closes |
| `mailbox` | `MCMailboxAllReduce` | `CollectiveSpec NoneLost AllReturn` | three ranks, two decode steps |
| `moe` | `MCDispatchCombine` | `Delivered Combined Packed AllReturn` | two ranks of two blocks, two rounds, the three variants, tokens for both ranks, twice for one, and more than a rank takes; memory that held zeros |
| `pipelines` | `MCWorkgroup` | `NoRace Accumulated` | 42 instances of the pipelines, of two waves, those whose explicit waits cover their reads |
| `splitk` | `MCSplitK` | `Summed AllEnd` | two launches of two tiles in two splits or one in three, on a device of two slots |

Why the bounds are enough to be worth reading:

- JitCache. Three calls: one to fill, one to race, one to meet what they left.
  `Id` has more members than the caches, locals and handles can refer to at once,
  so that an object always gets an identity and the smallest unused one is given
  out: a freed identity is reused at once, which is the case `CodeAlive` needs.
  `jit_procs` has no two threads in one process, where `CodeAlive` does not hold.
  Symmetry: `jit_procs` exchanges processes together with their threads,
  `jit_traced` the threads of its one process and its two keys, which are alike;
  both runs check safety only. The runs with liveness use no symmetry.
- AotRuntime. Four calls are Init, Load, Launch and Unload, in two threads in any
  order, or two of them twice. `hipGetDevice` works in this run: behind one that
  fails, Unload has no device to restore (`DeviceKept` says so).
- AllReduce. Three calls let a block's flag fall behind when grids differ and
  catch up again, and let two calls meet in a buffer two calls apart. The passing
  runs use programs in which each call finds its buffers free, packs divisible by
  the ranks and, in write mode, blocks of one wave (`SafePrograms`); the others
  are in the section on disagreements. `FlagMod` is beyond the signals of three
  calls.
- AllReduceBlock. Three iterations are the threshold of the single-buffer scheme;
  two waves per warp are the least that can be out of step.
- PeerBuffer. A failed close per rank, in one round or in three.
- MailboxAllReduce. Two steps bring the same tags' slots round; three ranks make
  one rank two peers, one of them slow.
- DispatchCombine. Two rounds make every counter and buffer be used again, with
  peers a kernel ahead. With two tokens a rank, two k-slots and `MaxRecv = 2` there
  are duplicates, empty batches and rows that do not fit; two blocks are the least
  that can leave one another behind. `Memory = {0}`: the counters that the code does not
  clear happen to hold zeros. With `{0, 1}` `Delivered`, `Combined` and `AllReturn` all
  fail (`MCDispatchCombine_memory` has the first).
- GraphCapture. A failure and the capture behind it are the least that pairs entries of
  different captures; three calls on two tensors use one of them again.
- Workgroup. Two waves show what one wave's wait does not say about another's
  copies. Each pipeline has as many tiles as its prologue, loop and epilogue need to
  follow each other, and one instance for every remainder its tail distinguishes.
- SplitK. Three splits on two slots make a workgroup start when another has ended;
  two launches reuse the words, with another shape. `AddsTo` is crossed, so that a
  wave adds to what another has initialised.

Deadlock is checked in `aot`. The other systems stop when their bounded
programs are over, and there the liveness properties say that they get that far.

## Fairness

- `JitCache`: weak fairness of each thread. The operating system runs every
  thread; lock waits poll with a deadline (30 s and 600 s), so that a waiting
  thread always has a step, the timeout, and strong fairness is not needed.
  The name lock has no deadline; it is held only by a thread that goes on, and
  the number of calls is bounded, so that nobody overtakes a waiter for ever.
- `AotRuntime`: weak fairness of each thread and of kernels ending. Calls are
  bounded, so a writer is not starved by an endless sequence of readers; a libc
  whose rwlock prefers readers could do so, which the run does not say anything
  about.
- `AllReduce`: weak fairness of streams and blocks, which supposes that all
  blocks of a kernel are resident together. The grid is limited to `_KMAXBLOCKS`
  for this.
- `AllReduceBlock`: weak fairness of waves.
- `GraphCapture`, `PeerBuffer`: weak fairness of ranks (the caller retries
  `close`, and catches what a registration raises) and of kernels.
- `DispatchCombine`: weak fairness of streams and of the kernels' steps on each
  rank. All blocks of a kernel are resident together, which
  `_check_block_num_resident` enforces, so none waits for one that cannot run.
- `SplitK`: weak fairness of starting workgroups in the order of the grid, of
  waves and of memory operations. A workgroup spins for the first of its tile, which
  has a lower number and therefore a slot.
- `Workgroup` is checked for safety only; nothing in it loops.
- `MailboxAllReduce`: weak fairness of streams, sends and receives. A block that
  polls waits for the same block of its peers, and blocks become resident in
  order, so that the first block that has not ended is resident on every rank.


## What is proved

For every value of the constants that satisfies `ConstantsAssumption` of the
module: any number of threads, processes, keys, calls and crashes, any initial
files; any number of devices and any set of HIP calls that fail; any number of
ranks, blocks, calls, captures, faults and kernels; any number of tiles, splits,
waves, slots and launches. Where a theorem has a further hypothesis it is named
below, with what happens without it.

`JitCache_proofs`

- `TypeCorrect`: `TypeOK`.
- `BuildersAreExclusive`: `BuildersExclude`, from the inductive invariant
  `LockInv`. The property speaks of two threads that both believe to hold a lock;
  it is inductive only together with what a thread's program counter says about
  `shared` and `excl` (a thread between acquisition and release is in the set),
  and with the two sets of a key excluding each other.
- `NothingRebuilt`: `NoRebuild`, from `FileInv`. A thread that compiles under the
  exclusive lock has looked at the file after it got the lock. That the file is
  still unusable when the compilation starts needs that nobody else can have
  replaced it in between, hence `LockInv`, and that what is renamed into place is
  always whole.
- `StoreImplemented`: `StoreSpec`. Every step of a thread or a crash is a step of
  `ArtifactStore` or leaves `file` alone. Temporary files, the one thing the
  implementation adds, are not part of the mapping: a crash between writing and
  renaming is a stutter.
- `LinkedStaysLocal`: `ExternStaysLocal`, and `KeepaliveThere`: `KeepaliveFound`,
  from `KeepInv`. Both follow an artifact from where a call gets it (a slot, a file,
  the compiler) to where it leaves it. `Holds` says what is known of the artifact
  at hand at each point of the way: which points it has passed the test for link
  libraries at, and from which on `_mem_cache` has an entry. The second part is
  stable because entries of `_mem_cache` are replaced and never dropped (`MemStays`).
- `NamesAlwaysAgree`: `NamesAgree`, and `CaptureAlwaysFits`: `CaptureFits`, from
  `NamesInv`. The table of a process changes only by merging, which neither drops
  nor changes a name (`MergeRecords`), so what a `CallState` was built with stays
  recorded. That the ids of a compilation are still free when they are recorded
  needs the lock: between `compile` and `capture` the thread owns it (`Naming`), and
  whoever merges anything may take it (`TableStep`). All tables, those in files and
  slots included, are one to one, since an artifact from a file brings its own.
- `CodeStaysAlive`: `CodeAlive`, if no process has two threads (`OneThreadEach`;
  `MCJitCache_dangling` shows two threads that violate it). `AliveInv`: a
  `CallState` has the artifact in `_mem_cache` because a dispatch that could replace
  that entry has found no `CallState`, and in its process nobody else makes one.

`AotRuntime_proofs`

- `TypeCorrect`, `NeverDangling` (`NoDangling`), `RunsResident` (`CodeResident`),
  `LoadedOnce` (`ListedIsLoaded`), `UnloadIsWhole` (`NothingLeaked`) and
  `ReportsItsOwn` (`StatusIsOwn`), whichever HIP calls fail; `GivesDeviceBack`
  (`DeviceKept`) if `hipGetDevice` does not. The invariant `Inv` is the conjunction
  of these with the state of the locks. `Locked`: a thread between taking and giving
  back the rwlock or a mutex is its writer, a reader, its owner. `Kept`: a slot, and
  every local of a thread under a lock, names a module that is live (`Owned`,
  `Placed`); an Unload that is part of the way has one binary left on each device still
  to do (`PartlyUnloaded`). A reader excludes the writer (`ReadersKeepOut`), so a step of
  one thread leaves what another knows in place (`QuietKeeps`). `Latching` says
  whose failures the thread-local latch holds at each point of an entry, and
  `Counted` that the modules made never outnumber the calls, which bounds them.

`AllReduce_proofs`

- `BlocksMeet`: `Met`, if the signal words do not wrap (`NoWrap`: two signals for
  each call of a program are fewer than `FlagMod`; `MCAllReduce_wrap` violates `Met`
  without). `Flagged` gives a block's flag by the calls it has taken part in: grids
  differ, so a block's flag counts only the calls whose grid has it (`FlagAfter`).
  `Signalled` says that what a peer has stored for it is at most that peer's flag, or
  one more while the peer waits. Whoever finds a stored value as large as its own flag
  therefore meets a block that has come as far in the same call or is in a later one.
- `SumsReturned`: `AllReduced`, and `CollectiveImplemented`: `CollectiveSpec`, if also
  every program is `Safe`: each call divides its packs evenly and finds its buffers free
  (`Even`, `Ordered`; `MCAllReduce_uneven`, `_scatter`, `_onestage` and
  `_switch` are programs of which one of these is not so). `DataInv` says of each buffer what it
  holds and until when. A rank is at most one call ahead, and if the call behind it has an
  end signal, all that its peers reduce in it is behind them too (`Near`); so while a block
  reduces, all ranks are in its call, or one-stage calls are followed by one that leaves
  the input buffers alone (`Together`). Sums stay in the scratch packs or output buffers of
  a rank while a peer is one call behind (`SumsKept`), since the next call that could
  overwrite them waits for that peer first. Where the packs of a result come from is
  arithmetic: a pack is in one place of one shard (`PlaceIs`, `PlacesDiffer`), the rotated
  table reaches every rank (`Rotated`), and the blocks of the grid visit each pack once
  (`Divided`). The refinement maps a rank's `Launch` to the abstract entry and its
  `Return` to the return; the blocks' steps are stutters.

`GraphCapture_proofs`

- `PointersAlign`: `Aligned`, `EntriesAreOwn`: `OwnEntries`, and `TypeCorrect`, with
  no hypothesis: the properties themselves speak of the time before a registration
  fails. While none has (`Sound`), what a rank has posted in its k-th exchange is
  the table of its k-th capture that has entries (`Posted`, `Numbered`), entries are
  in the order of the calls that were the first on their tensor (`Entries`), and
  calls share a table only if they are of one capture and tensor (`Shared`, `Cached`).
  The program is the same on all ranks, so entries pair up by position (`Matched`).

`AllReduceBlock_proofs`

- `SumsWhole`: `Summed`, and `EndMeansStored`: `EndedIsStored`, for any number of ranks,
  waves, blocks and packs, and `TypeCorrect`. Barriers are hardware's: they count waves,
  and which barrier of the program a wave is at does not matter. So the invariant counts,
  too: `Through` gives the barriers a wave has come through by its place and its
  iterations, `Level` says that all waves that still run have come through the same
  number. Waves that share packs make the same iterations (`Travelled`, `SamePack`).
  While one of them sums the packs of an iteration, the others can therefore have
  loaded that one and, if there are two halves and no second barrier, the next
  (`MatesLoaded`); while one stores a result of the write-mode kernel, the first warp has
  summed it and not yet the next (`ResultThere`). For the end signal, no wave makes more
  iterations than the first (`FirstLeads`), so when that signals, none is in the loop
  (`AllOut`).

`SymmetricMailbox_proofs`, about the mailboxes

- `NothingLost`: `NoneLost`, and `CollectiveImplemented`: `CollectiveSpec`, if every
  program is `InOrder`: no two calls of a region share an epoch, and two of a region
  that follow each other at once share no slot. `MCMailboxAllReduce_kda` is a caller for
  which that is not so. Ranks are at most one call apart (`Near`), because a call
  ends only with a message from everybody; so a mailbox of this call is overwritten
  at the earliest by a call that its owner's last one precedes. `Held` says for
  every mailbox and call which message it has. The refinement maps a rank's `Launch`
  to the abstract entry and its last receive to the return; the sums are right
  because `Summed` says that what has been added came from this call.

`SymmetricMailbox_proofs`, about the peer buffers

- `RanksCloseTogether`: `ClosedTogether`, and `KernelsHavePeers`:
  `KernelHasPeers`. Neither is inductive, since what one rank may assume of another
  is only what a completed collective tells. The invariant `BufferInv` counts
  collectives: where a rank is determines how many it has entered (`RoundOf`);
  a collective is over for nobody before everybody has entered it (`Met`); a rank
  goes on to another round only because some rank put an error into the last
  (`Retried`) and is done only if nobody did (`NoErrorLeft`); and what it put in
  is whether it still has mappings (`Tracked`). If `r` has closed in collective
  `n`, then `q` has entered `n` by `Met`, has not gone beyond it by `Retried` and
  `NoErrorLeft`, and has put "no error" into it, so it has no mapping left.
  For the kernels: `r` is through the barrier of `__init__` and not in that of
  `close`, so no rank is through the latter.

`DispatchCombine_proofs`

- `DeliveredHolds`: `Delivered`, `PackedHolds`: `Packed`, and `CombinedHolds`: `Combined`,
  for any number of ranks, experts, tokens, rows, rounds and blocks of each launch, any
  routes and all variants, if the stream runs dispatch and combine in turn (`InTurn`)
  and the counters that `_alloc_buffers` does not clear start at zero (`Cleared`), whatever
  else `Memory` has. The code does nothing for the second: it holds if the
  symmetric heap hands out zeroed memory. Without it `Delivered` fails in the first round
  (`MCDispatchCombine_memory`).
  Of two dispatches with no combine in between (`NoCombine` in `MCDispatchCombine`) the
  second violates `Delivered`. Nothing is supposed of the grids.
- None of the three is inductive: each speaks of a rank whose kernel has ended, while
  what it holds was written by ranks that may be in other kernels by now. The invariant
  has two parts. `Delivering` follows the tokens to their rows:
  - `Meets`: no rank is through a kernel's wait, or in a later kernel, before every other has
    sent it that kernel's count or flag. So ranks are at most one kernel apart.
  - `Counts`: the count that lies in `recvNum` is of the sender's last dispatch, from when
    it is sent until it is taken (`Pending`), and says how many of the sender's items have
    become rows there. A zero therefore means that it has been taken.
  - `Ticketed`, `Unique`: `tokOff` is the number of items of one round that have asked for
    a row, each row below it belongs to one of them, and no two items have the same.
    `Filled`: a row holds the token of the latest round's item that has it.
  - `Totals`, `Rows`: what a rank has received are the tokens routed to it, or `MaxRecv` of
    them, in the rows from 0 on. While it has them in hand (`Holds`) nobody can fill another
    of its rows.
- The count is a sum over ranks, and what a fold yields for any number of them is shown by
  induction over data, which these provers cannot use. So `Receive` takes the tokens that
  were counted as a set of pairs, of a peer and a number, and the proof has a bijection
  from the items that have rows to those pairs and to the rows (`ReceiveCounts`).
- `Combining` follows the tokens back:
  - `Packs`, of the std variant: `packed` and `slotMap` agree with the items that blocks have
    packed. It rests on the grid barrier. If its counter stands at a multiple of the grid
    when a launch begins (`Even`), no block packs before all have a ticket, and by then block
    0 has the counts. If not, blocks may pack too early; but those whose tickets lie beyond
    the first multiple wait for a count that this launch does not reach, and it does not
    end (`EndedEven`). So `Packed` and `Combined` hold for any sequence of grids; what a change
    of grid costs is that kernels return (`MCDispatchCombine_geometry`).
  - `StagedRows`: the experts' results lie where combine reads them.
  - `Returned`: once a row has been scattered (`PutBack`), the cell that the token's rank will
    read holds this round's output until that rank goes on to another round.
  - `Added`: a token that has been summed is the sum over the ranks that took it in.

`SplitK_proofs`

- `SummedAlways`: `Summed`, if the kernel's stream is the one torch works in
  (`OwnStream`). `Summed` says what memory holds at the end, which is inductive
  only when it says what memory holds at any time: `Valued` gives a part's value by
  where the waves are and what is under way. That no add comes before the initial
  value needs the order the barriers and the signal make (`Phases`, `Signalled`),
  and the signal is of this launch only if the last one has cleared it: `Counted`
  says that the semaphore is the number of leaders that have arrived until the last
  of them resets it, so exactly one does, and that both words are zero when it has.

Only model-checked are

- the liveness properties (`CallsEnd`, `CallsReturn`, `AllReturn`, `CapturesEnd`,
  `Finishes`, `AllReleased`, `AllEnd`): liveness under fairness is outside what TLAPS
  proves;
- `NoRace` and `Accumulated` of `Workgroup`, which are about given programs of
  instructions: a run executes them and a proof would execute them too.

## Where code and intent disagree

Each of these has a configuration kept beside the runs, and TLC finds the property
violated there. The runs use programs that keep clear of them.

| Configuration | Property | What happens | Stated intent |
|---|---|---|---|
| `MCJitCache_dangling` | `CodeAlive` | Two threads of a process that miss together compile two artifacts. `_mem_cache` keeps one; the `CallState` or the `CompiledFunction` of the other thread has a pointer into an engine nobody keeps (`jit_function.py:1772`) | "The in-process CompiledArtifact cache above owns the ExecutionEngine/ code object, so the function pointer remains valid" (`jit_function.py:1768-1770`) |
| `MCAllReduce_onestage` | `AllReduced` | The one-stage kernel has no end signal; the next eager call copies its input (`custom_all_reduce.py:909`) while a slow peer still reads the last (`custom_all_reduce_kernel.py:406`) | `assert max_err < atol` (`tests/kernels/test_allreduce.py:339`) |
| `MCJitCache_runonly_threads` | `RunOnlyServed` | `_ensure_cache_manager` sets `manager_key` before `cache_manager` (`jit_function.py:1388`); a second thread of a run-only process sees no cache and raises although the file is there | "Raise RuntimeError on cache miss." (`utils/env.py:299`) |
| `MCAllReduce_switch` | `AllReduced` | A write-mode call behind a two-stage call scatters into scratch its peers still gather from (`custom_all_reduce_kernel.py:637`) | as above |
| `MCAllReduce_uneven` | `AllReduced` | Packs not divisible by the ranks: the last part is longer, and gather takes it from `tmp_rsrcs[p]` as if `p` were the rank, while the table is rotated (`custom_all_reduce_kernel.py:559-573`, `custom_all_reduce.py:356`). In write mode region `r` starts at `r * part_p`, and the last rank's regions are `largest_part_p` long, so they overlap (`:641`) | `should_custom_ar` asks for multiples of 16 bytes only (`custom_all_reduce.py:634-639`) |
| `MCAllReduce_scatter` | `AllReduced` | All waves scatter, and the first wave signals without a barrier in between (`custom_all_reduce_kernel.py:637-654`, `186-190`) | "Signal all ranks that stage 1 is complete" (`:646`) |
| `MCAllReduce_wrap` | `Met` | The 32-bit flag is compared unsigned (`custom_all_reduce_kernel.py:194`); after 2^32 signals of a block nobody waits. Modelled with 2 bits | the comparison is there for ranks to wait |
| `AllReduceBlock_early` | `EndSyncHolds` | Barriers inside loops whose waves run unequal numbers of iterations (`custom_all_reduce_kernel.py:480`, `511-526`): a wave that is out of the loop passes the end signal's barrier with those inside. Needs more than `80 * tnum_gpu` packs a rank and two waves a warp, that is four ranks | "wait for all to finish" (`:208`) |
| `MCGraphCapture_stale` | `PeersAgree` | `_graph_ipc_unreg_list` is cleared in the last line of the registration only (`custom_all_reduce.py:622`); after a failure on one rank the next capture pairs leftover entries with new ones | "guaranteed empty here" (`:463-464`); `test_allreduce.py:425` catches and goes on |
| `PeerBuffer_init` | `MappedIsLive` | A rank that fails to open a handle frees storage its peers have mapped, and leaves them in the barrier (`monokernel/runtime.py:63-71`) | "A fast rank must not release its pool while peers still have its allocation mapped" (`:106-107`, of `close`) |
| `MCMailboxAllReduce_kda` | `AllReturn` | The defaults `layer=0, advance=True` use one slot only, since `LAYER_SLOTS` is even (`k3/kda.py:298-299`, `symmetric_allreduce.py:64`): a rank overwrites a mailbox its peer has not read, and the peer polls for ever | "two tagged-mailbox epoch slots" (`layout.py:44`) |
| `MCDispatchCombine_geometry` | `AllReturn` | Blocks round their ticket up to a multiple of this call's `block_num`, but the counter has the tickets of all calls (`flydsl_dispatch_combine_intranode_kernel.py:298-301`), and `dispatch` resolves its geometry from the batch at every call (`flydsl_dispatch_combine_intranode_op.py:996`): after a call of another grid the blocks wait for a count nobody makes | "resolved ONCE per op (not per call)" (`_op.py:240`), "(epoch+1)*block_num" (`_kernel.py:300`) |
| `MCDispatchCombine_memory` | `Delivered` | `shmem_tok_off` and `shmem_recv_tok_num` are allocated and not cleared (`flydsl_dispatch_combine_intranode_op.py:642-643`), but the first dispatch takes rows from the one (`_kernel.py:169`) and waits for zeros and counts in the other (`:276`, `:283`): with a 1 in either, a rank leaves rows out, takes a count nobody sent, or waits for ever | "shmem_malloc is uninitialized; zero what combine reads." (`_op.py:651`); the sister class zeroes all it allocates (`:424-427`) |
| `MCDispatchCombine_weights` | `WeightsCounted` | With `npes >= experts_per_token` the weights of k-slots that were not sent are added unmasked (`_kernel.py:1032-1033`), from the rank's own row, of this round or an earlier one | the other branch masks them |
| `MCWorkgroup_racing` | `NoRace`, `Accumulated` | Each instance of `Racing` alone, by the explicit waits of its kernel. `fp8_gemm_8wave` reads tiles K-2 and K-1 before a wait has counted the copies of the other group (`fp8_gemm_8wave.py:322-334`); the half tiles of `gemm_a16w16` without split-K never make up for the one barrier its groups are apart (`gemm_a16w16_gfx950.py:1145-1154`; the split branch does, `:1134`), so that a group stores rows the other has not staged; `fp4_gemm_4wave` waits for all but 24 where B1 needs 20 (`fp4_gemm_4wave.py:772-775`); `preshuffle_gemm` with one stage and `use_async_copy` waits for all but B's copies where A's were issued behind them (`preshuffle_gemm.py:589-599`). `NoRace` only: `fp8_gemm_4wave` refills A0 and B0 (`fp8_gemm_4wave.py:393`) behind a barrier that no wait for the reads of the tile before (`:418-438`) precedes, and so do the half tiles with their reads | `wait_barrier` is there for the reads behind it |
| `MCSplitK_stream` | `Summed` | `torch.zeros` fills the words in torch's current stream (`gemm_a16w16_gfx950.py:1294-1298`), the kernel may be launched in another: a signal that happens to be set lets products be added to an uninitialised tile | the buffers are cached by stream |

Some have no configuration. The dispatch operator of MoE does not refuse a second
combine of one dispatch, where a fast rank's flag of the second call overwrites the
one a slow peer's first call compares for equality, nor a second dispatch without a
combine between, where the rows' counter and the total are taken on
(`DispatchCombine` with programs of that kind shows both). `fp8_gemm_4wave` and
`fp8_gemm_8wave` are written for two tiles of K or more and accept one, and
`fp4_gemm_4wave` accepts two
(`(K_ITERS - 4) % UNROLL == 0`, `fp4_gemm_4wave.py:640`) where its prologue and
epilogue need four.

## What is not modelled

- Contents: MLIR, code generation, numerics, layouts, the value of a cache key
  and how it is computed. A key is a model value, so that what a collision or a
  missing part of a key would do is not covered.
- JitCache: several jitted functions, `inject_asm`, the classes that own a
  bound `JitFunction`, the memory of engines. With traced keys a run-only process
  may also miss through a lock time-out, which is why `RunOnlyServed` is not
  claimed there.
- AotRuntime: a writer starved by readers; restoring a device that worked before
  is taken to succeed; a failure in `hipModuleUnload`'s synchronisation means the
  device is lost.
- GraphCapture: exceptions while recording; `_exchange_out_ptrs`, which nothing
  calls; `close`.
- PeerBuffer: a rank that dies. Its peers wait for ever, in the code as in any
  model of it.
- MailboxAllReduce: the fused tail (`k3/tail.py`), which has a second kind of
  message; tag wrap-around behind 2^31 steps times layers.
- DispatchCombine: `skip_stage1`, quantized transports and their scales, blocks of
  several waves, lanes that leave a common loop apart.
- Workgroup: the model has the explicit waits only (the compiler may add waits for
  the copies to LDS, see `python/flydsl/expr/rocdl/universal.py:36-58` for what the
  kernels ask for); counts of `s_wait_dscnt` other than 0; cluster multicast and the
  cluster's barriers; the wave-specialised copies of `moe_a8w4` (`WAVE_SPEC`), where
  a wave issues one or two of the four requests for a tile; the PTPC scales of
  `gemm_a8w8`; slices of K within a workgroup; the stores of the persistent loop.
- Mega MoE: the whole fused layer. Its tile words, queues and epochs hold the state
  of four launches on each rank; no model has been written yet and the size of its
  state space is not known. `mega_moe_tp`, the tensor-parallel variant, has not been
  surveyed. The combine kernel of `mega_moe` is of the kind `DispatchCombine` models.
- SplitK: the second protocol, of `splitk_fused_epilogue_gfx1250.py`.
- The hardware's memory model and its caches: data stored before a signal is
  taken to be visible to the peer that sees the signal. The kernels access
  signals uncached and data with the cached or non-temporal modifier
  (`custom_all_reduce_kernel.py:29-32`).
- Components with status `not_modelled` in `PROJECT.json`, each with its reason.

The modules cover a small share of the repository's lines and will go on doing so.
Of its 150,000 lines most are the bodies of numerical kernels (attention,
normalization, sorting, the mono kernels), the tracing front end with its typing
and operator overloading, and MLIR dialects and lowerings. Their correctness lies in
values, layouts and addresses, and in the meaning of the programs they rewrite; a
model of those would repeat them line by line. What in them depends on order
(pipelines, barriers, signals, caches) is what the modules and the plan take.

## Plan

The order was: what processes share on disk, what GPUs share, what the waves and
workgroups of one GPU share. Next:

1. `splitk_fused_epilogue_gfx1250.py` beside `SplitK`; the pipelines of the attention
   kernels as further programs for `Workgroup`.
2. `MegaMoe` over `DispatchCombine`: prepare (count, exchange, order), stage 1
   (copies by destination, tiles published when their last chunk arrived, queue with
   epochs), stage 2 and combine; `Delivered`, `Combined` and `AllReturn` carry over.
3. The fused all-reduce of `monokernel/gemm_a16w16.py` and the fused tail
   (`k3/tail.py`) in `MailboxAllReduce`; exceptions while recording and `close` in
   `GraphCapture`; owner classes and `inject_asm` in `JitCache`.
4. `KtraceBuffer`, `LazyEngine`, `Autotune`: small concurrent components.
5. `SmemAllocator` and `Layout`: pure functions against reference definitions.
