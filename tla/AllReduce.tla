----------------------------- MODULE AllReduce ------------------------------
(***************************************************************************)
(* The eager custom all-reduce: custom_all_reduce and _run_kernel of       *)
(* kernels/comm/custom_all_reduce.py on every rank, and the blocks of the  *)
(* three kernels of custom_all_reduce_kernel.py, which meet peers' blocks  *)
(* at the start and end signals and read and write peers' buffers.         *)
(*                                                                         *)
(* Data is moved in packs. What a pack holds is abstracted to the set of   *)
(* contributions summed into it, <<rank, pack of the input, call>> each.   *)
(* One step of a block stands for its loop between two signals: the loop's *)
(* loads and stores have no order a peer could rely on.                    *)
(***************************************************************************)
EXTENDS Naturals, Sequences

CONSTANTS
  World,            \* ranks; the code takes 2, 4 or 8
  Lanes,            \* threads per rank in a block (tnum_gpu)
  WaveRanks,        \* ranks whose threads share a hardware wave: 1 at 512 threads
  MaxBlocks,        \* _KMAXBLOCKS
  MaxPacks,         \* packs a buffer holds
  SmallBelow,       \* calls of fewer packs use the one-stage kernel
  LargeAbove,       \* calls of more packs use the write-mode kernel ...
  OneStageWorlds,   \* worlds that only use the one-stage kernel: {2}
  WriteWorlds,      \* ... in these worlds: {8}
  FlagMod,          \* values of a signal word: 2^32
  Programs          \* sequences of calls, each given by its packs

ASSUME ConstantsAssumption ==
  /\ {World, Lanes, WaveRanks, MaxBlocks} \subseteq Nat \ {0}
  /\ MaxPacks \in Nat /\ SmallBelow \in Nat /\ LargeAbove \in Nat
  /\ FlagMod \in Nat \ {0, 1}
  /\ \A s \in Programs : s \in Seq(1..MaxPacks)

Rank  == 0..(World - 1)
Block == 0..(MaxBlocks - 1)
Pack  == 0..(MaxPacks - 1)

VARIABLES
  program,   \* the calls every rank makes, in this order
  call,      \* calls a rank's stream has started
  busy,      \* whether it still runs the last of them
  pc,        \* where each block of the rank's kernel is
  left,      \* the peers it has yet to scatter to (write mode)
  flag,      \* _flag of the rank's signal buffer
  sig,       \* its start and end tables: the slot of each block and peer
  inbuf,     \* its input_buffer: the call whose input each pack holds
  tmp,       \* the scratch packs behind its signals
  obuf,      \* its output_buffer
  out        \* the result of its last call

signals == <<flag, sig>>
buffers == <<inbuf, tmp, obuf, out>>
vars == <<program, call, busy, pc, left, signals, buffers>>

PcValues == {"start", "startwait", "reduce", "end", "endwait", "gather", "done"}

-----------------------------------------------------------------------------
(* Which kernel a call uses, and which block handles which pack.           *)

Kernel(n) ==
  IF n > LargeAbove /\ World \in WriteWorlds THEN "write"
  ELSE IF World \in OneStageWorlds \/ n < SmallBelow THEN "onestage" ELSE "twostage"

Part(n)     == n \div World
ShardLen(r, n) == IF r = World - 1 THEN n - r * Part(n) ELSE Part(n)
Longest(n)  == ShardLen(World - 1, n)

\* Blocks launched: one per Lanes packs of the work of a rank.
Grid(n) ==
  LET work == CASE Kernel(n) = "onestage" -> n [] Part(n) = 0 -> 1 [] OTHER -> Part(n)
      need == (work + Lanes - 1) \div Lanes
  IN  IF need < MaxBlocks THEN need ELSE MaxBlocks

\* Of 0..len-1, what block b of grid g visits in its grid-stride loop.
Visits(b, g, width, len) == {i \in 0..(len - 1) : (i \div width) % g = b}

\* The wave of a block that rank q's threads are in.
Wave(q) == q \div WaveRanks

Packs(r)  == program[call[r]]
Mine(r, b, len) == Visits(b, Grid(Packs(r)), Lanes, len)

\* Mutants: the pointer table is not rotated by the rank, or the other way.
InRankOrder(r, i) == i
Backwards(r, i)   == (r + World - i) % World

\* _gpu_tmp_ptrs_array[i] of rank r.
TmpPtr(r, i) == (r + i) % World

\* What rank r reads at pack p of rank q's input buffer.
Input(q, p) == {<<q, p, inbuf[q][p]>>}
SumOf(p)    == UNION {Input(q, p) : q \in Rank}

\* The result of call c at pack p.
Reduced(p, c) == {<<q, p, c>> : q \in Rank}

Init ==
  /\ program \in Programs
  /\ call = [r \in Rank |-> 0] /\ busy = [r \in Rank |-> FALSE]
  /\ pc = [r \in Rank |-> [b \in Block |-> "done"]]
  /\ left = [r \in Rank |-> [b \in Block |-> {}]]
  /\ flag = [r \in Rank |-> [b \in Block |-> 0]]
  /\ sig = [s \in {"start", "end"} |->
              [r \in Rank |-> [b \in Block |-> [q \in Rank |-> 0]]]]
  /\ inbuf = [r \in Rank |-> [p \in Pack |-> 0]]
  /\ tmp = [r \in Rank |-> [p \in Pack |-> {}]] /\ obuf = tmp /\ out = tmp

-----------------------------------------------------------------------------
(* The rank's stream: input copy and launch, end of the kernel and output  *)
(* copy. A stream runs one after the other.                                *)

Launch(r) ==
  LET c == call[r] + 1  n == program[c] IN
  /\ ~busy[r] /\ call[r] < Len(program)
  /\ call' = [call EXCEPT ![r] = c] /\ busy' = [busy EXCEPT ![r] = TRUE]
  /\ pc' = [pc EXCEPT ![r] = [b \in Block |-> IF b < Grid(n) THEN "start" ELSE "done"]]
  /\ left' = [left EXCEPT ![r] = [b \in Block |->
                IF Kernel(n) = "write" /\ b < Grid(n) THEN Rank ELSE {}]]
  /\ inbuf' = IF Kernel(n) = "write" THEN inbuf
              ELSE [inbuf EXCEPT ![r] = [p \in Pack |-> IF p < n THEN c ELSE @[p]]]
  /\ UNCHANGED <<program, signals, tmp, obuf, out>>

Return(r) ==
  /\ busy[r] /\ \A b \in Block : pc[r][b] = "done"
  /\ busy' = [busy EXCEPT ![r] = FALSE]
  /\ out' = IF Kernel(Packs(r)) = "write"
            THEN [out EXCEPT ![r] = [p \in Pack |-> IF p < Packs(r) THEN obuf[r][p] ELSE @[p]]]
            ELSE out
  /\ UNCHANGED <<program, call, pc, left, signals, inbuf, tmp, obuf>>

-----------------------------------------------------------------------------
(* _signal_start_sync and _signal_end_sync                                 *)

Goto(r, b, from, to) == pc[r][b] = from /\ pc' = [pc EXCEPT ![r][b] = to]

\* Mutant: every lane counts.
FlagPerLane(f) == (f + World) % FlagMod

NextFlag(f) == (f + 1) % FlagMod

\* Mutant: a lane writes the slot it will wait on.
OwnSlot(r, q) == q

\* The slot of rank q's table that rank r writes.
SlotIn(r, q) == r

\* One lane per peer, all of the first wave, stores the flag in the peer's
\* table; that wave has done its part of the scatter, others may have not. The
\* peers see the flag in any order: one that polls later sees it later.
Signal(r, b, s) ==
  /\ \A q \in left[r][b] : Wave(q) # 0
  /\ Goto(r, b, s, IF s = "start" THEN "startwait" ELSE "endwait")
  /\ sig' = [sig EXCEPT ![s] = [q \in Rank |->
               [@[q] EXCEPT ![b][SlotIn(r, q)] = NextFlag(flag[r][b])]]]
  /\ UNCHANGED <<program, call, busy, left, flag, buffers>>

AfterEnd(r) == IF Kernel(Packs(r)) = "twostage" THEN "gather" ELSE "done"

\* Each lane polls its slot until it is not below the flag; behind the block's
\* barrier, which all waves come to, lane 0 stores the flag.
Await(r, b, s) ==
  /\ \/ s = "start" /\ Goto(r, b, "startwait", "reduce")
     \/ s = "end" /\ Goto(r, b, "endwait", AfterEnd(r))
  /\ left[r][b] = {} /\ \A q \in Rank : sig[s][r][b][q] >= NextFlag(flag[r][b])
  /\ flag' = [flag EXCEPT ![r][b] = NextFlag(@)]
  /\ UNCHANGED <<program, call, busy, left, sig, buffers>>

-----------------------------------------------------------------------------
(* allreduce_1stage_arr                                                    *)

ReduceAll(r, b) ==
  /\ Goto(r, b, "reduce", "done") /\ Kernel(Packs(r)) = "onestage"
  /\ out' = [out EXCEPT ![r] = [p \in Pack |->
               IF p \in Mine(r, b, Packs(r)) THEN SumOf(p) ELSE @[p]]]
  /\ UNCHANGED <<program, call, busy, left, signals, inbuf, tmp, obuf>>

-----------------------------------------------------------------------------
(* allreduce_2stage_arr                                                    *)

\* Mutant: the kernel goes on to the gather without the end signal.
NoEndSignal == "gather"

AfterReduce == "end"

\* Stage 1: the rank's shard is summed into its own scratch packs.
ReduceShard(r, b) ==
  LET n == Packs(r) IN
  /\ Goto(r, b, "reduce", AfterReduce) /\ Kernel(n) = "twostage"
  /\ tmp' = [tmp EXCEPT ![TmpPtr(r, 0)] = [i \in Pack |->
               IF i \in Mine(r, b, ShardLen(r, n)) THEN SumOf(r * Part(n) + i) ELSE @[i]]]
  /\ UNCHANGED <<program, call, busy, left, signals, inbuf, obuf, out>>

\* Stage 2: <<pack of the output, rank and pack of the scratch it comes from>>.
\* Shards of equal length are gathered by one warp per rank, others by the
\* whole block.
Gathered(r, b) ==
  LET n == Packs(r) IN
  IF n % World = 0
  THEN {<<((r + w) % World) * Part(n) + i, TmpPtr(r, w), i>> :
          w \in Rank, i \in Mine(r, b, Part(n))}
  ELSE {<<x[1] * Part(n) + x[2], TmpPtr(r, x[1]), x[2]>> :
          x \in {y \in Rank \X Visits(b, Grid(n), Lanes * World, Longest(n)) :
                   y[1] = World - 1 \/ y[2] < Part(n)}}

Gather(r, b) ==
  LET moves == Gathered(r, b) IN
  /\ Goto(r, b, "gather", "done")
  /\ out' = [out EXCEPT ![r] = [p \in Pack |->
               IF \E m \in moves : m[1] = p
               THEN LET m == CHOOSE m \in moves : m[1] = p IN tmp[m[2]][m[3]]
               ELSE @[p]]]
  /\ UNCHANGED <<program, call, busy, left, signals, inbuf, tmp, obuf>>

-----------------------------------------------------------------------------
(* allreduce_2stage_write_mode                                             *)

\* Stage 1: the warp of rank q copies shard q of the caller's input to region
\* r of rank q's scratch packs; warps of one wave go together.
Scatter(r, b, w) ==
  LET n == Packs(r)  now == {q \in left[r][b] : Wave(q) = w} IN
  /\ now # {} /\ left' = [left EXCEPT ![r][b] = @ \ now]
  /\ tmp' = [q \in Rank |-> [p \in Pack |->
       LET i == p - r * Part(n) IN
       IF q \in now /\ p >= r * Part(n) /\ i \in Mine(r, b, ShardLen(q, n))
       THEN {<<r, q * Part(n) + i, call[r]>>} ELSE tmp[q][p]]]
  /\ UNCHANGED <<program, call, busy, pc, signals, inbuf, obuf, out>>

\* Stage 2: the regions are summed, and the sum written to every rank's
\* output buffer.
ReduceAndWrite(r, b) ==
  LET n == Packs(r) IN
  /\ Goto(r, b, "reduce", "end") /\ Kernel(n) = "write"
  /\ obuf' = [q \in Rank |-> [p \in Pack |->
       LET i == p - r * Part(n) IN
       IF p >= r * Part(n) /\ i \in Mine(r, b, ShardLen(r, n))
       THEN UNION {tmp[r][w * Part(n) + i] : w \in Rank} ELSE obuf[q][p]]]
  /\ UNCHANGED <<program, call, busy, left, signals, inbuf, tmp, out>>

-----------------------------------------------------------------------------
BlockStep(r, b) ==
  \/ \E s \in {"start", "end"} : Signal(r, b, s) \/ Await(r, b, s)
  \/ ReduceAll(r, b) \/ ReduceShard(r, b) \/ Gather(r, b)
  \/ (\E w \in Rank : Scatter(r, b, w)) \/ ReduceAndWrite(r, b)

Next ==
  \/ \E r \in Rank : Launch(r) \/ Return(r)
  \/ \E r \in Rank, b \in Block : BlockStep(r, b)

Spec == Init /\ [][Next]_vars

\* Streams make progress, and all blocks of a kernel are resident together:
\* a grid of at most _KMAXBLOCKS blocks fits the device.
FairSpec ==
  /\ Spec
  /\ \A r \in Rank : WF_vars(Launch(r) \/ Return(r))
  /\ \A r \in Rank, b \in Block : WF_vars(BlockStep(r, b))

-----------------------------------------------------------------------------
TypeOK ==
  /\ program \in Programs
  /\ call \in [Rank -> 0..Len(program)] /\ busy \in [Rank -> BOOLEAN]
  /\ pc \in [Rank -> [Block -> PcValues]]
  /\ left \in [Rank -> [Block -> SUBSET Rank]]
  /\ flag \in [Rank -> [Block -> 0..(FlagMod - 1)]]
  /\ \A r \in Rank, b \in Block : flag[r][b] <= 2 * call[r]
  /\ sig \in [{"start", "end"} -> [Rank -> [Block -> [Rank -> 0..(FlagMod - 1)]]]]
  /\ inbuf \in [Rank -> [Pack -> 0..Len(program)]]
  /\ {tmp, obuf, out} \subseteq [Rank -> [Pack -> SUBSET (Rank \X Pack \X Nat)]]

\* A rank's block is past a signal only when the same block of every rank has
\* reached it in the same call or is in a later one ("wait for all to arrive",
\* _signal_start_sync), whatever grids the calls have.
Met ==
  \A r, q \in Rank, b \in Block :
    LET Behind(s) ==
          \/ call[q] < call[r]
          \/ /\ call[q] = call[r]
             /\ pc[q][b] \in {"start"} \cup
                             IF s = "end" THEN {"startwait", "reduce", "end"} ELSE {}
    IN  call[r] > 0 /\ b < Grid(Packs(r)) =>
          /\ pc[r][b] \in {"reduce", "end", "endwait", "gather", "done"} => ~Behind("start")
          /\ pc[r][b] \in {"gather", "done"} /\ Kernel(Packs(r)) # "onestage" => ~Behind("end")

\* When a call returns on a rank, its result there is the sum of what every
\* rank passed to that call, pack by pack.
AllReduced ==
  \A r \in Rank :
    ~busy[r] /\ call[r] > 0 => \A p \in 0..(Packs(r) - 1) : out[r][p] = Reduced(p, call[r])

\* Calls whose packs are a multiple of the world, unless one-stage, and in
\* write mode only by blocks of a single wave, ...
Even(s) ==
  \A i \in 1..Len(s) :
    CASE Kernel(s[i]) = "onestage" -> TRUE
      [] Kernel(s[i]) = "twostage" -> s[i] % World = 0
      [] OTHER -> s[i] % World = 0 /\ WaveRanks >= World

\* ... where a call follows one that is over on the peers too, as far as the
\* buffers it uses are concerned: every call after a write-mode call, no
\* write-mode call after a two-stage call, and only write-mode after one-stage.
Ordered(s) ==
  \A i \in 1..(Len(s) - 1) :
    CASE Kernel(s[i]) = "onestage" -> Kernel(s[i + 1]) = "write"
      [] Kernel(s[i]) = "twostage" -> Kernel(s[i + 1]) # "write"
      [] OTHER -> TRUE

\* The kernels implement the collective: a call returns after every rank has
\* entered it, with the sum of that call's inputs and of no other call's.
Result(r) ==
  IF busy[r] \/ call[r] = 0 THEN <<>> ELSE [i \in 1..Packs(r) |-> out[r][i - 1]]
Abstract == INSTANCE Collective WITH
  entered <- call,
  returned <- [r \in Rank |-> IF busy[r] THEN call[r] - 1 ELSE call[r]],
  result <- [r \in Rank |-> Result(r)]
CollectiveSpec == Abstract!Spec

\* Every rank gets through its calls: no kernel waits for a signal that does
\* not come ("1-stage does not use end_sync to avoid hangs").
AllReturn == <>[](\A r \in Rank : call[r] = Len(program) /\ ~busy[r])
=============================================================================
