--------------------------- MODULE AllReduceBlock ---------------------------
(***************************************************************************)
(* The waves inside a block of the all-reduce kernels                      *)
(* (kernels/comm/custom_all_reduce_kernel.py): how the warps hand packs to *)
(* the first one through LDS, and how the block's barriers and the end     *)
(* signal keep the waves, and the same block on the other ranks, apart.    *)
(* AllReduce takes a block's loop as one step; this module is about that   *)
(* step. Every rank's block is behind the start signal, and calls divide   *)
(* evenly among the ranks.                                                 *)
(*                                                                         *)
(* A warp is the code's: the threads that serve one rank. It consists of   *)
(* hardware waves, which run on their own until a barrier. A wave moves    *)
(* one pack at a time, its lanes being alike.                              *)
(***************************************************************************)
EXTENDS Naturals

CONSTANTS
  World,       \* ranks, and warps of a block
  Waves,       \* hardware waves of a warp: tnum_gpu / 64
  MaxBlocks,   \* _MAX_BLOCKS
  Kernels,     \* kernels the instance looks at
  Sizes        \* packs of a rank's loop

ASSUME ConstantsAssumption ==
  /\ {World, Waves, MaxBlocks} \subseteq Nat \ {0}
  /\ Kernels \subseteq {"onestage", "twostage", "write"} /\ Sizes \subseteq Nat \ {0}

Rank == 0..(World - 1)
Warp == Rank
Wave == Warp \X (0..(Waves - 1))
First == <<0, 0>>    \* the wave of lanes 0..World-1, which signal

VARIABLES
  kernel, packs, block,   \* the kernel, the packs of a rank's loop, the block
  pc,        \* where each wave is
  trip,      \* iterations it has begun
  lds,       \* the pack each wave last put in each half of the shared memory
  res,       \* the result area of the write-mode kernel
  stored,    \* the sum each warp has stored for each pack
  gathered,  \* the sum each warp has gathered for each pack
  ended      \* ranks that have sent their end signal

call == <<kernel, packs, block>>
data == <<lds, res, stored, gathered>>
vars == <<call, pc, trip, data, ended>>

CeilDiv(a, b) == (a + b - 1) \div b
Grid(n)   == IF CeilDiv(n, Waves) < MaxBlocks THEN CeilDiv(n, Waves) ELSE MaxBlocks
Pack      == 0..(packs - 1)

\* Mutant: the loop does not advance.
NoStride(w, k) == block * Waves + w[2]

\* The pack of wave w in iteration k of the grid-stride loop.
PackAt(w, k) == (k * Grid(packs) + block) * Waves + w[2]

\* Two-stage calls of three or more iterations use one buffer and a second
\* barrier, shorter ones two buffers in turn; the others each have their way.
SingleBuffer == kernel = "twostage" /\ CeilDiv(packs, MaxBlocks * Waves) >= 3

\* Mutant: the halves do not alternate.
OneHalf(k) == 0

Half(k) == IF SingleBuffer \/ kernel = "write" THEN 0 ELSE k % 2

Whole(p) == {<<w, p>> : w \in Warp}

Init ==
  /\ kernel \in Kernels /\ packs \in Sizes /\ block \in 0..(Grid(packs) - 1)
  /\ pc = [r \in Rank |-> [w \in Wave |-> "loop"]]
  /\ trip = [r \in Rank |-> [w \in Wave |-> 0]]
  /\ lds = [r \in Rank |-> [h \in 0..1 |-> [w \in Wave |-> {}]]]
  /\ res = [r \in Rank |-> [i \in 0..(Waves - 1) |-> {}]]
  /\ stored = [r \in Rank |-> [w \in Warp |-> [p \in Pack |-> {}]]]
  /\ gathered = stored /\ ended = {}

-----------------------------------------------------------------------------
Goto(r, w, from, to) == pc[r][w] = from /\ pc' = [pc EXCEPT ![r][w] = to]

\* The head of the loop: an iteration's pack goes to LDS.
Load(r, w) ==
  LET p == PackAt(w, trip[r][w]) IN
  /\ p < packs /\ Goto(r, w, "loop", "loadbar")
  /\ trip' = [trip EXCEPT ![r][w] = @ + 1]
  /\ lds' = [lds EXCEPT ![r][Half(trip[r][w])][w] = {<<w[1], p>>}]
  /\ UNCHANGED <<call, res, stored, gathered, ended>>

\* Mutant: no barrier between the loop and the end signal.
NoEndBarrier(w) == IF w = First THEN "signal" ELSE "syncbar"

\* The one-stage kernel ends with its loop.
AfterLoop(w) == IF kernel = "onestage" THEN "done" ELSE "endbar"

LeaveLoop(r, w) ==
  /\ PackAt(w, trip[r][w]) >= packs /\ Goto(r, w, "loop", AfterLoop(w))
  /\ UNCHANGED <<call, trip, data, ended>>

\* Mutant: the second barrier is left out.
NoSecondBarrier == IF kernel = "write" THEN "put" ELSE "loop"

AfterReduce == IF SingleBuffer \/ kernel = "write" THEN "reducebar" ELSE "loop"

\* Behind the barrier the first warp sums what all warps loaded, and stores the
\* sum (write mode: puts it in the result area).
Reduce(r, w) ==
  LET k == trip[r][w] - 1
      sum == UNION {lds[r][Half(k)][<<v, w[2]>>] : v \in Warp}
  IN  /\ Goto(r, w, "reduce", AfterReduce)
      /\ IF w[1] # 0 THEN UNCHANGED <<res, stored>>
         ELSE IF kernel = "write"
         THEN res' = [res EXCEPT ![r][w[2]] = sum] /\ UNCHANGED stored
         ELSE stored' = [stored EXCEPT ![r][0][PackAt(w, k)] = sum] /\ UNCHANGED res
      /\ UNCHANGED <<call, trip, lds, gathered, ended>>

\* Write mode: each warp stores the result to its rank's output.
Put(r, w) ==
  /\ Goto(r, w, "put", "loop")
  /\ stored' = [stored EXCEPT ![r][w[1]][PackAt(w, trip[r][w] - 1)] = res[r][w[2]]]
  /\ UNCHANGED <<call, trip, lds, res, gathered, ended>>

-----------------------------------------------------------------------------
(* gpu.barrier: the hardware counts the waves that have come to a barrier, *)
(* whichever it is, and lets them go when every wave that still runs has.  *)

AtBarrier == {"loadbar", "reducebar", "endbar", "syncbar"}

\* Mutant: lane 0 waits before it signals.
WaitFirst == "wait"

SyncFrom == "signal"

Behind(w, at) ==
  CASE at = "loadbar"   -> "reduce"
    [] at = "reducebar" -> IF kernel = "write" THEN "put" ELSE "loop"
    [] at = "endbar"    -> IF w = First THEN SyncFrom ELSE "syncbar"
    [] at = "syncbar"   -> IF kernel = "twostage" THEN "gather" ELSE "done"
    [] OTHER            -> at

Barrier(r) ==
  /\ \A w \in Wave : pc[r][w] \in AtBarrier \cup {"done"}
  /\ \E w \in Wave : pc[r][w] # "done"
  /\ pc' = [pc EXCEPT ![r] = [w \in Wave |-> Behind(w, @[w])]]
  /\ UNCHANGED <<call, trip, data, ended>>

\* _signal_end_sync, in the wave whose lanes signal and poll.
Signal(r) ==
  /\ Goto(r, First, "signal", "wait") /\ ended' = ended \cup {r}
  /\ UNCHANGED <<call, trip, data>>

Await(r) ==
  /\ Goto(r, First, "wait", "syncbar") /\ ended = Rank
  /\ UNCHANGED <<call, trip, data, ended>>

\* Stage 2 of the two-stage kernel: a warp copies the packs of one rank.
Gather(r, w) ==
  /\ Goto(r, w, "gather", "done")
  /\ gathered' = [gathered EXCEPT ![r][w[1]] = [p \in Pack |->
       IF \E k \in 0..packs : p = PackAt(w, k)
       THEN stored[(r + w[1]) % World][0][p] ELSE @[p]]]
  /\ UNCHANGED <<call, trip, lds, res, stored, ended>>

WaveStep(r, w) ==
  Load(r, w) \/ LeaveLoop(r, w) \/ Reduce(r, w) \/ Put(r, w) \/ Gather(r, w)

BlockStep(r) == Barrier(r) \/ Signal(r) \/ Await(r)

Next == \E r \in Rank : BlockStep(r) \/ \E w \in Wave : WaveStep(r, w)

Spec == Init /\ [][Next]_vars

\* The waves of a block share its processor and all make progress.
FairSpec ==
  Spec /\ \A r \in Rank : WF_vars(BlockStep(r)) /\ \A w \in Wave : WF_vars(WaveStep(r, w))

-----------------------------------------------------------------------------
TypeOK ==
  /\ pc \in [Rank -> [Wave -> AtBarrier \cup
              {"loop", "reduce", "put", "signal", "wait", "gather", "done"}]]
  /\ trip \in [Rank -> [Wave -> 0..packs]]
  /\ ended \subseteq Rank
  /\ \A r \in Rank :
       /\ UNION {lds[r][h][w] : h \in 0..1, w \in Wave} \subseteq Warp \X Pack
       /\ \A w \in Warp, p \in Pack : stored[r][w][p] \cup gathered[r][w][p] \subseteq Warp \X Pack

\* A sum that is stored has the pack of every warp and no pack of another
\* iteration: LDS is neither overwritten before it is read nor read before it
\* is written ("No barrier 2: parity ensures ...", "two-barrier pattern").
Summed ==
  \A r \in Rank, w \in Warp, p \in Pack : stored[r][w][p] \in {{}, Whole(p)}

\* The end signal tells the peers that the block's sums are stored, though
\* some waves make one iteration less and meet its barriers early.
EndedIsStored ==
  \A r \in ended, w \in Warp, v \in 0..(Waves - 1), k \in 0..packs :
    LET p == PackAt(<<w, v>>, k) IN
    p < packs /\ (w = 0 \/ kernel = "write") => stored[r][w][p] = Whole(p)

\* What is gathered from a peer is whole: nobody gathers a pack before the
\* peer that sums it has ended ("wait for all to finish", _signal_end_sync).
\* It holds where all waves make the same iterations, or at most one; others
\* meet the barriers of the loop and of the end signal at the same time
\* (AllReduceBlock_early.cfg).
EndSyncHolds ==
  \A r \in Rank, w \in Wave, k \in 0..packs :
    LET p == PackAt(w, k) IN
    pc[r][w] = "done" /\ kernel = "twostage" /\ p < packs => gathered[r][w[1]][p] = Whole(p)

\* No wave is left at a barrier the others do not come to, and no block at a
\* signal that is not sent.
Finishes == <>(\A r \in Rank, w \in Wave : pc[r][w] = "done")
=============================================================================
