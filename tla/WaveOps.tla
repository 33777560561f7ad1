------------------------------ MODULE WaveOps ------------------------------
(***************************************************************************)
(* What the waves of a workgroup can do to the tiles of their operands, as *)
(* far as the order of things matters: the instructions of which the       *)
(* kernels' pipelines are made.                                            *)
(*                                                                         *)
(* A tile is the slice of an operand for one step of K.  LDS is a set of   *)
(* buffers, each in parts: <<buffer, wave>> is the part that the wave      *)
(* fills.  A fragment is a set of registers, named <<operand, bank>>.      *)
(***************************************************************************)
EXTENDS Integers, Sequences, SequencesExt

\* A tile of an operand, and what a buffer or a register holds before any.
Tile(operand, k) == [operand |-> operand, k |-> k]
Nothing == Tile("nothing", 0)

\* The parts of a buffer that the waves W fill.
Parts(buffer, W) == {<<buffer, v>> : v \in W}

\* A copy from memory to LDS by n instructions that vmcnt (or tensorcnt) counts.
Load(part, operand, k, n) ==
  [op |-> "load", dst |-> part, tile |-> Tile(operand, k), n |-> n]
\* A copy from memory to registers, counted likewise.
Fetch(frag, k, n) ==
  [op |-> "fetch", dst |-> frag, tile |-> Tile(frag[1], k), n |-> n]
\* s_waitcnt vmcnt(n) or s_wait_tensorcnt(n).
Wait(n) == [op |-> "wait", n |-> n]
\* ds_read, from parts that hold a tile of the operand, of the s-th of its steps.
ReadStep(frag, operand, parts, steps, s) ==
  [op |-> "read", dst |-> frag, operand |-> operand, parts |-> parts, steps |-> steps, s |-> s]
Read(frag, parts) == ReadStep(frag, frag[1], parts, 1, 0)
\* ds_write of a fragment; of the finished sums, all of them if none is named, over
\* what was there; and of zeros over what was there.
Write(part, frag) == [op |-> "write", parts |-> {part}, frag |-> frag]
Spill(part, sums, over) ==
  [op |-> "spill", parts |-> {part}, operand |-> part[1][1], sums |-> sums, over |-> over]
Clear(over) == [op |-> "clear", parts |-> {}, sums |-> {}, over |-> over]
\* s_waitcnt lgkmcnt(0) or s_wait_dscnt(0).
Drain == [op |-> "drain"]
\* The two halves of a barrier.  s_barrier waits for nothing but the other waves;
\* before gpu.barrier() the compiler waits for the wave's own LDS operations.
Signal == [op |-> "signal"]
Await == [op |-> "await"]
Barrier == <<Signal, Await>>
Sync == <<Drain>> \o Barrier
\* One step of the accumulator that sums the products of these operands.
Mma(frags) == [op |-> "mma", frags |-> frags]
\* A fragment computed from others of the same step.
Derive(frag, frags) == [op |-> "derive", dst |-> frag, frags |-> frags]

Nop == << >>
\* The program s where the condition holds.
When(condition, s) == IF condition THEN s ELSE Nop
\* The bodies of a loop for k = from .. to, one after the other.
Loop(from, to, Body(_)) ==
  FlattenSeq([i \in 1 .. IF to < from THEN 0 ELSE to - from + 1 |-> Body(from + i - 1)])
=============================================================================
