---------------------------- MODULE MCWorkgroup ----------------------------
(***************************************************************************)
(* The kernels' pipelines for TLC: two waves each and few tiles.           *)
(***************************************************************************)
EXTENDS Workgroup, GemmPipelines, TdmPipelines

Two == {1, 2}
Kernel(name, steps, P(_)) ==
  [name |-> name, steps |-> steps, programs |-> <<P(1), P(2)>>]

AB == <<"A", "B">>
ABS == <<"A", "B", "SA">>
Owners == Owned(Two, AB)

Preshuffle(K) == Kernel("preshuffle", K, LAMBDA w : PreshuffleTwoStages(w, Two, K, FALSE, 2, 3))
PreshuffleAsync(K) ==
  Kernel("preshuffle, async copy", K, LAMBDA w : PreshuffleTwoStages(w, Two, K, TRUE, 2, 3))
PreshuffleOne(K) ==
  Kernel("preshuffle, one stage", K, LAMBDA w : PreshuffleOneStage(w, Two, K, FALSE, 2, 3))
PreshuffleOneAsync(K) ==
  Kernel("preshuffle, one stage, async copy", K, LAMBDA w : PreshuffleOneStage(w, Two, K, TRUE, 2, 3))
Fp8Four(K, interleaved) ==
  Kernel("fp8_4wave", K, LAMBDA w : Fp8FourWave(w, Two, K, 2, 2, interleaved))
Fp4Four(K) == Kernel("fp4_4wave", K, LAMBDA w : Fp4FourWave(w, Two, K))
Fp8Eight(K) == Kernel("fp8_8wave", K, LAMBDA w : Fp8EightWave(w, Two, K, 1, 2))
MxFp8Eight(K) == Kernel("mxfp8_8wave", K, LAMBDA w : MxFp8EightWave(w, Two, K, 2, 2))
MxFp8Pre(K) == Kernel("mxfp8_8wave, preshuffled", K, LAMBDA w : MxFp8Preshuffled(w, Two, K, 2, 2))

Staged(K, S) == Kernel("a16w16", K, LAMBDA w : A16W16Staged(w, Two, K, S))
HalfTiles(K, split, own) ==
  Kernel("a16w16, half tiles", K, LAMBDA w : A16W16HalfTiles(w, Two, K, 2, 1, split, own))

Bf16(K, nb, parts) == Kernel("gemm_bf16", 2 * K, LAMBDA w : GemmBf16(w, Two, parts, K, nb, 2))
A8W4Ring(K, nb) == Kernel("gemm_a8w4", 2 * K, LAMBDA w : GemmA8W4(w, Two, K, nb, 2))
A8W8Rows(K, nb) ==
  Kernel("gemm_a8w8", 2 * K, LAMBDA w : GemmA8W8(w, Two, AB, K, nb, 2, FALSE, FALSE))
A8W8Quads(K, nb, early) ==
  Kernel("gemm_a8w8, quadrants", 2 * K, LAMBDA w : GemmA8W8(w, Two, ABS, K, nb, 2, TRUE, early))
Prefill(K, nb) == Kernel("moe_a8w4, prefill", 2 * K, LAMBDA w : MoePrefill(w, Two, K, nb, 2))
Decode(K, nb) == Kernel("moe_a8w4, decode", K, LAMBDA w : MoeDecode(w, Two, K, nb, 1))
A4W4(K, nb, ks) ==
  Kernel("gemm_a4w4", ks * K, LAMBDA w : GemmA4W4(w, Two, AB, {K - 1}, K, nb, ks))
A4W4Scheduled(K) ==
  Kernel("gemm_a4w4_256x256", K, LAMBDA w : A4W4Any(w, Two, Owners, K, 4, 1, w % 2 = 1))
A4W4Fixed(K, tail) ==
  Kernel("gemm_a4w4_256x256, known tail", K,
         LAMBDA w : A4W4Tail(w, Two, Owners, K, 4, 8, tail, w % 2 = 1))
A8W4Scheduled(K, nb, kp, phase) ==
  Kernel("gemm_a8w4_256x256", K,
         LAMBDA w : A8W4(w, Two, Owners, K, nb, kp, 8, w % 2 = 1, phase))
A8W8Scheduled(K, nb, kp) ==
  Kernel("gemm_a8w8_256x256", K, LAMBDA w : A8W8(w, Two, Owners, K, nb, kp, 1, w % 2 = 1))
SmallTiles(K, kp) == Kernel("gemm_a8w4_256x256, small", K, LAMBDA w : Groups(w, Two, Owners, K, 3, kp))

\* gfx942 and gfx950
Sound9 ==
  { Preshuffle(1), Preshuffle(2), Preshuffle(5), PreshuffleAsync(1), PreshuffleAsync(4),
    PreshuffleOne(3), Staged(2, 3), Staged(3, 2), Staged(5, 3), Fp8Four(2, TRUE), MxFp8Eight(10),
    MxFp8Pre(6) }
\* gfx1250
Sound12 ==
  { Bf16(2, 3, 1), Bf16(5, 3, 1), Bf16(4, 2, 1), Bf16(4, 3, 2), A8W4Ring(4, 3), A8W8Rows(4, 3),
    A8W8Quads(4, 3, TRUE), A8W8Quads(3, 2, FALSE), Prefill(4, 3), Decode(5, 2), Decode(4, 3),
    A4W4(1, 3, 1), A4W4(2, 4, 1), A4W4(6, 3, 1), A4W4(1, 3, 2), A4W4(5, 3, 2), A4W4(6, 2, 2),
    A4W4Scheduled(2), A4W4Scheduled(9), A4W4Fixed(8, 0), A4W4Fixed(10, 2),
    A8W4Scheduled(8, 4, 1, 0), A8W4Scheduled(9, 4, 1, 1), A8W4Scheduled(16, 3, 2, 0),
    A8W4Scheduled(10, 3, 2, 1), A8W8Scheduled(4, 4, 1), A8W8Scheduled(6, 4, 1),
    A8W8Scheduled(8, 2, 2), SmallTiles(8, 2), SmallTiles(5, 1) }
\* The pipelines whose explicit waits cover their reads, which is not all of them.
Sound == Sound9 \cup Sound12
\* ds_reads that nothing waits for before the barrier behind which their buffer is
\* refilled: NoRace fails with each.
LateReads ==
  { Fp8Four(3, TRUE), Fp8Four(5, FALSE), HalfTiles(6, FALSE, TRUE), HalfTiles(4, TRUE, FALSE) }
\* Copies that are read before a wait has counted them as landed: Accumulated fails
\* with each as well.
EarlyReads == { Fp4Four(6), PreshuffleOneAsync(3), Fp8Eight(4), HalfTiles(4, FALSE, FALSE) }
Racing == LateReads \cup EarlyReads
=============================================================================
