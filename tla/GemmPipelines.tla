--------------------------- MODULE GemmPipelines ---------------------------
(***************************************************************************)
(* The software pipelines of the GEMM kernels for gfx942 and gfx950, one   *)
(* program per wave w of the waves W, for K tiles.  The A tile is cut in   *)
(* halves A0, A1 and the B tile in B0, B1 where the kernel does so; a and  *)
(* b are the load instructions of a wave for one buffer of each.           *)
(***************************************************************************)
EXTENDS WaveOps, FiniteSets

\* The buffers of an operand for tile k of a double buffer: cur and next swap.
Buf(operand, k) == <<operand, k % 2>>
G2S(w, operand, k, n) == Load(<<Buf(operand, k), w>>, operand, k, n)
S2R(W, operand, k) == Read(<<operand, 0>>, Parts(Buf(operand, k), W))
Product(x, y) == Mma({<<x, 0>>, <<y, 0>>})

-----------------------------------------------------------------------------
(* preshuffle_gemm: A through LDS, B straight to registers. *)

PreshuffleRead(W, stage, bank) ==
  <<Read(<<"A", 0>>, Parts(<<"A", stage>>, W)), Mma({<<"A", 0>>, <<"B", bank>>})>>

\* Mutant: the wave waits for B's loads to be issued, not for A's to land.
PreshuffleStageUnwaited(w, W, async, a, b, read, next) ==
  LET write == 1 - read
      more == next # Nop
  IN When(more /\ async, <<Load(<<<<"A", write>>, w>>, "A", next[1], a), Fetch(<<"B", write>>, next[1], b)>>)
     \o When(more /\ ~async, <<Fetch(<<"A", 2>>, next[1], a), Fetch(<<"B", write>>, next[1], b)>>)
     \o PreshuffleRead(W, read, read)
     \o When(more /\ ~async, <<Write(<<<<"A", write>>, w>>, <<"A", 2>>)>>)
     \o When(more \/ async, Sync)
PreshuffleStage(w, W, async, a, b, read, next) ==
  LET write == 1 - read
      more == next # Nop
  IN When(more /\ async, <<Load(<<<<"A", write>>, w>>, "A", next[1], a), Fetch(<<"B", write>>, next[1], b)>>)
     \o When(more /\ ~async, <<Fetch(<<"A", 2>>, next[1], a), Fetch(<<"B", write>>, next[1], b)>>)
     \o PreshuffleRead(W, read, read)
     \o When(more /\ ~async, <<Write(<<<<"A", write>>, w>>, <<"A", 2>>)>>)
     \o When(more /\ async, <<Wait(b)>>)
     \o When(more \/ async, Sync)

PreshufflePrologue(w, async, a, b) ==
  IF async
  THEN <<Load(<<<<"A", 0>>, w>>, "A", 0, a), Fetch(<<"B", 0>>, 0, b), Wait(b)>> \o Sync
  ELSE <<Fetch(<<"A", 2>>, 0, a), Fetch(<<"B", 0>>, 0, b),
         Write(<<<<"A", 0>>, w>>, <<"A", 2>>)>> \o Sync

\* Two tiles per iteration and a tail of one or two.
PreshuffleTwoStages(w, W, K, async, a, b) ==
  LET tail == IF K % 2 = 1 THEN 1 ELSE 2
      Stage(read, next) == PreshuffleStage(w, W, async, a, b, read, next)
  IN PreshufflePrologue(w, async, a, b)
     \o Loop(0, (K - tail) \div 2 - 1,
             LAMBDA i : Stage(0, <<2 * i + 1>>) \o Stage(1, <<2 * i + 2>>))
     \o Loop(0, tail - 2, LAMBDA j : Stage((K - tail + j) % 2, <<K - tail + j + 1>>))
     \o Stage((K - 1) % 2, Nop)

\* One buffer: a barrier before it is refilled and one after.
PreshuffleOneStage(w, W, K, async, a, b) ==
  PreshufflePrologue(w, async, a, b)
  \o Loop(1, K - 1, LAMBDA k :
       PreshuffleRead(W, 0, 0)
       \o When(~async, <<Fetch(<<"A", 2>>, k, a)>>) \o <<Fetch(<<"B", 0>>, k, b)>>
       \o Sync
       \o (IF async THEN <<Load(<<<<"A", 0>>, w>>, "A", k, a), Wait(b)>>
           ELSE <<Write(<<<<"A", 0>>, w>>, <<"A", 2>>)>>)
       \o Sync)
  \o PreshuffleRead(W, 0, 0)

-----------------------------------------------------------------------------
(* fp8_gemm_4wave and fp4_gemm_4wave: eight buffers, tile k + 2 loaded while  *)
(* tile k is multiplied.                                                      *)

\* s_waitcnt vmcnt(n), s_barrier: nothing waits for the wave's own LDS reads.
WaitBarrier(n) == <<Wait(n)>> \o Barrier

FourWavePrologue(w, a, b) ==
  Loop(0, 1, LAMBDA k : <<G2S(w, "A0", k, a), G2S(w, "B0", k, b),
                          G2S(w, "B1", k, b), G2S(w, "A1", k, a)>>)

\* Where the block is not interleaved, an mfma call ends with a barrier.
Fp8FourWave(w, W, K, a, b, interleaved) ==
  LET Call(x, y) == <<Product(x, y)>> \o Barrier
      Block(load, read, x, y) ==
        <<load, read, Product(x, y)>> \o When(~interleaved, Barrier)
  IN FourWavePrologue(w, a, b)
     \o WaitBarrier(3 * a + 4 * b) \o <<S2R(W, "A0", 0)>>
     \o WaitBarrier(3 * a + 3 * b) \o <<S2R(W, "B0", 0)>>
     \o Loop(0, K - 3, LAMBDA k :
          WaitBarrier(2 * a + 2 * b)
          \o Block(G2S(w, "A0", k + 2, a), S2R(W, "B1", k), "A0", "B0")
          \o Block(G2S(w, "B0", k + 2, b), S2R(W, "A1", k), "A0", "B1")
          \o WaitBarrier(2 * a + 2 * b)
          \o Block(G2S(w, "B1", k + 2, b), S2R(W, "A0", k + 1), "A1", "B0")
          \o Block(G2S(w, "A1", k + 2, a), S2R(W, "B0", k + 1), "A1", "B1"))
     \o WaitBarrier(2 * a + 2 * b)
     \o <<S2R(W, "B1", K - 2)>> \o Call("A0", "B0") \o <<S2R(W, "A1", K - 2)>> \o Call("A0", "B1")
     \o WaitBarrier(a + b)
     \o <<S2R(W, "A0", K - 1)>> \o Call("A1", "B0") \o <<S2R(W, "B0", K - 1)>> \o Call("A1", "B1")
     \o WaitBarrier(0)
     \o <<S2R(W, "B1", K - 1), S2R(W, "A1", K - 1)>>
     \o Call("A0", "B0") \o Call("A0", "B1") \o Call("A1", "B0") \o Call("A1", "B1")

\* fp4: the scales of a tile go through a ring of four slots and are read a step
\* ahead, and B1 with B0.
Fp4FourWave(w, W, K) ==
  LET n == 4
      WaitAll(count) == <<Wait(count)>> \o Sync
      Slot(k) == <<"S", k % 4>>
      Gather(k) == Load(<<Slot(k), w>>, "S", k, 1)
      Scales(k) == Read(<<"S", k % 2>>, Parts(Slot(k), W))
      Take(x, k) == Read(<<x, k % 2>>, Parts(Buf(x, k), W))
      Prod(x, y, k) == Mma({<<x, k % 2>>, <<y, k % 2>>, <<"S", k % 2>>})
      least(x, y) == IF x < y THEN x ELSE y
  IN Loop(0, 2, LAMBDA k : <<Gather(k)>>)
     \o FourWavePrologue(w, n, n)
     \o WaitAll(3 * n + 4 * n) \o <<Take("A0", 0)>>
     \o WaitAll(3 * n + 3 * n) \o <<Take("B0", 0), Take("B1", 0), Scales(0)>>
     \o Loop(0, K - 3, LAMBDA k :
          WaitAll(16)
          \o <<G2S(w, "A0", k + 2, n), Take("A1", k), Scales(k + 1), Prod("A0", "B0", k),
               G2S(w, "B0", k + 2, n), Prod("A0", "B1", k)>>
          \o WaitAll(12)
          \o <<G2S(w, "B1", k + 2, n), Take("A0", k + 1), Gather(least(k + 3, K - 1)),
               Prod("A1", "B0", k),
               G2S(w, "A1", k + 2, n), Take("B0", k + 1), Take("B1", k + 1), Prod("A1", "B1", k)>>)
     \o WaitAll(2 * n + 2 * n)
     \o <<Take("A1", K - 2), Scales(K - 1), Prod("A0", "B0", K - 2), Prod("A0", "B1", K - 2)>>
     \o WaitAll(n)
     \o <<Take("A0", K - 1), Take("B0", K - 1), Take("B1", K - 1),
          Prod("A1", "B0", K - 2), Prod("A1", "B1", K - 2)>>
     \o WaitAll(0)
     \o <<Take("A1", K - 1), Prod("A0", "B0", K - 1), Prod("A0", "B1", K - 1),
          Prod("A1", "B0", K - 1), Prod("A1", "B1", K - 1)>>

-----------------------------------------------------------------------------
(* fp8_gemm_8wave and mxfp8_gemm_8wave: the waves of the second group run one *)
(* barrier behind those of the first, so that one group loads while the other *)
(* multiplies.                                                                *)

FirstGroup(w, W) == 2 * w <= Cardinality(W)

\* product[x, y] is one of halves of A and B.  The mxfp8 kernel adds scale[h, k], what
\* it reads before it reads half h of A, chunk[k], what it copies meanwhile, and waits.
EightWave(w, W, K, a, b, mx, product, scale, chunk) ==
  LET Call(x, y) == <<product[x, y]>> \o Barrier
  IN <<G2S(w, "B0", 0, b), G2S(w, "A0", 0, a), G2S(w, "B1", 0, b), G2S(w, "A1", 0, a)>>
     \o When(~FirstGroup(w, W), Barrier)
     \o WaitBarrier(a + b)
     \o <<G2S(w, "B0", 1, b), G2S(w, "A0", 1, a), G2S(w, "B1", 1, b)>>
     \o WaitBarrier(a + 2 * b)
     \o Loop(0, K - 3, LAMBDA k :
          scale[0, k]
          \o <<S2R(W, "B0", k), S2R(W, "A0", k), G2S(w, "A1", k + 1, a)>>
          \o When(mx, <<Drain>>) \o Barrier \o chunk[k] \o Call("A0", "B0")
          \o <<S2R(W, "B1", k), G2S(w, "B0", k + 2, b)>> \o Barrier \o Call("A0", "B1")
          \o scale[1, k]
          \o <<S2R(W, "A1", k), G2S(w, "A0", k + 2, a)>> \o Barrier \o Call("A1", "B0")
          \o <<G2S(w, "B1", k + 2, b)>> \o WaitBarrier(2 * a + b) \o Call("A1", "B1"))
     \o scale[0, K - 2]
     \o <<S2R(W, "B0", K - 2), S2R(W, "A0", K - 2)>>
     \o When(mx, <<Wait(0)>>) \o Barrier \o Call("A0", "B0")
     \o <<S2R(W, "B1", K - 2)>> \o Barrier \o Call("A0", "B1")
     \o scale[1, K - 2]
     \o <<S2R(W, "A1", K - 2), G2S(w, "A1", K - 1, a)>> \o Barrier \o Call("A1", "B0")
     \o <<S2R(W, "B0", K - 1)>> \o Barrier \o Call("A1", "B1")
     \o scale[0, K - 1]
     \o <<S2R(W, "A0", K - 1)>> \o WaitBarrier(0) \o Call("A0", "B0")
     \o <<S2R(W, "B1", K - 1)>> \o Barrier \o Call("A0", "B1")
     \o scale[1, K - 1]
     \o <<S2R(W, "A1", K - 1)>> \o Barrier
     \o <<product["A1", "B0"], product["A1", "B1"]>>
     \o When(~mx \/ FirstGroup(w, W), Barrier)

Products == [x \in {"A0", "A1"}, y \in {"B0", "B1"} |-> Product(x, y)]

Fp8EightWave(w, W, K, a, b) ==
  EightWave(w, W, K, a, b, FALSE, Products,
            [h \in 0 .. 1, k \in 0 .. K - 1 |-> Nop], [k \in 0 .. K - 1 |-> Nop])

\* Scales that are not preshuffled are staged in chunks of four tiles, in two slots.
MxFp8EightWave(w, W, K, a, b) ==
  LET CHUNK == 4
      chunks == (K + CHUNK - 1) \div CHUNK
      Dma(c) == <<Load(<<<<"S", c % 2>>, w>>, "S", c, 4)>>
      least(x, y) == IF x < y THEN x ELSE y
      Scale(h, k) == <<ReadStep(<<"S", h>>, "S", Parts(<<"S", (k \div CHUNK) % 2>>, W), CHUNK, k % CHUNK)>>
      half == [A0 |-> 0, A1 |-> 1]
      Chunk(k) == When(k % CHUNK = 0 /\ k > 0 /\ k \div CHUNK + 1 < chunks, Dma(k \div CHUNK + 1))
  IN Loop(0, least(2, chunks) - 1, Dma)
     \o EightWave(w, W, K, a, b, TRUE,
                  [x \in {"A0", "A1"}, y \in {"B0", "B1"} |-> Mma({<<x, 0>>, <<y, 0>>, <<"S", half[x]>>})],
                  [h \in 0 .. 1, k \in 0 .. K - 1 |-> Scale(h, k)], [k \in 0 .. K - 1 |-> Chunk(k)])

\* Preshuffled scales are fetched two tiles at a time, six loads of a wave.
MxFp8Preshuffled(w, W, K, a, b) ==
  LET Pair(j) == Fetch(<<"S", j % 2>>, j, 6)
  IN <<Pair(0)>>
     \o EightWave(w, W, K, a, b, TRUE, Products,
                  [h \in 0 .. 1, k \in 0 .. K - 1 |->
                     When(h = 0 /\ k % 2 = 1 /\ k < K - 2, <<Pair((k + 1) \div 2)>>)],
                  [k \in 0 .. K - 1 |-> Nop])

-----------------------------------------------------------------------------
(* gemm_a16w16: a ring of S buffers, the copies of a tile counted as one mark; *)
(* or half tiles, the first group of waves one barrier ahead of the second.    *)

\* What the epilogue stages and reads back: the sum, from the waves V.
PassOn(V, c) == <<Read(<<c, 0>>, Parts(<<c, 0>>, V)), Mma({<<c, 0>>})>>

A16W16Staged(w, W, K, S) ==
  LET Ring(x) == {<<x, i>> : i \in 0 .. S - 1}
      Load1(x, k, n) == Load(<<<<x, k % S>>, w>>, x, k, n)
      Stage(k) == <<Load1("B", k, 1), Load1("A", k, 0)>>
      Take(x, k) == Read(<<x, 0>>, Parts(<<x, k % S>>, W))
      Use(k) == <<Take("B", k), Take("A", k), Product("A", "B")>>
      last == K - (S - 1)
  IN Loop(0, S - 2, Stage)
     \o Loop(0, last - 1, LAMBDA k : WaitBarrier(S - 2) \o Stage(k + S - 1) \o Use(k))
     \o Loop(0, S - 2, LAMBDA s : WaitBarrier(S - 2 - s) \o Use(last + s))
     \o Sync \o <<Spill(<<<<"C", 0>>, w>>, {}, (Ring("A") \cup Ring("B")) \X W)>>
     \o Sync \o PassOn(W, "C")

\* own: a thread stores rows that waves of its own group staged.
A16W16HalfTiles(w, W, K, a, b, split, own) ==
  LET first == FirstGroup(w, W)
      V == IF own THEN {v \in W : FirstGroup(v, W) = first} ELSE W
      Call(x, y) == <<Product(x, y)>> \o Barrier
      \* Tile k; the next one's B0 is read early if k is even.
      Tile2(k) ==
        When(k % 2 = 0, <<S2R(W, "B0", k)>>)
        \o <<S2R(W, "A0", k), G2S(w, "A1", k + 1, a)>> \o Barrier \o Call("A0", "B0")
        \o <<S2R(W, "B1", k), G2S(w, "B0", k + 2, b)>> \o Barrier \o Call("A0", "B1")
        \o <<S2R(W, "A1", k), G2S(w, "A0", k + 2, a)>> \o Barrier \o Call("A1", "B0")
        \o When(k % 2 = 0, <<S2R(W, "B0", k + 1)>>) \o <<G2S(w, "B1", k + 2, b)>>
        \o WaitBarrier(IF k % 2 = 0 THEN a + 2 * b ELSE a + b) \o Call("A1", "B1")
      \* A finished half tile goes over a stage of A or B, which are as large.
      Stage(c, x, y, operand, s) ==
        <<Spill(<<<<c, 0>>, w>>, {{x, y}}, {<<operand \o "0", s>>, <<operand \o "1", s>>} \X W)>>
  IN <<G2S(w, "B0", 0, b), G2S(w, "A0", 0, a), G2S(w, "B1", 0, b), G2S(w, "A1", 0, a)>>
     \o When(~first, Barrier \o <<Wait(0)>>) \o Barrier
     \o <<G2S(w, "B0", 1, b), G2S(w, "A0", 1, a), G2S(w, "B1", 1, b)>> \o WaitBarrier(a + b)
     \o Loop(0, K - 3, Tile2)
     \o When(split, WaitBarrier(0))
     \o <<S2R(W, "B0", K - 2), S2R(W, "A0", K - 2), G2S(w, "A1", K - 1, a)>>
     \o Barrier \o Call("A0", "B0")
     \o <<S2R(W, "B1", K - 2)>> \o Barrier \o Call("A0", "B1")
     \o <<S2R(W, "A1", K - 2)>> \o Barrier \o Call("A1", "B0")
     \o <<S2R(W, "B0", K - 1)>> \o When(~first, <<Wait(a + b)>>) \o Barrier
     \o <<Product("A1", "B1")>> \o WaitBarrier(0)
     \o <<S2R(W, "A0", K - 1)>> \o Barrier \o Call("A0", "B0")
     \o <<S2R(W, "B1", K - 1)>> \o Barrier \o Call("A0", "B1")
     \o <<S2R(W, "A1", K - 1)>> \o Barrier
     \o Stage("C00", "A0", "B0", "A", 0) \o Call("A1", "B0")
     \o Stage("C01", "A0", "B1", "A", 1) \o <<Product("A1", "B1")>>
     \o (IF split
         THEN When(first, Barrier) \o Barrier
              \o Stage("C10", "A1", "B0", "B", 0) \o Stage("C11", "A1", "B1", "B", 1) \o Sync
              \o PassOn(V, "C00") \o PassOn(V, "C01") \o PassOn(V, "C10") \o PassOn(V, "C11")
              \o Sync
         ELSE WaitBarrier(0) \o PassOn(V, "C00") \o PassOn(V, "C01") \o WaitBarrier(0)
              \o Stage("C10", "A1", "B0", "B", 0) \o Stage("C11", "A1", "B1", "B", 1)
              \o WaitBarrier(0) \o PassOn(V, "C10") \o PassOn(V, "C11"))
=============================================================================
