---------------------------- MODULE TdmPipelines ----------------------------
(***************************************************************************)
(* The pipelines of the gfx1250 kernels, one program per wave, for K tiles *)
(* of ks WMMA steps each and nb LDS slots.  The Tensor Data Mover copies a *)
(* tile to LDS for the wave that asked for it, and tensorcnt counts its    *)
(* requests.  A job <<operand, waves>> is a part of a tile and the waves   *)
(* that each ask for a share of it.                                        *)
(***************************************************************************)
EXTENDS WaveOps, FiniteSets

Share(jobs, j, slot, w) == <<<<jobs[j][1], slot>>, 10 * j + w>>
\* All that the jobs fill of a slot for an operand.
Slot(jobs, x, slot) ==
  UNION {{Share(jobs, j, slot, w) : w \in jobs[j][2]} : j \in {i \in DOMAIN jobs : jobs[i][1] = x}}
Inputs(jobs) == {job[1] : job \in Range(jobs)}
Slots(jobs, nb) == UNION {Slot(jobs, x, s) : x \in Inputs(jobs), s \in 0 .. nb - 1}
InTurn(s, P(_)) == FlattenSeq([i \in DOMAIN s |-> P(s[i])])
Least(x, y) == IF x < y THEN x ELSE y

\* Who asks for what: every operand has a wave of its own, or each part of it, or
\* every wave asks for a share of all.
Operands4 == <<"A", "B", "SA", "SB">>
Owned(W, operands) ==
  [j \in DOMAIN operands |-> <<operands[j], {1 + ((j - 1) % Cardinality(W))}>>]
Parted(W, parts) ==
  LET Asked(x, first) ==
        [p \in 1 .. parts |-> <<x, {1 + ((2 * (p - 1) + first) % Cardinality(W))}>>]
  IN Asked("A", 0) \o Asked("B", 1)
Shared(W, operands) == [j \in DOMAIN operands |-> <<operands[j], W>>]

Copies(w, jobs, slot, k) ==
  InTurn([j \in DOMAIN jobs |-> j], LAMBDA j :
    When(w \in jobs[j][2], <<Load(Share(jobs, j, slot, w), jobs[j][1], k, 1)>>))

\* Mutant: one request more may be on its way.
FenceLate(n) == <<Wait(n + 1)>> \o Sync
\* s_wait_tensorcnt(n) and a workgroup barrier.
Fence(n) == <<Wait(n)>> \o Sync

\* The operands of step s of the tile in a slot, into a bank of registers.
Bank(jobs, slot, ks, s, bank) ==
  InTurn(SetToSeq(Inputs(jobs)), LAMBDA x : <<ReadStep(<<x, bank>>, x, Slot(jobs, x, slot), ks, s)>>)
Multiply(jobs, bank) == <<Mma({<<x, bank>> : x \in Inputs(jobs)})>>

\* The accumulators take the place of the slots and are stored from there.
Store(w, W, jobs, nb) ==
  Fence(0) \o <<Spill(<<<<"C", 0>>, w>>, {}, Slots(jobs, nb))>>
  \o Sync \o <<Read(<<"C", 0>>, Parts(<<"C", 0>>, W)), Mma({<<"C", 0>>})>>

-----------------------------------------------------------------------------
(* gemm_bf16, gemm_a8w8, gemm_a8w4 and the prefill form of the MoE kernel:   *)
(* nb - 1 tiles ahead, refilled while the first step is multiplied.          *)

RingTile(w, jobs, nb, ks, k, future) ==
  Bank(jobs, k % nb, ks, 0, 0)
  \o Loop(0, ks - 1, LAMBDA s :
       When(s + 1 < ks, Bank(jobs, k % nb, ks, s + 1, (s + 1) % 2))
       \o When(s = 0 /\ future # Nop, Copies(w, jobs, future[1] % nb, future[1]))
       \o Multiply(jobs, s % 2))

\* The same by blocks of the accumulators: halves of A and B, the next left half
\* of B and the scales read ahead.
QuadTile(w, jobs, nb, ks, k, future, early) ==
  LET slot == k % nb
      Take(x, of, bank, s) == <<ReadStep(<<x, bank>>, of, Slot(jobs, of, slot), ks, s)>>
      scales == Inputs(jobs) \ {"A", "B"}
      Ahead(s) == Take("B0", "B", s % 2, s)
                  \o InTurn(SetToSeq(scales), LAMBDA x : Take(x, x, s % 2, s))
      Block(s, a, b) == <<Mma({<<a, 0>>, <<b, IF b = "B0" THEN s % 2 ELSE 0>>}
                              \cup {<<x, s % 2>> : x \in scales})>>
      refill == When(future # Nop, Copies(w, jobs, future[1] % nb, future[1]))
  IN Ahead(0) \o Loop(0, ks - 1, LAMBDA s :
       Take("A0", "A", 0, s) \o Block(s, "A0", "B0") \o When(s = 0 /\ early, refill)
       \o Take("A1", "A", 0, s) \o Take("B1", "B", 0, s)
       \o Block(s, "A1", "B0") \o When(s = 0 /\ ~early, refill)
       \o When(s + 1 < ks, Ahead(s + 1))
       \o Block(s, "A0", "B1") \o Block(s, "A1", "B1"))

\* The tile that is copied while tile k is multiplied.
Future(k, K, nb) == IF k + nb - 1 < K THEN <<k + nb - 1>> ELSE Nop

\* use[k] multiplies tile k, in it the copies of its future tile; per is the number
\* of requests of a wave that a wait allows for a tile.
Ring(w, W, jobs, per, K, nb, use) ==
  LET steady == K - (nb - 1)
  IN Loop(0, nb - 2, LAMBDA i : Copies(w, jobs, i, i))
     \o Loop(0, steady - 1, LAMBDA k : Fence(per * (nb - 2)) \o use[k])
     \o Loop(0, nb - 2, LAMBDA j : Fence(per * (nb - 2 - j)) \o use[steady + j])
     \o Store(w, W, jobs, nb)

GemmBf16(w, W, parts, K, nb, ks) ==
  LET jobs == Parted(W, parts)
      share == (2 * parts) \div Cardinality(W)
  IN Ring(w, W, jobs, IF share > 1 THEN share ELSE 1, K, nb,
          [k \in 0 .. K - 1 |-> RingTile(w, jobs, nb, ks, k, Future(k, K, nb))])

GemmA8W4(w, W, K, nb, ks) ==
  LET jobs == Owned(W, Operands4)
  IN Ring(w, W, jobs, 1, K, nb,
          [k \in 0 .. K - 1 |-> RingTile(w, jobs, nb, ks, k, Future(k, K, nb))])

\* operands: without block scales only A and B are copied.
GemmA8W8(w, W, operands, K, nb, ks, quadrant, early) ==
  LET jobs == Owned(W, operands)
  IN Ring(w, W, jobs, 1, K, nb,
          [k \in 0 .. K - 1 |->
             IF quadrant THEN QuadTile(w, jobs, nb, ks, k, Future(k, K, nb), early)
             ELSE RingTile(w, jobs, nb, ks, k, Future(k, K, nb))])

MoePrefill(w, W, K, nb, ks) ==
  LET jobs == Shared(W, Operands4)
  IN Ring(w, W, jobs, 4, K, nb,
          [k \in 0 .. K - 1 |-> RingTile(w, jobs, nb, ks, k, Future(k, K, nb))])

\* The decode form: all slots are filled, and one is refilled behind a barrier.
MoeDecode(w, W, K, nb, ks) ==
  LET jobs == Shared(W, Operands4)
      Use(k) == RingTile(w, jobs, nb, ks, k, Nop)
  IN Loop(0, nb - 1, LAMBDA i : Copies(w, jobs, i, i))
     \o Loop(0, K - nb - 1, LAMBDA k :
          Fence(4 * (nb - 1)) \o Use(k) \o Sync \o Copies(w, jobs, k % nb, k + nb))
     \o Loop(0, nb - 1, LAMBDA j : Fence(4 * (nb - 1 - j)) \o Use(K - nb + j))
     \o Store(w, W, jobs, nb)

-----------------------------------------------------------------------------
(* gemm_a4w4: any K.  The slots that K does not reach get its last tile, and  *)
(* before a partial tile is copied its slot is cleared by all waves.          *)

ClearAll(jobs, partial, nb) == When(partial # {}, <<Clear(Slots(jobs, nb))>>) \o Sync

Refill(w, jobs, partial, slot, k) ==
  When(k \in partial, <<Clear(UNION {Slot(jobs, x, slot) : x \in Inputs(jobs)})>> \o Sync)
  \o Copies(w, jobs, slot, k)

PlainTile(w, jobs, partial, nb, ks, slot, future) ==
  Loop(0, ks - 1, LAMBDA s :
    Bank(jobs, slot, ks, s, 0)
    \o When(s = 0 /\ future # Nop, Refill(w, jobs, partial, future[1] % nb, future[1]))
    \o <<Drain>> \o Multiply(jobs, 0))

Plain(w, W, jobs, partial, K, nb, ks) ==
  LET steady == IF K > nb - 1 THEN K - (nb - 1) ELSE 0
      Use(k, future) == PlainTile(w, jobs, partial, nb, ks, k % nb, future)
  IN Loop(0, nb - 2, LAMBDA i : Refill(w, jobs, partial, i, Least(i, K - 1)))
     \o Loop(0, steady - 1, LAMBDA k : Fence(nb - 2) \o Use(k, <<k + nb - 1>>))
     \o Loop(0, nb - 2, LAMBDA j :
          When(steady + j < K, Fence(nb - 2 - j) \o Use(steady + j, Nop)))

\* Bank 0 holds the tile's first step already.  With the last step the slot is
\* released, refilled, and the next tile's first step read.
RunTile(w, jobs, partial, ks, slot, next, refill, outstanding) ==
  Loop(0, ks - 1, LAMBDA s :
    (IF s + 1 < ks THEN Bank(jobs, slot, ks, s + 1, (s + 1) % 2)
     ELSE When(next # Nop,
               <<Drain>> \o Fence(outstanding)
               \o When(refill # Nop, Refill(w, jobs, partial, slot, refill[1]))
               \o Bank(jobs, next[1], ks, 0, 0)))
    \o Multiply(jobs, s % 2))

Pipelined(w, W, jobs, partial, K, nb, ks) ==
  LET steady == IF K > nb THEN K - nb ELSE 0
  IN Loop(0, nb - 1, LAMBDA i : Refill(w, jobs, partial, i, Least(i, K - 1)))
     \o Fence(nb - 1) \o Bank(jobs, 0, ks, 0, 0)
     \o Loop(0, steady - 1, LAMBDA k :
          RunTile(w, jobs, partial, ks, k % nb, <<(k + 1) % nb>>, <<k + nb>>, nb - 2))
     \o Loop(0, nb - 1, LAMBDA j :
          When(steady + j < K,
               RunTile(w, jobs, partial, ks, (steady + j) % nb,
                       When(j < nb - 1, <<(steady + j + 1) % nb>>), Nop, nb - 2 - j)))

GemmA4W4(w, W, operands, partial, K, nb, ks) ==
  LET jobs == Owned(W, operands)
  IN ClearAll(jobs, partial, nb)
     \o (IF ks % 2 = 0 THEN Pipelined(w, W, jobs, partial, K, nb, ks)
         ELSE Plain(w, W, jobs, partial, K, nb, ks))
     \o Store(w, W, jobs, nb)

-----------------------------------------------------------------------------
(* The scheduled 256x256 kernels.  A stage multiplies a K tile in four     *)
(* quadrants: the first halves A0, B0 of the operands were read by the     *)
(* stage before (the seeds), the second halves A1, B1 are read during the  *)
(* first two quadrants.  Then the wave signals that it has read its slot,  *)
(* and a little later waits for the others and refills it.  Even and odd   *)
(* waves go through the quadrants in different orders.                     *)

Halves == [A |-> <<"A0", "A1">>, B |-> <<"B0", "B1">>]
Quad(a, b) == <<Mma({a, b})>>
\* A half (0 or 1) of an operand, of the tile that stage g takes: kp tiles lie side
\* by side in a slot.
Take(jobs, kp, g, x, half, bank) ==
  <<ReadStep(<<Halves[x][half + 1], bank>>, x, Slot(jobs, x, g \div kp), kp, g % kp)>>
Seed(jobs, kp, g, x) == Take(jobs, kp, g, x, 0, g % 2)
SeedAll(jobs, kp, g) == Seed(jobs, kp, g, "A") \o Seed(jobs, kp, g, "B")
SignalRead(outstanding) == <<Drain, Wait(outstanding), Signal>>

-----------------------------------------------------------------------------
(* gemm_a4w4_256x256 *)

A4W4Stage(w, jobs, nb, g, future, outstanding, more, even) ==
  LET bank == g % 2
      a(h) == <<Halves.A[h + 1], IF h = 0 THEN bank ELSE 0>>
      b(h) == <<Halves.B[h + 1], IF h = 0 THEN bank ELSE 0>>
      first == IF even THEN "B" ELSE "A"
      second == IF even THEN "A" ELSE "B"
      Ahead(x) == When(more, Seed(jobs, 1, (g + 1) % nb, x))
  IN Quad(a(0), b(0)) \o Take(jobs, 1, g, first, 1, 0)
     \o (IF even THEN Quad(a(0), b(1)) ELSE Quad(a(1), b(0))) \o Take(jobs, 1, g, second, 1, 0)
     \o <<Drain>> \o When(more, SignalRead(outstanding))
     \o (IF even THEN Quad(a(1), b(0)) ELSE Quad(a(0), b(1)))
     \o When(more, <<Await>> \o When(future # Nop, Copies(w, jobs, g, future[1])))
     \o Ahead(second) \o Quad(a(1), b(1)) \o Ahead(first)

-----------------------------------------------------------------------------
(* gemm_a8w4_256x256: a slot is signalled and refilled once per kp stages.    *)

A8W4Even(w, jobs, nb, kp, phase, g, future) ==
  LET bank == g % 2
      boundary == g % kp = kp - 1
      next == (g + 1) % (kp * nb)
      Refilled(p) == When(boundary /\ phase = p, Copies(w, jobs, g \div kp, future))
  IN Quad(<<"A0", bank>>, <<"B0", bank>>) \o Take(jobs, kp, g, "B", 1, 0)
     \o Quad(<<"A0", bank>>, <<"B1", 0>>) \o Take(jobs, kp, g, "A", 1, 0)
     \o When(boundary, SignalRead(nb - 2)) \o When(boundary, <<Await>>)
     \o Refilled(0) \o Quad(<<"A1", 0>>, <<"B0", bank>>) \o Refilled(1) \o Seed(jobs, kp, next, "A")
     \o Quad(<<"A1", 0>>, <<"B1", 0>>) \o Seed(jobs, kp, next, "B")

A8W4Odd(w, jobs, nb, kp, g, future) ==
  LET bank == g % 2
      boundary == g % kp = kp - 1
      next == (g + 1) % (kp * nb)
  IN Quad(<<"A0", bank>>, <<"B0", bank>>) \o Take(jobs, kp, g, "A", 1, 0)
     \o Quad(<<"A1", 0>>, <<"B0", bank>>) \o Take(jobs, kp, g, "B", 1, 0)
     \o When(boundary, SignalRead(nb - 2)) \o When(boundary, <<Await>>)
     \o Quad(<<"A0", bank>>, <<"B1", 0>>) \o Seed(jobs, kp, next, "B")
     \o When(boundary, Copies(w, jobs, g \div kp, future))
     \o Quad(<<"A1", 0>>, <<"B1", 0>>) \o Seed(jobs, kp, next, "A")

A8W4Drain(jobs, nb, kp, g, outstanding, more) ==
  LET bank == g % 2
      boundary == g % kp = kp - 1
  IN Quad(<<"A0", bank>>, <<"B0", bank>>)
     \o Take(jobs, kp, g, "A", 1, 0) \o Take(jobs, kp, g, "B", 1, 0)
     \o Quad(<<"A1", 0>>, <<"B0", bank>>)
     \o (IF more /\ boundary THEN SignalRead(outstanding) \o <<Await>> ELSE <<Drain>>)
     \o When(more, SeedAll(jobs, kp, (g + 1) % (kp * nb)))
     \o Quad(<<"A0", bank>>, <<"B1", 0>>) \o Quad(<<"A1", 0>>, <<"B1", 0>>)

-----------------------------------------------------------------------------
(* gemm_a8w8_256x256: one bank of seeds, so the next stage's take the place of *)
(* each fragment right after its last product.  Two fragments to a half here.  *)

RowsOf == [A |-> <<"A0", "A1", "A2", "A3">>, B |-> <<"B0", "B1", "B2", "B3">>]
Frag(x, half, i) == <<RowsOf[x][2 * half + i + 1], 0>>
TakeFrag(jobs, kp, g, x, half, i) ==
  <<ReadStep(Frag(x, half, i), x, Slot(jobs, x, g \div kp), kp, g % kp)>>

\* The products of two halves, with produce[n] after the n-th.
Quadrant(ha, hb, fast, produce) ==
  Loop(0, 3, LAMBDA n :
    LET i == IF fast THEN n \div 2 ELSE n % 2
        j == IF fast THEN n % 2 ELSE n \div 2
    IN <<Mma({Frag("A", ha, i), Frag("B", hb, j)})>> \o produce[n + 1])

A8W8Stage(w, jobs, nb, kp, g, future, outstanding, more, even) ==
  LET boundary == more /\ g % kp = kp - 1
      next == (g + 1) % (kp * nb)
      Second(x) == <<TakeFrag(jobs, kp, g, x, 1, 0), TakeFrag(jobs, kp, g, x, 1, 1), Nop, Nop>>
      Ahead(x, i) == When(more, TakeFrag(jobs, kp, next, x, 0, i))
      refill == When(boundary, <<Await>> \o When(future # Nop, Copies(w, jobs, g \div kp, future[1])))
      early == IF even THEN "A" ELSE "B"
      late == IF even THEN "B" ELSE "A"
      third == <<refill, Ahead(early, 0), Ahead(early, 1), Nop>>
      fourth == <<Nop, Nop, Ahead(late, 0), Ahead(late, 1)>>
      ready == <<Drain>> \o When(boundary, <<Wait(outstanding), Signal>>)
  IN IF even
     THEN Quadrant(0, 0, FALSE, Second("B")) \o Quadrant(0, 1, TRUE, Second("A"))
          \o ready \o Quadrant(1, 1, TRUE, third) \o Quadrant(1, 0, TRUE, fourth)
     ELSE Quadrant(0, 0, TRUE, Second("A")) \o Quadrant(1, 0, FALSE, Second("B"))
          \o ready \o Quadrant(1, 1, FALSE, third) \o Quadrant(0, 1, FALSE, fourth)

-----------------------------------------------------------------------------
\* All slots in flight; full revolutions, then the rest of the slots.  In the
\* revolutions a slot past the end gets the last tile again.  sync is how many
\* revolutions pass between two barriers of the cluster.  steady[g, k] is stage g of a
\* revolution with the copies of super tile k, draining[g] a stage of the rest.
Revolve(w, W, jobs, K, nb, kp, sync, seeds, steady, draining) ==
  LET supers == K \div kp
      full == (supers + nb - 1) \div nb - 1
      rest == supers - full * nb
  IN Loop(0, nb - 1, LAMBDA i : Copies(w, jobs, i, Least(i, supers - 1)))
     \o Fence(nb - 1) \o seeds
     \o Loop(0, full - 1, LAMBDA rev :
          Loop(0, kp * nb - 1, LAMBDA g :
            steady[g, Least((rev + 1) * nb + g \div kp, supers - 1)])
          \o When(rev % sync = sync - 1, Sync))
     \o Loop(0, kp * nb - 1, LAMBDA g :
          When(g < rest * kp, draining[g]))
     \o <<Drain>> \o Store(w, W, jobs, nb)

A4W4Any(w, W, jobs, K, nb, sync, even) ==
  Revolve(w, W, jobs, K, nb, 1, sync, SeedAll(jobs, 1, 0),
    [g \in 0 .. nb - 1, k \in 0 .. K - 1 |-> A4W4Stage(w, jobs, nb, g, <<k>>, nb - 2, TRUE, even)],
    [g \in 0 .. nb - 1 |-> A4W4Stage(w, jobs, nb, g, Nop, nb - 2 - g, g < nb - 1, even)])

\* K is known to leave a tail of 0 or 2 tiles.
A4W4Tail(w, W, jobs, K, nb, sync, tail, even) ==
  LET full == (K - nb) \div nb
      Steady(g, future) == A4W4Stage(w, jobs, nb, g, <<future>>, nb - 2, TRUE, even)
  IN Loop(0, nb - 1, LAMBDA i : Copies(w, jobs, i, i))
     \o Fence(nb - 1) \o SeedAll(jobs, 1, 0)
     \o Loop(0, full - 1, LAMBDA rev :
          Loop(0, nb - 1, LAMBDA g : Steady(g, (rev + 1) * nb + g)) \o When(rev % sync = sync - 1, Sync))
     \o Loop(0, tail - 1, LAMBDA g : Steady(g, full * nb + g + nb))
     \o Loop(0, nb - 1, LAMBDA j :
          A4W4Stage(w, jobs, nb, (tail + j) % nb, Nop, nb - 2 - j, j < nb - 1, even))
     \o <<Drain>> \o Store(w, W, jobs, nb)

A8W4(w, W, jobs, K, nb, kp, sync, even, phase) ==
  Revolve(w, W, jobs, K, nb, kp, sync, SeedAll(jobs, kp, 0) \o <<Drain>>,
    [g \in 0 .. kp * nb - 1, k \in 0 .. K \div kp - 1 |->
       IF even THEN A8W4Even(w, jobs, nb, kp, phase, g, k) ELSE A8W4Odd(w, jobs, nb, kp, g, k)],
    [g \in 0 .. kp * nb - 1 |-> A8W4Drain(jobs, nb, kp, g, nb - 2 - g \div kp, g < kp * nb - 1)])

A8W8(w, W, jobs, K, nb, kp, sync, even) ==
  Revolve(w, W, jobs, K, nb, kp, sync,
    Loop(0, 1, LAMBDA i : TakeFrag(jobs, kp, 0, "A", 0, i))
    \o Loop(0, 1, LAMBDA i : TakeFrag(jobs, kp, 0, "B", 0, i)),
    [g \in 0 .. kp * nb - 1, k \in 0 .. K \div kp - 1 |->
       A8W8Stage(w, jobs, nb, kp, g, <<k>>, nb - 2, TRUE, even)],
    [g \in 0 .. kp * nb - 1 |->
       A8W8Stage(w, jobs, nb, kp, g, Nop, nb - 2 - g \div kp, g < kp * nb - 1, TRUE)])

\* The smaller profiles: fill the slots, use them, meet.
Groups(w, W, jobs, K, nb, kp) ==
  LET supers == K \div kp
  IN Loop(0, (supers + nb - 1) \div nb - 1, LAMBDA group :
       LET used == Least(nb, supers - group * nb)
       IN Loop(0, used - 1, LAMBDA s : Copies(w, jobs, s, group * nb + s)) \o Fence(0)
          \o Loop(0, used * kp - 1, LAMBDA g :
               Bank(jobs, g \div kp, kp, g % kp, 0) \o <<Drain>> \o Multiply(jobs, 0))
          \o Sync)
     \o <<Drain>> \o Store(w, W, jobs, nb)
=============================================================================
