----------------------- MODULE AllReduceBlock_proofs -----------------------
(***************************************************************************)
(* Theorems about AllReduceBlock: the sums a block stores are whole, and   *)
(* they are stored when it signals its end.                                *)
(***************************************************************************)
EXTENDS AllReduceBlock, Integers, TLAPS

-----------------------------------------------------------------------------
(* The inductive invariant.                                                *)

\* Iterations with a second barrier.
Double == SingleBuffer \/ kernel = "write"

Turns(n) == IF Double THEN 2 * n ELSE n

\* The barriers a wave has come through, told by its iterations and its place.
\* Where it leaves the loop for good without one counts none.
Through(r, w) ==
  LET t == trip[r][w] IN
  CASE pc[r][w] = "loadbar" -> Turns(t) - Turns(1)
    [] pc[r][w] \in {"reduce", "reducebar"} -> Turns(t) - Turns(1) + 1
    [] pc[r][w] \in {"signal", "wait", "syncbar"} -> Turns(t) + 1
    [] pc[r][w] = "gather" -> Turns(t) + 2
    [] pc[r][w] = "done" -> IF kernel = "onestage" THEN Turns(t) ELSE Turns(t) + 2
    [] OTHER -> Turns(t)

Past == {"endbar", "signal", "wait", "syncbar", "gather", "done"}

PcValues == AtBarrier \cup {"loop", "reduce", "put", "signal", "wait", "gather", "done"}

Typed ==
  /\ kernel \in Kernels /\ packs \in Nat \ {0} /\ block \in Nat
  /\ pc \in [Rank -> [Wave -> PcValues]]
  /\ trip \in [Rank -> [Wave -> Nat]]
  /\ lds \in [Rank -> [0..1 -> [Wave -> SUBSET (Warp \X Pack)]]]
  /\ res \in [Rank -> [0..(Waves - 1) -> SUBSET (Warp \X Pack)]]
  /\ stored \in [Rank -> [Warp -> [Pack -> SUBSET (Warp \X Pack)]]]
  /\ gathered \in [Rank -> [Warp -> [Pack -> SUBSET (Warp \X Pack)]]]
  /\ ended \subseteq Rank

\* Which kernels have which places.
Placed ==
  \A r \in Rank, w \in Wave :
    /\ pc[r][w] = "put" => kernel = "write"
    /\ pc[r][w] = "reducebar" => Double
    /\ pc[r][w] = "gather" => kernel = "twostage"
    /\ pc[r][w] \in Past \ {"done"} => kernel # "onestage"
    /\ pc[r][w] \in {"loadbar", "reduce", "reducebar", "put"} => trip[r][w] > 0

\* The iterations of a wave have a pack each, and it leaves when there is none.
Travelled ==
  \A r \in Rank, w \in Wave :
    /\ \A j \in 0..(trip[r][w] - 1) : PackAt(w, j) < packs
    /\ pc[r][w] \in Past => PackAt(w, trip[r][w]) >= packs

\* The waves that still run have come through the same barriers.
Level ==
  \A r \in Rank, u, w \in Wave : pc[r][u] # "done" => Through(r, w) <= Through(r, u)

\* A wave's last pack is in LDS; with two halves the one before is, too.
Loaded ==
  \A r \in Rank, w \in Wave : \A j \in 0..(trip[r][w] - 1) :
    trip[r][w] - j <= (IF Double THEN 1 ELSE 2) =>
      lds[r][Half(j)][w] = {<<w[1], PackAt(w, j)>>}

\* A wave has summed the packs of iteration j.
HasSummed(r, w, j) ==
  \/ j + 1 < trip[r][w]
  \/ j + 1 = trip[r][w] /\ pc[r][w] \notin {"loadbar", "reduce"}

\* The result area has the sum of the last iteration the first warp has summed.
Filled ==
  \A r \in Rank, v \in 0..(Waves - 1) : \A j \in 0..(trip[r][<<0, v>>] - 1) :
    kernel = "write" /\ HasSummed(r, <<0, v>>, j) /\ ~ HasSummed(r, <<0, v>>, j + 1)
      => res[r][v] = Whole(PackAt(<<0, v>>, j))

\* A wave has stored the sum of iteration j.
HasStored(r, w, j) ==
  HasSummed(r, w, j) /\ (kernel = "write" =>
    ~ (j + 1 = trip[r][w] /\ pc[r][w] \in {"reducebar", "put"}))

Kept ==
  \A r \in Rank, w \in Wave : \A j \in 0..(trip[r][w] - 1) :
    (w[1] = 0 \/ kernel = "write") /\ HasStored(r, w, j) =>
      stored[r][w[1]][PackAt(w, j)] = Whole(PackAt(w, j))

\* When the block has signalled, all its waves are out of the loop.
OutOfLoop == \A r \in ended, w \in Wave : pc[r][w] \in Past

Inv ==
  /\ Typed /\ Placed /\ Travelled /\ Level /\ Loaded /\ Filled
  /\ Summed /\ Kept /\ OutOfLoop

Control == Typed /\ Placed /\ Travelled /\ Level /\ OutOfLoop

Data == Loaded /\ Filled /\ Summed /\ Kept

-----------------------------------------------------------------------------
(* Waves, packs and barriers.                                              *)

LEMMA WaveFacts ==
  ASSUME NEW w \in Wave
  PROVE  w = <<w[1], w[2]>> /\ w[1] \in Warp /\ w[2] \in 0..(Waves - 1)
BY DEF Wave

LEMMA FirstIsWave == First \in Wave /\ 0 \in Rank /\ 0 \in Warp
BY ConstantsAssumption DEF First, Wave, Warp, Rank

LEMMA AWave == ASSUME NEW u \in Warp, NEW v \in 0..(Waves - 1) PROVE <<u, v>> \in Wave
BY DEF Wave

LEMMA Division ==
  ASSUME NEW m \in Nat, NEW d \in Nat \ {0}
  PROVE  m \div d \in Nat /\ (m >= d => m \div d # 0)
OBVIOUS

LEMMA GridPositive == Typed => Grid(packs) \in Nat \ {0}
<1> SUFFICES ASSUME Typed PROVE Grid(packs) \in Nat \ {0}
  OBVIOUS
<1>1. packs \in Nat \ {0} /\ Waves \in Nat \ {0} /\ MaxBlocks \in Nat \ {0}
  BY ConstantsAssumption DEF Typed
<1>2. packs + Waves - 1 \in Nat /\ packs + Waves - 1 >= Waves
  BY <1>1
<1>3. CeilDiv(packs, Waves) \in Nat \ {0}
  BY <1>1, <1>2, Division DEF CeilDiv
<1> QED
  BY <1>1, <1>3 DEF Grid

LEMMA Products ==
  ASSUME NEW a \in Nat, NEW d \in Nat, NEW m \in Nat
  PROVE  /\ a * m \in Nat /\ (a + d) * m = a * m + d * m /\ a * m <= (a + d) * m
         /\ m # 0 => a <= a * m
OBVIOUS

\* A later iteration has a pack further on, and iteration k pack k at least.
LEMMA Further ==
  ASSUME Typed, NEW w \in Wave, NEW j \in Nat, NEW k \in Nat, j <= k
  PROVE  PackAt(w, k) \in Nat /\ k <= PackAt(w, k) /\ PackAt(w, j) <= PackAt(w, k)
<1> DEFINE g == Grid(packs)
<1>1. g \in Nat \ {0} /\ Waves \in Nat \ {0} /\ block \in Nat /\ w[2] \in Nat
  BY GridPositive, ConstantsAssumption, WaveFacts DEF Typed
<1> HIDE DEF g
<1>2. k - j \in Nat /\ k = j + (k - j)
  OBVIOUS
<1>3. j * g \in Nat /\ k * g \in Nat /\ j * g <= k * g /\ k <= k * g
  BY <1>1, <1>2, Products
<1> DEFINE a == j * g + block
           d == k * g - j * g
<1>4. a \in Nat /\ d \in Nat /\ a + d = k * g + block
  BY <1>1, <1>3
<1> HIDE DEF a, d
<1>5. /\ a * Waves \in Nat /\ (a + d) * Waves \in Nat /\ a * Waves <= (a + d) * Waves
      /\ a + d <= (a + d) * Waves
  BY <1>1, <1>4, Products
<1>6. PackAt(w, j) = a * Waves + w[2] /\ PackAt(w, k) = (a + d) * Waves + w[2]
  BY <1>4 DEF PackAt, a, g
<1> QED
  BY <1>1, <1>3, <1>4, <1>5, <1>6

\* The first wave of a warp has the first pack.
LEMMA FirstLeads ==
  ASSUME Typed, NEW w \in Wave, NEW k \in Nat
  PROVE  PackAt(First, k) <= PackAt(w, k)
<1>1. (k * Grid(packs) + block) * Waves \in Nat
  <2>1. Grid(packs) \in Nat /\ block \in Nat /\ Waves \in Nat
    BY GridPositive, ConstantsAssumption DEF Typed
  <2>2. k * Grid(packs) \in Nat
    BY <2>1, Products
  <2>3. k * Grid(packs) + block \in Nat
    BY <2>1, <2>2
  <2> QED
    BY <2>1, <2>3, Products
<1>2. w[2] \in Nat /\ First[2] = 0
  BY WaveFacts, ConstantsAssumption DEF First
<1> QED
  BY <1>1, <1>2 DEF PackAt

LEMMA SamePack ==
  ASSUME NEW w, NEW x, w[2] = x[2], NEW k PROVE PackAt(w, k) = PackAt(x, k)
BY DEF PackAt

LEMMA Turning ==
  ASSUME NEW n \in Nat
  PROVE  /\ Double => Turns(n) = 2 * n /\ Turns(1) = 2
         /\ ~Double => Turns(n) = n /\ Turns(1) = 1
BY DEF Turns

LEMMA Halves ==
  ASSUME NEW k \in Nat
  PROVE  Half(k) \in 0..1 /\ (~Double => Half(k) # Half(k + 1))
BY DEF Half, Double

-----------------------------------------------------------------------------
(* What a step of one wave leaves alone.                                   *)

LEMMA CallKept ==
  ASSUME UNCHANGED call
  PROVE  /\ kernel' = kernel /\ packs' = packs /\ block' = block
         /\ Double' = Double /\ Pack' = Pack
         /\ \A w, k : PackAt(w, k)' = PackAt(w, k)
         /\ \A k : Half(k)' = Half(k) /\ Turns(k)' = Turns(k)
BY DEF call, Double, Pack, PackAt, Half, Turns, SingleBuffer, Grid

\* Wave w of rank r goes on to another place, and begins n iterations.
Goes(r, w, to, n) ==
  pc' = [pc EXCEPT ![r][w] = to] /\ trip' = [trip EXCEPT ![r][w] = n] /\ UNCHANGED call

LEMMA Elsewhere ==
  ASSUME Typed, NEW r \in Rank, NEW w \in Wave, NEW to \in PcValues, NEW n \in Nat,
         Goes(r, w, to, n)
  PROVE  /\ pc'[r][w] = to /\ trip'[r][w] = n
         /\ pc' \in [Rank -> [Wave -> PcValues]] /\ trip' \in [Rank -> [Wave -> Nat]]
         /\ \A q \in Rank, x \in Wave : q # r \/ x # w =>
              pc'[q][x] = pc[q][x] /\ trip'[q][x] = trip[q][x]
BY DEF Typed, Goes

LEMMA SameTrip ==
  ASSUME Typed, NEW r \in Rank, NEW w \in Wave, NEW to, NEW from, Goto(r, w, from, to),
         UNCHANGED <<call, trip>>
  PROVE  Goes(r, w, to, trip[r][w]) /\ pc[r][w] = from
<1>1. trip = [trip EXCEPT ![r][w] = trip[r][w]]
  BY DEF Typed
<1> QED
  BY <1>1 DEF Goto, Goes

LEMMA ThroughKept ==
  ASSUME UNCHANGED call, NEW q, NEW x, pc'[q][x] = pc[q][x], trip'[q][x] = trip[q][x]
  PROVE  Through(q, x)' = Through(q, x)
BY CallKept DEF Through

\* A wave that goes on without a barrier keeps the waves level.
LEMMA StillLevel ==
  ASSUME Control, NEW r \in Rank, NEW w \in Wave, NEW to \in PcValues, NEW n \in Nat,
         Goes(r, w, to, n), pc[r][w] # "done", Through(r, w)' = Through(r, w)
  PROVE  Level'
<1>1. UNCHANGED call
  BY DEF Goes
<1>2. \A q \in Rank, x \in Wave : Through(q, x)' = Through(q, x)
  BY <1>1, Elsewhere, ThroughKept DEF Control
<1>3. \A q \in Rank, x \in Wave : pc'[q][x] # "done" => pc[q][x] # "done"
  BY Elsewhere DEF Control
<1> QED
  BY <1>2, <1>3 DEF Control, Level

\* Places and iterations, when one wave goes on.
LEMMA StillPlaced ==
  ASSUME Control, NEW r \in Rank, NEW w \in Wave, NEW to \in PcValues, NEW n \in Nat,
         Goes(r, w, to, n),
         /\ to = "put" => kernel = "write"
         /\ to = "reducebar" => Double
         /\ to = "gather" => kernel = "twostage"
         /\ to \in Past \ {"done"} => kernel # "onestage"
         /\ to \in {"loadbar", "reduce", "reducebar", "put"} => n > 0,
         \A j \in 0..(n - 1) : PackAt(w, j) < packs,
         to \in Past => PackAt(w, n) >= packs,
         to \in Past \/ pc[r][w] \notin Past,
         \/ UNCHANGED ended
         \/ ended' = ended \cup {r} /\ \A x \in Wave : pc'[r][x] \in Past
  PROVE  Placed' /\ Travelled' /\ OutOfLoop'
<1>1. UNCHANGED call
  BY DEF Goes
<1>0. /\ pc'[r][w] = to /\ trip'[r][w] = n
      /\ \A q \in Rank, x \in Wave : q # r \/ x # w =>
           pc'[q][x] = pc[q][x] /\ trip'[q][x] = trip[q][x]
  BY Elsewhere DEF Control
<1>2. Placed'
  BY <1>0, <1>1, CallKept DEF Control, Placed
<1>3. Travelled'
  <2>1. \A q \in Rank, x \in Wave : q # r \/ x # w =>
          /\ \A j \in 0..(trip'[q][x] - 1) : PackAt(x, j) < packs
          /\ pc'[q][x] \in Past => PackAt(x, trip'[q][x]) >= packs
    BY <1>0 DEF Control, Travelled
  <2>2. \A q \in Rank, x \in Wave :
          /\ \A j \in 0..(trip'[q][x] - 1) : PackAt(x, j) < packs
          /\ pc'[q][x] \in Past => PackAt(x, trip'[q][x]) >= packs
    BY <2>1, <1>0
  <2> QED
    BY <1>1, <2>2, CallKept DEF Travelled
<1>4. OutOfLoop'
  <2>1. \A q \in ended, x \in Wave : pc'[q][x] \in Past
    BY <1>0 DEF Control, OutOfLoop, Typed
  <2> QED
    BY <2>1 DEF OutOfLoop
<1> QED
  BY <1>2, <1>3, <1>4

-----------------------------------------------------------------------------
(* Where the waves of a block can be.                                      *)

\* A wave that is out of the loop has made the iterations any other makes for the
\* same packs.
LEMMA OutHasMade ==
  ASSUME Control, NEW r \in Rank, NEW w \in Wave, NEW x \in Wave, NEW k \in Nat,
         pc[r][x] \in Past, k < trip[r][w], PackAt(w, k) = PackAt(x, k)
  PROVE  k < trip[r][x]
<1> SUFFICES ASSUME trip[r][x] <= k PROVE FALSE
  BY DEF Control, Typed
<1>1. trip[r][x] \in Nat /\ trip[r][w] \in Nat
  BY DEF Control, Typed
<1>2. PackAt(x, trip[r][x]) >= packs
  BY DEF Control, Travelled
<1>3. PackAt(w, k) < packs
  BY <1>1 DEF Control, Travelled
<1>4. PackAt(x, trip[r][x]) <= PackAt(x, k)
  BY <1>1, Further DEF Control
<1>5. PackAt(x, trip[r][x]) \in Nat /\ PackAt(x, k) \in Nat /\ packs \in Nat
  BY <1>1, Further DEF Control, Typed
<1> QED
  BY <1>2, <1>3, <1>4, <1>5

\* While one of the waves that share a pack sums it, it is the last or last but one
\* each of the others has loaded.
LEMMA MatesLoaded ==
  ASSUME Control, NEW r \in Rank, NEW w \in Wave, NEW x \in Wave, x[2] = w[2],
         pc[r][w] = "reduce"
  PROVE  /\ trip[r][w] - 1 \in 0..(trip[r][x] - 1)
         /\ trip[r][x] - (trip[r][w] - 1) <= (IF Double THEN 1 ELSE 2)
<1> DEFINE k == trip[r][w] - 1
           t == trip[r][x]
<1>1. k \in Nat /\ t \in Nat /\ trip[r][w] = k + 1 /\ pc[r][x] \in PcValues
  BY DEF Control, Placed, Typed
<1>2. PackAt(w, k) = PackAt(x, k)
  BY SamePack
<1>3. pc[r][x] \in Past => k < t
  BY <1>1, <1>2, OutHasMade
<1>4. /\ pc[r][x] # "done" => Through(r, w) = Through(r, x)
      /\ pc[r][x] = "done" => Through(r, x) <= Through(r, w)
  <2>1. Through(r, w) <= Through(r, x) \/ pc[r][x] = "done"
    BY DEF Control, Level
  <2>2. Through(r, x) <= Through(r, w)
    BY DEF Control, Level
  <2>3. Through(r, x) \in Int /\ Through(r, w) \in Int
    BY <1>1 DEF Through, Turns
  <2> QED
    BY <2>1, <2>2, <2>3
<1>5. Through(r, w) = Turns(k + 1) - Turns(1) + 1
  BY <1>1 DEF Through
<1>6. /\ pc[r][x] = "put" => kernel = "write"
      /\ pc[r][x] = "reducebar" => Double
      /\ pc[r][x] = "gather" => kernel = "twostage"
  BY DEF Control, Placed
<1>7. k < t /\ t - k <= (IF Double THEN 1 ELSE 2)
  <2>1. CASE Double
    <3>1. Through(r, w) = 2 * k + 1
      BY <2>1, <1>1, <1>5, Turning
    <3>2. Turns(t) = 2 * t /\ Turns(1) = 2
      BY <2>1, <1>1, Turning
    <3> HIDE DEF k, t
    <3> QED
      BY <2>1, <3>1, <3>2, <1>1, <1>3, <1>4 DEF Through, PcValues, AtBarrier, Past, t
  <2>2. CASE ~Double
    <3>1. Through(r, w) = k + 1
      BY <2>2, <1>1, <1>5, Turning
    <3>2. Turns(t) = t /\ Turns(1) = 1
      BY <2>2, <1>1, Turning
    <3>3. kernel # "write"
      BY <2>2 DEF Double
    <3> HIDE DEF k, t
    <3> QED
      BY <2>2, <3>1, <3>2, <3>3, <1>1, <1>3, <1>4, <1>6
      DEF Through, PcValues, AtBarrier, Past, t
  <2> QED
    BY <2>1, <2>2
<1> QED
  BY <1>1, <1>7
LEMMA LevelPairs ==
  ASSUME Control, NEW r \in Rank, NEW w \in Wave, NEW x \in Wave, pc[r][w] # "done"
  PROVE  /\ pc[r][x] # "done" => Through(r, x) = Through(r, w)
         /\ pc[r][x] = "done" => Through(r, x) <= Through(r, w)
         /\ Through(r, w) \in Int /\ Through(r, x) \in Int
<1>1. trip[r][w] \in Nat /\ trip[r][x] \in Nat
  BY DEF Control, Typed
<1>2. Through(r, w) \in Int /\ Through(r, x) \in Int
  BY <1>1 DEF Through, Turns
<1>3. /\ Through(r, x) <= Through(r, w)
      /\ pc[r][x] # "done" => Through(r, w) <= Through(r, x)
  BY DEF Control, Level
<1> QED
  BY <1>2, <1>3

\* While a wave stores the result of an iteration, the first warp has summed it and
\* not the next.
LEMMA ResultThere ==
  ASSUME Control, NEW r \in Rank, NEW w \in Wave, NEW x \in Wave, x[2] = w[2],
         pc[r][w] = "put"
  PROVE  /\ trip[r][w] - 1 \in 0..(trip[r][x] - 1)
         /\ HasSummed(r, x, trip[r][w] - 1) /\ ~ HasSummed(r, x, trip[r][w])
<1> DEFINE k == trip[r][w] - 1
           t == trip[r][x]
<1>1. k \in Nat /\ t \in Nat /\ trip[r][w] = k + 1 /\ pc[r][x] \in PcValues
  BY DEF Control, Placed, Typed
<1>2. kernel = "write" /\ Double
  BY DEF Control, Placed, Double
<1>3. pc[r][x] \in Past => k < t
  BY <1>1, SamePack, OutHasMade
<1>4. /\ pc[r][x] # "done" => Through(r, x) = Through(r, w)
      /\ pc[r][x] = "done" => Through(r, x) <= Through(r, w)
  BY LevelPairs
<1>5. Through(r, w) = 2 * k + 2
  BY <1>1, <1>2, Turning DEF Through
<1>6. Turns(t) = 2 * t /\ Turns(1) = 2
  BY <1>1, <1>2, Turning
<1>7. pc[r][x] # "gather"
  BY <1>2 DEF Control, Placed
<1>8. \/ t = k + 1 /\ pc[r][x] \notin {"loadbar", "reduce"}
      \/ t = k + 2 /\ pc[r][x] = "loadbar"
  <2>1. pc[r][x] # "done"
    <3> SUFFICES ASSUME pc[r][x] = "done" PROVE FALSE
      OBVIOUS
    <3>1. Through(r, x) = Turns(t) + 2 /\ k < t
      BY <1>2, <1>3 DEF Through, Past
    <3> HIDE DEF k, t
    <3> QED
      BY <3>1, <1>1, <1>4, <1>5, <1>6
  <2>2. Through(r, x) = 2 * k + 2
    BY <2>1, <1>4, <1>5
  <2> HIDE DEF k, t
  <2> QED
    BY <1>1, <2>1, <2>2, <1>6, <1>7 DEF Through, PcValues, AtBarrier, t
<1>9. CASE t = k + 1 /\ pc[r][x] \notin {"loadbar", "reduce"}
  BY <1>1, <1>9 DEF HasSummed
<1>10. CASE t = k + 2 /\ pc[r][x] = "loadbar"
  BY <1>1, <1>10 DEF HasSummed
<1> QED
  BY <1>8, <1>9, <1>10

\* When the first wave signals, no wave is in the loop.
LEMMA AllOut ==
  ASSUME Control, NEW r \in Rank, NEW x \in Wave, pc[r][First] = "signal"
  PROVE  pc[r][x] \in Past
<1> DEFINE n == trip[r][First]
           t == trip[r][x]
<1>1. First \in Wave
  BY FirstIsWave
<1>2. n \in Nat /\ t \in Nat /\ pc[r][x] \in PcValues
  BY <1>1 DEF Control, Typed
<1>3. t <= n
  <2> SUFFICES ASSUME n < t PROVE FALSE
    BY <1>2
  <2>1. PackAt(x, n) < packs
    BY <1>2 DEF Control, Travelled
  <2>2. PackAt(First, n) >= packs
    BY <1>1 DEF Control, Travelled, Past
  <2>3. PackAt(First, n) <= PackAt(x, n)
    BY <1>2, FirstLeads DEF Control
  <2>4. PackAt(First, n) \in Nat /\ PackAt(x, n) \in Nat /\ packs \in Nat
    BY <1>1, <1>2, Further DEF Control, Typed
  <2> QED
    BY <2>1, <2>2, <2>3, <2>4
<1>4. pc[r][x] # "done" => Through(r, x) = Through(r, First)
  BY <1>1, LevelPairs
<1>5. Through(r, First) = Turns(n) + 1
  BY DEF Through
<1>6. /\ Double => Turns(n) = 2 * n /\ Turns(t) = 2 * t /\ Turns(1) = 2
      /\ ~Double => Turns(n) = n /\ Turns(t) = t /\ Turns(1) = 1
  BY <1>2, Turning
<1> HIDE DEF n, t
<1>7. CASE Double
  BY <1>7, <1>2, <1>3, <1>4, <1>5, <1>6 DEF Through, PcValues, AtBarrier, Past, t
<1>8. CASE ~Double
  BY <1>8, <1>2, <1>3, <1>4, <1>5, <1>6 DEF Through, PcValues, AtBarrier, Past, t
<1> QED
  BY <1>7, <1>8

-----------------------------------------------------------------------------
(* Steps that move no data.                                                *)

LEMMA DataStays ==
  ASSUME Control, Data, UNCHANGED <<call, trip, lds, res, stored>>,
         \A q \in Rank, x \in Wave :
           /\ pc'[q][x] \in {"loadbar", "reduce"} <=> pc[q][x] \in {"loadbar", "reduce"}
           /\ kernel = "write" =>
                (pc'[q][x] \in {"reducebar", "put"} <=> pc[q][x] \in {"reducebar", "put"})
  PROVE  Data'
<1>1. \A q \in Rank, x \in Wave : \A j :
        /\ HasSummed(q, x, j)' <=> HasSummed(q, x, j)
        /\ HasStored(q, x, j)' <=> HasStored(q, x, j)
  BY DEF HasSummed, HasStored, call
<1>2. Loaded'
  BY CallKept DEF Data, Loaded
<1>3. Filled'
  BY <1>1, CallKept, AWave, FirstIsWave DEF Data, Filled, Whole
<1>4. Summed'
  BY CallKept DEF Data, Summed, Whole
<1>5. Kept'
  BY <1>1, CallKept DEF Data, Kept, Whole
<1> QED
  BY <1>2, <1>3, <1>4, <1>5 DEF Data
LEMMA LeaveLoopStep ==
  ASSUME Control, Data, NEW r \in Rank, NEW w \in Wave, LeaveLoop(r, w)
  PROVE  Control' /\ Data'
<1> DEFINE to == AfterLoop(w)
           n == trip[r][w]
<1>1. n \in Nat /\ to \in {"done", "endbar"} /\ (to = "done" <=> kernel = "onestage")
  BY DEF Control, Typed, AfterLoop
<1>2. Goes(r, w, to, n) /\ pc[r][w] = "loop" /\ UNCHANGED <<call, trip, data, ended>>
  BY SameTrip DEF LeaveLoop, Control, vars
<1> HIDE DEF to, n
<1>3. to \in PcValues
  BY <1>1 DEF PcValues, AtBarrier
<1>4. pc'[r][w] = to /\ pc' \in [Rank -> [Wave -> PcValues]]
  BY <1>1, <1>2, <1>3, Elsewhere DEF Control
<1>5. Typed'
  BY <1>2, <1>4, CallKept DEF Control, Typed, data
<1>6. Through(r, w)' = Through(r, w)
  BY <1>1, <1>2, <1>4, CallKept DEF Through
<1>7. Level'
  BY <1>1, <1>2, <1>3, <1>6, StillLevel
<1>8. PackAt(w, n) >= packs /\ \A j \in 0..(n - 1) : PackAt(w, j) < packs
  BY DEF LeaveLoop, Control, Travelled, n
<1>9. Placed' /\ Travelled' /\ OutOfLoop'
  BY <1>1, <1>2, <1>3, <1>8, StillPlaced DEF Past
<1>10. Data'
  <2>1. \A q \in Rank, x \in Wave : q # r \/ x # w => pc'[q][x] = pc[q][x]
    BY <1>1, <1>2, <1>3, Elsewhere DEF Control
  <2> QED
    BY <1>1, <1>2, <1>4, <2>1, DataStays DEF data
<1> QED
  BY <1>5, <1>7, <1>9, <1>10 DEF Control

LEMMA SignalStep ==
  ASSUME Control, Data, NEW r \in Rank, Signal(r)
  PROVE  Control' /\ Data'
<1> DEFINE n == trip[r][First]
<1>0. First \in Wave /\ n \in Nat /\ "wait" \in PcValues
  BY FirstIsWave DEF Control, Typed, PcValues
<1>1. /\ Goes(r, First, "wait", n) /\ pc[r][First] = "signal"
      /\ UNCHANGED <<call, trip, data>> /\ ended' = ended \cup {r}
  BY <1>0, SameTrip DEF Signal, Control
<1> HIDE DEF n
<1>2. /\ pc'[r][First] = "wait" /\ pc' \in [Rank -> [Wave -> PcValues]]
      /\ \A q \in Rank, x \in Wave : q # r \/ x # First => pc'[q][x] = pc[q][x]
  BY <1>0, <1>1, Elsewhere DEF Control
<1>3. Typed'
  BY <1>1, <1>2, CallKept DEF Control, Typed, data
<1>4. Through(r, First)' = Through(r, First)
  BY <1>1, <1>2, CallKept DEF Through
<1>5. Level'
  BY <1>0, <1>1, <1>4, StillLevel
<1>6. \A x \in Wave : pc'[r][x] \in Past
  BY <1>1, <1>2, AllOut DEF Past
<1>7. PackAt(First, n) >= packs /\ \A j \in 0..(n - 1) : PackAt(First, j) < packs
  BY <1>0, <1>1 DEF Control, Travelled, Past, n
<1>8. Placed' /\ Travelled' /\ OutOfLoop'
  <2>1. kernel # "onestage"
    BY <1>0, <1>1 DEF Control, Placed, Past
  <2> QED
    BY <1>0, <1>1, <1>6, <1>7, <2>1, StillPlaced DEF Past
<1>9. Data'
  BY <1>1, <1>2, DataStays DEF data
<1> QED
  BY <1>3, <1>5, <1>8, <1>9 DEF Control

LEMMA AwaitStep ==
  ASSUME Control, Data, NEW r \in Rank, Await(r)
  PROVE  Control' /\ Data'
<1> DEFINE n == trip[r][First]
<1>0. First \in Wave /\ n \in Nat /\ "syncbar" \in PcValues
  BY FirstIsWave DEF Control, Typed, PcValues, AtBarrier
<1>1. /\ Goes(r, First, "syncbar", n) /\ pc[r][First] = "wait"
      /\ UNCHANGED <<call, trip, data, ended>>
  BY <1>0, SameTrip DEF Await, Control
<1> HIDE DEF n
<1>2. /\ pc'[r][First] = "syncbar" /\ pc' \in [Rank -> [Wave -> PcValues]]
      /\ \A q \in Rank, x \in Wave : q # r \/ x # First => pc'[q][x] = pc[q][x]
  BY <1>0, <1>1, Elsewhere DEF Control
<1>3. Typed'
  BY <1>1, <1>2, CallKept DEF Control, Typed, data
<1>4. Through(r, First)' = Through(r, First)
  BY <1>1, <1>2, CallKept DEF Through
<1>5. Level'
  BY <1>0, <1>1, <1>4, StillLevel
<1>6. PackAt(First, n) >= packs /\ \A j \in 0..(n - 1) : PackAt(First, j) < packs
  BY <1>0, <1>1 DEF Control, Travelled, Past, n
<1>7. Placed' /\ Travelled' /\ OutOfLoop'
  <2>1. kernel # "onestage"
    BY <1>0, <1>1 DEF Control, Placed, Past
  <2> QED
    BY <1>0, <1>1, <1>6, <2>1, StillPlaced DEF Past
<1>8. Data'
  BY <1>1, <1>2, DataStays DEF data
<1> QED
  BY <1>3, <1>5, <1>7, <1>8 DEF Control

LEMMA GatherStep ==
  ASSUME Control, Data, NEW r \in Rank, NEW w \in Wave, Gather(r, w)
  PROVE  Control' /\ Data'
<1> DEFINE n == trip[r][w]
<1>0. n \in Nat /\ "done" \in PcValues
  BY DEF Control, Typed, PcValues
<1>1. /\ Goes(r, w, "done", n) /\ pc[r][w] = "gather"
      /\ UNCHANGED <<call, trip, lds, res, stored, ended>>
  BY SameTrip DEF Gather, Control
<1> HIDE DEF n
<1>2. /\ pc'[r][w] = "done" /\ pc' \in [Rank -> [Wave -> PcValues]]
      /\ \A q \in Rank, x \in Wave : q # r \/ x # w => pc'[q][x] = pc[q][x]
  BY <1>0, <1>1, Elsewhere DEF Control
<1>3. gathered' \in [Rank -> [Warp -> [Pack -> SUBSET (Warp \X Pack)]]]
  <2>1. (r + w[1]) % World \in Rank /\ 0 \in Warp /\ w[1] \in Warp
    BY WaveFacts, FirstIsWave, ConstantsAssumption DEF Rank, Warp
  <2>2. [p \in Pack |-> IF \E k \in 0..packs : p = PackAt(w, k)
                        THEN stored[(r + w[1]) % World][0][p] ELSE gathered[r][w[1]][p]]
          \in [Pack -> SUBSET (Warp \X Pack)]
    BY <2>1 DEF Control, Typed
  <2> QED
    BY <2>1, <2>2 DEF Gather, Control, Typed
<1>4. Typed'
  BY <1>1, <1>2, <1>3, CallKept DEF Control, Typed
<1>5. Through(r, w)' = Through(r, w)
  <2>1. kernel = "twostage"
    BY <1>1 DEF Control, Placed
  <2> QED
    BY <1>1, <1>2, <2>1, CallKept DEF Through
<1>6. Level'
  BY <1>0, <1>1, <1>5, StillLevel
<1>7. PackAt(w, n) >= packs /\ \A j \in 0..(n - 1) : PackAt(w, j) < packs
  BY <1>1 DEF Control, Travelled, Past, n
<1>8. Placed' /\ Travelled' /\ OutOfLoop'
  BY <1>0, <1>1, <1>7, StillPlaced DEF Past
<1>9. Data'
  BY <1>1, <1>2, DataStays
<1> QED
  BY <1>4, <1>6, <1>8, <1>9 DEF Control
LEMMA BarrierStep ==
  ASSUME Control, Data, NEW r \in Rank, Barrier(r)
  PROVE  Control' /\ Data'
<1>1. /\ UNCHANGED <<call, trip, data, ended>>
      /\ \A w \in Wave : pc[r][w] \in AtBarrier \cup {"done"} /\ pc'[r][w] = Behind(w, pc[r][w])
      /\ \A q \in Rank, w \in Wave : q # r => pc'[q][w] = pc[q][w]
  BY DEF Barrier, Control, Typed
<1>2. \A w \in Wave :
        \/ pc[r][w] = "loadbar" /\ pc'[r][w] = "reduce"
        \/ pc[r][w] = "reducebar" /\ kernel = "write" /\ pc'[r][w] = "put"
        \/ pc[r][w] = "reducebar" /\ kernel # "write" /\ pc'[r][w] = "loop"
        \/ pc[r][w] = "endbar" /\ pc'[r][w] \in {"signal", "syncbar"}
        \/ pc[r][w] = "syncbar" /\ kernel = "twostage" /\ pc'[r][w] = "gather"
        \/ pc[r][w] = "syncbar" /\ kernel # "twostage" /\ pc'[r][w] = "done"
        \/ pc[r][w] = "done" /\ pc'[r][w] = "done"
  BY <1>1 DEF Behind, AtBarrier, SyncFrom
<1>3. Typed'
  <2>1. pc' \in [Rank -> [Wave -> PcValues]]
    <3>1. [w \in Wave |-> Behind(w, pc[r][w])] \in [Wave -> PcValues]
      BY <1>1, <1>2 DEF PcValues, AtBarrier
    <3> QED
      BY <3>1 DEF Barrier, Control, Typed
  <2> QED
    BY <1>1, <2>1, CallKept DEF Control, Typed, data
<1>4. Placed'
  BY <1>1, <1>2, CallKept DEF Control, Placed, Past
<1>5. Travelled'
  <2>1. \A q \in Rank, w \in Wave : pc'[q][w] \in Past => pc[q][w] \in Past
    BY <1>1, <1>2 DEF Past
  <2> QED
    BY <1>1, <2>1, CallKept DEF Control, Travelled
<1>6. Level'
  <2>1. \A w \in Wave : /\ pc[r][w] # "done" => Through(r, w)' = Through(r, w) + 1
                        /\ pc[r][w] = "done" => Through(r, w)' = Through(r, w)
                        /\ Through(r, w) \in Int
    <3> SUFFICES ASSUME NEW w \in Wave
                 PROVE  /\ pc[r][w] # "done" => Through(r, w)' = Through(r, w) + 1
                        /\ pc[r][w] = "done" => Through(r, w)' = Through(r, w)
                        /\ Through(r, w) \in Int
      OBVIOUS
    <3>1. trip[r][w] \in Nat /\ trip'[r][w] = trip[r][w] /\ kernel' = kernel
      BY <1>1, CallKept DEF Control, Typed
    <3> DEFINE n == trip[r][w]
    <3>2. /\ \/ Turns(n) = 2 * n /\ Turns(1) = 2
             \/ Turns(n) = n /\ Turns(1) = 1 /\ ~Double
          /\ Turns(n)' = Turns(n) /\ Turns(1)' = Turns(1)
      BY <1>1, <3>1, Turning, CallKept DEF Turns
    <3>3. /\ pc[r][w] = "reducebar" => Double
          /\ pc[r][w] = "syncbar" => kernel # "onestage"
      BY DEF Control, Placed, Past
    <3> HIDE DEF n
    <3> QED
      BY <1>2, <3>1, <3>2, <3>3 DEF Through, n
  <2>2. \A q \in Rank, w \in Wave : q # r => Through(q, w)' = Through(q, w)
    BY <1>1, ThroughKept
  <2>3. \A w \in Wave : pc'[r][w] # "done" => pc[r][w] # "done"
    BY <1>2
  <2>4. ASSUME NEW u \in Wave, NEW w \in Wave, pc'[r][u] # "done"
        PROVE  Through(r, w)' <= Through(r, u)'
    <3>1. Through(r, w) <= Through(r, u) /\ pc[r][u] # "done"
      BY <2>3, <2>4 DEF Control, Level
    <3> QED
      BY <2>1, <3>1
  <2>5. ASSUME NEW q \in Rank, NEW u \in Wave, NEW w \in Wave, q # r, pc'[q][u] # "done"
        PROVE  Through(q, w)' <= Through(q, u)'
    BY <1>1, <2>2, <2>5 DEF Control, Level
  <2> QED
    BY <2>4, <2>5 DEF Level
<1>7. OutOfLoop'
  <2>1. \A q \in Rank, w \in Wave : pc[q][w] \in Past => pc'[q][w] \in Past
    BY <1>1, <1>2 DEF Past
  <2> QED
    BY <1>1, <2>1 DEF Control, OutOfLoop, Typed
<1>8. Data'
  BY <1>1, <1>2, DataStays DEF data
<1> QED
  BY <1>3, <1>4, <1>5, <1>6, <1>7, <1>8 DEF Control

-----------------------------------------------------------------------------
(* The steps that move data.                                               *)

LEMMA LoadStep ==
  ASSUME Control, Data, NEW r \in Rank, NEW w \in Wave, Load(r, w)
  PROVE  Control' /\ Data'
<1> DEFINE t == trip[r][w]
           p == PackAt(w, t)
<1>1. t \in Nat /\ t + 1 \in Nat /\ "loadbar" \in PcValues
  BY DEF Control, Typed, PcValues, AtBarrier
<1>2. /\ pc[r][w] = "loop" /\ Goes(r, w, "loadbar", t + 1) /\ p < packs
      /\ lds' = [lds EXCEPT ![r][Half(t)][w] = {<<w[1], p>>}]
      /\ UNCHANGED <<call, res, stored, gathered, ended>>
  BY DEF Load, Goto, Goes
<1>3. Half(t) \in 0..1 /\ p \in Pack /\ w[1] \in Warp
  BY <1>1, <1>2, Halves, WaveFacts, Further DEF Control, Typed, Pack
<1> HIDE DEF t, p
<1>4. /\ pc'[r][w] = "loadbar" /\ trip'[r][w] = t + 1
      /\ pc' \in [Rank -> [Wave -> PcValues]] /\ trip' \in [Rank -> [Wave -> Nat]]
      /\ \A q \in Rank, x \in Wave : q # r \/ x # w =>
           pc'[q][x] = pc[q][x] /\ trip'[q][x] = trip[q][x]
  BY <1>1, <1>2, Elsewhere DEF Control
<1>5. Typed'
  <2>1. lds' \in [Rank -> [0..1 -> [Wave -> SUBSET (Warp \X Pack)]]]
    BY <1>2, <1>3 DEF Control, Typed
  <2> QED
    BY <1>2, <1>4, <2>1, CallKept DEF Control, Typed
<1>6. Level'
  <2>1. Through(r, w) = Turns(t)
    BY <1>2 DEF Through, t
  <2>2. Through(r, w)' = Turns(t + 1) - Turns(1)
    BY <1>2, <1>4, CallKept DEF Through, Turns
  <2>3. Turns(t + 1) - Turns(1) = Turns(t)
    BY <1>1 DEF Turns
  <2> QED
    BY <1>1, <1>2, <2>1, <2>2, <2>3, StillLevel
<1>7. \A j \in 0..t : PackAt(w, j) < packs
  BY <1>1, <1>2 DEF Control, Travelled, t, p
<1>8. Placed' /\ Travelled' /\ OutOfLoop'
  BY <1>1, <1>2, <1>7, StillPlaced DEF Past
<1>9. Loaded'
  <2>1. \A q \in Rank, x \in Wave : q # r \/ x # w =>
          \A h \in 0..1 : lds'[q][h][x] = lds[q][h][x]
    BY <1>2, <1>3 DEF Control, Typed
  <2>2. /\ lds'[r][Half(t)][w] = {<<w[1], p>>}
        /\ \A h \in 0..1 : h # Half(t) => lds'[r][h][w] = lds[r][h][w]
    BY <1>2, <1>3 DEF Control, Typed
  <2>3. ASSUME NEW q \in Rank, NEW x \in Wave, q # r \/ x # w, NEW j \in 0..(trip'[q][x] - 1),
               trip'[q][x] - j <= (IF Double THEN 1 ELSE 2)
        PROVE  lds'[q][Half(j)][x] = {<<x[1], PackAt(x, j)>>}
    <3>1. trip'[q][x] = trip[q][x] /\ j \in Nat
      BY <1>4, <2>3
    <3> QED
      BY <2>1, <2>3, <3>1, Halves DEF Data, Loaded
  <2>4. ASSUME NEW j \in 0..t, t + 1 - j <= (IF Double THEN 1 ELSE 2)
        PROVE  lds'[r][Half(j)][w] = {<<w[1], PackAt(w, j)>>}
    <3>1. CASE j = t
      BY <3>1, <2>2 DEF p
    <3>2. CASE j # t
      <4>1. ~Double /\ j \in Nat /\ t = j + 1 /\ j \in 0..(t - 1) /\ t - j <= 2
        BY <1>1, <2>4, <3>2
      <4>2. Half(j) # Half(t) /\ Half(j) \in 0..1
        BY <4>1, Halves
      <4>3. lds[r][Half(j)][w] = {<<w[1], PackAt(w, j)>>}
        BY <4>1 DEF Data, Loaded, t
      <4> QED
        BY <2>2, <4>2, <4>3
    <3> QED
      BY <3>1, <3>2
  <2>5. \A q \in Rank, x \in Wave : \A j \in 0..(trip'[q][x] - 1) :
          trip'[q][x] - j <= (IF Double THEN 1 ELSE 2) =>
            lds'[q][Half(j)][x] = {<<x[1], PackAt(x, j)>>}
    <3> SUFFICES ASSUME NEW q \in Rank, NEW x \in Wave, NEW j \in 0..(trip'[q][x] - 1),
                        trip'[q][x] - j <= (IF Double THEN 1 ELSE 2)
                 PROVE  lds'[q][Half(j)][x] = {<<x[1], PackAt(x, j)>>}
      OBVIOUS
    <3>1. CASE q = r /\ x = w
      BY <1>1, <1>4, <2>4, <3>1
    <3>2. CASE q # r \/ x # w
      BY <2>3, <3>2
    <3> QED
      BY <3>1, <3>2
  <2> QED
    BY <1>2, <2>5, CallKept DEF Loaded
<1>10. \A q \in Rank, x \in Wave : \A j \in Nat :
         /\ HasSummed(q, x, j)' <=> HasSummed(q, x, j)
         /\ HasStored(q, x, j)' <=> HasStored(q, x, j)
         /\ HasSummed(q, x, j) => j \in 0..(trip[q][x] - 1)
  <2> SUFFICES ASSUME NEW q \in Rank, NEW x \in Wave, NEW j \in Nat
               PROVE  /\ HasSummed(q, x, j)' <=> HasSummed(q, x, j)
                      /\ HasStored(q, x, j)' <=> HasStored(q, x, j)
                      /\ HasSummed(q, x, j) => j \in 0..(trip[q][x] - 1)
    OBVIOUS
  <2>1. trip[q][x] \in Nat /\ kernel' = kernel
    BY <1>2, CallKept DEF Control, Typed
  <2>2. CASE q = r /\ x = w
    <3>1. trip[q][x] = t /\ pc[q][x] = "loop" /\ trip'[q][x] = t + 1 /\ pc'[q][x] = "loadbar"
      BY <1>2, <1>4, <2>2 DEF t
    <3>2. /\ HasSummed(q, x, j) <=> j < t
          /\ HasSummed(q, x, j)' <=> j < t
      BY <1>1, <3>1 DEF HasSummed
    <3>3. /\ HasStored(q, x, j) <=> HasSummed(q, x, j)
          /\ HasStored(q, x, j)' <=> HasSummed(q, x, j)'
      BY <3>1 DEF HasStored
    <3> QED
      BY <1>1, <2>1, <3>1, <3>2, <3>3
  <2>3. CASE q # r \/ x # w
    BY <1>4, <2>1, <2>3 DEF HasSummed, HasStored
  <2> QED
    BY <2>2, <2>3
<1>11. Filled'
  <2>1. ASSUME NEW q \in Rank, NEW v \in 0..(Waves - 1), NEW j \in Nat,
               kernel = "write", HasSummed(q, <<0, v>>, j), ~HasSummed(q, <<0, v>>, j + 1)
        PROVE  res'[q][v] = Whole(PackAt(<<0, v>>, j))
    BY <1>2, <1>10, <2>1, AWave, FirstIsWave DEF Data, Filled
  <2>2. \A q \in Rank, v \in 0..(Waves - 1) : \A j \in 0..(trip'[q][<<0, v>>] - 1) :
          /\ j \in Nat /\ j + 1 \in Nat
          /\ HasSummed(q, <<0, v>>, j)' <=> HasSummed(q, <<0, v>>, j)
          /\ HasSummed(q, <<0, v>>, j + 1)' <=> HasSummed(q, <<0, v>>, j + 1)
    BY <1>10, AWave, FirstIsWave
  <2> QED
    BY <1>2, <2>1, <2>2, CallKept DEF Filled, Whole
<1>12. Summed'
  BY <1>2, CallKept DEF Data, Summed, Whole
<1>13. Kept'
  <2>1. \A q \in Rank, x \in Wave : \A j \in Nat :
          (x[1] = 0 \/ kernel = "write") /\ HasStored(q, x, j) =>
            stored[q][x[1]][PackAt(x, j)] = Whole(PackAt(x, j))
    BY <1>10 DEF Data, Kept, HasStored
  <2>2. \A q \in Rank, x \in Wave : \A j \in 0..(trip'[q][x] - 1) :
          j \in Nat /\ (HasStored(q, x, j)' <=> HasStored(q, x, j))
    BY <1>10
  <2> QED
    BY <1>2, <2>1, <2>2, CallKept DEF Kept, Whole
<1> QED
  BY <1>5, <1>6, <1>8, <1>9, <1>11, <1>12, <1>13 DEF Control, Data
\* The packs the first warp finds behind the barrier are of one iteration, and all
\* are there.
LEMMA SumIsWhole ==
  ASSUME Control, Data, NEW r \in Rank, NEW w \in Wave, pc[r][w] = "reduce"
  PROVE  UNION {lds[r][Half(trip[r][w] - 1)][<<v, w[2]>>] : v \in Warp}
           = Whole(PackAt(w, trip[r][w] - 1))
<1> DEFINE k == trip[r][w] - 1
<1>1. ASSUME NEW v \in Warp
      PROVE  lds[r][Half(k)][<<v, w[2]>>] = {<<v, PackAt(w, k)>>}
  <2> DEFINE x == <<v, w[2]>>
  <2>1. x \in Wave /\ x[2] = w[2] /\ x[1] = v
    BY WaveFacts, AWave
  <2>2. k \in 0..(trip[r][x] - 1) /\ trip[r][x] - k <= (IF Double THEN 1 ELSE 2)
    BY <2>1, MatesLoaded
  <2>3. PackAt(x, k) = PackAt(w, k)
    BY <2>1, SamePack
  <2> HIDE DEF k, x
  <2>4. lds[r][Half(k)][x] = {<<x[1], PackAt(x, k)>>}
    BY <2>1, <2>2 DEF Data, Loaded
  <2> QED
    BY <2>1, <2>3, <2>4 DEF x
<1>2. {lds[r][Half(k)][<<v, w[2]>>] : v \in Warp} = {{<<v, PackAt(w, k)>>} : v \in Warp}
  BY <1>1
<1>3. \A p : UNION {{<<v, p>>} : v \in Warp} = Whole(p)
  BY DEF Whole
<1> QED
  BY <1>2, <1>3

\* What is stored for a pack, when a wave of warp u of rank r stores the whole sum of p.
LEMMA StoreWhole ==
  ASSUME Control, Data, UNCHANGED call, NEW r \in Rank, NEW u \in Warp, NEW p \in Pack,
         stored' = [stored EXCEPT ![r][u][p] = Whole(p)]
  PROVE  /\ stored' \in [Rank -> [Warp -> [Pack -> SUBSET (Warp \X Pack)]]] /\ Summed'
         /\ stored'[r][u][p] = Whole(p)
         /\ \A q \in Rank, v \in Warp, i \in Pack :
              stored[q][v][i] = Whole(i) => stored'[q][v][i] = Whole(i)
<1>1. Whole(p) \in SUBSET (Warp \X Pack)
  BY DEF Whole
<1>2. stored \in [Rank -> [Warp -> [Pack -> SUBSET (Warp \X Pack)]]]
  BY DEF Control, Typed
<1>3. stored' \in [Rank -> [Warp -> [Pack -> SUBSET (Warp \X Pack)]]]
  BY <1>1, <1>2
<1>4. /\ stored'[r][u][p] = Whole(p)
      /\ \A q \in Rank, v \in Warp, i \in Pack :
           q # r \/ v # u \/ i # p => stored'[q][v][i] = stored[q][v][i]
  BY <1>2
<1>5. Summed'
  <2>1. \A q \in Rank, v \in Warp, i \in Pack : stored'[q][v][i] \in {{}, Whole(i)}
    BY <1>4 DEF Data, Summed
  <2>2. Pack' = Pack
    BY CallKept
  <2> QED
    BY <2>1, <2>2 DEF Summed, Whole
<1> QED
  BY <1>3, <1>4, <1>5

LEMMA ReduceStep ==
  ASSUME Control, Data, NEW r \in Rank, NEW w \in Wave, Reduce(r, w)
  PROVE  Control' /\ Data'
<1> DEFINE t == trip[r][w]
           k == t - 1
           p == PackAt(w, k)
<1>1. t \in Nat \ {0} /\ k \in 0..(t - 1) /\ k \in Nat /\ t = k + 1
  BY DEF Reduce, Goto, Control, Typed, Placed
<1>2. p \in Pack /\ w[1] \in Warp /\ w[2] \in 0..(Waves - 1) /\ 0 \in Warp
  <2>1. p < packs
    BY <1>1 DEF Control, Travelled
  <2> QED
    BY <1>1, <2>1, Further, WaveFacts, FirstIsWave DEF Control, Typed, Pack
<1>3. /\ pc[r][w] = "reduce" /\ UNCHANGED <<call, trip, lds, gathered, ended>>
      /\ Goes(r, w, AfterReduce, t)
      /\ w[1] # 0 => UNCHANGED <<res, stored>>
      /\ w[1] = 0 /\ kernel = "write" =>
           res' = [res EXCEPT ![r][w[2]] = Whole(p)] /\ UNCHANGED stored
      /\ w[1] = 0 /\ kernel # "write" =>
           stored' = [stored EXCEPT ![r][0][p] = Whole(p)] /\ UNCHANGED res
  <2>1. Goes(r, w, AfterReduce, t) /\ pc[r][w] = "reduce"
    BY SameTrip DEF Reduce, Control
  <2>2. UNION {lds[r][Half(k)][<<v, w[2]>>] : v \in Warp} = Whole(p)
    BY <2>1, SumIsWhole
  <2> QED
    BY <2>1, <2>2 DEF Reduce
<1> DEFINE to == AfterReduce
<1>4. /\ to \in PcValues /\ to \in {"reducebar", "loop"} /\ (to = "reducebar" <=> Double)
  BY DEF AfterReduce, Double, PcValues, AtBarrier
<1> HIDE DEF t, k, p, to
<1>5. /\ pc'[r][w] = to /\ trip' = trip
      /\ pc' \in [Rank -> [Wave -> PcValues]]
      /\ \A q \in Rank, x \in Wave : q # r \/ x # w => pc'[q][x] = pc[q][x]
  BY <1>1, <1>3, <1>4, Elsewhere DEF Control, to
<1>6. /\ stored' \in [Rank -> [Warp -> [Pack -> SUBSET (Warp \X Pack)]]] /\ Summed'
      /\ \A q \in Rank, v \in Warp, i \in Pack :
           stored[q][v][i] = Whole(i) => stored'[q][v][i] = Whole(i)
      /\ w[1] = 0 /\ kernel # "write" => stored'[r][0][p] = Whole(p)
  <2>1. CASE w[1] = 0 /\ kernel # "write"
    BY <1>2, <1>3, <2>1, StoreWhole
  <2>2. CASE ~(w[1] = 0 /\ kernel # "write")
    <3>1. stored' = stored
      BY <1>3, <2>2
    <3>2. Summed'
      BY <1>3, <3>1, CallKept DEF Data, Summed, Whole
    <3> QED
      BY <2>2, <3>1, <3>2 DEF Control, Typed
  <2> QED
    BY <2>1, <2>2
<1>7. /\ res' \in [Rank -> [0..(Waves - 1) -> SUBSET (Warp \X Pack)]]
      /\ w[1] = 0 /\ kernel = "write" => res'[r][w[2]] = Whole(p)
      /\ \A q \in Rank, v \in 0..(Waves - 1) :
           q # r \/ <<0, v>> # w => res'[q][v] = res[q][v]
  <2>1. Whole(p) \in SUBSET (Warp \X Pack) /\ w = <<w[1], w[2]>>
    BY <1>2, WaveFacts DEF Whole
  <2>2. res \in [Rank -> [0..(Waves - 1) -> SUBSET (Warp \X Pack)]]
    BY DEF Control, Typed
  <2>3. CASE w[1] = 0 /\ kernel = "write"
    <3>1. res' = [res EXCEPT ![r][w[2]] = Whole(p)]
      BY <1>3, <2>3
    <3>2. \A q \in Rank, v \in 0..(Waves - 1) :
            q # r \/ v # w[2] => res'[q][v] = res[q][v]
      BY <1>2, <2>2, <3>1
    <3>3. \A v : <<0, v>> # w => v # w[2]
      BY <2>1, <2>3
    <3> QED
      BY <1>2, <2>1, <2>2, <3>1, <3>2, <3>3
  <2>4. CASE ~(w[1] = 0 /\ kernel = "write")
    BY <1>3, <2>2, <2>4
  <2> QED
    BY <2>3, <2>4
<1>8. Typed'
  BY <1>3, <1>5, <1>6, <1>7, CallKept DEF Control, Typed
<1>9. Level'
  <2>1. Through(r, w) = Turns(t) - Turns(1) + 1
    BY <1>3 DEF Through, t
  <2>2. Through(r, w)' = IF to = "reducebar" THEN Turns(t) - Turns(1) + 1 ELSE Turns(t)
    BY <1>3, <1>4, <1>5, CallKept DEF Through, Turns, t
  <2>3. ~Double => Turns(t) - Turns(1) + 1 = Turns(t)
    BY <1>1 DEF Turns
  <2> QED
    BY <1>1, <1>3, <1>4, <2>1, <2>2, <2>3, StillLevel DEF to
<1>10. \A j \in 0..(t - 1) : PackAt(w, j) < packs
  BY DEF Control, Travelled, t
<1>11. Placed' /\ Travelled' /\ OutOfLoop'
  BY <1>1, <1>3, <1>4, <1>10, StillPlaced DEF Past, to
<1>12. Loaded'
  BY <1>3, CallKept DEF Data, Loaded
<1>13. \A q \in Rank, x \in Wave, j \in Nat :
         /\ q # r \/ x # w => /\ HasSummed(q, x, j)' <=> HasSummed(q, x, j)
                              /\ HasStored(q, x, j)' <=> HasStored(q, x, j)
         /\ q = r /\ x = w => /\ HasSummed(q, x, j)' <=> j <= k
                              /\ HasSummed(q, x, j) <=> j < k
  <2>1. ASSUME NEW q \in Rank, NEW x \in Wave, NEW j \in Nat, q # r \/ x # w
        PROVE  /\ HasSummed(q, x, j)' <=> HasSummed(q, x, j)
               /\ HasStored(q, x, j)' <=> HasStored(q, x, j)
    <3>1. pc'[q][x] = pc[q][x] /\ trip' = trip /\ kernel' = kernel
      BY <1>3, <1>5, <2>1, CallKept
    <3> QED
      BY <3>1 DEF HasSummed, HasStored
  <2>2. ASSUME NEW j \in Nat
        PROVE  /\ HasSummed(r, w, j)' <=> j <= k
               /\ HasSummed(r, w, j) <=> j < k
    <3>1. pc[r][w] = "reduce" /\ trip[r][w] = k + 1 /\ trip'[r][w] = k + 1
      BY <1>1, <1>3, <1>5 DEF t
    <3>2. pc'[r][w] \notin {"loadbar", "reduce"}
      BY <1>4, <1>5
    <3> QED
      BY <1>1, <3>1, <3>2 DEF HasSummed
  <2> QED
    BY <2>1, <2>2
<1>14. Filled'
  <2>1. ASSUME NEW q \in Rank, NEW v \in 0..(Waves - 1), NEW j \in 0..(trip[q][<<0, v>>] - 1),
               kernel = "write", HasSummed(q, <<0, v>>, j)', ~HasSummed(q, <<0, v>>, j + 1)'
        PROVE  res'[q][v] = Whole(PackAt(<<0, v>>, j))
    <3>0. <<0, v>> \in Wave /\ j \in Nat /\ j + 1 \in Nat
      BY AWave, <1>2
    <3>1. CASE q = r /\ <<0, v>> = w
      <4>1. j = k
        BY <1>1, <1>13, <2>1, <3>0, <3>1
      <4> QED
        BY <1>7, <2>1, <3>1, <4>1 DEF p
    <3>2. CASE q # r \/ <<0, v>> # w
      <4>1. HasSummed(q, <<0, v>>, j) /\ ~HasSummed(q, <<0, v>>, j + 1)
        BY <1>13, <2>1, <3>0, <3>2
      <4>2. res[q][v] = Whole(PackAt(<<0, v>>, j))
        BY <2>1, <4>1 DEF Data, Filled
      <4> QED
        BY <1>7, <3>2, <4>2
    <3> QED
      BY <3>1, <3>2
  <2> QED
    BY <1>3, <2>1, CallKept DEF Filled, Whole
<1>15. Kept'
  <2>1. ASSUME NEW q \in Rank, NEW x \in Wave, NEW j \in 0..(trip[q][x] - 1),
               x[1] = 0 \/ kernel = "write", HasStored(q, x, j)'
        PROVE  stored'[q][x[1]][PackAt(x, j)] = Whole(PackAt(x, j))
    <3>0. j \in Nat /\ x[1] \in Warp
      BY WaveFacts
    <3>1. PackAt(x, j) \in Pack
      <4>1. PackAt(x, j) < packs
        BY DEF Control, Travelled
      <4>2. PackAt(x, j) \in Nat /\ packs \in Nat
        BY <3>0, Further DEF Control, Typed
      <4> QED
        BY <4>1, <4>2 DEF Pack
    <3>2. CASE HasStored(q, x, j)
      BY <1>6, <2>1, <3>0, <3>1, <3>2 DEF Data, Kept
    <3>3. CASE ~HasStored(q, x, j)
      <4>1. q = r /\ x = w
        BY <1>13, <2>1, <3>0, <3>3
      <4>2. HasSummed(q, x, j)' /\ j <= k
        BY <1>13, <2>1, <3>0, <4>1 DEF HasStored
      <4>3. j = k /\ kernel # "write"
        <5>1. ASSUME j < k PROVE FALSE
          <6>1. HasSummed(q, x, j) /\ j + 1 # t
            BY <1>1, <1>13, <3>0, <4>1, <5>1
          <6> QED
            BY <3>3, <4>1, <6>1 DEF HasStored, t
        <5>2. ASSUME j = k, kernel = "write" PROVE FALSE
          <6>1. pc'[q][x] = "reducebar" /\ j + 1 = trip'[q][x] /\ kernel' = "write"
            BY <1>1, <1>3, <1>4, <1>5, <4>1, <5>2, CallKept DEF Double, t
          <6> QED
            BY <2>1, <6>1 DEF HasStored
        <5> QED
          BY <1>1, <3>0, <4>2, <5>1, <5>2
      <4> QED
        BY <1>6, <2>1, <4>1, <4>3 DEF p
    <3> QED
      BY <3>2, <3>3
  <2> QED
    BY <1>3, <2>1, CallKept DEF Kept, Whole
<1> QED
  BY <1>6, <1>8, <1>9, <1>11, <1>12, <1>14, <1>15 DEF Control, Data
LEMMA PutStep ==
  ASSUME Control, Data, NEW r \in Rank, NEW w \in Wave, Put(r, w)
  PROVE  Control' /\ Data'
<1> DEFINE t == trip[r][w]
           k == t - 1
           p == PackAt(w, k)
<1>1. t \in Nat \ {0} /\ k \in 0..(t - 1) /\ k \in Nat /\ t = k + 1
  BY DEF Put, Goto, Control, Typed, Placed
<1>2. p \in Pack /\ w[1] \in Warp /\ w[2] \in 0..(Waves - 1)
  <2>1. p < packs
    BY <1>1 DEF Control, Travelled
  <2>2. p \in Nat /\ packs \in Nat
    BY <1>1, Further DEF Control, Typed
  <2> QED
    BY <2>1, <2>2, WaveFacts DEF Pack
<1>3. /\ pc[r][w] = "put" /\ UNCHANGED <<call, trip, lds, res, gathered, ended>>
      /\ Goes(r, w, "loop", t)
      /\ stored' = [stored EXCEPT ![r][w[1]][p] = Whole(p)]
  <2>1. Goes(r, w, "loop", t) /\ pc[r][w] = "put"
    BY SameTrip DEF Put, Control
  <2> DEFINE x == <<0, w[2]>>
  <2>2. x \in Wave /\ x[2] = w[2]
    BY <1>2, AWave, FirstIsWave
  <2>3. k \in 0..(trip[r][x] - 1) /\ HasSummed(r, x, k) /\ ~HasSummed(r, x, k + 1)
    BY <1>1, <2>1, <2>2, ResultThere
  <2>4. kernel = "write"
    BY <2>1 DEF Control, Placed
  <2>5. res[r][w[2]] = Whole(PackAt(x, k))
    BY <1>2, <2>3, <2>4 DEF Data, Filled
  <2>6. PackAt(x, k) = p
    BY <2>2, SamePack
  <2> QED
    BY <2>1, <2>5, <2>6 DEF Put
<1>4. "loop" \in PcValues
  BY DEF PcValues
<1> HIDE DEF t, k, p
<1>5. /\ pc'[r][w] = "loop" /\ trip' = trip
      /\ pc' \in [Rank -> [Wave -> PcValues]]
      /\ \A q \in Rank, x \in Wave : q # r \/ x # w => pc'[q][x] = pc[q][x]
  BY <1>1, <1>3, <1>4, Elsewhere DEF Control
<1>6. /\ stored' \in [Rank -> [Warp -> [Pack -> SUBSET (Warp \X Pack)]]] /\ Summed'
      /\ \A q \in Rank, v \in Warp, i \in Pack :
           stored[q][v][i] = Whole(i) => stored'[q][v][i] = Whole(i)
      /\ stored'[r][w[1]][p] = Whole(p)
  BY <1>2, <1>3, StoreWhole
<1>7. Typed'
  BY <1>3, <1>5, <1>6, CallKept DEF Control, Typed
<1>8. Level'
  <2>1. Through(r, w)' = Through(r, w)
    BY <1>3, <1>5, CallKept DEF Through
  <2> QED
    BY <1>1, <1>3, <1>4, <2>1, StillLevel
<1>9. Placed' /\ Travelled' /\ OutOfLoop'
  <2>1. \A j \in 0..(t - 1) : PackAt(w, j) < packs
    BY DEF Control, Travelled, t
  <2> QED
    BY <1>1, <1>3, <1>4, <2>1, StillPlaced DEF Past
<1>10. Loaded'
  BY <1>3, CallKept DEF Data, Loaded
<1>11. \A q \in Rank, x \in Wave, j \in Nat :
         /\ HasSummed(q, x, j)' <=> HasSummed(q, x, j)
         /\ HasStored(q, x, j)' => HasStored(q, x, j) \/ (q = r /\ x = w /\ j = k)
  <2> SUFFICES ASSUME NEW q \in Rank, NEW x \in Wave, NEW j \in Nat
               PROVE  /\ HasSummed(q, x, j)' <=> HasSummed(q, x, j)
                      /\ HasStored(q, x, j)' => HasStored(q, x, j) \/ (q = r /\ x = w /\ j = k)
    OBVIOUS
  <2>1. trip' = trip /\ kernel' = kernel
    BY <1>3, CallKept
  <2>2. CASE q # r \/ x # w
    BY <1>5, <2>1, <2>2 DEF HasSummed, HasStored
  <2>3. CASE q = r /\ x = w
    <3>1. pc[q][x] = "put" /\ pc'[q][x] = "loop" /\ trip[q][x] = k + 1
      BY <1>1, <1>3, <1>5, <2>3 DEF t
    <3>2. HasSummed(q, x, j)' <=> HasSummed(q, x, j)
      BY <2>1, <3>1 DEF HasSummed
    <3>3. j # k => j + 1 # trip[q][x]
      BY <1>1, <3>1
    <3> QED
      BY <2>3, <3>2, <3>3 DEF HasStored
  <2> QED
    BY <2>2, <2>3
<1>12. Filled'
  <2>1. \A q \in Rank, v \in 0..(Waves - 1) : \A j \in 0..(trip[q][<<0, v>>] - 1) :
          /\ HasSummed(q, <<0, v>>, j)' <=> HasSummed(q, <<0, v>>, j)
          /\ HasSummed(q, <<0, v>>, j + 1)' <=> HasSummed(q, <<0, v>>, j + 1)
    BY <1>11, AWave, FirstIsWave
  <2> QED
    BY <1>3, <2>1, CallKept DEF Data, Filled, Whole
<1>13. Kept'
  <2>1. ASSUME NEW q \in Rank, NEW x \in Wave, NEW j \in 0..(trip[q][x] - 1),
               x[1] = 0 \/ kernel = "write", HasStored(q, x, j)'
        PROVE  stored'[q][x[1]][PackAt(x, j)] = Whole(PackAt(x, j))
    <3>0. j \in Nat /\ x[1] \in Warp
      BY WaveFacts
    <3>1. PackAt(x, j) \in Pack
      <4>1. PackAt(x, j) < packs
        BY DEF Control, Travelled
      <4>2. PackAt(x, j) \in Nat /\ packs \in Nat
        BY <3>0, Further DEF Control, Typed
      <4> QED
        BY <4>1, <4>2 DEF Pack
    <3>2. CASE HasStored(q, x, j)
      BY <1>6, <2>1, <3>0, <3>1, <3>2 DEF Data, Kept
    <3>3. CASE q = r /\ x = w /\ j = k
      BY <1>6, <3>3 DEF p
    <3> QED
      BY <1>11, <2>1, <3>0, <3>2, <3>3
  <2> QED
    BY <1>3, <2>1, CallKept DEF Kept, Whole
<1> QED
  BY <1>6, <1>7, <1>8, <1>9, <1>10, <1>12, <1>13 DEF Control, Data

-----------------------------------------------------------------------------
(* The theorems.                                                           *)

LEMMA InitHolds == Init => Control /\ Data
<1> SUFFICES ASSUME Init PROVE Control /\ Data
  OBVIOUS
<1>1. /\ \A r \in Rank, w \in Wave : pc[r][w] = "loop" /\ trip[r][w] = 0
      /\ ended = {}
  BY DEF Init
<1>2. Typed
  <2>1. kernel \in Kernels /\ packs \in Nat \ {0}
    BY ConstantsAssumption DEF Init
  <2>2. block \in Nat
    <3>1. packs \in Nat \ {0} /\ Waves \in Nat \ {0} /\ MaxBlocks \in Nat \ {0}
      BY <2>1, ConstantsAssumption
    <3>2. packs + Waves - 1 \in Nat
      BY <3>1
    <3>3. CeilDiv(packs, Waves) \in Nat
      BY <3>1, <3>2, Division DEF CeilDiv
    <3>4. Grid(packs) \in Nat
      BY <3>1, <3>3 DEF Grid
    <3> QED
      BY <3>4 DEF Init
  <2> QED
    BY <2>1, <2>2 DEF Typed, Init, PcValues
<1>3. Placed /\ Travelled /\ OutOfLoop
  BY <1>1 DEF Placed, Travelled, OutOfLoop, Past
<1>4. Level
  <2>1. \A r \in Rank, w \in Wave : Through(r, w) = 0
    BY <1>1 DEF Through, Turns
  <2> QED
    BY <2>1 DEF Level
<1>5. \A r \in Rank, w \in Wave : 0..(trip[r][w] - 1) = {}
  BY <1>1
<1>6. Loaded /\ Kept
  BY <1>5 DEF Loaded, Kept
<1>7. Filled
  BY <1>5, AWave, FirstIsWave DEF Filled
<1>8. Summed
  BY DEF Init, Summed
<1> QED
  BY <1>2, <1>3, <1>4, <1>6, <1>7, <1>8 DEF Control, Data

LEMMA NextKeeps == Control /\ Data /\ [Next]_vars => Control' /\ Data'
<1> SUFFICES ASSUME Control, Data, [Next]_vars PROVE Control' /\ Data'
  OBVIOUS
<1>1. CASE UNCHANGED vars
  <2>1. UNCHANGED <<call, pc, trip, lds, res, stored, gathered, ended>>
    BY <1>1 DEF vars, data
  <2>2. Data'
    BY <2>1, DataStays
  <2>3. Typed' /\ Placed' /\ Travelled' /\ OutOfLoop'
    BY <2>1, CallKept DEF Control, Typed, Placed, Travelled, OutOfLoop
  <2>4. \A r \in Rank, w \in Wave : Through(r, w)' = Through(r, w)
    BY <2>1, ThroughKept
  <2> QED
    BY <2>1, <2>2, <2>3, <2>4 DEF Control, Level
<1>2. ASSUME NEW r \in Rank, BlockStep(r) PROVE Control' /\ Data'
  BY <1>2, BarrierStep, SignalStep, AwaitStep DEF BlockStep
<1>3. ASSUME NEW r \in Rank, NEW w \in Wave, WaveStep(r, w) PROVE Control' /\ Data'
  BY <1>3, LoadStep, LeaveLoopStep, ReduceStep, PutStep, GatherStep DEF WaveStep
<1> QED
  BY <1>1, <1>2, <1>3 DEF Next

LEMMA Invariance == Spec => [](Control /\ Data)
BY InitHolds, NextKeeps, PTL DEF Spec

\* Every variable keeps to its values: in particular, the grid-stride loop of a wave
\* ends after as many iterations as there are packs at most.
THEOREM TypeCorrect == Spec => []TypeOK
<1>1. Control => TypeOK
  <2> SUFFICES ASSUME Control PROVE TypeOK
    OBVIOUS
  <2>1. trip \in [Rank -> [Wave -> 0..packs]]
    <3>1. ASSUME NEW r \in Rank, NEW w \in Wave PROVE trip[r][w] \in 0..packs
      <4>1. trip[r][w] \in Nat /\ packs \in Nat
        BY DEF Control, Typed
      <4> DEFINE j == trip[r][w] - 1
      <4>2. CASE trip[r][w] # 0
        <5>1. j \in 0..(trip[r][w] - 1) /\ j \in Nat
          BY <4>1, <4>2
        <5>2. PackAt(w, j) < packs
          BY <5>1 DEF Control, Travelled
        <5>3. PackAt(w, j) \in Nat /\ j <= PackAt(w, j)
          BY <5>1, Further DEF Control
        <5> QED
          BY <4>1, <5>2, <5>3
      <4> QED
        BY <4>1, <4>2
    <3> QED
      BY <3>1 DEF Control, Typed
  <2> QED
    BY <2>1 DEF TypeOK, Control, Typed, PcValues
<1> QED
  BY <1>1, Invariance, PTL

\* A sum that a block stores is of the packs all warps loaded in one iteration, for
\* any number of ranks, waves and blocks, in all three kernels.
THEOREM SumsWhole == Spec => []Summed
<1>1. Data => Summed
  BY DEF Data
<1> QED
  BY <1>1, Invariance, PTL

\* When a block has sent its end signal, all its sums are stored, however the waves'
\* iterations and barriers fall together.
THEOREM EndMeansStored == Spec => []EndedIsStored
<1>1. Control /\ Data => EndedIsStored
  <2> SUFFICES ASSUME Control, Data, NEW r \in ended, NEW u \in Warp,
                      NEW v \in 0..(Waves - 1), NEW k \in 0..packs,
                      PackAt(<<u, v>>, k) < packs, u = 0 \/ kernel = "write"
               PROVE  stored[r][u][PackAt(<<u, v>>, k)] = Whole(PackAt(<<u, v>>, k))
    BY DEF EndedIsStored
  <2> DEFINE w == <<u, v>>
             t == trip[r][w]
  <2>1. w \in Wave /\ r \in Rank /\ k \in Nat /\ w[1] = u
    BY AWave DEF Control, Typed
  <2>2. t \in Nat /\ packs \in Nat /\ pc[r][w] \in Past
    BY <2>1 DEF Control, Typed, OutOfLoop
  <2> HIDE DEF w
  <2>3. PackAt(w, t) >= packs
    BY <2>1, <2>2 DEF Control, Travelled
  <2>4. k < t
    <3> SUFFICES ASSUME t <= k PROVE FALSE
      BY <2>1, <2>2
    <3>1. PackAt(w, t) <= PackAt(w, k) /\ PackAt(w, t) \in Nat /\ PackAt(w, k) \in Nat
      BY <2>1, <2>2, Further DEF Control
    <3>2. PackAt(w, k) < packs
      BY DEF w
    <3> QED
      BY <2>2, <2>3, <3>1, <3>2
  <2>5. k \in 0..(t - 1) /\ HasStored(r, w, k)
    BY <2>1, <2>2, <2>4 DEF HasStored, HasSummed, Past
  <2>6. stored[r][w[1]][PackAt(w, k)] = Whole(PackAt(w, k))
    BY <2>1, <2>5 DEF Data, Kept
  <2> QED
    BY <2>1, <2>6 DEF w
<1> QED
  BY <1>1, Invariance, PTL
=============================================================================
