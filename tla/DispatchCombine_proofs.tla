----------------------- MODULE DispatchCombine_proofs -----------------------
(***************************************************************************)
(* Delivered, Packed and Combined for any number of ranks, experts,        *)
(* blocks of each launch, tokens, rows and rounds, any routes and every    *)
(* variant, if the stream runs dispatch and combine in turn and the        *)
(* counters that nobody clears happen to start at zero.                    *)
(***************************************************************************)
EXTENDS DispatchCombine, FiniteSetTheorems, FunctionTheorems, WellFoundedInduction, TLAPS

\* Dispatch and combine take turns, from dispatch on.
InTurn == \A i \in Place : Program[i] = IF i % 2 = 1 THEN "dispatch" ELSE "combine"

\* The new symmetric memory held zeros where dispatch counts: the code has no
\* statement that makes it so.
Cleared == \A r, p \in Rank : tokOff[r] = 0 /\ recvNum[r][p] = 0

-----------------------------------------------------------------------------
(* Where blocks are. Block 0 passes through all of a kernel's places, the  *)
(* others leave out those where it speaks for the rank.                    *)

Claiming      == {"claim", "publish"}
BeforeSignal  == Claiming \cup {"collect"}
BeforeReceive == BeforeSignal \cup {"signal", "receive"}
BeforeRewind  == BeforeReceive \cup {"rewind"}
BeforeGrid    == BeforeRewind \cup {"ticket"}
BeforePack    == BeforeGrid \cup {"grid"}
DispatchPlace == BeforePack \cup {"pack", "ended"}
Scattering    == {"load", "scatter"}
BeforePost    == Scattering \cup {"meet"}
BeforeSum     == BeforePost \cup {"post", "await"}
CombinePlace  == BeforeSum \cup {"sum", "ended"}
First         == {"collect", "signal", "receive", "rewind", "meet", "post"}

InDispatch(r) == place[r] % 2 = 1
InCombine(r)  == place[r] > 0 /\ place[r] % 2 = 0

\* The blocks of a strided loop share its items: w is through when its block,
\* no longer before the loop, is beyond w or out of the loop.
BlockOf(r, w) == w % Grid[place[r]]
Through(r, w, before, loop) ==
  LET l == pc[r][BlockOf(r, w)]
  IN  l \notin before /\ (l \in loop => w < work[r][BlockOf(r, w)])

Past(r, w)      == Through(r, w, {}, Claiming)
Holding(r, w)   == pc[r][BlockOf(r, w)] = "publish" /\ work[r][BlockOf(r, w)] = w
Claimed(r, w)   == Past(r, w) \/ Holding(r, w)
PackedItem(r, w) == Through(r, w, BeforePack, {"pack"})
Scattered(r, i)  == Through(r, i, {"load"}, {"scatter"})
SummedItem(r, w) == Through(r, w, BeforeSum, {"sum"})

\* The items of a rank's round, where each goes, and the token that it sends.
AllItems   == 0..(MaxTok * TopK - 1)
Items(r)   == 0..(Len(Tokens(r)) * TopK - 1)
Goes(r, w) == Owner(Tokens(r)[TokOf(w)][SlotOf(w)])
Sends(r, w) == [round |-> RoundOf(place[r]), src |-> r, tok |-> TokOf(w)]

-----------------------------------------------------------------------------
(* What holds of a rank by itself.                                         *)

Token == [round : Round, src : Rank, tok : 0..MaxTok]

Typed ==
  /\ mode \in Modes /\ route \in Routes
  /\ place \in [Rank -> 0..Len(Program)]
  /\ DOMAIN pc = Rank /\ DOMAIN work = Rank /\ DOMAIN reg = Rank /\ DOMAIN todo = Rank
  /\ tokOff \in [Rank -> Nat] /\ xdbFlag \in [Rank -> Nat] /\ DOMAIN totalRecv = Rank
  /\ destCtr \in [Rank -> [Rank -> Nat]] /\ recvNum \in [Rank -> [Rank -> Nat]]
  /\ xdbMem \in [Rank -> [Rank -> Nat]]
  /\ bar \in [Rank -> [disp : Nat, comb : Nat, grid : Nat]]
  /\ tokMap \in [Rank -> [AllItems -> [pe : 0..World, id : Nat]]]
  /\ recvTok \in [Rank -> [0..(MaxRecv - 1) -> Token]]
  /\ packed \in [Rank -> [Expert -> Seq(Token)]]
  /\ DOMAIN slotMap = Rank /\ DOMAIN inp = Rank /\ DOMAIN combInp = Rank /\ DOMAIN out = Rank
  /\ \A r \in Rank :
       /\ DOMAIN slotMap[r] = 0..(MaxRecv * TopK - 1)
       /\ DOMAIN inp[r] = 0..(MaxRecv - 1)
       /\ DOMAIN combInp[r] = 0..(World * MaxTok - 1)
       /\ DOMAIN out[r] = 1..MaxTok

\* Where a block can be, and what it then has in hand.
Fits(r, b, l, w, g, d) ==
  /\ l \in IF InDispatch(r) THEN DispatchPlace ELSE CombinePlace
  /\ l \in First => b = 0
  /\ l \in {"ticket", "grid", "pack"} => mode = "std"
  /\ w \in Nat /\ d \in SUBSET Rank
  /\ g \in [row : [pe : 0..World, id : Nat], target : Nat, total : Nat, flag : Nat]
  /\ l \in {"signal", "post", "await"} => d # {}
  /\ l = "meet" => d = Rank
  /\ l = "load" => w = b
  /\ l \in Claiming \cup Scattering \cup {"pack", "sum"} => BlockOf(r, w) = b
  /\ l = "publish" => w \in Items(r)

Shaped(r) ==
  /\ DOMAIN pc[r] = Blocks(r) /\ DOMAIN work[r] = Blocks(r)
  /\ DOMAIN reg[r] = Blocks(r) /\ DOMAIN todo[r] = Blocks(r)
  /\ \A b \in Blocks(r) : Fits(r, b, pc[r][b], work[r][b], reg[r][b], todo[r][b])

\* The blocks that have left the places S.
Beyond(r, S) == {b \in Blocks(r) : pc[r][b] \notin S}

\* A barrier counts the blocks that have come, until the first has seen all.
Barriers(r) ==
  /\ bar[r].disp =
       IF InDispatch(r) /\ pc[r][0] \in BeforeSignal THEN Cardinality(Beyond(r, Claiming)) ELSE 0
  /\ bar[r].comb =
       IF InCombine(r) /\ pc[r][0] \in BeforePost THEN Cardinality(Beyond(r, Scattering)) ELSE 0
  /\ InDispatch(r) /\ pc[r][0] \notin BeforeSignal => Beyond(r, Claiming) = Blocks(r)
  /\ InCombine(r) /\ pc[r][0] \notin BeforePost => Beyond(r, Scattering) = Blocks(r)

\* The counter of the grid barrier is that of all calls. Before is what it had
\* when this launch began, and Goal the multiple of its blocks above that, which
\* the first of them waits for. If the launch begins at a multiple, all wait for
\* the last of it; if not, the blocks that come later wait for ever for the next.
Rounded(i, n) == (i \div n + 1) * n

Before(r) == bar[r].grid - Cardinality(Beyond(r, BeforeGrid))
Even(r)   == Before(r) % Grid[place[r]] = 0
Goal(r)   == Rounded(Before(r), Grid[place[r]])

GridBarrier(r) == InDispatch(r) =>
  /\ Before(r) \in Nat
  /\ Even(r) =>
       /\ \A b \in Blocks(r) : pc[r][b] = "grid" => reg[r][b].target = Goal(r)
       /\ (\E b \in Blocks(r) : pc[r][b] \in {"pack", "ended"}) => Beyond(r, BeforeGrid) = Blocks(r)
  /\ ~Even(r) /\ bar[r].grid > Goal(r) =>
       \E b \in Blocks(r) : pc[r][b] = "grid" /\ reg[r][b].target = Goal(r) + Grid[place[r]]

\* The flags of a rank are the numbers of its combines.
Flags(r) ==
  /\ xdbFlag[r] = IF InDispatch(r) \/ (InCombine(r) /\ pc[r][0] \in BeforePost \cup {"post"})
                  THEN RoundOf(place[r]) ELSE RoundOf(place[r]) + 1
  /\ InCombine(r) => \A b \in Blocks(r) :
       pc[r][b] # "load" => reg[r][b].flag = RoundOf(place[r])

-----------------------------------------------------------------------------
(* How far ranks can be apart.                                             *)

\* Rank q's kernel has sent rank p its message, a count or a flag.
Sent(q, p) ==
  /\ pc[q][0] \notin BeforeSignal \cup BeforePost
  /\ pc[q][0] \in {"signal", "post"} => p \notin todo[q][0]

\* Block b of rank p's combine has had the flag of rank q.
Had(p, b, q) ==
  \/ pc[p][b] \in {"sum", "ended"}
  \/ pc[p][b] = "await" /\ q \notin todo[p][b]

\* Rank p's kernel has had the message of rank q.
Got(p, q) ==
  IF InDispatch(p) THEN pc[p][0] \notin BeforeReceive ELSE \E b \in Blocks(p) : Had(p, b, q)

SentAt(q, p, i) == place[q] > i \/ (place[q] = i /\ Sent(q, p))
GotAt(p, q, i)  == place[p] > i \/ (place[p] = i /\ Got(p, q))

\* A rank has no message of a kernel, and no next kernel, before the other has
\* sent it.
Meets ==
  \A p, q \in Rank : place[p] > 0 =>
    /\ place[p] > 1 => SentAt(q, p, place[p] - 1)
    /\ Got(p, q) => SentAt(q, p, place[p])

\* The last dispatch of rank q.
Dispatch(q) == 2 * RoundOf(place[q]) - 1

\* Its count is at rank p, which has not taken it.
Pending(q, p) ==
  place[q] > 0 /\ SentAt(q, p, Dispatch(q)) /\ ~GotAt(p, q, Dispatch(q))

\* The items that have become rows of rank p.
RowsAt(r, p) == {w \in Items(r) : Past(r, w) /\ tokMap[r][w].pe = p}

Counts ==
  \A p, q \in Rank :
    /\ recvNum[p][q] = IF Pending(q, p) THEN Cardinality(RowsAt(q, p)) + 1 ELSE 0
    /\ destCtr[q][p] = IF InDispatch(q) /\ pc[q][0] \in BeforeReceive
                       THEN Cardinality(RowsAt(q, p)) ELSE 0
    /\ xdbMem[p][q] = IF InCombine(q) /\ Sent(q, p) THEN RoundOf(place[q])
                      ELSE IF place[q] = 0 THEN 0 ELSE RoundOf(place[q]) - 1

-----------------------------------------------------------------------------
(* The rows of a round.                                                    *)

\* The round whose tokens the row counter of rank p counts.
CountRound(p) ==
  IF InDispatch(p) /\ pc[p][0] \in BeforeRewind THEN RoundOf(place[p]) ELSE RoundOf(place[p]) + 1

\* The items of that round that have asked for a row of rank p.
Tickets(p) ==
  {i \in Rank \X AllItems :
     LET r == i[1]  w == i[2] IN
     /\ place[r] > 0 /\ RoundOf(place[r]) = CountRound(p)
     /\ w \in Items(r) /\ ~Dup(r, w) /\ Goes(r, w) = p /\ Claimed(r, w)}

RowOf(i) == tokMap[i[1]][i[2]]

Ticketed ==
  \A p \in Rank :
    /\ tokOff[p] = Cardinality(Tickets(p))
    /\ \A i \in Tickets(p) : RowOf(i) # Dropped => RowOf(i).id < tokOff[p]
    /\ \A id \in 0..(MaxRecv - 1) :
         id < tokOff[p] => \E i \in Tickets(p) : RowOf(i) = [pe |-> p, id |-> id]

\* An item's row, if it has one.
Mapped ==
  \A r \in Rank : place[r] > 0 => \A w \in Items(r) :
    /\ Claimed(r, w) =>
         \/ tokMap[r][w] = Dropped
         \/ ~Dup(r, w) /\ tokMap[r][w].pe = Goes(r, w) /\ tokMap[r][w].id < MaxRecv
    /\ Holding(r, w) => tokMap[r][w] # Dropped /\ reg[r][BlockOf(r, w)].row = tokMap[r][w]

\* No two items of a round have the same row.
Unique ==
  \A r, q \in Rank : place[r] > 0 /\ place[q] > 0 /\ RoundOf(place[r]) = RoundOf(place[q]) =>
    \A w \in Items(r), v \in Items(q) :
      Claimed(r, w) /\ Claimed(q, v) /\ tokMap[r][w] = tokMap[q][v] /\ tokMap[r][w] # Dropped
        => r = q /\ w = v

\* The rows of the latest round hold what their senders sent.
Filled ==
  \A r \in Rank : place[r] > 0 /\ (\A q \in Rank : RoundOf(place[q]) <= RoundOf(place[r])) =>
    \A w \in Items(r) : Past(r, w) /\ tokMap[r][w] # Dropped
      => recvTok[tokMap[r][w].pe][tokMap[r][w].id] = Sends(r, w)

-----------------------------------------------------------------------------
(* What a rank has received.                                               *)

\* Rank p has the counts, and has not told the others that it is done.
Holds(p) ==
  IF InDispatch(p) THEN pc[p][0] \notin BeforeReceive ELSE place[p] > 0 /\ pc[p][0] \in BeforePost

Received(p) == Least(MaxRecv, Cardinality(Routed(RoundOf(place[p]), p)))

Summing(p) == \E b \in Blocks(p) : pc[p][b] \in {"sum", "ended"}

Totals ==
  \A p \in Rank :
    /\ totalRecv[p] = IF (InDispatch(p) /\ Holds(p)) \/ (InCombine(p) /\ ~Summing(p))
                      THEN Received(p) ELSE 0
    /\ InCombine(p) =>
         \A b \in Blocks(p) : pc[p][b] # "load" => reg[p][b].total = Received(p)

\* Its rows are those of the items of the round.
Rows ==
  \A p \in Rank : Holds(p) =>
    /\ \A i \in 0..(Received(p) - 1) : \E r \in Rank : \E w \in Items(r) :
         RoundOf(place[r]) = RoundOf(place[p]) /\ Past(r, w) /\ tokMap[r][w] = [pe |-> p, id |-> i]
    /\ \A r \in Rank : \A w \in Items(r) : Past(r, w) /\ tokMap[r][w].pe = p
         => tokMap[r][w].id < Received(p)

-----------------------------------------------------------------------------
(* The packed rows of the std variant.                                     *)

PackItems(r) == 0..(Received(r) * TopK - 1)
RowAt(r, w) == recvTok[r][w \div TopK]
ExpertOf(r, w) == Experts(RowAt(r, w))[SlotOf(w)]

PackedFor(r, e) == {w \in PackItems(r) : Owner(e) = r /\ PackedItem(r, w) /\ ExpertOf(r, w) = e}

PacksAt(r) ==
  /\ \A e \in Expert : Len(packed[r][e]) = Cardinality(PackedFor(r, e))
  /\ \A w \in PackItems(r) : PackedItem(r, w) =>
       LET e == ExpertOf(r, w)
       IN  IF Owner(e) # r THEN slotMap[r][w] = <<>>
           ELSE \E j \in 1..Len(packed[r][e]) : slotMap[r][w] = <<e, j>> /\ packed[r][e][j] = RowAt(r, w)

\* A launch that does not begin at a multiple packs too early, but never ends.
Packing(r) == IF InDispatch(r) THEN Even(r) ELSE Holds(r)

Packs == mode = "std" => \A r \in Rank : GridBarrier(r) /\ (Packing(r) => PacksAt(r))

-----------------------------------------------------------------------------
(* The results.                                                            *)

\* In the copying variant the experts' outputs are where combine reads them.
StagedRows ==
  mode = "copy" => \A p \in Rank : InCombine(p) /\ Holds(p) =>
    \A i \in 0..(Received(p) - 1) : inp[p][i] = Output(p, recvTok[p][i])

\* The cell of a buffer that takes row i of rank p, for token t of rank r.
Cell(r, t, p, i) == IF mode = "zero" THEN combInp[p][i] ELSE combInp[r][Row(p, t)]

\* Rank p has put row i of its combine at place n into that cell.
PutBack(p, i, n) ==
  IF mode = "zero" THEN place[p] >= n ELSE place[p] > n \/ (place[p] = n /\ Scattered(p, i))

\* And when a row is back at its token's rank, it is the output for that token.
Returned ==
  \A r \in Rank : place[r] > 0 => \A w \in Items(r) : Past(r, w) /\ tokMap[r][w] # Dropped =>
    LET p == tokMap[r][w].pe
        i == tokMap[r][w].id
    IN  PutBack(p, i, 2 * RoundOf(place[r])) => Cell(r, TokOf(w), p, i) = Output(p, Sends(r, w))

\* The sums of the blocks that have made theirs.
SumOf(r, t) ==
  [k \in KSlot |->
     LET m == tokMap[r][(t - 1) * TopK + k]
     IN  IF m = Dropped THEN {} ELSE Output(m.pe, [round |-> RoundOf(place[r]), src |-> r, tok |-> t])]

Added ==
  \A r \in Rank : InCombine(r) => \A t \in 1..Len(Tokens(r)) :
    SummedItem(r, t - 1) => out[r][t] = SumOf(r, t)

-----------------------------------------------------------------------------
(* Numbers.                                                                *)

LEMMA Division ==
  ASSUME NEW m \in Nat, NEW d \in Nat \ {0}
  PROVE  m \div d \in Nat /\ m % d \in 0..(d - 1) /\ m = d * (m \div d) + (m % d)
OBVIOUS

LEMMA Multiples ==
  ASSUME NEW a \in Nat, NEW b \in Nat, NEW k \in Nat, a < b
  PROVE  a * k + k <= b * k /\ a * k \in Nat /\ b * k \in Nat
<1>1. PICK d \in Nat : b = a + 1 + d
  <2>1. b - a - 1 \in Nat /\ b = a + 1 + (b - a - 1)
    OBVIOUS
  <2> QED
    BY <2>1
<1>2. b * k = a * k + k + d * k /\ d * k \in Nat /\ a * k \in Nat
  BY <1>1
<1> QED
  BY <1>2

\* A quotient and a remainder are those of their number only.
LEMMA Remainders ==
  ASSUME NEW d \in Nat \ {0}, NEW q \in Nat, NEW k \in 0..(d - 1)
  PROVE  q * d + k \in Nat /\ (q * d + k) \div d = q /\ (q * d + k) % d = k
OBVIOUS

LEMMA Quotients ==
  ASSUME NEW d \in Nat \ {0}, NEW q \in Nat, NEW r \in Nat, NEW i \in 0..(d - 1), NEW j \in 0..(d - 1),
         q * d + i = r * d + j
  PROVE  q = r /\ i = j
BY Remainders

\* The items of a block are a stride apart.
LEMMA Stride ==
  ASSUME NEW d \in Nat \ {0}, NEW v \in Nat
  PROVE  /\ (v + d) % d = v % d
         /\ \A w \in Nat : w % d = v % d => (w < v + d <=> w < v \/ w = v)
<1>1. v \div d \in Nat /\ v % d \in 0..(d - 1) /\ v = d * (v \div d) + (v % d)
  BY Division
<1> DEFINE q == v \div d
           k == v % d
<1>2. q \in Nat /\ k \in 0..(d - 1) /\ v = q * d + k
  BY <1>1
<1> HIDE DEF q, k
<1>3. v + d = (q + 1) * d + k /\ q + 1 \in Nat
  BY <1>2
<1>4. (v + d) % d = k
  BY <1>2, <1>3, Remainders
<1>5. ASSUME NEW w \in Nat, w % d = k, w < v + d, v < w PROVE FALSE
  <2>1. w \div d \in Nat /\ w = d * (w \div d) + k
    BY <1>5, Division
  <2> DEFINE s == w \div d
  <2>2. s \in Nat /\ w = s * d + k
    BY <2>1
  <2> HIDE DEF s
  <2>3. CASE s <= q
    <3>1. s < q \/ s = q
      BY <1>2, <2>2, <2>3
    <3> QED
      BY <1>2, <1>5, <2>2, <3>1, Multiples
  <2>4. CASE q + 1 <= s
    <3>1. q + 1 < s \/ q + 1 = s
      BY <1>2, <2>2, <2>4
    <3> QED
      BY <1>2, <1>3, <1>5, <2>2, <3>1, Multiples
  <2> QED
    BY <1>2, <2>2, <2>3, <2>4
<1>6. v % d = k
  BY DEF k
<1>7. (v + d) % d = v % d
  BY <1>4, <1>6
<1>8. ASSUME NEW w \in Nat, w % d = v % d PROVE w < v + d <=> w < v \/ w = v
  <2>1. w % d = k
    BY <1>6, <1>8
  <2>2. ~(w < v + d /\ v < w)
    BY <1>5, <2>1
  <2> QED
    BY <2>2
<1> QED
  BY <1>7, <1>8

-----------------------------------------------------------------------------
(* Ranks, kernels and rounds.                                              *)

LEMMA ConstantFacts ==
  /\ World \in Nat \ {0} /\ Local \in Nat \ {0} /\ TopK \in Nat \ {0}
  /\ MaxTok \in Nat \ {0} /\ MaxRecv \in Nat \ {0}
  /\ 0 \in Rank /\ 0 \in KSlot /\ \A r \in Rank : r \in Nat /\ r < World
  /\ Len(Program) \in Nat /\ \A i \in Place : Grid[i] \in Nat \ {0}
BY ConstantsAssumption DEF ConstantsAssumption, Rank, KSlot, Place

\* The dispatches up to place i.
LEMMA Rounds ==
  ASSUME InTurn, NEW i \in 0..Len(Program)
  PROVE  RoundOf(i) = (i + 1) \div 2 /\ RoundOf(i) \in Round
<1> DEFINE n == (i + 1) \div 2
           D == {j \in 1..i : Program[j] = "dispatch"}
           f == [k \in 1..n |-> 2 * k - 1]
<1>1. i \in Nat /\ n \in Nat /\ 2 * n <= i + 1 /\ i <= 2 * n
  BY ConstantFacts
<1>2. ASSUME NEW j \in 1..i PROVE Program[j] = "dispatch" <=> j % 2 = 1
  <2>1. j \in Place
    BY ConstantFacts DEF Place
  <2> QED
    BY <2>1 DEF InTurn
<1>3. f \in Bijection(1..n, D)
  <2>1. ASSUME NEW k \in 1..n PROVE f[k] \in D
    <3>1. 2 * k - 1 \in 1..i /\ (2 * k - 1) % 2 = 1
      BY <1>1
    <3> QED
      BY <1>2, <3>1
  <2>2. ASSUME NEW k \in 1..n, NEW l \in 1..n, f[k] = f[l] PROVE k = l
    BY <2>2
  <2>3. ASSUME NEW j \in D PROVE \E k \in 1..n : f[k] = j
    <3>1. j \in 1..i /\ j % 2 = 1
      BY <1>2
    <3>2. (j + 1) \div 2 \in 1..n /\ 2 * ((j + 1) \div 2) - 1 = j
      BY <1>1, <3>1
    <3> QED
      BY <3>2
  <2> QED
    BY <2>1, <2>2, <2>3 DEF Bijection, Injection, Surjection, IsInjective
<1>4. IsFiniteSet(D) /\ Cardinality(D) = n
  <2>1. IsFiniteSet(1..n) /\ Cardinality(1..n) = n
    BY <1>1, FS_Interval
  <2>2. ExistsBijection(1..n, D)
    BY <1>3 DEF ExistsBijection
  <2> QED
    BY <2>1, <2>2, FS_Bijection
<1>5. n <= Cardinality({j \in Place : Program[j] = "dispatch"})
      /\ Cardinality({j \in Place : Program[j] = "dispatch"}) \in Nat
  <2> DEFINE E == {j \in Place : Program[j] = "dispatch"}
  <2>1. IsFiniteSet(Place)
    BY ConstantFacts, FS_Interval DEF Place
  <2>2. IsFiniteSet(E) /\ E \subseteq Place
    BY <2>1, FS_Subset
  <2>3. D \in SUBSET E
    BY ConstantFacts DEF Place
  <2>4. Cardinality(E) \in Nat
    BY <2>2, FS_CardinalityType
  <2>5. Cardinality(D) <= Cardinality(E)
    BY <2>2, <2>3, FS_Subset
  <2> QED
    BY <1>4, <2>4, <2>5
<1> QED
  BY <1>1, <1>4, <1>5 DEF RoundOf, Round

\* A set of numbers has a least one.
LEMMA LeastOf ==
  ASSUME NEW T, T \subseteq Nat, T # {}
  PROVE  \E x \in T : \A y \in T : x <= y
<1>1. PICK R : IsWellFoundedOn(R, Nat) /\ \A x, y \in Nat : y < x => <<y, x>> \in R
  <2> DEFINE S == OpToRel(<, Nat)
  <2>1. IsWellFoundedOn(S, Nat)
    BY NatLessThanWellFounded
  <2>2. \A x, y \in Nat : y < x => <<y, x>> \in S
    BY DEF OpToRel
  <2> HIDE DEF S
  <2> QED
    BY <2>1, <2>2, Zenon
<1>2. PICK x \in T : \A y \in T : ~(<<y, x>> \in R)
  BY <1>1, WFMin
<1>3. ASSUME NEW y \in T PROVE x <= y
  <2>1. x \in Nat /\ y \in Nat /\ ~(y < x)
    BY <1>1, <1>2
  <2> QED
    BY <2>1
<1> QED
  BY <1>3

\* The round of a place, by the kernel that runs there.
LEMMA PlaceFacts ==
  ASSUME InTurn, Typed, NEW r \in Rank
  PROVE  /\ place[r] \in Nat /\ place[r] <= Len(Program)
         /\ RoundOf(place[r]) \in Nat /\ RoundOf(place[r]) \in Round
         /\ place[r] = 0 => RoundOf(place[r]) = 0
         /\ place[r] > 0 => /\ RoundOf(place[r]) > 0 /\ place[r] \in Place
                            /\ Grid[place[r]] \in Nat \ {0} /\ 0 \in Blocks(r)
                            /\ Blocks(r) = 0..(Grid[place[r]] - 1)
         /\ InDispatch(r) => place[r] > 0 /\ place[r] = 2 * RoundOf(place[r]) - 1
         /\ InCombine(r) => place[r] = 2 * RoundOf(place[r])
         /\ InDispatch(r) <=> Runs(r, "dispatch")
         /\ InCombine(r) <=> Runs(r, "combine")
         /\ place[r] > 0 => (InDispatch(r) <=> ~InCombine(r))
<1>1. place[r] \in 0..Len(Program) /\ Len(Program) \in Nat
  BY ConstantFacts DEF Typed
<1>2. RoundOf(place[r]) = (place[r] + 1) \div 2 /\ RoundOf(place[r]) \in Round
  BY <1>1, Rounds
<1>3. place[r] > 0 => place[r] \in Place /\ Grid[place[r]] \in Nat \ {0}
  BY <1>1, ConstantFacts DEF Place
<1>4. place[r] > 0 => Program[place[r]] = IF place[r] % 2 = 1 THEN "dispatch" ELSE "combine"
  BY <1>3 DEF InTurn
<1>5. place[r] > 0 => Blocks(r) = 0..(Grid[place[r]] - 1) /\ 0 \in Blocks(r)
  BY <1>1, <1>3 DEF Blocks
<1> DEFINE i == place[r]
<1>6. i \in Nat /\ i <= Len(Program) /\ RoundOf(i) = (i + 1) \div 2
  BY <1>1, <1>2
<1>7. (InDispatch(r) <=> i % 2 = 1) /\ (InCombine(r) <=> i > 0 /\ i % 2 = 0)
  BY DEF InDispatch, InCombine
<1>8. /\ Runs(r, "dispatch") <=> i # 0 /\ Program[i] = "dispatch"
      /\ Runs(r, "combine") <=> i # 0 /\ Program[i] = "combine"
  BY DEF Runs
<1>9. i > 0 => Program[i] = IF i % 2 = 1 THEN "dispatch" ELSE "combine"
  BY <1>4
<1> HIDE DEF i
<1>10. /\ RoundOf(i) \in Nat /\ (i = 0 => RoundOf(i) = 0) /\ (i > 0 => RoundOf(i) > 0)
       /\ i % 2 = 1 => i > 0 /\ i = 2 * RoundOf(i) - 1
       /\ i % 2 = 0 => i = 2 * RoundOf(i)
       /\ i % 2 = 1 \/ i % 2 = 0
  BY <1>6
<1>11. /\ InDispatch(r) <=> Runs(r, "dispatch")
       /\ InCombine(r) <=> Runs(r, "combine")
  BY <1>6, <1>7, <1>8, <1>9, <1>10
<1> QED
  BY <1>2, <1>3, <1>5, <1>6, <1>7, <1>10, <1>11 DEF i

\* Two ranks in one round are at most a kernel apart.
LEMMA SameRound ==
  ASSUME InTurn, Typed, NEW r \in Rank, NEW q \in Rank
  PROVE  /\ place[r] <= place[q] => RoundOf(place[r]) <= RoundOf(place[q])
         /\ RoundOf(place[r]) = RoundOf(place[q]) /\ place[r] > 0 /\ place[q] > 0
              => /\ InDispatch(r) /\ InDispatch(q) => place[r] = place[q]
                 /\ InCombine(r) /\ InCombine(q) => place[r] = place[q]
                 /\ InDispatch(r) /\ InCombine(q) => place[q] = place[r] + 1
<1>1. /\ place[r] \in 0..Len(Program) /\ place[q] \in 0..Len(Program) /\ Len(Program) \in Nat
      /\ RoundOf(place[r]) = (place[r] + 1) \div 2 /\ RoundOf(place[q]) = (place[q] + 1) \div 2
  BY ConstantFacts, Rounds DEF Typed
<1> DEFINE i == place[r]
           j == place[q]
<1>2. /\ i \in Nat /\ j \in Nat /\ RoundOf(i) = (i + 1) \div 2 /\ RoundOf(j) = (j + 1) \div 2
      /\ (InDispatch(r) <=> i % 2 = 1) /\ (InCombine(r) <=> i > 0 /\ i % 2 = 0)
      /\ (InDispatch(q) <=> j % 2 = 1) /\ (InCombine(q) <=> j > 0 /\ j % 2 = 0)
  BY <1>1 DEF InDispatch, InCombine
<1> HIDE DEF i, j
<1>3. /\ i <= j => RoundOf(i) <= RoundOf(j)
      /\ RoundOf(i) = RoundOf(j) /\ i > 0 /\ j > 0
              => /\ InDispatch(r) /\ InDispatch(q) => i = j
                 /\ InCombine(r) /\ InCombine(q) => i = j
                 /\ InDispatch(r) /\ InCombine(q) => j = i + 1
  BY <1>2
<1> QED
  BY <1>3 DEF i, j

\* The tokens of a round.
LEMMA RouteFacts ==
  ASSUME Typed, NEW n \in Round, n > 0, NEW r \in Rank
  PROVE  /\ Len(route[n][r]) \in 0..MaxTok
         /\ \A t \in 1..Len(route[n][r]) :
              /\ \A k \in KSlot : route[n][r][t][k] \in Expert
              /\ \A j, k \in KSlot : j # k => route[n][r][t][j] # route[n][r][t][k]
<1>0. n \in Round \ {0} /\ route \in Routes
  BY DEF Round, Typed
<1>1. /\ route[n][r] \in Seq([KSlot -> Expert]) /\ Len(route[n][r]) <= MaxTok
      /\ \A t \in 1..Len(route[n][r]) : \A j, k \in KSlot : j # k => route[n][r][t][j] # route[n][r][t][k]
  BY <1>0, ConstantsAssumption DEF ConstantsAssumption
<1>2. MaxTok \in Nat
  BY ConstantFacts
<1>3. \A t \in 1..Len(route[n][r]) : route[n][r][t] \in [KSlot -> Expert]
  BY <1>1
<1> QED
  BY <1>1, <1>2, <1>3

LEMMA OwnerIsRank == \A e \in Expert : Owner(e) \in Rank
<1> SUFFICES ASSUME NEW e \in Expert PROVE Owner(e) \in Rank
  OBVIOUS
<1>1. World \in Nat /\ Local \in Nat \ {0}
  BY ConstantFacts
<1>2. World * Local \in Nat
  BY <1>1
<1>3. e \in Nat /\ e < World * Local
  BY <1>2 DEF Expert
<1>9. e \div Local \in Nat /\ e % Local \in 0..(Local - 1)
      /\ e = Local * (e \div Local) + (e % Local)
  BY <1>1, <1>3, Division
<1> DEFINE q == e \div Local
           k == e % Local
<1>4. q \in Nat /\ k \in 0..(Local - 1) /\ e = q * Local + k
  BY <1>1, <1>9
<1> HIDE DEF q, k
<1>5. q < World
  <2> SUFFICES ASSUME World <= q PROVE FALSE
    BY <1>1, <1>4
  <2>1. World < q \/ World = q
    BY <1>1, <1>4
  <2>2. World * Local <= q * Local /\ q * Local \in Nat
    BY <1>1, <1>4, <2>1, Multiples
  <2> QED
    BY <1>1, <1>2, <1>3, <1>4, <2>2
<1> QED
  BY <1>1, <1>4, <1>5 DEF Owner, Rank, q

\* The items of a strided loop over n tokens or rows: each is a token and a k-slot.
LEMMA ItemFacts ==
  ASSUME NEW n \in Nat, NEW w \in 0..(n * TopK - 1)
  PROVE  /\ w \in Nat /\ w \div TopK \in 0..(n - 1) /\ TokOf(w) \in 1..n /\ SlotOf(w) \in KSlot
         /\ w = (w \div TopK) * TopK + SlotOf(w) /\ w = (TokOf(w) - 1) * TopK + SlotOf(w)
<1>1. TopK \in Nat \ {0} /\ n * TopK \in Nat /\ w \in Nat /\ w < n * TopK
  BY ConstantFacts
<1>9. w \div TopK \in Nat /\ w % TopK \in 0..(TopK - 1)
      /\ w = TopK * (w \div TopK) + (w % TopK)
  BY <1>1, Division
<1> DEFINE q == w \div TopK
           k == w % TopK
<1>2. q \in Nat /\ k \in 0..(TopK - 1) /\ w = q * TopK + k
  BY <1>1, <1>9
<1>3. TokOf(w) = q + 1 /\ SlotOf(w) = k
  BY DEF TokOf, SlotOf
<1> HIDE DEF q, k
<1>4. q < n
  <2> SUFFICES ASSUME n <= q PROVE FALSE
    BY <1>2
  <2>1. n < q \/ n = q
    BY <1>2
  <2>2. n * TopK <= q * TopK /\ q * TopK \in Nat
    BY <1>1, <1>2, <2>1, Multiples
  <2> QED
    BY <1>1, <1>2, <2>2
<1>5. q \in 0..(n - 1) /\ q + 1 \in 1..n /\ k \in KSlot /\ (q + 1) - 1 = q
  BY <1>2, <1>4 DEF KSlot
<1> QED
  BY <1>1, <1>2, <1>3, <1>5 DEF q

LEMMA ItemIs ==
  ASSUME NEW n \in Nat, NEW i \in 0..(n - 1), NEW k \in KSlot
  PROVE  /\ i * TopK + k \in 0..(n * TopK - 1) /\ i * TopK + k \in Nat
         /\ (i * TopK + k) \div TopK = i /\ TokOf(i * TopK + k) = i + 1 /\ SlotOf(i * TopK + k) = k
<1>1. TopK \in Nat \ {0} /\ n * TopK \in Nat /\ k \in 0..(TopK - 1) /\ i \in Nat /\ i < n
  BY ConstantFacts DEF KSlot
<1>2. i * TopK + k \in Nat /\ (i * TopK + k) \div TopK = i /\ (i * TopK + k) % TopK = k
  BY <1>1, Remainders
<1>3. i * TopK + TopK <= n * TopK /\ i * TopK \in Nat
  BY <1>1, Multiples
<1>4. i * TopK + k < n * TopK
  BY <1>1, <1>3
<1> QED
  BY <1>1, <1>2, <1>4 DEF TokOf, SlotOf

-----------------------------------------------------------------------------
(* The invariant, in two halves: what Delivered needs, and the rest.       *)

Ranks == \A r \in Rank : Shaped(r) /\ Barriers(r) /\ Flags(r)

Delivering ==
  /\ Typed /\ Ranks /\ Meets /\ Counts
  /\ Ticketed /\ Mapped /\ Unique /\ Filled /\ Totals /\ Rows

-----------------------------------------------------------------------------
(* What a step of rank r leaves alone.                                     *)

\* A step of a kernel that runs.
Works(r) == DispatchStep(r) \/ CombineStep(r)

\* What only rank q writes.
Own(q) ==
  /\ pc'[q] = pc[q] /\ work'[q] = work[q] /\ reg'[q] = reg[q] /\ todo'[q] = todo[q]
  /\ bar'[q] = bar[q] /\ xdbFlag'[q] = xdbFlag[q] /\ destCtr'[q] = destCtr[q]
  /\ tokMap'[q] = tokMap[q] /\ totalRecv'[q] = totalRecv[q]
  /\ packed'[q] = packed[q] /\ slotMap'[q] = slotMap[q] /\ inp'[q] = inp[q] /\ out'[q] = out[q]

LEMMA OthersRest ==
  ASSUME Typed, NEW r \in Rank, Works(r)
  PROVE  \A q \in Rank \ {r} : Own(q)
<1> SUFFICES ASSUME NEW q \in Rank \ {r} PROVE Own(q)
  OBVIOUS
<1> USE DEF Own, Goto, Advance, dispatchVars, stdVars, combineVars, Typed
<1>1. ASSUME NEW b \in Blocks(r), Claim(r, b) PROVE Own(q)
  <2>1. \E m : tokMap' = [tokMap EXCEPT ![r][work[r][b]] = m]
    BY <1>1 DEF Claim
  <2>2. work' = work \/ Advance(r, b)
    BY <1>1 DEF Claim
  <2>3. pc' = pc \/ Goto(r, b, "publish")
    BY <1>1 DEF Claim
  <2>4. reg' = reg \/ \E m : reg' = [reg EXCEPT ![r][b].row = m]
    BY <1>1 DEF Claim
  <2>5. UNCHANGED <<todo, bar, xdbFlag, destCtr, totalRecv, packed, slotMap, inp, out>>
    BY <1>1 DEF Claim
  <2> QED
    BY <2>1, <2>2, <2>3, <2>4, <2>5
<1>2. ASSUME NEW b \in Blocks(r), Publish(r, b) PROVE Own(q)
  BY <1>2 DEF Publish
<1>3. ASSUME NEW b \in Blocks(r), ArriveDispatch(r, b) PROVE Own(q)
  BY <1>3 DEF ArriveDispatch
<1>4. CASE Collect(r)
  BY <1>4 DEF Collect
<1>5. ASSUME NEW p \in Rank, Signal(r, p) PROVE Own(q)
  BY <1>5 DEF Signal
<1>6. CASE Receive(r)
  BY <1>6 DEF Receive
<1>7. CASE Rewind(r)
  BY <1>7 DEF Rewind
<1>8. ASSUME NEW b \in Blocks(r), Ticket(r, b) PROVE Own(q)
  BY <1>8 DEF Ticket
<1>9. ASSUME NEW b \in Blocks(r), PassGrid(r, b) PROVE Own(q)
  BY <1>9 DEF PassGrid
<1>10. ASSUME NEW b \in Blocks(r), Pack(r, b) PROVE Own(q)
  BY <1>10 DEF Pack
<1>11. ASSUME NEW b \in Blocks(r), EndDispatch(r, b) PROVE Own(q)
  BY <1>11 DEF EndDispatch
<1>12. ASSUME NEW b \in Blocks(r), Load(r, b) PROVE Own(q)
  BY <1>12 DEF Load
<1>13. ASSUME NEW b \in Blocks(r), Scatter(r, b) PROVE Own(q)
  BY <1>13 DEF Scatter
<1>14. ASSUME NEW b \in Blocks(r), ArriveCombine(r, b) PROVE Own(q)
  BY <1>14 DEF ArriveCombine
<1>15. CASE Meet(r)
  BY <1>15 DEF Meet
<1>16. ASSUME NEW p \in Rank, Post(r, p) PROVE Own(q)
  BY <1>16 DEF Post
<1>17. ASSUME NEW b \in Blocks(r), NEW p \in Rank, Await(r, b, p) PROVE Own(q)
  BY <1>17 DEF Await
<1>18. ASSUME NEW b \in Blocks(r), Sum(r, b) PROVE Own(q)
  BY <1>18 DEF Sum
<1>19. ASSUME NEW b \in Blocks(r), EndCombine(r, b) PROVE Own(q)
  BY <1>19 DEF EndCombine
<1> HIDE DEF Own, Goto, Advance, dispatchVars, stdVars, combineVars, Typed
<1> QED
  BY <1>1, <1>2, <1>3, <1>4, <1>5, <1>6, <1>7, <1>8, <1>9, <1>10, <1>11, <1>12, <1>13, <1>14,
     <1>15, <1>16, <1>17, <1>18, <1>19 DEF Works, DispatchStep, CombineStep

\* Kernels that run leave the streams where they are.
LEMMA StreamsStay ==
  ASSUME NEW r, Works(r)
  PROVE  place' = place /\ mode' = mode /\ route' = route /\ inp' = inp
BY DEF Works, DispatchStep, CombineStep, Claim, Publish, ArriveDispatch, Collect, Signal, Receive, Rewind,
       Ticket, PassGrid, Pack, EndDispatch, Load, Scatter, ArriveCombine, Meet, Post, Await, Sum,
       EndCombine, combineVars

\* The items of a rank in a round.
LEMMA ItemsFit ==
  ASSUME InTurn, Typed, NEW r \in Rank, place[r] > 0
  PROVE  /\ Len(Tokens(r)) \in 0..MaxTok /\ Items(r) \subseteq AllItems
         /\ \A t \in 1..Len(Tokens(r)) : \A j, k \in KSlot :
              /\ Tokens(r)[t][k] \in Expert
              /\ j # k => Tokens(r)[t][j] # Tokens(r)[t][k]
         /\ \A w \in Items(r) :
              /\ w \in Nat /\ TokOf(w) \in 1..Len(Tokens(r)) /\ SlotOf(w) \in KSlot
              /\ w = (TokOf(w) - 1) * TopK + SlotOf(w)
              /\ Goes(r, w) \in Rank /\ Sends(r, w) \in Token
<1> DEFINE n == RoundOf(place[r])
           len == Len(Tokens(r))
<1>1. n \in Round /\ n > 0 /\ Tokens(r) = route[n][r]
  BY PlaceFacts DEF Tokens
<1>2. len \in 0..MaxTok /\ MaxTok \in Nat
  BY <1>1, RouteFacts, ConstantFacts
<1>3. \A t \in 1..Len(Tokens(r)) : \A j, k \in KSlot :
              /\ Tokens(r)[t][k] \in Expert
              /\ j # k => Tokens(r)[t][j] # Tokens(r)[t][k]
  BY <1>1, RouteFacts
<1>4. len \in Nat /\ Items(r) = 0..(len * TopK - 1)
  BY <1>2 DEF Items
<1>5. Items(r) \subseteq AllItems
  <2>1. TopK \in Nat /\ MaxTok * TopK \in Nat /\ len * TopK \in Nat
    BY <1>2, <1>4, ConstantFacts
  <2>2. len < MaxTok \/ len = MaxTok
    BY <1>2
  <2>3. len * TopK <= MaxTok * TopK
    BY <1>2, <1>4, <2>1, <2>2, Multiples
  <2> QED
    BY <1>4, <2>1, <2>3 DEF AllItems
<1>6. ASSUME NEW w \in Items(r)
      PROVE  /\ w \in Nat /\ TokOf(w) \in 1..len /\ SlotOf(w) \in KSlot
             /\ w = (TokOf(w) - 1) * TopK + SlotOf(w)
  BY <1>4, <1>6, ItemFacts
<1>7. ASSUME NEW w \in Items(r) PROVE Goes(r, w) \in Rank /\ Sends(r, w) \in Token
  <2>1. Tokens(r)[TokOf(w)][SlotOf(w)] \in Expert
    BY <1>3, <1>6
  <2>2. TokOf(w) \in 0..MaxTok
    BY <1>2, <1>6
  <2> QED
    BY <1>1, <2>1, <2>2, OwnerIsRank DEF Goes, Sends, Token
<1> QED
  BY <1>2, <1>3, <1>5, <1>6, <1>7

\* An item is its token and the rank it goes to, if it goes there first.
LEMMA ItemsDiffer ==
  ASSUME InTurn, Typed, NEW r \in Rank, place[r] > 0, NEW w \in Items(r), NEW v \in Items(r),
         ~Dup(r, w), ~Dup(r, v), TokOf(w) = TokOf(v), Goes(r, w) = Goes(r, v)
  PROVE  w = v
<1>1. /\ SlotOf(w) \in KSlot /\ SlotOf(v) \in KSlot
      /\ w = (TokOf(w) - 1) * TopK + SlotOf(w) /\ v = (TokOf(v) - 1) * TopK + SlotOf(v)
  BY ItemsFit
<1>2. ~(SlotOf(w) < SlotOf(v)) /\ ~(SlotOf(v) < SlotOf(w))
  BY <1>1 DEF Dup, Goes
<1>3. SlotOf(w) \in Int /\ SlotOf(v) \in Int
  BY <1>1 DEF KSlot
<1> QED
  BY <1>1, <1>2, <1>3

\* How many tokens go to a rank is a number.
LEMMA RoutedFinite ==
  ASSUME NEW n, NEW p
  PROVE  IsFiniteSet(Routed(n, p)) /\ Cardinality(Routed(n, p)) \in Nat
<1> DEFINE S == Rank \X (1..MaxTok)
           T == [round : {n}, src : Rank, tok : 1..MaxTok]
           f == [i \in S |-> [round |-> n, src |-> i[1], tok |-> i[2]]]
<1>1. IsFiniteSet(Rank) /\ IsFiniteSet(1..MaxTok)
  BY ConstantFacts, FS_Interval DEF Rank
<1>2. IsFiniteSet(S)
  BY <1>1, FS_Product
<1>3. f \in Surjection(S, T)
  <2>1. \A i \in S : f[i] \in T
    OBVIOUS
  <2>2. ASSUME NEW x \in T PROVE \E i \in S : f[i] = x
    <3>1. x = [round |-> n, src |-> x.src, tok |-> x.tok] /\ <<x.src, x.tok>> \in S
      OBVIOUS
    <3> QED
      BY <3>1
  <2> QED
    BY <2>1, <2>2 DEF Surjection
<1>4. IsFiniteSet(T)
  BY <1>2, <1>3, FS_Surjection
<1>5. Routed(n, p) \in SUBSET T
  BY DEF Routed
<1> QED
  BY <1>4, <1>5, FS_Subset, FS_CardinalityType

LEMMA ReceivedNat == \A p : Received(p) \in Nat /\ Received(p) <= MaxRecv
BY RoutedFinite, ConstantFacts DEF Received, Least

-----------------------------------------------------------------------------
(* The cases of a claim, and what a publication finds.                     *)

\* Item w is settled without a row.
Dismissed(r, b, w) ==
  tokMap' = [tokMap EXCEPT ![r][w] = Dropped] /\ Advance(r, b) /\ UNCHANGED <<pc, reg>>

\* Item w has row m.
Granted(r, b, w, m) ==
  /\ tokMap' = [tokMap EXCEPT ![r][w] = m] /\ reg' = [reg EXCEPT ![r][b].row = m]
  /\ Goto(r, b, "publish") /\ UNCHANGED work

LEMMA ClaimCases ==
  ASSUME InTurn, Typed, Ranks, NEW r \in Rank, NEW b \in Blocks(r), Claim(r, b)
  PROVE  LET w == work[r][b]
             p == Goes(r, w)
         IN /\ w \in Items(r) /\ p \in Rank /\ BlockOf(r, w) = b /\ InDispatch(r) /\ pc[r][b] = "claim"
            /\ \/ Dup(r, w) /\ UNCHANGED tokOff /\ Dismissed(r, b, w)
               \/ /\ ~Dup(r, w) /\ tokOff' = [tokOff EXCEPT ![p] = @ + 1]
                  /\ tokOff[p] >= MaxRecv /\ Dismissed(r, b, w)
               \/ /\ ~Dup(r, w) /\ tokOff' = [tokOff EXCEPT ![p] = @ + 1]
                  /\ tokOff[p] < MaxRecv /\ Granted(r, b, w, [pe |-> p, id |-> tokOff[p]])
            /\ UNCHANGED <<mode, route, place, todo, destCtr, bar, recvNum, totalRecv, recvTok,
                           stdVars, combineVars>>
<1> DEFINE w == work[r][b]
           p == Goes(r, w)
<1>1. pc[r][b] = "claim" /\ Shaped(r)
  BY DEF Claim, Ranks
<1>2. InDispatch(r)
  BY <1>1 DEF Shaped, Fits, CombinePlace, BeforeSum, BeforePost, Scattering
<1>3. place[r] > 0
  BY <1>2, PlaceFacts
<1>4. w \in Nat /\ BlockOf(r, w) = b
  BY <1>1 DEF Shaped, Fits, Claiming
<1>5. w \in Items(r)
  <2>1. Len(Tokens(r)) \in Nat /\ TopK \in Nat
    BY <1>3, ItemsFit, ConstantFacts
  <2>2. w < Len(Tokens(r)) * TopK /\ Len(Tokens(r)) * TopK \in Nat
    BY <2>1 DEF Claim
  <2> QED
    BY <1>4, <2>2 DEF Items
<1>6. p \in Rank
  BY <1>3, <1>5, ItemsFit
<1>7. tokOff[p] \in Nat /\ MaxRecv \in Nat
  BY <1>6, ConstantFacts DEF Typed
<1>8. UNCHANGED <<mode, route, place, todo, destCtr, bar, recvNum, totalRecv, recvTok, stdVars, combineVars>>
  BY DEF Claim
<1>9. tokMap'[r][w] = [pe |-> p, id |-> tokOff[p]] \/ tokMap' # [tokMap EXCEPT ![r][w] = [pe |-> p, id |-> tokOff[p]]]
  <2>1. r \in DOMAIN tokMap /\ w \in DOMAIN tokMap[r]
    BY <1>3, <1>5, ItemsFit DEF Typed
  <2> QED
    BY <2>1
<1>10. CASE Dup(r, w)
  BY <1>1, <1>2, <1>4, <1>5, <1>6, <1>8, <1>10 DEF Claim, Dismissed
<1>11. CASE ~Dup(r, w) /\ ~InCap(tokOff[p])
  <2>1. tokOff[p] >= MaxRecv
    BY <1>7, <1>11 DEF InCap
  <2>2. tokOff' = [tokOff EXCEPT ![p] = @ + 1] /\ Dismissed(r, b, w)
    BY <1>11 DEF Claim, Goes, Dismissed
  <2> QED
    BY <1>1, <1>2, <1>4, <1>5, <1>6, <1>8, <1>11, <2>1, <2>2
<1>12. CASE ~Dup(r, w) /\ InCap(tokOff[p])
  <2>1. tokOff[p] < MaxRecv
    BY <1>12 DEF InCap
  <2>2. /\ tokOff' = [tokOff EXCEPT ![p] = @ + 1]
        /\ tokMap' = [tokMap EXCEPT ![r][w] = [pe |-> p, id |-> tokOff[p]]]
        /\ reg' = [reg EXCEPT ![r][b].row = tokMap'[r][w]]
        /\ Goto(r, b, "publish") /\ UNCHANGED work
    BY <1>12 DEF Claim, Goes
  <2>3. Granted(r, b, w, [pe |-> p, id |-> tokOff[p]])
    BY <1>9, <2>2 DEF Granted
  <2> QED
    BY <1>1, <1>2, <1>4, <1>5, <1>6, <1>8, <1>12, <2>1, <2>2, <2>3
<1> QED
  BY <1>10, <1>11, <1>12

LEMMA PublishFacts ==
  ASSUME InTurn, Delivering, NEW r \in Rank, NEW b \in Blocks(r), Publish(r, b)
  PROVE  LET w == work[r][b]
             p == Goes(r, w)
             m == tokMap[r][w]
         IN  /\ w \in Items(r) /\ BlockOf(r, w) = b /\ InDispatch(r) /\ pc[r][b] = "publish"
             /\ p \in Rank /\ m # Dropped /\ m.pe = p /\ m.id \in 0..(MaxRecv - 1) /\ ~Dup(r, w)
             /\ Holding(r, w)
             /\ recvTok' = [recvTok EXCEPT ![p][m.id] = Sends(r, w)]
             /\ destCtr' = [destCtr EXCEPT ![r][p] = @ + 1]
             /\ Advance(r, b) /\ Goto(r, b, "claim")
             /\ UNCHANGED <<mode, route, place, reg, todo, tokOff, bar, recvNum, totalRecv, tokMap,
                            stdVars, combineVars>>
<1> DEFINE w == work[r][b]
           p == Goes(r, w)
           m == tokMap[r][w]
<1>1. pc[r][b] = "publish" /\ Shaped(r) /\ Typed
  BY DEF Publish, Delivering, Ranks
<1>2. InDispatch(r)
  BY <1>1 DEF Shaped, Fits, CombinePlace, BeforeSum, BeforePost, Scattering
<1>3. place[r] > 0
  BY <1>1, <1>2, PlaceFacts
<1>4. w \in Items(r) /\ BlockOf(r, w) = b
  BY <1>1 DEF Shaped, Fits, Claiming
<1>5. p \in Rank /\ m \in [pe : 0..World, id : Nat]
  <2>1. p \in Rank /\ w \in AllItems
    BY <1>1, <1>3, <1>4, ItemsFit
  <2>2. tokMap \in [Rank -> [AllItems -> [pe : 0..World, id : Nat]]]
    BY <1>1 DEF Typed
  <2> QED
    BY <2>1, <2>2
<1>6. Holding(r, w)
  BY <1>1, <1>4 DEF Holding
<1>7. m # Dropped /\ reg[r][b].row = m /\ ~Dup(r, w) /\ m.pe = p /\ m.id < MaxRecv
  BY <1>3, <1>4, <1>6 DEF Delivering, Mapped, Claimed
<1>8. m.id \in 0..(MaxRecv - 1)
  BY <1>5, <1>7, ConstantFacts
<1>9. /\ recvTok' = [recvTok EXCEPT ![p][m.id] = Sends(r, w)]
      /\ destCtr' = [destCtr EXCEPT ![r][p] = @ + 1]
      /\ Advance(r, b) /\ Goto(r, b, "claim")
      /\ UNCHANGED <<mode, route, place, reg, todo, tokOff, bar, recvNum, totalRecv, tokMap,
                            stdVars, combineVars>>
  BY <1>7 DEF Publish, Sends
<1> QED
  BY <1>1, <1>2, <1>4, <1>5, <1>6, <1>7, <1>8, <1>9

-----------------------------------------------------------------------------
(* What a step makes of the block that takes it.                           *)

\* Block b of rank r goes on to label l with item w, registers g and peers d.
Turn(r, b, l, w, g, d) ==
  /\ DOMAIN pc'[r] = Blocks(r) /\ DOMAIN work'[r] = Blocks(r)
  /\ DOMAIN reg'[r] = Blocks(r) /\ DOMAIN todo'[r] = Blocks(r)
  /\ \A c \in Blocks(r) :
       /\ pc'[r][c] = IF c = b THEN l ELSE pc[r][c]
       /\ work'[r][c] = IF c = b THEN w ELSE work[r][c]
       /\ reg'[r][c] = IF c = b THEN g ELSE reg[r][c]
       /\ todo'[r][c] = IF c = b THEN d ELSE todo[r][c]

\* A function of rank and block, with one value replaced.
LEMMA OneBlock ==
  ASSUME NEW f, DOMAIN f = Rank, NEW r \in Rank, NEW b \in DOMAIN f[r], NEW v, NEW g,
         g = [f EXCEPT ![r][b] = v]
  PROVE  DOMAIN g[r] = DOMAIN f[r] /\ \A c \in DOMAIN f[r] : g[r][c] = IF c = b THEN v ELSE f[r][c]
OBVIOUS

LEMMA TurnIs ==
  ASSUME Typed, NEW r \in Rank, Shaped(r), NEW b \in Blocks(r), NEW l, NEW w, NEW g, NEW d,
         pc' = [pc EXCEPT ![r][b] = l] \/ (l = pc[r][b] /\ pc' = pc),
         work' = [work EXCEPT ![r][b] = w] \/ (w = work[r][b] /\ work' = work),
         reg' = [reg EXCEPT ![r][b] = g] \/ (g = reg[r][b] /\ reg' = reg),
         todo' = [todo EXCEPT ![r][b] = d] \/ (d = todo[r][b] /\ todo' = todo)
  PROVE  Turn(r, b, l, w, g, d)
<1>1. /\ DOMAIN pc = Rank /\ DOMAIN work = Rank /\ DOMAIN reg = Rank /\ DOMAIN todo = Rank
      /\ DOMAIN pc[r] = Blocks(r) /\ DOMAIN work[r] = Blocks(r)
      /\ DOMAIN reg[r] = Blocks(r) /\ DOMAIN todo[r] = Blocks(r)
  BY DEF Typed, Shaped
<1>2. DOMAIN pc'[r] = Blocks(r) /\ \A c \in Blocks(r) : pc'[r][c] = IF c = b THEN l ELSE pc[r][c]
  <2>1. CASE pc' = pc /\ l = pc[r][b]
    BY <1>1, <2>1
  <2>2. CASE pc' = [pc EXCEPT ![r][b] = l]
    BY <1>1, <2>2, OneBlock
  <2> QED
    BY <2>1, <2>2
<1>3. DOMAIN work'[r] = Blocks(r) /\ \A c \in Blocks(r) : work'[r][c] = IF c = b THEN w ELSE work[r][c]
  <2>1. CASE work' = work /\ w = work[r][b]
    BY <1>1, <2>1
  <2>2. CASE work' = [work EXCEPT ![r][b] = w]
    BY <1>1, <2>2, OneBlock
  <2> QED
    BY <2>1, <2>2
<1>4. DOMAIN reg'[r] = Blocks(r) /\ \A c \in Blocks(r) : reg'[r][c] = IF c = b THEN g ELSE reg[r][c]
  <2>1. CASE reg' = reg /\ g = reg[r][b]
    BY <1>1, <2>1
  <2>2. CASE reg' = [reg EXCEPT ![r][b] = g]
    BY <1>1, <2>2, OneBlock
  <2> QED
    BY <2>1, <2>2
<1>5. DOMAIN todo'[r] = Blocks(r) /\ \A c \in Blocks(r) : todo'[r][c] = IF c = b THEN d ELSE todo[r][c]
  <2>1. CASE todo' = todo /\ d = todo[r][b]
    BY <1>1, <2>1
  <2>2. CASE todo' = [todo EXCEPT ![r][b] = d]
    BY <1>1, <2>2, OneBlock
  <2> QED
    BY <2>1, <2>2
<1> QED
  BY <1>2, <1>3, <1>4, <1>5 DEF Turn

LEMMA ClaimTurn ==
  ASSUME Typed, NEW r \in Rank, Shaped(r), NEW b \in Blocks(r), NEW w
  PROVE  /\ Dismissed(r, b, w) /\ UNCHANGED todo
              => Turn(r, b, pc[r][b], work[r][b] + Grid[place[r]], reg[r][b], todo[r][b])
         /\ \A m : Granted(r, b, w, m) /\ UNCHANGED todo
              => Turn(r, b, "publish", work[r][b], [reg[r][b] EXCEPT !.row = m], todo[r][b])
<1>1. ASSUME Dismissed(r, b, w), UNCHANGED todo
      PROVE  Turn(r, b, pc[r][b], work[r][b] + Grid[place[r]], reg[r][b], todo[r][b])
  <2>1. work' = [work EXCEPT ![r][b] = work[r][b] + Grid[place[r]]] /\ UNCHANGED <<pc, reg, todo>>
    BY <1>1 DEF Dismissed, Advance
  <2> QED
    BY <2>1, TurnIs
<1>2. ASSUME NEW m, Granted(r, b, w, m), UNCHANGED todo
      PROVE  Turn(r, b, "publish", work[r][b], [reg[r][b] EXCEPT !.row = m], todo[r][b])
  <2>1. /\ reg' = [reg EXCEPT ![r][b] = [reg[r][b] EXCEPT !.row = m]]
        /\ pc' = [pc EXCEPT ![r][b] = "publish"] /\ UNCHANGED <<work, todo>>
    BY <1>2 DEF Granted, Goto
  <2> QED
    BY <2>1, TurnIs
<1> QED
  BY <1>1, <1>2

LEMMA PublishTurn ==
  ASSUME Typed, NEW r \in Rank, Shaped(r), NEW b \in Blocks(r), Publish(r, b)
  PROVE  Turn(r, b, "claim", work[r][b] + Grid[place[r]], reg[r][b], todo[r][b])
<1>1. /\ pc' = [pc EXCEPT ![r][b] = "claim"]
      /\ work' = [work EXCEPT ![r][b] = work[r][b] + Grid[place[r]]]
      /\ UNCHANGED reg
      /\ UNCHANGED todo
  BY DEF Publish, Goto, Advance
<1> QED
  BY <1>1, TurnIs

LEMMA ArriveDispatchTurn ==
  ASSUME Typed, NEW r \in Rank, Shaped(r), NEW b \in Blocks(r), ArriveDispatch(r, b)
  PROVE  Turn(r, b, IF b = 0 THEN "collect" ELSE Then, work[r][b], reg[r][b], todo[r][b])
<1>1. /\ pc' = [pc EXCEPT ![r][b] = IF b = 0 THEN "collect" ELSE Then]
      /\ UNCHANGED work
      /\ UNCHANGED reg
      /\ UNCHANGED todo
  BY DEF ArriveDispatch, Goto, Advance
<1> QED
  BY <1>1, TurnIs

LEMMA CollectTurn ==
  ASSUME Typed, NEW r \in Rank, Shaped(r), Collect(r)
  PROVE  Turn(r, 0, "signal", work[r][0], reg[r][0], Rank)
<1>1. 0 \in Blocks(r)
  BY DEF Collect
<1>2. /\ pc' = [pc EXCEPT ![r][0] = "signal"]
      /\ UNCHANGED work
      /\ UNCHANGED reg
      /\ todo' = [todo EXCEPT ![r][0] = Rank]
  BY DEF Collect, Goto, Advance
<1> QED
  BY <1>1, <1>2, TurnIs

LEMMA SignalTurn ==
  ASSUME Typed, NEW r \in Rank, Shaped(r), NEW p \in Rank, Signal(r, p)
  PROVE  Turn(r, 0, IF todo[r][0] \ {p} = {} THEN "receive" ELSE "signal",
              work[r][0], reg[r][0],
              todo[r][0] \ {p})
<1>1. 0 \in Blocks(r)
  BY DEF Signal
<1>2. /\ (pc' = [pc EXCEPT ![r][0] = IF todo[r][0] \ {p} = {} THEN "receive" ELSE "signal"] \/ (pc[r][0] = (IF todo[r][0] \ {p} = {} THEN "receive" ELSE "signal") /\ pc' = pc))
      /\ UNCHANGED work
      /\ UNCHANGED reg
      /\ todo' = [todo EXCEPT ![r][0] = todo[r][0] \ {p}]
  <2>1. todo' = [todo EXCEPT ![r][0] = todo[r][0] \ {p}] /\ pc[r][0] = "signal"
    BY DEF Signal
  <2>2. todo'[r][0] = todo[r][0] \ {p}
    BY <1>1, <2>1, OneBlock DEF Typed, Shaped
  <2> QED
    BY <2>1, <2>2 DEF Signal, Goto, Advance
<1> QED
  BY <1>1, <1>2, TurnIs

LEMMA ReceiveTurn ==
  ASSUME Typed, NEW r \in Rank, Shaped(r), Receive(r)
  PROVE  Turn(r, 0, "rewind", work[r][0], reg[r][0], todo[r][0])
<1>1. 0 \in Blocks(r)
  BY DEF Receive
<1>2. /\ pc' = [pc EXCEPT ![r][0] = "rewind"]
      /\ UNCHANGED work
      /\ UNCHANGED reg
      /\ UNCHANGED todo
  BY DEF Receive, Goto, Advance
<1> QED
  BY <1>1, <1>2, TurnIs

LEMMA RewindTurn ==
  ASSUME Typed, NEW r \in Rank, Shaped(r), Rewind(r)
  PROVE  Turn(r, 0, Then, work[r][0], reg[r][0], todo[r][0])
<1>1. 0 \in Blocks(r)
  BY DEF Rewind
<1>2. /\ pc' = [pc EXCEPT ![r][0] = Then]
      /\ UNCHANGED work
      /\ UNCHANGED reg
      /\ UNCHANGED todo
  BY DEF Rewind, Goto, Advance
<1> QED
  BY <1>1, <1>2, TurnIs

LEMMA TicketTurn ==
  ASSUME Typed, NEW r \in Rank, Shaped(r), NEW b \in Blocks(r), Ticket(r, b)
  PROVE  Turn(r, b, "grid",
              work[r][b], [reg[r][b] EXCEPT !.target = (bar[r].grid \div Grid[place[r]] + 1) * Grid[place[r]]],
              todo[r][b])
<1>1. /\ pc' = [pc EXCEPT ![r][b] = "grid"]
      /\ UNCHANGED work
      /\ reg' = [reg EXCEPT ![r][b] = [reg[r][b] EXCEPT !.target = (bar[r].grid \div Grid[place[r]] + 1) * Grid[place[r]]]]
      /\ UNCHANGED todo
  BY DEF Ticket, Goto, Advance
<1> QED
  BY <1>1, TurnIs

LEMMA PassGridTurn ==
  ASSUME Typed, NEW r \in Rank, Shaped(r), NEW b \in Blocks(r), PassGrid(r, b)
  PROVE  Turn(r, b, "pack", b, reg[r][b], todo[r][b])
<1>1. /\ pc' = [pc EXCEPT ![r][b] = "pack"]
      /\ work' = [work EXCEPT ![r][b] = b]
      /\ UNCHANGED reg
      /\ UNCHANGED todo
  BY DEF PassGrid, Goto, Advance
<1> QED
  BY <1>1, TurnIs

LEMMA PackTurn ==
  ASSUME Typed, NEW r \in Rank, Shaped(r), NEW b \in Blocks(r), Pack(r, b)
  PROVE  Turn(r, b, pc[r][b], work[r][b] + Grid[place[r]], reg[r][b], todo[r][b])
<1>1. /\ UNCHANGED pc
      /\ work' = [work EXCEPT ![r][b] = work[r][b] + Grid[place[r]]]
      /\ UNCHANGED reg
      /\ UNCHANGED todo
  BY DEF Pack, Goto, Advance
<1> QED
  BY <1>1, TurnIs

LEMMA EndDispatchTurn ==
  ASSUME Typed, NEW r \in Rank, Shaped(r), NEW b \in Blocks(r), EndDispatch(r, b)
  PROVE  Turn(r, b, "ended", work[r][b], reg[r][b], todo[r][b])
<1>1. /\ pc' = [pc EXCEPT ![r][b] = "ended"]
      /\ UNCHANGED work
      /\ UNCHANGED reg
      /\ UNCHANGED todo
  BY DEF EndDispatch, Goto, Advance
<1> QED
  BY <1>1, TurnIs

LEMMA LoadTurn ==
  ASSUME Typed, NEW r \in Rank, Shaped(r), NEW b \in Blocks(r), Load(r, b)
  PROVE  Turn(r, b, "scatter",
              work[r][b], [reg[r][b] EXCEPT !.total = totalRecv[r], !.flag = xdbFlag[r]],
              todo[r][b])
<1>1. /\ pc' = [pc EXCEPT ![r][b] = "scatter"]
      /\ UNCHANGED work
      /\ reg' = [reg EXCEPT ![r][b] = [reg[r][b] EXCEPT !.total = totalRecv[r], !.flag = xdbFlag[r]]]
      /\ UNCHANGED todo
  BY DEF Load, Goto, Advance
<1> QED
  BY <1>1, TurnIs

LEMMA ScatterTurn ==
  ASSUME Typed, NEW r \in Rank, Shaped(r), NEW b \in Blocks(r), Scatter(r, b)
  PROVE  Turn(r, b, pc[r][b], work[r][b] + Grid[place[r]], reg[r][b], todo[r][b])
<1>1. /\ UNCHANGED pc
      /\ work' = [work EXCEPT ![r][b] = work[r][b] + Grid[place[r]]]
      /\ UNCHANGED reg
      /\ UNCHANGED todo
  BY DEF Scatter, Goto, Advance
<1> QED
  BY <1>1, TurnIs

LEMMA ArriveCombineTurn ==
  ASSUME Typed, NEW r \in Rank, Shaped(r), NEW b \in Blocks(r), ArriveCombine(r, b)
  PROVE  Turn(r, b, IF b = 0 THEN "meet" ELSE "await", work[r][b], reg[r][b], Rank)
<1>1. /\ pc' = [pc EXCEPT ![r][b] = IF b = 0 THEN "meet" ELSE "await"]
      /\ UNCHANGED work
      /\ UNCHANGED reg
      /\ todo' = [todo EXCEPT ![r][b] = Rank]
  BY DEF ArriveCombine, Goto, Advance
<1> QED
  BY <1>1, TurnIs

LEMMA MeetTurn ==
  ASSUME Typed, NEW r \in Rank, Shaped(r), Meet(r)
  PROVE  Turn(r, 0, "post", work[r][0], reg[r][0], todo[r][0])
<1>1. 0 \in Blocks(r)
  BY DEF Meet
<1>2. /\ pc' = [pc EXCEPT ![r][0] = "post"]
      /\ UNCHANGED work
      /\ UNCHANGED reg
      /\ UNCHANGED todo
  BY DEF Meet, Goto, Advance
<1> QED
  BY <1>1, <1>2, TurnIs

LEMMA PostTurn ==
  ASSUME Typed, NEW r \in Rank, Shaped(r), NEW p \in Rank, Post(r, p)
  PROVE  Turn(r, 0, IF todo[r][0] = {p} THEN "await" ELSE "post",
              work[r][0], reg[r][0],
              IF todo[r][0] = {p} THEN Rank ELSE todo[r][0] \ {p})
<1>1. 0 \in Blocks(r)
  BY DEF Post
<1>2. /\ (pc' = [pc EXCEPT ![r][0] = IF todo[r][0] = {p} THEN "await" ELSE "post"] \/ (pc[r][0] = (IF todo[r][0] = {p} THEN "await" ELSE "post") /\ pc' = pc))
      /\ UNCHANGED work
      /\ UNCHANGED reg
      /\ todo' = [todo EXCEPT ![r][0] = IF todo[r][0] = {p} THEN Rank ELSE todo[r][0] \ {p}]
  BY DEF Post, Goto, Advance
<1> QED
  BY <1>1, <1>2, TurnIs

LEMMA AwaitTurn ==
  ASSUME Typed, NEW r \in Rank, Shaped(r), NEW b \in Blocks(r), NEW p \in Rank, Await(r, b, p)
  PROVE  Turn(r, b, IF todo[r][b] \ {p} = {} THEN "sum" ELSE "await",
              IF todo[r][b] \ {p} = {} THEN b ELSE work[r][b], reg[r][b],
              todo[r][b] \ {p})
<1>1. /\ (pc' = [pc EXCEPT ![r][b] = IF todo[r][b] \ {p} = {} THEN "sum" ELSE "await"] \/ (pc[r][b] = (IF todo[r][b] \ {p} = {} THEN "sum" ELSE "await") /\ pc' = pc))
      /\ (work' = [work EXCEPT ![r][b] = IF todo[r][b] \ {p} = {} THEN b ELSE work[r][b]] \/ (work[r][b] = (IF todo[r][b] \ {p} = {} THEN b ELSE work[r][b]) /\ work' = work))
      /\ UNCHANGED reg
      /\ todo' = [todo EXCEPT ![r][b] = todo[r][b] \ {p}]
  <2>1. todo' = [todo EXCEPT ![r][b] = todo[r][b] \ {p}] /\ pc[r][b] = "await"
    BY DEF Await
  <2>2. todo'[r][b] = todo[r][b] \ {p}
    BY <2>1, OneBlock DEF Typed, Shaped
  <2> QED
    BY <2>1, <2>2 DEF Await, Goto, Advance
<1> QED
  BY <1>1, TurnIs

LEMMA SumTurn ==
  ASSUME Typed, NEW r \in Rank, Shaped(r), NEW b \in Blocks(r), Sum(r, b)
  PROVE  Turn(r, b, pc[r][b], work[r][b] + Grid[place[r]], reg[r][b], todo[r][b])
<1>1. /\ UNCHANGED pc
      /\ work' = [work EXCEPT ![r][b] = work[r][b] + Grid[place[r]]]
      /\ UNCHANGED reg
      /\ UNCHANGED todo
  BY DEF Sum, Goto, Advance
<1> QED
  BY <1>1, TurnIs

LEMMA EndCombineTurn ==
  ASSUME Typed, NEW r \in Rank, Shaped(r), NEW b \in Blocks(r), EndCombine(r, b)
  PROVE  Turn(r, b, "ended", work[r][b], reg[r][b], todo[r][b])
<1>1. /\ pc' = [pc EXCEPT ![r][b] = "ended"]
      /\ UNCHANGED work
      /\ UNCHANGED reg
      /\ UNCHANGED todo
  BY DEF EndCombine, Goto, Advance
<1> QED
  BY <1>1, TurnIs

-----------------------------------------------------------------------------
(* Types.                                                                  *)

\* A counter of a barrier set to a number.
LEMMA BarrierTyped ==
  ASSUME Typed, NEW r \in Rank, NEW n \in Nat
  PROVE  /\ [bar EXCEPT ![r].disp = n] \in [Rank -> [disp : Nat, comb : Nat, grid : Nat]]
         /\ [bar EXCEPT ![r].comb = n] \in [Rank -> [disp : Nat, comb : Nat, grid : Nat]]
         /\ [bar EXCEPT ![r].grid = n] \in [Rank -> [disp : Nat, comb : Nat, grid : Nat]]
         /\ bar[r].disp + 1 \in Nat /\ bar[r].comb + 1 \in Nat /\ bar[r].grid + 1 \in Nat
<1>1. bar \in [Rank -> [disp : Nat, comb : Nat, grid : Nat]]
  BY DEF Typed
<1> QED
  BY <1>1

LEMMA TypedKeeps ==
  ASSUME InTurn, Delivering, NEW r \in Rank, Works(r)
  PROVE  Typed'
<1>0. Typed /\ Shaped(r) /\ DOMAIN todo' = Rank /\ DOMAIN pc' = Rank /\ DOMAIN work' = Rank /\ DOMAIN reg' = Rank
  BY DEF Delivering, Ranks, Typed, Works, DispatchStep, CombineStep, Claim, Publish, ArriveDispatch,
         Collect, Signal, Receive, Rewind, Ticket, PassGrid, Pack, EndDispatch, Load, Scatter,
         ArriveCombine, Meet, Post, Await, Sum, EndCombine, Goto, Advance
<1> USE DEF Typed, dispatchVars, stdVars, combineVars
<1>1. ASSUME NEW b \in Blocks(r), Claim(r, b) PROVE Typed'
  <2> DEFINE w == work[r][b]
             p == Goes(r, w)
  <2>1. p \in Rank /\ w \in AllItems
    BY <1>1, ClaimCases, ItemsFit, PlaceFacts DEF Delivering
  <2>2. [pe |-> p, id |-> tokOff[p]] \in [pe : 0..World, id : Nat] /\ Dropped \in [pe : 0..World, id : Nat]
    <3>1. World \in Nat /\ p \in Nat /\ p < World
      BY <2>1, ConstantFacts
    <3>2. tokOff[p] \in Nat
      BY <1>0, <2>1
    <3> HIDE DEF p, Typed
    <3> QED
      BY <3>1, <3>2 DEF Dropped
  <2>3. tokOff' \in [Rank -> Nat]
    <3>1. tokOff' = tokOff \/ tokOff' = [tokOff EXCEPT ![p] = @ + 1]
      BY <1>1, ClaimCases DEF Delivering
    <3>2. tokOff \in [Rank -> Nat]
      BY <1>0
    <3> HIDE DEF p, Typed
    <3> QED
      BY <2>1, <3>1, <3>2
  <2>4. \E m \in [pe : 0..World, id : Nat] : tokMap' = [tokMap EXCEPT ![r][w] = m]
    <3>1. InTurn /\ Typed /\ Ranks
      BY DEF Delivering
    <3>2. Dismissed(r, b, w) \/ Granted(r, b, w, [pe |-> p, id |-> tokOff[p]])
      BY <1>1, <3>1, ClaimCases
    <3> HIDE DEF w, p, Typed
    <3> QED
      BY <2>2, <3>2 DEF Dismissed, Granted
  <2>5. tokMap' \in [Rank -> [AllItems -> [pe : 0..World, id : Nat]]]
    <3>1. tokMap \in [Rank -> [AllItems -> [pe : 0..World, id : Nat]]]
      BY <1>0
    <3> HIDE DEF w, Typed
    <3> QED
      BY <2>1, <2>4, <3>1
  <2>6. UNCHANGED <<mode, route, place, todo, destCtr, bar, recvNum, totalRecv, recvTok, stdVars, combineVars>>
    BY <1>1 DEF Claim
  <2> HIDE DEF w, p
  <2> QED
    BY <1>0, <2>3, <2>5, <2>6
<1>2. ASSUME NEW b \in Blocks(r), Publish(r, b) PROVE Typed'
  <2> DEFINE w == work[r][b]
             m == tokMap[r][w]
  <2>1. /\ Sends(r, w) \in Token /\ Goes(r, w) \in Rank /\ m.id \in 0..(MaxRecv - 1)
        /\ recvTok' = [recvTok EXCEPT ![Goes(r, w)][m.id] = Sends(r, w)]
        /\ destCtr' = [destCtr EXCEPT ![r][Goes(r, w)] = @ + 1]
    BY <1>2, PublishFacts, ItemsFit, PlaceFacts DEF Delivering
  <2>2. recvTok' \in [Rank -> [0..(MaxRecv - 1) -> Token]]
    BY <1>0, <2>1
  <2>3. destCtr' \in [Rank -> [Rank -> Nat]]
    <3>1. destCtr \in [Rank -> [Rank -> Nat]]
      BY <1>0
    <3> HIDE DEF Typed
    <3> QED
      BY <2>1, <3>1
  <2>4. UNCHANGED <<mode, route, place, reg, todo, tokOff, bar, recvNum, totalRecv, tokMap, stdVars, combineVars>>
    BY <1>2 DEF Publish
  <2> QED
    BY <1>0, <2>2, <2>3, <2>4
<1>3. ASSUME NEW b \in Blocks(r), ArriveDispatch(r, b) PROVE Typed'
  <2>1. bar' = [bar EXCEPT ![r].disp = bar[r].disp + 1]
    BY <1>3 DEF ArriveDispatch
  <2>2. bar' \in [Rank -> [disp : Nat, comb : Nat, grid : Nat]]
    BY <1>0, <2>1, BarrierTyped
  <2> QED
    BY <1>0, <1>3, <2>2 DEF ArriveDispatch
<1>4. CASE Collect(r)
  <2>1. bar' = [bar EXCEPT ![r].disp = 0]
    BY <1>4 DEF Collect
  <2>2. bar' \in [Rank -> [disp : Nat, comb : Nat, grid : Nat]]
    BY <1>0, <2>1, BarrierTyped
  <2> QED
    BY <1>0, <1>4, <2>2 DEF Collect
<1>5. ASSUME NEW p \in Rank, Signal(r, p) PROVE Typed'
  <2>1. recvNum' \in [Rank -> [Rank -> Nat]]
    <3>1. recvNum \in [Rank -> [Rank -> Nat]]
      BY <1>0
    <3>3. destCtr[r][p] \in Nat
      BY <1>0, <1>5
    <3>2. recvNum' = [recvNum EXCEPT ![p][r] = destCtr[r][p] + 1]
      BY <1>5 DEF Signal
    <3> HIDE DEF Typed
    <3> QED
      BY <1>5, <3>1, <3>2, <3>3
  <2> QED
    BY <1>0, <1>5, <2>1 DEF Signal
<1>6. CASE Receive(r)
  BY <1>0, <1>6 DEF Receive
<1>7. CASE Rewind(r)
  BY <1>0, <1>7 DEF Rewind
<1>8. ASSUME NEW b \in Blocks(r), Ticket(r, b) PROVE Typed'
  <2>1. bar' = [bar EXCEPT ![r].grid = bar[r].grid + 1]
    BY <1>8 DEF Ticket
  <2>2. bar' \in [Rank -> [disp : Nat, comb : Nat, grid : Nat]]
    BY <1>0, <2>1, BarrierTyped
  <2> QED
    BY <1>0, <1>8, <2>2 DEF Ticket
<1>9. ASSUME NEW b \in Blocks(r), PassGrid(r, b) PROVE Typed'
  BY <1>0, <1>9 DEF PassGrid
<1>10. ASSUME NEW b \in Blocks(r), Pack(r, b) PROVE Typed'
  <2> DEFINE x == recvTok[r][work[r][b] \div TopK]
             e == Experts(x)[SlotOf(work[r][b])]
  <2>1. x \in Token
    <3>1. work[r][b] \in Nat /\ work[r][b] < totalRecv[r] * TopK
      BY <1>0, <1>10 DEF Pack, Shaped, Fits
    <3>2. totalRecv[r] \in Nat /\ totalRecv[r] <= MaxRecv
      <4>1. totalRecv[r] = Received(r) \/ totalRecv[r] = 0
        BY DEF Delivering, Totals
      <4> QED
        BY <4>1, ReceivedNat, ConstantFacts
    <3> DEFINE w == work[r][b]
    <3>3. totalRecv[r] * TopK \in Nat
      BY <3>2, ConstantFacts
    <3>4. w \in 0..(totalRecv[r] * TopK - 1)
      BY <3>1, <3>3
    <3>5. w \div TopK \in 0..(totalRecv[r] - 1)
      BY <3>2, <3>4, ItemFacts
    <3> HIDE DEF w, Typed
    <3>6. w \div TopK \in 0..(MaxRecv - 1)
      BY <3>2, <3>5, ConstantFacts
    <3>7. recvTok[r] \in [0..(MaxRecv - 1) -> Token]
      BY <1>0 DEF Typed
    <3> QED
      BY <3>6, <3>7 DEF w
  <2>2. packed' = packed \/ packed' = [packed EXCEPT ![r][e] = Append(@, x)]
    BY <1>10 DEF Pack
  <2>3. packed' \in [Rank -> [Expert -> Seq(Token)]]
    <3>1. packed \in [Rank -> [Expert -> Seq(Token)]]
      BY <1>0
    <3> HIDE DEF Typed
    <3> HIDE DEF x, e
    <3>2. ASSUME NEW q \in Rank, NEW f \in Expert PROVE Append(packed[q][f], x) \in Seq(Token)
      BY <2>1, <3>1
    <3>3. CASE packed' = packed
      BY <3>1, <3>3
    <3>4. CASE packed' = [packed EXCEPT ![r][e] = Append(packed[r][e], x)]
      <4>1. CASE e \in Expert
        <5>1. Append(packed[r][e], x) \in Seq(Token)
          BY <3>2, <4>1
        <5> QED
          BY <3>1, <3>4, <4>1, <5>1
      <4>2. CASE e \notin Expert
        <5>1. \A q \in Rank : packed[q] \in [Expert -> Seq(Token)]
          BY <3>1
        <5>2. [packed[r] EXCEPT ![e] = Append(packed[r][e], x)] = packed[r]
          BY <4>2, <5>1
        <5> QED
          BY <3>1, <3>4, <5>1, <5>2
      <4> QED
        BY <4>1, <4>2
    <3> QED
      BY <2>2, <3>3, <3>4
  <2>4. DOMAIN slotMap' = Rank /\ \A q \in Rank : DOMAIN slotMap'[q] = DOMAIN slotMap[q]
    <3>1. \E s : slotMap' = [slotMap EXCEPT ![r][work[r][b]] = s]
      BY <1>10 DEF Pack
    <3> QED
      BY <1>0, <3>1
  <2>5. UNCHANGED <<mode, route, place, pc, reg, todo, dispatchVars, bar, totalRecv, combineVars>>
    BY <1>10 DEF Pack
  <2> HIDE DEF x, e
  <2> QED
    BY <1>0, <2>3, <2>4, <2>5
<1>11. ASSUME NEW b \in Blocks(r), EndDispatch(r, b) PROVE Typed'
  BY <1>0, <1>11 DEF EndDispatch
<1>12. ASSUME NEW b \in Blocks(r), Load(r, b) PROVE Typed'
  BY <1>0, <1>12 DEF Load
<1>13. ASSUME NEW b \in Blocks(r), Scatter(r, b) PROVE Typed'
  <2>1. UNCHANGED <<mode, route, place, pc, reg, todo, dispatchVars, bar, totalRecv, stdVars, inp, xdbFlag, xdbMem, out>>
    BY <1>13 DEF Scatter
  <2>2. DOMAIN combInp' = DOMAIN combInp /\ \A q \in Rank : DOMAIN combInp'[q] = DOMAIN combInp[q]
    <3>1. \/ combInp' = combInp
          \/ \E q, i, s : combInp' = [combInp EXCEPT ![q][i] = s]
      BY <1>13 DEF Scatter
    <3>2. DOMAIN combInp = Rank
      BY <1>0
    <3> HIDE DEF Typed
    <3> QED
      BY <3>1, <3>2
  <2> QED
    BY <1>0, <2>1, <2>2
<1>14. ASSUME NEW b \in Blocks(r), ArriveCombine(r, b) PROVE Typed'
  <2>1. bar' = [bar EXCEPT ![r].comb = bar[r].comb + 1]
    BY <1>14 DEF ArriveCombine
  <2>2. bar' \in [Rank -> [disp : Nat, comb : Nat, grid : Nat]]
    BY <1>0, <2>1, BarrierTyped
  <2> QED
    BY <1>0, <1>14, <2>2 DEF ArriveCombine
<1>15. CASE Meet(r)
  <2>1. bar' = [bar EXCEPT ![r].comb = 0]
    BY <1>15 DEF Meet
  <2>2. bar' \in [Rank -> [disp : Nat, comb : Nat, grid : Nat]]
    BY <1>0, <2>1, BarrierTyped
  <2> QED
    BY <1>0, <1>15, <2>2 DEF Meet
<1>16. ASSUME NEW p \in Rank, Post(r, p) PROVE Typed'
  <2>1. reg[r][0].flag \in Nat
    <3>1. reg[r][0] \in [row : [pe : 0..World, id : Nat], target : Nat, total : Nat, flag : Nat]
      BY <1>0, <1>16 DEF Post, Shaped, Fits
    <3> HIDE DEF Typed
    <3> QED
      BY <3>1
  <2>2. xdbMem' \in [Rank -> [Rank -> Nat]]
    <3>1. xdbMem \in [Rank -> [Rank -> Nat]] /\ xdbMem' = [xdbMem EXCEPT ![p][r] = reg[r][0].flag]
      BY <1>0, <1>16 DEF Post
    <3> HIDE DEF Typed
    <3> QED
      BY <1>16, <2>1, <3>1
  <2>3. xdbFlag' \in [Rank -> Nat]
    <3>1. xdbFlag' = xdbFlag \/ xdbFlag' = [xdbFlag EXCEPT ![r] = @ + 1]
      BY <1>16 DEF Post
    <3>2. xdbFlag \in [Rank -> Nat]
      BY <1>0
    <3> HIDE DEF Typed
    <3> QED
      BY <3>1, <3>2
  <2>4. UNCHANGED <<mode, route, place, dispatchVars, bar, totalRecv, stdVars, inp, combInp, out>>
    BY <1>16 DEF Post
  <2> QED
    BY <1>0, <2>2, <2>3, <2>4
<1>17. ASSUME NEW b \in Blocks(r), NEW p \in Rank, Await(r, b, p) PROVE Typed'
  BY <1>0, <1>17 DEF Await
<1>18. ASSUME NEW b \in Blocks(r), Sum(r, b) PROVE Typed'
  <2>1. UNCHANGED <<mode, route, place, pc, reg, todo, dispatchVars, bar, totalRecv, stdVars, inp, combInp, xdbFlag, xdbMem>>
    BY <1>18 DEF Sum
  <2>2. DOMAIN out' = DOMAIN out /\ \A q \in Rank : DOMAIN out'[q] = DOMAIN out[q]
    BY <1>0, <1>18 DEF Sum
  <2> QED
    BY <1>0, <2>1, <2>2
<1>19. ASSUME NEW b \in Blocks(r), EndCombine(r, b) PROVE Typed'
  BY <1>0, <1>19 DEF EndCombine
<1> HIDE DEF Typed, dispatchVars, stdVars, combineVars
<1> QED
  BY <1>1, <1>2, <1>3, <1>4, <1>5, <1>6, <1>7, <1>8, <1>9, <1>10, <1>11, <1>12, <1>13, <1>14,
     <1>15, <1>16, <1>17, <1>18, <1>19 DEF Works, DispatchStep, CombineStep

-----------------------------------------------------------------------------
(* Places, barriers and flags of the rank that takes a step.               *)

\* What a kernel's step leaves of a rank's kernel, items and tokens.
LEMMA Statics ==
  ASSUME NEW r, Works(r)
  PROVE  \A q \in Rank :
    /\ Blocks(q)' = Blocks(q) /\ (InDispatch(q)' <=> InDispatch(q)) /\ (InCombine(q)' <=> InCombine(q))
    /\ RoundOf(place[q])' = RoundOf(place[q]) /\ Dispatch(q)' = Dispatch(q)
    /\ Tokens(q)' = Tokens(q) /\ Items(q)' = Items(q) /\ Received(q)' = Received(q)
    /\ \A w : /\ BlockOf(q, w)' = BlockOf(q, w) /\ (Dup(q, w)' <=> Dup(q, w))
              /\ Goes(q, w)' = Goes(q, w) /\ Sends(q, w)' = Sends(q, w)
<1>1. place' = place /\ route' = route
  BY StreamsStay
<1> SUFFICES ASSUME NEW q \in Rank
             PROVE
    /\ Blocks(q)' = Blocks(q) /\ (InDispatch(q)' <=> InDispatch(q)) /\ (InCombine(q)' <=> InCombine(q))
    /\ RoundOf(place[q])' = RoundOf(place[q]) /\ Dispatch(q)' = Dispatch(q)
    /\ Tokens(q)' = Tokens(q) /\ Items(q)' = Items(q) /\ Received(q)' = Received(q)
    /\ \A w : /\ BlockOf(q, w)' = BlockOf(q, w) /\ (Dup(q, w)' <=> Dup(q, w))
              /\ Goes(q, w)' = Goes(q, w) /\ Sends(q, w)' = Sends(q, w)
  OBVIOUS
<1>2. Blocks(q)' = Blocks(q) /\ (InDispatch(q)' <=> InDispatch(q)) /\ (InCombine(q)' <=> InCombine(q))
  BY <1>1 DEF Blocks, InDispatch, InCombine
<1>3. RoundOf(place[q])' = RoundOf(place[q]) /\ Dispatch(q)' = Dispatch(q)
  BY <1>1 DEF RoundOf, Dispatch
<1>4. Tokens(q)' = Tokens(q)
  BY <1>1 DEF Tokens, RoundOf
<1>5. Items(q)' = Items(q)
  BY <1>4 DEF Items
<1>6. Received(q)' = Received(q)
  BY <1>1 DEF Received, Routed, Experts, RoundOf
<1>7. ASSUME NEW w
      PROVE  /\ BlockOf(q, w)' = BlockOf(q, w) /\ (Dup(q, w)' <=> Dup(q, w))
             /\ Goes(q, w)' = Goes(q, w) /\ Sends(q, w)' = Sends(q, w)
  BY <1>1 DEF BlockOf, Dup, Goes, Sends, Tokens, RoundOf
<1> QED
  BY <1>2, <1>3, <1>4, <1>5, <1>6, <1>7

\* A block goes on by a stride.
LEMMA Onward ==
  ASSUME InTurn, Typed, NEW r \in Rank, NEW b \in Blocks(r)
  PROVE  /\ place[r] > 0 /\ b \in Nat /\ BlockOf(r, b) = b
         /\ \A v \in Nat :
              /\ v + Grid[place[r]] \in Nat /\ BlockOf(r, v + Grid[place[r]]) = BlockOf(r, v)
              /\ BlockOf(r, v) \in Blocks(r)
              /\ \A w \in Nat : BlockOf(r, w) = BlockOf(r, v)
                   => (w < v + Grid[place[r]] <=> w < v \/ w = v)
<1>1. place[r] > 0
  <2>1. place[r] = 0 => Blocks(r) = {}
    BY DEF Blocks
  <2> QED
    BY <2>1, PlaceFacts
<1> DEFINE n == Grid[place[r]]
<1>2. n \in Nat \ {0} /\ Blocks(r) = 0..(n - 1)
  BY <1>1, PlaceFacts
<1>3. \A v : BlockOf(r, v) = v % n
  BY DEF BlockOf
<1> HIDE DEF n
<1>4. b \in Nat /\ BlockOf(r, b) = b
  BY <1>2, <1>3
<1>5. ASSUME NEW v \in Nat
      PROVE  /\ v + n \in Nat /\ BlockOf(r, v + n) = BlockOf(r, v)
             /\ BlockOf(r, v) \in Blocks(r)
             /\ \A w \in Nat : BlockOf(r, w) = BlockOf(r, v) => (w < v + n <=> w < v \/ w = v)
  <2>1. (v + n) % n = v % n /\ \A w \in Nat : w % n = v % n => (w < v + n <=> w < v \/ w = v)
    BY <1>2, Stride
  <2>2. v + n \in Nat /\ v % n \in 0..(n - 1)
    BY <1>2
  <2> QED
    BY <1>2, <1>3, <2>1, <2>2
<1> QED
  BY <1>1, <1>4, <1>5 DEF n

LEMMA ShapedTurn ==
  ASSUME Typed, NEW r \in Rank, Shaped(r), Works(r), NEW b \in Blocks(r), NEW l, NEW w, NEW g, NEW d,
         Turn(r, b, l, w, g, d), Fits(r, b, l, w, g, d)
  PROVE  Shaped(r)'
<1>1. /\ Blocks(r)' = Blocks(r) /\ (InDispatch(r)' <=> InDispatch(r)) /\ Items(r)' = Items(r)
      /\ \A v : BlockOf(r, v)' = BlockOf(r, v)
  BY Statics
<1>2. mode' = mode /\ place' = place
  BY StreamsStay
<1>3. ASSUME NEW c \in Blocks(r), NEW k, NEW v, NEW h, NEW e, Fits(r, c, k, v, h, e)
      PROVE  Fits(r, c, k, v, h, e)'
  BY <1>1, <1>2, <1>3 DEF Fits, BlockOf
<1>4. ASSUME NEW c \in Blocks(r)
      PROVE  Fits(r, c, pc[r][c], work[r][c], reg[r][c], todo[r][c])'
  <2>1. Fits(r, c, pc'[r][c], work'[r][c], reg'[r][c], todo'[r][c])
    BY DEF Turn, Shaped
  <2> QED
    BY <2>1, <1>1, <1>2 DEF Fits, BlockOf
<1> QED
  BY <1>1, <1>4 DEF Shaped, Turn

LEMMA ShapedKeeps ==
  ASSUME InTurn, Delivering, NEW r \in Rank, Works(r)
  PROVE  Shaped(r)'
<1>0. Typed /\ Ranks /\ Shaped(r) /\ \A b \in Blocks(r) : Fits(r, b, pc[r][b], work[r][b], reg[r][b], todo[r][b])
  BY DEF Delivering, Ranks, Shaped
<1> USE DEF Claiming, BeforeSignal, BeforeReceive, BeforeRewind, BeforeGrid, BeforePack, DispatchPlace,
            Scattering, BeforePost, BeforeSum, CombinePlace, First
<1>1. ASSUME NEW b \in Blocks(r), Claim(r, b) PROVE Shaped(r)'
  <2> DEFINE w == work[r][b]
             m == [pe |-> Goes(r, w), id |-> tokOff[Goes(r, w)]]
  <2>1. /\ w \in Items(r) /\ Goes(r, w) \in Rank /\ BlockOf(r, w) = b /\ pc[r][b] = "claim"
        /\ Dismissed(r, b, w) \/ Granted(r, b, w, m)
        /\ UNCHANGED todo
    BY <1>0, <1>1, ClaimCases
  <2>2. CASE Dismissed(r, b, w)
    <3>1. Turn(r, b, pc[r][b], w + Grid[place[r]], reg[r][b], todo[r][b])
      BY <1>0, <2>1, <2>2, ClaimTurn
    <3>2. Fits(r, b, pc[r][b], w + Grid[place[r]], reg[r][b], todo[r][b])
      BY <1>0, <2>1, Onward DEF Fits
    <3> QED
      BY <1>0, <3>1, <3>2, ShapedTurn
  <2>3. CASE Granted(r, b, w, m)
    <3>1. Turn(r, b, "publish", w, [reg[r][b] EXCEPT !.row = m], todo[r][b])
      BY <1>0, <2>1, <2>3, ClaimTurn
    <3>2. m \in [pe : 0..World, id : Nat]
      <4>1. Goes(r, w) \in 0..World
        BY <2>1, ConstantFacts DEF Rank
      <4>2. tokOff[Goes(r, w)] \in Nat
        BY <1>0, <2>1 DEF Typed
      <4> QED
        BY <4>1, <4>2
    <3>3. Fits(r, b, "publish", w, [reg[r][b] EXCEPT !.row = m], todo[r][b])
      <4> HIDE DEF m
      <4> QED
        BY <1>0, <2>1, <3>2 DEF Fits
    <3> QED
      BY <1>0, <3>1, <3>3, ShapedTurn
  <2> QED
    BY <2>1, <2>2, <2>3
<1>2. ASSUME NEW b \in Blocks(r), Publish(r, b) PROVE Shaped(r)'
  <2>1. Turn(r, b, "claim", work[r][b] + Grid[place[r]],
            reg[r][b], todo[r][b])
    BY <1>0, <1>2, PublishTurn
  <2>2. b \in Blocks(r) /\ pc[r][b] = "publish"
    BY <1>2 DEF Publish
  <2>3. Fits(r, b, "claim", work[r][b] + Grid[place[r]],
            reg[r][b], todo[r][b])
    BY <1>0, <2>2, Onward DEF Fits
  <2> QED
    BY <1>0, <2>1, <2>2, <2>3, ShapedTurn
<1>3. ASSUME NEW b \in Blocks(r), ArriveDispatch(r, b) PROVE Shaped(r)'
  <2>1. Turn(r, b, IF b = 0 THEN "collect" ELSE Then, work[r][b],
            reg[r][b], todo[r][b])
    BY <1>0, <1>3, ArriveDispatchTurn
  <2>2. b \in Blocks(r) /\ pc[r][b] = "claim"
    BY <1>3 DEF ArriveDispatch
  <2>3. Fits(r, b, IF b = 0 THEN "collect" ELSE Then, work[r][b],
            reg[r][b], todo[r][b])
    BY <1>0, <2>2, Onward DEF Fits, Then
  <2> QED
    BY <1>0, <2>1, <2>2, <2>3, ShapedTurn
<1>4. CASE Collect(r)
  <2>1. Turn(r, 0, "signal", work[r][0],
            reg[r][0], Rank)
    BY <1>0, <1>4, CollectTurn
  <2>2. 0 \in Blocks(r) /\ pc[r][0] = "collect"
    BY <1>4 DEF Collect
  <2>3. Fits(r, 0, "signal", work[r][0],
            reg[r][0], Rank)
    BY <1>0, <2>2, Onward DEF Fits
  <2> QED
    BY <1>0, <2>1, <2>2, <2>3, ShapedTurn
<1>5. ASSUME NEW p \in Rank, Signal(r, p) PROVE Shaped(r)'
  <2>1. Turn(r, 0, IF todo[r][0] \ {p} = {} THEN "receive" ELSE "signal", work[r][0],
            reg[r][0], todo[r][0] \ {p})
    BY <1>0, <1>5, SignalTurn
  <2>2. 0 \in Blocks(r) /\ pc[r][0] = "signal" /\ p \in todo[r][0]
    BY <1>5 DEF Signal
  <2>3. Fits(r, 0, IF todo[r][0] \ {p} = {} THEN "receive" ELSE "signal", work[r][0],
            reg[r][0], todo[r][0] \ {p})
    BY <1>0, <2>2, Onward DEF Fits
  <2> QED
    BY <1>0, <2>1, <2>2, <2>3, ShapedTurn
<1>6. CASE Receive(r)
  <2>1. Turn(r, 0, "rewind", work[r][0],
            reg[r][0], todo[r][0])
    BY <1>0, <1>6, ReceiveTurn
  <2>2. 0 \in Blocks(r) /\ pc[r][0] = "receive"
    BY <1>6 DEF Receive
  <2>3. Fits(r, 0, "rewind", work[r][0],
            reg[r][0], todo[r][0])
    BY <1>0, <2>2, Onward DEF Fits
  <2> QED
    BY <1>0, <2>1, <2>2, <2>3, ShapedTurn
<1>7. CASE Rewind(r)
  <2>1. Turn(r, 0, Then, work[r][0],
            reg[r][0], todo[r][0])
    BY <1>0, <1>7, RewindTurn
  <2>2. 0 \in Blocks(r) /\ pc[r][0] = "rewind"
    BY <1>7 DEF Rewind
  <2>3. Fits(r, 0, Then, work[r][0],
            reg[r][0], todo[r][0])
    BY <1>0, <2>2, Onward DEF Fits, Then
  <2> QED
    BY <1>0, <2>1, <2>2, <2>3, ShapedTurn
<1>8. ASSUME NEW b \in Blocks(r), Ticket(r, b) PROVE Shaped(r)'
  <2>1. Turn(r, b, "grid", work[r][b],
            [reg[r][b] EXCEPT !.target = (bar[r].grid \div Grid[place[r]] + 1) * Grid[place[r]]], todo[r][b])
    BY <1>0, <1>8, TicketTurn
  <2>2. b \in Blocks(r) /\ pc[r][b] = "ticket"
    BY <1>8 DEF Ticket
  <2>3. Fits(r, b, "grid", work[r][b],
            [reg[r][b] EXCEPT !.target = (bar[r].grid \div Grid[place[r]] + 1) * Grid[place[r]]], todo[r][b])
    <3>1. bar[r].grid \in Nat /\ Grid[place[r]] \in Nat \ {0}
      <4>1. bar[r] \in [disp : Nat, comb : Nat, grid : Nat]
        BY <1>0 DEF Typed
      <4> QED
        BY <1>0, <2>2, <4>1, Onward, PlaceFacts
    <3>2. bar[r].grid \div Grid[place[r]] \in Nat
      BY <3>1
    <3> DEFINE t == (bar[r].grid \div Grid[place[r]] + 1) * Grid[place[r]]
    <3>3. t \in Nat
      BY <3>1, <3>2
    <3> HIDE DEF t
    <3>4. Fits(r, b, "grid", work[r][b], [reg[r][b] EXCEPT !.target = t], todo[r][b])
      BY <1>0, <2>2, <3>3 DEF Fits
    <3> QED
      BY <3>4 DEF t
  <2> QED
    BY <1>0, <2>1, <2>2, <2>3, ShapedTurn
<1>9. ASSUME NEW b \in Blocks(r), PassGrid(r, b) PROVE Shaped(r)'
  <2>1. Turn(r, b, "pack", b,
            reg[r][b], todo[r][b])
    BY <1>0, <1>9, PassGridTurn
  <2>2. b \in Blocks(r) /\ pc[r][b] = "grid"
    BY <1>9 DEF PassGrid
  <2>3. Fits(r, b, "pack", b,
            reg[r][b], todo[r][b])
    BY <1>0, <2>2, Onward DEF Fits
  <2> QED
    BY <1>0, <2>1, <2>2, <2>3, ShapedTurn
<1>10. ASSUME NEW b \in Blocks(r), Pack(r, b) PROVE Shaped(r)'
  <2>1. Turn(r, b, pc[r][b], work[r][b] + Grid[place[r]],
            reg[r][b], todo[r][b])
    BY <1>0, <1>10, PackTurn
  <2>2. b \in Blocks(r) /\ pc[r][b] = "pack"
    BY <1>10 DEF Pack
  <2>3. Fits(r, b, pc[r][b], work[r][b] + Grid[place[r]],
            reg[r][b], todo[r][b])
    BY <1>0, <2>2, Onward DEF Fits
  <2> QED
    BY <1>0, <2>1, <2>2, <2>3, ShapedTurn
<1>11. ASSUME NEW b \in Blocks(r), EndDispatch(r, b) PROVE Shaped(r)'
  <2>1. Turn(r, b, "ended", work[r][b],
            reg[r][b], todo[r][b])
    BY <1>0, <1>11, EndDispatchTurn
  <2>2. b \in Blocks(r) /\ pc[r][b] = "pack"
    BY <1>11 DEF EndDispatch
  <2>3. Fits(r, b, "ended", work[r][b],
            reg[r][b], todo[r][b])
    BY <1>0, <2>2, Onward DEF Fits
  <2> QED
    BY <1>0, <2>1, <2>2, <2>3, ShapedTurn
<1>12. ASSUME NEW b \in Blocks(r), Load(r, b) PROVE Shaped(r)'
  <2>1. Turn(r, b, "scatter", work[r][b],
            [reg[r][b] EXCEPT !.total = totalRecv[r], !.flag = xdbFlag[r]], todo[r][b])
    BY <1>0, <1>12, LoadTurn
  <2>2. b \in Blocks(r) /\ pc[r][b] = "load"
    BY <1>12 DEF Load
  <2>3. Fits(r, b, "scatter", work[r][b],
            [reg[r][b] EXCEPT !.total = totalRecv[r], !.flag = xdbFlag[r]], todo[r][b])
    <3>1. totalRecv[r] \in Nat /\ xdbFlag[r] \in Nat
      <4>1. totalRecv[r] = Received(r) \/ totalRecv[r] = 0
        BY DEF Delivering, Totals
      <4> QED
        BY <1>0, <4>1, ReceivedNat DEF Typed
    <3> QED
      BY <1>0, <2>2, <3>1 DEF Fits
  <2> QED
    BY <1>0, <2>1, <2>2, <2>3, ShapedTurn
<1>13. ASSUME NEW b \in Blocks(r), Scatter(r, b) PROVE Shaped(r)'
  <2>1. Turn(r, b, pc[r][b], work[r][b] + Grid[place[r]],
            reg[r][b], todo[r][b])
    BY <1>0, <1>13, ScatterTurn
  <2>2. b \in Blocks(r) /\ pc[r][b] = "scatter"
    BY <1>13 DEF Scatter
  <2>3. Fits(r, b, pc[r][b], work[r][b] + Grid[place[r]],
            reg[r][b], todo[r][b])
    BY <1>0, <2>2, Onward DEF Fits
  <2> QED
    BY <1>0, <2>1, <2>2, <2>3, ShapedTurn
<1>14. ASSUME NEW b \in Blocks(r), ArriveCombine(r, b) PROVE Shaped(r)'
  <2>1. Turn(r, b, IF b = 0 THEN "meet" ELSE "await", work[r][b],
            reg[r][b], Rank)
    BY <1>0, <1>14, ArriveCombineTurn
  <2>2. b \in Blocks(r) /\ pc[r][b] = "scatter"
    BY <1>14 DEF ArriveCombine
  <2>3. Fits(r, b, IF b = 0 THEN "meet" ELSE "await", work[r][b],
            reg[r][b], Rank)
    BY <1>0, <2>2, Onward DEF Fits
  <2> QED
    BY <1>0, <2>1, <2>2, <2>3, ShapedTurn
<1>15. CASE Meet(r)
  <2>1. Turn(r, 0, "post", work[r][0],
            reg[r][0], todo[r][0])
    BY <1>0, <1>15, MeetTurn
  <2>2. 0 \in Blocks(r) /\ pc[r][0] = "meet"
    BY <1>15 DEF Meet
  <2>3. Fits(r, 0, "post", work[r][0],
            reg[r][0], todo[r][0])
    <3>1. Fits(r, 0, "meet", work[r][0], reg[r][0], todo[r][0])
      BY <1>0, <2>2
    <3>2. 0 \in Rank
      BY ConstantFacts
    <3> QED
      BY <3>1, <3>2 DEF Fits
  <2> QED
    BY <1>0, <2>1, <2>2, <2>3, ShapedTurn
<1>16. ASSUME NEW p \in Rank, Post(r, p) PROVE Shaped(r)'
  <2>1. Turn(r, 0, IF todo[r][0] = {p} THEN "await" ELSE "post", work[r][0],
            reg[r][0], IF todo[r][0] = {p} THEN Rank ELSE todo[r][0] \ {p})
    BY <1>0, <1>16, PostTurn
  <2>2. 0 \in Blocks(r) /\ pc[r][0] = "post" /\ p \in todo[r][0]
    BY <1>16 DEF Post
  <2>3. Fits(r, 0, IF todo[r][0] = {p} THEN "await" ELSE "post", work[r][0],
            reg[r][0], IF todo[r][0] = {p} THEN Rank ELSE todo[r][0] \ {p})
    <3>1. Fits(r, 0, "await", work[r][0], reg[r][0], Rank)
      BY <1>0, <2>2, ConstantFacts DEF Fits
    <3>2. todo[r][0] # {p} => Fits(r, 0, "post", work[r][0], reg[r][0], todo[r][0] \ {p})
      <4>1. todo[r][0] # {p} => todo[r][0] \ {p} # {}
        BY <2>2
      <4> QED
        BY <1>0, <2>2, <4>1 DEF Fits
    <3> QED
      BY <3>1, <3>2
  <2> QED
    BY <1>0, <2>1, <2>2, <2>3, ShapedTurn
<1>17. ASSUME NEW b \in Blocks(r), NEW p \in Rank, Await(r, b, p) PROVE Shaped(r)'
  <2>1. Turn(r, b, IF todo[r][b] \ {p} = {} THEN "sum" ELSE "await", IF todo[r][b] \ {p} = {} THEN b ELSE work[r][b],
            reg[r][b], todo[r][b] \ {p})
    BY <1>0, <1>17, AwaitTurn
  <2>2. b \in Blocks(r) /\ pc[r][b] = "await" /\ p \in todo[r][b]
    BY <1>17 DEF Await
  <2>3. Fits(r, b, IF todo[r][b] \ {p} = {} THEN "sum" ELSE "await", IF todo[r][b] \ {p} = {} THEN b ELSE work[r][b],
            reg[r][b], todo[r][b] \ {p})
    <3>1. Fits(r, b, "sum", b, reg[r][b], todo[r][b] \ {p})
      BY <1>0, <2>2, Onward DEF Fits
    <3>2. todo[r][b] \ {p} # {} => Fits(r, b, "await", work[r][b], reg[r][b], todo[r][b] \ {p})
      BY <1>0, <2>2 DEF Fits
    <3> QED
      BY <3>1, <3>2
  <2> QED
    BY <1>0, <2>1, <2>2, <2>3, ShapedTurn
<1>18. ASSUME NEW b \in Blocks(r), Sum(r, b) PROVE Shaped(r)'
  <2>1. Turn(r, b, pc[r][b], work[r][b] + Grid[place[r]],
            reg[r][b], todo[r][b])
    BY <1>0, <1>18, SumTurn
  <2>2. b \in Blocks(r) /\ pc[r][b] = "sum"
    BY <1>18 DEF Sum
  <2>3. Fits(r, b, pc[r][b], work[r][b] + Grid[place[r]],
            reg[r][b], todo[r][b])
    BY <1>0, <2>2, Onward DEF Fits
  <2> QED
    BY <1>0, <2>1, <2>2, <2>3, ShapedTurn
<1>19. ASSUME NEW b \in Blocks(r), EndCombine(r, b) PROVE Shaped(r)'
  <2>1. Turn(r, b, "ended", work[r][b],
            reg[r][b], todo[r][b])
    BY <1>0, <1>19, EndCombineTurn
  <2>2. b \in Blocks(r) /\ pc[r][b] = "sum"
    BY <1>19 DEF EndCombine
  <2>3. Fits(r, b, "ended", work[r][b],
            reg[r][b], todo[r][b])
    BY <1>0, <2>2, Onward DEF Fits
  <2> QED
    BY <1>0, <2>1, <2>2, <2>3, ShapedTurn
<1> QED
  BY <1>1, <1>2, <1>3, <1>4, <1>5, <1>6, <1>7, <1>8, <1>9, <1>10, <1>11, <1>12, <1>13, <1>14, <1>15, <1>16, <1>17, <1>18, <1>19 DEF Works, DispatchStep, CombineStep

LEMMA BlocksFinite ==
  ASSUME InTurn, Typed, NEW r \in Rank, NEW S
  PROVE  /\ IsFiniteSet(Blocks(r)) /\ IsFiniteSet(Beyond(r, S)) /\ Cardinality(Beyond(r, S)) \in Nat
         /\ place[r] > 0 => Cardinality(Blocks(r)) = Grid[place[r]]
         /\ Cardinality(Beyond(r, S)) = Cardinality(Blocks(r)) => Beyond(r, S) = Blocks(r)
<1>1. place[r] > 0 => Blocks(r) = 0..(Grid[place[r]] - 1) /\ Grid[place[r]] \in Nat \ {0}
  BY PlaceFacts
<1>2. place[r] > 0 => IsFiniteSet(Blocks(r)) /\ Cardinality(Blocks(r)) = Grid[place[r]]
  <2> DEFINE n == Grid[place[r]]
  <2> SUFFICES ASSUME place[r] > 0 PROVE IsFiniteSet(Blocks(r)) /\ Cardinality(Blocks(r)) = n
    OBVIOUS
  <2>1. n \in Nat \ {0} /\ Blocks(r) = 0..(n - 1)
    BY <1>1
  <2> HIDE DEF n
  <2>2. 0 \in Int /\ n - 1 \in Int
    BY <2>1
  <2> QED
    BY <2>1, <2>2, FS_Interval
<1>3. place[r] = 0 => Blocks(r) = {}
  BY DEF Blocks
<1>4. IsFiniteSet(Blocks(r))
  <2>1. place[r] > 0 \/ place[r] = 0
    BY PlaceFacts
  <2> QED
    BY <1>2, <1>3, <2>1, FS_EmptySet
<1>5. Beyond(r, S) \in SUBSET Blocks(r)
  BY DEF Beyond
<1>6. /\ IsFiniteSet(Beyond(r, S))
      /\ Cardinality(Blocks(r)) = Cardinality(Beyond(r, S)) => Blocks(r) = Beyond(r, S)
  BY <1>4, <1>5, FS_Subset
<1> QED
  BY <1>2, <1>4, <1>6, FS_CardinalityType

LEMMA CountTurn ==
  ASSUME InTurn, Typed, NEW r \in Rank, Works(r), NEW b \in Blocks(r), NEW l, NEW w, NEW g, NEW d,
         Turn(r, b, l, w, g, d), NEW S
  PROVE  /\ (l \in S <=> pc[r][b] \in S) => Beyond(r, S)' = Beyond(r, S)
         /\ l \notin S /\ pc[r][b] \in S
              => Cardinality(Beyond(r, S)') = Cardinality(Beyond(r, S)) + 1
<1>1. Blocks(r)' = Blocks(r)
  BY Statics
<1>2. ASSUME l \in S <=> pc[r][b] \in S PROVE Beyond(r, S)' = Beyond(r, S)
  BY <1>1, <1>2 DEF Beyond, Turn
<1>3. ASSUME l \notin S, pc[r][b] \in S
      PROVE  Cardinality(Beyond(r, S)') = Cardinality(Beyond(r, S)) + 1
  <2>1. Beyond(r, S)' = Beyond(r, S) \cup {b} /\ b \notin Beyond(r, S)
    BY <1>1, <1>3 DEF Beyond, Turn
  <2>2. IsFiniteSet(Beyond(r, S))
    BY BlocksFinite
  <2> QED
    BY <2>1, <2>2, FS_AddElement
<1> QED
  BY <1>2, <1>3

\* A step that leaves the barriers alone.
LEMMA BarriersTurn ==
  ASSUME InTurn, Typed, NEW r \in Rank, Works(r), Barriers(r), NEW b \in Blocks(r), NEW l, NEW w, NEW g, NEW d,
         Turn(r, b, l, w, g, d), bar'[r].disp = bar[r].disp, bar'[r].comb = bar[r].comb,
         l \in Claiming <=> pc[r][b] \in Claiming, l \in Scattering <=> pc[r][b] \in Scattering,
         b = 0 => (l \in BeforeSignal <=> pc[r][b] \in BeforeSignal)
                  /\ (l \in BeforePost <=> pc[r][b] \in BeforePost)
  PROVE  Barriers(r)'
<1>1. /\ Blocks(r)' = Blocks(r) /\ (InDispatch(r)' <=> InDispatch(r)) /\ (InCombine(r)' <=> InCombine(r))
  BY Statics
<1>2. Beyond(r, Claiming)' = Beyond(r, Claiming) /\ Beyond(r, Scattering)' = Beyond(r, Scattering)
  BY CountTurn
<1>3. 0 \in Blocks(r)
  BY Onward, PlaceFacts
<1>4. (pc'[r][0] \in BeforeSignal <=> pc[r][0] \in BeforeSignal) /\ (pc'[r][0] \in BeforePost <=> pc[r][0] \in BeforePost)
  BY <1>3 DEF Turn
<1> QED
  BY <1>1, <1>2, <1>4 DEF Barriers

LEMMA BarriersKeep ==
  ASSUME InTurn, Delivering, NEW r \in Rank, Works(r)
  PROVE  Barriers(r)'
<1>0. Typed /\ Ranks /\ Shaped(r) /\ Barriers(r)
  BY DEF Delivering, Ranks
<1>a. /\ \A b \in Blocks(r) : Fits(r, b, pc[r][b], work[r][b], reg[r][b], todo[r][b])
      /\ bar[r] \in [disp : Nat, comb : Nat, grid : Nat] /\ DOMAIN bar = Rank
  BY <1>0 DEF Shaped, Typed
<1>b. /\ Blocks(r)' = Blocks(r) /\ (InDispatch(r)' <=> InDispatch(r)) /\ (InCombine(r)' <=> InCombine(r))
  BY Statics
<1> USE DEF Claiming, BeforeSignal, Scattering, BeforePost
<1>1. ASSUME NEW b \in Blocks(r), Claim(r, b) PROVE Barriers(r)'
  <2> DEFINE w == work[r][b]
             m == [pe |-> Goes(r, w), id |-> tokOff[Goes(r, w)]]
  <2>1. pc[r][b] = "claim" /\ UNCHANGED <<todo, bar>> /\ (Dismissed(r, b, w) \/ Granted(r, b, w, m))
    BY <1>0, <1>1, ClaimCases
  <2>2. CASE Dismissed(r, b, w)
    <3>1. Turn(r, b, pc[r][b], w + Grid[place[r]], reg[r][b], todo[r][b])
      BY <1>0, <2>1, <2>2, ClaimTurn
    <3> QED
      BY <1>0, <2>1, <3>1, BarriersTurn
  <2>3. CASE Granted(r, b, w, m)
    <3>1. Turn(r, b, "publish", w, [reg[r][b] EXCEPT !.row = m], todo[r][b])
      BY <1>0, <2>1, <2>3, ClaimTurn
    <3> QED
      BY <1>0, <2>1, <3>1, BarriersTurn
  <2> QED
    BY <2>1, <2>2, <2>3
<1>2. ASSUME NEW b \in Blocks(r), Publish(r, b) PROVE Barriers(r)'
  <2>1. Turn(r, b, "claim", work[r][b] + Grid[place[r]],
            reg[r][b], todo[r][b])
    BY <1>0, <1>2, PublishTurn
  <2>2. b \in Blocks(r) /\ pc[r][b] = "publish"
    BY <1>2 DEF Publish
  <2>3. bar' = bar
    BY <1>2 DEF Publish
  <2> QED
    BY <1>0, <2>1, <2>2, <2>3, BarriersTurn
<1>3. ASSUME NEW b \in Blocks(r), ArriveDispatch(r, b) PROVE Barriers(r)'
  <2>1. Turn(r, b, IF b = 0 THEN "collect" ELSE Then, work[r][b],
            reg[r][b], todo[r][b])
    BY <1>0, <1>3, ArriveDispatchTurn
  <2>2. b \in Blocks(r) /\ pc[r][b] = "claim" /\ bar' = [bar EXCEPT ![r].disp = bar[r].disp + 1]
    BY <1>3 DEF ArriveDispatch
  <2>3. bar'[r].disp = bar[r].disp + 1 /\ bar'[r].comb = bar[r].comb
    BY <1>a, <2>2
  <2>4. InDispatch(r) /\ ~InCombine(r)
    BY <1>0, <1>a, <2>2, Onward, PlaceFacts DEF Fits, DispatchPlace, BeforePack, BeforeGrid, CombinePlace, BeforeSum, BeforeRewind, BeforeReceive
  <2>5. 0 \in Blocks(r) /\ pc[r][0] \in BeforeSignal
    BY <1>0, <2>2, <2>4, Onward, PlaceFacts DEF Barriers, Beyond
  <2>6. pc'[r][0] \in BeforeSignal
    BY <2>1, <2>2, <2>5 DEF Turn
  <2>7. Cardinality(Beyond(r, Claiming)') = Cardinality(Beyond(r, Claiming)) + 1
    BY <1>0, <2>1, <2>2, CountTurn DEF Then
  <2> QED
    BY <1>0, <1>b, <2>3, <2>4, <2>5, <2>6, <2>7 DEF Barriers
<1>4. CASE Collect(r)
  <2>1. Turn(r, 0, "signal", work[r][0],
            reg[r][0], Rank)
    BY <1>0, <1>4, CollectTurn
  <2>2. 0 \in Blocks(r) /\ pc[r][0] = "collect" /\ bar' = [bar EXCEPT ![r].disp = 0]
    BY <1>4 DEF Collect
  <2>3. bar'[r].disp = 0 /\ bar'[r].comb = bar[r].comb
    BY <1>a, <2>2
  <2>4. InDispatch(r) /\ ~InCombine(r)
    BY <1>0, <1>a, <2>2, Onward, PlaceFacts DEF Fits, DispatchPlace, BeforePack, BeforeGrid, CombinePlace, BeforeSum, BeforeRewind, BeforeReceive
  <2>5. bar[r].disp = Grid[place[r]] /\ pc'[r][0] = "signal"
    BY <1>4, <2>1, <2>2 DEF Collect, Turn
  <2>6. Beyond(r, Claiming) = Blocks(r)
    BY <1>0, <2>2, <2>4, <2>5, BlocksFinite, Onward DEF Barriers
  <2>7. Beyond(r, Claiming)' = Beyond(r, Claiming)
    BY <1>0, <2>1, <2>2, CountTurn
  <2> QED
    BY <1>0, <1>b, <2>3, <2>4, <2>5, <2>6, <2>7 DEF Barriers
<1>5. ASSUME NEW p \in Rank, Signal(r, p) PROVE Barriers(r)'
  <2>1. Turn(r, 0, IF todo[r][0] \ {p} = {} THEN "receive" ELSE "signal", work[r][0],
            reg[r][0], todo[r][0] \ {p})
    BY <1>0, <1>5, SignalTurn
  <2>2. 0 \in Blocks(r) /\ pc[r][0] = "signal"
    BY <1>5 DEF Signal
  <2>3. bar' = bar
    BY <1>5 DEF Signal
  <2> QED
    BY <1>0, <2>1, <2>2, <2>3, BarriersTurn
<1>6. CASE Receive(r)
  <2>1. Turn(r, 0, "rewind", work[r][0],
            reg[r][0], todo[r][0])
    BY <1>0, <1>6, ReceiveTurn
  <2>2. 0 \in Blocks(r) /\ pc[r][0] = "receive"
    BY <1>6 DEF Receive
  <2>3. bar' = bar
    BY <1>6 DEF Receive
  <2> QED
    BY <1>0, <2>1, <2>2, <2>3, BarriersTurn
<1>7. CASE Rewind(r)
  <2>1. Turn(r, 0, Then, work[r][0],
            reg[r][0], todo[r][0])
    BY <1>0, <1>7, RewindTurn
  <2>2. 0 \in Blocks(r) /\ pc[r][0] = "rewind"
    BY <1>7 DEF Rewind
  <2>3. bar' = bar
    BY <1>7 DEF Rewind
  <2> QED
    BY <1>0, <2>1, <2>2, <2>3, BarriersTurn DEF Then
<1>8. ASSUME NEW b \in Blocks(r), Ticket(r, b) PROVE Barriers(r)'
  <2>1. Turn(r, b, "grid", work[r][b],
            [reg[r][b] EXCEPT !.target = (bar[r].grid \div Grid[place[r]] + 1) * Grid[place[r]]], todo[r][b])
    BY <1>0, <1>8, TicketTurn
  <2>2. b \in Blocks(r) /\ pc[r][b] = "ticket"
    BY <1>8 DEF Ticket
  <2>3. bar'[r].disp = bar[r].disp /\ bar'[r].comb = bar[r].comb
    BY <1>a, <1>8 DEF Ticket
  <2> QED
    BY <1>0, <2>1, <2>2, <2>3, BarriersTurn
<1>9. ASSUME NEW b \in Blocks(r), PassGrid(r, b) PROVE Barriers(r)'
  <2>1. Turn(r, b, "pack", b,
            reg[r][b], todo[r][b])
    BY <1>0, <1>9, PassGridTurn
  <2>2. b \in Blocks(r) /\ pc[r][b] = "grid"
    BY <1>9 DEF PassGrid
  <2>3. bar' = bar
    BY <1>9 DEF PassGrid
  <2> QED
    BY <1>0, <2>1, <2>2, <2>3, BarriersTurn
<1>10. ASSUME NEW b \in Blocks(r), Pack(r, b) PROVE Barriers(r)'
  <2>1. Turn(r, b, pc[r][b], work[r][b] + Grid[place[r]],
            reg[r][b], todo[r][b])
    BY <1>0, <1>10, PackTurn
  <2>2. b \in Blocks(r) /\ pc[r][b] = "pack"
    BY <1>10 DEF Pack
  <2>3. bar' = bar
    BY <1>10 DEF Pack
  <2> QED
    BY <1>0, <2>1, <2>2, <2>3, BarriersTurn
<1>11. ASSUME NEW b \in Blocks(r), EndDispatch(r, b) PROVE Barriers(r)'
  <2>1. Turn(r, b, "ended", work[r][b],
            reg[r][b], todo[r][b])
    BY <1>0, <1>11, EndDispatchTurn
  <2>2. b \in Blocks(r) /\ pc[r][b] = "pack"
    BY <1>11 DEF EndDispatch
  <2>3. bar' = bar
    BY <1>11 DEF EndDispatch
  <2> QED
    BY <1>0, <2>1, <2>2, <2>3, BarriersTurn
<1>12. ASSUME NEW b \in Blocks(r), Load(r, b) PROVE Barriers(r)'
  <2>1. Turn(r, b, "scatter", work[r][b],
            [reg[r][b] EXCEPT !.total = totalRecv[r], !.flag = xdbFlag[r]], todo[r][b])
    BY <1>0, <1>12, LoadTurn
  <2>2. b \in Blocks(r) /\ pc[r][b] = "load"
    BY <1>12 DEF Load
  <2>3. bar' = bar
    BY <1>12 DEF Load
  <2> QED
    BY <1>0, <2>1, <2>2, <2>3, BarriersTurn
<1>13. ASSUME NEW b \in Blocks(r), Scatter(r, b) PROVE Barriers(r)'
  <2>1. Turn(r, b, pc[r][b], work[r][b] + Grid[place[r]],
            reg[r][b], todo[r][b])
    BY <1>0, <1>13, ScatterTurn
  <2>2. b \in Blocks(r) /\ pc[r][b] = "scatter"
    BY <1>13 DEF Scatter
  <2>3. bar' = bar
    BY <1>13 DEF Scatter
  <2> QED
    BY <1>0, <2>1, <2>2, <2>3, BarriersTurn
<1>14. ASSUME NEW b \in Blocks(r), ArriveCombine(r, b) PROVE Barriers(r)'
  <2>1. Turn(r, b, IF b = 0 THEN "meet" ELSE "await", work[r][b],
            reg[r][b], Rank)
    BY <1>0, <1>14, ArriveCombineTurn
  <2>2. b \in Blocks(r) /\ pc[r][b] = "scatter" /\ bar' = [bar EXCEPT ![r].comb = bar[r].comb + 1]
    BY <1>14 DEF ArriveCombine
  <2>3. bar'[r].comb = bar[r].comb + 1 /\ bar'[r].disp = bar[r].disp
    BY <1>a, <2>2
  <2>4. InCombine(r) /\ ~InDispatch(r)
    BY <1>0, <1>a, <2>2, Onward, PlaceFacts DEF Fits, DispatchPlace, BeforePack, BeforeGrid, CombinePlace, BeforeSum, BeforeRewind, BeforeReceive
  <2>5. 0 \in Blocks(r) /\ pc[r][0] \in BeforePost
    BY <1>0, <2>2, <2>4, Onward, PlaceFacts DEF Barriers, Beyond
  <2>6. pc'[r][0] \in BeforePost
    BY <2>1, <2>2, <2>5 DEF Turn
  <2>7. Cardinality(Beyond(r, Scattering)') = Cardinality(Beyond(r, Scattering)) + 1
    BY <1>0, <2>1, <2>2, CountTurn DEF Then
  <2> QED
    BY <1>0, <1>b, <2>3, <2>4, <2>5, <2>6, <2>7 DEF Barriers
<1>15. CASE Meet(r)
  <2>1. Turn(r, 0, "post", work[r][0],
            reg[r][0], todo[r][0])
    BY <1>0, <1>15, MeetTurn
  <2>2. 0 \in Blocks(r) /\ pc[r][0] = "meet" /\ bar' = [bar EXCEPT ![r].comb = 0]
    BY <1>15 DEF Meet
  <2>3. bar'[r].comb = 0 /\ bar'[r].disp = bar[r].disp
    BY <1>a, <2>2
  <2>4. InCombine(r) /\ ~InDispatch(r)
    BY <1>0, <1>a, <2>2, Onward, PlaceFacts DEF Fits, DispatchPlace, BeforePack, BeforeGrid, CombinePlace, BeforeSum, BeforeRewind, BeforeReceive
  <2>5. bar[r].comb = Grid[place[r]] /\ pc'[r][0] = "post"
    BY <1>15, <2>1, <2>2 DEF Meet, Turn
  <2>6. Beyond(r, Scattering) = Blocks(r)
    BY <1>0, <2>2, <2>4, <2>5, BlocksFinite, Onward DEF Barriers
  <2>7. Beyond(r, Scattering)' = Beyond(r, Scattering)
    BY <1>0, <2>1, <2>2, CountTurn
  <2> QED
    BY <1>0, <1>b, <2>3, <2>4, <2>5, <2>6, <2>7 DEF Barriers
<1>16. ASSUME NEW p \in Rank, Post(r, p) PROVE Barriers(r)'
  <2>1. Turn(r, 0, IF todo[r][0] = {p} THEN "await" ELSE "post", work[r][0],
            reg[r][0], IF todo[r][0] = {p} THEN Rank ELSE todo[r][0] \ {p})
    BY <1>0, <1>16, PostTurn
  <2>2. 0 \in Blocks(r) /\ pc[r][0] = "post"
    BY <1>16 DEF Post
  <2>3. bar' = bar
    BY <1>16 DEF Post
  <2> QED
    BY <1>0, <2>1, <2>2, <2>3, BarriersTurn
<1>17. ASSUME NEW b \in Blocks(r), NEW p \in Rank, Await(r, b, p) PROVE Barriers(r)'
  <2>1. Turn(r, b, IF todo[r][b] \ {p} = {} THEN "sum" ELSE "await", IF todo[r][b] \ {p} = {} THEN b ELSE work[r][b],
            reg[r][b], todo[r][b] \ {p})
    BY <1>0, <1>17, AwaitTurn
  <2>2. b \in Blocks(r) /\ pc[r][b] = "await"
    BY <1>17 DEF Await
  <2>3. bar' = bar
    BY <1>17 DEF Await
  <2> QED
    BY <1>0, <2>1, <2>2, <2>3, BarriersTurn
<1>18. ASSUME NEW b \in Blocks(r), Sum(r, b) PROVE Barriers(r)'
  <2>1. Turn(r, b, pc[r][b], work[r][b] + Grid[place[r]],
            reg[r][b], todo[r][b])
    BY <1>0, <1>18, SumTurn
  <2>2. b \in Blocks(r) /\ pc[r][b] = "sum"
    BY <1>18 DEF Sum
  <2>3. bar' = bar
    BY <1>18 DEF Sum
  <2> QED
    BY <1>0, <2>1, <2>2, <2>3, BarriersTurn
<1>19. ASSUME NEW b \in Blocks(r), EndCombine(r, b) PROVE Barriers(r)'
  <2>1. Turn(r, b, "ended", work[r][b],
            reg[r][b], todo[r][b])
    BY <1>0, <1>19, EndCombineTurn
  <2>2. b \in Blocks(r) /\ pc[r][b] = "sum"
    BY <1>19 DEF EndCombine
  <2>3. bar' = bar
    BY <1>19 DEF EndCombine
  <2> QED
    BY <1>0, <2>1, <2>2, <2>3, BarriersTurn
<1> QED
  BY <1>1, <1>2, <1>3, <1>4, <1>5, <1>6, <1>7, <1>8, <1>9, <1>10, <1>11, <1>12, <1>13, <1>14, <1>15, <1>16, <1>17, <1>18, <1>19 DEF Works, DispatchStep, CombineStep

\* The kernel, by the place of a block.
LEMMA KernelOf ==
  ASSUME InTurn, Typed, NEW r \in Rank, Shaped(r), NEW b \in Blocks(r)
  PROVE  /\ place[r] > 0
         /\ pc[r][b] \in BeforeRewind \cup {"ticket", "grid", "pack"} => InDispatch(r) /\ ~InCombine(r)
         /\ pc[r][b] \in BeforeSum \cup {"sum"} => InCombine(r) /\ ~InDispatch(r)
         /\ InDispatch(r) => pc[r][b] \in DispatchPlace
         /\ InCombine(r) => pc[r][b] \in CombinePlace
<1>1. Fits(r, b, pc[r][b], work[r][b], reg[r][b], todo[r][b])
  BY DEF Shaped
<1>2. place[r] > 0 /\ (InDispatch(r) <=> ~InCombine(r))
  BY Onward, PlaceFacts
<1> QED
  BY <1>1, <1>2 DEF Fits, DispatchPlace, BeforePack, BeforeGrid, CombinePlace, BeforeSum, BeforePost, Scattering, BeforeRewind,
     BeforeReceive, BeforeSignal, Claiming

LEMMA FlagsTurn ==
  ASSUME InTurn, Typed, NEW r \in Rank, Works(r), Flags(r), NEW b \in Blocks(r), NEW l, NEW w, NEW g, NEW d,
         Turn(r, b, l, w, g, d),
         InCombine(r) /\ l # "load" => g.flag = RoundOf(place[r]),
         \/ /\ xdbFlag'[r] = xdbFlag[r]
            /\ b = 0 /\ InCombine(r) => (l \in BeforePost \cup {"post"} <=> pc[r][b] \in BeforePost \cup {"post"})
         \/ /\ xdbFlag'[r] = RoundOf(place[r]) + 1
            /\ b = 0 /\ InCombine(r) /\ l \notin BeforePost \cup {"post"}
  PROVE  Flags(r)'
<1>1. /\ Blocks(r)' = Blocks(r) /\ (InDispatch(r)' <=> InDispatch(r)) /\ (InCombine(r)' <=> InCombine(r))
      /\ RoundOf(place[r])' = RoundOf(place[r])
  BY Statics
<1>2. 0 \in Blocks(r) /\ (InDispatch(r) <=> ~InCombine(r))
  BY Onward, PlaceFacts
<1>3. ASSUME InCombine(r), NEW c \in Blocks(r), pc'[r][c] # "load"
      PROVE  reg'[r][c].flag = RoundOf(place[r])
  BY <1>3 DEF Flags, Turn
<1>4. CASE xdbFlag'[r] = xdbFlag[r] /\
           (b = 0 /\ InCombine(r) => (l \in BeforePost \cup {"post"} <=> pc[r][b] \in BeforePost \cup {"post"}))
  <2>1. InCombine(r) => (pc'[r][0] \in BeforePost \cup {"post"} <=> pc[r][0] \in BeforePost \cup {"post"})
    BY <1>2, <1>4 DEF Turn
  <2> QED
    BY <1>1, <1>2, <1>3, <1>4, <2>1 DEF Flags
<1>5. CASE xdbFlag'[r] = RoundOf(place[r]) + 1 /\ b = 0 /\ InCombine(r) /\ l \notin BeforePost \cup {"post"}
  <2>1. pc'[r][0] \notin BeforePost \cup {"post"}
    BY <1>2, <1>5 DEF Turn
  <2> QED
    BY <1>1, <1>2, <1>3, <1>5, <2>1 DEF Flags
<1> QED
  BY <1>4, <1>5

LEMMA FlagsKeep ==
  ASSUME InTurn, Delivering, NEW r \in Rank, Works(r)
  PROVE  Flags(r)'
<1>0. Typed /\ Ranks /\ Shaped(r) /\ Flags(r)
  BY DEF Delivering, Ranks
<1>a. InCombine(r) => \A b \in Blocks(r) : pc[r][b] # "load" => reg[r][b].flag = RoundOf(place[r])
  BY <1>0 DEF Flags
<1> USE DEF BeforeRewind, BeforeReceive, BeforeSignal, Claiming, BeforePost, Scattering, BeforeSum
<1>1. ASSUME NEW b \in Blocks(r), Claim(r, b) PROVE Flags(r)'
  <2> DEFINE w == work[r][b]
             m == [pe |-> Goes(r, w), id |-> tokOff[Goes(r, w)]]
  <2>1. /\ pc[r][b] = "claim" /\ UNCHANGED <<todo, combineVars>> /\ (Dismissed(r, b, w) \/ Granted(r, b, w, m))
    BY <1>0, <1>1, ClaimCases
  <2>2. ~InCombine(r) /\ xdbFlag'[r] = xdbFlag[r]
    BY <1>0, <2>1, KernelOf DEF combineVars
  <2>3. \E l, v, g, d : Turn(r, b, l, v, g, d)
    BY <1>0, <2>1, ClaimTurn
  <2> QED
    BY <1>0, <2>2, <2>3, FlagsTurn
<1>2. ASSUME NEW b \in Blocks(r), Publish(r, b) PROVE Flags(r)'
  <2>1. Turn(r, b, "claim", work[r][b] + Grid[place[r]],
            reg[r][b], todo[r][b])
    BY <1>0, <1>2, PublishTurn
  <2>2. b \in Blocks(r) /\ pc[r][b] = "publish"
    BY <1>2 DEF Publish
  <2>3. ~InCombine(r) /\ xdbFlag'[r] = xdbFlag[r]
    BY <1>0, <1>2, <2>2, KernelOf DEF Publish, combineVars
  <2> QED
    BY <1>0, <2>1, <2>2, <2>3, FlagsTurn
<1>3. ASSUME NEW b \in Blocks(r), ArriveDispatch(r, b) PROVE Flags(r)'
  <2>1. Turn(r, b, IF b = 0 THEN "collect" ELSE Then, work[r][b],
            reg[r][b], todo[r][b])
    BY <1>0, <1>3, ArriveDispatchTurn
  <2>2. b \in Blocks(r) /\ pc[r][b] = "claim"
    BY <1>3 DEF ArriveDispatch
  <2>3. ~InCombine(r) /\ xdbFlag'[r] = xdbFlag[r]
    BY <1>0, <1>3, <2>2, KernelOf DEF ArriveDispatch, combineVars
  <2> QED
    BY <1>0, <2>1, <2>2, <2>3, FlagsTurn
<1>4. CASE Collect(r)
  <2>1. Turn(r, 0, "signal", work[r][0],
            reg[r][0], Rank)
    BY <1>0, <1>4, CollectTurn
  <2>2. 0 \in Blocks(r) /\ pc[r][0] = "collect"
    BY <1>4 DEF Collect
  <2>3. ~InCombine(r) /\ xdbFlag'[r] = xdbFlag[r]
    BY <1>0, <1>4, <2>2, KernelOf DEF Collect, combineVars
  <2> QED
    BY <1>0, <2>1, <2>2, <2>3, FlagsTurn
<1>5. ASSUME NEW p \in Rank, Signal(r, p) PROVE Flags(r)'
  <2>1. Turn(r, 0, IF todo[r][0] \ {p} = {} THEN "receive" ELSE "signal", work[r][0],
            reg[r][0], todo[r][0] \ {p})
    BY <1>0, <1>5, SignalTurn
  <2>2. 0 \in Blocks(r) /\ pc[r][0] = "signal"
    BY <1>5 DEF Signal
  <2>3. ~InCombine(r) /\ xdbFlag'[r] = xdbFlag[r]
    BY <1>0, <1>5, <2>2, KernelOf DEF Signal, combineVars
  <2> QED
    BY <1>0, <2>1, <2>2, <2>3, FlagsTurn
<1>6. CASE Receive(r)
  <2>1. Turn(r, 0, "rewind", work[r][0],
            reg[r][0], todo[r][0])
    BY <1>0, <1>6, ReceiveTurn
  <2>2. 0 \in Blocks(r) /\ pc[r][0] = "receive"
    BY <1>6 DEF Receive
  <2>3. ~InCombine(r) /\ xdbFlag'[r] = xdbFlag[r]
    BY <1>0, <1>6, <2>2, KernelOf DEF Receive, combineVars
  <2> QED
    BY <1>0, <2>1, <2>2, <2>3, FlagsTurn
<1>7. CASE Rewind(r)
  <2>1. Turn(r, 0, Then, work[r][0],
            reg[r][0], todo[r][0])
    BY <1>0, <1>7, RewindTurn
  <2>2. 0 \in Blocks(r) /\ pc[r][0] = "rewind"
    BY <1>7 DEF Rewind
  <2>3. ~InCombine(r) /\ xdbFlag'[r] = xdbFlag[r]
    BY <1>0, <1>7, <2>2, KernelOf DEF Rewind, combineVars
  <2> QED
    BY <1>0, <2>1, <2>2, <2>3, FlagsTurn
<1>8. ASSUME NEW b \in Blocks(r), Ticket(r, b) PROVE Flags(r)'
  <2>1. Turn(r, b, "grid", work[r][b],
            [reg[r][b] EXCEPT !.target = (bar[r].grid \div Grid[place[r]] + 1) * Grid[place[r]]], todo[r][b])
    BY <1>0, <1>8, TicketTurn
  <2>2. b \in Blocks(r) /\ pc[r][b] = "ticket"
    BY <1>8 DEF Ticket
  <2>3. ~InCombine(r) /\ xdbFlag'[r] = xdbFlag[r]
    BY <1>0, <1>8, <2>2, KernelOf DEF Ticket, combineVars
  <2> QED
    BY <1>0, <2>1, <2>2, <2>3, FlagsTurn
<1>9. ASSUME NEW b \in Blocks(r), PassGrid(r, b) PROVE Flags(r)'
  <2>1. Turn(r, b, "pack", b,
            reg[r][b], todo[r][b])
    BY <1>0, <1>9, PassGridTurn
  <2>2. b \in Blocks(r) /\ pc[r][b] = "grid"
    BY <1>9 DEF PassGrid
  <2>3. ~InCombine(r) /\ xdbFlag'[r] = xdbFlag[r]
    BY <1>0, <1>9, <2>2, KernelOf DEF PassGrid, combineVars
  <2> QED
    BY <1>0, <2>1, <2>2, <2>3, FlagsTurn
<1>10. ASSUME NEW b \in Blocks(r), Pack(r, b) PROVE Flags(r)'
  <2>1. Turn(r, b, pc[r][b], work[r][b] + Grid[place[r]],
            reg[r][b], todo[r][b])
    BY <1>0, <1>10, PackTurn
  <2>2. b \in Blocks(r) /\ pc[r][b] = "pack"
    BY <1>10 DEF Pack
  <2>3. ~InCombine(r) /\ xdbFlag'[r] = xdbFlag[r]
    BY <1>0, <1>10, <2>2, KernelOf DEF Pack, combineVars
  <2> QED
    BY <1>0, <2>1, <2>2, <2>3, FlagsTurn
<1>11. ASSUME NEW b \in Blocks(r), EndDispatch(r, b) PROVE Flags(r)'
  <2>1. Turn(r, b, "ended", work[r][b],
            reg[r][b], todo[r][b])
    BY <1>0, <1>11, EndDispatchTurn
  <2>2. b \in Blocks(r) /\ pc[r][b] = "pack"
    BY <1>11 DEF EndDispatch
  <2>3. ~InCombine(r) /\ xdbFlag'[r] = xdbFlag[r]
    BY <1>0, <1>11, <2>2, KernelOf DEF EndDispatch, combineVars
  <2> QED
    BY <1>0, <2>1, <2>2, <2>3, FlagsTurn
<1>12. ASSUME NEW b \in Blocks(r), Load(r, b) PROVE Flags(r)'
  <2>1. Turn(r, b, "scatter", work[r][b],
            [reg[r][b] EXCEPT !.total = totalRecv[r], !.flag = xdbFlag[r]], todo[r][b])
    BY <1>0, <1>12, LoadTurn
  <2>2. b \in Blocks(r) /\ pc[r][b] = "load"
    BY <1>12 DEF Load
  <2>3. xdbFlag'[r] = xdbFlag[r]
    BY <1>12 DEF Load, combineVars
  <2>4. [reg[r][b] EXCEPT !.total = totalRecv[r], !.flag = xdbFlag[r]].flag = RoundOf(place[r])
    <3>1. InCombine(r)
      BY <1>0, <2>2, KernelOf
    <3>2. pc[r][0] \in BeforePost
      <4>1. b \notin Beyond(r, Scattering)
        BY <2>2 DEF Beyond
      <4> QED
        BY <1>0, <3>1, <4>1 DEF Delivering, Ranks, Barriers
    <3>3. xdbFlag[r] = RoundOf(place[r])
      BY <1>0, <3>1, <3>2 DEF Flags
    <3>4. reg[r][b] \in [row : [pe : 0..World, id : Nat], target : Nat, total : Nat, flag : Nat]
      BY <1>0 DEF Shaped, Fits
    <3> QED
      BY <3>3, <3>4
  <2> QED
    BY <1>0, <2>1, <2>2, <2>3, <2>4, FlagsTurn
<1>13. ASSUME NEW b \in Blocks(r), Scatter(r, b) PROVE Flags(r)'
  <2>1. Turn(r, b, pc[r][b], work[r][b] + Grid[place[r]],
            reg[r][b], todo[r][b])
    BY <1>0, <1>13, ScatterTurn
  <2>2. b \in Blocks(r) /\ pc[r][b] = "scatter"
    BY <1>13 DEF Scatter
  <2>3. xdbFlag'[r] = xdbFlag[r]
    BY <1>13 DEF Scatter, combineVars
  <2>4. InCombine(r) => reg[r][b].flag = RoundOf(place[r])
    BY <1>a, <2>2
  <2> QED
    BY <1>0, <2>1, <2>2, <2>3, <2>4, FlagsTurn
<1>14. ASSUME NEW b \in Blocks(r), ArriveCombine(r, b) PROVE Flags(r)'
  <2>1. Turn(r, b, IF b = 0 THEN "meet" ELSE "await", work[r][b],
            reg[r][b], Rank)
    BY <1>0, <1>14, ArriveCombineTurn
  <2>2. b \in Blocks(r) /\ pc[r][b] = "scatter"
    BY <1>14 DEF ArriveCombine
  <2>3. xdbFlag'[r] = xdbFlag[r]
    BY <1>14 DEF ArriveCombine, combineVars
  <2>4. InCombine(r) => reg[r][b].flag = RoundOf(place[r])
    BY <1>a, <2>2
  <2> QED
    BY <1>0, <2>1, <2>2, <2>3, <2>4, FlagsTurn
<1>15. CASE Meet(r)
  <2>1. Turn(r, 0, "post", work[r][0],
            reg[r][0], todo[r][0])
    BY <1>0, <1>15, MeetTurn
  <2>2. 0 \in Blocks(r) /\ pc[r][0] = "meet"
    BY <1>15 DEF Meet
  <2>3. xdbFlag'[r] = xdbFlag[r]
    BY <1>15 DEF Meet, combineVars
  <2>4. InCombine(r) => reg[r][0].flag = RoundOf(place[r])
    BY <1>a, <2>2
  <2> QED
    BY <1>0, <2>1, <2>2, <2>3, <2>4, FlagsTurn
<1>16. ASSUME NEW p \in Rank, Post(r, p) PROVE Flags(r)'
  <2>1. Turn(r, 0, IF todo[r][0] = {p} THEN "await" ELSE "post", work[r][0],
            reg[r][0], IF todo[r][0] = {p} THEN Rank ELSE todo[r][0] \ {p})
    BY <1>0, <1>16, PostTurn
  <2>2. 0 \in Blocks(r) /\ pc[r][0] = "post"
    BY <1>16 DEF Post
  <2>3. InCombine(r) /\ reg[r][0].flag = RoundOf(place[r]) /\ xdbFlag[r] = RoundOf(place[r])
    BY <1>0, <1>a, <2>2, KernelOf DEF Flags
  <2>4. xdbFlag \in [Rank -> Nat]
    BY <1>0 DEF Typed
  <2>5. CASE todo[r][0] = {p}
    <3>1. xdbFlag'[r] = RoundOf(place[r]) + 1
      BY <1>16, <2>3, <2>4, <2>5 DEF Post
    <3>2. Turn(r, 0, "await", work[r][0], reg[r][0], Rank)
      BY <2>1, <2>5
    <3> QED
      BY <1>0, <2>2, <2>3, <3>1, <3>2, FlagsTurn
  <2>6. CASE todo[r][0] # {p}
    <3>1. xdbFlag'[r] = xdbFlag[r]
      BY <1>16, <2>6 DEF Post
    <3>2. Turn(r, 0, "post", work[r][0], reg[r][0], todo[r][0] \ {p})
      BY <2>1, <2>6
    <3> QED
      BY <1>0, <2>2, <2>3, <3>1, <3>2, FlagsTurn
  <2> QED
    BY <2>5, <2>6
<1>17. ASSUME NEW b \in Blocks(r), NEW p \in Rank, Await(r, b, p) PROVE Flags(r)'
  <2>1. Turn(r, b, IF todo[r][b] \ {p} = {} THEN "sum" ELSE "await", IF todo[r][b] \ {p} = {} THEN b ELSE work[r][b],
            reg[r][b], todo[r][b] \ {p})
    BY <1>0, <1>17, AwaitTurn
  <2>2. b \in Blocks(r) /\ pc[r][b] = "await"
    BY <1>17 DEF Await
  <2>3. xdbFlag'[r] = xdbFlag[r]
    BY <1>17 DEF Await, combineVars
  <2>4. InCombine(r) => reg[r][b].flag = RoundOf(place[r])
    BY <1>a, <2>2
  <2> QED
    BY <1>0, <2>1, <2>2, <2>3, <2>4, FlagsTurn
<1>18. ASSUME NEW b \in Blocks(r), Sum(r, b) PROVE Flags(r)'
  <2>1. Turn(r, b, pc[r][b], work[r][b] + Grid[place[r]],
            reg[r][b], todo[r][b])
    BY <1>0, <1>18, SumTurn
  <2>2. b \in Blocks(r) /\ pc[r][b] = "sum"
    BY <1>18 DEF Sum
  <2>3. xdbFlag'[r] = xdbFlag[r]
    BY <1>18 DEF Sum, combineVars
  <2>4. InCombine(r) => reg[r][b].flag = RoundOf(place[r])
    BY <1>a, <2>2
  <2> QED
    BY <1>0, <2>1, <2>2, <2>3, <2>4, FlagsTurn
<1>19. ASSUME NEW b \in Blocks(r), EndCombine(r, b) PROVE Flags(r)'
  <2>1. Turn(r, b, "ended", work[r][b],
            reg[r][b], todo[r][b])
    BY <1>0, <1>19, EndCombineTurn
  <2>2. b \in Blocks(r) /\ pc[r][b] = "sum"
    BY <1>19 DEF EndCombine
  <2>3. xdbFlag'[r] = xdbFlag[r]
    BY <1>19 DEF EndCombine, combineVars
  <2>4. InCombine(r) => reg[r][b].flag = RoundOf(place[r])
    BY <1>a, <2>2
  <2> QED
    BY <1>0, <2>1, <2>2, <2>3, <2>4, FlagsTurn
<1> QED
  BY <1>1, <1>2, <1>3, <1>4, <1>5, <1>6, <1>7, <1>8, <1>9, <1>10, <1>11, <1>12, <1>13, <1>14, <1>15, <1>16, <1>17, <1>18, <1>19 DEF Works, DispatchStep, CombineStep

LEMMA RanksKeep ==
  ASSUME InTurn, Delivering, NEW r \in Rank, Works(r)
  PROVE  Ranks'
<1>0. Typed /\ Ranks
  BY DEF Delivering
<1>1. Shaped(r)' /\ Barriers(r)' /\ Flags(r)'
  BY ShapedKeeps, BarriersKeep, FlagsKeep
<1>2. ASSUME NEW q \in Rank \ {r} PROVE Shaped(q)' /\ Barriers(q)' /\ Flags(q)'
  <2>1. Own(q) /\ Shaped(q) /\ Barriers(q) /\ Flags(q)
    BY <1>0, <1>2, OthersRest DEF Ranks
  <2>2. /\ Blocks(q)' = Blocks(q) /\ (InDispatch(q)' <=> InDispatch(q)) /\ (InCombine(q)' <=> InCombine(q))
        /\ RoundOf(place[q])' = RoundOf(place[q]) /\ Items(q)' = Items(q) /\ mode' = mode /\ place' = place
    BY Statics, StreamsStay
  <2>3. Shaped(q)'
    BY <2>1, <2>2 DEF Shaped, Fits, BlockOf, Own
  <2>4. Barriers(q)'
    <3>1. Beyond(q, Claiming)' = Beyond(q, Claiming) /\ Beyond(q, Scattering)' = Beyond(q, Scattering)
      BY <2>1, <2>2 DEF Beyond, Own
    <3> QED
      BY <2>1, <2>2, <3>1 DEF Barriers, Own
  <2>5. Flags(q)'
    BY <2>1, <2>2 DEF Flags, Own
  <2> QED
    BY <2>3, <2>4, <2>5
<1> QED
  BY <1>1, <1>2 DEF Ranks

-----------------------------------------------------------------------------
(* What the ranks see of a step: items, messages sent and had, and where   *)
(* the dispatch kernels are with their counts.                             *)

SameItems ==
  \A q \in Rank : \A w \in Items(q) : (Past(q, w)' <=> Past(q, w)) /\ (Holding(q, w)' <=> Holding(q, w))
SameSent  == \A q, p \in Rank : place[q] > 0 => (Sent(q, p)' <=> Sent(q, p))
SameGot   == \A p, q \in Rank : place[p] > 0 => (Got(p, q)' <=> Got(p, q))
SamePhase ==
  \A q \in Rank : InDispatch(q) =>
    /\ pc'[q][0] \in BeforeReceive <=> pc[q][0] \in BeforeReceive
    /\ pc'[q][0] \in BeforeRewind <=> pc[q][0] \in BeforeRewind

SameData == UNCHANGED <<tokOff, destCtr, recvNum, tokMap, recvTok, xdbMem>>

Quiet == SameItems /\ SameSent /\ SameGot /\ SamePhase /\ SameData

LEMMA OtherItems ==
  ASSUME InTurn, Typed, NEW r \in Rank, Works(r), NEW q \in Rank \ {r}
  PROVE  /\ \A w \in Items(q) : (Past(q, w)' <=> Past(q, w)) /\ (Holding(q, w)' <=> Holding(q, w))
         /\ \A p : (Sent(q, p)' <=> Sent(q, p)) /\ (Got(q, p)' <=> Got(q, p))
<1>1. /\ Own(q) /\ Blocks(q)' = Blocks(q) /\ (InDispatch(q)' <=> InDispatch(q))
      /\ \A w : BlockOf(q, w)' = BlockOf(q, w)
  BY OthersRest, Statics
<1>2. ASSUME NEW w \in Items(q) PROVE (Past(q, w)' <=> Past(q, w)) /\ (Holding(q, w)' <=> Holding(q, w))
  BY <1>1 DEF Past, Through, Holding, Own
<1>3. ASSUME NEW p PROVE (Sent(q, p)' <=> Sent(q, p)) /\ (Got(q, p)' <=> Got(q, p))
  BY <1>1 DEF Sent, Got, Had, Own
<1> QED
  BY <1>2, <1>3

LEMMA ItemsTurn ==
  ASSUME InTurn, Typed, NEW r \in Rank, Works(r), NEW b \in Blocks(r), NEW l, NEW w, NEW g, NEW d,
         Turn(r, b, l, w, g, d), l \notin Claiming, pc[r][b] \notin Claiming
  PROVE  SameItems
<1>1. \A v : BlockOf(r, v)' = BlockOf(r, v)
  BY Statics
<1>2. ASSUME NEW v \in Items(r) PROVE (Past(r, v)' <=> Past(r, v)) /\ (Holding(r, v)' <=> Holding(r, v))
  <2>1. BlockOf(r, v) \in Blocks(r)
    <3>1. v \in Nat /\ place[r] > 0
      BY ItemsFit, Onward
    <3> QED
      BY <3>1, Onward
  <2> QED
    BY <1>1, <2>1 DEF Past, Through, Holding, Turn, Claiming
<1> QED
  BY <1>2, OtherItems DEF SameItems

LEMMA SentTurn ==
  ASSUME InTurn, Typed, NEW r \in Rank, Works(r), NEW b \in Blocks(r), NEW l, NEW w, NEW g, NEW d,
         Turn(r, b, l, w, g, d),
         b = 0 => \A p \in Rank :
           Sent(r, p) <=> l \notin BeforeSignal \cup BeforePost /\ (l \in {"signal", "post"} => p \notin d)
  PROVE  SameSent
<1>1. 0 \in Blocks(r)
  BY Onward, PlaceFacts
<1>2. ASSUME NEW p \in Rank PROVE Sent(r, p)' <=> Sent(r, p)
  BY <1>1 DEF Sent, Turn
<1> QED
  BY <1>2, OtherItems DEF SameSent

LEMMA GotTurn ==
  ASSUME InTurn, Typed, NEW r \in Rank, Works(r), NEW b \in Blocks(r), NEW l, NEW w, NEW g, NEW d,
         Turn(r, b, l, w, g, d),
         InDispatch(r) /\ b = 0 => (l \in BeforeReceive <=> pc[r][b] \in BeforeReceive),
         ~InDispatch(r) => \A q \in Rank : Had(r, b, q) <=> l \in {"sum", "ended"} \/ (l = "await" /\ q \notin d)
  PROVE  SameGot
<1>1. 0 \in Blocks(r) /\ Blocks(r)' = Blocks(r) /\ (InDispatch(r)' <=> InDispatch(r))
  BY Onward, PlaceFacts, Statics
<1>2. ASSUME NEW q \in Rank PROVE Got(r, q)' <=> Got(r, q)
  <2>1. CASE InDispatch(r)
    BY <1>1, <2>1 DEF Got, Turn
  <2>2. CASE ~InDispatch(r)
    <3>1. \A c \in Blocks(r) : Had(r, c, q)' <=> Had(r, c, q)
      BY <2>2 DEF Had, Turn
    <3> QED
      BY <1>1, <2>2, <3>1 DEF Got
  <2> QED
    BY <2>1, <2>2
<1> QED
  BY <1>2, OtherItems DEF SameGot

LEMMA PhaseTurn ==
  ASSUME InTurn, Typed, NEW r \in Rank, Works(r), NEW b \in Blocks(r), NEW l, NEW w, NEW g, NEW d,
         Turn(r, b, l, w, g, d),
         InDispatch(r) /\ b = 0 =>
           /\ l \in BeforeReceive <=> pc[r][b] \in BeforeReceive
           /\ l \in BeforeRewind <=> pc[r][b] \in BeforeRewind
  PROVE  SamePhase
<1>1. 0 \in Blocks(r) /\ \A q \in Rank \ {r} : pc'[q] = pc[q]
  BY Onward, PlaceFacts, OthersRest DEF Own
<1>2. pc'[r][0] = IF b = 0 THEN l ELSE pc[r][0]
  BY <1>1 DEF Turn
<1>3. ASSUME NEW q \in Rank, InDispatch(q)
      PROVE  /\ pc'[q][0] \in BeforeReceive <=> pc[q][0] \in BeforeReceive
             /\ pc'[q][0] \in BeforeRewind <=> pc[q][0] \in BeforeRewind
  <2>1. CASE q = r
    BY <1>2, <1>3, <2>1
  <2>2. CASE q # r
    BY <1>1, <2>2
  <2> QED
    BY <2>1, <2>2
<1> QED
  BY <1>3 DEF SamePhase

LEMMA ClaimView ==
  ASSUME InTurn, Delivering, NEW r \in Rank, Works(r), NEW b \in Blocks(r), Claim(r, b)
  PROVE  SameSent /\ SameGot /\ SamePhase
<1>0. Typed /\ Ranks /\ Shaped(r)
  BY DEF Delivering, Ranks
<1> DEFINE w == work[r][b]
           m == [pe |-> Goes(r, w), id |-> tokOff[Goes(r, w)]]
<1> USE DEF Claiming, BeforeSignal, BeforeReceive, BeforeRewind, BeforePost, Scattering
<1>1. pc[r][b] = "claim" /\ UNCHANGED todo /\ (Dismissed(r, b, w) \/ Granted(r, b, w, m)) /\ InDispatch(r)
  BY <1>0, ClaimCases
<1>2. PICK l, v, g : l \in {"claim", "publish"} /\ Turn(r, b, l, v, g, todo[r][b])
  <2>1. CASE Dismissed(r, b, w)
    <3>1. Turn(r, b, "claim", work[r][b] + Grid[place[r]], reg[r][b], todo[r][b])
      BY <1>0, <1>1, <2>1, ClaimTurn
    <3> QED
      BY <3>1
  <2>2. CASE Granted(r, b, w, m)
    <3>1. Turn(r, b, "publish", work[r][b], [reg[r][b] EXCEPT !.row = m], todo[r][b])
      BY <1>0, <1>1, <2>2, ClaimTurn
    <3> QED
      BY <3>1
  <2> QED
    BY <1>1, <2>1, <2>2
<1>3. SameSent
  BY <1>0, <1>1, <1>2, SentTurn DEF Sent
<1>4. SameGot
  BY <1>0, <1>1, <1>2, GotTurn
<1>5. SamePhase
  BY <1>0, <1>1, <1>2, PhaseTurn
<1> QED
  BY <1>3, <1>4, <1>5

LEMMA PublishView ==
  ASSUME InTurn, Delivering, NEW r \in Rank, Works(r), NEW b \in Blocks(r), Publish(r, b)
  PROVE  SameSent /\ SameGot /\ SamePhase
<1>0. Typed /\ Shaped(r)
  BY DEF Delivering, Ranks
<1> USE DEF Claiming, BeforeSignal, BeforeReceive, BeforeRewind, Scattering, BeforePost, BeforeSum
<1>1. Turn(r, b, "claim", work[r][b] + Grid[place[r]],
           reg[r][b], todo[r][b])
  BY <1>0, PublishTurn
<1>2. b \in Blocks(r) /\ pc[r][b] = "publish"
  BY DEF Publish
<1>3. /\ Fits(r, b, pc[r][b], work[r][b], reg[r][b], todo[r][b])
      /\ InDispatch(r)
  BY <1>0, <1>2, KernelOf DEF Shaped
<1>4. SameSent
  BY <1>0, <1>1, <1>2, <1>3, SentTurn DEF Sent, Fits
<1>5. SameGot
  BY <1>0, <1>1, <1>2, <1>3, GotTurn DEF Had, Fits
<1>6. SamePhase
  BY <1>0, <1>1, <1>2, <1>3, PhaseTurn
<1> QED
  BY <1>4, <1>5, <1>6

LEMMA ArriveDispatchView ==
  ASSUME InTurn, Delivering, NEW r \in Rank, Works(r), NEW b \in Blocks(r), ArriveDispatch(r, b)
  PROVE  Quiet
<1>0. Typed /\ Shaped(r)
  BY DEF Delivering, Ranks
<1> USE DEF Claiming, BeforeSignal, BeforeReceive, BeforeRewind, Scattering, BeforePost, BeforeSum
<1>1. Turn(r, b, IF b = 0 THEN "collect" ELSE Then, work[r][b],
           reg[r][b], todo[r][b])
  BY <1>0, ArriveDispatchTurn
<1>2. b \in Blocks(r) /\ pc[r][b] = "claim"
  BY DEF ArriveDispatch
<1>3. /\ Fits(r, b, pc[r][b], work[r][b], reg[r][b], todo[r][b])
      /\ InDispatch(r)
  BY <1>0, <1>2, KernelOf DEF Shaped
<1>4. SameItems
  <2>1. ASSUME NEW v \in Items(r) PROVE (Past(r, v)' <=> Past(r, v)) /\ (Holding(r, v)' <=> Holding(r, v))
    <3>a. v \in Nat /\ work[r][b] \in Nat /\ Len(Tokens(r)) \in Nat
      <4>1. place[r] > 0
        BY <1>0, <1>2, KernelOf
      <4>2. v \in Nat /\ Len(Tokens(r)) \in 0..MaxTok
        BY <1>0, <4>1, ItemsFit
      <4>3. work[r][b] \in Nat
        BY <1>3 DEF Fits
      <4> QED
        BY <4>2, <4>3
    <3>b. BlockOf(r, v) \in Blocks(r) /\ BlockOf(r, v)' = BlockOf(r, v)
      BY <1>0, <3>a, Onward, Statics
    <3>1. /\ BlockOf(r, v) \in Blocks(r) /\ BlockOf(r, v)' = BlockOf(r, v)
          /\ v \in Nat /\ Len(Tokens(r)) * TopK \in Nat /\ work[r][b] \in Nat
      BY <3>a, <3>b, ConstantFacts
    <3>2. v < work[r][b]
      <4>1. PICK m \in Nat : m = Len(Tokens(r)) * TopK
        BY <3>1
      <4>2. work[r][b] >= m /\ v \in 0..(m - 1)
        BY <4>1 DEF ArriveDispatch, Items
      <4> QED
        BY <3>1, <4>1, <4>2
    <3> QED
      BY <1>1, <1>2, <3>1, <3>2 DEF Past, Through, Holding, Turn, Then
  <2> QED
    BY <1>0, <2>1, OtherItems DEF SameItems
<1>5. SameSent
  BY <1>0, <1>1, <1>2, <1>3, SentTurn DEF Sent, Fits, Then
<1>6. SameGot
  BY <1>0, <1>1, <1>2, <1>3, GotTurn DEF Had, Fits, Then
<1>7. SamePhase
  BY <1>0, <1>1, <1>2, <1>3, PhaseTurn DEF Then
<1>8. SameData
  BY DEF ArriveDispatch, SameData, dispatchVars, combineVars
<1> QED
  BY <1>4, <1>5, <1>6, <1>7, <1>8 DEF Quiet

LEMMA CollectView ==
  ASSUME InTurn, Delivering, NEW r \in Rank, Works(r), Collect(r)
  PROVE  Quiet
<1>0. Typed /\ Shaped(r)
  BY DEF Delivering, Ranks
<1> USE DEF Claiming, BeforeSignal, BeforeReceive, BeforeRewind, Scattering, BeforePost, BeforeSum
<1>1. Turn(r, 0, "signal", work[r][0],
           reg[r][0], Rank)
  BY <1>0, CollectTurn
<1>2. 0 \in Blocks(r) /\ pc[r][0] = "collect"
  BY DEF Collect
<1>3. /\ Fits(r, 0, pc[r][0], work[r][0], reg[r][0], todo[r][0])
      /\ InDispatch(r)
  BY <1>0, <1>2, KernelOf DEF Shaped
<1>4. SameItems
  BY <1>0, <1>1, <1>2, <1>3, ItemsTurn
<1>5. SameSent
  BY <1>0, <1>1, <1>2, <1>3, SentTurn DEF Sent, Fits
<1>6. SameGot
  BY <1>0, <1>1, <1>2, <1>3, GotTurn DEF Had, Fits
<1>7. SamePhase
  BY <1>0, <1>1, <1>2, <1>3, PhaseTurn
<1>8. SameData
  BY DEF Collect, SameData, dispatchVars, combineVars
<1> QED
  BY <1>4, <1>5, <1>6, <1>7, <1>8 DEF Quiet

LEMMA SignalView ==
  ASSUME InTurn, Delivering, NEW r \in Rank, Works(r), NEW p \in Rank, Signal(r, p)
  PROVE  SameItems /\ SameGot /\ SamePhase
<1>0. Typed /\ Shaped(r)
  BY DEF Delivering, Ranks
<1> USE DEF Claiming, BeforeSignal, BeforeReceive, BeforeRewind, Scattering, BeforePost, BeforeSum
<1>1. Turn(r, 0, IF todo[r][0] \ {p} = {} THEN "receive" ELSE "signal", work[r][0],
           reg[r][0], todo[r][0] \ {p})
  BY <1>0, SignalTurn
<1>2. 0 \in Blocks(r) /\ pc[r][0] = "signal" /\ p \in todo[r][0]
  BY DEF Signal
<1>3. /\ Fits(r, 0, pc[r][0], work[r][0], reg[r][0], todo[r][0])
      /\ InDispatch(r)
  BY <1>0, <1>2, KernelOf DEF Shaped
<1>4. SameItems
  BY <1>0, <1>1, <1>2, <1>3, ItemsTurn
<1>5. SameGot
  BY <1>0, <1>1, <1>2, <1>3, GotTurn DEF Had, Fits
<1>6. SamePhase
  BY <1>0, <1>1, <1>2, <1>3, PhaseTurn
<1> QED
  BY <1>4, <1>5, <1>6

LEMMA ReceiveView ==
  ASSUME InTurn, Delivering, NEW r \in Rank, Works(r), Receive(r)
  PROVE  SameItems /\ SameSent
<1>0. Typed /\ Shaped(r)
  BY DEF Delivering, Ranks
<1> USE DEF Claiming, BeforeSignal, BeforeReceive, BeforeRewind, Scattering, BeforePost, BeforeSum
<1>1. Turn(r, 0, "rewind", work[r][0],
           reg[r][0], todo[r][0])
  BY <1>0, ReceiveTurn
<1>2. 0 \in Blocks(r) /\ pc[r][0] = "receive"
  BY DEF Receive
<1>3. /\ Fits(r, 0, pc[r][0], work[r][0], reg[r][0], todo[r][0])
      /\ InDispatch(r)
  BY <1>0, <1>2, KernelOf DEF Shaped
<1>4. SameItems
  BY <1>0, <1>1, <1>2, <1>3, ItemsTurn
<1>5. SameSent
  BY <1>0, <1>1, <1>2, <1>3, SentTurn DEF Sent, Fits
<1> QED
  BY <1>4, <1>5

LEMMA RewindView ==
  ASSUME InTurn, Delivering, NEW r \in Rank, Works(r), Rewind(r)
  PROVE  SameItems /\ SameSent /\ SameGot
<1>0. Typed /\ Shaped(r)
  BY DEF Delivering, Ranks
<1> USE DEF Claiming, BeforeSignal, BeforeReceive, BeforeRewind, Scattering, BeforePost, BeforeSum
<1>1. Turn(r, 0, Then, work[r][0],
           reg[r][0], todo[r][0])
  BY <1>0, RewindTurn
<1>2. 0 \in Blocks(r) /\ pc[r][0] = "rewind"
  BY DEF Rewind
<1>3. /\ Fits(r, 0, pc[r][0], work[r][0], reg[r][0], todo[r][0])
      /\ InDispatch(r)
  BY <1>0, <1>2, KernelOf DEF Shaped
<1>4. SameItems
  BY <1>0, <1>1, <1>2, <1>3, ItemsTurn DEF Then
<1>5. SameSent
  BY <1>0, <1>1, <1>2, <1>3, SentTurn DEF Sent, Fits, Then
<1>6. SameGot
  BY <1>0, <1>1, <1>2, <1>3, GotTurn DEF Had, Fits, Then
<1> QED
  BY <1>4, <1>5, <1>6

LEMMA TicketView ==
  ASSUME InTurn, Delivering, NEW r \in Rank, Works(r), NEW b \in Blocks(r), Ticket(r, b)
  PROVE  Quiet
<1>0. Typed /\ Shaped(r)
  BY DEF Delivering, Ranks
<1> USE DEF Claiming, BeforeSignal, BeforeReceive, BeforeRewind, Scattering, BeforePost, BeforeSum
<1>1. Turn(r, b, "grid", work[r][b],
           [reg[r][b] EXCEPT !.target = (bar[r].grid \div Grid[place[r]] + 1) * Grid[place[r]]], todo[r][b])
  BY <1>0, TicketTurn
<1>2. b \in Blocks(r) /\ pc[r][b] = "ticket"
  BY DEF Ticket
<1>3. /\ Fits(r, b, pc[r][b], work[r][b], reg[r][b], todo[r][b])
      /\ InDispatch(r)
  BY <1>0, <1>2, KernelOf DEF Shaped
<1>4. SameItems
  BY <1>0, <1>1, <1>2, <1>3, ItemsTurn
<1>5. SameSent
  BY <1>0, <1>1, <1>2, <1>3, SentTurn DEF Sent, Fits
<1>6. SameGot
  BY <1>0, <1>1, <1>2, <1>3, GotTurn DEF Had, Fits
<1>7. SamePhase
  BY <1>0, <1>1, <1>2, <1>3, PhaseTurn
<1>8. SameData
  BY DEF Ticket, SameData, dispatchVars, combineVars
<1> QED
  BY <1>4, <1>5, <1>6, <1>7, <1>8 DEF Quiet

LEMMA PassGridView ==
  ASSUME InTurn, Delivering, NEW r \in Rank, Works(r), NEW b \in Blocks(r), PassGrid(r, b)
  PROVE  Quiet
<1>0. Typed /\ Shaped(r)
  BY DEF Delivering, Ranks
<1> USE DEF Claiming, BeforeSignal, BeforeReceive, BeforeRewind, Scattering, BeforePost, BeforeSum
<1>1. Turn(r, b, "pack", b,
           reg[r][b], todo[r][b])
  BY <1>0, PassGridTurn
<1>2. b \in Blocks(r) /\ pc[r][b] = "grid"
  BY DEF PassGrid
<1>3. /\ Fits(r, b, pc[r][b], work[r][b], reg[r][b], todo[r][b])
      /\ InDispatch(r)
  BY <1>0, <1>2, KernelOf DEF Shaped
<1>4. SameItems
  BY <1>0, <1>1, <1>2, <1>3, ItemsTurn
<1>5. SameSent
  BY <1>0, <1>1, <1>2, <1>3, SentTurn DEF Sent, Fits
<1>6. SameGot
  BY <1>0, <1>1, <1>2, <1>3, GotTurn DEF Had, Fits
<1>7. SamePhase
  BY <1>0, <1>1, <1>2, <1>3, PhaseTurn
<1>8. SameData
  BY DEF PassGrid, SameData, dispatchVars, combineVars
<1> QED
  BY <1>4, <1>5, <1>6, <1>7, <1>8 DEF Quiet

LEMMA PackView ==
  ASSUME InTurn, Delivering, NEW r \in Rank, Works(r), NEW b \in Blocks(r), Pack(r, b)
  PROVE  Quiet
<1>0. Typed /\ Shaped(r)
  BY DEF Delivering, Ranks
<1> USE DEF Claiming, BeforeSignal, BeforeReceive, BeforeRewind, Scattering, BeforePost, BeforeSum
<1>1. Turn(r, b, pc[r][b], work[r][b] + Grid[place[r]],
           reg[r][b], todo[r][b])
  BY <1>0, PackTurn
<1>2. b \in Blocks(r) /\ pc[r][b] = "pack"
  BY DEF Pack
<1>3. /\ Fits(r, b, pc[r][b], work[r][b], reg[r][b], todo[r][b])
      /\ InDispatch(r)
  BY <1>0, <1>2, KernelOf DEF Shaped
<1>4. SameItems
  BY <1>0, <1>1, <1>2, <1>3, ItemsTurn
<1>5. SameSent
  BY <1>0, <1>1, <1>2, <1>3, SentTurn DEF Sent, Fits
<1>6. SameGot
  BY <1>0, <1>1, <1>2, <1>3, GotTurn DEF Had, Fits
<1>7. SamePhase
  BY <1>0, <1>1, <1>2, <1>3, PhaseTurn
<1>8. SameData
  BY DEF Pack, SameData, dispatchVars, combineVars
<1> QED
  BY <1>4, <1>5, <1>6, <1>7, <1>8 DEF Quiet

LEMMA EndDispatchView ==
  ASSUME InTurn, Delivering, NEW r \in Rank, Works(r), NEW b \in Blocks(r), EndDispatch(r, b)
  PROVE  Quiet
<1>0. Typed /\ Shaped(r)
  BY DEF Delivering, Ranks
<1> USE DEF Claiming, BeforeSignal, BeforeReceive, BeforeRewind, Scattering, BeforePost, BeforeSum
<1>1. Turn(r, b, "ended", work[r][b],
           reg[r][b], todo[r][b])
  BY <1>0, EndDispatchTurn
<1>2. b \in Blocks(r) /\ pc[r][b] = "pack"
  BY DEF EndDispatch
<1>3. /\ Fits(r, b, pc[r][b], work[r][b], reg[r][b], todo[r][b])
      /\ InDispatch(r)
  BY <1>0, <1>2, KernelOf DEF Shaped
<1>4. SameItems
  BY <1>0, <1>1, <1>2, <1>3, ItemsTurn
<1>5. SameSent
  BY <1>0, <1>1, <1>2, <1>3, SentTurn DEF Sent, Fits
<1>6. SameGot
  BY <1>0, <1>1, <1>2, <1>3, GotTurn DEF Had, Fits
<1>7. SamePhase
  BY <1>0, <1>1, <1>2, <1>3, PhaseTurn
<1>8. SameData
  BY DEF EndDispatch, SameData, dispatchVars, combineVars
<1> QED
  BY <1>4, <1>5, <1>6, <1>7, <1>8 DEF Quiet

LEMMA LoadView ==
  ASSUME InTurn, Delivering, NEW r \in Rank, Works(r), NEW b \in Blocks(r), Load(r, b)
  PROVE  Quiet
<1>0. Typed /\ Shaped(r)
  BY DEF Delivering, Ranks
<1> USE DEF Claiming, BeforeSignal, BeforeReceive, BeforeRewind, Scattering, BeforePost, BeforeSum
<1>1. Turn(r, b, "scatter", work[r][b],
           [reg[r][b] EXCEPT !.total = totalRecv[r], !.flag = xdbFlag[r]], todo[r][b])
  BY <1>0, LoadTurn
<1>2. b \in Blocks(r) /\ pc[r][b] = "load"
  BY DEF Load
<1>3. /\ Fits(r, b, pc[r][b], work[r][b], reg[r][b], todo[r][b])
      /\ InCombine(r) /\ ~InDispatch(r)
  BY <1>0, <1>2, KernelOf DEF Shaped
<1>4. SameItems
  BY <1>0, <1>1, <1>2, <1>3, ItemsTurn
<1>5. SameSent
  BY <1>0, <1>1, <1>2, <1>3, SentTurn DEF Sent, Fits
<1>6. SameGot
  BY <1>0, <1>1, <1>2, <1>3, GotTurn DEF Had, Fits
<1>7. SamePhase
  BY <1>0, <1>1, <1>2, <1>3, PhaseTurn
<1>8. SameData
  BY DEF Load, SameData, dispatchVars, combineVars
<1> QED
  BY <1>4, <1>5, <1>6, <1>7, <1>8 DEF Quiet

LEMMA ScatterView ==
  ASSUME InTurn, Delivering, NEW r \in Rank, Works(r), NEW b \in Blocks(r), Scatter(r, b)
  PROVE  Quiet
<1>0. Typed /\ Shaped(r)
  BY DEF Delivering, Ranks
<1> USE DEF Claiming, BeforeSignal, BeforeReceive, BeforeRewind, Scattering, BeforePost, BeforeSum
<1>1. Turn(r, b, pc[r][b], work[r][b] + Grid[place[r]],
           reg[r][b], todo[r][b])
  BY <1>0, ScatterTurn
<1>2. b \in Blocks(r) /\ pc[r][b] = "scatter"
  BY DEF Scatter
<1>3. /\ Fits(r, b, pc[r][b], work[r][b], reg[r][b], todo[r][b])
      /\ InCombine(r) /\ ~InDispatch(r)
  BY <1>0, <1>2, KernelOf DEF Shaped
<1>4. SameItems
  BY <1>0, <1>1, <1>2, <1>3, ItemsTurn
<1>5. SameSent
  BY <1>0, <1>1, <1>2, <1>3, SentTurn DEF Sent, Fits
<1>6. SameGot
  BY <1>0, <1>1, <1>2, <1>3, GotTurn DEF Had, Fits
<1>7. SamePhase
  BY <1>0, <1>1, <1>2, <1>3, PhaseTurn
<1>8. SameData
  BY DEF Scatter, SameData, dispatchVars, combineVars
<1> QED
  BY <1>4, <1>5, <1>6, <1>7, <1>8 DEF Quiet

LEMMA ArriveCombineView ==
  ASSUME InTurn, Delivering, NEW r \in Rank, Works(r), NEW b \in Blocks(r), ArriveCombine(r, b)
  PROVE  Quiet
<1>0. Typed /\ Shaped(r)
  BY DEF Delivering, Ranks
<1> USE DEF Claiming, BeforeSignal, BeforeReceive, BeforeRewind, Scattering, BeforePost, BeforeSum
<1>1. Turn(r, b, IF b = 0 THEN "meet" ELSE "await", work[r][b],
           reg[r][b], Rank)
  BY <1>0, ArriveCombineTurn
<1>2. b \in Blocks(r) /\ pc[r][b] = "scatter"
  BY DEF ArriveCombine
<1>3. /\ Fits(r, b, pc[r][b], work[r][b], reg[r][b], todo[r][b])
      /\ InCombine(r) /\ ~InDispatch(r)
  BY <1>0, <1>2, KernelOf DEF Shaped
<1>4. SameItems
  BY <1>0, <1>1, <1>2, <1>3, ItemsTurn
<1>5. SameSent
  BY <1>0, <1>1, <1>2, <1>3, SentTurn DEF Sent, Fits
<1>6. SameGot
  BY <1>0, <1>1, <1>2, <1>3, GotTurn DEF Had, Fits
<1>7. SamePhase
  BY <1>0, <1>1, <1>2, <1>3, PhaseTurn
<1>8. SameData
  BY DEF ArriveCombine, SameData, dispatchVars, combineVars
<1> QED
  BY <1>4, <1>5, <1>6, <1>7, <1>8 DEF Quiet

LEMMA MeetView ==
  ASSUME InTurn, Delivering, NEW r \in Rank, Works(r), Meet(r)
  PROVE  Quiet
<1>0. Typed /\ Shaped(r)
  BY DEF Delivering, Ranks
<1> USE DEF Claiming, BeforeSignal, BeforeReceive, BeforeRewind, Scattering, BeforePost, BeforeSum
<1>1. Turn(r, 0, "post", work[r][0],
           reg[r][0], todo[r][0])
  BY <1>0, MeetTurn
<1>2. 0 \in Blocks(r) /\ pc[r][0] = "meet"
  BY DEF Meet
<1>3. /\ Fits(r, 0, pc[r][0], work[r][0], reg[r][0], todo[r][0])
      /\ InCombine(r) /\ ~InDispatch(r)
  BY <1>0, <1>2, KernelOf DEF Shaped
<1>4. SameItems
  BY <1>0, <1>1, <1>2, <1>3, ItemsTurn
<1>5. SameSent
  BY <1>0, <1>1, <1>2, <1>3, SentTurn DEF Sent, Fits
<1>6. SameGot
  BY <1>0, <1>1, <1>2, <1>3, GotTurn DEF Had, Fits
<1>7. SamePhase
  BY <1>0, <1>1, <1>2, <1>3, PhaseTurn
<1>8. SameData
  BY DEF Meet, SameData, dispatchVars, combineVars
<1> QED
  BY <1>4, <1>5, <1>6, <1>7, <1>8 DEF Quiet

LEMMA PostView ==
  ASSUME InTurn, Delivering, NEW r \in Rank, Works(r), NEW p \in Rank, Post(r, p)
  PROVE  SameItems /\ SameGot /\ SamePhase
<1>0. Typed /\ Shaped(r)
  BY DEF Delivering, Ranks
<1> USE DEF Claiming, BeforeSignal, BeforeReceive, BeforeRewind, Scattering, BeforePost, BeforeSum
<1>1. Turn(r, 0, IF todo[r][0] = {p} THEN "await" ELSE "post", work[r][0],
           reg[r][0], IF todo[r][0] = {p} THEN Rank ELSE todo[r][0] \ {p})
  BY <1>0, PostTurn
<1>2. 0 \in Blocks(r) /\ pc[r][0] = "post" /\ p \in todo[r][0]
  BY DEF Post
<1>3. /\ Fits(r, 0, pc[r][0], work[r][0], reg[r][0], todo[r][0])
      /\ InCombine(r) /\ ~InDispatch(r)
  BY <1>0, <1>2, KernelOf DEF Shaped
<1>4. SameItems
  BY <1>0, <1>1, <1>2, <1>3, ItemsTurn
<1>5. SameGot
  BY <1>0, <1>1, <1>2, <1>3, GotTurn DEF Had, Fits
<1>6. SamePhase
  BY <1>0, <1>1, <1>2, <1>3, PhaseTurn
<1> QED
  BY <1>4, <1>5, <1>6

LEMMA AwaitView ==
  ASSUME InTurn, Delivering, NEW r \in Rank, Works(r), NEW b \in Blocks(r), NEW p \in Rank, Await(r, b, p)
  PROVE  SameItems /\ SameSent /\ SamePhase
<1>0. Typed /\ Shaped(r)
  BY DEF Delivering, Ranks
<1> USE DEF Claiming, BeforeSignal, BeforeReceive, BeforeRewind, Scattering, BeforePost, BeforeSum
<1>1. Turn(r, b, IF todo[r][b] \ {p} = {} THEN "sum" ELSE "await", IF todo[r][b] \ {p} = {} THEN b ELSE work[r][b],
           reg[r][b], todo[r][b] \ {p})
  BY <1>0, AwaitTurn
<1>2. b \in Blocks(r) /\ pc[r][b] = "await" /\ p \in todo[r][b]
  BY DEF Await
<1>3. /\ Fits(r, b, pc[r][b], work[r][b], reg[r][b], todo[r][b])
      /\ InCombine(r) /\ ~InDispatch(r)
  BY <1>0, <1>2, KernelOf DEF Shaped
<1>4. SameItems
  BY <1>0, <1>1, <1>2, <1>3, ItemsTurn
<1>5. SameSent
  BY <1>0, <1>1, <1>2, <1>3, SentTurn DEF Sent, Fits
<1>6. SamePhase
  BY <1>0, <1>1, <1>2, <1>3, PhaseTurn
<1> QED
  BY <1>4, <1>5, <1>6

LEMMA SumView ==
  ASSUME InTurn, Delivering, NEW r \in Rank, Works(r), NEW b \in Blocks(r), Sum(r, b)
  PROVE  Quiet
<1>0. Typed /\ Shaped(r)
  BY DEF Delivering, Ranks
<1> USE DEF Claiming, BeforeSignal, BeforeReceive, BeforeRewind, Scattering, BeforePost, BeforeSum
<1>1. Turn(r, b, pc[r][b], work[r][b] + Grid[place[r]],
           reg[r][b], todo[r][b])
  BY <1>0, SumTurn
<1>2. b \in Blocks(r) /\ pc[r][b] = "sum"
  BY DEF Sum
<1>3. /\ Fits(r, b, pc[r][b], work[r][b], reg[r][b], todo[r][b])
      /\ InCombine(r) /\ ~InDispatch(r)
  BY <1>0, <1>2, KernelOf DEF Shaped
<1>4. SameItems
  BY <1>0, <1>1, <1>2, <1>3, ItemsTurn
<1>5. SameSent
  BY <1>0, <1>1, <1>2, <1>3, SentTurn DEF Sent, Fits
<1>6. SameGot
  BY <1>0, <1>1, <1>2, <1>3, GotTurn DEF Had, Fits
<1>7. SamePhase
  BY <1>0, <1>1, <1>2, <1>3, PhaseTurn
<1>8. SameData
  BY DEF Sum, SameData, dispatchVars, combineVars
<1> QED
  BY <1>4, <1>5, <1>6, <1>7, <1>8 DEF Quiet

LEMMA EndCombineView ==
  ASSUME InTurn, Delivering, NEW r \in Rank, Works(r), NEW b \in Blocks(r), EndCombine(r, b)
  PROVE  Quiet
<1>0. Typed /\ Shaped(r)
  BY DEF Delivering, Ranks
<1> USE DEF Claiming, BeforeSignal, BeforeReceive, BeforeRewind, Scattering, BeforePost, BeforeSum
<1>1. Turn(r, b, "ended", work[r][b],
           reg[r][b], todo[r][b])
  BY <1>0, EndCombineTurn
<1>2. b \in Blocks(r) /\ pc[r][b] = "sum"
  BY DEF EndCombine
<1>3. /\ Fits(r, b, pc[r][b], work[r][b], reg[r][b], todo[r][b])
      /\ InCombine(r) /\ ~InDispatch(r)
  BY <1>0, <1>2, KernelOf DEF Shaped
<1>4. SameItems
  BY <1>0, <1>1, <1>2, <1>3, ItemsTurn
<1>5. SameSent
  BY <1>0, <1>1, <1>2, <1>3, SentTurn DEF Sent, Fits
<1>6. SameGot
  BY <1>0, <1>1, <1>2, <1>3, GotTurn DEF Had, Fits
<1>7. SamePhase
  BY <1>0, <1>1, <1>2, <1>3, PhaseTurn
<1>8. SameData
  BY DEF EndCombine, SameData, dispatchVars, combineVars
<1> QED
  BY <1>4, <1>5, <1>6, <1>7, <1>8 DEF Quiet

-----------------------------------------------------------------------------
(* Messages: a rank is at most a kernel ahead of the others.               *)

LEMMA Apart ==
  ASSUME InTurn, Typed, Meets, NEW p \in Rank, NEW q \in Rank
  PROVE  /\ place[q] <= place[p] + 1
         /\ place[q] = place[p] + 1 /\ place[p] > 0 => Sent(p, q)
         /\ place[p] > 0 /\ Got(p, q) => place[q] >= place[p] /\ (place[q] = place[p] => Sent(q, p))
<1>1. place[p] \in Nat /\ place[q] \in Nat
  BY PlaceFacts
<1>2. place[q] > 1 => SentAt(p, q, place[q] - 1)
  BY <1>1 DEF Meets
<1>3. place[p] > 0 /\ Got(p, q) => SentAt(q, p, place[p])
  BY DEF Meets
<1> QED
  BY <1>1, <1>2, <1>3 DEF SentAt

LEMMA SignalSent ==
  ASSUME InTurn, Delivering, NEW r \in Rank, Works(r), NEW p \in Rank, Signal(r, p)
  PROVE  /\ InDispatch(r) /\ Sent(r, p)' /\ ~Sent(r, p) /\ pc[r][0] = "signal"
         /\ \A q \in Rank \ {p} : Sent(r, q)' <=> Sent(r, q)
         /\ \A s \in Rank \ {r} : \A q : Sent(s, q)' <=> Sent(s, q)
<1>0. Typed /\ Shaped(r)
  BY DEF Delivering, Ranks
<1> USE DEF Claiming, BeforeSignal, BeforeReceive, BeforeRewind, Scattering, BeforePost
<1>1. Turn(r, 0, IF todo[r][0] \ {p} = {} THEN "receive" ELSE "signal", work[r][0],
           reg[r][0], todo[r][0] \ {p})
  BY <1>0, SignalTurn
<1>2. 0 \in Blocks(r) /\ pc[r][0] = "signal" /\ p \in todo[r][0]
  BY DEF Signal
<1>3. InDispatch(r)
  BY <1>0, <1>2, KernelOf
<1>4. Sent(r, p)' /\ ~Sent(r, p)
  BY <1>1, <1>2 DEF Turn, Sent
<1>5. \A q \in Rank \ {p} : Sent(r, q)' <=> Sent(r, q)
  BY <1>1, <1>2 DEF Turn, Sent
<1> QED
  BY <1>0, <1>2, <1>3, <1>4, <1>5, OtherItems

LEMMA PostSent ==
  ASSUME InTurn, Delivering, NEW r \in Rank, Works(r), NEW p \in Rank, Post(r, p)
  PROVE  /\ InCombine(r) /\ Sent(r, p)' /\ ~Sent(r, p) /\ pc[r][0] = "post"
         /\ \A q \in Rank \ {p} : Sent(r, q)' <=> Sent(r, q)
         /\ \A s \in Rank \ {r} : \A q : Sent(s, q)' <=> Sent(s, q)
<1>0. Typed /\ Shaped(r)
  BY DEF Delivering, Ranks
<1> USE DEF Claiming, BeforeSignal, BeforeSum, Scattering, BeforePost
<1>1. Turn(r, 0, IF todo[r][0] = {p} THEN "await" ELSE "post", work[r][0],
           reg[r][0], IF todo[r][0] = {p} THEN Rank ELSE todo[r][0] \ {p})
  BY <1>0, PostTurn
<1>2. 0 \in Blocks(r) /\ pc[r][0] = "post" /\ p \in todo[r][0]
  BY DEF Post
<1>3. InCombine(r)
  BY <1>0, <1>2, KernelOf
<1>4. Sent(r, p)' /\ ~Sent(r, p)
  BY <1>1, <1>2 DEF Turn, Sent
<1>5. \A q \in Rank \ {p} : Sent(r, q)' <=> Sent(r, q)
  BY <1>1, <1>2 DEF Turn, Sent
<1> QED
  BY <1>0, <1>2, <1>3, <1>4, <1>5, OtherItems

LEMMA ReceiveGot ==
  ASSUME InTurn, Delivering, NEW r \in Rank, Works(r), Receive(r)
  PROVE  /\ InDispatch(r) /\ pc[r][0] = "receive" /\ pc'[r][0] = "rewind"
         /\ \A q : Got(r, q)' /\ ~Got(r, q)
         /\ \A s \in Rank \ {r} : \A q : Got(s, q)' <=> Got(s, q)
<1>0. Typed /\ Shaped(r)
  BY DEF Delivering, Ranks
<1> USE DEF Claiming, BeforeSignal, BeforeReceive, BeforeRewind
<1>1. Turn(r, 0, "rewind", work[r][0], reg[r][0], todo[r][0])
  BY <1>0, ReceiveTurn
<1>2. 0 \in Blocks(r) /\ pc[r][0] = "receive"
  BY DEF Receive
<1>3. InDispatch(r) /\ InDispatch(r)'
  BY <1>0, <1>2, KernelOf, Statics
<1>4. pc'[r][0] = "rewind"
  BY <1>1, <1>2 DEF Turn
<1>5. \A q : Got(r, q)' /\ ~Got(r, q)
  BY <1>2, <1>3, <1>4 DEF Got
<1> QED
  BY <1>0, <1>2, <1>3, <1>4, <1>5, OtherItems

LEMMA AwaitGot ==
  ASSUME InTurn, Delivering, NEW r \in Rank, Works(r), NEW b \in Blocks(r), NEW p \in Rank, Await(r, b, p)
  PROVE  /\ InCombine(r) /\ ~InDispatch(r) /\ pc[r][b] = "await"
         /\ Got(r, p)' /\ \A q \in Rank \ {p} : Got(r, q)' <=> Got(r, q)
         /\ \A s \in Rank \ {r} : \A q : Got(s, q)' <=> Got(s, q)
<1>0. Typed /\ Shaped(r)
  BY DEF Delivering, Ranks
<1> USE DEF BeforeSum
<1>1. Turn(r, b, IF todo[r][b] \ {p} = {} THEN "sum" ELSE "await",
           IF todo[r][b] \ {p} = {} THEN b ELSE work[r][b], reg[r][b], todo[r][b] \ {p})
  BY <1>0, AwaitTurn
<1>2. pc[r][b] = "await" /\ p \in todo[r][b]
  BY DEF Await
<1>3. InCombine(r) /\ ~InDispatch(r) /\ ~InDispatch(r)' /\ Blocks(r)' = Blocks(r)
  BY <1>0, <1>2, KernelOf, Statics
<1>4. Got(r, p)'
  <2>1. Had(r, b, p)'
    BY <1>1, <1>2 DEF Turn, Had
  <2> QED
    BY <1>3, <2>1 DEF Got
<1>5. ASSUME NEW q \in Rank \ {p} PROVE Got(r, q)' <=> Got(r, q)
  <2>1. \A c \in Blocks(r) : Had(r, c, q)' <=> Had(r, c, q)
    BY <1>1, <1>2, <1>5 DEF Turn, Had
  <2> QED
    BY <1>3, <2>1 DEF Got
<1> QED
  BY <1>0, <1>2, <1>3, <1>4, <1>5, OtherItems

\* A count that is there was sent in this round.
LEMMA CountSent ==
  ASSUME InTurn, Delivering, NEW p \in Rank, NEW q \in Rank, recvNum[p][q] > 0, InDispatch(p)
  PROVE  /\ Pending(q, p) /\ Dispatch(q) = place[p] /\ SentAt(q, p, place[p])
         /\ place[q] > 0 /\ RoundOf(place[q]) = RoundOf(place[p])
<1>0. Typed /\ Meets
  BY DEF Delivering
<1>1. Pending(q, p)
  BY DEF Delivering, Counts
<1>2. /\ place[p] \in Nat /\ place[q] \in Nat /\ place[q] <= place[p] + 1
      /\ RoundOf(place[p]) \in Nat /\ RoundOf(place[q]) \in Nat
      /\ place[p] = 2 * RoundOf(place[p]) - 1
      /\ place[q] = 2 * RoundOf(place[q]) - 1 \/ place[q] = 2 * RoundOf(place[q])
  BY <1>0, <1>1, PlaceFacts, Apart DEF Pending
<1>3. place[q] > 0 /\ SentAt(q, p, Dispatch(q)) /\ place[p] <= Dispatch(q)
  BY <1>1, <1>2 DEF Pending, GotAt, Dispatch
<1>4. Dispatch(q) = place[p] /\ RoundOf(place[q]) = RoundOf(place[p])
  <2> DEFINE i == place[p]
             j == place[q]
             m == RoundOf(place[p])
             n == RoundOf(place[q])
  <2>1. /\ m \in Nat /\ n \in Nat /\ i = 2 * m - 1 /\ (j = 2 * n - 1 \/ j = 2 * n)
        /\ j <= i + 1 /\ i <= 2 * n - 1 /\ Dispatch(q) = 2 * n - 1
    BY <1>2, <1>3 DEF Dispatch
  <2> HIDE DEF i, j, m, n
  <2>2. m = n /\ Dispatch(q) = i
    BY <2>1
  <2> QED
    BY <2>2 DEF i, m, n
<1> QED
  BY <1>1, <1>3, <1>4

\* And so was a flag.
LEMMA FlagSent ==
  ASSUME InTurn, Delivering, NEW r \in Rank, Works(r), NEW b \in Blocks(r), NEW p \in Rank, Await(r, b, p)
  PROVE  SentAt(p, r, place[r])
<1>0. Typed /\ Meets /\ Flags(r)
  BY DEF Delivering, Ranks
<1>1. InCombine(r) /\ pc[r][b] = "await" /\ xdbMem[r][p] = reg[r][b].flag
  BY AwaitGot DEF Await, Seen
<1>2. xdbMem[r][p] = RoundOf(place[r])
  BY <1>0, <1>1 DEF Flags
<1>3. /\ xdbMem[r][p] = IF InCombine(p) /\ Sent(p, r) THEN RoundOf(place[p])
                        ELSE IF place[p] = 0 THEN 0 ELSE RoundOf(place[p]) - 1
  BY DEF Delivering, Counts
<1>4. /\ place[r] \in Nat /\ place[p] \in Nat /\ place[r] > 0
      /\ RoundOf(place[r]) \in Nat /\ RoundOf(place[p]) \in Nat /\ RoundOf(place[r]) > 0
      /\ place[r] = 2 * RoundOf(place[r])
      /\ InCombine(p) => place[p] = 2 * RoundOf(place[p])
      /\ place[p] > 0 => place[p] = 2 * RoundOf(place[p]) - 1 \/ place[p] = 2 * RoundOf(place[p])
  BY <1>0, <1>1, PlaceFacts, Onward
<1> QED
  BY <1>2, <1>3, <1>4 DEF SentAt

LEMMA MeetsMore ==
  ASSUME InTurn, Delivering, NEW r \in Rank, Works(r),
         \A q, p \in Rank : place[q] > 0 /\ Sent(q, p) => Sent(q, p)',
         \A p, q \in Rank : place[p] > 0 /\ Got(p, q)' => Got(p, q) \/ SentAt(q, p, place[p])
  PROVE  Meets'
<1>1. place' = place /\ Typed /\ Meets
  BY StreamsStay DEF Delivering
<1> SUFFICES ASSUME NEW p \in Rank, NEW q \in Rank, place[p] > 0
             PROVE  /\ place[p] > 1 => SentAt(q, p, place[p] - 1)'
                    /\ Got(p, q)' => SentAt(q, p, place[p])'
  BY <1>1 DEF Meets
<1>2. place[p] \in Nat /\ place[q] \in Nat
  BY <1>1, PlaceFacts
<1>3. /\ place[p] > 1 => SentAt(q, p, place[p] - 1)
      /\ Got(p, q)' => SentAt(q, p, place[p])
  BY <1>1 DEF Meets
<1> QED
  BY <1>1, <1>2, <1>3 DEF SentAt

LEMMA MeetsKeep ==
  ASSUME InTurn, Delivering, NEW r \in Rank, Works(r)
  PROVE  Meets'
<1>1. ASSUME SameSent, SameGot PROVE Meets'
  BY <1>1, MeetsMore DEF SameSent, SameGot
<1>2. ASSUME Quiet PROVE Meets'
  BY <1>1, <1>2 DEF Quiet
<1>3. ASSUME NEW p \in Rank, Signal(r, p) PROVE Meets'
  <2>1. SameGot
    BY <1>3, SignalView
  <2>2. \A q, s \in Rank : Sent(q, s) => Sent(q, s)'
    BY <1>3, SignalSent
  <2> QED
    BY <2>1, <2>2, MeetsMore DEF SameGot
<1>4. ASSUME NEW p \in Rank, Post(r, p) PROVE Meets'
  <2>1. SameGot
    BY <1>4, PostView
  <2>2. \A q, s \in Rank : Sent(q, s) => Sent(q, s)'
    BY <1>4, PostSent
  <2> QED
    BY <2>1, <2>2, MeetsMore DEF SameGot
<1>5. CASE Receive(r)
  <2>1. SameSent
    BY <1>5, ReceiveView
  <2>2. \A q \in Rank : SentAt(q, r, place[r])
    BY <1>5, ReceiveGot, CountSent DEF Receive
  <2>3. \A p, q \in Rank : Got(p, q)' => Got(p, q) \/ SentAt(q, p, place[p])
    BY <1>5, <2>2, ReceiveGot
  <2> QED
    BY <2>1, <2>3, MeetsMore DEF SameSent
<1>6. ASSUME NEW b \in Blocks(r), NEW p \in Rank, Await(r, b, p) PROVE Meets'
  <2>1. SameSent
    BY <1>6, AwaitView
  <2>2. SentAt(p, r, place[r])
    BY <1>6, FlagSent
  <2>3. \A s, q \in Rank : Got(s, q)' => Got(s, q) \/ SentAt(q, s, place[s])
    BY <1>6, <2>2, AwaitGot
  <2> QED
    BY <2>1, <2>3, MeetsMore DEF SameSent
<1>7. CASE DispatchStep(r)
  BY <1>1, <1>2, <1>3, <1>5, <1>7, ClaimView, PublishView, ArriveDispatchView, CollectView, RewindView,
     TicketView, PassGridView, PackView, EndDispatchView DEF DispatchStep
<1>8. CASE CombineStep(r)
  BY <1>1, <1>2, <1>4, <1>6, <1>8, LoadView, ScatterView, ArriveCombineView, MeetView, SumView,
     EndCombineView DEF CombineStep
<1> QED
  BY <1>7, <1>8 DEF Works

-----------------------------------------------------------------------------
(* Items: what a claim and a publication make of them.                     *)

\* All items but w of rank r are as they were.
OthersStay(r, w) ==
  \A q \in Rank : \A v \in Items(q) : q # r \/ v # w =>
    /\ Past(q, v)' <=> Past(q, v)
    /\ Holding(q, v)' <=> Holding(q, v)
    /\ Claimed(q, v)' <=> Claimed(q, v)
    /\ tokMap'[q][v] = tokMap[q][v]
    /\ Holding(q, v) => reg'[q][BlockOf(q, v)] = reg[q][BlockOf(q, v)]

LEMMA ClaimItems ==
  ASSUME InTurn, Delivering, NEW r \in Rank, Works(r), NEW b \in Blocks(r), Claim(r, b),
         NEW w, w = work[r][b]
  PROVE  /\ w \in Items(r) /\ Goes(r, w) \in Rank /\ InDispatch(r) /\ ~Past(r, w) /\ ~Holding(r, w)
         /\ \/ /\ Past(r, w)' /\ ~Holding(r, w)' /\ tokMap'[r][w] = Dropped
               /\ \/ Dup(r, w) /\ UNCHANGED tokOff
                  \/ /\ ~Dup(r, w) /\ tokOff' = [tokOff EXCEPT ![Goes(r, w)] = @ + 1]
                     /\ tokOff[Goes(r, w)] >= MaxRecv
            \/ /\ ~Past(r, w)' /\ Holding(r, w)'
               /\ tokMap'[r][w] = [pe |-> Goes(r, w), id |-> tokOff[Goes(r, w)]]
               /\ ~Dup(r, w) /\ tokOff' = [tokOff EXCEPT ![Goes(r, w)] = @ + 1]
               /\ tokOff[Goes(r, w)] < MaxRecv /\ reg'[r][b].row = tokMap'[r][w]
         /\ OthersStay(r, w)
<1> DEFINE p == Goes(r, w)
           m == [pe |-> p, id |-> tokOff[p]]
<1>0. Typed /\ Ranks /\ Shaped(r) /\ place[r] > 0 /\ place' = place
  BY PlaceFacts, Onward, StreamsStay DEF Delivering, Ranks
<1>1. /\ w \in Items(r) /\ p \in Rank /\ BlockOf(r, w) = b /\ InDispatch(r) /\ pc[r][b] = "claim" /\ UNCHANGED todo
      /\ \/ Dup(r, w) /\ UNCHANGED tokOff /\ Dismissed(r, b, w)
         \/ /\ ~Dup(r, w) /\ tokOff' = [tokOff EXCEPT ![p] = @ + 1]
            /\ tokOff[p] >= MaxRecv /\ Dismissed(r, b, w)
         \/ /\ ~Dup(r, w) /\ tokOff' = [tokOff EXCEPT ![p] = @ + 1]
            /\ tokOff[p] < MaxRecv /\ Granted(r, b, w, m)
  BY <1>0, ClaimCases
<1>2. /\ DOMAIN tokMap = Rank /\ DOMAIN tokMap[r] = AllItems /\ Items(r) \subseteq AllItems
      /\ tokMap[r] \in [AllItems -> [pe : 0..World, id : Nat]]
  <2>1. tokMap \in [Rank -> [AllItems -> [pe : 0..World, id : Nat]]]
    BY <1>0 DEF Typed
  <2> QED
    BY <1>0, <2>1, ItemsFit
<1>3. ASSUME NEW v \in Items(r)
      PROVE  v \in Nat /\ BlockOf(r, v) \in Blocks(r) /\ BlockOf(r, v)' = BlockOf(r, v)
  BY <1>0, ItemsFit, Onward, Statics
<1>4. ~Past(r, w) /\ ~Holding(r, w)
  BY <1>1, <1>3 DEF Past, Through, Holding, Claiming
<1>5. \A v \in Items(r) : Holding(r, v) => BlockOf(r, v) # b
  BY <1>1 DEF Holding
<1>6. w \in Nat /\ b \in Blocks(r) /\ work[r][b] = w
  BY <1>1, <1>3
<1>7. ASSUME Dismissed(r, b, w)
      PROVE  /\ Past(r, w)' /\ ~Holding(r, w)' /\ tokMap'[r][w] = Dropped
             /\ \A v \in Items(r) \ {w} :
                  /\ (Past(r, v)' <=> Past(r, v)) /\ (Holding(r, v)' <=> Holding(r, v))
                  /\ tokMap'[r][v] = tokMap[r][v]
                  /\ BlockOf(r, v) # b => reg'[r][BlockOf(r, v)] = reg[r][BlockOf(r, v)]
  <2>1. Turn(r, b, pc[r][b], w + Grid[place[r]], reg[r][b], todo[r][b])
    BY <1>0, <1>1, <1>7, ClaimTurn
  <2>2. tokMap' = [tokMap EXCEPT ![r][w] = Dropped]
    BY <1>7 DEF Dismissed
  <2>3. tokMap'[r][w] = Dropped /\ \A v \in Items(r) \ {w} : tokMap'[r][v] = tokMap[r][v]
    <3> QED
      BY <1>1, <1>2, <2>2
  <2>4. \A v \in Items(r) : BlockOf(r, v) = b => (v < w + Grid[place[r]] <=> v < w \/ v = w)
    BY <1>0, <1>1, <1>3, <1>6, Onward
  <2> HIDE DEF p
  <2>5. Past(r, w)' /\ ~Holding(r, w)'
    <3>1. /\ BlockOf(r, w) = b /\ BlockOf(r, w)' = b /\ w \in Nat
          /\ pc'[r][b] = pc[r][b] /\ work'[r][b] = w + Grid[place[r]]
      BY <1>1, <1>3, <1>6, <2>1 DEF Turn
    <3>2. /\ Past(r, w)' <=> (pc'[r][b] \in Claiming => w < work'[r][b])
          /\ Holding(r, w)' <=> pc'[r][b] = "publish" /\ work'[r][b] = w
          /\ Past(r, w) <=> (pc[r][b] \in Claiming => w < work[r][b])
          /\ Holding(r, w) <=> pc[r][b] = "publish" /\ work[r][b] = w
      BY <3>1 DEF Past, Through, Holding
    <3> QED
      BY <1>1, <1>6, <3>1, <3>2, <2>4 DEF Claiming
  <2>6. ASSUME NEW v \in Items(r) \ {w} PROVE (Past(r, v)' <=> Past(r, v)) /\ (Holding(r, v)' <=> Holding(r, v))
    <3> DEFINE c == BlockOf(r, v)
    <3>1. /\ c \in Blocks(r) /\ BlockOf(r, v)' = c /\ v \in Nat
          /\ pc'[r][c] = IF c = b THEN pc[r][b] ELSE pc[r][c]
          /\ work'[r][c] = IF c = b THEN w + Grid[place[r]] ELSE work[r][c]
      BY <1>3, <2>1 DEF Turn
    <3>2. /\ Past(r, v) <=> (pc[r][c] \in Claiming => v < work[r][c])
          /\ Past(r, v)' <=> (pc'[r][c] \in Claiming => v < work'[r][c])
          /\ Holding(r, v) <=> pc[r][c] = "publish" /\ work[r][c] = v
          /\ Holding(r, v)' <=> pc'[r][c] = "publish" /\ work'[r][c] = v
      BY <3>1 DEF Past, Through, Holding
    <3>3. c = b => (v < w + Grid[place[r]] <=> v < w \/ v = w)
      BY <2>4
    <3> HIDE DEF c
    <3> QED
      BY <1>1, <1>6, <3>1, <3>2, <3>3 DEF Claiming
  <2>7. \A v \in Items(r) \ {w} : BlockOf(r, v) # b => reg'[r][BlockOf(r, v)] = reg[r][BlockOf(r, v)]
    BY <1>3, <2>1 DEF Turn
  <2> QED
    BY <2>3, <2>5, <2>6, <2>7
<1>8. ASSUME Granted(r, b, w, m)
      PROVE  /\ ~Past(r, w)' /\ Holding(r, w)' /\ tokMap'[r][w] = m /\ reg'[r][b].row = tokMap'[r][w]
             /\ \A v \in Items(r) \ {w} :
                  /\ (Past(r, v)' <=> Past(r, v)) /\ (Holding(r, v)' <=> Holding(r, v))
                  /\ tokMap'[r][v] = tokMap[r][v]
                  /\ BlockOf(r, v) # b => reg'[r][BlockOf(r, v)] = reg[r][BlockOf(r, v)]
  <2>1. Turn(r, b, "publish", w, [reg[r][b] EXCEPT !.row = m], todo[r][b])
    BY <1>0, <1>1, <1>8, ClaimTurn
  <2>2. tokMap' = [tokMap EXCEPT ![r][w] = m]
    BY <1>8 DEF Granted
  <2> HIDE DEF m
  <2>3. tokMap'[r][w] = m /\ \A v \in Items(r) \ {w} : tokMap'[r][v] = tokMap[r][v]
    <3> QED
      BY <1>1, <1>2, <2>2
  <2>4. reg'[r][b].row = m
    <3>1. reg[r][b] \in [row : [pe : 0..World, id : Nat], target : Nat, total : Nat, flag : Nat]
      BY <1>0 DEF Shaped, Fits
    <3> QED
      BY <2>1, <3>1 DEF Turn
  <2> HIDE DEF p
  <2>5. ~Past(r, w)' /\ Holding(r, w)'
    <3>1. /\ BlockOf(r, w) = b /\ BlockOf(r, w)' = b /\ w \in Nat
          /\ pc'[r][b] = "publish" /\ work'[r][b] = w
      BY <1>1, <1>3, <1>6, <2>1 DEF Turn
    <3>2. /\ Past(r, w)' <=> (pc'[r][b] \in Claiming => w < work'[r][b])
          /\ Holding(r, w)' <=> pc'[r][b] = "publish" /\ work'[r][b] = w
          /\ Past(r, w) <=> (pc[r][b] \in Claiming => w < work[r][b])
          /\ Holding(r, w) <=> pc[r][b] = "publish" /\ work[r][b] = w
      BY <3>1 DEF Past, Through, Holding
    <3> QED
      BY <1>1, <1>6, <3>1, <3>2 DEF Claiming
  <2>6. ASSUME NEW v \in Items(r) \ {w} PROVE (Past(r, v)' <=> Past(r, v)) /\ (Holding(r, v)' <=> Holding(r, v))
    <3> DEFINE c == BlockOf(r, v)
    <3>1. /\ c \in Blocks(r) /\ BlockOf(r, v)' = c /\ v \in Nat
          /\ pc'[r][c] = IF c = b THEN "publish" ELSE pc[r][c]
          /\ work'[r][c] = IF c = b THEN w ELSE work[r][c]
      BY <1>3, <2>1 DEF Turn
    <3>2. /\ Past(r, v) <=> (pc[r][c] \in Claiming => v < work[r][c])
          /\ Past(r, v)' <=> (pc'[r][c] \in Claiming => v < work'[r][c])
          /\ Holding(r, v) <=> pc[r][c] = "publish" /\ work[r][c] = v
          /\ Holding(r, v)' <=> pc'[r][c] = "publish" /\ work'[r][c] = v
      BY <3>1 DEF Past, Through, Holding
    <3>3. w \in Nat
      BY <1>6
    <3> HIDE DEF c
    <3> QED
      BY <1>1, <1>6, <3>1, <3>2, <3>3 DEF Claiming
  <2>7. \A v \in Items(r) \ {w} : BlockOf(r, v) # b => reg'[r][BlockOf(r, v)] = reg[r][BlockOf(r, v)]
    BY <1>3, <2>1 DEF Turn
  <2> QED
    BY <2>3, <2>4, <2>5, <2>6, <2>7
<1>11. \A v \in Items(r) \ {w} :
         /\ (Past(r, v)' <=> Past(r, v)) /\ (Holding(r, v)' <=> Holding(r, v))
         /\ tokMap'[r][v] = tokMap[r][v]
         /\ BlockOf(r, v) # b => reg'[r][BlockOf(r, v)] = reg[r][BlockOf(r, v)]
  <2>1. Dismissed(r, b, w) \/ Granted(r, b, w, m)
    BY <1>1
  <2> QED
    BY <2>1, <1>7, <1>8
<1>12. \A q \in Rank \ {r} :
         /\ tokMap'[q] = tokMap[q] /\ reg'[q] = reg[q]
         /\ \A v \in Items(q) : (Past(q, v)' <=> Past(q, v)) /\ (Holding(q, v)' <=> Holding(q, v))
  BY <1>0, OtherItems, OthersRest DEF Own
<1>13. OthersStay(r, w)
  BY <1>5, <1>11, <1>12 DEF OthersStay, Claimed
<1> HIDE DEF p, m
<1>9. CASE Dismissed(r, b, w)
  <2>1. \/ Dup(r, w) /\ UNCHANGED tokOff
        \/ ~Dup(r, w) /\ tokOff' = [tokOff EXCEPT ![p] = @ + 1] /\ tokOff[p] >= MaxRecv
    <3>1. CASE Granted(r, b, w, m)
      <4>1. pc'[r][b] = "publish" /\ pc' = pc
        BY <1>0, <1>6, <1>9, <3>1 DEF Granted, Dismissed, Goto, Shaped, Typed
      <4> QED
        BY <1>1, <4>1
    <3> QED
      BY <1>1, <3>1
  <2> QED
    BY <1>1, <1>4, <1>7, <1>9, <1>13, <2>1 DEF p
<1>10. CASE ~Dismissed(r, b, w)
  <2>1. /\ ~Dup(r, w) /\ tokOff' = [tokOff EXCEPT ![p] = @ + 1]
        /\ tokOff[p] < MaxRecv /\ Granted(r, b, w, m)
    BY <1>1, <1>10
  <2> QED
    BY <1>1, <1>4, <1>8, <1>13, <2>1 DEF p, m
<1> QED
  BY <1>9, <1>10

LEMMA PublishItems ==
  ASSUME InTurn, Delivering, NEW r \in Rank, Works(r), NEW b \in Blocks(r), Publish(r, b),
         NEW w, w = work[r][b]
  PROVE  /\ ~Past(r, w) /\ Holding(r, w) /\ Past(r, w)' /\ ~Holding(r, w)'
         /\ OthersStay(r, w) /\ UNCHANGED <<tokMap, reg>>
<1>0. Typed /\ Ranks /\ Shaped(r) /\ place[r] > 0
  BY PlaceFacts, Onward DEF Delivering, Ranks
<1>1. w \in Items(r) /\ BlockOf(r, w) = b /\ pc[r][b] = "publish" /\ UNCHANGED <<tokMap, reg>>
  BY PublishFacts
<1>3. ASSUME NEW v \in Items(r)
      PROVE  v \in Nat /\ BlockOf(r, v) \in Blocks(r) /\ BlockOf(r, v)' = BlockOf(r, v)
  BY <1>0, ItemsFit, Onward, Statics
<1>6. w \in Nat /\ work[r][b] = w
  BY <1>1, <1>3
<1>2. Turn(r, b, "claim", w + Grid[place[r]], reg[r][b], todo[r][b])
  BY <1>0, PublishTurn
<1>4. \A v \in Items(r) : BlockOf(r, v) = b => (v < w + Grid[place[r]] <=> v < w \/ v = w)
  BY <1>0, <1>1, <1>3, <1>6, Onward
<1>5. ~Past(r, w) /\ Holding(r, w) /\ Past(r, w)' /\ ~Holding(r, w)'
  <2>1. /\ BlockOf(r, w) = b /\ BlockOf(r, w)' = b /\ w \in Nat
        /\ pc'[r][b] = "claim" /\ work'[r][b] = w + Grid[place[r]]
    BY <1>1, <1>3, <1>6, <1>2 DEF Turn
  <2>2. /\ Past(r, w)' <=> (pc'[r][b] \in Claiming => w < work'[r][b])
        /\ Holding(r, w)' <=> pc'[r][b] = "publish" /\ work'[r][b] = w
        /\ Past(r, w) <=> (pc[r][b] \in Claiming => w < work[r][b])
        /\ Holding(r, w) <=> pc[r][b] = "publish" /\ work[r][b] = w
    BY <2>1 DEF Past, Through, Holding
  <2> QED
    BY <1>1, <1>6, <2>1, <2>2, <1>4 DEF Claiming
<1>7. ASSUME NEW v \in Items(r) \ {w} PROVE (Past(r, v)' <=> Past(r, v)) /\ (Holding(r, v)' <=> Holding(r, v))
  <2> DEFINE c == BlockOf(r, v)
  <2>1. /\ c \in Blocks(r) /\ BlockOf(r, v)' = c /\ v \in Nat
        /\ pc'[r][c] = IF c = b THEN "claim" ELSE pc[r][c]
        /\ work'[r][c] = IF c = b THEN w + Grid[place[r]] ELSE work[r][c]
    BY <1>2, <1>3 DEF Turn
  <2>2. /\ Past(r, v) <=> (pc[r][c] \in Claiming => v < work[r][c])
        /\ Past(r, v)' <=> (pc'[r][c] \in Claiming => v < work'[r][c])
        /\ Holding(r, v) <=> pc[r][c] = "publish" /\ work[r][c] = v
        /\ Holding(r, v)' <=> pc'[r][c] = "publish" /\ work'[r][c] = v
    BY <2>1 DEF Past, Through, Holding
  <2>3. c = b => (v < w + Grid[place[r]] <=> v < w \/ v = w)
    BY <1>4
  <2> HIDE DEF c
  <2> QED
    BY <1>1, <1>6, <2>1, <2>2, <2>3 DEF Claiming
<1>8. \A q \in Rank \ {r} :
        \A v \in Items(q) : (Past(q, v)' <=> Past(q, v)) /\ (Holding(q, v)' <=> Holding(q, v))
  BY <1>0, OtherItems
<1>9. OthersStay(r, w)
  BY <1>1, <1>7, <1>8 DEF OthersStay, Claimed
<1> QED
  BY <1>1, <1>5, <1>9

-----------------------------------------------------------------------------
(* Counts.                                                                 *)

LEMMA RowsStay ==
  ASSUME NEW r, Works(r), NEW q \in Rank, NEW p,
         \A w \in Items(q) : (Past(q, w)' <=> Past(q, w)) /\ (Past(q, w) => tokMap'[q][w].pe = tokMap[q][w].pe)
  PROVE  RowsAt(q, p)' = RowsAt(q, p)
<1>1. Items(q)' = Items(q)
  BY Statics
<1> QED
  BY <1>1 DEF RowsAt

LEMMA RowsFinite ==
  ASSUME InTurn, Typed, NEW q \in Rank, place[q] > 0, NEW p
  PROVE  IsFiniteSet(RowsAt(q, p)) /\ Cardinality(RowsAt(q, p)) \in Nat /\ RowsAt(q, p) \subseteq Items(q)
<1>1. Len(Tokens(q)) * TopK - 1 \in Int
  <2>1. Len(Tokens(q)) \in Nat /\ TopK \in Nat
    BY ItemsFit, ConstantFacts
  <2>2. Len(Tokens(q)) * TopK \in Nat
    BY <2>1
  <2> QED
    BY <2>2
<1>2. IsFiniteSet(Items(q))
  BY <1>1, FS_Interval DEF Items
<1>3. RowsAt(q, p) \in SUBSET Items(q)
  BY DEF RowsAt
<1> QED
  BY <1>2, <1>3, FS_Subset, FS_CardinalityType

LEMMA PendingStays ==
  ASSUME InTurn, Typed, NEW r, Works(r), NEW p \in Rank, NEW q \in Rank,
         place[q] = Dispatch(q) => (Sent(q, p)' <=> Sent(q, p)),
         place[p] = Dispatch(q) /\ place[p] > 0 => (Got(p, q)' <=> Got(p, q))
  PROVE  Pending(q, p)' <=> Pending(q, p)
<1>1. place' = place /\ Dispatch(q)' = Dispatch(q)
  BY StreamsStay, Statics
<1>2. place[q] > 0 => Dispatch(q) > 0
  BY PlaceFacts DEF Dispatch
<1> QED
  BY <1>1, <1>2 DEF Pending, SentAt, GotAt

LEMMA SameRows ==
  ASSUME InTurn, Typed, NEW r, Works(r), SameItems, UNCHANGED tokMap
  PROVE  \A q, p \in Rank : RowsAt(q, p)' = RowsAt(q, p)
BY RowsStay DEF SameItems

\* A step that changes no count, flag or row.
LEMMA CountsSame ==
  ASSUME InTurn, Delivering, NEW r \in Rank, Works(r), SameSent, SameGot,
         \A q \in Rank : InDispatch(q) => (pc'[q][0] \in BeforeReceive <=> pc[q][0] \in BeforeReceive),
         UNCHANGED <<destCtr, recvNum, xdbMem>>,
         \A q \in Rank : place[q] > 0 => \A p \in Rank : RowsAt(q, p)' = RowsAt(q, p)
  PROVE  Counts'
<1>0. Typed /\ Counts /\ place' = place
  BY StreamsStay DEF Delivering
<1> SUFFICES ASSUME NEW p \in Rank, NEW q \in Rank
             PROVE
    /\ recvNum'[p][q] = IF Pending(q, p)' THEN Cardinality(RowsAt(q, p)') + 1 ELSE 0
    /\ destCtr'[q][p] = IF InDispatch(q)' /\ pc'[q][0] \in BeforeReceive
                       THEN Cardinality(RowsAt(q, p)') ELSE 0
    /\ xdbMem'[p][q] = IF InCombine(q)' /\ Sent(q, p)' THEN RoundOf(place[q])'
                      ELSE IF place'[q] = 0 THEN 0 ELSE RoundOf(place[q])' - 1
  BY DEF Counts
<1>1. /\ (InDispatch(q)' <=> InDispatch(q)) /\ (InCombine(q)' <=> InCombine(q))
      /\ RoundOf(place[q])' = RoundOf(place[q]) /\ Dispatch(q)' = Dispatch(q)
  BY Statics
<1>2. InDispatch(q) \/ InCombine(q) => place[q] > 0
  BY <1>0, PlaceFacts DEF InCombine
<1>3. Pending(q, p)' <=> Pending(q, p)
  <2>1. place[q] = Dispatch(q) => place[q] > 0
    BY <1>0, PlaceFacts DEF Dispatch
  <2> QED
    BY <1>0, <2>1, PendingStays DEF SameSent, SameGot
<1>4. /\ recvNum[p][q] = IF Pending(q, p) THEN Cardinality(RowsAt(q, p)) + 1 ELSE 0
      /\ destCtr[q][p] = IF InDispatch(q) /\ pc[q][0] \in BeforeReceive
                       THEN Cardinality(RowsAt(q, p)) ELSE 0
      /\ xdbMem[p][q] = IF InCombine(q) /\ Sent(q, p) THEN RoundOf(place[q])
                      ELSE IF place[q] = 0 THEN 0 ELSE RoundOf(place[q]) - 1
  BY <1>0 DEF Counts
<1>5. recvNum'[p][q] = IF Pending(q, p)' THEN Cardinality(RowsAt(q, p)') + 1 ELSE 0
  BY <1>3, <1>4 DEF Pending
<1>6. destCtr'[q][p] = IF InDispatch(q)' /\ pc'[q][0] \in BeforeReceive
                       THEN Cardinality(RowsAt(q, p)') ELSE 0
  BY <1>1, <1>2, <1>4
<1>7. xdbMem'[p][q] = IF InCombine(q)' /\ Sent(q, p)' THEN RoundOf(place[q])'
                      ELSE IF place'[q] = 0 THEN 0 ELSE RoundOf(place[q])' - 1
  <2>1. InCombine(q) => (Sent(q, p)' <=> Sent(q, p))
    BY <1>2 DEF SameSent
  <2> QED
    BY <1>0, <1>1, <1>4, <2>1
<1> QED
  BY <1>5, <1>6, <1>7

\* Another rank has had a message of this kernel only after it was sent.
LEMMA NotYet ==
  ASSUME InTurn, Typed, Meets, NEW r \in Rank, NEW p \in Rank, place[r] > 0, ~Sent(r, p)
  PROVE  ~GotAt(p, r, place[r]) /\ place[p] <= place[r]
<1>1. place[p] \in Nat /\ place[r] \in Nat
  BY PlaceFacts
<1> QED
  BY <1>1, Apart DEF GotAt

LEMMA CountsPublish ==
  ASSUME InTurn, Delivering, NEW r \in Rank, Works(r), NEW b \in Blocks(r), Publish(r, b)
  PROVE  Counts'
<1>0. Typed /\ Counts /\ Ranks /\ Meets /\ place' = place /\ place[r] > 0
  BY StreamsStay, Onward DEF Delivering
<1>1. PICK w \in Items(r) : w = work[r][b]
  BY PublishFacts
<1>a. PICK p \in Rank : p = Goes(r, w)
  BY <1>1, PublishFacts
<1>2. /\ InDispatch(r) /\ pc[r][b] = "publish" /\ p \in Rank /\ tokMap[r][w].pe = p
      /\ destCtr' = [destCtr EXCEPT ![r][p] = @ + 1] /\ UNCHANGED <<recvNum, tokMap, combineVars>>
  BY <1>1, <1>a, PublishFacts
<1>3. /\ ~Past(r, w) /\ Past(r, w)' /\ \A v \in Items(r) \ {w} : Past(r, v)' <=> Past(r, v)
  <2>1. OthersStay(r, w) /\ ~Past(r, w) /\ Past(r, w)'
    BY <1>1, PublishItems
  <2> QED
    BY <2>1 DEF OthersStay
<1>4. SameSent /\ SameGot /\ SamePhase
  BY PublishView
<1>5. pc[r][0] \in BeforeSignal
  <2>1. b \notin Beyond(r, Claiming)
    BY <1>2 DEF Beyond, Claiming
  <2> QED
    BY <1>0, <1>2, <2>1 DEF Ranks, Barriers
<1>6. \A s \in Rank : ~Sent(r, s)
  BY <1>5 DEF Sent
<1>7. \A q, s \in Rank : q # r \/ s # p => RowsAt(q, s)' = RowsAt(q, s)
  <2>1. \A q, s \in Rank : q # r => RowsAt(q, s)' = RowsAt(q, s)
    BY <1>0, <1>2, OtherItems, RowsStay
  <2>2. Items(r)' = Items(r)
    BY Statics
  <2>3. ASSUME NEW s \in Rank, s # p PROVE RowsAt(r, s)' = RowsAt(r, s)
    <3> QED
      BY <1>2, <1>3, <2>2, <2>3 DEF RowsAt
  <2> QED
    BY <2>1, <2>3
<1>8. Cardinality(RowsAt(r, p)') = Cardinality(RowsAt(r, p)) + 1
  <2>1. RowsAt(r, p)' = RowsAt(r, p) \cup {w} /\ w \notin RowsAt(r, p)
    <3>1. Items(r)' = Items(r)
      BY Statics
    <3>2. {v \in Items(r) : Past(r, v)' /\ tokMap[r][v].pe = p} = {v \in Items(r) : Past(r, v) /\ tokMap[r][v].pe = p} \cup {w}
      <4> QED
        BY <1>1, <1>2, <1>3
    <3> QED
      BY <1>2, <1>3, <3>1, <3>2 DEF RowsAt
  <2> QED
    BY <1>0, <2>1, RowsFinite, FS_AddElement
<1>9. /\ (InDispatch(r)' <=> InDispatch(r)) /\ Dispatch(r) = place[r] /\ pc'[r][0] \in BeforeReceive
      /\ pc[r][0] \in BeforeReceive
  BY <1>0, <1>2, <1>4, <1>5, Statics, PlaceFacts DEF SamePhase, BeforeReceive, Dispatch
<1>10. destCtr \in [Rank -> [Rank -> Nat]]
  BY <1>0 DEF Typed
<1> SUFFICES ASSUME NEW i \in Rank, NEW q \in Rank
             PROVE
    /\ recvNum'[i][q] = IF Pending(q, i)' THEN Cardinality(RowsAt(q, i)') + 1 ELSE 0
    /\ destCtr'[q][i] = IF InDispatch(q)' /\ pc'[q][0] \in BeforeReceive
                       THEN Cardinality(RowsAt(q, i)') ELSE 0
    /\ xdbMem'[i][q] = IF InCombine(q)' /\ Sent(q, i)' THEN RoundOf(place[q])'
                      ELSE IF place'[q] = 0 THEN 0 ELSE RoundOf(place[q])' - 1
  BY DEF Counts
<1>11. /\ recvNum[i][q] = IF Pending(q, i) THEN Cardinality(RowsAt(q, i)) + 1 ELSE 0
       /\ destCtr[q][i] = IF InDispatch(q) /\ pc[q][0] \in BeforeReceive
                       THEN Cardinality(RowsAt(q, i)) ELSE 0
       /\ xdbMem[i][q] = IF InCombine(q) /\ Sent(q, i) THEN RoundOf(place[q])
                      ELSE IF place[q] = 0 THEN 0 ELSE RoundOf(place[q]) - 1
  BY <1>0 DEF Counts
<1>12. /\ (InDispatch(q)' <=> InDispatch(q)) /\ (InCombine(q)' <=> InCombine(q))
       /\ RoundOf(place[q])' = RoundOf(place[q])
       /\ InDispatch(q) \/ InCombine(q) => place[q] > 0
  BY <1>0, Statics, PlaceFacts DEF InCombine
<1>13. recvNum'[i][q] = IF Pending(q, i)' THEN Cardinality(RowsAt(q, i)') + 1 ELSE 0
  <2>1. Pending(q, i)' <=> Pending(q, i)
    <3>1. place[q] = Dispatch(q) => place[q] > 0
      BY <1>0, PlaceFacts DEF Dispatch
    <3> QED
      BY <1>0, <1>4, <3>1, PendingStays DEF SameSent, SameGot
  <2>2. ~Pending(r, i)
    <3>1. place[r] \in Nat
      BY <1>0, PlaceFacts
    <3> QED
      BY <1>6, <1>9, <3>1 DEF Pending, SentAt
  <2>3. q # r => RowsAt(q, i)' = RowsAt(q, i)
    BY <1>7
  <2> QED
    BY <1>2, <1>11, <2>1, <2>2, <2>3
<1>14. destCtr'[q][i] = IF InDispatch(q)' /\ pc'[q][0] \in BeforeReceive THEN Cardinality(RowsAt(q, i)') ELSE 0
  <2>1. CASE q = r /\ i = p
    <3>1. destCtr'[r][p] = destCtr[r][p] + 1
      BY <1>2, <1>10
    <3> QED
      BY <1>2, <1>8, <1>9, <1>11, <2>1, <3>1
  <2>2. CASE q # r \/ i # p
    <3>1. destCtr'[q][i] = destCtr[q][i]
      BY <1>2, <1>10, <2>2
    <3>2. RowsAt(q, i)' = RowsAt(q, i)
      BY <1>7, <2>2
    <3> QED
      BY <1>4, <1>11, <1>12, <3>1, <3>2 DEF SamePhase
  <2> QED
    BY <2>1, <2>2
<1>15. xdbMem'[i][q] = IF InCombine(q)' /\ Sent(q, i)' THEN RoundOf(place[q])'
                      ELSE IF place'[q] = 0 THEN 0 ELSE RoundOf(place[q])' - 1
  <2>1. InCombine(q) => (Sent(q, i)' <=> Sent(q, i))
    BY <1>4, <1>12 DEF SameSent
  <2> QED
    BY <1>0, <1>2, <1>11, <1>12, <2>1 DEF combineVars
<1> QED
  BY <1>13, <1>14, <1>15

LEMMA CountsSignal ==
  ASSUME InTurn, Delivering, NEW r \in Rank, Works(r), NEW p \in Rank, Signal(r, p)
  PROVE  Counts'
<1>0. Typed /\ Counts /\ Meets /\ place' = place
  BY StreamsStay DEF Delivering
<1>1. /\ InDispatch(r) /\ Sent(r, p)' /\ ~Sent(r, p) /\ pc[r][0] = "signal"
      /\ \A q \in Rank \ {p} : Sent(r, q)' <=> Sent(r, q)
      /\ \A s \in Rank \ {r} : \A q : Sent(s, q)' <=> Sent(s, q)
  BY SignalSent
<1>2. SameItems /\ SameGot /\ SamePhase
  BY SignalView
<1>3. recvNum' = [recvNum EXCEPT ![p][r] = destCtr[r][p] + 1] /\ UNCHANGED <<destCtr, tokMap, xdbMem>>
  BY DEF Signal, combineVars
<1>4. \A q, s \in Rank : RowsAt(q, s)' = RowsAt(q, s)
  BY <1>0, <1>2, <1>3, SameRows
<1>5. recvNum \in [Rank -> [Rank -> Nat]]
  BY <1>0 DEF Typed
<1>6. place[r] \in Nat /\ place[r] > 0 /\ Dispatch(r) = place[r] /\ Dispatch(r)' = Dispatch(r) /\ ~InCombine(r)
  BY <1>0, <1>1, PlaceFacts, Statics DEF Dispatch
<1>7. Pending(r, p)'
  <2>1. ~GotAt(p, r, place[r])
    BY <1>0, <1>1, <1>6, NotYet
  <2>2. place[p] \in Nat /\ place[p] = place[r] => (Got(p, r)' <=> Got(p, r))
    BY <1>0, <1>2, <1>6, PlaceFacts DEF SameGot
  <2> QED
    BY <1>0, <1>1, <1>6, <2>1, <2>2 DEF Pending, SentAt, GotAt
<1>8. destCtr[r][p] = Cardinality(RowsAt(r, p))
  BY <1>0, <1>1 DEF Counts, BeforeReceive
<1> SUFFICES ASSUME NEW i \in Rank, NEW q \in Rank
             PROVE
    /\ recvNum'[i][q] = IF Pending(q, i)' THEN Cardinality(RowsAt(q, i)') + 1 ELSE 0
    /\ destCtr'[q][i] = IF InDispatch(q)' /\ pc'[q][0] \in BeforeReceive
                       THEN Cardinality(RowsAt(q, i)') ELSE 0
    /\ xdbMem'[i][q] = IF InCombine(q)' /\ Sent(q, i)' THEN RoundOf(place[q])'
                      ELSE IF place'[q] = 0 THEN 0 ELSE RoundOf(place[q])' - 1
  BY DEF Counts
<1>11. /\ recvNum[i][q] = IF Pending(q, i) THEN Cardinality(RowsAt(q, i)) + 1 ELSE 0
       /\ destCtr[q][i] = IF InDispatch(q) /\ pc[q][0] \in BeforeReceive
                       THEN Cardinality(RowsAt(q, i)) ELSE 0
       /\ xdbMem[i][q] = IF InCombine(q) /\ Sent(q, i) THEN RoundOf(place[q])
                      ELSE IF place[q] = 0 THEN 0 ELSE RoundOf(place[q]) - 1
  BY <1>0 DEF Counts
<1>12. /\ (InDispatch(q)' <=> InDispatch(q)) /\ (InCombine(q)' <=> InCombine(q))
       /\ RoundOf(place[q])' = RoundOf(place[q])
  BY Statics
<1>13. recvNum'[i][q] = IF Pending(q, i)' THEN Cardinality(RowsAt(q, i)') + 1 ELSE 0
  <2>1. CASE q = r /\ i = p
    BY <1>3, <1>4, <1>5, <1>7, <1>8, <2>1
  <2>2. CASE q # r \/ i # p
    <3>1. Pending(q, i)' <=> Pending(q, i)
      BY <1>0, <1>1, <1>2, <2>2, PendingStays DEF SameGot
    <3>2. recvNum'[i][q] = recvNum[i][q]
      BY <1>3, <1>5, <2>2
    <3> QED
      BY <1>4, <1>11, <3>1, <3>2
  <2> QED
    BY <2>1, <2>2
<1>14. destCtr'[q][i] = IF InDispatch(q)' /\ pc'[q][0] \in BeforeReceive THEN Cardinality(RowsAt(q, i)') ELSE 0
  BY <1>2, <1>3, <1>4, <1>11, <1>12 DEF SamePhase
<1>15. xdbMem'[i][q] = IF InCombine(q)' /\ Sent(q, i)' THEN RoundOf(place[q])'
                      ELSE IF place'[q] = 0 THEN 0 ELSE RoundOf(place[q])' - 1
  BY <1>0, <1>1, <1>3, <1>6, <1>11, <1>12
<1> QED
  BY <1>13, <1>14, <1>15

LEMMA CountsReceive ==
  ASSUME InTurn, Delivering, NEW r \in Rank, Works(r), Receive(r)
  PROVE  Counts'
<1>0. Typed /\ Counts /\ Meets /\ place' = place
  BY StreamsStay DEF Delivering
<1>1. /\ InDispatch(r) /\ pc[r][0] = "receive" /\ pc'[r][0] = "rewind"
      /\ \A q : Got(r, q)' /\ ~Got(r, q)
      /\ \A s \in Rank \ {r} : \A q : Got(s, q)' <=> Got(s, q)
  BY ReceiveGot
<1>2. SameItems /\ SameSent
  BY ReceiveView
<1>3. /\ recvNum' = [recvNum EXCEPT ![r] = [p \in Rank |-> 0]]
      /\ destCtr' = [destCtr EXCEPT ![r] = [p \in Rank |-> 0]]
      /\ UNCHANGED <<tokMap, xdbMem>> /\ \A p \in Rank : recvNum[r][p] > 0
  BY DEF Receive, combineVars
<1>4. \A q, s \in Rank : RowsAt(q, s)' = RowsAt(q, s)
  BY <1>0, <1>2, <1>3, SameRows
<1>5. recvNum \in [Rank -> [Rank -> Nat]] /\ destCtr \in [Rank -> [Rank -> Nat]]
  BY <1>0 DEF Typed
<1>6. \A q \in Rank \ {r} : pc'[q] = pc[q]
  BY <1>0, OthersRest DEF Own
<1> SUFFICES ASSUME NEW i \in Rank, NEW q \in Rank
             PROVE
    /\ recvNum'[i][q] = IF Pending(q, i)' THEN Cardinality(RowsAt(q, i)') + 1 ELSE 0
    /\ destCtr'[q][i] = IF InDispatch(q)' /\ pc'[q][0] \in BeforeReceive
                       THEN Cardinality(RowsAt(q, i)') ELSE 0
    /\ xdbMem'[i][q] = IF InCombine(q)' /\ Sent(q, i)' THEN RoundOf(place[q])'
                      ELSE IF place'[q] = 0 THEN 0 ELSE RoundOf(place[q])' - 1
  BY DEF Counts
<1>11. /\ recvNum[i][q] = IF Pending(q, i) THEN Cardinality(RowsAt(q, i)) + 1 ELSE 0
       /\ destCtr[q][i] = IF InDispatch(q) /\ pc[q][0] \in BeforeReceive
                       THEN Cardinality(RowsAt(q, i)) ELSE 0
       /\ xdbMem[i][q] = IF InCombine(q) /\ Sent(q, i) THEN RoundOf(place[q])
                      ELSE IF place[q] = 0 THEN 0 ELSE RoundOf(place[q]) - 1
  BY <1>0 DEF Counts
<1>12. /\ (InDispatch(q)' <=> InDispatch(q)) /\ (InCombine(q)' <=> InCombine(q))
       /\ RoundOf(place[q])' = RoundOf(place[q]) /\ Dispatch(q)' = Dispatch(q)
       /\ InCombine(q) => place[q] > 0
  BY Statics DEF InCombine
<1>13. recvNum'[i][q] = IF Pending(q, i)' THEN Cardinality(RowsAt(q, i)') + 1 ELSE 0
  <2>1. CASE i = r
    <3>1. Dispatch(q) = place[r]
      BY <1>1, <1>3, CountSent
    <3>2. ~Pending(q, r)'
      BY <1>0, <1>1, <1>12, <3>1 DEF Pending, GotAt
    <3> QED
      BY <1>3, <1>5, <2>1, <3>2
  <2>2. CASE i # r
    <3>1. Pending(q, i)' <=> Pending(q, i)
      <4>1. place[q] = Dispatch(q) => place[q] > 0
        BY <1>0, PlaceFacts DEF Dispatch
      <4> QED
        BY <1>0, <1>1, <1>2, <2>2, <4>1, PendingStays DEF SameSent
    <3>2. recvNum'[i][q] = recvNum[i][q]
      BY <1>3, <1>5, <2>2
    <3> QED
      BY <1>4, <1>11, <3>1, <3>2
  <2> QED
    BY <2>1, <2>2
<1>14. destCtr'[q][i] = IF InDispatch(q)' /\ pc'[q][0] \in BeforeReceive THEN Cardinality(RowsAt(q, i)') ELSE 0
  <2>1. CASE q = r
    <3>1. destCtr'[q][i] = 0
      BY <1>3, <1>5, <2>1
    <3>2. pc'[q][0] \notin BeforeReceive
      BY <1>1, <2>1 DEF BeforeReceive, BeforeSignal, Claiming
    <3> QED
      BY <3>1, <3>2
  <2>2. CASE q # r
    <3>1. destCtr'[q][i] = destCtr[q][i] /\ pc'[q] = pc[q]
      BY <1>3, <1>5, <1>6, <2>2
    <3> QED
      BY <1>4, <1>11, <1>12, <3>1
  <2> QED
    BY <2>1, <2>2
<1>15. xdbMem'[i][q] = IF InCombine(q)' /\ Sent(q, i)' THEN RoundOf(place[q])'
                      ELSE IF place'[q] = 0 THEN 0 ELSE RoundOf(place[q])' - 1
  BY <1>0, <1>2, <1>3, <1>11, <1>12 DEF SameSent
<1> QED
  BY <1>13, <1>14, <1>15

LEMMA CountsPost ==
  ASSUME InTurn, Delivering, NEW r \in Rank, Works(r), NEW p \in Rank, Post(r, p)
  PROVE  Counts'
<1>0. Typed /\ Counts /\ Flags(r) /\ place' = place /\ 0 \in Blocks(r)
  BY StreamsStay DEF Delivering, Ranks, Post
<1>1. /\ InCombine(r) /\ Sent(r, p)' /\ ~Sent(r, p) /\ pc[r][0] = "post"
      /\ \A q \in Rank \ {p} : Sent(r, q)' <=> Sent(r, q)
      /\ \A s \in Rank \ {r} : \A q : Sent(s, q)' <=> Sent(s, q)
  BY PostSent
<1>2. SameItems /\ SameGot /\ SamePhase
  BY PostView
<1>3. xdbMem' = [xdbMem EXCEPT ![p][r] = reg[r][0].flag] /\ UNCHANGED <<destCtr, recvNum, tokMap>>
  BY DEF Post, dispatchVars
<1>4. \A q, s \in Rank : RowsAt(q, s)' = RowsAt(q, s)
  BY <1>0, <1>2, <1>3, SameRows
<1>5. xdbMem \in [Rank -> [Rank -> Nat]]
  BY <1>0 DEF Typed
<1>6. reg[r][0].flag = RoundOf(place[r])
  BY <1>0, <1>1 DEF Flags
<1>7. place[r] # Dispatch(r)
  BY <1>0, <1>1, PlaceFacts DEF Dispatch
<1> SUFFICES ASSUME NEW i \in Rank, NEW q \in Rank
             PROVE
    /\ recvNum'[i][q] = IF Pending(q, i)' THEN Cardinality(RowsAt(q, i)') + 1 ELSE 0
    /\ destCtr'[q][i] = IF InDispatch(q)' /\ pc'[q][0] \in BeforeReceive
                       THEN Cardinality(RowsAt(q, i)') ELSE 0
    /\ xdbMem'[i][q] = IF InCombine(q)' /\ Sent(q, i)' THEN RoundOf(place[q])'
                      ELSE IF place'[q] = 0 THEN 0 ELSE RoundOf(place[q])' - 1
  BY DEF Counts
<1>11. /\ recvNum[i][q] = IF Pending(q, i) THEN Cardinality(RowsAt(q, i)) + 1 ELSE 0
       /\ destCtr[q][i] = IF InDispatch(q) /\ pc[q][0] \in BeforeReceive
                       THEN Cardinality(RowsAt(q, i)) ELSE 0
       /\ xdbMem[i][q] = IF InCombine(q) /\ Sent(q, i) THEN RoundOf(place[q])
                      ELSE IF place[q] = 0 THEN 0 ELSE RoundOf(place[q]) - 1
  BY <1>0 DEF Counts
<1>12. /\ (InDispatch(q)' <=> InDispatch(q)) /\ (InCombine(q)' <=> InCombine(q))
       /\ RoundOf(place[q])' = RoundOf(place[q])
  BY Statics
<1>13. recvNum'[i][q] = IF Pending(q, i)' THEN Cardinality(RowsAt(q, i)') + 1 ELSE 0
  <2>1. Pending(q, i)' <=> Pending(q, i)
    BY <1>0, <1>1, <1>2, <1>7, PendingStays DEF SameGot
  <2> QED
    BY <1>3, <1>4, <1>11, <2>1
<1>14. destCtr'[q][i] = IF InDispatch(q)' /\ pc'[q][0] \in BeforeReceive THEN Cardinality(RowsAt(q, i)') ELSE 0
  BY <1>2, <1>3, <1>4, <1>11, <1>12 DEF SamePhase
<1>15. xdbMem'[i][q] = IF InCombine(q)' /\ Sent(q, i)' THEN RoundOf(place[q])'
                      ELSE IF place'[q] = 0 THEN 0 ELSE RoundOf(place[q])' - 1
  <2>1. CASE q = r /\ i = p
    BY <1>1, <1>3, <1>5, <1>6, <1>12, <2>1
  <2>2. CASE q # r \/ i # p
    <3>1. xdbMem'[i][q] = xdbMem[i][q] /\ (Sent(q, i)' <=> Sent(q, i))
      BY <1>1, <1>3, <1>5, <2>2
    <3> QED
      BY <1>0, <1>11, <1>12, <3>1
  <2> QED
    BY <2>1, <2>2
<1> QED
  BY <1>13, <1>14, <1>15

LEMMA CountsAwait ==
  ASSUME InTurn, Delivering, NEW r \in Rank, Works(r), NEW b \in Blocks(r), NEW p \in Rank, Await(r, b, p)
  PROVE  Counts'
<1>0. Typed /\ Counts /\ place' = place
  BY StreamsStay DEF Delivering
<1>1. /\ InCombine(r) /\ \A s \in Rank \ {r} : \A q : Got(s, q)' <=> Got(s, q)
  BY AwaitGot
<1>2. SameItems /\ SameSent /\ SamePhase
  BY AwaitView
<1>3. UNCHANGED <<destCtr, recvNum, tokMap, xdbMem>>
  BY DEF Await, dispatchVars, combineVars
<1>4. \A q, s \in Rank : RowsAt(q, s)' = RowsAt(q, s)
  BY <1>0, <1>2, <1>3, SameRows
<1>7. \A q \in Rank : place[r] # Dispatch(q)
  BY <1>0, <1>1, PlaceFacts DEF Dispatch
<1> SUFFICES ASSUME NEW i \in Rank, NEW q \in Rank
             PROVE
    /\ recvNum'[i][q] = IF Pending(q, i)' THEN Cardinality(RowsAt(q, i)') + 1 ELSE 0
    /\ destCtr'[q][i] = IF InDispatch(q)' /\ pc'[q][0] \in BeforeReceive
                       THEN Cardinality(RowsAt(q, i)') ELSE 0
    /\ xdbMem'[i][q] = IF InCombine(q)' /\ Sent(q, i)' THEN RoundOf(place[q])'
                      ELSE IF place'[q] = 0 THEN 0 ELSE RoundOf(place[q])' - 1
  BY DEF Counts
<1>11. /\ recvNum[i][q] = IF Pending(q, i) THEN Cardinality(RowsAt(q, i)) + 1 ELSE 0
       /\ destCtr[q][i] = IF InDispatch(q) /\ pc[q][0] \in BeforeReceive
                       THEN Cardinality(RowsAt(q, i)) ELSE 0
       /\ xdbMem[i][q] = IF InCombine(q) /\ Sent(q, i) THEN RoundOf(place[q])
                      ELSE IF place[q] = 0 THEN 0 ELSE RoundOf(place[q]) - 1
  BY <1>0 DEF Counts
<1>12. /\ (InDispatch(q)' <=> InDispatch(q)) /\ (InCombine(q)' <=> InCombine(q))
       /\ RoundOf(place[q])' = RoundOf(place[q]) /\ (InCombine(q) => place[q] > 0)
  BY Statics DEF InCombine
<1>13. recvNum'[i][q] = IF Pending(q, i)' THEN Cardinality(RowsAt(q, i)') + 1 ELSE 0
  <2>1. Pending(q, i)' <=> Pending(q, i)
    <3>1. place[q] = Dispatch(q) => place[q] > 0
      BY <1>0, PlaceFacts DEF Dispatch
    <3> QED
      BY <1>0, <1>1, <1>2, <1>7, <3>1, PendingStays DEF SameSent
  <2> QED
    BY <1>3, <1>4, <1>11, <2>1
<1>14. destCtr'[q][i] = IF InDispatch(q)' /\ pc'[q][0] \in BeforeReceive THEN Cardinality(RowsAt(q, i)') ELSE 0
  BY <1>2, <1>3, <1>4, <1>11, <1>12 DEF SamePhase
<1>15. xdbMem'[i][q] = IF InCombine(q)' /\ Sent(q, i)' THEN RoundOf(place[q])'
                      ELSE IF place'[q] = 0 THEN 0 ELSE RoundOf(place[q])' - 1
  BY <1>0, <1>2, <1>3, <1>11, <1>12 DEF SameSent
<1> QED
  BY <1>13, <1>14, <1>15

LEMMA CountsKeep ==
  ASSUME InTurn, Delivering, NEW r \in Rank, Works(r)
  PROVE  Counts'
<1>0. Typed /\ InTurn
  BY DEF Delivering
<1>1. ASSUME Quiet PROVE Counts'
  BY <1>0, <1>1, SameRows, CountsSame DEF Quiet, SamePhase, SameData
<1>2. ASSUME NEW b \in Blocks(r), Claim(r, b) PROVE Counts'
  <2>1. SameSent /\ SameGot /\ SamePhase
    BY <1>2, ClaimView
  <2>2. UNCHANGED <<destCtr, recvNum, xdbMem>>
    BY <1>2 DEF Claim, combineVars
  <2>3. ASSUME NEW q \in Rank, NEW p \in Rank PROVE RowsAt(q, p)' = RowsAt(q, p)
    <3>1. CASE q # r
      BY <1>0, <3>1, OtherItems, OthersRest, RowsStay DEF Own
    <3>2. CASE q = r
      <4>1. PICK w : w = work[r][b]
        OBVIOUS
      <4>2. /\ w \in Items(r) /\ ~Past(r, w) /\ (~Past(r, w)' \/ tokMap'[r][w] = Dropped)
            /\ \A v \in Items(r) \ {w} : (Past(r, v)' <=> Past(r, v)) /\ tokMap'[r][v] = tokMap[r][v]
        <5>1. w \in Items(r) /\ ~Past(r, w)
          BY <1>2, <4>1, ClaimItems
        <5>2. ~Past(r, w)' \/ tokMap'[r][w] = Dropped
          BY <1>2, <4>1, ClaimItems, Zenon
        <5>3. \A v \in Items(r) \ {w} : (Past(r, v)' <=> Past(r, v)) /\ tokMap'[r][v] = tokMap[r][v]
          <6>1. OthersStay(r, w)
            BY <1>2, <4>1, ClaimItems
          <6> QED
            BY <6>1 DEF OthersStay
        <5> QED
          BY <5>1, <5>2, <5>3
      <4>3. Dropped.pe # p
        BY ConstantFacts DEF Dropped
      <4>4. Items(r)' = Items(r)
        BY Statics
      <4>5. \A v \in Items(r) : Past(r, v)' /\ tokMap'[r][v].pe = p <=> Past(r, v) /\ tokMap[r][v].pe = p
        BY <4>2, <4>3
      <4>6. RowsAt(r, p)' = RowsAt(r, p)
        BY <4>4, <4>5 DEF RowsAt
      <4> QED
        BY <3>2, <4>6
    <3> QED
      BY <3>1, <3>2
  <2> QED
    BY <2>1, <2>2, <2>3, CountsSame DEF SamePhase
<1>3. CASE Rewind(r)
  <2>1. SameItems /\ SameSent /\ SameGot
    BY <1>3, RewindView
  <2>2. UNCHANGED <<destCtr, recvNum, xdbMem, tokMap>>
    BY <1>3 DEF Rewind, combineVars
  <2>3. \A q \in Rank : InDispatch(q) => (pc'[q][0] \in BeforeReceive <=> pc[q][0] \in BeforeReceive)
    <3>1. \A q \in Rank \ {r} : pc'[q] = pc[q]
      BY <1>0, OthersRest DEF Own
    <3>2. pc[r][0] \notin BeforeReceive /\ pc'[r][0] \notin BeforeReceive
      <4>1. Turn(r, 0, Then, work[r][0], reg[r][0], todo[r][0]) /\ 0 \in Blocks(r) /\ pc[r][0] = "rewind"
        BY <1>3, RewindTurn DEF Rewind, Delivering, Ranks
      <4> QED
        BY <4>1 DEF Turn, Then, BeforeReceive, BeforeSignal, Claiming
    <3> QED
      BY <3>1, <3>2
  <2> QED
    BY <1>0, <2>1, <2>2, <2>3, SameRows, CountsSame
<1>7. CASE DispatchStep(r)
  BY <1>1, <1>2, <1>3, <1>7, CountsPublish, CountsSignal, CountsReceive, ArriveDispatchView, CollectView,
     TicketView, PassGridView, PackView, EndDispatchView DEF DispatchStep
<1>8. CASE CombineStep(r)
  BY <1>1, <1>8, CountsPost, CountsAwait, LoadView, ScatterView, ArriveCombineView, MeetView, SumView,
     EndCombineView DEF CombineStep
<1> QED
  BY <1>7, <1>8 DEF Works

-----------------------------------------------------------------------------
(* What steps leave alone.                                                 *)

SameRegs == \A q \in Rank : \A w \in Items(q) :
  Holding(q, w) => reg'[q][BlockOf(q, w)] = reg[q][BlockOf(q, w)]

\* No item moves.
Calm == SameItems /\ SameRegs /\ UNCHANGED <<tokMap, recvTok>>

\* Rank r claims an item, or it publishes one.
Claims(r)    == \E b \in Blocks(r) : Claim(r, b)
Publishes(r) == \E b \in Blocks(r) : Publish(r, b)

LEMMA CalmOr ==
  ASSUME InTurn, Delivering, NEW r \in Rank, Works(r)
  PROVE  Claims(r) \/ Publishes(r) \/ Calm
<1>0. Typed /\ Shaped(r)
  BY DEF Delivering, Ranks
<1>1. ASSUME reg' = reg PROVE SameRegs
  BY <1>1 DEF SameRegs
<1>2. ASSUME NEW b \in Blocks(r), pc[r][b] \in {"ticket", "load"}, NEW v, reg' = [reg EXCEPT ![r][b] = v]
      PROVE  SameRegs
  <2> SUFFICES ASSUME NEW q \in Rank, NEW w \in Items(q), Holding(q, w)
               PROVE  reg'[q][BlockOf(q, w)] = reg[q][BlockOf(q, w)]
    BY DEF SameRegs
  <2>1. pc[q][BlockOf(q, w)] = "publish"
    BY DEF Holding
  <2>2. q # r \/ BlockOf(q, w) # b
    BY <1>2, <2>1
  <2> QED
    BY <1>0, <1>2, <2>2 DEF Typed, Shaped
<1>3. ASSUME Quiet, UNCHANGED reg PROVE Calm
  BY <1>1, <1>3 DEF Quiet, SameData, Calm
<1>4. ASSUME NEW b \in Blocks(r), Ticket(r, b) PROVE Calm
  <2>1. pc[r][b] = "ticket" /\ \E v : reg' = [reg EXCEPT ![r][b] = v]
    BY <1>4 DEF Ticket
  <2>2. SameRegs
    BY <1>2, <2>1
  <2> QED
    BY <1>4, <2>2, TicketView DEF Quiet, SameData, Calm
<1>5. ASSUME NEW b \in Blocks(r), Load(r, b) PROVE Calm
  <2>1. pc[r][b] = "load" /\ \E v : reg' = [reg EXCEPT ![r][b] = v]
    BY <1>5 DEF Load
  <2>2. SameRegs
    BY <1>2, <2>1
  <2> QED
    BY <1>5, <2>2, LoadView DEF Quiet, SameData, Calm
<1>6. ASSUME NEW b \in Blocks(r),
             \/ ArriveDispatch(r, b) \/ PassGrid(r, b) \/ Pack(r, b) \/ EndDispatch(r, b) \/ Scatter(r, b)
             \/ ArriveCombine(r, b) \/ Sum(r, b) \/ EndCombine(r, b)
      PROVE  Calm
  <2>1. UNCHANGED reg
    BY <1>6 DEF ArriveDispatch, PassGrid, Pack, EndDispatch, Scatter, ArriveCombine, Sum, EndCombine
  <2>2. Quiet
    BY <1>6, ArriveDispatchView, PassGridView, PackView, EndDispatchView, ScatterView, ArriveCombineView,
       SumView, EndCombineView
  <2> QED
    BY <1>3, <2>1, <2>2
<1>7. CASE Collect(r) \/ Meet(r)
  <2>1. UNCHANGED reg
    BY <1>7 DEF Collect, Meet
  <2>2. Quiet
    BY <1>7, CollectView, MeetView
  <2> QED
    BY <1>3, <2>1, <2>2
<1>8. CASE Receive(r) \/ Rewind(r)
  <2>1. UNCHANGED <<reg, tokMap, recvTok>>
    BY <1>8 DEF Receive, Rewind
  <2> QED
    BY <1>1, <1>8, <2>1, ReceiveView, RewindView DEF Calm
<1>9. ASSUME NEW p \in Rank, Signal(r, p) \/ Post(r, p) PROVE Calm
  <2>1. UNCHANGED <<reg, tokMap, recvTok>>
    BY <1>9 DEF Signal, Post, dispatchVars
  <2> QED
    BY <1>1, <1>9, <2>1, SignalView, PostView DEF Calm
<1>10. ASSUME NEW b \in Blocks(r), NEW p \in Rank, Await(r, b, p) PROVE Calm
  <2>1. UNCHANGED <<reg, tokMap, recvTok>>
    BY <1>10 DEF Await, dispatchVars
  <2> QED
    BY <1>1, <1>10, <2>1, AwaitView DEF Calm
<1>11. CASE DispatchStep(r)
  BY <1>4, <1>6, <1>7, <1>8, <1>9, <1>11 DEF DispatchStep, Claims, Publishes
<1>12. CASE CombineStep(r)
  BY <1>5, <1>6, <1>7, <1>9, <1>10, <1>12 DEF CombineStep
<1> QED
  BY <1>11, <1>12 DEF Works

LEMMA PhaseOr ==
  ASSUME InTurn, Delivering, NEW r \in Rank, Works(r)
  PROVE  SamePhase \/ Receive(r) \/ Rewind(r)
<1>1. CASE DispatchStep(r)
  BY <1>1, ClaimView, PublishView, ArriveDispatchView, CollectView, SignalView, TicketView, PassGridView,
     PackView, EndDispatchView DEF DispatchStep, Quiet
<1>2. CASE CombineStep(r)
  BY <1>2, LoadView, ScatterView, ArriveCombineView, MeetView, PostView, AwaitView, SumView,
     EndCombineView DEF CombineStep, Quiet
<1> QED
  BY <1>1, <1>2 DEF Works

\* The row counters move with claims and rewinds only, the round that they
\* count with rewinds only.
LEMMA CounterOr ==
  ASSUME InTurn, Delivering, NEW r \in Rank, Works(r)
  PROVE  /\ Claims(r) \/ Rewind(r) \/ UNCHANGED tokOff
         /\ Rewind(r) \/ \A p \in Rank : CountRound(p)' = CountRound(p)
<1>1. Claims(r) \/ Rewind(r) \/ UNCHANGED tokOff
  BY DEF Works, DispatchStep, CombineStep, Claims, Publish, ArriveDispatch, Collect, Signal, Receive,
         Ticket, PassGrid, Pack, EndDispatch, Load, Scatter, ArriveCombine, Meet, Post, Await, Sum,
         EndCombine, dispatchVars
<1>2. SamePhase \/ Receive(r) \/ Rewind(r)
  BY PhaseOr
<1>3. ASSUME \A p \in Rank : InDispatch(p) => (pc'[p][0] \in BeforeRewind <=> pc[p][0] \in BeforeRewind)
      PROVE  \A p \in Rank : CountRound(p)' = CountRound(p)
  BY <1>3, Statics DEF CountRound
<1>4. CASE SamePhase
  BY <1>1, <1>3, <1>4 DEF SamePhase
<1>5. CASE Receive(r)
  <2>1. pc[r][0] = "receive" /\ pc'[r][0] = "rewind" /\ \A p \in Rank \ {r} : pc'[p] = pc[p]
    BY <1>5, ReceiveGot, OthersRest DEF Own, Delivering
  <2>2. \A p \in Rank : pc'[p][0] \in BeforeRewind <=> pc[p][0] \in BeforeRewind
    BY <2>1 DEF BeforeRewind, BeforeReceive
  <2> QED
    BY <1>1, <1>3, <2>2
<1> QED
  BY <1>1, <1>2, <1>4, <1>5

\* Only a claim changes what items have asked for, and got.
LEMMA ClaimedStays ==
  ASSUME InTurn, Delivering, NEW r \in Rank, Works(r), ~Claims(r)
  PROVE  UNCHANGED tokMap /\ \A q \in Rank : \A w \in Items(q) : Claimed(q, w)' <=> Claimed(q, w)
<1>1. CASE Calm
  BY <1>1 DEF Calm, SameItems, Claimed
<1>2. ASSUME NEW b \in Blocks(r), Publish(r, b)
      PROVE  UNCHANGED tokMap /\ \A q \in Rank : \A w \in Items(q) : Claimed(q, w)' <=> Claimed(q, w)
  <2>1. PICK w : w = work[r][b]
    OBVIOUS
  <2>2. OthersStay(r, w) /\ UNCHANGED tokMap /\ Claimed(r, w) /\ Claimed(r, w)'
    BY <1>2, <2>1, PublishItems DEF Claimed
  <2> QED
    BY <2>2 DEF OthersStay
<1> QED
  BY <1>1, <1>2, CalmOr DEF Publishes

-----------------------------------------------------------------------------
(* Tickets: what asks for rows of a rank.                                  *)

\* What Ticketed says of one rank.
TicketedAt(p) ==
  /\ tokOff[p] = Cardinality(Tickets(p))
  /\ \A i \in Tickets(p) : RowOf(i) # Dropped => RowOf(i).id < tokOff[p]
  /\ \A id \in 0..(MaxRecv - 1) :
       id < tokOff[p] => \E i \in Tickets(p) : RowOf(i) = [pe |-> p, id |-> id]

LEMMA TicketsFinite ==
  ASSUME InTurn, Typed, NEW p
  PROVE  IsFiniteSet(Tickets(p)) /\ Cardinality(Tickets(p)) \in Nat
<1>1. IsFiniteSet(Rank) /\ IsFiniteSet(AllItems)
  <2>1. MaxTok * TopK - 1 \in Int /\ World - 1 \in Int
    BY ConstantFacts
  <2> QED
    BY <2>1, FS_Interval DEF Rank, AllItems
<1>2. IsFiniteSet(Rank \X AllItems)
  BY <1>1, FS_Product
<1>3. Tickets(p) \subseteq Rank \X AllItems
  BY DEF Tickets
<1>4. IsFiniteSet(Tickets(p))
  BY <1>2, <1>3, FS_Subset
<1> QED
  BY <1>4, FS_CardinalityType

\* An item that asks for a row.
LEMMA TicketIs ==
  ASSUME NEW p, NEW r \in Rank, NEW w \in AllItems
  PROVE  <<r, w>> \in Tickets(p) <=>
           /\ place[r] > 0 /\ RoundOf(place[r]) = CountRound(p)
           /\ w \in Items(r) /\ ~Dup(r, w) /\ Goes(r, w) = p /\ Claimed(r, w)
BY DEF Tickets

LEMMA TicketIsNext ==
  ASSUME NEW s, Works(s), NEW p, NEW r \in Rank, NEW w \in AllItems
  PROVE  <<r, w>> \in Tickets(p)' <=>
           /\ place[r] > 0 /\ RoundOf(place[r]) = CountRound(p)'
           /\ w \in Items(r) /\ ~Dup(r, w) /\ Goes(r, w) = p /\ Claimed(r, w)'
<1>1. <<r, w>> \in Tickets(p)' <=>
           /\ place'[r] > 0 /\ RoundOf(place[r])' = CountRound(p)'
           /\ w \in Items(r)' /\ ~Dup(r, w)' /\ Goes(r, w)' = p /\ Claimed(r, w)'
  BY DEF Tickets
<1>2. /\ place' = place /\ RoundOf(place[r])' = RoundOf(place[r]) /\ Items(r)' = Items(r)
      /\ (Dup(r, w)' <=> Dup(r, w)) /\ Goes(r, w)' = Goes(r, w)
  BY Statics, StreamsStay
<1> QED
  BY <1>1, <1>2

LEMMA TicketsSame ==
  ASSUME NEW s, Works(s), NEW p, CountRound(p)' = CountRound(p),
         \A r \in Rank : \A w \in Items(r) :
           ~Dup(r, w) /\ Goes(r, w) = p => (Claimed(r, w)' <=> Claimed(r, w))
  PROVE  Tickets(p)' = Tickets(p)
<1>1. Tickets(p) \subseteq Rank \X AllItems /\ Tickets(p)' \subseteq Rank \X AllItems
  BY DEF Tickets
<1>2. ASSUME NEW r \in Rank, NEW w \in AllItems
      PROVE  <<r, w>> \in Tickets(p)' <=> <<r, w>> \in Tickets(p)
  BY TicketIs, TicketIsNext
<1>3. ASSUME NEW i \in Rank \X AllItems PROVE i \in Tickets(p)' <=> i \in Tickets(p)
  <2>1. PICK r \in Rank, w \in AllItems : i = <<r, w>>
    OBVIOUS
  <2> QED
    BY <1>2, <2>1
<1> QED
  BY <1>1, <1>3

LEMMA TicketedSame ==
  ASSUME NEW p, TicketedAt(p), Tickets(p)' = Tickets(p), tokOff'[p] = tokOff[p],
         \A i \in Tickets(p) : tokMap'[i[1]][i[2]] = tokMap[i[1]][i[2]]
  PROVE  TicketedAt(p)'
BY DEF TicketedAt, RowOf

\* While a rank claims, all ranks count its round.
LEMMA ClaimRound ==
  ASSUME InTurn, Typed, Meets, NEW r \in Rank, InDispatch(r), pc[r][0] \in BeforeSignal, NEW p \in Rank
  PROVE  CountRound(p) = RoundOf(place[r])
<1>1. place[r] > 0 /\ place[r] \in Nat /\ place[p] \in Nat
  BY PlaceFacts
<1>2. ~Sent(r, p)
  BY DEF Sent
<1>3. ~GotAt(p, r, place[r]) /\ place[p] <= place[r]
  BY <1>1, <1>2, NotYet
<1>4. place[r] <= place[p] + 1
  BY Apart
<1>5. CASE place[p] = place[r]
  <2>1. InDispatch(p) /\ ~Got(p, r)
    BY <1>3, <1>5 DEF InDispatch, GotAt
  <2>2. pc[p][0] \in BeforeRewind
    BY <2>1 DEF Got, BeforeRewind
  <2> QED
    BY <1>5, <2>1, <2>2 DEF CountRound
<1>6. CASE place[r] = place[p] + 1
  <2>1. place[r] % 2 = 1
    BY DEF InDispatch
  <2>2. place[p] % 2 = 0 /\ (place[r] + 1) \div 2 = (place[p] + 1) \div 2 + 1
    BY <1>1, <1>6, <2>1
  <2>3. RoundOf(place[r]) = (place[r] + 1) \div 2 /\ RoundOf(place[p]) = (place[p] + 1) \div 2
    BY <1>1, PlaceFacts, Rounds
  <2>4. ~InDispatch(p)
    BY <2>2 DEF InDispatch
  <2> QED
    BY <2>2, <2>3, <2>4 DEF CountRound
<1> QED
  BY <1>1, <1>3, <1>4, <1>5, <1>6

\* And the first block waits for it.
LEMMA ClaimFirst ==
  ASSUME InTurn, Typed, Ranks, NEW r \in Rank, NEW b \in Blocks(r), pc[r][b] \in Claiming
  PROVE  InDispatch(r) /\ pc[r][0] \in BeforeSignal
<1>1. Shaped(r) /\ Barriers(r)
  BY DEF Ranks
<1>2. InDispatch(r)
  BY <1>1, KernelOf DEF Claiming, BeforeRewind, BeforeReceive, BeforeSignal
<1>3. b \notin Beyond(r, Claiming)
  BY DEF Beyond
<1> QED
  BY <1>1, <1>2, <1>3 DEF Barriers

\* A row that is asked for is the next, or none if there is none.
LEMMA TicketedClaim ==
  ASSUME InTurn, Delivering, NEW r \in Rank, Works(r), NEW b \in Blocks(r), Claim(r, b)
  PROVE  Ticketed'
<1>0. Typed /\ Ranks /\ Meets /\ Shaped(r) /\ place[r] > 0
  BY Onward DEF Delivering, Ranks
<1>1. PICK w : w = work[r][b]
  OBVIOUS
<1>2. PICK p \in Rank : p = Goes(r, w)
  BY <1>1, ClaimItems
<1>3. w \in Items(r) /\ InDispatch(r) /\ ~Past(r, w) /\ ~Holding(r, w) /\ OthersStay(r, w)
  BY <1>1, ClaimItems
<1>4. \/ Dup(r, w) /\ UNCHANGED tokOff
      \/ /\ ~Dup(r, w) /\ tokOff' = [tokOff EXCEPT ![p] = @ + 1] /\ Claimed(r, w)'
         /\ \/ tokOff[p] >= MaxRecv /\ tokMap'[r][w] = Dropped
            \/ tokMap'[r][w] = [pe |-> p, id |-> tokOff[p]]
  <2>1. \/ /\ Past(r, w)' /\ ~Holding(r, w)' /\ tokMap'[r][w] = Dropped
           /\ \/ Dup(r, w) /\ UNCHANGED tokOff
              \/ /\ ~Dup(r, w) /\ tokOff' = [tokOff EXCEPT ![p] = @ + 1]
                 /\ tokOff[p] >= MaxRecv
        \/ /\ ~Past(r, w)' /\ Holding(r, w)'
           /\ tokMap'[r][w] = [pe |-> p, id |-> tokOff[p]]
           /\ ~Dup(r, w) /\ tokOff' = [tokOff EXCEPT ![p] = @ + 1]
           /\ tokOff[p] < MaxRecv /\ reg'[r][b].row = tokMap'[r][w]
    BY <1>1, <1>2, ClaimItems
  <2> QED
    BY <2>1 DEF Claimed
<1>5. \A s \in Rank : CountRound(s)' = CountRound(s)
  <2>1. ~Rewind(r)
    <3>1. pc[r][b] = "claim"
      BY DEF Claim
    <3>2. pc[r][0] \in BeforeSignal
      BY <1>0, <3>1, ClaimFirst DEF Claiming
    <3> QED
      BY <3>2 DEF Rewind, BeforeSignal, Claiming
  <2> QED
    BY <2>1, CounterOr
<1>6. CountRound(p) = RoundOf(place[r])
  <2>1. pc[r][b] = "claim"
    BY DEF Claim
  <2>2. pc[r][0] \in BeforeSignal
    BY <1>0, <2>1, ClaimFirst DEF Claiming
  <2> QED
    BY <1>0, <1>3, <2>2, ClaimRound
<1>7. \A s \in Rank : s # p \/ Dup(r, w) => Tickets(s)' = Tickets(s)
  <2>1. ASSUME NEW s \in Rank, s # p \/ Dup(r, w), NEW q \in Rank, NEW v \in Items(q), ~Dup(q, v), Goes(q, v) = s
        PROVE  Claimed(q, v)' <=> Claimed(q, v)
    BY <1>2, <1>3, <2>1 DEF OthersStay
  <2> QED
    BY <1>5, <2>1, TicketsSame
<1>8. \A s \in Rank : \A i \in Tickets(s) : tokMap'[i[1]][i[2]] = tokMap[i[1]][i[2]]
  <2>1. \A s \in Rank : \A i \in Tickets(s) : i[1] \in Rank /\ i[2] \in Items(i[1]) /\ Claimed(i[1], i[2])
    BY DEF Tickets
  <2> QED
    BY <1>3, <2>1 DEF OthersStay, Claimed
<1>9. \A s \in Rank : TicketedAt(s) /\ DOMAIN tokOff = Rank /\ tokOff[p] \in Nat
  BY <1>0 DEF Delivering, Ticketed, TicketedAt, Typed
<1>10. CASE Dup(r, w)
  <2>1. \A s \in Rank : TicketedAt(s)'
    BY <1>4, <1>7, <1>8, <1>9, <1>10, TicketedSame
  <2> QED
    BY <2>1 DEF Ticketed, TicketedAt
<1>11. CASE ~Dup(r, w)
  <2>1. \A s \in Rank : s # p => TicketedAt(s)'
    BY <1>4, <1>7, <1>8, <1>9, <1>11, TicketedSame
  <2>2. tokOff'[p] = tokOff[p] + 1
    BY <1>4, <1>9, <1>11
  <2>3. Tickets(p)' = Tickets(p) \cup {<<r, w>>} /\ <<r, w>> \notin Tickets(p)
    <3>1. w \in AllItems
      BY <1>0, <1>3, ItemsFit
    <3>2. <<r, w>> \notin Tickets(p)
      BY <1>3, <3>1, TicketIs DEF Claimed
    <3>3. <<r, w>> \in Tickets(p)'
      BY <1>0, <1>2, <1>3, <1>4, <1>5, <1>6, <1>11, <3>1, TicketIsNext
    <3>4. ASSUME NEW q \in Rank, NEW v \in AllItems, <<q, v>> # <<r, w>>
          PROVE  <<q, v>> \in Tickets(p)' <=> <<q, v>> \in Tickets(p)
      <4>1. v \in Items(q) => (Claimed(q, v)' <=> Claimed(q, v))
        BY <1>3, <3>4 DEF OthersStay
      <4> QED
        BY <1>5, <4>1, TicketIs, TicketIsNext
    <3>5. Tickets(p) \subseteq Rank \X AllItems /\ Tickets(p)' \subseteq Rank \X AllItems
      BY DEF Tickets
    <3>6. ASSUME NEW i \in Rank \X AllItems, i # <<r, w>> PROVE i \in Tickets(p)' <=> i \in Tickets(p)
      <4>1. PICK q \in Rank, v \in AllItems : i = <<q, v>>
        OBVIOUS
      <4> QED
        BY <3>4, <3>6, <4>1
    <3> QED
      BY <3>2, <3>3, <3>5, <3>6
  <2>4. Cardinality(Tickets(p)') = Cardinality(Tickets(p)) + 1
    BY <1>0, <2>3, TicketsFinite, FS_AddElement
  <2>5. RowOf(<<r, w>>)' = tokMap'[r][w] /\ \A i \in Tickets(p) : RowOf(i)' = RowOf(i)
    BY <1>8 DEF RowOf
  <2>6. ASSUME NEW i \in Tickets(p)', RowOf(i)' # Dropped PROVE RowOf(i)'.id < tokOff'[p]
    <3>1. CASE i \in Tickets(p)
      <4>1. RowOf(i)' = RowOf(i)
        BY <2>5, <3>1
      <4>2. RowOf(i).id < tokOff[p]
        BY <1>9, <2>6, <3>1, <4>1 DEF TicketedAt
      <4>3. RowOf(i).id \in Nat
        BY <1>0, <3>1 DEF Tickets, RowOf, Typed
      <4> QED
        BY <1>9, <2>2, <4>1, <4>2, <4>3
    <3>2. CASE i = <<r, w>>
      <4>1. RowOf(i)' = [pe |-> p, id |-> tokOff[p]]
        BY <1>4, <1>11, <2>5, <2>6, <3>2
      <4> QED
        BY <1>9, <2>2, <4>1
    <3> QED
      BY <2>3, <2>6, <3>1, <3>2
  <2>7. ASSUME NEW id \in 0..(MaxRecv - 1), id < tokOff'[p]
        PROVE  \E i \in Tickets(p)' : RowOf(i)' = [pe |-> p, id |-> id]
    <3>1. CASE id < tokOff[p]
      <4>1. PICK i \in Tickets(p) : RowOf(i) = [pe |-> p, id |-> id]
        BY <1>9, <3>1 DEF TicketedAt
      <4> QED
        BY <2>3, <2>5, <4>1
    <3>2. CASE id = tokOff[p]
      <4>1. tokOff[p] < MaxRecv
        BY <3>2, <1>9, ConstantFacts
      <4>2. tokMap'[r][w] = [pe |-> p, id |-> tokOff[p]]
        BY <1>4, <1>9, <1>11, <4>1, ConstantFacts
      <4> QED
        BY <2>3, <2>5, <3>2, <4>2
    <3>3. id \in Int /\ tokOff[p] \in Int /\ id < tokOff[p] + 1
      BY <1>9, <2>2, <2>7, ConstantFacts
    <3> QED
      BY <3>1, <3>2, <3>3
  <2>8. TicketedAt(p)'
    <3>1. tokOff'[p] = Cardinality(Tickets(p)')
      BY <1>9, <2>2, <2>4 DEF TicketedAt
    <3> QED
      BY <2>6, <2>7, <3>1 DEF TicketedAt
  <2> QED
    BY <2>1, <2>8 DEF Ticketed, TicketedAt
<1> QED
  BY <1>10, <1>11

LEMMA TicketedRewind ==
  ASSUME InTurn, Delivering, NEW r \in Rank, Works(r), Rewind(r)
  PROVE  Ticketed'
<1>0. Typed /\ Ranks /\ Meets /\ Shaped(r)
  BY DEF Delivering, Ranks
<1>1. 0 \in Blocks(r) /\ pc[r][0] = "rewind" /\ tokOff' = [tokOff EXCEPT ![r] = 0] /\ UNCHANGED tokMap
  BY DEF Rewind
<1>2. /\ InDispatch(r) /\ place[r] > 0 /\ place[r] \in Nat /\ place' = place
      /\ \A q \in Rank : place[q] \in Nat /\ place[q] <= place[r] + 1
  BY <1>0, <1>1, KernelOf, PlaceFacts, StreamsStay, Apart DEF BeforeRewind
<1>3. SameItems
  BY RewindView
<1>4. CountRound(r)' = RoundOf(place[r]) + 1
  <2>1. pc'[r][0] \notin BeforeRewind
    <3>1. Turn(r, 0, Then, work[r][0], reg[r][0], todo[r][0])
      BY <1>0, RewindTurn
    <3> QED
      BY <1>1, <3>1 DEF Turn, Then, BeforeRewind, BeforeReceive, BeforeSignal, Claiming
  <2> QED
    BY <2>1, Statics DEF CountRound
<1>5. ASSUME NEW q \in Rank PROVE RoundOf(place[q]) # RoundOf(place[r]) + 1
  <2>1. place[r] % 2 = 1 /\ place[q] \in Nat /\ place[q] <= place[r] + 1
    BY <1>2 DEF InDispatch
  <2>2. (place[q] + 1) \div 2 < (place[r] + 1) \div 2 + 1
    BY <1>2, <2>1
  <2> QED
    BY <1>0, <2>2, PlaceFacts, Rounds
<1>6. Tickets(r)' = {}
  <2>1. ASSUME NEW i \in Tickets(r)' PROVE FALSE
    <3>1. PICK q \in Rank, w \in AllItems : i = <<q, w>>
      BY <2>1 DEF Tickets
    <3> QED
      BY <1>4, <1>5, <2>1, <3>1, TicketIsNext
  <2> QED
    BY <2>1
<1>7. TicketedAt(r)'
  <2>1. tokOff'[r] = 0
    BY <1>0, <1>1 DEF Typed
  <2>2. Cardinality({}) = 0 /\ \A id \in 0..(MaxRecv - 1) : ~(id < 0)
    BY ConstantFacts, FS_EmptySet
  <2> QED
    BY <1>6, <2>1, <2>2 DEF TicketedAt
<1>8. ASSUME NEW p \in Rank, p # r PROVE TicketedAt(p)'
  <2>1. CountRound(p)' = CountRound(p)
    BY <1>0, <1>8, OthersRest, Statics DEF CountRound, Own
  <2>2. Tickets(p)' = Tickets(p)
    BY <1>3, <2>1, TicketsSame DEF SameItems, Claimed
  <2>3. TicketedAt(p) /\ tokOff'[p] = tokOff[p]
    BY <1>0, <1>1, <1>8 DEF Delivering, Ticketed, TicketedAt, Typed
  <2> QED
    BY <1>1, <2>2, <2>3, TicketedSame
<1> QED
  BY <1>7, <1>8 DEF Ticketed, TicketedAt

LEMMA TicketedKeeps ==
  ASSUME InTurn, Delivering, NEW r \in Rank, Works(r)
  PROVE  Ticketed'
<1>1. ASSUME ~Claims(r), ~Rewind(r) PROVE Ticketed'
  <2>1. UNCHANGED tokOff /\ \A p \in Rank : CountRound(p)' = CountRound(p)
    BY <1>1, CounterOr
  <2>2. UNCHANGED tokMap /\ \A q \in Rank : \A w \in Items(q) : Claimed(q, w)' <=> Claimed(q, w)
    BY <1>1, ClaimedStays
  <2>3. ASSUME NEW p \in Rank PROVE TicketedAt(p)'
    <3>1. Tickets(p)' = Tickets(p)
      BY <2>1, <2>2, TicketsSame
    <3>2. TicketedAt(p)
      BY DEF Delivering, Ticketed, TicketedAt
    <3> QED
      BY <2>1, <2>2, <3>1, <3>2, TicketedSame
  <2> QED
    BY <2>3 DEF Ticketed, TicketedAt
<1> QED
  BY <1>1, TicketedClaim, TicketedRewind DEF Claims

-----------------------------------------------------------------------------
(* The map of a rank's items, and the rows.                                *)

\* What Mapped says of one item.
MappedAt(r, w) ==
  /\ Claimed(r, w) =>
       \/ tokMap[r][w] = Dropped
       \/ ~Dup(r, w) /\ tokMap[r][w].pe = Goes(r, w) /\ tokMap[r][w].id < MaxRecv
  /\ Holding(r, w) => tokMap[r][w] # Dropped /\ reg[r][BlockOf(r, w)].row = tokMap[r][w]

LEMMA MappedIs == Mapped <=> \A r \in Rank : place[r] > 0 => \A w \in Items(r) : MappedAt(r, w)
BY DEF Mapped, MappedAt

LEMMA MappedStays ==
  ASSUME NEW s, Works(s), NEW r \in Rank, NEW w, MappedAt(r, w),
         Claimed(r, w)' <=> Claimed(r, w), Holding(r, w)' => Holding(r, w),
         tokMap'[r][w] = tokMap[r][w],
         Holding(r, w) => reg'[r][BlockOf(r, w)] = reg[r][BlockOf(r, w)]
  PROVE  MappedAt(r, w)'
<1>1. /\ BlockOf(r, w)' = BlockOf(r, w) /\ (Dup(r, w)' <=> Dup(r, w)) /\ Goes(r, w)' = Goes(r, w)
  BY Statics
<1> QED
  BY <1>1 DEF MappedAt

LEMMA MappedKeeps ==
  ASSUME InTurn, Delivering, NEW r \in Rank, Works(r)
  PROVE  Mapped'
<1>0. Typed /\ Mapped /\ place' = place /\ \A q \in Rank : Items(q)' = Items(q)
  BY StreamsStay, Statics DEF Delivering
<1> SUFFICES ASSUME NEW q \in Rank, place[q] > 0, NEW v \in Items(q) PROVE MappedAt(q, v)'
  BY <1>0 DEF Mapped, MappedAt
<1>1. MappedAt(q, v)
  BY <1>0, MappedIs
<1>2. CASE Calm
  BY <1>1, <1>2, MappedStays DEF Calm, SameItems, SameRegs, Claimed
<1>3. ASSUME NEW b \in Blocks(r), Publish(r, b) PROVE MappedAt(q, v)'
  <2>1. PICK w : w = work[r][b]
    OBVIOUS
  <2>2. /\ Past(r, w)' /\ ~Holding(r, w)' /\ Holding(r, w) /\ OthersStay(r, w)
        /\ UNCHANGED <<tokMap, reg>>
    BY <1>3, <2>1, PublishItems
  <2> QED
    BY <1>1, <2>2, MappedStays DEF OthersStay, Claimed
<1>4. ASSUME NEW b \in Blocks(r), Claim(r, b) PROVE MappedAt(q, v)'
  <2>1. PICK w : w = work[r][b]
    OBVIOUS
  <2>2. OthersStay(r, w)
    BY <1>4, <2>1, ClaimItems
  <2>3. CASE q # r \/ v # w
    BY <1>1, <2>2, <2>3, MappedStays DEF OthersStay
  <2>4. CASE q = r /\ v = w
    <3>1. PICK p \in Rank : p = Goes(r, w)
      BY <1>4, <2>1, ClaimItems
    <3>2. BlockOf(r, w)' = b /\ (Dup(r, w)' <=> Dup(r, w)) /\ Goes(r, w)' = p
      <4>1. BlockOf(r, w) = b
        BY <1>0, <1>4, <2>1, ClaimCases DEF Delivering
      <4> QED
        BY <3>1, <4>1, Statics
    <3>3. \/ ~Holding(r, w)' /\ tokMap'[r][w] = Dropped
          \/ /\ tokMap'[r][w] = [pe |-> p, id |-> tokOff[p]]
             /\ ~Dup(r, w) /\ tokOff[p] < MaxRecv /\ reg'[r][b].row = tokMap'[r][w]
      <4>1. \/ /\ Past(r, w)' /\ ~Holding(r, w)' /\ tokMap'[r][w] = Dropped
               /\ \/ Dup(r, w) /\ UNCHANGED tokOff
                  \/ /\ ~Dup(r, w) /\ tokOff' = [tokOff EXCEPT ![p] = @ + 1]
                     /\ tokOff[p] >= MaxRecv
            \/ /\ ~Past(r, w)' /\ Holding(r, w)'
               /\ tokMap'[r][w] = [pe |-> p, id |-> tokOff[p]]
               /\ ~Dup(r, w) /\ tokOff' = [tokOff EXCEPT ![p] = @ + 1]
               /\ tokOff[p] < MaxRecv /\ reg'[r][b].row = tokMap'[r][w]
        BY <1>4, <2>1, <3>1, ClaimItems
      <4> QED
        BY <4>1
    <3>4. CASE ~Holding(r, w)' /\ tokMap'[r][w] = Dropped
      BY <2>4, <3>4 DEF MappedAt
    <3>5. CASE /\ tokMap'[r][w] = [pe |-> p, id |-> tokOff[p]]
               /\ ~Dup(r, w) /\ tokOff[p] < MaxRecv /\ reg'[r][b].row = tokMap'[r][w]
      <4>1. tokMap'[r][w] # Dropped
        <5>1. p # World
          BY ConstantFacts
        <5> QED
          BY <3>5, <5>1 DEF Dropped
      <4> QED
        BY <2>4, <3>2, <3>5, <4>1 DEF MappedAt
    <3> QED
      BY <3>3, <3>4, <3>5
  <2> QED
    BY <2>3, <2>4
<1> QED
  BY <1>2, <1>3, <1>4, CalmOr DEF Claims, Publishes

\* The new row of a claim is no other item's.
LEMMA ClaimNew ==
  ASSUME InTurn, Delivering, NEW r \in Rank, Works(r), NEW b \in Blocks(r), Claim(r, b),
         NEW w, w = work[r][b], tokMap'[r][w] # Dropped,
         NEW q \in Rank, place[q] > 0, RoundOf(place[q]) = RoundOf(place[r]), NEW v \in Items(q), Claimed(q, v)
  PROVE  tokMap[q][v] # tokMap'[r][w]
<1>0. Typed /\ Ranks /\ Meets /\ Mapped /\ Ticketed
  BY DEF Delivering
<1>1. PICK p \in Rank : p = Goes(r, w)
  BY ClaimItems
<1>2. tokMap'[r][w] = [pe |-> p, id |-> tokOff[p]] /\ InDispatch(r)
  BY <1>1, ClaimItems
<1>3. CountRound(p) = RoundOf(place[r])
  <2>1. pc[r][b] = "claim"
    BY DEF Claim
  <2> QED
    BY <1>0, <2>1, ClaimFirst, ClaimRound DEF Claiming
<1>4. SUFFICES ASSUME tokMap[q][v] = [pe |-> p, id |-> tokOff[p]] PROVE FALSE
  BY <1>2
<1>5. tokMap[q][v] # Dropped
  BY <1>2, <1>4
<1>6. ~Dup(q, v) /\ Goes(q, v) = p
  <2>1. MappedAt(q, v)
    BY <1>0, MappedIs
  <2> QED
    BY <1>4, <1>5, <2>1 DEF MappedAt
<1>7. v \in AllItems
  BY <1>0, ItemsFit
<1>8. <<q, v>> \in Tickets(p)
  BY <1>3, <1>6, <1>7, TicketIs
<1>9. RowOf(<<q, v>>) = [pe |-> p, id |-> tokOff[p]]
  BY <1>4 DEF RowOf
<1>10. tokOff[p] < tokOff[p] /\ tokOff[p] \in Nat
  <2>1. tokOff[p] \in Nat
    BY <1>0 DEF Typed
  <2>2. RowOf(<<q, v>>) # Dropped /\ RowOf(<<q, v>>).id = tokOff[p]
    BY <1>4, <1>5, <1>9
  <2>3. TicketedAt(p)
    BY <1>0 DEF Ticketed, TicketedAt
  <2>4. RowOf(<<q, v>>).id < tokOff[p]
    BY <1>8, <2>2, <2>3 DEF TicketedAt
  <2> QED
    BY <2>1, <2>2, <2>4
<1> QED
  BY <1>10

LEMMA UniqueKeeps ==
  ASSUME InTurn, Delivering, NEW r \in Rank, Works(r)
  PROVE  Unique'
<1>0. Unique /\ place' = place
      /\ \A q \in Rank : Items(q)' = Items(q) /\ RoundOf(place[q])' = RoundOf(place[q])
  BY StreamsStay, Statics DEF Delivering
<1>1. CASE ~Claims(r)
  <2>1. UNCHANGED tokMap /\ \A q \in Rank : \A w \in Items(q) : Claimed(q, w)' <=> Claimed(q, w)
    BY <1>1, ClaimedStays
  <2> QED
    BY <1>0, <2>1 DEF Unique
<1>2. ASSUME NEW b \in Blocks(r), Claim(r, b) PROVE Unique'
  <2>1. PICK w : w = work[r][b]
    OBVIOUS
  <2>2. OthersStay(r, w)
    BY <1>2, <2>1, ClaimItems
  <2>3. SUFFICES ASSUME NEW s \in Rank, NEW q \in Rank, place[s] > 0, place[q] > 0,
                        RoundOf(place[s]) = RoundOf(place[q]), NEW u \in Items(s), NEW v \in Items(q),
                        Claimed(s, u)', Claimed(q, v)', tokMap'[s][u] = tokMap'[q][v], tokMap'[s][u] # Dropped
                 PROVE  s = q /\ u = v
    BY <1>0 DEF Unique
  <2>4. CASE (s # r \/ u # w) /\ (q # r \/ v # w)
    <3>1. /\ Claimed(s, u) /\ Claimed(q, v)
          /\ tokMap'[s][u] = tokMap[s][u] /\ tokMap'[q][v] = tokMap[q][v]
      BY <2>2, <2>3, <2>4 DEF OthersStay
    <3> QED
      BY <1>0, <2>3, <3>1 DEF Unique
  <2>5. CASE s = r /\ u = w /\ (q # r \/ v # w)
    <3>1. Claimed(q, v) /\ tokMap'[q][v] = tokMap[q][v]
      BY <2>2, <2>3, <2>5 DEF OthersStay
    <3> QED
      BY <1>2, <2>1, <2>3, <2>5, <3>1, ClaimNew
  <2>6. CASE q = r /\ v = w /\ (s # r \/ u # w)
    <3>1. Claimed(s, u) /\ tokMap'[s][u] = tokMap[s][u]
      BY <2>2, <2>3, <2>6 DEF OthersStay
    <3> QED
      BY <1>2, <2>1, <2>3, <2>6, <3>1, ClaimNew
  <2> QED
    BY <2>4, <2>5, <2>6
<1> QED
  BY <1>1, <1>2 DEF Claims

\* A row that is written is no other item's of this round, and no rank is a
\* round ahead.
LEMMA FilledKeeps ==
  ASSUME InTurn, Delivering, NEW r \in Rank, Works(r)
  PROVE  Filled'
<1>0. /\ Filled /\ place' = place /\ Typed /\ Meets
      /\ \A q \in Rank : /\ Items(q)' = Items(q) /\ RoundOf(place[q])' = RoundOf(place[q])
                         /\ \A w : Sends(q, w)' = Sends(q, w)
  BY StreamsStay, Statics DEF Delivering
<1>1. SUFFICES ASSUME NEW q \in Rank, place[q] > 0, \A s \in Rank : RoundOf(place[s]) <= RoundOf(place[q]),
                      NEW v \in Items(q), Past(q, v)', tokMap'[q][v] # Dropped
               PROVE  recvTok'[tokMap'[q][v].pe][tokMap'[q][v].id] = Sends(q, v)
  BY <1>0 DEF Filled
<1>2. CASE Calm
  BY <1>0, <1>1, <1>2 DEF Calm, SameItems, Filled
<1>3. ASSUME NEW b \in Blocks(r), Claim(r, b)
      PROVE  recvTok'[tokMap'[q][v].pe][tokMap'[q][v].id] = Sends(q, v)
  <2>1. PICK w : w = work[r][b]
    OBVIOUS
  <2>2. OthersStay(r, w) /\ (~Past(r, w)' \/ tokMap'[r][w] = Dropped)
    <3>1. OthersStay(r, w)
      BY <1>3, <2>1, ClaimItems
    <3>2. ~Past(r, w)' \/ tokMap'[r][w] = Dropped
      BY <1>3, <2>1, ClaimItems, Zenon
    <3> QED
      BY <3>1, <3>2
  <2>3. Past(q, v) /\ tokMap'[q][v] = tokMap[q][v] /\ recvTok' = recvTok
    BY <1>1, <1>3, <2>2 DEF OthersStay, Claim
  <2> QED
    BY <1>0, <1>1, <2>3 DEF Filled
<1>4. ASSUME NEW b \in Blocks(r), Publish(r, b)
      PROVE  recvTok'[tokMap'[q][v].pe][tokMap'[q][v].id] = Sends(q, v)
  <2>1. PICK w : w = work[r][b]
    OBVIOUS
  <2>2. OthersStay(r, w) /\ UNCHANGED tokMap /\ Holding(r, w)
    BY <1>4, <2>1, PublishItems
  <2>3. PICK p \in Rank, id \in 0..(MaxRecv - 1) : tokMap[r][w] = [pe |-> p, id |-> id]
    <3>1. w \in Items(r) /\ Goes(r, w) \in Rank /\ tokMap[r][w].pe = Goes(r, w)
          /\ tokMap[r][w].id \in 0..(MaxRecv - 1)
      BY <1>4, <2>1, PublishFacts
    <3>2. tokMap[r][w] \in [pe : 0..World, id : Nat]
      <4>1. w \in AllItems
        BY <1>0, <1>4, <3>1, ItemsFit, Onward
      <4> QED
        BY <1>0, <4>1 DEF Typed
    <3> QED
      BY <3>1, <3>2
  <2>4. /\ w \in Items(r) /\ InDispatch(r) /\ tokMap[r][w] # Dropped
        /\ recvTok' = [recvTok EXCEPT ![p][id] = Sends(r, w)]
    <3>1. /\ w \in Items(r) /\ InDispatch(r) /\ tokMap[r][w] # Dropped /\ tokMap[r][w].pe = Goes(r, w)
          /\ recvTok' = [recvTok EXCEPT ![Goes(r, w)][tokMap[r][w].id] = Sends(r, w)]
      BY <1>4, <2>1, PublishFacts
    <3> QED
      BY <2>3, <3>1
  <2>5. DOMAIN recvTok = Rank /\ DOMAIN recvTok[p] = 0..(MaxRecv - 1)
    BY <1>0 DEF Typed
  <2>6. CASE q = r /\ v = w
    BY <2>2, <2>3, <2>4, <2>5, <2>6
  <2>7. CASE q # r \/ v # w
    <3>1. Past(q, v) /\ tokMap[q][v] # Dropped /\ tokMap'[q][v] = tokMap[q][v]
      BY <1>1, <2>2, <2>7 DEF OthersStay
    <3>2. recvTok[tokMap[q][v].pe][tokMap[q][v].id] = Sends(q, v)
      BY <1>0, <1>1, <3>1 DEF Filled
    <3>3. place[r] > 0 /\ RoundOf(place[r]) = RoundOf(place[q])
      <4>1. /\ place[r] \in Nat /\ place[q] \in Nat /\ place[r] > 0 /\ place[q] <= place[r] + 1
            /\ place[r] % 2 = 1
        BY <1>0, <2>4, PlaceFacts, Apart DEF InDispatch
      <4>2. RoundOf(place[r]) = (place[r] + 1) \div 2 /\ RoundOf(place[q]) = (place[q] + 1) \div 2
        BY <1>0, PlaceFacts, Rounds
      <4>3. (place[q] + 1) \div 2 <= (place[r] + 1) \div 2
        BY <4>1
      <4>4. RoundOf(place[r]) <= RoundOf(place[q])
        BY <1>1
      <4>5. (place[r] + 1) \div 2 \in Int /\ (place[q] + 1) \div 2 \in Int
        BY <4>1
      <4> QED
        BY <4>1, <4>2, <4>3, <4>4, <4>5
    <3>4. tokMap[q][v] # tokMap[r][w]
      <4>1. Unique
        BY DEF Delivering
      <4> QED
        BY <1>1, <2>2, <2>4, <2>7, <3>1, <3>3, <4>1 DEF Unique, Claimed
    <3>5. tokMap[q][v].pe # p \/ tokMap[q][v].id # id
      <4>1. tokMap[q][v] \in [pe : 0..World, id : Nat]
        <5>1. v \in AllItems
          BY <1>0, <1>1, ItemsFit
        <5> QED
          BY <1>0, <5>1 DEF Typed
      <4> QED
        BY <2>3, <3>4, <4>1
    <3>6. recvTok'[tokMap[q][v].pe][tokMap[q][v].id] = recvTok[tokMap[q][v].pe][tokMap[q][v].id]
      <4>1. tokMap[q][v].pe \in Rank /\ tokMap[q][v].id \in 0..(MaxRecv - 1)
        <5>1. MappedAt(q, v)
          BY <1>1, MappedIs DEF Delivering
        <5>2. tokMap[q][v].pe = Goes(q, v) /\ tokMap[q][v].id < MaxRecv
          BY <3>1, <5>1 DEF MappedAt, Claimed
        <5>3. v \in AllItems /\ Goes(q, v) \in Rank
          BY <1>0, <1>1, ItemsFit
        <5>4. tokMap[q][v].id \in Nat
          BY <1>0, <5>3 DEF Typed
        <5> QED
          BY <5>2, <5>3, <5>4, ConstantFacts
      <4>2. DOMAIN recvTok[tokMap[q][v].pe] = 0..(MaxRecv - 1)
        BY <1>0, <4>1 DEF Typed
      <4> QED
        BY <2>4, <2>5, <3>5, <4>1, <4>2
    <3> QED
      BY <3>1, <3>2, <3>6
  <2> QED
    BY <2>6, <2>7
<1> QED
  BY <1>2, <1>3, <1>4, CalmOr DEF Claims, Publishes

-----------------------------------------------------------------------------
(* Ranks that hold all counts: the others are through with the round.      *)

LEMMA AllPast ==
  ASSUME InTurn, Typed, Ranks, NEW q \in Rank, place[q] > 0, pc[q][0] \notin BeforeSignal
  PROVE  \A w \in Items(q) : Past(q, w)
<1>0. Shaped(q) /\ Barriers(q) /\ 0 \in Blocks(q) /\ (InDispatch(q) \/ InCombine(q))
  BY PlaceFacts DEF Ranks
<1>1. ASSUME NEW c \in Blocks(q) PROVE pc[q][c] \notin Claiming
  <2>1. CASE InDispatch(q)
    BY <1>0, <2>1 DEF Barriers, Beyond
  <2>2. CASE InCombine(q)
    BY <1>0, <2>2, KernelOf DEF CombinePlace, BeforeSum, BeforePost, Scattering, Claiming
  <2> QED
    BY <1>0, <2>1, <2>2
<1>2. \A w \in Items(q) : BlockOf(q, w) \in Blocks(q)
  BY <1>0, ItemsFit, Onward
<1> QED
  BY <1>1, <1>2 DEF Past, Through

LEMMA Abreast ==
  ASSUME InTurn, Typed, Ranks, Meets, NEW p \in Rank, NEW q \in Rank, InDispatch(p), SentAt(q, p, place[p])
  PROVE  place[q] > 0 /\ RoundOf(place[q]) = RoundOf(place[p]) /\ \A w \in Items(q) : Past(q, w)
<1>1. place[p] \in Nat /\ place[p] > 0 /\ place[p] % 2 = 1 /\ place[q] \in Nat /\ place[q] <= place[p] + 1
  BY PlaceFacts, Apart DEF InDispatch
<1>2. CASE place[q] = place[p]
  <2>1. pc[q][0] \notin BeforeSignal
    BY <1>1, <1>2 DEF SentAt, Sent
  <2> QED
    BY <1>1, <1>2, <2>1, AllPast
<1>3. CASE place[q] = place[p] + 1
  <2>1. place[q] % 2 = 0 /\ (place[q] + 1) \div 2 = (place[p] + 1) \div 2
    BY <1>1, <1>3
  <2>2. RoundOf(place[q]) = (place[q] + 1) \div 2 /\ RoundOf(place[p]) = (place[p] + 1) \div 2
    BY PlaceFacts, Rounds
  <2>3. InCombine(q) /\ Shaped(q) /\ 0 \in Blocks(q)
    <3>1. place[q] > 0
      BY <1>1, <1>3
    <3> QED
      BY <2>1, <3>1, PlaceFacts DEF InCombine, Ranks
  <2>4. pc[q][0] \notin BeforeSignal
    BY <2>3, KernelOf DEF CombinePlace, BeforeSum, BeforePost, Scattering, BeforeSignal, Claiming
  <2> QED
    BY <1>1, <1>3, <2>1, <2>2, <2>4, AllPast
<1> QED
  BY <1>1, <1>2, <1>3 DEF SentAt

LEMMA Settled ==
  ASSUME InTurn, Typed, Ranks, Meets, NEW p \in Rank, Holds(p), NEW q \in Rank
  PROVE  place[q] > 0 /\ RoundOf(place[q]) = RoundOf(place[p]) /\ \A w \in Items(q) : Past(q, w)
<1>1. CASE InDispatch(p)
  <2>1. place[p] > 0 /\ Got(p, q)
    BY <1>1, PlaceFacts DEF Holds, Got
  <2>2. SentAt(q, p, place[p])
    BY <2>1 DEF Meets
  <2> QED
    BY <1>1, <2>2, Abreast
<1>2. CASE ~InDispatch(p)
  <2>1. place[p] > 0 /\ InCombine(p) /\ place[p] \in Nat /\ place[q] \in Nat /\ pc[p][0] \in BeforePost
    BY <1>2, PlaceFacts DEF Holds
  <2>2. place[p] % 2 = 0 /\ place[p] > 1
    BY <2>1 DEF InCombine
  <2>3. SentAt(q, p, place[p] - 1)
    BY <2>1, <2>2 DEF Meets
  <2>4. place[q] <= place[p]
    <3>1. ~Sent(p, q)
      BY <2>1 DEF Sent
    <3> QED
      BY <2>1, <3>1, NotYet
  <2>5. CASE place[q] = place[p]
    <3>1. InCombine(q) /\ place[q] > 0 /\ Shaped(q) /\ 0 \in Blocks(q)
      BY <2>1, <2>5, PlaceFacts DEF InCombine, Ranks
    <3>2. pc[q][0] \notin BeforeSignal
      BY <3>1, KernelOf DEF CombinePlace, BeforeSum, BeforePost, Scattering, BeforeSignal, Claiming
    <3> QED
      BY <2>5, <3>1, <3>2, AllPast
  <2>6. CASE place[q] = place[p] - 1
    <3>1. Sent(q, p)
      BY <2>1, <2>3, <2>6 DEF SentAt
    <3>2. place[q] > 0 /\ pc[q][0] \notin BeforeSignal
      BY <2>1, <2>2, <2>6, <3>1 DEF Sent
    <3>3. RoundOf(place[q]) = (place[q] + 1) \div 2 /\ RoundOf(place[p]) = (place[p] + 1) \div 2
      BY PlaceFacts, Rounds
    <3>4. (place[q] + 1) \div 2 = (place[p] + 1) \div 2
      BY <2>1, <2>2, <2>6
    <3> QED
      BY <3>2, <3>3, <3>4, AllPast
  <2> QED
    BY <2>1, <2>3, <2>4, <2>5, <2>6 DEF SentAt
<1> QED
  BY <1>1, <1>2

-----------------------------------------------------------------------------
(* What a rank receives.                                                   *)

\* One item of each routed token takes a row.
LEMMA TicketsRouted ==
  ASSUME InTurn, Delivering, NEW p \in Rank, NEW n \in Round, n > 0, CountRound(p) = n,
         \A q \in Rank : place[q] > 0 /\ RoundOf(place[q]) = n /\ \A w \in Items(q) : Past(q, w)
  PROVE  Cardinality(Tickets(p)) = Cardinality(Routed(n, p))
<1>0. Typed
  BY DEF Delivering
<1> DEFINE T == Tickets(p)
           R == Routed(n, p)
           x(i) == [round |-> n, src |-> i[1], tok |-> TokOf(i[2])]
           f == [i \in T |-> x(i)]
<1>1. ASSUME NEW i \in T
      PROVE  /\ i[1] \in Rank /\ i[2] \in Items(i[1]) /\ i[2] \in AllItems /\ i = <<i[1], i[2]>>
             /\ ~Dup(i[1], i[2]) /\ Goes(i[1], i[2]) = p
  BY DEF Tickets
<1>2. \A q \in Rank : Tokens(q) = route[n][q]
  BY DEF Tokens
<1>3. ASSUME NEW i \in T PROVE x(i) \in R
  <2>1. PICK q, w : q \in Rank /\ w \in Items(q) /\ i = <<q, w>> /\ Goes(q, w) = p
    BY <1>1
  <2>2. TokOf(w) \in 1..Len(Tokens(q)) /\ SlotOf(w) \in KSlot /\ Len(Tokens(q)) \in 0..MaxTok
    BY <1>0, <2>1, ItemsFit
  <2>3. TokOf(w) \in 1..MaxTok /\ TokOf(w) <= Len(route[n][q])
    <3>1. Len(Tokens(q)) = Len(route[n][q])
      BY <1>2, <2>1
    <3>2. TokOf(w) \in 1..MaxTok /\ TokOf(w) <= Len(Tokens(q))
      BY <2>2, ConstantFacts
    <3> QED
      BY <3>1, <3>2
  <2>4. Owner(Experts(x(i))[SlotOf(w)]) = p
    BY <1>2, <2>1 DEF Goes, Experts
  <2> QED
    BY <2>1, <2>2, <2>3, <2>4 DEF Routed
<1>4. ASSUME NEW i \in T, NEW j \in T, x(i) = x(j) PROVE i = j
  <2>1. PICK q, w : q \in Rank /\ w \in Items(q) /\ i = <<q, w>> /\ ~Dup(q, w) /\ Goes(q, w) = p
    BY <1>1
  <2>2. PICK s, v : s \in Rank /\ v \in Items(s) /\ j = <<s, v>> /\ ~Dup(s, v) /\ Goes(s, v) = p
    BY <1>1
  <2>3. s = q /\ TokOf(w) = TokOf(v)
    BY <1>4, <2>1, <2>2
  <2>4. w = v
    BY <1>0, <2>1, <2>2, <2>3, ItemsDiffer
  <2> QED
    BY <2>1, <2>2, <2>3, <2>4
<1>5. ASSUME NEW y \in R PROVE \E i \in T : x(i) = y
  <2>1. /\ y.src \in Rank /\ y.tok \in 1..Len(route[n][y.src]) /\ y = [round |-> n, src |-> y.src, tok |-> y.tok]
        /\ \E k \in KSlot : Owner(route[n][y.src][y.tok][k]) = p
    <3>1. /\ y \in [round : {n}, src : Rank, tok : 1..MaxTok] /\ y.tok <= Len(route[n][y.src])
          /\ \E k \in KSlot : Owner(Experts(y)[k]) = p
      BY DEF Routed
    <3>2. Len(route[n][y.src]) \in Nat /\ y.tok \in Nat /\ y.tok >= 1
      BY <1>0, <3>1, RouteFacts, ConstantFacts
    <3> QED
      BY <3>1, <3>2 DEF Experts
  <2>2. PICK q \in Rank : q = y.src
    BY <2>1
  <2>3. PICK t \in 1..Len(Tokens(q)) : t = y.tok
    BY <1>2, <2>1, <2>2
  <2> DEFINE K == {k \in KSlot : Owner(Tokens(q)[t][k]) = p}
  <2>4. K # {} /\ K \subseteq Nat
    <3>1. PICK k \in KSlot : Owner(route[n][q][t][k]) = p
      BY <2>1, <2>2, <2>3
    <3>2. Tokens(q) = route[n][q]
      BY <1>2
    <3>3. KSlot \subseteq Nat
      BY ConstantFacts DEF KSlot
    <3> QED
      BY <3>1, <3>2, <3>3
  <2>5. PICK k \in K : \A j \in K : k <= j
    BY <2>4, LeastOf
  <2>6. k \in KSlot /\ Owner(Tokens(q)[t][k]) = p
    BY <2>5
  <2>7. Len(Tokens(q)) \in Nat /\ t - 1 \in 0..(Len(Tokens(q)) - 1) /\ t \in Nat
    BY <1>0, <2>3, ItemsFit
  <2>8. PICK w : w = (t - 1) * TopK + k
    OBVIOUS
  <2>9. w \in Items(q) /\ TokOf(w) = t /\ SlotOf(w) = k
    <3>1. TokOf(w) = t - 1 + 1
      BY <2>6, <2>7, <2>8, ItemIs
    <3>2. w \in Items(q) /\ SlotOf(w) = k
      BY <2>6, <2>7, <2>8, ItemIs DEF Items
    <3> QED
      BY <2>7, <3>1, <3>2
  <2>10. Goes(q, w) = p
    BY <2>6, <2>9 DEF Goes
  <2>11. ~Dup(q, w)
    <3>1. SUFFICES ASSUME NEW j \in KSlot, j < k, Owner(Tokens(q)[t][j]) = p PROVE FALSE
      BY <2>6, <2>9 DEF Dup
    <3>2. k <= j /\ k \in Nat /\ j \in Nat
      BY <2>4, <2>5, <3>1
    <3> QED
      BY <3>1, <3>2
  <2>12. <<q, w>> \in T
    <3>1. w \in AllItems /\ Claimed(q, w)
      BY <1>0, <2>9, ItemsFit DEF Claimed
    <3> QED
      BY <2>9, <2>10, <2>11, <3>1, TicketIs
  <2>13. x(<<q, w>>) = y
    BY <2>1, <2>2, <2>3, <2>9
  <2> QED
    BY <2>12, <2>13
<1>6. f \in Bijection(T, R)
  <2>1. f \in [T -> R]
    BY <1>3
  <2>2. \A i, j \in T : f[i] = f[j] => i = j
    BY <1>4
  <2>3. \A y \in R : \E i \in T : f[i] = y
    BY <1>5
  <2> HIDE DEF f, T, R
  <2> QED
    BY <2>1, <2>2, <2>3, Fun_IsBij
<1>7. IsFiniteSet(T)
  BY <1>0, TicketsFinite
<1> HIDE DEF f, T, R
<1>8. ExistsBijection(T, R)
  BY <1>6 DEF ExistsBijection
<1>9. Cardinality(R) = Cardinality(T)
  BY <1>7, <1>8, FS_Bijection
<1> QED
  BY <1>9 DEF T, R

\* Sets numbered one by one are counted together.
LEMMA PairsCount ==
  ASSUME NEW I, NEW U, IsFiniteSet(I), IsFiniteSet(U), NEW S \in [I -> SUBSET U]
  PROVE  Cardinality({x \in I \X U : x[2] \in S[x[1]]})
           = Cardinality(UNION {{i} \X (1..Cardinality(S[i])) : i \in I})
<1> DEFINE P == {x \in I \X U : x[2] \in S[x[1]]}
           A == UNION {{i} \X (1..Cardinality(S[i])) : i \in I}
           b == [i \in I |-> CHOOSE f : f \in Bijection(S[i], 1..Cardinality(S[i]))]
           g == [x \in P |-> <<x[1], b[x[1]][x[2]]>>]
<1>1. ASSUME NEW i \in I PROVE b[i] \in Bijection(S[i], 1..Cardinality(S[i]))
  <2>1. IsFiniteSet(S[i])
    BY FS_Subset
  <2>2. ExistsBijection(S[i], 1..Cardinality(S[i]))
    BY <2>1, FS_CardinalityType, Fun_ExistsBijSymmetric
  <2>3. \E f : f \in Bijection(S[i], 1..Cardinality(S[i]))
    BY <2>2 DEF ExistsBijection
  <2> QED
    BY <2>3
<1>2. ASSUME NEW i \in I
      PROVE  /\ \A u \in S[i] : b[i][u] \in 1..Cardinality(S[i])
             /\ \A u, v \in S[i] : b[i][u] = b[i][v] => u = v
             /\ \A k \in 1..Cardinality(S[i]) : \E u \in S[i] : b[i][u] = k
  <2> HIDE DEF b
  <2> DEFINE n == Cardinality(S[i])
  <2>1. b[i] \in Bijection(S[i], 1..n)
    BY <1>1
  <2>2. b[i] \in [S[i] -> 1..n] /\ b[i] \in Surjection(S[i], 1..n)
        /\ \A u, v \in S[i] : b[i][u] = b[i][v] => u = v
    <3> HIDE DEF n
    <3>1. PICK f : f = b[i]
      OBVIOUS
    <3>2. f \in Bijection(S[i], 1..n)
      BY <2>1, <3>1
    <3>3. f \in [S[i] -> 1..n] /\ f \in Surjection(S[i], 1..n)
      BY <3>2, Fun_BijectionProperties, Zenon
    <3>4. \A u, v \in S[i] : f[u] = f[v] => u = v
      BY <3>2, <3>3 DEF Bijection, Injection, IsInjective
    <3> QED
      BY <3>1, <3>3, <3>4
  <2>3. \A k \in 1..n : \E u \in S[i] : b[i][u] = k
    BY <2>2 DEF Surjection
  <2> QED
    BY <2>2, <2>3
<1> HIDE DEF b
<1>3. g \in [P -> A]
  <2>1. ASSUME NEW x \in P PROVE <<x[1], b[x[1]][x[2]]>> \in A
    <3>1. x[1] \in I /\ b[x[1]][x[2]] \in 1..Cardinality(S[x[1]])
      BY <1>2
    <3> QED
      BY <3>1
  <2> QED
    BY <2>1
<1>4. ASSUME NEW x \in P, NEW y \in P, g[x] = g[y] PROVE x = y
  <2>1. /\ x = <<x[1], x[2]>> /\ y = <<y[1], y[2]>>
        /\ x[1] \in I /\ x[2] \in S[x[1]] /\ y[1] \in I /\ y[2] \in S[y[1]]
    OBVIOUS
  <2>2. x[1] = y[1] /\ b[x[1]][x[2]] = b[y[1]][y[2]]
    BY <1>4
  <2>3. x[2] = y[2]
    BY <1>2, <2>1, <2>2
  <2> QED
    BY <2>1, <2>2, <2>3
<1>5. ASSUME NEW a \in A PROVE \E x \in P : g[x] = a
  <2>1. PICK i \in I : a \in {i} \X (1..Cardinality(S[i]))
    OBVIOUS
  <2>2. PICK u \in S[i] : b[i][u] = a[2]
    BY <1>2, <2>1
  <2>3. <<i, u>> \in P /\ a = <<i, a[2]>>
    BY <2>1, <2>2
  <2> QED
    BY <2>2, <2>3
<1>6. IsFiniteSet(P)
  <2>1. IsFiniteSet(I \X U)
    BY FS_Product
  <2> QED
    BY <2>1, FS_Subset
<1> HIDE DEF P, A, g
<1>7. g \in Bijection(P, A)
  BY <1>3, <1>4, <1>5, Fun_IsBij
<1>8. ExistsBijection(P, A)
  BY <1>7 DEF ExistsBijection
<1>9. Cardinality(A) = Cardinality(P)
  BY <1>6, <1>8, FS_Bijection
<1> QED
  BY <1>9 DEF A, P

\* A rank that has all counts has counted a row for each token routed to it,
\* or as many as it has rows.
LEMMA ReceiveCounts ==
  ASSUME InTurn, Delivering, NEW r \in Rank, Receive(r)
  PROVE  /\ Cardinality(Counted(r)) = Received(r)
         /\ \A q \in Rank : place[q] > 0 /\ RoundOf(place[q]) = RoundOf(place[r]) /\ \A w \in Items(q) : Past(q, w)
         /\ CountRound(r) = RoundOf(place[r]) /\ tokOff[r] = Cardinality(Routed(RoundOf(place[r]), r))
<1>0. Typed /\ Ranks /\ Meets /\ Ticketed /\ Mapped /\ Unique /\ Counts /\ Shaped(r)
  BY DEF Delivering, Ranks
<1> DEFINE n == RoundOf(place[r])
<1>1. 0 \in Blocks(r) /\ pc[r][0] = "receive" /\ \A q \in Rank : recvNum[r][q] > 0
  BY DEF Receive
<1>2. InDispatch(r) /\ place[r] > 0 /\ n \in Round /\ n \in Nat /\ n > 0
  <2>1. InDispatch(r) /\ place[r] > 0
    BY <1>0, <1>1, KernelOf DEF BeforeRewind, BeforeReceive
  <2> QED
    BY <1>0, <2>1, PlaceFacts
<1>3. ASSUME NEW q \in Rank
      PROVE  /\ place[q] > 0 /\ RoundOf(place[q]) = n /\ (\A w \in Items(q) : Past(q, w))
             /\ recvNum[r][q] - 1 = Cardinality(RowsAt(q, r)) /\ Pending(q, r)
  <2>1. Pending(q, r) /\ SentAt(q, r, place[r])
    BY <1>1, <1>2, CountSent
  <2>2. place[q] > 0 /\ RoundOf(place[q]) = n /\ \A w \in Items(q) : Past(q, w)
    BY <1>0, <1>2, <2>1, Abreast
  <2>3. recvNum[r][q] = Cardinality(RowsAt(q, r)) + 1 /\ Cardinality(RowsAt(q, r)) \in Nat
    BY <1>0, <2>1, <2>2, RowsFinite DEF Counts
  <2> QED
    BY <2>1, <2>2, <2>3
<1>4. CountRound(r) = n
  BY <1>1, <1>2 DEF CountRound, BeforeRewind, BeforeReceive
<1>5. tokOff[r] = Cardinality(Routed(n, r))
  <2>1. tokOff[r] = Cardinality(Tickets(r))
    BY <1>0 DEF Ticketed
  <2> QED
    BY <1>2, <1>3, <1>4, <2>1, TicketsRouted
<1>6. Received(r) \in Nat /\ tokOff[r] \in Nat
      /\ \A i \in Nat : i < Received(r) <=> i < MaxRecv /\ i < tokOff[r]
  <2>1. tokOff[r] \in Nat /\ MaxRecv \in Nat
    BY <1>0, ConstantFacts DEF Typed
  <2>2. Received(r) = IF MaxRecv < tokOff[r] THEN MaxRecv ELSE tokOff[r]
    BY <1>5 DEF Received, Least
  <2> QED
    BY <2>1, <2>2
<1> DEFINE I == Rank
           S == [q \in Rank |-> RowsAt(q, r)]
           P == {x \in Rank \X AllItems : x[2] \in S[x[1]]}
           D == 0..(Received(r) - 1)
           f == [x \in P |-> RowOf(x).id]
<1>7. IsFiniteSet(Rank) /\ IsFiniteSet(AllItems)
  <2>1. MaxTok * TopK - 1 \in Int /\ World - 1 \in Int
    BY ConstantFacts
  <2> QED
    BY <2>1, FS_Interval DEF Rank, AllItems
<1>8. S \in [Rank -> SUBSET AllItems]
  BY <1>0, <1>3, RowsFinite, ItemsFit
<1>9. Cardinality(Counted(r)) = Cardinality(P)
  <2>1. Cardinality(P) = Cardinality(UNION {{q} \X (1..Cardinality(S[q])) : q \in Rank})
    <3> HIDE DEF S
    <3> QED
      BY <1>7, <1>8, PairsCount
  <2>2. \A q \in Rank : Cardinality(S[q]) = recvNum[r][q] - 1
    BY <1>3
  <2>3. Counted(r) = UNION {{q} \X (1..Cardinality(S[q])) : q \in Rank}
    <3> HIDE DEF S
    <3> QED
      BY <2>2 DEF Counted
  <2> QED
    BY <2>1, <2>3
<1>10. ASSUME NEW x \in P
       PROVE  /\ x = <<x[1], x[2]>> /\ x[1] \in Rank /\ x[2] \in Items(x[1]) /\ x[2] \in AllItems
              /\ Claimed(x[1], x[2]) /\ RowOf(x) # Dropped /\ x \in Tickets(r)
              /\ RowOf(x) = [pe |-> r, id |-> RowOf(x).id] /\ RowOf(x).id \in D
  <2>1. PICK q, w : q \in Rank /\ w \in AllItems /\ x = <<q, w>> /\ w \in RowsAt(q, r)
    OBVIOUS
  <2>2. w \in Items(q) /\ Claimed(q, w) /\ tokMap[q][w].pe = r
    BY <2>1 DEF RowsAt, Claimed
  <2>3. tokMap[q][w] # Dropped
    BY <2>2, ConstantFacts DEF Dropped
  <2>4. MappedAt(q, w)
    BY <1>0, <1>3, <2>1, <2>2, MappedIs
  <2>5. ~Dup(q, w) /\ Goes(q, w) = r /\ tokMap[q][w].id < MaxRecv
    BY <2>2, <2>3, <2>4 DEF MappedAt
  <2>6. x \in Tickets(r)
    BY <1>3, <1>4, <2>1, <2>2, <2>5, TicketIs
  <2>7. RowOf(x) = tokMap[q][w] /\ RowOf(x) \in [pe : 0..World, id : Nat]
    BY <1>0, <2>1 DEF RowOf, Typed
  <2>8. RowOf(x).id < tokOff[r]
    BY <1>0, <2>3, <2>6, <2>7 DEF Ticketed
  <2>9. RowOf(x).id \in D
    BY <1>6, <2>5, <2>7, <2>8
  <2> QED
    BY <2>1, <2>2, <2>3, <2>6, <2>7, <2>9
<1>11. f \in [P -> D]
  BY <1>10
<1>12. ASSUME NEW x \in P, NEW y \in P, f[x] = f[y] PROVE x = y
  <2>1. RowOf(x).id = RowOf(y).id
    BY <1>12
  <2>2. RowOf(x) = RowOf(y)
    BY <1>10, <2>1
  <2>3. tokMap[x[1]][x[2]] = tokMap[y[1]][y[2]] /\ tokMap[x[1]][x[2]] # Dropped
    BY <1>10, <2>2 DEF RowOf
  <2>4. x[1] \in Rank /\ x[2] \in Items(x[1]) /\ Claimed(x[1], x[2])
    BY <1>10
  <2>5. y[1] \in Rank /\ y[2] \in Items(y[1]) /\ Claimed(y[1], y[2])
    BY <1>10
  <2>6. x[1] = y[1] /\ x[2] = y[2]
    BY <1>0, <1>3, <2>3, <2>4, <2>5 DEF Unique
  <2> QED
    BY <1>10, <2>6
<1>13. ASSUME NEW i \in D PROVE \E x \in P : f[x] = i
  <2>1. i \in 0..(MaxRecv - 1) /\ i < tokOff[r]
    BY <1>6, ConstantFacts
  <2>2. PICK x \in Tickets(r) : RowOf(x) = [pe |-> r, id |-> i]
    BY <1>0, <2>1 DEF Ticketed
  <2>3. PICK q, w : q \in Rank /\ w \in AllItems /\ x = <<q, w>> /\ w \in Items(q)
    BY <2>2 DEF Tickets
  <2>4. w \in RowsAt(q, r)
    <3>1. tokMap[q][w] = [pe |-> r, id |-> i]
      BY <2>2, <2>3 DEF RowOf
    <3>2. Past(q, w) /\ tokMap[q][w].pe = r
      BY <1>3, <2>3, <3>1
    <3> QED
      BY <2>3, <3>2 DEF RowsAt
  <2>5. x \in P
    BY <2>3, <2>4
  <2> QED
    BY <2>2, <2>5
<1>14. IsFiniteSet(P)
  <2>1. IsFiniteSet(Rank \X AllItems)
    BY <1>7, FS_Product
  <2> QED
    BY <2>1, FS_Subset
<1>15. Cardinality(D) = Received(r)
  BY <1>6, FS_Interval
<1> HIDE DEF f, P, D
<1>16. f \in Bijection(P, D)
  BY <1>11, <1>12, <1>13, Fun_IsBij
<1>17. ExistsBijection(P, D)
  BY <1>16 DEF ExistsBijection
<1>18. Cardinality(D) = Cardinality(P)
  BY <1>14, <1>17, FS_Bijection
<1> QED
  BY <1>3, <1>4, <1>5, <1>9, <1>15, <1>18

-----------------------------------------------------------------------------
(* What a rank knows to have received.                                     *)

LEMMA KernelIs ==
  ASSUME InTurn, Typed, NEW r \in Rank, Shaped(r)
  PROVE  /\ DispatchStep(r) => InDispatch(r) /\ ~InCombine(r)
         /\ CombineStep(r) => InCombine(r) /\ ~InDispatch(r)
<1>1. ASSUME DispatchStep(r)
      PROVE  \E b \in Blocks(r) : pc[r][b] \in BeforeRewind \cup {"ticket", "grid", "pack"}
  BY <1>1 DEF DispatchStep, Claim, Publish, ArriveDispatch, Collect, Signal, Receive, Rewind, Ticket,
     PassGrid, Pack, EndDispatch, BeforeRewind, BeforeReceive, BeforeSignal, Claiming
<1>2. ASSUME CombineStep(r)
      PROVE  \E b \in Blocks(r) : pc[r][b] \in BeforeSum \cup {"sum"}
  BY <1>2 DEF CombineStep, Load, Scatter, ArriveCombine, Meet, Post, Await, Sum, EndCombine, BeforeSum,
     BeforePost, Scattering
<1> QED
  BY <1>1, <1>2, KernelOf

\* What Totals says of one rank.
TotalsAt(p) ==
  /\ totalRecv[p] = IF (InDispatch(p) /\ Holds(p)) \/ (InCombine(p) /\ ~Summing(p))
                    THEN Received(p) ELSE 0
  /\ InCombine(p) =>
       \A b \in Blocks(p) : pc[p][b] # "load" => reg[p][b].total = Received(p)

LEMMA TotalsRest ==
  ASSUME NEW s, Works(s), NEW p \in Rank, Own(p), TotalsAt(p)
  PROVE  TotalsAt(p)' /\ (Holds(p)' <=> Holds(p))
<1>1. /\ pc'[p] = pc[p] /\ reg'[p] = reg[p] /\ totalRecv'[p] = totalRecv[p] /\ place' = place
      /\ Blocks(p)' = Blocks(p) /\ (InDispatch(p)' <=> InDispatch(p)) /\ (InCombine(p)' <=> InCombine(p))
      /\ Received(p)' = Received(p)
  BY Statics, StreamsStay DEF Own
<1>2. Holds(p)' <=> Holds(p)
  BY <1>1 DEF Holds
<1>3. Summing(p)' <=> Summing(p)
  BY <1>1 DEF Summing
<1> QED
  BY <1>1, <1>2, <1>3 DEF TotalsAt

LEMMA TotalsDispatch ==
  ASSUME InTurn, Delivering, NEW r \in Rank, Works(r), DispatchStep(r)
  PROVE  TotalsAt(r)' /\ (Holds(r)' => Holds(r) \/ Receive(r))
<1>0. /\ Typed /\ TotalsAt(r) /\ InDispatch(r) /\ ~InCombine(r)
      /\ (InDispatch(r)' <=> InDispatch(r)) /\ (InCombine(r)' <=> InCombine(r)) /\ Received(r)' = Received(r)
  BY KernelIs, Statics DEF Delivering, Ranks, Totals, TotalsAt
<1>1. Receive(r) \/ UNCHANGED totalRecv
  BY DEF DispatchStep, Claim, Publish, ArriveDispatch, Collect, Signal, Rewind, Ticket, PassGrid, Pack, EndDispatch
<1>2. CASE Receive(r)
  <2>1. ~Holds(r) /\ Holds(r)'
    BY <1>0, <1>2, ReceiveGot DEF Holds, BeforeReceive, BeforeSignal, Claiming
  <2>2. totalRecv'[r] = 0 + Received(r)
    <3>1. totalRecv' = [totalRecv EXCEPT ![r] = @ + Cardinality(Counted(r))]
      BY <1>2 DEF Receive
    <3>2. Cardinality(Counted(r)) = Received(r)
      BY <1>2, ReceiveCounts
    <3>3. totalRecv[r] = 0 /\ DOMAIN totalRecv = Rank
      BY <1>0, <2>1 DEF TotalsAt, Typed
    <3> QED
      BY <3>1, <3>2, <3>3
  <2> QED
    BY <1>0, <1>2, <2>1, <2>2, ReceivedNat DEF TotalsAt
<1>3. CASE ~Receive(r)
  <2>1. Holds(r)' <=> Holds(r)
    <3>1. CASE SamePhase
      BY <1>0, <3>1 DEF SamePhase, Holds
    <3>2. CASE Rewind(r)
      <4>1. Turn(r, 0, Then, work[r][0], reg[r][0], todo[r][0]) /\ 0 \in Blocks(r) /\ pc[r][0] = "rewind"
        BY <1>0, <3>2, RewindTurn DEF Rewind, Delivering, Ranks
      <4> QED
        BY <1>0, <4>1 DEF Turn, Then, Holds, BeforeReceive, BeforeSignal, Claiming
    <3> QED
      BY <1>3, <3>1, <3>2, PhaseOr
  <2> QED
    BY <1>0, <1>1, <1>3, <2>1 DEF TotalsAt
<1> QED
  BY <1>2, <1>3

LEMMA TotalsTurn ==
  ASSUME InTurn, Typed, NEW r \in Rank, Works(r), TotalsAt(r), InCombine(r), NEW b \in Blocks(r),
         NEW l, NEW w, NEW g, NEW d, Turn(r, b, l, w, g, d),
         l # "load" => g.total = Received(r),
         b = 0 /\ l \in BeforePost => pc[r][b] \in BeforePost,
         \/ totalRecv'[r] = totalRecv[r] /\ (l \in {"sum", "ended"} <=> pc[r][b] \in {"sum", "ended"})
         \/ totalRecv'[r] = 0 /\ l = "sum"
  PROVE  TotalsAt(r)' /\ (Holds(r)' => Holds(r))
<1>1. /\ Blocks(r)' = Blocks(r) /\ InCombine(r)' /\ ~InDispatch(r)' /\ Received(r)' = Received(r)
      /\ 0 \in Blocks(r) /\ place' = place /\ ~InDispatch(r)
  BY Statics, StreamsStay, Onward, PlaceFacts
<1>2. \A c \in Blocks(r) : pc'[r][c] # "load" => reg'[r][c].total = Received(r)
  BY DEF TotalsAt, Turn
<1>3. Holds(r)' => Holds(r)
  <2>1. pc'[r][0] \in BeforePost => pc[r][0] \in BeforePost
    BY <1>1 DEF Turn
  <2> QED
    BY <1>1, <2>1 DEF Holds
<1>4. CASE totalRecv'[r] = totalRecv[r] /\ (l \in {"sum", "ended"} <=> pc[r][b] \in {"sum", "ended"})
  <2>1. \A c \in Blocks(r) : pc'[r][c] \in {"sum", "ended"} <=> pc[r][c] \in {"sum", "ended"}
    BY <1>4 DEF Turn
  <2>2. Summing(r)' <=> Summing(r)
    BY <1>1, <2>1 DEF Summing
  <2> QED
    BY <1>1, <1>2, <1>3, <1>4, <2>2 DEF TotalsAt
<1>5. CASE totalRecv'[r] = 0 /\ l = "sum"
  <2>1. Summing(r)'
    BY <1>1, <1>5 DEF Turn, Summing
  <2> QED
    BY <1>1, <1>2, <1>3, <1>5, <2>1 DEF TotalsAt
<1> QED
  BY <1>4, <1>5

\* A block that has still to start reads the total before another clears it.
LEMMA LoadTotal ==
  ASSUME InTurn, Delivering, NEW r \in Rank, NEW b \in Blocks(r), pc[r][b] = "load"
  PROVE  totalRecv[r] = Received(r)
<1>0. Typed /\ Ranks /\ Meets /\ Shaped(r) /\ Barriers(r) /\ TotalsAt(r) /\ place[r] > 0
  BY Onward DEF Delivering, Ranks, Totals, TotalsAt
<1>1. InCombine(r) /\ ~InDispatch(r)
  BY <1>0, KernelOf DEF BeforeSum, BeforePost, Scattering
<1>2. pc[r][0] \in BeforePost
  <2>1. b \notin Beyond(r, Scattering)
    BY DEF Beyond, Scattering
  <2> QED
    BY <1>0, <1>1, <2>1 DEF Barriers
<1>3. ~Summing(r)
  <2>1. ~Sent(r, r)
    BY <1>2 DEF Sent
  <2>2. ~Got(r, r)
    BY <1>0, <2>1, Apart
  <2> QED
    BY <1>1, <2>2 DEF Got, Had, Summing
<1> QED
  BY <1>0, <1>1, <1>3 DEF TotalsAt

LEMMA TotalsCombine ==
  ASSUME InTurn, Delivering, NEW r \in Rank, Works(r), CombineStep(r)
  PROVE  TotalsAt(r)' /\ (Holds(r)' => Holds(r))
<1>0. Typed /\ Shaped(r) /\ TotalsAt(r) /\ InCombine(r) /\ DOMAIN totalRecv = Rank
  BY KernelIs DEF Delivering, Ranks, Totals, TotalsAt, Typed
<1>a. \A b \in Blocks(r) : pc[r][b] # "load" => reg[r][b].total = Received(r)
  BY <1>0 DEF TotalsAt
<1> USE DEF BeforePost, Scattering
<1>1. ASSUME NEW b \in Blocks(r), Load(r, b) PROVE TotalsAt(r)' /\ (Holds(r)' => Holds(r))
  <2>1. Turn(r, b, "scatter",
             work[r][b], [reg[r][b] EXCEPT !.total = totalRecv[r], !.flag = xdbFlag[r]],
             todo[r][b])
    BY <1>0, <1>1, LoadTurn
  <2>2. b \in Blocks(r) /\ pc[r][b] = "load"
    BY <1>1 DEF Load
  <2>3. totalRecv' = totalRecv
    BY <1>1 DEF Load
  <2>4. [reg[r][b] EXCEPT !.total = totalRecv[r], !.flag = xdbFlag[r]].total = Received(r)
    <3>1. reg[r][b] \in [row : [pe : 0..World, id : Nat], target : Nat, total : Nat, flag : Nat]
      BY <1>0 DEF Shaped, Fits
    <3> QED
      BY <2>2, <3>1, LoadTotal
  <2> QED
    BY <1>0, <2>1, <2>2, <2>3, <2>4, TotalsTurn
<1>2. ASSUME NEW b \in Blocks(r), Scatter(r, b) PROVE TotalsAt(r)' /\ (Holds(r)' => Holds(r))
  <2>1. Turn(r, b, pc[r][b],
             work[r][b] + Grid[place[r]], reg[r][b],
             todo[r][b])
    BY <1>0, <1>2, ScatterTurn
  <2>2. b \in Blocks(r) /\ pc[r][b] = "scatter"
    BY <1>2 DEF Scatter
  <2>3. totalRecv' = totalRecv
    BY <1>2 DEF Scatter
  <2> QED
    BY <1>0, <1>a, <2>1, <2>2, <2>3, TotalsTurn
<1>3. ASSUME NEW b \in Blocks(r), ArriveCombine(r, b) PROVE TotalsAt(r)' /\ (Holds(r)' => Holds(r))
  <2>1. Turn(r, b, IF b = 0 THEN "meet" ELSE "await",
             work[r][b], reg[r][b],
             Rank)
    BY <1>0, <1>3, ArriveCombineTurn
  <2>2. b \in Blocks(r) /\ pc[r][b] = "scatter"
    BY <1>3 DEF ArriveCombine
  <2>3. totalRecv' = totalRecv
    BY <1>3 DEF ArriveCombine
  <2> QED
    BY <1>0, <1>a, <2>1, <2>2, <2>3, TotalsTurn
<1>4. CASE Meet(r)
  <2>1. Turn(r, 0, "post",
             work[r][0], reg[r][0],
             todo[r][0])
    BY <1>0, <1>4, MeetTurn
  <2>2. 0 \in Blocks(r) /\ pc[r][0] = "meet"
    BY <1>4 DEF Meet
  <2>3. totalRecv' = totalRecv
    BY <1>4 DEF Meet
  <2> QED
    BY <1>0, <1>a, <2>1, <2>2, <2>3, TotalsTurn
<1>5. ASSUME NEW p \in Rank, Post(r, p) PROVE TotalsAt(r)' /\ (Holds(r)' => Holds(r))
  <2>1. Turn(r, 0, IF todo[r][0] = {p} THEN "await" ELSE "post",
             work[r][0], reg[r][0],
             IF todo[r][0] = {p} THEN Rank ELSE todo[r][0] \ {p})
    BY <1>0, <1>5, PostTurn
  <2>2. 0 \in Blocks(r) /\ pc[r][0] = "post"
    BY <1>5 DEF Post
  <2>3. totalRecv' = totalRecv
    BY <1>5 DEF Post
  <2> QED
    BY <1>0, <1>a, <2>1, <2>2, <2>3, TotalsTurn
<1>6. ASSUME NEW b \in Blocks(r), NEW p \in Rank, Await(r, b, p) PROVE TotalsAt(r)' /\ (Holds(r)' => Holds(r))
  <2>1. Turn(r, b, IF todo[r][b] \ {p} = {} THEN "sum" ELSE "await",
             IF todo[r][b] \ {p} = {} THEN b ELSE work[r][b], reg[r][b],
             todo[r][b] \ {p})
    BY <1>0, <1>6, AwaitTurn
  <2>2. b \in Blocks(r) /\ pc[r][b] = "await"
    BY <1>6 DEF Await
  <2>3. totalRecv'[r] = IF todo[r][b] \ {p} = {} THEN 0 ELSE totalRecv[r]
    <3>1. todo'[r][b] = todo[r][b] \ {p}
      BY <2>1, <2>2 DEF Turn
    <3> QED
      BY <1>0, <1>6, <3>1 DEF Await
  <2> QED
    BY <1>0, <1>a, <2>1, <2>2, <2>3, TotalsTurn
<1>7. ASSUME NEW b \in Blocks(r), Sum(r, b) PROVE TotalsAt(r)' /\ (Holds(r)' => Holds(r))
  <2>1. Turn(r, b, pc[r][b],
             work[r][b] + Grid[place[r]], reg[r][b],
             todo[r][b])
    BY <1>0, <1>7, SumTurn
  <2>2. b \in Blocks(r) /\ pc[r][b] = "sum"
    BY <1>7 DEF Sum
  <2>3. totalRecv' = totalRecv
    BY <1>7 DEF Sum
  <2> QED
    BY <1>0, <1>a, <2>1, <2>2, <2>3, TotalsTurn
<1>8. ASSUME NEW b \in Blocks(r), EndCombine(r, b) PROVE TotalsAt(r)' /\ (Holds(r)' => Holds(r))
  <2>1. Turn(r, b, "ended",
             work[r][b], reg[r][b],
             todo[r][b])
    BY <1>0, <1>8, EndCombineTurn
  <2>2. b \in Blocks(r) /\ pc[r][b] = "sum"
    BY <1>8 DEF EndCombine
  <2>3. totalRecv' = totalRecv
    BY <1>8 DEF EndCombine
  <2> QED
    BY <1>0, <1>a, <2>1, <2>2, <2>3, TotalsTurn
<1> QED
  BY <1>1, <1>2, <1>3, <1>4, <1>5, <1>6, <1>7, <1>8 DEF CombineStep

LEMMA TotalsKeep ==
  ASSUME InTurn, Delivering, NEW r \in Rank, Works(r)
  PROVE  Totals' /\ \A p \in Rank : Holds(p)' => Holds(p) \/ (p = r /\ Receive(r))
<1>1. TotalsAt(r)' /\ (Holds(r)' => Holds(r) \/ Receive(r))
  BY TotalsDispatch, TotalsCombine DEF Works
<1>2. ASSUME NEW p \in Rank, p # r PROVE TotalsAt(p)' /\ (Holds(p)' <=> Holds(p))
  <2>1. Own(p) /\ TotalsAt(p)
    BY <1>2, OthersRest DEF Delivering, Totals, TotalsAt
  <2> QED
    BY <2>1, TotalsRest
<1>3. \A p \in Rank : TotalsAt(p)'
  BY <1>1, <1>2
<1> QED
  BY <1>1, <1>2, <1>3 DEF Totals, TotalsAt

\* What Rows says of one rank.
RowsOf(p) ==
  /\ \A i \in 0..(Received(p) - 1) : \E r \in Rank : \E w \in Items(r) :
       RoundOf(place[r]) = RoundOf(place[p]) /\ Past(r, w) /\ tokMap[r][w] = [pe |-> p, id |-> i]
  /\ \A r \in Rank : \A w \in Items(r) : Past(r, w) /\ tokMap[r][w].pe = p
       => tokMap[r][w].id < Received(p)

LEMMA RowsOfSame ==
  ASSUME NEW s, Works(s), NEW p \in Rank, RowsOf(p), UNCHANGED tokMap, SameItems
  PROVE  RowsOf(p)'
<1>1. /\ Received(p)' = Received(p)
      /\ \A q \in Rank : Items(q)' = Items(q) /\ RoundOf(place[q])' = RoundOf(place[q])
  BY Statics
<1> QED
  BY <1>1 DEF RowsOf, SameItems

LEMMA ReceiveRows ==
  ASSUME InTurn, Delivering, NEW r \in Rank, Receive(r)
  PROVE  RowsOf(r)
<1>0. Typed /\ Ticketed /\ Mapped
  BY DEF Delivering
<1> DEFINE n == RoundOf(place[r])
<1>1. /\ \A q \in Rank : place[q] > 0 /\ RoundOf(place[q]) = n /\ \A w \in Items(q) : Past(q, w)
      /\ CountRound(r) = n /\ tokOff[r] = Cardinality(Routed(n, r))
  BY ReceiveCounts
<1>2. Received(r) \in Nat /\ tokOff[r] \in Nat
      /\ \A i \in Nat : i < Received(r) <=> i < MaxRecv /\ i < tokOff[r]
  <2>1. tokOff[r] \in Nat /\ MaxRecv \in Nat
    BY <1>0, ConstantFacts DEF Typed
  <2>2. Received(r) = IF MaxRecv < tokOff[r] THEN MaxRecv ELSE tokOff[r]
    BY <1>1 DEF Received, Least
  <2> QED
    BY <2>1, <2>2
<1>3. ASSUME NEW i \in 0..(Received(r) - 1)
      PROVE  \E q \in Rank : \E w \in Items(q) :
               RoundOf(place[q]) = n /\ Past(q, w) /\ tokMap[q][w] = [pe |-> r, id |-> i]
  <2>1. i \in 0..(MaxRecv - 1) /\ i < tokOff[r]
    BY <1>2, ConstantFacts
  <2>2. PICK x \in Tickets(r) : RowOf(x) = [pe |-> r, id |-> i]
    BY <1>0, <2>1 DEF Ticketed
  <2>3. PICK q, w : q \in Rank /\ w \in AllItems /\ x = <<q, w>> /\ w \in Items(q)
    BY <2>2 DEF Tickets
  <2>4. tokMap[q][w] = [pe |-> r, id |-> i]
    BY <2>2, <2>3 DEF RowOf
  <2> QED
    BY <1>1, <2>3, <2>4
<1>4. ASSUME NEW q \in Rank, NEW w \in Items(q), tokMap[q][w].pe = r
      PROVE  tokMap[q][w].id < Received(r)
  <2>1. MappedAt(q, w) /\ Claimed(q, w) /\ w \in AllItems
    BY <1>0, <1>1, MappedIs, ItemsFit DEF Claimed
  <2>2. tokMap[q][w] # Dropped
    BY <1>4, ConstantFacts DEF Dropped
  <2>3. ~Dup(q, w) /\ Goes(q, w) = r /\ tokMap[q][w].id < MaxRecv
    BY <1>4, <2>1, <2>2 DEF MappedAt
  <2>4. <<q, w>> \in Tickets(r)
    BY <1>1, <2>1, <2>3, TicketIs
  <2>5. RowOf(<<q, w>>) = tokMap[q][w] /\ tokMap[q][w].id \in Nat
    BY <1>0, <2>1 DEF RowOf, Typed
  <2>6. tokMap[q][w].id < tokOff[r]
    BY <1>0, <2>2, <2>4, <2>5 DEF Ticketed
  <2> QED
    BY <1>2, <2>3, <2>5, <2>6
<1> QED
  BY <1>3, <1>4 DEF RowsOf

LEMMA RowsKeep ==
  ASSUME InTurn, Delivering, NEW r \in Rank, Works(r)
  PROVE  Rows'
<1>0. Typed /\ Ranks /\ Meets
  BY DEF Delivering
<1> SUFFICES ASSUME NEW p \in Rank, Holds(p)' PROVE RowsOf(p)'
  BY DEF Rows, RowsOf
<1>1. CASE Holds(p)
  <2>1. RowsOf(p)
    BY <1>1 DEF Delivering, Rows, RowsOf
  <2>2. \A w \in Items(r) : Past(r, w)
    BY <1>0, <1>1, Settled
  <2>3. ~Claims(r)
    <3>1. ASSUME NEW b \in Blocks(r), Claim(r, b) PROVE FALSE
      <4>1. PICK w : w = work[r][b]
        OBVIOUS
      <4>2. w \in Items(r) /\ ~Past(r, w)
        BY <3>1, <4>1, ClaimItems
      <4> QED
        BY <2>2, <4>2
    <3> QED
      BY <3>1 DEF Claims
  <2>4. ~Publishes(r)
    <3>1. ASSUME NEW b \in Blocks(r), Publish(r, b) PROVE FALSE
      <4>1. PICK w : w = work[r][b]
        OBVIOUS
      <4>2. w \in Items(r) /\ ~Past(r, w)
        BY <3>1, <4>1, PublishItems, PublishFacts
      <4> QED
        BY <2>2, <4>2
    <3> QED
      BY <3>1 DEF Publishes
  <2>5. Calm
    BY <2>3, <2>4, CalmOr
  <2> QED
    BY <2>1, <2>5, RowsOfSame DEF Calm
<1>2. CASE p = r /\ Receive(r)
  <2>1. SameItems /\ UNCHANGED tokMap
    BY <1>2, ReceiveView DEF Receive
  <2> QED
    BY <1>2, <2>1, ReceiveRows, RowsOfSame
<1> QED
  BY <1>1, <1>2, TotalsKeep

-----------------------------------------------------------------------------
(* The next kernel of a stream.                                            *)

\* Rank r's new kernel: every block is at its start.
Started(r) ==
  /\ place[r] \in Nat /\ place'[r] = place[r] + 1 /\ place'[r] \in Place /\ place'[r] # 0
  /\ DOMAIN pc'[r] = Blocks(r)' /\ DOMAIN work'[r] = Blocks(r)'
  /\ DOMAIN reg'[r] = Blocks(r)' /\ DOMAIN todo'[r] = Blocks(r)'
  /\ Blocks(r)' = 0..(Grid[place'[r]] - 1) /\ 0 \in Blocks(r)' /\ Grid[place'[r]] \in Nat \ {0}
  /\ \A b \in Blocks(r)' :
       /\ pc'[r][b] = IF InDispatch(r) THEN "load" ELSE "claim"
       /\ work'[r][b] = b /\ reg'[r][b] = Fresh /\ todo'[r][b] = {}
  /\ InDispatch(r)' <=> ~InDispatch(r)
  /\ InCombine(r)' <=> InDispatch(r)
  /\ RoundOf(place[r])' = IF InDispatch(r) THEN RoundOf(place[r]) ELSE RoundOf(place[r]) + 1

LEMMA StartIs ==
  ASSUME InTurn, Typed, NEW r \in Rank, Start(r)
  PROVE  /\ Started(r) /\ UNCHANGED <<mode, route, dispatchVars, bar, totalRecv, xdbFlag, xdbMem>>
         /\ DOMAIN pc' = Rank /\ DOMAIN work' = Rank /\ DOMAIN reg' = Rank /\ DOMAIN todo' = Rank
         /\ place' \in [Rank -> 0..Len(Program)]
<1>1. place[r] \in Nat /\ place[r] < Len(Program) /\ Len(Program) \in Nat
  BY PlaceFacts, ConstantFacts DEF Start
<1>2. place' = [place EXCEPT ![r] = @ + 1]
  BY DEF Start
<1>3. /\ place'[r] = place[r] + 1 /\ place'[r] \in Place /\ place'[r] # 0 /\ place'[r] \in 0..Len(Program)
      /\ place' \in [Rank -> 0..Len(Program)]
  BY <1>1, <1>2 DEF Typed, Place
<1>4. Program[place'[r]] = "dispatch" <=> ~InDispatch(r)
  <2>1. Program[place'[r]] = IF place'[r] % 2 = 1 THEN "dispatch" ELSE "combine"
    BY <1>3 DEF InTurn
  <2>2. (place[r] + 1) % 2 = 1 <=> place[r] % 2 # 1
    BY <1>1
  <2> QED
    BY <1>3, <2>1, <2>2 DEF InDispatch
<1>5. (InDispatch(r)' <=> ~InDispatch(r)) /\ (InCombine(r)' <=> InDispatch(r))
  <2>1. ((place[r] + 1) % 2 = 1 <=> place[r] % 2 # 1) /\ ((place[r] + 1) % 2 = 0 <=> place[r] % 2 = 1)
    BY <1>1
  <2> QED
    BY <1>1, <1>3, <2>1 DEF InDispatch, InCombine
<1>6. RoundOf(place[r])' = IF InDispatch(r) THEN RoundOf(place[r]) ELSE RoundOf(place[r]) + 1
  <2>1. RoundOf(place[r])' = RoundOf(place[r] + 1)
    BY <1>3 DEF RoundOf
  <2>2. RoundOf(place[r] + 1) = (place[r] + 1 + 1) \div 2 /\ RoundOf(place[r]) = (place[r] + 1) \div 2
    <3>1. place[r] \in 0..Len(Program) /\ place[r] + 1 \in 0..Len(Program)
      BY <1>1
    <3> QED
      BY <3>1, Rounds
  <2>3. (place[r] + 1 + 1) \div 2 = IF place[r] % 2 = 1 THEN (place[r] + 1) \div 2 ELSE (place[r] + 1) \div 2 + 1
    BY <1>1
  <2> QED
    BY <2>1, <2>2, <2>3 DEF InDispatch
<1>7. Grid[place'[r]] \in Nat \ {0}
  BY <1>3, ConstantFacts
<1>8. Blocks(r)' = 0..(Grid[place'[r]] - 1) /\ 0 \in Blocks(r)'
  BY <1>3, <1>7 DEF Blocks
<1> DEFINE B == 0..(Grid[place'[r]] - 1)
<1>9. /\ pc' = [pc EXCEPT ![r] = [b \in B |-> IF Program[place'[r]] = "dispatch" THEN "claim" ELSE "load"]]
      /\ work' = [work EXCEPT ![r] = [b \in B |-> b]]
      /\ reg' = [reg EXCEPT ![r] = [b \in B |-> Fresh]]
      /\ todo' = [todo EXCEPT ![r] = [b \in B |-> {}]]
  BY DEF Start
<1>10. DOMAIN pc = Rank /\ DOMAIN work = Rank /\ DOMAIN reg = Rank /\ DOMAIN todo = Rank
  BY DEF Typed
<1> HIDE DEF B
<1>11. /\ pc'[r] = [b \in B |-> IF Program[place'[r]] = "dispatch" THEN "claim" ELSE "load"]
       /\ work'[r] = [b \in B |-> b] /\ reg'[r] = [b \in B |-> Fresh] /\ todo'[r] = [b \in B |-> {}]
       /\ DOMAIN pc' = Rank /\ DOMAIN work' = Rank /\ DOMAIN reg' = Rank /\ DOMAIN todo' = Rank
  BY <1>9, <1>10
<1>12. \A b \in Blocks(r)' :
         /\ pc'[r][b] = IF InDispatch(r) THEN "load" ELSE "claim"
         /\ work'[r][b] = b /\ reg'[r][b] = Fresh /\ todo'[r][b] = {}
  BY <1>4, <1>8, <1>11 DEF B
<1>13. DOMAIN pc'[r] = Blocks(r)' /\ DOMAIN work'[r] = Blocks(r)'
       /\ DOMAIN reg'[r] = Blocks(r)' /\ DOMAIN todo'[r] = Blocks(r)'
  BY <1>8, <1>11 DEF B
<1>14. UNCHANGED <<mode, route, dispatchVars, bar, totalRecv, xdbFlag, xdbMem>>
  BY DEF Start
<1> QED
  BY <1>1, <1>3, <1>5, <1>6, <1>7, <1>8, <1>11, <1>12, <1>13, <1>14 DEF Started

\* The other ranks see nothing of it.
LEMMA StartOthers ==
  ASSUME InTurn, Typed, NEW r \in Rank, Start(r), NEW q \in Rank, q # r
  PROVE  /\ place'[q] = place[q] /\ pc'[q] = pc[q] /\ work'[q] = work[q] /\ reg'[q] = reg[q] /\ todo'[q] = todo[q]
         /\ Blocks(q)' = Blocks(q) /\ (InDispatch(q)' <=> InDispatch(q)) /\ (InCombine(q)' <=> InCombine(q))
         /\ RoundOf(place[q])' = RoundOf(place[q]) /\ Dispatch(q)' = Dispatch(q)
         /\ Tokens(q)' = Tokens(q) /\ Items(q)' = Items(q) /\ Received(q)' = Received(q)
         /\ \A w : /\ BlockOf(q, w)' = BlockOf(q, w) /\ (Dup(q, w)' <=> Dup(q, w))
                   /\ Goes(q, w)' = Goes(q, w) /\ Sends(q, w)' = Sends(q, w)
<1>1. /\ place' = [place EXCEPT ![r] = @ + 1] /\ route' = route
      /\ \E v : pc' = [pc EXCEPT ![r] = v]
      /\ \E v : work' = [work EXCEPT ![r] = v]
      /\ \E v : reg' = [reg EXCEPT ![r] = v]
      /\ \E v : todo' = [todo EXCEPT ![r] = v]
  BY DEF Start
<1>2. place'[q] = place[q] /\ pc'[q] = pc[q] /\ work'[q] = work[q] /\ reg'[q] = reg[q] /\ todo'[q] = todo[q]
  BY <1>1 DEF Typed
<1>3. RoundOf(place[q])' = RoundOf(place[q])
  BY <1>2 DEF RoundOf
<1>4. Tokens(q)' = Tokens(q)
  BY <1>1, <1>3 DEF Tokens
<1>5. Blocks(q)' = Blocks(q) /\ (InDispatch(q)' <=> InDispatch(q)) /\ (InCombine(q)' <=> InCombine(q))
  BY <1>2 DEF Blocks, InDispatch, InCombine
<1>6. Dispatch(q)' = Dispatch(q) /\ Items(q)' = Items(q)
  BY <1>3, <1>4 DEF Dispatch, Items
<1>7. Received(q)' = Received(q)
  BY <1>1, <1>3 DEF Received, Routed, Experts
<1>8. \A w : /\ BlockOf(q, w)' = BlockOf(q, w) /\ (Dup(q, w)' <=> Dup(q, w))
             /\ Goes(q, w)' = Goes(q, w) /\ Sends(q, w)' = Sends(q, w)
  BY <1>2, <1>3, <1>4 DEF BlockOf, Dup, Goes, Sends
<1> QED
  BY <1>2, <1>3, <1>4, <1>5, <1>6, <1>7, <1>8

LEMMA StartViews ==
  ASSUME InTurn, Typed, NEW r \in Rank, Start(r), NEW q \in Rank, q # r
  PROVE  /\ \A w : /\ Past(q, w)' <=> Past(q, w)
                   /\ Holding(q, w)' <=> Holding(q, w)
                   /\ Claimed(q, w)' <=> Claimed(q, w)
         /\ \A p : (Sent(q, p)' <=> Sent(q, p)) /\ (Got(q, p)' <=> Got(q, p))
         /\ (Holds(q)' <=> Holds(q)) /\ (Summing(q)' <=> Summing(q)) /\ CountRound(q)' = CountRound(q)
         /\ \A p, i : (SentAt(q, p, i)' <=> SentAt(q, p, i)) /\ (GotAt(q, p, i)' <=> GotAt(q, p, i))
<1>1. /\ place'[q] = place[q] /\ pc'[q] = pc[q] /\ work'[q] = work[q] /\ todo'[q] = todo[q]
      /\ Blocks(q)' = Blocks(q) /\ (InDispatch(q)' <=> InDispatch(q)) /\ RoundOf(place[q])' = RoundOf(place[q])
      /\ \A w : BlockOf(q, w)' = BlockOf(q, w)
  BY StartOthers
<1>2. ASSUME NEW w
      PROVE  (Past(q, w)' <=> Past(q, w)) /\ (Holding(q, w)' <=> Holding(q, w))
  BY <1>1 DEF Past, Through, Holding
<1>3. ASSUME NEW p PROVE (Sent(q, p)' <=> Sent(q, p)) /\ (Got(q, p)' <=> Got(q, p))
  <2>1. Sent(q, p)' <=> Sent(q, p)
    BY <1>1 DEF Sent
  <2>2. \A b : Had(q, b, p)' <=> Had(q, b, p)
    BY <1>1 DEF Had
  <2> QED
    BY <1>1, <2>1, <2>2 DEF Got
<1>4. (Holds(q)' <=> Holds(q)) /\ (Summing(q)' <=> Summing(q)) /\ CountRound(q)' = CountRound(q)
  BY <1>1 DEF Holds, Summing, CountRound
<1>5. \A p, i : (SentAt(q, p, i)' <=> SentAt(q, p, i)) /\ (GotAt(q, p, i)' <=> GotAt(q, p, i))
  BY <1>1, <1>3 DEF SentAt, GotAt
<1>6. \A w : Claimed(q, w)' <=> Claimed(q, w)
  BY <1>2 DEF Claimed
<1>7. \A w : /\ Past(q, w)' <=> Past(q, w)
             /\ Holding(q, w)' <=> Holding(q, w)
             /\ Claimed(q, w)' <=> Claimed(q, w)
  BY <1>2, <1>6
<1>8. \A p : (Sent(q, p)' <=> Sent(q, p)) /\ (Got(q, p)' <=> Got(q, p))
  BY <1>3
<1> QED
  BY <1>4, <1>5, <1>7, <1>8

\* The ended kernel has done its part.
LEMMA EndedFacts ==
  ASSUME InTurn, Typed, Ranks, Meets, NEW r \in Rank, Ended(r), place[r] > 0
  PROVE  /\ 0 \in Blocks(r) /\ pc[r][0] = "ended" /\ \A w \in Items(r) : Past(r, w)
         /\ \A p \in Rank : Sent(r, p) /\ Got(r, p) /\ SentAt(p, r, place[r])
         /\ InDispatch(r) => Holds(r)
         /\ InCombine(r) => Summing(r)
         /\ CountRound(r) = RoundOf(place[r]) + 1
<1> USE DEF Claiming, BeforeSignal, BeforeReceive, BeforeRewind, Scattering, BeforePost
<1>1. 0 \in Blocks(r) /\ pc[r][0] = "ended"
  BY PlaceFacts DEF Ended
<1>2. \A w \in Items(r) : Past(r, w)
  BY <1>1, AllPast
<1>3. ASSUME NEW p \in Rank PROVE Sent(r, p) /\ Got(r, p) /\ SentAt(p, r, place[r])
  <2>1. Sent(r, p)
    BY <1>1 DEF Sent
  <2>2. Got(r, p)
    BY <1>1 DEF Got, Had
  <2> QED
    BY <2>1, <2>2 DEF Meets
<1>4. InDispatch(r) => Holds(r)
  BY <1>1 DEF Holds
<1>5. InCombine(r) => Summing(r)
  BY <1>1 DEF Summing
<1>6. CountRound(r) = RoundOf(place[r]) + 1
  BY <1>1 DEF CountRound
<1> QED
  BY <1>1, <1>2, <1>3, <1>4, <1>5, <1>6

\* And the new one has not begun its.
LEMMA StartedFacts ==
  ASSUME InTurn, Typed, NEW r \in Rank, Start(r)
  PROVE  /\ \A p : ~Sent(r, p)' /\ ~Got(r, p)'
         /\ InDispatch(r) => Holds(r)' /\ ~Summing(r)' /\ \A w \in Nat : Past(r, w)' /\ ~Holding(r, w)'
         /\ ~InDispatch(r) => ~Holds(r)' /\ \A w \in Nat : ~Past(r, w)' /\ ~Holding(r, w)'
         /\ CountRound(r)' = RoundOf(place[r]) + 1
<1> USE DEF Claiming, BeforeSignal, BeforeReceive, BeforeRewind, Scattering, BeforePost
<1>0. Started(r)
  BY StartIs
<1>1. 0 \in Blocks(r)' /\ pc'[r][0] = IF InDispatch(r) THEN "load" ELSE "claim"
  BY <1>0 DEF Started
<1>2. \A p : ~Sent(r, p)'
  BY <1>1 DEF Sent
<1>3. \A b \in Blocks(r)' : pc'[r][b] \in {"load", "claim"}
  BY <1>0 DEF Started
<1>4. \A p : ~Got(r, p)'
  <2>1. \A p : \A b \in Blocks(r)' : ~Had(r, b, p)'
    BY <1>3 DEF Had
  <2> QED
    BY <1>0, <1>1, <2>1 DEF Got, Started
<1>5. (InDispatch(r)' <=> ~InDispatch(r)) /\ place'[r] \in Nat /\ place'[r] > 0
  BY <1>0 DEF Started
<1>6. Holds(r)' <=> InDispatch(r)
  BY <1>1, <1>5 DEF Holds
<1>7. ~Summing(r)'
  BY <1>3 DEF Summing
<1>8. ASSUME NEW w \in Nat
      PROVE  IF InDispatch(r) THEN Past(r, w)' /\ ~Holding(r, w)' ELSE ~Past(r, w)' /\ ~Holding(r, w)'
  <2>1. PICK c : c = w % Grid[place'[r]]
    OBVIOUS
  <2>2. BlockOf(r, w)' = c
    BY <2>1 DEF BlockOf
  <2>3. c \in Blocks(r)' /\ c \in Nat /\ c <= w
    <3>1. Grid[place'[r]] \in Nat \ {0} /\ Blocks(r)' = 0..(Grid[place'[r]] - 1)
      BY <1>0 DEF Started
    <3>2. PICK d \in Nat \ {0} : d = Grid[place'[r]]
      BY <3>1
    <3>3. PICK e : e = w \div d
      OBVIOUS
    <3>4. c \in 0..(d - 1) /\ w = d * e + c /\ e \in Nat
      BY <2>1, <3>2, <3>3, Division
    <3>5. c \in Nat /\ d * e \in Nat
      BY <3>4
    <3>6. c <= w
      BY <3>4, <3>5
    <3> QED
      BY <3>1, <3>2, <3>4, <3>5, <3>6
  <2>4. work'[r][c] = c /\ pc'[r][c] = IF InDispatch(r) THEN "load" ELSE "claim"
    BY <1>0, <2>3 DEF Started
  <2>5. Past(r, w)' <=> (pc'[r][c] \in Claiming => w < work'[r][c])
    BY <2>2 DEF Past, Through
  <2>6. Holding(r, w)' <=> pc'[r][c] = "publish" /\ work'[r][c] = w
    BY <2>2 DEF Holding
  <2> QED
    BY <2>3, <2>4, <2>5, <2>6
<1>9. CountRound(r)' = RoundOf(place[r]) + 1
  BY <1>0, <1>1 DEF CountRound, Started
<1> QED
  BY <1>2, <1>4, <1>6, <1>7, <1>8, <1>9

\* Dispatch and combine of a round have the same items.
LEMMA StartSame ==
  ASSUME InTurn, Typed, NEW r \in Rank, Start(r), InDispatch(r)
  PROVE  /\ RoundOf(place[r])' = RoundOf(place[r]) /\ Dispatch(r)' = Dispatch(r)
         /\ Tokens(r)' = Tokens(r) /\ Items(r)' = Items(r) /\ Received(r)' = Received(r)
         /\ \A w : /\ (Dup(r, w)' <=> Dup(r, w)) /\ Goes(r, w)' = Goes(r, w) /\ Sends(r, w)' = Sends(r, w)
<1>1. RoundOf(place[r])' = RoundOf(place[r]) /\ route' = route
  BY StartIs DEF Started
<1>2. Tokens(r)' = Tokens(r)
  BY <1>1 DEF Tokens
<1>3. Dispatch(r)' = Dispatch(r) /\ Items(r)' = Items(r)
  BY <1>1, <1>2 DEF Dispatch, Items
<1>4. Received(r)' = Received(r)
  BY <1>1 DEF Received, Routed, Experts
<1>5. \A w : (Dup(r, w)' <=> Dup(r, w)) /\ Goes(r, w)' = Goes(r, w) /\ Sends(r, w)' = Sends(r, w)
  BY <1>1, <1>2 DEF Dup, Goes, Sends
<1> QED
  BY <1>1, <1>2, <1>3, <1>4, <1>5

LEMMA StartTyped ==
  ASSUME InTurn, Typed, NEW r \in Rank, Start(r)
  PROVE  Typed'
<1>1. /\ UNCHANGED <<mode, route, dispatchVars, bar, totalRecv, xdbFlag, xdbMem>>
      /\ DOMAIN pc' = Rank /\ DOMAIN work' = Rank /\ DOMAIN reg' = Rank /\ DOMAIN todo' = Rank
      /\ place' \in [Rank -> 0..Len(Program)]
  BY StartIs
<1>2. slotMap' = slotMap
  BY DEF Start
<1>3. packed' \in [Rank -> [Expert -> Seq(Token)]]
  <2>1. packed' = packed \/ packed' = [packed EXCEPT ![r] = [e \in Expert |-> <<>>]]
    BY DEF Start
  <2>2. [e \in Expert |-> <<>>] \in [Expert -> Seq(Token)]
    OBVIOUS
  <2>3. packed \in [Rank -> [Expert -> Seq(Token)]]
    BY DEF Typed
  <2> QED
    BY <2>1, <2>2, <2>3
<1>4. DOMAIN out' = Rank /\ \A q \in Rank : DOMAIN out'[q] = 1..MaxTok
  <2>1. out' = out \/ out' = [out EXCEPT ![r] = NoSums]
    BY DEF Start
  <2>2. DOMAIN NoSums = 1..MaxTok
    BY DEF NoSums
  <2>3. DOMAIN out = Rank /\ \A q \in Rank : DOMAIN out[q] = 1..MaxTok
    BY DEF Typed
  <2> QED
    BY <2>1, <2>2, <2>3
<1>5. \A rows : DOMAIN Staged(r, rows) = DOMAIN rows
  BY DEF Staged
<1>6. DOMAIN inp' = Rank /\ \A q \in Rank : DOMAIN inp'[q] = 0..(MaxRecv - 1)
  <2>1. inp' = inp \/ inp' = [inp EXCEPT ![r] = Staged(r, inp[r])]
    BY DEF Start
  <2>2. DOMAIN inp = Rank /\ \A q \in Rank : DOMAIN inp[q] = 0..(MaxRecv - 1)
    BY DEF Typed
  <2> QED
    BY <1>5, <2>1, <2>2
<1>7. DOMAIN combInp' = Rank /\ \A q \in Rank : DOMAIN combInp'[q] = 0..(World * MaxTok - 1)
  <2>1. combInp' = combInp \/ combInp' = [combInp EXCEPT ![r] = Staged(r, combInp[r])]
    BY DEF Start
  <2>2. DOMAIN combInp = Rank /\ \A q \in Rank : DOMAIN combInp[q] = 0..(World * MaxTok - 1)
    BY DEF Typed
  <2> QED
    BY <1>5, <2>1, <2>2
<1> QED
  BY <1>1, <1>2, <1>3, <1>4, <1>6, <1>7 DEF Typed, dispatchVars

LEMMA StartShaped ==
  ASSUME InTurn, Typed, Ranks, NEW r \in Rank, Start(r), NEW q \in Rank
  PROVE  Shaped(q)'
<1>1. CASE q # r
  <2>1. /\ pc'[q] = pc[q] /\ work'[q] = work[q] /\ reg'[q] = reg[q] /\ todo'[q] = todo[q]
        /\ Blocks(q)' = Blocks(q) /\ (InDispatch(q)' <=> InDispatch(q)) /\ Items(q)' = Items(q)
        /\ \A w : BlockOf(q, w)' = BlockOf(q, w)
    BY <1>1, StartOthers
  <2>2. mode' = mode /\ Shaped(q)
    BY StartIs DEF Ranks
  <2>3. ASSUME NEW b \in Blocks(q)
        PROVE  Fits(q, b, pc[q][b], work[q][b], reg[q][b], todo[q][b])'
    <3>1. Fits(q, b, pc[q][b], work[q][b], reg[q][b], todo[q][b])
      BY <2>2 DEF Shaped
    <3> QED
      BY <2>1, <2>2, <3>1 DEF Fits
  <2> QED
    BY <2>1, <2>2, <2>3 DEF Shaped
<1>2. CASE q = r
  <2>1. Started(r)
    BY StartIs
  <2>2. ASSUME NEW b \in Blocks(r)'
        PROVE  Fits(r, b, pc[r][b], work[r][b], reg[r][b], todo[r][b])'
    <3>1. /\ pc'[r][b] = IF InDispatch(r) THEN "load" ELSE "claim"
          /\ work'[r][b] = b /\ reg'[r][b] = Fresh /\ todo'[r][b] = {}
          /\ Blocks(r)' = 0..(Grid[place'[r]] - 1) /\ Grid[place'[r]] \in Nat \ {0}
          /\ InDispatch(r)' <=> ~InDispatch(r)
      BY <2>1 DEF Started
    <3>2. b \in Nat /\ b % Grid[place'[r]] = b
      BY <3>1
    <3>3. BlockOf(r, work[r][b])' = b
      BY <3>1, <3>2 DEF BlockOf
    <3>4. Fresh \in [row : [pe : 0..World, id : Nat], target : Nat, total : Nat, flag : Nat]
      <4>1. World \in 0..World
        BY ConstantFacts
      <4> QED
        BY <4>1 DEF Fresh, Dropped
    <3>5. pc'[r][b] \in IF InDispatch(r)' THEN DispatchPlace ELSE CombinePlace
      BY <3>1 DEF DispatchPlace, BeforePack, BeforeGrid, BeforeRewind, BeforeReceive, BeforeSignal, Claiming,
                  CombinePlace, BeforeSum, BeforePost, Scattering
    <3> QED
      BY <3>1, <3>2, <3>3, <3>4, <3>5 DEF Fits, First
  <2> QED
    BY <1>2, <2>1, <2>2 DEF Shaped, Started
<1> QED
  BY <1>1, <1>2

LEMMA StartBarriers ==
  ASSUME InTurn, Typed, Ranks, Meets, NEW r \in Rank, Start(r), NEW q \in Rank
  PROVE  Barriers(q)'
<1>0. bar' = bar /\ Barriers(q)
  BY StartIs DEF Ranks
<1>1. CASE q # r
  <2>1. /\ pc'[q] = pc[q] /\ Blocks(q)' = Blocks(q)
        /\ (InDispatch(q)' <=> InDispatch(q)) /\ (InCombine(q)' <=> InCombine(q))
    BY <1>1, StartOthers
  <2>2. Beyond(q, Claiming)' = Beyond(q, Claiming) /\ Beyond(q, Scattering)' = Beyond(q, Scattering)
    BY <2>1 DEF Beyond
  <2> QED
    BY <1>0, <2>1, <2>2 DEF Barriers
<1>2. CASE q = r
  <2>1. bar[r].disp = 0 /\ bar[r].comb = 0
    <3>1. CASE place[r] = 0
      BY <1>0, <1>2, <3>1 DEF Barriers, InDispatch, InCombine
    <3>2. CASE place[r] > 0
      <4>1. pc[r][0] = "ended"
        BY <3>2, EndedFacts DEF Start
      <4> QED
        BY <1>0, <1>2, <4>1 DEF Barriers, BeforeSignal, Claiming, BeforePost, Scattering
    <3> QED
      BY <3>1, <3>2, PlaceFacts
  <2>2. /\ 0 \in Blocks(r)' /\ \A b \in Blocks(r)' : pc'[r][b] = IF InDispatch(r) THEN "load" ELSE "claim"
        /\ InDispatch(r)' <=> ~InDispatch(r)
        /\ InCombine(r)' <=> InDispatch(r)
    BY StartIs DEF Started
  <2>3. IF InDispatch(r) THEN Beyond(r, Scattering)' = {} ELSE Beyond(r, Claiming)' = {}
    BY <2>2 DEF Beyond, Claiming, Scattering
  <2>4. Cardinality({}) = 0
    BY FS_EmptySet
  <2>5. pc'[r][0] = IF InDispatch(r) THEN "load" ELSE "claim"
    BY <2>2
  <2>6. IF InDispatch(r) THEN pc'[r][0] \in BeforePost ELSE pc'[r][0] \in BeforeSignal
    BY <2>5 DEF BeforeSignal, Claiming, BeforePost, Scattering
  <2> QED
    BY <1>0, <1>2, <2>1, <2>2, <2>3, <2>4, <2>6 DEF Barriers
<1> QED
  BY <1>1, <1>2

LEMMA StartFlags ==
  ASSUME InTurn, Typed, Ranks, Meets, NEW r \in Rank, Start(r), NEW q \in Rank
  PROVE  Flags(q)'
<1>0. xdbFlag' = xdbFlag /\ Flags(q)
  BY StartIs DEF Ranks
<1>1. CASE q # r
  <2>1. /\ pc'[q] = pc[q] /\ reg'[q] = reg[q] /\ Blocks(q)' = Blocks(q)
        /\ (InDispatch(q)' <=> InDispatch(q)) /\ (InCombine(q)' <=> InCombine(q))
        /\ RoundOf(place[q])' = RoundOf(place[q])
    BY <1>1, StartOthers
  <2> QED
    BY <1>0, <2>1 DEF Flags
<1>2. CASE q = r
  <2>1. xdbFlag[r] = IF InDispatch(r) THEN RoundOf(place[r]) ELSE RoundOf(place[r]) + 1
    <3>1. CASE place[r] = 0
      BY <1>0, <1>2, <3>1 DEF Flags, InDispatch, InCombine
    <3>2. CASE place[r] > 0
      <4>1. pc[r][0] = "ended"
        BY <3>2, EndedFacts DEF Start
      <4> QED
        BY <1>0, <1>2, <4>1 DEF Flags, BeforePost, Scattering
    <3> QED
      BY <3>1, <3>2, PlaceFacts
  <2>2. /\ 0 \in Blocks(r)' /\ \A b \in Blocks(r)' : pc'[r][b] = IF InDispatch(r) THEN "load" ELSE "claim"
        /\ InDispatch(r)' <=> ~InDispatch(r)
        /\ InCombine(r)' <=> InDispatch(r)
        /\ RoundOf(place[r])' = IF InDispatch(r) THEN RoundOf(place[r]) ELSE RoundOf(place[r]) + 1
    BY StartIs DEF Started
  <2>3. InDispatch(r) => pc'[r][0] \in BeforePost
    BY <2>2 DEF BeforePost, Scattering
  <2> QED
    BY <1>0, <1>2, <2>1, <2>2, <2>3 DEF Flags
<1> QED
  BY <1>1, <1>2

LEMMA StartMeets ==
  ASSUME InTurn, Typed, Ranks, Meets, NEW r \in Rank, Start(r)
  PROVE  Meets'
<1>1. ASSUME NEW q \in Rank, NEW p \in Rank, NEW i \in Nat, SentAt(q, p, i)
      PROVE  SentAt(q, p, i)'
  <2>1. CASE q # r
    BY <1>1, <2>1, StartViews
  <2>2. CASE q = r
    <3>1. place'[r] = place[r] + 1 /\ place[r] \in Nat
      BY StartIs DEF Started
    <3>2. place[r] >= i
      BY <1>1, <2>2, <3>1 DEF SentAt
    <3>3. place'[r] > i
      BY <3>1, <3>2
    <3> QED
      BY <2>2, <3>3 DEF SentAt
  <2> QED
    BY <2>1, <2>2
<1>2. ASSUME NEW p \in Rank, NEW q \in Rank, NEW n \in Nat, n = place'[p], n > 0
      PROVE  /\ n > 1 => SentAt(q, p, n - 1)'
             /\ Got(p, q)' => SentAt(q, p, n)'
  <2>1. CASE p # r
    <3>1. n = place[p] /\ (Got(p, q)' <=> Got(p, q))
      BY <1>2, <2>1, StartOthers, StartViews
    <3>2. /\ n > 1 => SentAt(q, p, n - 1)
          /\ Got(p, q) => SentAt(q, p, n)
      BY <1>2, <3>1 DEF Meets
    <3>3. n > 1 => n - 1 \in Nat
      BY <1>2
    <3>4. n > 1 => SentAt(q, p, n - 1)'
      BY <1>1, <3>2, <3>3
    <3> QED
      BY <1>1, <3>1, <3>2, <3>4
  <2>2. CASE p = r
    <3>1. place'[r] = place[r] + 1 /\ place[r] \in Nat /\ ~Got(r, q)'
      BY StartIs, StartedFacts DEF Started
    <3>2. PICK m \in Nat : m = place[r]
      BY <3>1
    <3>3. m = n - 1 /\ (n > 1 => m > 0)
      BY <1>2, <2>2, <3>1, <3>2
    <3>4. n > 1 => SentAt(q, r, m)
      BY <3>2, <3>3, EndedFacts DEF Start
    <3> QED
      BY <1>1, <2>2, <3>1, <3>3, <3>4
  <2> QED
    BY <2>1, <2>2
<1>3. \A p \in Rank : place'[p] \in Nat
  BY StartIs, ConstantFacts
<1>4. ASSUME NEW p \in Rank, NEW q \in Rank, place'[p] > 0
      PROVE  (place[p] > 1 => SentAt(q, p, place[p] - 1))' /\ (Got(p, q) => SentAt(q, p, place[p]))'
  <2>1. PICK n \in Nat : n = place'[p]
    BY <1>3
  <2>2. (n > 1 => SentAt(q, p, n - 1)') /\ (Got(p, q)' => SentAt(q, p, n)')
    BY <1>2, <1>4, <2>1
  <2> QED
    BY <2>1, <2>2 DEF SentAt
<1> QED
  BY <1>4 DEF Meets

\* Of the counts, only the new kernel's own change their meaning.
LEMMA StartCounts ==
  ASSUME InTurn, Typed, Ranks, Meets, Counts, NEW r \in Rank, Start(r)
  PROVE  Counts'
<1>0. UNCHANGED <<recvNum, destCtr, xdbMem, tokMap>> /\ place[r] \in Nat /\ place'[r] = place[r] + 1
  BY StartIs DEF dispatchVars, Started
<1>1. ASSUME NEW p \in Rank, NEW q \in Rank, q # r
      PROVE  /\ (Pending(q, p)' <=> Pending(q, p)) /\ RowsAt(q, p)' = RowsAt(q, p)
             /\ (InDispatch(q)' <=> InDispatch(q)) /\ (InCombine(q)' <=> InCombine(q))
             /\ (Sent(q, p)' <=> Sent(q, p)) /\ RoundOf(place[q])' = RoundOf(place[q])
             /\ place'[q] = place[q] /\ pc'[q] = pc[q]
  <2>1. /\ place'[q] = place[q] /\ pc'[q] = pc[q] /\ Items(q)' = Items(q) /\ Dispatch(q)' = Dispatch(q)
        /\ (InDispatch(q)' <=> InDispatch(q)) /\ (InCombine(q)' <=> InCombine(q))
        /\ RoundOf(place[q])' = RoundOf(place[q])
    BY <1>1, StartOthers
  <2>2. /\ \A w : Past(q, w)' <=> Past(q, w)
        /\ Sent(q, p)' <=> Sent(q, p)
        /\ \A i : SentAt(q, p, i)' <=> SentAt(q, p, i)
    BY <1>1, StartViews
  <2>3. RowsAt(q, p)' = RowsAt(q, p)
    BY <1>0, <2>1, <2>2 DEF RowsAt
  <2>4. PICK n : n = Dispatch(q)
    OBVIOUS
  <2>5. place[q] > 0 => (GotAt(p, q, n)' <=> GotAt(p, q, n))
    <3>1. CASE p # r
      BY <3>1, StartViews
    <3>2. CASE p = r
      <4>1. SUFFICES ASSUME place[q] > 0
                     PROVE  GotAt(p, q, n)' <=> GotAt(p, q, n)
        OBVIOUS
      <4>2. RoundOf(place[q]) \in Nat /\ RoundOf(place[q]) > 0
        BY <4>1, PlaceFacts
      <4>3. n \in Nat /\ n > 0
        BY <2>4, <4>2 DEF Dispatch
      <4>4. place[r] = n => Got(r, q)
        BY <4>3, EndedFacts DEF Start
      <4>5. ~Got(r, q)'
        BY StartedFacts
      <4>6. GotAt(r, q, n) <=> place[r] > n \/ place[r] = n
        BY <4>4 DEF GotAt
      <4>7. GotAt(r, q, n)' <=> place'[r] > n
        BY <4>5 DEF GotAt
      <4>8. place'[r] > n <=> place[r] > n \/ place[r] = n
        BY <1>0, <4>3
      <4> QED
        BY <3>2, <4>6, <4>7, <4>8
    <3> QED
      BY <3>1, <3>2
  <2>6. GotAt(p, q, Dispatch(q)) <=> GotAt(p, q, n)
    BY <2>4
  <2>7. (GotAt(p, q, Dispatch(q)))' <=> GotAt(p, q, n)'
    BY <2>1, <2>4 DEF GotAt
  <2>8. SentAt(q, p, Dispatch(q)) <=> SentAt(q, p, n)
    BY <2>4
  <2>9. (SentAt(q, p, Dispatch(q)))' <=> SentAt(q, p, n)'
    BY <2>1, <2>4 DEF SentAt
  <2>10. Pending(q, p)' <=> place'[q] > 0 /\ (SentAt(q, p, Dispatch(q)))' /\ ~(GotAt(p, q, Dispatch(q)))'
    BY DEF Pending
  <2>11. Pending(q, p)' <=> Pending(q, p)
    BY <2>1, <2>2, <2>5, <2>6, <2>7, <2>8, <2>9, <2>10 DEF Pending
  <2> QED
    BY <2>1, <2>2, <2>3, <2>11
<1>2. /\ 0 \in Blocks(r)' /\ pc'[r][0] = IF InDispatch(r) THEN "load" ELSE "claim"
      /\ InDispatch(r)' <=> ~InDispatch(r)
      /\ InCombine(r)' <=> InDispatch(r)
      /\ RoundOf(place[r])' = IF InDispatch(r) THEN RoundOf(place[r]) ELSE RoundOf(place[r]) + 1
      /\ RoundOf(place[r]) \in Nat
  BY StartIs, PlaceFacts DEF Started
<1>3. \A p : ~Sent(r, p)'
  BY StartedFacts
<1>4. ASSUME NEW p \in Rank, InDispatch(r)
      PROVE  (Pending(r, p)' <=> Pending(r, p)) /\ RowsAt(r, p)' = RowsAt(r, p)
  <2>1. /\ place[r] > 0 /\ place[r] = Dispatch(r) /\ Sent(r, p) /\ Got(r, p)
        /\ \A w \in Items(r) : Past(r, w)
    BY <1>4, PlaceFacts, EndedFacts DEF Start, Dispatch
  <2>2. Items(r)' = Items(r) /\ Dispatch(r)' = Dispatch(r) /\ Items(r) \subseteq Nat
    BY <1>4, <2>1, StartSame, ItemsFit
  <2>3. \A w \in Items(r) : Past(r, w)'
    BY <1>4, <2>2, StartedFacts
  <2>4. RowsAt(r, p)' = RowsAt(r, p)
    BY <1>0, <2>1, <2>2, <2>3 DEF RowsAt
  <2>5. PICK n : n = Dispatch(r)
    OBVIOUS
  <2>6. GotAt(p, r, n)' <=> GotAt(p, r, n)
    <3>1. CASE p # r
      BY <3>1, StartViews
    <3>2. CASE p = r
      <4>1. GotAt(r, r, n)
        BY <2>1, <2>5, <3>2 DEF GotAt
      <4>2. place'[r] > n
        BY <1>0, <2>1, <2>5
      <4> QED
        BY <3>2, <4>1, <4>2 DEF GotAt
    <3> QED
      BY <3>1, <3>2
  <2>7. Pending(r, p) <=> ~GotAt(p, r, n)
    BY <2>1, <2>5 DEF Pending, SentAt
  <2>8. place'[r] > 0 /\ place'[r] > n
    BY <1>0, <2>1, <2>5
  <2>9. Pending(r, p)' <=> ~(GotAt(p, r, Dispatch(r)))'
    BY <2>2, <2>5, <2>8 DEF Pending, SentAt
  <2>10. (GotAt(p, r, Dispatch(r)))' <=> GotAt(p, r, n)'
    BY <2>2, <2>5 DEF GotAt
  <2> QED
    BY <2>4, <2>6, <2>7, <2>9, <2>10
<1>5. ASSUME NEW p \in Rank, ~InDispatch(r)
      PROVE  ~Pending(r, p)' /\ ~Pending(r, p) /\ RowsAt(r, p)' = {}
  <2>1. place[r] = 2 * RoundOf(place[r])
    <3>1. CASE place[r] > 0
      BY <1>5, <3>1, PlaceFacts
    <3>2. CASE place[r] = 0
      BY <3>2, PlaceFacts
    <3> QED
      BY <1>0, <3>1, <3>2
  <2>2. Dispatch(r)' = place'[r]
    <3>1. Dispatch(r)' = 2 * (RoundOf(place[r]) + 1) - 1
      BY <1>2, <1>5 DEF Dispatch
    <3> QED
      BY <1>0, <1>2, <2>1, <3>1
  <2>3. ~Pending(r, p)'
    <3>1. (SentAt(r, p, Dispatch(r)))' <=> place'[r] > Dispatch(r)' \/ (place'[r] = Dispatch(r)' /\ Sent(r, p)')
      BY DEF SentAt
    <3>2. ~(place'[r] > place'[r])
      BY <1>0
    <3> QED
      BY <1>3, <2>2, <3>1, <3>2 DEF Pending
  <2>4. ~Pending(r, p)
    <3>1. SUFFICES ASSUME place[r] > 0 PROVE GotAt(p, r, Dispatch(r))
      BY DEF Pending
    <3>2. place[p] \in Nat /\ (place[p] > place[r] \/ place[p] = place[r])
      BY <3>1, EndedFacts, PlaceFacts DEF Start, SentAt
    <3>3. Dispatch(r) = place[r] - 1
      BY <2>1 DEF Dispatch
    <3>4. place[p] > Dispatch(r)
      BY <1>0, <3>2, <3>3
    <3> QED
      BY <3>4 DEF GotAt
  <2>5. \A w \in Items(r)' : ~Past(r, w)'
    <3>1. Items(r)' \subseteq Nat
      BY DEF Items
    <3>2. \A w \in Nat : ~Past(r, w)'
      BY <1>5, StartedFacts
    <3> QED
      BY <3>1, <3>2
  <2>6. RowsAt(r, p)' = {}
    BY <2>5 DEF RowsAt
  <2> QED
    BY <2>3, <2>4, <2>6
<1>6. ASSUME NEW p \in Rank
      PROVE  /\ recvNum[p][r] = IF Pending(r, p)' THEN Cardinality(RowsAt(r, p)') + 1 ELSE 0
             /\ destCtr[r][p] = IF InDispatch(r)' /\ pc'[r][0] \in BeforeReceive
                                THEN Cardinality(RowsAt(r, p)') ELSE 0
             /\ xdbMem[p][r] = IF InCombine(r)' /\ Sent(r, p)' THEN RoundOf(place[r])'
                               ELSE IF place'[r] = 0 THEN 0 ELSE RoundOf(place[r])' - 1
  <2>1. /\ recvNum[p][r] = IF Pending(r, p) THEN Cardinality(RowsAt(r, p)) + 1 ELSE 0
        /\ destCtr[r][p] = IF InDispatch(r) /\ pc[r][0] \in BeforeReceive
                           THEN Cardinality(RowsAt(r, p)) ELSE 0
        /\ xdbMem[p][r] = IF InCombine(r) /\ Sent(r, p) THEN RoundOf(place[r])
                          ELSE IF place[r] = 0 THEN 0 ELSE RoundOf(place[r]) - 1
    BY DEF Counts
  <2>2. place[r] > 0 => pc[r][0] = "ended" /\ Sent(r, p)
    BY EndedFacts DEF Start
  <2>3. destCtr[r][p] = 0
    <3>1. InDispatch(r) => place[r] > 0
      BY PlaceFacts
    <3>2. "ended" \notin BeforeReceive
      BY DEF BeforeReceive, BeforeSignal, Claiming
    <3> QED
      BY <2>1, <2>2, <3>1, <3>2
  <2>4. Cardinality({}) = 0
    BY FS_EmptySet
  <2>5. place'[r] # 0
    BY <1>0
  <2>6. xdbMem[p][r] = RoundOf(place[r])' - 1
    <3>1. CASE InDispatch(r)
      <4>1. place[r] > 0 /\ ~InCombine(r)
        BY <3>1, PlaceFacts
      <4> QED
        BY <1>2, <2>1, <3>1, <4>1
    <3>2. CASE ~InDispatch(r)
      <4>1. RoundOf(place[r])' - 1 = RoundOf(place[r])
        BY <1>2, <3>2
      <4>2. CASE place[r] > 0
        <5>1. InCombine(r)
          BY <3>2, <4>2, PlaceFacts
        <5> QED
          BY <2>1, <2>2, <4>1, <4>2, <5>1
      <4>3. CASE place[r] = 0
        <5>1. RoundOf(place[r]) = 0 /\ ~InCombine(r)
          BY <4>3, PlaceFacts DEF InCombine
        <5> QED
          BY <2>1, <4>1, <4>3, <5>1
      <4> QED
        BY <1>0, <4>2, <4>3
    <3> QED
      BY <3>1, <3>2
  <2>7. CASE InDispatch(r)
    BY <1>2, <1>3, <1>4, <2>1, <2>3, <2>5, <2>6, <2>7
  <2>8. CASE ~InDispatch(r)
    BY <1>2, <1>3, <1>5, <2>1, <2>3, <2>4, <2>5, <2>6, <2>8
  <2> QED
    BY <2>7, <2>8
<1>7. ASSUME NEW p \in Rank, NEW q \in Rank
      PROVE  /\ recvNum'[p][q] = IF Pending(q, p)' THEN Cardinality(RowsAt(q, p)') + 1 ELSE 0
             /\ destCtr'[q][p] = IF InDispatch(q)' /\ pc'[q][0] \in BeforeReceive
                                 THEN Cardinality(RowsAt(q, p)') ELSE 0
             /\ xdbMem'[p][q] = IF InCombine(q)' /\ Sent(q, p)' THEN RoundOf(place[q])'
                                ELSE IF place'[q] = 0 THEN 0 ELSE RoundOf(place[q])' - 1
  <2>1. CASE q = r
    BY <1>0, <1>6, <2>1
  <2>2. CASE q # r
    <3>1. /\ recvNum[p][q] = IF Pending(q, p) THEN Cardinality(RowsAt(q, p)) + 1 ELSE 0
          /\ destCtr[q][p] = IF InDispatch(q) /\ pc[q][0] \in BeforeReceive
                             THEN Cardinality(RowsAt(q, p)) ELSE 0
          /\ xdbMem[p][q] = IF InCombine(q) /\ Sent(q, p) THEN RoundOf(place[q])
                            ELSE IF place[q] = 0 THEN 0 ELSE RoundOf(place[q]) - 1
      BY DEF Counts
    <3> QED
      BY <1>0, <1>1, <2>2, <3>1
  <2> QED
    BY <2>1, <2>2
<1> QED
  BY <1>7 DEF Counts

\* An item that is on its way, or has arrived, after a start was so before it.
LEMMA StartItems ==
  ASSUME InTurn, Typed, Ranks, Meets, NEW r \in Rank, Start(r), NEW q \in Rank,
         NEW w \in Items(q)', place'[q] > 0, Claimed(q, w)'
  PROVE  /\ place[q] > 0 /\ RoundOf(place[q])' = RoundOf(place[q]) /\ w \in Items(q)
         /\ Claimed(q, w) /\ (Past(q, w)' => Past(q, w))
         /\ (Dup(q, w)' <=> Dup(q, w)) /\ Goes(q, w)' = Goes(q, w) /\ Sends(q, w)' = Sends(q, w)
         /\ Holding(q, w)' =>
              Holding(q, w) /\ q # r /\ reg'[q] = reg[q] /\ BlockOf(q, w)' = BlockOf(q, w)
<1>1. CASE q # r
  BY <1>1, StartOthers, StartViews
<1>2. CASE q = r
  <2>1. w \in Nat
    BY DEF Items
  <2>2. InDispatch(r)
    <3>1. SUFFICES ASSUME ~InDispatch(r) PROVE FALSE
      OBVIOUS
    <3>2. ~Past(r, w)' /\ ~Holding(r, w)'
      BY <2>1, <3>1, StartedFacts
    <3> QED
      BY <1>2, <3>2 DEF Claimed
  <2>3. place[r] > 0 /\ \A v \in Items(r) : Past(r, v)
    BY <2>2, PlaceFacts, EndedFacts DEF Start
  <2>4. /\ RoundOf(place[r])' = RoundOf(place[r]) /\ Items(r)' = Items(r)
        /\ (Dup(r, w)' <=> Dup(r, w)) /\ Goes(r, w)' = Goes(r, w) /\ Sends(r, w)' = Sends(r, w)
    BY <2>2, StartSame
  <2>5. ~Holding(r, w)'
    BY <2>1, <2>2, StartedFacts
  <2> QED
    BY <1>2, <2>3, <2>4, <2>5 DEF Claimed
<1> QED
  BY <1>1, <1>2

\* No item leaves its round but with it.
LEMMA StartKept ==
  ASSUME InTurn, Typed, Ranks, Meets, NEW r \in Rank, Start(r), NEW q \in Rank,
         q # r \/ InDispatch(r), NEW w \in Items(q)
  PROVE  /\ place[q] > 0 => place'[q] > 0
         /\ RoundOf(place[q])' = RoundOf(place[q]) /\ w \in Items(q)'
         /\ (Claimed(q, w) => Claimed(q, w)') /\ (Past(q, w) => Past(q, w)')
         /\ (Dup(q, w)' <=> Dup(q, w)) /\ Goes(q, w)' = Goes(q, w)
<1>1. CASE q # r
  BY <1>1, StartOthers, StartViews
<1>2. CASE q = r
  <2>1. w \in Nat
    BY DEF Items
  <2>2. InDispatch(r)
    BY <1>2
  <2>3. /\ RoundOf(place[r])' = RoundOf(place[r]) /\ Items(r)' = Items(r)
        /\ (Dup(r, w)' <=> Dup(r, w)) /\ Goes(r, w)' = Goes(r, w)
    BY <2>2, StartSame
  <2>4. Past(r, w)'
    BY <2>1, <2>2, StartedFacts
  <2>5. place'[r] > 0
    BY StartIs DEF Started
  <2> QED
    BY <1>2, <2>3, <2>4, <2>5 DEF Claimed
<1> QED
  BY <1>1, <1>2

LEMMA StartCountRound ==
  ASSUME InTurn, Typed, Ranks, Meets, NEW r \in Rank, Start(r), NEW p \in Rank
  PROVE  /\ CountRound(p)' = CountRound(p)
         /\ ~InDispatch(r) /\ place[r] > 0 => CountRound(p) # RoundOf(place[r])
<1>1. CountRound(p)' = CountRound(p)
  <2>1. CASE p # r
    BY <2>1, StartViews
  <2>2. CASE p = r
    <3>1. CountRound(r)' = RoundOf(place[r]) + 1
      BY StartedFacts
    <3>2. CountRound(r) = RoundOf(place[r]) + 1
      <4>1. CASE place[r] > 0
        BY <4>1, EndedFacts DEF Start
      <4>2. CASE place[r] = 0
        BY <4>2 DEF CountRound, InDispatch
      <4> QED
        BY <4>1, <4>2, PlaceFacts
    <3> QED
      BY <2>2, <3>1, <3>2
  <2> QED
    BY <2>1, <2>2
<1>2. ASSUME ~InDispatch(r), place[r] > 0
      PROVE  CountRound(p) # RoundOf(place[r])
  <2>1. /\ place[r] \in Nat /\ place[p] \in Nat /\ RoundOf(place[r]) \in Nat /\ RoundOf(place[p]) \in Nat
        /\ place[r] = 2 * RoundOf(place[r])
    BY <1>2, PlaceFacts
  <2>2. place[p] > place[r] \/ place[p] = place[r]
    BY <1>2, EndedFacts DEF Start, SentAt
  <2>3. CASE InDispatch(p) /\ pc[p][0] \in BeforeRewind
    <3>1. place[p] = 2 * RoundOf(place[p]) - 1
      BY <2>3, PlaceFacts
    <3>2. RoundOf(place[p]) # RoundOf(place[r])
      BY <2>1, <2>2, <3>1
    <3> QED
      BY <2>3, <3>2 DEF CountRound
  <2>4. CASE ~(InDispatch(p) /\ pc[p][0] \in BeforeRewind)
    <3>1. RoundOf(place[r]) <= RoundOf(place[p])
      BY <2>1, <2>2, SameRound
    <3>2. RoundOf(place[p]) + 1 # RoundOf(place[r])
      BY <2>1, <3>1
    <3> QED
      BY <2>4, <3>2 DEF CountRound
  <2> QED
    BY <2>3, <2>4
<1> QED
  BY <1>1, <1>2

LEMMA StartTicketed ==
  ASSUME InTurn, Typed, Ranks, Meets, Ticketed, NEW r \in Rank, Start(r)
  PROVE  Ticketed'
<1>0. tokOff' = tokOff /\ tokMap' = tokMap
  BY StartIs DEF dispatchVars
<1>1. ASSUME NEW p \in Rank, NEW q \in Rank, NEW w \in AllItems
      PROVE  <<q, w>> \in Tickets(p)' <=> <<q, w>> \in Tickets(p)
  <2>1. <<q, w>> \in Tickets(p) <=>
           /\ place[q] > 0 /\ RoundOf(place[q]) = CountRound(p)
           /\ w \in Items(q) /\ ~Dup(q, w) /\ Goes(q, w) = p /\ Claimed(q, w)
    BY TicketIs
  <2>2. <<q, w>> \in Tickets(p)' <=>
           /\ place'[q] > 0 /\ RoundOf(place[q])' = CountRound(p)'
           /\ w \in Items(q)' /\ ~Dup(q, w)' /\ Goes(q, w)' = p /\ Claimed(q, w)'
    BY DEF Tickets
  <2>3. CountRound(p)' = CountRound(p)
    BY StartCountRound
  <2>4. ASSUME <<q, w>> \in Tickets(p)' PROVE <<q, w>> \in Tickets(p)
    BY <2>1, <2>2, <2>3, <2>4, StartItems
  <2>5. ASSUME <<q, w>> \in Tickets(p) PROVE <<q, w>> \in Tickets(p)'
    <3>1. q # r \/ InDispatch(r)
      <4>1. SUFFICES ASSUME q = r, ~InDispatch(r) PROVE FALSE
        OBVIOUS
      <4>2. place[r] > 0 /\ RoundOf(place[r]) = CountRound(p)
        BY <2>1, <2>5, <4>1
      <4> QED
        BY <4>1, <4>2, StartCountRound
    <3> QED
      BY <2>1, <2>2, <2>3, <2>5, <3>1, StartKept
  <2> QED
    BY <2>4, <2>5
<1>2. ASSUME NEW p \in Rank PROVE TicketedAt(p)'
  <2>1. Tickets(p)' = Tickets(p)
    <3>1. Tickets(p)' \subseteq Rank \X AllItems /\ Tickets(p) \subseteq Rank \X AllItems
      BY DEF Tickets
    <3> QED
      BY <1>1, <3>1
  <2>2. TicketedAt(p)
    BY DEF Ticketed, TicketedAt
  <2> QED
    BY <1>0, <2>1, <2>2, TicketedSame
<1> QED
  BY <1>2 DEF Ticketed, TicketedAt

LEMMA StartMapped ==
  ASSUME InTurn, Typed, Ranks, Meets, Mapped, NEW r \in Rank, Start(r)
  PROVE  Mapped'
<1>0. tokMap' = tokMap
  BY StartIs DEF dispatchVars
<1>1. ASSUME NEW q \in Rank, place'[q] > 0, NEW w \in Items(q)'
      PROVE  MappedAt(q, w)'
  <2>1. CASE ~Claimed(q, w)'
    BY <2>1 DEF MappedAt, Claimed
  <2>2. CASE Claimed(q, w)'
    <3>1. /\ place[q] > 0 /\ w \in Items(q) /\ Claimed(q, w)
          /\ (Dup(q, w)' <=> Dup(q, w)) /\ Goes(q, w)' = Goes(q, w)
          /\ Holding(q, w)' =>
               Holding(q, w) /\ q # r /\ reg'[q] = reg[q] /\ BlockOf(q, w)' = BlockOf(q, w)
      BY <1>1, <2>2, StartItems
    <3>2. MappedAt(q, w)
      BY <3>1, MappedIs
    <3> QED
      BY <1>0, <3>1, <3>2 DEF MappedAt
  <2> QED
    BY <2>1, <2>2
<1> QED
  BY <1>1 DEF Mapped, MappedAt

LEMMA StartUnique ==
  ASSUME InTurn, Typed, Ranks, Meets, Unique, NEW r \in Rank, Start(r)
  PROVE  Unique'
<1>0. tokMap' = tokMap
  BY StartIs DEF dispatchVars
<1>1. ASSUME NEW p \in Rank, NEW q \in Rank, place'[p] > 0, place'[q] > 0,
             RoundOf(place[p])' = RoundOf(place[q])',
             NEW w \in Items(p)', NEW v \in Items(q)',
             Claimed(p, w)', Claimed(q, v)', tokMap[p][w] = tokMap[q][v], tokMap[p][w] # Dropped
      PROVE  p = q /\ w = v
  <2>1. place[p] > 0 /\ RoundOf(place[p])' = RoundOf(place[p]) /\ w \in Items(p) /\ Claimed(p, w)
    BY <1>1, StartItems
  <2>2. place[q] > 0 /\ RoundOf(place[q])' = RoundOf(place[q]) /\ v \in Items(q) /\ Claimed(q, v)
    BY <1>1, StartItems
  <2> QED
    BY <1>1, <2>1, <2>2 DEF Unique
<1> QED
  BY <1>0, <1>1 DEF Unique

LEMMA StartFilled ==
  ASSUME InTurn, Typed, Ranks, Meets, Filled, NEW r \in Rank, Start(r)
  PROVE  Filled'
<1>0. tokMap' = tokMap /\ recvTok' = recvTok
  BY StartIs DEF dispatchVars
<1>1. \A q \in Rank : RoundOf(place[q]) \in Nat /\ RoundOf(place[q]) <= RoundOf(place[q])'
  <2>1. ASSUME NEW q \in Rank PROVE RoundOf(place[q]) \in Nat /\ RoundOf(place[q]) <= RoundOf(place[q])'
    <3>1. RoundOf(place[q]) \in Nat
      BY PlaceFacts
    <3>2. RoundOf(place[q])' = RoundOf(place[q]) \/ RoundOf(place[q])' = RoundOf(place[q]) + 1
      BY StartOthers, StartIs DEF Started
    <3> QED
      BY <3>1, <3>2
  <2> QED
    BY <2>1
<1>2. ASSUME NEW p \in Rank, place'[p] > 0, \A q \in Rank : RoundOf(place[q])' <= RoundOf(place[p])',
             NEW w \in Items(p)', Past(p, w)', tokMap[p][w] # Dropped
      PROVE  recvTok[tokMap[p][w].pe][tokMap[p][w].id] = Sends(p, w)'
  <2>1. Claimed(p, w)'
    BY <1>2 DEF Claimed
  <2>2. /\ place[p] > 0 /\ RoundOf(place[p])' = RoundOf(place[p]) /\ w \in Items(p)
        /\ Past(p, w) /\ Sends(p, w)' = Sends(p, w)
    BY <1>2, <2>1, StartItems
  <2>3. ASSUME NEW q \in Rank PROVE RoundOf(place[q]) <= RoundOf(place[p])
    <3>1. RoundOf(place[q])' <= RoundOf(place[p]) /\ RoundOf(place[q]) <= RoundOf(place[q])'
      BY <1>1, <1>2, <2>2
    <3>2. RoundOf(place[q]) \in Nat /\ RoundOf(place[p]) \in Nat
      BY <1>1
    <3>3. RoundOf(place[q])' = RoundOf(place[q]) \/ RoundOf(place[q])' = RoundOf(place[q]) + 1
      BY StartOthers, StartIs DEF Started
    <3> QED
      BY <3>1, <3>2, <3>3
  <2> QED
    BY <1>2, <2>2, <2>3 DEF Filled
<1> QED
  BY <1>0, <1>2 DEF Filled

LEMMA StartTotals ==
  ASSUME InTurn, Typed, Ranks, Meets, Totals, NEW r \in Rank, Start(r)
  PROVE  Totals'
<1>0. totalRecv' = totalRecv
  BY StartIs
<1>1. ASSUME NEW p \in Rank PROVE TotalsAt(p)'
  <2>0. TotalsAt(p)
    BY DEF Totals, TotalsAt
  <2>1. CASE p # r
    <3>1. /\ pc'[p] = pc[p] /\ reg'[p] = reg[p] /\ Blocks(p)' = Blocks(p)
          /\ (InDispatch(p)' <=> InDispatch(p)) /\ (InCombine(p)' <=> InCombine(p)) /\ Received(p)' = Received(p)
          /\ (Holds(p)' <=> Holds(p)) /\ (Summing(p)' <=> Summing(p))
      BY <2>1, StartOthers, StartViews
    <3> QED
      BY <1>0, <2>0, <3>1 DEF TotalsAt
  <2>2. CASE p = r
    <3>1. /\ InDispatch(r)' <=> ~InDispatch(r)
          /\ InCombine(r)' <=> InDispatch(r)
          /\ \A b \in Blocks(r)' : pc'[r][b] = IF InDispatch(r) THEN "load" ELSE "claim"
      BY StartIs DEF Started
    <3>2. CASE InDispatch(r)
      <4>1. Holds(r)
        BY <3>2, PlaceFacts, EndedFacts DEF Start
      <4>2. totalRecv[r] = Received(r)
        BY <2>0, <2>2, <3>2, <4>1 DEF TotalsAt
      <4>3. ~Summing(r)' /\ Received(r)' = Received(r)
        BY <3>2, StartedFacts, StartSame
      <4> QED
        BY <1>0, <2>2, <3>1, <3>2, <4>2, <4>3 DEF TotalsAt
    <3>3. CASE ~InDispatch(r)
      <4>1. ~Holds(r)'
        BY <3>3, StartedFacts
      <4>2. totalRecv[r] = 0
        <5>1. InCombine(r) => Summing(r)
          BY EndedFacts DEF Start, InCombine
        <5> QED
          BY <2>0, <2>2, <3>3, <5>1 DEF TotalsAt
      <4> QED
        BY <1>0, <2>2, <3>1, <3>3, <4>1, <4>2 DEF TotalsAt
    <3> QED
      BY <3>2, <3>3
  <2> QED
    BY <2>1, <2>2
<1> QED
  BY <1>1 DEF Totals, TotalsAt

\* A rank that holds its rows does not see another begin the next round.
LEMMA StartHolds ==
  ASSUME InTurn, Typed, Ranks, Meets, NEW r \in Rank, Start(r), NEW p \in Rank, Holds(p)'
  PROVE  Holds(p) /\ InDispatch(r) /\ Received(p)' = Received(p)
<1>1. CASE p = r
  <2>1. InDispatch(r)
    BY <1>1, StartedFacts
  <2> QED
    BY <1>1, <2>1, PlaceFacts, EndedFacts, StartSame DEF Start
<1>2. CASE p # r
  <2>1. Holds(p) /\ Received(p)' = Received(p)
    BY <1>2, StartViews, StartOthers
  <2>2. ASSUME ~InDispatch(r) PROVE FALSE
    <3>1. place[r] > 0 /\ RoundOf(place[r]) = RoundOf(place[p]) /\ place[p] > 0
      BY <2>1, Settled
    <3>2. InCombine(r) /\ SentAt(p, r, place[r]) /\ place[r] \in Nat /\ place[p] \in Nat
      BY <2>2, <3>1, PlaceFacts, EndedFacts DEF Start
    <3>3. place[r] = 2 * RoundOf(place[r]) /\ RoundOf(place[r]) \in Nat
      BY <3>2, PlaceFacts
    <3>4. place[p] <= place[r]
      <4>1. place[p] = 2 * RoundOf(place[p]) \/ place[p] = 2 * RoundOf(place[p]) - 1
        BY <3>1, PlaceFacts
      <4> QED
        BY <3>1, <3>2, <3>3, <4>1
    <3>5. place[p] = place[r] /\ Sent(p, r)
      BY <3>2, <3>4 DEF SentAt
    <3>6. InCombine(p) /\ ~InDispatch(p)
      BY <3>2, <3>5, PlaceFacts DEF InCombine
    <3>7. pc[p][0] \in BeforePost
      BY <2>1, <3>6 DEF Holds
    <3> QED
      BY <3>5, <3>7 DEF Sent
  <2> QED
    BY <2>1, <2>2
<1> QED
  BY <1>1, <1>2

LEMMA StartRows ==
  ASSUME InTurn, Typed, Ranks, Meets, Rows, NEW r \in Rank, Start(r)
  PROVE  Rows'
<1>0. tokMap' = tokMap
  BY StartIs DEF dispatchVars
<1>1. ASSUME NEW p \in Rank, Holds(p)' PROVE RowsOf(p)'
  <2>1. Holds(p) /\ InDispatch(r) /\ Received(p)' = Received(p)
    BY <1>1, StartHolds
  <2>2. RowsOf(p)
    BY <2>1 DEF Rows, RowsOf
  <2>3. \A q \in Rank : place[q] > 0 /\ RoundOf(place[q])' = RoundOf(place[q]) /\ Items(q)' = Items(q)
    BY <2>1, Settled, StartOthers, StartSame
  <2>4. ASSUME NEW i \in 0..(Received(p) - 1)
        PROVE  \E q \in Rank : \E w \in Items(q)' :
                 RoundOf(place[q])' = RoundOf(place[p])' /\ Past(q, w)' /\ tokMap[q][w] = [pe |-> p, id |-> i]
    <3>1. PICK q, w : /\ q \in Rank /\ w \in Items(q) /\ RoundOf(place[q]) = RoundOf(place[p])
                      /\ Past(q, w) /\ tokMap[q][w] = [pe |-> p, id |-> i]
      BY <2>2 DEF RowsOf
    <3>2. Past(q, w)'
      BY <2>1, <3>1, StartKept
    <3> QED
      BY <2>3, <3>1, <3>2
  <2>5. ASSUME NEW q \in Rank, NEW w \in Items(q)', Past(q, w)', tokMap[q][w].pe = p
        PROVE  tokMap[q][w].id < Received(p)
    <3>1. place'[q] > 0
      <4>1. place[q] > 0 /\ place[q] \in Nat
        BY <2>3, PlaceFacts
      <4>2. place'[q] = place[q] \/ place'[q] = place[q] + 1
        BY StartOthers, StartIs DEF Started
      <4> QED
        BY <4>1, <4>2
    <3>2. Past(q, w) /\ w \in Items(q)
      BY <2>5, <3>1, StartItems DEF Claimed
    <3> QED
      BY <2>2, <2>5, <3>2 DEF RowsOf
  <2> QED
    BY <1>0, <2>1, <2>4, <2>5 DEF RowsOf
<1> QED
  BY <1>1 DEF Rows, RowsOf

LEMMA StartKeeps ==
  ASSUME InTurn, Delivering, NEW r \in Rank, Start(r)
  PROVE  Delivering'
<1> USE DEF Delivering
<1>1. Typed' /\ Meets' /\ Counts'
  BY StartTyped, StartMeets, StartCounts
<1>2. Ranks'
  BY StartShaped, StartBarriers, StartFlags DEF Ranks
<1>3. Ticketed' /\ Mapped' /\ Unique' /\ Filled'
  BY StartTicketed, StartMapped, StartUnique, StartFilled
<1>4. Totals' /\ Rows'
  BY StartTotals, StartRows
<1> QED
  BY <1>1, <1>2, <1>3, <1>4

-----------------------------------------------------------------------------
(* The invariant holds, and what it says of rows that have arrived.        *)

LEMMA InitTyped ==
  ASSUME Init, Cleared
  PROVE  Typed
<1>1. mode \in Modes /\ route \in Routes /\ place \in [Rank -> 0..Len(Program)]
  BY ConstantFacts DEF Init
<1>2. DOMAIN pc = Rank /\ DOMAIN work = Rank /\ DOMAIN reg = Rank /\ DOMAIN todo = Rank
  BY DEF Init
<1>3. /\ tokOff \in [Rank -> Nat] /\ xdbFlag \in [Rank -> Nat] /\ DOMAIN totalRecv = Rank
      /\ destCtr \in [Rank -> [Rank -> Nat]] /\ recvNum \in [Rank -> [Rank -> Nat]]
      /\ xdbMem \in [Rank -> [Rank -> Nat]]
      /\ bar \in [Rank -> [disp : Nat, comb : Nat, grid : Nat]]
  <2>1. tokOff \in [Rank -> Nat]
    BY DEF Init, Cleared
  <2>2. recvNum \in [Rank -> [Rank -> Nat]]
    BY DEF Init, Cleared
  <2> QED
    BY <2>1, <2>2 DEF Init
<1>4. tokMap \in [Rank -> [AllItems -> [pe : 0..World, id : Nat]]]
  <2>1. Dropped \in [pe : 0..World, id : Nat]
    BY ConstantFacts DEF Dropped
  <2> QED
    BY <2>1 DEF Init, AllItems
<1>5. recvTok \in [Rank -> [0..(MaxRecv - 1) -> Token]]
  <2>1. 0 \in Round /\ 0 \in 0..MaxTok
    <3>1. IsFiniteSet({i \in Place : Program[i] = "dispatch"})
      <4>1. IsFiniteSet(Place)
        BY ConstantFacts, FS_Interval DEF Place
      <4> QED
        BY <4>1, FS_Subset
    <3>2. Cardinality({i \in Place : Program[i] = "dispatch"}) \in Nat
      BY <3>1, FS_CardinalityType
    <3> QED
      BY <3>2, ConstantFacts DEF Round
  <2>2. Nothing \in Token
    BY <2>1, ConstantFacts DEF Nothing, Token
  <2> QED
    BY <2>2 DEF Init
<1>6. packed \in [Rank -> [Expert -> Seq(Token)]]
  <2>1. [e \in Expert |-> <<>>] \in [Expert -> Seq(Token)]
    OBVIOUS
  <2> QED
    BY <2>1 DEF Init
<1>7. /\ DOMAIN slotMap = Rank /\ DOMAIN inp = Rank /\ DOMAIN combInp = Rank /\ DOMAIN out = Rank
      /\ \A r \in Rank :
           /\ DOMAIN slotMap[r] = 0..(MaxRecv * TopK - 1)
           /\ DOMAIN inp[r] = 0..(MaxRecv - 1)
           /\ DOMAIN combInp[r] = 0..(World * MaxTok - 1)
           /\ DOMAIN out[r] = 1..MaxTok
  BY DEF Init, NoSums
<1> QED
  BY <1>1, <1>2, <1>3, <1>4, <1>5, <1>6, <1>7 DEF Typed

LEMMA InitDelivering ==
  ASSUME InTurn, Init, Cleared
  PROVE  Delivering
<1>1. Typed
  BY InitTyped
<1>2. \A r \in Rank :
        /\ place[r] = 0 /\ ~InDispatch(r) /\ ~InCombine(r) /\ RoundOf(place[r]) = 0
        /\ pc[r] = <<>> /\ work[r] = <<>> /\ reg[r] = <<>> /\ todo[r] = <<>> /\ Blocks(r) = {}
  <2>1. ASSUME NEW r \in Rank
        PROVE  /\ place[r] = 0 /\ pc[r] = <<>> /\ work[r] = <<>> /\ reg[r] = <<>> /\ todo[r] = <<>>
    BY DEF Init
  <2> QED
    BY <1>1, <2>1, PlaceFacts DEF InDispatch, InCombine, Blocks
<1>3. Ranks
  <2>1. ASSUME NEW r \in Rank PROVE Shaped(r) /\ Barriers(r) /\ Flags(r)
    <3>1. Shaped(r)
      <4>1. DOMAIN pc[r] = {} /\ DOMAIN work[r] = {} /\ DOMAIN reg[r] = {} /\ DOMAIN todo[r] = {}
        BY <1>2
      <4> QED
        BY <1>2, <4>1 DEF Shaped
    <3>2. Barriers(r)
      BY <1>2 DEF Init, Barriers
    <3>3. Flags(r)
      BY <1>2 DEF Init, Flags
    <3> QED
      BY <3>1, <3>2, <3>3
  <2> QED
    BY <2>1 DEF Ranks
<1>4. Meets
  BY <1>2 DEF Meets
<1>5. Counts
  <2>1. \A q, p \in Rank : ~Pending(q, p)
    BY <1>2 DEF Pending
  <2>2. \A q, p \in Rank : recvNum[p][q] = 0 /\ destCtr[q][p] = 0 /\ xdbMem[p][q] = 0
    BY DEF Init, Cleared
  <2> QED
    BY <1>2, <2>1, <2>2 DEF Counts
<1>6. Ticketed
  <2>1. \A p : Tickets(p) = {}
    BY <1>2 DEF Tickets
  <2>2. Cardinality({}) = 0 /\ \A p \in Rank : tokOff[p] = 0
    BY FS_EmptySet DEF Cleared
  <2>3. \A id \in 0..(MaxRecv - 1) : ~(id < 0)
    BY ConstantFacts
  <2> QED
    BY <2>1, <2>2, <2>3 DEF Ticketed
<1>7. Mapped /\ Unique /\ Filled
  <2>1. \A r \in Rank : ~(place[r] > 0)
    BY <1>2
  <2> QED
    BY <2>1 DEF Mapped, Unique, Filled
<1>8. Totals
  <2>1. \A p \in Rank : totalRecv[p] = 0
    BY DEF Init
  <2> QED
    BY <1>2, <2>1 DEF Totals
<1>9. Rows
  BY <1>2 DEF Rows, Holds
<1> QED
  BY <1>1, <1>3, <1>4, <1>5, <1>6, <1>7, <1>8, <1>9 DEF Delivering

LEMMA WorksKeeps ==
  ASSUME InTurn, Delivering, NEW r \in Rank, Works(r)
  PROVE  Delivering'
BY TypedKeeps, RanksKeep, MeetsKeep, CountsKeep, TicketedKeeps, MappedKeeps, UniqueKeeps, FilledKeeps,
   TotalsKeep, RowsKeep DEF Delivering

LEMMA StutterKeeps ==
  ASSUME Delivering, UNCHANGED vars
  PROVE  Delivering'
<1>1. /\ UNCHANGED <<mode, route, place, pc, work, reg, todo, tokOff, destCtr, bar, recvNum, totalRecv>>
      /\ UNCHANGED <<tokMap, recvTok, packed, slotMap, inp, combInp, combWts, xdbFlag, xdbMem, out, outWts>>
  BY DEF vars, blockVars, dispatchVars, stdVars, combineVars
<1>2. ASSUME NEW q
      PROVE  /\ Blocks(q)' = Blocks(q) /\ (InDispatch(q)' <=> InDispatch(q)) /\ (InCombine(q)' <=> InCombine(q))
             /\ RoundOf(place[q])' = RoundOf(place[q]) /\ Dispatch(q)' = Dispatch(q)
             /\ Tokens(q)' = Tokens(q) /\ Items(q)' = Items(q) /\ Received(q)' = Received(q)
  BY <1>1 DEF Blocks, InDispatch, InCombine, Dispatch, Tokens, Items, Received, Routed, Experts
<1>3. ASSUME NEW q, NEW w
      PROVE  /\ BlockOf(q, w)' = BlockOf(q, w) /\ (Dup(q, w)' <=> Dup(q, w))
             /\ Goes(q, w)' = Goes(q, w) /\ Sends(q, w)' = Sends(q, w)
             /\ (Past(q, w)' <=> Past(q, w)) /\ (Holding(q, w)' <=> Holding(q, w))
             /\ (Claimed(q, w)' <=> Claimed(q, w))
  BY <1>1, <1>2 DEF BlockOf, Dup, Goes, Sends, Tokens, Past, Through, Holding, Claimed
<1>4. Typed' /\ Ranks'
  <2>1. Typed'
    BY <1>1 DEF Delivering, Typed
  <2>2. ASSUME NEW q \in Rank PROVE Shaped(q)' /\ Barriers(q)' /\ Flags(q)'
    <3>1. Shaped(q) /\ Barriers(q) /\ Flags(q)
      BY DEF Delivering, Ranks
    <3>2. Shaped(q)'
      BY <1>1, <1>2, <1>3, <3>1 DEF Shaped, Fits
    <3>3. \A S : Beyond(q, S)' = Beyond(q, S)
      BY <1>1, <1>2 DEF Beyond
    <3> QED
      BY <1>1, <1>2, <3>1, <3>2, <3>3 DEF Barriers, Flags
  <2> QED
    BY <2>1, <2>2 DEF Ranks
<1>5. ASSUME NEW q, NEW p
      PROVE  /\ (Sent(q, p)' <=> Sent(q, p)) /\ (Got(q, p)' <=> Got(q, p)) /\ (Pending(q, p)' <=> Pending(q, p))
             /\ RowsAt(q, p)' = RowsAt(q, p)
  <2>1. /\ Sent(q, p)' <=> Sent(q, p)
        /\ Got(q, p)' <=> Got(q, p)
        /\ Got(p, q)' <=> Got(p, q)
    BY <1>1, <1>2 DEF Sent, Got, Had
  <2>2. Pending(q, p)' <=> Pending(q, p)
    BY <1>1, <1>2, <2>1 DEF Pending, SentAt, GotAt
  <2>3. RowsAt(q, p)' = RowsAt(q, p)
    BY <1>1, <1>2, <1>3 DEF RowsAt
  <2> QED
    BY <2>1, <2>2, <2>3
<1>6. Meets' /\ Counts'
  BY <1>1, <1>2, <1>5 DEF Delivering, Meets, Counts, SentAt
<1>7. Ticketed'
  <2>1. ASSUME NEW p PROVE CountRound(p)' = CountRound(p) /\ Tickets(p)' = Tickets(p)
    BY <1>1, <1>2, <1>3 DEF CountRound, Tickets
  <2> QED
    BY <1>1, <2>1 DEF Delivering, Ticketed, RowOf
<1>8. Mapped' /\ Unique' /\ Filled'
  BY <1>1, <1>2, <1>3 DEF Delivering, Mapped, Unique, Filled
<1>9. Totals' /\ Rows'
  <2>1. \A p : (Holds(p)' <=> Holds(p)) /\ (Summing(p)' <=> Summing(p))
    BY <1>1, <1>2 DEF Holds, Summing
  <2> QED
    BY <1>1, <1>2, <1>3, <2>1 DEF Delivering, Totals, Rows
<1> QED
  BY <1>4, <1>6, <1>7, <1>8, <1>9 DEF Delivering

LEMMA Invariance ==
  ASSUME InTurn
  PROVE  Spec /\ Cleared => []Delivering
<1>1. Init /\ Cleared => Delivering
  BY InitDelivering
<1>2. Delivering /\ [Next]_vars => Delivering'
  <2> SUFFICES ASSUME Delivering, [Next]_vars PROVE Delivering'
    OBVIOUS
  <2>1. CASE UNCHANGED vars
    BY <2>1, StutterKeeps
  <2>2. CASE Next
    <3>1. PICK r \in Rank : Start(r) \/ DispatchStep(r) \/ CombineStep(r)
      BY <2>2 DEF Next
    <3>2. CASE Start(r)
      BY <3>2, StartKeeps
    <3>3. CASE Works(r)
      BY <3>3, WorksKeeps
    <3> QED
      BY <3>1, <3>2, <3>3 DEF Works
  <2> QED
    BY <2>1, <2>2
<1> QED
  BY <1>1, <1>2, PTL DEF Spec

\* Each row that a rank holds is that of one item.
LEMMA HeldRow ==
  ASSUME InTurn, Delivering, NEW p \in Rank, Holds(p), NEW i \in 0..(Received(p) - 1)
  PROVE  \E q \in Rank : \E w \in Items(q) :
           /\ tokMap[q][w] = [pe |-> p, id |-> i] /\ recvTok[p][i] = Sends(q, w)
           /\ ~Dup(q, w) /\ Goes(q, w) = p /\ RoundOf(place[q]) = RoundOf(place[p])
<1>0. Typed /\ Ranks /\ Meets
  BY DEF Delivering
<1>1. PICK q, w : /\ q \in Rank /\ w \in Items(q) /\ Past(q, w) /\ tokMap[q][w] = [pe |-> p, id |-> i]
  BY DEF Delivering, Rows
<1>2. \A s \in Rank : place[s] > 0 /\ RoundOf(place[s]) = RoundOf(place[p])
  BY <1>0, Settled
<1>3. tokMap[q][w] # Dropped
  <2>1. p # World
    BY ConstantFacts
  <2> QED
    BY <1>1, <2>1 DEF Dropped
<1>4. Mapped /\ Filled
  BY DEF Delivering
<1>5. ~Dup(q, w) /\ tokMap[q][w].pe = Goes(q, w)
  BY <1>1, <1>2, <1>3, <1>4 DEF Mapped, Claimed
<1>6. \A s \in Rank : RoundOf(place[s]) <= RoundOf(place[q])
  <2>1. RoundOf(place[p]) \in Nat
    BY <1>0, PlaceFacts
  <2>2. \A s \in Rank : RoundOf(place[s]) = RoundOf(place[p])
    BY <1>2
  <2> QED
    BY <1>1, <2>1, <2>2
<1>7. recvTok[p][i] = Sends(q, w)
  BY <1>1, <1>2, <1>3, <1>4, <1>6 DEF Filled
<1>8. Goes(q, w) = p
  BY <1>1, <1>5
<1> QED
  BY <1>1, <1>2, <1>5, <1>7, <1>8

LEMMA HeldDelivered ==
  ASSUME InTurn, Delivering, NEW p \in Rank, Holds(p), totalRecv[p] = Received(p)
  PROVE  LET n == RoundOf(place[p])
             rows == 0..(totalRecv[p] - 1)
         IN  /\ totalRecv[p] = Least(MaxRecv, Cardinality(Routed(n, p)))
             /\ {recvTok[p][i] : i \in rows} \subseteq Routed(n, p)
             /\ Cardinality({recvTok[p][i] : i \in rows}) = totalRecv[p]
             /\ \A i \in rows : \E k \in KSlot :
                  tokMap[recvTok[p][i].src][(recvTok[p][i].tok - 1) * TopK + k] = [pe |-> p, id |-> i]
<1>0. Typed
  BY DEF Delivering
<1> DEFINE N == Received(p)
           I == 0..(N - 1)
           R == {recvTok[p][i] : i \in I}
           f == [i \in I |-> recvTok[p][i]]
<1>1. ASSUME NEW q \in Rank, NEW w \in Items(q), RoundOf(place[q]) = RoundOf(place[p]), Goes(q, w) = p
      PROVE  /\ Sends(q, w) \in Routed(RoundOf(place[p]), p) /\ SlotOf(w) \in KSlot
             /\ (Sends(q, w).tok - 1) * TopK + SlotOf(w) = w
  <2>1. place[q] > 0
    <3>1. place[p] > 0
      BY <1>0, PlaceFacts DEF Holds
    <3>2. RoundOf(place[p]) > 0
      BY <1>0, <3>1, PlaceFacts
    <3>3. place[q] \in Nat /\ RoundOf(place[p]) \in Nat /\ (place[q] = 0 => RoundOf(place[q]) = 0)
      BY <1>0, PlaceFacts
    <3> QED
      BY <1>1, <3>2, <3>3
  <2>2. /\ TokOf(w) \in 1..Len(Tokens(q)) /\ SlotOf(w) \in KSlot /\ Len(Tokens(q)) \in 0..MaxTok
        /\ w = (TokOf(w) - 1) * TopK + SlotOf(w)
    BY <1>0, <2>1, ItemsFit
  <2>3. TokOf(w) \in 1..MaxTok /\ TokOf(w) <= Len(Tokens(q))
    BY <2>2, ConstantFacts
  <2>4. Sends(q, w) = [round |-> RoundOf(place[p]), src |-> q, tok |-> TokOf(w)]
    BY <1>1 DEF Sends
  <2>5. Tokens(q) = route[RoundOf(place[p])][q]
    BY <1>1 DEF Tokens
  <2>6. Owner(Experts(Sends(q, w))[SlotOf(w)]) = p
    BY <1>1, <2>4, <2>5 DEF Goes, Experts
  <2>7. Sends(q, w) \in Routed(RoundOf(place[p]), p)
    BY <2>2, <2>3, <2>4, <2>5, <2>6 DEF Routed
  <2> QED
    BY <2>2, <2>4, <2>7
<1>2. ASSUME NEW i \in I
      PROVE  /\ recvTok[p][i] \in Routed(RoundOf(place[p]), p)
             /\ \E k \in KSlot :
                  tokMap[recvTok[p][i].src][(recvTok[p][i].tok - 1) * TopK + k] = [pe |-> p, id |-> i]
  <2>1. PICK q, w : /\ q \in Rank /\ w \in Items(q)
                    /\ tokMap[q][w] = [pe |-> p, id |-> i] /\ recvTok[p][i] = Sends(q, w)
                    /\ Goes(q, w) = p /\ RoundOf(place[q]) = RoundOf(place[p])
    BY HeldRow
  <2>2. Sends(q, w).src = q
    BY DEF Sends
  <2> QED
    BY <1>1, <2>1, <2>2
<1>3. ASSUME NEW i \in I, NEW j \in I, recvTok[p][i] = recvTok[p][j] PROVE i = j
  <2>1. PICK q, w : /\ q \in Rank /\ w \in Items(q)
                    /\ tokMap[q][w] = [pe |-> p, id |-> i] /\ recvTok[p][i] = Sends(q, w)
                    /\ ~Dup(q, w) /\ Goes(q, w) = p /\ RoundOf(place[q]) = RoundOf(place[p])
    BY HeldRow
  <2>2. PICK s, v : /\ s \in Rank /\ v \in Items(s)
                    /\ tokMap[s][v] = [pe |-> p, id |-> j] /\ recvTok[p][j] = Sends(s, v)
                    /\ ~Dup(s, v) /\ Goes(s, v) = p /\ RoundOf(place[s]) = RoundOf(place[p])
    BY HeldRow
  <2>3. s = q /\ TokOf(w) = TokOf(v)
    <3>1. Sends(q, w) = Sends(s, v)
      BY <1>3, <2>1, <2>2
    <3>2. /\ Sends(q, w).src = q /\ Sends(q, w).tok = TokOf(w)
          /\ Sends(s, v).src = s /\ Sends(s, v).tok = TokOf(v)
      BY DEF Sends
    <3> QED
      BY <3>1, <3>2
  <2>4. place[q] > 0
    <3>1. Ranks /\ Meets
      BY DEF Delivering
    <3> QED
      BY <1>0, <2>1, <3>1, Settled
  <2>5. w = v
    BY <1>0, <2>1, <2>2, <2>3, <2>4, ItemsDiffer
  <2>6. [pe |-> p, id |-> i].id = [pe |-> p, id |-> j].id
    BY <2>1, <2>2, <2>3, <2>5
  <2> QED
    BY <2>6
<1>4. N \in Nat
  BY ReceivedNat
<1>5. Cardinality(R) = N
  <2>1. Cardinality(I) = N /\ IsFiniteSet(I)
    BY <1>4, FS_Interval
  <2>2. f \in Bijection(I, R)
    <3>1. f \in [I -> R]
      OBVIOUS
    <3>2. \A i, j \in I : f[i] = f[j] => i = j
      BY <1>3
    <3>3. \A y \in R : \E i \in I : f[i] = y
      OBVIOUS
    <3> HIDE DEF f, I, R
    <3> QED
      BY <3>1, <3>2, <3>3, Fun_IsBij
  <2> HIDE DEF f, I, R
  <2>3. ExistsBijection(I, R)
    BY <2>2 DEF ExistsBijection
  <2> QED
    BY <2>1, <2>3, FS_Bijection
<1>6. N = Least(MaxRecv, Cardinality(Routed(RoundOf(place[p]), p)))
  BY DEF Received
<1> QED
  BY <1>2, <1>5, <1>6

\* When the dispatch of a rank has ended, it holds what was sent to it: the
\* property Delivered, at any number of ranks, tokens, rows and blocks, if the
\* counters start at zero.
THEOREM DeliveredHolds ==
  ASSUME InTurn
  PROVE  Spec /\ Cleared => []Delivered
<1>1. Delivering => Delivered
  <2> SUFFICES ASSUME Delivering, NEW r \in Rank, Runs(r, "dispatch"), Ended(r)
               PROVE  LET n == RoundOf(place[r])
                          rows == 0..(totalRecv[r] - 1)
                      IN  /\ totalRecv[r] = Least(MaxRecv, Cardinality(Routed(n, r)))
                          /\ {recvTok[r][i] : i \in rows} \subseteq Routed(n, r)
                          /\ Cardinality({recvTok[r][i] : i \in rows}) = totalRecv[r]
                          /\ \A i \in rows : \E k \in KSlot :
                               tokMap[recvTok[r][i].src][(recvTok[r][i].tok - 1) * TopK + k] = [pe |-> r, id |-> i]
    BY DEF Delivered
  <2>1. Typed /\ Ranks /\ Meets /\ Totals
    BY DEF Delivering
  <2>2. InDispatch(r) /\ place[r] > 0
    BY <2>1, PlaceFacts
  <2>3. Holds(r)
    BY <2>1, <2>2, EndedFacts
  <2>4. totalRecv[r] = Received(r)
    BY <2>1, <2>2, <2>3 DEF Totals
  <2> QED
    BY <2>3, <2>4, HeldDelivered
<1> QED
  BY <1>1, Invariance, PTL

-----------------------------------------------------------------------------
(* The grid barrier of the std variant.                                    *)

\* Rank r's blocks move only before the grid barrier.
Early(r) ==
  /\ bar'[r].grid = bar[r].grid /\ packed' = packed /\ slotMap' = slotMap
  /\ \A c \in Blocks(r) :
       \/ pc[r][c] \in BeforeGrid /\ pc'[r][c] \in BeforeGrid
       \/ pc'[r][c] = pc[r][c] /\ work'[r][c] = work[r][c] /\ reg'[r][c] = reg[r][c]

LEMMA EarlyTurn ==
  ASSUME NEW r, NEW b \in Blocks(r), NEW l, NEW w, NEW g, NEW d,
         Turn(r, b, l, w, g, d), l \in BeforeGrid, pc[r][b] \in BeforeGrid,
         bar'[r].grid = bar[r].grid, UNCHANGED stdVars
  PROVE  Early(r)
BY DEF Early, Turn, stdVars

GridStep(r, b) == Ticket(r, b) \/ PassGrid(r, b) \/ Pack(r, b) \/ EndDispatch(r, b)

LEMMA EarlyOr ==
  ASSUME InTurn, Delivering, NEW r \in Rank, DispatchStep(r), mode = "std"
  PROVE  Early(r) \/ \E b \in Blocks(r) : GridStep(r, b)
<1>0. Typed /\ Ranks /\ Shaped(r) /\ Then = "ticket"
  BY DEF Delivering, Ranks, Then
<1>a. bar \in [Rank -> [disp : Nat, comb : Nat, grid : Nat]]
  BY <1>0 DEF Typed
<1> USE DEF Claiming, BeforeSignal, BeforeReceive, BeforeRewind, BeforeGrid
<1>1. ASSUME NEW b \in Blocks(r), Claim(r, b) PROVE Early(r)
  <2> DEFINE w == work[r][b]
             m == [pe |-> Goes(r, w), id |-> tokOff[Goes(r, w)]]
  <2>1. /\ pc[r][b] = "claim" /\ UNCHANGED <<todo, bar, stdVars>>
        /\ Dismissed(r, b, w) \/ Granted(r, b, w, m)
    BY <1>0, <1>1, ClaimCases
  <2>2. CASE Dismissed(r, b, w)
    <3>1. Turn(r, b, pc[r][b], w + Grid[place[r]], reg[r][b], todo[r][b])
      BY <1>0, <2>1, <2>2, ClaimTurn
    <3> QED
      BY <2>1, <3>1, EarlyTurn
  <2>3. CASE Granted(r, b, w, m)
    <3>1. Turn(r, b, "publish", w, [reg[r][b] EXCEPT !.row = m], todo[r][b])
      BY <1>0, <2>1, <2>3, ClaimTurn
    <3> QED
      BY <2>1, <3>1, EarlyTurn
  <2> QED
    BY <2>1, <2>2, <2>3
<1>2. ASSUME NEW b \in Blocks(r), Publish(r, b) PROVE Early(r)
  <2>1. Turn(r, b, "claim", work[r][b] + Grid[place[r]], reg[r][b], todo[r][b])
    BY <1>0, <1>2, PublishTurn
  <2>2. pc[r][b] = "publish" /\ UNCHANGED <<bar, stdVars>>
    BY <1>2 DEF Publish
  <2> QED
    BY <2>1, <2>2, EarlyTurn
<1>3. ASSUME NEW b \in Blocks(r), ArriveDispatch(r, b) PROVE Early(r)
  <2>1. Turn(r, b, IF b = 0 THEN "collect" ELSE Then, work[r][b], reg[r][b], todo[r][b])
    BY <1>0, <1>3, ArriveDispatchTurn
  <2>2. pc[r][b] = "claim" /\ UNCHANGED stdVars /\ bar' = [bar EXCEPT ![r].disp = bar[r].disp + 1]
    BY <1>3 DEF ArriveDispatch
  <2>3. bar'[r].grid = bar[r].grid
    BY <1>a, <2>2
  <2> QED
    BY <1>0, <2>1, <2>2, <2>3, EarlyTurn
<1>4. CASE Collect(r)
  <2>1. Turn(r, 0, "signal", work[r][0], reg[r][0], Rank)
    BY <1>0, <1>4, CollectTurn
  <2>2. 0 \in Blocks(r) /\ pc[r][0] = "collect" /\ UNCHANGED stdVars /\ bar' = [bar EXCEPT ![r].disp = 0]
    BY <1>4 DEF Collect
  <2>3. bar'[r].grid = bar[r].grid
    BY <1>a, <2>2
  <2> QED
    BY <2>1, <2>2, <2>3, EarlyTurn
<1>5. ASSUME NEW p \in Rank, Signal(r, p) PROVE Early(r)
  <2>1. Turn(r, 0, IF todo[r][0] \ {p} = {} THEN "receive" ELSE "signal", work[r][0], reg[r][0], todo[r][0] \ {p})
    BY <1>0, <1>5, SignalTurn
  <2>2. 0 \in Blocks(r) /\ pc[r][0] = "signal" /\ UNCHANGED <<bar, stdVars>>
    BY <1>5 DEF Signal
  <2> QED
    BY <2>1, <2>2, EarlyTurn
<1>6. CASE Receive(r)
  <2>1. Turn(r, 0, "rewind", work[r][0], reg[r][0], todo[r][0])
    BY <1>0, <1>6, ReceiveTurn
  <2>2. 0 \in Blocks(r) /\ pc[r][0] = "receive" /\ UNCHANGED <<bar, stdVars>>
    BY <1>6 DEF Receive
  <2> QED
    BY <2>1, <2>2, EarlyTurn
<1>7. CASE Rewind(r)
  <2>1. Turn(r, 0, Then, work[r][0], reg[r][0], todo[r][0])
    BY <1>0, <1>7, RewindTurn
  <2>2. 0 \in Blocks(r) /\ pc[r][0] = "rewind" /\ UNCHANGED <<bar, stdVars>>
    BY <1>7 DEF Rewind
  <2> QED
    BY <1>0, <2>1, <2>2, EarlyTurn
<1> QED
  BY <1>1, <1>2, <1>3, <1>4, <1>5, <1>6, <1>7 DEF DispatchStep, GridStep

\* The launches before have counted Before, a block of this one at most once.
LEMMA GridFacts ==
  ASSUME InTurn, Typed, NEW r \in Rank, InDispatch(r), Before(r) \in Nat
  PROVE  /\ Grid[place[r]] \in Nat \ {0} /\ Cardinality(Blocks(r)) = Grid[place[r]]
         /\ Cardinality(Beyond(r, BeforeGrid)) \in 0..Grid[place[r]]
         /\ bar[r].grid = Before(r) + Cardinality(Beyond(r, BeforeGrid))
         /\ Cardinality(Beyond(r, BeforeGrid)) = Grid[place[r]] <=> Beyond(r, BeforeGrid) = Blocks(r)
<1> DEFINE S == Beyond(r, BeforeGrid)
<1>1. Grid[place[r]] \in Nat \ {0} /\ Cardinality(Blocks(r)) = Grid[place[r]]
  BY PlaceFacts, BlocksFinite
<1>2. /\ IsFiniteSet(Blocks(r)) /\ S \subseteq Blocks(r) /\ Cardinality(S) \in Nat
      /\ Cardinality(S) = Cardinality(Blocks(r)) => S = Blocks(r)
  BY BlocksFinite DEF Beyond
<1>3. Cardinality(S) <= Grid[place[r]]
  BY <1>1, <1>2, FS_Subset
<1>4. bar[r].grid \in Nat
  BY DEF Typed
<1> QED
  BY <1>1, <1>2, <1>3, <1>4 DEF Before

LEMMA GridRest ==
  ASSUME NEW s, Works(s), NEW q \in Rank, Own(q), GridBarrier(q)
  PROVE  GridBarrier(q)' /\ (Even(q)' <=> Even(q))
<1>1. place' = place /\ Blocks(q)' = Blocks(q) /\ (InDispatch(q)' <=> InDispatch(q))
  BY Statics, StreamsStay
<1>2. pc'[q] = pc[q] /\ reg'[q] = reg[q] /\ bar'[q] = bar[q]
  BY DEF Own
<1>3. Beyond(q, BeforeGrid)' = Beyond(q, BeforeGrid)
  BY <1>1, <1>2 DEF Beyond
<1>4. Before(q)' = Before(q) /\ Goal(q)' = Goal(q) /\ (Even(q)' <=> Even(q))
  BY <1>1, <1>2, <1>3 DEF Before, Goal, Even
<1> QED
  BY <1>1, <1>2, <1>3, <1>4 DEF GridBarrier

\* A ticket c of this launch is rounded up to the goal, or beyond it to the next.
LEMMA TicketTarget ==
  ASSUME NEW n \in Nat \ {0}, NEW e \in Nat
  PROVE  /\ Rounded(e, n) \in Nat /\ Rounded(e, n) > e
         /\ IF e % n = 0 THEN Rounded(e, n) = e + n ELSE Rounded(e, n) < e + n
         /\ \A c \in 0..(n - 1) : Rounded(e + c, n) =
              IF e + c < Rounded(e, n) THEN Rounded(e, n) ELSE Rounded(e, n) + n
<1>1. PICK k \in Nat, m \in 0..(n - 1) : e = k * n + m /\ m = e % n /\ k = e \div n
  <2>1. e \div n \in Nat /\ e % n \in 0..(n - 1) /\ e = n * (e \div n) + (e % n)
    BY Division
  <2>2. n * (e \div n) = (e \div n) * n
    BY <2>1
  <2> QED
    BY <2>1, <2>2
<1>2. PICK a \in Nat, g \in Nat : a = k * n /\ g = a + n
  OBVIOUS
<1>3. Rounded(e, n) = g /\ (k + 1) * n = g /\ (k + 2) * n = g + n
  <2>1. (k + 1) * n = a + n /\ (k + 2) * n = a + n + n
    BY <1>2
  <2> QED
    BY <1>1, <1>2, <2>1 DEF Rounded
<1>4. ASSUME NEW c \in 0..(n - 1), e + c < g PROVE Rounded(e + c, n) = g
  <2>1. m + c \in 0..(n - 1) /\ e + c = k * n + (m + c)
    BY <1>1, <1>2, <1>4
  <2>2. (e + c) \div n = k
    BY <2>1, Remainders
  <2>3. Rounded(e + c, n) = (k + 1) * n
    BY <2>2 DEF Rounded
  <2> QED
    BY <1>3, <2>3
<1>5. ASSUME NEW c \in 0..(n - 1), ~(e + c < g) PROVE Rounded(e + c, n) = g + n
  <2>1. m + c - n \in 0..(n - 1) /\ k + 1 \in Nat /\ e + c = g + (m + c - n)
    BY <1>1, <1>2, <1>5
  <2>2. e + c = (k + 1) * n + (m + c - n)
    BY <1>3, <2>1
  <2>3. (e + c) \div n = k + 1
    BY <2>1, <2>2, Remainders
  <2>4. Rounded(e + c, n) = (k + 2) * n
    BY <2>3 DEF Rounded
  <2> QED
    BY <1>3, <2>4
<1>6. g > e /\ IF m = 0 THEN g = e + n ELSE g < e + n
  BY <1>1, <1>2
<1> QED
  BY <1>1, <1>3, <1>4, <1>5, <1>6

LEMMA GridDispatch ==
  ASSUME InTurn, Delivering, NEW r \in Rank, Works(r), DispatchStep(r), mode = "std", GridBarrier(r)
  PROVE  GridBarrier(r)' /\ (Even(r)' <=> Even(r))
<1>0. Typed /\ Ranks /\ Shaped(r)
  BY DEF Delivering, Ranks
<1>1. InDispatch(r) /\ ~InCombine(r) /\ place[r] > 0
  BY <1>0, KernelIs, PlaceFacts
<1>2. Blocks(r)' = Blocks(r) /\ InDispatch(r)' /\ place' = place
  BY <1>1, Statics, StreamsStay
<1> DEFINE S == Beyond(r, BeforeGrid)
<1>3. Before(r) \in Nat
  BY <1>1 DEF GridBarrier
<1>4. PICK n \in Nat \ {0}, e \in Nat, g \in Nat : n = Grid[place[r]] /\ e = Before(r) /\ g = Rounded(e, n)
  <2>1. PICK n \in Nat \ {0}, e \in Nat : n = Grid[place[r]] /\ e = Before(r)
    BY <1>0, <1>1, <1>3, GridFacts
  <2>2. Rounded(e, n) \in Nat
    BY TicketTarget
  <2> QED
    BY <2>1, <2>2
<1>5. /\ Cardinality(Blocks(r)) = n /\ Cardinality(S) \in 0..n
      /\ bar[r].grid = e + Cardinality(S) /\ (Cardinality(S) = n <=> S = Blocks(r))
  BY <1>0, <1>1, <1>3, <1>4, GridFacts
<1>6. /\ e % n = 0 => /\ \A b \in Blocks(r) : pc[r][b] = "grid" => reg[r][b].target = g
                      /\ (\E b \in Blocks(r) : pc[r][b] \in {"pack", "ended"}) => S = Blocks(r)
      /\ e % n # 0 /\ bar[r].grid > g => \E b \in Blocks(r) : pc[r][b] = "grid" /\ reg[r][b].target = g + n
  BY <1>1, <1>4 DEF GridBarrier, Goal, Even
<1>7. /\ g > e /\ IF e % n = 0 THEN g = e + n ELSE g < e + n
      /\ \A c \in 0..(n - 1) : Rounded(e + c, n) = IF e + c < g THEN g ELSE g + n
  BY <1>4, TicketTarget
<1> DEFINE After == /\ Cardinality(S') \in Nat /\ bar'[r].grid = e + Cardinality(S')
                    /\ e % n = 0 =>
                         /\ \A b \in Blocks(r) : pc'[r][b] = "grid" => reg'[r][b].target = g
                         /\ (\E b \in Blocks(r) : pc'[r][b] \in {"pack", "ended"}) => S' = Blocks(r)
                    /\ e % n # 0 /\ bar'[r].grid > g =>
                         \E b \in Blocks(r) : pc'[r][b] = "grid" /\ reg'[r][b].target = g + n
<1>8. SUFFICES After
  <2>1. Before(r)' = e
    BY <1>8 DEF Before
  <2>2. Goal(r)' = g /\ (Even(r)' <=> e % n = 0) /\ (Even(r) <=> e % n = 0)
    BY <1>2, <1>4, <2>1 DEF Goal, Even
  <2> QED
    BY <1>2, <1>4, <1>8, <2>1, <2>2 DEF GridBarrier
<1>9. S' = {b \in Blocks(r) : pc'[r][b] \notin BeforeGrid}
  BY <1>2 DEF Beyond
<1> USE DEF Claiming, BeforeSignal, BeforeReceive, BeforeRewind, BeforeGrid
<1>10. CASE Early(r)
  <2>1. \A c \in Blocks(r) : pc'[r][c] \notin BeforeGrid <=> pc[r][c] \notin BeforeGrid
    BY <1>10 DEF Early
  <2>2. S' = S
    BY <1>9, <2>1 DEF Beyond
  <2>3. \A c \in Blocks(r) : pc'[r][c] \in {"grid", "pack", "ended"} \/ pc[r][c] \in {"grid", "pack", "ended"}
          => pc'[r][c] = pc[r][c] /\ reg'[r][c] = reg[r][c]
    BY <1>10 DEF Early
  <2>4. bar'[r].grid = bar[r].grid
    BY <1>10 DEF Early
  <2> HIDE DEF S
  <2> QED
    BY <1>5, <1>6, <2>2, <2>3, <2>4
<1>11. ASSUME NEW b \in Blocks(r), Ticket(r, b) PROVE After
  <2>1. Turn(r, b, "grid", work[r][b], [reg[r][b] EXCEPT !.target = (bar[r].grid \div Grid[place[r]] + 1) * Grid[place[r]]],
             todo[r][b])
    BY <1>0, <1>11, TicketTurn
  <2>2. pc[r][b] = "ticket" /\ bar' = [bar EXCEPT ![r].grid = bar[r].grid + 1]
    BY <1>11 DEF Ticket
  <2>3. Cardinality(S') = Cardinality(S) + 1
    BY <1>0, <2>1, <2>2, CountTurn
  <2>4. S # Blocks(r)
    BY <2>2 DEF Beyond
  <2>5. PICK c \in 0..(n - 1) : c = Cardinality(S)
    BY <1>5, <2>4
  <2>6. Rounded(e + c, n) = IF e + c < g THEN g ELSE g + n
    BY <1>7, <2>5
  <2>7. reg[r][b] \in [row : [pe : 0..World, id : Nat], target : Nat, total : Nat, flag : Nat]
    BY <1>0 DEF Shaped, Fits
  <2>8. reg'[r][b].target = IF e + c < g THEN g ELSE g + n
    <3>1. reg'[r][b].target = Rounded(bar[r].grid, n)
      BY <1>4, <2>1, <2>7 DEF Turn, Rounded
    <3> QED
      BY <1>5, <2>5, <2>6, <3>1
  <2>9. \A d \in Blocks(r) \ {b} : pc'[r][d] = pc[r][d] /\ reg'[r][d] = reg[r][d]
    BY <2>1 DEF Turn
  <2>10. pc'[r][b] = "grid"
    BY <2>1 DEF Turn
  <2>11. bar'[r].grid = e + c + 1
    BY <1>0, <1>5, <2>2, <2>5 DEF Typed
  <2>12. e % n = 0 => ~\E d \in Blocks(r) : pc'[r][d] \in {"pack", "ended"}
    BY <1>6, <2>4, <2>9, <2>10
  <2>13. e % n = 0 => \A d \in Blocks(r) : pc'[r][d] = "grid" => reg'[r][d].target = g
    BY <1>6, <1>7, <2>8, <2>9
  <2>14. ASSUME bar'[r].grid > g PROVE pc'[r][b] = "grid" /\ reg'[r][b].target = g + n
    BY <1>7, <2>8, <2>10, <2>11, <2>14
  <2> HIDE DEF S
  <2> QED
    BY <2>3, <2>5, <2>11, <2>12, <2>13, <2>14
<1>12. ASSUME NEW b \in Blocks(r), NEW l, NEW w, Turn(r, b, l, w, reg[r][b], todo[r][b]), bar' = bar,
              l \in {"pack", "ended"}, pc[r][b] \in {"grid", "pack"}, e % n = 0 => S = Blocks(r),
              pc[r][b] = "grid" => reg[r][b].target # g + n
       PROVE  After
  <2>1. S' = S
    BY <1>0, <1>12, CountTurn
  <2>2. \A c \in Blocks(r) : reg'[r][c] = reg[r][c] /\ (pc'[r][c] = "grid" => pc[r][c] = "grid")
    BY <1>12 DEF Turn
  <2>3. \A c \in Blocks(r) : pc[r][c] = "grid" /\ reg[r][c].target = g + n => pc'[r][c] = "grid"
    BY <1>12 DEF Turn
  <2> HIDE DEF S
  <2> QED
    BY <1>5, <1>6, <1>12, <2>1, <2>2, <2>3
<1> HIDE DEF After
<1>13. ASSUME NEW b \in Blocks(r), PassGrid(r, b) PROVE After
  <2>1. Turn(r, b, "pack", b, reg[r][b], todo[r][b])
    BY <1>0, <1>13, PassGridTurn
  <2>2. pc[r][b] = "grid" /\ bar' = bar /\ bar[r].grid = reg[r][b].target
    BY <1>13 DEF PassGrid, GridMet
  <2>3. PICK c \in 0..n : c = Cardinality(S)
    BY <1>5
  <2>4. e % n = 0 => S = Blocks(r)
    <3>1. e % n = 0 => e + c = e + n
      BY <1>5, <1>6, <1>7, <2>2, <2>3
    <3> QED
      BY <1>5, <2>3, <3>1
  <2>5. reg[r][b].target # g + n
    BY <1>5, <1>7, <2>2, <2>3
  <2> QED
    BY <1>12, <2>1, <2>2, <2>4, <2>5
<1>14. ASSUME NEW b \in Blocks(r), Pack(r, b) \/ EndDispatch(r, b) PROVE After
  <2>1. pc[r][b] = "pack" /\ bar' = bar
    BY <1>14 DEF Pack, EndDispatch
  <2>2. e % n = 0 => S = Blocks(r)
    BY <1>6, <2>1
  <2>3. \/ Turn(r, b, "pack", work[r][b] + Grid[place[r]], reg[r][b], todo[r][b])
        \/ Turn(r, b, "ended", work[r][b], reg[r][b], todo[r][b])
    BY <1>0, <1>14, <2>1, PackTurn, EndDispatchTurn
  <2> QED
    BY <1>12, <2>1, <2>2, <2>3
<1> QED
  BY <1>10, <1>11, <1>13, <1>14, EarlyOr DEF GridStep

LEMMA GridKeeps ==
  ASSUME InTurn, Delivering, NEW r \in Rank, Works(r), mode = "std",
         \A q \in Rank : GridBarrier(q)
  PROVE  \A q \in Rank : GridBarrier(q)' /\ (InDispatch(q) => (Even(q)' <=> Even(q)))
<1>1. Typed /\ Shaped(r)
  BY DEF Delivering, Ranks
<1>2. \A q \in Rank \ {r} : GridBarrier(q)' /\ (Even(q)' <=> Even(q))
  BY <1>1, OthersRest, GridRest
<1>3. CASE DispatchStep(r)
  BY <1>2, <1>3, GridDispatch
<1>4. CASE CombineStep(r)
  <2>1. ~InDispatch(r) /\ ~InDispatch(r)'
    BY <1>1, <1>4, KernelIs, Statics
  <2> QED
    BY <1>2, <2>1 DEF GridBarrier
<1> QED
  BY <1>3, <1>4 DEF Works

LEMMA GridStart ==
  ASSUME InTurn, Delivering, NEW r \in Rank, Start(r), mode = "std", NEW q \in Rank, GridBarrier(q)
  PROVE  GridBarrier(q)' /\ (q # r => (Even(q)' <=> Even(q)))
<1>0. Typed /\ Ranks /\ Meets /\ bar' = bar
  BY StartIs DEF Delivering
<1>1. CASE q # r
  <2>1. /\ place'[q] = place[q] /\ pc'[q] = pc[q] /\ reg'[q] = reg[q] /\ Blocks(q)' = Blocks(q)
        /\ (InDispatch(q)' <=> InDispatch(q))
    BY <1>0, <1>1, StartOthers
  <2>2. Beyond(q, BeforeGrid)' = Beyond(q, BeforeGrid)
    BY <2>1 DEF Beyond
  <2>3. Before(q)' = Before(q) /\ Goal(q)' = Goal(q) /\ (Even(q)' <=> Even(q))
    BY <1>0, <2>1, <2>2 DEF Before, Goal, Even
  <2> QED
    BY <1>0, <1>1, <2>1, <2>2, <2>3 DEF GridBarrier
<1>2. CASE q = r /\ InDispatch(r)
  <2>1. ~InDispatch(r)'
    BY <1>0, <1>2, StartIs DEF Started
  <2> QED
    BY <1>2, <2>1 DEF GridBarrier
<1>3. CASE q = r /\ ~InDispatch(r)
  <2>1. (\A b \in Blocks(r)' : pc'[r][b] = "claim") /\ Grid[place'[r]] \in Nat \ {0}
    BY <1>0, <1>3, StartIs DEF Started
  <2>2. Cardinality(Beyond(r, BeforeGrid)') = 0
    <3>1. Beyond(r, BeforeGrid)' = {}
      BY <2>1 DEF Beyond, BeforeGrid, BeforeRewind, BeforeReceive, BeforeSignal, Claiming
    <3> QED
      BY <3>1, FS_EmptySet
  <2>3. PICK e \in Nat : e = bar[r].grid
    BY <1>0 DEF Typed
  <2>4. Before(r)' = e
    BY <1>0, <2>2, <2>3 DEF Before
  <2>5. Goal(r)' > e /\ Goal(r)' \in Nat
    <3>1. PICK n \in Nat \ {0} : n = Grid[place'[r]]
      BY <2>1
    <3>2. Goal(r)' = Rounded(e, n)
      BY <2>4, <3>1 DEF Goal
    <3> QED
      BY <3>2, TicketTarget
  <2>7. ~(bar'[r].grid > Goal(r)')
    BY <1>0, <2>3, <2>5
  <2>8. \A b \in Blocks(r)' : pc'[r][b] \notin {"grid", "pack", "ended"}
    BY <2>1
  <2>9. GridBarrier(r)'
    BY <2>4, <2>7, <2>8 DEF GridBarrier
  <2> QED
    BY <1>3, <2>9
<1> QED
  BY <1>1, <1>2, <1>3

\* A launch that has ended began at a multiple.
LEMMA EndedEven ==
  ASSUME InTurn, Typed, NEW r \in Rank, InDispatch(r), Ended(r), GridBarrier(r)
  PROVE  Even(r)
<1>1. Before(r) \in Nat /\ \A b \in Blocks(r) : pc[r][b] = "ended"
  BY DEF GridBarrier, Ended
<1>2. Beyond(r, BeforeGrid) = Blocks(r)
  BY <1>1 DEF Beyond, BeforeGrid, BeforeRewind, BeforeReceive, BeforeSignal, Claiming
<1>3. PICK n \in Nat \ {0}, e \in Nat, g \in Nat : n = Grid[place[r]] /\ e = Before(r) /\ g = Rounded(e, n)
  <2>1. PICK n \in Nat \ {0}, e \in Nat : n = Grid[place[r]] /\ e = Before(r)
    BY <1>1, GridFacts
  <2>2. Rounded(e, n) \in Nat
    BY TicketTarget
  <2> QED
    BY <2>1, <2>2
<1>4. bar[r].grid = e + n
  BY <1>1, <1>2, <1>3, GridFacts
<1>5. e % n # 0 => g < e + n
  BY <1>3, TicketTarget
<1>6. g = Goal(r) /\ (Even(r) <=> e % n = 0)
  BY <1>3 DEF Goal, Even
<1>7. ASSUME ~Even(r) PROVE FALSE
  <2>1. bar[r].grid > Goal(r)
    BY <1>4, <1>5, <1>6, <1>7
  <2>2. \E b \in Blocks(r) : pc[r][b] = "grid"
    BY <1>7, <2>1 DEF GridBarrier
  <2> QED
    BY <1>1, <2>2
<1> QED
  BY <1>7

-----------------------------------------------------------------------------
(* Packing the rows.                                                       *)

\* While a rank has rows in hand nobody fills one.
LEMMA HeldStill ==
  ASSUME InTurn, Delivering, NEW r \in Rank, Works(r), NEW p \in Rank, Holds(p)
  PROVE  recvTok' = recvTok
<1>0. Typed /\ Ranks /\ Meets
  BY DEF Delivering
<1>1. ASSUME NEW b \in Blocks(r), Claim(r, b) PROVE recvTok' = recvTok
  BY <1>1 DEF Claim
<1>2. ASSUME NEW b \in Blocks(r), Publish(r, b) PROVE FALSE
  <2>1. work[r][b] \in Items(r) /\ Holding(r, work[r][b])
    BY <1>2, PublishFacts
  <2>2. Past(r, work[r][b])
    BY <1>0, <2>1, Settled
  <2>3. work[r][b] \in Nat
    <3>1. place[r] > 0
      BY <1>0, <1>2, PublishFacts, PlaceFacts
    <3> QED
      BY <1>0, <2>1, <3>1, ItemsFit
  <2> QED
    BY <2>1, <2>2, <2>3 DEF Past, Through, Holding, Claiming
<1> QED
  BY <1>1, <1>2, CalmOr DEF Calm, Claims, Publishes

\* The experts of a row in hand are those of its token.
LEMMA RowExperts ==
  ASSUME InTurn, Delivering, NEW p \in Rank, Holds(p), NEW i \in 0..(Received(p) - 1)
  PROVE  /\ \A k \in KSlot : Experts(recvTok[p][i])[k] \in Expert
         /\ \A j, k \in KSlot : j # k => Experts(recvTok[p][i])[j] # Experts(recvTok[p][i])[k]
         /\ recvTok[p][i] # Nothing
<1>0. Typed /\ Ranks /\ Meets
  BY DEF Delivering
<1>1. PICK q, w : /\ q \in Rank /\ w \in Items(q)
                   /\ tokMap[q][w] = [pe |-> p, id |-> i] /\ recvTok[p][i] = Sends(q, w)
                   /\ ~Dup(q, w) /\ Goes(q, w) = p /\ RoundOf(place[q]) = RoundOf(place[p])
  BY HeldRow
<1>2. place[q] > 0 /\ RoundOf(place[q]) > 0
  BY <1>0, <1>1, Settled, PlaceFacts
<1>3. TokOf(w) \in 1..Len(Tokens(q))
  BY <1>0, <1>1, <1>2, ItemsFit
<1>4. Experts(recvTok[p][i]) = Tokens(q)[TokOf(w)]
  BY <1>1 DEF Sends, Experts, Tokens
<1>5. recvTok[p][i].round # Nothing.round
  BY <1>1, <1>2 DEF Sends, Nothing
<1> QED
  BY <1>0, <1>1, <1>2, <1>3, <1>4, <1>5, ItemsFit

LEMMA BlockLow ==
  ASSUME InTurn, Typed, NEW r \in Rank, place[r] > 0, NEW w \in Nat
  PROVE  BlockOf(r, w) \in Blocks(r) /\ BlockOf(r, w) <= w
<1>1. 0 \in Blocks(r) /\ Grid[place[r]] \in Nat \ {0}
  BY PlaceFacts
<1>2. BlockOf(r, w) \in Blocks(r)
  BY <1>1, Onward
<1>3. PICK G \in Nat \ {0} : G = Grid[place[r]]
  BY <1>1
<1>4. w \div G \in Nat /\ w % G \in 0..(G - 1) /\ w = G * (w \div G) + (w % G)
  BY Division
<1>5. G * (w \div G) \in Nat
  BY <1>4
<1>6. w % G <= w
  BY <1>4, <1>5
<1> QED
  BY <1>2, <1>3, <1>6 DEF BlockOf

LEMMA PackItemFacts ==
  ASSUME InTurn, Typed, NEW r \in Rank, place[r] > 0, NEW w \in PackItems(r)
  PROVE  /\ w \in Nat /\ w \div TopK \in 0..(Received(r) - 1) /\ SlotOf(w) \in KSlot
         /\ w = (w \div TopK) * TopK + SlotOf(w)
         /\ BlockOf(r, w) \in Blocks(r) /\ BlockOf(r, w) <= w
<1>1. Received(r) \in Nat
  BY ReceivedNat
<1>2. /\ w \in Nat /\ w \div TopK \in 0..(Received(r) - 1) /\ SlotOf(w) \in KSlot
      /\ w = (w \div TopK) * TopK + SlotOf(w)
  BY <1>1, ItemFacts DEF PackItems
<1> QED
  BY <1>2, BlockLow

\* A rank packs what it has in hand.
LEMMA PackHolds ==
  ASSUME InTurn, Typed, NEW r \in Rank, Shaped(r), InDispatch(r), GridBarrier(r), Even(r), NEW b \in Blocks(r),
         pc[r][b] \in {"pack", "ended"}
  PROVE  Holds(r)
<1>1. place[r] > 0 /\ 0 \in Blocks(r)
  BY PlaceFacts
<1>2. Beyond(r, BeforeGrid) = Blocks(r)
  BY <1>1 DEF GridBarrier
<1>3. pc[r][0] \notin BeforeGrid
  BY <1>1, <1>2 DEF Beyond
<1> QED
  BY <1>3 DEF Holds, BeforeGrid, BeforeRewind

LEMMA PackedHolder ==
  ASSUME InTurn, Typed, NEW r \in Rank, Shaped(r), InDispatch(r), GridBarrier(r), Even(r), NEW w \in PackItems(r),
         PackedItem(r, w)
  PROVE  Holds(r)
<1>1. place[r] > 0
  BY PlaceFacts
<1>2. BlockOf(r, w) \in Blocks(r)
  BY <1>1, PackItemFacts
<1>3. pc[r][BlockOf(r, w)] \in DispatchPlace \ BeforePack
  BY <1>2, KernelOf DEF PackedItem, Through
<1> QED
  BY <1>2, <1>3, PackHolds DEF DispatchPlace

\* Combine finds all packed.
LEMMA CombinePacked ==
  ASSUME InTurn, Typed, NEW r \in Rank, Shaped(r), InCombine(r), NEW w \in PackItems(r)
  PROVE  PackedItem(r, w)
<1>1. place[r] > 0
  BY DEF InCombine
<1>2. BlockOf(r, w) \in Blocks(r)
  BY <1>1, PackItemFacts
<1>3. pc[r][BlockOf(r, w)] \in CombinePlace
  BY <1>2, KernelOf
<1> QED
  BY <1>3 DEF PackedItem, Through, CombinePlace, BeforeSum, BeforePost, Scattering, BeforePack, BeforeGrid,
              BeforeRewind, BeforeReceive, BeforeSignal, Claiming

LEMMA PacksSame ==
  ASSUME NEW r \in Rank, PacksAt(r), packed'[r] = packed[r], slotMap'[r] = slotMap[r],
         Received(r)' = Received(r), route' = route,
         \A w \in PackItems(r) : PackedItem(r, w)' <=> PackedItem(r, w),
         (\E w \in PackItems(r) : PackedItem(r, w)) => recvTok'[r] = recvTok[r]
  PROVE  PacksAt(r)'
<1>1. PackItems(r)' = PackItems(r)
  BY DEF PackItems
<1>2. \A w \in PackItems(r) : PackedItem(r, w) => RowAt(r, w)' = RowAt(r, w) /\ ExpertOf(r, w)' = ExpertOf(r, w)
  BY DEF RowAt, ExpertOf, Experts
<1>3. \A e : PackedFor(r, e)' = PackedFor(r, e)
  BY <1>1, <1>2 DEF PackedFor
<1> QED
  BY <1>1, <1>2, <1>3 DEF PacksAt

\* A block that moves without packing leaves the packed items as they are,
\* unless it ends, when it has packed all of its own.
LEMMA PackedTurn ==
  ASSUME InTurn, Typed, NEW r \in Rank, Works(r), NEW b \in Blocks(r), NEW l, NEW w, NEW g, NEW d,
         Turn(r, b, l, w, g, d), NEW v \in PackItems(r),
         \/ BlockOf(r, v) # b
         \/ pc[r][b] \in BeforePack /\ l \in BeforePack
         \/ pc[r][b] \in BeforePack /\ l = "pack" /\ w = b
         \/ pc[r][b] = "pack" /\ l = "ended" /\ v < work[r][b]
  PROVE  PackedItem(r, v)' <=> PackedItem(r, v)
<1>1. place[r] > 0
  BY Onward
<1>2. BlockOf(r, v) \in Blocks(r) /\ BlockOf(r, v) <= v /\ v \in Nat /\ BlockOf(r, v)' = BlockOf(r, v)
  BY <1>1, PackItemFacts, Statics
<1>3. b \in Nat
  BY Onward
<1>4. PackedItem(r, v)' <=> /\ pc'[r][BlockOf(r, v)] \notin BeforePack
                            /\ pc'[r][BlockOf(r, v)] \in {"pack"} => v < work'[r][BlockOf(r, v)]
  BY <1>2 DEF PackedItem, Through
<1>5. PackedItem(r, v) <=> /\ pc[r][BlockOf(r, v)] \notin BeforePack
                           /\ pc[r][BlockOf(r, v)] \in {"pack"} => v < work[r][BlockOf(r, v)]
  BY DEF PackedItem, Through
<1>6. CASE BlockOf(r, v) # b
  BY <1>2, <1>4, <1>5, <1>6 DEF Turn
<1>7. CASE BlockOf(r, v) = b
  <2>1. pc'[r][b] = l /\ work'[r][b] = w
    BY DEF Turn
  <2>2. CASE pc[r][b] \in BeforePack /\ l \in BeforePack
    BY <1>4, <1>5, <1>7, <2>1, <2>2
  <2>3. CASE pc[r][b] \in BeforePack /\ l = "pack" /\ w = b
    <3>1. ~(v < b)
      BY <1>2, <1>3, <1>7
    <3> QED
      BY <1>4, <1>5, <1>7, <2>1, <2>3, <3>1
  <2>4. CASE pc[r][b] = "pack" /\ l = "ended" /\ v < work[r][b]
    <3>1. "pack" \notin BeforePack /\ "ended" \notin BeforePack
      BY DEF BeforePack, BeforeGrid, BeforeRewind, BeforeReceive, BeforeSignal, Claiming
    <3> QED
      BY <1>4, <1>5, <1>7, <2>1, <2>4, <3>1
  <2> QED
    BY <1>7, <2>2, <2>3, <2>4
<1> QED
  BY <1>6, <1>7

\* What a block packs.
PacksItem(r, w, x, e) ==
  IF Owner(e) = r
  THEN /\ packed' = [packed EXCEPT ![r][e] = Append(@, x)]
       /\ slotMap' = [slotMap EXCEPT ![r][w] = <<e, Len(packed[r][e]) + 1>>]
  ELSE slotMap' = [slotMap EXCEPT ![r][w] = <<>>] /\ UNCHANGED packed

LEMMA PackItem ==
  ASSUME InTurn, Delivering, NEW r \in Rank, Works(r), NEW b \in Blocks(r), Pack(r, b), GridBarrier(r), Even(r)
  PROVE  LET w == work[r][b]
         IN  /\ Holds(r) /\ w \in PackItems(r) /\ BlockOf(r, w) = b /\ ExpertOf(r, w) \in Expert
             /\ PacksItem(r, w, RowAt(r, w), ExpertOf(r, w)) /\ recvTok' = recvTok
             /\ \A v \in PackItems(r) : PackedItem(r, v)' <=> PackedItem(r, v) \/ v = w
             /\ ~PackedItem(r, w)
<1> DEFINE w == work[r][b]
           x == RowAt(r, w)
           e == ExpertOf(r, w)
<1>0. Typed /\ Ranks /\ Totals /\ Shaped(r) /\ packed \in [Rank -> [Expert -> Seq(Token)]]
  BY DEF Delivering, Ranks, Typed
<1>1. /\ pc[r][b] = "pack" /\ w < totalRecv[r] * TopK /\ recvTok' = recvTok
      /\ IF Owner(e) = r
         THEN /\ packed' = [packed EXCEPT ![r][e] = Append(@, x)]
              /\ slotMap' = [slotMap EXCEPT ![r][w] = <<e, Len(packed'[r][e])>>]
         ELSE slotMap' = [slotMap EXCEPT ![r][w] = <<>>] /\ UNCHANGED packed
  BY DEF Pack, ExpertOf, RowAt, dispatchVars
<1>2. Fits(r, b, "pack", w, reg[r][b], todo[r][b])
  BY <1>0, <1>1 DEF Shaped
<1>3. InDispatch(r) /\ w \in Nat /\ BlockOf(r, w) = b /\ place[r] > 0
  BY <1>0, <1>1, <1>2, KernelOf DEF Fits
<1>4. Holds(r)
  BY <1>0, <1>1, <1>3, PackHolds
<1>5. totalRecv[r] = Received(r)
  BY <1>0, <1>3, <1>4 DEF Totals
<1>6. w \in PackItems(r)
  <2>1. PICK n \in Nat : n = Received(r) * TopK
    BY ReceivedNat, ConstantFacts
  <2> QED
    BY <1>1, <1>3, <1>5, <2>1 DEF PackItems
<1>7. e \in Expert
  <2>1. w \div TopK \in 0..(Received(r) - 1) /\ SlotOf(w) \in KSlot
    BY <1>0, <1>3, <1>6, PackItemFacts
  <2> QED
    BY <1>4, <2>1, RowExperts DEF ExpertOf, RowAt
<1>8. PacksItem(r, w, x, e)
  <2>1. CASE Owner(e) = r
    <3>1. packed' = [packed EXCEPT ![r][e] = Append(packed[r][e], x)]
      BY <1>1, <2>1
    <3>2. packed[r][e] \in Seq(Token)
      BY <1>0, <1>7
    <3>3. packed'[r][e] = Append(packed[r][e], x)
      BY <1>0, <1>7, <3>1
    <3>4. Len(packed'[r][e]) = Len(packed[r][e]) + 1
      BY <3>2, <3>3
    <3> QED
      BY <1>1, <2>1, <3>4 DEF PacksItem
  <2>2. CASE Owner(e) # r
    BY <1>1, <2>2 DEF PacksItem
  <2> QED
    BY <2>1, <2>2
<1>9. Turn(r, b, "pack", w + Grid[place[r]], reg[r][b], todo[r][b])
  BY <1>0, <1>1, PackTurn
<1>10. ~PackedItem(r, w)
  BY <1>1, <1>3 DEF PackedItem, Through
<1>11. ASSUME NEW v \in PackItems(r) PROVE PackedItem(r, v)' <=> PackedItem(r, v) \/ v = w
  <2>1. CASE BlockOf(r, v) # b
    BY <1>0, <1>3, <1>9, <2>1, PackedTurn
  <2>2. CASE BlockOf(r, v) = b
    <3>1. v \in Nat /\ BlockOf(r, v)' = b
      BY <1>0, <1>3, <2>2, PackItemFacts, Statics
    <3>2. v < w + Grid[place[r]] <=> v < w \/ v = w
      <4>1. PICK u : u = w
        OBVIOUS
      <4>2. u \in Nat /\ BlockOf(r, v) = BlockOf(r, u)
        BY <1>3, <2>2, <4>1
      <4> HIDE DEF w
      <4> QED
        BY <1>0, <3>1, <4>1, <4>2, Onward
    <3>3. "pack" \notin BeforePack
      BY DEF BeforePack, BeforeGrid, BeforeRewind, BeforeReceive, BeforeSignal, Claiming
    <3>4. pc'[r][b] = "pack" /\ work'[r][b] = w + Grid[place[r]]
      BY <1>9 DEF Turn
    <3>5. PackedItem(r, v) <=> v < w
      BY <1>1, <2>2, <3>3 DEF PackedItem, Through
    <3>6. PackedItem(r, v)' <=> v < w + Grid[place[r]]
      BY <3>1, <3>3, <3>4 DEF PackedItem, Through
    <3> QED
      BY <3>2, <3>5, <3>6
  <2> QED
    BY <2>1, <2>2
<1> QED
  BY <1>1, <1>3, <1>4, <1>6, <1>7, <1>8, <1>10, <1>11

LEMMA Appended ==
  ASSUME NEW S, NEW s \in Seq(S), NEW x \in S
  PROVE  /\ Len(s) \in Nat /\ Len(Append(s, x)) = Len(s) + 1 /\ Append(s, x)[Len(s) + 1] = x
         /\ \A j \in 1..Len(s) : Append(s, x)[j] = s[j]
OBVIOUS

\* It is one row more for its expert, at the end.
LEMMA PacksPack ==
  ASSUME InTurn, Delivering, NEW r \in Rank, Works(r), NEW b \in Blocks(r), Pack(r, b), GridBarrier(r), Even(r),
         PacksAt(r)
  PROVE  PacksAt(r)'
<1> DEFINE w == work[r][b]
           x == RowAt(r, w)
           e == ExpertOf(r, w)
<1>0. Typed /\ packed \in [Rank -> [Expert -> Seq(Token)]] /\ DOMAIN slotMap = Rank
  BY DEF Delivering, Typed
<1>1. /\ w \in PackItems(r) /\ e \in Expert /\ PacksItem(r, w, x, e) /\ recvTok' = recvTok
      /\ \A v \in PackItems(r) : PackedItem(r, v)' <=> PackedItem(r, v) \/ v = w
      /\ ~PackedItem(r, w)
  BY PackItem
<1>2. PackItems(r)' = PackItems(r) /\ route' = route
  BY Statics, StreamsStay DEF PackItems
<1>3. \A v : RowAt(r, v)' = RowAt(r, v) /\ ExpertOf(r, v)' = ExpertOf(r, v)
  BY <1>1, <1>2 DEF RowAt, ExpertOf, Experts
<1>4. DOMAIN slotMap[r] = 0..(MaxRecv * TopK - 1) /\ w \in DOMAIN slotMap[r]
  <2>1. PICK n \in Nat : n = Received(r) * TopK /\ n <= MaxRecv * TopK
    <3>1. Received(r) \in Nat /\ Received(r) <= MaxRecv /\ MaxRecv \in Nat /\ TopK \in Nat
      BY ReceivedNat, ConstantFacts
    <3>2. \A a \in Nat, c \in Nat, k \in Nat : a <= c => a * k <= c * k /\ a * k \in Nat
      OBVIOUS
    <3> QED
      BY <3>1, <3>2
  <2>2. MaxRecv * TopK \in Nat
    BY ConstantFacts
  <2>3. DOMAIN slotMap[r] = 0..(MaxRecv * TopK - 1)
    BY <1>0 DEF Typed
  <2> QED
    BY <1>1, <2>1, <2>2, <2>3 DEF PackItems
<1>5. \A f \in Expert : PackedFor(r, f)' = PackedFor(r, f) \cup (IF Owner(e) = r /\ f = e THEN {w} ELSE {})
  BY <1>1, <1>2, <1>3 DEF PackedFor
<1>6. \A f : IsFiniteSet(PackedFor(r, f)) /\ w \notin PackedFor(r, f)
  <2>1. IsFiniteSet(PackItems(r))
    <3>1. Received(r) * TopK \in Nat
      BY ReceivedNat, ConstantFacts
    <3> QED
      BY <3>1, FS_Interval DEF PackItems
  <2> QED
    BY <1>1, <2>1, FS_Subset DEF PackedFor
<1>9. x \in Token
  <2>1. w \div TopK \in 0..(Received(r) - 1)
    <3>1. place[r] > 0
      BY <1>0, Onward
    <3> QED
      BY <1>0, <1>1, <3>1, PackItemFacts
  <2>2. w \div TopK \in 0..(MaxRecv - 1)
    BY <2>1, ReceivedNat, ConstantFacts
  <2>3. recvTok \in [Rank -> [0..(MaxRecv - 1) -> Token]]
    BY <1>0 DEF Typed
  <2>4. \A i \in 0..(MaxRecv - 1) : recvTok[r][i] \in Token
    BY <2>3
  <2>5. x = recvTok[r][w \div TopK]
    BY DEF RowAt
  <2> QED
    BY <2>2, <2>4, <2>5
<1> HIDE DEF w, x, e
<1>7. CASE Owner(e) = r
  <2>1. packed[r][e] \in Seq(Token)
    BY <1>0, <1>1
  <2>2. PICK n \in Nat : n = Len(packed[r][e])
    BY <2>1
  <2>3. packed'[r] = [packed[r] EXCEPT ![e] = Append(packed[r][e], x)]
        /\ slotMap'[r] = [slotMap[r] EXCEPT ![w] = <<e, n + 1>>]
    BY <1>0, <1>1, <1>7, <2>2 DEF PacksItem
  <2>4. \A f \in Expert : packed'[r][f] = IF f = e THEN Append(packed[r][e], x) ELSE packed[r][f]
    BY <1>0, <1>1, <2>3
  <2>5. \A v \in PackItems(r) : v # w => slotMap'[r][v] = slotMap[r][v]
    BY <2>3
  <2>6. slotMap'[r][w] = <<e, n + 1>>
    BY <1>4, <2>3
  <2>7. Len(packed'[r][e]) = n + 1 /\ packed'[r][e][n + 1] = x /\ \A j \in 1..n : packed'[r][e][j] = packed[r][e][j]
    <3>1. packed'[r][e] = Append(packed[r][e], x)
      BY <1>1, <2>4
    <3> QED
      BY <1>9, <2>1, <2>2, <3>1, Appended
  <2>8. ASSUME NEW f \in Expert PROVE Len(packed'[r][f]) = Cardinality(PackedFor(r, f)')
    <3>1. Len(packed[r][f]) = Cardinality(PackedFor(r, f))
      BY DEF PacksAt
    <3>2. CASE f # e
      BY <1>5, <2>4, <3>1, <3>2
    <3>3. CASE f = e
      <4>1. PackedFor(r, f)' = PackedFor(r, f) \cup {w}
        BY <1>5, <1>7, <3>3
      <4>2. Cardinality(PackedFor(r, f)') = Cardinality(PackedFor(r, f)) + 1
        BY <1>6, <4>1, FS_AddElement
      <4> QED
        BY <2>2, <2>7, <3>1, <3>3, <4>2
    <3> QED
      BY <3>2, <3>3
  <2>9. ASSUME NEW v \in PackItems(r), PackedItem(r, v)'
        PROVE  LET f == ExpertOf(r, v)
               IN  IF Owner(f) # r THEN slotMap'[r][v] = <<>>
                   ELSE \E j \in 1..Len(packed'[r][f]) :
                          slotMap'[r][v] = <<f, j>> /\ packed'[r][f][j] = RowAt(r, v)
    <3>1. CASE v = w
      <4>1. ExpertOf(r, v) = e /\ RowAt(r, v) = x
        BY <3>1 DEF e, x, w
      <4>2. n + 1 \in 1..Len(packed'[r][e])
        BY <2>7
      <4> QED
        BY <1>7, <2>6, <2>7, <3>1, <4>1, <4>2
    <3>2. CASE v # w
      <4> DEFINE f == ExpertOf(r, v)
      <4>1. PackedItem(r, v)
        BY <1>1, <2>9, <3>2
      <4>2. IF Owner(f) # r THEN slotMap[r][v] = <<>>
            ELSE \E j \in 1..Len(packed[r][f]) : slotMap[r][v] = <<f, j>> /\ packed[r][f][j] = RowAt(r, v)
        BY <4>1 DEF PacksAt
      <4>3. slotMap'[r][v] = slotMap[r][v]
        BY <2>5, <3>2
      <4> HIDE DEF f
      <4>4. CASE Owner(f) # r
        BY <4>2, <4>3, <4>4 DEF f
      <4>5. ASSUME Owner(f) = r
            PROVE  \E j \in 1..Len(packed'[r][f]) : slotMap'[r][v] = <<f, j>> /\ packed'[r][f][j] = RowAt(r, v)
        <5>1. PICK j \in 1..Len(packed[r][f]) : slotMap[r][v] = <<f, j>> /\ packed[r][f][j] = RowAt(r, v)
          BY <4>2, <4>5
        <5>2. CASE f = e
          <6>1. j \in 1..n /\ j \in 1..Len(packed'[r][e])
            BY <2>2, <2>7, <5>2
          <6>2. packed'[r][e][j] = packed[r][e][j]
            BY <2>7, <6>1
          <6> QED
            BY <4>3, <5>1, <5>2, <6>1, <6>2
        <5>3. CASE f # e
          <6>1. packed'[r][f] = packed[r][f]
            BY <1>0, <2>3, <5>3
          <6> QED
            BY <4>3, <5>1, <6>1
        <5> QED
          BY <5>2, <5>3
      <4> QED
        BY <4>4, <4>5 DEF f
    <3> QED
      BY <3>1, <3>2
  <2> QED
    BY <1>2, <1>3, <2>8, <2>9 DEF PacksAt
<1>8. CASE Owner(e) # r
  <2>1. packed' = packed /\ slotMap'[r] = [slotMap[r] EXCEPT ![w] = <<>>]
    BY <1>0, <1>8, <1>1 DEF PacksItem
  <2>2. \A v \in PackItems(r) : v # w => slotMap'[r][v] = slotMap[r][v]
    BY <2>1
  <2>3. slotMap'[r][w] = <<>>
    BY <1>4, <2>1
  <2>4. \A f \in Expert : Len(packed'[r][f]) = Cardinality(PackedFor(r, f)')
    <3>1. \A f \in Expert : PackedFor(r, f)' = PackedFor(r, f)
      BY <1>5, <1>8
    <3> QED
      BY <2>1, <3>1 DEF PacksAt
  <2>5. ASSUME NEW v \in PackItems(r), PackedItem(r, v)'
        PROVE  LET f == ExpertOf(r, v)
               IN  IF Owner(f) # r THEN slotMap'[r][v] = <<>>
                   ELSE \E j \in 1..Len(packed'[r][f]) :
                          slotMap'[r][v] = <<f, j>> /\ packed'[r][f][j] = RowAt(r, v)
    <3>1. CASE v = w
      <4>1. ExpertOf(r, v) = e
        BY <3>1 DEF e, w
      <4> QED
        BY <1>8, <2>3, <3>1, <4>1
    <3>2. CASE v # w
      <4>1. PackedItem(r, v)
        BY <1>1, <2>5, <3>2
      <4> QED
        BY <2>1, <2>2, <3>2, <4>1 DEF PacksAt
    <3> QED
      BY <3>1, <3>2
  <2> QED
    BY <1>2, <1>3, <2>4, <2>5 DEF PacksAt
<1> QED
  BY <1>7, <1>8

LEMMA PacksDispatch ==
  ASSUME InTurn, Delivering, NEW r \in Rank, Works(r), DispatchStep(r), mode = "std", GridBarrier(r), Even(r),
         PacksAt(r)
  PROVE  PacksAt(r)'
<1>0. Typed /\ Ranks /\ Totals /\ Shaped(r)
  BY DEF Delivering, Ranks
<1>1. InDispatch(r) /\ place[r] > 0
  BY <1>0, KernelIs, PlaceFacts
<1>2. Received(r)' = Received(r) /\ route' = route
  BY Statics, StreamsStay
<1>3. (\E w \in PackItems(r) : PackedItem(r, w)) => recvTok' = recvTok
  BY <1>0, <1>1, PackedHolder, HeldStill
<1>4. ASSUME packed'[r] = packed[r], slotMap'[r] = slotMap[r],
             \A w \in PackItems(r) : PackedItem(r, w)' <=> PackedItem(r, w)
      PROVE  PacksAt(r)'
  BY <1>2, <1>3, <1>4, PacksSame
<1> HIDE DEF PacksAt, PackItems, PackedItem
<1>5. CASE Early(r)
  <2>1. ASSUME NEW w \in PackItems(r) PROVE PackedItem(r, w)' <=> PackedItem(r, w)
    <3>1. PICK c \in Blocks(r) : c = BlockOf(r, w) /\ BlockOf(r, w)' = c
      BY <1>0, <1>1, PackItemFacts, Statics
    <3>2. \/ pc[r][c] \in BeforeGrid /\ pc'[r][c] \in BeforeGrid
          \/ pc'[r][c] = pc[r][c] /\ work'[r][c] = work[r][c]
      BY <1>5 DEF Early
    <3> QED
      BY <3>1, <3>2 DEF PackedItem, Through, BeforePack
  <2>2. packed'[r] = packed[r] /\ slotMap'[r] = slotMap[r]
    BY <1>5 DEF Early
  <2> QED
    BY <1>4, <2>1, <2>2
<1>6. ASSUME NEW b \in Blocks(r), Ticket(r, b) PROVE PacksAt(r)'
  <2>1. Turn(r, b, "grid", work[r][b], [reg[r][b] EXCEPT !.target = (bar[r].grid \div Grid[place[r]] + 1) * Grid[place[r]]],
             todo[r][b])
    BY <1>0, <1>6, TicketTurn
  <2>2. pc[r][b] = "ticket" /\ packed' = packed /\ slotMap' = slotMap
    BY <1>6 DEF Ticket, stdVars
  <2>3. "grid" \in BeforePack /\ "ticket" \in BeforePack
    BY DEF BeforePack, BeforeGrid
  <2>4. \A w \in PackItems(r) : PackedItem(r, w)' <=> PackedItem(r, w)
    BY <1>0, <2>1, <2>2, <2>3, PackedTurn
  <2> QED
    BY <1>4, <2>2, <2>4
<1>7. ASSUME NEW b \in Blocks(r), PassGrid(r, b) PROVE PacksAt(r)'
  <2>1. Turn(r, b, "pack", b, reg[r][b], todo[r][b])
    BY <1>0, <1>7, PassGridTurn
  <2>2. pc[r][b] = "grid" /\ packed' = packed /\ slotMap' = slotMap
    BY <1>7 DEF PassGrid, stdVars
  <2>3. "grid" \in BeforePack
    BY DEF BeforePack
  <2>4. \A w \in PackItems(r) : PackedItem(r, w)' <=> PackedItem(r, w)
    BY <1>0, <2>1, <2>2, <2>3, PackedTurn
  <2> QED
    BY <1>4, <2>2, <2>4
<1>8. ASSUME NEW b \in Blocks(r), EndDispatch(r, b) PROVE PacksAt(r)'
  <2>1. Turn(r, b, "ended", work[r][b], reg[r][b], todo[r][b])
    BY <1>0, <1>8, EndDispatchTurn
  <2>2. pc[r][b] = "pack" /\ packed' = packed /\ slotMap' = slotMap /\ work[r][b] >= totalRecv[r] * TopK
    BY <1>8 DEF EndDispatch, stdVars
  <2>3. totalRecv[r] = Received(r)
    <3>1. Holds(r)
      BY <1>0, <1>1, <2>2, PackHolds
    <3> QED
      BY <1>0, <1>1, <3>1 DEF Totals
  <2>4. \A w \in PackItems(r) : w < work[r][b]
    <3>1. work[r][b] \in Nat
      BY <1>0 DEF Shaped, Fits
    <3>2. PICK n \in Nat : n = Received(r) * TopK
      BY ReceivedNat, ConstantFacts
    <3> QED
      BY <2>2, <2>3, <3>1, <3>2 DEF PackItems
  <2>5. \A w \in PackItems(r) : PackedItem(r, w)' <=> PackedItem(r, w)
    BY <1>0, <2>1, <2>2, <2>4, PackedTurn
  <2> QED
    BY <1>4, <2>2, <2>5
<1>9. ASSUME NEW b \in Blocks(r), Pack(r, b) PROVE PacksAt(r)'
  BY <1>9, PacksPack
<1> QED
  BY <1>5, <1>6, <1>7, <1>8, <1>9, EarlyOr DEF GridStep

\* The blocks of combine read the packed rows only.
LEMMA PacksCombine ==
  ASSUME InTurn, Delivering, NEW r \in Rank, Works(r), CombineStep(r), Holds(r), PacksAt(r)
  PROVE  PacksAt(r)'
<1>0. Typed /\ Ranks /\ Shaped(r) /\ Typed' /\ Shaped(r)'
  BY TypedKeeps, ShapedKeeps DEF Delivering, Ranks
<1>1. InCombine(r) /\ InCombine(r)' /\ PackItems(r)' = PackItems(r)
  BY <1>0, KernelIs, Statics DEF PackItems
<1>2. packed' = packed /\ slotMap' = slotMap
  BY DEF CombineStep, Load, Scatter, ArriveCombine, Meet, Post, Await, Sum, EndCombine, stdVars
<1>3. \A w \in PackItems(r) : PackedItem(r, w)
  BY <1>0, <1>1, CombinePacked
<1>4. \A w \in PackItems(r)' : PackedItem(r, w)'
  <2>1. ASSUME NEW w \in PackItems(r) PROVE PackedItem(r, w)'
    <3>1. PICK c \in Blocks(r) : c = BlockOf(r, w)
      BY <1>0, <1>1, PackItemFacts DEF InCombine
    <3>2. Blocks(r)' = Blocks(r) /\ BlockOf(r, w)' = c /\ ~InDispatch(r)'
      BY <1>0, <3>1, KernelIs, Statics
    <3>3. pc'[r][c] \in CombinePlace
      BY <1>0, <3>2 DEF Shaped, Fits
    <3> QED
      BY <3>2, <3>3 DEF PackedItem, Through, CombinePlace, BeforeSum, BeforePost, Scattering, BeforePack, BeforeGrid,
                        BeforeRewind, BeforeReceive, BeforeSignal, Claiming
  <2> QED
    BY <1>1, <2>1
<1>5. Received(r)' = Received(r) /\ route' = route
  BY Statics, StreamsStay
<1>6. recvTok'[r] = recvTok[r]
  BY HeldStill
<1> QED
  BY <1>1, <1>2, <1>3, <1>4, <1>5, <1>6, PacksSame

LEMMA PacksRest ==
  ASSUME InTurn, Delivering, NEW s \in Rank, Works(s), NEW q \in Rank, Own(q), mode = "std", GridBarrier(q),
         Packing(q), PacksAt(q)
  PROVE  PacksAt(q)'
<1>0. Typed /\ Shaped(q)
  BY DEF Delivering, Ranks
<1>1. /\ Received(q)' = Received(q) /\ route' = route
      /\ \A w : BlockOf(q, w)' = BlockOf(q, w)
  BY Statics, StreamsStay
<1>2. packed'[q] = packed[q] /\ slotMap'[q] = slotMap[q] /\ pc'[q] = pc[q] /\ work'[q] = work[q]
  BY DEF Own
<1>3. \A w : PackedItem(q, w)' <=> PackedItem(q, w)
  BY <1>1, <1>2 DEF PackedItem, Through
<1>4. (\E w \in PackItems(q) : PackedItem(q, w)) => recvTok' = recvTok
  BY <1>0, PackedHolder, HeldStill DEF Packing
<1> QED
  BY <1>1, <1>2, <1>3, <1>4, PacksSame

LEMMA PacksKeep ==
  ASSUME InTurn, Delivering, Packs, NEW r \in Rank, Works(r)
  PROVE  Packs'
<1>0. Typed /\ Ranks /\ Totals /\ Shaped(r) /\ mode' = mode
  BY StreamsStay DEF Delivering, Ranks
<1>1. SUFFICES ASSUME mode = "std", NEW q \in Rank PROVE (GridBarrier(q) /\ (Packing(q) => PacksAt(q)))'
  BY <1>0 DEF Packs
<1>2. \A p \in Rank : GridBarrier(p) /\ (Packing(p) => PacksAt(p))
  BY <1>1 DEF Packs
<1>3. GridBarrier(q)' /\ (InDispatch(q) => (Even(q)' <=> Even(q)))
  BY <1>1, <1>2, GridKeeps
<1>4. ASSUME Packing(q)' PROVE PacksAt(q)'
  <2>1. InDispatch(q)' <=> InDispatch(q)
    BY Statics
  <2>2. CASE q # r
    <3>1. Own(q)
      BY <1>0, <2>2, OthersRest
    <3>2. Holds(q)' <=> Holds(q)
      <4>1. TotalsAt(q)
        BY <1>0 DEF Totals, TotalsAt
      <4> QED
        BY <3>1, <4>1, TotalsRest
    <3>3. Packing(q)
      BY <1>3, <1>4, <2>1, <3>2 DEF Packing
    <3> QED
      BY <1>1, <1>2, <3>1, <3>3, PacksRest
  <2>3. CASE q = r /\ DispatchStep(r)
    <3>1. InDispatch(r)
      BY <1>0, <2>3, KernelIs
    <3>2. Even(r) /\ Packing(r)
      BY <1>3, <1>4, <2>1, <2>3, <3>1 DEF Packing
    <3> QED
      BY <1>1, <1>2, <2>3, <3>2, PacksDispatch
  <2>4. CASE q = r /\ CombineStep(r)
    <3>1. ~InDispatch(r)
      BY <1>0, <2>4, KernelIs
    <3>2. Holds(r)
      BY <1>4, <2>1, <2>4, <3>1, TotalsCombine DEF Packing
    <3> QED
      BY <1>2, <2>4, <3>1, <3>2, PacksCombine DEF Packing
  <2> QED
    BY <2>2, <2>3, <2>4 DEF Works
<1> QED
  BY <1>3, <1>4

\* What a stream does to the buffers between two kernels.
LEMMA StartData ==
  ASSUME InTurn, Typed, NEW r \in Rank, Start(r)
  PROVE  /\ UNCHANGED <<recvTok, slotMap, tokMap, mode, route>>
         /\ \A q \in Rank \ {r} : /\ packed'[q] = packed[q] /\ out'[q] = out[q]
                                  /\ inp'[q] = inp[q] /\ combInp'[q] = combInp[q]
         /\ InDispatch(r) =>
              /\ packed' = packed
              /\ inp' = IF mode = "copy" THEN [inp EXCEPT ![r] = Staged(r, inp[r])] ELSE inp
              /\ combInp' = IF mode = "zero" THEN [combInp EXCEPT ![r] = Staged(r, combInp[r])] ELSE combInp
         /\ ~InDispatch(r) =>
              /\ inp' = inp /\ combInp' = combInp /\ out' = out
              /\ mode = "std" => packed'[r] = [e \in Expert |-> <<>>]
<1>1. UNCHANGED <<recvTok, slotMap, tokMap, mode, route>>
  BY DEF Start, dispatchVars
<1>2. Runs(r, "dispatch") <=> InDispatch(r)
  BY PlaceFacts
<1>3. Program[place'[r]] = IF InDispatch(r) THEN "combine" ELSE "dispatch"
  <2>1. Started(r)
    BY StartIs
  <2>2. Program[place'[r]] = IF InDispatch(r)' THEN "dispatch" ELSE "combine"
    BY <2>1 DEF Started, InTurn, InDispatch
  <2> QED
    BY <2>1, <2>2 DEF Started
<1>4. /\ IF ~InDispatch(r) /\ mode = "std"
         THEN packed' = [packed EXCEPT ![r] = [e \in Expert |-> <<>>]] ELSE packed' = packed
      /\ IF InDispatch(r) THEN out' = [out EXCEPT ![r] = NoSums] ELSE out' = out
      /\ inp' = IF InDispatch(r) /\ mode = "copy" THEN [inp EXCEPT ![r] = Staged(r, inp[r])] ELSE inp
      /\ combInp' = IF InDispatch(r) /\ mode = "zero" THEN [combInp EXCEPT ![r] = Staged(r, combInp[r])] ELSE combInp
  BY <1>2, <1>3 DEF Start
<1>5. packed \in [Rank -> [Expert -> Seq(Token)]] /\ DOMAIN inp = Rank /\ DOMAIN combInp = Rank /\ DOMAIN out = Rank
  BY DEF Typed
<1>6. ASSUME NEW q \in Rank \ {r}
      PROVE  packed'[q] = packed[q] /\ out'[q] = out[q] /\ inp'[q] = inp[q] /\ combInp'[q] = combInp[q]
  <2>1. packed'[q] = packed[q]
    BY <1>4, <1>5, <1>6
  <2>2. out'[q] = out[q]
    BY <1>4, <1>5, <1>6
  <2>3. inp'[q] = inp[q]
    BY <1>4, <1>5, <1>6
  <2>4. combInp'[q] = combInp[q]
    BY <1>4, <1>5, <1>6
  <2> QED
    BY <2>1, <2>2, <2>3, <2>4
<1>7. ~InDispatch(r) /\ mode = "std" => packed'[r] = [e \in Expert |-> <<>>]
  BY <1>4, <1>5
<1> QED
  BY <1>1, <1>4, <1>6, <1>7

LEMMA PacksStart ==
  ASSUME InTurn, Delivering, Packs, NEW r \in Rank, Start(r)
  PROVE  Packs'
<1>0. Typed /\ Ranks /\ Meets /\ Started(r)
      /\ UNCHANGED <<recvTok, slotMap, tokMap, mode, route>>
  BY StartData, StartIs DEF Delivering
<1>1. SUFFICES ASSUME mode = "std", NEW q \in Rank PROVE (GridBarrier(q) /\ (Packing(q) => PacksAt(q)))'
  BY <1>0 DEF Packs
<1>2. GridBarrier(q) /\ (Packing(q) => PacksAt(q))
  BY <1>1 DEF Packs
<1>3. GridBarrier(q)' /\ (q # r => (Even(q)' <=> Even(q)))
  BY <1>1, <1>2, GridStart
<1>4. ASSUME Packing(q)' PROVE PacksAt(q)'
  <2>1. CASE q # r
    <3>1. PacksAt(q)
      BY <1>0, <1>2, <1>3, <1>4, <2>1, StartOthers, StartViews DEF Packing
    <3>2. packed'[q] = packed[q] /\ slotMap'[q] = slotMap[q]
      BY <1>0, <2>1, StartData
    <3>3. Received(q)' = Received(q) /\ pc'[q] = pc[q] /\ work'[q] = work[q] /\ \A w : BlockOf(q, w)' = BlockOf(q, w)
      BY <1>0, <2>1, StartOthers
    <3>4. \A w : PackedItem(q, w)' <=> PackedItem(q, w)
      BY <3>3 DEF PackedItem, Through
    <3> QED
      BY <1>0, <3>1, <3>2, <3>3, <3>4, PacksSame
  <2>2. ASSUME q = r, NEW w \in Nat PROVE BlockOf(q, w)' \in Blocks(q)'
    <3>1. PICK G \in Nat \ {0} : G = Grid[place'[r]]
      BY <1>0 DEF Started
    <3>2. w % G \in 0..(G - 1)
      BY Division
    <3>3. Blocks(r)' = 0..(Grid[place'[r]] - 1)
      BY <1>0 DEF Started
    <3> QED
      BY <2>2, <3>1, <3>2, <3>3 DEF BlockOf
  <2>3. CASE q = r /\ InDispatch(r)
    <3>1. place[r] > 0
      BY <1>0, <2>3, PlaceFacts
    <3>2. PacksAt(r) /\ \A b \in Blocks(r) : pc[r][b] = "ended"
      <4>1. Ended(r)
        BY DEF Start
      <4> QED
        BY <1>0, <1>2, <2>3, <4>1, EndedEven DEF Packing, Ended
    <3>3. Received(r)' = Received(r)
      BY <1>0, <2>3, StartSame
    <3>4. ASSUME NEW w \in PackItems(r) PROVE PackedItem(r, w) /\ PackedItem(r, w)'
      <4>1. BlockOf(r, w) \in Blocks(r) /\ w \in Nat
        BY <1>0, <3>1, PackItemFacts
      <4>2. BlockOf(r, w)' \in Blocks(r)'
        BY <2>2, <2>3, <4>1
      <4>3. pc[r][BlockOf(r, w)] = "ended" /\ pc'[r][BlockOf(r, w)'] = "load"
        BY <1>0, <2>3, <3>2, <4>1, <4>2 DEF Started
      <4> QED
        BY <4>3 DEF PackedItem, Through, BeforePack, BeforeGrid, BeforeRewind, BeforeReceive, BeforeSignal, Claiming
    <3>5. packed' = packed
      BY <1>0, <2>3, StartData
    <3> QED
      BY <1>0, <2>3, <3>2, <3>3, <3>4, <3>5, PacksSame
  <2>4. CASE q = r /\ ~InDispatch(r)
    <3>1. ASSUME NEW w \in PackItems(r)' PROVE ~PackedItem(r, w)'
      <4>1. w \in Nat
        BY DEF PackItems
      <4>2. BlockOf(r, w)' \in Blocks(r)'
        BY <2>2, <2>4, <4>1
      <4>3. pc'[r][BlockOf(r, w)'] = "claim"
        BY <1>0, <2>4, <4>2 DEF Started
      <4> QED
        BY <4>3 DEF PackedItem, Through, BeforePack, BeforeGrid, BeforeRewind, BeforeReceive, BeforeSignal, Claiming
    <3>2. packed'[r] = [e \in Expert |-> <<>>]
      BY <1>0, <1>1, <2>4, StartData
    <3>3. ASSUME NEW e \in Expert PROVE Len(packed'[r][e]) = Cardinality(PackedFor(r, e)')
      <4>1. PackedFor(r, e)' = {}
        BY <3>1 DEF PackedFor
      <4>2. packed'[r][e] = <<>> /\ Len(<<>>) = 0
        BY <3>2
      <4> QED
        BY <4>1, <4>2, FS_EmptySet
    <3> QED
      BY <2>4, <3>1, <3>3 DEF PacksAt
  <2> QED
    BY <2>1, <2>3, <2>4
<1> QED
  BY <1>3, <1>4

LEMMA PacksInit ==
  ASSUME Init
  PROVE  Packs
BY DEF Init, Packs, Packing, GridBarrier, Holds, InDispatch

\* What the std variant has packed when its dispatch has ended.
LEMMA EndedPacked ==
  ASSUME InTurn, Delivering, Packs
  PROVE  Packed
<1>0. Typed /\ Ranks /\ Meets /\ Totals
  BY DEF Delivering
<1> SUFFICES ASSUME NEW r \in Rank, mode = "std", Runs(r, "dispatch"), Ended(r)
             PROVE  /\ \A e \in Expert : Len(packed[r][e]) =
                         Cardinality({i \in 0..(totalRecv[r] - 1) : \E k \in KSlot : Owner(e) = r /\ Experts(recvTok[r][i])[k] = e})
                    /\ \A i \in 0..(totalRecv[r] - 1) : \A k \in KSlot :
                         LET e == Experts(recvTok[r][i])[k]
                             s == slotMap[r][i * TopK + k]
                         IN  IF Owner(e) # r THEN s = <<>> ELSE s[1] = e /\ packed[r][e][s[2]] = recvTok[r][i]
  BY DEF Packed
<1>1. InDispatch(r) /\ place[r] > 0 /\ Holds(r) /\ totalRecv[r] = Received(r) /\ Received(r) \in Nat
  BY <1>0, PlaceFacts, EndedFacts, ReceivedNat DEF Totals
<1>2. PacksAt(r)
  BY <1>0, <1>1, EndedEven DEF Packs, Packing
<1>3. ASSUME NEW w \in PackItems(r) PROVE PackedItem(r, w)
  <2>1. BlockOf(r, w) \in Blocks(r)
    BY <1>0, <1>1, PackItemFacts
  <2>2. pc[r][BlockOf(r, w)] = "ended"
    BY <2>1 DEF Ended
  <2> QED
    BY <2>2 DEF PackedItem, Through, BeforePack, BeforeGrid, BeforeRewind, BeforeReceive, BeforeSignal, Claiming
<1>4. ASSUME NEW i \in 0..(Received(r) - 1), NEW k \in KSlot
      PROVE  /\ i * TopK + k \in PackItems(r) /\ RowAt(r, i * TopK + k) = recvTok[r][i]
             /\ ExpertOf(r, i * TopK + k) = Experts(recvTok[r][i])[k]
  BY <1>1, ItemIs DEF PackItems, RowAt, ExpertOf
<1>5. ASSUME NEW e \in Expert
      PROVE  Len(packed[r][e]) =
               Cardinality({i \in 0..(Received(r) - 1) : \E k \in KSlot : Owner(e) = r /\ Experts(recvTok[r][i])[k] = e})
  <2> DEFINE R == {i \in 0..(Received(r) - 1) : \E k \in KSlot : Owner(e) = r /\ Experts(recvTok[r][i])[k] = e}
             W == PackedFor(r, e)
             f == [w \in W |-> w \div TopK]
  <2>1. \A w \in W : w \in PackItems(r) /\ Owner(e) = r /\ Experts(recvTok[r][w \div TopK])[SlotOf(w)] = e
    BY DEF PackedFor, ExpertOf, RowAt
  <2>2. \A w \in W : /\ w \div TopK \in 0..(Received(r) - 1) /\ SlotOf(w) \in KSlot
                     /\ w = (w \div TopK) * TopK + SlotOf(w)
    BY <1>0, <1>1, <2>1, PackItemFacts
  <2>3. f \in [W -> R]
    BY <2>1, <2>2
  <2>4. \A v, w \in W : f[v] = f[w] => v = w
    <3> SUFFICES ASSUME NEW v \in W, NEW w \in W, v \div TopK = w \div TopK PROVE v = w
      OBVIOUS
    <3>1. Experts(recvTok[r][w \div TopK])[SlotOf(v)] = Experts(recvTok[r][w \div TopK])[SlotOf(w)]
      BY <2>1
    <3>2. SlotOf(v) = SlotOf(w)
      BY <1>1, <2>2, <3>1, RowExperts
    <3> QED
      BY <2>2, <3>2
  <2>5. \A i \in R : \E w \in W : f[w] = i
    <3> SUFFICES ASSUME NEW i \in R PROVE \E w \in W : f[w] = i
      OBVIOUS
    <3>1. PICK k \in KSlot : Owner(e) = r /\ Experts(recvTok[r][i])[k] = e
      OBVIOUS
    <3>2. PICK w : w = i * TopK + k
      OBVIOUS
    <3>3. w \in PackItems(r) /\ ExpertOf(r, w) = e /\ w \div TopK = i
      BY <1>1, <1>4, <3>1, <3>2, ItemIs
    <3>4. w \in W
      BY <1>3, <3>1, <3>3 DEF PackedFor
    <3> QED
      BY <3>3, <3>4
  <2>6. IsFiniteSet(W)
    <3>1. Received(r) * TopK \in Nat
      BY <1>1, ConstantFacts
    <3>2. IsFiniteSet(PackItems(r))
      BY <3>1, FS_Interval DEF PackItems
    <3> QED
      BY <3>2, FS_Subset DEF PackedFor
  <2>7. Cardinality(W) = Cardinality(R)
    <3> HIDE DEF f, W, R
    <3>1. f \in Bijection(W, R)
      BY <2>3, <2>4, <2>5, Fun_IsBij
    <3>2. ExistsBijection(W, R)
      BY <3>1 DEF ExistsBijection
    <3> QED
      BY <2>6, <3>2, FS_Bijection
  <2> QED
    BY <1>2, <2>7 DEF PacksAt
<1>6. ASSUME NEW i \in 0..(Received(r) - 1), NEW k \in KSlot
      PROVE  LET e == Experts(recvTok[r][i])[k]
                 s == slotMap[r][i * TopK + k]
             IN  IF Owner(e) # r THEN s = <<>> ELSE s[1] = e /\ packed[r][e][s[2]] = recvTok[r][i]
  <2>1. PICK w \in PackItems(r) : w = i * TopK + k
    BY <1>4
  <2>2. RowAt(r, w) = recvTok[r][i] /\ ExpertOf(r, w) = Experts(recvTok[r][i])[k] /\ PackedItem(r, w)
    BY <1>3, <1>4, <2>1
  <2>3. LET e == ExpertOf(r, w)
        IN  IF Owner(e) # r THEN slotMap[r][w] = <<>>
            ELSE \E j \in 1..Len(packed[r][e]) : slotMap[r][w] = <<e, j>> /\ packed[r][e][j] = RowAt(r, w)
    BY <1>2, <2>2 DEF PacksAt
  <2> QED
    BY <2>1, <2>2, <2>3
<1> QED
  BY <1>1, <1>5, <1>6

-----------------------------------------------------------------------------
(* The rows that combine reads.                                            *)

LEMMA OutputSame ==
  ASSUME route' = route, NEW p, NEW x
  PROVE  Output(p, x)' = Output(p, x)
BY DEF Output, Experts

LEMMA StagedKeeps ==
  ASSUME InTurn, Delivering, StagedRows, NEW r \in Rank, Works(r)
  PROVE  StagedRows'
<1>0. Typed /\ Ranks
  BY DEF Delivering
<1> SUFFICES ASSUME mode' = "copy", NEW p \in Rank, InCombine(p)', Holds(p)', NEW i \in 0..(Received(p)' - 1)
             PROVE  (inp[p][i] = Output(p, recvTok[p][i]))'
  BY DEF StagedRows
<1>1. mode = "copy" /\ InCombine(p) /\ Received(p)' = Received(p) /\ inp' = inp /\ route' = route
  BY Statics, StreamsStay
<1>2. Holds(p)
  <2>1. ~(p = r /\ Receive(r))
    <3>1. Receive(r) => InDispatch(r) /\ ~InCombine(r)
      BY <1>0, KernelIs DEF Ranks, DispatchStep
    <3> QED
      BY <1>1, <3>1
  <2> QED
    BY <2>1, TotalsKeep
<1>3. recvTok' = recvTok
  BY <1>2, HeldStill
<1>4. inp[p][i] = Output(p, recvTok[p][i])
  BY <1>1, <1>2 DEF StagedRows
<1> QED
  BY <1>1, <1>3, <1>4 DEF Output, Experts

LEMMA StagedStart ==
  ASSUME InTurn, Delivering, StagedRows, NEW r \in Rank, Start(r)
  PROVE  StagedRows'
<1>0. /\ Typed /\ Ranks /\ Meets /\ Totals /\ Started(r)
      /\ UNCHANGED <<recvTok, slotMap, tokMap, mode, route>>
  BY StartData, StartIs DEF Delivering
<1> SUFFICES ASSUME mode' = "copy", NEW p \in Rank, InCombine(p)', Holds(p)', NEW i \in 0..(Received(p)' - 1)
             PROVE  (inp[p][i] = Output(p, recvTok[p][i]))'
  BY DEF StagedRows
<1>1. inp'[p][i] = Output(p, recvTok[p][i])
  <2>1. CASE p # r
    <3>1. inp'[p] = inp[p] /\ Received(p)' = Received(p) /\ Holds(p) /\ InCombine(p)
      BY <1>0, <2>1, StartData, StartOthers, StartViews
    <3> QED
      BY <1>0, <3>1 DEF StagedRows
  <2>2. CASE p = r
    <3>1. InDispatch(r) /\ Ended(r)
      BY <1>0, <2>2 DEF Started, Start
    <3>2. inp' = [inp EXCEPT ![r] = Staged(r, inp[r])] /\ Received(r)' = Received(r)
      BY <1>0, <3>1, StartData, StartSame
    <3>3. Holds(r)
      BY <1>0, <3>1, EndedFacts, PlaceFacts
    <3>4. totalRecv[r] = Received(r) /\ Received(r) \in Nat /\ Received(r) <= MaxRecv
      BY <1>0, <3>1, <3>3, ReceivedNat DEF Totals
    <3>5. DOMAIN inp = Rank /\ DOMAIN inp[r] = 0..(MaxRecv - 1)
      BY <1>0 DEF Typed
    <3>6. i \in DOMAIN inp[r] /\ i < totalRecv[r]
      BY <2>2, <3>2, <3>4, <3>5, ConstantFacts
    <3> QED
      BY <2>2, <3>2, <3>5, <3>6 DEF Staged
  <2> QED
    BY <2>1, <2>2
<1> QED
  BY <1>0, <1>1 DEF Output, Experts

\* What a rank's experts have made of a row, in its buffer or packed.
LEMMA ReducedIs ==
  ASSUME InTurn, Delivering, Packs, StagedRows, NEW p \in Rank, InCombine(p), Holds(p), mode # "zero",
         NEW i \in 0..(Received(p) - 1)
  PROVE  Reduced(p, i) = Output(p, recvTok[p][i])
<1>0. Typed /\ Ranks /\ Shaped(p)
  BY DEF Delivering, Ranks
<1>1. mode = "copy" \/ mode = "std"
  <2>1. mode \in Modes /\ Modes \subseteq {"copy", "zero", "std"}
    BY <1>0, ConstantsAssumption DEF Typed
  <2> QED
    BY <2>1
<1>2. CASE mode = "copy"
  BY <1>2 DEF StagedRows, Reduced
<1>3. CASE mode = "std"
  <2> DEFINE x == recvTok[p][i]
             e(k) == Experts(x)[k]
             part(k) == LET s == slotMap[p][i * TopK + k]
                        IN  IF s = <<>> THEN {} ELSE {[token |-> packed[p][s[1]][s[2]], expert |-> s[1]]}
  <2>1. PacksAt(p) /\ x # Nothing
    BY <1>0, <1>3, RowExperts, PlaceFacts DEF Packs, Packing, InCombine
  <2>2. ASSUME NEW k \in KSlot
        PROVE  part(k) = IF Owner(e(k)) = p THEN {[token |-> x, expert |-> e(k)]} ELSE {}
    <3>1. PICK w : w = i * TopK + k
      OBVIOUS
    <3>2. w \in PackItems(p) /\ w \div TopK = i /\ SlotOf(w) = k
      BY <3>1, ReceivedNat, ItemIs DEF PackItems
    <3>3. PackedItem(p, w)
      BY <1>0, <3>2, CombinePacked
    <3>4. ExpertOf(p, w) = e(k) /\ RowAt(p, w) = x
      BY <3>2 DEF ExpertOf, RowAt
    <3>5. LET f == ExpertOf(p, w)
          IN  IF Owner(f) # p THEN slotMap[p][w] = <<>>
              ELSE \E j \in 1..Len(packed[p][f]) : slotMap[p][w] = <<f, j>> /\ packed[p][f][j] = RowAt(p, w)
      BY <2>1, <3>2, <3>3 DEF PacksAt
    <3>6. CASE Owner(e(k)) # p
      BY <3>1, <3>4, <3>5, <3>6
    <3>7. CASE Owner(e(k)) = p
      <4>1. PICK j : slotMap[p][w] = <<e(k), j>> /\ packed[p][e(k)][j] = x
        BY <3>4, <3>5, <3>7
      <4>2. <<e(k), j>> # <<>> /\ <<e(k), j>>[1] = e(k) /\ <<e(k), j>>[2] = j
        OBVIOUS
      <4> HIDE DEF e, x
      <4>3. part(k) = {[token |-> packed[p][e(k)][j], expert |-> e(k)]}
        BY <3>1, <4>1, <4>2
      <4> QED
        BY <3>7, <4>1, <4>3
    <3> QED
      BY <3>6, <3>7
  <2>3. Reduced(p, i) = UNION {part(k) : k \in KSlot}
    BY <1>3 DEF Reduced
  <2>4. Output(p, x) = {[token |-> x, expert |-> e(k)] : k \in {k \in KSlot : Owner(e(k)) = p}}
    BY <2>1 DEF Output
  <2> HIDE DEF part, e, x
  <2>5. UNION {part(k) : k \in KSlot} = {[token |-> x, expert |-> e(k)] : k \in {k \in KSlot : Owner(e(k)) = p}}
    BY <2>2
  <2> QED
    BY <2>3, <2>4, <2>5 DEF x
<1> QED
  BY <1>1, <1>2, <1>3

-----------------------------------------------------------------------------
(* The rows on their way back.                                             *)

LEMMA BufferRows ==
  ASSUME NEW p \in Rank, NEW t \in 1..MaxTok
  PROVE  /\ Row(p, t) \in 0..(World * MaxTok - 1)
         /\ \A s \in Rank, u \in 1..MaxTok : Row(p, t) = Row(s, u) => p = s /\ t = u
<1>0. p \in Nat /\ p < World /\ World \in Nat /\ MaxTok \in Nat \ {0}
  BY ConstantFacts
<1>1. p * MaxTok + MaxTok <= World * MaxTok /\ p * MaxTok \in Nat /\ World * MaxTok \in Nat
  BY <1>0, Multiples
<1>2. Row(p, t) \in 0..(World * MaxTok - 1)
  <2>1. PICK a \in Nat, c \in Nat : a = p * MaxTok /\ c = World * MaxTok
    BY <1>1
  <2>2. a + MaxTok <= c
    BY <1>1, <2>1
  <2>3. a + t - 1 \in 0..(c - 1)
    BY <1>0, <2>2
  <2> QED
    BY <2>1, <2>3 DEF Row
<1>3. ASSUME NEW s \in Rank, NEW u \in 1..MaxTok, Row(p, t) = Row(s, u) PROVE p = s /\ t = u
  <2>1. s \in Nat /\ t - 1 \in 0..(MaxTok - 1) /\ u - 1 \in 0..(MaxTok - 1)
    BY <1>0, ConstantFacts
  <2>2. p * MaxTok + (t - 1) = s * MaxTok + (u - 1)
    <3>1. PICK a \in Nat, c \in Nat : a = p * MaxTok /\ c = s * MaxTok
      BY <1>0, <2>1
    <3>2. a + t - 1 = c + u - 1
      BY <1>3, <3>1 DEF Row
    <3>3. a + (t - 1) = c + (u - 1)
      BY <3>2
    <3> QED
      BY <3>1, <3>3
  <2>3. p = s /\ t - 1 = u - 1
    BY <1>0, <2>1, <2>2, Quotients
  <2> QED
    BY <2>3
<1> QED
  BY <1>2, <1>3

\* An item that has a row.
LEMMA ItemBack ==
  ASSUME InTurn, Typed, Mapped, NEW r \in Rank, place[r] > 0, NEW w \in Items(r), Claimed(r, w), tokMap[r][w] # Dropped
  PROVE  /\ tokMap[r][w].pe = Goes(r, w) /\ Goes(r, w) \in Rank /\ tokMap[r][w].id \in 0..(MaxRecv - 1)
         /\ tokMap[r][w] = [pe |-> tokMap[r][w].pe, id |-> tokMap[r][w].id]
         /\ ~Dup(r, w) /\ TokOf(w) \in 1..MaxTok /\ TokOf(w) \in 1..Len(Tokens(r))
<1>1. w \in AllItems /\ Goes(r, w) \in Rank /\ TokOf(w) \in 1..Len(Tokens(r)) /\ Len(Tokens(r)) \in 0..MaxTok
  BY ItemsFit
<1>2. ~Dup(r, w) /\ tokMap[r][w].pe = Goes(r, w) /\ tokMap[r][w].id < MaxRecv
  BY DEF Mapped
<1>3. tokMap[r][w] \in [pe : 0..World, id : Nat]
  BY <1>1 DEF Typed
<1>4. tokMap[r][w].id \in Nat
  BY <1>3
<1>5. tokMap[r][w].id \in 0..(MaxRecv - 1)
  BY <1>2, <1>4, ConstantFacts
<1>6. TokOf(w) \in 1..MaxTok
  BY <1>1, ConstantFacts
<1> QED
  BY <1>1, <1>2, <1>3, <1>5, <1>6

\* No rank is past the dispatch of a rank that has not sent its counts.
LEMMA NoneFurther ==
  ASSUME InTurn, Typed, Meets, NEW r \in Rank, InDispatch(r), pc[r][0] \in BeforeSignal, NEW p \in Rank
  PROVE  place[p] < 2 * RoundOf(place[r])
<1>1. /\ place[r] \in Nat /\ place[p] \in Nat /\ RoundOf(place[r]) \in Nat
      /\ place[r] = 2 * RoundOf(place[r]) - 1 /\ place[r] > 0
  <2>1. place[r] \in Nat /\ RoundOf(place[r]) \in Nat /\ place[r] = 2 * RoundOf(place[r]) - 1 /\ place[r] > 0
    BY PlaceFacts
  <2>2. place[p] \in Nat
    BY PlaceFacts
  <2> QED
    BY <2>1, <2>2
<1>2. ~Sent(r, p)
  BY DEF Sent
<1>3. place[p] <= place[r]
  BY <1>1, <1>2, Apart
<1> QED
  BY <1>1, <1>3

\* An item's row is the one it had, and if it is new the counts are not out.
LEMMA ItemsNext ==
  ASSUME InTurn, Delivering, NEW r \in Rank, Works(r), NEW q \in Rank, NEW w \in Items(q),
         Past(q, w)', tokMap'[q][w] # Dropped
  PROVE  tokMap'[q][w] = tokMap[q][w]
         /\ (Past(q, w) \/ (Holding(q, w) /\ InDispatch(q) /\ pc[q][0] \in BeforeSignal))
<1>0. Typed /\ Ranks
  BY DEF Delivering
<1>1. CASE Calm
  BY <1>1 DEF Calm, SameItems
<1>2. ASSUME NEW b \in Blocks(r), Claim(r, b) PROVE Past(q, w) /\ tokMap'[q][w] = tokMap[q][w]
  <2>1. PICK v : v = work[r][b]
    OBVIOUS
  <2>2. OthersStay(r, v) /\ (~Past(r, v)' \/ tokMap'[r][v] = Dropped)
    <3>1. OthersStay(r, v)
      BY <1>2, <2>1, ClaimItems
    <3>2. ~Past(r, v)' \/ tokMap'[r][v] = Dropped
      BY <1>2, <2>1, ClaimItems, Zenon
    <3> QED
      BY <3>1, <3>2
  <2> QED
    BY <2>2 DEF OthersStay
<1>3. ASSUME NEW b \in Blocks(r), Publish(r, b)
      PROVE  tokMap'[q][w] = tokMap[q][w]
             /\ (Past(q, w) \/ (Holding(q, w) /\ InDispatch(q) /\ pc[q][0] \in BeforeSignal))
  <2>1. PICK v : v = work[r][b]
    OBVIOUS
  <2>2. OthersStay(r, v) /\ UNCHANGED tokMap /\ Holding(r, v)
    BY <1>3, <2>1, PublishItems
  <2>3. InDispatch(r) /\ pc[r][0] \in BeforeSignal
    <3>1. pc[r][b] = "publish"
      BY <1>3 DEF Publish
    <3> QED
      BY <1>0, <3>1, ClaimFirst DEF Claiming
  <2> QED
    BY <2>2, <2>3 DEF OthersStay
<1> QED
  BY <1>1, <1>2, <1>3, CalmOr DEF Claims, Publishes

\* A block that scatters has rows in hand.
LEMMA ScatterHolds ==
  ASSUME InTurn, Delivering, NEW r \in Rank, NEW b \in Blocks(r), pc[r][b] = "scatter"
  PROVE  /\ InCombine(r) /\ Holds(r) /\ reg[r][b].total = Received(r) /\ Received(r) \in Nat
         /\ work[r][b] \in Nat /\ BlockOf(r, work[r][b]) = b
<1>0. Typed /\ Shaped(r) /\ Barriers(r) /\ Totals
  BY DEF Delivering, Ranks
<1>1. InCombine(r) /\ ~InDispatch(r) /\ place[r] > 0
  BY <1>0, KernelOf DEF BeforeSum, BeforePost, Scattering
<1>2. pc[r][0] \in BeforePost
  <2>1. b \notin Beyond(r, Scattering)
    BY DEF Beyond, Scattering
  <2> QED
    BY <1>0, <1>1, <2>1 DEF Barriers
<1>3. work[r][b] \in Nat /\ BlockOf(r, work[r][b]) = b
  BY <1>0 DEF Shaped, Fits, Scattering
<1> QED
  BY <1>0, <1>1, <1>2, <1>3, ReceivedNat DEF Holds, Totals

LEMMA ScatteredTurn ==
  ASSUME InTurn, Typed, NEW r \in Rank, Shaped(r), Works(r), NEW b \in Blocks(r), NEW l, NEW w, NEW g, NEW d,
         Turn(r, b, l, w, g, d), NEW i \in Nat, Scattered(r, i)',
         BlockOf(r, i) # b \/ pc[r][b] \notin Scattering
  PROVE  Scattered(r, i)
<1>1. BlockOf(r, i)' = BlockOf(r, i) /\ BlockOf(r, i) \in Blocks(r)
  BY Statics, BlockLow, Onward
<1>2. CASE BlockOf(r, i) # b
  <2>1. pc'[r][BlockOf(r, i)] = pc[r][BlockOf(r, i)] /\ work'[r][BlockOf(r, i)] = work[r][BlockOf(r, i)]
    BY <1>1, <1>2 DEF Turn
  <2> QED
    BY <1>1, <2>1 DEF Scattered, Through
<1>3. CASE BlockOf(r, i) = b
  BY <1>3 DEF Scattered, Through, Scattering
<1> QED
  BY <1>2, <1>3

LEMMA ScatteredNext ==
  ASSUME InTurn, Delivering, NEW r \in Rank, Works(r), CombineStep(r), NEW i \in Nat, Holds(r) => i < Received(r),
         Scattered(r, i)'
  PROVE  Scattered(r, i) \/ \E b \in Blocks(r) : Scatter(r, b) /\ i = work[r][b]
<1>0. Typed /\ Shaped(r)
  BY DEF Delivering, Ranks
<1>1. place[r] > 0
  BY <1>0, KernelIs DEF InCombine
<1>2. BlockOf(r, i)' = BlockOf(r, i) /\ BlockOf(r, i) \in Blocks(r) /\ BlockOf(r, i) <= i
  BY <1>0, <1>1, Statics, BlockLow
<1>3. ASSUME NEW b \in Blocks(r), Load(r, b) PROVE Scattered(r, i)
  <2>1. Turn(r, b, "scatter", work[r][b], [reg[r][b] EXCEPT !.total = totalRecv[r], !.flag = xdbFlag[r]], todo[r][b])
    BY <1>0, <1>3, LoadTurn
  <2>2. pc[r][b] = "load" /\ work[r][b] = b /\ b \in Nat
    BY <1>0, <1>3, Onward DEF Load, Shaped, Fits
  <2>3. BlockOf(r, i) # b
    <3> SUFFICES ASSUME BlockOf(r, i) = b PROVE FALSE
      OBVIOUS
    <3>1. pc'[r][b] = "scatter" /\ work'[r][b] = b
      BY <2>1, <2>2 DEF Turn
    <3>2. i < b
      BY <1>2, <3>1 DEF Scattered, Through
    <3> QED
      BY <1>2, <2>2, <3>2
  <2> QED
    BY <1>0, <2>1, <2>3, ScatteredTurn
<1>4. ASSUME NEW b \in Blocks(r), Scatter(r, b) PROVE Scattered(r, i) \/ (Scatter(r, b) /\ i = work[r][b])
  <2>1. Turn(r, b, pc[r][b], work[r][b] + Grid[place[r]], reg[r][b], todo[r][b])
    BY <1>0, <1>4, ScatterTurn
  <2>2. pc[r][b] = "scatter"
    BY <1>4 DEF Scatter
  <2>3. CASE BlockOf(r, i) # b
    BY <1>0, <2>1, <2>3, ScatteredTurn
  <2>4. CASE BlockOf(r, i) = b
    <3>1. work[r][b] \in Nat /\ BlockOf(r, work[r][b]) = b
      BY <2>2, ScatterHolds
    <3>2. i < work[r][b] + Grid[place[r]] <=> i < work[r][b] \/ i = work[r][b]
      BY <1>0, <2>4, <3>1, Onward
    <3>3. pc'[r][b] = "scatter" /\ work'[r][b] = work[r][b] + Grid[place[r]]
      BY <2>1, <2>2 DEF Turn
    <3>4. i < work[r][b] + Grid[place[r]]
      BY <1>2, <2>4, <3>3 DEF Scattered, Through
    <3> QED
      BY <1>4, <2>2, <2>4, <3>2, <3>4 DEF Scattered, Through
  <2> QED
    BY <2>3, <2>4
<1>5. ASSUME NEW b \in Blocks(r), ArriveCombine(r, b) PROVE Scattered(r, i)
  <2>1. Turn(r, b, IF b = 0 THEN "meet" ELSE "await", work[r][b], reg[r][b], Rank)
    BY <1>0, <1>5, ArriveCombineTurn
  <2>2. pc[r][b] = "scatter" /\ work[r][b] >= reg[r][b].total
    BY <1>5 DEF ArriveCombine
  <2>3. i < work[r][b]
    BY <2>2, ScatterHolds
  <2>4. CASE BlockOf(r, i) = b
    BY <2>2, <2>3, <2>4 DEF Scattered, Through
  <2>5. CASE BlockOf(r, i) # b
    BY <1>0, <2>1, <2>5, ScatteredTurn
  <2> QED
    BY <2>4, <2>5
<1>6. CASE Meet(r)
  <2>1. Turn(r, 0, "post", work[r][0], reg[r][0], todo[r][0]) /\ 0 \in Blocks(r)
    BY <1>0, <1>6, MeetTurn DEF Meet
  <2>2. pc[r][0] \notin Scattering
    BY <1>6 DEF Meet, Scattering
  <2> QED
    BY <1>0, <2>1, <2>2, ScatteredTurn
<1>7. ASSUME NEW p \in Rank, Post(r, p) PROVE Scattered(r, i)
  <2>1. Turn(r, 0, IF todo[r][0] = {p} THEN "await" ELSE "post", work[r][0], reg[r][0],
             IF todo[r][0] = {p} THEN Rank ELSE todo[r][0] \ {p}) /\ 0 \in Blocks(r)
    BY <1>0, <1>7, PostTurn DEF Post
  <2>2. pc[r][0] \notin Scattering
    BY <1>7 DEF Post, Scattering
  <2> QED
    BY <1>0, <2>1, <2>2, ScatteredTurn
<1>8. ASSUME NEW b \in Blocks(r), NEW p \in Rank, Await(r, b, p) PROVE Scattered(r, i)
  <2>1. Turn(r, b, IF todo[r][b] \ {p} = {} THEN "sum" ELSE "await",
             IF todo[r][b] \ {p} = {} THEN b ELSE work[r][b], reg[r][b], todo[r][b] \ {p})
    BY <1>0, <1>8, AwaitTurn
  <2>2. pc[r][b] \notin Scattering
    BY <1>8 DEF Await, Scattering
  <2> QED
    BY <1>0, <2>1, <2>2, ScatteredTurn
<1>9. ASSUME NEW b \in Blocks(r), Sum(r, b) PROVE Scattered(r, i)
  <2>1. Turn(r, b, pc[r][b], work[r][b] + Grid[place[r]], reg[r][b], todo[r][b])
    BY <1>0, <1>9, SumTurn
  <2>2. pc[r][b] \notin Scattering
    BY <1>9 DEF Sum, Scattering
  <2> QED
    BY <1>0, <2>1, <2>2, ScatteredTurn
<1>10. ASSUME NEW b \in Blocks(r), EndCombine(r, b) PROVE Scattered(r, i)
  <2>1. Turn(r, b, "ended", work[r][b], reg[r][b], todo[r][b])
    BY <1>0, <1>10, EndCombineTurn
  <2>2. pc[r][b] \notin Scattering
    BY <1>10 DEF EndCombine, Scattering
  <2> QED
    BY <1>0, <2>1, <2>2, ScatteredTurn
<1> QED
  BY <1>3, <1>4, <1>5, <1>6, <1>7, <1>8, <1>9, <1>10 DEF CombineStep

\* What Returned says of one item.
ReturnedAt(r, w) ==
  LET p == tokMap[r][w].pe
      i == tokMap[r][w].id
  IN  PutBack(p, i, 2 * RoundOf(place[r])) => Cell(r, TokOf(w), p, i) = Output(p, Sends(r, w))

\* Row i of rank p is that of one item of this round, and a new row of a later
\* round is that of no item of an earlier one.
LEMMA HeldItem ==
  ASSUME InTurn, Delivering, NEW p \in Rank, Holds(p), NEW i \in 0..(Received(p) - 1),
         NEW r \in Rank, NEW w \in Items(r), tokMap[r][w] = [pe |-> p, id |-> i]
  PROVE  recvTok[p][i] = Sends(r, w)
<1>0. Typed /\ Ranks /\ Meets /\ Filled /\ \A q \in Rank : RoundOf(place[q]) = RoundOf(place[p])
  BY Settled DEF Delivering
<1>1. place[r] > 0 /\ Past(r, w)
  BY <1>0, Settled
<1>2. tokMap[r][w] # Dropped /\ tokMap[r][w].pe = p /\ tokMap[r][w].id = i
  <2>1. p # World
    BY ConstantFacts
  <2>2. tokMap[r][w].pe # Dropped.pe
    BY <2>1 DEF Dropped
  <2> QED
    BY <2>2
<1>3. \A q \in Rank : RoundOf(place[q]) <= RoundOf(place[r])
  BY <1>0, PlaceFacts
<1> QED
  BY <1>0, <1>1, <1>2, <1>3 DEF Filled

LEMMA ReturnedScatter ==
  ASSUME InTurn, Delivering, Packs, StagedRows, NEW s \in Rank, Works(s), NEW b \in Blocks(s), Scatter(s, b),
         mode # "zero", NEW r \in Rank, place[r] > 0, NEW w \in Items(r), Past(r, w), tokMap[r][w] # Dropped,
         ReturnedAt(r, w), tokMap'[r][w] = tokMap[r][w]
  PROVE  ReturnedAt(r, w)'
<1>0. Typed /\ Ranks /\ Meets /\ Mapped /\ Rows /\ mode' = mode /\ place' = place /\ route' = route
  BY StreamsStay DEF Delivering
<1>1. PICK p, i, t : /\ p = tokMap[r][w].pe /\ i = tokMap[r][w].id /\ t = TokOf(w)
  OBVIOUS
<1>2. /\ p = Goes(r, w) /\ p \in Rank /\ i \in 0..(MaxRecv - 1) /\ i \in Nat /\ ~Dup(r, w) /\ t \in 1..MaxTok
      /\ tokMap[r][w] = [pe |-> p, id |-> i]
  BY <1>0, <1>1, ItemBack DEF Claimed
<1>3. PICK j, x : j = work[s][b] /\ x = recvTok[s][j]
  OBVIOUS
<1>4. /\ pc[s][b] = "scatter" /\ j < reg[s][b].total
      /\ combInp' = [combInp EXCEPT ![x.src][Row(s, x.tok)] = Reduced(s, j)]
  BY <1>3 DEF Scatter
<1>5. InCombine(s) /\ Holds(s) /\ j \in 0..(Received(s) - 1)
  BY <1>3, <1>4, ScatterHolds
<1>6. PICK q, v : /\ q \in Rank /\ v \in Items(q)
                  /\ tokMap[q][v] = [pe |-> s, id |-> j] /\ recvTok[s][j] = Sends(q, v)
                  /\ ~Dup(q, v) /\ Goes(q, v) = s /\ RoundOf(place[q]) = RoundOf(place[s])
  BY <1>5, HeldRow
<1>7. place[q] > 0 /\ Past(q, v) /\ RoundOf(place[r]) = RoundOf(place[q]) /\ tokMap[q][v] # Dropped
  <2>1. s # World
    BY ConstantFacts
  <2>2. [pe |-> s, id |-> j].pe # Dropped.pe
    BY <2>1 DEF Dropped
  <2>3. tokMap[q][v] # Dropped
    BY <1>6, <2>2
  <2> QED
    BY <1>0, <1>5, <1>6, <2>3, Settled
<1>8. x.src = q /\ x.tok = TokOf(v) /\ TokOf(v) \in 1..MaxTok
  <2>1. x = Sends(q, v)
    BY <1>3, <1>6
  <2>2. Sends(q, v).src = q /\ Sends(q, v).tok = TokOf(v)
    BY DEF Sends
  <2>3. TokOf(v) \in 1..MaxTok
    BY <1>0, <1>6, <1>7, ItemBack DEF Claimed
  <2> QED
    BY <2>1, <2>2, <2>3
<1>9. /\ DOMAIN combInp = Rank /\ \A c \in Rank : DOMAIN combInp[c] = 0..(World * MaxTok - 1)
      /\ Row(s, TokOf(v)) \in 0..(World * MaxTok - 1) /\ Row(p, t) \in 0..(World * MaxTok - 1)
  BY <1>0, <1>2, <1>6, <1>8, BufferRows DEF Typed
<1>10. /\ combInp'[q][Row(s, TokOf(v))] = Reduced(s, j)
       /\ r # q \/ Row(p, t) # Row(s, TokOf(v)) => combInp'[r][Row(p, t)] = combInp[r][Row(p, t)]
  <2>1. combInp' = [combInp EXCEPT ![q][Row(s, TokOf(v))] = Reduced(s, j)]
    BY <1>4, <1>8
  <2> QED
    BY <1>6, <1>9, <2>1
<1>11. /\ Output(p, Sends(r, w))' = Output(p, Sends(r, w))
       /\ ReturnedAt(r, w)' <=> (PutBack(p, i, 2 * RoundOf(place[r]))' => combInp'[r][Row(p, t)] = Output(p, Sends(r, w)))
       /\ ReturnedAt(r, w) <=> (PutBack(p, i, 2 * RoundOf(place[r])) => combInp[r][Row(p, t)] = Output(p, Sends(r, w)))
  <2>1. Output(p, Sends(r, w))' = Output(p, Sends(r, w))
    BY <1>0 DEF Output, Sends, Experts
  <2> QED
    BY <1>0, <1>1, <2>1 DEF ReturnedAt, Cell
<1>12. CASE p = s /\ i = j
  <2>1. r = q /\ w = v
    BY <1>2, <1>6, <1>7, <1>12 DEF Unique, Claimed, Delivering
  <2>2. Reduced(s, j) = Output(s, recvTok[s][j])
    BY <1>0, <1>5, ReducedIs
  <2> QED
    BY <1>1, <1>6, <1>10, <1>11, <1>12, <2>1, <2>2
<1>13. CASE ~(p = s /\ i = j)
  <2>1. combInp'[r][Row(p, t)] = combInp[r][Row(p, t)]
    <3> SUFFICES ASSUME r = q, Row(p, t) = Row(s, TokOf(v)) PROVE FALSE
      BY <1>10
    <3>1. p = s /\ t = TokOf(v)
      BY <1>2, <1>8, BufferRows
    <3>2. w = v
      BY <1>0, <1>1, <1>2, <1>6, <3>1, ItemsDiffer
    <3>3. [pe |-> p, id |-> i].id = [pe |-> s, id |-> j].id
      BY <1>2, <1>6, <3>2
    <3> QED
      BY <1>13, <3>1, <3>3
  <2>2. PutBack(p, i, 2 * RoundOf(place[r]))' => PutBack(p, i, 2 * RoundOf(place[r]))
    <3> SUFFICES ASSUME Scattered(p, i)' PROVE Scattered(p, i)
      BY <1>0 DEF PutBack
    <3>1. CASE p # s
      <4>1. pc'[p] = pc[p] /\ work'[p] = work[p] /\ BlockOf(p, i)' = BlockOf(p, i)
        BY <1>0, <1>2, <3>1, OthersRest, Statics DEF Own
      <4> QED
        BY <4>1 DEF Scattered, Through
    <3>2. CASE p = s
      <4>1. i < Received(s)
        BY <1>0, <1>1, <1>5, <3>2 DEF Rows
      <4>2. CombineStep(s)
        BY DEF CombineStep
      <4>3. Scattered(s, i) \/ \E c \in Blocks(s) : Scatter(s, c) /\ i = work[s][c]
        BY <1>2, <3>2, <4>1, <4>2, ScatteredNext
      <4>4. ASSUME NEW c \in Blocks(s), Scatter(s, c), i = work[s][c], c # b PROVE FALSE
        <5>1. work' = [work EXCEPT ![s][b] = work[s][b] + Grid[place[s]]]
              /\ work' = [work EXCEPT ![s][c] = work[s][c] + Grid[place[s]]]
          BY <4>4 DEF Scatter, Advance
        <5>2. DOMAIN work = Rank /\ DOMAIN work[s] = Blocks(s) /\ work[s][b] \in Nat /\ Grid[place[s]] \in Nat \ {0}
          BY <1>0, <1>4, <1>5, ScatterHolds, PlaceFacts DEF Typed, Ranks, Shaped, Holds, InCombine
        <5>3. work'[s][b] = work[s][b] + Grid[place[s]] /\ work'[s][b] = work[s][b]
          BY <4>4, <5>1, <5>2
        <5> QED
          BY <5>2, <5>3
      <4> QED
        BY <1>3, <1>13, <3>2, <4>3, <4>4
    <3> QED
      BY <3>1, <3>2
  <2> QED
    BY <1>11, <2>1, <2>2
<1> QED
  BY <1>12, <1>13

\* A row is put back when it is scattered, and at no other step.
LEMMA PutBackNext ==
  ASSUME InTurn, Delivering, NEW s \in Rank, Works(s), NEW p \in Rank, NEW i \in 0..(MaxRecv - 1),
         NEW r \in Rank, NEW w \in Items(r), Past(r, w), tokMap[r][w].pe = p, tokMap[r][w].id = i, NEW n \in Nat,
         n % 2 = 0, n > 0,
         PutBack(p, i, n)', mode = "zero" \/ ~\E b \in Blocks(s) : Scatter(s, b)
  PROVE  PutBack(p, i, n)
<1>0. Typed /\ Ranks /\ Meets /\ Rows /\ mode' = mode /\ place' = place
  BY StreamsStay DEF Delivering
<1>1. CASE mode = "zero"
  BY <1>0, <1>1 DEF PutBack
<1>2. CASE mode # "zero"
  <2>1. place[p] > n \/ (place[p] = n /\ Scattered(p, i)')
    BY <1>0, <1>2 DEF PutBack
  <2>2. CASE place[p] = n /\ Scattered(p, i)'
    <3>1. InCombine(p) /\ ~InDispatch(p) /\ i \in Nat
      BY <2>2 DEF InCombine, InDispatch
    <3>2. CASE p # s
      <4>1. pc'[p] = pc[p] /\ work'[p] = work[p] /\ BlockOf(p, i)' = BlockOf(p, i)
        BY <1>0, <3>2, OthersRest, Statics DEF Own
      <4> QED
        BY <1>2, <2>2, <4>1 DEF PutBack, Scattered, Through
    <3>3. CASE p = s
      <4>1. CombineStep(s)
        BY <1>0, <3>1, <3>3, KernelIs DEF Works, Ranks
      <4>2. Holds(s) => i < Received(s)
        BY <1>0, <3>3 DEF Rows
      <4>3. Scattered(s, i)
        BY <1>2, <2>2, <3>1, <3>3, <4>1, <4>2, ScatteredNext
      <4> QED
        BY <1>2, <2>2, <3>3, <4>3 DEF PutBack
    <3> QED
      BY <3>2, <3>3
  <2> QED
    BY <1>2, <2>1, <2>2 DEF PutBack
<1> QED
  BY <1>1, <1>2

LEMMA CellsStay ==
  ASSUME NEW s, Works(s), mode = "zero" \/ ~\E b \in Blocks(s) : Scatter(s, b)
  PROVE  combInp' = combInp
<1>1. CASE DispatchStep(s)
  BY <1>1 DEF DispatchStep, Claim, Publish, ArriveDispatch, Collect, Signal, Receive, Rewind, Ticket, PassGrid,
              Pack, EndDispatch, combineVars
<1>2. CASE CombineStep(s)
  BY <1>2 DEF CombineStep, Load, Scatter, ArriveCombine, Meet, Post, Await, Sum, EndCombine, combineVars
<1> QED
  BY <1>1, <1>2 DEF Works

LEMMA ReturnedKeeps ==
  ASSUME InTurn, Delivering, Packs, StagedRows, Returned, NEW s \in Rank, Works(s)
  PROVE  Returned'
<1>0. Typed /\ Ranks /\ Meets /\ Mapped /\ mode' = mode /\ place' = place /\ route' = route
  BY StreamsStay DEF Delivering
<1>1. SUFFICES ASSUME NEW r \in Rank, place[r] > 0, NEW w \in Items(r), Past(r, w)', tokMap'[r][w] # Dropped
               PROVE  ReturnedAt(r, w)'
  BY <1>0, Statics DEF Returned, ReturnedAt
<1>2. PICK p, i, t : p = tokMap[r][w].pe /\ i = tokMap[r][w].id /\ t = TokOf(w)
  OBVIOUS
<1>3. PICK n : n = 2 * RoundOf(place[r])
  OBVIOUS
<1>4. n \in Nat /\ n % 2 = 0 /\ n > 0
  <2>1. RoundOf(place[r]) \in Nat /\ RoundOf(place[r]) > 0
    BY <1>0, <1>1, PlaceFacts
  <2> QED
    BY <1>3, <2>1
<1>5. /\ tokMap'[r][w] = tokMap[r][w]
      /\ Past(r, w) \/ (Holding(r, w) /\ InDispatch(r) /\ pc[r][0] \in BeforeSignal)
  BY <1>1, ItemsNext
<1>6. p \in Rank /\ i \in 0..(MaxRecv - 1)
  BY <1>0, <1>1, <1>2, <1>5, ItemBack DEF Claimed
<1>7. /\ Output(p, Sends(r, w))' = Output(p, Sends(r, w))
      /\ ReturnedAt(r, w)' <=> (PutBack(p, i, n)' => Cell(r, t, p, i)' = Output(p, Sends(r, w)))
      /\ ReturnedAt(r, w) <=> (PutBack(p, i, n) => Cell(r, t, p, i) = Output(p, Sends(r, w)))
  <2>1. Output(p, Sends(r, w))' = Output(p, Sends(r, w))
    BY <1>0 DEF Output, Sends, Experts
  <2> QED
    BY <1>0, <1>2, <1>3, <1>5, <2>1 DEF ReturnedAt, PutBack, Cell
<1>8. CASE ~Past(r, w)
  <2>1. place[p] < n
    BY <1>0, <1>3, <1>5, <1>6, <1>8, NoneFurther
  <2>2. place[p] \in Nat
    BY <1>0, <1>6, PlaceFacts
  <2>3. ~PutBack(p, i, n)'
    BY <1>0, <1>4, <2>1, <2>2 DEF PutBack
  <2> QED
    BY <1>7, <2>3
<1>9. CASE Past(r, w)
  <2>1. ReturnedAt(r, w)
    BY <1>1, <1>5, <1>9 DEF Returned, ReturnedAt
  <2>2. CASE mode # "zero" /\ \E b \in Blocks(s) : Scatter(s, b)
    BY <1>1, <1>5, <1>9, <2>1, <2>2, ReturnedScatter
  <2>3. CASE mode = "zero" \/ ~\E b \in Blocks(s) : Scatter(s, b)
    <3>1. combInp' = combInp
      BY <2>3, CellsStay
    <3>2. Cell(r, t, p, i)' = Cell(r, t, p, i)
      BY <1>0, <3>1 DEF Cell
    <3>3. PutBack(p, i, n)' => PutBack(p, i, n)
      BY <1>2, <1>4, <1>6, <1>9, <2>3, PutBackNext
    <3> QED
      BY <1>7, <2>1, <3>2, <3>3
  <2> QED
    BY <2>2, <2>3
<1> QED
  BY <1>8, <1>9

\* A rank that starts a kernel has put back the rows of those before.
LEMMA StartPutBack ==
  ASSUME InTurn, Typed, Ranks, Meets, NEW s \in Rank, Start(s), NEW i \in Nat, NEW n \in Nat, n % 2 = 0, n > 0,
         PutBack(s, i, n)', mode # "zero" \/ ~InDispatch(s)
  PROVE  PutBack(s, i, n)
<1>1. /\ place[s] \in Nat /\ place'[s] = place[s] + 1 /\ mode' = mode
      /\ InDispatch(s)' <=> ~InDispatch(s)
  BY StartIs, StartData DEF Started
<1>2. n <= place'[s]
  BY <1>1 DEF PutBack
<1>3. CASE place[s] > n
  BY <1>1, <1>3 DEF PutBack
<1>4. CASE place[s] = n
  <2>1. place[s] > 0 /\ \A b \in Blocks(s) : pc[s][b] = "ended"
    BY <1>4 DEF Start, Ended
  <2>2. BlockOf(s, i) \in Blocks(s)
    BY <2>1, BlockLow
  <2>3. Scattered(s, i)
    BY <2>1, <2>2 DEF Scattered, Through
  <2> QED
    BY <1>4, <2>3 DEF PutBack
<1>5. CASE place[s] < n
  <2>1. place'[s] = n
    BY <1>1, <1>2, <1>5
  <2>2. InDispatch(s)
    BY <1>1, <2>1 DEF InDispatch
  <2>3. Scattered(s, i)'
    BY <1>1, <2>1, <2>2 DEF PutBack
  <2>4. BlockOf(s, i)' \in Blocks(s)'
    <3>1. PICK G \in Nat \ {0} : G = Grid[place'[s]]
      BY StartIs DEF Started
    <3>2. i % G \in 0..(G - 1)
      BY <3>1, Division
    <3>3. Blocks(s)' = 0..(Grid[place'[s]] - 1)
      BY StartIs DEF Started
    <3> QED
      BY <3>1, <3>2, <3>3 DEF BlockOf
  <2>5. pc'[s][BlockOf(s, i)'] = "load"
    BY <2>2, <2>4, StartIs DEF Started
  <2> QED
    BY <2>3, <2>5 DEF Scattered, Through
<1> QED
  BY <1>1, <1>3, <1>4, <1>5

\* The buffer has a row for every token.
LEMMA HeldFits ==
  ASSUME NEW n, NEW p
  PROVE  Cardinality(Routed(n, p)) <= World * MaxTok
<1> DEFINE S == Routed(n, p)
           T == 0..(World * MaxTok - 1)
           f == [x \in S |-> Row(x.src, x.tok)]
<1>1. World * MaxTok \in Nat
  BY ConstantFacts
<1>2. IsFiniteSet(T) /\ Cardinality(T) = World * MaxTok
  BY <1>1, FS_Interval
<1>3. \A x \in S : x.src \in Rank /\ x.tok \in 1..MaxTok
  BY DEF Routed
<1>4. \A x, y \in S : x.src = y.src /\ x.tok = y.tok => x = y
  BY DEF Routed
<1>5. f \in [S -> T]
  BY <1>3, BufferRows
<1>6. \A x, y \in S : f[x] = f[y] => x = y
  BY <1>3, <1>4, BufferRows
<1> HIDE DEF f, S, T
<1>7. f \in Injection(S, T)
  BY <1>5, <1>6, Fun_IsInj
<1>8. Cardinality(S) <= Cardinality(T)
  BY <1>2, <1>7, FS_Injection
<1> QED
  BY <1>2, <1>8 DEF S

LEMMA ReturnedStart ==
  ASSUME InTurn, Delivering, Returned, NEW s \in Rank, Start(s)
  PROVE  Returned'
<1>0. /\ Typed /\ Ranks /\ Meets /\ Mapped /\ Rows /\ Totals /\ Started(s)
      /\ UNCHANGED <<recvTok, slotMap, tokMap, mode, route>>
  BY StartData, StartIs DEF Delivering
<1>1. SUFFICES ASSUME NEW r \in Rank, place'[r] > 0, NEW w \in Items(r)', Past(r, w)', tokMap[r][w] # Dropped
               PROVE  ReturnedAt(r, w)'
  BY <1>0 DEF Returned, ReturnedAt
<1>2. PICK p, i, t : p = tokMap[r][w].pe /\ i = tokMap[r][w].id /\ t = TokOf(w)
  OBVIOUS
<1>3. PICK n : n = 2 * RoundOf(place[r])
  OBVIOUS
<1>4. /\ place[r] > 0 /\ RoundOf(place[r])' = RoundOf(place[r]) /\ w \in Items(r) /\ Past(r, w)
      /\ Sends(r, w)' = Sends(r, w)
  BY <1>0, <1>1, StartItems DEF Claimed
<1>5. n \in Nat /\ n % 2 = 0 /\ n > 0
  <2>1. RoundOf(place[r]) \in Nat /\ RoundOf(place[r]) > 0
    BY <1>0, <1>4, PlaceFacts
  <2> QED
    BY <1>3, <2>1
<1>6. p \in Rank /\ i \in 0..(MaxRecv - 1) /\ i \in Nat /\ tokMap[r][w] = [pe |-> p, id |-> i]
  BY <1>0, <1>1, <1>2, <1>4, ItemBack DEF Claimed
<1>7. /\ ReturnedAt(r, w)' <=> (PutBack(p, i, n)' => Cell(r, t, p, i)' = Output(p, Sends(r, w)))
      /\ PutBack(p, i, n) => Cell(r, t, p, i) = Output(p, Sends(r, w))
  <2>1. Output(p, Sends(r, w))' = Output(p, Sends(r, w))
    BY <1>0, <1>4 DEF Output, Experts
  <2>2. ReturnedAt(r, w)
    BY <1>1, <1>4 DEF Returned, ReturnedAt
  <2>3. ReturnedAt(r, w)' <=> (PutBack(p, i, n)' => Cell(r, t, p, i)' = Output(p, Sends(r, w)))
    BY <1>0, <1>2, <1>3, <1>4, <2>1 DEF ReturnedAt, PutBack, Cell
  <2>4. PutBack(p, i, n) => Cell(r, t, p, i) = Output(p, Sends(r, w))
    BY <1>2, <1>3, <2>2 DEF ReturnedAt
  <2> QED
    BY <2>3, <2>4
<1>8. CASE p # s
  <2>1. /\ place'[p] = place[p] /\ pc'[p] = pc[p] /\ work'[p] = work[p] /\ BlockOf(p, i)' = BlockOf(p, i)
    BY <1>0, <1>6, <1>8, StartOthers
  <2>2. PutBack(p, i, n)' => PutBack(p, i, n)
    BY <1>0, <2>1 DEF PutBack, Scattered, Through
  <2>3. Cell(r, t, p, i)' = Cell(r, t, p, i)
    BY <1>0, <1>6, <1>8, StartData DEF Cell
  <2> QED
    BY <1>7, <2>2, <2>3
<1>9. CASE p = s /\ (mode # "zero" \/ ~InDispatch(s))
  <2>1. combInp' = combInp
    BY <1>0, <1>9, StartData
  <2>2. Cell(r, t, p, i)' = Cell(r, t, p, i)
    BY <1>0, <2>1 DEF Cell
  <2>3. PutBack(p, i, n)' => PutBack(p, i, n)
    BY <1>0, <1>5, <1>6, <1>9, StartPutBack
  <2> QED
    BY <1>7, <2>2, <2>3
<1>10. CASE p = s /\ mode = "zero" /\ InDispatch(s)
  <2>1. Holds(s) /\ place[s] > 0
    BY <1>0, <1>10, EndedFacts, PlaceFacts DEF Start
  <2>2. totalRecv[s] = Received(s)
    BY <1>0, <1>10, <2>1 DEF Totals
  <2>3. i < Received(s)
    BY <1>0, <1>2, <1>4, <1>10, <2>1 DEF Rows
  <2>4. recvTok[s][i] = Sends(r, w)
    <3>1. i \in 0..(Received(s) - 1)
      BY <1>6, <2>3, ReceivedNat
    <3> QED
      BY <1>4, <1>6, <1>10, <2>1, <3>1, HeldItem
  <2>5. combInp' = [combInp EXCEPT ![s] = Staged(s, combInp[s])]
    BY <1>0, <1>10, StartData
  <2>6. DOMAIN combInp = Rank /\ i \in DOMAIN combInp[s]
    <3>1. DOMAIN combInp = Rank /\ DOMAIN combInp[s] = 0..(World * MaxTok - 1)
      BY <1>0 DEF Typed
    <3>2. i < World * MaxTok
      <4>1. PICK c \in Nat : c = Cardinality(Routed(RoundOf(place[s]), s))
        BY RoutedFinite
      <4>2. Received(s) <= c
        BY <4>1, ConstantFacts DEF Received, Least
      <4>3. c <= World * MaxTok
        BY <4>1, HeldFits
      <4>4. World * MaxTok \in Nat /\ Received(s) \in Nat
        BY ReceivedNat, ConstantFacts
      <4> QED
        BY <1>6, <2>3, <4>2, <4>3, <4>4
    <3>3. World * MaxTok \in Nat
      BY ConstantFacts
    <3> QED
      BY <1>6, <3>1, <3>2, <3>3
  <2>7. combInp'[s][i] = Output(s, Sends(r, w))
    BY <2>2, <2>3, <2>4, <2>5, <2>6 DEF Staged
  <2> QED
    BY <1>0, <1>7, <1>10, <2>7 DEF Cell
<1> QED
  BY <1>8, <1>9, <1>10

-----------------------------------------------------------------------------
(* The sums.                                                               *)

LEMMA SummedTurn ==
  ASSUME InTurn, Typed, NEW r \in Rank, Shaped(r), Works(r), NEW b \in Blocks(r), NEW l, NEW w, NEW g, NEW d,
         Turn(r, b, l, w, g, d), NEW i \in Nat, SummedItem(r, i)',
         BlockOf(r, i) # b \/ l \in BeforeSum \/ (l = "sum" /\ w = b)
  PROVE  SummedItem(r, i)
<1>1. /\ BlockOf(r, i)' = BlockOf(r, i) /\ BlockOf(r, i) \in Blocks(r) /\ BlockOf(r, i) <= i
      /\ b \in Nat
  BY Statics, BlockLow, Onward
<1>2. CASE BlockOf(r, i) # b
  <2>1. pc'[r][BlockOf(r, i)] = pc[r][BlockOf(r, i)] /\ work'[r][BlockOf(r, i)] = work[r][BlockOf(r, i)]
    BY <1>1, <1>2 DEF Turn
  <2> QED
    BY <1>1, <2>1 DEF SummedItem, Through
<1>3. CASE BlockOf(r, i) = b
  <2>1. pc'[r][b] = l /\ work'[r][b] = w
    BY DEF Turn
  <2>2. l \notin BeforeSum /\ (l = "sum" => i < w)
    BY <1>1, <1>3, <2>1 DEF SummedItem, Through
  <2> QED
    BY <1>1, <1>3, <2>2
<1> QED
  BY <1>2, <1>3

LEMMA SummedNext ==
  ASSUME InTurn, Delivering, NEW r \in Rank, Works(r), CombineStep(r), NEW i \in 0..(Len(Tokens(r)) - 1),
         SummedItem(r, i)'
  PROVE  SummedItem(r, i) \/ \E b \in Blocks(r) : Sum(r, b) /\ i = work[r][b]
<1>0. Typed /\ Shaped(r) /\ i \in Nat
  BY DEF Delivering, Ranks
<1>1. place[r] > 0
  BY <1>0, KernelIs DEF InCombine
<1>2. BlockOf(r, i)' = BlockOf(r, i) /\ BlockOf(r, i) \in Blocks(r)
  BY <1>0, <1>1, Statics, BlockLow
<1> USE DEF BeforeSum, BeforePost, Scattering
<1>3. ASSUME NEW b \in Blocks(r), Load(r, b) PROVE SummedItem(r, i)
  <2>1. Turn(r, b, "scatter", work[r][b], [reg[r][b] EXCEPT !.total = totalRecv[r], !.flag = xdbFlag[r]], todo[r][b])
    BY <1>0, <1>3, LoadTurn
  <2> QED
    BY <1>0, <2>1, SummedTurn
<1>4. ASSUME NEW b \in Blocks(r), Scatter(r, b) PROVE SummedItem(r, i)
  <2>1. Turn(r, b, pc[r][b], work[r][b] + Grid[place[r]], reg[r][b], todo[r][b]) /\ pc[r][b] = "scatter"
    BY <1>0, <1>4, ScatterTurn DEF Scatter
  <2> QED
    BY <1>0, <2>1, SummedTurn
<1>5. ASSUME NEW b \in Blocks(r), ArriveCombine(r, b) PROVE SummedItem(r, i)
  <2>1. Turn(r, b, IF b = 0 THEN "meet" ELSE "await", work[r][b], reg[r][b], Rank)
    BY <1>0, <1>5, ArriveCombineTurn
  <2> QED
    BY <1>0, <2>1, SummedTurn
<1>6. CASE Meet(r)
  <2>1. Turn(r, 0, "post", work[r][0], reg[r][0], todo[r][0]) /\ 0 \in Blocks(r)
    BY <1>0, <1>6, MeetTurn DEF Meet
  <2> QED
    BY <1>0, <2>1, SummedTurn
<1>7. ASSUME NEW p \in Rank, Post(r, p) PROVE SummedItem(r, i)
  <2>1. Turn(r, 0, IF todo[r][0] = {p} THEN "await" ELSE "post", work[r][0], reg[r][0],
             IF todo[r][0] = {p} THEN Rank ELSE todo[r][0] \ {p}) /\ 0 \in Blocks(r)
    BY <1>0, <1>7, PostTurn DEF Post
  <2> QED
    BY <1>0, <2>1, SummedTurn
<1>8. ASSUME NEW b \in Blocks(r), NEW p \in Rank, Await(r, b, p) PROVE SummedItem(r, i)
  <2>1. Turn(r, b, IF todo[r][b] \ {p} = {} THEN "sum" ELSE "await",
             IF todo[r][b] \ {p} = {} THEN b ELSE work[r][b], reg[r][b], todo[r][b] \ {p})
    BY <1>0, <1>8, AwaitTurn
  <2>2. CASE todo[r][b] \ {p} = {}
    <3>1. Turn(r, b, "sum", b, reg[r][b], todo[r][b] \ {p})
      BY <2>1, <2>2
    <3> QED
      BY <1>0, <3>1, SummedTurn
  <2>3. CASE todo[r][b] \ {p} # {}
    <3>1. Turn(r, b, "await", work[r][b], reg[r][b], todo[r][b] \ {p})
      BY <2>1, <2>3
    <3> QED
      BY <1>0, <3>1, SummedTurn
  <2> QED
    BY <2>2, <2>3
<1>9. ASSUME NEW b \in Blocks(r), Sum(r, b) PROVE SummedItem(r, i) \/ (Sum(r, b) /\ i = work[r][b])
  <2>1. Turn(r, b, pc[r][b], work[r][b] + Grid[place[r]], reg[r][b], todo[r][b])
    BY <1>0, <1>9, SumTurn
  <2>2. pc[r][b] = "sum"
    BY <1>9 DEF Sum
  <2>3. CASE BlockOf(r, i) # b
    BY <1>0, <2>1, <2>3, SummedTurn
  <2>4. CASE BlockOf(r, i) = b
    <3>1. work[r][b] \in Nat /\ BlockOf(r, work[r][b]) = b
      BY <1>0, <2>2 DEF Shaped, Fits
    <3>2. i < work[r][b] + Grid[place[r]] <=> i < work[r][b] \/ i = work[r][b]
      BY <1>0, <2>4, <3>1, Onward
    <3>3. pc'[r][b] = "sum" /\ work'[r][b] = work[r][b] + Grid[place[r]]
      BY <2>1, <2>2 DEF Turn
    <3>4. i < work[r][b] + Grid[place[r]]
      BY <1>2, <2>4, <3>3 DEF SummedItem, Through
    <3> QED
      BY <1>9, <2>2, <2>4, <3>2, <3>4 DEF SummedItem, Through
  <2> QED
    BY <2>3, <2>4
<1>10. ASSUME NEW b \in Blocks(r), EndCombine(r, b) PROVE SummedItem(r, i)
  <2>1. Turn(r, b, "ended", work[r][b], reg[r][b], todo[r][b])
    BY <1>0, <1>10, EndCombineTurn
  <2>2. pc[r][b] = "sum" /\ work[r][b] >= Len(Tokens(r))
    BY <1>10 DEF EndCombine
  <2>3. CASE BlockOf(r, i) # b
    BY <1>0, <2>1, <2>3, SummedTurn
  <2>4. CASE BlockOf(r, i) = b
    <3>1. work[r][b] \in Nat /\ Len(Tokens(r)) \in Nat
      BY <1>0, <1>1, ItemsFit DEF Shaped, Fits
    <3>2. i < work[r][b]
      BY <2>2, <3>1
    <3> QED
      BY <2>2, <2>4, <3>2 DEF SummedItem, Through
  <2> QED
    BY <2>3, <2>4
<1> QED
  BY <1>3, <1>4, <1>5, <1>6, <1>7, <1>8, <1>9, <1>10 DEF CombineStep

\* A rank that sums has all rows of its tokens back.
LEMMA AllBack ==
  ASSUME InTurn, Delivering, NEW r \in Rank, NEW b \in Blocks(r), pc[r][b] = "sum", NEW p \in Rank, NEW i \in Nat
  PROVE  InCombine(r) /\ (\A w \in Items(r) : Past(r, w)) /\ PutBack(p, i, 2 * RoundOf(place[r]))
<1>0. Typed /\ Ranks /\ Meets /\ Shaped(r) /\ Shaped(p) /\ Barriers(p)
  BY DEF Delivering, Ranks
<1>1. InCombine(r) /\ ~InDispatch(r) /\ place[r] > 0 /\ place[r] = 2 * RoundOf(place[r])
  BY <1>0, KernelOf, PlaceFacts DEF BeforeSum
<1>2. \A w \in Items(r) : Past(r, w)
  <2>1. 0 \in Blocks(r)
    BY <1>0, <1>1, PlaceFacts
  <2>2. pc[r][0] \in CombinePlace
    BY <1>0, <1>1, <2>1, KernelOf
  <2>3. pc[r][0] \notin BeforeSignal
    BY <2>2 DEF CombinePlace, BeforeSum, BeforePost, Scattering, BeforeSignal, Claiming
  <2> QED
    BY <1>0, <1>1, <2>3, AllPast
<1>3. Got(r, p)
  BY <1>1 DEF Got, Had
<1>4. SentAt(p, r, place[r])
  BY <1>0, <1>1, <1>3 DEF Meets
<1>5. place[p] > place[r] \/ (place[p] = place[r] /\ Sent(p, r))
  BY <1>4 DEF SentAt
<1>6. CASE place[p] > place[r]
  <2>1. place[p] >= place[r]
    BY <1>0, <1>6, PlaceFacts
  <2> QED
    BY <1>1, <1>2, <1>6, <2>1 DEF PutBack
<1>7. CASE place[p] = place[r] /\ Sent(p, r)
  <2>1. InCombine(p) /\ pc[p][0] \notin BeforePost
    BY <1>1, <1>7 DEF InCombine, Sent
  <2>2. Beyond(p, Scattering) = Blocks(p)
    BY <1>0, <2>1 DEF Barriers
  <2>3. BlockOf(p, i) \in Blocks(p)
    BY <1>0, <1>1, <1>7, BlockLow
  <2>4. pc[p][BlockOf(p, i)] \notin Scattering
    BY <2>2, <2>3 DEF Beyond
  <2>5. Scattered(p, i)
    BY <2>4 DEF Scattered, Through, Scattering
  <2>6. place[p] >= place[r]
    BY <1>0, <1>7, PlaceFacts
  <2> QED
    BY <1>1, <1>2, <1>7, <2>5, <2>6 DEF PutBack
<1> QED
  BY <1>5, <1>6, <1>7

\* A block adds up the rows of one token, all of which are back.
LEMMA SumIs ==
  ASSUME InTurn, Delivering, Returned, NEW r \in Rank, NEW b \in Blocks(r), Sum(r, b),
         NEW t, t = work[r][b] + 1
  PROVE  /\ t \in 1..Len(Tokens(r)) /\ out'[r][t] = SumOf(r, t) /\ tokMap' = tokMap
         /\ \A u \in 1..MaxTok : u # t => out'[r][u] = out[r][u]
<1>0. Typed /\ Shaped(r) /\ Mapped
  BY DEF Delivering, Ranks
<1>1. pc[r][b] = "sum" /\ t <= Len(Tokens(r)) /\ tokMap' = tokMap
  BY DEF Sum, dispatchVars
<1>2. work[r][b] \in Nat /\ place[r] > 0 /\ InCombine(r)
  BY <1>0, <1>1, AllBack DEF Shaped, Fits, InCombine
<1>3. Len(Tokens(r)) \in Nat /\ Len(Tokens(r)) <= MaxTok /\ MaxTok \in Nat
  BY <1>0, <1>2, ItemsFit, ConstantFacts
<1>4. t \in 1..Len(Tokens(r)) /\ t \in 1..MaxTok /\ work[r][b] = t - 1 /\ t - 1 \in 0..(Len(Tokens(r)) - 1)
  BY <1>1, <1>2, <1>3
<1> DEFINE m(k) == tokMap[r][(t - 1) * TopK + k]
           cell(k) == IF m(k) # Dropped THEN Cell(r, t, m(k).pe, m(k).id) ELSE {}
           sums == [k \in KSlot |-> cell(k)]
<1>5. \A k \in KSlot : cell(k) =
        LET n(j) == tokMap[r][work[r][b] * TopK + j]
            sent(j) == n(j) # Dropped
            from(j) == IF sent(j) THEN n(j).pe ELSE r
            row(j) == IF mode = "zero" THEN n(j).id ELSE Row(from(j), t)
            held(j) == IF mode = "zero" THEN from(j) ELSE r
        IN  IF sent(k) THEN combInp[held(k)][row(k)] ELSE {}
  BY <1>4 DEF Cell
<1>6. out' = [out EXCEPT ![r][t] = sums]
  BY <1>4, <1>5 DEF Sum, Cell
<1>7. ASSUME NEW k \in KSlot
      PROVE  cell(k) = IF m(k) = Dropped THEN {}
                       ELSE Output(m(k).pe, [round |-> RoundOf(place[r]), src |-> r, tok |-> t])
  <2>1. CASE m(k) = Dropped
    BY <2>1
  <2>2. CASE m(k) # Dropped
    <3>1. PICK w : w = (t - 1) * TopK + k
      OBVIOUS
    <3>2. w \in Items(r) /\ TokOf(w) = t
      BY <1>3, <1>4, <3>1, ItemIs DEF Items
    <3>3. Past(r, w)
      BY <1>1, <3>2, AllBack, ConstantFacts
    <3>4. tokMap[r][w] # Dropped /\ tokMap[r][w].pe \in Rank /\ tokMap[r][w].id \in Nat
      <4>1. tokMap[r][w].id \in 0..(MaxRecv - 1) /\ tokMap[r][w].pe \in Rank
        BY <1>0, <1>2, <2>2, <3>1, <3>2, <3>3, ItemBack DEF Claimed
      <4> QED
        BY <2>2, <3>1, <4>1
    <3>5. PutBack(tokMap[r][w].pe, tokMap[r][w].id, 2 * RoundOf(place[r]))
      BY <1>1, <3>4, AllBack
    <3>6. Cell(r, TokOf(w), tokMap[r][w].pe, tokMap[r][w].id) = Output(tokMap[r][w].pe, Sends(r, w))
      BY <1>2, <3>2, <3>3, <3>4, <3>5 DEF Returned
    <3>7. Sends(r, w) = [round |-> RoundOf(place[r]), src |-> r, tok |-> t]
      BY <3>2 DEF Sends
    <3> QED
      BY <2>2, <3>1, <3>2, <3>6, <3>7
  <2> QED
    BY <2>1, <2>2
<1>8. sums = SumOf(r, t)
  BY <1>7 DEF SumOf
<1>9. DOMAIN out = Rank /\ DOMAIN out[r] = 1..MaxTok
  BY <1>0 DEF Typed
<1> HIDE DEF sums
<1>10. out'[r] = [out[r] EXCEPT ![t] = sums]
  BY <1>6, <1>9
<1>11. out'[r][t] = sums /\ \A u \in 1..MaxTok : u # t => out'[r][u] = out[r][u]
  BY <1>4, <1>9, <1>10
<1> QED
  BY <1>1, <1>4, <1>8, <1>11

LEMMA OutStays ==
  ASSUME NEW r, Works(r), ~\E b \in Blocks(r) : Sum(r, b)
  PROVE  out' = out
<1>1. CASE DispatchStep(r)
  BY <1>1 DEF DispatchStep, Claim, Publish, ArriveDispatch, Collect, Signal, Receive, Rewind, Ticket, PassGrid,
              Pack, EndDispatch, combineVars
<1>2. CASE CombineStep(r)
  BY <1>2 DEF CombineStep, Load, Scatter, ArriveCombine, Meet, Post, Await, EndCombine, combineVars
<1> QED
  BY <1>1, <1>2 DEF Works

LEMMA AddedKeeps ==
  ASSUME InTurn, Delivering, Returned, Added, NEW r \in Rank, Works(r)
  PROVE  Added'
<1>0. /\ Typed /\ Ranks /\ Shaped(r) /\ place' = place
  BY StreamsStay DEF Delivering, Ranks
<1>1. SUFFICES ASSUME NEW q \in Rank, InCombine(q), NEW t \in 1..Len(Tokens(q)), SummedItem(q, t - 1)'
               PROVE  (out[q][t] = SumOf(q, t))'
  BY Statics DEF Added
<1>2. SummedItem(q, t - 1) => out[q][t] = SumOf(q, t)
  BY <1>1 DEF Added
<1>3. CASE q # r
  <2>1. /\ out'[q] = out[q] /\ tokMap'[q] = tokMap[q] /\ pc'[q] = pc[q] /\ work'[q] = work[q]
        /\ BlockOf(q, t - 1)' = BlockOf(q, t - 1)
    BY <1>0, <1>3, OthersRest, Statics DEF Own
  <2>2. SummedItem(q, t - 1)
    BY <1>1, <2>1 DEF SummedItem, Through
  <2>3. SumOf(q, t)' = SumOf(q, t)
    <3>1. route' = route
      BY StreamsStay
    <3>2. \A p, x : Output(p, x)' = Output(p, x)
      BY <3>1 DEF Output, Experts
    <3> QED
      BY <1>0, <2>1, <3>2 DEF SumOf
  <2> QED
    BY <1>2, <2>1, <2>2, <2>3
<1>4. CASE q = r
  <2>1. CombineStep(r) /\ place[r] > 0
    BY <1>0, <1>1, <1>4, KernelIs DEF Works, InCombine, InDispatch
  <2>2. Len(Tokens(r)) \in Nat /\ Len(Tokens(r)) <= MaxTok /\ MaxTok \in Nat
    BY <1>0, <2>1, ItemsFit, ConstantFacts
  <2>3. t \in 1..MaxTok /\ t - 1 \in 0..(Len(Tokens(r)) - 1)
    BY <1>4, <2>2
  <2>4. SummedItem(r, t - 1) \/ \E b \in Blocks(r) : Sum(r, b) /\ t - 1 = work[r][b]
    BY <1>1, <1>4, <2>1, <2>3, SummedNext
  <2>5. tokMap' = tokMap
    BY <2>1 DEF CombineStep, Load, Scatter, ArriveCombine, Meet, Post, Await, Sum, EndCombine, dispatchVars
  <2>6. SumOf(r, t)' = SumOf(r, t)
    <3>1. route' = route
      BY StreamsStay
    <3>2. \A p, x : Output(p, x)' = Output(p, x)
      BY <3>1 DEF Output, Experts
    <3> QED
      BY <1>0, <2>5, <3>2 DEF SumOf
  <2>7. CASE \E b \in Blocks(r) : Sum(r, b)
    <3>1. PICK b \in Blocks(r) : Sum(r, b)
      BY <2>7
    <3>2. PICK u : u = work[r][b] + 1
      OBVIOUS
    <3>3. /\ out'[r][u] = SumOf(r, u)
          /\ \A v \in 1..MaxTok : v # u => out'[r][v] = out[r][v]
      BY <3>1, <3>2, SumIs
    <3>4. CASE t = u
      BY <1>4, <2>6, <3>3, <3>4
    <3>5. CASE t # u
      <4>1. SummedItem(r, t - 1)
        <5>1. ASSUME NEW c \in Blocks(r), Sum(r, c), t - 1 = work[r][c], ~SummedItem(r, t - 1) PROVE FALSE
          <6>1. out'[r][t] = SumOf(r, t)
            <7>1. work[r][c] + 1 = t
              BY <2>3, <5>1
            <7> QED
              BY <5>1, <7>1, SumIs
          <6>2. work' = [work EXCEPT ![r][c] = work[r][c] + Grid[place[r]]]
            BY <5>1 DEF Sum, Advance
          <6>3. work' = [work EXCEPT ![r][b] = work[r][b] + Grid[place[r]]]
            BY <3>1 DEF Sum, Advance
          <6>4. c = b
            <7>1. /\ work[r][c] \in Nat /\ work[r][b] \in Nat /\ Grid[place[r]] \in Nat \ {0}
                  /\ DOMAIN work = Rank /\ DOMAIN work[r] = Blocks(r)
              <8>1. pc[r][c] = "sum" /\ pc[r][b] = "sum"
                BY <3>1, <5>1 DEF Sum
              <8> QED
                BY <1>0, <2>1, PlaceFacts DEF Shaped, Fits, Typed
            <7>2. c # b => work'[r][c] = work[r][c]
              BY <6>3, <7>1
            <7>3. work'[r][c] = work[r][c] + Grid[place[r]]
              BY <6>2, <7>1
            <7> QED
              BY <7>1, <7>2, <7>3
          <6> QED
            BY <2>3, <3>2, <3>5, <5>1, <6>4
        <5> QED
          BY <2>4, <5>1
      <4>2. out'[r][t] = out[r][t]
        BY <2>3, <3>3, <3>5
      <4> QED
        BY <1>2, <1>4, <2>6, <4>1, <4>2
    <3> QED
      BY <3>4, <3>5
  <2>8. CASE ~\E b \in Blocks(r) : Sum(r, b)
    <3>1. out' = out
      BY <2>8, OutStays
    <3> QED
      BY <1>2, <1>4, <2>4, <2>6, <2>8, <3>1
  <2> QED
    BY <2>7, <2>8
<1> QED
  BY <1>3, <1>4

LEMMA AddedStart ==
  ASSUME InTurn, Delivering, Added, NEW r \in Rank, Start(r)
  PROVE  Added'
<1>0. /\ Typed /\ Ranks /\ Started(r)
      /\ UNCHANGED <<recvTok, slotMap, tokMap, mode, route>>
  BY StartData, StartIs DEF Delivering
<1>1. SUFFICES ASSUME NEW q \in Rank, InCombine(q)', NEW t \in 1..Len(Tokens(q)'), SummedItem(q, t - 1)'
               PROVE  (out[q][t] = SumOf(q, t))'
  BY DEF Added
<1>2. CASE q # r
  <2>1. /\ out'[q] = out[q] /\ pc'[q] = pc[q] /\ work'[q] = work[q] /\ place'[q] = place[q]
        /\ BlockOf(q, t - 1)' = BlockOf(q, t - 1) /\ InCombine(q) /\ Tokens(q)' = Tokens(q)
    BY <1>0, <1>1, <1>2, StartOthers, StartData
  <2>2. SummedItem(q, t - 1)
    BY <1>1, <2>1 DEF SummedItem, Through
  <2>3. SumOf(q, t)' = SumOf(q, t)
    BY <1>0, <2>1 DEF SumOf, Output, Experts
  <2>4. out[q][t] = SumOf(q, t)
    BY <2>1, <2>2 DEF Added
  <2> QED
    BY <2>1, <2>3, <2>4
<1>3. CASE q = r
  <2>1. InDispatch(r)
    BY <1>0, <1>1, <1>3 DEF Started
  <2>2. PICK G \in Nat \ {0} : G = Grid[place'[r]]
    BY <1>0 DEF Started
  <2>3. t - 1 \in Nat
    OBVIOUS
  <2>4. (t - 1) % G \in 0..(G - 1)
    BY <2>2, <2>3, Division
  <2>5. BlockOf(r, t - 1)' = (t - 1) % G /\ Blocks(r)' = 0..(G - 1)
    BY <1>0, <2>2 DEF BlockOf, Started
  <2>6. pc'[r][BlockOf(r, t - 1)'] = "load"
    BY <1>0, <2>1, <2>4, <2>5 DEF Started
  <2> QED
    BY <1>1, <1>3, <2>6 DEF SummedItem, Through, BeforeSum, BeforePost, Scattering
<1> QED
  BY <1>2, <1>3

-----------------------------------------------------------------------------
(* The invariant of the whole, and what it says of packing and combining.  *)

Combining == Packs /\ StagedRows /\ Returned /\ Added

LEMMA InitCombining ==
  ASSUME InTurn, Init
  PROVE  Combining
<1>1. Packs
  BY PacksInit
<1>2. \A r \in Rank : place[r] = 0 /\ ~InCombine(r) /\ ~(place[r] > 0)
  BY DEF Init, InCombine
<1> QED
  BY <1>1, <1>2 DEF Combining, StagedRows, Returned, Added

LEMMA CombiningKeeps ==
  ASSUME InTurn, Delivering, Combining, NEW r \in Rank, Works(r)
  PROVE  Combining'
BY PacksKeep, StagedKeeps, ReturnedKeeps, AddedKeeps DEF Combining

LEMMA CombiningStart ==
  ASSUME InTurn, Delivering, Combining, NEW r \in Rank, Start(r)
  PROVE  Combining'
BY PacksStart, StagedStart, ReturnedStart, AddedStart DEF Combining

LEMMA CombiningStutter ==
  ASSUME Combining, UNCHANGED vars
  PROVE  Combining'
<1>1. /\ UNCHANGED <<mode, route, place, pc, work, reg, todo, tokOff, destCtr, bar, recvNum, totalRecv>>
      /\ UNCHANGED <<tokMap, recvTok, packed, slotMap, inp, combInp, combWts, xdbFlag, xdbMem, out, outWts>>
  BY DEF vars, blockVars, dispatchVars, stdVars, combineVars
<1>2. ASSUME NEW q
      PROVE  /\ Blocks(q)' = Blocks(q) /\ (InDispatch(q)' <=> InDispatch(q)) /\ (InCombine(q)' <=> InCombine(q))
             /\ RoundOf(place[q])' = RoundOf(place[q]) /\ (Holds(q)' <=> Holds(q))
             /\ Tokens(q)' = Tokens(q) /\ Items(q)' = Items(q) /\ Received(q)' = Received(q)
  BY <1>1 DEF Blocks, InDispatch, InCombine, Tokens, Items, Received, Routed, Experts, Holds
<1>3. ASSUME NEW q, NEW w
      PROVE  /\ BlockOf(q, w)' = BlockOf(q, w) /\ Sends(q, w)' = Sends(q, w)
             /\ (Past(q, w)' <=> Past(q, w)) /\ (PackedItem(q, w)' <=> PackedItem(q, w))
             /\ (Scattered(q, w)' <=> Scattered(q, w)) /\ (SummedItem(q, w)' <=> SummedItem(q, w))
             /\ Output(q, w)' = Output(q, w)
  BY <1>1 DEF BlockOf, Sends, Past, Through, PackedItem, Scattered, SummedItem, Output, Experts
<1>4. Packs'
  <2>1. ASSUME NEW q PROVE (GridBarrier(q) => GridBarrier(q)') /\ (Packing(q)' <=> Packing(q))
    <3>1. \A S : Beyond(q, S)' = Beyond(q, S)
      BY <1>1, <1>2 DEF Beyond
    <3> QED
      BY <1>1, <1>2, <3>1 DEF GridBarrier, Before, Goal, Even, Packing
  <2>2. ASSUME NEW q PROVE PacksAt(q) => PacksAt(q)'
    <3>1. PackItems(q)' = PackItems(q)
      BY <1>2 DEF PackItems
    <3>2. \A w : ExpertOf(q, w)' = ExpertOf(q, w) /\ RowAt(q, w)' = RowAt(q, w)
      BY <1>1 DEF ExpertOf, RowAt, Experts
    <3>3. \A e : PackedFor(q, e)' = PackedFor(q, e)
      BY <1>3, <3>1, <3>2 DEF PackedFor
    <3> QED
      BY <1>1, <1>3, <3>1, <3>2, <3>3 DEF PacksAt
  <2> QED
    BY <1>1, <1>2, <2>1, <2>2 DEF Combining, Packs
<1>5. StagedRows'
  BY <1>1, <1>2, <1>3 DEF Combining, StagedRows
<1>6. Returned'
  <2>1. ASSUME NEW r, NEW t, NEW p, NEW i, NEW n
        PROVE  Cell(r, t, p, i)' = Cell(r, t, p, i) /\ (PutBack(p, i, n)' <=> PutBack(p, i, n))
    BY <1>1, <1>3 DEF Cell, PutBack
  <2> SUFFICES ASSUME NEW r \in Rank, place[r] > 0, NEW w \in Items(r), Past(r, w), tokMap[r][w] # Dropped
               PROVE  ReturnedAt(r, w)'
    BY <1>1, <1>2, <1>3 DEF Returned, ReturnedAt
  <2>2. ReturnedAt(r, w)
    BY DEF Combining, Returned, ReturnedAt
  <2> QED
    BY <1>1, <1>2, <1>3, <2>1, <2>2 DEF ReturnedAt
<1>7. Added'
  <2>1. ASSUME NEW r, NEW t PROVE SumOf(r, t)' = SumOf(r, t)
    BY <1>1, <1>3 DEF SumOf
  <2> QED
    BY <1>1, <1>2, <1>3, <2>1 DEF Combining, Added
<1> QED
  BY <1>4, <1>5, <1>6, <1>7 DEF Combining

LEMMA WholeInvariance ==
  ASSUME InTurn
  PROVE  Spec /\ Cleared => [](Delivering /\ Combining)
<1>1. Init => Combining
  BY InitCombining
<1>2. Delivering /\ Combining /\ [Next]_vars => Combining'
  <2> SUFFICES ASSUME Delivering, Combining, [Next]_vars PROVE Combining'
    OBVIOUS
  <2>1. CASE UNCHANGED vars
    BY <2>1, CombiningStutter
  <2>2. CASE Next
    <3>1. PICK r \in Rank : Start(r) \/ DispatchStep(r) \/ CombineStep(r)
      BY <2>2 DEF Next
    <3>2. CASE Start(r)
      BY <3>2, CombiningStart
    <3>3. CASE Works(r)
      BY <3>3, CombiningKeeps
    <3> QED
      BY <3>1, <3>2, <3>3 DEF Works
  <2> QED
    BY <2>1, <2>2
<1>3. Spec /\ Cleared => []Delivering
  BY Invariance
<1> QED
  BY <1>1, <1>2, <1>3, PTL DEF Spec

\* A rank that has ended its combine has the sums of the outputs of the ranks
\* that took its tokens in.
LEMMA EndedSum ==
  ASSUME InTurn, Delivering, Added, NEW r \in Rank, InCombine(r), Ended(r), NEW t \in 1..Len(Tokens(r)),
         NEW x, x = [round |-> RoundOf(place[r]), src |-> r, tok |-> t],
         NEW k \in KSlot, NEW m, m = tokMap[r][(t - 1) * TopK + k], NEW w, w = (t - 1) * TopK + k
  PROVE  /\ w \in Items(r) /\ TokOf(w) = t /\ SlotOf(w) = k /\ x # Nothing
         /\ m # Dropped => ~Dup(r, w) /\ m.pe = Goes(r, w)
         /\ out[r][t][k] = IF m = Dropped THEN {} ELSE Output(m.pe, x)
<1>0. Typed /\ Ranks /\ Meets /\ Mapped /\ place[r] > 0
  BY DEF Delivering, InCombine
<1>1. Len(Tokens(r)) \in Nat /\ Len(Tokens(r)) <= MaxTok /\ t - 1 \in 0..(Len(Tokens(r)) - 1) /\ t - 1 \in Nat
  BY <1>0, ItemsFit, ConstantFacts
<1>2. w \in Items(r) /\ TokOf(w) = t /\ SlotOf(w) = k
  BY <1>1, ItemIs DEF Items
<1>3. x # Nothing
  <2>1. RoundOf(place[r]) > 0 /\ RoundOf(place[r]) \in Nat
    BY <1>0, PlaceFacts
  <2>2. x.round = RoundOf(place[r]) /\ Nothing.round = 0
    BY DEF Nothing
  <2> QED
    BY <2>1, <2>2
<1>4. m # Dropped => ~Dup(r, w) /\ m.pe = Goes(r, w)
  <2>1. Past(r, w)
    BY <1>0, <1>2, EndedFacts
  <2> QED
    BY <1>0, <1>2, <2>1, ItemBack DEF Claimed
<1>5. SummedItem(r, t - 1)
  <2>1. BlockOf(r, t - 1) \in Blocks(r)
    BY <1>0, <1>1, BlockLow
  <2>2. pc[r][BlockOf(r, t - 1)] = "ended"
    BY <2>1 DEF Ended
  <2> QED
    BY <2>2 DEF SummedItem, Through, BeforeSum, BeforePost, Scattering
<1>6. out[r][t] = SumOf(r, t)
  BY <1>5 DEF Added
<1>7. out[r][t][k] = IF m = Dropped THEN {} ELSE Output(m.pe, x)
  BY <1>6 DEF SumOf
<1> QED
  BY <1>2, <1>3, <1>4, <1>7

LEMMA EndedCombined ==
  ASSUME InTurn, Delivering, Added
  PROVE  Combined
<1>0. Typed
  BY DEF Delivering
<1> SUFFICES ASSUME NEW r \in Rank, Runs(r, "combine"), Ended(r), NEW t \in 1..Len(Tokens(r))
             PROVE  LET x == [round |-> RoundOf(place[r]), src |-> r, tok |-> t]
                        took == {tokMap[r][(t - 1) * TopK + k].pe : k \in KSlot}
                    IN  /\ UNION {out[r][t][k] : k \in KSlot} =
                             {[token |-> x, expert |-> Experts(x)[k]] :
                                k \in {k \in KSlot : Owner(Experts(x)[k]) \in took}}
                        /\ \A j, k \in KSlot : j # k => out[r][t][j] \intersect out[r][t][k] = {}
  BY DEF Combined
<1>1. InCombine(r) /\ place[r] > 0
  BY <1>0, PlaceFacts DEF InCombine
<1> DEFINE x == [round |-> RoundOf(place[r]), src |-> r, tok |-> t]
           w(k) == (t - 1) * TopK + k
           m(k) == tokMap[r][w(k)]
           e(k) == Tokens(r)[t][k]
           took == {m(k).pe : k \in KSlot}
           made(k) == {[token |-> x, expert |-> e(j)] : j \in {j \in KSlot : Owner(e(j)) = m(k).pe}}
<1>2. Experts(x) = Tokens(r)[t]
  BY DEF Experts, Tokens
<1>3. ASSUME NEW k \in KSlot
      PROVE  /\ w(k) \in Items(r) /\ TokOf(w(k)) = t /\ SlotOf(w(k)) = k
             /\ m(k) # Dropped => ~Dup(r, w(k)) /\ m(k).pe = Goes(r, w(k))
             /\ out[r][t][k] = IF m(k) = Dropped THEN {} ELSE made(k)
  <2>1. PICK v, n, z : v = w(k) /\ n = m(k) /\ z = x
    OBVIOUS
  <2>2. /\ v \in Items(r) /\ TokOf(v) = t /\ SlotOf(v) = k
        /\ n # Dropped => ~Dup(r, v) /\ n.pe = Goes(r, v)
        /\ z # Nothing /\ out[r][t][k] = IF n = Dropped THEN {} ELSE Output(n.pe, z)
    <3>1. /\ z = [round |-> RoundOf(place[r]), src |-> r, tok |-> t]
          /\ n = tokMap[r][(t - 1) * TopK + k] /\ v = (t - 1) * TopK + k
      BY <2>1
    <3> HIDE DEF x, w, m, e, took, made
    <3> QED
      BY <1>1, <3>1, EndedSum
  <2>3. Output(m(k).pe, x) = made(k)
    BY <1>2, <2>1, <2>2 DEF Output
  <2> QED
    BY <2>1, <2>2, <2>3
<1>4. \A k \in KSlot : e(k) \in Expert /\ Owner(e(k)) \in Rank /\ Owner(e(k)) # World
  BY <1>0, <1>1, ItemsFit, OwnerIsRank, ConstantFacts
<1>5. Dropped.pe = World
  BY DEF Dropped
<1>6. ASSUME NEW j \in KSlot, NEW k \in KSlot, NEW y \in out[r][t][j], y \in out[r][t][k] PROVE j = k
  <2>1. m(j) # Dropped /\ m(k) # Dropped /\ y \in made(j) /\ y \in made(k)
    BY <1>3, <1>6
  <2>2. m(j).pe = Owner(y.expert) /\ m(k).pe = Owner(y.expert)
    BY <2>1
  <2>3. Goes(r, w(j)) = Goes(r, w(k)) /\ ~Dup(r, w(j)) /\ ~Dup(r, w(k))
    BY <1>3, <2>1, <2>2
  <2>4. w(j) = w(k)
    <3> HIDE DEF w
    <3> QED
      BY <1>0, <1>1, <1>3, <2>3, ItemsDiffer
  <2> QED
    BY <1>3, <2>4
<1>7. UNION {out[r][t][k] : k \in KSlot} =
        {[token |-> x, expert |-> e(k)] : k \in {k \in KSlot : Owner(e(k)) \in took}}
  <2>1. ASSUME NEW k \in KSlot, NEW y \in out[r][t][k]
        PROVE  y \in {[token |-> x, expert |-> e(j)] : j \in {j \in KSlot : Owner(e(j)) \in took}}
    <3>1. y \in made(k)
      BY <1>3, <2>1
    <3>2. PICK j \in KSlot : Owner(e(j)) = m(k).pe /\ y = [token |-> x, expert |-> e(j)]
      BY <3>1
    <3> QED
      BY <3>2
  <2>2. ASSUME NEW j \in KSlot, Owner(e(j)) \in took
        PROVE  \E k \in KSlot : [token |-> x, expert |-> e(j)] \in out[r][t][k]
    <3>1. PICK k \in KSlot : Owner(e(j)) = m(k).pe
      BY <2>2
    <3>2. m(k) # Dropped
      BY <1>4, <1>5, <3>1
    <3>3. [token |-> x, expert |-> e(j)] \in made(k)
      BY <3>1
    <3> QED
      BY <1>3, <3>2, <3>3
  <2> HIDE DEF x, e, took
  <2> QED
    BY <2>1, <2>2
<1> QED
  BY <1>2, <1>6, <1>7

\* When the dispatch of a rank in the std variant has ended, its rows are
\* packed by expert, each once, where combine will look for them: the
\* property Packed, at any number of ranks, experts, tokens, rows and blocks, if
\* the counters start at zero.
THEOREM PackedHolds ==
  ASSUME InTurn
  PROVE  Spec /\ Cleared => []Packed
<1>1. Delivering /\ Combining => Packed
  BY EndedPacked DEF Combining
<1> QED
  BY <1>1, WholeInvariance, PTL

\* When the combine of a rank has ended, its tokens are the sums of what the
\* experts of the ranks that took them in made of them, in this round and each
\* once: the property Combined, at any number of ranks, experts, tokens, rows,
\* blocks and rounds, and in every variant, if the counters start at zero.
THEOREM CombinedHolds ==
  ASSUME InTurn
  PROVE  Spec /\ Cleared => []Combined
<1>1. Delivering /\ Combining => Combined
  BY EndedCombined DEF Combining
<1> QED
  BY <1>1, WholeInvariance, PTL
=============================================================================
