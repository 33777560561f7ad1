-------------------------- MODULE AllReduce_proofs --------------------------
(***************************************************************************)
(* Met for any number of ranks and blocks, and any mix of calls that does  *)
(* not run the signal words over; and, of these, for any mix in which a    *)
(* call finds its buffers free, that the kernels implement the collective. *)
(***************************************************************************)
EXTENDS AllReduce, FiniteSetTheorems, TLAPS

\* No program has so many calls that a flag of 32 bits wraps.
NoWrap == \A s \in Programs : 2 * Len(s) < FlagMod

\* The members of a set of numbers up to one of them.
Count(S, n) == Cardinality(S \cap 1..n)

\* The calls in which a block takes part, and those of them with an end signal.
Starts(b) == {c \in DOMAIN program : b < Grid(program[c])}
Ends(b)   == {c \in Starts(b) : Kernel(program[c]) # "onestage"}

\* The flag of a block that is through with a number of calls.
FlagAfter(b, c) == Count(Starts(b), c) + Count(Ends(b), c)

\* A block's flag counts the signals it has waited for.
Flagged(r, b) ==
  /\ pc[r][b] # "done" => call[r] \in Starts(b)
  /\ pc[r][b] \in {"end", "endwait", "gather"} => call[r] \in Ends(b)
  /\ pc[r][b] \in {"start", "startwait"} => flag[r][b] = FlagAfter(b, call[r] - 1)
  /\ pc[r][b] \in {"reduce", "end", "endwait"} => flag[r][b] = FlagAfter(b, call[r] - 1) + 1
  /\ pc[r][b] \in {"gather", "done"} => flag[r][b] = FlagAfter(b, call[r])

\* What block b of rank q has signalled to any rank is no more than it has
\* waited for, and the signal it waits for now.
Waiting(s) == IF s = "start" THEN "startwait" ELSE "endwait"
Given(q, b, s) == IF pc[q][b] = Waiting(s) THEN flag[q][b] + 1 ELSE flag[q][b]
Signalled ==
  \A s \in {"start", "end"}, r, q \in Rank, b \in Block : sig[s][r][b][q] <= Given(q, b, s)

\* Met, rank by rank and block by block.
BehindAt(r, q, b, s) ==
  \/ call[q] < call[r]
  \/ /\ call[q] = call[r]
     /\ pc[q][b] \in {"start"} \cup IF s = "end" THEN {"startwait", "reduce", "end"} ELSE {}
MetAt(r, q, b) ==
  call[r] > 0 /\ b < Grid(Packs(r)) =>
    /\ pc[r][b] \in {"reduce", "end", "endwait", "gather", "done"} => ~BehindAt(r, q, b, "start")
    /\ pc[r][b] \in {"gather", "done"} /\ Kernel(Packs(r)) # "onestage" => ~BehindAt(r, q, b, "end")

Control ==
  /\ program \in Programs
  /\ call \in [Rank -> Nat] /\ busy \in [Rank -> BOOLEAN]
  /\ pc \in [Rank -> [Block -> PcValues]]
  /\ flag \in [Rank -> [Block -> Nat]]
  /\ sig \in [{"start", "end"} -> [Rank -> [Block -> [Rank -> Nat]]]]
  /\ \A r \in Rank :
       /\ call[r] <= Len(program)
       /\ ~busy[r] => \A b \in Block : pc[r][b] = "done"

Inv ==
  /\ Control
  /\ \A r \in Rank, b \in Block : Flagged(r, b)
  /\ Signalled
  /\ \A r, q \in Rank, b \in Block : MetAt(r, q, b)
-----------------------------------------------------------------------------
(* Counting.                                                               *)

LEMMA Finite == ASSUME NEW S, NEW n \in Nat PROVE IsFiniteSet(S \cap 1..n)
<1>1. IsFiniteSet(1..n)
  BY FS_Interval
<1> QED
  BY <1>1, FS_Subset

LEMMA Counts ==
  ASSUME NEW S, NEW n \in Nat
  PROVE  /\ Count(S, n) \in Nat /\ Count(S, 0) = 0 /\ Count(S, n) <= n
         /\ n + 1 \in S => Count(S, n + 1) = Count(S, n) + 1
         /\ n + 1 \notin S => Count(S, n + 1) = Count(S, n)
<1>1. Count(S, n) \in Nat
  BY Finite, FS_CardinalityType DEF Count
<1>2. Count(S, 0) = 0
  <2>1. S \cap 1..0 = {}
    OBVIOUS
  <2> QED
    BY <2>1, FS_EmptySet DEF Count
<1>3. ASSUME n + 1 \in S PROVE Count(S, n + 1) = Count(S, n) + 1
  <2>1. S \cap 1..(n + 1) = (S \cap 1..n) \cup {n + 1} /\ n + 1 \notin S \cap 1..n
    BY <1>3
  <2> QED
    BY <2>1, Finite, FS_AddElement DEF Count
<1>4. ASSUME n + 1 \notin S PROVE Count(S, n + 1) = Count(S, n)
  <2>1. S \cap 1..(n + 1) = S \cap 1..n
    BY <1>4
  <2> QED
    BY <2>1 DEF Count
<1>5. Count(S, n) <= n
  <2>1. IsFiniteSet(1..n) /\ Cardinality(1..n) = n
    BY FS_Interval
  <2>2. Cardinality(S \cap 1..n) <= Cardinality(1..n)
    BY <2>1, FS_Subset
  <2> QED
    BY <2>1, <2>2 DEF Count
<1> QED
  BY <1>1, <1>2, <1>3, <1>4, <1>5

LEMMA CountsGrow ==
  ASSUME NEW S, NEW m \in Nat, NEW n \in Nat, m <= n
  PROVE  Count(S, m) <= Count(S, n)
<1>1. S \cap 1..m \subseteq S \cap 1..n
  <2>1. 1..m \subseteq 1..n
    OBVIOUS
  <2> QED
    BY <2>1
<1> QED
  BY <1>1, Finite, FS_Subset DEF Count
-----------------------------------------------------------------------------
(* Flags.                                                                  *)

LEMMA ProgramFacts == ASSUME Control PROVE Len(program) \in Nat /\ DOMAIN program = 1..Len(program)
<1>1. program \in Seq(1..MaxPacks)
  BY ConstantsAssumption DEF Control
<1> QED
  BY <1>1

LEMMA FlagStarts == ASSUME NEW b PROVE FlagAfter(b, 0) = 0
BY Counts DEF FlagAfter

LEMMA FlagFacts ==
  ASSUME NEW b, NEW n \in Nat
  PROVE  /\ FlagAfter(b, n) \in Nat /\ FlagAfter(b, n) <= 2 * n
         /\ n + 1 \in Ends(b) => FlagAfter(b, n + 1) = FlagAfter(b, n) + 2
         /\ n + 1 \in Starts(b) /\ n + 1 \notin Ends(b) => FlagAfter(b, n + 1) = FlagAfter(b, n) + 1
         /\ n + 1 \notin Starts(b) => FlagAfter(b, n + 1) = FlagAfter(b, n)
         /\ \A m \in Nat : m <= n => FlagAfter(b, m) <= FlagAfter(b, n)
<1> DEFINE s == Count(Starts(b), n)
           e == Count(Ends(b), n)
<1>1. Ends(b) \subseteq Starts(b)
  BY DEF Ends
<1>2. /\ s \in Nat /\ s <= n
      /\ n + 1 \in Starts(b) => Count(Starts(b), n + 1) = s + 1
      /\ n + 1 \notin Starts(b) => Count(Starts(b), n + 1) = s
  BY Counts
<1>3. /\ e \in Nat /\ e <= n
      /\ n + 1 \in Ends(b) => Count(Ends(b), n + 1) = e + 1
      /\ n + 1 \notin Ends(b) => Count(Ends(b), n + 1) = e
  BY Counts
<1>4. FlagAfter(b, n) = s + e /\ FlagAfter(b, n + 1) = Count(Starts(b), n + 1) + Count(Ends(b), n + 1)
  BY DEF FlagAfter
<1>5. ASSUME NEW m \in Nat, m <= n PROVE FlagAfter(b, m) <= FlagAfter(b, n)
  <2>1. /\ Count(Starts(b), m) <= s /\ Count(Ends(b), m) <= e
        /\ Count(Starts(b), m) \in Nat /\ Count(Ends(b), m) \in Nat
    BY <1>5, Counts, CountsGrow
  <2> HIDE DEF s, e
  <2> QED
    BY <1>2, <1>3, <1>4, <2>1 DEF FlagAfter
<1> HIDE DEF s, e
<1> QED
  BY <1>1, <1>2, <1>3, <1>4, <1>5

\* The flag of a block that is in a call.
LEMMA FlagIs ==
  ASSUME Inv, NEW r \in Rank, NEW b \in Block, pc[r][b] # "done"
  PROVE  /\ call[r] \in 1..Len(program) /\ call[r] \in Nat /\ call[r] - 1 \in Nat
         /\ call[r] = (call[r] - 1) + 1 /\ call[r] \in Starts(b) /\ busy[r]
         /\ flag[r][b] \in Nat /\ FlagAfter(b, call[r] - 1) \in Nat
         /\ FlagAfter(b, call[r] - 1) <= 2 * (call[r] - 1)
<1>1. Control /\ Flagged(r, b)
  BY DEF Inv
<1>2. call[r] \in Starts(b) /\ busy[r] /\ flag[r][b] \in Nat
  BY <1>1 DEF Control, Flagged
<1>3. call[r] \in 1..Len(program) /\ Len(program) \in Nat
  BY <1>1, <1>2, ProgramFacts DEF Starts
<1>4. call[r] \in Nat /\ call[r] - 1 \in Nat /\ call[r] = (call[r] - 1) + 1
  BY <1>3
<1> QED
  BY <1>2, <1>3, <1>4, FlagFacts

LEMMA NoModulo == \A m, n \in Nat : m < n => m % n = m
OBVIOUS

\* The flag a block signals and waits for is the next number.
LEMMA NextIs ==
  ASSUME Inv, NoWrap, NEW r \in Rank, NEW b \in Block,
         pc[r][b] \in {"start", "startwait", "end", "endwait"}
  PROVE  NextFlag(flag[r][b]) = flag[r][b] + 1
<1>1. /\ call[r] \in 1..Len(program) /\ call[r] \in Nat /\ FlagAfter(b, call[r] - 1) \in Nat
      /\ FlagAfter(b, call[r] - 1) <= 2 * (call[r] - 1) /\ flag[r][b] \in Nat
  BY FlagIs
<1>2. flag[r][b] = FlagAfter(b, call[r] - 1) \/ flag[r][b] = FlagAfter(b, call[r] - 1) + 1
  BY DEF Inv, Flagged
<1>3. 2 * Len(program) < FlagMod /\ Len(program) \in Nat /\ FlagMod \in Nat
  BY ConstantsAssumption, ProgramFacts DEF NoWrap, Inv, Control
<1>4. flag[r][b] + 1 < FlagMod
  BY <1>1, <1>2, <1>3
<1> QED
  BY <1>1, <1>3, <1>4, NoModulo DEF NextFlag
-----------------------------------------------------------------------------
(* A block moves.                                                          *)

\* As long as the program stays, so do the numbers of its calls.
LEMMA Frame ==
  ASSUME program' = program
  PROVE  \A b : /\ Starts(b)' = Starts(b) /\ Ends(b)' = Ends(b)
                /\ \A c : FlagAfter(b, c)' = FlagAfter(b, c)
BY DEF Starts, Ends, FlagAfter

\* The moves of a block.
Moves == {<<"start", "startwait">>, <<"startwait", "reduce">>, <<"reduce", "end">>,
          <<"reduce", "done">>, <<"end", "endwait">>, <<"endwait", "gather">>,
          <<"endwait", "done">>, <<"gather", "done">>}

Moved(r, b, from, to) == Goto(r, b, from, to) /\ UNCHANGED <<program, call, busy>>

LEMMA PcMoves ==
  ASSUME Control, NEW r \in Rank, NEW b \in Block, NEW from, NEW to,
         Moved(r, b, from, to), <<from, to>> \in Moves
  PROVE  /\ pc[r][b] = from /\ pc'[r][b] = to /\ pc' \in [Rank -> [Block -> PcValues]]
         /\ \A q \in Rank, d \in Block : q # r \/ d # b => pc'[q][d] = pc[q][d]
         /\ program' = program /\ call' = call /\ busy' = busy
         /\ \A q \in Rank : ~busy[q] => \A d \in Block : pc'[q][d] = "done"
<1>1. to \in PcValues /\ from # "done"
  BY DEF Moves, PcValues
<1>2. pc \in [Rank -> [Block -> PcValues]] /\ pc[r][b] = from
  BY DEF Control, Moved, Goto
<1>3. pc' = [pc EXCEPT ![r] = [pc[r] EXCEPT ![b] = to]]
  BY DEF Moved, Goto
<1>4. [pc[r] EXCEPT ![b] = to] \in [Block -> PcValues]
  BY <1>1, <1>2
<1>5. pc' \in [Rank -> [Block -> PcValues]]
  BY <1>2, <1>3, <1>4
<1>6. /\ pc'[r][b] = to
      /\ \A q \in Rank, d \in Block : q # r \/ d # b => pc'[q][d] = pc[q][d]
  BY <1>2, <1>3
<1>7. busy[r] /\ \A q \in Rank : ~busy[q] => \A d \in Block : pc[q][d] = "done"
  BY <1>1, <1>2 DEF Control
<1> QED
  BY <1>2, <1>5, <1>6, <1>7 DEF Moved

\* Met holds of a move that its guard or an earlier signal justifies.
LEMMA MoveMet ==
  ASSUME Inv, NEW r \in Rank, NEW b \in Block, NEW from, NEW to,
         Moved(r, b, from, to), <<from, to>> \in Moves,
         to = "reduce" => \A q \in Rank : ~BehindAt(r, q, b, "start"),
         from = "endwait" => \A q \in Rank : ~BehindAt(r, q, b, "end"),
         from = "reduce" /\ to = "done" => Kernel(Packs(r)) = "onestage"
  PROVE  \A x, y \in Rank, d \in Block : MetAt(x, y, d)'
<1>1. /\ pc[r][b] = from /\ pc'[r][b] = to /\ program' = program /\ call' = call
      /\ \A q \in Rank, d \in Block : q # r \/ d # b => pc'[q][d] = pc[q][d]
  BY PcMoves DEF Inv
<1>2. ASSUME NEW x \in Rank, NEW y \in Rank, NEW d \in Block, NEW s \in {"start", "end"},
             BehindAt(x, y, d, s)'
      PROVE  BehindAt(x, y, d, s)
  <2>1. CASE y = r /\ d = b
    <3>1. /\ to = "start" => from = "start"
          /\ to \in {"start", "startwait", "reduce", "end"} => from \in {"start", "startwait", "reduce", "end"}
      BY DEF Moves
    <3> QED
      BY <1>1, <1>2, <2>1, <3>1 DEF BehindAt
  <2>2. CASE ~(y = r /\ d = b)
    BY <1>1, <1>2, <2>2 DEF BehindAt
  <2> QED
    BY <2>1, <2>2
<1> SUFFICES ASSUME NEW x \in Rank, NEW y \in Rank, NEW d \in Block PROVE MetAt(x, y, d)'
  OBVIOUS
<1>3. MetAt(x, y, d) /\ Packs(x)' = Packs(x)
  BY <1>1 DEF Inv, Packs
<1>4. CASE x # r \/ d # b
  BY <1>1, <1>2, <1>3, <1>4 DEF MetAt
<1>5. CASE x = r /\ d = b
  <2>1. to \in {"reduce", "end", "endwait", "gather", "done"} =>
          to = "reduce" \/ from \in {"reduce", "end", "endwait", "gather"}
    BY DEF Moves
  <2>2. to \in {"gather", "done"} =>
          from \in {"endwait", "gather"} \/ (from = "reduce" /\ to = "done")
    BY DEF Moves
  <2>3. ASSUME call[x] > 0, d < Grid(Packs(x)), to \in {"reduce", "end", "endwait", "gather", "done"}
        PROVE  ~BehindAt(x, y, d, "start")'
    BY <1>1, <1>2, <1>3, <1>5, <2>1, <2>3 DEF MetAt
  <2>4. ASSUME call[x] > 0, d < Grid(Packs(x)), to \in {"gather", "done"}, Kernel(Packs(x)) # "onestage"
        PROVE  ~BehindAt(x, y, d, "end")'
    BY <1>1, <1>2, <1>3, <1>5, <2>2, <2>4 DEF MetAt
  <2> QED
    BY <1>1, <1>3, <1>5, <2>3, <2>4 DEF MetAt
<1> QED
  BY <1>4, <1>5

\* A block that finds the flag of its call in the slot of a peer is not ahead of it.
LEMMA AwaitMeets ==
  ASSUME Inv, NoWrap, NEW r \in Rank, NEW b \in Block, NEW s \in {"start", "end"},
         pc[r][b] = Waiting(s), NEW q \in Rank, sig[s][r][b][q] >= NextFlag(flag[r][b])
  PROVE  ~BehindAt(r, q, b, s)
<1> DEFINE c == call[r]
           n == FlagAfter(b, c - 1)
           due == IF s = "start" THEN n + 1 ELSE n + 2
<1>1. pc[r][b] \in {"startwait", "endwait"} /\ (s = "start" <=> pc[r][b] = "startwait")
      /\ Control /\ Flagged(r, b) /\ Flagged(q, b)
  BY DEF Waiting, Inv
<1>2. /\ c \in Nat /\ c - 1 \in Nat /\ n \in Nat /\ flag[r][b] \in Nat
      /\ NextFlag(flag[r][b]) = flag[r][b] + 1
  BY <1>1, FlagIs, NextIs
<1>3. NextFlag(flag[r][b]) = due
  BY <1>1, <1>2 DEF Flagged
<1>4. sig[s][r][b][q] \in Nat /\ call[q] \in Nat /\ flag[q][b] \in Nat
  BY <1>1 DEF Control
<1>5. Given(q, b, s) >= due
  <2>1. sig[s][r][b][q] <= Given(q, b, s) /\ Given(q, b, s) \in Nat
    BY <1>4 DEF Inv, Signalled, Given
  <2> HIDE DEF due
  <2>2. sig[s][r][b][q] >= due /\ due \in Nat
    BY <1>2, <1>3 DEF due
  <2> QED
    BY <1>4, <2>1, <2>2
<1>6. ASSUME call[q] < c PROVE FALSE
  <2>1. FlagAfter(b, call[q]) <= n /\ FlagAfter(b, call[q]) \in Nat
    <3>1. call[q] <= c - 1
      BY <1>2, <1>4, <1>6
    <3> QED
      BY <1>2, <1>4, <3>1, FlagFacts
  <2>2. Given(q, b, s) <= FlagAfter(b, call[q])
    <3>1. CASE pc[q][b] = "done"
      BY <1>1, <1>4, <2>1, <3>1 DEF Flagged, Given, Waiting
    <3>2. CASE pc[q][b] # "done"
      <4> DEFINE m == FlagAfter(b, call[q] - 1)
      <4>1. /\ call[q] - 1 \in Nat /\ call[q] = (call[q] - 1) + 1 /\ call[q] \in Starts(b)
            /\ m \in Nat
        BY <3>2, FlagIs
      <4>2. /\ call[q] \in Ends(b) => FlagAfter(b, call[q]) = m + 2
            /\ call[q] \notin Ends(b) => FlagAfter(b, call[q]) = m + 1
        BY <4>1, FlagFacts
      <4>3. pc[q][b] \in {"start", "startwait", "reduce", "end", "endwait", "gather"}
        <5>1. pc[q][b] \in PcValues
          BY <1>1 DEF Control
        <5> QED
          BY <3>2, <5>1 DEF PcValues
      <4> HIDE DEF m
      <4>4. /\ pc[q][b] \in {"start", "startwait"} => flag[q][b] = m
            /\ pc[q][b] \in {"reduce", "end", "endwait"} => flag[q][b] = m + 1
            /\ pc[q][b] = "gather" => flag[q][b] = FlagAfter(b, call[q])
            /\ pc[q][b] \in {"end", "endwait"} => call[q] \in Ends(b)
        BY <1>1 DEF Flagged, m
      <4>5. CASE pc[q][b] \in {"start", "startwait"}
        <5>1. Given(q, b, s) <= m + 1
          BY <4>1, <4>4, <4>5 DEF Given, Waiting
        <5>2. m + 1 <= FlagAfter(b, call[q])
          BY <4>1, <4>2
        <5> QED
          BY <1>4, <2>1, <4>1, <4>4, <4>5, <5>1, <5>2 DEF Given
      <4>6. CASE pc[q][b] \in {"reduce", "end", "endwait"}
        <5>1. CASE pc[q][b] = "reduce"
          <6>1. Given(q, b, s) = m + 1
            BY <4>4, <5>1 DEF Given, Waiting
          <6> QED
            BY <4>1, <4>2, <6>1
        <5>2. CASE pc[q][b] # "reduce"
          <6>1. Given(q, b, s) = m + 1 \/ Given(q, b, s) = m + 2
            BY <4>1, <4>4, <4>6 DEF Given
          <6> QED
            BY <4>1, <4>2, <4>4, <4>6, <5>2, <6>1
        <5> QED
          BY <5>1, <5>2
      <4>7. CASE pc[q][b] = "gather"
        <5>1. Given(q, b, s) = flag[q][b]
          BY <4>7 DEF Given, Waiting
        <5> QED
          BY <2>1, <4>4, <4>7, <5>1
      <4> QED
        BY <4>3, <4>5, <4>6, <4>7
    <3> QED
      BY <3>1, <3>2
  <2>3. due >= n + 1 /\ due \in Nat /\ Given(q, b, s) \in Nat
    BY <1>2, <1>4 DEF Given
  <2> HIDE DEF due, n
  <2> QED
    BY <1>2, <1>5, <2>1, <2>2, <2>3
<1>7. ASSUME call[q] = c,
             pc[q][b] \in {"start"} \cup IF s = "end" THEN {"startwait", "reduce", "end"} ELSE {}
      PROVE  FALSE
  <2>1. /\ pc[q][b] = "start" => flag[q][b] = n
        /\ s = "end" /\ pc[q][b] = "startwait" => flag[q][b] = n
        /\ s = "end" /\ pc[q][b] \in {"reduce", "end"} => flag[q][b] = n + 1
    BY <1>1, <1>7 DEF Flagged
  <2>2. Given(q, b, s) = flag[q][b]
    BY <1>7 DEF Given, Waiting
  <2> QED
    BY <1>2, <1>5, <1>7, <2>1, <2>2
<1> QED
  BY <1>6, <1>7 DEF BehindAt
-----------------------------------------------------------------------------
(* The steps.                                                              *)

\* Blocks that stay where they are keep their flags.
LEMMA FlaggedStays ==
  ASSUME NEW q \in Rank, NEW d \in Block, Flagged(q, d), program' = program,
         call'[q] = call[q], pc'[q][d] = pc[q][d], flag'[q][d] = flag[q][d]
  PROVE  Flagged(q, d)'
BY Frame DEF Flagged

\* A block is done with its loop.
LEMMA LoopEnds ==
  ASSUME Inv, NEW r \in Rank, NEW b \in Block, NEW from, NEW to, Moved(r, b, from, to),
         <<from, to>> \in {<<"reduce", "end">>, <<"reduce", "done">>, <<"gather", "done">>},
         from = "reduce" => (to = "done" <=> Kernel(Packs(r)) = "onestage"),
         UNCHANGED signals
  PROVE  Inv'
<1>1. <<from, to>> \in Moves /\ from # "done" /\ to # "reduce" /\ from # "endwait"
      /\ from \in {"reduce", "gather"} /\ to \in {"end", "done"}
  BY DEF Moves
<1>2. Control /\ flag' = flag /\ sig' = sig
  BY DEF Inv, signals
<1>3. /\ pc[r][b] = from /\ pc'[r][b] = to /\ pc' \in [Rank -> [Block -> PcValues]]
      /\ \A q \in Rank, d \in Block : q # r \/ d # b => pc'[q][d] = pc[q][d]
      /\ program' = program /\ call' = call /\ busy' = busy
      /\ \A q \in Rank : ~busy[q] => \A d \in Block : pc'[q][d] = "done"
  BY <1>1, <1>2, PcMoves
<1>4. Control'
  BY <1>2, <1>3 DEF Control
<1>5. \A x, y \in Rank, d \in Block : MetAt(x, y, d)'
  BY <1>1, MoveMet
<1>6. ASSUME NEW q \in Rank, NEW d \in Block PROVE Flagged(q, d)'
  <2>1. CASE q # r \/ d # b
    BY <1>2, <1>3, <2>1, FlaggedStays DEF Inv
  <2>2. CASE q = r /\ d = b
    <3> DEFINE c == call[r]
    <3>1. Flagged(r, b) /\ c \in Nat /\ c - 1 \in Nat /\ c = (c - 1) + 1 /\ c \in Starts(b)
      BY <1>1, <1>3, FlagIs DEF Inv
    <3>2. c \in Ends(b) <=> Kernel(Packs(r)) # "onestage"
      BY <3>1 DEF Ends, Packs
    <3>3. c \notin Ends(b) => FlagAfter(b, c) = FlagAfter(b, c - 1) + 1
      BY <3>1, FlagFacts
    <3>4. CASE from = "reduce" /\ to = "end"
      BY <1>2, <1>3, <2>2, <3>1, <3>2, <3>4, Frame DEF Flagged
    <3>5. CASE from = "reduce" /\ to = "done"
      BY <1>2, <1>3, <2>2, <3>1, <3>2, <3>3, <3>5, Frame DEF Flagged
    <3>6. CASE from = "gather"
      BY <1>2, <1>3, <2>2, <3>1, <3>6, Frame DEF Flagged
    <3> QED
      BY <1>1, <3>4, <3>5, <3>6
  <2> QED
    BY <2>1, <2>2
<1>7. Signalled'
  <2>1. ASSUME NEW q \in Rank, NEW d \in Block, NEW s \in {"start", "end"}
        PROVE  Given(q, d, s)' = Given(q, d, s)
    BY <1>1, <1>2, <1>3 DEF Given, Waiting
  <2> QED
    BY <1>2, <2>1 DEF Inv, Signalled
<1> QED
  BY <1>4, <1>5, <1>6, <1>7 DEF Inv

LEMMA LoopSteps ==
  ASSUME Inv, NEW r \in Rank, NEW b \in Block,
         ReduceAll(r, b) \/ ReduceShard(r, b) \/ Gather(r, b) \/ ReduceAndWrite(r, b)
  PROVE  Inv'
<1>1. CASE ReduceAll(r, b)
  <2>1. Moved(r, b, "reduce", "done") /\ Kernel(Packs(r)) = "onestage" /\ UNCHANGED signals
    BY <1>1 DEF ReduceAll, Moved
  <2> QED
    BY <2>1, LoopEnds
<1>2. CASE ReduceShard(r, b)
  <2>1. Moved(r, b, "reduce", "end") /\ Kernel(Packs(r)) = "twostage" /\ UNCHANGED signals
    BY <1>2 DEF ReduceShard, Moved, AfterReduce
  <2> QED
    BY <2>1, LoopEnds
<1>3. CASE Gather(r, b)
  <2>1. Moved(r, b, "gather", "done") /\ UNCHANGED signals
    BY <1>3 DEF Gather, Moved
  <2> QED
    BY <2>1, LoopEnds
<1>4. CASE ReduceAndWrite(r, b)
  <2>1. Moved(r, b, "reduce", "end") /\ Kernel(Packs(r)) = "write" /\ UNCHANGED signals
    BY <1>4 DEF ReduceAndWrite, Moved
  <2> QED
    BY <2>1, LoopEnds
<1> QED
  BY <1>1, <1>2, <1>3, <1>4

\* A step that moves no block and no signal.
LEMMA ControlStays ==
  ASSUME Inv, UNCHANGED <<program, call, pc, signals>>, busy' \in [Rank -> BOOLEAN],
         \A r \in Rank : ~busy'[r] => \A b \in Block : pc[r][b] = "done"
  PROVE  Inv'
<1>1. flag' = flag /\ sig' = sig
  BY DEF signals
<1>2. Control'
  BY <1>1 DEF Inv, Control
<1>3. \A q \in Rank, d \in Block : Flagged(q, d)'
  BY <1>1, FlaggedStays DEF Inv
<1>4. Signalled'
  BY <1>1 DEF Inv, Signalled, Given
<1>5. \A x, y \in Rank, d \in Block : MetAt(x, y, d)'
  BY DEF Inv, MetAt, BehindAt, Packs
<1> QED
  BY <1>2, <1>3, <1>4, <1>5 DEF Inv

LEMMA SignalStep ==
  ASSUME Inv, NoWrap, NEW r \in Rank, NEW b \in Block, NEW s \in {"start", "end"}, Signal(r, b, s)
  PROVE  Inv'
<1> USE DEF SlotIn
<1> DEFINE to == Waiting(s)
           f == flag[r][b] + 1
<1>1. Moved(r, b, s, to) /\ flag' = flag
      /\ sig' = [sig EXCEPT ![s] = [q \in Rank |->
                   [sig[s][q] EXCEPT ![b][r] = NextFlag(flag[r][b])]]]
  BY DEF Signal, Moved, Waiting
<1>2. <<s, to>> \in Moves /\ to # "reduce" /\ s # "endwait" /\ to # "done" /\ s # "reduce"
  BY DEF Moves, Waiting
<1>3. Control
  BY DEF Inv
<1> HIDE DEF to
<1>4. /\ pc[r][b] = s /\ pc'[r][b] = to /\ pc' \in [Rank -> [Block -> PcValues]]
      /\ \A q \in Rank, d \in Block : q # r \/ d # b => pc'[q][d] = pc[q][d]
      /\ program' = program /\ call' = call /\ busy' = busy
      /\ \A q \in Rank : ~busy[q] => \A d \in Block : pc'[q][d] = "done"
  BY <1>1, <1>2, <1>3, PcMoves
<1>5. NextFlag(flag[r][b]) = f /\ f \in Nat
  BY <1>3, <1>4, NextIs DEF Control
<1> HIDE DEF f
<1> DEFINE row(q) == [sig[s][q][b] EXCEPT ![r] = f]
           table == [q \in Rank |-> [sig[s][q] EXCEPT ![b] = row(q)]]
<1>6. sig' = [sig EXCEPT ![s] = table]
  BY <1>1, <1>5
<1>7. table \in [Rank -> [Block -> [Rank -> Nat]]]
  <2> SUFFICES ASSUME NEW q \in Rank PROVE [sig[s][q] EXCEPT ![b] = row(q)] \in [Block -> [Rank -> Nat]]
    OBVIOUS
  <2>1. sig[s][q] \in [Block -> [Rank -> Nat]]
    BY <1>3 DEF Control
  <2>2. row(q) \in [Rank -> Nat]
    BY <1>5, <2>1
  <2> HIDE DEF row
  <2> QED
    BY <2>1, <2>2
<1>8. \A q \in Rank, d \in Block, x \in Rank :
        table[q][d][x] = IF d = b /\ x = r THEN f ELSE sig[s][q][d][x]
  <2> TAKE q \in Rank, d \in Block, x \in Rank
  <2>1. sig[s][q] \in [Block -> [Rank -> Nat]]
    BY <1>3 DEF Control
  <2>2. row(q)[x] = IF x = r THEN f ELSE sig[s][q][b][x]
    BY <2>1
  <2>3. table[q][d] = IF d = b THEN row(q) ELSE sig[s][q][d]
    <3> HIDE DEF row
    <3> QED
      BY <2>1
  <2> HIDE DEF row, table
  <2> QED
    BY <2>2, <2>3
<1> HIDE DEF table
<1>9. /\ sig' \in [{"start", "end"} -> [Rank -> [Block -> [Rank -> Nat]]]]
      /\ sig'[s] = table /\ \A z \in {"start", "end"} : z # s => sig'[z] = sig[z]
  BY <1>3, <1>6, <1>7 DEF Control
<1>10. Control'
  BY <1>1, <1>3, <1>4, <1>9 DEF Control
<1>11. \A x, y \in Rank, d \in Block : MetAt(x, y, d)'
  BY <1>1, <1>2, MoveMet
<1>12. ASSUME NEW q \in Rank, NEW d \in Block PROVE Flagged(q, d)'
  <2>1. CASE q # r \/ d # b
    BY <1>1, <1>4, <2>1, FlaggedStays DEF Inv
  <2>2. CASE q = r /\ d = b
    <3>1. Flagged(r, b)
      BY DEF Inv
    <3> QED
      BY <1>1, <1>4, <2>2, <3>1, Frame DEF Flagged, to, Waiting
  <2> QED
    BY <2>1, <2>2
<1>13. ASSUME NEW z \in {"start", "end"}, NEW x \in Rank, NEW q \in Rank, NEW d \in Block
       PROVE  sig'[z][x][d][q] <= Given(q, d, z)'
  <2>1. sig[z][x][d][q] <= Given(q, d, z) /\ sig[z][x][d][q] \in Nat /\ flag[q][d] \in Nat
    <3>1. sig[z][x][d][q] \in Nat /\ flag[q][d] \in Nat
      <4>1. sig \in [{"start", "end"} -> [Rank -> [Block -> [Rank -> Nat]]]]
            /\ flag \in [Rank -> [Block -> Nat]]
        BY <1>3 DEF Control
      <4> QED
        BY <4>1
    <3>2. Signalled
      BY DEF Inv
    <3> QED
      BY <3>1, <3>2 DEF Signalled
  <2>2. CASE ~(q = r /\ d = b)
    <3>1. Given(q, d, z)' = Given(q, d, z)
      BY <1>1, <1>4, <2>2 DEF Given
    <3>2. sig'[z][x][d][q] = sig[z][x][d][q]
      BY <1>8, <1>9, <2>2
    <3> QED
      BY <2>1, <3>1, <3>2
  <2>3. CASE q = r /\ d = b /\ z = s
    <3>1. Given(q, d, z)' = f
      BY <1>1, <1>4, <2>3 DEF Given, to, f
    <3>2. sig'[z][x][d][q] = f
      BY <1>8, <1>9, <2>3
    <3> QED
      BY <1>5, <3>1, <3>2
  <2>4. CASE q = r /\ d = b /\ z # s
    <3>1. Given(q, d, z) = flag[q][d] /\ Given(q, d, z)' = flag[q][d]
      BY <1>1, <1>4, <2>4 DEF Given, to, Waiting
    <3>2. sig'[z][x][d][q] = sig[z][x][d][q]
      BY <1>9, <2>4
    <3> QED
      BY <2>1, <3>1, <3>2
  <2> QED
    BY <2>2, <2>3, <2>4
<1>14. Signalled'
  BY <1>13 DEF Signalled
<1> QED
  BY <1>10, <1>11, <1>12, <1>14 DEF Inv

LEMMA AwaitStep ==
  ASSUME Inv, NoWrap, NEW r \in Rank, NEW b \in Block, NEW s \in {"start", "end"}, Await(r, b, s)
  PROVE  Inv'
<1> DEFINE from == Waiting(s)
           to == pc'[r][b]
           f == flag[r][b] + 1
           c == call[r]
<1>1. Control
  BY DEF Inv
<1>2. PICK t \in PcValues :
        /\ Moved(r, b, from, t)
        /\ (s = "start" /\ t = "reduce") \/ (s = "end" /\ t = AfterEnd(r))
  BY DEF Await, Moved, Waiting, AfterEnd, PcValues
<1>3. /\ \A q \in Rank : sig[s][r][b][q] >= NextFlag(flag[r][b])
      /\ flag' = [flag EXCEPT ![r][b] = NextFlag(@)] /\ sig' = sig
  BY DEF Await
<1>4. <<from, t>> \in Moves /\ from \in {"startwait", "endwait"} /\ t # "startwait" /\ t # "endwait"
      /\ (t = "reduce" <=> s = "start") /\ (from = "endwait" <=> s = "end")
  BY <1>2 DEF Moves, Waiting, AfterEnd
<1> HIDE DEF from
<1>5. /\ pc[r][b] = from /\ pc'[r][b] = t /\ pc' \in [Rank -> [Block -> PcValues]]
      /\ \A q \in Rank, d \in Block : q # r \/ d # b => pc'[q][d] = pc[q][d]
      /\ program' = program /\ call' = call /\ busy' = busy
      /\ \A q \in Rank : ~busy[q] => \A d \in Block : pc'[q][d] = "done"
  BY <1>1, <1>2, <1>4, PcMoves
<1>6. NextFlag(flag[r][b]) = f /\ f \in Nat /\ flag[r][b] \in Nat
  BY <1>1, <1>4, <1>5, NextIs DEF Control
<1>7. \A q \in Rank : ~BehindAt(r, q, b, s)
  BY <1>3, <1>5, AwaitMeets DEF from
<1> HIDE DEF f
<1>8. /\ flag' \in [Rank -> [Block -> Nat]] /\ flag'[r][b] = f
      /\ \A q \in Rank, d \in Block : q # r \/ d # b => flag'[q][d] = flag[q][d]
  <2>1. flag \in [Rank -> [Block -> Nat]] /\ flag' = [flag EXCEPT ![r] = [flag[r] EXCEPT ![b] = f]]
    BY <1>1, <1>3, <1>6 DEF Control
  <2>2. [flag[r] EXCEPT ![b] = f] \in [Block -> Nat]
    BY <1>6, <2>1
  <2>3. flag' \in [Rank -> [Block -> Nat]]
    BY <2>1, <2>2
  <2>4. flag'[r] = [flag[r] EXCEPT ![b] = f] /\ \A q \in Rank : q # r => flag'[q] = flag[q]
    BY <2>1
  <2> QED
    BY <2>1, <2>3, <2>4
<1>9. Control'
  BY <1>1, <1>3, <1>5, <1>8 DEF Control
<1>10. \A x, y \in Rank, d \in Block : MetAt(x, y, d)'
  <2>1. s = "start" \/ s = "end"
    OBVIOUS
  <2> QED
    BY <1>2, <1>4, <1>7, <2>1, MoveMet
<1>11. ASSUME NEW q \in Rank, NEW d \in Block PROVE Flagged(q, d)'
  <2>1. CASE q # r \/ d # b
    BY <1>5, <1>8, <2>1, FlaggedStays DEF Inv
  <2>2. CASE q = r /\ d = b
    <3> DEFINE n == FlagAfter(b, c - 1)
    <3>1. /\ Flagged(r, b) /\ c \in Nat /\ c - 1 \in Nat /\ c = (c - 1) + 1 /\ c \in Starts(b)
          /\ n \in Nat
      BY <1>4, <1>5, FlagIs DEF Inv
    <3>2. c \in Ends(b) => FlagAfter(b, c) = n + 2
      BY <3>1, FlagFacts
    <3> HIDE DEF n
    <3>3. CASE s = "start"
      <4>1. from = "startwait" /\ t = "reduce"
        BY <1>4, <3>3
      <4>2. f = n + 1
        BY <1>5, <3>1, <4>1 DEF Flagged, f, n
      <4> QED
        BY <1>5, <1>8, <2>2, <3>1, <4>1, <4>2, Frame DEF Flagged, n
    <3>4. CASE s = "end"
      <4>1. from = "endwait" /\ t \in {"gather", "done"}
        BY <1>2, <1>4, <3>4 DEF AfterEnd
      <4>2. c \in Ends(b) /\ flag[r][b] = n + 1
        BY <1>5, <3>1, <4>1 DEF Flagged, n
      <4>3. f = FlagAfter(b, c)
        BY <3>1, <3>2, <4>2 DEF f
      <4> QED
        BY <1>5, <1>8, <2>2, <3>1, <4>1, <4>2, <4>3, Frame DEF Flagged
    <3> QED
      BY <3>3, <3>4
  <2> QED
    BY <2>1, <2>2
<1>12. ASSUME NEW z \in {"start", "end"}, NEW x \in Rank, NEW q \in Rank, NEW d \in Block
       PROVE  sig'[z][x][d][q] <= Given(q, d, z)'
  <2>1. sig[z][x][d][q] <= Given(q, d, z) /\ sig[z][x][d][q] \in Nat /\ flag[q][d] \in Nat
    <3>1. sig[z][x][d][q] \in Nat /\ flag[q][d] \in Nat
      <4>1. sig \in [{"start", "end"} -> [Rank -> [Block -> [Rank -> Nat]]]]
            /\ flag \in [Rank -> [Block -> Nat]]
        BY <1>1 DEF Control
      <4> QED
        BY <4>1
    <3>2. Signalled
      BY DEF Inv
    <3> QED
      BY <3>1, <3>2 DEF Signalled
  <2>2. CASE ~(q = r /\ d = b)
    <3>1. Given(q, d, z)' = Given(q, d, z)
      BY <1>5, <1>8, <2>2 DEF Given
    <3> QED
      BY <1>3, <2>1, <3>1
  <2>3. CASE q = r /\ d = b
    <3>1. Given(q, d, z)' = f
      BY <1>4, <1>5, <1>8, <2>3 DEF Given, Waiting
    <3>2. Given(q, d, z) <= f
      BY <1>6, <2>3 DEF Given, f
    <3> QED
      BY <1>3, <1>6, <2>1, <3>1, <3>2 DEF Given
  <2> QED
    BY <2>2, <2>3
<1>13. Signalled'
  BY <1>12 DEF Signalled
<1> QED
  BY <1>9, <1>10, <1>11, <1>13 DEF Inv

LEMMA LaunchStep == ASSUME Inv, NEW r \in Rank, Launch(r) PROVE Inv'
<1> DEFINE c == call[r] + 1
           n == program[c]
           row == [b \in Block |-> IF b < Grid(n) THEN "start" ELSE "done"]
<1>1. /\ ~busy[r] /\ call[r] < Len(program)
      /\ call' = [call EXCEPT ![r] = c] /\ busy' = [busy EXCEPT ![r] = TRUE]
      /\ pc' = [pc EXCEPT ![r] = row]
      /\ program' = program /\ flag' = flag /\ sig' = sig
  BY DEF Launch, signals
<1>2. Control /\ Len(program) \in Nat /\ DOMAIN program = 1..Len(program)
  BY ProgramFacts DEF Inv
<1>3. call[r] \in Nat /\ c \in Nat /\ c \in 1..Len(program) /\ call[r] = c - 1
      /\ \A b \in Block : pc[r][b] = "done"
  BY <1>1, <1>2 DEF Control
<1>4. row \in [Block -> PcValues] /\ \A b \in Block : row[b] = IF b < Grid(n) THEN "start" ELSE "done"
  BY DEF PcValues
<1> HIDE DEF row, n, c
<1>5. /\ pc' \in [Rank -> [Block -> PcValues]] /\ pc'[r] = row
      /\ call' \in [Rank -> Nat] /\ call'[r] = c /\ busy' \in [Rank -> BOOLEAN] /\ busy'[r]
      /\ \A q \in Rank : q # r => pc'[q] = pc[q] /\ call'[q] = call[q] /\ busy'[q] = busy[q]
  BY <1>1, <1>2, <1>3, <1>4 DEF Control
<1>6. Control'
  <2>1. ASSUME NEW q \in Rank
        PROVE  call'[q] <= Len(program) /\ (~busy'[q] => \A b \in Block : pc'[q][b] = "done")
    <3>1. CASE q = r
      BY <1>3, <1>5, <3>1
    <3>2. CASE q # r
      BY <1>2, <1>5, <3>2 DEF Control
    <3> QED
      BY <3>1, <3>2
  <2> QED
    BY <1>1, <1>2, <1>5, <2>1 DEF Control
<1>7. ASSUME NEW q \in Rank, NEW d \in Block PROVE Flagged(q, d)'
  <2>1. CASE q # r
    BY <1>1, <1>5, <2>1, FlaggedStays DEF Inv
  <2>2. CASE q = r
    <3>1. flag[r][d] = FlagAfter(d, call[r])
      BY <1>3 DEF Inv, Flagged
    <3>2. c \in Starts(d) <=> d < Grid(n)
      BY <1>2, <1>3 DEF Starts, n
    <3>3. c \notin Starts(d) => FlagAfter(d, c) = FlagAfter(d, call[r])
      BY <1>3, FlagFacts DEF c
    <3>4. CASE d < Grid(n)
      <4>1. pc'[r][d] = "start" /\ flag'[r][d] = FlagAfter(d, c - 1)
        BY <1>1, <1>3, <1>4, <1>5, <3>1, <3>4
      <4> QED
        BY <1>1, <1>5, <2>2, <3>2, <3>4, <4>1, Frame DEF Flagged
    <3>5. CASE ~(d < Grid(n))
      <4>1. pc'[r][d] = "done"
        BY <1>4, <1>5, <3>5
      <4>2. flag'[r][d] = FlagAfter(d, c)
        BY <1>1, <3>1, <3>2, <3>3, <3>5
      <4> QED
        <5>1. FlagAfter(d, call[r])' = FlagAfter(d, c)
          BY <1>1, <1>5 DEF FlagAfter, Starts, Ends
        <5> QED
          BY <2>2, <4>1, <4>2, <5>1 DEF Flagged
    <3> QED
      BY <3>4, <3>5
  <2> QED
    BY <2>1, <2>2
<1>8. Signalled'
  <2>1. ASSUME NEW q \in Rank, NEW d \in Block, NEW s \in {"start", "end"}
        PROVE  Given(q, d, s)' = Given(q, d, s)
    BY <1>1, <1>3, <1>4, <1>5 DEF Given, Waiting
  <2> QED
    BY <1>1, <2>1 DEF Inv, Signalled
<1>9. ASSUME NEW x \in Rank, NEW y \in Rank, NEW d \in Block PROVE MetAt(x, y, d)'
  <2>1. call[x] \in Nat /\ call[y] \in Nat
    BY <1>2 DEF Control
  <2>2. CASE x = r
    <3>1. Packs(x)' = n
      BY <1>1, <1>5, <2>2 DEF Packs, n
    <3>2. d < Grid(n) => pc'[x][d] = "start"
      BY <1>4, <1>5, <2>2
    <3> QED
      BY <3>1, <3>2 DEF MetAt
  <2>3. CASE x # r
    <3>1. MetAt(x, y, d) /\ Packs(x)' = Packs(x) /\ call'[x] = call[x] /\ pc'[x] = pc[x]
      BY <1>1, <1>5, <2>3 DEF Inv, Packs
    <3>2. ASSUME NEW s \in {"start", "end"}, BehindAt(x, y, d, s)' PROVE BehindAt(x, y, d, s)
      <4>1. CASE y # r
        BY <1>5, <3>1, <3>2, <4>1 DEF BehindAt
      <4>2. CASE y = r
        <5>1. call'[y] = call[y] + 1
          BY <1>5, <4>2 DEF c
        <5> QED
          BY <2>1, <3>1, <3>2, <5>1 DEF BehindAt
      <4> QED
        BY <4>1, <4>2
    <3> QED
      BY <3>1, <3>2 DEF MetAt
  <2> QED
    BY <2>2, <2>3
<1> QED
  BY <1>6, <1>7, <1>8, <1>9 DEF Inv

LEMMA InitHolds == Init => Inv
<1> SUFFICES ASSUME Init PROVE Inv
  OBVIOUS
<1>1. Control
  <2>1. Len(program) \in Nat
    <3>1. program \in Seq(1..MaxPacks)
      BY ConstantsAssumption DEF Init
    <3> QED
      BY <3>1
  <2> QED
    BY <2>1 DEF Init, Control, PcValues
<1>2. \A q \in Rank, d \in Block : Flagged(q, d)
  BY FlagStarts DEF Init, Flagged
<1>3. Signalled
  BY DEF Init, Signalled, Given, Waiting
<1>4. \A x, y \in Rank, d \in Block : MetAt(x, y, d)
  BY DEF Init, MetAt
<1> QED
  BY <1>1, <1>2, <1>3, <1>4 DEF Inv

LEMMA InvNext == NoWrap /\ Inv /\ [Next]_vars => Inv'
<1> SUFFICES ASSUME NoWrap, Inv, [Next]_vars PROVE Inv'
  OBVIOUS
<1>1. busy \in [Rank -> BOOLEAN] /\ \A r \in Rank : ~busy[r] => \A b \in Block : pc[r][b] = "done"
  BY DEF Inv, Control
<1>2. CASE UNCHANGED vars
  BY <1>1, <1>2, ControlStays DEF vars, signals
<1>3. ASSUME NEW r \in Rank, Return(r) PROVE Inv'
  <2>1. busy' = [busy EXCEPT ![r] = FALSE] /\ UNCHANGED <<program, call, pc, signals>>
        /\ \A b \in Block : pc[r][b] = "done"
    BY <1>3 DEF Return
  <2>2. busy' \in [Rank -> BOOLEAN] /\ \A q \in Rank : q # r => busy'[q] = busy[q]
    BY <1>1, <2>1
  <2> QED
    BY <1>1, <2>1, <2>2, ControlStays
<1>4. ASSUME NEW r \in Rank, NEW b \in Block, BlockStep(r, b) PROVE Inv'
  <2>1. CASE \E w \in Rank : Scatter(r, b, w)
    <3>1. UNCHANGED <<program, call, busy, pc, signals>>
      BY <2>1 DEF Scatter
    <3> QED
      BY <1>1, <3>1, ControlStays
  <2> QED
    BY <1>4, <2>1, SignalStep, AwaitStep, LoopSteps DEF BlockStep
<1> QED
  BY <1>2, <1>3, <1>4, LaunchStep DEF Next

\* If no signal word runs over, a rank's block is past a signal only when the
\* same block of every rank has reached it in the same call, or is in a later.
THEOREM BlocksMeet == ASSUME NoWrap PROVE Spec => []Met
<1>1. Init => Inv
  BY InitHolds
<1>2. Inv /\ [Next]_vars => Inv'
  BY InvNext
<1>3. Inv => Met
  BY DEF Inv, Met, MetAt, BehindAt
<1> QED
  BY <1>1, <1>2, <1>3, PTL DEF Spec
-----------------------------------------------------------------------------
(* What the buffers hold, for programs whose calls find them free.         *)

Safe == \A s \in Programs : Even(s) /\ Ordered(s)

\* The kernel of a call, and the packs of a shard.
KernelOf(c) == Kernel(program[c])
Share(c)    == Part(program[c])

\* A rank starts a call when its peers have started the one before, and, if that
\* has an end signal, have all they reduce in it behind them.
Near(r, q) ==
  /\ call[r] <= call[q] + 1
  /\ call[q] > 0 /\ call[r] > call[q] /\ KernelOf(call[q]) # "onestage" =>
       \A b \in Block : pc[q][b] \in {"endwait", "gather", "done"}

\* A block has scattered to all its peers once it signals; it scatters in write
\* mode only, and gathers in the two-stage kernel only.
InMode(r, b) ==
  /\ pc[r][b] = "gather" => KernelOf(call[r]) = "twostage"
  /\ pc[r][b] # "start" => left[r][b] = {}
  /\ left[r][b] # {} => call[r] > 0 /\ KernelOf(call[r]) = "write"

\* The packs of a shard, and of the whole, that block b visits.
Own(b, c)   == Visits(b, Grid(program[c]), Lanes, Share(c))
Whole(b, c) == Visits(b, Grid(program[c]), Lanes, program[c])

\* Some rank is still in the call before rank r's.
Trails(r) == call[r] > 1 /\ \E q \in Rank : call[q] = call[r] - 1

\* The input buffer has the input of a call that may yet be read.
InputThere(r) ==
  /\ call[r] > 0 /\ KernelOf(call[r]) # "write" =>
       \A p \in 0..(program[call[r]] - 1) : inbuf[r][p] = call[r]
  /\ call[r] > 1 /\ KernelOf(call[r] - 1) = "onestage" =>
       \A p \in 0..(program[call[r] - 1] - 1) : inbuf[r][p] = call[r] - 1

\* The sums that block b of rank r makes in call c are where the peers' blocks b
\* take them from.
ShardSummed(r, c, b) ==
  /\ KernelOf(c) = "twostage" =>
       \A i \in Own(b, c) : tmp[r][i] = Reduced(r * Share(c) + i, c)
  /\ KernelOf(c) = "write" =>
       \A q \in Rank, i \in Own(b, c) :
         obuf[q][r * Share(c) + i] = Reduced(r * Share(c) + i, c)

SummedAt(r, b) ==
  call[r] \in Starts(b) /\ pc[r][b] \in {"end", "endwait", "gather", "done"} =>
    ShardSummed(r, call[r], b)

\* They stay there while a peer is behind.
SumsKept(r) ==
  Trails(r) => \A b \in Block : call[r] - 1 \in Starts(b) => ShardSummed(r, call[r] - 1, b)

\* So does what block b of rank r has scattered to rank q.
Scattered(r, q, b) ==
  LET c == call[r] IN
  c \in Starts(b) /\ KernelOf(c) = "write" /\ q \notin left[r][b] /\ (\A x \in Rank : call[x] <= c) =>
    \A i \in Own(b, c) : tmp[q][r * Share(c) + i] = {<<r, q * Share(c) + i, c>>}

\* The part of the result that a block which is done is to bring.
Delivered(r, b) ==
  LET c == call[r] IN
  c \in Starts(b) /\ pc[r][b] = "done" =>
    /\ KernelOf(c) = "onestage" => \A p \in Whole(b, c) : out[r][p] = Reduced(p, c)
    /\ KernelOf(c) = "twostage" \/ (KernelOf(c) = "write" /\ ~busy[r]) =>
         \A q \in Rank, i \in Own(b, c) :
           out[r][q * Share(c) + i] = Reduced(q * Share(c) + i, c)

Layout ==
  /\ DOMAIN inbuf = Rank /\ DOMAIN tmp = Rank /\ DOMAIN out = Rank
  /\ left \in [Rank -> [Block -> SUBSET Rank]]

DataInv ==
  /\ Inv /\ Layout
  /\ \A r, q \in Rank : Near(r, q)
  /\ \A r \in Rank : InputThere(r) /\ SumsKept(r)
  /\ \A r \in Rank, b \in Block : InMode(r, b) /\ SummedAt(r, b) /\ Delivered(r, b)
  /\ \A r, q \in Rank, b \in Block : Scattered(r, q, b)
-----------------------------------------------------------------------------
(* Numbers of ranks, blocks and packs.                                     *)

LEMMA Division ==
  ASSUME NEW m \in Nat, NEW d \in Nat \ {0}
  PROVE  m \div d \in Nat /\ m % d \in 0..(d - 1) /\ m = d * (m \div d) + (m % d)
OBVIOUS

LEMMA Multiples ==
  ASSUME NEW a \in Nat, NEW b \in Nat, NEW k \in Nat, a < b
  PROVE  a * k + k <= b * k /\ a * k \in Nat /\ b * k \in Nat
<1>1. PICK d \in Nat : b = a + 1 + d
  <2>1. b - a - 1 \in Nat /\ b = a + 1 + (b - a - 1)
    OBVIOUS
  <2> QED
    BY <2>1
<1>2. b * k = a * k + k + d * k /\ d * k \in Nat /\ a * k \in Nat
  BY <1>1
<1> QED
  BY <1>2

\* A place in a row of shards tells the shard and the place in it.
LEMMA PlacesDiffer ==
  ASSUME NEW k \in Nat, NEW i \in 0..(k - 1), NEW j \in 0..(k - 1), NEW q \in Nat, NEW r \in Nat,
         q * k + i = r * k + j
  PROVE  q = r /\ i = j
<1>1. CASE q < r
  BY <1>1, Multiples
<1>2. CASE r < q
  BY <1>2, Multiples
<1> QED
  BY <1>1, <1>2

LEMMA PlaceFits ==
  ASSUME NEW k \in Nat, NEW q \in Rank, NEW i \in 0..(k - 1)
  PROVE  q * k + i \in 0..(World * k - 1) /\ q * k \in Nat
<1>1. World \in Nat /\ q \in Nat /\ q < World
  BY ConstantsAssumption DEF Rank
<1> QED
  BY <1>1, Multiples

LEMMA PlaceIs ==
  ASSUME NEW k \in Nat, NEW p \in 0..(World * k - 1)
  PROVE  \E q \in Rank, i \in 0..(k - 1) : p = q * k + i
<1>1. World \in Nat \ {0} /\ k # 0 /\ p \in Nat
  BY ConstantsAssumption
<1> DEFINE q == p \div k
<1>2. q \in Nat /\ p % k \in 0..(k - 1) /\ p = k * q + (p % k)
  BY <1>1, Division
<1> HIDE DEF q
<1>3. p = q * k + (p % k)
  BY <1>1, <1>2
<1>4. q < World
  <2> SUFFICES ASSUME World <= q PROVE FALSE
    BY <1>1, <1>2
  <2>1. World * k <= q * k
    <3>1. CASE World = q
      BY <3>1, <1>1, <1>2
    <3>2. CASE World < q
      BY <3>2, <1>1, <1>2, Multiples
    <3> QED
      BY <3>1, <3>2, <1>1, <1>2
  <2> QED
    BY <1>1, <1>2, <1>3, <2>1
<1>5. q \in Rank
  <2>1. q \in 0..(World - 1)
    BY <1>1, <1>2, <1>4
  <2> QED
    BY <2>1 DEF Rank
<1> QED
  BY <1>2, <1>3, <1>5

\* The rotated table reaches every rank.
LEMMA Rotated ==
  ASSUME NEW r \in Rank, NEW q \in Rank
  PROVE  \E w \in Rank : TmpPtr(r, w) = q
<1>1. World \in Nat \ {0} /\ r \in Nat /\ q \in Nat /\ q < World /\ r < World
  BY ConstantsAssumption DEF Rank
<1>2. CASE q >= r
  <2>1. q - r \in Rank /\ r + (q - r) = q
    BY <1>1, <1>2 DEF Rank
  <2>2. q % World = q
    BY <1>1
  <2> QED
    BY <2>1, <2>2 DEF TmpPtr
<1>3. CASE q < r
  <2>1. (q + World) - r \in Rank /\ r + ((q + World) - r) = q + World
    BY <1>1, <1>3 DEF Rank
  <2>2. (q + World) % World = q
    BY <1>1
  <2> QED
    BY <2>1, <2>2 DEF TmpPtr
<1> QED
  BY <1>1, <1>2, <1>3

\* The blocks of a grid divide what they visit.
LEMMA Divided ==
  ASSUME NEW g \in Nat \ {0}, NEW len \in Nat, NEW i \in 0..(len - 1)
  PROVE  \E b \in 0..(g - 1) : i \in Visits(b, g, Lanes, len)
<1>1. Lanes \in Nat \ {0} /\ i \in Nat
  BY ConstantsAssumption
<1>2. i \div Lanes \in Nat
  BY <1>1, Division
<1>3. (i \div Lanes) % g \in 0..(g - 1)
  BY <1>2, Division
<1> QED
  BY <1>3 DEF Visits

LEMMA OwnFacts ==
  ASSUME NEW b, NEW d, NEW c
  PROVE  /\ Own(b, c) \subseteq 0..(Share(c) - 1) /\ Whole(b, c) \subseteq 0..(program[c] - 1)
         /\ b # d => Own(b, c) \cap Own(d, c) = {} /\ Whole(b, c) \cap Whole(d, c) = {}
BY DEF Own, Whole, Visits

LEMMA CallFacts ==
  ASSUME Control, Safe, NEW c \in 1..Len(program)
  PROVE  /\ program[c] \in Nat \ {0} /\ program[c] <= MaxPacks
         /\ Grid(program[c]) \in 1..MaxBlocks /\ Share(c) \in Nat
         /\ KernelOf(c) \in {"onestage", "twostage", "write"}
         /\ KernelOf(c) # "onestage" =>
              /\ program[c] % World = 0 /\ program[c] = World * Share(c)
              /\ \A r \in Rank : ShardLen(r, program[c]) = Share(c)
         /\ KernelOf(c) = "write" => WaveRanks >= World
         /\ c < Len(program) => c + 1 \in 1..Len(program)
         /\ c < Len(program) /\ KernelOf(c) = "onestage" => KernelOf(c + 1) = "write"
         /\ c < Len(program) /\ KernelOf(c) = "twostage" => KernelOf(c + 1) # "write"
<1> DEFINE n == program[c]
<1>1. program \in Programs /\ program \in Seq(1..MaxPacks) /\ Len(program) \in Nat
  <2>1. program \in Programs
    BY DEF Control
  <2> QED
    BY <2>1, ProgramFacts, ConstantsAssumption
<1>2. n \in 1..MaxPacks /\ MaxPacks \in Nat
  BY <1>1, ConstantsAssumption
<1>3. World \in Nat \ {0} /\ Lanes \in Nat \ {0} /\ MaxBlocks \in Nat \ {0}
  BY ConstantsAssumption
<1>4. KernelOf(c) \in {"onestage", "twostage", "write"}
  BY DEF KernelOf, Kernel
<1>5. Even(program) /\ Ordered(program)
  BY <1>1 DEF Safe
<1>6. /\ KernelOf(c) = "twostage" => n % World = 0
      /\ KernelOf(c) = "write" => n % World = 0 /\ WaveRanks >= World
  BY <1>4, <1>5 DEF Even, KernelOf
<1> HIDE DEF n
<1>7. Share(c) = n \div World /\ Share(c) \in Nat
  <2>1. Share(c) = n \div World
    BY DEF Share, Part, n
  <2>2. n \in Nat
    BY <1>2
  <2> QED
    BY <1>3, <2>1, <2>2, Division
<1>8. ASSUME KernelOf(c) # "onestage"
      PROVE  n % World = 0 /\ n = World * Share(c) /\ \A r \in Rank : ShardLen(r, n) = Share(c)
  <2>1. n % World = 0
    BY <1>4, <1>6, <1>8
  <2>2. n = World * Share(c)
    BY <1>2, <1>3, <1>7, <2>1, Division
  <2>3. n - (World - 1) * Share(c) = Share(c)
    BY <1>3, <1>7, <2>2
  <2>4. Part(n) = Share(c)
    BY DEF Share, n
  <2> QED
    BY <2>1, <2>2, <2>3, <2>4 DEF ShardLen
<1>9. Grid(n) \in 1..MaxBlocks
  <2> DEFINE work == CASE Kernel(n) = "onestage" -> n [] Part(n) = 0 -> 1 [] OTHER -> Part(n)
             need == (work + Lanes - 1) \div Lanes
  <2>1. work \in Nat \ {0}
    BY <1>2, <1>7 DEF Share, n
  <2>2. Grid(n) = IF need < MaxBlocks THEN need ELSE MaxBlocks
    BY DEF Grid
  <2> HIDE DEF work
  <2>3. need \in Nat /\ need > 0
    <3> DEFINE m == work + Lanes - 1
    <3>1. m \in Nat /\ m >= Lanes
      BY <1>3, <2>1
    <3> HIDE DEF m
    <3>2. m \div Lanes \in Nat /\ m % Lanes \in 0..(Lanes - 1) /\ m = Lanes * (m \div Lanes) + (m % Lanes)
      BY <1>3, <3>1, Division
    <3>3. m \div Lanes # 0
      BY <1>3, <3>1, <3>2
    <3> QED
      BY <3>2, <3>3 DEF m
  <2> HIDE DEF need
  <2> QED
    BY <1>3, <2>2, <2>3
<1>10. c < Len(program) => /\ c \in 1..(Len(program) - 1) /\ c + 1 \in 1..Len(program)
  BY <1>1
<1>11. /\ c < Len(program) /\ KernelOf(c) = "onestage" => KernelOf(c + 1) = "write"
       /\ c < Len(program) /\ KernelOf(c) = "twostage" => KernelOf(c + 1) # "write"
  BY <1>5, <1>10 DEF Ordered, KernelOf
<1> QED
  BY <1>2, <1>4, <1>6, <1>7, <1>8, <1>9, <1>10, <1>11 DEF n
-----------------------------------------------------------------------------
(* What a block finds that reads.                                          *)

LEMMA CallIs ==
  ASSUME Control, NEW r \in Rank
  PROVE  /\ call[r] \in Nat /\ call[r] <= Len(program) /\ Len(program) \in Nat
         /\ call[r] > 0 => call[r] \in 1..Len(program)
         /\ call[r] > 1 => call[r] - 1 \in 1..Len(program) /\ call[r] - 1 < Len(program)
         /\ \A b : call[r] \in Starts(b) <=> call[r] > 0 /\ b < Grid(program[call[r]])
         /\ Packs(r) = program[call[r]]
<1>1. call[r] \in Nat /\ call[r] <= Len(program) /\ Len(program) \in Nat /\ DOMAIN program = 1..Len(program)
  BY ProgramFacts DEF Control
<1>2. \A b : call[r] \in Starts(b) <=> call[r] \in 1..Len(program) /\ b < Grid(program[call[r]])
  BY <1>1 DEF Starts
<1>3. call[r] > 0 <=> call[r] \in 1..Len(program)
  BY <1>1
<1>4. call[r] > 1 => call[r] - 1 \in 1..Len(program) /\ call[r] - 1 < Len(program)
  BY <1>1
<1> QED
  BY <1>1, <1>2, <1>3, <1>4 DEF Packs

\* While a block reduces, the ranks are in the same call, or some are in the next.
LEMMA Together ==
  ASSUME DataInv, NEW r \in Rank, NEW b \in Block, pc[r][b] = "reduce", NEW q \in Rank
  PROVE  call[q] = call[r] \/ (KernelOf(call[r]) = "onestage" /\ call[q] = call[r] + 1)
<1>1. Inv /\ Control /\ MetAt(r, q, b) /\ Near(q, r)
  BY DEF DataInv, Inv
<1>2. call[r] \in 1..Len(program) /\ call[r] \in Starts(b) /\ call[r] \in Nat
  BY <1>1, FlagIs
<1>3. call[r] > 0 /\ b < Grid(Packs(r)) /\ call[q] \in Nat
  BY <1>1, <1>2, CallIs
<1>4. ~(call[q] < call[r])
  BY <1>1, <1>3 DEF MetAt, BehindAt
<1>5. call[q] <= call[r] + 1
  BY <1>1 DEF Near
<1>6. call[q] > call[r] => KernelOf(call[r]) = "onestage"
  BY <1>1, <1>3 DEF Near
<1> QED
  BY <1>2, <1>3, <1>4, <1>5, <1>6

\* It finds the inputs of its call in the buffers of all.
LEMMA InputsFound ==
  ASSUME DataInv, NEW r \in Rank, NEW b \in Block, pc[r][b] = "reduce",
         KernelOf(call[r]) # "write", NEW p \in 0..(program[call[r]] - 1)
  PROVE  SumOf(p) = Reduced(p, call[r])
<1>1. Control /\ call[r] \in 1..Len(program) /\ call[r] \in Nat
  BY FlagIs DEF DataInv, Inv
<1>2. ASSUME NEW q \in Rank PROVE inbuf[q][p] = call[r]
  <2>1. InputThere(q) /\ call[q] \in Nat
    BY <1>1, CallIs DEF DataInv
  <2>2. CASE call[q] = call[r]
    BY <1>1, <2>1, <2>2 DEF InputThere
  <2>3. CASE KernelOf(call[r]) = "onestage" /\ call[q] = call[r] + 1
    <3>1. call[q] > 1 /\ call[q] - 1 = call[r]
      BY <1>1, <2>3
    <3> QED
      BY <2>1, <2>3, <3>1 DEF InputThere
  <2> QED
    BY <2>2, <2>3, Together
<1>3. \A q \in Rank : Input(q, p) = {<<q, p, call[r]>>}
  BY <1>2 DEF Input
<1> QED
  BY <1>3 DEF SumOf, Reduced

\* Past the end signal it finds the sums of all shards.
LEMMA ShardsFound ==
  ASSUME DataInv, NEW r \in Rank, NEW b \in Block, pc[r][b] \in {"gather", "done"},
         call[r] \in Starts(b), KernelOf(call[r]) # "onestage", NEW q \in Rank
  PROVE  ShardSummed(q, call[r], b)
<1>1. Inv /\ Control /\ MetAt(r, q, b) /\ Near(q, r) /\ SumsKept(q) /\ SummedAt(q, b) /\ Flagged(q, b)
  BY DEF DataInv, Inv
<1>2. call[r] \in Nat /\ call[r] > 0 /\ b < Grid(Packs(r)) /\ call[q] \in Nat
      /\ KernelOf(call[r]) = Kernel(Packs(r))
  BY <1>1, CallIs DEF KernelOf
<1>3. ~BehindAt(r, q, b, "end")
  BY <1>1, <1>2 DEF MetAt
<1>4. CASE call[q] = call[r]
  <2>1. pc[q][b] \in PcValues /\ pc[q][b] \notin {"start", "startwait", "reduce", "end"}
    BY <1>1, <1>3, <1>4 DEF BehindAt, Control
  <2>2. pc[q][b] \in {"end", "endwait", "gather", "done"}
    BY <2>1 DEF PcValues
  <2> QED
    BY <1>1, <1>4, <2>2 DEF SummedAt
<1>5. CASE call[q] # call[r]
  <2>1. call[q] - 1 = call[r] /\ call[q] > 1
    BY <1>1, <1>2, <1>3, <1>5 DEF BehindAt, Near
  <2>2. Trails(q)
    BY <2>1 DEF Trails
  <2> QED
    BY <1>1, <2>1, <2>2 DEF SumsKept
<1> QED
  BY <1>4, <1>5

\* In write mode it finds the shards of all.
LEMMA ScatterFound ==
  ASSUME DataInv, NEW r \in Rank, NEW b \in Block, pc[r][b] = "reduce",
         KernelOf(call[r]) = "write", NEW w \in Rank, NEW i \in Own(b, call[r])
  PROVE  tmp[r][w * Share(call[r]) + i] = {<<w, r * Share(call[r]) + i, call[r]>>}
<1>1. Inv /\ Control /\ MetAt(r, w, b) /\ InMode(w, b) /\ Scattered(w, r, b)
  BY DEF DataInv, Inv
<1>2. \A q \in Rank : call[q] = call[r]
  BY Together
<1>3. call[r] \in Starts(b) /\ call[r] > 0 /\ b < Grid(Packs(r)) /\ call[r] \in Nat
  BY <1>1, FlagIs, CallIs
<1>4. pc[w][b] # "start"
  BY <1>1, <1>2, <1>3 DEF MetAt, BehindAt
<1>5. r \notin left[w][b]
  BY <1>1, <1>4 DEF InMode
<1> QED
  BY <1>1, <1>2, <1>3, <1>5 DEF Scattered
-----------------------------------------------------------------------------
(* What a move of a block leaves as it is.                                 *)

LEMMA Frozen ==
  ASSUME program' = program
  PROVE  \A c : /\ KernelOf(c)' = KernelOf(c) /\ Share(c)' = Share(c)
                /\ \A b : Own(b, c)' = Own(b, c) /\ Whole(b, c)' = Whole(b, c)
BY DEF KernelOf, Share, Own, Whole

LEMMA InputKept ==
  ASSUME DataInv, UNCHANGED <<program, call, inbuf>>, NEW x \in Rank
  PROVE  InputThere(x)'
<1>1. InputThere(x)
  BY DEF DataInv
<1> QED
  BY <1>1, Frozen DEF InputThere

LEMMA NearKept ==
  ASSUME DataInv, NEW r \in Rank, NEW b \in Block, NEW from, NEW to,
         Moved(r, b, from, to), <<from, to>> \in Moves, NEW x \in Rank, NEW y \in Rank
  PROVE  Near(x, y)'
<1>1. /\ pc[r][b] = from /\ pc'[r][b] = to /\ program' = program /\ call' = call
      /\ \A q \in Rank, d \in Block : q # r \/ d # b => pc'[q][d] = pc[q][d]
  BY PcMoves DEF DataInv, Inv
<1>2. from \in {"endwait", "gather", "done"} => to \in {"endwait", "gather", "done"}
  BY DEF Moves
<1>3. Near(x, y)
  BY DEF DataInv
<1>4. \A d \in Block : pc[y][d] \in {"endwait", "gather", "done"} => pc'[y][d] \in {"endwait", "gather", "done"}
  BY <1>1, <1>2
<1> QED
  BY <1>1, <1>3, <1>4, Frozen DEF Near

LEMMA ModeKept ==
  ASSUME DataInv, NEW r \in Rank, NEW b \in Block, NEW from, NEW to,
         Moved(r, b, from, to), <<from, to>> \in Moves,
         from = "start" => left[r][b] = {}, to = "gather" => KernelOf(call[r]) = "twostage",
         left' = left, NEW x \in Rank, NEW d \in Block
  PROVE  InMode(x, d)'
<1>1. /\ pc[r][b] = from /\ pc'[r][b] = to /\ program' = program /\ call' = call
      /\ (x # r \/ d # b => pc'[x][d] = pc[x][d])
  BY PcMoves DEF DataInv, Inv
<1>2. InMode(x, d)
  BY DEF DataInv
<1> QED
  BY <1>1, <1>2, Frozen DEF InMode

LEMMA SumsStay ==
  ASSUME DataInv, UNCHANGED <<program, call, tmp, obuf>>, NEW x \in Rank
  PROVE  SumsKept(x)' /\ \A c, b : ShardSummed(x, c, b)' = ShardSummed(x, c, b)
<1>1. \A c, b : ShardSummed(x, c, b)' = ShardSummed(x, c, b)
  BY Frozen DEF ShardSummed
<1>2. SumsKept(x)
  BY DEF DataInv
<1> QED
  BY <1>1, <1>2, Frame DEF SumsKept, Trails

LEMMA SummedKept ==
  ASSUME DataInv, NEW r \in Rank, NEW b \in Block, NEW from, NEW to,
         Moved(r, b, from, to), <<from, to>> \in Moves,
         from = "reduce" => to = "done" /\ KernelOf(call[r]) = "onestage",
         UNCHANGED <<tmp, obuf>>, NEW x \in Rank, NEW d \in Block
  PROVE  SummedAt(x, d)'
<1>1. /\ pc[r][b] = from /\ pc'[r][b] = to /\ program' = program /\ call' = call
      /\ (x # r \/ d # b => pc'[x][d] = pc[x][d])
  BY PcMoves DEF DataInv, Inv
<1>2. \A c, e : ShardSummed(x, c, e)' = ShardSummed(x, c, e)
  BY <1>1, SumsStay
<1>3. SummedAt(x, d)
  BY DEF DataInv
<1>4. to \in {"end", "endwait", "gather", "done"} => from \in {"reduce", "end", "endwait", "gather"}
  BY DEF Moves
<1>5. KernelOf(call[r]) = "onestage" => ShardSummed(r, call[r], b)
  BY DEF ShardSummed
<1>6. CASE x # r \/ d # b
  BY <1>1, <1>2, <1>3, <1>6, Frame DEF SummedAt
<1>7. CASE x = r /\ d = b
  BY <1>1, <1>2, <1>3, <1>4, <1>5, <1>7, Frame DEF SummedAt
<1> QED
  BY <1>6, <1>7

LEMMA ScatteredKept ==
  ASSUME DataInv, UNCHANGED <<program, call, left, tmp>>, NEW x \in Rank, NEW q \in Rank, NEW d \in Block
  PROVE  Scattered(x, q, d)'
<1>1. Scattered(x, q, d)
  BY DEF DataInv
<1> QED
  BY <1>1, Frozen, Frame DEF Scattered

LEMMA DeliveredKept ==
  ASSUME DataInv, NEW r \in Rank, NEW b \in Block, NEW from, NEW to,
         Moved(r, b, from, to), <<from, to>> \in Moves,
         to = "done" => KernelOf(call[r]) = "write", out' = out, NEW x \in Rank, NEW d \in Block
  PROVE  Delivered(x, d)'
<1>1. /\ pc[r][b] = from /\ pc'[r][b] = to /\ program' = program /\ call' = call /\ busy' = busy
      /\ (x # r \/ d # b => pc'[x][d] = pc[x][d])
  BY PcMoves DEF DataInv, Inv
<1>2. from # "done"
  BY DEF Moves
<1>3. busy[r]
  BY <1>1, <1>2, FlagIs DEF DataInv
<1>4. Delivered(x, d)
  BY DEF DataInv
<1>5. CASE x # r \/ d # b
  BY <1>1, <1>4, <1>5, Frozen, Frame DEF Delivered
<1>6. CASE x = r /\ d = b
  BY <1>1, <1>3, <1>6, Frozen, Frame DEF Delivered
<1> QED
  BY <1>5, <1>6
-----------------------------------------------------------------------------
(* The steps and the buffers.                                              *)

LEMMA SyncKeeps ==
  ASSUME DataInv, Safe, Inv', NEW r \in Rank, NEW b \in Block, NEW s \in {"start", "end"},
         Signal(r, b, s) \/ Await(r, b, s)
  PROVE  DataInv'
<1>1. PICK from, to :
        /\ Moved(r, b, from, to) /\ <<from, to>> \in Moves /\ from # "reduce"
        /\ from = "start" => \A q \in left[r][b] : Wave(q) # 0
        /\ to = "done" => KernelOf(call[r]) = "write"
        /\ to = "gather" => KernelOf(call[r]) = "twostage"
  <2>1. CASE Signal(r, b, s)
    <3>1. Moved(r, b, s, Waiting(s)) /\ \A q \in left[r][b] : Wave(q) # 0
      BY <2>1 DEF Signal, Moved, Waiting
    <3>2. <<s, Waiting(s)>> \in Moves /\ Waiting(s) \notin {"done", "gather"} /\ s # "reduce"
      BY DEF Moves, Waiting
    <3> QED
      BY <3>1, <3>2
  <2>2. CASE Await(r, b, s) /\ s = "start"
    <3>1. Moved(r, b, "startwait", "reduce")
      BY <2>2 DEF Await, Moved
    <3> QED
      BY <3>1 DEF Moves
  <2>3. CASE Await(r, b, s) /\ s = "end"
    <3>1. Moved(r, b, "endwait", AfterEnd(r)) /\ pc[r][b] = "endwait"
      BY <2>3 DEF Await, Moved, Goto
    <3>2. call[r] \in Ends(b) /\ KernelOf(call[r]) = Kernel(Packs(r))
      BY <3>1 DEF DataInv, Inv, Flagged, KernelOf, Packs
    <3>3. /\ AfterEnd(r) = "done" => KernelOf(call[r]) = "write"
          /\ AfterEnd(r) = "gather" => KernelOf(call[r]) = "twostage"
      BY <3>2 DEF AfterEnd, Ends, Kernel, KernelOf
    <3>4. <<"endwait", AfterEnd(r)>> \in Moves
      BY DEF AfterEnd, Moves
    <3> QED
      BY <3>1, <3>3, <3>4
  <2> QED
    BY <2>1, <2>2, <2>3
<1>2. UNCHANGED <<left, inbuf, tmp, obuf, out>>
  BY DEF Signal, Await, buffers
<1>3. UNCHANGED <<program, call>> /\ pc[r][b] = from
  BY <1>1 DEF Moved, Goto
<1>4. from = "start" => left[r][b] = {}
  <2> SUFFICES ASSUME from = "start", left[r][b] # {} PROVE FALSE
    OBVIOUS
  <2>1. InMode(r, b) /\ Control /\ left[r][b] \subseteq Rank
    BY DEF DataInv, Inv, Layout
  <2>2. call[r] \in 1..Len(program) /\ KernelOf(call[r]) = "write"
    BY <2>1, CallIs DEF InMode
  <2>3. WaveRanks >= World /\ World \in Nat \ {0} /\ WaveRanks \in Nat \ {0}
    BY <2>1, <2>2, CallFacts, ConstantsAssumption
  <2>4. ASSUME NEW q \in Rank PROVE Wave(q) = 0
    <3>1. q \in Nat /\ q < WaveRanks
      BY <2>3 DEF Rank
    <3>2. q \div WaveRanks \in Nat /\ q % WaveRanks \in 0..(WaveRanks - 1)
          /\ q = WaveRanks * (q \div WaveRanks) + (q % WaveRanks)
      BY <2>3, <3>1, Division
    <3>3. q \div WaveRanks = 0
      BY <2>3, <3>1, <3>2
    <3> QED
      BY <3>3 DEF Wave
  <2> QED
    BY <1>1, <2>1, <2>4
<1>5. \A x, q \in Rank : Near(x, q)'
  BY <1>1, NearKept
<1>6. \A x \in Rank : InputThere(x)' /\ SumsKept(x)'
  BY <1>2, <1>3, InputKept, SumsStay
<1>7. \A x \in Rank, d \in Block : InMode(x, d)' /\ SummedAt(x, d)' /\ Delivered(x, d)'
  BY <1>1, <1>2, <1>4, ModeKept, SummedKept, DeliveredKept
<1>8. \A x, q \in Rank, d \in Block : Scattered(x, q, d)'
  BY <1>2, <1>3, ScatteredKept
<1>9. Layout'
  BY <1>2 DEF DataInv, Layout
<1> QED
  BY <1>5, <1>6, <1>7, <1>8, <1>9 DEF DataInv

LEMMA ReduceAllKeeps ==
  ASSUME DataInv, Safe, Inv', NEW r \in Rank, NEW b \in Block, ReduceAll(r, b)
  PROVE  DataInv'
<1> DEFINE c == call[r]
<1>1. /\ Moved(r, b, "reduce", "done") /\ KernelOf(c) = "onestage"
      /\ UNCHANGED <<program, call, left, inbuf, tmp, obuf>>
      /\ out' = [out EXCEPT ![r] = [p \in Pack |->
                   IF p \in Mine(r, b, Packs(r)) THEN SumOf(p) ELSE @[p]]]
  BY DEF ReduceAll, Moved, KernelOf, Packs
<1>2. <<"reduce", "done">> \in Moves
  BY DEF Moves
<1>3. /\ pc[r][b] = "reduce" /\ pc'[r][b] = "done" /\ busy' = busy
      /\ \A q \in Rank, d \in Block : q # r \/ d # b => pc'[q][d] = pc[q][d]
  BY <1>1, <1>2, PcMoves DEF DataInv, Inv
<1>4. Control /\ c \in 1..Len(program) /\ MaxPacks \in Nat
  BY <1>3, FlagIs, ConstantsAssumption DEF DataInv, Inv
<1>5. program[c] \in Nat /\ program[c] <= MaxPacks /\ Mine(r, b, Packs(r)) = Whole(b, c)
  BY <1>4, CallFacts DEF Mine, Whole, Packs
<1>6. /\ DOMAIN out' = Rank /\ \A q \in Rank : q # r => out'[q] = out[q]
      /\ \A p \in Pack : out'[r][p] = IF p \in Whole(b, c) THEN SumOf(p) ELSE out[r][p]
  BY <1>1, <1>5 DEF DataInv, Layout
<1>7. ASSUME NEW x \in Rank, NEW d \in Block PROVE Delivered(x, d)'
  <2>1. Delivered(x, d)
    BY DEF DataInv
  <2>2. CASE x # r
    BY <1>1, <1>3, <1>6, <2>1, <2>2, Frozen, Frame DEF Delivered
  <2>3. CASE x = r
    <3> SUFFICES ASSUME c \in Starts(d), pc'[r][d] = "done", NEW p \in Whole(d, c)
                 PROVE  out'[r][p] = Reduced(p, c)
      BY <1>1, <1>3, <2>3, Frozen, Frame DEF Delivered
    <3>0. p \in 0..(program[c] - 1)
      BY OwnFacts
    <3>1. p \in Pack
      BY <1>4, <1>5, <3>0 DEF Pack
    <3>2. CASE d = b
      BY <1>1, <1>3, <1>6, <3>0, <3>1, <3>2, InputsFound
    <3>3. CASE d # b
      <4>1. p \notin Whole(b, c)
        BY <3>3, OwnFacts
      <4> QED
        BY <1>1, <1>3, <1>6, <2>1, <2>3, <3>1, <3>3, <4>1 DEF Delivered
    <3> QED
      BY <3>2, <3>3
  <2> QED
    BY <2>2, <2>3
<1>8. \A x, q \in Rank : Near(x, q)'
  BY <1>1, <1>2, NearKept
<1>9. \A x \in Rank : InputThere(x)' /\ SumsKept(x)'
  BY <1>1, InputKept, SumsStay
<1>10. \A x \in Rank, d \in Block : InMode(x, d)' /\ SummedAt(x, d)'
  BY <1>1, <1>2, ModeKept, SummedKept
<1>11. \A x, q \in Rank, d \in Block : Scattered(x, q, d)'
  BY <1>1, ScatteredKept
<1>12. Layout'
  BY <1>1, <1>6 DEF DataInv, Layout
<1> QED
  BY <1>7, <1>8, <1>9, <1>10, <1>11, <1>12 DEF DataInv

LEMMA ReduceShardKeeps ==
  ASSUME DataInv, Safe, Inv', NEW r \in Rank, NEW b \in Block, ReduceShard(r, b)
  PROVE  DataInv'
<1> DEFINE c == call[r]
<1>1. /\ Moved(r, b, "reduce", "end") /\ KernelOf(c) = "twostage"
      /\ UNCHANGED <<program, call, left, inbuf, obuf, out>>
      /\ tmp' = [tmp EXCEPT ![TmpPtr(r, 0)] = [i \in Pack |->
                   IF i \in Mine(r, b, ShardLen(r, Packs(r)))
                   THEN SumOf(r * Part(Packs(r)) + i) ELSE @[i]]]
  BY DEF ReduceShard, AfterReduce, Moved, KernelOf, Packs
<1>2. <<"reduce", "end">> \in Moves
  BY DEF Moves
<1>3. /\ pc[r][b] = "reduce" /\ pc'[r][b] = "end"
      /\ \A q \in Rank, d \in Block : q # r \/ d # b => pc'[q][d] = pc[q][d]
  BY <1>1, <1>2, PcMoves DEF DataInv, Inv
<1>4. Control /\ c \in 1..Len(program) /\ c \in Nat
  BY <1>3, FlagIs, ConstantsAssumption DEF DataInv, Inv
<1>5. /\ program[c] \in Nat /\ program[c] <= MaxPacks /\ program[c] = World * Share(c)
      /\ Share(c) \in Nat /\ MaxPacks \in Nat
      /\ Mine(r, b, ShardLen(r, Packs(r))) = Own(b, c) /\ Part(Packs(r)) = Share(c)
  BY <1>1, <1>4, CallFacts, ConstantsAssumption DEF Mine, Own, Packs, Share
<1>6. TmpPtr(r, 0) = r
  <2>1. World \in Nat \ {0} /\ r \in Nat /\ r < World
    BY ConstantsAssumption DEF Rank
  <2>2. r + 0 = r /\ r % World = r
    BY <2>1
  <2> QED
    BY <2>2 DEF TmpPtr
<1>7. /\ DOMAIN tmp' = Rank /\ \A q \in Rank : q # r => tmp'[q] = tmp[q]
      /\ \A i \in Pack : tmp'[r][i] = IF i \in Own(b, c) THEN SumOf(r * Share(c) + i) ELSE tmp[r][i]
  BY <1>1, <1>5, <1>6 DEF DataInv, Layout
<1>8. \A q \in Rank : call[q] = c
  BY <1>1, <1>3, Together
<1>9. \A d, i : i \in Own(d, c) => i \in 0..(Share(c) - 1) /\ r * Share(c) + i \in 0..(program[c] - 1)
  BY <1>5, OwnFacts, PlaceFits
<1>10. \A i \in 0..(Share(c) - 1) : i \in Pack
  <2> TAKE i \in 0..(Share(c) - 1)
  <2>1. r * Share(c) + i \in 0..(program[c] - 1) /\ r * Share(c) \in Nat
    BY <1>5, PlaceFits
  <2> QED
    BY <1>5, <2>1 DEF Pack
<1>11. ASSUME NEW x \in Rank, NEW d \in Block PROVE SummedAt(x, d)'
  <2>1. SummedAt(x, d)
    BY DEF DataInv
  <2> SUFFICES ASSUME c \in Starts(d), pc'[x][d] \in {"end", "endwait", "gather", "done"},
                      NEW i \in Own(d, c)
               PROVE  tmp'[x][i] = Reduced(x * Share(c) + i, c)
    BY <1>1, <1>8, Frozen, Frame DEF SummedAt, ShardSummed
  <2>2. i \in Pack
    BY <1>9, <1>10
  <2>3. CASE x = r /\ d = b
    <3>1. tmp'[r][i] = SumOf(r * Share(c) + i)
      BY <1>7, <2>2, <2>3
    <3>2. r * Share(c) + i \in 0..(program[c] - 1)
      BY <1>9
    <3> QED
      BY <1>1, <1>3, <2>3, <3>1, <3>2, InputsFound
  <2>4. CASE ~(x = r /\ d = b)
    <3>1. tmp[x][i] = Reduced(x * Share(c) + i, c)
      BY <1>1, <1>3, <1>8, <2>1, <2>4 DEF SummedAt, ShardSummed
    <3>2. x = r => i \notin Own(b, c)
      BY <2>4, OwnFacts
    <3> QED
      BY <1>7, <2>2, <3>1, <3>2
  <2> QED
    BY <2>3, <2>4
<1>12. \A x \in Rank : SumsKept(x)'
  <2>1. \A x \in Rank : ~Trails(x)'
    BY <1>1, <1>4, <1>8 DEF Trails
  <2> QED
    BY <2>1 DEF SumsKept
<1>13. \A x, q \in Rank, d \in Block : Scattered(x, q, d)'
  BY <1>1, <1>8, Frozen DEF Scattered
<1>14. \A x, q \in Rank : Near(x, q)'
  BY <1>1, <1>2, NearKept
<1>15. \A x \in Rank : InputThere(x)'
  BY <1>1, InputKept
<1>16. \A x \in Rank, d \in Block : InMode(x, d)' /\ Delivered(x, d)'
  BY <1>1, <1>2, ModeKept, DeliveredKept
<1>17. Layout'
  BY <1>1, <1>7 DEF DataInv, Layout
<1> QED
  BY <1>11, <1>12, <1>13, <1>14, <1>15, <1>16, <1>17 DEF DataInv

LEMMA GatherKeeps ==
  ASSUME DataInv, Safe, Inv', NEW r \in Rank, NEW b \in Block, Gather(r, b)
  PROVE  DataInv'
<1> DEFINE c == call[r]
           k == Share(c)
           moves == Gathered(r, b)
<1>1. /\ Moved(r, b, "gather", "done")
      /\ UNCHANGED <<program, call, left, inbuf, tmp, obuf>>
      /\ out' = [out EXCEPT ![r] = [p \in Pack |->
                   IF \E m \in moves : m[1] = p
                   THEN LET m == CHOOSE m \in moves : m[1] = p IN tmp[m[2]][m[3]]
                   ELSE @[p]]]
  BY DEF Gather, Moved
<1>2. <<"gather", "done">> \in Moves
  BY DEF Moves
<1>3. /\ pc[r][b] = "gather" /\ pc'[r][b] = "done" /\ busy' = busy /\ busy[r]
      /\ \A q \in Rank, d \in Block : q # r \/ d # b => pc'[q][d] = pc[q][d]
  BY <1>1, <1>2, PcMoves, FlagIs DEF DataInv, Inv
<1>4. Control /\ c \in 1..Len(program) /\ c \in Nat /\ c \in Ends(b) /\ c \in Starts(b)
  BY <1>3, FlagIs DEF DataInv, Inv, Flagged
<1>5. KernelOf(c) # "onestage"
  BY <1>4 DEF Ends, KernelOf
<1>6. /\ program[c] \in Nat /\ program[c] <= MaxPacks /\ program[c] = World * k
      /\ program[c] % World = 0 /\ k \in Nat /\ MaxPacks \in Nat
      /\ Mine(r, b, Part(Packs(r))) = Own(b, c) /\ Part(Packs(r)) = k /\ Packs(r) = program[c]
  BY <1>4, <1>5, CallFacts, ConstantsAssumption DEF Mine, Own, Packs, Share
<1> HIDE DEF moves, k
<1>7. moves = {<<TmpPtr(r, w) * k + i, TmpPtr(r, w), i>> : w \in Rank, i \in Own(b, c)}
  BY <1>6 DEF moves, Gathered, TmpPtr
<1>8. \A w \in Rank : TmpPtr(r, w) \in Rank
  <2> TAKE w \in Rank
  <2>1. World \in Nat \ {0} /\ r + w \in Nat
    BY ConstantsAssumption DEF Rank
  <2>2. (r + w) % World \in 0..(World - 1)
    BY <2>1, Division
  <2> QED
    BY <2>2 DEF TmpPtr, Rank
<1>9. moves = {<<q * k + i, q, i>> : q \in Rank, i \in Own(b, c)}
  <2>1. moves \subseteq {<<q * k + i, q, i>> : q \in Rank, i \in Own(b, c)}
    BY <1>7, <1>8
  <2>2. ASSUME NEW q \in Rank, NEW i \in Own(b, c) PROVE <<q * k + i, q, i>> \in moves
    <3>1. PICK w \in Rank : TmpPtr(r, w) = q
      BY Rotated
    <3> QED
      BY <1>7, <3>1
  <2> QED
    BY <2>1, <2>2
<1>10. \A d, i : i \in Own(d, c) => i \in 0..(k - 1)
  BY OwnFacts DEF k
<1>11. \A q \in Rank, i \in 0..(k - 1) : q * k + i \in Pack
  BY <1>6, PlaceFits DEF Pack
<1>12. /\ DOMAIN out' = Rank /\ \A q \in Rank : q # r => out'[q] = out[q]
       /\ \A p \in Pack : out'[r][p] =
            IF \E m \in moves : m[1] = p
            THEN LET m == CHOOSE m \in moves : m[1] = p IN tmp[m[2]][m[3]]
            ELSE out[r][p]
  BY <1>1 DEF DataInv, Layout
<1>13. ASSUME NEW q \in Rank, NEW i \in 0..(k - 1)
       PROVE  out'[r][q * k + i] = IF i \in Own(b, c) THEN tmp[q][i] ELSE out[r][q * k + i]
  <2> DEFINE p == q * k + i
  <2>1. ASSUME NEW m \in moves, m[1] = p PROVE m = <<p, q, i>> /\ i \in Own(b, c)
    <3>1. PICK w \in Rank, j \in Own(b, c) : m = <<w * k + j, w, j>>
      BY <1>9
    <3>2. w * k + j = q * k + i /\ j \in 0..(k - 1) /\ w \in Nat /\ q \in Nat
      BY <1>10, <2>1, <3>1 DEF Rank
    <3>3. w = q /\ j = i
      BY <1>6, <3>2, PlacesDiffer
    <3> QED
      BY <3>1, <3>3
  <2>2. CASE i \in Own(b, c)
    <3>1. <<p, q, i>> \in moves /\ <<p, q, i>>[1] = p
      BY <1>9, <2>2
    <3> HIDE DEF p
    <3>2. (CHOOSE m \in moves : m[1] = p) = <<p, q, i>>
      BY <2>1, <3>1
    <3>3. p \in Pack
      BY <1>11 DEF p
    <3>4. out'[r][p] = tmp[q][i]
      BY <1>12, <3>1, <3>2, <3>3
    <3> QED
      BY <2>2, <3>4 DEF p
  <2>3. CASE i \notin Own(b, c)
    <3>1. ~ \E m \in moves : m[1] = p
      BY <2>1, <2>3
    <3>2. p \in Pack
      BY <1>11
    <3> HIDE DEF p
    <3>3. out'[r][p] = out[r][p]
      BY <1>12, <3>1, <3>2
    <3> QED
      BY <2>3, <3>3 DEF p
  <2> QED
    BY <2>2, <2>3
<1>14. KernelOf(c) = "twostage"
  <2>1. InMode(r, b)
    BY DEF DataInv
  <2> QED
    BY <1>3, <2>1 DEF InMode
<1>15. ASSUME NEW x \in Rank, NEW d \in Block PROVE Delivered(x, d)'
  <2>1. Delivered(x, d)
    BY DEF DataInv
  <2>2. CASE x # r
    BY <1>1, <1>3, <1>12, <2>1, <2>2, Frozen, Frame DEF Delivered
  <2>3. CASE x = r
    <3> SUFFICES ASSUME c \in Starts(d), pc'[r][d] = "done", NEW q \in Rank, NEW i \in Own(d, c)
                 PROVE  out'[r][q * k + i] = Reduced(q * k + i, c)
      BY <1>1, <1>5, <2>3, Frozen, Frame DEF Delivered, k
    <3>1. i \in 0..(k - 1)
      BY <1>10
    <3>2. CASE d = b
      <4>1. ShardSummed(q, c, b)
        BY <1>3, <1>4, <1>5, ShardsFound
      <4> QED
        BY <1>13, <1>14, <3>1, <3>2, <4>1 DEF ShardSummed, k
    <3>3. CASE d # b
      <4>1. i \notin Own(b, c)
        BY <3>3, OwnFacts
      <4>2. pc[r][d] = "done"
        BY <1>3, <3>3
      <4>3. out[r][q * k + i] = Reduced(q * k + i, c)
        BY <1>14, <2>1, <2>3, <4>2 DEF Delivered, k
      <4> QED
        BY <1>13, <3>1, <4>1, <4>3
    <3> QED
      BY <3>2, <3>3
  <2> QED
    BY <2>2, <2>3
<1>16. \A x, q \in Rank : Near(x, q)'
  BY <1>1, <1>2, NearKept
<1>17. \A x \in Rank : InputThere(x)' /\ SumsKept(x)'
  BY <1>1, InputKept, SumsStay
<1>18. \A x \in Rank, d \in Block : InMode(x, d)' /\ SummedAt(x, d)'
  BY <1>1, <1>2, ModeKept, SummedKept
<1>19. \A x, q \in Rank, d \in Block : Scattered(x, q, d)'
  BY <1>1, ScatteredKept
<1>20. Layout'
  BY <1>1, <1>12 DEF DataInv, Layout
<1> QED
  BY <1>15, <1>16, <1>17, <1>18, <1>19, <1>20 DEF DataInv

\* While a block scatters, no rank is ahead, and none has sums in its scratch packs.
LEMMA ScattersAlone ==
  ASSUME DataInv, Safe, NEW r \in Rank, NEW b \in Block, left[r][b] # {}, NEW x \in Rank
  PROVE  /\ pc[r][b] = "start" /\ call[r] \in 1..Len(program) /\ KernelOf(call[r]) = "write"
         /\ call[x] <= call[r] /\ (call[x] > 0 => KernelOf(call[x]) # "twostage")
<1>1. InMode(r, b) /\ Near(x, r) /\ Near(r, x) /\ Control
  BY DEF DataInv, Inv
<1>2. pc[r][b] = "start" /\ call[r] \in 1..Len(program) /\ KernelOf(call[r]) = "write"
      /\ call[r] > 0 /\ call[r] \in Nat /\ call[x] \in Nat
  BY <1>1, CallIs DEF InMode
<1>3. call[x] <= call[r]
  BY <1>1, <1>2 DEF Near
<1>4. ASSUME call[x] > 0, KernelOf(call[x]) = "twostage" PROVE FALSE
  <2>1. call[x] # call[r]
    BY <1>2, <1>4
  <2>2. call[x] = call[r] - 1
    BY <1>1, <1>2, <1>3, <2>1 DEF Near
  <2>3. call[x] \in 1..Len(program) /\ call[x] < Len(program) /\ call[x] + 1 = call[r]
    BY <1>1, <1>2, <1>4, <2>2, CallIs
  <2> QED
    BY <1>1, <1>2, <1>4, <2>3, CallFacts
<1> QED
  BY <1>2, <1>3, <1>4

LEMMA ScatterKeeps ==
  ASSUME DataInv, Safe, Inv', NEW r \in Rank, NEW b \in Block, NEW w \in Rank, Scatter(r, b, w)
  PROVE  DataInv'
<1> DEFINE c == call[r]
           k == Share(c)
           now == {q \in left[r][b] : Wave(q) = w}
<1>1. /\ now # {} /\ now \subseteq left[r][b] /\ left' = [left EXCEPT ![r][b] = @ \ now]
      /\ UNCHANGED <<program, call, busy, pc, inbuf, obuf, out>>
      /\ tmp' = [q \in Rank |-> [p \in Pack |->
                   IF q \in now /\ p >= r * Part(Packs(r))
                      /\ p - r * Part(Packs(r)) \in Mine(r, b, ShardLen(q, Packs(r)))
                   THEN {<<r, q * Part(Packs(r)) + (p - r * Part(Packs(r))), c>>} ELSE tmp[q][p]]]
  BY DEF Scatter
<1> HIDE DEF now
<1>2. left[r][b] # {}
  BY <1>1
<1>3. Control /\ pc[r][b] = "start" /\ c \in 1..Len(program) /\ KernelOf(c) = "write" /\ c \in Nat
  BY <1>2, ScattersAlone, CallIs DEF DataInv, Inv
<1>4. /\ program[c] \in Nat /\ program[c] <= MaxPacks /\ program[c] = World * k
      /\ k \in Nat /\ MaxPacks \in Nat /\ Part(Packs(r)) = k
      /\ \A q \in Rank : Mine(r, b, ShardLen(q, Packs(r))) = Own(b, c)
  BY <1>3, CallFacts, ConstantsAssumption DEF Mine, Own, Packs, Share
<1> HIDE DEF k
<1>5. \A d, i : i \in Own(d, c) => i \in 0..(k - 1)
  BY OwnFacts DEF k
<1>6. \A q \in Rank, i \in 0..(k - 1) : q * k + i \in Pack
  BY <1>4, PlaceFits DEF Pack
<1>7. tmp' = [q \in Rank |-> [p \in Pack |->
                IF q \in now /\ p >= r * k /\ p - r * k \in Own(b, c)
                THEN {<<r, q * k + (p - r * k), c>>} ELSE tmp[q][p]]]
  BY <1>1, <1>4
<1>8. ASSUME NEW q \in Rank, NEW x \in Rank, NEW i \in 0..(k - 1)
      PROVE  tmp'[q][x * k + i] = IF q \in now /\ x = r /\ i \in Own(b, c)
                                  THEN {<<r, q * k + i, c>>} ELSE tmp[q][x * k + i]
  <2> DEFINE p == x * k + i
  <2>1. p \in Pack /\ p \in Nat /\ r \in Nat /\ x \in Nat /\ i \in Nat /\ r * k \in Nat /\ x * k \in Nat
    BY <1>4, <1>6, PlaceFits DEF Pack, Rank
  <2>2. ASSUME p >= r * k, p - r * k \in Own(b, c) PROVE x = r /\ p - r * k = i
    <3> DEFINE j == p - r * k
    <3>1. j \in 0..(k - 1)
      BY <1>5, <2>2
    <3>2. x * k + i = r * k + j
      BY <2>1
    <3> HIDE DEF j
    <3>3. k \in Nat /\ x \in Nat /\ r \in Nat
      BY <1>4, <2>1
    <3>4. x = r /\ i = j
      BY <3>1, <3>2, <3>3, PlacesDiffer
    <3> QED
      BY <3>4 DEF j
  <2>3. x = r => p >= r * k /\ p - r * k = i
    BY <2>1
  <2> HIDE DEF p
  <2>4. tmp'[q][p] = IF q \in now /\ p >= r * k /\ p - r * k \in Own(b, c)
                     THEN {<<r, q * k + (p - r * k), c>>} ELSE tmp[q][p]
    BY <1>7, <2>1
  <2>5. CASE x = r /\ i \in Own(b, c)
    <3>1. p >= r * k /\ p - r * k = i
      BY <2>3, <2>5
    <3>2. tmp'[q][p] = IF q \in now THEN {<<r, q * k + i, c>>} ELSE tmp[q][p]
      BY <2>4, <2>5, <3>1
    <3> QED
      BY <2>5, <3>2 DEF p
  <2>6. CASE ~(x = r /\ i \in Own(b, c))
    <3>1. tmp'[q][p] = tmp[q][p]
      BY <2>2, <2>4, <2>6
    <3> QED
      BY <2>6, <3>1 DEF p
  <2> QED
    BY <2>5, <2>6
<1>9. /\ left' \in [Rank -> [Block -> SUBSET Rank]] /\ left'[r][b] = left[r][b] \ now
      /\ \A x \in Rank, d \in Block : x # r \/ d # b => left'[x][d] = left[x][d]
  BY <1>1 DEF DataInv, Layout
<1>10. Layout'
  BY <1>1, <1>7, <1>9 DEF DataInv, Layout
<1>11. \A x, q \in Rank : Near(x, q)'
  BY <1>1, Frozen DEF DataInv, Near
<1>12. ASSUME NEW x \in Rank, NEW d \in Block PROVE InMode(x, d)'
  <2>1. InMode(x, d) /\ left'[x][d] \subseteq left[x][d]
    BY <1>9 DEF DataInv
  <2> QED
    BY <1>1, <2>1, Frozen DEF InMode
<1>13. ASSUME NEW x \in Rank, NEW d \in Block PROVE SummedAt(x, d)'
  <2>1. SummedAt(x, d) /\ (call[x] > 0 => KernelOf(call[x]) # "twostage") /\ Control
    BY <1>2, <1>3, ScattersAlone DEF DataInv
  <2>2. call[x] \in Starts(d) => KernelOf(call[x]) # "twostage"
    BY <2>1, CallIs
  <2> QED
    BY <1>1, <2>1, <2>2, Frozen, Frame DEF SummedAt, ShardSummed
<1>14. ASSUME NEW x \in Rank PROVE SumsKept(x)'
  <2>1. SumsKept(x) /\ call[x] \in Nat
    BY <1>3, CallIs DEF DataInv
  <2>2. Trails(x) => KernelOf(call[x] - 1) # "twostage"
    BY <1>2, <2>1, ScattersAlone DEF Trails
  <2> QED
    BY <1>1, <2>1, <2>2, Frozen, Frame DEF SumsKept, Trails, ShardSummed
<1>15. ASSUME NEW x \in Rank, NEW q \in Rank, NEW d \in Block PROVE Scattered(x, q, d)'
  <2> DEFINE e == call[x]
  <2>0. /\ call' = call /\ Starts(d)' = Starts(d) /\ KernelOf(e)' = KernelOf(e)
        /\ Own(d, e)' = Own(d, e) /\ Share(e)' = Share(e)
    <3>1. program' = program /\ call' = call
      BY <1>1
    <3> QED
      BY <3>1 DEF KernelOf, Share, Own, Starts
  <2> SUFFICES ASSUME e \in Starts(d), KernelOf(e) = "write", q \notin left'[x][d],
                      \A y \in Rank : call[y] <= e, NEW i \in Own(d, e)
               PROVE  tmp'[q][x * Share(e) + i] = {<<x, q * Share(e) + i, e>>}
    BY <2>0 DEF Scattered
  <2>1. call[x] = c
    <3>1. call[x] <= c /\ c <= call[x] /\ call[x] \in Nat
      BY <1>2, <1>3, ScattersAlone, CallIs
    <3> QED
      BY <1>3, <3>1
  <2>2. i \in 0..(k - 1) /\ Scattered(x, q, d) /\ q \in Rank
    BY <1>5, <2>1 DEF DataInv
  <2>3. q \notin left[x][d] => tmp[q][x * k + i] = {<<x, q * k + i, c>>}
    BY <1>3, <2>1, <2>2 DEF Scattered, k
  <2>4. CASE x = r /\ d = b
    BY <1>8, <1>9, <2>1, <2>2, <2>3, <2>4 DEF k
  <2>5. CASE ~(x = r /\ d = b)
    <3>1. x = r => i \notin Own(b, c)
      BY <2>1, <2>5, OwnFacts
    <3>2. q \notin left[x][d]
      BY <1>9, <2>5
    <3>3. tmp'[q][x * k + i] = tmp[q][x * k + i]
      BY <1>8, <2>2, <3>1
    <3> QED
      BY <2>1, <2>3, <3>2, <3>3 DEF k
  <2> QED
    BY <2>4, <2>5
<1>16. \A x \in Rank : InputThere(x)'
  BY <1>1, InputKept
<1>17. ASSUME NEW x \in Rank, NEW d \in Block PROVE Delivered(x, d)'
  <2>1. Delivered(x, d) /\ UNCHANGED <<program, call, busy, pc, out>>
    BY <1>1 DEF DataInv
  <2> QED
    BY <2>1, Frozen, Frame DEF Delivered
<1> QED
  BY <1>10, <1>11, <1>12, <1>13, <1>14, <1>15, <1>16, <1>17 DEF DataInv

LEMMA ReduceAndWriteKeeps ==
  ASSUME DataInv, Safe, Inv', NEW r \in Rank, NEW b \in Block, ReduceAndWrite(r, b)
  PROVE  DataInv'
<1> DEFINE c == call[r]
           k == Share(c)
<1>1. /\ Moved(r, b, "reduce", "end") /\ KernelOf(c) = "write"
      /\ UNCHANGED <<program, call, left, inbuf, tmp, out>>
      /\ obuf' = [q \in Rank |-> [p \in Pack |->
                    IF p >= r * Part(Packs(r))
                       /\ p - r * Part(Packs(r)) \in Mine(r, b, ShardLen(r, Packs(r)))
                    THEN UNION {tmp[r][w * Part(Packs(r)) + (p - r * Part(Packs(r)))] : w \in Rank}
                    ELSE obuf[q][p]]]
  BY DEF ReduceAndWrite, Moved, KernelOf, Packs
<1>2. <<"reduce", "end">> \in Moves
  BY DEF Moves
<1>3. /\ pc[r][b] = "reduce" /\ pc'[r][b] = "end"
      /\ \A q \in Rank, d \in Block : q # r \/ d # b => pc'[q][d] = pc[q][d]
  BY <1>1, <1>2, PcMoves DEF DataInv, Inv
<1>4. Control /\ c \in 1..Len(program) /\ c \in Nat
  BY <1>3, FlagIs DEF DataInv, Inv
<1>5. /\ program[c] \in Nat /\ program[c] <= MaxPacks /\ program[c] = World * k
      /\ k \in Nat /\ MaxPacks \in Nat /\ Part(Packs(r)) = k
      /\ Mine(r, b, ShardLen(r, Packs(r))) = Own(b, c)
  BY <1>1, <1>4, CallFacts, ConstantsAssumption DEF Mine, Own, Packs, Share
<1>6. \A q \in Rank : call[q] = c
  BY <1>1, <1>3, Together
<1>7. \A w \in Rank, i \in Own(b, c) : tmp[r][w * k + i] = {<<w, r * k + i, c>>}
  BY <1>1, <1>3, ScatterFound
<1> HIDE DEF k
<1>8. \A d, i : i \in Own(d, c) => i \in 0..(k - 1)
  BY OwnFacts DEF k
<1>9. \A q \in Rank, i \in 0..(k - 1) : q * k + i \in Pack
  BY <1>5, PlaceFits DEF Pack
<1>10. obuf' = [q \in Rank |-> [p \in Pack |->
                  IF p >= r * k /\ p - r * k \in Own(b, c)
                  THEN UNION {tmp[r][w * k + (p - r * k)] : w \in Rank} ELSE obuf[q][p]]]
  BY <1>1, <1>5
<1>11. ASSUME NEW q \in Rank, NEW x \in Rank, NEW i \in 0..(k - 1)
       PROVE  obuf'[q][x * k + i] = IF x = r /\ i \in Own(b, c)
                                    THEN Reduced(x * k + i, c) ELSE obuf[q][x * k + i]
  <2> DEFINE p == x * k + i
  <2>1. p \in Pack /\ p \in Nat /\ r \in Nat /\ x \in Nat /\ i \in Nat /\ r * k \in Nat /\ x * k \in Nat
    BY <1>5, <1>9, PlaceFits DEF Pack, Rank
  <2>2. ASSUME p >= r * k, p - r * k \in Own(b, c) PROVE x = r /\ p - r * k = i
    <3> DEFINE j == p - r * k
    <3>1. j \in 0..(k - 1)
      BY <1>8, <2>2
    <3>2. x * k + i = r * k + j
      BY <2>1
    <3> HIDE DEF j
    <3>3. k \in Nat /\ x \in Nat /\ r \in Nat
      BY <1>5, <2>1
    <3>4. x = r /\ i = j
      BY <3>1, <3>2, <3>3, PlacesDiffer
    <3> QED
      BY <3>4 DEF j
  <2>3. x = r => p >= r * k /\ p - r * k = i
    BY <2>1
  <2> HIDE DEF p
  <2>4. obuf'[q][p] = IF p >= r * k /\ p - r * k \in Own(b, c)
                      THEN UNION {tmp[r][w * k + (p - r * k)] : w \in Rank} ELSE obuf[q][p]
    BY <1>10, <2>1
  <2>5. CASE x = r /\ i \in Own(b, c)
    <3>1. p >= r * k /\ p - r * k = i
      BY <2>3, <2>5
    <3>2. obuf'[q][p] = UNION {tmp[r][w * k + i] : w \in Rank}
      BY <2>4, <2>5, <3>1
    <3>3. {tmp[r][w * k + i] : w \in Rank} = {{<<w, r * k + i, c>>} : w \in Rank}
      <4>1. \A w \in Rank : tmp[r][w * k + i] = {<<w, r * k + i, c>>}
        BY <1>7, <2>5
      <4> QED
        BY <4>1
    <3>4. UNION {{<<w, r * k + i, c>>} : w \in Rank} = Reduced(r * k + i, c)
      BY DEF Reduced
    <3> QED
      BY <2>5, <3>2, <3>3, <3>4 DEF p
  <2>6. CASE ~(x = r /\ i \in Own(b, c))
    <3>1. obuf'[q][p] = obuf[q][p]
      BY <2>2, <2>4, <2>6
    <3> QED
      BY <2>6, <3>1 DEF p
  <2> QED
    BY <2>5, <2>6
<1>12. ASSUME NEW x \in Rank, NEW d \in Block PROVE SummedAt(x, d)'
  <2>1. SummedAt(x, d) /\ call[x] = c
    BY <1>6 DEF DataInv
  <2>2. call'[x] = c /\ program' = program /\ KernelOf(c) # "twostage"
    BY <1>1, <2>1
  <2> SUFFICES ASSUME c \in Starts(d), pc'[x][d] \in {"end", "endwait", "gather", "done"},
                      NEW q \in Rank, NEW i \in Own(d, c)
               PROVE  obuf'[q][x * k + i] = Reduced(x * k + i, c)
    BY <2>2, Frozen, Frame DEF SummedAt, ShardSummed, k
  <2>3. i \in 0..(k - 1)
    BY <1>8
  <2>4. CASE x = r /\ d = b
    BY <1>11, <2>3, <2>4
  <2>5. CASE ~(x = r /\ d = b)
    <3>1. obuf[q][x * k + i] = Reduced(x * k + i, c)
      BY <1>1, <1>3, <2>1, <2>5 DEF SummedAt, ShardSummed, k
    <3>2. x = r => i \notin Own(b, c)
      BY <2>5, OwnFacts
    <3> QED
      BY <1>11, <2>3, <3>1, <3>2
  <2> QED
    BY <2>4, <2>5
<1>13. \A x \in Rank : SumsKept(x)'
  <2>1. \A x \in Rank : ~Trails(x)'
    BY <1>1, <1>4, <1>6 DEF Trails
  <2> QED
    BY <2>1 DEF SumsKept
<1>14. \A x, q \in Rank, d \in Block : Scattered(x, q, d)'
  BY <1>1, ScatteredKept
<1>15. \A x, q \in Rank : Near(x, q)'
  BY <1>1, <1>2, NearKept
<1>16. \A x \in Rank : InputThere(x)'
  BY <1>1, InputKept
<1>17. \A x \in Rank, d \in Block : InMode(x, d)' /\ Delivered(x, d)'
  BY <1>1, <1>2, ModeKept, DeliveredKept
<1>18. Layout'
  BY <1>1 DEF DataInv, Layout
<1> QED
  BY <1>12, <1>13, <1>14, <1>15, <1>16, <1>17, <1>18 DEF DataInv

LEMMA ReturnKeeps ==
  ASSUME DataInv, Safe, Inv', NEW r \in Rank, Return(r)
  PROVE  DataInv'
<1> DEFINE c == call[r]
           k == Share(c)
<1>1. /\ busy[r] /\ busy' = [busy EXCEPT ![r] = FALSE] /\ \A d \in Block : pc[r][d] = "done"
      /\ UNCHANGED <<program, call, pc, left, inbuf, tmp, obuf>>
      /\ out' = IF KernelOf(c) = "write"
                THEN [out EXCEPT ![r] = [p \in Pack |-> IF p < Packs(r) THEN obuf[r][p] ELSE @[p]]]
                ELSE out
  BY DEF Return, KernelOf, Packs
<1>2. Control
  BY DEF DataInv, Inv
<1>3. /\ DOMAIN out' = Rank /\ \A q \in Rank : q # r => out'[q] = out[q] /\ busy'[q] = busy[q]
      /\ KernelOf(c) # "write" => out' = out
      /\ KernelOf(c) = "write" =>
           \A p \in Pack : p < Packs(r) => out'[r][p] = obuf[r][p]
  BY <1>1, <1>2 DEF DataInv, Layout, Control
<1>4. ASSUME NEW x \in Rank, NEW d \in Block PROVE Delivered(x, d)'
  <2>1. Delivered(x, d) /\ UNCHANGED <<program, call, pc>>
    BY <1>1 DEF DataInv
  <2>2. CASE x # r
    BY <1>3, <2>1, <2>2, Frozen, Frame DEF Delivered
  <2>3. CASE x = r /\ KernelOf(c) # "write"
    BY <1>3, <2>1, <2>3, Frozen, Frame DEF Delivered
  <2>4. CASE x = r /\ KernelOf(c) = "write"
    <3> SUFFICES ASSUME c \in Starts(d), NEW q \in Rank, NEW i \in Own(d, c)
                 PROVE  out'[r][q * k + i] = Reduced(q * k + i, c)
      BY <2>1, <2>4, Frozen, Frame DEF Delivered
    <3>1. c \in 1..Len(program) /\ Packs(r) = program[c]
      BY <1>2, CallIs
    <3>2. /\ program[c] \in Nat /\ program[c] <= MaxPacks /\ program[c] = World * k
          /\ k \in Nat /\ MaxPacks \in Nat
      BY <1>2, <2>4, <3>1, CallFacts, ConstantsAssumption
    <3>3. ShardSummed(q, c, d)
      BY <1>1, <2>4, ShardsFound
    <3>4. obuf[r][q * k + i] = Reduced(q * k + i, c)
      BY <2>4, <3>3 DEF ShardSummed
    <3> HIDE DEF k
    <3>5. i \in 0..(k - 1)
      BY OwnFacts DEF k
    <3>6. q * k + i \in 0..(program[c] - 1)
      BY <3>2, <3>5, PlaceFits
    <3>7. q * k + i \in Pack /\ q * k + i < Packs(r)
      BY <3>1, <3>2, <3>6 DEF Pack
    <3> QED
      BY <1>3, <2>4, <3>4, <3>7
  <2> QED
    BY <2>2, <2>3, <2>4
<1>5. \A x, q \in Rank : Near(x, q)'
  BY <1>1, Frozen DEF DataInv, Near
<1>6. \A x \in Rank : InputThere(x)' /\ SumsKept(x)'
  BY <1>1, InputKept, SumsStay
<1>7. ASSUME NEW x \in Rank, NEW d \in Block PROVE InMode(x, d)' /\ SummedAt(x, d)'
  <2>1. InMode(x, d) /\ SummedAt(x, d) /\ UNCHANGED <<program, call, pc, left, tmp, obuf>>
    BY <1>1 DEF DataInv
  <2>2. InMode(x, d)'
    BY <2>1, Frozen DEF InMode
  <2>3. SummedAt(x, d)'
    BY <2>1, SumsStay, Frame DEF SummedAt
  <2> QED
    BY <2>2, <2>3
<1>8. \A x, q \in Rank, d \in Block : Scattered(x, q, d)'
  BY <1>1, ScatteredKept
<1>9. Layout'
  BY <1>1, <1>3 DEF DataInv, Layout
<1> QED
  BY <1>4, <1>5, <1>6, <1>7, <1>8, <1>9 DEF DataInv

\* A rank whose blocks are done has met its peers in its call.
LEMMA DoneIsMet ==
  ASSUME DataInv, Safe, NEW r \in Rank, call[r] > 0, \A d \in Block : pc[r][d] = "done",
         NEW q \in Rank
  PROVE  /\ call[q] >= call[r]
         /\ call[q] = call[r] /\ KernelOf(call[r]) # "onestage" =>
              \A d \in Block : pc[q][d] \in {"endwait", "gather", "done"}
<1> DEFINE c == call[r]
<1>1. Inv /\ Control /\ c \in 1..Len(program) /\ Packs(r) = program[c] /\ call[q] \in Nat
      /\ c \in Nat
  BY CallIs DEF DataInv, Inv
<1>2. Grid(program[c]) \in 1..MaxBlocks /\ MaxBlocks \in Nat
  BY <1>1, CallFacts, ConstantsAssumption
<1>3. 0 \in Block /\ 0 < Grid(Packs(r))
  BY <1>1, <1>2 DEF Block
<1>4. call[q] >= c
  <2>1. MetAt(r, q, 0) /\ pc[r][0] = "done"
    BY <1>1, <1>3 DEF Inv
  <2>2. ~BehindAt(r, q, 0, "start")
    BY <1>3, <2>1 DEF MetAt
  <2> QED
    BY <1>1, <2>2 DEF BehindAt
<1>5. ASSUME call[q] = c, KernelOf(c) # "onestage", NEW d \in Block
      PROVE  pc[q][d] \in {"endwait", "gather", "done"}
  <2>1. CASE d < Grid(program[c])
    <3>1. MetAt(r, q, d) /\ KernelOf(c) = Kernel(Packs(r))
      BY <1>1 DEF Inv, KernelOf
    <3>2. ~BehindAt(r, q, d, "end")
      BY <1>1, <1>5, <2>1, <3>1 DEF MetAt
    <3>3. pc[q][d] \in PcValues /\ pc[q][d] \notin {"start", "startwait", "reduce", "end"}
      BY <1>1, <1>5, <3>2 DEF BehindAt, Control
    <3> QED
      BY <3>3 DEF PcValues
  <2>2. CASE ~(d < Grid(program[c]))
    <3>1. call[q] \notin Starts(d) /\ Flagged(q, d)
      BY <1>1, <1>5, <2>2, CallIs DEF Inv
    <3> QED
      BY <3>1 DEF Flagged
  <2> QED
    BY <2>1, <2>2
<1> QED
  BY <1>4, <1>5

LEMMA LaunchKeeps ==
  ASSUME DataInv, Safe, Inv', NEW r \in Rank, Launch(r)
  PROVE  DataInv'
<1> DEFINE o == call[r]
           c == call[r] + 1
           n == program[c]
<1>1. /\ ~busy[r] /\ o < Len(program)
      /\ call' = [call EXCEPT ![r] = c] /\ busy' = [busy EXCEPT ![r] = TRUE]
      /\ pc' = [pc EXCEPT ![r] = [b \in Block |-> IF b < Grid(n) THEN "start" ELSE "done"]]
      /\ left' = [left EXCEPT ![r] = [b \in Block |->
                    IF Kernel(n) = "write" /\ b < Grid(n) THEN Rank ELSE {}]]
      /\ inbuf' = IF Kernel(n) = "write" THEN inbuf
                  ELSE [inbuf EXCEPT ![r] = [p \in Pack |-> IF p < n THEN c ELSE @[p]]]
      /\ UNCHANGED <<program, tmp, obuf, out>>
  BY DEF Launch
<1>2. Control /\ o \in Nat /\ c \in Nat /\ c \in 1..Len(program) /\ c - 1 = o
      /\ o < c /\ (\A d \in Block : pc[r][d] = "done")
      /\ \A q \in Rank : call[q] \in Nat
  <2>1. Control
    BY DEF DataInv, Inv
  <2>2. o \in Nat /\ Len(program) \in Nat /\ \A q \in Rank : call[q] \in Nat
    BY <2>1, CallIs
  <2>3. \A d \in Block : pc[r][d] = "done"
    BY <1>1, <2>1 DEF Control
  <2> QED
    BY <1>1, <2>1, <2>2, <2>3
<1>3. /\ n \in Nat /\ n <= MaxPacks /\ MaxPacks \in Nat /\ KernelOf(c) = Kernel(n)
      /\ o > 0 => o \in 1..Len(program) /\ (KernelOf(o) = "onestage" => KernelOf(c) = "write")
  <2>1. n \in Nat /\ n <= MaxPacks /\ MaxPacks \in Nat
    BY <1>2, CallFacts, ConstantsAssumption
  <2>2. ASSUME o > 0 PROVE o \in 1..Len(program) /\ (KernelOf(o) = "onestage" => KernelOf(c) = "write")
    <3>1. o \in 1..Len(program) /\ o < Len(program)
      BY <1>1, <1>2, <2>2, CallIs
    <3> QED
      BY <1>2, <3>1, CallFacts
  <2> QED
    BY <2>1, <2>2 DEF KernelOf
<1> HIDE DEF n, c, o
<1>4. /\ call'[r] = c /\ \A q \in Rank : q # r => call'[q] = call[q] /\ pc'[q] = pc[q] /\ left'[q] = left[q]
      /\ \A q \in Rank : q # r => busy'[q] = busy[q] /\ inbuf'[q] = inbuf[q]
      /\ \A d \in Block : pc'[r][d] = IF d < Grid(n) THEN "start" ELSE "done"
      /\ \A d \in Block : left'[r][d] = IF KernelOf(c) = "write" /\ d < Grid(n) THEN Rank ELSE {}
      /\ KernelOf(c) = "write" => inbuf' = inbuf
      /\ KernelOf(c) # "write" => \A p \in Pack : p < n => inbuf'[r][p] = c
  BY <1>1, <1>2, <1>3 DEF DataInv, Layout, Control
<1>5. Layout'
  <2>1. DOMAIN inbuf' = Rank
    BY <1>1 DEF DataInv, Layout
  <2>2. left' \in [Rank -> [Block -> SUBSET Rank]]
    BY <1>1 DEF DataInv, Layout
  <2> QED
    BY <1>1, <2>1, <2>2 DEF DataInv, Layout
<1>6. \A d \in Block : c \in Starts(d) => pc'[r][d] = "start"
  <2>1. \A d \in Block : c \in Starts(d) => d < Grid(n)
    BY DEF Starts, n
  <2> QED
    BY <1>4, <2>1
<1>7. ASSUME NEW x \in Rank, NEW y \in Rank PROVE Near(x, y)'
  <2>1. Near(x, y) /\ Near(x, r) /\ program' = program
    BY <1>1 DEF DataInv
  <2>2. CASE x # r /\ y # r
    BY <1>4, <2>1, <2>2, Frozen DEF Near
  <2>3. CASE y = r /\ x # r
    <3>1. call'[x] <= call'[y] /\ call'[x] \in Nat /\ call'[y] \in Nat
      BY <1>2, <1>4, <2>1, <2>3 DEF Near, c, o
    <3> QED
      BY <3>1 DEF Near
  <2>4. CASE x = r /\ y = r
    BY <1>2, <1>4, <2>4 DEF Near
  <2>5. CASE x = r /\ y # r
    <3>1. o > 0 => call[y] >= o
      BY <1>2, <2>5, DoneIsMet DEF o
    <3>2. o <= call[y] /\ c <= call[y] + 1
      BY <1>2, <3>1 DEF c, o
    <3>3. ASSUME call[y] > 0, c > call[y], KernelOf(call[y]) # "onestage", NEW d \in Block
          PROVE  pc[y][d] \in {"endwait", "gather", "done"}
      <4>1. call[y] = o /\ o > 0
        BY <1>2, <3>2, <3>3 DEF c, o
      <4> QED
        BY <1>2, <3>3, <4>1, DoneIsMet DEF o
    <3> QED
      BY <1>1, <1>4, <2>5, <3>2, <3>3, Frozen DEF Near
  <2> QED
    BY <2>2, <2>3, <2>4, <2>5
<1>8. ASSUME NEW x \in Rank PROVE InputThere(x)'
  <2>1. InputThere(x) /\ program' = program
    BY <1>1 DEF DataInv
  <2>2. CASE x # r
    BY <1>4, <2>1, <2>2, Frozen DEF InputThere
  <2>3. CASE x = r
    <3>1. ASSUME KernelOf(c) # "write", NEW p \in 0..(n - 1) PROVE inbuf'[r][p] = c
      <4>1. p \in Pack /\ p < n
        BY <1>3 DEF Pack
      <4> QED
        BY <1>4, <3>1, <4>1
    <3>2. ASSUME c > 1, KernelOf(o) = "onestage", NEW p \in 0..(program[o] - 1)
          PROVE  inbuf'[r][p] = o
      <4>1. o > 0
        BY <1>2, <3>2
      <4>2. inbuf' = inbuf
        BY <1>3, <1>4, <3>2, <4>1
      <4> QED
        BY <2>1, <2>3, <3>2, <4>1, <4>2 DEF InputThere, o
    <3> QED
      BY <1>2, <1>4, <2>1, <2>3, <3>1, <3>2, Frozen DEF InputThere, n
  <2> QED
    BY <2>2, <2>3
<1>9. ASSUME NEW x \in Rank PROVE SumsKept(x)'
  <2>1. SumsKept(x) /\ Near(x, r) /\ UNCHANGED <<program, tmp, obuf>>
    BY <1>1 DEF DataInv
  <2>2. \A y, e, d : ShardSummed(y, e, d)' = ShardSummed(y, e, d)
    BY <2>1, Frozen DEF ShardSummed
  <2>3. CASE x # r
    <3>1. Trails(x)' => Trails(x)
      <4> SUFFICES ASSUME call[x] > 1, NEW q \in Rank, call'[q] = call[x] - 1 PROVE Trails(x)
        BY <1>4, <2>3 DEF Trails
      <4>1. q # r
        BY <1>2, <1>4, <2>1 DEF Near, c, o
      <4>2. call[q] = call[x] - 1
        BY <1>4, <4>1
      <4> QED
        BY <4>2 DEF Trails
    <3> QED
      BY <1>4, <2>1, <2>2, <2>3, <3>1, Frame DEF SumsKept
  <2>4. CASE x = r
    <3>1. ASSUME NEW d \in Block, o \in Starts(d) PROVE ShardSummed(r, o, d)
      <4>1. SummedAt(r, d) /\ pc[r][d] = "done"
        BY <1>2 DEF DataInv
      <4> QED
        BY <3>1, <4>1 DEF SummedAt, o
    <3> QED
      BY <1>2, <1>4, <2>1, <2>2, <2>4, <3>1, Frame DEF SumsKept
  <2> QED
    BY <2>3, <2>4
<1>10. ASSUME NEW x \in Rank, NEW d \in Block PROVE InMode(x, d)' /\ SummedAt(x, d)' /\ Delivered(x, d)'
  <2>1. InMode(x, d) /\ SummedAt(x, d) /\ Delivered(x, d) /\ UNCHANGED <<program, tmp, obuf, out>>
    BY <1>1 DEF DataInv
  <2>2. CASE x = r
    <3>1. InMode(r, d)'
      BY <1>2, <1>4, <2>1, Frozen DEF InMode
    <3>2. SummedAt(r, d)' /\ Delivered(r, d)'
      BY <1>4, <1>6, <2>1, Frame DEF SummedAt, Delivered
    <3> QED
      BY <2>2, <3>1, <3>2
  <2>3. CASE x # r
    <3>1. InMode(x, d)'
      BY <1>4, <2>1, <2>3, Frozen DEF InMode
    <3>2. SummedAt(x, d)'
      BY <1>4, <2>1, <2>3, Frozen, Frame DEF SummedAt, ShardSummed
    <3>3. Delivered(x, d)'
      BY <1>4, <2>1, <2>3, Frozen, Frame DEF Delivered
    <3> QED
      BY <3>1, <3>2, <3>3
  <2> QED
    BY <2>2, <2>3
<1>11. ASSUME NEW x \in Rank, NEW q \in Rank, NEW d \in Block PROVE Scattered(x, q, d)'
  <2>1. Scattered(x, q, d) /\ UNCHANGED <<program, tmp>>
    BY <1>1 DEF DataInv
  <2>2. CASE x = r
    <3>1. c \in Starts(d) /\ KernelOf(c) = "write" => left'[r][d] = Rank
      <4>1. c \in Starts(d) => d < Grid(n)
        BY DEF Starts, n
      <4> QED
        BY <1>4, <4>1
    <3> QED
      BY <1>4, <2>1, <2>2, <3>1, Frozen, Frame DEF Scattered
  <2>3. CASE x # r
    <3>1. (\A y \in Rank : call'[y] <= call[x]) => \A y \in Rank : call[y] <= call[x]
      <4>1. \A y \in Rank : call[y] <= call'[y] /\ call'[y] \in Nat
        BY <1>2, <1>4 DEF o
      <4> QED
        BY <1>2, <4>1
    <3> QED
      BY <1>4, <2>1, <2>3, <3>1, Frozen, Frame DEF Scattered
  <2> QED
    BY <2>2, <2>3
<1> QED
  BY <1>5, <1>7, <1>8, <1>9, <1>10, <1>11 DEF DataInv

LEMMA DataInit == Init => DataInv
<1> SUFFICES ASSUME Init PROVE DataInv
  OBVIOUS
<1>1. Inv
  BY InitHolds
<1>2. \A r \in Rank : call[r] = 0 /\ \A b \in Block : pc[r][b] = "done" /\ left[r][b] = {}
  BY DEF Init
<1>3. Layout
  BY DEF Init, Layout
<1>4. \A b : 0 \notin Starts(b)
  <2>1. DOMAIN program = 1..Len(program)
    BY <1>1, ProgramFacts DEF Inv
  <2> QED
    BY <2>1 DEF Starts
<1>5. ASSUME NEW r \in Rank, NEW q \in Rank PROVE Near(r, q) /\ InputThere(r) /\ SumsKept(r)
  BY <1>2 DEF Near, InputThere, SumsKept, Trails
<1>6. ASSUME NEW r \in Rank, NEW q \in Rank, NEW b \in Block
      PROVE  InMode(r, b) /\ SummedAt(r, b) /\ Delivered(r, b) /\ Scattered(r, q, b)
  BY <1>2, <1>4 DEF InMode, SummedAt, Delivered, Scattered
<1> QED
  BY <1>1, <1>3, <1>5, <1>6 DEF DataInv

LEMMA DataNext == ASSUME NoWrap, Safe PROVE DataInv /\ [Next]_vars => DataInv'
<1> SUFFICES ASSUME DataInv, [Next]_vars PROVE DataInv'
  OBVIOUS
<1>1. Inv'
  BY InvNext DEF DataInv
<1>2. CASE UNCHANGED vars
  <2>1. UNCHANGED <<program, call, busy, pc, left, inbuf, tmp, obuf, out>>
    BY <1>2 DEF vars, buffers
  <2>2. Layout' /\ \A r, q \in Rank : Near(r, q)'
    BY <2>1, Frozen DEF DataInv, Layout, Near
  <2>3. \A r \in Rank : InputThere(r)' /\ SumsKept(r)'
    BY <2>1, InputKept, SumsStay
  <2>4. ASSUME NEW r \in Rank, NEW b \in Block PROVE InMode(r, b)' /\ SummedAt(r, b)' /\ Delivered(r, b)'
    <3>1. InMode(r, b) /\ SummedAt(r, b) /\ Delivered(r, b)
      BY DEF DataInv
    <3>2. InMode(r, b)' /\ Delivered(r, b)'
      BY <2>1, <3>1, Frozen, Frame DEF InMode, Delivered
    <3>3. SummedAt(r, b)'
      BY <2>1, <3>1, SumsStay, Frame DEF SummedAt
    <3> QED
      BY <3>2, <3>3
  <2>5. \A r, q \in Rank, b \in Block : Scattered(r, q, b)'
    BY <2>1, ScatteredKept
  <2> QED
    BY <1>1, <2>2, <2>3, <2>4, <2>5 DEF DataInv
<1>3. ASSUME NEW r \in Rank, Launch(r) \/ Return(r) PROVE DataInv'
  BY <1>1, <1>3, LaunchKeeps, ReturnKeeps
<1>4. ASSUME NEW r \in Rank, NEW b \in Block, BlockStep(r, b) PROVE DataInv'
  BY <1>1, <1>4, SyncKeeps, ReduceAllKeeps, ReduceShardKeeps, GatherKeeps, ScatterKeeps,
     ReduceAndWriteKeeps DEF BlockStep
<1> QED
  BY <1>2, <1>3, <1>4 DEF Next

\* What a rank returns with is the sum.
LEMMA SumReturned == ASSUME Safe PROVE DataInv => AllReduced
<1> SUFFICES ASSUME DataInv, NEW r \in Rank, ~busy[r], call[r] > 0, NEW p \in 0..(Packs(r) - 1)
             PROVE  out[r][p] = Reduced(p, call[r])
  BY DEF AllReduced
<1> DEFINE c == call[r]
           g == Grid(program[c])
           k == Share(c)
<1>1. Control /\ c \in 1..Len(program) /\ Packs(r) = program[c]
      /\ \A b : c \in Starts(b) <=> b < g
  BY CallIs DEF DataInv, Inv
<1>2. \A b \in Block : pc[r][b] = "done"
  BY <1>1 DEF Control
<1>3. /\ program[c] \in Nat \ {0} /\ g \in 1..MaxBlocks /\ k \in Nat /\ MaxBlocks \in Nat
      /\ KernelOf(c) \in {"onestage", "twostage", "write"}
      /\ KernelOf(c) # "onestage" => program[c] = World * k
  BY <1>1, CallFacts, ConstantsAssumption
<1>4. \A b \in 0..(g - 1) : b \in Block /\ b < g
  BY <1>3 DEF Block
<1>5. CASE KernelOf(c) = "onestage"
  <2>1. p \in 0..(program[c] - 1) /\ g \in Nat \ {0} /\ program[c] \in Nat
    BY <1>1, <1>3
  <2>2. PICK b \in 0..(g - 1) : p \in Visits(b, g, Lanes, program[c])
    BY <2>1, Divided
  <2>3. b \in Block /\ c \in Starts(b) /\ p \in Whole(b, c) /\ Delivered(r, b)
    BY <1>1, <1>4, <2>2 DEF Whole, DataInv
  <2> QED
    BY <1>2, <1>5, <2>3 DEF Delivered
<1>6. CASE KernelOf(c) # "onestage"
  <2>1. p \in 0..(World * k - 1) /\ k \in Nat /\ g \in Nat \ {0}
    BY <1>1, <1>3, <1>6
  <2>2. PICK q \in Rank, i \in 0..(k - 1) : p = q * k + i
    BY <2>1, PlaceIs
  <2>3. PICK b \in 0..(g - 1) : i \in Visits(b, g, Lanes, k)
    BY <2>1, Divided
  <2>4. b \in Block /\ c \in Starts(b) /\ i \in Own(b, c) /\ Delivered(r, b)
    BY <1>1, <1>4, <2>3 DEF Own, DataInv
  <2>5. out[r][q * k + i] = Reduced(q * k + i, c)
    BY <1>2, <1>3, <1>6, <2>4 DEF Delivered
  <2> QED
    BY <2>2, <2>5
<1> QED
  BY <1>5, <1>6
-----------------------------------------------------------------------------
(* The collective.                                                         *)

Through == [r \in Rank |-> IF busy[r] THEN call[r] - 1 ELSE call[r]]
Results == [r \in Rank |-> Result(r)]

\* A rank that is busy is in a call.
InACall == \A r \in Rank : busy[r] => call[r] > 0

LEMMA InACallNext == ASSUME Control, InACall, [Next]_vars PROVE InACall'
<1>1. ASSUME NEW r \in Rank, Launch(r) PROVE InACall'
  <2>1. /\ call' = [call EXCEPT ![r] = call[r] + 1] /\ busy' = [busy EXCEPT ![r] = TRUE]
        /\ call \in [Rank -> Nat] /\ busy \in [Rank -> BOOLEAN]
    BY <1>1 DEF Launch, Control
  <2> QED
    BY <2>1 DEF InACall
<1>2. ASSUME NEW r \in Rank, Return(r) PROVE InACall'
  <2>1. call' = call /\ busy' = [busy EXCEPT ![r] = FALSE] /\ busy \in [Rank -> BOOLEAN]
    BY <1>2 DEF Return, Control
  <2> QED
    BY <2>1 DEF InACall
<1>3. ASSUME NEW r \in Rank, NEW b \in Block, BlockStep(r, b) PROVE InACall'
  <2>1. UNCHANGED <<call, busy>>
    BY <1>3 DEF BlockStep, Signal, Await, ReduceAll, ReduceShard, Gather, Scatter, ReduceAndWrite
  <2> QED
    BY <2>1 DEF InACall
<1>4. CASE UNCHANGED vars
  BY <1>4 DEF vars, InACall
<1> QED
  BY <1>1, <1>2, <1>3, <1>4 DEF Next

\* A launch enters the call.
LEMMA LaunchEnters ==
  ASSUME Control, NEW r \in Rank, Launch(r)
  PROVE  Abstract!Enter(r)
<1>1. /\ ~busy[r] /\ call[r] < Len(program) /\ call' = [call EXCEPT ![r] = call[r] + 1]
      /\ busy' = [busy EXCEPT ![r] = TRUE]
      /\ UNCHANGED <<program, out>>
  BY DEF Launch
<1>2. /\ busy'[r] /\ call'[r] = call[r] + 1 /\ call[r] \in Nat
      /\ \A q \in Rank : q # r => call'[q] = call[q] /\ busy'[q] = busy[q]
  BY <1>1 DEF Control
<1>3. Through[r] = call[r] /\ Through' = Through
  BY <1>1, <1>2 DEF Through
<1>4. Results' = [Results EXCEPT ![r] = <<>>]
  <2>1. Result(r)' = <<>>
    BY <1>2 DEF Result
  <2>2. ASSUME NEW q \in Rank, q # r PROVE Result(q)' = Result(q)
    BY <1>1, <1>2, <2>2 DEF Result, Packs
  <2> QED
    BY <2>1, <2>2 DEF Results
<1> QED
  BY <1>1, <1>3, <1>4 DEF Abstract!Enter, Through, Results

\* The end of the kernel returns from it.
LEMMA ReturnReturns ==
  ASSUME DataInv, Safe, InACall, AllReduced', NEW r \in Rank, Return(r)
  PROVE  Abstract!Return(r)
<1>1. /\ busy[r] /\ busy' = [busy EXCEPT ![r] = FALSE] /\ \A d \in Block : pc[r][d] = "done"
      /\ UNCHANGED <<program, call>>
      /\ out' = IF Kernel(Packs(r)) = "write"
                THEN [out EXCEPT ![r] = [p \in Pack |-> IF p < Packs(r) THEN obuf[r][p] ELSE @[p]]]
                ELSE out
  BY DEF Return
<1>2. Control /\ call[r] > 0 /\ call[r] \in Nat /\ call[r] \in 1..Len(program)
      /\ Packs(r) = program[call[r]] /\ program[call[r]] \in Nat
  <2>1. Control /\ call[r] > 0
    BY <1>1 DEF DataInv, Inv, InACall
  <2>2. call[r] \in 1..Len(program) /\ call[r] \in Nat /\ Packs(r) = program[call[r]]
    BY <2>1, CallIs
  <2> QED
    BY <2>1, <2>2, CallFacts
<1>3. /\ ~busy'[r] /\ \A q \in Rank : q # r => busy'[q] = busy[q]
      /\ \A q \in Rank : q # r => out'[q] = out[q]
  BY <1>1, <1>2 DEF Control, DataInv, Layout
<1>4. Through[r] < call[r] /\ Through' = [Through EXCEPT ![r] = call[r]]
  <2>1. Through[r] = call[r] - 1
    BY <1>1 DEF Through
  <2>2. Through'[r] = call[r] /\ \A q \in Rank : q # r => Through'[q] = Through[q]
    BY <1>1, <1>3 DEF Through
  <2>3. Through = [q \in Rank |-> Through[q]] /\ Through' = [q \in Rank |-> Through'[q]]
    BY DEF Through
  <2> HIDE DEF Through
  <2> QED
    BY <1>2, <2>1, <2>2, <2>3
<1>5. \A q \in Rank : call[q] >= call[r]
  BY <1>1, <1>2, DoneIsMet
<1>6. Abstract!Sum(call[r]) = [i \in 1..Packs(r) |-> {<<q, i - 1, call[r]>> : q \in Rank}]
  BY <1>2 DEF Abstract!Sum, Abstract!Rank, Rank
<1>7. Result(r)' = Abstract!Sum(call[r])
  <2>1. Packs(r)' = Packs(r) /\ call'[r] = call[r]
    BY <1>1 DEF Packs
  <2>2. ASSUME NEW i \in 1..Packs(r)
        PROVE  out'[r][i - 1] = {<<q, i - 1, call[r]>> : q \in Rank}
    <3>1. i - 1 \in 0..(Packs(r) - 1)
      BY <1>2
    <3>2. out'[r][i - 1] = Reduced(i - 1, call[r])
      BY <1>2, <1>3, <2>1, <3>1 DEF AllReduced
    <3> QED
      BY <3>2 DEF Reduced
  <2>3. Result(r)' = [i \in 1..Packs(r) |-> out'[r][i - 1]]
    BY <1>2, <1>3, <2>1 DEF Result
  <2> QED
    BY <1>6, <2>2, <2>3
<1>8. Results' = [Results EXCEPT ![r] = Abstract!Sum(call[r])]
  <2>1. ASSUME NEW q \in Rank, q # r PROVE Result(q)' = Result(q)
    BY <1>1, <1>3, <2>1 DEF Result, Packs
  <2> QED
    BY <1>7, <2>1 DEF Results
<1> QED
  BY <1>1, <1>4, <1>5, <1>8 DEF Abstract!Return, Through, Results, Abstract!Rank, Rank

\* In between nothing happens to it.
LEMMA BlocksStutter ==
  ASSUME DataInv, NEW r \in Rank, NEW b \in Block, BlockStep(r, b)
  PROVE  UNCHANGED Abstract!vars
<1>1. UNCHANGED <<program, call, busy>>
  BY DEF BlockStep, Signal, Await, ReduceAll, ReduceShard, Gather, Scatter, ReduceAndWrite
<1>2. CASE out' = out
  <2>1. \A q \in Rank : Result(q)' = Result(q)
    BY <1>1, <1>2 DEF Result, Packs
  <2>2. Through' = Through /\ Results' = Results
    BY <1>1, <2>1 DEF Through, Results
  <2> QED
    BY <1>1, <2>2 DEF Abstract!vars, Through, Results
<1>3. CASE ReduceAll(r, b) \/ Gather(r, b)
  <2>1. pc[r][b] # "done" /\ \A q \in Rank : q # r => out'[q] = out[q]
    BY <1>3 DEF ReduceAll, Gather, Goto, DataInv, Layout
  <2>2. busy[r]
    BY <2>1, FlagIs DEF DataInv
  <2>3. \A q \in Rank : Result(q)' = Result(q)
    BY <1>1, <2>1, <2>2 DEF Result, Packs
  <2>4. Through' = Through /\ Results' = Results
    BY <1>1, <2>3 DEF Through, Results
  <2> QED
    BY <1>1, <2>4 DEF Abstract!vars, Through, Results
<1>4. out' = out \/ ReduceAll(r, b) \/ Gather(r, b)
  BY DEF BlockStep, Signal, Await, ReduceShard, Scatter, ReduceAndWrite, buffers
<1> QED
  BY <1>2, <1>3, <1>4

LEMMA DataInvariance ==
  ASSUME NoWrap, Safe PROVE Spec => [](DataInv /\ InACall /\ AllReduced)
<1>1. Init => DataInv /\ InACall
  BY DataInit DEF Init, InACall
<1>2. DataInv /\ InACall /\ [Next]_vars => DataInv' /\ InACall'
  <2>1. DataInv => Control
    BY DEF DataInv, Inv
  <2> QED
    BY <2>1, DataNext, InACallNext
<1>3. DataInv => AllReduced
  BY SumReturned
<1> QED
  BY <1>1, <1>2, <1>3, PTL DEF Spec

\* If no signal word runs over and each call finds its buffers free, a call returns
\* on every rank with the sum of what the ranks passed to it.
THEOREM SumsReturned == ASSUME NoWrap, Safe PROVE Spec => []AllReduced
BY DataInvariance, PTL

\* The three kernels, in every such mix, implement the collective: a call returns
\* when all ranks have entered it, with its sum and no other call's.
THEOREM CollectiveImplemented == ASSUME NoWrap, Safe PROVE Spec => CollectiveSpec
<1>1. Init => Abstract!Init
  <2> SUFFICES ASSUME Init PROVE Abstract!Init
    OBVIOUS
  <2>1. /\ program \in Programs
        /\ \A r \in Rank : call[r] = 0 /\ ~busy[r] /\ Result(r) = <<>>
        /\ call = [r \in Rank |-> 0]
    BY DEF Init, Result
  <2>2. Through = [r \in Rank |-> 0] /\ Results = [r \in Rank |-> <<>>]
    BY <2>1 DEF Through, Results
  <2> QED
    BY <2>1, <2>2 DEF Abstract!Init, Abstract!Rank, Rank, Through, Results
<1>2. DataInv /\ InACall /\ AllReduced' /\ [Next]_vars => [Abstract!Next]_(Abstract!vars)
  <2> SUFFICES ASSUME DataInv, InACall, AllReduced', [Next]_vars
               PROVE  [Abstract!Next]_(Abstract!vars)
    OBVIOUS
  <2>1. CASE UNCHANGED vars
    <3>1. \A q \in Rank : Result(q)' = Result(q)
      BY <2>1 DEF vars, buffers, Result, Packs
    <3>2. Through' = Through /\ Results' = Results
      BY <2>1, <3>1 DEF vars, Through, Results
    <3> QED
      BY <2>1, <3>2 DEF vars, Abstract!vars, Through, Results
  <2>2. ASSUME NEW r \in Rank, Launch(r) PROVE Abstract!Next
    <3>1. Control
      BY DEF DataInv, Inv
    <3> QED
      BY <2>2, <3>1, LaunchEnters DEF Abstract!Next, Abstract!Rank, Rank
  <2>3. ASSUME NEW r \in Rank, Return(r) PROVE Abstract!Next
    BY <2>3, ReturnReturns DEF Abstract!Next, Abstract!Rank, Rank
  <2> QED
    BY <2>1, <2>2, <2>3, BlocksStutter DEF Next
<1> QED
  BY <1>1, <1>2, DataInvariance, PTL DEF Spec, CollectiveSpec, Abstract!Spec
=============================================================================
