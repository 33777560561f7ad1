------------------------ MODULE GraphCapture_proofs -------------------------
(***************************************************************************)
(* Aligned and OwnEntries for any number of ranks, and any captures and    *)
(* addresses.                                                              *)
(***************************************************************************)
EXTENDS GraphCapture, FiniteSetTheorems, TLAPS

\* The members of a set of numbers up to one of them.
Count(S, n) == Cardinality(S \cap 1..n)

\* The calls of a capture that are the first on their tensor, and the captures
\* that have any.
Firsts(c)   == {i \in DOMAIN program[c] : \A j \in 1..(i - 1) : program[c][j] # program[c][i]}
Registering == {c \in DOMAIN program : program[c] # <<>>}

\* Where a rank has the tensor of a call.
AddressOf(r, c, i) == address[r][c][program[c][i]]

\* A list a rank has posted is that of one of its captures: an address for every
\* tensor, in the order of their first calls.
PostedFor(r, e, c) ==
  /\ Count(Registering, c) = e
  /\ Len(posted[r][e]) = Count(Firsts(c), Len(program[c]))
  /\ \A k \in DOMAIN posted[r][e] : \E i \in Firsts(c) :
       Count(Firsts(c), i) = k /\ posted[r][e][k] = AddressOf(r, c, i)
Posted(r) == \A e \in DOMAIN posted[r] : \E c \in Registering : PostedFor(r, e, c)

\* It has posted one for every capture that has calls.
Numbered(r) ==
  Len(posted[r]) = Count(Registering, IF pc[r] = "capturing" THEN capture[r] - 1 ELSE capture[r])

\* Its entries are those of the tensors it has recorded calls on.
Entries(r) ==
  LET c == capture[r] IN
  IF pc[r] = "idle" THEN unreg[r] = <<>>
  ELSE /\ Len(unreg[r]) = Count(Firsts(c), recorded[r])
       /\ \A k \in DOMAIN unreg[r] : \E i \in Firsts(c) :
            /\ i <= recorded[r] /\ Count(Firsts(c), i) = k
            /\ unreg[r][k][1] = AddressOf(r, c, i) /\ unreg[r][k][2] = graph[r][c][i]

\* Calls that share a table are of one capture and tensor.
Shared(r) ==
  \A c, d \in 1..Len(program) : \A i \in DOMAIN graph[r][c], j \in DOMAIN graph[r][d] :
    graph[r][c][i] = graph[r][d][j] => c = d /\ program[c][i] = program[d][j]

\* The dedup cache has the tables of the calls recorded so far.
Cached(r) ==
  LET c == capture[r] IN
  pc[r] = "capturing" =>
    /\ DOMAIN ptrs[r] = {AddressOf(r, c, i) : i \in 1..recorded[r]}
    /\ \A i \in 1..recorded[r] : ptrs[r][AddressOf(r, c, i)] = graph[r][c][i]

\* A filled table has the addresses of the tensor of its calls.
Filled(r) ==
  \A c \in 1..Len(program) : \A i \in DOMAIN graph[r][c] :
    LET t == table[r][graph[r][c][i]] IN
    t # <<>> => \A q \in Rank : t[q] = AddressOf(q, c, i)

Sound(r) == Posted(r) /\ Numbered(r) /\ Entries(r) /\ Shared(r) /\ Cached(r) /\ Filled(r)

\* What a rank has recorded is a part of its program.
RecordedIs(r) ==
  /\ recorded[r] \in Nat /\ capture[r] \in 0..Len(program)
  /\ pc[r] # "idle" =>
       /\ capture[r] > 0 /\ recorded[r] <= Len(program[capture[r]])
       /\ Len(graph[r][capture[r]]) = recorded[r]
  /\ \A c \in 1..Len(program) :
       /\ c > capture[r] => graph[r][c] = <<>>
       /\ Len(graph[r][c]) <= Len(program[c])
       /\ \A i \in DOMAIN graph[r][c] : graph[r][c][i] \in DOMAIN table[r]

\* The exchange of a rank that is through with one has every rank's list.
InExchange(r) ==
  pc[r] \in {"exchange", "fill"} =>
    /\ Len(posted[r]) > 0 /\ recorded[r] = Len(program[capture[r]])
    /\ pc[r] = "fill" => entry[r] > 0 /\ \A q \in Rank : Len(posted[q]) >= Len(posted[r])

Shape ==
  /\ program \in Programs
  /\ address \in [Rank -> [1..Len(program) -> {f \in [Tensor -> Address] : Injective(f)}]]
  /\ pc \in [Rank -> {"idle", "capturing", "exchange", "fill"}]
  /\ capture \in [Rank -> Nat] /\ recorded \in [Rank -> Nat] /\ entry \in [Rank -> Nat]
  /\ unreg \in [Rank -> Seq(Address \X Nat)]
  /\ DOMAIN ptrs = Rank
  /\ table \in [Rank -> Seq({<<>>} \cup [Rank -> Address])]
  /\ graph \in [Rank -> [1..Len(program) -> Seq(Nat)]]
  /\ posted \in [Rank -> Seq(Seq(Address) \ {<<>>})]
  /\ faults \in Nat

\* Its entries and its dedup cache name tables that exist.
Tabled(r) ==
  /\ \A i \in DOMAIN unreg[r] : unreg[r][i][2] \in DOMAIN table[r]
  /\ \A a \in DOMAIN ptrs[r] : a \in Address /\ ptrs[r][a] \in DOMAIN table[r]

Inv ==
  /\ Shape
  /\ \A r \in Rank : RecordedIs(r) /\ InExchange(r) /\ Tabled(r)
  /\ faults = 0 => \A r \in Rank : Sound(r)
-----------------------------------------------------------------------------
(* Counting.                                                               *)

LEMMA Finite == ASSUME NEW S, NEW n \in Nat PROVE IsFiniteSet(S \cap 1..n)
<1>1. IsFiniteSet(1..n)
  BY FS_Interval
<1> QED
  BY <1>1, FS_Subset

LEMMA Counts ==
  ASSUME NEW S, NEW n \in Nat
  PROVE  /\ Count(S, n) \in Nat /\ Count(S, 0) = 0
         /\ n + 1 \in S => Count(S, n + 1) = Count(S, n) + 1
         /\ n + 1 \notin S => Count(S, n + 1) = Count(S, n)
<1>1. Count(S, n) \in Nat
  BY Finite, FS_CardinalityType DEF Count
<1>2. Count(S, 0) = 0
  <2>1. S \cap 1..0 = {}
    OBVIOUS
  <2> QED
    BY <2>1, FS_EmptySet DEF Count
<1>3. ASSUME n + 1 \in S PROVE Count(S, n + 1) = Count(S, n) + 1
  <2>1. S \cap 1..(n + 1) = (S \cap 1..n) \cup {n + 1} /\ n + 1 \notin S \cap 1..n
    BY <1>3
  <2> QED
    BY <2>1, Finite, FS_AddElement DEF Count
<1>4. ASSUME n + 1 \notin S PROVE Count(S, n + 1) = Count(S, n)
  <2>1. S \cap 1..(n + 1) = S \cap 1..n
    BY <1>4
  <2> QED
    BY <2>1 DEF Count
<1> QED
  BY <1>1, <1>2, <1>3, <1>4

\* A member is told from the others by its count.
LEMMA CountOf ==
  ASSUME NEW S, NEW i \in Nat \ {0}, NEW j \in Nat \ {0}, i \in S, j \in S,
         Count(S, i) = Count(S, j)
  PROVE  i = j
<1>1. ASSUME NEW m \in Nat \ {0}, NEW n \in Nat \ {0}, n \in S, m < n
      PROVE  Count(S, m) # Count(S, n)
  <2>1. S \cap 1..m \subseteq S \cap 1..n /\ S \cap 1..m # S \cap 1..n
    <3>1. n \in S \cap 1..n /\ n \notin S \cap 1..m /\ 1..m \subseteq 1..n
      BY <1>1
    <3> QED
      BY <3>1
  <2> QED
    BY <2>1, Finite, FS_Subset DEF Count
<1> QED
  BY <1>1
-----------------------------------------------------------------------------
(* Programs and addresses.                                                 *)

LEMMA ProgramFacts ==
  ASSUME Shape
  PROVE  /\ program \in Seq(Seq(Tensor)) /\ Len(program) \in Nat
         /\ DOMAIN program = 1..Len(program)
         /\ \A c \in 1..Len(program) :
              /\ program[c] \in Seq(Tensor) /\ Len(program[c]) \in Nat
              /\ DOMAIN program[c] = 1..Len(program[c])
              /\ \A i \in 1..Len(program[c]) : program[c][i] \in Tensor
<1>1. program \in Seq(Seq(Tensor))
  BY ConstantsAssumption DEF Shape
<1> QED
  BY <1>1

LEMMA Addresses ==
  ASSUME Shape, NEW r \in Rank, NEW c \in 1..Len(program), NEW i \in 1..Len(program[c])
  PROVE  /\ AddressOf(r, c, i) \in Address
         /\ \A j \in 1..Len(program[c]) :
              AddressOf(r, c, i) = AddressOf(r, c, j) => program[c][i] = program[c][j]
<1>1. address[r][c] \in [Tensor -> Address] /\ Injective(address[r][c])
  <2>1. address[r] \in [1..Len(program) -> {f \in [Tensor -> Address] : Injective(f)}]
    BY DEF Shape
  <2>2. address[r][c] \in {f \in [Tensor -> Address] : Injective(f)}
    BY <2>1
  <2> QED
    BY <2>2
<1>2. program[c][i] \in Tensor /\ \A j \in 1..Len(program[c]) : program[c][j] \in Tensor
  BY ProgramFacts
<1>3. \A t, u \in Tensor : address[r][c][t] = address[r][c][u] => t = u
  BY <1>1 DEF Injective
<1> QED
  BY <1>1, <1>2, <1>3 DEF AddressOf

\* A first call, and the call recorded next.
LEMMA FirstFacts ==
  ASSUME Shape, NEW c \in 1..Len(program)
  PROVE  /\ Firsts(c) \subseteq 1..Len(program[c]) /\ Firsts(c) \subseteq Nat \ {0}
         /\ Len(program[c]) > 0 => 1 \in Firsts(c)
         /\ Registering \subseteq 1..Len(program) /\ Registering \subseteq Nat \ {0}
         /\ c \in Registering <=> Len(program[c]) > 0
<1>1. /\ DOMAIN program[c] = 1..Len(program[c]) /\ Len(program[c]) \in Nat
      /\ DOMAIN program = 1..Len(program) /\ Len(program) \in Nat
      /\ program[c] \in Seq(Tensor)
  BY ProgramFacts
<1>2. program[c] = <<>> <=> Len(program[c]) = 0
  BY <1>1
<1>3. 1 - 1 = 0 /\ 1..0 = {}
  OBVIOUS
<1>4. Len(program[c]) > 0 => 1 \in Firsts(c)
  BY <1>1, <1>3 DEF Firsts
<1> QED
  BY <1>1, <1>2, <1>4 DEF Firsts, Registering

LEMMA FirstIs ==
  ASSUME Shape, NEW c \in 1..Len(program), NEW n \in Nat, n + 1 \in 1..Len(program[c])
  PROVE  n + 1 \in Firsts(c) <=> \A j \in 1..n : program[c][j] # program[c][n + 1]
<1> DEFINE i == n + 1
<1>1. i \in DOMAIN program[c] /\ 1..(i - 1) = 1..n
  BY ProgramFacts
<1> HIDE DEF i
<1>2. i \in Firsts(c) <=> \A j \in 1..n : program[c][j] # program[c][i]
  BY <1>1 DEF Firsts
<1> QED
  BY <1>2 DEF i

\* As long as program and addresses stay, so do the numbers of a call.
LEMMA Frame ==
  ASSUME UNCHANGED caller
  PROVE  /\ program' = program /\ address' = address /\ Registering' = Registering
         /\ \A c : Firsts(c)' = Firsts(c)
         /\ \A r, c, i : AddressOf(r, c, i)' = AddressOf(r, c, i)
BY DEF caller, Registering, Firsts, AddressOf
\* What a rank has, by itself.
LEMMA ShapeOf ==
  ASSUME Shape, NEW r \in Rank
  PROVE  /\ posted[r] \in Seq(Seq(Address) \ {<<>>}) /\ Len(posted[r]) \in Nat
         /\ unreg[r] \in Seq(Address \X Nat) /\ Len(unreg[r]) \in Nat
         /\ table[r] \in Seq({<<>>} \cup [Rank -> Address]) /\ Len(table[r]) \in Nat
         /\ \A c \in 1..Len(program) : graph[r][c] \in Seq(Nat) /\ Len(graph[r][c]) \in Nat
<1>1. /\ posted[r] \in Seq(Seq(Address) \ {<<>>}) /\ unreg[r] \in Seq(Address \X Nat)
      /\ table[r] \in Seq({<<>>} \cup [Rank -> Address])
      /\ graph[r] \in [1..Len(program) -> Seq(Nat)]
  BY DEF Shape
<1>2. \A c \in 1..Len(program) : graph[r][c] \in Seq(Nat)
  BY <1>1
<1>3. \A c \in 1..Len(program) : Len(graph[r][c]) \in Nat
  BY <1>2
<1>4. Len(posted[r]) \in Nat /\ Len(unreg[r]) \in Nat
  BY <1>1
<1>5. Len(table[r]) \in Nat
  BY <1>1
<1> QED
  BY <1>1, <1>2, <1>3, <1>4, <1>5
-----------------------------------------------------------------------------
(* A step moves one rank.                                                  *)

Still(q) ==
  /\ pc'[q] = pc[q] /\ capture'[q] = capture[q] /\ recorded'[q] = recorded[q]
  /\ unreg'[q] = unreg[q] /\ ptrs'[q] = ptrs[q] /\ table'[q] = table[q]
  /\ graph'[q] = graph[q] /\ posted'[q] = posted[q] /\ entry'[q] = entry[q]

LEMMA StillKeeps ==
  ASSUME UNCHANGED caller, NEW q \in Rank, Still(q)
  PROVE  /\ RecordedIs(q) => RecordedIs(q)'
         /\ Tabled(q) => Tabled(q)'
         /\ Sound(q) => Sound(q)'
<1>1. RecordedIs(q) => RecordedIs(q)'
  BY DEF Still, RecordedIs, caller
<1>2. Tabled(q) => Tabled(q)'
  BY DEF Still, Tabled
<1>3. Posted(q) => Posted(q)'
  BY Frame DEF Still, Posted, PostedFor
<1>4. Numbered(q) => Numbered(q)'
  BY Frame DEF Still, Numbered
<1>5. Entries(q) => Entries(q)'
  BY Frame DEF Still, Entries
<1>6. Shared(q) => Shared(q)'
  BY Frame DEF Still, Shared
<1>7. Cached(q) => Cached(q)'
  BY Frame DEF Still, Cached
<1>8. Filled(q) => Filled(q)'
  BY Frame DEF Still, Filled
<1> QED
  BY <1>1, <1>2, <1>3, <1>4, <1>5, <1>6, <1>7, <1>8 DEF Sound

\* What a step of rank r must show.
Moves(r) ==
  /\ UNCHANGED caller
  /\ \A q \in Rank : q # r => Still(q)
  /\ \A q \in Rank : Len(posted'[q]) >= Len(posted[q])
  /\ faults' = 0 => faults = 0
  /\ Shape' /\ RecordedIs(r)' /\ InExchange(r)' /\ Tabled(r)'

LEMMA MovesKeep ==
  ASSUME Inv, NEW r \in Rank, Moves(r), faults = 0 /\ faults' = 0 => Sound(r)'
  PROVE  Inv'
<1>1. ASSUME NEW q \in Rank, q # r PROVE RecordedIs(q)' /\ InExchange(q)' /\ Tabled(q)'
  <2>1. UNCHANGED caller /\ Still(q)
    BY <1>1 DEF Moves
  <2>2. RecordedIs(q)' /\ Tabled(q)'
    BY <2>1, StillKeeps DEF Inv
  <2>3. InExchange(q)
    BY DEF Inv
  <2>4. \A x \in Rank : Len(posted'[x]) \in Nat /\ Len(posted[x]) \in Nat /\ Len(posted'[x]) >= Len(posted[x])
    <3>1. posted \in [Rank -> Seq(Seq(Address) \ {<<>>})]
      BY DEF Inv, Shape
    <3>2. posted' \in [Rank -> Seq(Seq(Address) \ {<<>>})]
      BY DEF Shape, Moves
    <3> QED
      BY <3>1, <3>2 DEF Moves
  <2>5. program' = program
    BY <2>1, Frame
  <2>6. InExchange(q)'
    BY <2>1, <2>3, <2>4, <2>5 DEF InExchange, Still
  <2> QED
    BY <2>2, <2>6
<1>2. ASSUME faults' = 0, NEW q \in Rank PROVE Sound(q)'
  <2>1. faults = 0 /\ Sound(q)
    BY <1>2 DEF Inv, Moves
  <2>2. CASE q # r
    BY <2>1, <2>2, StillKeeps DEF Moves
  <2> QED
    BY <1>2, <2>1, <2>2
<1> QED
  BY <1>1, <1>2 DEF Inv, Moves

LEMMA BeginKeeps == ASSUME Inv, NEW r \in Rank, Begin(r) PROVE Inv'
<1> USE DEF FreshPtrs
<1>1. /\ pc[r] = "idle" /\ pc' = [pc EXCEPT ![r] = "capturing"] /\ capture[r] < Len(program)
      /\ capture' = [capture EXCEPT ![r] = @ + 1] /\ recorded' = [recorded EXCEPT ![r] = 0]
      /\ ptrs' = [ptrs EXCEPT ![r] = <<>>]
      /\ UNCHANGED <<caller, unreg, table, graph, posted, entry, faults>>
  BY DEF Begin, Goto
<1>2. Shape /\ RecordedIs(r) /\ Tabled(r)
  BY DEF Inv
<1>3. program' = program /\ address' = address /\ Len(program) \in Nat
  BY <1>1, <1>2, ProgramFacts DEF caller
<1>4. Shape'
  <2>1. /\ pc' \in [Rank -> {"idle", "capturing", "exchange", "fill"}] /\ DOMAIN ptrs' = Rank
        /\ capture' \in [Rank -> Nat] /\ recorded' \in [Rank -> Nat]
    BY <1>1, <1>2 DEF Shape
  <2>2. program' \in Programs
        /\ address' \in [Rank -> [1..Len(program') -> {f \in [Tensor -> Address] : Injective(f)}]]
    BY <1>2, <1>3 DEF Shape
  <2>3. /\ unreg' \in [Rank -> Seq(Address \X Nat)] /\ entry' \in [Rank -> Nat] /\ faults' \in Nat
        /\ table' \in [Rank -> Seq({<<>>} \cup [Rank -> Address])]
        /\ posted' \in [Rank -> Seq(Seq(Address) \ {<<>>})]
    BY <1>1, <1>2 DEF Shape
  <2>4. graph' \in [Rank -> [1..Len(program') -> Seq(Nat)]]
    BY <1>1, <1>2, <1>3 DEF Shape
  <2> QED
    BY <2>1, <2>2, <2>3, <2>4 DEF Shape
<1>5. \A q \in Rank : q # r => Still(q)
  BY <1>1, <1>2 DEF Still, Shape
<1>6. /\ pc'[r] = "capturing" /\ capture'[r] = capture[r] + 1 /\ recorded'[r] = 0 /\ ptrs'[r] = <<>>
      /\ capture[r] \in Nat
  BY <1>1, <1>2 DEF Shape
<1> DEFINE c == capture[r] + 1
<1>7. c \in 1..Len(program) /\ graph[r][c] = <<>> /\ Len(program[c]) \in Nat
  <2>1. c \in 1..Len(program) /\ c > capture[r]
    BY <1>1, <1>3, <1>6
  <2>2. \A d \in 1..Len(program) : d > capture[r] => graph[r][d] = <<>>
    BY <1>2 DEF RecordedIs
  <2> HIDE DEF c
  <2>3. Len(program[c]) \in Nat
    BY <1>2, <2>1, ProgramFacts
  <2> QED
    BY <2>1, <2>2, <2>3
<1>8. RecordedIs(r)'
  <2>1. capture'[r] \in 0..Len(program) /\ capture'[r] > 0 /\ Len(<<>>) = 0
    BY <1>3, <1>6, <1>7
  <2>2. ASSUME NEW d \in 1..Len(program)
        PROVE  /\ d > capture'[r] => graph'[r][d] = <<>>
               /\ Len(graph'[r][d]) <= Len(program[d])
               /\ \A i \in DOMAIN graph'[r][d] : graph'[r][d][i] \in DOMAIN table'[r]
    <3>1. d > capture'[r] => d > capture[r]
      BY <1>3, <1>6
    <3> QED
      BY <1>1, <1>2, <3>1 DEF RecordedIs
  <2> QED
    BY <1>1, <1>3, <1>6, <1>7, <2>1, <2>2 DEF RecordedIs
<1>9. Tabled(r)' /\ InExchange(r)'
  BY <1>1, <1>2, <1>6 DEF Tabled, InExchange
<1>10. \A q \in Rank : Len(posted'[q]) >= Len(posted[q])
  BY <1>1, <1>2 DEF Shape
<1>11. Moves(r)
  BY <1>1, <1>4, <1>5, <1>8, <1>9, <1>10 DEF Moves
<1>12. ASSUME Sound(r) PROVE Sound(r)'
  <2>1. Posted(r)' /\ Shared(r)' /\ Filled(r)'
    BY <1>1, <1>12, Frame DEF Sound, Posted, PostedFor, Shared, Filled
  <2>2. Numbered(r)'
    <3>1. capture[r] + 1 - 1 = capture[r]
      BY <1>6
    <3> QED
      BY <1>1, <1>6, <1>12, <3>1, Frame DEF Sound, Numbered
  <2>3. Entries(r)'
    <3>1. unreg[r] = <<>>
      BY <1>1, <1>12 DEF Sound, Entries
    <3>2. Count(Firsts(c), 0) = 0
      BY Counts
    <3> QED
      BY <1>1, <1>6, <3>1, <3>2, Frame DEF Entries
  <2>4. Cached(r)'
    <3>1. DOMAIN <<>> = {} /\ 1..0 = {}
      OBVIOUS
    <3> QED
      BY <1>1, <1>6, <3>1, Frame DEF Cached
  <2> QED
    BY <2>1, <2>2, <2>3, <2>4 DEF Sound
<1> QED
  BY <1>11, <1>12, MovesKeep DEF Inv
-----------------------------------------------------------------------------
(* Recording.                                                              *)

\* A call is recorded with table v.
Takes(r, v) ==
  /\ pc[r] = "capturing" /\ recorded[r] < Len(Calls(r))
  /\ recorded' = [recorded EXCEPT ![r] = @ + 1]
  /\ graph' = [graph EXCEPT ![r][capture[r]] = Append(@, v)]
  /\ UNCHANGED <<caller, pc, capture, posted, entry, faults>>

\* Where the recording of a capture is.
LEMMA NextCall ==
  ASSUME Inv, NEW r \in Rank, pc[r] = "capturing"
  PROVE  /\ capture[r] \in 1..Len(program) /\ recorded[r] \in Nat /\ capture[r] \in Nat
         /\ Len(graph[r][capture[r]]) = recorded[r]
         /\ DOMAIN graph[r][capture[r]] = 1..recorded[r]
         /\ Len(program[capture[r]]) \in Nat /\ recorded[r] <= Len(program[capture[r]])
         /\ Calls(r) = program[capture[r]]
         /\ recorded[r] < Len(Calls(r)) =>
              /\ recorded[r] + 1 \in 1..Len(program[capture[r]])
              /\ Current(r) = AddressOf(r, capture[r], recorded[r] + 1)
<1>1. Shape /\ RecordedIs(r)
  BY DEF Inv
<1>2. Len(program) \in Nat
  BY <1>1, ProgramFacts
<1>3. /\ capture[r] \in 1..Len(program) /\ recorded[r] \in Nat /\ capture[r] \in Nat
      /\ Len(graph[r][capture[r]]) = recorded[r] /\ recorded[r] <= Len(program[capture[r]])
  BY <1>1, <1>2 DEF RecordedIs
<1>4. graph[r][capture[r]] \in Seq(Nat) /\ Len(program[capture[r]]) \in Nat
  BY <1>1, <1>3, ShapeOf, ProgramFacts
<1>5. DOMAIN graph[r][capture[r]] = 1..recorded[r]
  BY <1>3, <1>4
<1> QED
  BY <1>3, <1>4, <1>5 DEF Calls, Current, AddressOf

LEMMA Taken ==
  ASSUME Inv, NEW r \in Rank, NEW v \in Nat, Takes(r, v)
  PROVE  /\ graph' \in [Rank -> [1..Len(program) -> Seq(Nat)]]
         /\ recorded' \in [Rank -> Nat] /\ recorded'[r] = recorded[r] + 1
         /\ \A q \in Rank : q # r => graph'[q] = graph[q] /\ recorded'[q] = recorded[q]
         /\ \A d \in 1..Len(program) : d # capture[r] => graph'[r][d] = graph[r][d]
         /\ Len(graph'[r][capture[r]]) = recorded[r] + 1
         /\ graph'[r][capture[r]][recorded[r] + 1] = v
         /\ \A d \in 1..Len(program) : \A i \in DOMAIN graph[r][d] : graph'[r][d][i] = graph[r][d][i]
         /\ \A d \in 1..Len(program) : \A i \in DOMAIN graph'[r][d] :
              i \in DOMAIN graph[r][d] \/ (d = capture[r] /\ i = recorded[r] + 1)
<1>1. /\ graph \in [Rank -> [1..Len(program) -> Seq(Nat)]] /\ recorded \in [Rank -> Nat]
      /\ pc[r] = "capturing"
  BY DEF Inv, Shape, Takes
<1> DEFINE g == graph[r][capture[r]]
<1>2. /\ capture[r] \in 1..Len(program) /\ Len(g) = recorded[r]
      /\ recorded[r] \in Nat /\ g \in Seq(Nat)
  BY <1>1, NextCall
<1>3. graph' = [graph EXCEPT ![r] = [graph[r] EXCEPT ![capture[r]] = Append(g, v)]]
  BY DEF Takes
<1>4. Append(g, v) \in Seq(Nat) /\ Len(Append(g, v)) = recorded[r] + 1
      /\ Append(g, v)[recorded[r] + 1] = v /\ (\A i \in 1..recorded[r] : Append(g, v)[i] = g[i])
      /\ DOMAIN g = 1..recorded[r] /\ DOMAIN Append(g, v) = 1..(recorded[r] + 1)
  BY <1>2
<1>5. [graph[r] EXCEPT ![capture[r]] = Append(g, v)] \in [1..Len(program) -> Seq(Nat)]
  BY <1>1, <1>2, <1>4
<1>6. graph' \in [Rank -> [1..Len(program) -> Seq(Nat)]]
  BY <1>1, <1>3, <1>5
<1>7. /\ \A q \in Rank : q # r => graph'[q] = graph[q]
      /\ graph'[r][capture[r]] = Append(g, v)
      /\ \A d \in 1..Len(program) : d # capture[r] => graph'[r][d] = graph[r][d]
  BY <1>1, <1>2, <1>3
<1>8. \A d \in 1..Len(program) : \A i \in DOMAIN graph[r][d] : graph'[r][d][i] = graph[r][d][i]
  BY <1>4, <1>7
<1>9. \A d \in 1..Len(program) : \A i \in DOMAIN graph'[r][d] :
        i \in DOMAIN graph[r][d] \/ (d = capture[r] /\ i = recorded[r] + 1)
  <2> SUFFICES ASSUME NEW d \in 1..Len(program), NEW i \in DOMAIN graph'[r][d],
                      i \notin DOMAIN graph[r][d]
               PROVE  d = capture[r] /\ i = recorded[r] + 1
    OBVIOUS
  <2>1. d = capture[r]
    BY <1>7
  <2>2. i \in 1..(recorded[r] + 1) /\ i \notin 1..recorded[r]
    BY <1>4, <1>7, <2>1
  <2> QED
    BY <1>2, <2>1, <2>2
<1>10. recorded' \in [Rank -> Nat] /\ recorded'[r] = recorded[r] + 1
       /\ \A q \in Rank : q # r => recorded'[q] = recorded[q]
  BY <1>1 DEF Takes
<1> QED
  BY <1>4, <1>6, <1>7, <1>8, <1>9, <1>10

\* What any call keeps that is recorded with a table there is.
LEMMA TakesKeeps ==
  ASSUME Inv, NEW r \in Rank, NEW v \in Nat, Takes(r, v),
         Len(table'[r]) \in Nat, Len(table'[r]) >= Len(table[r]),
         DOMAIN table'[r] = 1..Len(table'[r]), v \in DOMAIN table'[r]
  PROVE  /\ RecordedIs(r)' /\ InExchange(r)'
         /\ Posted(r) => Posted(r)'
         /\ Numbered(r) => Numbered(r)'
<1>1. Shape /\ RecordedIs(r) /\ pc[r] = "capturing" /\ pc' = pc /\ capture' = capture
      /\ posted' = posted /\ UNCHANGED caller
  BY DEF Inv, Takes
<1>2. program' = program /\ Len(program) \in Nat
  BY <1>1, Frame, ProgramFacts
<1>3. RecordedIs(r)'
  <2>1. /\ recorded'[r] \in Nat /\ capture'[r] \in 0..Len(program) /\ capture'[r] > 0
        /\ recorded'[r] <= Len(program[capture[r]])
        /\ Len(graph'[r][capture[r]]) = recorded'[r]
    <3>1. recorded[r] < Len(Calls(r))
      BY DEF Takes
    <3>2. /\ recorded[r] \in Nat /\ capture[r] \in 1..Len(program)
          /\ Len(program[capture[r]]) \in Nat /\ recorded[r] < Len(program[capture[r]])
      BY <1>1, <3>1, NextCall
    <3>3. recorded'[r] = recorded[r] + 1 /\ Len(graph'[r][capture[r]]) = recorded[r] + 1
      BY Taken
    <3> QED
      BY <1>1, <1>2, <3>2, <3>3
  <2>2. ASSUME NEW d \in 1..Len(program)
        PROVE  /\ d > capture[r] => graph'[r][d] = <<>>
               /\ Len(graph'[r][d]) <= Len(program[d])
    <3>1. CASE d = capture[r]
      BY <1>1, <2>1, <3>1, NextCall
    <3>2. CASE d # capture[r]
      <4>1. graph'[r][d] = graph[r][d]
        BY <3>2, Taken
      <4> QED
        BY <1>1, <4>1 DEF RecordedIs
    <3> QED
      BY <3>1, <3>2
  <2>3. ASSUME NEW d \in 1..Len(program), NEW i \in DOMAIN graph'[r][d]
        PROVE  graph'[r][d][i] \in DOMAIN table'[r]
    <3>1. CASE i \in DOMAIN graph[r][d]
      <4>1. graph'[r][d][i] = graph[r][d][i] /\ graph[r][d][i] \in DOMAIN table[r]
        BY <1>1, <3>1, Taken DEF RecordedIs
      <4>2. DOMAIN table[r] = 1..Len(table[r]) /\ Len(table[r]) \in Nat
        BY <1>1, ShapeOf
      <4>3. 1..Len(table[r]) \subseteq 1..Len(table'[r])
        BY <4>2
      <4> QED
        BY <4>1, <4>2, <4>3
    <3>2. CASE d = capture[r] /\ i = recorded[r] + 1
      BY <3>2, Taken
    <3> QED
      BY <3>1, <3>2, Taken
  <2> QED
    BY <1>1, <1>2, <2>1, <2>2, <2>3 DEF RecordedIs
<1>4. InExchange(r)'
  BY <1>1 DEF InExchange
<1>5. Posted(r) => Posted(r)'
  BY <1>1, Frame DEF Posted, PostedFor
<1>6. Numbered(r) => Numbered(r)'
  BY <1>1, Frame DEF Numbered
<1> QED
  BY <1>3, <1>4, <1>5, <1>6

\* The calls of other tensors and captures have other tables.
LEMMA TakesShared ==
  ASSUME Inv, NEW r \in Rank, NEW v \in Nat, Takes(r, v), Shared(r),
         \A d \in 1..Len(program) : \A j \in DOMAIN graph[r][d] : graph[r][d][j] = v =>
           d = capture[r] /\ program[d][j] = program[capture[r]][recorded[r] + 1]
  PROVE  Shared(r)'
<1>1. program' = program
  BY Frame DEF Takes
<1> SUFFICES ASSUME NEW c \in 1..Len(program), NEW d \in 1..Len(program),
                    NEW i \in DOMAIN graph'[r][c], NEW j \in DOMAIN graph'[r][d],
                    graph'[r][c][i] = graph'[r][d][j]
             PROVE  c = d /\ program[c][i] = program[d][j]
  BY <1>1 DEF Shared
<1>2. graph'[r][capture[r]][recorded[r] + 1] = v
  BY Taken
<1>3. /\ i \in DOMAIN graph[r][c] => graph'[r][c][i] = graph[r][c][i]
      /\ j \in DOMAIN graph[r][d] => graph'[r][d][j] = graph[r][d][j]
  BY Taken
<1>4. CASE i \in DOMAIN graph[r][c] /\ j \in DOMAIN graph[r][d]
  BY <1>3, <1>4 DEF Shared
<1>5. CASE i \notin DOMAIN graph[r][c]
  <2>1. c = capture[r] /\ i = recorded[r] + 1
    BY <1>5, Taken
  <2>2. CASE j \in DOMAIN graph[r][d]
    BY <1>2, <1>3, <2>1, <2>2
  <2>3. CASE j \notin DOMAIN graph[r][d]
    <3>1. d = capture[r] /\ j = recorded[r] + 1
      BY <2>3, Taken
    <3> QED
      BY <2>1, <3>1
  <2> QED
    BY <2>2, <2>3
<1>6. CASE j \notin DOMAIN graph[r][d] /\ i \in DOMAIN graph[r][c]
  <2>1. d = capture[r] /\ j = recorded[r] + 1
    BY <1>6, Taken
  <2> QED
    BY <1>2, <1>3, <1>6, <2>1
<1> QED
  BY <1>4, <1>5, <1>6

\* The tables there were are as they were, and that of the call is empty or right.
LEMMA TakesFilled ==
  ASSUME Inv, NEW r \in Rank, NEW v \in Nat, Takes(r, v), Filled(r),
         \A i \in DOMAIN table[r] : table'[r][i] = table[r][i],
         table'[r][v] # <<>> =>
           \A q \in Rank : table'[r][v][q] = AddressOf(q, capture[r], recorded[r] + 1)
  PROVE  Filled(r)'
<1>1. program' = program /\ \A q, d, i : AddressOf(q, d, i)' = AddressOf(q, d, i)
  BY Frame DEF Takes
<1> SUFFICES ASSUME NEW d \in 1..Len(program), NEW i \in DOMAIN graph'[r][d],
                    table'[r][graph'[r][d][i]] # <<>>, NEW q \in Rank
             PROVE  table'[r][graph'[r][d][i]][q] = AddressOf(q, d, i)
  BY <1>1 DEF Filled
<1>2. CASE i \in DOMAIN graph[r][d]
  <2>1. graph'[r][d][i] = graph[r][d][i] /\ graph[r][d][i] \in DOMAIN table[r]
    <3>1. RecordedIs(r)
      BY DEF Inv
    <3>2. graph[r][d][i] \in DOMAIN table[r]
      BY <1>2, <3>1 DEF RecordedIs
    <3>3. graph'[r][d][i] = graph[r][d][i]
      BY <1>2, Taken
    <3> QED
      BY <3>2, <3>3
  <2>2. table'[r][graph'[r][d][i]] = table[r][graph[r][d][i]]
    BY <2>1
  <2> QED
    BY <1>2, <2>2 DEF Filled
<1>3. CASE i \notin DOMAIN graph[r][d]
  <2>1. d = capture[r] /\ i = recorded[r] + 1
    BY <1>3, Taken
  <2>2. graph'[r][d][i] = v
    BY <2>1, Taken
  <2> QED
    BY <2>1, <2>2
<1> QED
  BY <1>2, <1>3

LEMMA RecordAgainKeeps == ASSUME Inv, NEW r \in Rank, RecordAgain(r) PROVE Inv'
<1> DEFINE c == capture[r]
           n == recorded[r]
           v == ptrs[r][Current(r)]
<1>1. /\ pc[r] = "capturing" /\ n < Len(Calls(r)) /\ Current(r) \in DOMAIN ptrs[r]
      /\ UNCHANGED <<caller, pc, capture, unreg, ptrs, table, posted, entry, faults>>
  BY DEF RecordAgain
<1>2. Shape /\ RecordedIs(r) /\ Tabled(r)
  BY DEF Inv
<1>3. v \in DOMAIN table[r] /\ v \in Nat
  BY <1>1, <1>2, ShapeOf DEF Tabled
<1>4. Takes(r, v)
  BY DEF RecordAgain, Takes
<1> HIDE DEF v
<1>5. /\ c \in 1..Len(program) /\ n \in Nat /\ n + 1 \in 1..Len(program[c])
      /\ DOMAIN graph[r][c] = 1..n /\ Current(r) = AddressOf(r, c, n + 1)
  BY <1>1, NextCall
<1>6. program' = program /\ address' = address
  BY <1>1, Frame
<1>7. Shape'
  BY <1>1, <1>2, <1>3, <1>4, <1>6, Taken DEF Shape
<1>8. \A q \in Rank : q # r => Still(q)
  BY <1>1, <1>3, <1>4, Taken DEF Still
<1>9. RecordedIs(r)' /\ InExchange(r)' /\ (Posted(r) => Posted(r)') /\ (Numbered(r) => Numbered(r)')
  <2>1. Len(table[r]) \in Nat /\ DOMAIN table[r] = 1..Len(table[r]) /\ table' = table
    BY <1>1, <1>2, ShapeOf
  <2>2. Len(table'[r]) >= Len(table[r])
    BY <2>1
  <2> QED
    BY <1>3, <1>4, <2>1, <2>2, TakesKeeps
<1>10. Tabled(r)'
  BY <1>1, <1>2 DEF Tabled
<1>11. \A q \in Rank : Len(posted'[q]) >= Len(posted[q])
  BY <1>1, <1>2, ShapeOf
<1>12. Moves(r)
  BY <1>1, <1>7, <1>8, <1>9, <1>10, <1>11 DEF Moves
<1>13. /\ recorded'[r] = n + 1 /\ graph'[r][c][n + 1] = v
       /\ \A i \in 1..n : graph'[r][c][i] = graph[r][c][i]
  <2>1. /\ recorded'[r] = n + 1 /\ graph'[r][c][n + 1] = v
        /\ \A d \in 1..Len(program) : \A i \in DOMAIN graph[r][d] :
             graph'[r][d][i] = graph[r][d][i]
    BY <1>3, <1>4, Taken
  <2> QED
    BY <1>5, <2>1
<1>14. ASSUME Sound(r) PROVE Sound(r)'
  <2>1. PICK j \in 1..n : AddressOf(r, c, j) = AddressOf(r, c, n + 1)
    BY <1>1, <1>5, <1>14 DEF Sound, Cached
  <2>2. j \in 1..Len(program[c]) /\ j \in 1..n /\ program[c][j] = program[c][n + 1]
    <3>1. j \in 1..Len(program[c])
      BY <1>5
    <3> QED
      BY <1>2, <1>5, <2>1, <3>1, Addresses
  <2>3. v = graph[r][c][j]
    BY <1>1, <1>5, <1>14, <2>1 DEF Sound, Cached, v
  <2>4. n + 1 \notin Firsts(c)
    BY <1>2, <1>5, <2>2, FirstIs
  <2>5. Entries(r)'
    <3>1. Count(Firsts(c), n + 1) = Count(Firsts(c), n)
      BY <1>5, <2>4, Counts
    <3>2. ASSUME NEW k \in DOMAIN unreg[r]
          PROVE  \E i \in Firsts(c) : /\ i <= n + 1 /\ Count(Firsts(c), i) = k
                                      /\ unreg[r][k][1] = AddressOf(r, c, i)
                                      /\ unreg[r][k][2] = graph'[r][c][i]
      <4>1. PICK i \in Firsts(c) : /\ i <= n /\ Count(Firsts(c), i) = k
                                   /\ unreg[r][k][1] = AddressOf(r, c, i)
                                   /\ unreg[r][k][2] = graph[r][c][i]
        BY <1>1, <1>14 DEF Sound, Entries
      <4>2. i \in 1..n /\ i <= n + 1
        <5>1. i \in Nat \ {0}
          BY <1>2, <1>5, FirstFacts
        <5> QED
          BY <1>5, <4>1, <5>1
      <4>3. graph'[r][c][i] = graph[r][c][i]
        BY <1>13, <4>2
      <4> QED
        BY <4>1, <4>2, <4>3
    <3>3. Len(unreg[r]) = Count(Firsts(c), n)
      BY <1>1, <1>14 DEF Sound, Entries
    <3> QED
      BY <1>1, <1>13, <3>1, <3>2, <3>3, Frame DEF Entries
  <2>6. Shared(r)'
    <3>1. ASSUME NEW d \in 1..Len(program), NEW i \in DOMAIN graph[r][d], graph[r][d][i] = v
          PROVE  d = c /\ program[d][i] = program[c][n + 1]
      <4>1. j \in DOMAIN graph[r][c]
        BY <1>5, <2>2
      <4> QED
        BY <1>5, <1>14, <2>2, <2>3, <3>1, <4>1 DEF Sound, Shared
    <3> QED
      BY <1>3, <1>4, <1>14, <3>1, TakesShared DEF Sound
  <2>7. Cached(r)'
    <3>1. {AddressOf(r, c, i) : i \in 1..(n + 1)} = {AddressOf(r, c, i) : i \in 1..n}
      <4>1. 1..(n + 1) = (1..n) \cup {n + 1}
        BY <1>5
      <4> QED
        BY <2>1, <4>1
    <3>2. DOMAIN ptrs[r] = {AddressOf(r, c, i) : i \in 1..n}
          /\ \A i \in 1..n : ptrs[r][AddressOf(r, c, i)] = graph[r][c][i]
      BY <1>1, <1>14 DEF Sound, Cached
    <3>3. ASSUME NEW i \in 1..(n + 1) PROVE ptrs[r][AddressOf(r, c, i)] = graph'[r][c][i]
      <4>1. CASE i \in 1..n
        BY <1>13, <3>2, <4>1
      <4>2. CASE i = n + 1
        BY <1>5, <1>13, <4>2 DEF v
      <4> QED
        BY <1>5, <4>1, <4>2
    <3>4. recorded'[r] = n + 1 /\ capture' = capture /\ pc' = pc /\ ptrs' = ptrs
      BY <1>1, <1>13
    <3>5. \A i : AddressOf(r, c, i)' = AddressOf(r, c, i)
      BY <1>1, Frame
    <3> HIDE DEF AddressOf
    <3> QED
      BY <3>1, <3>2, <3>3, <3>4, <3>5 DEF Cached
  <2>8. Filled(r)'
    <3>1. \A q \in Rank : AddressOf(q, c, j) = AddressOf(q, c, n + 1)
      BY <2>2 DEF AddressOf
    <3>2. table'[r][v] # <<>> => \A q \in Rank : table'[r][v][q] = AddressOf(q, c, n + 1)
      <4>1. j \in DOMAIN graph[r][c]
        BY <1>5, <2>2
      <4> QED
        BY <1>1, <1>5, <1>14, <2>3, <3>1, <4>1 DEF Sound, Filled
    <3> QED
      BY <1>1, <1>3, <1>4, <1>14, <3>2, TakesFilled DEF Sound
  <2> QED
    BY <1>9, <1>14, <2>5, <2>6, <2>7, <2>8 DEF Sound
<1> QED
  BY <1>12, <1>14, MovesKeep DEF Inv

LEMMA RecordKeeps == ASSUME Inv, NEW r \in Rank, Record(r) PROVE Inv'
<1> DEFINE c == capture[r]
           n == recorded[r]
           a == Current(r)
           v == Len(table[r]) + 1
<1>1. /\ pc[r] = "capturing" /\ n < Len(Calls(r)) /\ a \notin DOMAIN ptrs[r]
      /\ table' = [table EXCEPT ![r] = Append(@, <<>>)]
      /\ unreg' = [unreg EXCEPT ![r] = Append(@, <<a, v>>)]
      /\ ptrs' = [ptrs EXCEPT ![r] = [b \in DOMAIN @ \cup {a} |-> IF b = a THEN v ELSE @[b]]]
      /\ UNCHANGED <<caller, pc, capture, posted, entry, faults>>
  BY DEF Record
<1>2. Shape /\ RecordedIs(r) /\ Tabled(r)
  BY DEF Inv
<1>3. /\ Len(table[r]) \in Nat /\ table[r] \in Seq({<<>>} \cup [Rank -> Address])
      /\ DOMAIN table[r] = 1..Len(table[r])
      /\ unreg[r] \in Seq(Address \X Nat) /\ Len(unreg[r]) \in Nat /\ v \in Nat
  BY <1>2, ShapeOf
<1>4. Takes(r, v)
  BY DEF Record, Takes
<1>5. /\ c \in 1..Len(program) /\ n \in Nat /\ n + 1 \in 1..Len(program[c])
      /\ DOMAIN graph[r][c] = 1..n /\ a = AddressOf(r, c, n + 1)
  BY <1>1, NextCall
<1>6. program' = program /\ address' = address /\ a \in Address
  BY <1>1, <1>2, <1>5, Frame, Addresses
<1>7. /\ table'[r] = Append(table[r], <<>>) /\ Len(table'[r]) = v /\ DOMAIN table'[r] = 1..v
      /\ table'[r][v] = <<>> /\ table'[r] \in Seq({<<>>} \cup [Rank -> Address])
      /\ \A i \in DOMAIN table[r] : table'[r][i] = table[r][i]
  <2>1. table'[r] = Append(table[r], <<>>)
    BY <1>1, <1>2 DEF Shape
  <2> QED
    BY <1>3, <2>1
<1>8. /\ unreg'[r] = Append(unreg[r], <<a, v>>) /\ Len(unreg'[r]) = Len(unreg[r]) + 1
      /\ unreg'[r] \in Seq(Address \X Nat)
      /\ unreg'[r][Len(unreg[r]) + 1] = <<a, v>>
      /\ \A k \in 1..Len(unreg[r]) : unreg'[r][k] = unreg[r][k]
      /\ DOMAIN unreg[r] = 1..Len(unreg[r]) /\ DOMAIN unreg'[r] = 1..(Len(unreg[r]) + 1)
  <2>1. unreg'[r] = Append(unreg[r], <<a, v>>) /\ <<a, v>> \in Address \X Nat
    BY <1>1, <1>2, <1>3, <1>6 DEF Shape
  <2> HIDE DEF a, v
  <2> QED
    BY <1>3, <2>1
<1>9. /\ DOMAIN ptrs' = Rank /\ DOMAIN ptrs'[r] = DOMAIN ptrs[r] \cup {a} /\ ptrs'[r][a] = v
      /\ \A b \in DOMAIN ptrs[r] : ptrs'[r][b] = ptrs[r][b]
  BY <1>1, <1>2 DEF Shape
<1> HIDE DEF a, v
<1>10. Shape'
  <2>1. /\ table' \in [Rank -> Seq({<<>>} \cup [Rank -> Address])]
        /\ unreg' \in [Rank -> Seq(Address \X Nat)]
    BY <1>1, <1>2, <1>7, <1>8 DEF Shape
  <2> QED
    BY <1>1, <1>2, <1>3, <1>4, <1>6, <1>9, <2>1, Taken DEF Shape
<1>11. \A q \in Rank : q # r => Still(q)
  BY <1>1, <1>2, <1>3, <1>4, Taken DEF Still, Shape
<1>12. RecordedIs(r)' /\ InExchange(r)' /\ (Posted(r) => Posted(r)') /\ (Numbered(r) => Numbered(r)')
  <2>1. v = Len(table[r]) + 1
    BY DEF v
  <2>2. Len(table'[r]) \in Nat /\ Len(table'[r]) >= Len(table[r]) /\ v \in 1..v
    BY <1>3, <1>7, <2>1
  <2>3. DOMAIN table'[r] = 1..Len(table'[r]) /\ v \in DOMAIN table'[r]
    BY <1>7, <2>2
  <2> QED
    BY <1>3, <1>4, <2>2, <2>3, TakesKeeps
<1>13. v \in DOMAIN table'[r] /\ DOMAIN table[r] \subseteq DOMAIN table'[r] /\ v \notin DOMAIN table[r]
  BY <1>3, <1>7 DEF v
<1>14. Tabled(r)'
  <2>1. ASSUME NEW i \in DOMAIN unreg'[r] PROVE unreg'[r][i][2] \in DOMAIN table'[r]
    BY <1>2, <1>3, <1>8, <1>13, <2>1 DEF Tabled
  <2>2. ASSUME NEW b \in DOMAIN ptrs'[r] PROVE b \in Address /\ ptrs'[r][b] \in DOMAIN table'[r]
    BY <1>2, <1>6, <1>9, <1>13, <2>2 DEF Tabled
  <2> QED
    BY <2>1, <2>2 DEF Tabled
<1>15. \A q \in Rank : Len(posted'[q]) >= Len(posted[q])
  BY <1>1, <1>2, ShapeOf
<1>16. Moves(r)
  BY <1>1, <1>10, <1>11, <1>12, <1>14, <1>15 DEF Moves
<1>17. /\ recorded'[r] = n + 1 /\ graph'[r][c][n + 1] = v
       /\ \A i \in 1..n : graph'[r][c][i] = graph[r][c][i]
  <2>1. v \in Nat
    BY <1>3
  <2>2. \A i \in DOMAIN graph[r][c] : graph'[r][c][i] = graph[r][c][i]
    BY <1>4, <1>5, <2>1, Taken
  <2>3. recorded'[r] = n + 1 /\ graph'[r][c][n + 1] = v
    BY <1>4, <2>1, Taken
  <2> QED
    BY <1>5, <2>2, <2>3
<1>18. ASSUME Sound(r) PROVE Sound(r)'
  <2>1. /\ DOMAIN ptrs[r] = {AddressOf(r, c, i) : i \in 1..n}
        /\ \A i \in 1..n : ptrs[r][AddressOf(r, c, i)] = graph[r][c][i]
    BY <1>1, <1>18 DEF Sound, Cached
  <2>2. n + 1 \in Firsts(c)
    <3>1. \A j \in 1..n : program[c][j] # program[c][n + 1]
      BY <1>1, <1>5, <2>1 DEF AddressOf
    <3> QED
      BY <1>2, <1>5, <3>1, FirstIs
  <2>3. Entries(r)'
    <3>1. Count(Firsts(c), n + 1) = Count(Firsts(c), n) + 1
      BY <1>5, <2>2, Counts
    <3>2. Len(unreg[r]) = Count(Firsts(c), n)
      BY <1>1, <1>18 DEF Sound, Entries
    <3>3. ASSUME NEW k \in DOMAIN unreg'[r]
          PROVE  \E i \in Firsts(c) : /\ i <= n + 1 /\ Count(Firsts(c), i) = k
                                      /\ unreg'[r][k][1] = AddressOf(r, c, i)
                                      /\ unreg'[r][k][2] = graph'[r][c][i]
      <4>1. CASE k \in DOMAIN unreg[r]
        <5>1. PICK i \in Firsts(c) : /\ i <= n /\ Count(Firsts(c), i) = k
                                     /\ unreg[r][k][1] = AddressOf(r, c, i)
                                     /\ unreg[r][k][2] = graph[r][c][i]
          BY <1>1, <1>18, <4>1 DEF Sound, Entries
        <5>2. i \in Nat \ {0}
          BY <1>2, <1>5, FirstFacts
        <5>3. i \in 1..n /\ i <= n + 1
          BY <1>5, <5>1, <5>2
        <5>4. unreg'[r][k] = unreg[r][k]
          BY <1>8, <4>1
        <5> QED
          BY <1>17, <5>1, <5>3, <5>4
      <4>2. CASE k \notin DOMAIN unreg[r]
        <5>1. k = Len(unreg[r]) + 1
          BY <1>3, <1>8, <4>2
        <5>2. unreg'[r][k][1] = a /\ unreg'[r][k][2] = v
          BY <1>8, <5>1
        <5>3. n + 1 <= n + 1 /\ Count(Firsts(c), n + 1) = k
          BY <1>5, <3>1, <3>2, <5>1
        <5> QED
          BY <1>5, <1>17, <2>2, <5>2, <5>3
      <4> QED
        BY <4>1, <4>2
    <3>4. Len(unreg'[r]) = Count(Firsts(c), n + 1)
      BY <1>8, <3>1, <3>2
    <3> QED
      BY <1>1, <1>17, <3>3, <3>4, Frame DEF Entries
  <2>4. Shared(r)'
    <3>1. ASSUME NEW d \in 1..Len(program), NEW i \in DOMAIN graph[r][d], graph[r][d][i] = v
          PROVE  FALSE
      BY <1>2, <1>13, <3>1 DEF RecordedIs
    <3> QED
      BY <1>3, <1>4, <1>18, <3>1, TakesShared DEF Sound
  <2>5. Cached(r)'
    <3>1. {AddressOf(r, c, i) : i \in 1..(n + 1)} = {AddressOf(r, c, i) : i \in 1..n} \cup {a}
      <4>1. 1..(n + 1) = (1..n) \cup {n + 1}
        BY <1>5
      <4> QED
        BY <1>5, <4>1
    <3>2. ASSUME NEW i \in 1..(n + 1) PROVE ptrs'[r][AddressOf(r, c, i)] = graph'[r][c][i]
      <4>1. CASE i \in 1..n
        BY <1>9, <1>17, <2>1, <4>1
      <4>2. CASE i = n + 1
        BY <1>5, <1>9, <1>17, <4>2
      <4> QED
        BY <1>5, <4>1, <4>2
    <3>3. recorded'[r] = n + 1 /\ capture' = capture /\ pc' = pc
      BY <1>1, <1>17
    <3>4. \A i : AddressOf(r, c, i)' = AddressOf(r, c, i)
      BY <1>1, Frame
    <3> HIDE DEF AddressOf
    <3> QED
      BY <1>9, <2>1, <3>1, <3>2, <3>3, <3>4 DEF Cached
  <2>6. Filled(r)'
    BY <1>3, <1>4, <1>7, <1>18, TakesFilled DEF Sound
  <2> QED
    BY <1>12, <1>18, <2>3, <2>4, <2>5, <2>6 DEF Sound
<1> QED
  BY <1>16, <1>18, MovesKeep DEF Inv
-----------------------------------------------------------------------------
(* The exchange.                                                           *)

\* A capture registers if it has calls.
LEMMA PendingIs ==
  ASSUME Inv, NEW r \in Rank, pc[r] # "idle", Entries(r), recorded[r] = Len(program[capture[r]])
  PROVE  /\ capture[r] \in 1..Len(program) /\ Len(unreg[r]) \in Nat
         /\ Len(unreg[r]) = Count(Firsts(capture[r]), Len(program[capture[r]]))
         /\ unreg[r] # <<>> <=> capture[r] \in Registering
<1> DEFINE c == capture[r]
           n == Len(program[c])
<1>1. Shape /\ RecordedIs(r) /\ Len(unreg[r]) \in Nat /\ unreg[r] \in Seq(Address \X Nat)
  BY ShapeOf DEF Inv
<1>2. Len(program) \in Nat /\ c \in 1..Len(program)
  BY <1>1, ProgramFacts DEF RecordedIs
<1>3. n \in Nat
  BY <1>1, <1>2, ProgramFacts
<1>4. Len(unreg[r]) = Count(Firsts(c), n)
  BY DEF Entries
<1>5. ASSUME n > 0 PROVE Count(Firsts(c), n) # 0
  <2>1. 1 \in Firsts(c) \cap 1..n
    BY <1>1, <1>2, <1>3, <1>5, FirstFacts
  <2>2. IsFiniteSet(Firsts(c) \cap 1..n)
    BY <1>3, Finite
  <2> QED
    BY <2>1, <2>2, FS_EmptySet DEF Count
<1>6. ASSUME n = 0 PROVE Count(Firsts(c), n) = 0
  BY <1>6, Counts
<1>7. c \in Registering <=> n > 0
  BY <1>1, <1>2, FirstFacts
<1>8. unreg[r] = <<>> <=> Len(unreg[r]) = 0
  BY <1>1
<1> HIDE DEF n
<1> QED
  BY <1>1, <1>2, <1>3, <1>4, <1>5, <1>6, <1>7, <1>8 DEF n

\* The addresses of a rank's entries.
LEMMA AddressList ==
  ASSUME NEW u \in Seq(Address \X Nat), u # <<>>
  PROVE  LET L == [i \in DOMAIN u |-> u[i][1]]
         IN  L \in Seq(Address) \ {<<>>} /\ Len(L) = Len(u) /\ DOMAIN L = DOMAIN u
<1> DEFINE L == [i \in 1..Len(u) |-> u[i][1]]
<1>1. Len(u) \in Nat /\ DOMAIN u = 1..Len(u) /\ Len(u) > 0
  OBVIOUS
<1>2. \A i \in 1..Len(u) : u[i][1] \in Address
  BY <1>1
<1>3. L \in [1..Len(u) -> Address]
  BY <1>2
<1>4. L \in Seq(Address) /\ Len(L) = Len(u) /\ DOMAIN L = 1..Len(u)
  BY <1>1, <1>3
<1>5. L # <<>>
  BY <1>1, <1>4
<1> QED
  BY <1>1, <1>4, <1>5

LEMMA EndKeeps == ASSUME Inv, NEW r \in Rank, End(r) PROVE Inv'
<1> USE DEF Pending
<1> DEFINE c == capture[r]
           L == [i \in DOMAIN unreg[r] |-> unreg[r][i][1]]
<1>1. /\ pc[r] = "capturing" /\ recorded[r] = Len(Calls(r))
      /\ UNCHANGED <<caller, recording, unreg, table, entry, faults>>
      /\ capture' = capture /\ recorded' = recorded /\ ptrs' = ptrs /\ graph' = graph
  BY DEF End, recording
<1>2. Shape /\ RecordedIs(r) /\ Tabled(r)
  BY DEF Inv
<1>3. /\ c \in 1..Len(program) /\ c \in Nat /\ recorded[r] = Len(program[c])
      /\ posted[r] \in Seq(Seq(Address) \ {<<>>}) /\ Len(posted[r]) \in Nat
      /\ program' = program /\ address' = address /\ unreg[r] \in Seq(Address \X Nat)
      /\ Len(program) \in Nat
  BY <1>1, <1>2, NextCall, ShapeOf, Frame, ProgramFacts
<1>4. c - 1 \in Nat /\ c = (c - 1) + 1
  BY <1>3
<1>5. RecordedIs(r)' /\ Tabled(r)'
  BY <1>1, <1>2, <1>3 DEF RecordedIs, Tabled
<1>6. Sound(r) => Shared(r)' /\ Filled(r)'
  BY <1>1, Frame DEF Sound, Shared, Filled
<1>7. CASE Pending(r)
  <2>1. pc' = [pc EXCEPT ![r] = "exchange"] /\ posted' = [posted EXCEPT ![r] = Append(@, L)]
    BY <1>7 DEF End, Goto
  <2>2. L \in Seq(Address) \ {<<>>} /\ Len(L) = Len(unreg[r]) /\ DOMAIN L = DOMAIN unreg[r]
    BY <1>3, <1>7, AddressList
  <2>3. \A k \in DOMAIN L : L[k] = unreg[r][k][1]
    OBVIOUS
  <2> HIDE DEF L
  <2>4. /\ posted'[r] = Append(posted[r], L) /\ Len(posted'[r]) = Len(posted[r]) + 1
        /\ posted'[r][Len(posted[r]) + 1] = L /\ posted'[r] \in Seq(Seq(Address) \ {<<>>})
        /\ DOMAIN posted'[r] = 1..(Len(posted[r]) + 1) /\ DOMAIN posted[r] = 1..Len(posted[r])
        /\ \A e \in DOMAIN posted[r] : posted'[r][e] = posted[r][e]
    <3>1. posted'[r] = Append(posted[r], L)
      BY <1>2, <2>1 DEF Shape
    <3> QED
      BY <1>3, <2>2, <3>1
  <2>5. pc'[r] = "exchange"
    BY <1>2, <2>1 DEF Shape
  <2>6. Shape'
    <3>1. posted' \in [Rank -> Seq(Seq(Address) \ {<<>>})]
      BY <1>2, <2>1, <2>4 DEF Shape
    <3> QED
      BY <1>1, <1>2, <1>3, <2>1, <3>1 DEF Shape
  <2>7. \A q \in Rank : q # r => Still(q)
    BY <1>1, <1>2, <2>1 DEF Still, Shape
  <2>8. InExchange(r)'
    BY <1>1, <1>3, <2>4, <2>5 DEF InExchange
  <2>9. \A q \in Rank : Len(posted'[q]) >= Len(posted[q])
    <3> TAKE q \in Rank
    <3>1. CASE q = r
      BY <1>3, <2>4, <3>1
    <3>2. CASE q # r
      <4>1. posted'[q] = posted[q] /\ Len(posted[q]) \in Nat
        BY <1>2, <2>7, <3>2, ShapeOf DEF Still
      <4> QED
        BY <4>1
    <3> QED
      BY <3>1, <3>2
  <2>10. Moves(r)
    BY <1>1, <1>5, <2>6, <2>7, <2>8, <2>9 DEF Moves
  <2>11. ASSUME Sound(r) PROVE Sound(r)'
    <3>1. c \in Registering /\ Len(unreg[r]) = Count(Firsts(c), Len(program[c]))
      BY <1>1, <1>3, <1>7, <2>11, PendingIs DEF Sound
    <3>2. Count(Registering, c) = Count(Registering, c - 1) + 1
      BY <1>4, <3>1, Counts
    <3>3. Len(posted[r]) = Count(Registering, c - 1)
      BY <1>1, <2>11 DEF Sound, Numbered
    <3>4. Numbered(r)'
      BY <1>1, <2>4, <2>5, <3>2, <3>3, Frame DEF Numbered
    <3>5. Entries(r)
      BY <2>11 DEF Sound
    <3>6. Entries(r)'
      BY <1>1, <2>5, <3>5, Frame DEF Entries
    <3>7. Cached(r)'
      BY <2>5 DEF Cached
    <3>8. Posted(r)'
      <4>1. ASSUME NEW e \in DOMAIN posted'[r]
            PROVE  \E d \in Registering :
                     /\ Count(Registering, d) = e
                     /\ Len(posted'[r][e]) = Count(Firsts(d), Len(program[d]))
                     /\ \A k \in DOMAIN posted'[r][e] : \E i \in Firsts(d) :
                          Count(Firsts(d), i) = k /\ posted'[r][e][k] = AddressOf(r, d, i)
        <5>1. CASE e \in DOMAIN posted[r]
          BY <2>4, <2>11, <5>1 DEF Sound, Posted, PostedFor
        <5>2. CASE e \notin DOMAIN posted[r]
          <6>1. e = Len(posted[r]) + 1 /\ posted'[r][e] = L
            <7>1. e = Len(posted[r]) + 1
              BY <1>3, <2>4, <5>2
            <7> QED
              BY <2>4, <7>1
          <6>2. Count(Registering, c) = e
            BY <3>2, <3>3, <6>1
          <6>3. ASSUME NEW k \in DOMAIN L
                PROVE  \E i \in Firsts(c) : Count(Firsts(c), i) = k /\ L[k] = AddressOf(r, c, i)
            BY <1>1, <2>2, <2>3, <3>5 DEF Entries
          <6> QED
            BY <2>2, <3>1, <6>1, <6>2, <6>3
        <5> QED
          BY <5>1, <5>2
      <4> QED
        BY <1>1, <4>1, Frame DEF Posted, PostedFor
    <3> QED
      BY <1>6, <2>11, <3>4, <3>6, <3>7, <3>8 DEF Sound
  <2> QED
    BY <2>10, <2>11, MovesKeep DEF Inv
<1>8. CASE ~Pending(r)
  <2>1. pc' = [pc EXCEPT ![r] = "idle"] /\ posted' = posted /\ pc'[r] = "idle"
    BY <1>2, <1>8 DEF End, Shape
  <2>2. Shape'
    BY <1>1, <1>2, <1>3, <2>1 DEF Shape
  <2>3. \A q \in Rank : q # r => Still(q)
    BY <1>1, <1>2, <2>1 DEF Still, Shape
  <2>4. RecordedIs(r)' /\ InExchange(r)'
    BY <1>5, <2>1 DEF InExchange
  <2>5. \A q \in Rank : Len(posted'[q]) >= Len(posted[q])
    BY <1>2, <2>1, ShapeOf
  <2>6. Moves(r)
    BY <1>1, <1>5, <2>2, <2>3, <2>4, <2>5 DEF Moves
  <2>7. ASSUME Sound(r) PROVE Sound(r)'
    <3>1. c \notin Registering /\ unreg[r] = <<>>
      BY <1>1, <1>3, <1>8, <2>7, PendingIs DEF Sound
    <3>2. Count(Registering, c) = Count(Registering, c - 1)
      BY <1>4, <3>1, Counts
    <3>3. Numbered(r)'
      BY <1>1, <2>1, <2>7, <3>2, Frame DEF Sound, Numbered
    <3>4. Entries(r)' /\ Cached(r)'
      BY <1>1, <2>1, <3>1 DEF Entries, Cached
    <3>5. Posted(r)'
      BY <1>1, <2>1, <2>7, Frame DEF Sound, Posted, PostedFor
    <3> QED
      BY <1>6, <2>7, <3>3, <3>4, <3>5 DEF Sound
  <2> QED
    BY <2>6, <2>7, MovesKeep DEF Inv
<1> QED
  BY <1>7, <1>8

\* A step that leaves the lists alone.
LEMMA PostedStay ==
  ASSUME Shape, posted' = posted
  PROVE  \A q \in Rank : Len(posted'[q]) >= Len(posted[q])
BY ShapeOf

LEMMA ExchangedKeeps == ASSUME Inv, NEW r \in Rank, Exchanged(r) PROVE Inv'
<1>1. /\ pc[r] = "exchange" /\ pc' = [pc EXCEPT ![r] = "fill"]
      /\ entry' = [entry EXCEPT ![r] = 1]
      /\ \A q \in Rank : Len(posted[q]) >= Len(posted[r])
      /\ UNCHANGED <<caller, recording, unreg, table, posted, faults>>
      /\ capture' = capture /\ recorded' = recorded /\ ptrs' = ptrs /\ graph' = graph
  BY DEF Exchanged, Goto, recording
<1>2. Shape /\ RecordedIs(r) /\ Tabled(r) /\ InExchange(r)
  BY DEF Inv
<1>3. program' = program /\ address' = address
  BY <1>1, Frame
<1>4. pc'[r] = "fill" /\ entry'[r] = 1
  BY <1>1, <1>2 DEF Shape
<1>5. Shape'
  BY <1>1, <1>2, <1>3 DEF Shape
<1>6. \A q \in Rank : q # r => Still(q)
  BY <1>1, <1>2 DEF Still, Shape
<1>7. RecordedIs(r)' /\ Tabled(r)' /\ InExchange(r)'
  BY <1>1, <1>2, <1>3, <1>4 DEF RecordedIs, Tabled, InExchange
<1>8. Moves(r)
  BY <1>1, <1>2, <1>5, <1>6, <1>7, PostedStay DEF Moves
<1>9. ASSUME Sound(r) PROVE Sound(r)'
  <2>1. Posted(r)' /\ Shared(r)' /\ Filled(r)'
    BY <1>1, <1>9, Frame DEF Sound, Posted, PostedFor, Shared, Filled
  <2>2. Numbered(r)'
    BY <1>1, <1>4, <1>9, Frame DEF Sound, Numbered
  <2>3. Entries(r)'
    BY <1>1, <1>4, <1>9, Frame DEF Sound, Entries
  <2>4. Cached(r)'
    BY <1>4 DEF Cached
  <2> QED
    BY <2>1, <2>2, <2>3, <2>4 DEF Sound
<1> QED
  BY <1>8, <1>9, MovesKeep DEF Inv

\* What the ranks of an exchange have put into it is of the same capture.
LEMMA SameExchange ==
  ASSUME Inv, NEW r \in Rank, pc[r] = "fill", NEW k \in DOMAIN unreg[r],
         \A q \in Rank : Sound(q)
  PROVE  /\ Len(posted[r]) > 0 /\ capture[r] \in Registering
         /\ \A q \in Rank :
              /\ Len(posted[r]) \in DOMAIN posted[q]
              /\ PostedFor(q, Len(posted[r]), capture[r])
              /\ Len(ListOf(r, q)) = Len(unreg[r])
<1> DEFINE c == capture[r]
           e == Len(posted[r])
<1>1. /\ Shape /\ RecordedIs(r) /\ Entries(r) /\ Numbered(r)
      /\ e > 0 /\ recorded[r] = Len(program[c]) /\ \A q \in Rank : Len(posted[q]) >= e
  BY DEF Inv, InExchange, Sound
<1>2. c \in 1..Len(program) /\ Len(unreg[r]) = Count(Firsts(c), Len(program[c]))
      /\ (unreg[r] # <<>> => c \in Registering) /\ Registering \subseteq Nat \ {0}
  BY <1>1, PendingIs, FirstFacts
<1>3. c \in Registering
  BY <1>2
<1>4. e = Count(Registering, c) /\ e \in Nat
  BY <1>1, ShapeOf DEF Numbered
<1>5. ASSUME NEW q \in Rank
      PROVE  e \in DOMAIN posted[q] /\ PostedFor(q, e, c) /\ Len(ListOf(r, q)) = Len(unreg[r])
  <2>1. Len(posted[q]) \in Nat /\ DOMAIN posted[q] = 1..Len(posted[q]) /\ Len(posted[q]) >= e
    BY <1>1, ShapeOf
  <2>2. e \in DOMAIN posted[q]
    BY <1>1, <1>4, <2>1
  <2>3. PICK d \in Registering : PostedFor(q, e, d)
    BY <2>2 DEF Sound, Posted
  <2>4. Count(Registering, d) = Count(Registering, c)
    BY <1>4, <2>3 DEF PostedFor
  <2>5. d = c
    BY <1>2, <1>3, <2>4, CountOf
  <2>6. Len(ListOf(r, q)) = Len(unreg[r])
    BY <1>2, <2>3, <2>5 DEF PostedFor, ListOf
  <2> QED
    BY <2>2, <2>3, <2>5, <2>6
<1> QED
  BY <1>1, <1>3, <1>5

\* The pointers of an entry are those of its tensor.
LEMMA Matched ==
  ASSUME Inv, NEW r \in Rank, pc[r] = "fill", entry[r] \in DOMAIN unreg[r],
         \A q \in Rank : Sound(q)
  PROVE  \E i \in Firsts(capture[r]) :
           /\ i \in DOMAIN graph[r][capture[r]]
           /\ unreg[r][entry[r]][2] = graph[r][capture[r]][i]
           /\ \A q \in Rank : Pointer(r, q) = AddressOf(q, capture[r], i)
<1> DEFINE c == capture[r]
           k == entry[r]
<1>1. Shape /\ RecordedIs(r) /\ c \in 1..Len(program) /\ recorded[r] \in Nat
      /\ Firsts(c) \subseteq Nat \ {0} /\ graph[r][c] \in Seq(Nat) /\ Len(graph[r][c]) = recorded[r]
  <2>1. Shape /\ RecordedIs(r)
    BY DEF Inv
  <2>2. c \in 1..Len(program)
    BY <2>1, ProgramFacts DEF RecordedIs
  <2> QED
    BY <2>1, <2>2, FirstFacts, ShapeOf DEF RecordedIs
<1>2. PICK i \in Firsts(c) : /\ i <= recorded[r] /\ Count(Firsts(c), i) = k
                             /\ unreg[r][k][2] = graph[r][c][i]
  BY DEF Sound, Entries
<1>3. i \in DOMAIN graph[r][c]
  BY <1>1, <1>2
<1>4. ASSUME NEW q \in Rank PROVE Pointer(r, q) = AddressOf(q, c, i)
  <2>1. Len(posted[r]) \in DOMAIN posted[q] /\ PostedFor(q, Len(posted[r]), c)
        /\ Len(ListOf(r, q)) = Len(unreg[r])
    BY SameExchange
  <2>0. /\ posted[q] \in Seq(Seq(Address) \ {<<>>})
        /\ Len(unreg[r]) \in Nat /\ unreg[r] \in Seq(Address \X Nat)
    BY <1>1, ShapeOf
  <2>a. ListOf(r, q) \in Seq(Address)
    BY <2>0, <2>1 DEF ListOf
  <2>2. ListOf(r, q) \in Seq(Address) /\ Len(unreg[r]) \in Nat /\ unreg[r] \in Seq(Address \X Nat)
    BY <2>0, <2>a
  <2>3. k \in DOMAIN ListOf(r, q)
    BY <2>1, <2>2
  <2>4. PICK j \in Firsts(c) : Count(Firsts(c), j) = k /\ ListOf(r, q)[k] = AddressOf(q, c, j)
    BY <2>1, <2>3 DEF PostedFor, ListOf
  <2>5. j = i
    BY <1>1, <1>2, <2>4, CountOf
  <2> QED
    BY <2>4, <2>5 DEF Pointer
<1> QED
  BY <1>2, <1>3, <1>4

\* An element of a sequence is replaced by another.
LEMMA Replaced ==
  ASSUME NEW S, NEW s \in Seq(S), NEW i \in DOMAIN s, NEW x \in S
  PROVE  [s EXCEPT ![i] = x] \in Seq(S)
<1>1. Len(s) \in Nat /\ s \in [1..Len(s) -> S] /\ DOMAIN s = 1..Len(s)
  OBVIOUS
<1>2. [s EXCEPT ![i] = x] \in [1..Len(s) -> S]
  BY <1>1
<1> QED
  BY <1>1, <1>2

LEMMA FillKeeps == ASSUME Inv, NEW r \in Rank, Fill(r) PROVE Inv'
<1> DEFINE c == capture[r]
           k == entry[r]
           m == unreg[r][k][2]
           P == [q \in Rank |-> Pointer(r, q)]
<1>1. /\ pc[r] = "fill" /\ k <= Len(unreg[r]) /\ \A q \in Rank : k <= Len(ListOf(r, q))
      /\ table' = [table EXCEPT ![r][m] = P]
      /\ entry' = [entry EXCEPT ![r] = @ + 1]
      /\ UNCHANGED <<caller, pc, recording, unreg, posted, faults>>
      /\ capture' = capture /\ recorded' = recorded /\ ptrs' = ptrs /\ graph' = graph
  BY DEF Fill, recording
<1>2. Shape /\ RecordedIs(r) /\ Tabled(r) /\ InExchange(r)
  BY DEF Inv
<1>3. program' = program /\ address' = address
  BY <1>1, Frame
<1>4. k \in Nat /\ k > 0 /\ k \in DOMAIN unreg[r] /\ m \in DOMAIN table[r]
      /\ table[r] \in Seq({<<>>} \cup [Rank -> Address])
  <2>1. k \in Nat /\ k > 0
    BY <1>1, <1>2 DEF Shape, InExchange
  <2>2. unreg[r] \in Seq(Address \X Nat) /\ Len(unreg[r]) \in Nat
        /\ table[r] \in Seq({<<>>} \cup [Rank -> Address])
    BY <1>2, ShapeOf
  <2>3. k \in DOMAIN unreg[r]
    BY <1>1, <2>1, <2>2
  <2> QED
    BY <1>2, <2>1, <2>2, <2>3 DEF Tabled
<1>5. P \in [Rank -> Address]
  <2> SUFFICES ASSUME NEW q \in Rank PROVE Pointer(r, q) \in Address
    OBVIOUS
  <2>1. Len(posted[r]) > 0 /\ Len(posted[q]) >= Len(posted[r])
        /\ Len(posted[r]) \in Nat /\ Len(posted[q]) \in Nat
        /\ posted[q] \in Seq(Seq(Address) \ {<<>>})
    BY <1>1, <1>2, ShapeOf DEF InExchange
  <2>2. ListOf(r, q) \in Seq(Address)
    BY <2>1 DEF ListOf
  <2> QED
    BY <1>1, <1>4, <2>2 DEF Pointer
<1> HIDE DEF m, P
<1>6. /\ table' = [table EXCEPT ![r] = [table[r] EXCEPT ![m] = P]]
      /\ [table[r] EXCEPT ![m] = P] \in Seq({<<>>} \cup [Rank -> Address])
      /\ table'[r] = [table[r] EXCEPT ![m] = P]
  <2>1. table' = [table EXCEPT ![r] = [table[r] EXCEPT ![m] = P]]
    BY <1>1
  <2>2. [table[r] EXCEPT ![m] = P] \in Seq({<<>>} \cup [Rank -> Address])
    <3>1. P \in {<<>>} \cup [Rank -> Address]
      BY <1>5
    <3> QED
      BY <1>4, <3>1, Replaced, Zenon
  <2> QED
    BY <1>2, <2>1, <2>2 DEF Shape
<1>7. /\ DOMAIN table'[r] = DOMAIN table[r] /\ table'[r][m] = P
      /\ \A i \in DOMAIN table[r] : i # m => table'[r][i] = table[r][i]
  BY <1>4, <1>6
<1>8. Shape'
  <2>1. table' \in [Rank -> Seq({<<>>} \cup [Rank -> Address])]
    BY <1>2, <1>6 DEF Shape
  <2>2. entry' \in [Rank -> Nat]
    BY <1>1, <1>2 DEF Shape
  <2>3. pc' = pc /\ unreg' = unreg /\ posted' = posted /\ faults' = faults
    BY <1>1
  <2> QED
    BY <1>1, <1>2, <1>3, <2>1, <2>2, <2>3 DEF Shape
<1>9. \A q \in Rank : q # r => Still(q)
  BY <1>1, <1>2, <1>6 DEF Still, Shape
<1>10. RecordedIs(r)' /\ Tabled(r)'
  BY <1>1, <1>2, <1>3, <1>7 DEF RecordedIs, Tabled
<1>11. InExchange(r)'
  <2>1. entry'[r] = k + 1 /\ k + 1 > 0
    BY <1>1, <1>2, <1>4 DEF Shape
  <2> QED
    BY <1>1, <1>2, <1>3, <2>1 DEF InExchange
<1>12. Moves(r)
  BY <1>1, <1>2, <1>8, <1>9, <1>10, <1>11, PostedStay DEF Moves
<1>13. ASSUME \A q \in Rank : Sound(q) PROVE Sound(r)'
  <2>1. Posted(r)' /\ Shared(r)' /\ Numbered(r)' /\ Entries(r)' /\ Cached(r)'
    <3>1. Sound(r) /\ pc[r] = "fill" /\ pc' = pc
      BY <1>1, <1>13
    <3>2. Posted(r)' /\ Numbered(r)'
      BY <1>1, <3>1, Frame DEF Sound, Posted, PostedFor, Numbered
    <3>3. Shared(r)' /\ Cached(r)'
      BY <1>1, <3>1, Frame DEF Sound, Shared, Cached
    <3>4. Entries(r)'
      BY <1>1, <3>1, Frame DEF Sound, Entries
    <3> QED
      BY <3>2, <3>3, <3>4
  <2>2. PICK i \in Firsts(c) : /\ i \in DOMAIN graph[r][c] /\ m = graph[r][c][i]
                               /\ \A q \in Rank : Pointer(r, q) = AddressOf(q, c, i)
    BY <1>1, <1>4, <1>13, Matched DEF m
  <2>3. Filled(r)'
    <3> SUFFICES ASSUME NEW d \in 1..Len(program), NEW j \in DOMAIN graph[r][d],
                        table'[r][graph[r][d][j]] # <<>>, NEW q \in Rank
                 PROVE  table'[r][graph[r][d][j]][q] = AddressOf(q, d, j)
      BY <1>1, <1>3, Frame DEF Filled
    <3>1. graph[r][d][j] \in DOMAIN table[r] /\ c \in 1..Len(program)
      BY <1>1, <1>2, ProgramFacts DEF RecordedIs
    <3>2. CASE graph[r][d][j] # m
      BY <1>7, <1>13, <3>1, <3>2 DEF Sound, Filled
    <3>3. CASE graph[r][d][j] = m
      <4>1. d = c /\ program[d][j] = program[c][i]
        BY <1>13, <2>2, <3>1, <3>3 DEF Sound, Shared
      <4>2. AddressOf(q, d, j) = AddressOf(q, c, i)
        BY <4>1 DEF AddressOf
      <4> QED
        BY <1>7, <2>2, <3>3, <4>2 DEF P
    <3> QED
      BY <3>2, <3>3
  <2> QED
    BY <2>1, <2>3 DEF Sound
<1> QED
  BY <1>12, <1>13, MovesKeep DEF Inv

\* Without a failed open every rank finds the lists it needs.
LEMMA TooShortKeeps == ASSUME Inv, NEW r \in Rank, TooShort(r) PROVE Inv'
<1>1. /\ pc[r] = "fill" /\ pc' = [pc EXCEPT ![r] = "idle"] /\ entry[r] <= Len(unreg[r])
      /\ \E q \in Rank : entry[r] > Len(ListOf(r, q))
      /\ UNCHANGED <<caller, recording, unreg, table, posted, entry, faults>>
      /\ capture' = capture /\ recorded' = recorded /\ ptrs' = ptrs /\ graph' = graph
  BY DEF TooShort, Goto, recording
<1>2. Shape /\ RecordedIs(r) /\ Tabled(r) /\ InExchange(r)
  BY DEF Inv
<1>3. program' = program /\ address' = address
  BY <1>1, Frame
<1>4. Shape' /\ pc'[r] = "idle"
  BY <1>1, <1>2, <1>3 DEF Shape
<1>5. \A q \in Rank : q # r => Still(q)
  BY <1>1, <1>2 DEF Still, Shape
<1>6. RecordedIs(r)' /\ Tabled(r)' /\ InExchange(r)'
  BY <1>1, <1>2, <1>3, <1>4 DEF RecordedIs, Tabled, InExchange
<1>7. Moves(r)
  BY <1>1, <1>2, <1>4, <1>5, <1>6, PostedStay DEF Moves
<1>8. ASSUME \A q \in Rank : Sound(q) PROVE FALSE
  <2>1. unreg[r] \in Seq(Address \X Nat) /\ Len(unreg[r]) \in Nat /\ entry[r] \in Nat /\ entry[r] > 0
    BY <1>1, <1>2, ShapeOf DEF InExchange, Shape
  <2>2. entry[r] \in DOMAIN unreg[r]
    BY <1>1, <2>1
  <2>3. \A q \in Rank : Len(ListOf(r, q)) = Len(unreg[r])
    BY <1>1, <1>8, <2>2, SameExchange
  <2> QED
    BY <1>1, <2>1, <2>3
<1> QED
  BY <1>7, <1>8, MovesKeep DEF Inv

LEMMA HandleFailsKeeps == ASSUME Inv, NEW r \in Rank, HandleFails(r) PROVE Inv'
<1>1. /\ pc[r] = "capturing" /\ pc' = [pc EXCEPT ![r] = "idle"] /\ faults' = faults + 1
      /\ UNCHANGED <<caller, recording, unreg, table, posted, entry>>
      /\ capture' = capture /\ recorded' = recorded /\ ptrs' = ptrs /\ graph' = graph
  BY DEF HandleFails, Goto, recording
<1>2. Shape /\ RecordedIs(r) /\ Tabled(r) /\ faults \in Nat
  BY DEF Inv, Shape
<1>3. program' = program /\ address' = address
  BY <1>1, Frame
<1>4. Shape' /\ pc'[r] = "idle" /\ faults' # 0
  <2>1. faults' \in Nat /\ faults' # 0
    BY <1>1, <1>2
  <2> QED
    BY <1>1, <1>2, <1>3, <2>1 DEF Shape
<1>5. \A q \in Rank : q # r => Still(q)
  BY <1>1, <1>2 DEF Still, Shape
<1>6. RecordedIs(r)' /\ Tabled(r)' /\ InExchange(r)'
  BY <1>1, <1>2, <1>3, <1>4 DEF RecordedIs, Tabled, InExchange
<1>7. Moves(r)
  BY <1>1, <1>2, <1>4, <1>5, <1>6, PostedStay DEF Moves
<1> QED
  BY <1>4, <1>7, MovesKeep

LEMMA OpenFailsKeeps == ASSUME Inv, NEW r \in Rank, OpenFails(r) PROVE Inv'
<1>1. /\ pc[r] = "fill" /\ pc' = [pc EXCEPT ![r] = "idle"] /\ faults' = faults + 1
      /\ UNCHANGED <<caller, recording, unreg, table, posted, entry>>
      /\ capture' = capture /\ recorded' = recorded /\ ptrs' = ptrs /\ graph' = graph
  BY DEF OpenFails, Goto, recording
<1>2. Shape /\ RecordedIs(r) /\ Tabled(r) /\ faults \in Nat
  BY DEF Inv, Shape
<1>3. program' = program /\ address' = address
  BY <1>1, Frame
<1>4. Shape' /\ pc'[r] = "idle" /\ faults' # 0
  <2>1. faults' \in Nat /\ faults' # 0
    BY <1>1, <1>2
  <2> QED
    BY <1>1, <1>2, <1>3, <2>1 DEF Shape
<1>5. \A q \in Rank : q # r => Still(q)
  BY <1>1, <1>2 DEF Still, Shape
<1>6. RecordedIs(r)' /\ Tabled(r)' /\ InExchange(r)'
  BY <1>1, <1>2, <1>3, <1>4 DEF RecordedIs, Tabled, InExchange
<1>7. Moves(r)
  BY <1>1, <1>2, <1>4, <1>5, <1>6, PostedStay DEF Moves
<1> QED
  BY <1>4, <1>7, MovesKeep

LEMMA RegisteredKeeps == ASSUME Inv, NEW r \in Rank, Registered(r) PROVE Inv'
<1> USE DEF Cleared
<1>1. /\ pc[r] = "fill" /\ pc' = [pc EXCEPT ![r] = "idle"]
      /\ unreg' = [unreg EXCEPT ![r] = <<>>]
      /\ UNCHANGED <<caller, recording, table, posted, entry, faults>>
      /\ capture' = capture /\ recorded' = recorded /\ ptrs' = ptrs /\ graph' = graph
  BY DEF Registered, Goto, recording
<1>2. Shape /\ RecordedIs(r) /\ Tabled(r)
  BY DEF Inv
<1>3. program' = program /\ address' = address
  BY <1>1, Frame
<1>4. Shape' /\ pc'[r] = "idle" /\ unreg'[r] = <<>>
  <2>1. /\ pc' \in [Rank -> {"idle", "capturing", "exchange", "fill"}] /\ pc'[r] = "idle"
    BY <1>1, <1>2 DEF Shape
  <2>5. unreg' \in [Rank -> Seq(Address \X Nat)] /\ unreg'[r] = <<>>
    <3>1. unreg \in [Rank -> Seq(Address \X Nat)] /\ unreg' = [unreg EXCEPT ![r] = <<>>]
      BY <1>1, <1>2 DEF Shape
    <3> QED
      BY <3>1
  <2>2. program' \in Programs
        /\ address' \in [Rank -> [1..Len(program') -> {f \in [Tensor -> Address] : Injective(f)}]]
    BY <1>2, <1>3 DEF Shape
  <2>3. /\ capture' \in [Rank -> Nat] /\ recorded' \in [Rank -> Nat] /\ entry' \in [Rank -> Nat]
        /\ DOMAIN ptrs' = Rank /\ faults' \in Nat
        /\ table' \in [Rank -> Seq({<<>>} \cup [Rank -> Address])]
        /\ posted' \in [Rank -> Seq(Seq(Address) \ {<<>>})]
    BY <1>1, <1>2 DEF Shape
  <2>4. graph' \in [Rank -> [1..Len(program') -> Seq(Nat)]]
    BY <1>1, <1>2, <1>3 DEF Shape
  <2> QED
    BY <2>1, <2>2, <2>3, <2>4, <2>5 DEF Shape
<1>5. \A q \in Rank : q # r => Still(q)
  BY <1>1, <1>2 DEF Still, Shape
<1>6. RecordedIs(r)' /\ Tabled(r)' /\ InExchange(r)'
  BY <1>1, <1>2, <1>3, <1>4 DEF RecordedIs, Tabled, InExchange
<1>7. Moves(r)
  BY <1>1, <1>2, <1>4, <1>5, <1>6, PostedStay DEF Moves
<1>8. ASSUME Sound(r) PROVE Sound(r)'
  <2>1. Posted(r)' /\ Shared(r)' /\ Filled(r)'
    BY <1>1, <1>8, Frame DEF Sound, Posted, PostedFor, Shared, Filled
  <2>2. Numbered(r)' /\ Entries(r)' /\ Cached(r)'
    BY <1>1, <1>4, <1>8, Frame DEF Sound, Numbered, Entries, Cached
  <2> QED
    BY <2>1, <2>2 DEF Sound
<1> QED
  BY <1>7, <1>8, MovesKeep DEF Inv
-----------------------------------------------------------------------------
(* The theorems.                                                           *)

LEMMA InitHolds == Init => Inv
<1> SUFFICES ASSUME Init PROVE Inv
  OBVIOUS
<1>1. Shape
  <2>1. program \in Seq(Seq(Tensor))
    BY ConstantsAssumption DEF Init
  <2>2. <<>> \in Seq(Address \X Nat) /\ <<>> \in Seq({<<>>} \cup [Rank -> Address])
        /\ <<>> \in Seq(Nat) /\ <<>> \in Seq(Seq(Address) \ {<<>>})
    OBVIOUS
  <2> QED
    BY <2>2 DEF Init, Shape
<1>2. ASSUME NEW r \in Rank
      PROVE  /\ RecordedIs(r) /\ InExchange(r) /\ Tabled(r)
             /\ Posted(r) /\ Numbered(r) /\ Entries(r) /\ Shared(r) /\ Cached(r) /\ Filled(r)
  <2>1. /\ pc[r] = "idle" /\ capture[r] = 0 /\ recorded[r] = 0
        /\ unreg[r] = <<>> /\ ptrs[r] = <<>> /\ table[r] = <<>> /\ posted[r] = <<>>
        /\ \A c \in 1..Len(program) : graph[r][c] = <<>>
    BY DEF Init
  <2>2. DOMAIN <<>> = {} /\ Len(<<>>) = 0
    OBVIOUS
  <2>3. Count(Registering, 0) = 0
    BY Counts
  <2>4. \A c \in 1..Len(program) : Len(program[c]) \in Nat
    BY <1>1, ProgramFacts
  <2>5. Len(program) \in Nat
    BY <1>1, ProgramFacts
  <2>6. RecordedIs(r) /\ InExchange(r) /\ Tabled(r)
    BY <2>1, <2>2, <2>4, <2>5 DEF RecordedIs, InExchange, Tabled
  <2>7. Posted(r) /\ Numbered(r) /\ Entries(r) /\ Cached(r)
    BY <2>1, <2>2, <2>3 DEF Posted, Numbered, Entries, Cached
  <2>8. Shared(r) /\ Filled(r)
    BY <2>1, <2>2 DEF Shared, Filled
  <2> QED
    BY <2>6, <2>7, <2>8
<1> QED
  BY <1>1, <1>2 DEF Inv, Sound

LEMMA InvNext == Inv /\ [Next]_vars => Inv'
<1> SUFFICES ASSUME Inv, [Next]_vars PROVE Inv'
  OBVIOUS
<1>1. CASE UNCHANGED vars
  <2>1. Shape' /\ UNCHANGED caller /\ faults' = faults /\ posted' = posted
    BY <1>1 DEF Inv, Shape, vars, recording, caller
  <2>2. \A q \in Rank : Still(q)
    BY <1>1 DEF Still, vars, recording
  <2>3. \A q \in Rank : RecordedIs(q)' /\ Tabled(q)' /\ (Sound(q) => Sound(q)')
    BY <2>1, <2>2, StillKeeps DEF Inv
  <2>4. \A q \in Rank : InExchange(q)'
    BY <1>1, <2>1, Frame DEF Inv, InExchange, vars, recording
  <2> QED
    BY <2>1, <2>3, <2>4 DEF Inv
<1>2. CASE Next
  <2>1. PICK r \in Rank : Step(r)
    BY <1>2 DEF Next
  <2> QED
    BY <2>1, BeginKeeps, RecordAgainKeeps, RecordKeeps, EndKeeps, HandleFailsKeeps, ExchangedKeeps,
       FillKeeps, TooShortKeeps, OpenFailsKeeps, RegisteredKeeps DEF Step
<1> QED
  BY <1>1, <1>2

LEMMA Invariance == Spec => []Inv
BY InitHolds, InvNext, PTL DEF Spec

\* What is noted of a registration that raised is its rank and its capture.
RaisedTyped == raised \subseteq Rank \X (1..Len(program)) \X {"ahead", "behind"}

LEMMA RaisedStays == Inv /\ RaisedTyped /\ [Next]_vars => RaisedTyped'
<1> SUFFICES ASSUME Inv, RaisedTyped, [Next]_vars PROVE RaisedTyped'
  OBVIOUS
<1>1. CASE UNCHANGED vars
  BY <1>1 DEF RaisedTyped, vars, caller
<1>2. ASSUME NEW r \in Rank, Step(r) PROVE RaisedTyped'
  <2>1. CASE Begin(r) \/ RecordAgain(r) \/ Record(r) \/ End(r) \/ Exchanged(r) \/ Fill(r) \/ Registered(r)
    BY <2>1 DEF RaisedTyped, Begin, RecordAgain, Record, End, Exchanged, Fill, Registered, caller
  <2>2. CASE HandleFails(r) \/ TooShort(r) \/ OpenFails(r)
    <3>1. program' = program /\ pc[r] # "idle" /\ (Raise(r, "ahead") \/ Raise(r, "behind"))
      BY <2>2 DEF HandleFails, TooShort, OpenFails, Goto, caller
    <3>2. capture[r] \in 1..Len(program)
      <4>1. RecordedIs(r) /\ Len(program) \in Nat
        BY ProgramFacts DEF Inv
      <4> QED
        BY <3>1, <4>1 DEF RecordedIs
    <3> QED
      BY <3>1, <3>2 DEF RaisedTyped, Raise
  <2> QED
    BY <1>2, <2>1, <2>2 DEF Step
<1> QED
  BY <1>1, <1>2 DEF Next

LEMMA RaisedInvariance == Spec => []RaisedTyped
<1>1. Init => RaisedTyped
  BY DEF Init, RaisedTyped
<1> QED
  BY <1>1, RaisedStays, Invariance, PTL DEF Spec

\* The variables are always of the types TypeOK gives.
THEOREM TypeCorrect == Spec => []TypeOK
<1>1. Inv /\ RaisedTyped => TypeOK
  <2> SUFFICES ASSUME Inv, RaisedTyped PROVE TypeOK
    OBVIOUS
  <2>1. Shape /\ \A r \in Rank : RecordedIs(r) /\ Tabled(r)
    BY DEF Inv
  <2>2. capture \in [Rank -> 0..Len(program)]
    BY <2>1 DEF Shape, RecordedIs
  <2>3. ASSUME NEW r \in Rank
        PROVE  /\ \A i \in DOMAIN unreg[r] : unreg[r][i] \in Address \X DOMAIN table[r]
               /\ \A i \in DOMAIN table[r] : table[r][i] \in {<<>>} \cup [Rank -> Address]
               /\ \A i \in DOMAIN posted[r] : posted[r][i] \in Seq(Address) \ {<<>>}
    <3>1. /\ unreg[r] \in Seq(Address \X Nat) /\ table[r] \in Seq({<<>>} \cup [Rank -> Address])
          /\ posted[r] \in Seq(Seq(Address) \ {<<>>})
      BY <2>1, ShapeOf
    <3>2. ASSUME NEW i \in DOMAIN unreg[r] PROVE unreg[r][i] \in Address \X DOMAIN table[r]
      <4>1. unreg[r][i] \in Address \X Nat
        BY <3>1
      <4>2. unreg[r][i][2] \in DOMAIN table[r]
        BY <2>1 DEF Tabled
      <4> QED
        BY <4>1, <4>2
    <3> QED
      BY <3>1, <3>2
  <2> QED
    BY <2>1, <2>2, <2>3 DEF TypeOK, Shape, Tabled, RaisedTyped
<1> QED
  BY <1>1, Invariance, RaisedInvariance, PTL

\* A recorded call has the pointers of the same call on every peer, once it has
\* any, as long as no registration has raised.
THEOREM PointersAlign == Spec => []Aligned
<1>1. Inv => Aligned
  BY DEF Inv, Sound, Filled, AddressOf, Aligned, PeersAgree
<1> QED
  BY <1>1, Invariance, PTL

\* Each table is exchanged once, as long as no registration has raised.
THEOREM EntriesAreOwn == Spec => []OwnEntries
<1>1. Inv => OwnEntries
  <2> SUFFICES ASSUME Inv, faults = 0, NEW r \in Rank, NEW k \in DOMAIN unreg[r], pc[r] # "idle"
               PROVE  \E j \in DOMAIN graph[r][capture[r]] :
                        graph[r][capture[r]][j] = unreg[r][k][2]
    BY DEF OwnEntries
  <2> DEFINE c == capture[r]
  <2>1. Shape /\ RecordedIs(r) /\ Entries(r)
    BY DEF Inv, Sound
  <2>2. c \in 1..Len(program)
    BY <2>1, ProgramFacts DEF RecordedIs
  <2>3. /\ graph[r][c] \in Seq(Nat) /\ Len(graph[r][c]) = recorded[r] /\ recorded[r] \in Nat
        /\ Firsts(c) \subseteq Nat \ {0}
    BY <2>1, <2>2, FirstFacts, ShapeOf DEF RecordedIs
  <2>4. PICK i \in Firsts(c) : i <= recorded[r] /\ unreg[r][k][2] = graph[r][c][i]
    BY <2>1 DEF Entries
  <2>5. i \in DOMAIN graph[r][c]
    BY <2>3, <2>4
  <2> QED
    BY <2>4, <2>5
<1> QED
  BY <1>1, Invariance, PTL
=============================================================================
