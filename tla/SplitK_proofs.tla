--------------------------- MODULE SplitK_proofs ---------------------------
(***************************************************************************)
(* Summed for any number of tiles, splits, waves, slots and launches, in   *)
(* the stream torch works in.                                              *)
(***************************************************************************)
EXTENDS SplitK, FiniteSetTheorems, TLAPS

TypeOK ==
  /\ zeroed \in BOOLEAN
  /\ tiles \in 0 .. MaxTiles
  /\ splits \in 0 .. MaxSplits
  /\ pc \in [Groups -> [Waves -> Steps]]
  /\ semaphore \in [Tiles -> Nat]
  /\ signal \in [Tiles -> 0 .. 1]
  /\ flying \subseteq Ops
  /\ out \in [Tiles -> [Waves -> [init : BOOLEAN, adds : SUBSET Splits]]]

First(t) == <<t, 0>>
\* The stores of the tile's initial value have reached memory.
Initialised(t) == \A w \in Waves : pc[First(t)][w] \notin BeforeInit

\* Nothing runs before the words are zero, nor outside the launch.
Placed ==
  /\ ~zeroed => tiles = 0 /\ splits = 0
  /\ \A g \in Groups \ Grid : \A w \in Waves : pc[g][w] = "idle"

\* What the barriers and the signal order.
Phases ==
  \A g \in Groups, w \in Waves :
    /\ SplitOf(g) # 0 => pc[g][w] \notin {"zero", "stored", "init"}
    /\ SplitOf(g) = 0 /\ pc[g][w] \notin BeforeInit \cup {"init"} => Initialised(TileOf(g))
    /\ pc[g][w] \notin BeforeAdded => \A v \in Waves : pc[g][v] \notin BeforeReady
    /\ pc[g][Leader] \notin BeforeReady => Initialised(TileOf(g))
    /\ pc[g][w] \in {"reset", "signal"} => w = Leader

InFlight ==
  \A g \in Groups, w \in Waves :
    /\ Store(g, w) \in flying => SplitOf(g) = 0 /\ pc[g][w] = "stored"
    /\ Add(g, w) \in flying => pc[g][w] \notin BeforeAdded

Signalled == zeroed => \A t \in Tiles : signal[t] # 0 => Initialised(t)

\* What a part holds, by where the waves are and what is in flight.
Landed(t, p) == pc[First(t)][p] \notin {"idle", "zero"} /\ Store(First(t), p) \notin flying
HasAdded(t, s, p) ==
  \E w \in Waves :
    AddsTo[w] = p /\ pc[<<t, s>>][w] \notin BeforeAdded /\ Add(<<t, s>>, w) \notin flying
Value(t, p) ==
  IF Landed(t, p) THEN [init |-> TRUE, adds |-> {s \in Splits : HasAdded(t, s, p)}] ELSE Junk
Valued == \A t \in Tiles, p \in Waves : out[t][p] = Value(t, p)

\* The semaphore counts the splits whose leader has arrived, until the last resets it.
All == 0 .. splits - 1
LeaderAt(t, s) == pc[<<t, s>>][Leader]
Arrived(t) == {s \in All : LeaderAt(t, s) \in {"reset", "signal", "leave", "end"}}
NoneResets(t, S) == \A s \in S : LeaderAt(t, s) \notin {"reset", "signal"}
Counting(t) ==
  Arrived(t) # All /\ semaphore[t] = Cardinality(Arrived(t)) /\ NoneResets(t, All)
Last(t) ==
  /\ Arrived(t) = All
  /\ \E s \in All :
       /\ LeaderAt(t, s) \in {"reset", "signal"}
       /\ LeaderAt(t, s) = "signal" => semaphore[t] = 0
       /\ NoneResets(t, All \ {s})
Clear(t) == Arrived(t) = All /\ NoneResets(t, All) /\ semaphore[t] = 0 /\ signal[t] = 0
Counted == zeroed => \A t \in Tiles : Counting(t) \/ Last(t) \/ Clear(t)

Inv == TypeOK /\ Placed /\ Phases /\ InFlight /\ Signalled /\ Valued /\ Counted

-----------------------------------------------------------------------------
\* A tile's first workgroup is the one that initialises it.
LEMMA FirstIsGroup ==
  /\ \A t \in Tiles : First(t) \in Groups /\ TileOf(First(t)) = t /\ SplitOf(First(t)) = 0
  /\ \A g \in Groups : /\ TileOf(g) \in Tiles
                       /\ SplitOf(g) \in Splits
                       /\ g = <<TileOf(g), SplitOf(g)>>
                       /\ SplitOf(g) = 0 => g = First(TileOf(g))
BY SplitKAssumption DEF First, Groups, Tiles, Splits, TileOf, SplitOf

\* Stores and adds of different waves are different operations.
LEMMA OpsDiffer ==
  \A g, h \in Groups : \A v, w \in Waves :
    /\ Store(g, v) \in Ops /\ Add(g, v) \in Ops
    /\ Store(g, v) # Add(h, w)
    /\ Store(g, v) = Store(h, w) => g = h /\ v = w
    /\ Add(g, v) = Add(h, w) => g = h /\ v = w
BY DEF Store, Add, Ops

\* What a step of one wave does to the places of all.
LEMMA OneMoves ==
  ASSUME TypeOK, NEW g \in Groups, NEW w \in Waves, NEW x \in Steps, Goes(g, w, x)
  PROVE  /\ pc' \in [Groups -> [Waves -> Steps]]
         /\ pc'[g][w] = x
         /\ \A h \in Groups, v \in Waves : h # g \/ v # w => pc'[h][v] = pc[h][v]
BY DEF TypeOK, Goes

\* The steps of a wave in program order.
Moves ==
  { <<"zero", "stored">>, <<"stored", "init">>, <<"init", "wait">>, <<"wait", "ready">>,
    <<"ready", "added">>, <<"added", "reset">>, <<"added", "leave">>, <<"reset", "signal">>,
    <<"signal", "leave">>, <<"leave", "end">> }

\* A wave that moves does not come back before a barrier it has passed.
LEMMA Onward ==
  \A m \in Moves :
    /\ m[1] # "idle"
    /\ m[2] \in Steps \ {"idle", "zero"}
    /\ m[1] \notin BeforeInit => m[2] \notin BeforeInit
    /\ m[1] \notin BeforeReady => m[2] \notin BeforeReady
    /\ m[1] \notin BeforeAdded => m[2] \notin BeforeAdded
BY DEF Moves, Steps, BeforeInit, BeforeReady, BeforeAdded

\* A wave moves only in the launch, and nothing else of it does.
LEMMA Forward ==
  ASSUME TypeOK, Placed, NEW g \in Groups, NEW w \in Waves, WaveStep(g, w)
  PROVE  /\ \E x \in Steps : <<pc[g][w], x>> \in Moves /\ Goes(g, w, x)
         /\ g \in Grid
         /\ UNCHANGED <<zeroed, launches, tiles, splits, out>>
         /\ zeroed
<1>1. \E x \in Steps : <<pc[g][w], x>> \in Moves /\ Goes(g, w, x)
  <2> DEFINE To(x) == <<pc[g][w], x>> \in Moves /\ Goes(g, w, x)
  <2>1. FinishSplit(g, w) => To("reset") \/ To("leave")
    BY DEF FinishSplit, At, Moves
  <2>2. \/ To("stored") \/ To("init") \/ To("wait") \/ To("ready") \/ To("added")
        \/ To("reset") \/ To("leave") \/ To("signal") \/ To("end")
    BY <2>1 DEF WaveStep, Zero, WaitStored, Raise, WaitUntilInitialized, AddProduct,
                ResetSemaphore, ResetSignal, Leave, At, Moves
  <2> QED BY <2>2 DEF Steps
<1>2. pc[g][w] # "idle"
  BY <1>1, Onward
<1>3. g \in Grid
  BY <1>2 DEF Placed
<1>4. zeroed
  BY <1>3, FirstIsGroup, SplitKAssumption DEF Placed, Grid, Tiles, TypeOK
<1>5. UNCHANGED <<zeroed, launches, tiles, splits, out>>
  BY DEF WaveStep, Zero, WaitStored, Raise, WaitUntilInitialized, AddProduct, FinishSplit,
         ResetSemaphore, ResetSignal, Leave
<1> QED BY <1>1, <1>3, <1>4, <1>5

\* Every step of a wave moves that wave and no other.
LEMMA WaveMoves ==
  ASSUME TypeOK, Placed, NEW g \in Groups, NEW w \in Waves, WaveStep(g, w)
  PROVE  /\ pc' \in [Groups -> [Waves -> Steps]]
         /\ <<pc[g][w], pc'[g][w]>> \in Moves
         /\ \A h \in Groups, v \in Waves : h # g \/ v # w => pc'[h][v] = pc[h][v]
<1>1. PICK x \in Steps : <<pc[g][w], x>> \in Moves /\ Goes(g, w, x)
  BY Forward
<1> QED BY <1>1, OneMoves

\* Every step keeps the types.
LEMMA TypeStep == TypeOK /\ Placed /\ [Next]_vars => TypeOK'
<1> SUFFICES ASSUME TypeOK, Placed, [Next]_vars PROVE TypeOK'
  OBVIOUS
<1> USE SplitKAssumption, FirstIsGroup
<1>1. CASE ZeroWords
  BY <1>1 DEF ZeroWords, TypeOK
<1>2. CASE Launch
  <2>1. tiles' \in Tiles /\ splits' \in 2 .. MaxSplits
    BY <1>2 DEF Launch
  <2>2. pc' \in [Groups -> [Waves -> Steps]]
    BY <1>2 DEF Launch, Steps
  <2>3. Junk \in [init : BOOLEAN, adds : SUBSET Splits]
    BY DEF Junk
  <2>4. out' \in [Tiles -> [Waves -> [init : BOOLEAN, adds : SUBSET Splits]]]
    BY <1>2, <2>3 DEF Launch
  <2>5. UNCHANGED <<zeroed, semaphore, signal, flying>>
    BY <1>2 DEF Launch
  <2>6. tiles' \in 0 .. MaxTiles /\ splits' \in 0 .. MaxSplits
    BY <2>1 DEF Tiles
  <2> QED BY <2>2, <2>4, <2>5, <2>6 DEF TypeOK
<1>3. ASSUME NEW g \in Groups, StartGroup(g) PROVE TypeOK'
  BY <1>3 DEF StartGroup, TypeOK, Steps
<1>4. ASSUME NEW g \in Groups, NEW w \in Waves, WaveStep(g, w) PROVE TypeOK'
  <2>1. pc' \in [Groups -> [Waves -> Steps]]
    BY <1>4, WaveMoves
  <2>2. semaphore' \in [Tiles -> Nat]
    <3>1. CASE FinishSplit(g, w)
      <4>1. semaphore' = semaphore \/ semaphore' = [semaphore EXCEPT ![TileOf(g)] = @ + 1]
        BY <3>1 DEF FinishSplit
      <4>2. TileOf(g) \in Tiles /\ semaphore[TileOf(g)] + 1 \in Nat
        BY DEF TypeOK
      <4>3. semaphore \in [Tiles -> Nat]
        BY DEF TypeOK
      <4> HIDE SplitKAssumption, FirstIsGroup
      <4> QED BY <4>1, <4>2, <4>3
    <3>2. CASE ResetSemaphore(g, w)
      BY <3>2 DEF ResetSemaphore, TypeOK
    <3> QED BY <1>4, <3>1, <3>2 DEF WaveStep, Zero, WaitStored, Raise, WaitUntilInitialized,
                                    AddProduct, ResetSignal, Leave, TypeOK
  <2>4. signal' \in [Tiles -> 0 .. 1]
    <3>1. CASE Raise(g, w)
      BY <3>1 DEF Raise, TypeOK
    <3>2. CASE ResetSignal(g, w)
      BY <3>2 DEF ResetSignal, TypeOK
    <3> QED BY <1>4, <3>1, <3>2 DEF WaveStep, Zero, WaitStored, WaitUntilInitialized,
                                    AddProduct, FinishSplit, ResetSemaphore, Leave, TypeOK
  <2>3. flying' \subseteq Ops
    <3>1. CASE UNCHANGED flying
      BY <3>1 DEF TypeOK
    <3>2. CASE Zero(g, w)
      BY <3>2, OpsDiffer, SMTT(20) DEF Zero, TypeOK
    <3>3. CASE AddProduct(g, w)
      BY <3>3, OpsDiffer, SMTT(20) DEF AddProduct, TypeOK
    <3> QED BY <1>4, <3>1, <3>2, <3>3 DEF WaveStep, WaitStored, Raise, WaitUntilInitialized,
                                    FinishSplit, ResetSemaphore, ResetSignal, Leave
  <2> QED BY <1>4, <2>1, <2>2, <2>3, <2>4, Forward DEF TypeOK
<1>5. ASSUME NEW op \in flying, Land(op) PROVE TypeOK'
  <2>1. op[2] \in Groups /\ op[3] \in Waves
    BY DEF TypeOK, Ops
  <2>2. out' \in [Tiles -> [Waves -> [init : BOOLEAN, adds : SUBSET Splits]]]
    <3> DEFINE Cell == [init : BOOLEAN, adds : SUBSET Splits]
               t == TileOf(op[2])
    <3>1. CASE op[1] = "store"
      BY <1>5, <2>1, <3>1 DEF Land, TypeOK
    <3>2. CASE op[1] # "store"
      <4>1. out' = [out EXCEPT ![t][AddsTo[op[3]]].adds = @ \cup {SplitOf(op[2])}]
        BY <1>5, <3>2 DEF Land
      <4>2. \A c \in Cell, s \in Splits : [c EXCEPT !.adds = @ \cup {s}] \in Cell
        OBVIOUS
      <4>3. AddsTo[op[3]] \in Waves /\ t \in Tiles /\ SplitOf(op[2]) \in Splits
        BY <2>1
      <4>4. out[t][AddsTo[op[3]]] \in Cell
        BY <4>3 DEF TypeOK
      <4> QED BY <4>1, <4>2, <4>3, <4>4 DEF TypeOK
    <3> QED BY <3>1, <3>2
  <2> QED BY <1>5, <2>2 DEF Land, TypeOK
<1>6. CASE UNCHANGED vars
  BY <1>6 DEF vars, TypeOK
<1> QED BY <1>1, <1>2, <1>3, <1>4, <1>5, <1>6 DEF Next

\* Nothing runs outside the launch's grid, and nothing at all before the words are zero.
LEMMA PlacedStep == TypeOK /\ Placed /\ [Next]_vars => (OwnStream => Placed')
<1> SUFFICES ASSUME TypeOK, Placed, [Next]_vars, OwnStream PROVE Placed'
  OBVIOUS
<1>1. CASE ZeroWords
  BY <1>1 DEF ZeroWords, Placed, Grid
<1>2. CASE Launch
  BY <1>2 DEF Launch, Placed, Grid
<1>3. ASSUME NEW g \in Groups, StartGroup(g) PROVE Placed'
  BY <1>3 DEF StartGroup, Placed, Grid, TypeOK
<1>4. ASSUME NEW g \in Groups, NEW w \in Waves, WaveStep(g, w) PROVE Placed'
  <2>1. g \in Grid /\ Grid' = Grid /\ UNCHANGED <<zeroed, tiles, splits>>
    BY <1>4, Forward DEF Grid
  <2>2. ASSUME NEW h \in Groups \ {g}, NEW v \in Waves PROVE pc'[h][v] = pc[h][v]
    BY <1>4, WaveMoves
  <2> QED BY <2>1, <2>2 DEF Placed
<1>5. ASSUME NEW op \in flying, Land(op) PROVE Placed'
  BY <1>5 DEF Land, Placed, Grid
<1>6. CASE UNCHANGED vars
  BY <1>6 DEF vars, Placed, Grid
<1> QED BY <1>1, <1>2, <1>3, <1>4, <1>5, <1>6 DEF Next

\* Once a tile is initialised it stays so until the next launch.
LEMMA StaysInitialised ==
  ASSUME TypeOK, Placed, NEW g \in Groups, NEW w \in Waves, WaveStep(g, w),
         NEW t \in Tiles, Initialised(t)
  PROVE  Initialised(t)'
<1>1. First(t) \in Groups
  BY FirstIsGroup
<1>2. ASSUME NEW v \in Waves PROVE pc'[First(t)][v] \notin BeforeInit
  <2>1. CASE First(t) = g /\ v = w
    BY <2>1, WaveMoves, Onward DEF Initialised
  <2>2. CASE First(t) # g \/ v # w
    BY <1>1, <2>2, WaveMoves DEF Initialised
  <2> QED BY <2>1, <2>2
<1> QED BY <1>2 DEF Initialised

\* A workgroup that starts has done nothing yet.
LEMMA StartsIdle ==
  ASSUME TypeOK, NEW g \in Groups, StartGroup(g)
  PROVE  /\ \A w \in Waves : pc[g][w] = "idle"
         /\ \A w \in Waves : pc'[g][w] = IF SplitOf(g) = 0 THEN "zero" ELSE "wait"
         /\ \A h \in Groups \ {g} : pc'[h] = pc[h]
         /\ UNCHANGED <<zeroed, launches, tiles, splits, semaphore, signal, flying, out>>
BY DEF StartGroup, Idle, Initialises, TypeOK

\* Barriers and the signal keep the order of the phases.
LEMMA PhasesStep ==
  TypeOK /\ Placed /\ Phases /\ Signalled /\ [Next]_vars => Phases'
<1> SUFFICES ASSUME TypeOK, Placed, Phases, Signalled, [Next]_vars PROVE Phases'
  OBVIOUS
<1> USE SplitKAssumption, FirstIsGroup
<1>1. CASE UNCHANGED pc
  BY <1>1 DEF Phases, Initialised
<1>2. CASE Launch
  <2>1. \A g \in Groups, w \in Waves : pc'[g][w] = "idle"
    BY <1>2 DEF Launch
  <2> QED BY <2>1 DEF Phases, BeforeInit, BeforeReady, BeforeAdded
<1>3. ASSUME NEW g \in Groups, StartGroup(g) PROVE Phases'
  <2>1. \A t \in Tiles : Initialised(t) => Initialised(t)'
    BY <1>3, StartsIdle DEF Initialised, BeforeInit
  <2> QED BY <1>3, <2>1, StartsIdle DEF Phases, BeforeInit, BeforeReady, BeforeAdded
<1>4. ASSUME NEW g \in Groups, NEW w \in Waves, WaveStep(g, w) PROVE Phases'
  <2> DEFINE x == pc'[g][w]
  <2>1. <<pc[g][w], x>> \in Moves
    BY <1>4, WaveMoves
  <2>2. \A h \in Groups, v \in Waves : h # g \/ v # w => pc'[h][v] = pc[h][v]
    BY ONLY <1>4, WaveMoves, TypeOK, Placed
  <2>3. \A t \in Tiles : Initialised(t) => Initialised(t)'
    BY <1>4, StaysInitialised
  <2>4. SplitOf(g) # 0 => x \notin {"zero", "stored", "init"}
    BY <2>1 DEF Moves, Phases
  <2>5. SplitOf(g) = 0 /\ x \notin BeforeInit \cup {"init"} => Initialised(TileOf(g))
    <3>1. CASE pc[g][w] = "init"
      <4>1. Come(g, BeforeInit)
        BY <1>4, <3>1 DEF WaveStep, Zero, WaitStored, Raise, WaitUntilInitialized, AddProduct,
                          FinishSplit, ResetSemaphore, ResetSignal, Leave, At
      <4> QED BY <4>1 DEF Come, Initialised
    <3>2. CASE pc[g][w] # "init"
      BY <2>1, <3>2 DEF Moves, Phases, BeforeInit
    <3> QED BY <3>1, <3>2
  <2>6. x \notin BeforeAdded => \A v \in Waves : pc'[g][v] \notin BeforeReady
    <3>1. SUFFICES ASSUME x \notin BeforeAdded PROVE \A v \in Waves : pc[g][v] \notin BeforeReady
      BY <2>1, <2>2, Onward
    <3>2. CASE pc[g][w] = "ready"
      BY <1>4, <3>2 DEF WaveStep, Zero, WaitStored, Raise, WaitUntilInitialized, AddProduct,
                        FinishSplit, ResetSemaphore, ResetSignal, Leave, At, Come
    <3>3. CASE pc[g][w] # "ready"
      BY <2>1, <3>1, <3>3 DEF Moves, Phases, BeforeAdded, BeforeReady, BeforeInit
    <3> QED BY <3>2, <3>3
  <2>7. w = Leader /\ x \notin BeforeReady => Initialised(TileOf(g))
    <3>1. CASE w = Leader /\ pc[g][w] = "wait"
      <4>1. signal[TileOf(g)] # 0
        BY <1>4, <3>1 DEF WaveStep, Zero, WaitStored, Raise, WaitUntilInitialized, AddProduct,
                          FinishSplit, ResetSemaphore, ResetSignal, Leave, At
      <4> QED BY <1>4, <4>1, Forward DEF Signalled
    <3>2. CASE pc[g][w] # "wait"
      BY <2>1, <3>2 DEF Moves, Phases, BeforeReady, BeforeInit
    <3> QED BY <3>1, <3>2
  <2>9. x \in {"reset", "signal"} => w = Leader
    <3>1. CASE pc[g][w] = "added"
      <4>1. w # Leader => Goes(g, w, "leave")
        BY <1>4, <3>1 DEF WaveStep, Zero, WaitStored, Raise, WaitUntilInitialized, AddProduct,
                          FinishSplit, ResetSemaphore, ResetSignal, Leave, At
      <4>2. w # Leader => x = "leave"
        BY <4>1, OneMoves DEF Steps
      <4> QED BY <4>2
    <3>2. CASE pc[g][w] # "added"
      BY <2>1, <3>2 DEF Moves, Phases
    <3> QED BY <3>1, <3>2
  <2>8. ASSUME NEW h \in Groups, NEW v \in Waves
        PROVE  /\ SplitOf(h) # 0 => pc'[h][v] \notin {"zero", "stored", "init"}
               /\ SplitOf(h) = 0 /\ pc'[h][v] \notin BeforeInit \cup {"init"}
                    => Initialised(TileOf(h))'
               /\ pc'[h][v] \notin BeforeAdded => \A u \in Waves : pc'[h][u] \notin BeforeReady
               /\ pc'[h][Leader] \notin BeforeReady => Initialised(TileOf(h))'
               /\ pc'[h][v] \in {"reset", "signal"} => v = Leader
    <3>1. SplitOf(h) # 0 => pc'[h][v] \notin {"zero", "stored", "init"}
      BY <2>2, <2>4 DEF Phases
    <3>2. SplitOf(h) = 0 /\ pc'[h][v] \notin BeforeInit \cup {"init"} => Initialised(TileOf(h))'
      BY <2>2, <2>3, <2>5 DEF Phases
    <3>3. pc'[h][v] \notin BeforeAdded => \A u \in Waves : pc'[h][u] \notin BeforeReady
      BY <2>1, <2>2, <2>6, Onward DEF Phases
    <3>4. pc'[h][Leader] \notin BeforeReady => Initialised(TileOf(h))'
      BY <2>2, <2>3, <2>7 DEF Phases
    <3>5. pc'[h][v] \in {"reset", "signal"} => v = Leader
      BY <2>2, <2>9 DEF Phases
    <3> QED BY <3>1, <3>2, <3>3, <3>4, <3>5
  <2> QED BY <2>8 DEF Phases
<1> QED BY <1>1, <1>2, <1>3, <1>4 DEF Next, ZeroWords, Land, vars

\* What is in flight was issued by a wave that is where it issues.
LEMMA InFlightStep ==
  TypeOK /\ Placed /\ InFlight /\ Phases /\ [Next]_vars => InFlight'
<1> SUFFICES ASSUME TypeOK, Placed, InFlight, Phases, [Next]_vars PROVE InFlight'
  OBVIOUS
<1>1. CASE UNCHANGED <<pc, flying>>
  BY <1>1 DEF InFlight
<1>2. CASE Launch
  BY <1>2 DEF Launch, InFlight
<1>3. ASSUME NEW g \in Groups, StartGroup(g) PROVE InFlight'
  BY <1>3, StartsIdle DEF InFlight, BeforeAdded, BeforeReady, BeforeInit
<1>4. ASSUME NEW g \in Groups, NEW w \in Waves, WaveStep(g, w) PROVE InFlight'
  <2>1. <<pc[g][w], pc'[g][w]>> \in Moves
    BY <1>4, WaveMoves
  <2>2. \A h \in Groups, v \in Waves : h # g \/ v # w => pc'[h][v] = pc[h][v]
    BY <1>4, WaveMoves
  <2>3. CASE Zero(g, w)
    <3>1. SplitOf(g) = 0 /\ pc'[g][w] = "stored" /\ pc[g][w] = "zero"
      BY <2>1, <2>3 DEF Zero, At, Phases, Moves
    <3> QED BY <2>1, <2>2, <2>3, <3>1, OpsDiffer, Onward DEF Zero, InFlight
  <2>4. CASE AddProduct(g, w)
    <3>1. pc'[g][w] \notin BeforeAdded /\ pc[g][w] = "ready"
      BY <2>1, <2>4 DEF AddProduct, At, Moves, BeforeAdded, BeforeReady, BeforeInit
    <3> QED BY <2>1, <2>2, <2>4, <3>1, OpsDiffer, Onward DEF AddProduct, InFlight
  <2>5. CASE ~Zero(g, w) /\ ~AddProduct(g, w)
    <3>1. flying' = flying
      BY <1>4, <2>5 DEF WaveStep, WaitStored, Raise, WaitUntilInitialized, FinishSplit,
                        ResetSemaphore, ResetSignal, Leave
    <3>2. pc[g][w] = "stored" => Store(g, w) \notin flying
      BY <1>4, <2>5 DEF WaveStep, WaitStored, Raise, WaitUntilInitialized, FinishSplit,
                        ResetSemaphore, ResetSignal, Leave, At, Written
    <3> QED BY <2>1, <2>2, <3>1, <3>2, Onward DEF InFlight
  <2> QED BY <2>3, <2>4, <2>5
<1>5. ASSUME NEW op \in flying, Land(op) PROVE InFlight'
  BY <1>5 DEF Land, InFlight
<1> QED BY <1>1, <1>2, <1>3, <1>4, <1>5 DEF Next, ZeroWords, vars

\* A launch that is over leaves the words as torch.zeros did.
LEMMA Rearmed ==
  ASSUME TypeOK, Placed, Signalled, Counted, Over, zeroed
  PROVE  \A t \in Tiles : semaphore[t] = 0 /\ signal[t] = 0
<1> TAKE t \in Tiles
<1> USE SplitKAssumption, FirstIsGroup
<1>1. \A s \in All : <<t, s>> \in Groups
  BY DEF All, Groups, Splits, TypeOK
<1>2. Counting(t) \/ Last(t) \/ Clear(t)
  BY DEF Counted
<1>3. CASE t <= tiles
  <2>1. \A s \in All : LeaderAt(t, s) = "end"
    <3>1. \A s \in All : <<t, s>> \in Grid
      BY <1>1, <1>3 DEF Grid, All, TileOf, SplitOf, TypeOK
    <3> QED BY <3>1 DEF Over, LeaderAt
  <2>2. Arrived(t) = All
    BY <2>1 DEF Arrived
  <2> QED BY <1>2, <2>1, <2>2 DEF Counting, Last, Clear
<1>4. CASE ~(t <= tiles)
  <2>1. \A s \in All : LeaderAt(t, s) = "idle"
    BY <1>1, <1>4 DEF Placed, Grid, LeaderAt, TileOf
  <2>2. signal[t] = 0
    <3>1. First(t) \in Groups \ Grid
      BY <1>4 DEF Grid
    <3>2. pc[First(t)][Leader] = "idle"
      BY <3>1 DEF Placed
    <3> QED BY <3>2 DEF Signalled, Initialised, BeforeInit
  <2>3. Arrived(t) = {}
    BY <2>1 DEF Arrived
  <2>4. semaphore[t] = 0
    BY <1>2, <2>1, <2>3, FS_EmptySet DEF Counting, Last, Clear
  <2> QED BY <2>2, <2>4
<1> QED BY <1>3, <1>4

\* A signal is raised only over a tile whose initial value has reached memory.
LEMMA SignalledStep ==
  TypeOK /\ Placed /\ Phases /\ Signalled /\ Counted /\ [Next]_vars => (OwnStream => Signalled')
<1> SUFFICES ASSUME TypeOK, Placed, Phases, Signalled, Counted, [Next]_vars, OwnStream PROVE Signalled'
  OBVIOUS
<1> USE SplitKAssumption, FirstIsGroup
<1>1. CASE UNCHANGED <<zeroed, signal, pc>>
  BY <1>1 DEF Signalled, Initialised
<1>2. CASE ZeroWords
  BY <1>2 DEF ZeroWords, Signalled
<1>3. CASE Launch
  BY <1>3, Rearmed DEF Launch, Signalled
<1>4. ASSUME NEW g \in Groups, StartGroup(g) PROVE Signalled'
  <2>1. \A t \in Tiles : Initialised(t) => Initialised(t)'
    BY <1>4, StartsIdle DEF Initialised, BeforeInit
  <2> QED BY <1>4, <2>1, StartsIdle DEF Signalled
<1>5. ASSUME NEW g \in Groups, NEW w \in Waves, WaveStep(g, w) PROVE Signalled'
  <2>1. \A t \in Tiles : Initialised(t) => Initialised(t)'
    BY <1>5, StaysInitialised
  <2>2. zeroed
    BY <1>5, Forward
  <2>3. ASSUME NEW t \in Tiles, signal'[t] # 0 PROVE Initialised(t)'
    <3>1. CASE signal[t] # 0
      BY <2>1, <2>2, <3>1 DEF Signalled
    <3>2. CASE signal[t] = 0
      <4>1. Raise(g, w) /\ t = TileOf(g)
        BY <1>5, <2>3, <3>2 DEF WaveStep, Zero, WaitStored, Raise, WaitUntilInitialized, AddProduct,
                                FinishSplit, ResetSemaphore, ResetSignal, Leave, TypeOK
      <4>2. pc[g][w] = "init" /\ Come(g, BeforeInit)
        BY <4>1 DEF Raise, At
      <4>3. Initialised(t)
        <5>1. g = First(t)
          BY <4>1, <4>2 DEF Phases
        <5> QED BY <4>2, <5>1 DEF Come, Initialised
      <4> QED BY <2>1, <4>3
    <3> QED BY <3>1, <3>2 DEF TypeOK
  <2> QED BY <2>3 DEF Signalled
<1> QED BY <1>1, <1>2, <1>3, <1>4, <1>5 DEF Next, Land, vars

\* A part's value depends on whether its stores and adds are made and have landed.
LEMMA SameValue ==
  ASSUME \A g \in Groups, w \in Waves :
           /\ Landed(TileOf(g), w)' = Landed(TileOf(g), w)
           /\ (pc[g][w] \notin BeforeAdded /\ Add(g, w) \notin flying)'
                = (pc[g][w] \notin BeforeAdded /\ Add(g, w) \notin flying),
         NEW t \in Tiles, NEW p \in Waves
  PROVE  Value(t, p)' = Value(t, p)
<1>1. Landed(t, p)' = Landed(t, p)
  BY FirstIsGroup
<1>2. \A s \in Splits : <<t, s>> \in Groups
  BY DEF Groups
<1>3. \A s \in Splits : HasAdded(t, s, p)' = HasAdded(t, s, p)
  BY <1>2 DEF HasAdded
<1> QED BY <1>1, <1>3 DEF Value

\* Every part holds what has landed there and nothing else.
LEMMA ValuedStep ==
  TypeOK /\ Placed /\ Phases /\ InFlight /\ Valued /\ [Next]_vars => Valued'
<1> SUFFICES ASSUME TypeOK, Placed, Phases, InFlight, Valued, [Next]_vars PROVE Valued'
  OBVIOUS
<1>1. CASE UNCHANGED <<pc, flying, out>>
  BY <1>1 DEF Valued, Value, Landed, HasAdded
<1>2. CASE Launch
  BY <1>2, FirstIsGroup DEF Launch, Valued, Value, Landed
<1>3. ASSUME NEW g \in Groups, StartGroup(g) PROVE Valued'
  <2>1. \A h \in Groups, w \in Waves :
          pc'[h][w] # pc[h][w] =>
            /\ pc[h][w] = "idle"
            /\ pc'[h][w] = IF SplitOf(h) = 0 THEN "zero" ELSE "wait"
    BY <1>3, StartsIdle
  <2>2. flying' = flying /\ out' = out
    BY <1>3, StartsIdle
  <2>3. \A h \in Groups, w \in Waves :
           /\ Landed(TileOf(h), w)' = Landed(TileOf(h), w)
           /\ (pc[h][w] \notin BeforeAdded /\ Add(h, w) \notin flying)'
                = (pc[h][w] \notin BeforeAdded /\ Add(h, w) \notin flying)
    BY <2>1, <2>2, FirstIsGroup DEF Landed, BeforeAdded, BeforeReady, BeforeInit
  <2> QED BY <2>2, <2>3, SameValue DEF Valued
<1>4. ASSUME NEW g \in Groups, NEW w \in Waves, WaveStep(g, w) PROVE Valued'
  <2>1. <<pc[g][w], pc'[g][w]>> \in Moves
    BY <1>4, WaveMoves
  <2>2. \A h \in Groups, v \in Waves : h # g \/ v # w => pc'[h][v] = pc[h][v]
    BY <1>4, WaveMoves
  <2>3. out' = out
    BY <1>4, Forward
  <2>4. CASE Zero(g, w)
    <3>1. flying' = flying \cup {Store(g, w)} /\ pc[g][w] = "zero" /\ pc'[g][w] = "stored"
      BY <2>1, <2>4 DEF Zero, At, Moves
    <3>2. \A h \in Groups, v \in Waves :
             /\ Landed(TileOf(h), v)' = Landed(TileOf(h), v)
             /\ (pc[h][v] \notin BeforeAdded /\ Add(h, v) \notin flying)'
                  = (pc[h][v] \notin BeforeAdded /\ Add(h, v) \notin flying)
      BY <2>2, <3>1, FirstIsGroup, OpsDiffer DEF Landed, BeforeAdded, BeforeReady, BeforeInit
    <3> QED BY <2>3, <3>2, SameValue DEF Valued
  <2>5. CASE AddProduct(g, w)
    <3>1. flying' = flying \cup {Add(g, w)} /\ pc[g][w] = "ready" /\ pc'[g][w] = "added"
      BY <2>1, <2>5 DEF AddProduct, At, Moves
    <3>2. \A h \in Groups, v \in Waves :
             /\ Landed(TileOf(h), v)' = Landed(TileOf(h), v)
             /\ (pc[h][v] \notin BeforeAdded /\ Add(h, v) \notin flying)'
                  = (pc[h][v] \notin BeforeAdded /\ Add(h, v) \notin flying)
      BY <2>2, <3>1, FirstIsGroup, OpsDiffer DEF Landed, BeforeAdded, BeforeReady, BeforeInit
    <3> QED BY <2>3, <3>2, SameValue DEF Valued
  <2>6. CASE ~Zero(g, w) /\ ~AddProduct(g, w)
    <3>1. flying' = flying /\ pc[g][w] \notin {"zero", "ready"}
      BY <1>4, <2>6 DEF WaveStep, WaitStored, Raise, WaitUntilInitialized, FinishSplit,
                        ResetSemaphore, ResetSignal, Leave, At
    <3>2. \A h \in Groups, v \in Waves :
             /\ Landed(TileOf(h), v)' = Landed(TileOf(h), v)
             /\ (pc[h][v] \notin BeforeAdded /\ Add(h, v) \notin flying)'
                  = (pc[h][v] \notin BeforeAdded /\ Add(h, v) \notin flying)
      BY <2>1, <2>2, <3>1, FirstIsGroup DEF Moves, Landed, BeforeAdded, BeforeReady, BeforeInit
    <3> QED BY <2>3, <3>2, SameValue DEF Valued
  <2> QED BY <2>4, <2>5, <2>6
<1>5. ASSUME NEW op \in flying, Land(op) PROVE Valued'
  <2>1. PICK g \in Groups, w \in Waves : op = Store(g, w) \/ op = Add(g, w)
    BY DEF TypeOK, Ops, Store, Add
  <2>2. op[2] = g /\ op[3] = w /\ pc' = pc /\ flying' = flying \ {op}
    BY <1>5, <2>1 DEF Land, Store, Add
  <2>3. CASE op = Store(g, w)
    <3>1. SplitOf(g) = 0 /\ pc[g][w] = "stored" /\ g = First(TileOf(g))
      BY <2>3, FirstIsGroup DEF InFlight
    <3>2. out' = [out EXCEPT ![TileOf(g)][w] = [init |-> TRUE, adds |-> {}]]
      BY <1>5, <2>2, <2>3 DEF Land, Store
    <3>3. \A s \in Splits, v \in Waves : pc[<<TileOf(g), s>>][v] \in BeforeAdded
      <4>1. ~Initialised(TileOf(g))
        BY <3>1 DEF Initialised, BeforeInit
      <4>2. \A s \in Splits : <<TileOf(g), s>> \in Groups /\ TileOf(<<TileOf(g), s>>) = TileOf(g)
        BY FirstIsGroup DEF Groups, TileOf
      <4> QED BY <4>1, <4>2, SplitKAssumption DEF Phases
    <3>4. Value(TileOf(g), w)' = [init |-> TRUE, adds |-> {}]
      BY <2>2, <2>3, <3>1, <3>3 DEF Value, Landed, HasAdded
    <3>5. ASSUME NEW t \in Tiles, NEW p \in Waves, t # TileOf(g) \/ p # w
          PROVE  Value(t, p)' = Value(t, p)
      <4>1. Landed(t, p)' = Landed(t, p)
        BY <2>2, <2>3, <3>1, <3>5, OpsDiffer, FirstIsGroup DEF Landed
      <4>2. \A s \in Splits : <<t, s>> \in Groups
        BY DEF Groups
      <4>3. \A s \in Splits : HasAdded(t, s, p)' = HasAdded(t, s, p)
        BY <2>2, <2>3, <4>2, OpsDiffer DEF HasAdded
      <4> QED BY <4>1, <4>3 DEF Value
    <3> QED BY <3>2, <3>4, <3>5, FirstIsGroup DEF Valued, TypeOK
  <2>4. CASE op = Add(g, w)
    <3> DEFINE t == TileOf(g)
               q == AddsTo[w]
    <3>1. out' = [out EXCEPT ![t][q].adds = @ \cup {SplitOf(g)}]
      BY <1>5, <2>2, <2>4 DEF Land, Add
    <3>2. pc[g][w] \notin BeforeAdded
      BY <2>4 DEF InFlight
    <3>3. Initialised(t)
      BY <3>2, SplitKAssumption DEF Phases
    <3>4. \A p \in Waves : Landed(t, p) /\ Landed(t, p)'
      <4>1. \A p \in Waves : Store(First(t), p) \notin flying
        BY <3>3, FirstIsGroup DEF InFlight, Initialised, BeforeInit
      <4> QED BY <2>2, <3>3, <4>1 DEF Landed, Initialised, BeforeInit
    <3>5. \A s \in Splits : <<t, s>> \in Groups /\ (<<t, s>> = g <=> s = SplitOf(g))
      BY FirstIsGroup DEF Groups, TileOf, SplitOf
    <3>6. q \in Waves /\ t \in Tiles /\ SplitOf(g) \in Splits
      BY FirstIsGroup, SplitKAssumption
    <3>7. \A s \in Splits : HasAdded(t, s, q)' <=> HasAdded(t, s, q) \/ s = SplitOf(g)
      BY <2>2, <2>4, <3>2, <3>5, OpsDiffer DEF HasAdded
    <3>8. Value(t, q)' = [init |-> TRUE, adds |-> {s \in Splits : HasAdded(t, s, q)} \cup {SplitOf(g)}]
      BY <3>4, <3>6, <3>7 DEF Value
    <3>9. out[t][q] = [init |-> TRUE, adds |-> {s \in Splits : HasAdded(t, s, q)}]
      BY <3>4, <3>6 DEF Valued, Value
    <3>10. ASSUME NEW u \in Tiles, NEW p \in Waves, u # t \/ p # q
           PROVE  Value(u, p)' = Value(u, p)
      <4>1. Landed(u, p)' = Landed(u, p)
        BY <2>2, <2>4, OpsDiffer, FirstIsGroup DEF Landed
      <4>2. \A s \in Splits : <<u, s>> \in Groups /\ (u # t => <<u, s>> # g)
        BY DEF Groups, TileOf
      <4>3. \A s \in Splits : HasAdded(u, s, p)' = HasAdded(u, s, p)
        BY <2>2, <2>4, <3>10, <4>2, OpsDiffer DEF HasAdded
      <4> QED BY <4>1, <4>3 DEF Value
    <3>11. out'[t][q] = Value(t, q)'
      <4> DEFINE old == {s \in Splits : HasAdded(t, s, q)}
      <4>1. out'[t][q] = [out[t][q] EXCEPT !.adds = @ \cup {SplitOf(g)}]
        BY <3>1, <3>6 DEF TypeOK
      <4>2. out'[t][q] = [[init |-> TRUE, adds |-> old] EXCEPT !.adds = @ \cup {SplitOf(g)}]
        BY <3>9, <4>1
      <4>3. out'[t][q] = [init |-> TRUE, adds |-> old \cup {SplitOf(g)}]
        BY <4>2
      <4> QED BY <3>8, <4>3
    <3>12. ASSUME NEW u \in Tiles, NEW p \in Waves, u # t \/ p # q
           PROVE  out'[u][p] = out[u][p]
      BY <3>1, <3>6, <3>12 DEF TypeOK
    <3> QED BY <3>10, <3>11, <3>12 DEF Valued
  <2> QED BY <2>1, <2>3, <2>4
<1> QED BY <1>1, <1>2, <1>3, <1>4, <1>5 DEF Next, ZeroWords, vars

\* Where only other waves move the count stays what it is.
LEMMA SameCount ==
  ASSUME Counted, zeroed, splits' = splits, NEW t \in Tiles, semaphore'[t] = semaphore[t],
         signal'[t] = signal[t] \/ Arrived(t) # All,
         \A s \in All : LET then == LeaderAt(t, s)'
                             now == LeaderAt(t, s)
                         IN \/ then = now
                            \/ /\ then \notin {"reset", "signal", "leave", "end"}
                               /\ now \notin {"reset", "signal", "leave", "end"}
                            \/ then \in {"leave", "end"} /\ now \in {"leave", "end"}
  PROVE  (Counting(t) \/ Last(t) \/ Clear(t))'
<1>1. All' = All /\ semaphore'[t] = semaphore[t]
  BY DEF All
<1>2. Arrived(t)' = Arrived(t)
  BY <1>1 DEF Arrived
<1>3. \A S \in SUBSET All : NoneResets(t, S) => NoneResets(t, S)'
  BY <1>1 DEF NoneResets
<1>4. Counting(t) => Counting(t)'
  BY <1>1, <1>2, <1>3 DEF Counting
<1>5. Last(t) => Last(t)'
  BY <1>1, <1>2, <1>3 DEF Last
<1>6. Clear(t) => Clear(t)'
  BY <1>1, <1>2, <1>3 DEF Clear
<1> QED BY <1>4, <1>5, <1>6 DEF Counted

\* The semaphore counts the arrivals, and exactly one split resets the words.
LEMMA CountedStep ==
  TypeOK /\ Placed /\ Phases /\ Signalled /\ Counted /\ [Next]_vars => (OwnStream => Counted')
<1> SUFFICES ASSUME TypeOK, Placed, Phases, Signalled, Counted, [Next]_vars, OwnStream
             PROVE  Counted'
  OBVIOUS
<1> USE SplitKAssumption, FirstIsGroup
<1>1. CASE UNCHANGED <<zeroed, splits, pc, semaphore, signal>>
  <2>1. \A t \in Tiles, s \in All : LeaderAt(t, s)' = LeaderAt(t, s)
    BY <1>1 DEF LeaderAt
  <2> QED BY <1>1, <2>1, SameCount DEF Counted
<1>2. CASE ZeroWords
  <2>1. All' = {}
    BY <1>2 DEF ZeroWords, Placed, All
  <2> QED BY <1>2, <2>1 DEF ZeroWords, Counted, Clear, Arrived, NoneResets
<1>3. CASE Launch
  <2>1. \A t \in Tiles : semaphore'[t] = 0
    BY <1>3, Rearmed DEF Launch
  <2>2. splits' >= 2
    BY <1>3 DEF Launch, Tiles
  <2>3. ASSUME NEW t \in Tiles PROVE Counting(t)'
    <3>1. \A s \in All' : LeaderAt(t, s)' = "idle"
      <4>1. \A s \in All' : <<t, s>> \in Groups
        BY <1>3 DEF Launch, All, Groups, Splits
      <4> QED BY <1>3, <4>1 DEF Launch, LeaderAt
    <3>2. Arrived(t)' = {}
      BY <3>1 DEF Arrived
    <3>3. 0 \in All'
      BY <1>3, <2>2 DEF All, Launch, Tiles
    <3> QED BY <2>1, <3>1, <3>2, <3>3, FS_EmptySet DEF Counting, NoneResets
  <2> QED BY <2>3 DEF Counted
<1>4. ASSUME NEW g \in Groups, StartGroup(g) PROVE Counted'
  <2>1. \A t \in Tiles, s \in All : <<t, s>> \in Groups
    BY DEF All, Groups, Splits, TypeOK
  <2>2. ASSUME NEW t \in Tiles, NEW s \in All
        PROVE  \/ LeaderAt(t, s)' = LeaderAt(t, s)
               \/ LeaderAt(t, s) = "idle" /\ LeaderAt(t, s)' \in {"zero", "wait"}
    <3>1. CASE <<t, s>> = g
      BY <1>4, <3>1, StartsIdle, SplitKAssumption DEF LeaderAt
    <3>2. CASE <<t, s>> # g
      BY <1>4, <2>1, <3>2, StartsIdle DEF LeaderAt
    <3> QED BY <3>1, <3>2
  <2> QED BY <1>4, <2>2, StartsIdle, SameCount DEF Counted
<1>5. ASSUME NEW g \in Groups, NEW w \in Waves, WaveStep(g, w) PROVE Counted'
  <2> DEFINE Past == {"reset", "signal", "leave", "end"}
             u == TileOf(g)
             r == SplitOf(g)
  <2>1. /\ <<pc[g][w], pc'[g][w]>> \in Moves
        /\ \A h \in Groups, v \in Waves : h # g \/ v # w => pc'[h][v] = pc[h][v]
    BY <1>5, WaveMoves
  <2>2. g \in Grid /\ UNCHANGED <<zeroed, tiles, splits>> /\ zeroed
    BY <1>5, Forward
  <2>3. \A t \in Tiles, s \in All : <<t, s>> \in Groups /\ (<<t, s>> = g <=> t = u /\ s = r)
    BY DEF All, Groups, Splits, TypeOK, TileOf, SplitOf
  <2>4. u \in Tiles /\ r \in All /\ g = <<u, r>>
    <3>1. r \in Splits /\ r < splits
      BY <2>2 DEF Grid
    <3> QED BY <3>1 DEF All, Splits, TypeOK
  <2>5. \A t \in Tiles, s \in All : t # u \/ s # r \/ w # Leader => LeaderAt(t, s)' = LeaderAt(t, s)
    BY <2>1, <2>3 DEF LeaderAt
  <2>6. LeaderAt(u, r) = pc[g][Leader] /\ LeaderAt(u, r)' = pc'[g][Leader]
    BY <2>4 DEF LeaderAt
  <2>7. All' = All
    BY <2>2 DEF All
  <2>8. CASE ~(w = Leader /\ pc[g][w] \in {"added", "reset", "signal"})
    <3>1. semaphore' = semaphore
      BY <1>5, <2>8 DEF WaveStep, Zero, WaitStored, Raise, WaitUntilInitialized, AddProduct,
                        FinishSplit, ResetSemaphore, ResetSignal, Leave, At, Phases
    <3>2. \A t \in Tiles : signal'[t] = signal[t] \/ Arrived(t) # All
      <4>1. CASE w = Leader /\ Raise(g, w)
        <5>1. LeaderAt(u, r) = "init"
          BY <2>6, <4>1 DEF Raise, At
        <5>2. r \notin Arrived(u)
          BY <5>1 DEF Arrived
        <5>3. \A t \in Tiles : t # u => signal'[t] = signal[t]
          BY <4>1 DEF Raise, TypeOK
        <5> QED BY <2>4, <5>2, <5>3
      <4>2. CASE ~(w = Leader /\ Raise(g, w))
        BY <1>5, <2>8, <4>2 DEF WaveStep, Zero, WaitStored, Raise, WaitUntilInitialized, AddProduct,
                                FinishSplit, ResetSemaphore, ResetSignal, Leave, At, Phases
      <4> QED BY <4>1, <4>2
    <3>3. w = Leader => \/ pc[g][w] \notin Past /\ pc'[g][w] \notin Past
                        \/ pc[g][w] = "leave" /\ pc'[g][w] = "end"
      BY <2>1, <2>8 DEF Moves
    <3>4. \A t \in Tiles : (Counting(t) \/ Last(t) \/ Clear(t))'
      BY <2>2, <2>5, <2>6, <3>1, <3>2, <3>3, SameCount
    <3> QED BY <3>4 DEF Counted
  <2>9. CASE w = Leader /\ pc[g][w] \in {"added", "reset", "signal"}
    <3>1. \A t \in Tiles \ {u} : semaphore'[t] = semaphore[t] /\ signal'[t] = signal[t]
      BY <1>5, <2>9 DEF WaveStep, Zero, WaitStored, Raise, WaitUntilInitialized, AddProduct,
                        FinishSplit, ResetSemaphore, ResetSignal, Leave, At, TypeOK
    <3>2. \A t \in Tiles \ {u} : (Counting(t) \/ Last(t) \/ Clear(t))'
      BY <2>2, <2>5, <3>1, SameCount
    <3>3. Counting(u) \/ Last(u) \/ Clear(u)
      BY <2>2 DEF Counted
    <3>4. CASE pc[g][w] = "added"
      <4>1. r \notin Arrived(u)
        BY <2>6, <2>9, <3>4 DEF Arrived
      <4>2. Counting(u)
        BY <2>4, <3>3, <4>1 DEF Last, Clear
      <4>3. /\ semaphore'[u] = semaphore[u] + 1
            /\ pc'[g][w] = IF semaphore[u] = splits - 1 THEN "reset" ELSE "leave"
        <5>1. FinishSplit(g, w)
          BY <1>5, <3>4 DEF WaveStep, Zero, WaitStored, Raise, WaitUntilInitialized, AddProduct,
                            ResetSemaphore, ResetSignal, Leave, At
        <5>2. semaphore' = [semaphore EXCEPT ![u] = @ + 1]
          BY <2>9, <5>1 DEF FinishSplit
        <5>3. Goes(g, w, IF semaphore[u] = splits - 1 THEN "reset" ELSE "leave")
          BY <2>9, <5>1 DEF FinishSplit
        <5>4. (IF semaphore[u] = splits - 1 THEN "reset" ELSE "leave") \in Steps
          BY DEF Steps
        <5> QED BY <2>4, <5>2, <5>3, <5>4, OneMoves DEF TypeOK
      <4>4. Arrived(u)' = Arrived(u) \cup {r}
        BY <2>4, <2>5, <2>6, <2>7, <2>9, <4>3 DEF Arrived
      <4>5. /\ IsFiniteSet(All) /\ Cardinality(All) = splits
            /\ IsFiniteSet(Arrived(u)) /\ Cardinality(Arrived(u)) \in Nat
            /\ Cardinality(Arrived(u) \cup {r}) = Cardinality(Arrived(u)) + 1
            /\ Cardinality(Arrived(u) \cup {r}) = Cardinality(All) => Arrived(u) \cup {r} = All
        <5>1. IsFiniteSet(All) /\ Cardinality(All) = splits
          <6>1. splits \in Int /\ splits >= 0
            BY DEF TypeOK
          <6>2. IsFiniteSet(0 .. splits - 1)
            BY <6>1, FS_Interval
          <6>3. Cardinality(0 .. splits - 1) = IF 0 > splits - 1 THEN 0 ELSE splits - 1 - 0 + 1
            BY <6>1, FS_Interval
          <6> QED BY <6>1, <6>2, <6>3 DEF All
        <5>2. Arrived(u) \subseteq All /\ Arrived(u) \cup {r} \subseteq All
          BY <2>4 DEF Arrived
        <5> QED BY <4>1, <5>1, <5>2, FS_Subset, FS_AddElement, FS_CardinalityType
      <4>6. NoneResets(u, All \ {r})'
        BY <2>4, <2>5, <2>7, <4>2 DEF Counting, NoneResets
      <4>7. CASE semaphore[u] = splits - 1
        <5>1. Arrived(u)' = All'
          BY <2>7, <4>2, <4>4, <4>5, <4>7 DEF Counting, TypeOK
        <5>2. LeaderAt(u, r)' = "reset"
          BY <2>6, <2>9, <4>3, <4>7
        <5>3. Last(u)'
          BY <2>4, <2>7, <4>6, <5>1, <5>2 DEF Last
        <5> QED BY <3>2, <5>3 DEF Counted
      <4>8. CASE semaphore[u] # splits - 1
        <5>1. Arrived(u)' # All' /\ semaphore'[u] = Cardinality(Arrived(u)')
          <6>1. semaphore'[u] = Cardinality(Arrived(u)) + 1
            BY <4>2, <4>3 DEF Counting
          <6>2. Cardinality(Arrived(u)) + 1 # splits
            <7>1. semaphore[u] = Cardinality(Arrived(u))
              BY <4>2 DEF Counting
            <7>2. semaphore[u] \in Nat /\ splits \in Nat
              BY <2>4 DEF TypeOK
            <7> QED BY <4>8, <7>1, <7>2
          <6> QED BY <2>7, <4>4, <4>5, <6>1, <6>2
        <5>2. LeaderAt(u, r)' = "leave"
          BY <2>6, <2>9, <4>3, <4>8
        <5>3. NoneResets(u, All)'
          BY <2>7, <4>6, <5>2 DEF NoneResets
        <5>4. Counting(u)'
          BY <5>1, <5>3 DEF Counting
        <5> QED BY <3>2, <5>4 DEF Counted
      <4> QED BY <4>7, <4>8
    <3>5. ASSUME pc[g][w] \in {"reset", "signal"}
          PROVE  /\ Arrived(u) = All
                 /\ NoneResets(u, All \ {r})
                 /\ pc[g][w] = "signal" => semaphore[u] = 0
      <4>1. ~NoneResets(u, All)
        BY <2>4, <2>6, <2>9, <3>5 DEF NoneResets
      <4>2. Last(u)
        BY <3>3, <4>1 DEF Counting, Clear
      <4>3. PICK s \in All : /\ LeaderAt(u, s) \in {"reset", "signal"}
                             /\ LeaderAt(u, s) = "signal" => semaphore[u] = 0
                             /\ NoneResets(u, All \ {s})
        BY <4>2 DEF Last
      <4>4. s = r
        BY <2>4, <2>6, <2>9, <3>5, <4>3 DEF NoneResets
      <4> QED BY <2>6, <2>9, <4>2, <4>3, <4>4 DEF Last
    <3>6. CASE pc[g][w] = "reset"
      <4>1. semaphore'[u] = 0
        BY <1>5, <2>4, <3>6 DEF WaveStep, Zero, WaitStored, Raise, WaitUntilInitialized, AddProduct,
                                FinishSplit, ResetSemaphore, ResetSignal, Leave, At, TypeOK
      <4>2. LeaderAt(u, r)' = "signal"
        BY <2>1, <2>6, <2>9, <3>6 DEF Moves
      <4>3. Arrived(u)' = All' /\ NoneResets(u, All \ {r})'
        BY <2>4, <2>5, <2>7, <3>5, <3>6, <4>2 DEF Arrived, NoneResets
      <4>4. Last(u)'
        BY <2>4, <2>7, <4>1, <4>2, <4>3 DEF Last
      <4> QED BY <3>2, <4>4 DEF Counted
    <3>7. CASE pc[g][w] = "signal"
      <4>1. semaphore'[u] = semaphore[u] /\ signal'[u] = 0
        BY <1>5, <2>4, <3>7 DEF WaveStep, Zero, WaitStored, Raise, WaitUntilInitialized, AddProduct,
                                FinishSplit, ResetSemaphore, ResetSignal, Leave, At, TypeOK
      <4>2. LeaderAt(u, r)' = "leave"
        BY <2>1, <2>6, <2>9, <3>7 DEF Moves
      <4>3. Arrived(u)' = All' /\ NoneResets(u, All)'
        BY <2>4, <2>5, <2>7, <3>5, <3>7, <4>2 DEF Arrived, NoneResets
      <4>4. Clear(u)'
        BY <3>5, <3>7, <4>1, <4>3 DEF Clear
      <4> QED BY <3>2, <4>4 DEF Counted
    <3> QED BY <2>9, <3>4, <3>6, <3>7
  <2> QED BY <2>8, <2>9
<1> QED BY <1>1, <1>2, <1>3, <1>4, <1>5 DEF Next, Land, vars

-----------------------------------------------------------------------------
\* The invariant holds in the initial states ...
LEMMA InvInit == Init => Inv
<1> SUFFICES ASSUME Init PROVE Inv
  OBVIOUS
<1> USE SplitKAssumption DEF Init
<1>1. TypeOK
  <2>1. semaphore \in [Tiles -> Nat] /\ 0 \in 0 .. MaxTiles /\ 0 \in 0 .. MaxSplits
    OBVIOUS
  <2>2. pc \in [Groups -> [Waves -> Steps]]
    BY DEF Steps
  <2>3. Junk \in [init : BOOLEAN, adds : SUBSET Splits]
    BY DEF Junk
  <2> QED BY <2>1, <2>2, <2>3 DEF TypeOK
<1>2. \A g \in Groups, w \in Waves : pc[g][w] = "idle"
  OBVIOUS
<1>3. Placed /\ Phases /\ InFlight /\ Signalled /\ Counted
  BY <1>2 DEF Placed, Phases, InFlight, Signalled, Counted, BeforeInit, BeforeReady, BeforeAdded
<1>4. Valued
  BY <1>2, FirstIsGroup DEF Valued, Value, Landed
<1> QED BY <1>1, <1>3, <1>4 DEF Inv

\* ... every step keeps it, where launches follow the filling of the words ...
LEMMA InvStep == ASSUME OwnStream PROVE Inv /\ [Next]_vars => Inv'
BY TypeStep, PlacedStep, PhasesStep, InFlightStep, SignalledStep, ValuedStep, CountedStep DEF Inv

\* ... and it says that a launch that is over has summed every product.
LEMMA InvSummed == Inv => Summed
<1> SUFFICES ASSUME Inv PROVE Summed
  OBVIOUS
<1>0. TypeOK /\ Placed /\ Valued
  BY DEF Inv
<1>1. ASSUME NEW t \in Tiles, NEW p \in Waves PROVE ~out[t][p].init => out[t][p].adds = {}
  <2>1. out[t][p] = Value(t, p)
    BY <1>0 DEF Valued
  <2> QED BY <2>1 DEF Value, Junk
<1>2. ASSUME Over, flying = {}, NEW g \in Grid, NEW p \in Waves
      PROVE  out[TileOf(g)][p] = [init |-> TRUE, adds |-> 0 .. splits - 1]
  <2> DEFINE t == TileOf(g)
  <2>1. t \in Tiles /\ t <= tiles /\ 0 < splits /\ splits \in 0 .. MaxSplits
    BY <1>0, FirstIsGroup DEF Grid, Splits, TypeOK
  <2>2. ASSUME NEW s \in Splits
        PROVE  /\ s < splits => \A w \in Waves : pc[<<t, s>>][w] = "end"
               /\ ~(s < splits) => \A w \in Waves : pc[<<t, s>>][w] = "idle"
    <3>1. <<t, s>> \in Groups /\ TileOf(<<t, s>>) = t /\ SplitOf(<<t, s>>) = s
      BY <2>1 DEF Groups, TileOf, SplitOf
    <3>2. CASE s < splits
      <4>1. <<t, s>> \in Grid
        BY <2>1, <3>1, <3>2 DEF Grid
      <4> QED BY <1>2, <3>2, <4>1 DEF Over
    <3>3. CASE ~(s < splits)
      <4>1. <<t, s>> \in Groups \ Grid
        BY <3>1, <3>3 DEF Grid
      <4> QED BY <1>0, <3>3, <4>1 DEF Placed
    <3> QED BY <3>2, <3>3
  <2>3. Landed(t, p)
    <3>1. 0 \in Splits
      BY SplitKAssumption DEF Splits
    <3>2. pc[First(t)][p] = "end"
      BY <2>1, <2>2, <3>1 DEF First
    <3> QED BY <1>2, <3>2 DEF Landed
  <2>4. \A s \in Splits : HasAdded(t, s, p) <=> s < splits
    <3>1. PICK v \in Waves : AddsTo[v] = p
      BY SplitKAssumption
    <3> QED BY <1>2, <2>2, <3>1 DEF HasAdded, BeforeAdded, BeforeReady, BeforeInit
  <2>5. {s \in Splits : HasAdded(t, s, p)} = 0 .. splits - 1
    BY <2>1, <2>4, SplitKAssumption DEF Splits
  <2> QED BY <1>0, <2>1, <2>3, <2>5 DEF Valued, Value
<1> QED BY <1>1, <1>2 DEF Summed

\* In the stream torch works in, every launch sums every split of every tile once it
\* is initialised: SplitKProtocol's signal, semaphore and reset are enough for any
\* number of tiles, splits, waves, slots and launches.
THEOREM SummedAlways == ASSUME OwnStream PROVE Spec => []Summed
<1>1. Inv /\ [Next]_vars => Inv'
  BY InvStep
<1> QED BY <1>1, InvInit, InvSummed, PTL DEF Spec
=============================================================================
