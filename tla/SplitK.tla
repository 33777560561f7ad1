------------------------------- MODULE SplitK -------------------------------
(***************************************************************************)
(* The split-K reduction of gemm_a16w16: the workgroups of one output tile *)
(* each multiply a part of K and add their product to the tile in memory.  *)
(* The first of them initialises the tile and raises its signal, for which *)
(* all wait; the last to arrive at the tile's semaphore resets both, for   *)
(* the next launch uses the same words.                                    *)
(*                                                                         *)
(* A workgroup is <<tile, split>>; its waves go on independently between   *)
(* barriers.  What a wave stores or adds reaches memory at any time after. *)
(***************************************************************************)
EXTENDS Integers, FiniteSets

CONSTANTS
  MaxTiles,    \* the most tiles of a launch (SPLIT_K_SEMAPHORE_MAX_LEN)
  MaxSplits,   \* the most splits of a launch
  Waves,       \* the waves of a workgroup
  Leader,      \* the wave of thread 0
  AddsTo,      \* wave -> the part of the tile it adds to; it initialises part w
  Slots,       \* how many workgroups the device runs at a time
  Shapes,      \* the launches' numbers of tiles and of splits
  MaxLaunches, \* bound: launches of the kernel in one stream
  OwnStream    \* whether that stream is the one torch works in

Tiles == 1 .. MaxTiles
Splits == 0 .. MaxSplits - 1
Groups == Tiles \X Splits

ASSUME SplitKAssumption ==
  /\ MaxTiles \in Nat \ {0}
  /\ MaxSplits \in Nat \ {0, 1}
  /\ IsFiniteSet(Waves)
  /\ Leader \in Waves
  /\ AddsTo \in [Waves -> Waves]
  /\ \A v, w \in Waves : AddsTo[v] = AddsTo[w] => v = w
  /\ \A p \in Waves : \E w \in Waves : AddsTo[w] = p
  /\ Slots \in Nat \ {0}
  /\ Shapes \subseteq Tiles \X (2 .. MaxSplits)
  /\ MaxLaunches \in Nat
  /\ OwnStream \in BOOLEAN

VARIABLES
  zeroed,    \* whether torch.zeros has filled the semaphores and signals
  launches,  \* the launches made
  tiles,     \* of the launch in progress
  splits,    \* likewise
  pc,        \* workgroup -> wave -> where it is
  semaphore, \* tile -> the splits that have arrived
  signal,    \* tile -> whether it is initialised
  flying,    \* the stores and adds that have not reached memory
  out        \* tile -> part -> whether it is initialised and what is added to that

vars == <<zeroed, launches, tiles, splits, pc, semaphore, signal, flying, out>>

Ops == {"store", "add"} \X Groups \X Waves
Store(g, w) == <<"store", g, w>>
Add(g, w) == <<"add", g, w>>
TileOf(g) == g[1]
SplitOf(g) == g[2]

Steps == {"idle", "zero", "stored", "init", "wait", "ready", "added",
          "reset", "signal", "leave", "end"}
\* Where a wave is that has not come to the barrier before a step.
BeforeInit == {"idle", "zero", "stored"}
BeforeReady == BeforeInit \cup {"init", "wait"}
BeforeAdded == BeforeReady \cup {"ready"}
BeforeLeave == BeforeAdded \cup {"added", "reset", "signal"}
Come(g, before) == \A w \in Waves : pc[g][w] \notin before

Grid == {g \in Groups : TileOf(g) <= tiles /\ SplitOf(g) < splits}
Over == \A g \in Grid : \A w \in Waves : pc[g][w] = "end"
Running == {g \in Grid : \E w \in Waves : pc[g][w] \notin {"idle", "end"}}

Junk == [init |-> FALSE, adds |-> {}]
At(g, w, step) == pc[g][w] = step
Goes(g, w, step) == pc' = [pc EXCEPT ![g][w] = step]

-----------------------------------------------------------------------------
Init ==
  /\ zeroed = FALSE
  /\ launches = 0
  /\ tiles = 0
  /\ splits = 0
  /\ pc = [g \in Groups |-> [w \in Waves |-> "idle"]]
  /\ semaphore \in [Tiles -> 0 .. 1]
  /\ signal \in [Tiles -> 0 .. 1]
  /\ flying = {}
  /\ out = [t \in Tiles |-> [p \in Waves |-> Junk]]

\* torch.zeros fills the words in the stream torch works in.
ZeroWords ==
  /\ ~zeroed
  /\ zeroed' = TRUE
  /\ semaphore' = [t \in Tiles |-> 0]
  /\ signal' = [t \in Tiles |-> 0]
  /\ UNCHANGED <<launches, tiles, splits, pc, flying, out>>

\* A launch follows those before it in its stream; out is torch.empty.
Launch ==
  /\ OwnStream => zeroed
  /\ launches < MaxLaunches
  /\ Over
  /\ flying = {}
  /\ launches' = launches + 1
  /\ \E s \in Shapes : tiles' = s[1] /\ splits' = s[2]
  /\ pc' = [g \in Groups |-> [w \in Waves |-> "idle"]]
  /\ out' = [t \in Tiles |-> [p \in Waves |-> Junk]]
  /\ UNCHANGED <<zeroed, semaphore, signal, flying>>

Idle(g) == \A w \in Waves : pc[g][w] = "idle"
\* The device starts the workgroups in this order: block_idx.x is the faster index.
Precedes(g, h) ==
  \/ SplitOf(g) < SplitOf(h)
  \/ SplitOf(g) = SplitOf(h) /\ TileOf(g) < TileOf(h)

\* Mutant: the last split initialises the tile.
LastInitialises(g) == SplitOf(g) = splits - 1
Initialises(g) == SplitOf(g) = 0

\* The next workgroup starts as a slot is free.
StartGroup(g) ==
  /\ g \in Grid
  /\ Idle(g)
  /\ \A h \in Grid : Precedes(h, g) => ~Idle(h)
  /\ Cardinality(Running) < Slots
  /\ pc' = [pc EXCEPT ![g] = [w \in Waves |-> IF Initialises(g) THEN "zero" ELSE "wait"]]
  /\ UNCHANGED <<zeroed, launches, tiles, splits, semaphore, signal, flying, out>>

Zero(g, w) ==
  /\ At(g, w, "zero")
  /\ flying' = flying \cup {Store(g, w)}
  /\ Goes(g, w, "stored")
  /\ UNCHANGED <<zeroed, launches, tiles, splits, semaphore, signal, out>>

\* Mutant: the wave does not wait for its stores.
IssuedOnly(g, w) == TRUE
\* s_waitcnt vmcnt(0).
Written(g, w) == Store(g, w) \notin flying

WaitStored(g, w) ==
  /\ At(g, w, "stored")
  /\ Written(g, w)
  /\ Goes(g, w, "init")
  /\ UNCHANGED <<zeroed, launches, tiles, splits, semaphore, signal, flying, out>>

\* Behind the barrier thread 0 raises the signal.
Raise(g, w) ==
  /\ At(g, w, "init")
  /\ Come(g, BeforeInit)
  /\ signal' = IF w = Leader THEN [signal EXCEPT ![TileOf(g)] = 1] ELSE signal
  /\ Goes(g, w, "wait")
  /\ UNCHANGED <<zeroed, launches, tiles, splits, semaphore, flying, out>>

\* Thread 0 polls the signal, the other waves go to the barrier.
WaitUntilInitialized(g, w) ==
  /\ At(g, w, "wait")
  /\ w = Leader => signal[TileOf(g)] # 0
  /\ Goes(g, w, "ready")
  /\ UNCHANGED <<zeroed, launches, tiles, splits, semaphore, signal, flying, out>>

AddProduct(g, w) ==
  /\ At(g, w, "ready")
  /\ Come(g, BeforeReady)
  /\ flying' = flying \cup {Add(g, w)}
  /\ Goes(g, w, "added")
  /\ UNCHANGED <<zeroed, launches, tiles, splits, semaphore, signal, out>>

\* Behind the barrier thread 0 counts its split, and knows whether it is the last.
FinishSplit(g, w) ==
  /\ At(g, w, "added")
  /\ Come(g, BeforeAdded)
  /\ IF w = Leader
     THEN /\ semaphore' = [semaphore EXCEPT ![TileOf(g)] = @ + 1]
          /\ Goes(g, w, IF semaphore[TileOf(g)] = splits - 1 THEN "reset" ELSE "leave")
     ELSE Goes(g, w, "leave") /\ UNCHANGED semaphore
  /\ UNCHANGED <<zeroed, launches, tiles, splits, signal, flying, out>>

ResetSemaphore(g, w) ==
  /\ At(g, w, "reset")
  /\ semaphore' = [semaphore EXCEPT ![TileOf(g)] = 0]
  /\ Goes(g, w, "signal")
  /\ UNCHANGED <<zeroed, launches, tiles, splits, signal, flying, out>>

ResetSignal(g, w) ==
  /\ At(g, w, "signal")
  /\ signal' = [signal EXCEPT ![TileOf(g)] = 0]
  /\ Goes(g, w, "leave")
  /\ UNCHANGED <<zeroed, launches, tiles, splits, semaphore, flying, out>>

Leave(g, w) ==
  /\ At(g, w, "leave")
  /\ Come(g, BeforeLeave)
  /\ Goes(g, w, "end")
  /\ UNCHANGED <<zeroed, launches, tiles, splits, semaphore, signal, flying, out>>

\* A store or an atomic add reaches memory.
Land(op) ==
  /\ flying' = flying \ {op}
  /\ LET g == op[2]
         w == op[3]
     IN out' = IF op[1] = "store"
               THEN [out EXCEPT ![TileOf(g)][w] = [init |-> TRUE, adds |-> {}]]
               ELSE [out EXCEPT ![TileOf(g)][AddsTo[w]].adds = @ \cup {SplitOf(g)}]
  /\ UNCHANGED <<zeroed, launches, tiles, splits, pc, semaphore, signal>>

WaveStep(g, w) ==
  \/ Zero(g, w) \/ WaitStored(g, w) \/ Raise(g, w) \/ WaitUntilInitialized(g, w)
  \/ AddProduct(g, w) \/ FinishSplit(g, w) \/ ResetSemaphore(g, w) \/ ResetSignal(g, w)
  \/ Leave(g, w)

Next ==
  \/ ZeroWords
  \/ Launch
  \/ \E g \in Groups : StartGroup(g)
  \/ \E g \in Groups, w \in Waves : WaveStep(g, w)
  \/ \E op \in flying : Land(op)

Spec == Init /\ [][Next]_vars

FairSpec ==
  /\ Spec
  /\ WF_vars(ZeroWords)
  /\ WF_vars(\E g \in Groups : StartGroup(g))
  /\ \A g \in Groups, w \in Waves : WF_vars(WaveStep(g, w))
  /\ WF_vars(\E op \in flying : Land(op))

-----------------------------------------------------------------------------
\* No product is added to a part before its initial value, and when a launch is over
\* and its adds have reached memory, every part of every tile has the product of every
\* split: in each launch, whatever the ones before have left in the words.
Summed ==
  /\ \A t \in Tiles, p \in Waves : ~out[t][p].init => out[t][p].adds = {}
  /\ Over /\ flying = {} =>
       \A g \in Grid, p \in Waves :
         out[TileOf(g)][p] = [init |-> TRUE, adds |-> 0 .. splits - 1]

\* A launch ends although workgroups poll for one that must have a slot to run.
AllEnd == []<>Over
=============================================================================
