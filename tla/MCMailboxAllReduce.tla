------------------------- MODULE MCMailboxAllReduce -------------------------
(***************************************************************************)
(* MailboxAllReduce for TLC: the programs of a run.                        *)
(***************************************************************************)
EXTENDS MailboxAllReduce

CONSTANTS
  R0, R1,        \* regions
  Size0, Size1,  \* and their pairs
  Steps          \* decode steps

Sizes == [g \in Regions |-> IF g = R0 THEN Size0 ELSE Size1]

\* Every step reduces in each of the regions, at each of the layers, and the
\* last call advances the counter.
Decode(regions, layers) ==
  LET perStep == Len(regions) * Len(layers) IN
  [i \in 1..(Steps * perStep) |->
     [region  |-> regions[((i - 1) % Len(regions)) + 1],
      layer   |-> layers[(((i - 1) \div Len(regions)) % Len(layers)) + 1],
      advance |-> i % perStep = 0]]

\* _moe in k3/staged.py: a reduction of the routed and a final one per layer,
\* with one layer or two of the same parity, or of both.
Staged == {Decode(<<R0, R1>>, layers) : layers \in {<<0>>, <<1>>, <<0, 2>>, <<0, 1>>}}

\* A single region, and layers of both parities in turn.
InTurn == {Decode(<<R0>>, layers) : layers \in {<<0, 1>>, <<0, 1, 2, 3>>}}
ThreeInTurn == {Decode(<<R0>>, <<0, 1, 2>>)}

\* Orders of calls in which consecutive ones never share a slot.
Safe == Staged \cup InTurn
ASSUME SafeInOrder == \A s \in Safe : InOrder(s)

\* forward in k3/kda.py, called with its default layer and advance.
Standalone == {Decode(<<R0>>, <<0>>)}
=============================================================================
