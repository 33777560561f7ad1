------------------------------ MODULE MCSplitK ------------------------------
(***************************************************************************)
(* Instances of SplitK for TLC: two waves, which add to each other's part. *)
(***************************************************************************)
EXTENDS SplitK

TwoWaves == {1, 2}
Crossed == [w \in TwoWaves |-> 3 - w]
TwoShapes == {<<2, 2>>, <<1, 3>>}
OneShape == {<<1, 2>>}
=============================================================================
