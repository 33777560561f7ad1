--------------------------- MODULE MCGraphCapture ---------------------------
(***************************************************************************)
(* GraphCapture for TLC: the captures of a run.                            *)
(***************************************************************************)
EXTENDS GraphCapture, SequencesExt

CONSTANTS MaxCalls  \* bound: calls of a capture

Captures == BoundedSeq(Tensor, MaxCalls)
TwoCaptures == Captures \X Captures
=============================================================================
