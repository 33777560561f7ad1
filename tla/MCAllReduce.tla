---------------------------- MODULE MCAllReduce -----------------------------
(***************************************************************************)
(* AllReduce for TLC: the programs of a run.                               *)
(***************************************************************************)
EXTENDS AllReduce, SequencesExt

CONSTANTS Sizes, MaxCalls

AllPrograms == BoundedSeq(Sizes, MaxCalls)

\* Every mix of calls in which a call finds its buffers free.
SafePrograms == {s \in AllPrograms : Len(s) = MaxCalls /\ Even(s) /\ Ordered(s)}
=============================================================================
