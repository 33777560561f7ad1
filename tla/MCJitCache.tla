----------------------------- MODULE MCJitCache -----------------------------
(***************************************************************************)
(* Instances of JitCache for TLC: how the threads are spread over the      *)
(* processes.                                                              *)
(***************************************************************************)
EXTENDS JitCache, TLC

CONSTANTS t1, t2, t3, t4, p1, p2, p3, k1, k2

\* One thread in each of two processes.
TwoProcesses == t1 :> p1 @@ t2 :> p2
\* Two threads of one process.
OneProcess == t1 :> p1 @@ t2 :> p1
\* Two threads of one process beside two other processes.
ThreeProcesses == t1 :> p1 @@ t2 :> p1 @@ t3 :> p2 @@ t4 :> p3

\* Processes change places, and their threads with them.
SwapProcesses ==
  {f \in Permutations(Thread \cup Proc) :
     \A t \in Thread : f[t] \in Thread /\ ProcOf[f[t]] = f[ProcOf[t]]}
\* Threads of one process change places, and so do keys that are alike.
SwapThreadsAndKeys == Permutations({t1, t2}) \cup Permutations({k1, k2})
=============================================================================
