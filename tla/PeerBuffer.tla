----------------------------- MODULE PeerBuffer -----------------------------
(***************************************************************************)
(* SymmetricPeerBuffer of kernels/monokernel/runtime.py: every rank        *)
(* allocates a buffer, maps the buffers of all others through HIP IPC      *)
(* handles, runs kernels that access them, and closes the mappings again   *)
(* in a protocol of collectives, since nobody may free a buffer that       *)
(* another rank still maps.                                                *)
(*                                                                         *)
(* The collectives of a process group complete, on each rank, when every   *)
(* rank has entered its call of the same number.                           *)
(***************************************************************************)
EXTENDS Naturals, Sequences, FiniteSets

CONSTANTS
  Group,           \* the process group, two ranks or more
  MaxOpenFaults,   \* bound: hipIpcOpenMemHandle calls that fail
  MaxCloseFaults,  \* bound: hipIpcCloseMemHandle calls that fail
  MaxKernels       \* bound: kernels each rank launches

ASSUME GroupAssumption ==
  /\ IsFiniteSet(Group) /\ Cardinality(Group) > 1
  /\ {MaxOpenFaults, MaxCloseFaults, MaxKernels} \subseteq Nat

VARIABLES
  pc,         \* where each rank is in __init__ or close
  live,       \* ranks whose storage is allocated
  mapped,     \* the peers whose storage each rank maps
  bases,      \* _remote_bases: those of them the rank knows of
  safe,       \* _safety_barrier_complete
  posted,     \* what each rank has put into its collectives: an error or none
  running,    \* ranks with a kernel in flight
  launched,   \* kernels launched so far
  openFaults, closeFaults

gpu == <<running, launched>>
faults == <<openFaults, closeFaults>>
bufferVars == <<pc, live, mapped, bases, safe, posted, gpu, faults>>

\* Mutant: a rank opens the handle of its own storage, too.
Everyone(r) == Group

Peers(r) == Group \ {r}

BufferInit ==
  /\ pc = [r \in Group |-> "new"] /\ live = {}
  /\ mapped = [r \in Group |-> {}] /\ bases = mapped /\ safe = [r \in Group |-> FALSE]
  /\ posted = [r \in Group |-> <<>>]
  /\ running = {} /\ launched = [r \in Group |-> 0]
  /\ openFaults = 0 /\ closeFaults = 0

Goto(r, from, to) == pc[r] = from /\ pc' = [pc EXCEPT ![r] = to]

\* Rank r enters its next collective, with an error or none.
Enter(r, error) == posted' = [posted EXCEPT ![r] = Append(@, error)]

\* The collective rank r is in is complete.
Complete(r) == \A q \in Group : Len(posted[q]) >= Len(posted[r])

\* Mutant: a rank looks at its own error only.
OwnError(r) == posted[r][Len(posted[r])]

\* Some rank put an error into the collective rank r is in.
AnyError(r) == \E q \in Group : posted[q][Len(posted[r])]

-----------------------------------------------------------------------------
(* __init__                                                                *)

Allocate(r) ==
  /\ Goto(r, "new", "exchange")
  /\ live' = live \cup {r} /\ Enter(r, FALSE)
  /\ UNCHANGED <<mapped, bases, safe, gpu, faults>>

Exchanged(r) ==
  /\ Goto(r, "exchange", "open") /\ Complete(r)
  /\ UNCHANGED <<live, mapped, bases, safe, posted, gpu, faults>>

Open(r, q) ==
  /\ pc[r] = "open" /\ q \in Peers(r) \ mapped[r]
  /\ mapped' = [mapped EXCEPT ![r] = @ \cup {q}]
  /\ bases' = [bases EXCEPT ![r] = @ \cup {q}]
  /\ UNCHANGED <<pc, live, safe, posted, gpu, faults>>

\* The mappings opened before are closed, and forgotten whether they closed or
\* not; with the exception the object and its storage go.
OpenFails(r, bad) ==
  /\ Goto(r, "open", "failed") /\ mapped[r] # Peers(r)
  /\ openFaults < MaxOpenFaults /\ openFaults' = openFaults + 1
  /\ bad \subseteq mapped[r] /\ closeFaults + Cardinality(bad) <= MaxCloseFaults
  /\ closeFaults' = closeFaults + Cardinality(bad)
  /\ mapped' = [mapped EXCEPT ![r] = bad] /\ bases' = [bases EXCEPT ![r] = {}]
  /\ live' = live \ {r}
  /\ UNCHANGED <<safe, posted, gpu>>

Opened(r) ==
  /\ mapped[r] = Peers(r) /\ Goto(r, "open", "openbarrier") /\ Enter(r, FALSE)
  /\ UNCHANGED <<live, mapped, bases, safe, gpu, faults>>

Ready(r) ==
  /\ Goto(r, "openbarrier", "ready") /\ Complete(r)
  /\ UNCHANGED <<live, mapped, bases, safe, posted, gpu, faults>>

-----------------------------------------------------------------------------
(* A kernel that accesses every rank's buffer, while the buffer is open.   *)

LaunchKernel(r) ==
  /\ pc[r] = "ready" /\ ~safe[r] /\ r \notin running /\ launched[r] < MaxKernels
  /\ running' = running \cup {r} /\ launched' = [launched EXCEPT ![r] = @ + 1]
  /\ UNCHANGED <<pc, live, mapped, bases, safe, posted, faults>>

KernelEnds(r) ==
  /\ r \in running /\ running' = running \ {r}
  /\ UNCHANGED <<pc, live, mapped, bases, safe, posted, launched, faults>>

-----------------------------------------------------------------------------
(* close                                                                   *)

\* Mutant: the barrier is skipped.
NoBarrier(r) == "close"

\* Where close goes on: the barrier, unless an earlier call has been behind it.
CloseFrom(r) == IF safe[r] THEN "close" ELSE "closebarrier"

\* synchronize, and the barrier entered.
Close(r) ==
  /\ Goto(r, "ready", CloseFrom(r)) /\ (safe[r] \/ r \notin running)
  /\ IF CloseFrom(r) = "closebarrier" THEN Enter(r, FALSE) ELSE UNCHANGED posted
  /\ UNCHANGED <<live, mapped, bases, safe, gpu, faults>>

AllSafe(r) ==
  /\ Goto(r, "closebarrier", "close") /\ Complete(r)
  /\ safe' = [safe EXCEPT ![r] = TRUE]
  /\ UNCHANGED <<live, mapped, bases, posted, gpu, faults>>

\* Mutant: the mappings are forgotten whether they closed or not.
ForgetAll(bad) == {}

\* The mappings that stay tracked.
Kept(bad) == bad

\* Every mapping is closed, but for those whose close fails.
CloseMappings(r, bad) ==
  /\ Goto(r, "close", "errors") /\ bad \subseteq bases[r]
  /\ closeFaults + Cardinality(bad) <= MaxCloseFaults
  /\ closeFaults' = closeFaults + Cardinality(bad)
  /\ mapped' = [mapped EXCEPT ![r] = (@ \ bases[r]) \cup bad]
  /\ bases' = [bases EXCEPT ![r] = Kept(bad)]
  /\ Enter(r, bad # {})
  /\ UNCHANGED <<live, safe, gpu, openFaults>>

\* The errors are known: close raises on every rank, to be called again, ...
Raise(r) ==
  /\ Goto(r, "errors", "ready") /\ Complete(r) /\ AnyError(r)
  /\ UNCHANGED <<live, mapped, bases, safe, posted, gpu, faults>>

\* ... or returns on every rank.
Closed(r) ==
  /\ Goto(r, "errors", "closed") /\ Complete(r) /\ ~AnyError(r)
  /\ UNCHANGED <<live, mapped, bases, safe, posted, gpu, faults>>

\* The caller drops the closed buffer, with its storage.
Release(r) ==
  /\ Goto(r, "closed", "released") /\ live' = live \ {r}
  /\ UNCHANGED <<mapped, bases, safe, posted, gpu, faults>>

-----------------------------------------------------------------------------
Step(r) ==
  \/ Allocate(r) \/ Exchanged(r) \/ Opened(r) \/ Ready(r)
  \/ \E q \in Group : Open(r, q)
  \/ \E bad \in SUBSET Group : OpenFails(r, bad) \/ CloseMappings(r, bad)
  \/ Close(r) \/ AllSafe(r) \/ Raise(r) \/ Closed(r) \/ Release(r)

BufferNext == \E r \in Group : Step(r) \/ LaunchKernel(r) \/ KernelEnds(r)

BufferSpec == BufferInit /\ [][BufferNext]_bufferVars

\* Ranks go on, call close until it returns, and kernels end.
FairBufferSpec ==
  BufferSpec /\ \A r \in Group : WF_bufferVars(Step(r)) /\ WF_bufferVars(KernelEnds(r))

-----------------------------------------------------------------------------
BufferTypeOK ==
  /\ pc \in [Group -> {"new", "exchange", "open", "openbarrier", "ready", "failed",
                      "closebarrier", "close", "errors", "closed", "released"}]
  /\ {live, running} \subseteq SUBSET Group
  /\ {mapped, bases} \subseteq [Group -> SUBSET Group]
  /\ \A r \in Group : bases[r] \subseteq mapped[r] /\ r \notin mapped[r]
  /\ safe \in [Group -> BOOLEAN]
  /\ posted \in [Group -> Seq(BOOLEAN)]
  /\ launched \in [Group -> 0..MaxKernels]
  /\ openFaults \in 0..MaxOpenFaults /\ closeFaults \in 0..MaxCloseFaults

\* No rank maps storage that is gone: "A fast rank must not release its pool
\* while peers still have its allocation mapped."
MappedIsLive == \A r \in Group : mapped[r] \subseteq live

\* A kernel in flight finds every peer's buffer mapped: nobody closes a mapping
\* its own kernel uses ("Synchronize every rank, then ... close").
KernelHasPeers == \A r \in running : mapped[r] = Peers(r) /\ Peers(r) \subseteq live

\* When close has returned on one rank it returns, and does not raise, on all
\* ("every rank must retry if any rank fails"): the others are in the same
\* round, and have no mapping left.
ClosedTogether ==
  \A r, q \in Group :
    pc[r] \in {"closed", "released"} =>
      pc[q] \in {"errors", "closed", "released"} /\ mapped[q] = {}

\* Every rank gets its buffer closed and freed, however many closes fail first,
\* unless a rank could not open it.
AllReleased ==
  <>(\/ \A r \in Group : pc[r] = "released"
     \/ \E r \in Group : pc[r] = "failed")
=============================================================================
