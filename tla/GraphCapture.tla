---------------------------- MODULE GraphCapture ----------------------------
(***************************************************************************)
(* CUDA-graph captures of the custom all-reduce: capture,                  *)
(* _get_or_create_graph_ptrs and _register_graph_tensors of                *)
(* kernels/comm/custom_all_reduce.py on every rank.                        *)
(*                                                                         *)
(* A call recorded in a graph reads its peers' tensors through a table of  *)
(* pointers that is allocated while recording and filled when the capture  *)
(* ends, from an exchange in which a rank's n-th entry meets the n-th      *)
(* entry of the others. A pointer is abstracted to the address its tensor  *)
(* has on the rank that owns it. The caller goes on to its next capture    *)
(* when one has raised, as tests/kernels/test_allreduce.py does.           *)
(***************************************************************************)
EXTENDS Naturals, Sequences, FiniteSets

CONSTANTS
  World,        \* ranks
  Tensor,       \* the tensors of a capture, the same on every rank
  Address,      \* data_ptr values
  Programs,     \* sequences of captures: the tensors of their calls
  MaxFaults     \* bound: HIP calls of the registrations that fail

ASSUME ConstantsAssumption ==
  /\ World \in Nat \ {0} /\ MaxFaults \in Nat
  /\ \A s \in Programs : s \in Seq(Seq(Tensor))

Rank == 0..(World - 1)

VARIABLES
  program,   \* the captures every rank makes
  address,   \* where each rank has each capture's tensors
  pc,        \* where each rank is
  capture,   \* captures it has begun
  recorded,  \* calls it has recorded in the last of them
  unreg,     \* _graph_ipc_unreg_list: <<address, table>>
  ptrs,      \* _graph_ptrs_cache: the table of each address seen
  table,     \* the pointer tables allocated so far, empty until filled
  graph,     \* the table each recorded call of each capture uses
  posted,    \* the lists a rank has put into its exchanges
  entry,     \* entry_idx of the registration
  raised,    \* the registrations that raised, "ahead" of the exchange or "behind" it
  faults

caller == <<program, address>>
recording == <<capture, recorded, ptrs, graph>>
vars == <<caller, pc, recording, unreg, table, posted, entry, raised, faults>>

Injective(f) == \A t, u \in DOMAIN f : f[t] = f[u] => t = u

Init ==
  /\ program \in Programs
  /\ address \in [Rank -> [1..Len(program) -> {f \in [Tensor -> Address] : Injective(f)}]]
  /\ pc = [r \in Rank |-> "idle"]
  /\ capture = [r \in Rank |-> 0] /\ recorded = capture /\ entry = capture
  /\ unreg = [r \in Rank |-> <<>>] /\ ptrs = unreg /\ table = unreg /\ posted = unreg
  /\ graph = [r \in Rank |-> [c \in 1..Len(program) |-> <<>>]]
  /\ raised = {} /\ faults = 0

Goto(r, from, to) == pc[r] = from /\ pc' = [pc EXCEPT ![r] = to]

Calls(r) == program[capture[r]]

-----------------------------------------------------------------------------
(* capture and the calls within it                                         *)

\* Mutant: the tables of the last capture are used again.
OldPtrs(r) == ptrs[r]

\* The dedup cache a capture begins with.
FreshPtrs(r) == <<>>

Begin(r) ==
  /\ Goto(r, "idle", "capturing") /\ capture[r] < Len(program)
  /\ capture' = [capture EXCEPT ![r] = @ + 1] /\ recorded' = [recorded EXCEPT ![r] = 0]
  /\ ptrs' = [ptrs EXCEPT ![r] = FreshPtrs(r)]
  /\ UNCHANGED <<caller, unreg, table, graph, posted, entry, raised, faults>>

Current(r) == address[r][capture[r]][Calls(r)[recorded[r] + 1]]

\* A call on a tensor whose address has a table, ...
RecordAgain(r) ==
  /\ pc[r] = "capturing" /\ recorded[r] < Len(Calls(r)) /\ Current(r) \in DOMAIN ptrs[r]
  /\ recorded' = [recorded EXCEPT ![r] = @ + 1]
  /\ graph' = [graph EXCEPT ![r][capture[r]] = Append(@, ptrs[r][Current(r)])]
  /\ UNCHANGED <<caller, pc, capture, unreg, ptrs, table, posted, entry, raised, faults>>

\* ... and on one that gets a new one.
Record(r) ==
  LET a == Current(r)  n == Len(table[r]) + 1 IN
  /\ pc[r] = "capturing" /\ recorded[r] < Len(Calls(r)) /\ a \notin DOMAIN ptrs[r]
  /\ recorded' = [recorded EXCEPT ![r] = @ + 1]
  /\ table' = [table EXCEPT ![r] = Append(@, <<>>)]
  /\ unreg' = [unreg EXCEPT ![r] = Append(@, <<a, n>>)]
  /\ ptrs' = [ptrs EXCEPT ![r] = [b \in DOMAIN @ \cup {a} |-> IF b = a THEN n ELSE @[b]]]
  /\ graph' = [graph EXCEPT ![r][capture[r]] = Append(@, n)]
  /\ UNCHANGED <<caller, pc, capture, posted, entry, raised, faults>>

\* Mutants: every capture registers, or only a rank's first one.
Always(r)    == TRUE
FirstOnly(r) == unreg[r] # <<>> /\ \A i \in DOMAIN table[r] : table[r][i] = <<>>

\* Whether there is something to register.
Pending(r) == unreg[r] # <<>>

\* The end of the capture: if there is, the exchange is entered.
End(r) ==
  /\ pc[r] = "capturing" /\ recorded[r] = Len(Calls(r))
  /\ IF Pending(r)
     THEN /\ pc' = [pc EXCEPT ![r] = "exchange"]
          /\ posted' = [posted EXCEPT ![r] = Append(@, [i \in DOMAIN unreg[r] |-> unreg[r][i][1]])]
     ELSE pc' = [pc EXCEPT ![r] = "idle"] /\ UNCHANGED posted
  /\ UNCHANGED <<caller, recording, unreg, table, entry, raised, faults>>

-----------------------------------------------------------------------------
(* _register_graph_tensors. What raises leaves the list as it is.          *)

Raise(r, when) == raised' = raised \cup {<<r, capture[r], when>>}

\* The base or the handle of a tensor is not to be had, ahead of the exchange:
\* the peers wait in it, and this rank's next one is the one they meet.
HandleFails(r) ==
  /\ Goto(r, "capturing", "idle") /\ Raise(r, "ahead")
  /\ recorded[r] = Len(Calls(r)) /\ Pending(r)
  /\ faults < MaxFaults /\ faults' = faults + 1
  /\ UNCHANGED <<caller, recording, unreg, table, posted, entry>>

\* What rank q put into the exchange rank r is in.
ListOf(r, q) == posted[q][Len(posted[r])]

Exchanged(r) ==
  /\ Goto(r, "exchange", "fill") /\ entry' = [entry EXCEPT ![r] = 1]
  /\ \A q \in Rank : Len(posted[q]) >= Len(posted[r])
  /\ UNCHANGED <<caller, recording, unreg, table, posted, raised, faults>>

\* Mutant: handles are matched from the end of the lists.
FromLast(r, q) == ListOf(r, q)[Len(ListOf(r, q)) + 1 - entry[r]]

\* The pointer rank r gets from rank q for its current entry.
Pointer(r, q) == ListOf(r, q)[entry[r]]

Fill(r) ==
  /\ pc[r] = "fill" /\ entry[r] <= Len(unreg[r])
  /\ \A q \in Rank : entry[r] <= Len(ListOf(r, q))
  /\ table' = [table EXCEPT ![r][unreg[r][entry[r]][2]] = [q \in Rank |-> Pointer(r, q)]]
  /\ entry' = [entry EXCEPT ![r] = @ + 1]
  /\ UNCHANGED <<caller, pc, recording, unreg, posted, raised, faults>>

\* all_ranks_handles[r][entry_idx] raises IndexError, ...
TooShort(r) ==
  /\ Goto(r, "fill", "idle") /\ Raise(r, "behind")
  /\ entry[r] <= Len(unreg[r]) /\ \E q \in Rank : entry[r] > Len(ListOf(r, q))
  /\ UNCHANGED <<caller, recording, unreg, table, posted, entry, faults>>

\* ... or a peer's handle does not open.
OpenFails(r) ==
  /\ World > 1 /\ entry[r] <= Len(unreg[r])
  /\ faults < MaxFaults /\ faults' = faults + 1
  /\ Goto(r, "fill", "idle") /\ Raise(r, "behind")
  /\ UNCHANGED <<caller, recording, unreg, table, posted, entry>>

\* Mutant: the entries stay on the list.
Kept(r) == unreg[r]

\* The list a registration leaves.
Cleared(r) == <<>>

Registered(r) ==
  /\ entry[r] > Len(unreg[r])
  /\ Goto(r, "fill", "idle") /\ unreg' = [unreg EXCEPT ![r] = Cleared(r)]
  /\ UNCHANGED <<caller, recording, table, posted, entry, raised, faults>>

-----------------------------------------------------------------------------
Step(r) ==
  \/ Begin(r) \/ RecordAgain(r) \/ Record(r) \/ End(r) \/ HandleFails(r)
  \/ Exchanged(r) \/ Fill(r) \/ TooShort(r) \/ OpenFails(r) \/ Registered(r)

Next == \E r \in Rank : Step(r)

Spec == Init /\ [][Next]_vars

\* Every rank goes on.
FairSpec == Spec /\ \A r \in Rank : WF_vars(Step(r))

-----------------------------------------------------------------------------
TypeOK ==
  /\ pc \in [Rank -> {"idle", "capturing", "exchange", "fill"}]
  /\ capture \in [Rank -> 0..Len(program)]
  /\ \A r \in Rank :
       /\ \A i \in DOMAIN unreg[r] : unreg[r][i] \in Address \X DOMAIN table[r]
       /\ \A i \in DOMAIN table[r] : table[r][i] \in {<<>>} \cup [Rank -> Address]
       /\ \A a \in DOMAIN ptrs[r] : a \in Address /\ ptrs[r][a] \in DOMAIN table[r]
       /\ \A i \in DOMAIN posted[r] : posted[r][i] \in Seq(Address) \ {<<>>}
  /\ raised \subseteq Rank \X (1..Len(program)) \X {"ahead", "behind"}

\* A recorded call, once its pointers are there, has those of the same call on
\* every peer ...
PeersAgree ==
  \A r \in Rank : \A c \in 1..Len(program) : \A i \in DOMAIN graph[r][c] :
    LET t == table[r][graph[r][c][i]] IN
    t # <<>> => \A q \in Rank : t[q] = address[q][c][program[c][i]]

\* ... as long as no registration has raised on any rank.
Aligned == faults = 0 => PeersAgree

\* Each table is exchanged once: no entry of an earlier capture is registered
\* with those of this one ("_graph_ipc_unreg_list is guaranteed empty here"),
\* as long as no registration has raised on any rank.
OwnEntries ==
  faults = 0 => \A r \in Rank : \A i \in DOMAIN unreg[r] :
    pc[r] # "idle" => \E j \in DOMAIN graph[r][capture[r]] : graph[r][capture[r]][j] = unreg[r][i][2]

Through(r) == pc[r] = "idle" /\ capture[r] = Len(program)

\* Rank r is in an exchange that a peer, which is through, has not entered:
\* the peer raised ahead of one, or rank r entered one more, in a capture
\* without calls, for the entries a registration left that raised.
Deserted(r) ==
  /\ pc[r] = "exchange"
  /\ \E q \in Rank :
       /\ Through(q) /\ Len(posted[q]) < Len(posted[r])
       /\ \/ \E c \in 1..Len(program) : <<q, c, "ahead">> \in raised
          \/ \E x \in raised, c \in 1..capture[r] : x[1] = r /\ x[2] < c /\ program[c] = <<>>

\* Every rank gets through its captures, those that raise included, or waits
\* in the exchange of one that Deserted names: nothing else stops a rank, be
\* it tensors that have a table already, captures without calls, lists of
\* different lengths or a peer's handle that does not open.
CapturesEnd == <>(\A r \in Rank : Through(r) \/ Deserted(r))
=============================================================================
