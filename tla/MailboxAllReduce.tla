-------------------------- MODULE MailboxAllReduce --------------------------
(***************************************************************************)
(* The all-reduce of kernels/monokernel/symmetric_allreduce.py, which the  *)
(* projections of gemm_a16w16.py share: every rank stores its values, each *)
(* with the tag of the call, into mailboxes of every rank's symmetric      *)
(* buffer, and polls its own mailboxes until all hold that tag. There is   *)
(* no signal but the tags, and two slots of mailboxes for each region.     *)
(*                                                                         *)
(* A pair of BF16 values is abstracted to its contribution, <<rank, pair,  *)
(* call>>. A value and its tag are one store of eight bytes.               *)
(***************************************************************************)
EXTENDS Naturals, Sequences, FiniteSets

CONSTANTS
  World,       \* npes
  Regions,     \* shapes a buffer serves, each by a region of its own
  Size,        \* pairs each region's calls reduce
  Threads,     \* pairs of a block
  LayerSlots,  \* LAYER_SLOTS, 128
  Programs     \* sequences of calls: [region, layer, advance]

ASSUME ConstantsAssumption ==
  /\ {World, Threads, LayerSlots} \subseteq Nat \ {0}
  /\ Size \in [Regions -> Nat \ {0}]
  /\ \A s \in Programs :
       s \in Seq([region : Regions, layer : 0..(LayerSlots - 1), advance : BOOLEAN])

Rank     == 0..(World - 1)
Slot     == {0, 1}
Pairs(g) == 0..(Size[g] - 1)
AllPairs == UNION {Pairs(g) : g \in Regions}

VARIABLES
  program,   \* the calls every rank makes, in this order
  call,      \* calls a rank's stream has started
  busy,      \* whether it still runs the last of them
  step,      \* its device counter of decode steps
  sent,      \* <<pair, peer>> the kernel has stored
  got,       \* pairs it has read from all ranks and summed
  mailbox,   \* its symmetric buffer, by region, slot, source rank and pair
  out        \* the result of its last call

vars == <<program, call, busy, step, sent, got, mailbox, out>>

Current(r) == program[call[r]]
Region(r)  == Current(r).region

\* The launch's epoch.
Epoch(r) == step[r] * LayerSlots + Current(r).layer

\* Mutant: the tag is that of the step.
StepTag(r) == step[r] + 1

Tag(r) == Epoch(r) + 1

\* Mutant: a single slot.
OneSlot(r) == 0

SlotOf(r) == Epoch(r) % 2

BlockOf(p) == p \div Threads

Init ==
  /\ program \in Programs
  /\ call = [r \in Rank |-> 0] /\ busy = [r \in Rank |-> FALSE]
  /\ step = [r \in Rank |-> 0]
  /\ sent = [r \in Rank |-> {}] /\ got = [r \in Rank |-> {}]
  /\ mailbox = [r \in Rank |-> [g \in Regions |-> [s \in Slot |->
                  [q \in Rank |-> [p \in Pairs(g) |-> [value |-> <<>>, tag |-> 0]]]]]]
  /\ out = [r \in Rank |-> <<>>]

-----------------------------------------------------------------------------
(* The stream of a rank runs one kernel after the other, and adds to the   *)
(* step counter behind the call that advances it.                          *)

Launch(r) ==
  /\ ~busy[r] /\ call[r] < Len(program)
  /\ call' = [call EXCEPT ![r] = @ + 1] /\ busy' = [busy EXCEPT ![r] = TRUE]
  /\ sent' = [sent EXCEPT ![r] = {}] /\ got' = [got EXCEPT ![r] = {}]
  /\ out' = [out EXCEPT ![r] = [p \in Pairs(program[call'[r]].region) |-> {}]]
  /\ UNCHANGED <<program, step, mailbox>>

Return(r) ==
  /\ busy[r] /\ got[r] = Pairs(Region(r))
  /\ busy' = [busy EXCEPT ![r] = FALSE]
  /\ step' = [step EXCEPT ![r] = IF Current(r).advance THEN @ + 1 ELSE @]
  /\ UNCHANGED <<program, call, sent, got, mailbox, out>>

-----------------------------------------------------------------------------
(* The kernel. Wave q of a block stores the block's pairs to rank q.       *)

Send(r, q, p) ==
  /\ busy[r] /\ p \in Pairs(Region(r)) /\ <<p, q>> \notin sent[r]
  /\ sent' = [sent EXCEPT ![r] = @ \cup {<<p, q>>}]
  /\ mailbox' = [mailbox EXCEPT ![q][Region(r)][SlotOf(r)][r][p] =
                   [value |-> <<r, p, call[r]>>, tag |-> Tag(r)]]
  /\ UNCHANGED <<program, call, busy, step, got, out>>

\* The block's waves are through with their stores.
AtBarrier(r, p) ==
  \A i \in Pairs(Region(r)), q \in Rank :
    BlockOf(i) = BlockOf(p) => <<i, q>> \in sent[r]

\* What rank r finds in its mailbox of rank q for pair p.
Found(r, q, p) == mailbox[r][Region(r)][SlotOf(r)][q][p]

\* Mutant: any tag will do.
FromStart(r, q, p) == Found(r, q, p).tag > 0

\* Polled until equal.
Arrived(r, q, p) == Found(r, q, p).tag = Tag(r)

Receive(r, p) ==
  /\ busy[r] /\ p \in Pairs(Region(r)) \ got[r] /\ AtBarrier(r, p)
  /\ \A q \in Rank : Arrived(r, q, p)
  /\ got' = [got EXCEPT ![r] = @ \cup {p}]
  /\ out' = [out EXCEPT ![r][p] = {Found(r, q, p).value : q \in Rank}]
  /\ UNCHANGED <<program, call, busy, step, sent, mailbox>>

-----------------------------------------------------------------------------
Kernel(r) == \E p \in AllPairs : Receive(r, p) \/ \E q \in Rank : Send(r, q, p)

Next == \E r \in Rank : Launch(r) \/ Return(r) \/ Kernel(r)

Spec == Init /\ [][Next]_vars

\* Streams make progress, and so do the threads of a kernel. A block that polls
\* waits for the same block of other ranks, and blocks become resident in order:
\* the first that has not ended is resident everywhere.
FairSpec ==
  /\ Spec
  /\ \A r \in Rank :
       /\ WF_vars(Launch(r) \/ Return(r))
       /\ \A p \in AllPairs : WF_vars(Receive(r, p)) /\ \A q \in Rank : WF_vars(Send(r, q, p))

-----------------------------------------------------------------------------
TypeOK ==
  /\ program \in Programs
  /\ call \in [Rank -> 0..Len(program)] /\ busy \in [Rank -> BOOLEAN]
  /\ \A r \in Rank : busy[r] => call[r] > 0
  /\ step \in [Rank -> Nat] /\ \A r \in Rank : step[r] <= call[r]
  /\ sent \in [Rank -> SUBSET (AllPairs \X Rank)] /\ got \in [Rank -> SUBSET AllPairs]
  /\ \A r, q \in Rank, g \in Regions, s \in Slot : \A p \in Pairs(g) :
       LET m == mailbox[r][g][s][q][p] IN
       m.tag > 0 => m.tag % 2 # s /\ m.value \in {q} \X {p} \X (1..call[q])

\* Epochs follow from the order of the calls: the decode steps before call c of
\* s, and its epoch.
StepAt(s, c)  == Cardinality({i \in 1..(c - 1) : s[i].advance})
EpochAt(s, c) == StepAt(s, c) * LayerSlots + s[c].layer

\* The orders the slots are made for: the calls of a region have epochs of their
\* own, and two that follow each other at once do not share a slot.
InOrder(s) ==
  \A d \in 1..Len(s) : \A c \in 1..(d - 1) : s[c].region = s[d].region =>
    /\ EpochAt(s, c) # EpochAt(s, d)
    /\ d = c + 1 => EpochAt(s, c) % 2 # EpochAt(s, d) % 2

\* The kernels implement the collective: a call returns after every rank has
\* entered it, with the sum of that call's values and of no other call's.
Result(r) ==
  IF busy[r] \/ call[r] = 0 THEN <<>>
  ELSE [i \in 1..Size[Region(r)] |-> out[r][i - 1]]
Abstract == INSTANCE Collective WITH
  Programs <- {[i \in 1..Len(s) |-> Size[s[i].region]] : s \in Programs},
  program  <- [i \in 1..Len(program) |-> Size[program[i].region]],
  entered  <- call,
  returned <- [r \in Rank |-> IF busy[r] THEN call[r] - 1 ELSE call[r]],
  result   <- [r \in Rank |-> Result(r)]
CollectiveSpec == Abstract!Spec

\* A value stays in its mailbox until the rank it was sent to has read it: a
\* store finds no pair there that its owner still waits for. "two
\* tagged-mailbox epoch slots per reduce region" are there for this.
Unread(r, g, s, q, p) ==
  LET m == mailbox[r][g][s][q][p] IN
  m.tag > 0 /\ (call[r] < m.value[3] \/ (call[r] = m.value[3] /\ p \notin got[r]))
NoneLost ==
  [][\A r, q \in Rank, g \in Regions, s \in Slot : \A p \in Pairs(g) :
       Unread(r, g, s, q, p) => mailbox'[r][g][s][q][p] = mailbox[r][g][s][q][p]]_vars

\* Every rank gets through its calls: nobody polls a mailbox for a tag that
\* has been there and is gone.
AllReturn == <>[](\A r \in Rank : call[r] = Len(program) /\ ~busy[r])
=============================================================================
