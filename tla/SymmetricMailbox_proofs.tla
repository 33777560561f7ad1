---------------------- MODULE SymmetricMailbox_proofs -----------------------
(***************************************************************************)
(* Theorems about the symmetric memory of kernels/monokernel: NoneLost and *)
(* the collective of MailboxAllReduce for any number of ranks, regions,    *)
(* pairs and threads, and any programs whose calls are in order; and what  *)
(* PeerBuffer promises of the buffers the mailboxes lie in.                *)
(***************************************************************************)
EXTENDS MailboxAllReduce, PeerBuffer, FiniteSetTheorems, TLAPS

\* Every program keeps to the order the slots are made for.
AllInOrder == \A s \in Programs : InOrder(s)

\* A rank's step counter counts the calls that have advanced it.
Stepped == \A r \in Rank : step[r] = StepAt(program, IF busy[r] THEN call[r] ELSE call[r] + 1)

\* A mailbox is empty or has what one call of its source has put there.
Holds(r, g, s, q, p) ==
  LET m == mailbox[r][g][s][q][p] IN
  m.tag > 0 =>
    \E c \in 1..call[q] :
      /\ m.value = <<q, p, c>> /\ m.tag = EpochAt(program, c) + 1
      /\ program[c].region = g /\ EpochAt(program, c) % 2 = s
      /\ c = call[q] => <<p, r>> \in sent[q]
Held == \A r, q \in Rank, g \in Regions, s \in Slot : \A p \in Pairs(g) : Holds(r, g, s, q, p)

\* A pair is summed when all ranks are in the call.
SummedAt(r, p) ==
  /\ call[r] > 0 /\ p \in Pairs(Region(r))
  /\ \A q \in Rank : call[q] >= call[r]
  /\ out[r][p] = {<<q, p, call[r]>> : q \in Rank}
Summed == \A r \in Rank : \A p \in got[r] : SummedAt(r, p)

\* A call that has returned has summed every pair.
Whole == \A r \in Rank : ~busy[r] /\ call[r] > 0 => got[r] = Pairs(Region(r))

\* No rank is more than a call ahead.
Near == \A q, r \in Rank : call[q] <= call[r] + 1

\* The arrays are as large as the call and the buffers say.
BoxShape ==
  /\ DOMAIN mailbox = Rank
  /\ \A r \in Rank : DOMAIN mailbox[r] = Regions
  /\ \A r \in Rank, g \in Regions : DOMAIN mailbox[r][g] = Slot
  /\ \A r \in Rank, g \in Regions, s \in Slot : DOMAIN mailbox[r][g][s] = Rank
  /\ \A r, q \in Rank, g \in Regions, s \in Slot : DOMAIN mailbox[r][g][s][q] = Pairs(g)
OutShape == DOMAIN out = Rank /\ \A r \in Rank : call[r] > 0 => DOMAIN out[r] = Pairs(Region(r))
Shape == BoxShape /\ OutShape

\* Calls, steps and what the kernels have done are what they can be.
Typed ==
  /\ program \in Programs
  /\ call \in [Rank -> 0..Len(program)] /\ busy \in [Rank -> BOOLEAN]
  /\ \A r \in Rank : busy[r] => call[r] > 0
  /\ step \in [Rank -> Nat]
  /\ sent \in [Rank -> SUBSET (AllPairs \X Rank)] /\ got \in [Rank -> SUBSET AllPairs]

Inv == Typed /\ Shape /\ Stepped /\ Held /\ Summed /\ Whole /\ Near
-----------------------------------------------------------------------------
(* The steps and epochs of a program.                                      *)

Calls == [region : Regions, layer : 0..(LayerSlots - 1), advance : BOOLEAN]

LEMMA ProgramFacts ==
  ASSUME NEW s \in Programs
  PROVE  /\ s \in Seq(Calls) /\ Len(s) \in Nat
         /\ \A c \in 1..Len(s) : /\ s[c] \in Calls /\ s[c].region \in Regions
                                 /\ s[c].layer \in Nat /\ s[c].advance \in BOOLEAN
<1>1. s \in Seq(Calls)
  BY ConstantsAssumption DEF Calls
<1>2. Len(s) \in Nat /\ \A c \in 1..Len(s) : s[c] \in Calls
  BY <1>1
<1>3. 0..(LayerSlots - 1) \subseteq Nat
  BY ConstantsAssumption
<1> QED
  BY <1>1, <1>2, <1>3 DEF Calls

\* Before the first call there has been no step; a call that advances makes one.
LEMMA StepCounts ==
  ASSUME NEW s \in Programs
  PROVE  /\ StepAt(s, 1) = 0
         /\ \A c \in 1..Len(s) :
              /\ StepAt(s, c) \in Nat
              /\ StepAt(s, c + 1) = IF s[c].advance THEN StepAt(s, c) + 1 ELSE StepAt(s, c)
<1> DEFINE Before(c) == {i \in 1..(c - 1) : s[i].advance}
<1>1. StepAt(s, 1) = 0
  <2>1. Before(1) = {}
    OBVIOUS
  <2> QED
    BY <2>1, FS_EmptySet DEF StepAt
<1>2. ASSUME NEW c \in 1..Len(s)
      PROVE  /\ StepAt(s, c) \in Nat
             /\ StepAt(s, c + 1) = IF s[c].advance THEN StepAt(s, c) + 1 ELSE StepAt(s, c)
  <2>1. Len(s) \in Nat /\ c \in Nat /\ c >= 1
    BY ProgramFacts
  <2>2. IsFiniteSet(Before(c))
    <3>1. IsFiniteSet(1..(c - 1))
      BY <2>1, FS_Interval
    <3>2. Before(c) \subseteq 1..(c - 1)
      OBVIOUS
    <3> QED
      BY <3>1, <3>2, FS_Subset
  <2>3. Before(c + 1) = IF s[c].advance THEN Before(c) \cup {c} ELSE Before(c)
    BY <2>1
  <2>4. c \notin Before(c)
    BY <2>1
  <2>5. Cardinality(Before(c) \cup {c}) = Cardinality(Before(c)) + 1
    BY <2>2, <2>4, FS_AddElement
  <2>6. StepAt(s, c) = Cardinality(Before(c)) /\ StepAt(s, c + 1) = Cardinality(Before(c + 1))
    BY DEF StepAt
  <2> HIDE DEF Before
  <2> QED
    BY <2>2, <2>3, <2>5, <2>6, FS_CardinalityType
<1> QED
  BY <1>1, <1>2

LEMMA ProductIsNat == \A m, n \in Nat : m * n \in Nat
OBVIOUS

LEMMA EpochFacts ==
  ASSUME NEW s \in Programs, NEW c \in 1..Len(s)
  PROVE  EpochAt(s, c) \in Nat /\ EpochAt(s, c) % 2 \in Slot
<1>1. EpochAt(s, c) \in Nat
  <2>1. StepAt(s, c) \in Nat /\ LayerSlots \in Nat /\ s[c].layer \in Nat
    BY StepCounts, ProgramFacts, ConstantsAssumption
  <2>2. StepAt(s, c) * LayerSlots \in Nat
    BY <2>1, ProductIsNat
  <2> QED
    BY <2>1, <2>2 DEF EpochAt
<1> QED
  BY <1>1 DEF Slot

\* The epoch, the tag and the slot of the call a rank is in.
LEMMA EpochIs ==
  ASSUME Inv, NEW r \in Rank, busy[r]
  PROVE  /\ call[r] \in 1..Len(program) /\ Region(r) \in Regions
         /\ Epoch(r) = EpochAt(program, call[r]) /\ Epoch(r) \in Nat
         /\ Tag(r) = EpochAt(program, call[r]) + 1 /\ Tag(r) \in Nat /\ Tag(r) > 0
         /\ SlotOf(r) = EpochAt(program, call[r]) % 2 /\ SlotOf(r) \in Slot
<1>1. call[r] \in 1..Len(program) /\ program \in Programs
  BY ProgramFacts DEF Inv, Typed
<1>2. Epoch(r) = EpochAt(program, call[r])
  BY DEF Inv, Stepped, Epoch, EpochAt, Current
<1>3. Region(r) \in Regions
  BY <1>1, ProgramFacts DEF Region, Current
<1> QED
  BY <1>1, <1>2, <1>3, EpochFacts DEF Tag, SlotOf

\* Every call has pairs.
LEMMA SomePair == \A g \in Regions : 0 \in Pairs(g) /\ Size[g] \in Nat /\ Pairs(g) \subseteq AllPairs
BY ConstantsAssumption DEF Pairs, AllPairs

LEMMA RankFacts == World \in Nat /\ \A r \in Rank : r \in Nat
BY ConstantsAssumption DEF Rank

\* A rank that is through a call finds every rank in it.
LEMMA AllEntered ==
  ASSUME Inv, NEW r \in Rank, got[r] = Pairs(Region(r)), call[r] > 0
  PROVE  \A q \in Rank : call[q] >= call[r]
<1>1. Region(r) \in Regions
  BY ProgramFacts DEF Inv, Typed, Region, Current
<1> QED
  BY <1>1, SomePair DEF Inv, Summed, SummedAt

\* A value with the tag of the call is of the call.
LEMMA ArrivedIsCurrent ==
  ASSUME Inv, AllInOrder, NEW r \in Rank, NEW q \in Rank, NEW p \in Pairs(Region(r)),
         busy[r], Arrived(r, q, p)
  PROVE  call[q] >= call[r] /\ Found(r, q, p).value = <<q, p, call[r]>>
<1>1. /\ call[r] \in 1..Len(program) /\ Region(r) \in Regions /\ SlotOf(r) \in Slot
      /\ Tag(r) = EpochAt(program, call[r]) + 1 /\ Tag(r) > 0 /\ Tag(r) \in Nat
  BY EpochIs
<1>2. Found(r, q, p).tag = Tag(r)
  BY DEF Arrived
<1>3. Holds(r, Region(r), SlotOf(r), q, p)
  BY <1>1 DEF Inv, Held
<1>4. PICK c \in 1..call[q] :
        /\ Found(r, q, p).value = <<q, p, c>>
        /\ Tag(r) = EpochAt(program, c) + 1
        /\ program[c].region = Region(r)
  BY <1>1, <1>2, <1>3 DEF Holds, Found
<1>5. program \in Programs /\ Len(program) \in Nat /\ call[q] \in 0..Len(program)
  BY ProgramFacts DEF Inv, Typed
<1>6. c \in 1..Len(program)
  BY <1>5
<1>7. EpochAt(program, c) = EpochAt(program, call[r])
  BY <1>1, <1>4, <1>5, <1>6, EpochFacts
<1>8. InOrder(program)
  BY <1>5 DEF AllInOrder
<1>9. program[call[r]].region = Region(r)
  BY DEF Region, Current
<1>10. ~(c < call[r])
  BY <1>1, <1>4, <1>6, <1>7, <1>8, <1>9 DEF InOrder
<1>11. ~(call[r] < c)
  BY <1>1, <1>4, <1>6, <1>7, <1>8, <1>9 DEF InOrder
<1>12. c = call[r]
  BY <1>1, <1>6, <1>10, <1>11
<1> QED
  BY <1>4, <1>5, <1>12

-----------------------------------------------------------------------------
(* The steps.                                                              *)

Stores(r, g, s, q, p, v) == mailbox' = [mailbox EXCEPT ![r][g][s][q][p] = v]

\* A store changes one cell.
LEMMA Stored ==
  ASSUME Shape, NEW r \in Rank, NEW g \in Regions, NEW s \in Slot, NEW q \in Rank,
         NEW p \in Pairs(g), NEW v, Stores(r, g, s, q, p, v)
  PROVE  /\ BoxShape'
         /\ \A r2, q2 \in Rank, g2 \in Regions, s2 \in Slot : \A p2 \in Pairs(g2) :
              mailbox'[r2][g2][s2][q2][p2] =
                IF r2 = r /\ g2 = g /\ s2 = s /\ q2 = q /\ p2 = p
                THEN v ELSE mailbox[r2][g2][s2][q2][p2]
<1>1. /\ DOMAIN mailbox' = Rank
      /\ mailbox'[r] = [mailbox[r] EXCEPT ![g][s][q][p] = v]
      /\ \A r2 \in Rank : r2 # r => mailbox'[r2] = mailbox[r2]
  BY DEF Shape, BoxShape, Stores
<1>2. /\ DOMAIN mailbox'[r] = Regions
      /\ mailbox'[r][g] = [mailbox[r][g] EXCEPT ![s][q][p] = v]
      /\ \A g2 \in Regions : g2 # g => mailbox'[r][g2] = mailbox[r][g2]
  <2>1. DOMAIN mailbox[r] = Regions
    BY DEF Shape, BoxShape
  <2> QED
    BY <1>1, <2>1
<1>3. /\ DOMAIN mailbox'[r][g] = Slot
      /\ mailbox'[r][g][s] = [mailbox[r][g][s] EXCEPT ![q][p] = v]
      /\ \A s2 \in Slot : s2 # s => mailbox'[r][g][s2] = mailbox[r][g][s2]
  <2>1. DOMAIN mailbox[r][g] = Slot
    BY DEF Shape, BoxShape
  <2> QED
    BY <1>2, <2>1
<1>4. /\ DOMAIN mailbox'[r][g][s] = Rank
      /\ mailbox'[r][g][s][q] = [mailbox[r][g][s][q] EXCEPT ![p] = v]
      /\ \A q2 \in Rank : q2 # q => mailbox'[r][g][s][q2] = mailbox[r][g][s][q2]
  <2>1. DOMAIN mailbox[r][g][s] = Rank
    BY DEF Shape, BoxShape
  <2> QED
    BY <1>3, <2>1
<1>5. /\ DOMAIN mailbox'[r][g][s][q] = Pairs(g)
      /\ mailbox'[r][g][s][q][p] = v
      /\ \A p2 \in Pairs(g) : p2 # p => mailbox'[r][g][s][q][p2] = mailbox[r][g][s][q][p2]
  <2>1. DOMAIN mailbox[r][g][s][q] = Pairs(g)
    BY DEF Shape, BoxShape
  <2> QED
    BY <1>4, <2>1
<1>6. BoxShape'
  <2>1. \A r2 \in Rank : DOMAIN mailbox'[r2] = Regions
    BY <1>1, <1>2 DEF Shape, BoxShape
  <2>2. ASSUME NEW r2 \in Rank, NEW g2 \in Regions, NEW s2 \in Slot, NEW q2 \in Rank
        PROVE  /\ DOMAIN mailbox'[r2][g2] = Slot /\ DOMAIN mailbox'[r2][g2][s2] = Rank
               /\ DOMAIN mailbox'[r2][g2][s2][q2] = Pairs(g2)
    <3>1. /\ DOMAIN mailbox[r2][g2] = Slot /\ DOMAIN mailbox[r2][g2][s2] = Rank
          /\ DOMAIN mailbox[r2][g2][s2][q2] = Pairs(g2)
      BY DEF Shape, BoxShape
    <3>2. CASE r2 # r
      BY <1>1, <3>1, <3>2
    <3>3. CASE r2 = r /\ g2 # g
      BY <1>2, <3>1, <3>3
    <3>4. CASE r2 = r /\ g2 = g /\ s2 # s
      BY <1>3, <3>1, <3>4
    <3>5. CASE r2 = r /\ g2 = g /\ s2 = s /\ q2 # q
      BY <1>3, <1>4, <3>1, <3>5
    <3>6. CASE r2 = r /\ g2 = g /\ s2 = s /\ q2 = q
      BY <1>3, <1>4, <1>5, <3>6
    <3> QED
      BY <3>2, <3>3, <3>4, <3>5, <3>6
  <2>3. \A r2 \in Rank, g2 \in Regions : DOMAIN mailbox'[r2][g2] = Slot
    BY <2>2
  <2> QED
    BY <1>1, <2>1, <2>2, <2>3 DEF BoxShape
<1>7. ASSUME NEW r2 \in Rank, NEW q2 \in Rank, NEW g2 \in Regions, NEW s2 \in Slot,
             NEW p2 \in Pairs(g2)
      PROVE  mailbox'[r2][g2][s2][q2][p2] =
               IF r2 = r /\ g2 = g /\ s2 = s /\ q2 = q /\ p2 = p
               THEN v ELSE mailbox[r2][g2][s2][q2][p2]
  <2>1. CASE r2 # r
    BY <1>1, <2>1
  <2>2. CASE r2 = r /\ g2 # g
    BY <1>2, <2>2
  <2>3. CASE r2 = r /\ g2 = g /\ s2 # s
    BY <1>3, <2>3
  <2>4. CASE r2 = r /\ g2 = g /\ s2 = s /\ q2 # q
    BY <1>4, <2>4
  <2>5. CASE r2 = r /\ g2 = g /\ s2 = s /\ q2 = q
    BY <1>5, <2>5
  <2> QED
    BY <2>1, <2>2, <2>3, <2>4, <2>5
<1> QED
  BY <1>6, <1>7

LEMMA LaunchKeeps ==
  ASSUME Inv, AllInOrder, NEW r \in Rank, Launch(r)
  PROVE  Inv'
<1> USE DEF Inv
<1> DEFINE n == call[r] + 1
<1>1. /\ ~busy[r] /\ call[r] < Len(program) /\ call' = [call EXCEPT ![r] = n]
      /\ busy' = [busy EXCEPT ![r] = TRUE]
      /\ sent' = [sent EXCEPT ![r] = {}] /\ got' = [got EXCEPT ![r] = {}]
      /\ UNCHANGED <<program, step, mailbox>>
  BY DEF Launch
<1>2. program \in Programs /\ Len(program) \in Nat /\ \A q \in Rank : call[q] \in Nat
  BY ProgramFacts DEF Typed
<1>3. /\ call'[r] = n /\ busy'[r] /\ sent'[r] = {} /\ got'[r] = {}
      /\ \A q \in Rank : q # r => /\ call'[q] = call[q] /\ busy'[q] = busy[q]
                                  /\ sent'[q] = sent[q] /\ got'[q] = got[q]
      /\ \A q \in Rank : call'[q] >= call[q]
  BY <1>1, <1>2 DEF Typed
<1>4. Typed'
  BY <1>1, <1>2 DEF Typed
<1>5. /\ DOMAIN out' = Rank /\ DOMAIN out'[r] = Pairs(program[n].region)
      /\ \A q \in Rank : q # r => out'[q] = out[q]
  <2>1. out' = [out EXCEPT ![r] = [p \in Pairs(program[call'[r]].region) |-> {}]]
    BY DEF Launch
  <2> QED
    BY <1>3, <2>1 DEF Shape, OutShape
<1>6. Shape'
  <2>1. ASSUME NEW q \in Rank, call'[q] > 0 PROVE DOMAIN out'[q] = Pairs(Region(q))'
    BY <1>1, <1>3, <1>5, <2>1 DEF Shape, OutShape, Region, Current
  <2> QED
    BY <1>1, <1>5, <2>1 DEF Shape, BoxShape, OutShape
<1>7. Stepped'
  BY <1>1, <1>3 DEF Stepped
<1>8. Held'
  <2> SUFFICES ASSUME NEW a \in Rank, NEW q \in Rank, NEW g \in Regions, NEW s \in Slot,
                      NEW p \in Pairs(g)
               PROVE  Holds(a, g, s, q, p)'
    BY DEF Held
  <2>1. Holds(a, g, s, q, p)
    BY DEF Held
  <2>2. 1..call[q] \subseteq 1..call'[q]
    BY <1>2, <1>3
  <2>3. ASSUME NEW c \in 1..call[q], c = call[q] => <<p, a>> \in sent[q]
        PROVE  c = call'[q] => <<p, a>> \in sent'[q]
    BY <1>2, <1>3, <2>3
  <2> QED
    BY <1>1, <2>1, <2>2, <2>3 DEF Holds
<1>9. Summed'
  <2> SUFFICES ASSUME NEW q \in Rank, NEW p \in got'[q] PROVE SummedAt(q, p)'
    BY DEF Summed
  <2>1. q # r
    BY <1>3
  <2>2. SummedAt(q, p)
    BY <1>3, <2>1 DEF Summed
  <2> QED
    BY <1>1, <1>2, <1>3, <1>5, <2>1, <2>2 DEF SummedAt, Region, Current
<1>10. Whole'
  BY <1>1, <1>3 DEF Whole, Region, Current
<1>11. Near'
  <2>1. ASSUME NEW q \in Rank PROVE n <= call[q] + 1
    <3>1. CASE call[r] = 0
      BY <1>2, <3>1
    <3>2. CASE call[r] > 0
      BY <1>1, <1>2, <3>2, AllEntered DEF Whole
    <3> QED
      BY <1>2, <3>1, <3>2
  <2> QED
    BY <1>2, <1>3, <2>1 DEF Near
<1> QED
  BY <1>4, <1>6, <1>7, <1>8, <1>9, <1>10, <1>11

LEMMA ReturnKeeps ==
  ASSUME Inv, AllInOrder, NEW r \in Rank, Return(r)
  PROVE  Inv'
<1> USE DEF Inv
<1>1. /\ busy[r] /\ got[r] = Pairs(Region(r)) /\ busy' = [busy EXCEPT ![r] = FALSE]
      /\ step' = [step EXCEPT ![r] = IF Current(r).advance THEN step[r] + 1 ELSE step[r]]
      /\ UNCHANGED <<program, call, sent, got, mailbox, out>>
  BY DEF Return
<1>2. /\ ~busy'[r] /\ \A q \in Rank : q # r => busy'[q] = busy[q] /\ step'[q] = step[q]
      /\ step'[r] = IF Current(r).advance THEN step[r] + 1 ELSE step[r]
  BY <1>1 DEF Typed
<1>3. Typed'
  BY <1>1 DEF Typed
<1>4. Shape' /\ Held' /\ Summed' /\ Near'
  <2>1. Shape'
    <3>1. BoxShape'
      BY <1>1 DEF Shape, BoxShape
    <3>2. OutShape'
      BY <1>1 DEF Shape, OutShape, Region, Current
    <3> QED
      BY <3>1, <3>2 DEF Shape
  <2>2. Held'
    <3> SUFFICES ASSUME NEW a \in Rank, NEW q \in Rank, NEW g \in Regions, NEW s \in Slot,
                        NEW p \in Pairs(g)
                 PROVE  Holds(a, g, s, q, p)'
      BY DEF Held
    <3>1. Holds(a, g, s, q, p)
      BY DEF Held
    <3> QED
      BY <1>1, <3>1 DEF Holds
  <2>3. Summed' /\ Near'
    BY <1>1 DEF Summed, SummedAt, Near, Region, Current
  <2> QED
    BY <2>1, <2>2, <2>3
<1>5. Stepped'
  <2>1. call[r] \in 1..Len(program) /\ program \in Programs
    BY <1>1, EpochIs DEF Typed
  <2>2. StepAt(program, call[r] + 1) =
          IF program[call[r]].advance THEN StepAt(program, call[r]) + 1 ELSE StepAt(program, call[r])
    BY <2>1, StepCounts
  <2>3. step[r] = StepAt(program, call[r])
    BY <1>1 DEF Stepped
  <2> QED
    BY <1>1, <1>2, <2>2, <2>3 DEF Stepped, Current
<1>6. Whole'
  BY <1>1, <1>2 DEF Whole, Region, Current
<1> QED
  BY <1>3, <1>4, <1>5, <1>6

LEMMA SendKeeps ==
  ASSUME Inv, AllInOrder, NEW r \in Rank, NEW q \in Rank, NEW p, Send(r, q, p)
  PROVE  Inv'
<1> USE DEF Inv
<1> DEFINE v == [value |-> <<r, p, call[r]>>, tag |-> Tag(r)]
<1>1. /\ busy[r] /\ p \in Pairs(Region(r))
      /\ sent' = [sent EXCEPT ![r] = sent[r] \cup {<<p, q>>}]
      /\ Stores(q, Region(r), SlotOf(r), r, p, v)
      /\ UNCHANGED <<program, call, busy, step, got, out>>
  BY DEF Send, Stores
<1>2. /\ call[r] \in 1..Len(program) /\ Region(r) \in Regions /\ SlotOf(r) \in Slot
      /\ Tag(r) = EpochAt(program, call[r]) + 1
      /\ SlotOf(r) = EpochAt(program, call[r]) % 2
  BY <1>1, EpochIs
<1>3. /\ <<p, q>> \in sent'[r] /\ \A a \in Rank : sent[a] \subseteq sent'[a]
  BY <1>1 DEF Typed
<1>4. Typed'
  <2>1. p \in AllPairs
    BY <1>1, <1>2, SomePair
  <2> QED
    BY <1>1, <2>1 DEF Typed
<1> HIDE DEF v
<1>5. Shape'
  <2>1. OutShape'
    BY <1>1 DEF Shape, OutShape, Region, Current
  <2> QED
    BY <1>1, <1>2, <2>1, Stored DEF Shape
<1>6. Stepped' /\ Summed' /\ Whole' /\ Near'
  BY <1>1 DEF Stepped, Summed, SummedAt, Whole, Near, Region, Current
<1>7. Held'
  <2> SUFFICES ASSUME NEW r2 \in Rank, NEW q2 \in Rank, NEW g2 \in Regions, NEW s2 \in Slot,
                      NEW p2 \in Pairs(g2)
               PROVE  Holds(r2, g2, s2, q2, p2)'
    BY DEF Held
  <2> DEFINE new == /\ r2 = q /\ g2 = Region(r) /\ s2 = SlotOf(r) /\ q2 = r /\ p2 = p
  <2>1. mailbox'[r2][g2][s2][q2][p2] = IF new THEN v ELSE mailbox[r2][g2][s2][q2][p2]
    <3>1. Shape /\ p \in Pairs(Region(r))
      BY <1>1
    <3> QED
      BY <1>1, <1>2, <3>1, Stored
  <2>2. CASE new
    <3>1. mailbox'[r2][g2][s2][q2][p2].value = <<r, p, call[r]>>
      BY <2>1, <2>2 DEF v
    <3>2. mailbox'[r2][g2][s2][q2][p2].tag = Tag(r)
      BY <2>1, <2>2 DEF v
    <3>3. program[call[r]].region = g2
      BY <2>2 DEF Region, Current
    <3>4. call[r] \in 1..call[r]
      BY <1>2
    <3> QED
      BY <1>1, <1>2, <1>3, <2>2, <3>1, <3>2, <3>3, <3>4 DEF Holds
  <2>3. CASE ~new
    <3>1. Holds(r2, g2, s2, q2, p2) /\ mailbox'[r2][g2][s2][q2][p2] = mailbox[r2][g2][s2][q2][p2]
      BY <2>1, <2>3 DEF Held
    <3> QED
      BY <1>1, <1>3, <3>1 DEF Holds
  <2> QED
    BY <2>2, <2>3
<1> QED
  BY <1>4, <1>5, <1>6, <1>7

LEMMA ReceiveKeeps ==
  ASSUME Inv, AllInOrder, NEW r \in Rank, NEW p, Receive(r, p)
  PROVE  Inv'
<1> USE DEF Inv
<1>1. /\ busy[r] /\ p \in Pairs(Region(r)) /\ \A q \in Rank : Arrived(r, q, p)
      /\ got' = [got EXCEPT ![r] = got[r] \cup {p}]
      /\ out' = [out EXCEPT ![r][p] = {Found(r, q, p).value : q \in Rank}]
      /\ UNCHANGED <<program, call, busy, step, sent, mailbox>>
  BY DEF Receive
<1>2. call[r] > 0 /\ Region(r) \in Regions
  BY <1>1, EpochIs DEF Typed
<1>3. \A q \in Rank : call[q] >= call[r] /\ Found(r, q, p).value = <<q, p, call[r]>>
  BY <1>1, ArrivedIsCurrent
<1>4. /\ DOMAIN out' = Rank /\ DOMAIN out'[r] = Pairs(Region(r))
      /\ out'[r][p] = {<<q, p, call[r]>> : q \in Rank}
      /\ \A i \in Pairs(Region(r)) : i # p => out'[r][i] = out[r][i]
      /\ \A q \in Rank : q # r => out'[q] = out[q]
  <2>1. DOMAIN out = Rank /\ DOMAIN out[r] = Pairs(Region(r))
    BY <1>2 DEF Shape, OutShape
  <2>2. {Found(r, q, p).value : q \in Rank} = {<<q, p, call[r]>> : q \in Rank}
    BY <1>3
  <2> QED
    BY <1>1, <2>1, <2>2
<1>5. Typed'
  <2>1. p \in AllPairs
    BY <1>1, <1>2, SomePair
  <2> QED
    BY <1>1, <2>1 DEF Typed
<1>6. Shape'
  <2>1. ASSUME NEW q \in Rank, call'[q] > 0 PROVE DOMAIN out'[q] = Pairs(Region(q))'
    BY <1>1, <1>4, <2>1 DEF Shape, OutShape, Region, Current
  <2> QED
    BY <1>1, <1>4, <2>1 DEF Shape, BoxShape, OutShape
<1>7. Stepped' /\ Held' /\ Near'
  BY <1>1 DEF Stepped, Held, Holds, Near
<1>8. Summed'
  <2> SUFFICES ASSUME NEW q \in Rank, NEW i \in got'[q] PROVE SummedAt(q, i)'
    BY DEF Summed
  <2>1. CASE q = r /\ i = p
    BY <1>1, <1>2, <1>3, <1>4, <2>1 DEF SummedAt, Region, Current
  <2>2. CASE ~(q = r /\ i = p)
    <3>1. i \in got[q]
      BY <1>1, <2>2 DEF Typed
    <3>2. SummedAt(q, i)
      BY <3>1 DEF Summed
    <3> QED
      BY <1>1, <1>4, <2>2, <3>2 DEF SummedAt, Region, Current
  <2> QED
    BY <2>1, <2>2
<1>9. Whole'
  BY <1>1 DEF Typed, Whole, Region, Current
<1> QED
  BY <1>5, <1>6, <1>7, <1>8, <1>9

LEMMA InitHolds == Init => Inv
<1> SUFFICES ASSUME Init PROVE Inv
  OBVIOUS
<1>1. Typed /\ Summed /\ Whole /\ Near
  <2>1. program \in Programs /\ Len(program) \in Nat
    BY ProgramFacts DEF Init
  <2> QED
    BY <2>1 DEF Init, Typed, Summed, Whole, Near
<1>2. Stepped
  BY StepCounts DEF Init, Stepped
<1>3. BoxShape /\ \A r, q \in Rank, g \in Regions, s \in Slot : \A p \in Pairs(g) :
                    mailbox[r][g][s][q][p] = [value |-> <<>>, tag |-> 0]
  BY DEF Init, BoxShape
<1>4. Held
  BY <1>3 DEF Held, Holds
<1>5. OutShape
  BY DEF Init, OutShape
<1> QED
  BY <1>1, <1>2, <1>3, <1>4, <1>5 DEF Inv, Shape

LEMMA InvNext == AllInOrder /\ Inv /\ [Next]_vars => Inv'
<1> SUFFICES ASSUME AllInOrder, Inv, [Next]_vars PROVE Inv'
  OBVIOUS
<1>1. CASE UNCHANGED vars
  <2>1. BoxShape' /\ OutShape' /\ Typed' /\ Stepped' /\ Whole' /\ Near' /\ Summed'
    BY <1>1 DEF vars, Inv, Shape, BoxShape, OutShape, Typed, Stepped, Whole, Near, Summed,
       SummedAt, Region, Current
  <2>2. Held'
    <3> SUFFICES ASSUME NEW a \in Rank, NEW q \in Rank, NEW g \in Regions, NEW s \in Slot,
                        NEW p \in Pairs(g)
                 PROVE  Holds(a, g, s, q, p)'
      BY DEF Held
    <3>1. Holds(a, g, s, q, p)
      BY DEF Inv, Held
    <3> QED
      BY <1>1, <3>1 DEF vars, Holds
  <2> QED
    BY <2>1, <2>2 DEF Inv, Shape
<1> QED
  BY <1>1, LaunchKeeps, ReturnKeeps, SendKeeps, ReceiveKeeps DEF Next, Kernel

LEMMA Invariance == ASSUME AllInOrder PROVE Spec => []Inv
<1>1. Init => Inv
  BY InitHolds
<1>2. Inv /\ [Next]_vars => Inv'
  BY InvNext
<1> QED
  BY <1>1, <1>2, PTL DEF Spec

\* A store finds nothing its owner still waits for.
LEMMA SendLosesNothing ==
  ASSUME Inv, AllInOrder, NEW r \in Rank, NEW q \in Rank, NEW p, Send(r, q, p)
  PROVE  ~Unread(q, Region(r), SlotOf(r), r, p)
<1> SUFFICES ASSUME Unread(q, Region(r), SlotOf(r), r, p) PROVE FALSE
  OBVIOUS
<1> DEFINE m == mailbox[q][Region(r)][SlotOf(r)][r][p]
<1>1. busy[r] /\ p \in Pairs(Region(r)) /\ <<p, q>> \notin sent[r]
  BY DEF Send
<1>2. /\ call[r] \in 1..Len(program) /\ Region(r) \in Regions /\ SlotOf(r) \in Slot
      /\ SlotOf(r) = EpochAt(program, call[r]) % 2
  BY <1>1, EpochIs
<1>3. Holds(q, Region(r), SlotOf(r), r, p)
  BY <1>1, <1>2 DEF Inv, Held
<1>4. m.tag > 0 /\ (call[q] < m.value[3] \/ call[q] = m.value[3])
  BY DEF Unread
<1>5. PICK c \in 1..call[r] :
        /\ m.value = <<r, p, c>> /\ program[c].region = Region(r)
        /\ EpochAt(program, c) % 2 = SlotOf(r) /\ c # call[r]
  BY <1>1, <1>3, <1>4 DEF Holds
<1>6. /\ program \in Programs /\ Len(program) \in Nat /\ call[q] \in Nat
      /\ program[call[r]].region = Region(r)
  BY ProgramFacts DEF Inv, Typed, Region, Current
<1>7. ~(call[r] = c + 1)
  <2> DEFINE d == call[r]
  <2> SUFFICES ASSUME d = c + 1 PROVE FALSE
    OBVIOUS
  <2>0. d \in 1..Len(program) /\ c \in 1..d /\ c # d
    BY <1>2, <1>5
  <2>1. d \in 1..Len(program) /\ c \in 1..(d - 1)
    <3> HIDE DEF d
    <3> QED
      BY <2>0, <1>6
  <2>2. program[c].region = program[d].region
    BY <1>5, <1>6
  <2>3. InOrder(program)
    BY <1>6 DEF AllInOrder
  <2>4. EpochAt(program, c) % 2 = EpochAt(program, d) % 2
    BY <1>2, <1>5
  <2> HIDE DEF d
  <2>5. d = c + 1 => EpochAt(program, c) % 2 # EpochAt(program, d) % 2
    <3> HIDE DEF Slot
    <3> QED
      BY <2>1, <2>2, <2>3, Zenon DEF InOrder
  <2> QED
    BY <2>4, <2>5
<1>8. call[r] <= call[q] + 1
  BY DEF Inv, Near
<1>9. c < call[q] /\ c \in Nat /\ ~(c = call[q])
  <2> HIDE DEF m
  <2>1. c \in Nat /\ call[r] \in Nat /\ c <= call[r] /\ ~(c = call[r])
    BY <1>2, <1>5, <1>6
  <2> QED
    BY <2>1, <1>6, <1>7, <1>8
<1>10. m.value[3] = c
  BY <1>5
<1>11. c < call[q] => ~(call[q] < c)
  BY <1>6, <1>9
<1> QED
  BY <1>4, <1>9, <1>10, <1>11

\* If no two calls of a region share an epoch, and consecutive ones of a region
\* no slot, then a mailbox is not overwritten before its owner has read it.
THEOREM NothingLost == ASSUME AllInOrder PROVE Spec => NoneLost
<1> DEFINE StepKeeps == \A r, q \in Rank, g \in Regions, s \in Slot : \A p \in Pairs(g) :
                     Unread(r, g, s, q, p) => mailbox'[r][g][s][q][p] = mailbox[r][g][s][q][p]
<1>1. Inv /\ [Next]_vars => [StepKeeps]_vars
  <2> SUFFICES ASSUME Inv, Next PROVE StepKeeps
    OBVIOUS
  <2>1. CASE UNCHANGED mailbox
    BY <2>1
  <2>2. ASSUME NEW r \in Rank, NEW q \in Rank, NEW p, Send(r, q, p) PROVE StepKeeps
    <3>1. /\ Stores(q, Region(r), SlotOf(r), r, p, [value |-> <<r, p, call[r]>>, tag |-> Tag(r)])
          /\ p \in Pairs(Region(r)) /\ Region(r) \in Regions /\ SlotOf(r) \in Slot
      BY <2>2, EpochIs DEF Send, Stores
    <3> SUFFICES ASSUME NEW r2 \in Rank, NEW q2 \in Rank, NEW g2 \in Regions, NEW s2 \in Slot,
                        NEW p2 \in Pairs(g2), Unread(r2, g2, s2, q2, p2)
                 PROVE  mailbox'[r2][g2][s2][q2][p2] = mailbox[r2][g2][s2][q2][p2]
      OBVIOUS
    <3>2. ~(r2 = q /\ g2 = Region(r) /\ s2 = SlotOf(r) /\ q2 = r /\ p2 = p)
      BY <2>2, SendLosesNothing
    <3> QED
      BY <3>1, <3>2, Stored DEF Inv
  <2> QED
    BY <2>1, <2>2 DEF Next, Kernel, Launch, Return, Receive
<1> QED
  BY <1>1, Invariance, PTL DEF Spec, NoneLost

-----------------------------------------------------------------------------
(* The collective.                                                         *)

Abstracted == [i \in 1..Len(program) |-> Size[program[i].region]]
Through    == [r \in Rank |-> IF busy[r] THEN call[r] - 1 ELSE call[r]]
Results    == [r \in Rank |-> Result(r)]

LEMMA AbstractFacts ==
  ASSUME Inv
  PROVE  /\ Len(Abstracted) = Len(program)
         /\ \A c \in 1..Len(program) : Abstracted[c] = Size[program[c].region]
<1>1. Len(program) \in Nat /\ program \in Programs
  BY ProgramFacts DEF Inv, Typed
<1> QED
  BY <1>1 DEF Abstracted

\* A launch enters the call.
LEMMA LaunchEnters ==
  ASSUME Inv, NEW r \in Rank, Launch(r)
  PROVE  Abstract!Enter(r)
<1>1. /\ ~busy[r] /\ call[r] < Len(program) /\ call' = [call EXCEPT ![r] = call[r] + 1]
      /\ busy' = [busy EXCEPT ![r] = TRUE]
      /\ UNCHANGED program
      /\ \A q \in Rank : q # r => out'[q] = out[q]
  BY DEF Launch, Inv, Shape, OutShape
<1>2. /\ busy'[r] /\ call'[r] = call[r] + 1 /\ call[r] \in Nat
      /\ \A q \in Rank : q # r => call'[q] = call[q] /\ busy'[q] = busy[q]
  BY <1>1 DEF Inv, Typed
<1>3. Through[r] = call[r] /\ Through' = Through
  BY <1>1, <1>2 DEF Through
<1>4. Results' = [Results EXCEPT ![r] = <<>>]
  <2>1. Result(r)' = <<>>
    BY <1>2 DEF Result
  <2>2. ASSUME NEW q \in Rank, q # r PROVE Result(q)' = Result(q)
    BY <1>1, <1>2, <2>2 DEF Result, Region, Current
  <2> QED
    BY <2>1, <2>2 DEF Results
<1>5. Abstracted' = Abstracted
  BY <1>1 DEF Abstracted
<1> QED
  BY <1>1, <1>3, <1>4, <1>5, AbstractFacts DEF Abstract!Enter, Abstracted, Through, Results

\* The end of the kernel returns from it.
LEMMA ReturnReturns ==
  ASSUME Inv, NEW r \in Rank, Return(r)
  PROVE  Abstract!Return(r)
<1>1. /\ busy[r] /\ got[r] = Pairs(Region(r)) /\ busy' = [busy EXCEPT ![r] = FALSE]
      /\ UNCHANGED <<program, call, out>>
  BY DEF Return
<1>2. /\ call[r] \in 1..Len(program) /\ program \in Programs /\ Region(r) \in Regions
      /\ call[r] \in Nat /\ call[r] > 0
  BY <1>1, EpochIs, ProgramFacts DEF Inv, Typed
<1>3. ~busy'[r] /\ \A q \in Rank : q # r => busy'[q] = busy[q]
  BY <1>1 DEF Inv, Typed
<1>4. Through[r] < call[r] /\ Through' = [Through EXCEPT ![r] = call[r]]
  <2>1. Through[r] = call[r] - 1
    BY <1>1 DEF Through
  <2>2. Through'[r] = call[r] /\ \A q \in Rank : q # r => Through'[q] = Through[q]
    BY <1>1, <1>3 DEF Through
  <2>3. Through = [q \in Rank |-> Through[q]] /\ Through' = [q \in Rank |-> Through'[q]]
    BY DEF Through
  <2> HIDE DEF Through
  <2> QED
    BY <1>2, <2>1, <2>2, <2>3
<1>5. \A q \in Rank : call[q] >= call[r]
  BY <1>1, <1>2, AllEntered
<1>6. Abstract!Sum(call[r]) = [i \in 1..Size[Region(r)] |-> {<<q, i - 1, call[r]>> : q \in Rank}]
  <2>1. Abstracted[call[r]] = Size[Region(r)]
    BY <1>2, AbstractFacts DEF Region, Current
  <2> QED
    BY <2>1 DEF Abstract!Sum, Abstracted, Abstract!Rank, Rank
<1>7. Result(r)' = Abstract!Sum(call[r])
  <2>1. ASSUME NEW i \in 1..Size[Region(r)]
        PROVE  out[r][i - 1] = {<<q, i - 1, call[r]>> : q \in Rank}
    <3>1. i - 1 \in Pairs(Region(r))
      BY <1>2, SomePair DEF Pairs
    <3> QED
      BY <1>1, <3>1 DEF Inv, Summed, SummedAt
  <2>2. Result(r)' = [i \in 1..Size[Region(r)] |-> out[r][i - 1]]
    BY <1>1, <1>2, <1>3 DEF Result, Region, Current
  <2> QED
    BY <1>6, <2>1, <2>2
<1>8. Results' = [Results EXCEPT ![r] = Abstract!Sum(call[r])]
  <2>1. ASSUME NEW q \in Rank, q # r PROVE Result(q)' = Result(q)
    BY <1>1, <1>3, <2>1 DEF Result, Region, Current
  <2> QED
    BY <1>7, <2>1 DEF Results
<1>9. Abstracted' = Abstracted
  BY <1>1 DEF Abstracted
<1> QED
  BY <1>1, <1>4, <1>5, <1>8, <1>9
     DEF Abstract!Return, Abstracted, Through, Results, Abstract!Rank, Rank

\* In between nothing happens to it.
LEMMA KernelStutters ==
  ASSUME Inv, NEW r \in Rank, Kernel(r)
  PROVE  UNCHANGED Abstract!vars
<1>1. busy[r] /\ UNCHANGED <<program, call, busy>>
  BY DEF Kernel, Send, Receive
<1>2. \A q \in Rank : q # r => out'[q] = out[q]
  BY DEF Kernel, Send, Receive, Inv, Shape, OutShape
<1>3. ASSUME NEW q \in Rank PROVE Result(q)' = Result(q)
  BY <1>1, <1>2 DEF Result, Region, Current
<1>4. Abstracted' = Abstracted /\ Through' = Through /\ Results' = Results
  BY <1>1, <1>3 DEF Abstracted, Through, Results
<1> QED
  BY <1>1, <1>4 DEF Abstract!vars, Abstracted, Through, Results

\* The kernels implement the collective, for programs as above.
THEOREM CollectiveImplemented == ASSUME AllInOrder PROVE Spec => CollectiveSpec
<1>1. Init => Abstract!Init
  <2> SUFFICES ASSUME Init PROVE Abstract!Init
    OBVIOUS
  <2>1. /\ program \in Programs
        /\ \A r \in Rank : call[r] = 0 /\ ~busy[r] /\ Result(r) = <<>>
        /\ call = [r \in Rank |-> 0]
    BY DEF Init, Result
  <2>2. /\ Through = [r \in Rank |-> 0] /\ Results = [r \in Rank |-> <<>>]
    BY <2>1 DEF Through, Results
  <2>3. Abstracted \in {[i \in 1..Len(s) |-> Size[s[i].region]] : s \in Programs}
    BY <2>1 DEF Abstracted
  <2> QED
    BY <2>1, <2>2, <2>3 DEF Abstract!Init, Abstract!Rank, Rank, Abstracted, Through, Results
<1>2. Inv /\ [Next]_vars => [Abstract!Next]_(Abstract!vars)
  <2> SUFFICES ASSUME Inv, [Next]_vars PROVE [Abstract!Next]_(Abstract!vars)
    OBVIOUS
  <2>1. CASE UNCHANGED vars
    <3>1. \A q \in Rank : Result(q)' = Result(q)
      BY <2>1 DEF vars, Result, Region, Current
    <3>2. Abstracted' = Abstracted /\ Through' = Through /\ Results' = Results
      BY <2>1, <3>1 DEF vars, Abstracted, Through, Results
    <3> QED
      BY <2>1, <3>2 DEF vars, Abstract!vars, Abstracted, Through, Results
  <2>2. ASSUME NEW r \in Rank, Launch(r) PROVE Abstract!Next
    BY <2>2, LaunchEnters DEF Abstract!Next, Abstract!Rank, Rank
  <2>3. ASSUME NEW r \in Rank, Return(r) PROVE Abstract!Next
    BY <2>3, ReturnReturns DEF Abstract!Next, Abstract!Rank, Rank
  <2> QED
    BY <2>1, <2>2, <2>3, KernelStutters DEF Next
<1> QED
  BY <1>1, <1>2, Invariance, PTL DEF Spec, CollectiveSpec, Abstract!Spec

-----------------------------------------------------------------------------
(* The peer buffers, for every process group of two ranks or more, and any *)
(* number of faults and kernels.                                           *)
(*                                                                         *)
(* The inductive invariant. Collectives 1 to 3 are the exchange of the     *)
(* handles and the two barriers; those from the fourth on exchange the     *)
(* errors of a round of close.                                             *)

Entered(r) == Len(posted[r])
Waits      == {"exchange", "openbarrier", "closebarrier", "errors"}
Ended      == {"closed", "released"}

\* Rank r is through its i-th collective.
Passed(r, i) == i < Entered(r) \/ (i = Entered(r) /\ pc[r] \notin Waits)

\* Where a rank is tells how many collectives it has entered.
RoundOf(r) ==
  /\ safe[r] => pc[r] \in {"ready", "close", "errors"} \cup Ended
  /\ pc[r] \in {"close", "errors"} \cup Ended => safe[r]
  /\ pc[r] = "new" => Entered(r) = 0
  /\ pc[r] \in {"exchange", "open", "failed"} => Entered(r) = 1
  /\ pc[r] = "openbarrier" \/ (pc[r] = "ready" /\ ~safe[r]) => Entered(r) = 2
  /\ pc[r] = "closebarrier" => Entered(r) = 3
  /\ pc[r] = "close" => Entered(r) >= 3
  /\ pc[r] \in {"errors"} \cup Ended \/ (pc[r] = "ready" /\ safe[r]) => Entered(r) >= 4

\* A collective completes for nobody before everybody has entered it.
Met == \A r, q \in Group : \A i \in Nat : Passed(r, i) => i <= Entered(q)

\* A rank goes on to another round only because of an error in the last ...
Retried ==
  \A r \in Group : \A i \in Nat :
    Passed(r, i) /\ i >= 4 /\ ~(i = Entered(r) /\ pc[r] \in Ended)
      => \E q \in Group : i <= Entered(q) /\ posted[q][i]

\* ... and is done only without one.
NoErrorLeft ==
  \A r, q \in Group : pc[r] \in Ended => ~posted[q][Entered(r)]

\* What a rank maps, knows of, and has told the others.
Tracked(r) ==
  /\ pc[r] # "failed" => mapped[r] = bases[r]
  /\ pc[r] \in {"errors"} \cup Ended => posted[r][Entered(r)] = (bases[r] # {})
  /\ pc[r] \in {"openbarrier", "closebarrier"} \/ (pc[r] = "ready" /\ ~safe[r])
       => mapped[r] = Peers(r)

\* Its kernels run while its buffer is open, and its storage lives as long.
Living(r) ==
  /\ r \in running => pc[r] = "ready" /\ ~safe[r]
  /\ r \in live <=> pc[r] \notin {"new", "failed", "released"}

RankOK(r) == RoundOf(r) /\ Tracked(r) /\ Living(r)

BufferInv == BufferTypeOK /\ (\A r \in Group : RankOK(r)) /\ Met /\ Retried /\ NoErrorLeft

-----------------------------------------------------------------------------
(* The collectives, for any step of a rank.                                *)

\* Entering a collective adds an entry and leaves the others.
LEMMA EnterFacts ==
  ASSUME BufferTypeOK, NEW r \in Group, NEW e \in BOOLEAN, Enter(r, e)
  PROVE  /\ posted' \in [Group -> Seq(BOOLEAN)]
         /\ Len(posted'[r]) = Len(posted[r]) + 1
         /\ posted'[r][Len(posted[r]) + 1] = e
         /\ \A i \in 1..Len(posted[r]) : posted'[r][i] = posted[r][i]
         /\ \A q \in Group \ {r} : posted'[q] = posted[q]
BY DEF BufferTypeOK, Enter

\* How many collectives a rank has entered is a number.
LEMMA EnteredNat == BufferTypeOK => \A r \in Group : Entered(r) \in Nat
BY DEF BufferTypeOK, Entered

\* A rank that is in no collective, and stays out of them.
LEMMA Outside ==
  ASSUME BufferInv, NEW r \in Group, NEW l, l \notin Waits, pc[r] \notin Waits,
         l \in Ended <=> pc[r] \in Ended,
         Goto(r, pc[r], l), UNCHANGED posted
  PROVE  Met' /\ Retried' /\ NoErrorLeft'
<1>1. \A q \in Group : Entered(q)' = Entered(q)
  BY DEF Entered
<1>2. \A q \in Group, i \in Nat : Passed(q, i)' <=> Passed(q, i)
  BY <1>1 DEF Passed, Goto, BufferInv, BufferTypeOK
<1>3. \A q \in Group : pc'[q] \in Ended <=> pc[q] \in Ended
  BY DEF Goto, BufferInv, BufferTypeOK
<1>4. Met'
  BY <1>1, <1>2 DEF BufferInv, Met
<1>5. Retried'
  BY <1>1, <1>2, <1>3 DEF BufferInv, Retried
<1>6. NoErrorLeft'
  BY <1>1, <1>3 DEF BufferInv, NoErrorLeft
<1> QED
  BY <1>4, <1>5, <1>6

\* A rank that enters its next collective.
LEMMA Entering ==
  ASSUME BufferInv, NEW r \in Group, NEW l, l \in Waits, pc[r] \notin Waits \cup Ended,
         Goto(r, pc[r], l), NEW e \in BOOLEAN, Enter(r, e)
  PROVE  Met' /\ Retried' /\ NoErrorLeft'
<1>1. /\ Entered(r)' = Entered(r) + 1
      /\ \A q \in Group \ {r} : Entered(q)' = Entered(q)
      /\ \A q \in Group : Entered(q) \in Nat
  BY EnterFacts, EnteredNat DEF BufferInv, Entered
<1>2. \A q \in Group, i \in Nat : Passed(q, i)' <=> Passed(q, i)
  <2> SUFFICES ASSUME NEW q \in Group, NEW i \in Nat PROVE Passed(q, i)' <=> Passed(q, i)
    OBVIOUS
  <2>1. CASE q = r
    BY <1>1, <2>1 DEF Passed, Goto, BufferInv, BufferTypeOK
  <2>2. CASE q # r
    BY <1>1, <2>2 DEF Passed, Goto, BufferInv, BufferTypeOK
  <2> QED
    BY <2>1, <2>2
<1>3. \A q \in Group : pc'[q] \in Ended => pc[q] \in Ended /\ q # r
  BY DEF Goto, BufferInv, BufferTypeOK, Ended, Waits
<1>4. \A q \in Group : \A i \in 1..Entered(q) : posted'[q][i] = posted[q][i]
  BY EnterFacts DEF BufferInv, Entered
<1>5. Met'
  BY <1>1, <1>2 DEF BufferInv, Met
<1>6. Retried'
  <2> SUFFICES ASSUME NEW s \in Group, NEW i \in Nat, Passed(s, i)', i >= 4,
                      ~(i = Entered(s)' /\ pc'[s] \in Ended)
               PROVE  \E q \in Group : i <= Entered(q)' /\ posted'[q][i]
    BY DEF Retried
  <2>1. ~(i = Entered(s) /\ pc[s] \in Ended)
    BY <1>1, <1>2 DEF Goto, BufferInv, BufferTypeOK, Passed
  <2>2. PICK q \in Group : i <= Entered(q) /\ posted[q][i]
    BY <1>2, <2>1 DEF BufferInv, Retried
  <2> QED
    BY <1>1, <1>4, <2>2
<1>7. NoErrorLeft'
  <2> SUFFICES ASSUME NEW s \in Group, NEW q \in Group, pc'[s] \in Ended
               PROVE  ~posted'[q][Entered(s)']
    BY DEF NoErrorLeft
  <2>1. pc[s] \in Ended /\ Entered(s)' = Entered(s) /\ Entered(s) >= 4
    BY <1>1, <1>3 DEF BufferInv, RankOK, RoundOf
  <2>2. Entered(s) <= Entered(q)
    BY <1>1, <2>1 DEF BufferInv, Met, Passed, Ended, Waits
  <2> QED
    BY <1>1, <1>4, <2>1, <2>2 DEF BufferInv, NoErrorLeft
<1> QED
  BY <1>5, <1>6, <1>7

\* A rank whose collective is complete: it is done without an error, goes on
\* with one, or was in one of the first three.
LEMMA Leaving ==
  ASSUME BufferInv, NEW r \in Group, NEW l, l \notin Waits, pc[r] \in Waits,
         Goto(r, pc[r], l), UNCHANGED posted, Complete(r),
         l \in Ended => ~AnyError(r),
         l \notin Ended /\ Entered(r) >= 4 => AnyError(r)
  PROVE  Met' /\ Retried' /\ NoErrorLeft'
<1>1. \A q \in Group : Entered(q)' = Entered(q) /\ Entered(q) \in Nat
  BY EnteredNat DEF Entered, BufferInv
<1>2. \A q \in Group, i \in Nat :
        Passed(q, i)' <=> Passed(q, i) \/ (q = r /\ i = Entered(r))
  BY <1>1 DEF Passed, Goto, BufferInv, BufferTypeOK
<1>3. \A q \in Group \ {r} : pc'[q] = pc[q]
  BY DEF Goto, BufferInv, BufferTypeOK
<1>4. pc'[r] = l
  BY DEF Goto, BufferInv, BufferTypeOK
<1>5. \A q \in Group : Entered(r) <= Entered(q)
  BY <1>1 DEF Complete, Entered
<1>6. Met'
  BY <1>1, <1>2, <1>5 DEF BufferInv, Met
<1>7. Retried'
  <2> SUFFICES ASSUME NEW s \in Group, NEW i \in Nat, Passed(s, i)', i >= 4,
                      ~(i = Entered(s)' /\ pc'[s] \in Ended)
               PROVE  \E q \in Group : i <= Entered(q)' /\ posted'[q][i]
    BY DEF Retried
  <2>1. CASE s = r /\ i = Entered(r)
    <3>1. AnyError(r)
      BY <1>1, <1>4, <2>1
    <3> QED
      BY <1>1, <1>5, <2>1, <3>1 DEF AnyError, Entered
  <2>2. CASE ~(s = r /\ i = Entered(r))
    <3>1. ~(i = Entered(s) /\ pc[s] \in Ended)
      BY <1>1, <1>3, <2>2 DEF Ended, Waits
    <3> QED
      BY <1>1, <1>2, <2>2, <3>1 DEF BufferInv, Retried
  <2> QED
    BY <2>1, <2>2
<1>8. NoErrorLeft'
  <2> SUFFICES ASSUME NEW s \in Group, NEW q \in Group, pc'[s] \in Ended
               PROVE  ~posted'[q][Entered(s)']
    BY DEF NoErrorLeft
  <2>1. CASE s = r
    BY <1>1, <1>4, <2>1 DEF AnyError, Entered
  <2>2. CASE s # r
    BY <1>1, <1>3, <2>2 DEF BufferInv, NoErrorLeft
  <2> QED
    BY <2>1, <2>2
<1> QED
  BY <1>6, <1>7, <1>8

-----------------------------------------------------------------------------
(* The invariant, action by action.                                        *)

\* It holds before anybody has allocated.
LEMMA BufferInvInit == BufferInit => BufferInv
<1> SUFFICES ASSUME BufferInit PROVE BufferInv
  OBVIOUS
<1>1. BufferTypeOK
  BY GroupAssumption DEF GroupAssumption, BufferInit, BufferTypeOK
<1>2. \A r \in Group : pc[r] = "new" /\ ~safe[r] /\ posted[r] = <<>> /\ Entered(r) = 0
  BY DEF BufferInit, Entered
<1>3. Met
  BY <1>2 DEF Met, Passed
<1>4. Retried /\ NoErrorLeft
  BY <1>2 DEF Retried, NoErrorLeft, Passed, Ended
<1>5. \A r \in Group : RankOK(r)
  BY <1>2 DEF BufferInit, RankOK, RoundOf, Tracked, Living, Ended
<1> QED
  BY <1>1, <1>3, <1>4, <1>5 DEF BufferInv

\* Each action keeps the types.
LEMMA BufferTypeStep == BufferTypeOK /\ [BufferNext]_bufferVars => BufferTypeOK'
<1> SUFFICES ASSUME BufferTypeOK, [BufferNext]_bufferVars PROVE BufferTypeOK'
  OBVIOUS
<1>1. CASE UNCHANGED bufferVars
  BY <1>1 DEF bufferVars, gpu, faults, BufferTypeOK
<1>2. ASSUME NEW r \in Group, LaunchKernel(r) PROVE BufferTypeOK'
  <2>1. launched' \in [Group -> 0..MaxKernels]
    <3>1. launched[r] + 1 \in 0..MaxKernels
      BY <1>2, GroupAssumption DEF GroupAssumption, LaunchKernel, BufferTypeOK
    <3> QED
      BY <1>2, <3>1 DEF LaunchKernel, BufferTypeOK
  <2> QED
    BY <1>2, <2>1 DEF LaunchKernel, faults, BufferTypeOK
<1>3. ASSUME NEW r \in Group, KernelEnds(r) PROVE BufferTypeOK'
  BY <1>3 DEF KernelEnds, faults, BufferTypeOK
<1>4. ASSUME NEW r \in Group, Step(r) PROVE BufferTypeOK'
  <2>1. CASE Allocate(r)
    BY <2>1, EnterFacts DEF Allocate, Goto, gpu, faults, BufferTypeOK
  <2>2. CASE Exchanged(r)
    BY <2>2 DEF Exchanged, Goto, gpu, faults, BufferTypeOK
  <2>10. CASE Ready(r)
    BY <2>10 DEF Ready, Goto, gpu, faults, BufferTypeOK
  <2>11. CASE Raise(r)
    BY <2>11 DEF Raise, Goto, gpu, faults, BufferTypeOK
  <2>12. CASE Closed(r)
    BY <2>12 DEF Closed, Goto, gpu, faults, BufferTypeOK
  <2>9. CASE Release(r)
    BY <2>9 DEF Release, Goto, gpu, faults, BufferTypeOK
  <2>3. ASSUME NEW q \in Group, Open(r, q) PROVE BufferTypeOK'
    BY <2>3 DEF Open, Peers, gpu, faults, BufferTypeOK
  <2>4. ASSUME NEW bad \in SUBSET Group, OpenFails(r, bad) PROVE BufferTypeOK'
    <3>1. closeFaults' \in 0..MaxCloseFaults /\ openFaults' \in 0..MaxOpenFaults
      BY <2>4, GroupAssumption, FS_Subset, FS_CardinalityType, SMTT(20)
      DEF GroupAssumption, OpenFails, BufferTypeOK
    <3> QED
      BY <2>4, <3>1 DEF OpenFails, Goto, gpu, BufferTypeOK
  <2>5. CASE Opened(r)
    BY <2>5, EnterFacts DEF Opened, Goto, gpu, faults, BufferTypeOK
  <2>6. CASE Close(r)
    BY <2>6, EnterFacts DEF Close, CloseFrom, Goto, gpu, faults, BufferTypeOK
  <2>7. CASE AllSafe(r)
    BY <2>7 DEF AllSafe, Goto, gpu, faults, BufferTypeOK
  <2>8. ASSUME NEW bad \in SUBSET Group, CloseMappings(r, bad) PROVE BufferTypeOK'
    <3>1. closeFaults' \in 0..MaxCloseFaults
      BY <2>8, GroupAssumption, FS_Subset, FS_CardinalityType
      DEF GroupAssumption, CloseMappings, BufferTypeOK
    <3>2. posted' \in [Group -> Seq(BOOLEAN)]
      BY <2>8, EnterFacts DEF CloseMappings
    <3>3. \A q \in Group : bases'[q] \subseteq mapped'[q] /\ q \notin mapped'[q]
      BY <2>8 DEF CloseMappings, Kept, BufferTypeOK
    <3>4. {mapped', bases'} \subseteq [Group -> SUBSET Group]
      BY <2>8 DEF CloseMappings, Kept, BufferTypeOK
    <3> QED
      BY <2>8, <3>1, <3>2, <3>3, <3>4 DEF CloseMappings, Goto, gpu, BufferTypeOK
  <2> QED
    BY <1>4, <2>1, <2>2, <2>3, <2>4, <2>5, <2>6, <2>7, <2>8, <2>9, <2>10,
       <2>11, <2>12 DEF Step
<1> QED
  BY <1>1, <1>2, <1>3, <1>4 DEF BufferNext

\* What a step of another rank's leaves of a rank.
LEMMA OthersStay ==
  ASSUME BufferInv, NEW r \in Group, Step(r), NEW q \in Group \ {r}
  PROVE  /\ pc'[q] = pc[q] /\ safe'[q] = safe[q] /\ posted'[q] = posted[q]
         /\ mapped'[q] = mapped[q] /\ bases'[q] = bases[q]
         /\ (q \in live' <=> q \in live)
<1> USE DEF BufferInv, BufferTypeOK, Goto, Enter
<1>1. CASE Exchanged(r) \/ Ready(r)
  BY <1>1 DEF Exchanged, Ready
<1>8. CASE Allocate(r)
  BY <1>8 DEF Allocate
<1>9. CASE Opened(r)
  BY <1>9 DEF Opened
<1>2. CASE \E p \in Group : Open(r, p)
  BY <1>2 DEF Open
<1>3. CASE \E bad \in SUBSET Group : OpenFails(r, bad)
  BY <1>3 DEF OpenFails
<1>4. CASE \E bad \in SUBSET Group : CloseMappings(r, bad)
  BY <1>4 DEF CloseMappings
<1>5. CASE Close(r)
  BY <1>5 DEF Close
<1>10. CASE AllSafe(r)
  BY <1>10 DEF AllSafe
<1>6. CASE Raise(r) \/ Closed(r)
  BY <1>6 DEF Raise, Closed
<1>7. CASE Release(r)
  BY <1>7 DEF Release
<1> QED
  BY <1>1, <1>2, <1>3, <1>4, <1>5, <1>6, <1>7, <1>8, <1>9, <1>10 DEF Step

\* The steps of __init__ and close.
LEMMA BufferInvRank ==
  ASSUME BufferInv, NEW r \in Group, Step(r)
  PROVE  BufferInv'
<1> DEFINE
      Same      == safe'[r] = safe[r] /\ mapped'[r] = mapped[r] /\ bases'[r] = bases[r]
      Lives     == r \in live' <=> r \in live
      Stays     == posted' = posted /\ Entered(r)' = Entered(r)
      Enters(e) == /\ Enter(r, e) /\ Entered(r)' = Entered(r) + 1
                   /\ posted'[r][Entered(r)'] = e
      Meeting   == Met' /\ Retried' /\ NoErrorLeft'
<1>0. running' = running
  BY DEF Step, Allocate, Exchanged, Open, OpenFails, Opened, Ready, Close, AllSafe,
     CloseMappings, Raise, Closed, Release, gpu
<1>1. RoundOf(r) /\ Tracked(r) /\ Living(r) /\ Entered(r) \in Nat
  BY EnteredNat DEF BufferInv, RankOK
<1>2. ASSUME NEW e \in BOOLEAN, Enter(r, e) PROVE Enters(e)
  BY <1>2, EnterFacts DEF BufferInv, Entered
<1>3. ASSUME posted' = posted PROVE Stays
  BY <1>3 DEF Entered
<1>4. RankOK(r)' /\ Meeting
  <2>1. CASE Allocate(r)
    <3>1. /\ pc[r] = "new" /\ pc'[r] = "exchange" /\ Goto(r, pc[r], "exchange")
          /\ safe'[r] = safe[r] /\ mapped'[r] = mapped[r] /\ bases'[r] = bases[r]
          /\ r \in live'
          /\ Enter(r, FALSE)
      BY <2>1 DEF Allocate, Goto, BufferInv, BufferTypeOK
    <3>2. Enters(FALSE)
      BY <1>2, <3>1
    <3>3. RankOK(r)'
      <4>1. RoundOf(r)'
        BY <1>0, <1>1, <3>1, <3>2 DEF RoundOf, Ended
      <4>2. Tracked(r)'
        BY <1>0, <1>1, <3>1, <3>2 DEF Tracked, RoundOf, Ended, Peers
      <4>3. Living(r)'
        BY <1>0, <1>1, <3>1, <3>2 DEF Living, RoundOf, Ended
      <4> QED
        BY <4>1, <4>2, <4>3 DEF RankOK
    <3>4. Meeting
      BY <1>1, <3>1, Entering DEF RoundOf, Waits, Ended
    <3> QED
      BY <3>3, <3>4
  <2>2. CASE Exchanged(r)
    <3>1. /\ pc[r] = "exchange" /\ pc'[r] = "open" /\ Goto(r, pc[r], "open")
          /\ Same /\ Lives
          /\ Complete(r)
          /\ posted' = posted
      BY <2>2 DEF Exchanged, Goto, BufferInv, BufferTypeOK
    <3>2. Stays
      BY <1>3, <3>1
    <3>3. RankOK(r)'
      <4>1. RoundOf(r)'
        BY <1>0, <1>1, <3>1, <3>2 DEF RoundOf, Ended
      <4>2. Tracked(r)'
        BY <1>0, <1>1, <3>1, <3>2 DEF Tracked, RoundOf, Ended, Peers
      <4>3. Living(r)'
        BY <1>0, <1>1, <3>1, <3>2 DEF Living, RoundOf, Ended
      <4> QED
        BY <4>1, <4>2, <4>3 DEF RankOK
    <3>4. Meeting
      BY <1>1, <3>1, Leaving DEF RoundOf, Waits, Ended
    <3> QED
      BY <3>3, <3>4
  <2>3. ASSUME NEW q \in Group, Open(r, q) PROVE RankOK(r)' /\ Meeting
    <3>1. /\ pc[r] = "open" /\ pc'[r] = "open" /\ Goto(r, pc[r], "open")
          /\ safe'[r] = safe[r] /\ Lives
          /\ mapped'[r] = mapped[r] \cup {q} /\ bases'[r] = bases[r] \cup {q}
          /\ posted' = posted
      BY <2>3 DEF Open, Goto, BufferInv, BufferTypeOK
    <3>2. Stays
      BY <1>3, <3>1
    <3>3. RankOK(r)'
      <4>1. RoundOf(r)'
        BY <1>0, <1>1, <3>1, <3>2 DEF RoundOf, Ended
      <4>2. Tracked(r)'
        BY <1>0, <1>1, <3>1, <3>2 DEF Tracked, RoundOf, Ended, Peers
      <4>3. Living(r)'
        BY <1>0, <1>1, <3>1, <3>2 DEF Living, RoundOf, Ended
      <4> QED
        BY <4>1, <4>2, <4>3 DEF RankOK
    <3>4. Meeting
      BY <1>1, <3>1, Outside DEF RoundOf, Waits, Ended
    <3> QED
      BY <3>3, <3>4
  <2>4. ASSUME NEW bad \in SUBSET Group, OpenFails(r, bad) PROVE RankOK(r)' /\ Meeting
    <3>1. /\ pc[r] = "open" /\ pc'[r] = "failed" /\ Goto(r, pc[r], "failed")
          /\ safe'[r] = safe[r] /\ r \notin live'
          /\ posted' = posted
      BY <2>4 DEF OpenFails, Goto, BufferInv, BufferTypeOK
    <3>2. Stays
      BY <1>3, <3>1
    <3>3. RankOK(r)'
      <4>1. RoundOf(r)'
        BY <1>0, <1>1, <3>1, <3>2 DEF RoundOf, Ended
      <4>2. Tracked(r)'
        BY <1>0, <1>1, <3>1, <3>2 DEF Tracked, RoundOf, Ended, Peers
      <4>3. Living(r)'
        BY <1>0, <1>1, <3>1, <3>2 DEF Living, RoundOf, Ended
      <4> QED
        BY <4>1, <4>2, <4>3 DEF RankOK
    <3>4. Meeting
      BY <1>1, <3>1, Outside DEF RoundOf, Waits, Ended
    <3> QED
      BY <3>3, <3>4
  <2>5. CASE Opened(r)
    <3>1. /\ pc[r] = "open" /\ pc'[r] = "openbarrier" /\ Goto(r, pc[r], "openbarrier")
          /\ Same /\ Lives
          /\ mapped[r] = Peers(r)
          /\ Enter(r, FALSE)
      BY <2>5 DEF Opened, Goto, BufferInv, BufferTypeOK
    <3>2. Enters(FALSE)
      BY <1>2, <3>1
    <3>3. RankOK(r)'
      <4>1. RoundOf(r)'
        BY <1>0, <1>1, <3>1, <3>2 DEF RoundOf, Ended
      <4>2. Tracked(r)'
        BY <1>0, <1>1, <3>1, <3>2 DEF Tracked, RoundOf, Ended, Peers
      <4>3. Living(r)'
        BY <1>0, <1>1, <3>1, <3>2 DEF Living, RoundOf, Ended
      <4> QED
        BY <4>1, <4>2, <4>3 DEF RankOK
    <3>4. Meeting
      BY <1>1, <3>1, Entering DEF RoundOf, Waits, Ended
    <3> QED
      BY <3>3, <3>4
  <2>6. CASE Ready(r)
    <3>1. /\ pc[r] = "openbarrier" /\ pc'[r] = "ready" /\ Goto(r, pc[r], "ready")
          /\ Same /\ Lives
          /\ Complete(r)
          /\ posted' = posted
      BY <2>6 DEF Ready, Goto, BufferInv, BufferTypeOK
    <3>2. Stays
      BY <1>3, <3>1
    <3>3. RankOK(r)'
      <4>1. RoundOf(r)'
        BY <1>0, <1>1, <3>1, <3>2 DEF RoundOf, Ended
      <4>2. Tracked(r)'
        BY <1>0, <1>1, <3>1, <3>2 DEF Tracked, RoundOf, Ended, Peers
      <4>3. Living(r)'
        BY <1>0, <1>1, <3>1, <3>2 DEF Living, RoundOf, Ended
      <4> QED
        BY <4>1, <4>2, <4>3 DEF RankOK
    <3>4. Meeting
      BY <1>1, <3>1, Leaving DEF RoundOf, Waits, Ended
    <3> QED
      BY <3>3, <3>4
  <2>7. CASE Close(r) /\ safe[r]
    <3>1. /\ pc[r] = "ready" /\ pc'[r] = "close" /\ Goto(r, pc[r], "close")
          /\ safe[r] /\ Same /\ Lives
          /\ posted' = posted
      BY <2>7 DEF Close, CloseFrom, Goto, BufferInv, BufferTypeOK
    <3>2. Stays
      BY <1>3, <3>1
    <3>3. RankOK(r)'
      <4>1. RoundOf(r)'
        BY <1>0, <1>1, <3>1, <3>2 DEF RoundOf, Ended
      <4>2. Tracked(r)'
        BY <1>0, <1>1, <3>1, <3>2 DEF Tracked, RoundOf, Ended, Peers
      <4>3. Living(r)'
        BY <1>0, <1>1, <3>1, <3>2 DEF Living, RoundOf, Ended
      <4> QED
        BY <4>1, <4>2, <4>3 DEF RankOK
    <3>4. Meeting
      BY <1>1, <3>1, Outside DEF RoundOf, Waits, Ended
    <3> QED
      BY <3>3, <3>4
  <2>8. CASE Close(r) /\ ~safe[r]
    <3>1. /\ pc[r] = "ready" /\ pc'[r] = "closebarrier" /\ Goto(r, pc[r], "closebarrier")
          /\ ~safe[r] /\ Same /\ Lives
          /\ r \notin running
          /\ Enter(r, FALSE)
      BY <2>8 DEF Close, CloseFrom, Goto, BufferInv, BufferTypeOK
    <3>2. Enters(FALSE)
      BY <1>2, <3>1
    <3>3. RankOK(r)'
      <4>1. RoundOf(r)'
        BY <1>0, <1>1, <3>1, <3>2 DEF RoundOf, Ended
      <4>2. Tracked(r)'
        BY <1>0, <1>1, <3>1, <3>2 DEF Tracked, RoundOf, Ended, Peers
      <4>3. Living(r)'
        BY <1>0, <1>1, <3>1, <3>2 DEF Living, RoundOf, Ended
      <4> QED
        BY <4>1, <4>2, <4>3 DEF RankOK
    <3>4. Meeting
      BY <1>1, <3>1, Entering DEF RoundOf, Waits, Ended
    <3> QED
      BY <3>3, <3>4
  <2>9. CASE AllSafe(r)
    <3>1. /\ pc[r] = "closebarrier" /\ pc'[r] = "close" /\ Goto(r, pc[r], "close")
          /\ safe'[r] /\ mapped'[r] = mapped[r] /\ bases'[r] = bases[r] /\ Lives
          /\ Complete(r)
          /\ posted' = posted
      BY <2>9 DEF AllSafe, Goto, BufferInv, BufferTypeOK
    <3>2. Stays
      BY <1>3, <3>1
    <3>3. RankOK(r)'
      <4>1. RoundOf(r)'
        BY <1>0, <1>1, <3>1, <3>2 DEF RoundOf, Ended
      <4>2. Tracked(r)'
        BY <1>0, <1>1, <3>1, <3>2 DEF Tracked, RoundOf, Ended, Peers
      <4>3. Living(r)'
        BY <1>0, <1>1, <3>1, <3>2 DEF Living, RoundOf, Ended
      <4> QED
        BY <4>1, <4>2, <4>3 DEF RankOK
    <3>4. Meeting
      BY <1>1, <3>1, Leaving DEF RoundOf, Waits, Ended
    <3> QED
      BY <3>3, <3>4
  <2>10. ASSUME NEW bad \in SUBSET Group, CloseMappings(r, bad) PROVE RankOK(r)' /\ Meeting
    <3>1. /\ pc[r] = "close" /\ pc'[r] = "errors" /\ Goto(r, pc[r], "errors")
          /\ safe'[r] = safe[r] /\ Lives
          /\ mapped'[r] = (mapped[r] \ bases[r]) \cup bad /\ bases'[r] = bad
          /\ Enter(r, bad # {})
      BY <2>10 DEF CloseMappings, Kept, Goto, BufferInv, BufferTypeOK
    <3>2. Enters(bad # {})
      BY <1>2, <3>1
    <3>3. RankOK(r)'
      <4>1. RoundOf(r)'
        BY <1>0, <1>1, <3>1, <3>2 DEF RoundOf, Ended
      <4>2. Tracked(r)'
        BY <1>0, <1>1, <3>1, <3>2 DEF Tracked, RoundOf, Ended, Peers
      <4>3. Living(r)'
        BY <1>0, <1>1, <3>1, <3>2 DEF Living, RoundOf, Ended
      <4> QED
        BY <4>1, <4>2, <4>3 DEF RankOK
    <3>4. Meeting
      BY <1>1, <3>1, Entering DEF RoundOf, Waits, Ended
    <3> QED
      BY <3>3, <3>4
  <2>11. CASE Raise(r)
    <3>1. /\ pc[r] = "errors" /\ pc'[r] = "ready" /\ Goto(r, pc[r], "ready")
          /\ Same /\ Lives
          /\ Complete(r) /\ AnyError(r)
          /\ posted' = posted
      BY <2>11 DEF Raise, Goto, BufferInv, BufferTypeOK
    <3>2. Stays
      BY <1>3, <3>1
    <3>3. RankOK(r)'
      <4>1. RoundOf(r)'
        BY <1>0, <1>1, <3>1, <3>2 DEF RoundOf, Ended
      <4>2. Tracked(r)'
        BY <1>0, <1>1, <3>1, <3>2 DEF Tracked, RoundOf, Ended, Peers
      <4>3. Living(r)'
        BY <1>0, <1>1, <3>1, <3>2 DEF Living, RoundOf, Ended
      <4> QED
        BY <4>1, <4>2, <4>3 DEF RankOK
    <3>4. Meeting
      BY <1>1, <3>1, Leaving DEF RoundOf, Waits, Ended
    <3> QED
      BY <3>3, <3>4
  <2>12. CASE Closed(r)
    <3>1. /\ pc[r] = "errors" /\ pc'[r] = "closed" /\ Goto(r, pc[r], "closed")
          /\ Same /\ Lives
          /\ Complete(r) /\ ~AnyError(r)
          /\ posted' = posted
      BY <2>12 DEF Closed, Goto, BufferInv, BufferTypeOK
    <3>2. Stays
      BY <1>3, <3>1
    <3>3. RankOK(r)'
      <4>1. RoundOf(r)'
        BY <1>0, <1>1, <3>1, <3>2 DEF RoundOf, Ended
      <4>2. Tracked(r)'
        BY <1>0, <1>1, <3>1, <3>2 DEF Tracked, RoundOf, Ended, Peers
      <4>3. Living(r)'
        BY <1>0, <1>1, <3>1, <3>2 DEF Living, RoundOf, Ended
      <4> QED
        BY <4>1, <4>2, <4>3 DEF RankOK
    <3>4. Meeting
      BY <1>1, <3>1, Leaving DEF RoundOf, Waits, Ended
    <3> QED
      BY <3>3, <3>4
  <2>13. CASE Release(r)
    <3>1. /\ pc[r] = "closed" /\ pc'[r] = "released" /\ Goto(r, pc[r], "released")
          /\ Same /\ r \notin live'
          /\ posted' = posted
      BY <2>13 DEF Release, Goto, BufferInv, BufferTypeOK
    <3>2. Stays
      BY <1>3, <3>1
    <3>3. RankOK(r)'
      <4>1. RoundOf(r)'
        BY <1>0, <1>1, <3>1, <3>2 DEF RoundOf, Ended
      <4>2. Tracked(r)'
        BY <1>0, <1>1, <3>1, <3>2 DEF Tracked, RoundOf, Ended, Peers
      <4>3. Living(r)'
        BY <1>0, <1>1, <3>1, <3>2 DEF Living, RoundOf, Ended
      <4> QED
        BY <4>1, <4>2, <4>3 DEF RankOK
    <3>4. Meeting
      BY <1>1, <3>1, Outside DEF RoundOf, Waits, Ended
    <3> QED
      BY <3>3, <3>4
  <2> QED
    BY <2>1, <2>2, <2>3, <2>4, <2>5, <2>6, <2>7,
       <2>8, <2>9, <2>10, <2>11, <2>12, <2>13 DEF Step
<1>5. \A q \in Group \ {r} :
        /\ pc'[q] = pc[q] /\ safe'[q] = safe[q] /\ posted'[q] = posted[q]
        /\ mapped'[q] = mapped[q] /\ bases'[q] = bases[q] /\ (q \in live' <=> q \in live)
  BY OthersStay
<1>6. ASSUME NEW q \in Group \ {r} PROVE RankOK(q)'
  <2>1. RankOK(q) /\ Entered(q)' = Entered(q)
    BY <1>5, <1>6 DEF BufferInv, Entered
  <2>2. RoundOf(q)'
    BY <1>5, <1>6, <2>1 DEF RankOK, RoundOf
  <2>3. Tracked(q)'
    BY <1>5, <1>6, <2>1 DEF RankOK, Tracked, Peers
  <2>4. Living(q)'
    BY <1>0, <1>5, <1>6, <2>1 DEF RankOK, Living
  <2> QED
    BY <2>2, <2>3, <2>4 DEF RankOK
<1>7. BufferTypeOK'
  BY BufferTypeStep DEF BufferInv, BufferNext
<1> QED
  BY <1>4, <1>6, <1>7 DEF BufferInv

\* Every step keeps it, those of the kernels too.
LEMMA BufferInvStep == BufferInv /\ [BufferNext]_bufferVars => BufferInv'
<1> SUFFICES ASSUME BufferInv, [BufferNext]_bufferVars PROVE BufferInv'
  OBVIOUS
<1>1. BufferTypeOK'
  BY BufferTypeStep DEF BufferInv
<1>2. CASE UNCHANGED bufferVars
  BY <1>1, <1>2 DEF bufferVars, gpu, BufferInv, RankOK, RoundOf, Tracked, Living, Met, Retried, NoErrorLeft,
     Passed, Entered
<1>3. ASSUME NEW r \in Group, LaunchKernel(r) \/ KernelEnds(r) PROVE BufferInv'
  <2>1. UNCHANGED <<pc, live, mapped, bases, safe, posted>>
    BY <1>3 DEF LaunchKernel, KernelEnds
  <2>2. \A q \in Group : q \in running' => q \in running \/ (pc[q] = "ready" /\ ~safe[q])
    BY <1>3 DEF LaunchKernel, KernelEnds
  <2>3. Met' /\ Retried' /\ NoErrorLeft'
    BY <2>1 DEF BufferInv, Met, Retried, NoErrorLeft, Passed, Entered
  <2>4. ASSUME NEW q \in Group PROVE RankOK(q)'
    BY <2>1, <2>2 DEF BufferInv, RankOK, RoundOf, Tracked, Living, Entered
  <2> QED
    BY <1>1, <2>3, <2>4 DEF BufferInv
<1> QED
  BY <1>2, <1>3, BufferInvRank DEF BufferNext

\* It holds of the protocol, with any number of failed opens and closes.
THEOREM BufferInvariant == BufferSpec => []BufferInv
BY BufferInvInit, BufferInvStep, PTL DEF BufferSpec

-----------------------------------------------------------------------------
(* What follows.                                                           *)

\* When close has returned on one rank, every other rank is in the same round
\* and has no mapping left, however many closes failed before.
THEOREM RanksCloseTogether == BufferSpec => []ClosedTogether
<1>1. BufferInv => ClosedTogether
  <2> SUFFICES ASSUME BufferInv, NEW r \in Group, NEW q \in Group, pc[r] \in Ended
               PROVE  pc[q] \in {"errors", "closed", "released"} /\ mapped[q] = {}
    BY DEF ClosedTogether, Ended
  <2>1. Entered(r) \in Nat /\ Entered(q) \in Nat /\ Entered(r) >= 4
    BY EnteredNat DEF BufferInv, RankOK, RoundOf
  <2>2. Entered(r) <= Entered(q)
    BY <2>1 DEF BufferInv, Met, Passed, Ended, Waits
  <2>3. \A s \in Group : ~posted[s][Entered(r)]
    BY DEF BufferInv, NoErrorLeft
  <2>4. Entered(q) = Entered(r) /\ (pc[q] \in Ended \/ pc[q] \in Waits)
    BY <2>1, <2>2, <2>3 DEF BufferInv, Retried, Passed
  <2>5. RoundOf(q) /\ Tracked(q)
    BY DEF BufferInv, RankOK
  <2>6. pc[q] \in {"errors"} \cup Ended
    <3>1. Entered(q) >= 4
      BY <2>1, <2>4
    <3>2. pc[q] \notin {"exchange", "openbarrier", "closebarrier"}
      BY <2>1, <2>5, <3>1 DEF RoundOf
    <3> QED
      BY <2>4, <3>2 DEF Waits
  <2>7. bases[q] = {} /\ mapped[q] = bases[q]
    BY <2>3, <2>4, <2>5, <2>6 DEF Tracked, Ended
  <2> QED
    BY <2>6, <2>7 DEF Ended
<1> QED
  BY <1>1, BufferInvariant, PTL

\* A kernel in flight finds every peer's buffer mapped and allocated: a rank has
\* a mapping closed by close only after every rank has synchronized.
THEOREM KernelsHavePeers == BufferSpec => []KernelHasPeers
<1>1. BufferInv => KernelHasPeers
  <2> SUFFICES ASSUME BufferInv, NEW r \in running
               PROVE  mapped[r] = Peers(r) /\ \A q \in Group : q \in live
    BY DEF KernelHasPeers, Peers
  <2>1. r \in Group
    BY DEF BufferInv, BufferTypeOK
  <2>2. RoundOf(r) /\ Tracked(r) /\ Living(r)
    BY <2>1 DEF BufferInv, RankOK
  <2>3. pc[r] = "ready" /\ mapped[r] = Peers(r) /\ Entered(r) = 2
    BY <2>2 DEF Living, Tracked, RoundOf
  <2>4. ASSUME NEW q \in Group PROVE q \in live
    <3>1. RoundOf(q) /\ Living(q) /\ Entered(q) \in Nat
      BY EnteredNat DEF BufferInv, RankOK
    <3>2. 2 <= Entered(q)
      BY <2>1, <2>3 DEF BufferInv, Met, Passed, Waits
    <3>3. pc[q] # "released"
      <4> SUFFICES ASSUME pc[q] = "released" PROVE FALSE
        OBVIOUS
      <4>1. Entered(q) >= 4
        BY <3>1 DEF RoundOf, Ended
      <4>2. Passed(q, 4)
        BY <3>1, <4>1 DEF Passed, Waits
      <4> QED
        BY <2>1, <2>3, <4>2 DEF BufferInv, Met
    <3> QED
      BY <3>1, <3>2, <3>3 DEF RoundOf, Living
  <2> QED
    BY <2>3, <2>4
<1> QED
  BY <1>1, BufferInvariant, PTL

=============================================================================
