----------------------------- MODULE Workgroup -----------------------------
(***************************************************************************)
(* A workgroup that runs one of the kernels' pipelines.  Its waves go on   *)
(* independently between barriers.  A copy from memory may land at any     *)
(* time from its issue until a wait counts it as done, and a ds_read may   *)
(* take its data at any time until its wave waits for it: the model notes  *)
(* both as outstanding, and NoRace says that none of them meet.            *)
(***************************************************************************)
EXTENDS WaveOps, FiniteSets, FiniteSetsExt

CONSTANT
  Kernels   \* [name, programs: one per wave, steps: what each accumulator takes]

VARIABLES
  kernel,   \* the kernel the workgroup runs
  pc,       \* wave -> its place in its program
  vm,       \* wave -> its copies from memory that may not have landed, in order
  ds,       \* wave -> its LDS operations that may not be done, in order
  lds,      \* part -> the tile in it
  reg,      \* wave -> fragment -> the tile in it
  acc       \* wave -> accumulator -> the steps it has taken, or Wrong

vars == <<kernel, pc, vm, ds, lds, reg, acc>>

Programs == kernel.programs
Waves == DOMAIN Programs
Ended(w) == pc[w] > Len(Programs[w])
Here(w) == Programs[w][pc[w]]
At(w, ops) == ~Ended(w) /\ Here(w).op \in ops

Wrong == -1
\* The operands of an accumulator name it; the epilogue passes a finished one on as
\* the single operand of another.
Operands(frags) == {f[1] : f \in frags}
Passed(a) == Cardinality(a) = 1
Expected(a) == IF Passed(a) THEN 1 ELSE kernel.steps

-----------------------------------------------------------------------------
Init ==
  /\ kernel \in Kernels
  /\ LET all(ops) == {i \in UNION {Range(Programs[w]) : w \in Waves} : i.op \in ops}
     IN /\ lds = [p \in {i.dst : i \in all({"load"})}
                        \cup UNION {i.parts : i \in all({"read", "write", "spill", "clear"})} |-> Nothing]
        /\ reg = [w \in Waves |->
                    [f \in {i.dst : i \in all({"fetch", "read", "derive"})} |-> Nothing]]
        /\ acc = [w \in Waves |-> [a \in {Operands(i.frags) : i \in all({"mma"})} |-> 0]]
  /\ pc = [w \in Waves |-> 1]
  /\ vm = [w \in Waves |-> << >>]
  /\ ds = [w \in Waves |-> << >>]

Step(w) == pc' = [pc EXCEPT ![w] = @ + 1] /\ UNCHANGED kernel

Units(copies) == FoldSeq(LAMBDA c, sum : c.n + sum, 0, copies)
\* Instructions complete in order: those are done after which n others were issued.
Counted(w, n) ==
  Cardinality({i \in DOMAIN vm[w] : Units(SubSeq(vm[w], i + 1, Len(vm[w]))) >= n})
\* The last instruction of a queue that is needed to have the fragments.
LastFor(queue, op, frags) ==
  Max({0} \cup {i \in DOMAIN queue : queue[i].op = op /\ queue[i].dst \in frags})

\* LDS and the wave's registers once its first m copies have landed.
After(copies, op, dst, old) ==
  LET those == {i \in DOMAIN copies : copies[i].op = op /\ copies[i].dst = dst}
  IN IF those = {} THEN old ELSE copies[Max(those)].tile
LdsAfter(w, m) ==
  [p \in DOMAIN lds |-> After(SubSeq(vm[w], 1, m), "load", p, lds[p])]
RegAfter(w, m) ==
  [f \in DOMAIN reg[w] |-> After(SubSeq(vm[w], 1, m), "fetch", f, reg[w][f])]

Drop(queue, m) == SubSeq(queue, m + 1, Len(queue))

-----------------------------------------------------------------------------
Issue(w) ==
  /\ At(w, {"load", "fetch"})
  /\ vm' = [vm EXCEPT ![w] = Append(@, Here(w))]
  /\ Step(w)
  /\ UNCHANGED <<ds, lds, reg, acc>>

WaitFor(w) ==
  /\ At(w, {"wait"})
  /\ LET m == Counted(w, Here(w).n)
     IN /\ vm' = [vm EXCEPT ![w] = Drop(@, m)]
        /\ lds' = LdsAfter(w, m)
        /\ reg' = [reg EXCEPT ![w] = RegAfter(w, m)]
  /\ Step(w)
  /\ UNCHANGED <<ds, acc>>

\* A step of a tile is read if all the parts hold that tile.
ReadLds(w) ==
  /\ At(w, {"read"})
  /\ LET i == Here(w)
         k == lds[CHOOSE p \in i.parts : TRUE].k
         whole == \A p \in i.parts : lds[p] = Tile(i.operand, k)
     IN reg' = [reg EXCEPT ![w][i.dst] =
                  IF whole THEN Tile(i.dst[1], k * i.steps + i.s) ELSE Nothing]
  /\ ds' = [ds EXCEPT ![w] = Append(@, Here(w))]
  /\ Step(w)
  /\ UNCHANGED <<vm, lds, acc>>

WriteLds(w) ==
  /\ At(w, {"write"})
  /\ LET i == Here(w)
         m == LastFor(vm[w], "fetch", {i.frag})
     IN /\ vm' = [vm EXCEPT ![w] = Drop(@, m)]
        /\ reg' = [reg EXCEPT ![w] = RegAfter(w, m)]
        /\ lds' = [p \in DOMAIN lds |->
                     IF p \in i.parts THEN RegAfter(w, m)[i.frag] ELSE LdsAfter(w, m)[p]]
  /\ ds' = [ds EXCEPT ![w] = Append(@, Here(w))]
  /\ Step(w)
  /\ UNCHANGED acc

\* The epilogue stages the finished accumulators; a slot is cleared.
Overwrite(w) ==
  /\ At(w, {"spill", "clear"})
  /\ LET i == Here(w)
         sums == IF i.sums = {} THEN {a \in DOMAIN acc[w] : ~Passed(a)} ELSE i.sums
         whole == \A a \in sums : acc[w][a] = Expected(a)
     IN /\ lds' = [p \in DOMAIN lds |->
                     IF p \in i.parts /\ whole THEN Tile(i.operand, 0)
                     ELSE IF p \in i.parts \cup i.over THEN Nothing ELSE lds[p]]
        /\ ds' = [ds EXCEPT ![w] = Append(@, i)]
  /\ Step(w)
  /\ UNCHANGED <<vm, reg, acc>>

DrainLds(w) ==
  /\ At(w, {"drain"})
  /\ ds' = [ds EXCEPT ![w] = << >>]
  /\ Step(w)
  /\ UNCHANGED <<vm, lds, reg, acc>>

\* The compiler waits until the registers an instruction uses are there.  What is
\* computed from fragments of different steps is of no use.
Compute(w) ==
  /\ At(w, {"mma", "derive"})
  /\ LET i == Here(w)
         m == LastFor(vm[w], "fetch", i.frags)
         r == RegAfter(w, m)
         a == Operands(i.frags)
         same(k) == \A f \in i.frags : r[f] = Tile(f[1], k)
     IN /\ vm' = [vm EXCEPT ![w] = Drop(@, m)]
        /\ lds' = LdsAfter(w, m)
        /\ ds' = [ds EXCEPT ![w] = Drop(@, LastFor(@, "read", i.frags))]
        /\ \/ /\ i.op = "mma"
              /\ acc' = [acc EXCEPT ![w][a] = IF same(@) THEN @ + 1 ELSE Wrong]
              /\ reg' = [reg EXCEPT ![w] = r]
           \/ /\ i.op = "derive"
              /\ LET k == r[CHOOSE f \in i.frags : TRUE].k
                 IN reg' = [reg EXCEPT ![w] = [r EXCEPT ![i.dst] =
                              IF same(k) THEN Tile(i.dst[1], k) ELSE Nothing]]
              /\ UNCHANGED acc
  /\ Step(w)

\* How often the wave has come to this half of a barrier.
Times(w, op, last) == Cardinality({i \in 1 .. last : Programs[w][i].op = op})

SignalBarrier(w) ==
  /\ At(w, {"signal"})
  /\ Step(w)
  /\ UNCHANGED <<vm, ds, lds, reg, acc>>

\* A wave leaves a barrier when every wave that has not ended has come to it.
PassBarrier(w) ==
  /\ At(w, {"await"})
  /\ \A u \in Waves :
       ~Ended(u) => Times(u, "signal", pc[u] - 1) >= Times(w, "await", pc[w])
  /\ Step(w)
  /\ UNCHANGED <<vm, ds, lds, reg, acc>>

Next ==
  \/ \E w \in Waves : \/ Issue(w) \/ WaitFor(w) \/ ReadLds(w) \/ WriteLds(w)
                      \/ Overwrite(w) \/ DrainLds(w) \/ Compute(w)
                      \/ SignalBarrier(w) \/ PassBarrier(w)

Spec == Init /\ [][Next]_vars

-----------------------------------------------------------------------------
OfOp(queue, ops) == {queue[i] : i \in {j \in DOMAIN queue : queue[j].op \in ops}}
\* A copy that brings what the part holds already changes nothing.
Arriving(w) == {c.dst : c \in {c \in OfOp(vm[w], {"load"}) : c.tile # lds[c.dst]}}
Reading(w) == UNION {i.parts : i \in OfOp(ds[w], {"read"})}
Writing(w) == UNION {i.parts : i \in OfOp(ds[w], {"write", "spill"})}
Overwriting(w) == UNION {i.over : i \in OfOp(ds[w], {"spill", "clear"})}

\* No part of LDS is written, by a copy from memory or by a wave, while another
\* copy or wave may still be writing or reading it: the explicit waits and barriers of
\* a pipeline separate the use of a buffer from its next refill, in all waves.
NoRace ==
  \A u, w \in Waves :
    /\ Arriving(u) \cap (Reading(w) \cup Writing(w) \cup Overwriting(w)) = {}
    /\ u # w => /\ (Arriving(u) \cup Writing(u)) \cap (Arriving(w) \cup Writing(w) \cup Reading(w)) = {}
                /\ Overwriting(u) \cap Reading(w) = {}

\* Every accumulator takes every step of K exactly once and in order, with operands
\* of that step, whatever buffers and registers a pipeline rotates them through.
Accumulated ==
  \A w \in Waves : \A a \in DOMAIN acc[w] :
    acc[w][a] # Wrong /\ (Ended(w) => acc[w][a] = Expected(a))
=============================================================================
