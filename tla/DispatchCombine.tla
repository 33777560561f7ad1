--------------------------- MODULE DispatchCombine ---------------------------
(***************************************************************************)
(* The expert-parallel exchange of kernels/comm: the dispatch kernel sends *)
(* every token to the ranks that hold its experts, the user's experts run, *)
(* and the combine kernel brings the results back. Each rank's stream runs *)
(* the kernels of Program one after the other; a kernel is a grid of       *)
(* blocks, of one wave each here, that share the rank's counters and write *)
(* the peers' symmetric buffers.                                           *)
(*                                                                         *)
(* A token's values are abstracted to [round, src, tok]: the dispatch that *)
(* sent it, its rank and its index there; an expert's output to            *)
(* [token, expert].                                                        *)
(***************************************************************************)
EXTENDS Integers, Sequences, FiniteSets

CONSTANTS
  World,     \* npes
  Local,     \* experts_per_rank
  TopK,      \* experts_per_token
  MaxTok,    \* max_tok_per_rank
  MaxRecv,   \* max_recv
  Program,   \* the kernels of a stream: "dispatch" and "combine"
  Grid,      \* blocks of the kernel at each place of Program
  Modes,     \* compiled variants: "copy", "zero" (zero_copy), "std" (enable_std_moe)
  Memory,    \* what a word of symmetric memory may hold that nobody has cleared
  Routes     \* the experts of every token: round -> rank -> token -> k-slot

Rank   == 0..(World - 1)
Expert == 0..(World * Local - 1)
KSlot  == 0..(TopK - 1)
Place  == 1..Len(Program)
Round  == 0..Cardinality({i \in Place : Program[i] = "dispatch"})

ASSUME ConstantsAssumption ==
  /\ {World, Local, TopK, MaxTok, MaxRecv} \subseteq Nat \ {0}
  /\ Program \in Seq({"dispatch", "combine"})
  /\ Grid \in [Place -> Nat \ {0}]
  /\ Modes \subseteq {"copy", "zero", "std"}
  /\ Memory \subseteq Int
  /\ \A f \in Routes : \A n \in Round \ {0} : \A r \in Rank :
       /\ f[n][r] \in Seq([KSlot -> Expert]) /\ Len(f[n][r]) <= MaxTok
       /\ \A t \in 1..Len(f[n][r]) : \A j, k \in KSlot : j # k => f[n][r][t][j] # f[n][r][t][k]

VARIABLES
  mode, route,
  place,      \* the kernel a stream runs or ran last, 0 before the first
  pc,         \* of each block of it
  work,       \* the next item of a block's strided loop
  reg,        \* what a block keeps in registers
  todo,       \* peers a block's lanes have still to signal or to see
  tokOff,     \* shmem_tok_off, counted up by every sender
  destCtr,    \* dest_pe_ctr
  bar,        \* disp_bar, comb_bar and disp_grid_bar
  recvNum,    \* shmem_recv_tok_num
  totalRecv,  \* total_recv
  tokMap,     \* dest_tok_map: [pe, id], or Dropped
  recvTok,    \* shmem_disp_out_tok with tok_id_to_src, idx and weights
  packed,     \* packed_recv_x and packed_recv_count
  slotMap,    \* disp_tok_to_ep_slot_map
  inp,        \* the experts' results, the input of combine
  combInp,    \* shmem_comb_inp_tok
  combWts,    \* shmem_comb_inp_wts
  xdbFlag, xdbMem,  \* the cross-device barrier
  out, outWts       \* the results of combine, by token and k-slot

dispatchVars == <<tokOff, destCtr, recvNum, tokMap, recvTok>>
stdVars      == <<packed, slotMap>>
combineVars  == <<inp, combInp, combWts, xdbFlag, xdbMem, out, outWts>>
blockVars    == <<pc, work, reg, todo>>
vars == <<mode, route, place, blockVars, dispatchVars, bar, totalRecv, stdVars, combineVars>>

Dropped  == [pe |-> World, id |-> 0]
Nothing  == [round |-> 0, src |-> 0, tok |-> 0]
Fresh    == [row |-> Dropped, target |-> 0, total |-> 0, flag |-> 0]
Blocks(r) == 0..(IF place[r] = 0 THEN -1 ELSE Grid[place[r]] - 1)
RoundOf(i) == Cardinality({j \in 1..i : Program[j] = "dispatch"})
Owner(e)  == e \div Local

Tokens(r)  == route[RoundOf(place[r])][r]
Experts(x) == route[x.round][x.src][x.tok]

\* What the experts of rank r make of the token x: their sum.
Output(r, x) ==
  IF x = Nothing THEN {}
  ELSE {[token |-> x, expert |-> Experts(x)[k]] : k \in {k \in KSlot : Owner(Experts(x)[k]) = r}}

NoSums    == [t \in 1..MaxTok |-> [k \in KSlot |-> {}]]
NoWeights == [t \in 1..MaxTok |-> [k \in KSlot |-> <<0, Nothing>>]]

\* _alloc_buffers clears what combine reads; the counters that dispatch reads in
\* the peers, tokOff and recvNum, start with what the memory held.
Init ==
  /\ mode \in Modes /\ route \in Routes
  /\ place = [r \in Rank |-> 0]
  /\ pc = [r \in Rank |-> <<>>] /\ work = pc /\ reg = pc /\ todo = pc
  /\ tokOff \in [Rank -> Memory]
  /\ destCtr = [r \in Rank |-> [p \in Rank |-> 0]]
  /\ bar = [r \in Rank |-> [disp |-> 0, comb |-> 0, grid |-> 0]]
  /\ recvNum \in [Rank -> [Rank -> Memory]]
  /\ totalRecv = [r \in Rank |-> 0]
  /\ tokMap = [r \in Rank |-> [w \in 0..(MaxTok * TopK - 1) |-> Dropped]]
  /\ recvTok = [r \in Rank |-> [i \in 0..(MaxRecv - 1) |-> Nothing]]
  /\ packed = [r \in Rank |-> [e \in Expert |-> <<>>]]
  /\ slotMap = [r \in Rank |-> [w \in 0..(MaxRecv * TopK - 1) |-> <<>>]]
  /\ inp = [r \in Rank |-> [i \in 0..(MaxRecv - 1) |-> {}]]
  /\ combInp = [r \in Rank |-> [i \in 0..(World * MaxTok - 1) |-> {}]]
  /\ combWts = [r \in Rank |-> [i \in 0..(World * MaxTok - 1) |-> <<0, Nothing>>]]
  /\ xdbFlag = [r \in Rank |-> 1]
  /\ xdbMem = destCtr
  /\ out = [r \in Rank |-> NoSums] /\ outWts = [r \in Rank |-> NoWeights]

-----------------------------------------------------------------------------
(* The stream. A kernel starts when all blocks of the one before have      *)
(* ended. Between the two the user's experts run, and in the zero-copy     *)
(* variant they leave their results where the peers read them. dispatch()  *)
(* clears the packed counts before it launches.                            *)

Ended(r) == \A b \in Blocks(r) : pc[r][b] = "ended"

Runs(r, kernel) == place[r] # 0 /\ Program[place[r]] = kernel

\* The rows of the received tokens, with what the experts make of them.
Staged(r, rows) ==
  [i \in DOMAIN rows |-> IF i < totalRecv[r] THEN Output(r, recvTok[r][i]) ELSE rows[i]]

Start(r) ==
  /\ place[r] < Len(Program) /\ Ended(r)
  /\ place' = [place EXCEPT ![r] = @ + 1]
  /\ LET kernel == Program[place'[r]]
         blocks == 0..(Grid[place'[r]] - 1)
     IN  /\ pc' = [pc EXCEPT ![r] = [b \in blocks |->
                     IF kernel = "dispatch" THEN "claim" ELSE "load"]]
         /\ work' = [work EXCEPT ![r] = [b \in blocks |-> b]]
         /\ reg' = [reg EXCEPT ![r] = [b \in blocks |-> Fresh]]
         /\ todo' = [todo EXCEPT ![r] = [b \in blocks |-> {}]]
         /\ IF kernel = "dispatch" /\ mode = "std"
             THEN packed' = [packed EXCEPT ![r] = [e \in Expert |-> <<>>]]
             ELSE UNCHANGED packed
         /\ IF kernel = "combine"
             THEN out' = [out EXCEPT ![r] = NoSums] /\ outWts' = [outWts EXCEPT ![r] = NoWeights]
             ELSE UNCHANGED <<out, outWts>>
  /\ inp' = IF Runs(r, "dispatch") /\ mode = "copy" THEN [inp EXCEPT ![r] = Staged(r, @)] ELSE inp
  /\ combInp' = IF Runs(r, "dispatch") /\ mode = "zero"
                THEN [combInp EXCEPT ![r] = Staged(r, @)] ELSE combInp
  /\ UNCHANGED <<mode, route, dispatchVars, bar, totalRecv, slotMap, combWts, xdbFlag, xdbMem>>

Goto(r, b, l) == pc' = [pc EXCEPT ![r][b] = l]

\* The next item of the strided loop.
Advance(r, b) == work' = [work EXCEPT ![r][b] = @ + Grid[place[r]]]

-----------------------------------------------------------------------------
(* The dispatch kernel, phase 1: a wave claims a row of the rank that      *)
(* holds an expert of the token, unless an earlier k-slot of the token     *)
(* went there or the rank has no row left, and then fills the row.         *)

TokOf(w)  == w \div TopK + 1
SlotOf(w) == w % TopK

\* Mutant: every k-slot sends the token.
NeverDup(r, w) == FALSE

Dup(r, w) ==
  LET x == Tokens(r)[TokOf(w)]
  IN  \E j \in KSlot : j < SlotOf(w) /\ Owner(x[j]) = Owner(x[SlotOf(w)])

InCap(id) == id < MaxRecv

Claim(r, b) ==
  LET w == work[r][b]
      p == Owner(Tokens(r)[TokOf(w)][SlotOf(w)])
      skip == /\ tokMap' = [tokMap EXCEPT ![r][w] = Dropped]
              /\ Advance(r, b) /\ UNCHANGED <<pc, reg>>
  IN  /\ pc[r][b] = "claim" /\ w < Len(Tokens(r)) * TopK
      /\ IF Dup(r, w) THEN skip /\ UNCHANGED tokOff
         ELSE /\ tokOff' = [tokOff EXCEPT ![p] = @ + 1]
              /\ IF InCap(tokOff[p])
                 THEN /\ tokMap' = [tokMap EXCEPT ![r][w] = [pe |-> p, id |-> tokOff[p]]]
                      /\ reg' = [reg EXCEPT ![r][b].row = tokMap'[r][w]]
                      /\ Goto(r, b, "publish") /\ UNCHANGED work
                 ELSE skip
      /\ UNCHANGED <<mode, route, place, todo, destCtr, bar, recvNum, totalRecv, recvTok,
                     stdVars, combineVars>>

Publish(r, b) ==
  LET row == reg[r][b].row
  IN  /\ pc[r][b] = "publish"
      /\ recvTok' = [recvTok EXCEPT ![row.pe][row.id] =
                       [round |-> RoundOf(place[r]), src |-> r, tok |-> TokOf(work[r][b])]]
      /\ destCtr' = [destCtr EXCEPT ![r][row.pe] = @ + 1]
      /\ Advance(r, b) /\ Goto(r, b, "claim")
      /\ UNCHANGED <<mode, route, place, reg, todo, tokOff, bar, recvNum, totalRecv, tokMap,
                     stdVars, combineVars>>

\* Where a block goes after its part of phase 3.
Then == IF mode = "std" THEN "ticket" ELSE "ended"

\* Phase 2: the blocks meet; the first wave waits for them.
ArriveDispatch(r, b) ==
  /\ pc[r][b] = "claim" /\ work[r][b] >= Len(Tokens(r)) * TopK
  /\ bar' = [bar EXCEPT ![r].disp = @ + 1]
  /\ Goto(r, b, IF b = 0 THEN "collect" ELSE Then)
  /\ UNCHANGED <<mode, route, place, work, reg, todo, dispatchVars, totalRecv, stdVars, combineVars>>

\* Its lanes, one for each peer, leave their waits together.
Collect(r) ==
  /\ 0 \in Blocks(r) /\ pc[r][0] = "collect"
  /\ bar[r].disp = Grid[place[r]] /\ \A p \in Rank : recvNum[p][r] = 0
  /\ bar' = [bar EXCEPT ![r].disp = 0]
  /\ todo' = [todo EXCEPT ![r][0] = Rank]
  /\ Goto(r, 0, "signal")
  /\ UNCHANGED <<mode, route, place, work, reg, dispatchVars, totalRecv, stdVars, combineVars>>

\* The count goes to the peer plus one, for zero is "unset".
Signal(r, p) ==
  /\ 0 \in Blocks(r) /\ pc[r][0] = "signal" /\ p \in todo[r][0]
  /\ recvNum' = [recvNum EXCEPT ![p][r] = destCtr[r][p] + 1]
  /\ todo' = [todo EXCEPT ![r][0] = @ \ {p}]
  /\ IF todo'[r][0] = {} THEN Goto(r, 0, "receive") ELSE UNCHANGED pc
  /\ UNCHANGED <<mode, route, place, work, reg, tokOff, destCtr, bar, totalRecv, tokMap, recvTok,
                 stdVars, combineVars>>

\* The tokens that the peers have counted for rank r: peer and number.
Counted(r) == UNION {{p} \X (1..(recvNum[r][p] - 1)) : p \in Rank}

\* Phase 3: it waits for the counts of all peers, takes them and adds them up.
Receive(r) ==
  /\ 0 \in Blocks(r) /\ pc[r][0] = "receive"
  /\ \A p \in Rank : recvNum[r][p] > 0
  /\ totalRecv' = [totalRecv EXCEPT ![r] = @ + Cardinality(Counted(r))]
  /\ recvNum' = [recvNum EXCEPT ![r] = [p \in Rank |-> 0]]
  /\ destCtr' = [destCtr EXCEPT ![r] = [p \in Rank |-> 0]]
  /\ Goto(r, 0, "rewind")
  /\ UNCHANGED <<mode, route, place, work, reg, todo, tokOff, bar, tokMap, recvTok, stdVars, combineVars>>

Rewind(r) ==
  /\ 0 \in Blocks(r) /\ pc[r][0] = "rewind"
  /\ tokOff' = [tokOff EXCEPT ![r] = 0]
  /\ Goto(r, 0, Then)
  /\ UNCHANGED <<mode, route, place, work, reg, todo, destCtr, bar, recvNum, totalRecv, tokMap, recvTok,
                 stdVars, combineVars>>

-----------------------------------------------------------------------------
(* Phase 4 of the std variant: all blocks meet at a counter that is never  *)
(* reset, and pack the received rows by expert.                            *)

Ticket(r, b) ==
  LET n == Grid[place[r]]
  IN  /\ pc[r][b] = "ticket"
      /\ reg' = [reg EXCEPT ![r][b].target = (bar[r].grid \div n + 1) * n]
      /\ bar' = [bar EXCEPT ![r].grid = @ + 1]
      /\ Goto(r, b, "grid")
      /\ UNCHANGED <<mode, route, place, work, todo, dispatchVars, totalRecv, stdVars, combineVars>>

\* Mutants: no wait; the count of one call.
Unmet(r, b)   == TRUE
OneCall(r, b) == bar[r].grid = Grid[place[r]]

GridMet(r, b) == bar[r].grid = reg[r][b].target

PassGrid(r, b) ==
  /\ pc[r][b] = "grid" /\ GridMet(r, b)
  /\ work' = [work EXCEPT ![r][b] = b] /\ Goto(r, b, "pack")
  /\ UNCHANGED <<mode, route, place, reg, todo, dispatchVars, bar, totalRecv, stdVars, combineVars>>

Pack(r, b) ==
  LET w == work[r][b]
      x == recvTok[r][w \div TopK]
      e == Experts(x)[SlotOf(w)]
  IN  /\ pc[r][b] = "pack" /\ w < totalRecv[r] * TopK
      /\ IF Owner(e) = r
         THEN /\ packed' = [packed EXCEPT ![r][e] = Append(@, x)]
              /\ slotMap' = [slotMap EXCEPT ![r][w] = <<e, Len(packed'[r][e])>>]
         ELSE slotMap' = [slotMap EXCEPT ![r][w] = <<>>] /\ UNCHANGED packed
      /\ Advance(r, b)
      /\ UNCHANGED <<mode, route, place, pc, reg, todo, dispatchVars, bar, totalRecv, combineVars>>

EndDispatch(r, b) ==
  /\ pc[r][b] = "pack" /\ work[r][b] >= totalRecv[r] * TopK
  /\ Goto(r, b, "ended")
  /\ UNCHANGED <<mode, route, place, work, reg, todo, dispatchVars, bar, totalRecv, stdVars, combineVars>>

-----------------------------------------------------------------------------
(* The combine kernel. A block reads the count and the flag of this call   *)
(* when it starts. Stage 1 writes each received row, reduced over the      *)
(* experts of this rank, into the slot of this rank and the token in the   *)
(* token's rank; under zero_copy only the weights move, to the own buffer. *)

Load(r, b) ==
  /\ pc[r][b] = "load"
  /\ reg' = [reg EXCEPT ![r][b].total = totalRecv[r], ![r][b].flag = xdbFlag[r]]
  /\ Goto(r, b, "scatter")
  /\ UNCHANGED <<mode, route, place, work, todo, dispatchVars, bar, totalRecv, stdVars, combineVars>>

\* The std variant sums what the experts made of the packed rows of row i.
Reduced(r, i) ==
  IF mode # "std" THEN inp[r][i]
  ELSE UNION {LET s == slotMap[r][i * TopK + k]
              IN  IF s = <<>> THEN {} ELSE {[token |-> packed[r][s[1]][s[2]], expert |-> s[1]]} :
              k \in KSlot}

Row(pe, tok) == pe * MaxTok + tok - 1

Scatter(r, b) ==
  LET i == work[r][b]
      x == recvTok[r][i]
  IN  /\ pc[r][b] = "scatter" /\ i < reg[r][b].total
      /\ IF mode = "zero"
         THEN /\ combWts' = [combWts EXCEPT ![r][i] = <<r, x>>]
              /\ UNCHANGED combInp
         ELSE /\ combInp' = [combInp EXCEPT ![x.src][Row(r, x.tok)] = Reduced(r, i)]
              /\ combWts' = [combWts EXCEPT ![x.src][Row(r, x.tok)] = <<r, x>>]
      /\ Advance(r, b)
      /\ UNCHANGED <<mode, route, place, pc, reg, todo, dispatchVars, bar, totalRecv, stdVars, inp,
                     xdbFlag, xdbMem, out, outWts>>

\* Stage 2: the blocks meet, the first wave tells every peer, and every
\* block waits until all peers have told this rank.
ArriveCombine(r, b) ==
  /\ pc[r][b] = "scatter" /\ work[r][b] >= reg[r][b].total
  /\ bar' = [bar EXCEPT ![r].comb = @ + 1]
  /\ todo' = [todo EXCEPT ![r][b] = Rank]
  /\ Goto(r, b, IF b = 0 THEN "meet" ELSE "await")
  /\ UNCHANGED <<mode, route, place, work, reg, dispatchVars, totalRecv, stdVars, combineVars>>

Meet(r) ==
  /\ 0 \in Blocks(r) /\ pc[r][0] = "meet" /\ bar[r].comb = Grid[place[r]]
  /\ bar' = [bar EXCEPT ![r].comb = 0]
  /\ Goto(r, 0, "post")
  /\ UNCHANGED <<mode, route, place, work, reg, todo, dispatchVars, totalRecv, stdVars, combineVars>>

Post(r, p) ==
  /\ 0 \in Blocks(r) /\ pc[r][0] = "post" /\ p \in todo[r][0]
  /\ xdbMem' = [xdbMem EXCEPT ![p][r] = reg[r][0].flag]
  /\ IF todo[r][0] = {p}
     THEN /\ xdbFlag' = [xdbFlag EXCEPT ![r] = @ + 1]
          /\ todo' = [todo EXCEPT ![r][0] = Rank] /\ Goto(r, 0, "await")
     ELSE todo' = [todo EXCEPT ![r][0] = @ \ {p}] /\ UNCHANGED <<xdbFlag, pc>>
  /\ UNCHANGED <<mode, route, place, work, reg, dispatchVars, bar, totalRecv, stdVars, inp,
                 combInp, combWts, out, outWts>>

\* Mutant: any flag will do.
SeenAny(r, b, p) == xdbMem[r][p] > 0

\* Each lane waits for the very flag of this call.
Seen(r, b, p) == xdbMem[r][p] = reg[r][b].flag

Await(r, b, p) ==
  /\ pc[r][b] = "await" /\ p \in todo[r][b] /\ Seen(r, b, p)
  /\ todo' = [todo EXCEPT ![r][b] = @ \ {p}]
  /\ IF todo'[r][b] = {}
     THEN /\ totalRecv' = [totalRecv EXCEPT ![r] = 0]
          /\ work' = [work EXCEPT ![r][b] = b] /\ Goto(r, b, "sum")
     ELSE UNCHANGED <<totalRecv, work, pc>>
  /\ UNCHANGED <<mode, route, place, reg, dispatchVars, bar, stdVars, combineVars>>

\* Stage 3 reads one row for every k-slot that was sent, from the own buffer
\* or, under zero_copy, from the buffer of the rank that holds it, and adds
\* the rows up. The weights of a slot not sent count unless TopK <= World.
Sum(r, b) ==
  LET t == work[r][b] + 1
      m(k) == tokMap[r][work[r][b] * TopK + k]
      sent(k) == m(k) # Dropped
      from(k) == IF sent(k) THEN m(k).pe ELSE r
      row(k) == IF mode = "zero" THEN m(k).id ELSE Row(from(k), t)
      held(k) == IF mode = "zero" THEN from(k) ELSE r
  IN  /\ pc[r][b] = "sum" /\ t <= Len(Tokens(r))
      /\ out' = [out EXCEPT ![r][t] = [k \in KSlot |->
                   IF sent(k) THEN combInp[held(k)][row(k)] ELSE {}]]
      /\ outWts' = [outWts EXCEPT ![r][t] = [k \in KSlot |->
                   IF sent(k) \/ World >= TopK THEN combWts[held(k)][row(k)]
                   ELSE <<0, Nothing>>]]
      /\ Advance(r, b)
      /\ UNCHANGED <<mode, route, place, pc, reg, todo, dispatchVars, bar, totalRecv, stdVars,
                     inp, combInp, combWts, xdbFlag, xdbMem>>

EndCombine(r, b) ==
  /\ pc[r][b] = "sum" /\ work[r][b] >= Len(Tokens(r))
  /\ Goto(r, b, "ended")
  /\ UNCHANGED <<mode, route, place, work, reg, todo, dispatchVars, bar, totalRecv, stdVars, combineVars>>

-----------------------------------------------------------------------------
DispatchStep(r) ==
  \/ \E b \in Blocks(r) : Claim(r, b) \/ Publish(r, b) \/ ArriveDispatch(r, b)
  \/ Collect(r) \/ (\E p \in Rank : Signal(r, p)) \/ Receive(r) \/ Rewind(r)
  \/ \E b \in Blocks(r) : Ticket(r, b) \/ PassGrid(r, b) \/ Pack(r, b) \/ EndDispatch(r, b)

CombineStep(r) ==
  \/ \E b \in Blocks(r) : Load(r, b) \/ Scatter(r, b) \/ ArriveCombine(r, b)
  \/ Meet(r) \/ \E p \in Rank : Post(r, p)
  \/ \E b \in Blocks(r) : (\E p \in Rank : Await(r, b, p)) \/ Sum(r, b) \/ EndCombine(r, b)

AllReturned == \A r \in Rank : place[r] = Len(Program) /\ Ended(r)

Next == \E r \in Rank : Start(r) \/ DispatchStep(r) \/ CombineStep(r)

\* The blocks of a kernel are resident together (_check_block_num_resident),
\* so each runs on; streams make progress.
Fairness ==
  \A r \in Rank : WF_vars(Start(r)) /\ WF_vars(DispatchStep(r)) /\ WF_vars(CombineStep(r))

Spec == Init /\ [][Next]_vars /\ Fairness

-----------------------------------------------------------------------------
(* Properties.                                                             *)

\* The tokens of round n with an expert of rank p.
Routed(n, p) ==
  {x \in [round : {n}, src : Rank, tok : 1..MaxTok] :
     /\ x.tok <= Len(route[n][x.src])
     /\ \E k \in KSlot : Owner(Experts(x)[k]) = p}

Least(a, b) == IF a < b THEN a ELSE b

\* When a rank's dispatch kernel has ended, its first total_recv rows hold
\* tokens of this round that are routed to it, no token twice, all of them
\* unless max_recv is less, and the sender of each knows its row: nothing of
\* an earlier round is left and no count was missed or taken twice, in
\* whatever order the ranks and the blocks run (phases 1 to 3 of dispatch).
Delivered ==
  \A r \in Rank : Runs(r, "dispatch") /\ Ended(r) =>
    LET n == RoundOf(place[r])
        rows == 0..(totalRecv[r] - 1)
    IN  /\ totalRecv[r] = Least(MaxRecv, Cardinality(Routed(n, r)))
        /\ {recvTok[r][i] : i \in rows} \subseteq Routed(n, r)
        /\ Cardinality({recvTok[r][i] : i \in rows}) = totalRecv[r]
        /\ \A i \in rows : \E k \in KSlot :
             tokMap[recvTok[r][i].src][(recvTok[r][i].tok - 1) * TopK + k] = [pe |-> r, id |-> i]

\* When a rank's combine kernel has ended, each of its tokens is the sum over
\* the experts whose ranks took it in, each of them once, of what these made
\* of the token of this round: no row of a peer was read before it was
\* written or after it was written for the next round (the cross-device
\* barrier, and the reuse of the buffers from round to round).
Combined ==
  \A r \in Rank : Runs(r, "combine") /\ Ended(r) =>
    \A t \in 1..Len(Tokens(r)) :
      LET x == [round |-> RoundOf(place[r]), src |-> r, tok |-> t]
          took == {tokMap[r][(t - 1) * TopK + k].pe : k \in KSlot}
      IN  /\ UNION {out[r][t][k] : k \in KSlot} =
               {[token |-> x, expert |-> Experts(x)[k]] :
                  k \in {k \in KSlot : Owner(Experts(x)[k]) \in took}}
          /\ \A j, k \in KSlot : j # k => out[r][t][j] \intersect out[r][t][k] = {}

\* When a rank's dispatch of the std variant has ended, every received token
\* is packed once for each of its experts there, and combine finds it by its
\* row and k-slot (phase 4, behind the grid barrier).
Packed ==
  \A r \in Rank : mode = "std" /\ Runs(r, "dispatch") /\ Ended(r) =>
    /\ \A e \in Expert : Len(packed[r][e]) =
         Cardinality({i \in 0..(totalRecv[r] - 1) : \E k \in KSlot : Owner(e) = r /\ Experts(recvTok[r][i])[k] = e})
    /\ \A i \in 0..(totalRecv[r] - 1) : \A k \in KSlot :
         LET e == Experts(recvTok[r][i])[k]
             s == slotMap[r][i * TopK + k]
         IN  IF Owner(e) # r THEN s = <<>> ELSE s[1] = e /\ packed[r][e][s[2]] = recvTok[r][i]

\* Each weight of a token counts once for every rank that took the token in,
\* as the rows do (stage 3b).
WeightsCounted ==
  \A r \in Rank : Runs(r, "combine") /\ Ended(r) =>
    \A t \in 1..Len(Tokens(r)) : \A k \in KSlot :
      LET m == tokMap[r][(t - 1) * TopK + k]
      IN  outWts[r][t][k] =
            IF m = Dropped THEN <<0, Nothing>>
            ELSE <<m.pe, [round |-> RoundOf(place[r]), src |-> r, tok |-> t]>>

\* Every kernel of every stream ends: no rank waits for a count or a flag
\* that was overwritten or was never sent.
AllReturn == <>[]AllReturned
==============================================================================
