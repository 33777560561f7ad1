----------------------------- MODULE Collective -----------------------------
(***************************************************************************)
(* What an all-reduce promises: every rank makes the same calls in the     *)
(* same order, a call returns on a rank after every rank has entered it,   *)
(* and returns the sum of what the ranks passed to it.                     *)
(***************************************************************************)
EXTENDS Naturals, Sequences

CONSTANTS World, Programs

Rank == 0..(World - 1)

VARIABLES program, entered, returned, result
vars == <<program, entered, returned, result>>

Init ==
  /\ program \in Programs
  /\ entered = [r \in Rank |-> 0] /\ returned = [r \in Rank |-> 0]
  /\ result = [r \in Rank |-> <<>>]

\* The result buffer belongs to the call until it returns.
Enter(r) ==
  /\ entered[r] = returned[r] /\ entered[r] < Len(program)
  /\ entered' = [entered EXCEPT ![r] = @ + 1]
  /\ result' = [result EXCEPT ![r] = <<>>]
  /\ UNCHANGED <<program, returned>>

Sum(c) == [i \in 1..program[c] |-> {<<q, i - 1, c>> : q \in Rank}]

Return(r) ==
  LET c == entered[r] IN
  /\ returned[r] < c /\ \A q \in Rank : entered[q] >= c
  /\ returned' = [returned EXCEPT ![r] = c]
  /\ result' = [result EXCEPT ![r] = Sum(c)]
  /\ UNCHANGED <<program, entered>>

Next == \E r \in Rank : Enter(r) \/ Return(r)

Spec == Init /\ [][Next]_vars
=============================================================================
