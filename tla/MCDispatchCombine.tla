--------------------------- MODULE MCDispatchCombine ---------------------------
(***************************************************************************)
(* Two ranks of two experts, two k-slots a token and two rounds. A rank    *)
(* has two tokens or one, or none in one of the rounds; tokens go to both  *)
(* ranks, twice to one, or stay. In the first round of the first route one *)
(* rank gets as many tokens as it has rows and the other gets more.        *)
(***************************************************************************)
EXTENDS DispatchCombine, TLC

Exp(a, b) == [k \in {0, 1} |-> IF k = 0 THEN a ELSE b]

Split == Exp(2, 0)   \* to both ranks
Twice == Exp(3, 2)   \* both experts on rank 1
Zero  == Exp(0, 1)   \* both on rank 0

MCRoutes ==
  {<<(0 :> <<Split, Twice>>) @@ (1 :> <<Split>>), (0 :> <<Twice>>) @@ (1 :> <<Zero>>)>>,
   <<(0 :> <<Split>>) @@ (1 :> <<Twice, Zero>>), (0 :> <<>>) @@ (1 :> <<Split>>)>>}

\* A world of one rank, where every token stays.
OneRank == {<<(0 :> <<Zero>>), (0 :> <<Zero>>)>>}

TwoRounds   == <<"dispatch", "combine", "dispatch", "combine">>
OneRound    == <<"dispatch", "combine">>
Twofold     == <<"dispatch", "combine", "combine">>
NoCombine   == <<"dispatch", "dispatch">>

SameGrid  == [i \in Place |-> 2]
OtherGrid == [i \in Place |-> IF i < 3 THEN 2 ELSE 3]
==============================================================================
