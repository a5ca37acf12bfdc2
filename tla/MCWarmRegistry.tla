--------------------------- MODULE MCWarmRegistry ---------------------------
(* Instances of WarmRegistry for TLC: stamps are numbers, so that   *)
(* CHOOSE always takes the smallest free one and the state space is finite. *)
EXTENDS WarmRegistry, TLC

MCStamp == 1..3
FewStamps == 1..2
Symmetry == Permutations(Root) \cup Permutations(Client)
=============================================================================
