------------------------- MODULE MCWarmRegistryLru --------------------------
(* Three roots and one connection: what is evicted, and in which order.     *)
EXTENDS WarmRegistryLru, TLC

MCStamp == 1..2
Symmetry == Permutations(Root)
=============================================================================
