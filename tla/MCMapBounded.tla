---------------------------- MODULE MCMapBounded ----------------------------
(* Three workers on four slots, so that there is always one to spare.       *)
EXTENDS MapBounded

CONSTANTS w1, w2, w3
=============================================================================
