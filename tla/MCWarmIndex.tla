----------------------------- MODULE MCWarmIndex ----------------------------
(* Instances of WarmIndex for TLC. *)
EXTENDS WarmIndex

CONSTANTS a, b, x

MCOrder == <<a, b>>
SharedOrder == <<a, x>>
=============================================================================
