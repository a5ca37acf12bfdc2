---------------------------- MODULE MCQueryHost -----------------------------
(* Two connections: one to ask for the shutdown while another one is busy.  *)
EXTENDS QueryHost

CONSTANTS c1, c2
=============================================================================
