---------------------------- MODULE MCThinClient ----------------------------
(* Instances of ThinClient for TLC. *)
EXTENDS ThinClient, TLC

CONSTANTS d1, d2

S(mode, which, explicit) == [mode |-> mode, name |-> which, explicit |-> explicit]
MCSetting == {S("run", "default", FALSE), S("restart", "default", FALSE),
              S("stop", "default", FALSE), S("run", "default", TRUE),
              S("run", "host", TRUE), S("restart", "host", TRUE)}
Symmetry == Permutations(Manual)
OneSetting == {S("run", "default", FALSE)}
=============================================================================
