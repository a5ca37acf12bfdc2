---------------------------- MODULE MCNamespace ----------------------------
(* A project of a session and the session it is built on. *)
EXTENDS Namespace, TLC

CONSTANTS base, top, p1, p2

MCParent == (base :> None) @@ (top :> base)
MCProject == <<top, base>>
Symmetry == Permutations(Query)
=============================================================================
