------------------------------ MODULE MCCensus ------------------------------
(* Two sessions that share a theory; a command that one of them declares;  *)
(* two theories of one name with a lemma of one name.                      *)
EXTENDS Census

MCSessions == <<<<"g", "f">>, <<"g", "h">>>>
MCProofs == [f |-> <<[lemma |-> "a", command |-> "lemma"], [lemma |-> "b", command |-> "goal"]>>,
             g |-> <<[lemma |-> "c", command |-> "lemma"]>>,
             h |-> <<[lemma |-> "b", command |-> "lemma"],
                     [lemma |-> "e", command |-> "goal"]>>]
MCName == [f |-> "T", g |-> "G", h |-> "T"]
MCKeywords == [f |-> {"goal"}, g |-> {}, h |-> {}]
=============================================================================
