------------------------------ MODULE Cascade ------------------------------
(***************************************************************************)
(* `unused --locals -r': a premise that is read only to discharge unread   *)
(* premises of other lemmas, by its position in `[OF ...]', is unread too. *)
(*                                                                         *)
(* A project is a sequence of lemmas [name, target, labels, kept, ordered, *)
(* proof]: the labels of the premises in the order of the statement, those *)
(* with a declaring attribute, whether that order is the one of the rule   *)
(* (no `defines', no `obtains'), and the outer tokens of the proof.        *)
(***************************************************************************)
EXTENDS Integers, Sequences, FiniteSets, SequencesExt

CONSTANTS
    Provable(_),    \* bound: the lemmas that may follow those of a project
    Written(_),     \* what the author means by a proof: the facts it cites, each
                    \* [fact, args] with the facts OF supplies, "" for none
    Keeps           \* bound: the names --keep may give

VARIABLE lemmas     \* the lemmas of the project

Prove(lemma) == lemmas' = Append(lemmas, lemma)

Opening == {"[", "("}
Closing == {"]", ")"}
IsWord(tok) == tok \notin Opening \cup Closing \cup {","}

\* How many brackets are open behind each token, from place `start' on.
BracketDepth(toks, start) ==
    LET D[k \in (start - 1)..Len(toks)] ==
            IF k < start THEN 0
            ELSE IF toks[k] \in Opening THEN D[k - 1] + 1
            ELSE IF toks[k] \in Closing THEN D[k - 1] - 1 ELSE D[k - 1]
    IN  D

\* _of_args: the arguments of the first OF in the block that opens at `start':
\* [at, name, position].  An attribute of an argument is none itself; `_' and
\* a fact in parentheses are arguments without a name.
OfArgs(toks, start) ==
    LET depth == BracketDepth(toks, start)
        shut == {k \in start..Len(toks) : depth[k] = 0}
        end == IF shut = {} THEN Len(toks) + 1 ELSE Min(shut)
        cuts == {start} \cup {k \in start..(end - 1) : toks[k] = "," /\ depth[k] = 1}
        OfAt == {k \in cuts : k + 1 < end /\ toks[k + 1] = "OF"}
        Next(k) == Min({j \in cuts : j > k} \cup {end})
        from == Min(OfAt)
        found == {k \in (from + 2)..(Next(from) - 1) :
                     depth[k - 1] = 1 /\ (IsWord(toks[k]) \/ toks[k] = "(")}
    IN  IF OfAt = {} THEN {}
        ELSE {[at |-> k, position |-> Cardinality({j \in found : j <= k}),
               name |-> IF toks[k] \in {"(", "_"} THEN "" ELSE toks[k]] : k \in found}

-----------------------------------------------------------------------------
Labels(lemma) == Range(lemma.labels) \ {""}
Unfinished(lemma) == "sorry" \in Range(lemma.proof)

\* scan_proof without the tokens at `ignored': whether a label is still read.
ReadIn(lemma, label, ignored) ==
    \E k \in DOMAIN lemma.proof \ ignored : lemma.proof[k] \in {label, "assms"}

\* The premises a finished proof binds; <<i, label>> is one of the i-th lemma.
Bound(project) ==
    UNION {{<<i, l>> : l \in Labels(project[i])} : i \in {i \in DOMAIN project : ~Unfinished(project[i])}}

Spared(project, keep, p) == p[2] \in project[p[1]].kept \cup keep

\* unread_locals, over the lemmas that are selected.
UnreadPremises(project, selected, keep) ==
    {p \in Bound(project) : /\ p[1] \in selected
                            /\ ~ReadIn(project[p[1]], p[2], {}) /\ ~Spared(project, keep, p)}

\* _premise_positions
PositionsOf(lemma, label) ==
    IF lemma.ordered THEN {k \in DOMAIN lemma.labels : lemma.labels[k] = label} ELSE {}

\* _discharges: the tokens of the i-th proof that feed one of `targets' by its
\* position; the rule of a lemma with another target has more premises.
Fed(project, i, targets) ==
    LET toks == project[i].proof
        cites == {k \in DOMAIN toks : IsWord(toks[k]) /\ k < Len(toks) /\ toks[k + 1] = "["}
        Hits(p) == {a.at : a \in UNION {{a \in OfArgs(toks, k + 1) :
                        a.name # "" /\ a.position \in PositionsOf(project[p[1]], p[2])} :
                            k \in {k \in cites : toks[k] = project[p[1]].name}}}
    IN  UNION {Hits(p) : p \in {p \in targets : project[p[1]].target = project[i].target}}

\* One round of premise_cascade: what is unread without the tokens that feed
\* the premises found in the round before.
FreshPremises(project, targets, reported, keep) ==
    LET FreshIn(i) ==
            LET fed == Fed(project, i, targets)
                names == {project[i].proof[k] : k \in fed} \cap Labels(project[i])
            IN  {p \in {<<i, l>> : l \in names} : ~ReadIn(project[i], p[2], fed) /\ ~Spared(project, keep, p)}
        open == {i \in DOMAIN project : ~Unfinished(project[i])}
    IN  (UNION {FreshIn(i) : i \in open}) \ reported

\* premise_cascade: the premises found in each round, from the unread ones on.
Rounds(project, selected, keep) ==
    LET dead == UnreadPremises(project, selected, keep)
        After[n \in 0..Cardinality(Bound(project))] ==
            IF n = 0 THEN <<dead>>
            ELSE LET before == After[n - 1] IN
                 IF Last(before) = {} THEN before
                 ELSE Append(before, FreshPremises(project, Last(before), UNION Range(before), keep))
    IN  After[Cardinality(Bound(project))]

-----------------------------------------------------------------------------
(***************************************************************************)
(* What follows from what the author means.                                *)
(***************************************************************************)
\* p is read for premises in `gone' only, and those are of lemmas of its own
\* target.
ReadFor(project, p, gone) ==
    \A c \in Written(project[p[1]].proof) :
        /\ c.fact \notin {p[2], "assms"}
        /\ \A n \in DOMAIN c.args : c.args[n] = p[2] =>
              \E q \in gone : /\ project[q[1]].name = c.fact
                              /\ project[q[1]].target = project[p[1]].target
                              /\ n \in PositionsOf(project[q[1]], q[2])

\* What the row of a premise says is so: nothing reads it but the premises
\* that went a round before.  And none that is read for the premises of one round
\* only is left.
CascadeRight(project, rounds, keep) ==
    LET gone == UNION Range(rounds) IN
        /\ \A n \in 2..Len(rounds) : \A p \in rounds[n] : ReadFor(project, p, rounds[n - 1])
        /\ \A p \in Bound(project) \ gone :
              ReadIn(project[p[1]], p[2], {}) /\ ~Spared(project, keep, p) =>
                  \A n \in DOMAIN rounds : ~ReadFor(project, p, rounds[n])

PremisesExact ==
    \A n \in {1, Len(lemmas)} : \A keep \in Keeps :
        CascadeRight(lemmas, Rounds(lemmas, (1..n) \cap DOMAIN lemmas, keep), keep)

\* premise_cascade, "to a fixed point": none that is read for what is gone
\* only is left.
CascadeComplete(project, selected, keep) ==
    LET gone == UNION Range(Rounds(project, selected, keep)) IN
    \A p \in Bound(project) \ gone :
        ReadIn(project[p[1]], p[2], {}) /\ ~Spared(project, keep, p) => ~ReadFor(project, p, gone)

PremisesComplete == \A keep \in Keeps : CascadeComplete(lemmas, DOMAIN lemmas, keep)
=============================================================================
