------------------------------- MODULE Reach -------------------------------
(***************************************************************************)
(* Theory names, imports and visibility: which theory an `imports' token   *)
(* denotes, which declarations a site can name, and the labels theories    *)
(* are printed with and found again by.  Pure functions of the loaded      *)
(* sections; nothing here is remembered between queries.                   *)
(*                                                                         *)
(* A section is a record with                                              *)
(*   name      the theory name, a non-empty sequence of path segments      *)
(*   dir       the directory of its file, a sequence of segments           *)
(*   imports   a set of tokens [session, path]                             *)
(*   readable  whether the file is still there to read the header again    *)
(*   lines     the source, see Citations                                   *)
(***************************************************************************)
EXTENDS Integers, Sequences, FiniteSets, SequencesExt

CONSTANT Unknown    \* the closure of a theory with an unreadable header

LeafOf(name) == <<Last(name)>>

Names(secs) == {secs[i].name : i \in DOMAIN secs}

\* theory -> its last section in load order, and all of them.
LastOf(secs, name) ==
    CHOOSE i \in DOMAIN secs :
        secs[i].name = name /\ \A j \in DOMAIN secs : secs[j].name = name => j <= i
SectionsOf(secs, name) == {i \in DOMAIN secs : secs[i].name = name}

\* Theories spelled with a directory, for an import that is written bare.
LeafIndex(names, leaf) == {n \in names : n # LeafOf(n) /\ LeafOf(n) = leaf}

\* The spellings are tried in order; only the last can leave several.
ImportCandidates(token, names) ==
    LET leaf == LeafOf(token.path) IN
    IF token.path \in names THEN {token.path}
    ELSE IF leaf \in names THEN {leaf}
    ELSE LeafIndex(names, leaf)

\* The one theory `deps' prints: the first candidate in name order.
ResolveImport(token, names) ==
    LET found == ImportCandidates(token, names) IN
    IF found = {} THEN {} ELSE {CHOOSE n \in found : TRUE}

-----------------------------------------------------------------------------
(***************************************************************************)
(* The one breadth-first walk: rings of a frontier with a visited guard.   *)
(* The result is a function from what was reached to its depth.            *)
(***************************************************************************)
BfsDepths(neighbours, seeds, seedDepth) ==
    LET bound == Cardinality(DOMAIN neighbours) + 1
        Ring[k \in 0..bound] ==
            IF k = 0 THEN [seen |-> {}, frontier |-> seeds]
            ELSE LET last == Ring[k - 1]
                     fresh == last.frontier \ last.seen
                 IN  [seen |-> last.seen \cup fresh,
                      frontier |-> UNION {neighbours[x] : x \in fresh}]
    IN  [x \in Ring[bound].seen |->
            seedDepth + (CHOOSE k \in 0..bound :
                x \in Ring[k].frontier /\ \A j \in 0..(k - 1) : x \notin Ring[j].frontier)]

Without(depths, x) == [y \in DOMAIN depths \ {x} |-> depths[y]]

\* parse_thy_imports answers nothing for a file that is gone.
Header(sec) == IF sec.readable THEN sec.imports ELSE {}

\* deps -r: single-valued, over the last section of each name.
ImportDepths(secs, start) ==
    LET children == [n \in Names(secs) |->
            UNION {ResolveImport(t, Names(secs)) : t \in Header(secs[LastOf(secs, n)])}]
    IN  Without(BfsDepths(children, {start}, -1), start)

\* uses -r: the same edges of every section, inverted.
ImporterDepths(secs, start) ==
    LET importers == [n \in Names(secs) |-> {secs[i].name : i \in
            {j \in DOMAIN secs : \E t \in Header(secs[j]) :
                                    n \in ResolveImport(t, Names(secs))}}]
    IN  Without(BfsDepths(importers, {start}, -1), start)

-----------------------------------------------------------------------------
(***************************************************************************)
(* _Visibility.  It may only drop an attribution it is sure of, so names   *)
(* shared by several sections take the union of their imports, and one     *)
(* header that cannot be read makes the whole closure unknown.             *)
(***************************************************************************)
\* Mutant: one section's imports stand for all of its name.
ReadLastImports(secs, name) ==
    UNION {ImportCandidates(t, Names(secs)) : t \in Header(secs[LastOf(secs, name)])}

ReadImports(secs, name) ==
    LET mine == SectionsOf(secs, name) IN
    IF \E i \in mine : ~secs[i].readable THEN Unknown
    ELSE UNION {ImportCandidates(t, Names(secs)) : t \in UNION {secs[i].imports : i \in mine}}

Depths(secs, theory) ==
    LET children == [n \in Names(secs) |->
            IF ReadImports(secs, n) = Unknown THEN {} ELSE ReadImports(secs, n)]
        depths == BfsDepths(children, {theory}, 0)
    IN  IF \E n \in DOMAIN depths : ReadImports(secs, n) = Unknown THEN Unknown ELSE depths

\* decls: a set of [sec, name, private] as Citations collects them.
Sees(secs, decls, theory, name) ==
    LET mine == {d \in decls : d.name = name}
        public == {secs[d.sec].name : d \in {e \in mine : ~e.private}}
        reach == Depths(secs, theory)
    IN  \/ mine = {}
        \/ \E d \in mine : secs[d.sec].name = theory
        \/ public # {} /\ reach = Unknown
        \/ reach # Unknown /\ public \cap DOMAIN reach # {}

\* The declarations of one name that sites in `theories' can mean, with the
\* import depth that orders them; all that is left where the rule is unsure.
Visible(secs, decls, theories) ==
    LET open == {d \in decls : ~d.private \/ secs[d.sec].name \in theories}
        pool == IF open = {} THEN decls ELSE open
        All == [d \in pool |-> 0]
        Near(d) == {Depths(secs, t)[secs[d.sec].name] :
                      t \in {u \in theories : secs[d.sec].name \in DOMAIN Depths(secs, u)}}
        near == {d \in pool : Near(d) # {}}
    IN  IF \E t \in theories : Depths(secs, t) = Unknown THEN All
        ELSE IF near = {} THEN All
        ELSE [d \in near |-> CHOOSE k \in Near(d) : \A m \in Near(d) : k <= m]

-----------------------------------------------------------------------------
(***************************************************************************)
(* Labels: the shortest suffix of directory and name that the resolver     *)
(* takes back to this theory.                                              *)
(***************************************************************************)
Suffix(s, k) == IF k >= Len(s) THEN s ELSE SubSeq(s, Len(s) - k + 1, Len(s))

\* A name spelled with directories repeats the tail of the file's directory.
LabelChain(sec) ==
    LET k == Len(sec.name) - 1
        dirs == SubSeq(sec.name, 1, k)
        base == IF k > 0 /\ Suffix(sec.dir, k) = dirs /\ Len(sec.dir) >= k
                THEN SubSeq(sec.dir, 1, Len(sec.dir) - k) ELSE sec.dir
    IN  base \o sec.name

SafeLabel(secs, i, depth) ==
    LET label == Suffix(LabelChain(secs[i]), depth)
        named == SectionsOf(secs, label)
    IN  IF named # {} THEN named = {i}
        ELSE \A j \in DOMAIN secs : Suffix(LabelChain(secs[j]), depth) = label => j = i

TheoryLabel(secs, i) ==
    LET n == Len(LabelChain(secs[i]))
        depths == Len(secs[i].name)..n
        fit == {d \in depths : SafeLabel(secs, i, d) \/ d >= n}
    IN  Suffix(LabelChain(secs[i]), CHOOSE d \in fit : \A e \in fit : d <= e)

\* _resolve_theory for an argument without a file suffix: a name, a label,
\* the leaf of a path.  The result is the set of the one section found.
FirstNamed(secs, name) ==
    {i \in DOMAIN secs : secs[i].name = name /\ \A j \in 1..(i - 1) : secs[j].name # name}

ResolveTheory(secs, arg) ==
    LET hits == {i \in DOMAIN secs : Suffix(LabelChain(secs[i]), Len(arg)) = arg} IN
    IF FirstNamed(secs, arg) # {} THEN FirstNamed(secs, arg)
    ELSE IF Len(arg) > 1 /\ Cardinality(hits) = 1 THEN hits
    ELSE IF Len(arg) > 1 THEN FirstNamed(secs, LeafOf(arg))
    ELSE {}
=============================================================================
