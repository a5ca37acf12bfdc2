------------------------------- MODULE Usage -------------------------------
(***************************************************************************)
(* A corpus that is written line by line and may be asked about at any     *)
(* moment.  Each verb is a function of the loaded sections, so what the    *)
(* verbs promise one another is an invariant of the corpus; `unused' then  *)
(* runs its fixed points (module Unused) over the call graph of it.        *)
(***************************************************************************)
EXTENDS Answers, Unused, Cascade, CommandLine

CONSTANTS
    Corpora,        \* the empty corpora: sections with a header and no line
    Menu(_),        \* the lines the last section may get next
    MayOpen(_, _),  \* bound: which section a line goes to
    Queried(_),     \* bound: the corpora `unused' is run on
    MaxLive         \* bound: names kept or with evidence

\* A corpus is a list of sections as module Reach has them; what stands for no
\* answer is neither a closure nor its depths.
IsSequence(s) == s \in Seq(Range(s))
IsSection(sec) ==
    /\ {"name", "dir", "lines"} \subseteq DOMAIN sec
    /\ IsSequence(sec.name) /\ sec.name # <<>> /\ IsSequence(sec.dir) /\ IsSequence(sec.lines)
IsCorpus(secs) ==
    /\ IsSequence(secs) /\ \A i \in DOMAIN secs : IsSection(secs[i])
    /\ \A S \in SUBSET Names(secs) : Unknown # S /\ Unknown \notin [S -> Nat]

ASSUME CorporaAssumption == \A secs \in Corpora : IsCorpus(secs)

VARIABLE sections

usageVars == <<sections, lemmas, words, unusedVars>>

UsageInit ==
    /\ sections \in Corpora
    /\ lemmas = <<>>
    /\ words = <<>>
    /\ UnusedInit

\* Bound: sections of lines, lemmas with their proofs, or a command line.
Write(i, line) ==
    /\ phase = "idle" /\ lemmas = <<>> /\ words = <<>>
    /\ MayOpen(sections, i)
    /\ sections' = [sections EXCEPT ![i].lines = Append(@, line)]
    /\ UNCHANGED <<lemmas, words, unusedVars>>

Bare == Len(sections) = 1 /\ sections[1].lines = <<>>

State(lemma) ==
    /\ phase = "idle" /\ Bare /\ words = <<>>
    /\ Prove(lemma)
    /\ UNCHANGED <<sections, words, unusedVars>>

Say(word) ==
    /\ phase = "idle" /\ Bare /\ lemmas = <<>>
    /\ Type(word)
    /\ UNCHANGED <<sections, lemmas, unusedVars>>

CallersOf(secs, derived) ==
    LET graph == CallGraph(secs, derived, TRUE) IN
    [n \in AllNames(secs) |-> {e.caller : e \in {g \in graph : g.callee = n}}]

(***************************************************************************)
(* cmd_unused: kept names and evidence are live; marks are the evidence    *)
(* when it is to be listed again, and then --roots forgets it.  Any names  *)
(* may be evidence, with other keywords on the same lines.                 *)
(***************************************************************************)
CmdUnused(show, verb) ==
    LET callers == CallersOf(sections, TRUE) IN
    /\ phase = "idle"
    /\ Queried(sections)
    /\ \E keep \in SUBSET AllNames(sections) :
       \E evidence \in SUBSET (AllNames(sections) \ keep) :
        /\ Cardinality(keep \cup evidence) <= MaxLive
        /\ Ask(callers, IF verb = "roots" /\ show THEN keep ELSE keep \cup evidence,
                IF show THEN evidence ELSE {}, verb)
    /\ UNCHANGED <<sections, lemmas, words>>

UsageNext ==
    \/ \E i \in DOMAIN sections : \E line \in Menu(sections) : Write(i, line)
    \/ \E show \in BOOLEAN : \E verb \in {"direct", "recursive", "roots"} : CmdUnused(show, verb)
    \/ \E lemma \in Provable(lemmas) : State(lemma)
    \/ \E word \in Typable(words) : Say(word)
    \/ Sweep /\ UNCHANGED <<sections, lemmas, words>>

UsageSpec == UsageInit /\ [][UsageNext]_usageVars

-----------------------------------------------------------------------------
(***************************************************************************)
(* References: visibility between files, not between theory names.         *)
(***************************************************************************)
Imports(i) == {j \in DOMAIN sections :
    \E t \in sections[i].imports : sections[j].name \in ImportCandidates(t, Names(sections))}

FilesUpFrom(i) ==
    LET Up[k \in 0..Len(sections)] ==
            IF k = 0 THEN {i} ELSE Up[k - 1] \cup UNION {Imports(j) : j \in Up[k - 1]}
    IN  Up[Len(sections)]

Declares(j, n) == \E d \in DeclLines(sections[j]) : sections[j].lines[d].name = n
Exports(j, n) == \E d \in DeclLines(sections[j]) :
    sections[j].lines[d].name = n /\ ~sections[j].lines[d].private

\* A live line that can only be a use of n: a fact position, no line of n.
PlainUse(i, l, n) ==
    /\ ~Noise(sections[i], l)
    /\ [name |-> n, how |-> "fact"] \in sections[i].lines[l].cites
    /\ ~DefSite(sections[i], l, n, FALSE)

\* Every file has a theory name of its own, and can be read.
OwnNames == \A i, j \in DOMAIN sections : sections[i].name = sections[j].name => i = j
Separate == OwnNames /\ \A i \in DOMAIN sections : sections[i].readable

\* The promise _Visibility makes: a citation is dropped only when no file the
\* citing file imports, however many files share a theory name and whichever
\* headers cannot be read, declares the name for export.
NoUseDropped ==
    phase = "idle" =>
        LET graph == CallGraph(sections, FALSE, TRUE) IN
        \A i \in DOMAIN sections : \A l \in Lines(sections[i]) :
        \A n \in AllNames(sections) :
            /\ PlainUse(i, l, n)
            /\ Declares(i, n) \/ \E j \in FilesUpFrom(i) : Exports(j, n)
            => \A c \in CallerOf(sections, i, l) : [caller |-> c, callee |-> n] \in graph

\* And it keeps none it can be sure about: where theories have names of their
\* own and can be read, an edge needs a use of the callee in a file of the
\* caller that imports a declaration of it.
NoPhantomUse ==
    (phase = "idle" /\ Separate) =>
        \A e \in CallGraph(sections, FALSE, TRUE) :
            \E i \in DOMAIN sections : \E l \in Lines(sections[i]) :
                /\ ~Noise(sections[i], l)
                /\ \E m \in sections[i].lines[l].cites :
                    m.name = e.callee /\ (m.how = "method" => m.name \notin NonCitation)
                /\ e.caller \in CallerOf(sections, i, l)
                /\ Declares(i, e.callee) \/ \E j \in FilesUpFrom(i) : Exports(j, e.callee)

\* "Scoped like a citation": a document speaks for an entry that it shows and
\* whose declaration it can mean, and where that is sure for no other.
EvidenceSeen ==
    phase = "idle" =>
        LET Shows(i, n) == \E l \in Lines(sections[i]) : [name |-> n, how |-> "doc"] \in sections[i].lines[l].cites
            Sure(n) == \E i \in DOMAIN sections :
                Shows(i, n) /\ (Declares(i, n) \/ \E j \in FilesUpFrom(i) : Exports(j, n))
            Stated(n) == \E d \in Named(Declarations(sections, FALSE), n) : sections[d.sec].lines[d.line].stays
            evidence == Evidence(sections)
        IN  \A n \in AllNames(sections) :
                /\ Sure(n) => n \in evidence
                /\ Separate => (n \in evidence <=> Stated(n) \/ Sure(n))

\* So the graph all verbs work on is that of the visible uses, and what keeps
\* an entry beside them is visible where it stands.
UsesExact == NoUseDropped /\ NoPhantomUse /\ EvidenceSeen

\* _find_callers: "so `callers' and `unused' agree on what a use is": the
\* entries that own the hits of `callers n' are the callers of n in the graph.
CallersAgree ==
    phase = "idle" =>
        LET graph == CallGraph(sections, FALSE, TRUE)
            bound == {d.name : d \in Declarations(sections, TRUE)
                                     \ Declarations(sections, FALSE)}
        IN  \A n \in AllNames(sections) \ bound :
                UNION {CallerOf(sections, h.sec, h.line) : h \in FindCallers(sections, n, FALSE)}
                    = {e.caller : e \in {g \in graph : g.callee = n}}

\* The same sentence taken at its word: no line `callers' lists for a name
\* `unused' reports as having none.
UnusedHasNoCallers ==
    phase = "idle" =>
        \A n \in Uncited(CallersOf(sections, FALSE), {}) : FindCallers(sections, n, FALSE) = {}

\* No file is loaded twice: no path from the root ends another.
Placed == \A i, j \in DOMAIN sections :
    Suffix(LabelChain(sections[j]), Len(LabelChain(sections[i]))) = LabelChain(sections[i]) => i = j

\* The label a theory is printed with leads back to that theory and no other,
\* also where one label is a theory's name and another's directory suffix.
LabelsRoundTrip ==
    (phase = "idle" /\ Placed) =>
        \A i \in DOMAIN sections : ResolveTheory(sections, TheoryLabel(sections, i)) = {i}

\* deps -r and uses -r walk one relation from both ends: same pairs, same
\* distances, also round an import cycle.
DepsMirrorUses ==
    (phase = "idle" /\ OwnNames) =>
        \A i, j \in DOMAIN sections :
            LET a == sections[i].name  b == sections[j].name
                down == ImportDepths(sections, a)
                up == ImporterDepths(sections, b)
            IN  /\ b \in DOMAIN down <=> a \in DOMAIN up
                /\ b \in DOMAIN down => down[b] = up[a]

\* The label of a top level is no name, and not what an entry without one has.
NamesApart == \A i \in DOMAIN sections : TopLevel(i) \notin AllNames(sections) \cup {Anonymous}

\* The rows `callees c' and `callers -r n' print for an edge c cites n: those
\* of n are declarations c's theory sees, and of those the nearest; those of c
\* never lose the declaration that owns the citing line.
RowsAreRight ==
    (phase = "idle" /\ NamesApart) =>
        \A e \in {g \in CallGraph(sections, FALSE, TRUE) : g.caller \in AllNames(sections)} :
            LET rows == SeenFrom(sections, e.caller, e.callee)
                decls == Declarations(sections, FALSE)
                homes == {sections[d.sec].name : d \in {x \in decls : x.name = e.caller}}
            IN  /\ rows # <<>>
                /\ Cardinality(homes) = 1 /\ (\A i \in DOMAIN sections : sections[i].readable) =>
                    \A h \in homes : \A d \in DOMAIN rows :
                        /\ sections[d.sec].name \in DOMAIN Depths(sections, h)
                        /\ rows[d] = Depths(sections, h)[sections[d.sec].name]
                /\ \A i \in DOMAIN sections : \A l \in Lines(sections[i]) :
                    PlainUse(i, l, e.callee) /\ e.caller \in CallerOf(sections, i, l)
                      /\ Sees(sections, decls, sections[i].name, e.callee)
                    => \E d \in Seeing(sections, e.callee, e.caller) :
                            d.sec = i /\ d.line \in EntryAtLine(sections[i], l)

(***************************************************************************)
(* `refs' is read to find imports that are not used and uses that are not  *)
(* imported.  It tells of an import as unreached only if no entry of the   *)
(* theory uses a fact that this import brings and no nearer declaration    *)
(* hides, and of every import whose facts no entry of such a name uses.    *)
(* What is cited without an import is further up, unless the theory shares *)
(* the name of an entry with another, and with it the node in the graph.   *)
(* (Of the theories a bare import may denote `refs' takes one.)            *)
(***************************************************************************)
Unambiguous == \A i \in DOMAIN sections : \A t \in sections[i].imports :
    ResolveImport(t, Names(sections)) = ImportCandidates(t, Names(sections))

TableTold(i, refs, Hides(_, _)) ==
    LET Uses(n) == \E l \in Lines(sections[i]) :
            PlainUse(i, l, n) /\ CallerOf(sections, i, l) \cap AllNames(sections) # {}
        OwnLines(k) == {l \in Lines(sections[k]) :
            \E c \in CallerOf(sections, k, l) \cap AllNames(sections) : Declares(i, c)}
        Mentioned(k) == UNION {{m.name : m \in sections[k].lines[l].cites} : l \in OwnLines(k)}
    IN  /\ \A j \in Imports(i) \ {i} :
            IF sections[j].name \in refs.unreached
            THEN \A n \in AllNames(sections) : Uses(n) /\ Exports(j, n) =>
                     Declares(i, n) \/ \E k \in Imports(i) \ {j} : Hides(k, n)
            ELSE DOMAIN refs.groups # {} => \E k \in DOMAIN sections :
                     \E n \in Mentioned(k) \cap AllNames(sections) : Declares(j, n)
        /\ \A t \in refs.indirect :
            \/ \E k \in FilesUpFrom(i) \ Imports(i) : sections[k].name = t
            \/ \E n \in AllNames(sections) : Declares(i, n) /\ \E k \in DOMAIN sections \ {i} : Declares(k, n)

RefsTold(Hides(_, _)) ==
    (phase = "idle" /\ Separate /\ Unambiguous /\ NamesApart) =>
        LET graph == Graph(sections) IN
        \A i \in DOMAIN sections : TableTold(i, Refs(sections, graph, i, FALSE), Hides)

RefsExact == RefsTold(Declares)

\* ... but a declaration hides one the theory means although it is private
\* there: `refs' alone does not ask what the theory can name.
RefsSeePrivate == RefsTold(Exports)

(***************************************************************************)
(* What `callees -e c' leaves out `callers -e n' leaves out: both call a   *)
(* citation local by the file it is made in.                               *)
(***************************************************************************)
ExternalMirrors ==
    (phase = "idle" /\ NamesApart /\ OwnNames) =>
        LET graph == Graph(sections)
            entries == Declarations(sections, FALSE)
            bound == {d.name : d \in Declarations(sections, TRUE) \ entries}
            homes == [n \in AllNames(sections) |-> {d.sec : d \in Named(entries, n)}]
        IN  \A e \in CitationGraph(sections, graph) :
                Cardinality(homes[e.caller]) = 1 /\ e.callee \notin bound =>
                    (e.callee \in ExternalCallees(sections, graph, e.caller)
                     <=> \E h \in FindCallers(sections, e.callee, TRUE) :
                            e.caller \in CallerOf(sections, h.sec, h.line))

(***************************************************************************)
(* A site of a name declared more than once is listed under every          *)
(* declaration its own file or a file it imports offers, and, where        *)
(* theories have names of their own and can be read, under no other.       *)
(***************************************************************************)
GroupsExact ==
    phase = "idle" =>
        LET decls == Declarations(sections, TRUE) IN
        \A n \in {d.name : d \in decls} :
            LET groups == CallerGroups(sections, n, FALSE)
                Offered(i) == {d \in Named(decls, n) : d.sec = i \/ (~d.private /\ d.sec \in FilesUpFrom(i))}
            IN  \A g \in DOMAIN groups : \A h \in groups[g] :
                    /\ Offered(h.sec) \subseteq g
                    /\ Separate => Cardinality(Named(decls, n)) < 2 \/ g = Offered(h.sec)

(***************************************************************************)
(* The table of `callers -r' gives a top level the first of its lines that *)
(* cites a member one step nearer to the subject, and there is one; its    *)
(* other rows are what `callees -r' prints, read from the other end.       *)
(***************************************************************************)
RowsPointAtCause(n, rows, graph) ==
    LET Nearer(r) == IF r.depth = 1 THEN {n} ELSE {q.who : q \in {q \in rows : q.depth = r.depth - 1}}
        Caused(r) ==
            LET near == Nearer(r)
                meant == {m \in near \cap AllNames(sections) :
                              Sees(sections, Declarations(sections, FALSE), sections[r.sec].name, m)}
                Cites(l) == EntryAtLine(sections[r.sec], l) = {} /\ \E m \in meant : PlainUse(r.sec, l, m)
            IN  /\ EntryAtLine(sections[r.sec], r.line) = {}
                /\ \E m \in sections[r.sec].lines[r.line].cites : m.name \in near
                /\ \A l \in 1..(r.line - 1) : ~Cites(l)
        Mirrored(c, down) ==
            /\ n \in DOMAIN down <=> \E r \in rows : r.who = c
            /\ \A r \in {r \in rows : r.who = c} : r.depth = down[n]
    IN  /\ \A c \in AllNames(sections) \ {n} : Mirrored(c, CalleeClosure(sections, graph, c))
        /\ \A r \in {r \in rows : r.who = TopLevel(r.sec)} : Caused(r)

TsvPointsAtCause ==
    (phase = "idle" /\ NamesApart) =>
        LET graph == Graph(sections) IN
        \A asked \in {d.name : d \in Declarations(sections, TRUE)} :
        \A n \in Subject(sections, asked) \ {Anonymous} :
            RowsPointAtCause(n, CallersTsv(sections, graph, n), graph)

\* The first ring of deps -r is deps, of uses -r uses, and the edges between
\* theories of the import graph are both.
ImportVerbsAgree ==
    (phase = "idle" /\ Separate) =>
        \A i \in DOMAIN sections :
            LET name == sections[i].name
                Ring(depths) == {t \in DOMAIN depths : depths[t] = 0}
                edges == {e \in ImportGraph(sections) : ~e.external /\ e.from # e.to}
            IN  /\ DirectDeps(sections, i) = Ring(ImportDepths(sections, name))
                /\ DirectDeps(sections, i) = {e.to : e \in {e \in edges : e.from = name}}
                /\ DirectUses(sections, i) \ {name} = Ring(ImporterDepths(sections, name))

(***************************************************************************)
(* `show' of a name prints each entry that `callers -r' may speak of, from *)
(* the file it is in, and of the lines it prints `callers' lists none.     *)
(***************************************************************************)
ShownTold(Told) ==
    (phase = "idle" /\ Told) =>
        \A n \in {d.name : d \in Declarations(sections, TRUE)} \ {Anonymous} :
            LET shown == Shown(sections, n)
                Name(d) == sections[d.sec].lines[d.line].name
            IN  /\ Subject(sections, n) \ {Anonymous} \subseteq {Name(d) : d \in shown}
                /\ \A d \in shown :
                    LET text == TextOf(sections, d) IN
                    /\ text.sec = d.sec /\ d.line \in text.lines
                    /\ \A h \in FindCallers(sections, n, FALSE) : h.sec # text.sec \/ h.line \notin text.lines

ShownExact == ShownTold(Separate)

\* ... but of two files of one theory name the last one's lines are printed.
ShownFromOwnFile == ShownTold(TRUE)

(***************************************************************************)
(* A keep file keeps a name by the label its theory is printed with, or by *)
(* its path, if and only if that theory declares it; whatever else goes by *)
(* the name or the directory of the theory.                                *)
(***************************************************************************)
KeepsAsPrinted ==
    (phase = "idle" /\ Placed) =>
        \A i \in DOMAIN sections : \A n \in AllNames(sections) :
            \A at \in {{}, {i}} : LET line == [thy |-> TheoryLabel(sections, i), at |-> at, name |-> n] IN
                ReadKeepFile(sections, <<line>>) = {m \in {n} : Declares(i, m)}

\* ... but a row of `unused' names the theory without its directory.
RowsAreKept ==
    phase = "idle" =>
        \A i \in DOMAIN sections : \A d \in DeclLines(sections[i]) :
            LET n == sections[i].lines[d].name IN
            n # Anonymous => ReadKeepFile(sections, <<[thy |-> sections[i].name, at |-> {}, name |-> n]>>) = {n}

(***************************************************************************)
(* `unused' is read to delete what it lists.  Its rows are the entries of  *)
(* the names it found, and what is left of the theories without them uses  *)
(* none of the names, except in entries without a name of their own.       *)
(***************************************************************************)
Deletable(rows) ==
    LET Deleted(i, l) == \E d \in EntryAtLine(sections[i], l) : \E r \in rows : r.sec = i /\ r.line = d
        Nameless(i, l) == \E d \in EntryAtLine(sections[i], l) : sections[i].lines[d].name = Anonymous
        names == {sections[r.sec].lines[r.line].name : r \in rows}
    IN  \A i \in DOMAIN sections : \A l \in Lines(sections[i]) :
            \/ Deleted(i, l) \/ Nameless(i, l) \/ Noise(sections[i], l)
            \/ \A m \in sections[i].lines[l].cites : m.name \notin names \/ m.how \notin {"fact", "derived"}

RowsExact ==
    (phase = "done" /\ query.verb = "recursive") =>
        LET rows == UnusedRows(sections, marked @@ dead)
            counts == ByTheory(sections, rows)
        IN  /\ Deletable(rows)
            /\ \A n \in DOMAIN dead \cup DOMAIN marked :
                    \E r \in rows : sections[r.sec].lines[r.line].name = n
            /\ Cardinality(rows) = FoldSet(LAMBDA t, k : k + counts[t], 0, DOMAIN counts)

\* All verbs that resolve names or imports answer from one relation: `callers'
\* with its rows, groups and table and `unused', `deps', `uses' and `refs',
\* `callees -e', `show' and the keep file, and each is told a theory by the label
\* they all print.
VerbsExact ==
    /\ CallersAgree /\ RowsAreRight /\ GroupsExact /\ ExternalMirrors
    /\ DepsMirrorUses /\ ImportVerbsAgree /\ RefsExact /\ TsvPointsAtCause
    /\ LabelsRoundTrip /\ KeepsAsPrinted /\ ShownExact

\* What is printed beyond that - the rows of `unused' along its chains and its
\* cascade over premises - is what the files say, and the files are those the
\* command line means.
AnswersExact == RowsExact /\ WordsExact /\ ChainsExact /\ PremisesExact
=============================================================================
