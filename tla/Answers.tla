------------------------------ MODULE Answers ------------------------------
(***************************************************************************)
(* What the verbs on the citation and the import graph print: `deps' and   *)
(* `uses', `refs', `callees', `callers' with its closure and its table.    *)
(* Each resolves the names of the graph to declarations in its own way.    *)
(***************************************************************************)
EXTENDS Citations, FiniteSetsExt

Graph(secs) == CallGraph(secs, FALSE, TRUE)
CalleesOf(graph, name) == {e.callee : e \in {g \in graph : g.caller = name}}
CitersOf(graph, name) == {e.caller : e \in {g \in graph : g.callee = name}}

TheoryOf(secs, d) == secs[d.sec].name
Named(decls, name) == {d \in decls : d.name = name}

\* _entry_by_name: the declaration that comes first in load order.
FirstOf(decls) ==
    CHOOSE d \in decls : \A e \in decls : d.sec < e.sec \/ (d.sec = e.sec /\ d.line <= e.line)

\* _resolve_binding: a name that an entry binds stands for the entry.
ResolveBinding(secs, name) ==
    LET binders == {d \in Declarations(secs, TRUE) :
                       d.name = name /\ name \in secs[d.sec].lines[d.line].binds}
    IN  IF binders = {} THEN {}
        ELSE LET d == FirstOf(binders) IN {secs[d.sec].lines[d.line].name}

Subject(secs, name) == IF name \in AllNames(secs) THEN {name} ELSE ResolveBinding(secs, name)

-----------------------------------------------------------------------------
(***************************************************************************)
(* cmd_deps without -r, and the same edges for the whole project.          *)
(***************************************************************************)
Resolved(secs, i) == UNION {ResolveImport(t, Names(secs)) : t \in Header(secs[i])}

DirectDeps(secs, i) == Resolved(secs, i) \ {secs[i].name}
DirectUses(secs, i) == {secs[j].name : j \in {k \in DOMAIN secs : secs[i].name \in Resolved(secs, k)}}

\* _import_graph_data: an import no section answers to is an external node.
ImportGraph(secs) ==
    UNION {UNION {LET found == ResolveImport(t, Names(secs)) IN
                  {[from |-> secs[i].name, to |-> n, external |-> found = {}] :
                      n \in IF found = {} THEN {t.path} ELSE found} :
                  t \in Header(secs[i])} : i \in DOMAIN secs}

\* _citation_graph_data: what a theory cites at top level has no node.
CitationGraph(secs, graph) == {e \in graph : e.caller \in AllNames(secs)}

-----------------------------------------------------------------------------
(***************************************************************************)
(* cmd_refs: the names the entries of a theory cite, under the theory each *)
(* is owed to, and how that compares with the imports.                     *)
(***************************************************************************)
\* A declaration of its own, else the nearest import that has one.
OwnerOf(secs, i, name) ==
    LET own == secs[i].name
        closure == ImportDepths(secs, own)
        mine == Named(Declarations(secs, FALSE), name)
        within == {TheoryOf(secs, d) : d \in mine} \cap DOMAIN closure
        nearest == {t \in within : \A u \in within : closure[t] <= closure[u]}
    IN  IF \E d \in mine : TheoryOf(secs, d) = own THEN own
        ELSE IF within # {} THEN CHOOSE t \in nearest : TRUE
        ELSE TheoryOf(secs, FirstOf(mine))

\* How many entries of the theory cite each name.
Tally(secs, graph, i) ==
    LET Cited(d) == CalleesOf(graph, secs[i].lines[d].name)
    IN  [n \in UNION {Cited(d) : d \in DeclLines(secs[i])} |->
            Cardinality({d \in DeclLines(secs[i]) : n \in Cited(d)})]

\* The table: every cited name under its owner, against the import clause.
OwnedBy(secs, i, owner, external) ==
    LET own == secs[i].name
        listed == {n \in DOMAIN owner : ~(external /\ owner[n] = own)}
        owners == {owner[n] : n \in listed}
        closure == ImportDepths(secs, own)
        direct == {t \in DOMAIN closure : closure[t] = 0}
        Told(theories) == IF listed = {} THEN {} ELSE theories
    IN  [groups |-> [t \in owners |-> {n \in listed : owner[n] = t}],
         unreached |-> Told(direct \ owners),
         indirect |-> Told(owners \ (direct \cup {own}))]

Refs(secs, graph, i, external) ==
    OwnedBy(secs, i, [n \in DOMAIN Tally(secs, graph, i) |-> OwnerOf(secs, i, n)], external)

-----------------------------------------------------------------------------
(***************************************************************************)
(* cmd_callees and cmd_callers -r: the closure, and where its members are. *)
(***************************************************************************)
CalleeClosure(secs, graph, name) ==
    Without(BfsDepths([n \in AllNames(secs) |-> CalleesOf(graph, n)], {name}, 0), name)

CallerClosure(secs, graph, name) ==
    LET nodes == AllNames(secs) \cup {TopLevel(i) : i \in DOMAIN secs}
    IN  BfsDepths([n \in nodes |-> CitersOf(graph, n)], {name}, 0)

\* callees -e: a callee is local when a declaration it resolves to is.
ExternalCallees(secs, graph, name) ==
    LET own == TheoryOf(secs, FirstOf(Named(Declarations(secs, FALSE), name))) IN
    {u \in CalleesOf(graph, name) :
        \A d \in DOMAIN SeenFrom(secs, name, u) : TheoryOf(secs, d) # own}

\* CallGraph.toplevel: the first line of a theory's top level that cites each name.
FirstCitations(secs, i) ==
    LET names == AllNames(secs)
        decls == Declarations(secs, FALSE)
        Edges(l) == LineEdges(secs, i, l, names, decls, FALSE, TRUE)
        cited == [l \in Lines(secs[i]) |-> {e.callee : e \in {g \in Edges(l) : g.caller = TopLevel(i)}}]
    IN  [n \in UNION Range(cited) |-> Min({l \in Lines(secs[i]) : n \in cited[l]})]

\* _toplevel_site: the first citation of a name one step nearer to the subject,
\* which is what puts a top level in the closure.
ToplevelSite(first, depths, depth) ==
    Min({first[n] : n \in {m \in DOMAIN first \cap DOMAIN depths : depths[m] = depth - 1}})

\* _callers_tsv -r: a row for each declaration that can be meant, or the site.
RowsOf(secs, name, depths) ==
    LET Row(who, i, l) == [who |-> who, depth |-> depths[who], sec |-> i, line |-> l]
        tops == {i \in DOMAIN secs : TopLevel(i) \in DOMAIN depths}
    IN  {Row(TopLevel(i), i, ToplevelSite(FirstCitations(secs, i), depths, depths[TopLevel(i)])) : i \in tops}
        \cup UNION {{Row(n, d.sec, d.line) : d \in Seeing(secs, name, n)} :
                    n \in (DOMAIN depths \cap AllNames(secs)) \ {name}}

CallersTsv(secs, graph, name) == RowsOf(secs, name, CallerClosure(secs, graph, name))

\* cmd_callers: the sites of a name declared more than once, by what each can mean.
CallerGroups(secs, name, external) ==
    LET decls == Named(Declarations(secs, TRUE), name)
        hits == FindCallers(secs, name, external)
        Means(h) == IF Cardinality(decls) < 2 THEN decls
                    ELSE DOMAIN Visible(secs, decls, {secs[h.sec].name})
    IN  [g \in {Means(h) : h \in hits} |-> {h \in hits : Means(h) = g}]

-----------------------------------------------------------------------------
(***************************************************************************)
(* cmd_show: the declarations of a name, else those of the entries that    *)
(* bind it, each with the lines the file of its theory's name has there.   *)
(***************************************************************************)
Shown(secs, name) ==
    LET declared == Named(Declarations(secs, FALSE), name) IN
    IF declared # {} THEN declared ELSE Named(Declarations(secs, TRUE), name)

\* The section and the lines that are printed for a declaration.
TextOf(secs, d) ==
    LET i == LastOf(secs, TheoryOf(secs, d)) IN
    [sec |-> i, lines |-> {l \in Lines(secs[i]) : d.line <= l /\ l <= Stop(secs[d.sec], d.line)}]
-----------------------------------------------------------------------------
(***************************************************************************)
(* cmd_unused: what speaks for an uncited entry, and the rows of an answer.*)
(***************************************************************************)
\* doc_mentions: name -> the theories that show it in an antiquotation.
DocMentions(secs) ==
    [n \in AllNames(secs) |-> {secs[i].name : i \in {j \in DOMAIN secs : \E l \in Lines(secs[j]) :
                                  [name |-> n, how |-> "doc"] \in secs[j].lines[l].cites}}]

\* _evidence: a declaration says so itself, or a theory that sees the name
\* shows it.
Evidence(secs) ==
    {n \in AllNames(secs) :
        \/ \E d \in Named(Declarations(secs, FALSE), n) : secs[d.sec].lines[d.line].stays
        \/ \E t \in DocMentions(secs)[n] : Sees(secs, Declarations(secs, FALSE), t, n)}

\* read_keep_file: a line [thy, at, name] keeps a name its theory declares; `at'
\* is the section at thy, taken for a path that starts where the keep file is.
KeptBy(secs, line) ==
    \E i \in IF line.at # {} THEN line.at ELSE ResolveTheory(secs, line.thy) :
        \E d \in DeclLines(secs[i]) : secs[i].lines[d].name = line.name
ReadKeepFile(secs, file) == {line.name : line \in {k \in Range(file) : KeptBy(secs, k)}}

\* _render_unused: a row for every declaration of a listed name.
UnusedRows(secs, depths) ==
    {[sec |-> d.sec, line |-> d.line, depth |-> depths[d.name]] :
        d \in {e \in Declarations(secs, FALSE) : e.name \in DOMAIN depths}}
ByTheory(secs, rows) ==
    [t \in {secs[r.sec].name : r \in rows} |-> Cardinality({r \in rows : secs[r.sec].name = t})]

=============================================================================
