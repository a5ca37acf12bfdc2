----------------------------- MODULE Citations -----------------------------
(***************************************************************************)
(* Who cites what: the single pass that builds the name-level call graph   *)
(* (`_build_call_graph'), the single-name search behind `callers'          *)
(* (`_find_callers'), and the views `refs', `callees', `unused' and        *)
(* `graph' take of them.                                                   *)
(*                                                                         *)
(* A source line is a record [kind, name, private, stays, binds, cites]:   *)
(*   decl   the first line of a declaration of `name' (Anonymous for a     *)
(*          statement without a name), binding the names in `binds' too    *)
(*   body   a later line of whatever stands above it                       *)
(*   outer  a command that ends the declaration above and declares nothing *)
(*   prose  a text block or a heading                                      *)
(* `stays': stated as a theorem, or with an attribute that declares it.    *)
(* `cites' is a set of mentions [name, how]: as a fact, as a method, by    *)
(* the derived spelling NAME_def, or in a document antiquotation ("doc").  *)
(***************************************************************************)
EXTENDS Reach

CONSTANTS
    NonCitation,    \* names that are also methods, attributes or keywords
    Anonymous       \* the name "?" of an entry without one

Lines(sec) == 1..Len(sec.lines)
IsDecl(line) == line.kind = "decl"

(***************************************************************************)
(* Entries and the lines that belong to them.  A declaration owns the text *)
(* block just above it and reaches to the next declaration, its text block *)
(* or the next outer command.                                              *)
(***************************************************************************)
SrcStart(sec, d) ==
    IF d > 1 /\ sec.lines[d - 1].kind = "prose" THEN d - 1 ELSE d

Stop(sec, d) ==
    LET ends == {SrcStart(sec, e) : e \in {l \in Lines(sec) : IsDecl(sec.lines[l])}}
                \cup {l \in Lines(sec) : sec.lines[l].kind = "outer"}
        later == {l \in ends : l > d}
    IN  IF later = {} THEN Len(sec.lines) ELSE (CHOOSE l \in later : \A m \in later : l <= m) - 1

DeclLines(sec) == {l \in Lines(sec) : IsDecl(sec.lines[l])}

\* The bisection: the last span that starts at or before the line, if it holds it.
EntryAtLine(sec, l) ==
    LET before == {d \in DeclLines(sec) : SrcStart(sec, d) <= l} IN
    IF before = {} THEN {}
    ELSE LET d == CHOOSE x \in before : \A y \in before : y <= x IN
         IF l <= Stop(sec, d) THEN {d} ELSE {}

Noise(sec, l) == sec.lines[l].kind = "prose"

\* Names are citation nodes if some entry declares them.
AllNames(secs) ==
    (UNION {{secs[i].lines[d].name : d \in DeclLines(secs[i])} : i \in DOMAIN secs})
        \ {Anonymous}

\* _Visibility.declared_in; with bound names for the single-name verbs.
Declarations(secs, bound) ==
    UNION {UNION {{[sec |-> i, line |-> d, name |-> n, private |-> secs[i].lines[d].private] :
                      n \in {secs[i].lines[d].name}
                            \cup (IF bound THEN secs[i].lines[d].binds ELSE {})} :
                   d \in DeclLines(secs[i])} : i \in DOMAIN secs}

\* The lines of a section that declare `name', as an entry or as a bound name.
DefSite(sec, l, name, bound) ==
    \E d \in DeclLines(sec) :
        /\ \/ sec.lines[d].name = name
           \/ bound /\ name \in sec.lines[d].binds
        /\ d <= l /\ l <= Stop(sec, d)

Counts(mention, derived) ==
    \/ mention.how = "fact"
    \/ mention.how = "method" /\ mention.name \notin NonCitation
    \/ mention.how = "derived" /\ derived

UsedOn(line, names, derived) ==
    {m.name : m \in {k \in line.cites : Counts(k, derived)}} \cap names

TopLevel(i) == [toplevel |-> i]

\* The caller a line speaks for; a line of a nameless entry speaks for nobody.
CallerOf(secs, i, l) ==
    LET owner == EntryAtLine(secs[i], l) IN
    IF owner = {} THEN {TopLevel(i)}
    ELSE {secs[i].lines[d].name : d \in owner} \ {Anonymous}

\* What one live line adds to the graph.
LineEdges(secs, i, l, names, decls, derived, closure) ==
    {[caller |-> c, callee |-> n] :
        c \in CallerOf(secs, i, l),
        n \in {m \in UsedOn(secs[i].lines[l], names, derived) :
                /\ ~Noise(secs[i], l)
                /\ ~DefSite(secs[i], l, m, FALSE)
                /\ closure => Sees(secs, decls, secs[i].name, m)}}

\* _build_call_graph: [caller, callee], one pass over every line.
CallGraph(secs, derived, closure) ==
    LET names == AllNames(secs)
        decls == Declarations(secs, FALSE)
        Edges(i) == UNION {LineEdges(secs, i, l, names, decls, derived, closure) : l \in Lines(secs[i])}
    IN  UNION {Edges(i) : i \in DOMAIN secs}

\* Mutant: the default is to report every theory.
AdmitsEvery(secs, name, theory) == TRUE

\* site_filter: the theories a single-name scan may report.
Admits(secs, name, theory) ==
    LET decls == Declarations(secs, TRUE) IN
    (\E d \in decls : d.name = name) => Sees(secs, decls, theory, name)

\* _find_callers: [sec, line] of every use of one name.
FindCallers(secs, name, external) ==
    UNION {{[sec |-> i, line |-> l] : l \in {k \in Lines(secs[i]) :
                /\ name \in UsedOn(secs[i].lines[k], {name}, FALSE)
                /\ ~DefSite(secs[i], k, name, TRUE)
                /\ ~Noise(secs[i], k)}} :
           i \in {j \in DOMAIN secs :
                    /\ Admits(secs, name, secs[j].name)
                    /\ ~(external /\ \E k \in Lines(secs[j]) : DefSite(secs[j], k, name, TRUE))}}

\* What a row of `callees' names: the declarations the seed's theories can mean.
SeenFrom(secs, seed, name) ==
    LET decls == Declarations(secs, FALSE)
        home == {secs[d.sec].name : d \in {e \in decls : e.name = seed}}
    IN  Visible(secs, {d \in decls : d.name = name}, home)

\* And of `callers -r': the declarations whose theory can see one of the seed.
Seeing(secs, seed, name) ==
    LET decls == Declarations(secs, FALSE)
        mine == {d \in decls : d.name = name}
        targets == {secs[d.sec].name : d \in {e \in decls : e.name = seed}}
        Reaches(d) == Depths(secs, secs[d.sec].name)
        kept == {d \in mine : targets \cap DOMAIN Reaches(d) # {}}
    IN  IF Cardinality(mine) < 2 \/ \E d \in mine : Reaches(d) = Unknown THEN mine
        ELSE IF kept = {} THEN mine
        ELSE kept
=============================================================================
