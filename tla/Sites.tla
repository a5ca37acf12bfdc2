-------------------------------- MODULE Sites --------------------------------
(***************************************************************************)
(* `instances': the lines that supply types or terms to a locale, and with *)
(* -r to everything that extends it.  `locale' stands for all commands     *)
(* that declare a locale or a class.  A command is read in both views at   *)
(* once: the outer one for its structure, the live one for its names.      *)
(***************************************************************************)
EXTENDS Names

InstCommands == {"instantiation", "instance", "interpretation", "sublocale", "interpret"}
Arities == {"instantiation", "instance"}
ExtendCommands == {"subclass", "instance", "sublocale"}
SiteBoundary == Boundary \cup DeclWords \cup {"interpret", "subclass", "text", "section"}
HeaderStop == {"where", "for", "begin", "using", "unfolding", "apply", "done", "qed", "proof"} \cup Terminators
ContextElements == {"fixes", "constrains", "assumes", "notes"}
HeaderLines == 8

Base == ("T.a" :> "a") @@ ("T.c" :> "c")
Denotes(written, subject) == written = subject \/ (written \in DOMAIN Base /\ Base[written] = subject)

\* The tokens of a line in both views: the outer one has those not `inner'.
Items(toks) == SelectSeq(toks, LAMBDA t : t.tok # "quote")
Visibly(items, k, tok) == k \in DOMAIN items /\ ~items[k].inner /\ items[k].tok = tok
VisibleAt(items) == SelectSeq([k \in DOMAIN items |-> k], LAMBDA k : ~items[k].inner)
Behind(items, k) == SubSeq(items, k + 1, Len(items))
UpTo(items, words) ==
    LET stops == {k \in DOMAIN items : ~items[k].inner /\ items[k].tok \in words} IN
    IF stops = {} THEN items ELSE SubSeq(items, 1, Min(stops) - 1)

\* _name_at: bare or quoted, but not the opening of a cartouche.
NameOf(items, k) ==
    IF k \in DOMAIN items /\ (items[k].inner \/ IsName(items[k].tok))
       /\ items[k].tok \notin NotATargetName \cup Quotes
    THEN items[k].tok ELSE ""

\* _inst_command, _header_from: where the command of a line stands, in the
\* middle only an `interpret'; 0 if there is none.
CommandPlace(i, commands) ==
    LET visible == VisibleAt(live[i])
        mid == {k \in DOMAIN visible : live[i][visible[k]].tok = "interpret"}
    IN  IF visible = <<>> THEN 0
        ELSE IF live[i][visible[1]].tok \in commands THEN visible[1]
        ELSE IF "interpret" \in commands /\ mid # {} THEN visible[Min(mid)] ELSE 0

\* _header_at: what follows up to the next command and to the first word that
\* cannot be part of an expression any more.
Header(i, place) ==
    LET next == {j \in (i + 1)..N : Leads(outer[j], SiteBoundary)}
        last == Min({i + HeaderLines - 1, N} \cup {j - 1 : j \in next})
        below == [j \in 1..(last - i) |-> live[i + j]]
    IN  UpTo(Items(Behind(live[i], place) \o FlattenSeq(below)), HeaderStop)

\* _paren_end: the place of the bracket that closes the one at k, or 0.
ParenEnd(items, k) ==
    LET Count(tok, m) == Cardinality({j \in k..m : Visibly(items, j, tok)})
        ends == {m \in k..Len(items) : Count("(", m) = Count(")", m)}
    IN  IF ends = {} THEN 0 ELSE Min(ends)

-----------------------------------------------------------------------------
\* expression_instances: [qualifier, name] for each summand that has a name.
Instance(s) ==
    LET visible == VisibleAt(s)
        Colon(n) == n \in DOMAIN visible /\ s[visible[n]].tok = ":"
        colon == IF Colon(1) THEN visible[1]
                 ELSE IF Colon(2) /\ IsName(s[visible[1]].tok) THEN visible[2] ELSE 0
    IN  [qualifier |-> IF colon = 0 THEN "" ELSE NameOf(s, 1), name |-> NameOf(s, colon + 1)]

Expression(items) ==
    LET Open(k) == Cardinality({j \in 1..k : Visibly(items, j, "(")}) > Cardinality({j \in 1..k : Visibly(items, j, ")")})
        ends == SelectSeq([k \in 1..(Len(items) + 1) |-> k],
                          LAMBDA k : k > Len(items) \/ (Visibly(items, k, "+") /\ ~Open(k)))
        From(n) == IF n = 1 THEN 1 ELSE ends[n - 1] + 1
        all == [n \in DOMAIN ends |-> Instance(SubSeq(items, From(n), ends[n] - 1))]
    IN  SelectSeq(all, LAMBDA x : x.name # "")

Heads(items) == LET all == Expression(items) IN [n \in DOMAIN all |-> all[n].name]

\* arity_parts, arity_classes: the constructor as written, and the classes of
\* the sort behind the sorts of its arguments.
Separator(items) == Min({k \in DOMAIN items : Visibly(items, k, "::")} \cup {Len(items) + 1})
Constructor(items) == [k \in 1..(Separator(items) - 1) |-> items[k].tok]

\* The tokens of the sort that starts at k: the inner ones, the braces, or one.
SortBody(items, k) ==
    LET Inner(m) == \A j \in k..m : items[j].inner
        closes == {m \in k..Len(items) : items[m].tok = "}"}
    IN  IF k \notin DOMAIN items \/ (items[k].tok = "{" /\ closes = {}) THEN <<>>
        ELSE SubSeq(items, k, IF items[k].inner THEN Max({m \in k..Len(items) : Inner(m)})
                              ELSE IF items[k].tok = "{" THEN Min(closes) ELSE k)
SortStart(items, sep) ==
    IF ~Visibly(items, sep + 1, "(") THEN sep + 1
    ELSE Min({k \in {ParenEnd(items, sep + 1)} : k > 0} \cup {Len(items)}) + 1
ClassNames(body) ==
    LET names == [k \in DOMAIN body |-> IF body[k].tok \in {"{", ",", "}"} THEN "" ELSE NameOf(body, k)]
    IN  SelectSeq(names, LAMBDA n : n # "")
ArityClasses(items) == ClassNames(SortBody(items, SortStart(items, Separator(items))))

\* _SUBLOCALE_TARGET_RE, _sublocale_target: the place of the arrow behind at
\* most one name, or 0.
Arrow(items) ==
    LET visible == VisibleAt(items)
        At(n) == n \in DOMAIN visible /\ items[visible[n]].tok = "<"
    IN  IF At(1) THEN visible[1]
        ELSE IF At(2) /\ IsName(items[visible[1]].tok) THEN visible[2] ELSE 0

-----------------------------------------------------------------------------
\* _enclosing_lookup: the entry whose span holds the line, else the block.
EnclosingName(es, i, stacks) ==
    LET owners == {k \in DOMAIN es : es[k].src <= i /\ i <= es[k].stop}
        name == IF owners = {} THEN Unnamed ELSE es[Min(owners)].name
    IN  IF name # Unnamed THEN name ELSE IF stacks[i] = <<>> THEN "" ELSE Last(stacks[i]).name

\* extends_heads: the expression of a declaration.
ExtendsHeads(items) ==
    LET upto == UpTo(items, ContextElements)
        eq == {k \in DOMAIN upto : Visibly(upto, k, "=")}
    IN  IF eq = {} THEN <<>> ELSE Heads(Behind(upto, Min(eq)))

Retargeted(items) == Visibly(items, 1, "(") /\ Visibly(items, 2, "in")

\* One command that extends: [child, parents].
ExtendAt(i, header, here) ==
    LET command == outer[i][1]
        body == IF Retargeted(header) THEN Behind(header, ParenEnd(header, 1)) ELSE header
        arrow == Arrow(body)
        Child(otherwise) ==
            IF Retargeted(header) /\ NameOf(header, 3) # "" THEN NameOf(header, 3) ELSE otherwise
    IN  CASE command = "instance" /\ arrow = 0 -> [child |-> "", parents |-> <<>>]
          [] command \in {"instance", "sublocale"} ->
                [child |-> Child(IF arrow > 0 THEN NameOf(body, 1) ELSE here),
                 parents |-> Heads(Behind(body, arrow))]
          [] command = "subclass" -> [child |-> Child(here), parents |-> <<NameOf(body, 1)>>]

\* extends_edges: those of declarations, then those of commands.
ExtendsEdges(es, stacks) ==
    LET Edges(child, parents) == [n \in DOMAIN parents |-> [child |-> child, parent |-> parents[n]]]
        Declared1(e) ==
            IF e.tag # "locale" \/ e.name = Unnamed THEN <<>> ELSE Edges(e.name, ExtendsHeads(Header(e.line, 1)))
        Of(x) == Edges(x.child, x.parents)
        Written(i, place) ==
            IF place = 0 THEN <<>> ELSE Of(ExtendAt(i, Header(i, place), EnclosingName(es, i, stacks)))
        all == FlattenSeq([k \in DOMAIN es |-> Declared1(es[k])])
               \o FlattenSeq([i \in DOMAIN doc |-> Written(i, CommandPlace(i, ExtendCommands))])
    IN  SelectSeq(all, LAMBDA e : e.child # "" /\ e.parent # "")

\* _extenders_of, descendants: breadth first, each once, the subject in front.
AppendNew(seen, name) == IF name \in Range(seen) THEN seen ELSE Append(seen, name)
Extenders(edges, name) ==
    LET down == SelectSeq(edges, LAMBDA e : Denotes(e.parent, name) /\ ~Denotes(e.child, name))
    IN  [k \in DOMAIN down |-> down[k].child]

\* Mutant: only what extends the subject itself is followed.
ChildrenOf(edges, name) == FoldLeft(AppendNew, <<name>>, Extenders(edges, name))

WithDescendants(edges, name) ==
    FoldLeft(LAMBDA seen, k : IF k > Len(seen) THEN seen ELSE FoldLeft(AppendNew, seen, Extenders(edges, seen[k])),
             <<name>>, [k \in 1..(Len(edges) + 1) |-> k])

-----------------------------------------------------------------------------
\* _first_denoted: for each written name the first subject it denotes.
FirstDenoted(written, names) ==
    LET First(w) == SelectSeq(names, LAMBDA n : Denotes(w, n))
    IN  FoldLeft(LAMBDA via, w : IF First(w) = <<>> THEN via ELSE AppendNew(via, First(w)[1]), <<>>, written)

\* What a header supplies, as [qualifier, name].
Supplied(command, header, arrow) ==
    IF command \in Arities
    THEN LET Bare1(classes) == [n \in DOMAIN classes |-> [qualifier |-> "", name |-> classes[n]]]
         IN  Bare1(ArityClasses(header))
    ELSE Expression(Behind(header, arrow))

\* The label of a row: the constructor, the qualifier, the target or the holder.
SiteLabel(command, header, arrow, qualifiers, here) ==
    CASE command \in Arities -> Constructor(header)
      [] qualifiers # <<>> -> <<qualifiers[1]>>
      [] arrow > 0 /\ NameOf(header, 1) # "" -> <<NameOf(header, 1)>>
      [] here # "" -> <<here>>
      [] OTHER -> <<>>

\* The row of line i: what it supplies to the subjects, and its label.
SiteAt(i, command, header, names, here) ==
    LET Denoted(x) == \E n \in Range(names) : Denotes(x.name, n)
        Names1(xs) == [n \in DOMAIN xs |-> xs[n].name]
        Qualifiers(xs) == SelectSeq([n \in DOMAIN xs |-> IF Denoted(xs[n]) THEN xs[n].qualifier ELSE ""], LAMBDA q : q # "")
        Row(arrow, xs) == [line |-> i, kind |-> command, via |-> FirstDenoted(Names1(xs), names),
                           label |-> SiteLabel(command, header, arrow, Qualifiers(xs), here)]
        At(arrow) == Row(arrow, Supplied(command, header, arrow))
    IN  At(IF command = "sublocale" THEN Arrow(header) ELSE 0)

\* _instantiation_sites
InstantiationSites(es, names, stacks) ==
    LET Row(i, place) ==
            IF place = 0 THEN <<>>
            ELSE <<SiteAt(i, live[i][place].tok, Header(i, place), names, EnclosingName(es, i, stacks))>>
        rows == FlattenSeq([i \in DOMAIN doc |-> Row(i, CommandPlace(i, InstCommands))])
    IN  SelectSeq(rows, LAMBDA r : r.via # <<>>)

\* _resolve_site_subject, for the names a locale goes by or binds.
LocaleSubject(es, name) ==
    \E k \in DOMAIN es : es[k].tag = "locale" /\ (es[k].name = name \/ \E b \in es[k].binds : b[1] = name)

\* cmd_instances: the rows of what -r adds or does not, or a refusal.
InstancesOf(es, name, names, stacks) ==
    IF LocaleSubject(es, name) THEN InstantiationSites(es, names, stacks) ELSE <<"refused">>

-----------------------------------------------------------------------------
(***************************************************************************)
(* What the author says, from line to line.  Says gives for each line      *)
(*   role    "declares", "extends", "supplies", "both" or, on a line that  *)
(*           goes on with a command, "continues";                          *)
(*   parts   the names it writes there, as [qualifier, name];              *)
(*   child   what a command extends or is installed in; "here" if that is  *)
(*           what it stands in;                                            *)
(*   label   the type constructor of an arity.                             *)
(***************************************************************************)
Commands == {i \in DOMAIN doc : ~Blank(doc[i]) /\ Says(doc[i]).role \notin {"", "continues"}}
PartsFrom(i) ==
    LET more == {j \in Extent([line |-> i]) : ~Blank(doc[j]) /\ (j = i \/ Says(doc[j]).role = "continues")}
        lines == SelectSeq([j \in DOMAIN doc |-> j], LAMBDA j : j \in more)
    IN  FlattenSeq([n \in DOMAIN lines |-> Says(doc[lines[n]]).parts])

Holder(i) ==
    LET lemmas == {j \in 1..(i - 1) : Leads(doc[j], {"lemma"})}
        open == Unclosed(i)
    IN  IF live[i][CommandPlace(i, InstCommands \cup ExtendCommands)].tok = "interpret"
        THEN Says(doc[Max(lemmas)]).name
        ELSE IF open = <<>> THEN "" ELSE Last(open).name
ChildOf(i) == LET child == Says(doc[i]).child IN IF child = "here" THEN Holder(i) ELSE child

TrueEdges ==
    UNION {{<<ChildOf(i), p.name>> : p \in Range(PartsFrom(i))} :
              i \in {i \in Commands : Says(doc[i]).role \in {"declares", "extends", "both"} /\ ChildOf(i) # ""}}

TrueClosure(name, edges) ==
    LET Grow(set) == set \cup {e[1] : e \in {e \in edges : \E n \in set : Denotes(e[2], n)}}
        G[k \in 0..Cardinality(edges)] == IF k = 0 THEN {name} ELSE Grow(G[k - 1])
    IN  G[Cardinality(edges)]

\* The row an author expects of line i, asked about a set of names.
TrueRow(i, names) ==
    LET hits == SelectSeq(PartsFrom(i), LAMBDA p : \E n \in names : Denotes(p.name, n))
        marked == SelectSeq(hits, LAMBDA p : p.qualifier # "")
    IN  [line |-> i, via |-> {n \in names : \E k \in DOMAIN hits : Denotes(hits[k].name, n)},
         label |-> IF Says(doc[i]).label # <<>> THEN Says(doc[i]).label
                   ELSE IF marked # <<>> THEN <<marked[1].qualifier>>
                   ELSE SelectSeq(<<ChildOf(i)>>, LAMBDA c : c # "")]

TrueRows(names) ==
    {r \in {TrueRow(i, names) : i \in {i \in Commands : Says(doc[i]).role \in {"supplies", "both"}}} : r.via # {}}

(***************************************************************************)
(* Every line that supplies something to a locale is reported once, under  *)
(* the name its author gave it, and no other line is; with -r this holds   *)
(* of all that is one by way of any chain of extensions.  A name that is   *)
(* no locale is refused, not answered with an empty list.                  *)
(***************************************************************************)
Told == {Says(doc[i]) : i \in {i \in DOMAIN doc : ~Blank(doc[i])}}
Subjects ==
    (UNION {{s.name} \cup {b[1] : b \in s.binds} \cup {p.name : p \in Range(s.parts)} : s \in Told}) \ {""}

InstancesExact(es, stacks, edges, written) ==
    \A n \in Subjects :
        LET known == \E i \in Commands : /\ Says(doc[i]).role = "declares"
                                         /\ \E s \in SaidOf([line |-> i]) : s.name = n \/ \E b \in s.binds : b[1] = n
            Seen(rows) == [k \in DOMAIN rows |-> [line |-> rows[k].line, via |-> Range(rows[k].via), label |-> rows[k].label]]
            all == WithDescendants(written, n)
            Same(rows, true) == /\ Range(Seen(rows)) = true
                                /\ \A k, l \in DOMAIN rows : k < l => rows[k].line < rows[l].line
        IN  IF ~known THEN InstancesOf(es, n, all, stacks) = <<"refused">>
            ELSE \A recursive \in BOOLEAN :
                    Same(InstancesOf(es, n, IF recursive THEN all ELSE <<n>>, stacks),
                         TrueRows(IF recursive THEN TrueClosure(n, edges) ELSE {n}))

SitesExact(es, stacks) == Commands # {} => InstancesExact(es, stacks, TrueEdges, ExtendsEdges(es, stacks))
=============================================================================
