------------------------------ MODULE CodeSites ------------------------------
(***************************************************************************)
(* `codeqs': the lines that register code equations of a constant: its own *)
(* declaration, a statement with a code attribute whose equation has the   *)
(* constant at its head, and commands that attach one to a fact by name.   *)
(***************************************************************************)
EXTENDS Sites

ConstantTags == {"definition", "fun", "datatype", "record", "axiom"}
DefaultCodeTags == {"definition", "fun"}
EquationAttrs == {"", "equation", "prepend", "nbe", "abstract", "abstype"}
RetractAttrs == {"del", "drop", "abort"}

\* _spells: the names Isabelle derives from that of a constant.
Derived == ("f.simps" :> "f") @@ ("f_def" :> "f") @@ ("g.simps" :> "g")
Spells(token, subject) == token = subject \/ (token \in DOMAIN Derived /\ Derived[token] = subject)

\* The tokens of lines `first' to `last' in both views, with their lines.
Span(first, last) ==
    FlattenSeq([n \in 1..(last - first + 1) |->
        LET i == first + n - 1 IN [k \in DOMAIN live[i] |->
            [line |-> i, tok |-> live[i][k].tok, inner |-> live[i][k].inner]]])
Statement(e) == Span(e.line, Max({e.line, e.last}))

-----------------------------------------------------------------------------
\* code_attrs: [arg, config, start, stop] for each code attribute of a group
\* of brackets, or of a doubled pair.
CountOf(s, tok, p, q) == Cardinality({j \in p..q : Visibly(s, j, tok)})
GroupFrom(s, k) == IF Visibly(s, k + 1, "[") THEN k + 2 ELSE k + 1
GroupEnd(s, from) ==
    Min({m \in from..Len(s) : CountOf(s, "]", from, m) > CountOf(s, "[", from, m)} \cup {Len(s) + 1})
\* The attributes of a group, each by the place behind it.
Segments(s, from, end) ==
    LET Flat(m) == CountOf(s, "(", from, m) + CountOf(s, "[", from, m) <= CountOf(s, ")", from, m) + CountOf(s, "]", from, m)
    IN  SelectSeq([m \in 1..end |-> m], LAMBDA m : m >= from /\ Flat(m - 1) /\ (m = end \/ Visibly(s, m, ",")))
AttrAt(s, config, start, stop) ==
    LET arg == IF start + 1 < stop /\ IsName(s[start + 1].tok) THEN s[start + 1].tok ELSE ""
    IN  IF start >= stop \/ s[start].tok # "code" \/ arg \notin EquationAttrs \cup RetractAttrs THEN <<>>
        ELSE <<[arg |-> arg, config |-> config, start |-> start, stop |-> stop]>>
CodeAttrs(s) ==
    LET Groups[k \in 1..(Len(s) + 2)] ==
            IF k > Len(s) THEN <<>> ELSE IF ~Visibly(s, k, "[") THEN Groups[k + 1]
            ELSE <<k>> \o Groups[Min({GroupEnd(s, GroupFrom(s, k)) + 1, Len(s) + 1})]
        Cut(config, from, stops) ==
            FlattenSeq([n \in DOMAIN stops |-> AttrAt(s, config, IF n = 1 THEN from ELSE stops[n - 1] + 1, stops[n])])
        In(config, from) == Cut(config, from, Segments(s, from, GroupEnd(s, from)))
        Each(groups) == FlattenSeq([g \in DOMAIN groups |-> In(Visibly(s, groups[g] + 1, "["), GroupFrom(s, groups[g]))])
    IN  Each(Groups[1])

Spelling(attr) == IF attr.arg = "" THEN "code" ELSE "code " \o attr.arg

\* dropped_constants: the names behind the colon of an attribute.
DroppedConstants(s, attr) ==
    LET body == SelectSeq(SubSeq(s, attr.start, attr.stop - 1), LAMBDA t : t.tok # "quote")
        colon == Min({k \in DOMAIN body : body[k].tok = ":"} \cup {Len(body) + 1})
        ends == {k \in (colon + 1)..Len(body) : NameOf(body, k) = ""}
        last == Min(ends \cup {Len(body) + 1}) - 1
    IN  {body[k].tok : k \in (colon + 1)..last}

\* cited_fact_names: the names a command writes outside brackets.
CitedFactNames(s) ==
    LET Count(tok, k) == Cardinality({j \in 1..k : Visibly(s, j, tok)})
        free == SelectSeq(VisibleAt(s), LAMBDA k : IsName(s[k].tok) /\ Count("[", k) <= Count("]", k))
    IN  [n \in DOMAIN free |-> s[free[n]].tok]

-----------------------------------------------------------------------------
(***************************************************************************)
(* The head of an equation, on the tokens of a term: "=" and "==>" outside *)
(* brackets, "@" for any mixfix operator.                                  *)
(***************************************************************************)
Outside(p, k) == Cardinality({j \in 1..k : p[j] = "("}) <= Cardinality({j \in 1..k : p[j] = ")"})
TopLevel(p, tok) == {k \in DOMAIN p : p[k] = tok /\ Outside(p, k)}

\* _strip_premises, _top_equality
StripPremises(p) == SubSeq(p, Max(TopLevel(p, "==>") \cup {0}) + 1, Len(p))
LeftSide(p) == SubSeq(p, 1, Min(TopLevel(p, "=") \cup {Len(p) + 1}) - 1)

\* _head_at, _mixfix_after: nothing if notation hides it.
HeadAt(p) == IF p # <<>> /\ IsName(p[1]) /\ TopLevel(p, "@") = {} THEN {p[1]} ELSE {}

\* _lhs_head: of an abstract equation that of the projection's argument.
LhsHead(p, abstract) ==
    LET close == Min({k \in DOMAIN p : k > 1 /\ Outside(p, k)})
        argument == IF p[2] = "(" THEN HeadAt(SubSeq(p, 3, close - 1)) ELSE HeadAt(<<p[2]>>)
    IN  IF HeadAt(p) = {} \/ ~abstract THEN HeadAt(p) ELSE IF Len(p) = 1 THEN {} ELSE argument

\* equation_heads: a cartouche counts only if it is closed on its line.
EquationHeads(s, abstract) ==
    LET shows == {k \in DOMAIN s : s[k].tok = "shows"}
        body == SubSeq(s, (IF shows = {} THEN 0 ELSE Min(shows)) + 1, Len(s))
        Closers(k) == {m \in (k + 1)..Len(body) :
                       \/ body[k].tok = "quote" /\ body[m].tok = "quote"
                       \/ body[k].tok = "open" /\ body[m].tok = "close"}
        Props[k \in 1..(Len(body) + 1)] ==
            IF k > Len(body) THEN {}
            ELSE IF Closers(k) = {} \/ (body[k].tok = "open" /\ body[Min(Closers(k))].line # body[k].line) THEN Props[k + 1]
            ELSE {[m \in 1..(Min(Closers(k)) - k - 1) |-> body[k + m].tok]} \cup Props[Min(Closers(k)) + 1]
    IN  UNION {LhsHead(LeftSide(StripPremises(p)), abstract) : p \in Props[1]}

\* statement_clauses: [start, name] for the first statement and each named one.
Clauses(s) ==
    LET shows == {k \in DOMAIN s : Visibly(s, k, "shows")}
        visible == VisibleAt(s)
        toks == [n \in DOMAIN visible |-> s[visible[n]].tok]
        Named1(n) == Labelled(toks, n + 1, ":")
        Clause(n) == /\ toks[n] = "and" /\ visible[n] > Max(shows \cup {0})
                     /\ Named1(n) \/ (LET j == PastAttributes(toks, n + 1) IN j \in DOMAIN toks /\ toks[j] = ":")
        at == SelectSeq([n \in DOMAIN toks |-> n], Clause)
    IN  <<[start |-> 1, name |-> ""]>>
        \o [m \in DOMAIN at |-> [start |-> visible[at[m]], name |-> IF Named1(at[m]) THEN toks[at[m] + 1] ELSE Unnamed]]

-----------------------------------------------------------------------------
Row(line, kind, label) == [line |-> line, kind |-> kind, label |-> label]
Owns(e, name) == e.tag \in ConstantTags /\ (e.name = name \/ \E b \in e.binds : b[1] = name)
HeadsDenote(s, attr, name) == \E h \in EquationHeads(s, attr.arg = "abstract") : Denotes(h, name)

\* Steps 1 and 2 of find_code_equations: what the attributes of a declaration
\* are attached to, and the equations registered without one.
Attributed(e, s, clauses, attrs, name) ==
    LET Clause(attr) == Max({k \in DOMAIN clauses : clauses[k].start <= attr.start})
        Stop(k) == IF k < Len(clauses) THEN clauses[k + 1].start - 1 ELSE Len(s)
        Hit(attr) == IF attr.config THEN \E c \in DroppedConstants(s, attr) : Denotes(c, name)
                     ELSE \/ Owns(e, name)
                          \/ HeadsDenote(SubSeq(s, clauses[Clause(attr)].start, Stop(Clause(attr))), attr, name)
        RowOf(attr, k) == Row(s[clauses[k].start].line, Spelling(attr), IF k = 1 THEN e.name ELSE clauses[k].name)
    IN  {RowOf(a, Clause(a)) : a \in {a \in Range(attrs) : Hit(a)}}

DeclarationRows(e, s, name) ==
    LET rows == Attributed(e, s, Clauses(s), CodeAttrs(s), name)
    IN  IF rows = {} /\ e.tag \in DefaultCodeTags /\ Owns(e, name) THEN {Row(e.line, "default", e.name)}
        ELSE rows

\* Step 3: `declare' and `lemmas', by the names of facts or of constants.
FactDenotes(es, token, attr, name) ==
    LET named == {k \in DOMAIN es : es[k].name = token}
        e == es[Min(named)]
    IN  Spells(token, name) \/ (named # {} /\ e.tag = "goal" /\ HeadsDenote(Statement(e), attr, name))

CommandRows(es, i, s, name) ==
    LET Dropped(attr) == {c \in DroppedConstants(s, attr) : Denotes(c, name)}
        cited == CitedFactNames(s)
        label == IF cited = <<>> THEN Unnamed ELSE cited[1]
    IN  UNION {IF a.config THEN {Row(i, Spelling(a), c) : c \in Dropped(a)}
               ELSE IF \E k \in DOMAIN cited : FactDenotes(es, cited[k], a, name) THEN {Row(i, Spelling(a), label)} ELSE {}
               : a \in Range(CodeAttrs(s))}

CodeEquations(es, name) ==
    LET declares == {i \in DOMAIN doc : Leads(outer[i], {"declare", "lemmas"}) /\ Len(Words(doc[i])) > 1}
        stated == {k \in DOMAIN es : es[k].tag # "fact"}
    IN  (UNION {DeclarationRows(es[k], Statement(es[k]), name) : k \in stated})
        \cup UNION {CommandRows(es, i, Header(i, 1), name) : i \in declares}

\* cmd_codeqs
CodeqsOf(es, name) ==
    IF \E k \in DOMAIN es : Owns(es[k], name) THEN CodeEquations(es, name) ELSE {Row(0, "refused", name)}

-----------------------------------------------------------------------------
(***************************************************************************)
(* What the author says of a line: `states' is the label of a statement    *)
(* that starts on it, `codes' are the code attributes it attaches to the   *)
(* statement it is part of, `heads' the constants its equations define,    *)
(* and `abstracts' those they define if they are read as abstract ones;    *)
(* `cites' are the statements a command attaches its attribute to.         *)
(***************************************************************************)
States1 == {i \in DOMAIN doc : ~Blank(doc[i]) /\ Says(doc[i]).states # ""}
LinesFrom(i) ==
    LET next == {j \in (i + 1)..N : j \in States1 \/ (~Blank(doc[j]) /\ Says(doc[j]).starts)}
    IN  {j \in i..(Min(next \cup {N + 1}) - 1) : ~Blank(doc[j])}
ConstantsFrom(i, kind) ==
    LET cited == {j \in States1 : Says(doc[j]).states \in Says(doc[i]).cites}
        said == {Says(doc[j]) : j \in UNION {LinesFrom(m) : m \in {i} \cup cited}}
    IN  UNION {IF kind = "code abstract" THEN s.abstracts ELSE s.heads : s \in said}
CodesFrom(i) == UNION {Says(doc[j]).codes : j \in LinesFrom(i)}
OwnConstants(i) == {Says(doc[i]).name} \cup {b[1] : b \in UNION {Says(doc[j]).binds : j \in LinesFrom(i)}}
Defining(i) == Leads(doc[i], ConstantTags)

TrueCodeRows(name) ==
    UNION {{Row(i, kind, Says(doc[i]).states) : kind \in
              IF Defining(i) /\ name \in OwnConstants(i)
              THEN IF CodesFrom(i) = {} THEN {"default"} ELSE CodesFrom(i)
              ELSE {kind \in CodesFrom(i) : name \in ConstantsFrom(i, kind)}} : i \in States1}

(***************************************************************************)
(* A code attribute is reported under the constant its own statement       *)
(* defines, on the line where that statement starts: not under constants   *)
(* of the right-hand side, of premises, of other statements of the same    *)
(* declaration, and not where notation hides the head.                     *)
(***************************************************************************)
CodeExact(es) ==
    States1 # {} =>
        \A c \in {"f", "g", "rep"} :
            LET known == \E i \in States1 : Defining(i) /\ c \in OwnConstants(i)
            IN  CodeqsOf(es, c) = IF known THEN TrueCodeRows(c) ELSE {Row(0, "refused", c)}
=============================================================================
