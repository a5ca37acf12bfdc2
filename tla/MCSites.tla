------------------------------ MODULE MCSites ------------------------------
\* Theories of a few lines whose declarations bind several names.  Every line
\* comes with what its author declares on it.
EXTENDS CodeSites

Q(word) == <<"quote", word, "quote">>
Nothing == [starts |-> FALSE, name |-> "", binds |-> {}, attrs |-> {},
            role |-> "", parts |-> <<>>, child |-> "", label |-> <<>>,
            states |-> "", codes |-> {}, heads |-> {}, abstracts |-> {}, cites |-> {}]
Starting == [Nothing EXCEPT !.starts = TRUE]
Named(name) == [Starting EXCEPT !.name = name]
Binding(name, kind) == [Nothing EXCEPT !.binds = {<<name, kind>>}]
Both(x, y) == [x EXCEPT !.binds = @ \cup y.binds]

\* Goals: hypotheses before `shows', named conclusions behind it.
Goals == (<<"lemma", "a", "[", "simp", ",", "OF", "c", "]", ":">> :> [Named("a") EXCEPT !.attrs = {"simp", "OF"}])
    @@ ((<<"lemma", "quote", "a", "quote", ":">> \o Q("b")) :> Named("a"))
    @@ ((<<"lemma">> \o Q("b")) :> Starting)
    @@ ((<<"lemma", "marginal", "b", "close", "(", "in", "b", ")", "a", ":">>) :> Named("a"))
    @@ ((<<"lemma", "shows", "c", ":">> \o Q("b")) :> Both(Starting, Binding("c", "conjunct")))
Hypothesis == <<"and", "h", ":">> \o Q("b")
Assumption == <<"assumes", "h", ":">> \o Q("b")
Conclusion == <<"and", "d", ":">> \o Q("and")
Shown == <<"shows", "c", ":">> \o Q("b")
GoalLines == (Assumption :> Nothing) @@ (Hypothesis :> Nothing) @@ (Shown :> Binding("c", "conjunct"))
    @@ (Conclusion :> Binding("d", "conjunct")) @@ (<<"(*", "and", "e", ":", "*)">> :> Nothing)
    @@ (<<"by", "word">> :> Nothing) @@ (Q("b") :> Nothing) @@ (<<>> :> Nothing)

\* Constants, their siblings and the names of their equations.
Equation == <<"quote", "a", "=", "b", "quote">>
Definitions == (<<"definition">> :> Starting)
    @@ ((<<"definition", "a", "::">> \o Q("b")) :> Named("a"))
    @@ ((<<"definition">> \o Equation) :> Named("a"))
    @@ (<<"definition", "(", "in", "b", ")">> :> Starting)
DefinitionLines == ((<<"a", "::">> \o Q("b") \o <<"where">>) :> [Nothing EXCEPT !.name = "a"])
    @@ (Equation :> Nothing) @@ ((<<"where", "r", "[", "simp", "]", ":">> \o Equation) :> Binding("r", "rule"))
    @@ (<<"marginal", "b", ":", "close">> :> Nothing) @@ (<<"(*", "b">> :> Nothing) @@ (<<"b", "*)">> :> Nothing)
    @@ (<<>> :> Nothing)
Functions == (<<"fun", "a", "and", "g", "where">> :> Both(Named("a"), Binding("g", "sibling")))
    @@ (<<"fun", "a", "::", "quote", "and", "b", "quote", "and", "g">> :> Both(Named("a"), Binding("g", "sibling")))
    @@ (<<"fun", "(", "in", "b", ")", "a", "for", "x", "and", "y", "where">> :> Named("a"))
    @@ (<<"fun", "a">> :> Named("a"))
FunctionLines == ((<<"where", "r", ":">> \o Equation) :> Binding("r", "rule"))
    @@ ((<<"bar", "s", "[", "simp", "]", ":">> \o Equation) :> Binding("s", "rule"))
    @@ ((<<"bar">> \o Equation) :> Nothing) @@ (<<"quote", "bar", "b", ":", "quote">> :> Nothing)
    @@ (<<"for", "x", "and", "y">> :> Nothing) @@ (<<>> :> Nothing) @@ (<<"(*", "bar", "b", ":", "*)">> :> Nothing)

\* Types.
Datatypes == (<<"datatype", "'a", "a", "=", "c", "(", "s", ":", "b", ")">> :>
                 Both(Named("a"), [Nothing EXCEPT !.binds = {<<"c", "constructor">>, <<"s", "selector">>}]))
    @@ (<<"datatype", "(", "b", ")", "quote", "a", "quote", "=", "is_c", ":", "c">> :>
                 Both(Named("a"), [Nothing EXCEPT !.binds = {<<"c", "constructor">>, <<"is_c", "discriminator">>}]))
    @@ (<<"datatype", "(", "'a", ",", "b", ")", "a">> :> Named("a"))
    @@ (<<"datatype">> :> Starting)
DatatypeLines == (<<"a", "=", "d">> :> Both([Nothing EXCEPT !.name = "a"], Binding("d", "constructor")))
    @@ (<<"=", "d", "quote", "=", "quote">> :> Binding("d", "constructor"))
    @@ ((<<"bar", "is_e", ":", "e", "(", "t", ":">> \o Q("b") \o <<")">>) :>
           [Nothing EXCEPT !.binds = {<<"e", "constructor">>, <<"is_e", "discriminator">>, <<"t", "selector">>}])
    @@ (<<"bar", "(*", "b", "*)", "f", "(", "quote", "bar", "b", "quote", ")">> :> Binding("f", "constructor"))
    @@ (<<>> :> Nothing) @@ (<<"marginal", "bar", "b", "close">> :> Nothing)
Records == (<<"record", "'a", "a", "=">> :> Named("a"))
    @@ ((<<"record", "a", "=", "b", "+", "f", "::">> \o Q("b")) :> Both(Named("a"), Binding("f", "field")))
    @@ (<<"record">> :> Starting)
RecordLines == ((<<"a", "=">>) :> [Nothing EXCEPT !.name = "a"])
    @@ ((<<"g", "::">> \o Q("b")) :> Binding("g", "field")) @@ ((<<"quote", "h", "quote", "::", "b">>) :> Binding("h", "field"))
    @@ (<<>> :> Nothing) @@ (<<"marginal", "b", "::", "close">> :> Nothing) @@ (<<"(*", "b", "::">> :> Nothing)
    @@ (<<"*)">> :> Nothing)

\* Targets: parameters have no label, facts have.
Locales == (<<"locale", "a", "=", "b", "+">> :> Named("a"))
    @@ ((<<"locale", "quote", "a", "quote", "=", "assumes", "h", ":">> \o Q("b")) :> Both(Named("a"), Binding("h", "assumption")))
    @@ (<<"locale", "a", "=", "b", "for", "x", "and", "y", "::", "b", "+">> :> Named("a"))
LocaleLines == (<<"fixes", "x", "and", "y", "::", "b">> :> Nothing)
    @@ ((<<"assumes", "k", "[", "simp", "]", ":">> \o Q("b")) :> Binding("k", "assumption"))
    @@ ((<<"and", "l", ":">> \o Q("and")) :> Binding("l", "assumption"))
    @@ ((<<"defines", "m", ":">> \o Q("b")) :> Binding("m", "definition"))
    @@ ((<<"(*", "assumes", "b", ":", "*)">>) :> Nothing) @@ (<<"begin">> :> Starting)

\* Locales, what extends them and what is supplied to them.
Part(qualifier, name) == [qualifier |-> qualifier, name |-> name]
Continuing(part) == [Nothing EXCEPT !.role = "continues", !.parts = <<part>>]
Does(role, child, parts) == [Starting EXCEPT !.role = role, !.child = child, !.parts = parts]
Declaring(name, parts) == [Does("declares", name, parts) EXCEPT !.name = name]
Arity(label, parts) == [Does("supplies", "", parts) EXCEPT !.label = label]

Hierarchies == (<<"locale", "a">> :> Declaring("a", <<>>))
    @@ ((<<"locale", "a", "=", "fixes", "x", "assumes", "h", ":">> \o Q("b")) :>
           [Declaring("a", <<>>) EXCEPT !.binds = {<<"h", "assumption">>}])
HierarchyLines ==
       (<<"locale", "quote", "b", "quote", "=", "T.a", "+">> :> Declaring("b", <<Part("", "T.a")>>))
    @@ (<<"locale", "c", "=", "q", ":", "a", "+", "b", "quote", "x", "+", "a", "quote">> :>
           Declaring("c", <<Part("q", "a"), Part("", "b")>>))
    @@ (<<"context", "b", "begin">> :> Starting)
    @@ (<<"end">> :> Starting)
    @@ (<<"lemma", "g", ":", "quote", "interpretation", "a", "quote">> :> Named("g"))
    @@ (<<"subclass", "a">> :> Does("extends", "here", <<Part("", "a")>>))
    @@ (<<"instance", "c", "<", "b", "..">> :> Does("extends", "c", <<Part("", "b")>>))
    @@ (<<"instance", "prod", "::", "(", "b", ",", "b", ")", "quote", "{", "a", ",", "b", "}", "quote", "..">> :>
           Arity(<<"prod">>, <<Part("", "a"), Part("", "b")>>))
    @@ (<<"instantiation", "quote", "fun", "quote", "and", "nat", "::", "a">> :>
           Arity(<<"fun", "and", "nat">>, <<Part("", "a")>>))
    @@ (<<"sublocale", "quote", "b", "quote", "<", "quote", "and", "quote", ":", "a", "(", "+", ")">> :>
           Does("both", "b", <<Part("and", "a")>>))
    @@ (<<"sublocale", "b">> :> Does("both", "here", <<Part("", "b")>>))
    @@ (<<"interpretation", "a", "quote", "x", "+", "b", "quote">> :> Does("supplies", "here", <<Part("", "a")>>))
    @@ (<<"+", "r", ":", "b", "for", "x", "+", "a">> :> Continuing(Part("r", "b")))
    @@ (<<"from", "g", "interpret", "T.c", "by", "a">> :> Does("supplies", "here", <<Part("", "T.c")>>))
    @@ (<<"(*", "interpretation", "a", "*)">> :> Nothing)
    @@ (<<"by", "word">> :> Nothing)

\* Equations and the attributes that register them.
Prop(term) == <<"quote">> \o term \o <<"quote">>
OfF == Prop(<<"f", "x", "=", "g", "(", "rep", "x", ")">>)
Heading(heads, abstracts) == [Nothing EXCEPT !.heads = heads, !.abstracts = abstracts]
Attributed1(x, attrs) == [x EXCEPT !.attrs = attrs]
Stating(label, codes) == [Starting EXCEPT !.states = label, !.name = label, !.codes = codes]
Clausal(label, codes) == [Nothing EXCEPT !.states = label, !.codes = codes]
With(x, heads, abstracts) == [x EXCEPT !.heads = heads, !.abstracts = abstracts]
Attaching(label, code, heads) == With([Starting EXCEPT !.states = label, !.codes = {code}], heads, heads)

Equations == (<<"fun", "f", "and", "g", "where">> :> [Stating("f", {}) EXCEPT !.binds = {<<"g", "sibling">>}])
    @@ ((<<"definition", "f", "where", "[", "code", "del", "]", ":">> \o OfF) :> With(Stating("f", {"code del"}), {"f"}, {"x"}))
    @@ ((<<"definition", "f", "::">> \o Prop(<<"[", "code", "]">>) \o <<"where">>) :> Stating("f", {}))
EquationLines == (OfF :> Heading({"f"}, {"x"}))
    @@ (Prop(<<"g", "x", "=", "x", "==>", "f", "x", "=", "x">>) :> Heading({"f"}, {"x"}))
    @@ (Prop(<<"f", "@", "x", "=", "g", "x">>) :> Nothing)
    @@ (<<"open", "rep", "(", "f", "x", ")", "=", "g", "close">> :> Heading({"rep"}, {"f"}))
    @@ (<<"lemma", "a", "[", "code", "]", ":">> :> Attributed1(Stating("a", {"code"}), {"code"}))
    @@ (<<"lemma", "b", "[", "simp", ",", "code", "abstract", "]", ":">> :>
           Attributed1(Stating("b", {"code abstract"}), {"simp", "code"}))
    @@ (<<"lemma", "c", ":">> :> Stating("c", {}))
    @@ ((<<"lemma", "d", "[", "code_unfold", ",", "OF", "a", "[", "of", "x", ",", "code", "]", "]", ":">>) :>
           Attributed1(Stating("d", {}), {"code_unfold", "OF"}))
    @@ ((<<"assumes", "h", "[", "simp", "]", ":">> \o Prop(<<"g", "x", "=", "x">>) \o <<"shows">> \o OfF) :>
           Heading({"f"}, {"x"}))
    @@ ((<<"and", "e", "[", "code", "del", "]", ":">> \o Prop(<<"g", "x", "=", "f", "x">>)) :>
           With(Clausal("e", {"code del"}), {"g"}, {"x"}))
    @@ (<<"declare", "c", "[", "code", "]">> :> [Attaching("c", "code", {}) EXCEPT !.cites = {"c"}])
    @@ (<<"declare", "f.simps", "[", "code", "del", "]", "(*", "g.simps", "*)">> :> Attaching("f.simps", "code del", {"f"}))
    @@ (<<"lemmas", "k", "[", "code", "]", "=", "f_def", "[", "OF", "g.simps", "]">> :>
           [Attaching("k", "code", {"f"}) EXCEPT !.name = "k"])
    @@ (<<"declare", "[", "[", "code", "drop", ":", "f", "]", "]">> :> Attaching("f", "code drop", {"f"}))

Kinds == <<[first |-> Goals, lines |-> GoalLines], [first |-> Definitions, lines |-> DefinitionLines],
           [first |-> Functions, lines |-> FunctionLines], [first |-> Datatypes, lines |-> DatatypeLines],
           [first |-> Records, lines |-> RecordLines], [first |-> Locales, lines |-> LocaleLines],
           [first |-> Equations, lines |-> EquationLines],
           [first |-> Hierarchies, lines |-> HierarchyLines]>>
Bare == (<<"lemma">> \o Q("b"))

MCSays(line) ==
    LET k == CHOOSE k \in DOMAIN Kinds : line \in DOMAIN Kinds[k].first \cup DOMAIN Kinds[k].lines IN
    IF line \in DOMAIN Kinds[k].first THEN Kinds[k].first[line] ELSE Kinds[k].lines[line]

Alone == {<<"definition">>, <<"definition", "(", "in", "b", ")">>, <<"datatype">>, <<"record">>}
NameLines == {<<"a", "::">> \o Q("b") \o <<"where">>, <<"a", "=", "d">>, <<"a", "=">>}

\* What a line may follow in a theory Isabelle reads.
Legal(lines, line) ==
    LET last == Last(lines)
        Some(word) == \E i \in DOMAIN lines : word \in Range(lines[i])
        named == \E i \in DOMAIN lines : lines[i] \in NameLines
        Comment == last[1] = "(*" /\ "*)" \notin Range(last)
        open == last # <<>> /\ Comment
        joined == last # <<>> /\ {last[1]} \cap {"assumes", "and", "locale"} # {} /\ ":" \in Range(last)
    IN  /\ (Leads(line, {"*)"}) \/ line = <<"b", "*)">>) <=> open
        /\ line \in NameLines => lines[1] \in Alone /\ ~named
        /\ lines[1] \in Alone /\ ~named => \/ line = <<>>
                                                \/ Leads(line, {"(*", "b", "*)", "marginal"})
                                                \/ line \in NameLines
        /\ Leads(line, {"where", "for"}) => ~Some("where")
        /\ Leads(line, {"bar"}) => Some("where") \/ Some("=")
        /\ Leads(line, {"="}) => ~Some("=")
        /\ "::" \in Range(line) /\ Leads(lines[1], {"record"}) => Some("=")
        /\ Leads(line, {"assumes", "shows"}) /\ Leads(lines[1], {"lemma"}) => ~Some("shows")
        /\ line = Hypothesis => ~Some("shows") /\ joined
        /\ line = Conclusion => Some("shows")
        /\ Leads(line, {"and"}) /\ Leads(lines[1], {"locale"}) => joined
        /\ Some("by") => Leads(line, {"(*", "lemma"}) \/ Blank(line)
        /\ last # <<"begin">>

\* What may follow where locales are declared and used: blocks are closed,
\* and `interpret' belongs to a proof.
LegalSite(lines, line) ==
    LET last == Last(lines)
        Count(word) == Cardinality({i \in DOMAIN lines : word \in Range(lines[i])})
        Leading(word) == {i \in DOMAIN lines : Leads(lines[i], {word})}
        inBlock == Cardinality(Leading("context")) > Cardinality(Leading("end"))
        Lately(words) == Leads(last, words) \/ (Leads(last, {"(*"}) /\ Leads(Last(Front(lines)), words))
    IN  /\ line \notin Range(lines)
        /\ Leads(line, {"subclass"}) \/ line = <<"sublocale", "b">> => inBlock
        /\ Leads(line, {"context"}) => ~inBlock /\ \E i \in Leading("locale") : "b" \in Range(lines[i])
        /\ Leads(line, {"locale", "instance", "instantiation"}) => ~inBlock
        /\ Leads(line, {"end"}) => inBlock
        /\ Leads(line, {"from", "by"}) => Lately({"lemma", "from"})
        /\ Leads(line, {"subclass"}) => ~Lately({"lemma", "from", "by"})
        /\ Leads(line, {"+"}) => Leads(last, {"interpretation", "sublocale"})

\* What may follow equations: the body of the first, then statements.
LegalCode(lines, line) ==
    LET last == Last(lines)
        lemmas == {i \in DOMAIN lines : Leads(lines[i], {"lemma"})}
        Term1(l) == l[1] \in {"quote", "open", "assumes", "and"}
    IN  /\ line \notin Range(lines)
        /\ Leads(line, {"quote", "open"}) => Last(last) \in {":", "where"}
        /\ Last(last) = "where" => Leads(line, {"quote"})
        /\ Last(last) = ":" => Leads(line, {"quote", "open", "assumes"})
        /\ Leads(line, {"assumes"}) => lemmas # {} /\ Last(last) = ":"
        /\ Leads(line, {"and"}) => lemmas # {} /\ Term1(last)

\* Bound: the lines of a theory of the k-th kind.
Longest(k) == IF k > Len(Kinds) - 2 THEN 5 ELSE 4

MCFollows(lines) ==
    IF lines = <<>> THEN UNION {DOMAIN Kinds[k].first : k \in DOMAIN Kinds}
    ELSE LET k == CHOOSE k \in DOMAIN Kinds : lines[1] \in DOMAIN Kinds[k].first IN
         IF Last(lines) = Bare \/ Len(lines) = Longest(k) THEN {}
         ELSE IF k = Len(Kinds) - 1 THEN {l \in DOMAIN Kinds[k].lines : LegalCode(lines, l)}
         ELSE IF k = Len(Kinds) THEN {l \in DOMAIN Kinds[k].lines : LegalSite(lines, l)}
         ELSE {l \in {Bare} \cup DOMAIN Kinds[k].lines : Legal(lines, l)}

\* Every name a declaration binds is indexed under its kind, and no other, and
\* the declaration has the name its author gave it.  It is said of declarations
\* without a blank line inside (Gapless), written in the lines above: README,
\* section 6, lists the lines on which the scan does not find what they say.
NamesHold == phase = "parsed" => DeclarationsExact(NamedEntries)

\* Every line that instantiates or registers, under the right name, and no
\* other.
SitesHold == phase = "parsed" => SitesExact(NamedEntries, BlockStacks) /\ CodeExact(NamedEntries)
=============================================================================
