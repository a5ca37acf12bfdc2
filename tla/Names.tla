-------------------------------- MODULE Names --------------------------------
(***************************************************************************)
(* What a declaration is called and what else it binds: read off the raw   *)
(* text behind its command word, where a name may stand in a term, and off *)
(* the outer view of its lines, where terms cannot be mistaken for names.  *)
(***************************************************************************)
EXTENDS Theory, TLC

CONSTANT Says(_)        \* what a line declares: [starts, name, binds, attrs]

Quotes == {"quote", "open", "close"}
Unnamed == "?"
TypeVars == {"'a"}
ReservedWords ==
    {"assumes", "shows", "fixes", "obtains", "defines", "notes", "where", "for", "and", "if"} \cup ProofWords
NameLookahead == 3

IsIdentifier(tok) == IsName(tok) /\ tok \notin Quotes \cup Markers \cup TypeVars

\* The text behind the command word of line i.
After(i) ==
    LET text == SubSeq(doc[i], SelectInSeq(doc[i], LAMBDA w : w = Command(i)) + 1, Len(doc[i]))
    IN  IF Command(i) \in {"definition", "fun", "datatype", "record"} /\ text # <<>> /\ Last(text) = "where"
        THEN Front(text) ELSE text

\* _balanced_end: the place behind what closes the bracket at k, or 0.
BalancedEnd(s, k, open, close) ==
    LET Count(words, m) == Cardinality({j \in k..m : s[j] \in words})
        ends == {m \in k..Len(s) : Count(open, m) = Count({close}, m)}
    IN  IF ends = {} THEN 0 ELSE Min(ends) + 1

\* _strip_decl_prefix: modifiers, formal comments and type arguments.
NameAt(s, typevars) ==
    LET Past(k) == CASE s[k] = "(" -> BalancedEnd(s, k, {"("}, ")")
                     [] s[k] \in Markers -> BalancedEnd(s, k, Markers \cup {"open"}, "close")
                     [] s[k] \in TypeVars /\ typevars /\ k < Len(s) -> k + 1
                     [] OTHER -> 0
        From[k \in 1..(Len(s) + 1)] ==
            IF k > Len(s) \/ Past(k) = 0 THEN k ELSE From[Past(k)]
    IN  From[1]

\* _name_from: a quoted spelling is a name where it is a label or a type.
NameFrom(s, k, needsLabel) ==
    LET close == k + 2
        quoted == k \in DOMAIN s /\ s[k] = "quote" /\ close \in DOMAIN s /\ s[close] = "quote"
        past == PastAttributes(s, close + 1)
    IN  IF quoted /\ (needsLabel => past \in DOMAIN s /\ s[past] \in {":", "::"}) THEN s[k + 1]
        ELSE IF k \in DOMAIN s /\ IsIdentifier(s[k]) /\ s[k] \notin ReservedWords THEN s[k]
        ELSE Unnamed

\* _lhs_head_name: the head of an equation that stands for the name.
LhsHeadName(s, k) ==
    LET close == Min({m \in DOMAIN s : m > k /\ s[m] = "quote"} \cup {Len(s) + 1})
        body == SubSeq(s, k + 1, close - 1)
    IN  IF k \in DOMAIN s /\ s[k] = "quote" /\ close <= Len(s) /\ "=" \in Range(body)
        THEN NameFrom(body, 1, FALSE) ELSE Unnamed

\* _parse_name, _parse_def_name, _parse_typedecl_name
ParseName(cmd, s) ==
    LET typed == cmd \in {"datatype", "record"}
        at == NameAt(s, typed)
        name == NameFrom(s, at, ~typed)
    IN  IF name = Unnamed /\ cmd = "definition" THEN LhsHeadName(s, at) ELSE name

\* _lookahead_name: the first content line below a command that stands alone.
LookaheadName(cmd, start) ==
    LET Redacted(j) == ~Blank(doc[j]) /\ live[j] = <<>>
        Skipped(j) == Blank(doc[j]) \/ Redacted(j) \/ TextOpens(j) = {j}
        firsts == {j \in start..N : ~Skipped(j)}
        j == Min(firsts)
        spent == Cardinality({m \in start..(j - 1) : ~Redacted(m)})
    IN  IF firsts = {} \/ spent >= NameLookahead \/ Command(j) # "none" THEN Unnamed
        ELSE ParseName(cmd, Words(doc[j]))

\* The name extract_entries gives an entry, of which the command word is
\* followed by `head'.
NameRead(cmd, head, line) ==
    LET alone == NameAt(head, cmd \in {"datatype", "record"}) > Len(head)
    IN  IF cmd # "lemma" /\ alone THEN LookaheadName(cmd, line + 1) ELSE ParseName(cmd, head)

TargetName(opened) == IF opened = <<>> THEN Unnamed ELSE opened[1].name

EntryName(e) ==
    CASE e.tag \in {"axiom", "fact"} -> e.name
      [] e.tag = "locale" /\ Leads(outer[e.line], TargetOpeners) -> TargetName(Target(e.line, 1))
      [] e.tag \in {"goal", "definition", "fun", "datatype", "record"} ->
            NameRead(Command(e.line), After(e.line), e.line)
      [] OTHER -> Unnamed

-----------------------------------------------------------------------------
(***************************************************************************)
(* What else it binds, as <<name, kind>>.                                  *)
(***************************************************************************)
\* The outer view of the lines of a declaration, in one piece.
OuterOf(e) == FlattenSeq([k \in 1..(e.last - e.line + 1) |-> outer[e.line + k - 1]])
Follow(s, words) == {k \in DOMAIN s : k > 1 /\ s[k - 1] \in words /\ IsIdentifier(s[k])}

\* The words behind an `and'; one behind another is taken for a name.
Anded(s) == {k \in Follow(s, {"and"}) : k = 2 \/ s[k - 2] # "and"}

\* Mutant: the parameters behind `for' are read on with the constants.
AndSiblingsPastFor(s, own) ==
    LET head == Min({k \in DOMAIN s : s[k] = "where"} \cup {Len(s) + 1}) - 1
    IN  {<<s[k], "sibling">> : k \in {k \in Anded(s) : k <= head /\ s[k] # own}}

\* _and_siblings: the constants declared beside the first, in the head.
AndSiblings(s, own) ==
    LET head == Min({k \in DOMAIN s : s[k] \in {"where", "for"}} \cup {Len(s) + 1}) - 1
    IN  {<<s[k], "sibling">> : k \in {k \in Anded(s) : k <= head /\ s[k] # own}}

\* _rule_labels: named equations, behind `where' or a bar.
RuleLabels(s, own) ==
    {<<s[k], "rule">> : k \in {k \in Follow(s, {"where", "bar"}) : Labelled(s, k, ":") /\ s[k] # own}}

\* _constructors: each alternative's discriminator, constructor and selectors.
Constructors(s, own) ==
    LET from == Min({k \in DOMAIN s : s[k] = "="} \cup {Len(s) + 1})
        heads == {k \in Follow(s, {"=", "bar"}) : k > from /\ (s[k - 1] = "=" => k = from + 1)}
        Colon(k) == k + 1 \in DOMAIN s /\ s[k + 1] = ":"
        Tested(k) == Colon(k) /\ k + 2 \in DOMAIN s /\ IsIdentifier(s[k + 2])
        selectors == {k \in Follow(s, {"("}) : k > from /\ Colon(k)}
        all == {<<s[k], "discriminator">> : k \in {k \in heads : Tested(k)}}
               \cup {<<s[IF Tested(k) THEN k + 2 ELSE k], "constructor">> : k \in heads}
               \cup {<<s[k], "selector">> : k \in selectors}
    IN  {b \in all : b[1] # own}

\* _record_fields: a name and its type on one line, quoted or not.
RecordFields(e) ==
    LET Field(i, n) ==
            LET l == live[i] IN
            \/ ~l[n].inner /\ IsIdentifier(l[n].tok)
               /\ n < Len(l) /\ ~l[n + 1].inner /\ l[n + 1].tok = "::"
            \/ l[n].inner /\ n > 1 /\ l[n - 1].opens /\ l[n - 1].tok = "quote"
               /\ n + 2 \in DOMAIN l /\ l[n + 1].tok = "quote" /\ l[n + 2].tok = "::"
    IN  UNION {{<<live[i][n].tok, "field">> : n \in {n \in DOMAIN live[i] : Field(i, n)}} : i \in e.line..e.last}

\* _locale_facts: `and' goes on with the element before it, and what binds
\* parameters ends it.
LocaleFacts(s, own) ==
    LET Kinds == ("assumes" :> "assumption") @@ ("defines" :> "definition") @@ ("notes" :> "note")
        marks == {k \in DOMAIN s : s[k] \in DOMAIN Kinds \cup {"fixes", "constrains", "for"}}
        Current(k) == LET before == {m \in marks : m < k} IN
                      IF before = {} \/ s[Max(before)] \notin DOMAIN Kinds THEN ""
                      ELSE Kinds[s[Max(before)]]
        labels == {k \in Follow(s, DOMAIN Kinds \cup {"and"}) :
                      Labelled(s, k, ":") /\ Current(k) # "" /\ s[k] # own}
    IN  {<<s[k], Current(k)>> : k \in labels}

\* The named conclusions of a goal, from the line on that `shows' them.
Conjuncts(e) ==
    LET Said(i) == IF i = e.line THEN After(i) ELSE Words(doc[i])
        Shows(i) == IF i = e.line THEN "shows" \in Range(Said(i)) ELSE Leads(doc[i], {"shows"})
        read == {i \in e.line..e.last : i \in Prose => outer[i] # <<>>}
        Named(s) == {s[k] : k \in {k \in Follow(s, {"shows", "and"}) :
                                      k + 1 \in DOMAIN s /\ s[k + 1] \in {":", "::"}}}
    IN  UNION {{<<n, "conjunct">> : n \in Named(Said(i))} :
                 i \in {i \in read : \E j \in read : j <= i /\ Shows(j)}}

Bindings(e, s, own) ==
    CASE e.tag = "goal" -> Conjuncts(e)
      [] e.tag = "fun" -> AndSiblings(s, own) \cup RuleLabels(s, own)
      [] e.tag = "definition" -> RuleLabels(s, own)
      [] e.tag = "datatype" -> Constructors(s, own)
      [] e.tag = "record" -> RecordFields(e)
      [] e.tag = "locale" -> LocaleFacts(s, own)
      [] OTHER -> {}

\* The entries with the names they have and bind.
Bound(e) == e @@ ("binds" :> Bindings(e, OuterOf(e), e.name))
NamedEntries == [k \in DOMAIN entries |-> Bound([entries[k] EXCEPT !.name = EntryName(entries[k])])]

\* _header_attrs: the attributes behind the name of a goal.
HeaderAttrs(e) ==
    LET s == After(e.line)
        k == NameAt(s, FALSE)
        past == IF k \in DOMAIN s /\ s[k] = "quote"
                THEN Min({m \in DOMAIN s : m > k /\ s[m] = "quote"} \cup {Len(s)}) + 1 ELSE k + 1
        close == IF past \in DOMAIN s /\ s[past] = "[" THEN BalancedEnd(s, past, {"["}, "]") ELSE 0
        Count(words, j) == Cardinality({m \in (past + 1)..j : s[m] \in words})
        Outer(j) == Count({"[", "("}, j - 1) = Count({"]", ")"}, j - 1)
        heads == {j \in (past + 1)..(close - 2) : (j = past + 1 \/ s[j - 1] = ",") /\ Outer(j)}
    IN  IF e.tag # "goal" THEN {} ELSE {s[j] : j \in heads}

-----------------------------------------------------------------------------
\* A declaration goes on to the next command, whatever blank lines say.
Extent(e) ==
    LET ends == {i \in (e.line + 1)..N : doc[i] # <<>> /\ Says(doc[i]).starts}
    IN  e.line..(Min(ends \cup {N + 1}) - 1)

SaidOf(e) == {Says(doc[i]) : i \in {i \in Extent(e) : ~Blank(doc[i])}}

(***************************************************************************)
(* Every name a declaration binds is indexed under its own kind, and       *)
(* nothing else is: no word of a term, a type or a comment, no parameter   *)
(* and no hypothesis.  A blank line inside a declaration ends the scan, so *)
(* the promise is for those without one.                                   *)
(***************************************************************************)
Gapless(e) == \A i, j \in Extent(e) : Blank(doc[i]) /\ i < j => Blank(doc[j])

BindingsExact(e, told) == e.binds = UNION {s.binds : s \in told}

(***************************************************************************)
(* An entry has the name its author gave it, on the line of the command or *)
(* below it, with comments in between.                                     *)
(***************************************************************************)
NamesExact(e, told) ==
    LET names == {s.name : s \in told} \ {""} IN
    /\ e.name = IF names = {} THEN Unnamed ELSE CHOOSE n \in names : TRUE
    /\ HeaderAttrs(e) = Says(doc[e.line]).attrs

DeclarationsExact(es) ==
    \A k \in DOMAIN es :
        Gapless(es[k]) => BindingsExact(es[k], SaidOf(es[k])) /\ NamesExact(es[k], SaidOf(es[k]))
=============================================================================
