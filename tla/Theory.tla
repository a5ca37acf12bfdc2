------------------------------- MODULE Theory -------------------------------
(***************************************************************************)
(* _parse_one: from the lines of a theory and their views to the entries,  *)
(* each with the lines it owns, the lines its proof takes, and the lines a *)
(* tool may cut to remove it.                                              *)
(***************************************************************************)
EXTENDS Regions, FiniteSetsExt

CONSTANTS
    Follows(_),             \* the lines that may follow the beginning of a theory
    MaxLines,               \* bound: lines of a theory
    PreambleMax, GapMax     \* lines of a docstring, blank lines below it

VARIABLES
    phase,      \* "reading" or "parsed"
    entries     \* the parsed entries, in source order

vars == <<regionVars, phase, entries>>

DeclWords == {"lemma", "definition", "fun", "datatype", "record", "locale", "axiomatization", "lemmas"}
Boundary == {"begin", "end", "lemmas", "locale", "context", "declare", "instance", "instantiation",
             "interpretation", "sublocale"} \cup MLCommands
TargetOpeners == {"locale", "context", "instantiation"}
NotATargetName == {"begin", "fixes", "assumes", "notes", "defines"}
ProofWords == {"proof", "by", "using", "apply", "unfolding", "sorry", "oops"}
Terminators == {"by", "done", "sorry", "oops", ".", ".."}
Modifiers == {"private"}

Schematic == {"?p"}
Punctuation == {"(", ")", "[", "]", "{", "}", ":", "::", "=", ",", ".", "..", "bar", "<", "+", "@"}
IsName(tok) == tok \notin Punctuation \cup Schematic

\* The index behind the attributes that start at k, if some do.
PastAttributes(toks, k) ==
    IF k \in DOMAIN toks /\ toks[k] = "["
    THEN 1 + Min({j \in k..Len(toks) : toks[j] = "]"} \cup {Len(toks)}) ELSE k

Labelled(toks, k, sep) ==
    /\ k \in DOMAIN toks
    /\ IsName(toks[k])
    /\ LET j == PastAttributes(toks, k + 1) IN j \in DOMAIN toks /\ toks[j] = sep

N == Len(doc)
LinesOf(set) == {i \in DOMAIN doc : i \in set}

\* _match_decl_at: the first command word of an outer line, behind a modifier.
Unmodified(line) == IF Leads(line, Modifiers) /\ Len(line) > 1 THEN Tail(line) ELSE line
Command(i) ==
    LET line == Unmodified(outer[i]) IN
    IF Leads(line, DeclWords) THEN line[1] ELSE "none"

BoundaryAt(i) == Leads(outer[i], Boundary)

-----------------------------------------------------------------------------
(***************************************************************************)
(* Prose: text blocks, notes and headings are found on the raw lines.      *)
(***************************************************************************)
Opens(i) == Cardinality({k \in DOMAIN doc[i] : doc[i][k] \in Markers \cup {"open"}})
Closes(i) == Cardinality({k \in DOMAIN doc[i] : doc[i][k] = "close"})

\* _find_balanced_close: the first line from `start' on with nothing open.
BalancedClose(start) ==
    LET Depth(i) == MapThenSumSet(LAMBDA j : Opens(j) - Closes(j), start..i)
        ends == {i \in start..N : Depth(i) <= 0}
    IN  IF ends = {} THEN start ELSE Min(ends)

QuotedClose(start) ==
    LET Quotes(i) == Cardinality({k \in DOMAIN doc[i] : doc[i][k] = "quote"})
        ends == {i \in (start + 1)..N : Quotes(i) > 0}
    IN  IF Quotes(start) >= 2 \/ ends = {} THEN start ELSE Min(ends)

\* Where the cartouche of a block starts that begins on line i, if one does.
TextOpens(i) ==
    LET line == Words(doc[i]) IN
    IF ~Leads(doc[i], {"text"}) THEN {}
    ELSE IF Len(line) > 1 THEN (IF line[2] = "open" THEN {i} ELSE {})
    ELSE IF i < N /\ Opens(i + 1) > 0 THEN {i + 1} ELSE {}
NoteOpens(i) == IF "marginal" \in Range(doc[i]) THEN {i} ELSE {}

\* _scan_balanced_blocks: block after block, as [first, last].
Blocks(opens) ==
    LET From[i \in 1..(N + 1)] ==
            IF i > N THEN {}
            ELSE IF opens[i] = {} THEN From[i + 1]
            ELSE LET last == BalancedClose(CHOOSE at \in opens[i] : TRUE) IN
                 {[first |-> i, last |-> last]} \cup From[last + 1]
    IN  From[1]

Covered(blocks) == UNION {b.first..b.last : b \in blocks}

TextBlocks == Blocks([i \in DOMAIN doc |-> TextOpens(i)])
CommentLines == Covered(Blocks([i \in DOMAIN doc |-> NoteOpens(i)]))
Prose == Covered(TextBlocks) \cup NonIsar

\* _heading_at, on a line that is not known to be prose.
TitleOpens(line) == Leads(line, {"open", "quote"})
HeadingAt(i, prose) ==
    /\ i \notin prose
    /\ Leads(doc[i], {"section"})
    /\ \/ Len(Words(doc[i])) > 1 /\ TitleOpens(Tail(Words(doc[i])))
       \/ Len(Words(doc[i])) = 1 /\ i < N /\ TitleOpens(doc[i + 1])

SectionLines(prose) == {i \in DOMAIN doc : HeadingAt(i, prose)}

\* extract_heading_spans: the lines of a heading, to the close of its title.
HeadingSpans(prose) ==
    LET Title(i) == IF Len(Words(doc[i])) > 1 THEN i ELSE i + 1
        Opener(i) == IF Len(Words(doc[i])) > 1 THEN Words(doc[i])[2] ELSE Words(doc[i + 1])[1]
        TitleEnd(i) == IF Opener(i) = "quote" THEN QuotedClose(Title(i)) ELSE BalancedClose(Title(i))
        From[i \in 1..(N + 1)] ==
            IF i > N THEN {}
            ELSE IF ~HeadingAt(i, prose) THEN From[i + 1]
            ELSE {[first |-> i, last |-> TitleEnd(i)]} \cup From[TitleEnd(i) + 1]
    IN  From[1]

\* _structural_command_lines: reported above the blank lines in front of them.
StructuralLines ==
    {LET up == {j \in 1..i : \A m \in j..(i - 1) : Blank(doc[m])} IN Min(up) :
        i \in {j \in DOMAIN doc : BoundaryAt(j) /\ j \notin CommentLines \cup NonIsar}}

-----------------------------------------------------------------------------
(***************************************************************************)
(* extract_entries: each route says which entries a command makes and on   *)
(* which line the search goes on.                                          *)
(***************************************************************************)
Entry(i, tag, last, proof) ==
    [line |-> i, tag |-> tag, name |-> "?", last |-> last, proof |-> proof,
     private |-> FALSE, src |-> i, stop |-> i, body |-> i, shares |-> FALSE, blocks |-> <<>>]

\* What stops a declaration outside its own terms.
Ends(i) == Command(i) # "none" \/ (~openAt[i] /\ BoundaryAt(i))

\* The statement of a goal, and the line its proof starts on (0: none).
GoalFrom(decl, skip) ==
    LET Next(i, blank, last) == [i |-> i, blank |-> blank, last |-> last, proof |-> 0, more |-> TRUE]
        Stop(s) == [s EXCEPT !.more = FALSE]
        Step(s) ==
            LET i == s.i IN
            IF ~s.more THEN s
            ELSE IF i > N THEN Stop(s)
            ELSE IF Blank(doc[i]) THEN Next(i + 1, ~openAt[i], s.last)
            ELSE IF Leads(outer[i], ProofWords) THEN [Stop(s) EXCEPT !.proof = i]
            ELSE IF Ends(i) THEN Stop(s)
            ELSE IF i \in skip /\ outer[i] = <<>> THEN Next(i + 1, s.blank, s.last)
            ELSE IF s.blank
                 THEN IF openAt[i] \/ Leads(doc[i], {"where"}) THEN Next(i + 1, s.blank, s.last)
                      ELSE Stop(s)
            ELSE Next(i + 1, s.blank, i)
        At[k \in decl..(N + 1)] ==
            IF k = decl THEN Next(decl + 1, FALSE, decl)
            ELSE LET before == At[k - 1] IN Step(before)
        end == At[N + 1]
        inline == {k \in decl..end.last : Range(outer[k]) \cap ProofWords # {}}
    IN  [last |-> end.last, next |-> end.i,
         proof |-> IF end.proof > 0 \/ inline = {} THEN end.proof ELSE Min(inline)]

\* _scan_decl_body: the last line of a declaration and the next line to read.
BarContinues(i) ==
    LET ahead == {j \in i..N : outer[j] # <<>>} IN
    ahead # {} /\ Leads(outer[Min(ahead)], {"bar"})

FieldContinues(i) ==
    LET ahead == {j \in i..N : live[j] # <<>>} IN
    ahead # {} /\ "::" \in Range(outer[Min(ahead)])

Goes(decl, i) == BarContinues(i) \/ (Command(decl) = "record" /\ FieldContinues(i))

BodyFrom(decl) ==
    LET Read1(i) == openAt[i] \/ live[i] # <<>>
        Where(i) == \E j \in (decl + 1)..(i - 1) : Read1(j) /\ "where" \in Range(doc[j])
        Defined(i) == /\ Command(decl) = "definition" /\ Where(i)
                      /\ "quote" \in Range(doc[i])
                      /\ ~(i < N /\ openAt[i + 1])
        From[i \in (decl + 1)..(N + 1)] ==
            IF i > N THEN [next |-> i, last |-> 0]
            ELSE IF Blank(doc[i]) /\ ~openAt[i]
                 THEN IF Goes(decl, i + 1) THEN From[i + 1] ELSE [next |-> i, last |-> 0]
            ELSE IF Ends(i) \/ (~openAt[i] /\ Leads(doc[i], {"text"})) THEN [next |-> i, last |-> 0]
            ELSE IF ~Read1(i) THEN From[i + 1]
            ELSE IF Defined(i) THEN [next |-> i + 1, last |-> i]
            ELSE LET rest == From[i + 1] IN [rest EXCEPT !.last = Max({i, @})]
        from == From[decl + 1]
    IN  [from EXCEPT !.last = Max({decl, @})]

\* _axiom_line, and the scan of one axiomatization: a nameless entry, one for
\* each label until `for', on to a blank line or a word that stands flush left.
Continues(line) == Leads(line, {"where", "and", "for"})

Labels(line) ==
    LET upto == SelectInSeq(line, LAMBDA w : w = "for") IN
    IF ~Continues(line) /\ ~Leads(line, {"label"}) THEN <<>>
    ELSE SelectSeq(IF upto = 0 THEN line ELSE SubSeq(line, 1, upto), LAMBDA w : w = "label")

FlushWord(i) == doc[i][1] \notin {"tab", "bar", "quote", "open", "close", "marginal", "cancel", "ML",
                                  "(*", "*)", "{*", "*}", "(", ")", "{", "}"}

AxiomsFrom(decl) ==
    LET Axioms(i, line) == [k \in DOMAIN Labels(line) |->
            [Entry(i, "axiom", i, 0) EXCEPT !.name = Labels(line)[k]]]
        Line(i) == IF \E j \in decl..(i - 1) : "for" \in Range(outer[j]) THEN <<>> ELSE outer[i]
        From[i \in (decl + 1)..(N + 1)] ==
            IF i > N THEN [next |-> i, found |-> <<>>]
            ELSE IF /\ Labels(Line(i)) = <<>>
                    /\ ~Continues(outer[i])
                    /\ Blank(doc[i]) \/ FlushWord(i)
                 THEN [next |-> i, found |-> <<>>]
            ELSE LET rest == From[i + 1] IN
                 [rest EXCEPT !.found = Axioms(i, Line(i)) \o @]
        head == Axioms(decl, Tail(Unmodified(outer[decl])))
    IN  [From[decl + 1] EXCEPT !.found = <<Entry(decl, "axiom", decl, 0)>> \o head \o @]

\* _thmdefs: an entry for each group of a `lemmas' that binds a name, over its
\* own lines.
FactGroups(decl, last, flat) ==
    LET ands == {k \in DOMAIN flat : flat[k].tok = "and"}
        Start(k) == IF k = 1 THEN decl ELSE IF k \in DOMAIN flat THEN flat[k].line ELSE last
        Stop(k) == Min({Max({Start(k), Start(j + 1) - 1}) : j \in {j \in ands : j >= k}} \cup {last})
        named == {k \in {1} \cup {j + 1 : j \in ands} : Labelled([j \in DOMAIN flat |-> flat[j].tok], k, "=")}
        Fact(k) == [Entry(Start(k), "fact", Stop(k), 0) EXCEPT !.name = flat[k].tok]
    IN  [n \in 1..Cardinality(named) |-> Fact(SetToSortSeq(named, <)[n])]

FactsFrom(decl) ==
    LET Toks(i) == [k \in DOMAIN outer[i] |-> [line |-> i, tok |-> outer[i][k]]]
        Flat(last) == Tail(FlattenSeq([k \in 1..(last - decl + 1) |-> Toks(decl + k - 1)]))
        Found(body) == [next |-> body.next, found |-> FactGroups(decl, body.last, Flat(body.last))]
    IN  Found(BodyFrom(decl))

\* One command: its entries and the line the search goes on with.
CommandAt(i, skip) ==
    CASE Command(i) = "lemma" ->
            LET g == GoalFrom(i, skip) IN [next |-> g.next, found |-> <<Entry(i, "goal", g.last, g.proof)>>]
      [] Command(i) \in {"definition", "fun", "datatype", "record", "locale"} ->
            LET d == BodyFrom(i) IN [next |-> d.next, found |-> <<Entry(i, Command(i), d.last, 0)>>]
      [] Command(i) = "axiomatization" -> AxiomsFrom(i)
      [] Command(i) = "lemmas" -> FactsFrom(i)

ExtractEntries ==
    LET skip == Prose
        Stamped(i, found) == [k \in DOMAIN found |->
            [found[k] EXCEPT !.private = Leads(outer[i], Modifiers)]]
        From[i \in 1..(N + 1)] ==
            LET Then(c) == Stamped(i, c.found) \o From[c.next] IN
            IF i > N THEN <<>>
            ELSE IF Command(i) = "none" THEN From[i + 1]
            ELSE Then(CommandAt(i, skip))
    IN  From[1]

-----------------------------------------------------------------------------
(***************************************************************************)
(* The passes over the entries, in the order _parse_one runs them.         *)
(***************************************************************************)
\* _attach_preambles: a small text block just above the next entry.
Preamble(es, k) ==
    LET e == es[k]
        mine == {b \in TextBlocks :
                    /\ b.last - b.first + 1 <= PreambleMax
                    /\ b.last < e.line
                    /\ \A j \in DOMAIN es : es[j].line > b.last => es[j].line > e.line \/ j >= k
                    /\ \A l \in (b.last + 1)..(e.line - 1) : Blank(doc[l])
                    /\ e.line - 1 - b.last <= GapMax}
    IN  IF mine = {} THEN e.line ELSE Max({b.first : b \in mine})

AttachPreambles(es) == [k \in DOMAIN es |-> [es[k] EXCEPT !.src = Preamble(es, k)]]

ComputeSpans(es) ==
    LET bounds == {es[k].src : k \in DOMAIN es} \cup SectionLines(Prose) \cup StructuralLines
        After(l) == {b \in bounds : b > l}
    IN  [k \in DOMAIN es |-> [es[k] EXCEPT !.stop =
            IF After(es[k].line) = {} THEN N ELSE Min(After(es[k].line)) - 1]]

\* _proof_close_line: the line where the goal of the entry is closed, or 0.
CloseStep(s, line, tok) ==
    LET Pop(kinds) == IF kinds = <<>> THEN kinds ELSE Front(kinds)
        NoSubgoal(kinds) == IF kinds # <<>> /\ Last(kinds) = "subgoal" THEN Front(kinds) ELSE kinds
    IN  IF s.at > 0 THEN s
        ELSE IF tok \in {"(", "["} THEN [s EXCEPT !.nest = @ + 1]
        ELSE IF tok \in {")", "]"} THEN [s EXCEPT !.nest = Max({0, @ - 1})]
        ELSE IF s.nest > 0 THEN s
        ELSE IF tok \in {"{", "proof", "subgoal"} THEN [s EXCEPT !.kinds = Append(@, tok)]
        ELSE IF tok = "}" THEN [s EXCEPT !.kinds = Pop(@)]
        ELSE IF tok = "qed"
             THEN IF Pop(s.kinds) = <<>> THEN [s EXCEPT !.at = line]
                  ELSE [s EXCEPT !.kinds = NoSubgoal(Pop(@))]
        ELSE IF tok \in Terminators
             THEN IF s.kinds = <<>> THEN [s EXCEPT !.at = line] ELSE [s EXCEPT !.kinds = NoSubgoal(@)]
        ELSE s

ProofCloseLine(first, last) ==
    LET Line(s, i) == FoldLeft(LAMBDA t, tok : CloseStep(t, i, tok), s, outer[i])
    IN  FoldLeft(Line, [kinds |-> <<>>, nest |-> 0, at |-> 0],
                 [k \in 1..(last - first + 1) |-> first + k - 1]).at

\* Mutant: any text block or heading ends a proof.
ExtentToProse(e, noise, inText) ==
    LET stops == {i \in (e.proof + 1)..e.stop : i \notin noise /\ ~Blank(doc[i]) /\
                    (Leads(doc[i], {"text", "section"}) \/ doc[i][1] \in DeclWords)}
        last == IF stops = {} THEN e.stop ELSE Min(stops) - 1
    IN  Max({e.proof} \cup {i \in e.proof..last : ~Blank(doc[i])})

\* _proof_extent: prose ends a proof only when the proof is closed.
ProofExtent(e, noise, inText) ==
    LET closes == ProofCloseLine(e.proof, e.stop)
        ProseAt(i) == \/ Leads(doc[i], {"text"}) /\ Len(Words(doc[i])) > 1
                      \/ HeadingAt(i, {})
        stops == {i \in (e.proof + 1)..e.stop :
                    /\ i \notin noise \cup inText
                    /\ ~Blank(doc[i])
                    /\ \/ ProseAt(i) /\ (closes = 0 \/ i > closes)
                       \/ doc[i][1] \in DeclWords}
        last == IF stops = {} THEN e.stop ELSE Min(stops) - 1
    IN  Max({e.proof} \cup {i \in e.proof..last : ~Blank(doc[i])})

BodyEnds(es) ==
    LET noise == NonIsar
        inText == UNION {(b.first + 1)..b.last : b \in TextBlocks}
    IN  [k \in DOMAIN es |-> [es[k] EXCEPT !.body =
            IF es[k].proof > 0 THEN ProofExtent(es[k], noise, inText) ELSE es[k].last]]

\* Entry.cut_span before the check for shared lines.
LineCut(e) == [first |-> e.src, last |-> Max({e.line, Min({e.body, e.stop})})]

MarkShared(es) == [k \in DOMAIN es |-> [es[k] EXCEPT !.shares =
    \/ k > 1 /\ LineCut(es[k - 1]).last >= es[k].src
    \/ k < Len(es) /\ LineCut(es[k]).last >= es[k + 1].src]]

\* _target_opener: the block the opener at word k announces, if it has a name;
\* a quoted one is only in the live view.
Target(i, k) ==
    LET line == live[i]
        at == SelectSeq([n \in DOMAIN line |-> n], LAMBDA n : ~line[n].inner)[k]
        Quoted == at + 2 \in DOMAIN line /\ line[at + 1].tok = "quote"
        Bare == at + 1 \in DOMAIN line /\ IsName(line[at + 1].tok)
                /\ line[at + 1].tok \notin NotATargetName \cup {"quote", "open"}
        Block(n) == <<[line |-> i, name |-> line[n].tok]>>
    IN  IF Quoted THEN Block(at + 2) ELSE IF Bare THEN Block(at + 1) ELSE <<>>

\* _block_stacks: `begin' belongs to the last opener before it, whatever line.
BlockStep(s, i, k) ==
    LET tok == outer[i][k]
        leads == k = 1 \/ outer[i][k - 1] \in {"begin", "end"}
    IN  CASE tok \in TargetOpeners /\ leads -> [s EXCEPT !.pending = Target(i, k)]
          [] tok = "begin" -> [stack |-> Append(s.stack, s.pending), pending |-> <<>>]
          [] tok = "end" /\ s.stack # <<>> -> [s EXCEPT !.stack = Front(@)]
          [] OTHER -> s

BlockStacks ==
    LET Before[i \in 1..(N + 1)] ==
            IF i = 1 THEN [stack |-> <<>>, pending |-> <<>>]
            ELSE FoldLeft(LAMBDA s, k : BlockStep(s, i - 1, k), Before[i - 1],
                          [k \in DOMAIN outer[i - 1] |-> k])
    IN  [i \in DOMAIN doc |-> FlattenSeq(Before[i].stack)]

AttachTargets(es) == LET at == BlockStacks IN [k \in DOMAIN es |-> [es[k] EXCEPT !.blocks = at[es[k].line]]]

ParseOne ==
    MarkShared(BodyEnds(ComputeSpans(AttachPreambles(AttachTargets(ExtractEntries)))))

-----------------------------------------------------------------------------
Init == RegionInit /\ phase = "reading" /\ entries = <<>>

Read(line) ==
    /\ phase = "reading"
    /\ N < MaxLines
    /\ ReadLine(line)
    /\ UNCHANGED <<phase, entries>>

Parse ==
    /\ phase = "reading"
    /\ phase' = "parsed"
    /\ entries' = ParseOne
    /\ UNCHANGED regionVars

Next == (\E line \in Follows(doc) : Read(line)) \/ Parse

Spec == Init /\ [][Next]_vars

-----------------------------------------------------------------------------
CutLines(e) == e.src..LineCut(e).last

(***************************************************************************)
(* A tool that cuts the lines of an entry that is not flagged as sharing   *)
(* takes no line that another entry needs: neighbours are the only entries *)
(* that can meet, and both of them are flagged.                            *)
(***************************************************************************)
CutsAreOwn ==
    \A k, l \in DOMAIN entries :
        k # l /\ ~entries[k].shares => CutLines(entries[k]) \cap CutLines(entries[l]) = {}

(***************************************************************************)
(* A cut leaves no half of a proof behind: what is between the opening of  *)
(* a proof and the token that closes its goal goes, headings and prose     *)
(* inside a structured proof included, and no prose below it.              *)
(***************************************************************************)
CutsAreWhole ==
    \A k \in DOMAIN entries :
        LET e == entries[k]
            closes == ProofCloseLine(e.proof, e.stop)
            words == {i \in closes..LineCut(e).last : i > closes /\ Leads(outer[i], {"text", "section"})}
        IN  e.proof > 0 /\ closes > 0 => closes \in CutLines(e) /\ words = {}

\* What a cut takes is one whole entry and nothing of another.
CutsExact == CutsAreOwn /\ CutsAreWhole

(***************************************************************************)
(* Every declaration that is live text is indexed, unless it is indented   *)
(* below an axiomatization, where the scan for axioms runs over it.        *)
(***************************************************************************)
Declared == {i \in DOMAIN doc : Command(i) # "none" /\ Command(i) # "lemmas"}
Indexed == {entries[k].line : k \in DOMAIN entries}
BelowAxioms(i) == \E j \in 1..(i - 1) : Command(j) = "axiomatization" /\ \A m \in (j + 1)..i : ~Blank(doc[m])

DeclsIndexed == phase = "parsed" => \A i \in Declared \ Indexed : BelowAxioms(i) /\ ~FlushWord(i)

(***************************************************************************)
(* ... which the comment on the matcher of a declaration does not allow:   *)
(* it speaks of a language that knows no layout.                           *)
(***************************************************************************)
EveryDeclIndexed == phase = "parsed" => Declared \subseteq Indexed

(***************************************************************************)
(* The target of an entry is what begin and end say: the blocks opened     *)
(* above it and not closed again, outermost first.                         *)
(***************************************************************************)
Unclosed(i) ==
    LET above == FlattenSeq([j \in 1..(i - 1) |->
                    [k \in DOMAIN outer[j] |-> [line |-> j, tok |-> outer[j][k], first |-> k = 1]]])
        Count(word, p, q) == Cardinality({m \in p..q : above[m].tok = word})
        open == {p \in DOMAIN above : /\ above[p].tok = "begin"
                                      /\ \A q \in p..Len(above) : Count("end", p, q) < Count("begin", p, q)}
        Opening(r) == /\ above[r].tok \in {"locale", "context", "instantiation"}
                      /\ above[r].first \/ above[r - 1].tok \in {"begin", "end"}
        Opener(p) == LET rs == {r \in 1..(p - 1) : Opening(r) /\ Count("begin", r, p - 1) = 0} IN
                     IF rs = {} THEN 0 ELSE Max(rs)
        Name(r) == IF r < Len(above) /\ above[r].line = above[r + 1].line THEN above[r + 1].tok ELSE "begin"
        named == {p \in open : Opener(p) > 0 /\ Name(Opener(p)) \notin {"begin", "fixes"}}
        Block(r) == [line |-> above[r].line, name |-> Name(r)]
    IN  [n \in 1..Cardinality(named) |-> Block(Opener(SetToSortSeq(named, <)[n]))]

TargetsAreOpen == \A k \in DOMAIN entries : entries[k].blocks = Unclosed(entries[k].line)

\* What is read off the lines of a theory: the lines to cut, the declarations
\* and the targets they are in.
ParseExact == CutsExact /\ DeclsIndexed /\ TargetsAreOpen
=============================================================================
