------------------------------- MODULE Locals -------------------------------
(***************************************************************************)
(* The names a proof binds and never reads: one walk over the tokens of a  *)
(* proof body that keeps a stack of scopes, the goals still to be proved   *)
(* and the facts `this' stands for.                                        *)
(***************************************************************************)
EXTENDS Theory, TLC

VARIABLE walks      \* per entry, the walk over its proof

localsVars == <<vars, walks>>

Delimiters == {"quote", "open", "close"}

GoalKeywords == {"have", "show", "hence", "thus", "obtain", "consider", "also", "finally", "interpret"}
ContextKeywords == {"fix", "assume", "presume", "define", "let", "case"}
PlumbingKeywords ==
    {"from", "using", "with", "note", "moreover", "ultimately", "then", "unfolding"}
ClosingKeywords == {"by", "apply", "done", "qed"}

ProofCommands ==
    GoalKeywords \cup ContextKeywords \cup PlumbingKeywords \cup ClosingKeywords \cup Terminators
    \cup {"proof", "next", "include", "including", "supply", "subgoal", "defer", "prefer",
          "back", "apply_end", "{", "}"}
ChainReaders == {"then", "hence", "thus", "with", "moreover", "ultimately", "also", "finally"}
ThisResets == {"from", "with", "assume", "presume", "case", "next"}
GoalCommands == {"have", "hence", "show", "thus", "obtain", "consider"}
LabelledGoals == {"have", "hence", "obtain"}
Labelling == {"have", "hence", "note", "let"}
Connectives == {"and", "where", "if", "when", "for", "::"}
Transforming == {"OF", "symmetric", "rule_format"}

-----------------------------------------------------------------------------
(***************************************************************************)
(* What a goal assumes (read_statement): the labelled premises, `assumes'  *)
(* in a statement of elements and `if' behind a plain one.                 *)
(***************************************************************************)
Elements ==
    {"fixes", "constrains", "assumes", "defines", "notes", "includes", "shows", "obtains"}
EndsStatement(tok) == tok \in ProofWords \cup {"including", "supply", "done", ".", ".."}

\* A term is one token.
StatementTokens(e) ==
    LET Line(i) == [n \in DOMAIN live[i] |->
                       IF live[i][n].opens THEN "term"
                       ELSE IF live[i][n].inner THEN "inside" ELSE live[i][n].tok]
        text == FlattenSeq([i \in DOMAIN doc |->
                    IF i \in e.line..Max({e.last, e.proof}) THEN Line(i) ELSE <<>>])
    IN  SelectSeq(text, LAMBDA tok : tok # "inside")

\* The attribute names in the block that starts at k.
Attributes(toks, k) ==
    {toks[j] : j \in {j \in (k + 1)..(PastAttributes(toks, k) - 2) : toks[j - 1] \in {"[", ","}}}

\* Whether a group states something.
Terms(g) ==
    \E k \in DOMAIN g : IsName(g[k]) /\ (Labelled(g, 1, ":") => k > PastAttributes(g, 2))

\* The groups between `and' that do: [label, declared].
Named(g) == [label |-> IF Labelled(g, 1, ":") THEN g[1] ELSE "",
             declared |-> Attributes(g, 2) \ Transforming # {}]

Groups(toks) ==
    LET cuts == {k \in DOMAIN toks : toks[k] = "and"}
        starts == SetToSortSeq({1} \cup {k + 1 : k \in cuts}, <)
        Group(k) == SubSeq(toks, k, Min({j \in cuts : j >= k} \cup {Len(toks) + 1}) - 1)
        all == [n \in DOMAIN starts |-> Group(starts[n])]
        stated == SelectSeq(all, Terms)
    IN  [n \in DOMAIN stated |-> Named(stated[n])]

\* The statement of a goal, from behind its name and attributes.
StatementFrom(toks) ==
    LET name == IF 2 \in DOMAIN toks /\ IsName(toks[2]) /\ toks[2] \notin Elements
                   /\ ~EndsStatement(toks[2]) THEN 3 ELSE 2
        head == PastAttributes(toks, name)
    IN  IF head > 2 /\ head \in DOMAIN toks /\ toks[head] = ":" THEN head + 1 ELSE 2

Statement(toks) ==
    LET from == StatementFrom(toks)
        ends == {k \in DOMAIN toks : k >= from /\ EndsStatement(toks[k])}
    IN  SubSeq(toks, from, Min(ends \cup {Len(toks) + 1}) - 1)

\* The parts of a statement behind its marks: [kind, groups].
Parts(text, marks) ==
    LET starts == SetToSortSeq(marks, <)
        Part(k) == SubSeq(text, k + 1, Min({j \in marks : j > k} \cup {Len(text) + 1}) - 1)
    IN  [n \in DOMAIN starts |-> [kind |-> text[starts[n]], groups |-> Groups(Part(starts[n]))]]

PremisesOf(part) ==
    [n \in DOMAIN part.groups |->
        [kind |-> part.kind, label |-> part.groups[n].label, kept |-> part.groups[n].declared]]

\* A statement of elements: one premise for each that is assumed.
LongPremises(parts) ==
    IF \E n \in DOMAIN parts : parts[n].kind = "obtains" \/ (parts[n].kind = "shows" /\ parts[n].groups # <<>>)
    THEN FlattenSeq([n \in DOMAIN parts |-> IF parts[n].kind = "assumes" THEN PremisesOf(parts[n]) ELSE <<>>])
    ELSE <<>>

\* A plain one: what follows the `if', if that comes first.
ShortPremises(shown, parts) ==
    IF Groups(shown) # <<>> /\ parts # <<>> /\ parts[1].kind = "if" THEN PremisesOf(parts[1]) ELSE <<>>

PremisesIn(text) ==
    LET At(words) == {k \in DOMAIN text : text[k] \in words}
        upto == Min(At({"if", "for"}) \cup {Len(text) + 1}) - 1
    IN  IF text # <<>> /\ text[1] \in Elements THEN LongPremises(Parts(text, At(Elements)))
        ELSE ShortPremises(SubSeq(text, 1, upto), Parts(text, At({"if", "for"})))

Premises(e) == PremisesIn(Statement(StatementTokens(e)))

-----------------------------------------------------------------------------
(***************************************************************************)
(* The tokens of a body, terms included, and the registers of the walk.    *)
(***************************************************************************)
NoiseLines == Covered(TextBlocks) \cup Covered(HeadingSpans(Prose)) \cup NonIsar

BodyTokens(e) ==
    LET noise == NoiseLines
        Token(i, n) == [line |-> i, tok |-> live[i][n].tok, inner |-> live[i][n].inner]
        Line(i) == IF i \in noise THEN <<>>
                   ELSE SelectSeq([n \in DOMAIN live[i] |-> Token(i, n)],
                                  LAMBDA t : t.tok \notin Delimiters)
    IN  FlattenSeq([i \in DOMAIN doc |-> IF i \in e.proof..e.stop THEN Line(i) ELSE <<>>])

\* A key is <<"f", name>> for a fact and <<"t", name>> for a term.
Visible(s, key) ==
    LET holding == {d \in DOMAIN s.scopes : key \in DOMAIN s.scopes[d]}
    IN  IF holding = {} THEN {} ELSE s.scopes[Max(holding)][key]

Reads(s, at, key) == [s EXCEPT !.reads = @ \cup {[at |-> at, key |-> key, found |-> Visible(s, key)]}]
ReadsThis(s, at) == [s EXCEPT !.reads = @ \cup {[at |-> at, key |-> <<"this">>, found |-> s.this]}]
Bind(s, key, ids) == [s EXCEPT !.scopes[Len(s.scopes)] = (key :> ids) @@ @]

Opened(s, kind) == [s EXCEPT !.scopes = Append(@, <<>>), !.kinds = Append(@, kind)]
ClosedScope(s) == IF Len(s.scopes) = 1 THEN s ELSE [s EXCEPT !.scopes = Front(@), !.kinds = Front(@)]
ClosedSubgoal(s) == IF Last(s.kinds) = "subgoal" THEN ClosedScope(s) ELSE s

\* finish_command: bind what `note', `define' and `let' wrote.
Finished(s) ==
    LET bound == FoldLeft(LAMBDA t, p : Bind(t, p.key, p.ids), s, s.pending)
        facts == {id \in UNION {p.ids : p \in Range(s.pending)} : s.bound[id].kind \in {"note", "define"}}
    IN  [bound EXCEPT !.pending = <<>>, !.this = IF facts = {} THEN @ ELSE facts]

\* The goal open at this depth is proved: its labels are bound.
Proved(s) ==
    LET depth == Len(s.scopes) IN
    IF depth \notin DOMAIN s.goals THEN s
    ELSE LET done == s.goals[depth]
             bound == FoldLeft(LAMBDA t, id : Bind(t, <<"f", s.bound[id].name>>, {id}), s, done)
         IN  [bound EXCEPT !.goals = Restrict(@, DOMAIN @ \ {depth}), !.this = Range(done)]

Ended(s, line) == [s EXCEPT !.end = line, !.closing = TRUE]

\* Mutant: `next' starts a branch that still sees the one before it.
BlocksBranchOpen(s, t) ==
    CASE t.tok \in {"proof", "{", "subgoal"} -> Opened(s, t.tok)
      [] t.tok = "}" -> ClosedScope(s)
      [] t.tok = "qed" ->
            LET c == ClosedScope(s) IN
            IF Len(c.scopes) = 1 THEN Ended(c, t.line) ELSE ClosedSubgoal(Proved(c))
      [] t.tok \in Terminators ->
            IF Len(s.scopes) = 1 THEN Ended(s, t.line) ELSE ClosedSubgoal(Proved(s))
      [] OTHER -> s

\* What a command does to the blocks of the proof.
Structured(s, t) ==
    CASE t.tok \in {"proof", "{", "subgoal"} -> Opened(s, t.tok)
      [] t.tok = "}" -> ClosedScope(s)
      [] t.tok = "next" -> Opened(ClosedScope(s), "proof")
      [] t.tok = "qed" ->
            LET c == ClosedScope(s) IN
            IF Len(c.scopes) = 1 THEN Ended(c, t.line) ELSE ClosedSubgoal(Proved(c))
      [] t.tok \in Terminators ->
            IF Len(s.scopes) = 1 THEN Ended(s, t.line) ELSE ClosedSubgoal(Proved(s))
      [] OTHER -> s

Advance(s, k) == [s EXCEPT !.i = k]

Begun(s, tok) ==
    [s EXCEPT !.goals = IF tok \in GoalCommands THEN (Len(s.scopes) :> <<>>) @@ @ ELSE @,
              !.cmd = tok, !.label = tok \in Labelling, !.group = {},
              !.variables = tok \in {"fix", "obtain", "define", "case"},
              !.premises = FALSE, !.afterWhere = FALSE, !.afterType = FALSE]

Commanded(s, t) ==
    LET finished == Finished(s)
        current == [finished EXCEPT !.this = IF s.stale THEN {} ELSE @, !.stale = t.tok \in ThisResets]
        chained == IF t.tok \in ChainReaders THEN ReadsThis(current, s.i) ELSE current
        moved == Structured(chained, t)
    IN  IF s.closing THEN [s EXCEPT !.done = TRUE]
        ELSE Advance(IF moved.closing THEN moved ELSE Begun(moved, t.tok), s.i + 1)

Connected(s, tok) ==
    CASE tok = "::" -> [s EXCEPT !.afterType = TRUE]
      [] tok = "for" -> [s EXCEPT !.variables = TRUE, !.label = FALSE]
      [] tok \in {"if", "when"} -> [s EXCEPT !.premises = TRUE, !.label = s.cmd \in LabelledGoals]
      [] tok = "where" -> [s EXCEPT !.afterWhere = TRUE, !.variables = FALSE, !.afterType = FALSE,
                                    !.label = s.cmd \in {"obtain", "define"}]
      [] tok = "and" -> [s EXCEPT !.afterType = FALSE,
                                  !.label = \/ s.cmd \in Labelling
                                            \/ s.cmd \in {"obtain", "define"} /\ s.afterWhere]

\* Whether a label starts at place i: terms may follow its name, in front of its
\* attributes and the separator.
PastTerms(words, i) == Min({k \in i..Len(words) : words[k] # "inside"} \cup {Len(words) + 1})
PastLabel(words, i) == PastAttributes(words, PastTerms(words, i + 1))
LabelAt(words, i, sep) ==
    IsName(words[i]) /\ LET k == PastLabel(words, i) IN k \in DOMAIN words /\ words[k] = sep

Binding(s, name, kept) ==
    [s EXCEPT !.bound = Append(@, [name |-> name, kind |-> s.cmd, at |-> s.i, kept |-> kept])]
Pending(s, key, ids) == [s EXCEPT !.pending = Append(@, [key |-> key, ids |-> ids])]
Newest(s) == Len(s.bound)

\* `let ?p = ...'
Abbreviated(s, name) ==
    LET b == Binding(s, name, FALSE) IN
    Advance([Pending(b, <<"t", name>>, {Newest(b)}) EXCEPT !.label = FALSE], s.i + 2)

\* A label and its attributes, whose arguments cite facts.
LabelRead(s, toks, words) ==
    LET after == PastLabel(words, s.i)
        Cite(t, k) ==
            IF toks[k].inner THEN Reads(t, k, <<"t", words[k]>>)
            ELSE IF IsName(words[k]) THEN Reads(t, k, <<"f", words[k]>>) ELSE t
        cited == FoldLeft(Cite, [s EXCEPT !.label = FALSE],
                          [n \in 1..(after - s.i) |-> s.i + n])
        name == words[s.i]
        b == Binding(cited, name, Attributes(words, PastTerms(words, s.i + 1)) \ Transforming # {})
        depth == Len(s.scopes)
        Goal(t) == [t EXCEPT !.goals =
                        (depth :> Append(IF depth \in DOMAIN @ THEN @[depth] ELSE <<>>, Newest(t))) @@ @]
    IN  Advance(IF s.premises THEN cited
                ELSE IF s.cmd = "define" THEN Pending(cited, <<"f", name>>, s.group)
                ELSE IF s.cmd = "note" THEN Pending(b, <<"f", name>>, {Newest(b)})
                ELSE Goal(b),
                after + 1)

\* A name where variables are listed: only a `define' before `where' binds it.
VariableRead(s, name) ==
    LET b == Binding(s, name, FALSE)
        defined == [b EXCEPT !.group = @ \cup {Newest(b)}]
        both == Pending(Pending(defined, <<"t", name>>, {Newest(b)}),
                        <<"f", name \o "_def">>, {Newest(b)})
        binds == s.cmd = "define" /\ ~s.afterWhere /\ ~s.afterType /\ IsName(name)
    IN  Advance(IF binds THEN both ELSE s, s.i + 1)

WordRead(s, tok) ==
    Advance(IF tok = "this" THEN ReadsThis(s, s.i)
            ELSE IF tok \in Schematic THEN Reads(s, s.i, <<"t", tok>>)
            ELSE IF IsName(tok) THEN Reads(s, s.i, <<"f", tok>>) ELSE s, s.i + 1)

\* One turn of the walk.
WalkToken(s, toks, words) ==
    LET t == toks[s.i]
        next == s.i + 1
    IN  CASE t.inner ->
                Advance(IF s.variables THEN s ELSE Reads(s, s.i, <<"t", t.tok>>), next)
          [] ~t.inner /\ t.tok \in {"(", "["} -> Advance([s EXCEPT !.nest = @ + 1, !.label = FALSE], next)
          [] ~t.inner /\ t.tok \in {")", "]"} -> Advance([s EXCEPT !.nest = Max({0, @ - 1})], next)
          [] ~t.inner /\ s.nest = 0 /\ t.tok \in ProofCommands -> Commanded(s, t)
          [] ~t.inner /\ s.nest = 0 /\ t.tok \in Connectives -> Advance(Connected(s, t.tok), next)
          [] OTHER ->
                IF s.label /\ s.cmd = "let" /\ t.tok \in Schematic /\ next \in DOMAIN toks /\ words[next] = "="
                THEN Abbreviated(s, t.tok)
                ELSE IF s.label /\ LabelAt(words, s.i, IF s.cmd = "note" THEN "=" ELSE ":")
                THEN LabelRead(s, toks, words)
                ELSE LET plain == [s EXCEPT !.label = FALSE] IN
                     IF s.variables THEN VariableRead(plain, t.tok) ELSE WordRead(plain, t.tok)

\* _seed_premises: a label, and the names that read every premise at once.
Seeded(s, premises) ==
    LET named == SelectSeq(premises, LAMBDA p : p.label # "")
        Label(k) == named[k].label
        firsts == SetToSortSeq({k \in DOMAIN named : \A j \in 1..(k - 1) : Label(j) # Label(k)}, <)
        labelled == [n \in DOMAIN firsts |-> named[firsts[n]]]
        bound == [s EXCEPT !.bound = [k \in DOMAIN labelled |->
                     [name |-> labelled[k].label, kind |-> labelled[k].kind, at |-> 0,
                      kept |-> labelled[k].kept]]]
        one == FoldLeft(LAMBDA t, k : Bind(t, <<"f", labelled[k].label>>, {k}), bound,
                        [k \in DOMAIN labelled |-> k])
        Whole(t, name, kind) ==
            LET ids == {k \in DOMAIN labelled : labelled[k].kind = kind}
            IN  IF ids = {} THEN t ELSE Bind(t, <<"f", name>>, ids)
    IN  Whole(Whole(Whole(one, "assms", "assumes"), "prems", "assumes"), "that", "if")

WalkStart ==
    [i |-> 1, bound |-> <<>>, reads |-> {}, scopes |-> << <<>> >>, kinds |-> <<"goal">>, end |-> 0,
     goals |-> <<>>, pending |-> <<>>, this |-> {}, stale |-> FALSE, cmd |-> "", nest |-> 0,
     label |-> FALSE, premises |-> FALSE, afterWhere |-> FALSE, afterType |-> FALSE,
     variables |-> FALSE, group |-> {}, closing |-> FALSE, done |-> FALSE, unfinished |-> FALSE]

\* _walk: on to the first command after the one that closes the entry's goal.
WalkOver(e, toks) ==
    LET words == [k \in DOMAIN toks |-> IF toks[k].inner THEN "inside" ELSE toks[k].tok]
        Noted(s) == [s EXCEPT !.unfinished = @ \/ words[s.i] \in {"sorry", "oops"}]
        Turn(s, k) == IF s.done \/ s.i > Len(toks) THEN s ELSE WalkToken(Noted(s), toks, words)
    IN  FoldLeft(Turn, Seeded(WalkStart, Premises(e)), [k \in 1..(Len(toks) + 1) |-> k])

WalkResult(toks, w) ==
    [toks |-> toks, end |-> w.end, bound |-> w.bound, reads |-> w.reads, unfinished |-> w.unfinished]

Walk(e) ==
    IF e.proof = 0 THEN WalkResult(<<>>, WalkStart)
    ELSE LET toks == BodyTokens(e) IN WalkResult(toks, WalkOver(e, toks))

\* unread_locals: what nothing read; of an unfinished proof no premise.
Unread(w) ==
    {id \in DOMAIN w.bound :
        /\ \A r \in w.reads : id \notin r.found
        /\ ~w.bound[id].kept
        /\ w.unfinished => w.bound[id].kind \notin {"assumes", "if"}}

LocalsInit == Init /\ walks = <<>>

\* A theory is read line by line, parsed, and every proof of it walked.
ReadOn == \E line \in Follows(doc) : Read(line) /\ UNCHANGED walks

Scan ==
    /\ Parse
    /\ walks' = [k \in DOMAIN entries' |-> Walk(entries'[k])]

LocalsNext == ReadOn \/ Scan

LocalsSpec == LocalsInit /\ [][LocalsNext]_localsVars

-----------------------------------------------------------------------------
(***************************************************************************)
(* What a name means, without a walk: the commands of the proof, how deep  *)
(* each leaves it, and where what is bound at one place is still seen.     *)
(***************************************************************************)
\* The commands of a proof, and how deep it is after each place.
Layout(toks) ==
    LET Brackets(n, t) == IF t.inner THEN n ELSE IF t.tok \in {"(", "["} THEN n + 1
                      ELSE IF t.tok \in {")", "]"} THEN n - 1 ELSE n
        Delta(t) == IF t.tok \in {"proof", "{"} THEN 1 ELSE IF t.tok \in {"qed", "}"} THEN 0 - 1 ELSE 0
        Place(g, p) ==
            LET command == ~toks[p].inner /\ toks[p].tok \in ProofCommands /\ g.nest <= 0 IN
            [cmds |-> IF command THEN g.cmds \cup {p} ELSE g.cmds,
             depth |-> (p :> g.depth[p - 1] + IF command THEN Delta(toks[p]) ELSE 0) @@ g.depth,
             nest |-> Brackets(g.nest, toks[p])]
    IN  FoldLeft(Place, [cmds |-> {}, depth |-> 0 :> 0, nest |-> 0], [p \in DOMAIN toks |-> p])

\* Where its bindings take effect (0 for a premise), the places that set what
\* `this' stands for, and the arguments of the commands that end a proof: a
\* label is bound behind them, where the proof of its statement is over.
Setting(toks, bound) ==
    LET layout == Layout(toks)
        cmds == layout.cmds
        depth == layout.depth
        Tok(p) == toks[p].tok
        EndOf(c) == Min({q \in cmds : q > c} \cup {Len(toks) + 1}) - 1
        Proofs(c) == {r \in cmds : r > c /\ Tok(r) \in Terminators \cup {"qed"} /\ depth[r] = depth[c]}
        Goal(r) == {c \in cmds : c < r /\ Tok(c) \in GoalCommands /\ depth[c] = depth[r]}
        Effect(id) ==
            LET c == Max({c \in cmds : c <= bound[id].at} \cup {0}) IN
            IF c = 0 THEN {0}
            ELSE IF bound[id].kind \in {"note", "define", "let"} THEN {EndOf(c)}
            ELSE {EndOf(r) : r \in {r \in Proofs(c) : \A q \in Proofs(c) : r <= q}}
        Keys(id) ==
            LET name == bound[id].name IN
            CASE bound[id].kind = "let" -> {<<"t", name>>}
              [] bound[id].kind = "define" -> {<<"t", name>>, <<"f", name \o "_def">>}
              [] bound[id].kind = "assumes" -> {<<"f", name>>, <<"f", "assms">>, <<"f", "prems">>}
              [] bound[id].kind = "if" -> {<<"f", name>>, <<"f", "that">>}
              [] OTHER -> {<<"f", name>>}
        events == UNION {{[id |-> id, at |-> t, keys |-> Keys(id)] : t \in Effect(id)} : id \in DOMAIN bound}
        At(t) == {v.id : v \in {v \in events : v.at = t}}
        proofs == {r \in cmds : Tok(r) \in Terminators \cup {"qed"} /\ Goal(r) # {}}
    IN  [depth |-> depth, events |-> events,
         arguments |-> UNION {(r + 1)..EndOf(r) : r \in proofs},
         nexts |-> {c \in cmds : Tok(c) = "next"},
         this |-> {[at |-> EndOf(c), ids |-> {}] : c \in {c \in cmds : Tok(c) \in ThisResets}}
                  \cup {[at |-> EndOf(r), ids |-> At(EndOf(r))] : r \in proofs}
                  \cup {[at |-> v.at, ids |-> At(v.at)] : v \in
                           {v \in events : v.id > 0 /\ bound[v.id].kind \in {"note", "define"}}}]

Latest(events) == {v \in events : \A u \in events : u.at <= v.at}

\* What a name read at place p means: the latest binding of it in a block that
\* is still open, or the facts established last.
Meaning(g, p, key) ==
    LET Open(t) == \A r \in (t + 1)..p : /\ g.depth[r] >= g.depth[t]
                                         /\ ~(r \in g.nexts /\ g.depth[r] = g.depth[t])
    IN  IF key = <<"this">> THEN UNION {v.ids : v \in Latest({v \in g.this : v.at < p})}
        ELSE {v.id : v \in Latest({v \in g.events : key \in v.keys /\ v.at < p /\ Open(v.at)})}

\* Proofs with a `subgoal' are left out: no bracket of its own ends that block.
FoundInScope(Counts(_, _)) ==
    \A w \in Range(walks) :
        LET g == Setting(w.toks, w.bound) IN
        (\A t \in Range(w.toks) : t.tok # "subgoal")
            => \A r \in w.reads : Counts(g, r) => r.found = Meaning(g, r.at, r.key)

(***************************************************************************)
(* A name is read as the binding in scope: the latest one in effect in a   *)
(* block that is still open, and `this' as the facts last established.  A  *)
(* label read while its own goal is proved is an older fact of that name.  *)
(* This is said of proofs without a `subgoal', and of all places but the   *)
(* arguments of a command that proves such a goal, as in `by (rule a)':    *)
(* whether the label is bound there already is not stated here.            *)
(***************************************************************************)
ReadersInScope == LET Elsewhere(g, r) == r.at \notin g.arguments IN FoundInScope(Elsewhere)

(***************************************************************************)
(* ... and in those arguments too the label is still the older fact, since *)
(* a label is bound once the proof of its statement is over, as the        *)
(* description of the walk has it.                                         *)
(***************************************************************************)
BoundWhenProved == LET Anywhere(g, r) == TRUE IN FoundInScope(Anywhere)

(***************************************************************************)
(* Two walks over the same proof, in two parts of the program, agree where *)
(* it ends (text on a line that closes a block of prose aside).            *)
(***************************************************************************)
Mixed(e) == \E i \in (e.proof..e.stop) \cap NoiseLines : outer[i] # <<>> /\ ~Leads(outer[i], {"text", "section"})
ProofEndsAgree ==
    \A k \in DOMAIN entries :
        LET e == entries[k] IN
        e.proof > 0 /\ ~Mixed(e) => walks[k].end = ProofCloseLine(e.proof, e.stop)
=============================================================================
