------------------------------- MODULE Steps -------------------------------
(***************************************************************************)
(* What is measured of a proof, line by line: its steps with the block     *)
(* each stands in, the facts a line cites, the goals they are credited to, *)
(* how long a named fact lives, and the blocks `enclosing' reports.        *)
(* These passes read raw lines and keep registers; `Locals' reads tokens.  *)
(***************************************************************************)
EXTENDS Locals

VARIABLE measured       \* per entry, the steps and the blocks of its proof

stepsVars == <<localsVars, measured>>

CiteListWords == {"from", "with", "using", "unfolding"}
BackwardCites == {"using", "unfolding"}
FactListStop == GoalKeywords \cup ClosingKeywords \cup CiteListWords \cup {"proof", "and"}
RuleMethods == {"rule"}
FactMarkers == {"add"}
AttrFactWords == {"OF"}
Structural == {"(", ")", "[", "]", "bar", ",", ":", "::", ".."}
GoalIntro == {"have", "hence", "obtain", "consider", "interpret"}
ContextIntro == {"assume", "presume", "define", "case"}
PlumbingIntro == {"note", "moreover"}

-----------------------------------------------------------------------------
(***************************************************************************)
(* The lines of a proof and the commands in front of their propositions.   *)
(* They are raw: a marginal note is a word and a term here.                *)
(***************************************************************************)
Raw(line) ==
    LET Spelt(k) == IF line[k] \in Markers THEN <<"comment", "open">> ELSE <<line[k]>>
    IN  Words(FlattenSeq([k \in DOMAIN line |-> Spelt(k)]))

\* _inline_proof_col: where the proof starts on a line that states the goal.
InlineAt(e) ==
    LET line == live[e.proof]
        words == {n \in DOMAIN line : ~line[n].inner}
        proofs == {n \in words : line[n].tok \in ProofWords}
        only == \A n \in words : n >= Min(proofs)
    IN  IF Leads(doc[e.proof], ProofWords) \/ proofs = {} THEN 1
        ELSE IF e.proof <= e.last \/ only THEN line[Min(proofs)].at ELSE 1

StepLine(e, i) ==
    Raw(IF i = e.proof THEN SubSeq(doc[i], InlineAt(e), Len(doc[i])) ELSE doc[i])

StepLines(e) ==
    LET noise == NoiseLines IN
    SelectSeq([n \in 1..(e.body - e.proof + 1) |-> e.proof + n - 1],
              LAMBDA i : i \notin noise /\ StepLine(e, i) # <<>>)

\* The end of the term that opens at k, or 0.
TermEnd(line, k) ==
    LET Open(j) == Cardinality({m \in k..j : line[m] = "open"})
        Close(j) == Cardinality({m \in k..j : line[m] = "close"})
        ends == {j \in (k + 1)..Len(line) : IF line[k] = "quote" THEN line[j] = "quote"
                                            ELSE line[j] = "close" /\ Open(j) <= Close(j)}
    IN  IF ends = {} THEN 0 ELSE Min(ends)

\* _split_command_prefix: a term in front of the goal command is a cited fact.
SplitPrefix(line) ==
    LET Step(s, k) ==
            IF s.term > 0 \/ k <= s.past THEN s
            ELSE IF line[k] \in {"quote", "open"}
                 THEN IF s.goal \/ TermEnd(line, k) = 0 THEN [s EXCEPT !.term = k]
                      ELSE [s EXCEPT !.past = TermEnd(line, k)]
            ELSE [s EXCEPT !.words = Append(@, line[k]), !.goal = @ \/ line[k] \in GoalKeywords]
    IN  FoldLeft(Step, [words |-> <<>>, past |-> 0, goal |-> FALSE, term |-> 0],
                 [k \in DOMAIN line |-> k])

Prefix(line) == SplitPrefix(line).words
CommandTokens(line) == SelectSeq(Prefix(line), LAMBDA t : t \in {".", ".."} \/ t \notin Punctuation)
LeadingWord(line) == IF line[1] \in (Punctuation \ {".", ".."}) \cup Delimiters THEN "" ELSE line[1]

KindOf(toks) ==
    IF toks = <<>> THEN "other"
    ELSE IF Range(toks) \cap GoalKeywords # {} THEN "goal"
    ELSE IF toks[1] \in ContextKeywords THEN "context"
    ELSE IF toks[1] \in PlumbingKeywords THEN "plumbing"
    ELSE IF \/ toks[1] = "."
            \/ Range(toks) \cap (ClosingKeywords \cup {".."}) # {} THEN "closing"
    ELSE "other"

Kind(line) == KindOf(CommandTokens(line))

GoalCommand(line) == Last(SelectSeq(CommandTokens(line), LAMBDA t : t \in GoalKeywords))

\* The name behind the first goal command that has one.
LabelIn(words) ==
    LET at == {k \in DOMAIN words : /\ words[k] \in GoalKeywords \ {"also", "finally"}
                                    /\ k + 2 \in DOMAIN words
                                    /\ IsName(words[k + 1])
                                    /\ words[k + 2] \in {":", "::"}}
    IN  IF at = {} THEN "" ELSE words[Min(at) + 1]

StepLabel(line) == LabelIn(Prefix(line))

-----------------------------------------------------------------------------
(***************************************************************************)
(* _cited_facts_on_line: fact lists, markers of methods, arguments of      *)
(* rules, and the attributes that compose facts.                           *)
(***************************************************************************)
OutsideTerms(line) ==
    LET Step(s, k) ==
            LET ends == {j \in (k + 1)..Len(line) : line[j] = IF line[k] = "quote" THEN "quote" ELSE "close"}
            IN
            IF k <= s.past THEN s
            ELSE IF line[k] \in {"quote", "open"} /\ ends # {} THEN [s EXCEPT !.past = Min(ends)]
            ELSE IF line[k] \in Delimiters \cup {"=", "{", "}", "."} THEN s
            ELSE [s EXCEPT !.words = Append(@, line[k])]
    IN  FoldLeft(Step, [words |-> <<>>, past |-> 0], [k \in DOMAIN line |-> k]).words

LooksLikeFact(tok) == tok \notin Structural

\* _consume_attr_block, one token of it.
AttributeToken(s, toks, k) ==
    LET tok == toks[k] IN
    CASE tok = "[" -> [s EXCEPT !.depth = @ + 1, !.take = FALSE]
      [] tok = "]" -> [s EXCEPT !.depth = @ - 1, !.take = FALSE]
      [] tok \in AttrFactWords -> [s EXCEPT !.take = TRUE]
      [] tok = "," -> [s EXCEPT !.take = FALSE]
      [] OTHER -> IF s.take /\ LooksLikeFact(tok) /\ ~(k < Len(toks) /\ toks[k + 1] = ":")
                  THEN [s EXCEPT !.facts = @ \cup {tok}] ELSE s

\* A token outside a list of facts.
MethodToken(s, toks, k) ==
    LET tok == toks[k] IN
    IF tok \in CiteListWords THEN [s EXCEPT !.reading = "list"]
    ELSE IF tok \in {"by", "apply"} THEN [s EXCEPT !.method = TRUE, !.head = ""]
    ELSE IF ~s.method THEN s
    ELSE IF tok = "[" THEN AttributeToken(s, toks, k)
    ELSE IF tok \in FactMarkers /\ k < Len(toks) /\ toks[k + 1] = ":" THEN [s EXCEPT !.reading = "marked"]
    ELSE IF tok \in Structural THEN IF tok \in {"(", ")", "bar", ","} THEN [s EXCEPT !.head = ""] ELSE s
    ELSE IF s.head = "" THEN [s EXCEPT !.head = tok]
    ELSE IF s.head \in RuleMethods /\ LooksLikeFact(tok) THEN [s EXCEPT !.facts = @ \cup {tok}] ELSE s

EndsList(s, tok) ==
    CASE s.reading = "list" -> tok \in FactListStop \cup (Structural \ {"["})
      [] s.reading = "marked" -> tok \in FactMarkers \cup ClosingKeywords \cup {")", "]", "bar", ","}
      [] OTHER -> TRUE

CitedFacts(line) ==
    LET toks == OutsideTerms(line)
        Step(s, k) ==
            IF s.depth > 0 THEN AttributeToken(s, toks, k)
            ELSE IF EndsList(s, toks[k]) THEN MethodToken([s EXCEPT !.reading = ""], toks, k)
            ELSE IF toks[k] = "[" THEN AttributeToken(s, toks, k)
            ELSE IF LooksLikeFact(toks[k]) THEN [s EXCEPT !.facts = @ \cup {toks[k]}] ELSE s
    IN  FoldLeft(Step, [reading |-> "", method |-> FALSE, head |-> "", depth |-> 0, take |-> FALSE,
                        facts |-> {}], [k \in DOMAIN toks |-> k]).facts

-----------------------------------------------------------------------------
(***************************************************************************)
(* _scan_steps: the steps, each with the depth and the number of the block *)
(* it stands in.                                                           *)
(***************************************************************************)
\* Mutant: the number of a block is how deep it lies.
OpenedByDepth(s) == [s EXCEPT !.blocks = Append(@, Len(@)), !.next = @ + 1]

OpenedBlock(s) == [s EXCEPT !.blocks = Append(@, s.next), !.next = @ + 1]

\* The step a line makes in front of what it does to the blocks, if it is one.
Recorded(s, i, line, kind) ==
    LET step == [line |-> i, depth |-> Max({0, Len(s.blocks) - 1}),
                 block |-> IF s.blocks = <<>> THEN 0 ELSE Last(s.blocks),
                 kw |-> LeadingWord(line), kind |-> kind,
                 goal |-> IF kind = "goal" THEN GoalCommand(line) ELSE "",
                 label |-> IF kind = "goal" THEN StepLabel(line) ELSE "",
                 facts |-> CitedFacts(Raw(doc[i])), words |-> line]
    IN  IF kind = "other" THEN s ELSE [s EXCEPT !.steps = Append(@, step)]

ClosedBlock(s) == [s EXCEPT !.blocks = IF @ = <<>> THEN @ ELSE Front(@)]

StepOn(s, i, line) ==
    CASE line[1] = "qed" -> ClosedBlock(Recorded(s, i, line, "closing"))
      [] line[1] = "}" -> ClosedBlock(s)
      [] line[1] \in {"proof", "{"} -> OpenedBlock(Recorded(s, i, line, Kind(line)))
      [] OTHER -> Recorded(s, i, line, Kind(line))

ScanSteps(e) ==
    FoldLeft(LAMBDA s, i : StepOn(s, i, StepLine(e, i)), [steps |-> <<>>, blocks |-> <<>>, next |-> 0],
             StepLines(e)).steps

\* Mutant: what `using' cites waits for the next goal, as what `from' cites.
CreditAllForward(s, step, k) ==
    CASE step.kind = "plumbing" ->
            [s EXCEPT !.fanin = Append(@, 0), !.pending = @ \cup step.facts]
      [] step.kind = "goal" ->
            [fanin |-> Append(s.fanin, Cardinality(step.facts \cup s.pending)),
             pending |-> {}, open |-> k, seen |-> step.facts \cup s.pending]
      [] step.kind = "closing" -> [s EXCEPT !.fanin = Append(@, 0), !.pending = {}, !.open = 0, !.seen = {}]
      [] OTHER -> [s EXCEPT !.fanin = Append(@, 0)]

\* annotate_fanin, one step of it.
Credit(s, step, k) ==
    CASE step.kind = "plumbing" /\ step.kw \in BackwardCites ->
            [s EXCEPT !.fanin = Append(IF s.open = 0 THEN @
                                       ELSE [@ EXCEPT ![s.open] = @ + Cardinality(step.facts \ s.seen)], 0),
                      !.seen = IF s.open = 0 THEN @ ELSE @ \cup step.facts]
      [] step.kind = "plumbing" /\ step.kw \notin BackwardCites ->
            [s EXCEPT !.fanin = Append(@, 0), !.pending = @ \cup step.facts]
      [] step.kind = "goal" ->
            [fanin |-> Append(s.fanin, Cardinality(step.facts \cup s.pending)),
             pending |-> {}, open |-> k, seen |-> step.facts \cup s.pending]
      [] step.kind = "closing" ->
            [fanin |-> Append(s.fanin, 0), pending |-> {}, open |-> 0, seen |-> {}]
      [] OTHER -> [s EXCEPT !.fanin = Append(@, 0)]

FanIn(steps) ==
    FoldLeft(LAMBDA s, k : Credit(s, steps[k], k),
             [fanin |-> <<>>, pending |-> {}, open |-> 0, seen |-> {}],
             [k \in DOMAIN steps |-> k]).fanin

\* The named fact a step introduces, or "".
IntroFact(step) ==
    LET line == step.words
        introduces == \/ step.kind = "context" /\ step.kw \in ContextIntro
                      \/ step.kind = "plumbing" /\ step.kw \in PlumbingIntro
    IN  IF step.kind = "goal" THEN IF step.goal \in GoalIntro THEN step.label ELSE ""
        ELSE IF /\ introduces /\ step.kw \in {"note", "assume", "presume", "case"}
                /\ Len(line) > 2 /\ IsName(line[2]) /\ line[3] \in {":", "::", "="}
             THEN line[2] ELSE ""

Born(births, name, k) ==
    IF name \in {""} \cup DOMAIN births THEN births ELSE births @@ (name :> k)

\* _fact_intervals: names to the steps of their birth and of their last use.
Intervals(steps) ==
    LET Step(s, k) ==
            LET step == steps[k]
                name == IntroFact(step)
                chains == step.kw \in ChainReaders \/ "this" \in step.facts
                used == (step.facts \cup (IF chains THEN {s.this} ELSE {})) \cap DOMAIN s.births
            IN  [births |-> Born(s.births, name, k),
                 deaths |-> LET died == [n \in used |-> k] @@ s.deaths IN
                            IF name = "" THEN died ELSE died @@ (name :> k),
                 this |-> IF name # "" THEN name ELSE IF step.kind = "goal" THEN "" ELSE s.this]
    IN  FoldLeft(Step, [births |-> <<>>, deaths |-> <<>>, this |-> ""], [k \in DOMAIN steps |-> k])

LiveFacts(steps, f) ==
    [k \in DOMAIN steps |-> Cardinality({n \in DOMAIN f.births : f.births[n] <= k /\ k <= f.deaths[n]})]

-----------------------------------------------------------------------------
(***************************************************************************)
(* _proof_blocks: the blocks inside a proof, each under the goal it        *)
(* proves, or none when openers and closers do not match.                  *)
(***************************************************************************)
OnLine(s, i, line) ==
    LET labelled == Len(line) > 2 /\ IsName(line[2]) /\ line[3] \in {":", "::"}
        goal == [kw |-> line[1], name |-> IF labelled THEN line[2] ELSE "", first |-> i]
        pending == IF line[1] \in GoalCommands THEN <<goal>> ELSE s.pending
        Push(b) == [s EXCEPT !.stack = Append(@, b)]
        Pop == IF s.stack = <<>> THEN [s EXCEPT !.lost = TRUE]
               ELSE LET b == Last(s.stack) IN
                    [s EXCEPT !.stack = Front(@), !.pending = <<>>,
                              !.found = @ \cup IF b.kw = "main" THEN {}
                                        ELSE {[kw |-> b.kw, name |-> b.name, first |-> b.first, last |-> i]}]
        Open == IF ~s.main /\ s.stack = <<>>
                THEN [Push([kw |-> "main", name |-> "", first |-> i]) EXCEPT !.main = TRUE, !.pending = <<>>]
                ELSE [Push(IF pending = <<>> THEN [kw |-> "proof", name |-> "", first |-> i] ELSE pending[1])
                        EXCEPT !.pending = <<>>]
    IN  IF s.lost THEN s
        ELSE IF line[1] = "proof" THEN Open
        ELSE IF line[1] = "qed" \/ line = <<"}">> THEN Pop
        ELSE IF line = <<"{">> THEN Push([kw |-> "{", name |-> "", first |-> i])
        ELSE IF \/ line[1] \in {"by", "done", "sorry", "oops"}
                \/ line \in {<<".">>, <<"..">>} THEN [s EXCEPT !.pending = <<>>]
        ELSE [s EXCEPT !.pending = pending]

ProofBlocks(e) ==
    LET noise == NoiseLines
        s == FoldLeft(LAMBDA t, i : OnLine(t, i, Raw(doc[i])),
                      [stack |-> <<>>, pending |-> <<>>, main |-> FALSE, found |-> {}, lost |-> FALSE],
                      SelectSeq([n \in 1..(e.body - e.proof + 1) |-> e.proof + n - 1],
                                LAMBDA i : i \notin noise /\ ~Blank(doc[i])))
    IN  IF s.lost \/ s.stack # <<>> THEN {} ELSE s.found

-----------------------------------------------------------------------------
MeasuredSteps(steps, facts, blocks) ==
    [steps |-> steps, fanin |-> FanIn(steps), facts |-> facts,
     live |-> LiveFacts(steps, facts), blocks |-> blocks]

WithIntervals(steps, blocks) == MeasuredSteps(steps, Intervals(steps), blocks)

Measured(e) ==
    IF e.proof = 0 THEN WithIntervals(<<>>, {}) ELSE WithIntervals(ScanSteps(e), ProofBlocks(e))

StepsInit == LocalsInit /\ measured = <<>>

Measure == Scan /\ measured' = [k \in DOMAIN entries' |-> Measured(entries'[k])]

StepsNext == (ReadOn /\ UNCHANGED measured) \/ Measure

StepsSpec == StepsInit /\ [][StepsNext]_stepsVars

-----------------------------------------------------------------------------
(***************************************************************************)
(* The blocks of a proof, from its commands.                               *)
(***************************************************************************)
BlockWords == {"proof", "{", "}", "qed"}
LeadsLine(toks, p) == p = 1 \/ toks[p - 1].line # toks[p].line
Alone(toks, p) == \A q \in DOMAIN toks : toks[q].line = toks[p].line => q = p

\* The layout the scans by line ask for: a command of blocks, and nothing
\* else that looks like one, begins a line.
Anchored(toks, g) ==
    /\ \A p \in DOMAIN toks : toks[p].tok # "subgoal" /\ g.depth[p] >= 0
    /\ \A p \in DOMAIN toks : toks[p].tok \in BlockWords =>
            /\ p \in g.cmds <=> LeadsLine(toks, p)
            /\ toks[p].tok \in {"{", "}"} => Alone(toks, p)

Openers(toks, g) == {q \in g.cmds : toks[q].tok \in {"proof", "{"}}

\* The opener of the block around a place, or of the first block.
Around(toks, g, p) ==
    LET openers == Openers(toks, g)
        open == {q \in openers : q < p /\ \A r \in q..(p - 1) : g.depth[r] >= g.depth[q]}
    IN  IF open # {} THEN Max(open) ELSE IF openers = {} THEN 0 ELSE Min(openers)

\* The goal a block proves, or the place of the block.
GoalOf(toks, g, q) ==
    LET Proves(r) == toks[r].tok \in Terminators \cup {"qed", "next"}
        goals == {c \in g.cmds : /\ c < q /\ toks[c].tok \in GoalCommands
                                 /\ g.depth[c] = g.depth[q - 1]
                                 /\ \A r \in g.cmds : c < r /\ r < q => ~Proves(r)}
    IN  IF toks[q].tok = "{" \/ goals = {} THEN q ELSE Max(goals)

TrueBlocks(toks, g) ==
    LET openers == Openers(toks, g)
        Closer(q) == Min({r \in g.cmds : r > q /\ g.depth[r] < g.depth[q]})
        Name(c) == IF /\ c + 2 \in DOMAIN toks /\ toks[c].tok \in GoalCommands
                      /\ toks[c + 2].tok = ":" /\ ~toks[c + 1].inner
                   THEN toks[c + 1].tok ELSE ""
        Block(q, c) == [kw |-> toks[c].tok, name |-> Name(c),
                        first |-> toks[c].line, last |-> toks[Closer(q)].line]
    IN  {Block(q, GoalOf(toks, g, q)) : q \in openers \ {Min(openers)}}

(***************************************************************************)
(* A step stands in the block its place in the proof is in: as deep as     *)
(* blocks are open there, and under the same number as the other steps of  *)
(* that block, siblings apart.                                             *)
(***************************************************************************)
FramesAgree ==
    \A k \in DOMAIN measured :
        LET toks == walks[k].toks
            g == Layout(toks)
            On(s) == {p \in DOMAIN toks : toks[p].line = s.line}
            steps == {s \in Range(measured[k].steps) : On(s) # {}}
            placed == {[depth |-> s.depth, block |-> s.block, at |-> Min(On(s))] : s \in steps}
            around == {<<s.block, Around(toks, g, s.at)>> : s \in placed}
        IN  Anchored(toks, g) =>
                /\ \A s \in placed : s.depth = Max({0, g.depth[s.at - 1] - 1})
                /\ \A a, b \in around : a[1] = b[1] <=> a[2] = b[2]

(***************************************************************************)
(* What `enclosing' names is a block of the proof, from the goal it proves *)
(* to its end, and every block has a name, where the goal of a block       *)
(* begins its line.                                                        *)
(***************************************************************************)
GoalsLead(toks, g) == \A q \in Openers(toks, g) : LeadsLine(toks, GoalOf(toks, g, q))

BlocksAreReal(guard(_, _)) ==
    \A k \in DOMAIN measured :
        LET toks == walks[k].toks
            g == Layout(toks)
            whole == Openers(toks, g) # {} /\ g.depth[Len(toks)] = 0
        IN  Anchored(toks, g) /\ whole /\ guard(toks, g) => measured[k].blocks = TrueBlocks(toks, g)

(***************************************************************************)
(* Four walks over a proof, in four parts of the program, see the same     *)
(* blocks and the same end.                                                *)
(***************************************************************************)
BlocksAgree == ProofEndsAgree /\ FramesAgree /\ BlocksAreReal(GoalsLead)

(***************************************************************************)
(* ... but a goal proved on its own line gives its name to the next block. *)
(***************************************************************************)
LabelsStay == BlocksAreReal(LAMBDA toks, g : TRUE)

(***************************************************************************)
(* What is counted as cited on a line is a fact the proof reads there, and *)
(* neither a command nor a method nor a term.                              *)
(***************************************************************************)
CitedAreRead ==
    \A k \in DOMAIN measured :
        LET w == walks[k]
            Key(f) == IF f = "this" THEN <<"this">> ELSE <<"f", f>>
            read == {<<w.toks[r.at].line, r.key>> : r \in w.reads}
        IN  \A s \in Range(measured[k].steps) : w.end = 0 \/ s.line <= w.end =>
                \A f \in s.facts : <<s.line, Key(f)>> \in read

(***************************************************************************)
(* A fact read by name, in a list of facts, is counted as live there: from *)
(* the step that binds it to the last that cites it.                       *)
(***************************************************************************)
Listed(toks, p) ==
    \E q \in 1..(p - 1) : /\ toks[q].tok \in CiteListWords
                          /\ \A r \in (q + 1)..p : /\ ~toks[r].inner
                                                   /\ IsName(toks[r].tok)
                                                   /\ toks[r].tok \notin ProofCommands

LiveWhenRead(kinds) ==
    \A k \in DOMAIN measured :
        LET w == walks[k]
            m == measured[k]
            named(r) == r.key[1] = "f" /\ r.found # {} /\ \A id \in r.found : w.bound[id].kind \in kinds
            Cites(n, r) == m.steps[n].line = w.toks[r.at].line /\ Listed(w.toks, r.at)
        IN  \A r \in {r \in w.reads : named(r)} : \A n \in DOMAIN m.steps :
                Cites(n, r) => /\ r.key[2] \in DOMAIN m.facts.births
                               /\ m.facts.births[r.key[2]] <= n /\ n <= m.facts.deaths[r.key[2]]

LiveWhenCited == LiveWhenRead({"have", "hence", "note"})

(***************************************************************************)
(* ... which the description promises of `obtain' too, and the code does   *)
(* not keep: it takes a label only right behind the command.               *)
(***************************************************************************)
ObtainedAreTracked == LiveWhenRead({"have", "hence", "note", "obtain"})

(***************************************************************************)
(* A citation counts for one goal: what `from' and its like bring for the  *)
(* next goal, what `using' brings for the one still to be proved, and what *)
(* is left when a proof closes for none.                                   *)
(***************************************************************************)
CreditsExact ==
    \A k \in DOMAIN measured :
        LET steps == measured[k].steps
            Turns(n) == steps[n].kind \in {"goal", "closing"}
            Backward(n) == steps[n].kw \in BackwardCites
            Serves(n, g) == /\ steps[n].kind = "plumbing"
                            /\ IF Backward(n) THEN g < n /\ \A m \in (g + 1)..n : ~Turns(m)
                               ELSE n < g /\ \A m \in n..(g - 1) : ~Turns(m)
            Cited(g) == steps[g].facts \cup UNION {steps[n].facts : n \in {n \in DOMAIN steps : Serves(n, g)}}
        IN  \A g \in DOMAIN steps : measured[k].fanin[g] =
                IF steps[g].kind = "goal" THEN Cardinality(Cited(g)) ELSE 0

\* What is counted of citations: which facts are read, where each is live and
\* whom it serves.
CitationsExact == CitedAreRead /\ LiveWhenCited /\ CreditsExact
=============================================================================
