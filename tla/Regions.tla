------------------------------ MODULE Regions ------------------------------
(***************************************************************************)
(* The tokenizer that tells outer syntax from terms and from what is not   *)
(* Isar at all.  It keeps four registers where the language has a stack:   *)
(* the state, a nesting depth, and the state and depth to resume when a    *)
(* marginal note inside a term ends.                                       *)
(*                                                                         *)
(* A line is a sequence of tokens.  Delimiters: "(*" "*)" "{*" "*}",       *)
(* "quote", "open" and "close" of a cartouche, "marginal" and "cancel"     *)
(* (a formal comment with the opening of its cartouche).  Anything else is *)
(* a word; "tab" is white space before the first word of a line.           *)
(***************************************************************************)
EXTENDS Integers, Sequences, FiniteSets, SequencesExt

VARIABLES
    doc,        \* the lines of the theory so far
    outer,      \* per line, what is left when everything but outer syntax is blanked
    live,       \* the same with terms kept: tokens that say whether they are in one
    noisy,      \* per line: it touches a region that is not Isar
    notes,      \* per line: the places where a marginal note opens
    openAt,     \* per line: it began inside a term, a string or a comment
    scan,       \* the registers [state, depth, resume, resumeDepth]
    stack       \* the open brackets, what the registers stand for

regionVars == <<doc, outer, live, noisy, notes, openAt, scan, stack>>

NoiseStates == {"comment", "verbatim", "cartouche"}
Markers == {"marginal", "cancel"}
MLCommands == {"ML"}

Words(line) == IF line # <<>> /\ line[1] = "tab" THEN Tail(line) ELSE line
Leads(line, words) == Words(line) # <<>> /\ Words(line)[1] \in words
Blank(line) == Words(line) = <<>>

\* Who owns a bare cartouche: the command on its line or the line above.
OpensMLBody(lines, line, k) ==
    \/ Leads(line, MLCommands)
    \/ /\ Blank(SubSeq(line, 1, k - 1))
       /\ \E j \in DOMAIN lines : /\ Leads(lines[j], MLCommands)
                                  /\ \A m \in (j + 1)..Len(lines) : Blank(lines[m])

Fresh(state) == [state |-> state, depth |-> 1, resume |-> "text", resumeDepth |-> 0]
Text == [state |-> "text", depth |-> 0, resume |-> "text", resumeDepth |-> 0]

\* Mutant: the term around a note is resumed at the depth of the note.
ResumedAtNote(r) == [Text EXCEPT !.state = r.resume]

Resumed(r) == [state |-> r.resume, depth |-> r.resumeDepth, resume |-> "text", resumeDepth |-> 0]

Note(r) == [state |-> "cartouche", depth |-> 1, resume |-> r.state, resumeDepth |-> r.depth]
Enter(r, state) == [r EXCEPT !.state = state]
Deeper(r) == [r EXCEPT !.depth = @ + 1]
Closed(r, outside) == IF r.depth <= 1 THEN outside ELSE [r EXCEPT !.depth = @ - 1]

\* One token of _scan_nonisar_spans.
ScanToken(r, tok, ml) ==
    CASE r.state = "text" ->
            IF tok = "(*" THEN Fresh("comment")
            ELSE IF tok = "{*" THEN Enter(r, "verbatim")
            ELSE IF tok = "quote" THEN Enter(r, "string")
            ELSE IF tok \in Markers \/ (tok = "open" /\ ml) THEN Fresh("cartouche")
            ELSE IF tok = "open" THEN Fresh("term") ELSE r
      [] r.state = "string" ->
            IF tok = "quote" THEN Enter(r, "text")
            ELSE IF tok \in Markers THEN Note(r) ELSE r
      [] r.state = "comment" ->
            IF tok = "(*" THEN Deeper(r) ELSE IF tok = "*)" THEN Closed(r, Text) ELSE r
      [] r.state = "verbatim" ->
            IF tok = "*}" THEN Enter(r, "text") ELSE r
      [] r.state = "term" ->
            IF tok \in Markers THEN Note(r)
            ELSE IF tok = "open" THEN Deeper(r) ELSE IF tok = "close" THEN Closed(r, Text) ELSE r
      [] r.state = "cartouche" ->
            IF tok \in Markers \cup {"open"} THEN Deeper(r)
            ELSE IF tok = "close" THEN Closed(r, Resumed(r)) ELSE r

\* The same token for Isabelle's own lexer: one stack of open brackets.
Nest(s, tok, ml) ==
    LET top == IF s = <<>> THEN "text" ELSE Last(s) IN
    CASE top = "text" /\ tok = "(*" -> <<"comment">>
      [] top = "text" /\ tok = "{*" -> <<"verbatim">>
      [] top = "text" /\ tok = "quote" -> <<"string">>
      [] top = "text" /\ tok = "open" -> <<IF ml THEN "cartouche" ELSE "term">>
      [] top \in {"text", "string", "term", "cartouche"} /\ tok \in Markers -> Append(s, "cartouche")
      [] top \in {"term", "cartouche"} /\ tok = "open" -> Append(s, top)
      [] top = "comment" /\ tok = "(*" -> Append(s, top)
      [] \/ top = "comment" /\ tok = "*)"
         \/ top = "verbatim" /\ tok = "*}"
         \/ top = "string" /\ tok = "quote"
         \/ top \in {"term", "cartouche"} /\ tok = "close" -> Front(s)
      [] OTHER -> s

\* The registers before each token of a line, and after the last.
Trace(Step(_, _, _), start, lines, line) ==
    LET At[k \in 0..Len(line)] ==
            IF k = 0 THEN start ELSE Step(At[k - 1], line[k], OpensMLBody(lines, line, k))
    IN  [k \in 1..(Len(line) + 1) |-> At[k - 1]]

\* A token is part of a region if the region holds one of its ends.
States(trace, k) == {trace[k].state, trace[k + 1].state}

\* blank_all: the places of a line that are left without those to drop.
Left(line, drop) == SelectSeq([k \in DOMAIN line |-> k], LAMBDA k : k \notin drop /\ line[k] # "tab")
Picked(line, places) == [n \in DOMAIN places |-> line[places[n]]]

\* A token of the live view: where it stands, whether it is part of a term,
\* and whether it opens one.
LiveTokens(line, trace, places) ==
    [n \in DOMAIN places |->
        LET k == places[n] IN
        [tok |-> line[k], at |-> k, inner |-> States(trace, k) # {"text"},
         opens |-> trace[k].state = "text" /\ trace[k + 1].state \in {"string", "term"}]]

ReadLine(line) ==
    LET trace == Trace(ScanToken, scan, doc, line)
        inNoise == {k \in DOMAIN line : States(trace, k) \cap NoiseStates # {}}
        inRegion == {k \in DOMAIN line : States(trace, k) # {"text"}}
        Opening(k) == line[k] = "marginal" /\ trace[k].state \in {"text", "string", "term"}
    IN  /\ doc' = Append(doc, line)
        /\ outer' = Append(outer, Picked(line, Left(line, inRegion)))
        /\ live' = Append(live, LiveTokens(line, trace, Left(line, inNoise)))
        /\ noisy' = Append(noisy, inNoise # {})
        /\ notes' = Append(notes, {k \in DOMAIN line : Opening(k)})
        /\ openAt' = Append(openAt, scan.state # "text")
        /\ scan' = Last(trace)
        /\ stack' = Last(Trace(Nest, stack, doc, line))

RegionInit ==
    /\ doc = <<>> /\ outer = <<>> /\ live = <<>> /\ noisy = <<>> /\ notes = <<>> /\ openAt = <<>>
    /\ scan = Text
    /\ stack = <<>>

RegionSpec(Tokens) == RegionInit /\ [][\E line \in Seq(Tokens) : ReadLine(line)]_regionVars

\* extract_nonisar_ranges: lines with a region and nothing live, joined across
\* blank lines.
NonIsar ==
    LET whole == {i \in DOMAIN doc : noisy[i] /\ live[i] = <<>>}
    IN  whole \cup {i \in DOMAIN doc : \E a, b \in whole :
                        a < i /\ i < b /\ \A j \in (a + 1)..(b - 1) : j \in whole \/ Blank(doc[j])}

-----------------------------------------------------------------------------
(***************************************************************************)
(* Four registers are enough: what the tokenizer calls text, term or noise *)
(* is what a lexer that remembers every open bracket calls it.             *)
(***************************************************************************)
ScannerIsPushdown ==
    /\ scan.state = "text" <=> stack = <<>>
    /\ scan.state \in NoiseStates <=> \E k \in DOMAIN stack : stack[k] \in NoiseStates
=============================================================================
