-------------------------------- MODULE Loci --------------------------------
(***************************************************************************)
(* Which entry a line belongs to, asked in four ways: `enclosing' and      *)
(* `callers' look through the entries, `grep', `sorry' and `methods'       *)
(* bisect their spans, a marginal note bisects their first lines, and what *)
(* `outline' and `largest' print of an entry is pasted back as a range.    *)
(***************************************************************************)
EXTENDS Steps

CONSTANT Searched       \* the words that are looked for

-----------------------------------------------------------------------------
(***************************************************************************)
(* Owners.                                                                 *)
(***************************************************************************)
Holds(e, l) == e.src <= l /\ l <= e.stop

\* _enclosing_entry: the first entry, in source order, whose span holds the line.
EnclosingEntry(l) ==
    LET holding == {k \in DOMAIN entries : Holds(entries[k], l)} IN
    IF holding = {} THEN {} ELSE {Min(holding)}

\* _entry_at_line: the last span, in the order of spans, that starts at or
\* before the line, if it holds it.
EntryAt(l) ==
    LET Upto(j, k) == \/ entries[j].src < entries[k].src
                      \/ entries[j].src = entries[k].src /\ entries[j].stop < entries[k].stop
                      \/ entries[j].src = entries[k].src /\ entries[j].stop = entries[k].stop /\ j <= k
        before == {k \in DOMAIN entries : entries[k].src <= l}
    IN  {k \in before : (\A j \in before : Upto(j, k)) /\ Holds(entries[k], l)}

LocusRole(e, l) ==
    IF l < e.line THEN "preamble"
    ELSE IF e.proof > 0 /\ l >= e.proof THEN "proof"
    ELSE IF l <= e.last THEN "statement" ELSE "none"

\* line_count, and the lines the entry is said to take of itself.
LineCount(e) == e.stop - e.src + 1
Extent(e) == IF e.src < e.line \/ e.body < e.stop THEN e.line..e.body ELSE e.src..e.stop

-----------------------------------------------------------------------------
(***************************************************************************)
(* Ranges, as the tool prints them and takes them back.                    *)
(***************************************************************************)
ToEnd == 0
IsRange(lo, hi) == lo >= 1 /\ (hi = ToEnd \/ lo <= hi)
Upper(hi) == IF hi = ToEnd THEN N ELSE hi

\* cmd_enclosing: a line has one owner, a range all it meets.
Enclosing(lo, hi) ==
    IF ~IsRange(lo, hi) \/ lo > N THEN {}
    ELSE IF lo = hi THEN EnclosingEntry(lo)
    ELSE {k \in DOMAIN entries : ~(entries[k].stop < lo \/ entries[k].src > Upper(hi))}

\* cmd_lines
LinesShown(lo, hi) == IF IsRange(lo, hi) THEN lo..Min({N, Upper(hi)}) ELSE {}

\* _enclosing_blocks: those that hold the line, outermost first.
EnclosingBlocks(blocks, l) ==
    SetToSortSeq({b \in blocks : b.first <= l /\ l <= b.last},
                 LAMBDA b, c : b.first < c.first \/ (b.first = c.first /\ b.last > c.last))

\* What `enclosing' drills down to on a line of the proof of entry k.
Drill(k, l) ==
    IF LocusRole(entries[k], l) # "proof" THEN <<>> ELSE EnclosingBlocks(measured[k].blocks, l)

\* cmd_outline: headings, entries and, if asked for, text blocks, by line.
Outline(comments) ==
    LET items == {[line |-> l, rank |-> 1, at |-> 0] : l \in SectionLines(Prose)}
                 \cup {[line |-> entries[k].line, rank |-> 2, at |-> k] : k \in DOMAIN entries}
                 \cup {[line |-> b.first, rank |-> 3, at |-> b.last] : b \in IF comments THEN TextBlocks ELSE {}}
    IN  SetToSortSeq(items, LAMBDA a, b :
            \/ a.line < b.line
            \/ a.line = b.line /\ (a.rank < b.rank \/ (a.rank = b.rank /\ a.at < b.at)))

\* cmd_largest: the `top' entries of most lines.
Largest(top) ==
    LET Larger(j, k) == \/ LineCount(entries[j]) > LineCount(entries[k])
                        \/ LineCount(entries[j]) = LineCount(entries[k]) /\ j < k
        rows == SetToSortSeq(DOMAIN entries, Larger)
    IN  SubSeq(rows, 1, Min({top, Len(rows)}))

-----------------------------------------------------------------------------
(***************************************************************************)
(* Marginal notes: the first on a line, if it is one and not a piece of a  *)
(* comment, belongs to the entry it stands in.                             *)
(***************************************************************************)
NoteAt(i) == SelectInSeq(doc[i], LAMBDA tok : tok = "marginal")
CommentNotes == {i \in DOMAIN doc : NoteAt(i) \in notes[i]}

\* _cartouche_body, on the first line of the note.
NoteText(i) ==
    LET from == NoteAt(i) + 1
        Count(toks, j) == Cardinality({m \in from..j : doc[i][m] \in toks})
        ends == {j \in from..Len(doc[i]) : Count({"close"}, j) > Count(Markers \cup {"open"}, j)}
    IN  SubSeq(doc[i], from, Min(ends \cup {Len(doc[i]) + 1}) - 1)

\* Mutant: a note that stands on the line of a declaration speaks of it.
KindByLine(e, i) ==
    IF i = e.line THEN "decl" ELSE IF e.proof > 0 /\ i >= e.proof THEN "proof" ELSE "statement"

NoteKind(e, i) ==
    IF e.proof > 0 /\ i >= e.proof THEN "proof" ELSE IF i = e.line THEN "decl" ELSE "statement"

\* _attach_annotations
Annotations(k) ==
    LET Owner(i) == {j \in DOMAIN entries : /\ entries[j].line <= i /\ i <= entries[j].stop
                                            /\ \A m \in DOMAIN entries : entries[m].line <= i => m <= j}
    IN  {[line |-> i, text |-> NoteText(i), kind |-> NoteKind(entries[k], i)] :
            i \in {i \in CommentNotes : k \in Owner(i)}}

-----------------------------------------------------------------------------
(***************************************************************************)
(* The searches.                                                           *)
(***************************************************************************)
\* _grep_sections: live if the line is, and the match is still there when
\* what is not live is blanked.
GrepSections(word) ==
    LET noise == NoiseLines
        Live(i) == i \notin noise /\ \E n \in DOMAIN live[i] : live[i][n].tok = word
    IN  {[line |-> i, live |-> Live(i), owner |-> EntryAt(i)] : i \in {j \in DOMAIN doc : word \in Range(doc[j])}}

GrepLines(hits, comments) == {h.line : h \in {h \in hits : h.live \/ comments}}

\* _find_in_comments
FindInComments(word) ==
    {i \in Covered(TextBlocks) : word \in Range(doc[i])}
    \cup UNION {{a.line : a \in {a \in Annotations(k) : word \in Range(a.text)}} : k \in DOMAIN entries}

-----------------------------------------------------------------------------
SameLine(j, k) == entries[j].line = entries[k].line

(***************************************************************************)
(* The spans of entries do not overlap, entries on one line apart, as the  *)
(* bisections take for granted: so all that ask for the owner of a line    *)
(* are told of the same span.                                              *)
(***************************************************************************)
OwnersAgree ==
    \A l \in DOMAIN doc :
        LET first == EnclosingEntry(l)
            last == EntryAt(l)
        IN  /\ first = {} <=> last = {}
            /\ \A j \in first : \A k \in DOMAIN entries : Holds(entries[k], l) => SameLine(j, k)
            /\ \A j \in first, k \in last : SameLine(j, k)

(***************************************************************************)
(* What is printed of an entry can be pasted back: the range is the entry, *)
(* those on its line and no other, it can be shown in full, it holds the   *)
(* lines to cut, and no heading of the outline is inside.                  *)
(***************************************************************************)
Interrupted(e) == \E i \in (e.line + 1)..e.body : Leads(outer[i], {"text", "section"})

SpansRoundTrip ==
    LET outline == Outline(TRUE)
        sizes == Largest(Len(entries))
    IN  /\ \A k \in DOMAIN entries :
            LET e == entries[k]
                among == {j \in DOMAIN entries : SameLine(j, k)}
            IN  /\ IF e.src = e.stop THEN Enclosing(e.src, e.stop) = {Min(among)}
                   ELSE Enclosing(e.src, e.stop) = among
                /\ Cardinality(LinesShown(e.src, e.stop)) = LineCount(e)
                /\ Interrupted(e) \/ Extent(e) \subseteq e.src..e.stop
                /\ e.shares \/ CutLines(e) \subseteq e.src..e.stop
                /\ \A n \in DOMAIN outline : outline[n].rank = 1 => outline[n].line \notin e.line..e.stop
        /\ \A n \in 2..Len(sizes) :
            LET a == entries[sizes[n - 1]]  b == entries[sizes[n]] IN
            LineCount(a) >= LineCount(b) /\ (a.line # b.line => (a.src..a.stop) \cap (b.src..b.stop) = {})

(***************************************************************************)
(* ... although the record of an entry says that its body never passes its *)
(* span: a heading below a bare statement is taken for a piece of it.      *)
(***************************************************************************)
BodyInSpan == \A k \in DOMAIN entries : entries[k].body <= entries[k].stop

(***************************************************************************)
(* The blocks around a line hold one another, so that the last one printed *)
(* is the nearest, where the goal of a block begins its line.              *)
(***************************************************************************)
NearestIsInnermost ==
    \A k \in DOMAIN entries :
        LET toks == walks[k].toks
            g == Layout(toks)
        IN  Anchored(toks, g) /\ GoalsLead(toks, g) =>
            \A l \in DOMAIN doc :
                LET path == Drill(k, l) IN
                \A m, n \in DOMAIN path : m < n =>
                    path[m].first <= path[n].first /\ path[n].last < path[m].last

(***************************************************************************)
(* A note is kept by the entry `enclosing' names for its line, under the   *)
(* part of it that `enclosing' names, or it is above all declarations.     *)
(***************************************************************************)
NotesKept ==
    \A i \in CommentNotes :
        LET keepers == {k \in DOMAIN entries : \E a \in Annotations(k) : a.line = i}
            Part(k) == (CHOOSE a \in Annotations(k) : a.line = i).kind
        IN  /\ Cardinality(keepers) <= 1
            /\ \A j \in EnclosingEntry(i) :
                LET role == LocusRole(entries[j], i) IN
                /\ keepers = {} <=> role = "preamble"
                /\ \A k \in keepers : /\ SameLine(j, k)
                                      /\ role = "proof" <=> Part(k) = "proof"
            /\ EnclosingEntry(i) = {} => keepers = {}

(***************************************************************************)
(* `grep' for a word of a proof finds what the walk over the proof reads:  *)
(* the same lines are live, and they are the entry's.                      *)
(***************************************************************************)
GrepSeesProofs ==
    \A word \in Searched \ Delimiters :
        LET hits == {h \in GrepSections(word) : h.live}
            Single(k) == \A j \in DOMAIN entries : SameLine(j, k) => j = k
            Walked(e) == {t.line : t \in {t \in Range(BodyTokens(e)) : t.tok = word}}
        IN  \A k \in {k \in DOMAIN entries : entries[k].proof > 0 /\ Single(k)} :
                Walked(entries[k]) = {h.line : h \in {h \in hits :
                    h.owner = {k} /\ LocusRole(entries[k], h.line) = "proof"}}

(***************************************************************************)
(* A word that is not live is found by the search of comments, unless it   *)
(* stands in a heading, in text that was deleted or commented out, or in a *)
(* note but below its first line or outside every entry.                   *)
(***************************************************************************)
ProseIsFound ==
    LET headings == Covered(HeadingSpans(Prose)) IN
    \A word \in Searched :
        LET found == FindInComments(word)
            hits == GrepSections(word)
            dead == GrepLines(hits, TRUE) \ GrepLines(hits, FALSE)
        IN  \A i \in dead \ (found \cup headings) : noisy[i] /\ (notes[i] = {} \/ EnclosingEntry(i) = {})

\* What is said of the lines of a theory is one story.
LociExact ==
    phase = "parsed" =>
    /\ OwnersAgree /\ SpansRoundTrip /\ NearestIsInnermost
    /\ NotesKept /\ GrepSeesProofs /\ ProseIsFound
=============================================================================
