------------------------------ MODULE MCUsage ------------------------------
(* Small corpora: one theory that grows declarations, and import shapes.    *)
EXTENDS Usage

CONSTANTS nf, ng, nh, nk, nm, nb

Thy(name, dir, imports, readable) ==
    [name |-> name, dir |-> <<"root">> \o dir, readable |-> readable, lines |-> <<>>,
     imports |-> {[session |-> "s", path |-> p] : p \in imports}]

A == <<"A">>   B == <<"B">>   C == <<"C">>   DC == <<"d", "C">>   EC == <<"e", "C">>

MCCorpora == {
    <<Thy(A, <<>>, {}, TRUE)>>,
    <<Thy(A, <<>>, {B}, TRUE), Thy(B, <<>>, {}, TRUE)>>,
    <<Thy(A, <<>>, {B, C}, TRUE), Thy(B, <<>>, {}, TRUE), Thy(C, <<>>, {}, TRUE)>>,
    <<Thy(A, <<>>, {C}, TRUE), Thy(C, <<"p">>, {B}, TRUE), Thy(C, <<"q">>, {}, TRUE), Thy(B, <<>>, {}, TRUE)>>,
    <<Thy(A, <<>>, {C}, TRUE), Thy(C, <<"p">>, {B}, FALSE), Thy(B, <<>>, {A}, TRUE)>>,
    <<Thy(A, <<>>, {C}, TRUE), Thy(DC, <<"d">>, {B}, TRUE), Thy(B, <<>>, {A}, TRUE)>>,
    <<Thy(A, <<>>, {C}, TRUE), Thy(DC, <<"d">>, {}, TRUE), Thy(EC, <<"e">>, {B}, TRUE), Thy(B, <<>>, {}, TRUE)>>,
    <<Thy(C, <<"d">>, {}, TRUE), Thy(DC, <<"e", "d">>, {C}, TRUE), Thy(C, <<"e">>, {DC}, TRUE)>>}

Fact(n) == [name |-> n, how |-> "fact"]
Doc(n) == [name |-> n, how |-> "doc"]
Decl(n, private, binds, cites) ==
    [kind |-> "decl", name |-> n, private |-> private, stays |-> FALSE, binds |-> binds, cites |-> cites]
Line(kind, cites) == [kind |-> kind, name |-> Anonymous, private |-> FALSE, stays |-> FALSE, binds |-> {}, cites |-> cites]

\* One theory of declarations f, g, h, k that cite what stands above them (and
\* f perhaps h, for a cycle), then a command at top level; or of any other line.
Facts(names) == {{Fact(n) : n \in s} : s \in SUBSET names}
InOrder == <<nf, ng, nh, nk>>
MayCite == <<{nh}, {nf}, {nf, ng}, {nf, ng, nh}>>
Growing(sec) == \A l \in Lines(sec) :
    l <= 4 /\ IsDecl(sec.lines[l]) /\ sec.lines[l].name = InOrder[l] /\ ~sec.lines[l].private
    /\ \A c \in sec.lines[l].cites : c \in {Fact(n) : n \in MayCite[l]}

Scoped == {Decl(nf, FALSE, {}, {}), Decl(nf, TRUE, {}, {}), Decl(nm, FALSE, {nb}, {Fact(nf)}),
           Line("body", {Fact(nm), Doc(nf)}), Line("outer", {Fact(nf), Fact(nm)})}
Rich == Scoped \cup
    {Decl(Anonymous, FALSE, {}, {Fact(nf)}), [Decl(ng, FALSE, {}, {Fact(nf), [name |-> nm, how |-> "method"]}) EXCEPT !.stays = TRUE],
     Line("body", {[name |-> nm, how |-> "method"], [name |-> nf, how |-> "derived"]}), Line("prose", {Fact(nf), Doc(nf)})}

MCMenu(secs) ==
    LET l == Len(secs[1].lines) + 1
        next == IF l = 5 THEN {Line("outer", {Fact(n)}) : n \in {nf, nh}}
                ELSE {Decl(InOrder[l], FALSE, {}, c) : c \in Facts(MayCite[l])}
    IN  IF Len(secs) > 1 THEN Scoped
        ELSE (IF Growing(secs[1]) THEN next ELSE {}) \cup (IF l <= 3 THEN Rich ELSE {})

\* Bounds: three lines, up to five below f, g, h, k; sections fill in order.
MCMayOpen(secs, i) ==
    LET total == FoldSet(LAMBDA j, n : n + Len(secs[j].lines), 0, DOMAIN secs) IN
    /\ \A j \in (i + 1)..Len(secs) : secs[j].lines = <<>>
    /\ \/ total < 3
       \/ Len(secs) = 1 /\ total < 5 /\ Growing(secs[1])

\* Bound: `unused' is run below four declarations.
MCQueried(secs) == Len(secs) = 1 /\ Len(secs[1].lines) >= 4

\* `unused --locals -r': lemmas c, d and e, each proved from those before it,
\* with premises s and t; what is cited beside the tokens that say so.
Given(fact, args) == [fact |-> fact, args |-> args]
Discharge(f) ==
       (<<f, "[", "OF", "s", "t", "]">> :> {Given(f, <<"s", "t">>)})
    @@ (<<f, "[", "of", "x", ",", "OF", "_", "s", "]">> :> {Given(f, <<"", "s">>)})
    @@ (<<f, "[", "OF", "t", "[", "of", "x", ",", "OF", "s", "]", "s", "]">> :>
           {Given(f, <<"t", "s">>), Given("", <<"s">>)})
    @@ (<<f, "[", "OF", "(", "s", "[", "OF", "a", "]", ")", "t", "]">> :>
           {Given(f, <<"", "t">>), Given("s", <<"a">>)})
    @@ (<<f, "[", "symmetric", "]">> :> {Given(f, <<>>)})
Citing == Discharge("c") @@ Discharge("d")
    @@ (<<"s">> :> {Given("s", <<>>)}) @@ (<<"t">> :> {Given("t", <<>>)})
    @@ (<<"assms">> :> {Given("assms", <<>>)}) @@ (<<"sorry">> :> {}) @@ (<<>> :> {})
MCWritten(proof) ==
    LET parts == CHOOSE parts \in (DOMAIN Citing) \X (DOMAIN Citing) : parts[1] \o parts[2] = proof
    IN  Citing[parts[1]] \cup Citing[parts[2]]

Lemma(name, target, kept, ordered, proof) ==
    [name |-> name, target |-> target, labels |-> <<"s", "t">>, kept |-> kept, ordered |-> ordered, proof |-> proof]
MCKeeps == {{}, {"t"}}
Unciting == {<<>>, <<"s">>, <<"t">>, <<"assms">>, <<"sorry">>}
FirstLemmas == {Lemma("c", "", {}, TRUE, p) : p \in Unciting}
    \cup {Lemma("c", "l", {}, TRUE, <<>>), Lemma("c", "", {}, FALSE, <<>>), Lemma("c", "", {"s"}, TRUE, <<>>)}
SecondLemmas == {Lemma("d", "", {}, TRUE, p \o q) : p \in DOMAIN Discharge("c"), q \in {<<>>, <<"t">>}}
ThirdLemmas == {Lemma("e", "", {}, TRUE, p \o q) :
    p \in DOMAIN Discharge("d"), q \in {<<>>, <<"s">>, <<"sorry">>} \cup DOMAIN Discharge("c")}
MCProvable(project) ==
    IF Len(project) < 3 THEN <<FirstLemmas, SecondLemmas, ThirdLemmas>>[Len(project) + 1] ELSE {}

\* The command line.  Project p has A, b/B and again b/B; directory p/o another A
\* and L, a link to B; p/e nothing; ~/o is p/o; and what else a server in / finds.
Path(segs, thy) == [segs |-> segs, thy |-> thy]
Under(segs) == Path(<<"/">> \o segs, FALSE)
Theory(segs) == Path(<<"/">> \o segs, TRUE)
MCTree(path) ==
    LET stands ==
           (Under(<<"p">>) :> "p") @@ (Under(<<"p", "o">>) :> "o") @@ (Under(<<"u", "o">>) :> "o")
        @@ (Under(<<"p", "e">>) :> "e") @@ (Under(<<"o">>) :> "x") @@ (Under(<<"etc">>) :> "x")
        @@ (Theory(<<"p", "A">>) :> "A") @@ (Theory(<<"p", "b", "B">>) :> "B")
        @@ (Theory(<<"p", "o", "A">>) :> "oA") @@ (Theory(<<"p", "o", "L">>) :> "B")
        @@ (Theory(<<"b", "B">>) :> "C")
    IN  IF path \in DOMAIN stands THEN stands[path] ELSE "nothing"
In(name, dir, file) == [name |-> <<name>>, dir |-> <<"/">> \o dir, file |-> file]
MCTheories == [
    p |-> <<In("B", <<"p", "b">>, "B"), In("A", <<"p">>, "A"), In("B", <<"p", "b">>, "B")>>,
    o |-> <<In("A", <<"p", "o">>, "oA"), In("L", <<"p", "o">>, "B")>>,
    e |-> <<>>,
    x |-> <<In("C", <<"o">>, "C")>>]
MCSize == [A |-> 5, B |-> 3, oA |-> 4, C |-> 2, stdin |-> 2, void |-> 0]
Entry(name, lines) == [name |-> name, lines |-> lines]
MCEntryLines == [
    A |-> {Entry("f", {2}), Entry("g", {3, 4})}, B |-> {Entry("f", {2})}, oA |-> {Entry("f", {3})},
    C |-> {}, stdin |-> {Entry("f", {1})}, void |-> {}]
MCPiped == [user |-> "stdin", server |-> "void"]
MCWorkDir == [user |-> <<"/", "p">>, server |-> <<"/">>]
MCHomeDir == [user |-> <<"/", "u">>, server |-> <<"/", "root">>]

Word(opt, segs, thy, win, entry) ==
    [opt |-> opt, path |-> Path(segs, thy), win |-> win, entry |-> entry]
Bareword(name) == Word("", <<name>>, FALSE, {}, "")
Option(opt) == Word(opt, <<opt>>, FALSE, {}, "")
Window(segs, thy, win) == Word("", segs, thy, win, "")
Scope(segs, thy) == Word("--theory=", segs, thy, {}, "")
Verbs == {Bareword(v) : v \in {"grep", "largest", "unused", "lines", "find", "show", "dump-theories"}}
RootOptions == {Option("-R"), Word("--root=", <<"o">>, FALSE, {}, ""), Word("--root=", <<"e">>, FALSE, {}, "")}
Roots == {Bareword("o"), Bareword("zz"), Window(<<"~", "o">>, FALSE, {})}
Operands == {Bareword(n) : n \in {"A", "o", "e", "etc", "zz"}} \cup {Option("-"), Option("--")}
    \cup {Window(<<"A">>, FALSE, {1}), Window(<<"A">>, FALSE, {2, 3}), Window(<<"o">>, FALSE, {1}),
          Window(<<"b", "B">>, TRUE, {2}), Window(<<"o", "L">>, TRUE, {1})}
    \cup {Window(<<"b", "B">>, TRUE, {}), Window(<<"/", "p", "b", "B">>, TRUE, {}), Window(<<"~", "o">>, FALSE, {})}
    \cup {Word("", <<n>>, FALSE, {}, "f") : n \in {"A", "o"}} \cup {Word("", <<"A">>, FALSE, {}, "g")}
    \cup {Word("range", <<"1..2">>, FALSE, {1, 2}, "")}
Subjects == {Bareword(n) : n \in {"f", "g", "h", "o"}}
    \cup {Scope(<<"A">>, FALSE), Scope(<<"b", "B">>, TRUE), Scope(<<"zz">>, FALSE)}

\* Bounds: a root, a verb and one word; else a verb and two, three for grep.
MCTypable(ws) ==
    LET verbs == {i \in DOMAIN ws : ws[i] \in Verbs}
        verb == ws[Min(verbs)]
        most == CASE Min(verbs) > 1 /\ verb # Bareword("grep") -> 1
                  [] Min(verbs) = 1 /\ verb = Bareword("grep") -> 3
                  [] OTHER -> 2
    IN  IF ws # <<>> /\ ws[Len(ws)].opt = "-R" THEN Roots
        ELSE IF verbs = {} THEN Verbs \cup (IF ws = <<>> THEN RootOptions ELSE {})
        ELSE IF Len(ws) - Min(verbs) >= most THEN {}
        ELSE IF verb \in {Bareword("find"), Bareword("show")} THEN Subjects ELSE Operands
=============================================================================
