---------------------------- MODULE CommandLine ----------------------------
(***************************************************************************)
(* What the words behind `isabelle query' are about: the client, which     *)
(* leaves the line to the warm server or not, and the tool, which runs in  *)
(* the directory of the user or in that of the server, and loads sections  *)
(* for the paths, theory names and `-' it is given.                        *)
(*                                                                         *)
(* A word is [opt, path, win, entry]: the option it is or begins with ("-" *)
(* is standard input, "range" a range alone, "" neither); a path or name,  *)
(* as its segments and whether the last ends in .thy [segs, thy]; the      *)
(* lines of a window `:A..B'; an entry `:NAME'.                            *)
(***************************************************************************)
EXTENDS Reach

CONSTANTS
    Typable(_),     \* bound: the words that may follow those typed
    Tree(_),        \* a file, a directory or "nothing": what is at an absolute path
    Theories,       \* directory -> its theories in load order: [name, dir, file]
    Size,           \* file -> its number of lines
    EntryLines,     \* file -> its entries: [name, lines]
    WorkDir,        \* "user", "server" -> the directory it runs in
    HomeDir,        \* the one it takes for home
    Piped,          \* and what it reads from standard input
    Project,        \* the directory the user's belongs to
    ColdOnly        \* verbs the server does not have

VARIABLE words

Type(word) == words' = Append(words, word)

Plain(word) == word.win = {} /\ word.entry = ""

\* abspath and expanduser, for a process that runs at `where'.
Absolute(where, path) ==
    [path EXCEPT !.segs = CASE Head(@) = "/" -> @
                            [] Head(@) = "~" -> HomeDir[where] \o Tail(@)
                            [] OTHER -> WorkDir[where] \o @]
Found(where, path) == Tree(Absolute(where, path))
IsDir(object) == object \in DOMAIN Theories

-----------------------------------------------------------------------------
(***************************************************************************)
(* The client.                                                             *)
(***************************************************************************)
\* The words -R has for its argument.
Taken(ws) ==
    LET T[i \in 0..Len(ws)] ==
            IF i < 2 THEN {}
            ELSE T[i - 1] \cup {j \in {i} : ws[i - 1].opt = "-R" /\ i - 1 \notin T[i - 1]}
    IN  T[Len(ws)]

\* absolutize: a root means for the server what it means for the user.
Absolutize(ws) ==
    [i \in DOMAIN ws |-> IF i \in Taken(ws) \/ ws[i].opt = "--root="
                         THEN [ws[i] EXCEPT !.path = Absolute("user", @)] ELSE ws[i]]

\* ambiguous: a relative word that names something here; it may be a pattern.
Ambiguous(ws) ==
    {i \in DOMAIN ws \ Taken(ws) :
        /\ ws[i].opt = "" /\ Plain(ws[i])
        /\ Head(ws[i].path.segs) # "/"
        /\ Found("user", ws[i].path) # "nothing"}

\* The `--' behind which all is positional.
EndOfOptions(ws) ==
    Min({i \in DOMAIN ws \ Taken(ws) : ws[i].opt = "--"} \cup {Len(ws) + 1})

Positionals(ws) ==
    LET end == EndOfOptions(ws)
        places == SelectSeq([i \in DOMAIN ws |-> i],
            LAMBDA i : i > end \/ (i < end /\ i \notin Taken(ws) /\ ws[i].opt \in {"", "-", "range"}))
    IN  [n \in DOMAIN places |-> ws[places[n]]]

VerbOf(ws) == IF Positionals(ws) = <<>> THEN "" ELSE Head(Positionals(ws)[1].path.segs)

\* _main: what is left to the server.
Served(ws) ==
    LET pos == Positionals(ws) IN
    /\ VerbOf(ws) \notin ColdOnly
    /\ ~(VerbOf(ws) = "shape" /\ Len(pos) > 1 /\ pos[2].path.segs = <<"census">>)
    /\ \A i \in DOMAIN ws : ws[i].opt # "-"
    /\ Ambiguous(ws) = {}

-----------------------------------------------------------------------------
(***************************************************************************)
(* The tool: the sections a list of words loads.  `table' holds the        *)
(* directories whose headers declare commands for what is parsed next.     *)
(***************************************************************************)
\* main and active_t_dir: the last -R, else the project of the user.
RootOf(ws, where) ==
    LET given == {i \in DOMAIN ws : i < EndOfOptions(ws) /\ (i \in Taken(ws) \/ ws[i].opt = "--root=")} IN
    IF given = {} THEN Project ELSE Found(where, ws[Max(given)].path)

Nothing == [secs |-> <<>>, piped |-> FALSE, table |-> {}, indexed |-> FALSE, failed |-> FALSE]
Failed(acc) == [acc EXCEPT !.failed = TRUE]

\* A file is loaded once, for the word that names it first.
Parsed(acc, file, win) ==
    [acc EXCEPT !.secs = Append(@, [file |-> file, win |-> win, table |-> acc.table])]
AddSection(acc, file, win) ==
    IF \E i \in DOMAIN acc.secs : acc.secs[i].file = file THEN acc ELSE Parsed(acc, file, win)

\* _sections_from_dir: all headers, then all theories.
SectionsFromDir(acc, dir) ==
    FoldLeft(LAMBDA a, thy : AddSection(a, thy.file, {}), [acc EXCEPT !.table = @ \cup {dir}], Theories[dir])

\* load_index for a name: afresh, once for a list of words.
WithIndex(acc, root) ==
    IF acc.indexed THEN acc
    ELSE [acc EXCEPT !.indexed = TRUE, !.table = {root}, !.failed = Theories[root] = <<>>]

\* The theories of the index, each file once.
Index(root) ==
    SelectSeq([i \in DOMAIN Theories[root] |-> [at |-> i, thy |-> Theories[root][i]]],
              LAMBDA s : \A j \in 1..(s.at - 1) : Theories[root][j].file # s.thy.file)

\* _resolve_theory for a word that is no file: a name, a label, a path's stem.
NamedIn(root, path) ==
    LET secs == [i \in DOMAIN Index(root) |-> Index(root)[i].thy] IN
    {secs[i].file : i \in ResolveTheory(secs, path.segs)}

\* Whether what a verb does not take a selector for makes a word a name of
\* nothing.  Behind a path with a suffix, an entry or a single line goes for
\* part of the suffix, and the theory is found without it.
Selects(word, windows) == word.entry # "" \/ (word.win # {} /\ ~windows)
Swallowed(word) ==
    word.path.thy /\ Len(word.path.segs) > 1 /\ (word.entry # "" \/ Cardinality(word.win) = 1)
Denoted(root, word, windows) ==
    IF word.opt # "" \/ (Selects(word, windows) /\ ~Swallowed(word)) THEN {}
    ELSE NamedIn(root, word.path)

\* _load_sections, word by word, with _split_path_window, _resolve_file_source.
LoadWord(acc, word, where, root, windows) ==
    LET object == IF word.opt # "" \/ Selects(word, windows) THEN "nothing" ELSE Found(where, word.path)
        win == IF windows THEN word.win ELSE {}
        indexed == WithIndex(acc, root)
        named == Denoted(root, word, windows)
    IN  IF acc.failed THEN acc
        ELSE IF word.opt = "-"
             THEN IF acc.piped THEN acc ELSE Parsed([acc EXCEPT !.piped = TRUE], Piped[where], {})
        ELSE IF IsDir(object) THEN SectionsFromDir(acc, object)
        ELSE IF object # "nothing" THEN AddSection(acc, object, win)
        ELSE IF indexed.failed \/ named = {} THEN Failed(indexed)
        ELSE AddSection(indexed, CHOOSE f \in named : TRUE, win)

Load(ws, where, root, windows) ==
    IF ws = <<>>
    THEN LET all == SectionsFromDir(Nothing, root) IN IF all.secs = <<>> THEN Failed(all) ELSE all
    ELSE FoldLeft(LAMBDA acc, word : LoadWord(acc, word, where, root, windows), Nothing, ws)

AllLines(file) == 1..Size[file]
LinesOf(sec) == IF sec.win = {} THEN AllLines(sec.file) ELSE sec.win \cap AllLines(sec.file)

\* _locals_selection: windows and entries of one file add up, and a word that
\* is only the file takes all of it.  Each word is loaded for itself.
SelectLocals(acc, word, got) ==
    LET files == {got.secs[i].file : i \in DOMAIN got.secs}
        Hits(f) == {e \in EntryLines[f] : e.name = word.entry}
        Asks(f) == IF word.entry # "" THEN UNION {e.lines : e \in Hits(f)} ELSE word.win
        new == SelectSeq(got.secs, LAMBDA s : \A i \in DOMAIN acc.secs : acc.secs[i].file # s.file)
        whole == {f \in files : word.entry = "" /\ \E i \in DOMAIN got.secs :
                                    got.secs[i].file = f /\ got.secs[i].win = {}}
    IN  IF acc.failed \/ got.failed \/ (word.entry # "" /\ \E f \in files : Hits(f) = {})
        THEN Failed(acc)
        ELSE [acc EXCEPT !.secs = @ \o new, !.table = got.table, !.whole = @ \cup whole,
                         !.windows = @ \cup {[file |-> f, lines |-> Asks(f)] : f \in files \ whole}]

LinesSelected(acc) ==
    LET Chosen(f) == IF f \in acc.whole THEN AllLines(f)
                     ELSE (UNION {w.lines : w \in {v \in acc.windows : v.file = f}}) \cap AllLines(f)
    IN  [failed |-> acc.failed,
         secs |-> [i \in DOMAIN acc.secs |->
            [file |-> acc.secs[i].file, lines |-> Chosen(acc.secs[i].file), table |-> acc.secs[i].table]]]

LocalsSelection(ws, where, root) ==
    LET none == [secs |-> <<>>, whole |-> {}, windows |-> {}, table |-> {}, failed |-> FALSE]
        Alone(acc, word) ==
            LoadWord([Nothing EXCEPT !.table = acc.table], [word EXCEPT !.entry = ""], where, root, TRUE)
    IN  IF ws = <<>> THEN Load(ws, where, root, FALSE)
        ELSE LinesSelected(FoldLeft(LAMBDA acc, word : SelectLocals(acc, word, Alone(acc, word)), none, ws))

\* _lines_file_and_ranges and _run_lines: `FILE RANGE...' or `FILE:RANGE...'.
LinesOfFile(ws, where, root) ==
    LET Locus(w) == w.opt = "" /\ w.win # {}
        glued == ws # <<>> /\ Locus(ws[1])
        wrong == IF glued THEN \E w \in Range(ws) : ~Locus(w) \/ w.path # ws[1].path
                 ELSE Len(ws) < 2 \/ \E n \in 2..Len(ws) : ws[n].opt # "range"
        from == IF glued THEN ws ELSE Tail(ws)
        file == LoadWord(Nothing, [ws[1] EXCEPT !.win = {}], where, root, FALSE)
    IN  IF wrong \/ file.failed \/ IsDir(Found(where, ws[1].path)) THEN Failed(Nothing)
        ELSE LET name == file.secs[1].file IN
             [failed |-> FALSE,
              secs |-> <<[file |-> name, ranges |-> [n \in DOMAIN from |-> from[n].win \cap AllLines(name)]]>>]

\* _scope_to_theories: the theories of the index that are named, each once.
ScopeTo(root, where, scope) ==
    LET named == [n \in DOMAIN scope |->
            LET here == Found(where, scope[n])
                indexed == {Index(root)[i].thy.file : i \in DOMAIN Index(root)}
            IN  IF scope[n].thy /\ here \in indexed THEN {here} ELSE NamedIn(root, scope[n])]
    IN  IF scope = <<>> THEN {Index(root)[i].thy.file : i \in DOMAIN Index(root)} ELSE UNION Range(named)

\* _run_each: the answers to all subjects, or none.
RunEach(answers) ==
    IF Len(answers) > 1 /\ \E n \in DOMAIN answers : ~answers[n].known
    THEN [failed |-> TRUE, out |-> <<>>]
    ELSE [failed |-> \E n \in DOMAIN answers : ~answers[n].known,
          out |-> [n \in {m \in DOMAIN answers : answers[m].known} |-> answers[n].out]]

\* cmd_find and cmd_show: the second fails for what is no entry.
Answer(verb, files, word) ==
    LET hits == UNION {{<<f, e.lines>> : e \in {d \in EntryLines[f] : <<d.name>> = word.path.segs}} : f \in files}
    IN  [out |-> hits, known |-> verb = "find" \/ hits # {}]

\* The runners of the verbs; `unused' is asked with --locals.
Run(ws, where) ==
    LET pos == Positionals(ws)
        args == Tail(pos)
        root == RootOf(ws, where)
        scoping == SelectSeq(ws, LAMBDA w : w.opt = "--theory=")
        files == ScopeTo(root, where, [n \in DOMAIN scoping |-> scoping[n].path])
        Refused == [failed |-> TRUE, out |-> <<>>]
    IN  IF ~IsDir(root) \/ pos = <<>> \/ (args = <<>> /\ VerbOf(ws) \notin {"largest", "unused"}) THEN Refused
        ELSE CASE VerbOf(ws) = "grep" -> <<args[1], Load(Tail(args), where, root, TRUE)>>
               [] VerbOf(ws) = "largest" -> Load(args, where, root, FALSE)
               [] VerbOf(ws) = "unused" -> LocalsSelection(args, where, root)
               [] VerbOf(ws) = "lines" -> LinesOfFile(args, where, root)
               [] OTHER -> IF Theories[root] = <<>> THEN Refused
                           ELSE RunEach([n \in DOMAIN args |-> Answer(VerbOf(ws), files, args[n])])

-----------------------------------------------------------------------------
(***************************************************************************)
(* What must be so.                                                        *)
(***************************************************************************)
\* What the client does not look at: a relative path inside a word, and a
\* relative name of nothing here that is something where the server runs.
Overlooked(word) ==
    /\ word.opt \in {"", "--theory="} /\ Head(word.path.segs) # "/"
    /\ Found("user", word.path) # Found("server", word.path)
    /\ ~(word.opt = "" /\ Plain(word) /\ Found("user", word.path) # "nothing")

\* A line that is served is answered in the server's directory as it would be
\* in the user's: the same root and files, patterns as typed, the same failures.
ServedRight(overlooked) ==
    (/\ Served(words) /\ EndOfOptions(words) > Len(words)
     /\ \A i \in DOMAIN words \ Taken(words) : Overlooked(words[i]) => overlooked)
    => Run(Absolutize(words), "server") = Run(words, "user")
ServedAsTyped == ServedRight(FALSE)

\* The files a word means, and the lines of one of them.
Means(word, root, windows) ==
    LET object == Found("user", word.path) IN
    IF word.opt = "-" THEN {Piped["user"]}
    ELSE IF word.opt # "" \/ Selects(word, windows) THEN {}
    ELSE IF IsDir(object) THEN {thy.file : thy \in Range(Theories[object])}
    ELSE IF object # "nothing" THEN {object} ELSE NamedIn(root, word.path)

AskedOf(word, file) ==
    IF word.entry # "" THEN UNION {e.lines : e \in {d \in EntryLines[file] : d.name = word.entry}}
    ELSE IF word.win = {} \/ IsDir(Found("user", word.path)) THEN AllLines(file)
    ELSE word.win \cap AllLines(file)

\* A list of words loads every file one of them means, once, for the first that
\* does, in that order, and a directory's with the commands it declares; and it
\* fails, with no answer, if one of them means nothing.
LoadedExactly(got, args, root, windows) ==
    LET files == [i \in DOMAIN got.secs |-> got.secs[i].file]
        First(i) == Min({n \in DOMAIN args : files[i] \in Means(args[n], root, windows)})
        Empty(word) == word.opt = "" /\ ~Selects(word, windows) /\ IsDir(Found("user", word.path))
    IN  (\A w \in Range(args) : ~(Selects(w, windows) /\ Swallowed(w))) =>
        /\ got.failed <=> \E w \in Range(args) : Means(w, root, windows) = {} /\ ~Empty(w)
        /\ ~got.failed =>
            /\ Range(files) = UNION {Means(w, root, windows) : w \in Range(args)}
            /\ \A i, j \in DOMAIN files : i < j => files[i] # files[j] /\ First(i) <= First(j)
            /\ \A i \in DOMAIN files : LET word == args[First(i)] IN
                  /\ LinesOf(got.secs[i]) = AskedOf(word, files[i])
                  /\ IsDir(Found("user", word.path)) => Found("user", word.path) \in got.secs[i].table

\* `unused --locals': "Two selectors on one file add up; a bare file anywhere
\* takes all of it", by whatever names the file goes.
SelectedExactly(got, args, root) ==
    LET Theirs(word) == Means([word EXCEPT !.entry = ""], root, TRUE)
        For(file) == {w \in Range(args) : file \in Theirs(w)}
    IN  ~got.failed =>
        /\ {got.secs[i].file : i \in DOMAIN got.secs} = UNION {Theirs(w) : w \in Range(args)}
        /\ \A i, j \in DOMAIN got.secs : got.secs[i].file = got.secs[j].file => i = j
        /\ \A i \in DOMAIN got.secs :
              got.secs[i].lines = UNION {AskedOf(w, got.secs[i].file) : w \in For(got.secs[i].file)}

\* `lines': both spellings print the same, of the file `grep' would search.
PrintedAlike(got, args, root) ==
    LET file == [args[1] EXCEPT !.win = {}]
        Alone(word) == [word EXCEPT !.opt = "range", !.path = [segs |-> <<"range">>, thy |-> FALSE]]
    IN  args[1].opt = "" /\ args[1].win # {} /\ ~got.failed =>
        /\ got = LinesOfFile(<<file>> \o [n \in DOMAIN args |-> Alone(args[n])], "user", root)
        /\ [n \in DOMAIN args |-> LinesOf(Load(<<args[n]>>, "user", root, TRUE).secs[1])] = got.secs[1].ranges
        /\ Load(<<file>>, "user", root, TRUE).secs[1].file = got.secs[1].file

\* A reader who counts blocks attributes each to the subject it answers: exit 0
\* has the answers there are to the subjects one by one, a failure has none.
BatchAligned(ws) ==
    LET pos == Positionals(ws)
        options == SelectSeq(ws, LAMBDA w : w.opt \in {"--theory=", "--root="})
        Told(all, alone) ==
            /\ all.failed <=> \E n \in DOMAIN alone : alone[n].failed
            /\ all.failed => all.out = <<>>
            /\ ~all.failed => all.out = [n \in DOMAIN alone |-> alone[n].out[1]]
    IN  VerbOf(ws) \in {"find", "show"} /\ Len(pos) > 2 /\ Taken(ws) = {} =>
            Told(Run(pos \o options, "user"),
                 [n \in 1..(Len(pos) - 1) |-> Run(<<pos[1], pos[n + 1]>> \o options, "user")])

LoadsExact(args, root) ==
    args # <<>> /\ IsDir(root) =>
        /\ \A windows \in BOOLEAN : LoadedExactly(Load(args, "user", root, windows), args, root, windows)
        /\ SelectedExactly(LocalsSelection(args, "user", root), args, root)
        /\ PrintedAlike(LinesOfFile(args, "user", root), args, root)

WordsExact ==
    /\ ServedAsTyped
    /\ Positionals(words) # <<>> => LoadsExact(Tail(Positionals(words)), RootOf(words, "user"))
    /\ BatchAligned(words)

-----------------------------------------------------------------------------
(***************************************************************************)
(* What a comment says and the code does not do.                           *)
(***************************************************************************)
\* ambiguous: "one that names nothing (the server resolves it exactly as a
\* local run would)"; and a path inside a word would be one that does.
ServedWhatever == ServedRight(TRUE)

\* _load_sections: the window scopes the search to those lines; given two of
\* one file, to both.
WindowsAddUp ==
    LET args == Tail(Positionals(words))
        root == RootOf(words, "user")
        got == Load(args, "user", root, TRUE)
    IN  Len(Positionals(words)) > 1 /\ IsDir(root) /\ ~got.failed =>
            \A i \in DOMAIN got.secs : \A w \in Range(args) :
                got.secs[i].file \in Means(w, root, TRUE) =>
                    AskedOf(w, got.secs[i].file) \subseteq LinesOf(got.secs[i])

\* _split_path_window: a bad token falls "through to the normal resolver and
\* its existing error".
SelectorsAreErrors ==
    \A w \in Range(words) : IsDir(RootOf(words, "user")) /\ w.opt = "" /\ Selects(w, FALSE) =>
        Load(<<w>>, "user", RootOf(words, "user"), FALSE).failed

\* _scope_to_theories: a scope that is no theory is "skipped rather than
\* silently narrowing to nothing".
TypoIsNoScope ==
    \A w \in Range(words) : w.opt = "--theory=" /\ IsDir(RootOf(words, "user")) =>
        ScopeTo(RootOf(words, "user"), "user", <<w.path>>) # {}

\* _fail_root: "Every path that can yield an empty index" says why.
EmptyIsTold ==
    LET got == Load(Tail(Positionals(words)), "user", RootOf(words, "user"), TRUE)
    IN  Len(Positionals(words)) > 1 /\ IsDir(RootOf(words, "user")) => got.failed \/ got.secs # <<>>
=============================================================================
