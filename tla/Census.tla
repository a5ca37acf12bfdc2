------------------------------- MODULE Census -------------------------------
(***************************************************************************)
(* `shape census': one process streams a record per proof, one session at  *)
(* a time, into a file or a pipe.  A session that cannot be parsed or      *)
(* measured is skipped, a killed run leaves what it had written so far,    *)
(* and `census --resume F >> F' goes on where the file ends.               *)
(*                                                                         *)
(* A record stands for its JSON line.  The file is its finished lines and  *)
(* what follows the last newline; the output buffer holds the records      *)
(* written since the last flush.                                           *)
(***************************************************************************)
EXTENDS Integers, Sequences, FiniteSets, FiniteSetsExt

CONSTANTS
    Sessions,   \* the sessions in order, each a sequence of theory files
    Proofs,     \* [file -> sequence of [lemma, command]]
    Name,       \* [file -> theory name]
    Keywords,   \* [file -> the commands its header declares]
    Plain,      \* the commands every theory may use
    Fragile,    \* bound: files that may fail to parse, or to be measured
    Garbled,    \* a line that is not JSON
    MaxRuns     \* bound: runs over one output file

Files == DOMAIN Proofs

ASSUME CensusAssumption ==
    /\ Sessions \in Seq(Seq(Files)) /\ Sessions # <<>>
    /\ \A f \in Files : Proofs[f] \in Seq(Range(Proofs[f]))
    /\ Garbled \notin [file : Files, proof : Nat]
    /\ DOMAIN Name = Files /\ DOMAIN Keywords = Files /\ Fragile \subseteq Files

VARIABLES
    lines, tail,    \* the output file: its lines, and the rest after them
    runs,           \* how often the census was started
    phase,          \* idle, group, load, measure, ended
    toFile, reader, \* where stdout goes, and whether a pipe is still read
    unparsed, unmeasured,   \* files that fail in this run
    done, start,    \* keys read for --resume, and the tail they were read over
    session, table, seen, \* the session being loaded, its command table, dedup
    queue, proofs,  \* files of this session still to add, proofs to measure
    buffer,         \* records written and not flushed
    loaded, skipped, exit

output == <<lines, tail>>
world == <<toFile, unparsed, unmeasured, runs, done, start>>
vars == <<output, world, reader, phase, session, table, seen, queue, proofs,
          buffer, loaded, skipped, exit>>

Record(f, i) == [file |-> f, proof |-> i]
Key(r) == <<Name[r.file], Proofs[r.file][r.proof].lemma>>
SessionFiles(s) == {Sessions[s][j] : j \in DOMAIN Sessions[s]}

(***************************************************************************)
(* The output file.  What is left of a record when the process is killed   *)
(* is none of it, a part, or all of it but the newline; the next run       *)
(* appends its first line to that.                                         *)
(***************************************************************************)
Empty == [kind |-> "empty"]
Part(r) == [kind |-> "part", rec |-> r]
Whole(r) == [kind |-> "whole", rec |-> r]

Write(recs) ==
    [i \in 1..Len(recs) |-> IF i = 1 /\ tail # Empty THEN Garbled ELSE recs[i]]

Flush(recs) ==
    /\ lines' = lines \o Write(recs)
    /\ tail' = IF recs = <<>> THEN tail ELSE Empty

\* Cut after k records of the buffer, and into the next one.
Cut(k) ==
    /\ lines' = lines \o Write(SubSeq(buffer, 1, k))
    /\ IF k = Len(buffer) THEN tail' = IF k = 0 THEN tail ELSE Empty
       ELSE LET r == buffer[k + 1] IN
            IF k = 0 /\ tail # Empty THEN tail' \in {tail, [kind |-> "mess"]}
            ELSE tail' \in {Empty, Part(r), Whole(r)}

\* Mutant: a record that was cut short counts as written.
LoadDoneLeniently ==
    {Key(r) : r \in {lines[i] : i \in DOMAIN lines} \ {Garbled}}
        \cup (IF tail.kind \in {"part", "whole"} THEN {Key(tail.rec)} ELSE {})

\* _load_done: a line that does not parse is passed over.
LoadDone ==
    {Key(r) : r \in {lines[i] : i \in DOMAIN lines} \ {Garbled}}
        \cup (IF tail.kind = "whole" THEN {Key(tail.rec)} ELSE {})

-----------------------------------------------------------------------------
Init ==
    /\ lines = <<>> /\ tail = Empty
    /\ runs = 0
    /\ phase = "idle"
    /\ toFile \in BOOLEAN /\ reader = TRUE
    /\ unparsed = {} /\ unmeasured = {}
    /\ done = {} /\ start = Empty
    /\ session = 0 /\ table = {} /\ seen = {}
    /\ queue = <<>> /\ proofs = <<>> /\ buffer = <<>>
    /\ loaded = 0 /\ skipped = 0 /\ exit = "none"

(***************************************************************************)
(* The command is started, or started again on what it left.  Files may    *)
(* have been repaired or broken in between.                                *)
(***************************************************************************)
Start ==
    /\ phase \in {"idle", "ended"}
    /\ runs < IF toFile THEN MaxRuns ELSE 1
    /\ runs' = runs + 1
    /\ phase' = "group"
    /\ unparsed' \in SUBSET Fragile
    /\ unmeasured' \in SUBSET (Fragile \ unparsed')
    /\ done' = LoadDone
    /\ start' = tail
    /\ session' = 0 /\ table' = {} /\ seen' = {}
    /\ queue' = <<>> /\ proofs' = <<>> /\ buffer' = <<>>
    /\ loaded' = 0 /\ skipped' = 0 /\ exit' = "none"
    /\ UNCHANGED <<output, toFile, reader>>

\* _populate_custom_commands after the table was cleared.
Table(s) == UNION {Keywords[f] : f \in SessionFiles(s)}

\* sections_for_session: the table first, then file by file.
Load ==
    /\ phase = "group" /\ session < Len(Sessions)
    /\ session' = session + 1
    /\ table' = Table(session + 1)
    /\ queue' = Sessions[session + 1]
    /\ phase' = "load"
    /\ UNCHANGED <<output, world, reader, seen, proofs, buffer, loaded, skipped, exit>>

\* Any exception of a session but a broken pipe.
Skip ==
    /\ skipped' = skipped + 1
    /\ queue' = <<>> /\ proofs' = <<>>
    /\ phase' = "group"

\* The entries a theory has under the table of the session that parses it.
InOrder(S) == CHOOSE t \in [1..Cardinality(S) -> S] : \A i, j \in DOMAIN t : i < j => t[i] < t[j]

Entries(f) ==
    LET held == InOrder({i \in DOMAIN Proofs[f] : Proofs[f][i].command \in Plain \cup table}) IN
    [k \in DOMAIN held |-> Record(f, held[k])]

\* Mutant: every session starts a dedup set of its own.
SeenThisSession == IF queue = Sessions[session] THEN {} ELSE seen

\* One dedup set lives as long as the run.
Seen == seen

\* _add_one_section: a file is marked before it is parsed.
AddSection ==
    /\ phase = "load" /\ queue # <<>>
    /\ LET f == Head(queue) IN
       /\ seen' = Seen \cup {f}
       /\ IF f \in unparsed \ Seen THEN Skip
          ELSE /\ queue' = Tail(queue)
               /\ proofs' = IF f \in Seen THEN proofs ELSE proofs \o Entries(f)
               /\ UNCHANGED <<skipped, phase>>
    /\ UNCHANGED <<output, world, reader, session, table, buffer, loaded, exit>>

Loaded ==
    /\ phase = "load" /\ queue = <<>>
    /\ phase' = "measure"
    /\ UNCHANGED <<output, world, reader, session, table, seen, queue, proofs,
                   buffer, loaded, skipped, exit>>

(***************************************************************************)
(* A pipe nobody reads any more is noticed when the buffer is written out: *)
(* at a flush, or at any record that fills the buffer.                     *)
(***************************************************************************)
\* BrokenPipeError passes the loop and reaches main.
BrokenPipe ==
    /\ phase' = "ended"
    /\ exit' = "sigpipe"
    /\ buffer' = <<>>
    /\ UNCHANGED <<queue, proofs, skipped>>

\* analyze_sections yields one proof at a time: a file that cannot be measured
\* fails at any of its proofs, at the last if at none before.
Measured(r) == r.file \in unmeasured => \E k \in 2..Len(proofs) : proofs[k].file = r.file

\* The loop over what it yields.
Measure ==
    /\ phase = "measure" /\ proofs # <<>>
    /\ LET r == Head(proofs) IN
       \/ r.file \in unmeasured /\ Skip /\ UNCHANGED <<buffer, exit>>
       \/ /\ Measured(r)
          /\ proofs' = Tail(proofs)
          /\ buffer' = IF Key(r) \in done THEN buffer ELSE Append(buffer, r)
          /\ UNCHANGED <<queue, skipped, phase, exit>>
       \/ Measured(r) /\ Key(r) \notin done /\ ~reader /\ BrokenPipe
    /\ UNCHANGED <<output, world, reader, session, table, seen, loaded>>

EndSession ==
    /\ phase = "measure" /\ proofs = <<>>
    /\ IF ~reader /\ buffer # <<>>
       THEN BrokenPipe /\ UNCHANGED <<output, loaded>>
       ELSE /\ Flush(buffer)
            /\ buffer' = <<>>
            /\ loaded' = loaded + 1
            /\ phase' = "group"
            /\ UNCHANGED <<queue, proofs, skipped, exit>>
    /\ UNCHANGED <<world, reader, session, table, seen>>

\* The interpreter flushes what a skipped session left, after the status is chosen.
Exit ==
    /\ phase = "group" /\ session = Len(Sessions)
    /\ phase' = "ended"
    /\ buffer' = <<>>
    /\ exit' = IF ~reader /\ buffer # <<>> THEN "lost"
               ELSE IF loaded = 0 THEN "bad root" ELSE "ok"
    /\ IF exit' = "lost" THEN UNCHANGED output ELSE Flush(buffer)
    /\ UNCHANGED <<world, reader, session, table, seen, queue, proofs, loaded,
                   skipped>>

Running == phase \in {"group", "load", "measure"}

Kill ==
    /\ Running /\ toFile
    /\ \E k \in 0..Len(buffer) : Cut(k)
    /\ phase' = "ended"
    /\ exit' = "killed"
    /\ buffer' = <<>>
    /\ UNCHANGED <<world, reader, session, table, seen, queue, proofs, loaded,
                   skipped>>

CloseReader ==
    /\ ~toFile /\ reader /\ Running
    /\ reader' = FALSE
    /\ UNCHANGED <<output, world, phase, session, table, seen, queue, proofs,
                   buffer, loaded, skipped, exit>>

Census == Load \/ AddSection \/ Loaded \/ Measure \/ EndSession \/ Exit

Next == Start \/ Census \/ Kill \/ CloseReader

Spec == Init /\ [][Next]_vars

-----------------------------------------------------------------------------
\* The commands the headers of a session declare, whatever was parsed before.
Commands(s) == Plain \cup UNION {Keywords[f] : f \in SessionFiles(s)}

InFile == {lines[i] : i \in DOMAIN lines} \ {Garbled}

Owner(f) == Min({s \in DOMAIN Sessions : f \in SessionFiles(s)})

Measurable(f, s) ==
    {Record(f, i) : i \in {k \in DOMAIN Proofs[f] : Proofs[f][k].command \in Commands(s)}}

Expected == UNION {Measurable(f, Owner(f)) : f \in UNION {SessionFiles(s) : s \in DOMAIN Sessions}}

Missing == {Key(r) : r \in Expected} \ {Key(r) : r \in InFile}

\* No proof is counted twice in a corpus, however often a run was killed and
\* resumed and however many sessions list its theory (_run_shape_census: "a
\* per-session set would emit each of them twice").
NoDuplicate ==
    \A i, j \in DOMAIN lines : lines[i] # Garbled /\ lines[i] = lines[j] => i = j

\* A run that ends without a skipped session has every key in the file, but
\* for the line the last kill left without its end and the one written onto
\* it: what an earlier kill garbled is measured again.
OnlyTheTornIsLost ==
    (exit = "ok" /\ skipped = 0 /\ toFile) =>
        Cardinality(Missing) <= (CASE start.kind = "empty" -> 0
                                   [] start.kind = "whole" -> 2
                                   [] OTHER -> 1)

\* A batch measures what runs over single sessions would: no proof is found
\* by a command that only another session declares.
OwnCommandsOnly ==
    InFile \subseteq
        UNION {UNION {Measurable(f, s) : f \in SessionFiles(s)} : s \in DOMAIN Sessions}

\* So the file is that of runs over single sessions: each proof once, and only
\* proofs of the session's own commands.
MeasuredOnce == NoDuplicate /\ OwnCommandsOnly

\* A session is reported as skipped only for a failure of its own files, and
\* the status says that nothing could be read only if every session failed:
\* a consumer that went away is neither (cmd_shape_census: "NOT a session
\* failure").
SkipsAreFailures ==
    /\ skipped <= Cardinality({s \in DOMAIN Sessions :
                                  SessionFiles(s) \cap (unparsed \cup unmeasured) # {}})
    /\ exit = "bad root" => \A s \in DOMAIN Sessions :
                                SessionFiles(s) \cap (unparsed \cup unmeasured) # {}

\* What a run says it lost is what it lost, the torn line aside.
LossesTold == OnlyTheTornIsLost /\ SkipsAreFailures

\* _load_done: "a truncated final record from a kill is tolerated".
TruncationTolerated ==
    (exit = "ok" /\ skipped = 0 /\ toFile) => Missing = {}

\* cmd_shape_census: "One unparseable session must not lose the other 991".
OthersKept ==
    (exit = "ok" /\ toFile /\ runs = 1 /\ unmeasured = {}) =>
        \A s \in DOMAIN Sessions : SessionFiles(s) \cap unparsed = {} =>
            \A f \in SessionFiles(s) :
                {Key(r) : r \in Measurable(f, s) \cap Measurable(f, Owner(f))}
                    \subseteq {Key(r) : r \in InFile}
=============================================================================
