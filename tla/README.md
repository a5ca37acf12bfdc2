# Formal models of isabelle-query

`isabelle query` answers questions about the theories of an Isabelle project: where a
constant is declared, who uses a lemma, what a proof looks like.  A cold run starts a JVM and
parses everything; a warm one asks a server that keeps the parsed project and re-reads only
what changed.  Keeping it is the difficult part of the system, and the first half of these
modules is about it; the second half is about the answers: which lines belong to a declaration,
what a citation means, and the batch commands that run for hours.

This directory holds TLA+ models, the TLC runs that check them on small instances, and proofs,
checked by TLAPS, of what matters most about some of them for all instances.  Line numbers are
those of the commit the directory belongs to; PROJECT.json maps each definition to the lines it
stands for.

    tlc -config MCWarmRegistryLive.cfg MCWarmRegistry.tla     one run
    tlapm WarmRegistryProofs.tla                              the proofs of a module


## 1. The system

### Parts

| part | code | state it keeps | operations |
|---|---|---|---|
| warm registry | `query_base/src/server.scala` 120-545 | retained indexes with charge and last use, use clock, retention switch | open, run, close, cache control, version |
| warm index | `server.scala` 215-375 | fingerprint, sections with the key each was parsed under | refresh |
| parallel parse | `theory.scala` 25-60 | shared counter and stop flag, result slots | `map_bounded` |
| server protocol | `server.scala` 545-800 | none of its own | decoding, the request's environment, dispatch to the registry |
| query host, dedicated server | `query_host.scala`, `query_server.scala` | listening socket, accepted connections, row in `servers.db`, identity | start, stop, accept, shutdown command, end of stdin |
| thin client | `lib/scripts/query_client.py` | per invocation: rows looked up, connection, servers it started | run, restart, stop, status, cache control |
| command shim | `lib/Tools/query` | the shared class archive | client first, cold run after exit status 97 |
| jEdit project index | `jedit_query/src/query_index.scala` | published snapshot and per-file cache, one worker | refresh, invalidate |
| jEdit panels and glue | `jedit_query/src/*.scala` | what a panel shows and which question it belongs to | ask, cancel, show |
| discovery, reachability | `discovery.scala`, `reach.scala`; `graph.py` | none | which theories a project has; imports, visibility |
| grammar and regions | `entries.scala`, `regions.scala`, ...; `parsing.py` | a table of custom commands per load | text of a theory to entries |
| query verbs | `usage*.scala`, `commands.scala`, ...; `commands.py`, `graph.py` | none | sections to answer text |
| method namespace | `namespace.scala`; `_namespace_resolve.py` | cache files shared by all processes | resolve, dump, record a failure |
| proof metrics | `shape*.scala`; `shape.py`, `shape_cmds.py` | the output file of a census | measure, resume |
| MCP tool | `pide_mcp_query/src` | none | one request to the embedded engine |

The Python package `src/isabelle_query` is the implementation the Scala engine is a port of and
is compared with by differential tests.  Where both exist the models of the pure parts follow
the Python text, which is the shorter and the commented one.

### How they interact

The shim runs the thin client.  The client reads `servers.db` (SQLite, shared by all processes
of the user), connects to a loopback port and sends `query_run`.  A host is one process behind
such a port: the dedicated server, started by hand or by a client that keeps its stdin open, or
an endpoint inside jEdit or PIDE.  It has one accept thread and one thread per connection, and
every connection thread calls the registry.  The registry runs one lifecycle (open, run, close)
at a time under `engine_lock`, and guards its data by `registry_lock`, so that `query_version`
is answered meanwhile.  A run refreshes its index first: stat every file, compare with the
recorded fingerprint, and if it differs discover, read headers, parse what is not in the
per-file cache in parallel, commit.  Editors and users write the files at any time.

In jEdit a panel hands each question, with the dirty buffers of that moment, to the one worker
of the project index, which refreshes, answers, and posts the answer back to the panel.

A query itself is a chain of functions: discovery gives the theories, the scanner splits each
into outer syntax, terms and regions that are not Isar, the parser makes entries of them and the
passes over the entries give each its lines; the verbs build the graph of citations, filter it
by what an import can see, and print rows.  The batch census runs the chain once per session.

### What is hard about it

* Sources change between any two reads of one refresh, and nothing locks them.
* An entry is charged, aged, evicted and closed by requests that each see part of a lifecycle.
* `stop()` runs in up to four threads at once: the main thread, the owner thread, and the
  threads of connections that sent the shutdown command.
* `servers.db` outlives every process; rows of the dead are pruned by clients that race with
  the start of new servers under the same name.
* A client must not answer twice, hang, or leave a server behind, whichever of a dozen calls to
  other processes fails.
* The scanner is line by line with a few registers, where the language nests.
* A name may be declared in several files, and a theory name may belong to several files; a dozen
  verbs have to agree on which one a citation means.
* The iterations of `unused` run over sets in hash order.
* A census runs for hours, is killed, and resumed on what it left; queries share the namespace
  cache while heaps are being rebuilt.

The hazards in PROJECT.json list these one by one, at the line where each bites, with the
properties that cover it.

### What makes each part correct

* Registry: bounded whenever anyone can look, charged exactly what it keeps, evicting in order
  of use, never taking an index away from the request that works on it, never serving sources
  that are one edit old.
* Index: what the short cut would answer is what a cold run would answer.
* Parallel parse: a whole list or an exception; each file once; it ends.
* Host: after `stop()` nobody is accepted and every connection is closed; it touches no row but
  its own; told to end, it ends.
* Client: one answer at most, none of its servers left, nobody else's server or row harmed.
* Panel: an answer is computed from the texts the user had when asking, is shown only while it
  is still wanted, and arrives.
* Parser: an entry owns the lines it says it owns.  A tool that cuts them removes one whole
  declaration with its proof and nothing of another; no live declaration is missing.
* Proofs: a name is read as the binding in scope where it stands; what a step is said to cite is
  cited there; a fact counts as live while a later step cites it; two passes over one proof see
  the same blocks.
* Lines: every verb that names the owner of a line names the same one, and a range that was
  printed comes back as what it was printed for.
* Usage verbs: they agree with one another, with file-level visibility, and with what the chains
  of citations say, in any order the passes take.
* Census: each proof once, in whatever number of sessions and resumed runs; nothing lost silently
  but what a kill tore; a failure counts against its own session.
* Namespace: a bound table is not older than the heap the query found; a torn file or an old
  failure record does not stand in the way.


## 2. Modules

| module | models | checked by | proofs |
|---|---|---|---|
| `WarmRegistry` | registry, locks, lifecycle | `registry`, `registry_live` | `WarmRegistryProofs` |
| `LruCache` | abstract: a bounded cache in order of use | `registry` | `WarmRegistryProofs` |
| `WarmRegistryLru` | refinement mapping between the two | `registry` | `WarmRegistryProofs` |
| `WarmIndex` | `Index.refresh`, file by file | `index` | `WarmIndexProofs` |
| `MapBounded` | `Theory.map_bounded` | `map_bounded` | `LoopProofs` |
| `QueryHost` | endpoint, row and life cycle of a host | `host` | `QueryHostProofs` |
| `ThinClient` | one invocation of the client, and the shim after it | `client` | `ThinClientProofs` |
| `QueryPanel` | jEdit project index, its worker, and the result panel | `panel` | `QueryPanelProofs` |
| `Reach` | imports, visibility, theory labels, as functions | `usage` | `LoopProofs` |
| `Citations` | call graph, callers, rows, as functions | `usage` | `LoopProofs` |
| `Answers` | `deps`, `uses`, `refs`, `callees`, `callers` with closure and table, `show`, evidence, keep file and rows of `unused`, as functions | `usage` | `LoopProofs` |
| `Unused` | the fixed points of `unused`, pass by pass | `usage` | `LoopProofs` |
| `Cascade` | the premises only unread premises need (`unused --locals -r`), as functions | `usage` | |
| `CommandLine` | what the client leaves to the server, and what a list of words loads and selects, as functions | `usage` | |
| `Usage` | composes the six over a corpus that grows line by line, or lemmas, or a command line | `usage` | `LoopProofs` |
| `Regions` | the scanner of comments, strings, cartouches and notes | `theory` | `LoopProofs` |
| `Theory` | composes it with the parser and the passes over its entries | `theory` | |
| `Locals` | the names a proof binds and reads, over the proofs of `Theory` | `theory` | |
| `Steps` | steps, cited facts, live facts and blocks of the same proofs | `theory` | |
| `Loci` | whose line is it: `enclosing`, `lines`, `grep`, `sorry`, notes, `outline`, `largest` | `theory` | |
| `Tallies` | `methods`, and the steps of a proof that introduce, consume or are trivial | `theory` | |
| `Names` | the name of a declaration and the others it binds, over the entries of `Theory` | `sites` | |
| `Sites` | `instances`: who supplies a locale, and whoever extends it | `sites` | |
| `CodeSites` | `codeqs`: who registers a code equation of a constant | `sites` | |
| `Census` | the batch census, killed and resumed | `census` | `CensusProofs` |
| `Namespace` | the cache of method tables and its failure records | `namespace` | `NamespaceProofs` |

`MC*` modules and `.cfg` files give them instances.  Operators marked "Mutant" in a module are
broken versions of the definition that follows them; PROJECT.json says which property notices
each.  No other definition uses them.

### WarmRegistry

`registry` is the map from roots to entries: `charge` (`retained_bytes`), `used`
(`last_used`), and the snapshot in the index.  `clock` is `use_clock`, `enabled` is
`retention_enabled`.  `cur` is the lifecycle that holds `engine_lock`; its `phase` walks through
`Enter, Fingerprint, Plan, Parse, Commit, Consume, Publish, Evict*, Reply`, which are the places
where another thread or an editor can act in between.  `query_version` takes `registry_lock`
only: `Version` waits for `RegistryFree`, and the object form reads the statistics of every open
index under that index's monitor (`Stats`).  `ended` is how the command of a run came to its end
(`Consume`: exit status 0, another one, an exception); `Promotes` decides from it, as `completed`
and `rc` do, whether the run counts as a use.

Abstractions.
* The sources of a root are a stamp and a size; the size stands for the number of theories and
  for the retained bytes.  `WarmIndex` has the files.
* A sum of bytes is the cardinality of the set of (root, byte) pairs, cut off at `LongMax` as
  `saturated_sum` does.  The definition needs no recursion, and the proofs need none either.
* An `index_id` is not a value: a run pinned to an index is a run of the root that index is
  registered for, or, if the id has expired, `RunNoIndex`.
* Limits are in `WarmIndex`; here a refresh refused for its limit is one way of `RefreshFails`.
* `Edit` gives a root a stamp no index of it remembers: that is what an mtime and size pair of
  all files is taken to do.  Its limit (two saves of equal size in one millisecond) is in the
  repository's README, "A stat check is not a content hash"; `QueryPanel` models it, where the
  code has a way out of it.

### LruCache and WarmRegistryLru

`LruCache` knows no clock, lock or index: what each root is charged, the order of use as a
relation between roots, the root that is being worked on, and as what it is used: an open, or a run
and, once its command is over, how that ended.  When the work ends, the root becomes the most recent
if it `Counts`, which an open does and a run only with exit status 0; just so many of the
oldest roots leave that the rest fits (`Recent`: the roots that fit together with all that were used
since), and a root over the whole budget leaves alone.  `WarmRegistryLru` maps the registry to it:
`Charges`, `UsedAs` and `Uses` (who has the smaller `used`) of `Kept`, which is the registry, and during the
eviction loop what will be left of it at the loop's end, so that the iterations are stuttering
steps.  `ImplementsLru` is the abstract specification as a property: timestamps and their
renumbering at the end of the clock are an order of use that a failed or broken run leaves alone, and
removing one minimum at a time keeps exactly the recent part that fits.  Neither module has a sequence or a fold in it; the relation is
what lets the provers follow.

### WarmIndex

`step` goes from `stat` (sweep, one file per step, in order) over `plan` (discovery and the
header pass) to `parse` (workers: stamp, then cache or text) and the commit.  `print` and
`parsed` are the index, everything in `local` belongs to the running refresh and is reset when
it ends.  `Cold` is the reference: what a cold run would make of the files as they are saved
now.  `Warm` is what the short cut would answer from.

Abstractions.
* One ROOT file names theories; it stands for the ROOT files, ROOTS files and import closure of
  a project.  `Outside` holds theories that a `directories` clause takes from elsewhere.
* A text is its stamp, and every save has a new stamp.  A present file is readable.
* A keyword table is what the headers make of one command (`Tag`); own clause over the union.
* With `Flicker = FALSE` no file is deleted that no sweep has seen (`Noticed`), and `Outside` is
  empty in the run.  Both assumptions are needed, see section 6.

### MapBounded

The loop of `map_bounded` with its three accesses to shared state in separate steps: stop flag,
counter, stop flag again.  A worker can fail where the code can throw, which includes
interrupts.  What it applies to a file is the parser; `Theory` has that.

### QueryHost

`host` holds the process and its main and owner threads, `ep` the fields of `Endpoint`,
`handler` the thread of each connection, `stage` how far each thread is in `stop()`, `grabbed`
the connections it has taken over to close, `row` who owns the row of this name.  A host is
`embedded` or `dedicated`, chosen in `Init`.

Abstractions.
* One life per host.  Starting an embedded host again constructs everything anew, and
  `lifecycle_lock` keeps two lives apart.
* When the main thread leaves it may call `stop()` twice; the second call finds nothing to do
  and is left out.
* `Halt` is the watchdog of `begin_shutdown` and any other abrupt end.
* `Broken` is a client that hangs up, a wrong password, or any failure of the socket.
* A password can be known only once there is a row, so no handler gets past `password` before.
* `OtherRegisters` and `Prune` are other processes at the registry, `Connect` the kernel.

### ThinClient

`me` is one invocation; `up` is which servers listen with which build, `rows` is `servers.db`.
The servers of others appear, die, withdraw their rows and are pruned at any time, so the module
stands for one client among any number.  Each attempt may launch one server of its own (`Launch`
is the attempt number).  `Onward` drops what is local to the discovery, as leaving the function
does.

Abstractions.
* `Unverified` is every answer to a probe that proves nothing: timeout, reset, stranger on a
  reused port, unknown protocol, a host where a dedicated server is wanted.
* Whether time is up (`Expired`) is free at any candidate.
* The build of a server is settled when it comes up.  `component_id` is a `lazy val`, and the comment
  on it has a dedicated server take it at the first query, but `with_server` forces it before the
  listener exists (`query_host.scala` 193), as `start` does for a host (149).
* Status and cache control and the settings cache are left out; which lines the client leaves to the
  server, and how it rewrites their roots, is in `CommandLine`.
* Signals arrive anywhere but during the cleanup itself.
* The component's jar exists (without it the client declines at once).

### QueryPanel

Three parties: the user (`Edit`, `Save`, `External`, `Request`, `Refresh`, `Clear`, `Remove`),
the event thread, which owns buffers, tickets (`serial`, `pending`) and the result `tree`, and
one worker with a FIFO `queue`.  A `job` goes through `Start` (cache and snapshot are read),
`Plan` or `Refuse`, `Stat` and `Parse` per file, `Commit` under the cache lock, `Query`, and
leaves its answer in `posts` for the event thread (`Handle`).  `barrier` and `seen` are history:
the first is the serial an answer to each scope must exceed, the second what each file has held
since a job was asked for.

Abstractions.
* A text is one of a few values; what a query finds in it is free.
* A project has one root here; roots do not share state in the code.
* The commit's assertion that nobody else has published is a guard: there is one worker.

### Reach, Citations, Answers, Unused, Cascade, CommandLine, Usage

A corpus is a sequence of sections; a section has a name and a directory (sequences of path
segments), imports, a flag whether its file can still be read, and lines.  A line is a
declaration (name, `private`, the names its statement binds), a line of a proof body, a command
at top level, or prose, with the names it cites and how (as a fact, as a method, through a
derived name).  That is what the Python verbs see of a source after tokenising; strings are
gone, and so is layout.  `Reach`, `Citations` and `Answers` are functions of a corpus, as the code
is.  `Answers` has what a verb prints of the graphs: under which theory `refs` lists a citation,
which declarations a row names, the table of `callers -r`, from which file `show` takes lines, what
speaks for an entry nobody cites (`Evidence`), which names a keep file keeps (`ReadKeepFile`), and the
rows and counts of `unused` (`UnusedRows`, `ByTheory`).  `Unused` is a state machine, because the code iterates over sets while it changes maps: one name
per step, in any order.  `Usage` writes a corpus line by line and may ask at any time.

Abstractions.
* Name resolution inside a line (qualified names, attributes, `OF`) is a name and a way of
  citing it.
* The graph has one node for a name, so what an entry cites is credited to every entry of its name:
  `refs` of a theory may list what only another theory's entry cites, and `RefsExact` does not
  ask why a theory is told as "not directly imported" where it shares an entry name with another.
* Evidence is computed (`Evidence`, compared with visibility in `EvidenceSeen`), but the sweeps take
  any set of names for it: keywords on the same lines can add any.
* An entry without a name (`Anonymous`) has no node in the graph: what it cites is nobody's citation
  (`graph.py` 988).  `RowsExact` says what can be deleted with that exception; see section 6.
* `unused` is run on one-theory corpora of four or five lines; the other verbs on all of them.

10,116 corpora of the run (those of up to three lines, and chains of four declarations), written
out as files and given to the commands of `commands.py`, print the rows, groups, closures, tables
and counts that `Answers` and `Citations` say.

`Cascade` has a world of its own, since `unused --locals -r` looks into proofs and not at the
graph: a project is a sequence of lemmas with the labels of their premises and the outer tokens of
their proofs.  The code finds the arguments of `[OF ...]` by counting brackets (`OfArgs`) and works
in rounds (`Rounds`).  It is checked against what the author means by the tokens (`Written`, from
the instance: which fact is cited, with which facts for its premises): whatever a row reports is
read for nothing but premises reported one round before, by position, of lemmas with the same
target, and nothing is left that is read for those of one round only (`PremisesExact`, a part of
`AnswersExact`).  A name is cited by its last component, one lemma has a name, and a fact written out
in quotes in an `OF` is left out; what a label means inside a proof is the business of `Locals`.
4,160 projects of three lemmas, written as files and given to `premise_cascade`, report the same
premises in the same rounds.

`CommandLine` too has its own world: a tree of directories and theories with a symbolic link, a home,
the directory of the user and that of the server.  A word is an option, a path or name with an
optional window of lines or entry, a range, or `-`.  `Served` is what the client leaves to the server,
`Absolutize` what it rewrites; `Load`, `LocalsSelection`, `LinesOfFile` and `RunEach` are the loaders
behind the verbs, with the table of custom commands that a directory adds to and the index replaces.
`Run` gives what a line loads and prints, in the directory of either process, and the properties
compare `Run` here with `Run` there, and what is loaded with what each word means by itself
(`Means`, `AskedOf`).  Left out: `..`, file systems without case, options other than `-R`, `--root=`
and `--theory=`, the way argparse mixes options into positionals, and patterns.  `unused` is asked
with `--locals`, `shape census` and `dump-theories` only for who answers them.  11,263 command lines,
run with the code over a tree of that shape, load the same files, windows and entries or fail alike.

### Regions, Theory

`Regions` reads a theory line by line.  A line is a sequence of tokens; the registers of
`_scan_nonisar_spans` are `scan`, and next to them `stack` holds all open brackets, as Isabelle's
lexer does.  Each line yields the three views the parser works on: `doc` as it is, `outer`
without terms and regions, `live` without regions.  `Theory` parses what has been read so far,
at any length (`Parse`): `extract_entries` by the routes of the commands, then the passes of
`_parse_one` in their order (targets, docstrings, spans, proof extents, shared lines).

Abstractions.
* One word stands for each group of commands that takes one route through `extract_entries`:
  `lemma` for goals, `fun` and `locale` for bodies, `axiomatization`, `lemmas`; `by` and `qed` for
  all that ends a goal.
* Custom commands from headers are in `Census` and `WarmIndex`, which need only whose they are.
* Columns: a word is a token, and white space matters only at the start of a line (`"tab"`).
* A marginal note is one token, `"marginal"`, and the term that belongs to it runs to the end of
  its line; `LiveTokens` keeps for each token the place it has in `doc`, which is what the passes
  below compare.

### Locals, Steps

Both extend `Theory` and look at the proofs it has found, once per state in which the text is
parsed (`Scan`, `Measure`).  `Locals` is the walk of `proof_locals.py` over the tokens of a proof:
a stack of scopes, what each label binds and from when (`Bind`, `Binding`, `Pending`), what `this`
stands for, the premises the statement seeds (`Premises`, from `premises.py`), and what each word
reads.  `walks` keeps what was bound and which place read what.  `Steps` is the other reader of the
same proof, line by line over raw text as `shape.py` does it: `Kind` of a line, the block it
stands in, `CitedFacts`, the credit of a `using` to the goal before it and of a `from` to the goal
after (`FanIn`), the interval in which a named fact is live (`Intervals`), and `_proof_blocks`, which
`enclosing` prints.  Each is checked against a definition that does not walk: `Meaning` finds the
binding of a name from the layout of the commands alone (`ReadersInScope` compares the reads with it,
except for what stands in the arguments of the command that proves a local goal, where
`BoundWhenProved` of section 6 disagrees with the code, and for proofs with a `subgoal`), `TrueBlocks`
matches brackets, and the
two parts of `CitationsExact` (`LiveWhenCited`, `CreditsExact`) quantify over pairs of steps.

Abstractions.
* A term is one token, so a name in a term is a term that is that name; the widths and sizes of
  statements, which need the text of terms, are not measured.
* A premise has a label and a kind; premises inside a term (`A ==> B`) have neither.
* Of a proof's metrics: steps, blocks, fan-in and live facts.  Redundancy, extraction and the
  inductions of `shape.py` are not in the module.

`Theory`, `Locals` and `Steps` were compared with the Python code itself: every document of the run,
and of a larger one of 114,082 documents, written out as text and given to the functions the map
names, has the same entries, spans, proof ends, bindings, reads, steps, facts, fan-in, live counts
and blocks; so have 65,107 documents that no theory would parse.

### Loci, Tallies

Both extend `Steps` and ask about lines.  The code finds the owner of a line in three ways: by the
first span that holds it (`EnclosingEntry`), by bisecting the spans (`EntryAt`), and by bisecting the
first lines of declarations (`Annotations`).  `Loci` has each, with the verbs that use it and the
ranges they print.  `Tallies` reads methods off live text, as `methods` does (`MethodUses`), and off
the raw steps of a proof, as the metrics do (`Discharged`); `Introduces` and `Consumes` classify the
steps.  The properties compare the ways with each other and with what `Locals` has bound.

Abstractions.
* A pattern is a word.  `sorry` is `grep` for one word.
* The places of a marginal note are tokens; the kind of an annotation is where in the entry it is.

Compared with the code in the same way, 116,465 documents of the families the run writes have the same owners,
roles, notes, outline, order of size, hits, drill-down of blocks, methods and classified steps, but
for 84 in which a text block stands two blank lines above a declaration: the run has `GapMax = 1`
where the code has 3 (`parsing.py` 2804).

### Names, Sites, CodeSites

All three extend `Theory` and read the entries it has found.  `Names` is the text behind a command
word (`ParseName`, `LookaheadName`) and the bindings of the lines below it: conjuncts of a goal,
siblings and equations of a function, constructors and selectors of a type, fields of a record,
labelled elements of a locale.  `Sites` takes the header of every line that extends or
instantiates (`Header`, `Expression`, `ArityClasses`), builds the edges of the hierarchy
(`ExtendsEdges`), walks them breadth first (`WithDescendants`) and lists the rows of `instances`,
with and without `-r`.  `CodeSites` finds code attributes in brackets, the heads of the equations
they are attached to, and the `declare` and `lemmas` that attach one by name.  The author of a line
says what it declares (`Says`, a constant), and the properties compare the rows with that and with
the closure of the extensions said to be there; they share no definition with the code's walk.

Abstractions.
* `locale` stands for every command that declares a locale or a class; qualified names and the
  names Isabelle derives from a constant are two small functions (`Base`, `Derived`).
* An equation is tokens: `=` and `==>` outside brackets, `@` for any mixfix operator.

### Census

`lines` and `tail` are the output file, `buffer` what the process has written and not flushed.
A kill keeps any prefix of the buffer and cuts into the next record.  `AddSection` is
`_add_one_section`, with the dedup set that lives as long as the run and the table of custom
commands that lives as long as a session; `Measure` goes proof by proof, and a file that cannot be
measured fails at any of its proofs, so some of its records may be out before.  A run goes either into
a file, and may be killed and resumed, or into a pipe whose reader may go away.

### Namespace

A heap is a version and the version of its parent it was built over; its table is that version.
Two processes resolve the sessions of one project (`q`), each step of `resolve_namespace` an
action: fingerprint, cache read, failure record, dump, time limit, open, write.  An open
truncates, so a reader may see a torn file, and two writers may leave one.  The key of a failure
record is the state of the heaps it was observed under.  `todo` is the set of sessions still ahead
and `Current` the first of them in the order of the project.  `failed` is history.

Abstractions.
* A heap is in one directory.  A failure record that is torn counts as none, which is what
  reading it comes to.


## 3. Runs

| run | question | instance |
|---|---|---|
| `registry` | Are bounds, charges and snapshots right at every moment, and is it an LRU cache? | 1 connection, 3 roots of size 0..2, room for 2 entries and 1 byte, clock ends at 4 |
| `registry_live` | Does everything that was admitted end, and are observers answered? | 2 connections of which one observes, 2 roots, 2 stamps |
| `index` | Is the short cut sound, with keywords and limits? | 2 theories and ROOT, 1 tag, stamps to 2, limits none and 1, any deletions |
| `map_bounded` | No hole, no file twice, and it ends. | 3 workers, 4 slots |
| `host` | Does `stop()` leave nothing, is the row the owner's, does the process end? | both kinds, 2 connections |
| `client` | One answer, no stray, no harm, an end. | one host, two dedicated servers of one name, 2 builds, six settings |
| `panel` | Is what is shown what was asked for? | 2 theories, 2 texts of which one declares a keyword, 2 scopes, 2 requests, 1 write |
| `usage` | Do the verbs agree, are their answers those of the files, are the fixed points right, and is what a command line loads what it means? | 8 shapes of corpora of 1 to 4 files, 3 to 5 lines, 4 names; projects of 3 lemmas; command lines of a verb and 1 to 3 words |
| `theory` | Do entries own their lines, and proofs their names, steps and blocks, and do all verbs about lines say so? | every theory out of seven families of lines: up to 5 lines for regions, proofs, targets and lists, 6 for the names of a proof, 8 for nested blocks |
| `sites` | Are the names a declaration binds indexed, and do `instances` and `codeqs` report what the lines say? | theories of eight families of lines: 1 to 4 lines for names, 5 for hierarchies and for code equations |
| `census` | Each proof once, nothing lost, failures told apart? | 2 sessions sharing a theory, 3 files, 4 runs over one file |
| `namespace` | Is the table that is bound the right one? | 2 sessions, one over the other; 2 queries, 3 builds, 1 failure |

Why the bounds are enough.  Eviction needs one root more than there is room for, and a size
above the budget; the clock has to end while the cache is full; an edit has to fall before and
after each read of one refresh, and a second one into the next refresh.  A second connection is
what can close or evict under a running lifecycle; a third only queues.  In `map_bounded` there
is one slot more than workers, so that one claims again while others still hold slots.  In
`host` one connection asks for the shutdown while the other one is busy, and `stop()` then runs
in up to four threads; a third connection repeats one of these roles.  In `client` two servers
of one name are needed for a row to be replaced between refusal and pruning, and two builds for
a rebuild during the run.  In `panel` two requests are what one can supersede or stack over the
other, and one write falls before, into or after either.  In `usage` four declarations are the
least that have a cycle with something above and something below it, and the import shapes are
those the visibility rule distinguishes: a name shared by two files, a name with directories, a bare
name that two of them answer to, a header that cannot be read, a cycle.  Two words are what one file
can be named by twice, and a third what comes between.  In `theory` five lines hold a declaration, a proof that
opens and closes with something between, and a neighbour; six lines of one proof hold a binding,
a block that shadows it, and a reader after the block; eight hold two blocks, one in the other,
and what follows the inner one.  In `sites` four lines hold the parts of one declaration with a
comment or note among them, and five a locale, one that extends it, one that extends that, and a
line that instantiates the last.  In `census` a third run is the first
that resumes over what a resumed run left, and a fourth repairs it.  In `namespace` three builds
are both heaps and one of them anew.

`LongMax`, `MaxStamp`, `MaxSize`, `MaxBuild`, `MaxAsk`, `MaxWrite`, `MaxLines`, `MaxRuns`,
`MaxVersion`, `MaxQueries`, `MaxTrouble` are the bounds on counters; with each, the run goes
past the case that matters.  Symmetry is used only in runs without liveness.  Deadlock is
checked except where the system really ends: after the list or exception, the end of the
process, of the invocation, of the requests a bound allows, or of the text.

### Fairness

* `WarmRegistry`: a thread waiting for a short monitor gets it (strong fairness: others may take
  it in between; under weak fairness TLC finds an observer that starves), and the eviction loop
  runs.  That the query in the engine goes on is not part of the specification: it is the
  premise `EngineRuns` of the properties that need it; the first part of `ObserversAnswered`,
  about `query_version`, has to hold without it.
* `MapBounded`: every worker runs (Isabelle's pool), and the mapped function terminates.
* `QueryHost`: main, owner and accept thread run, and a thread that is in `stop()` continues.
  Nothing is assumed of connection threads otherwise, nor of the watchdog.
* `QueryPanel`: the worker thread runs and the event thread handles what is posted to it.
  Nothing is assumed of the user.
* `ThinClient` has no liveness formula.  `GetsOn` says that each of its steps decreases a
  measure and that it can always take one on its own: together every invocation ends, however
  many retries and candidates there are.


## 4. Proofs

All proofs are for every number of connections, roots, files, stamps, servers, sessions, runs,
workers and slots, under the named assumptions of the modules.  Every invariant and every action
property that a run checks of the stateful components (registry, index, parallel parse, host,
client, panel, census, namespace) is stated by a theorem here.  Each proof module has one inductive
invariant, called `IInv` or `Inv`, a lemma per action or group of actions that preserves it, and the
theorems; what a property needs and the invariant alone does not have is a second invariant proved
over the first.  TLC has checked each of these invariants on the instance of the component's run.

`WarmRegistryProofs`.  None of the properties is inductive alone.  `Inv` joins five of them
(`TypeOK`, `WithinBudget`, `InFlightRegistered`, `Accounted`, `OffMeansEmpty`) with three facts
about the time between the steps: `Shape`, which fields of `cur` a phase has; `Small`, that there
are at most `Cap` entries and, while a lifecycle runs, one more, which keeps the renumbering of
the clock below `LongMax`; and `Evicting`, that a lifecycle in the eviction loop has retention on
and every entry charged, so that the exit test of the loop gives the budget back.  The
bounds need facts on cardinalities: removing an entry does not raise the sum of charges, and the
sum of an entry that is charged nothing is the sum without it.

* `TypeCorrect`: `Spec => []TypeOK`, including that the use clock stays below `LongMax`.
* `Bounded`: `Spec => [](WithinBudget /\ WithinCap)`.
* `NeverDetachedInFlight`: `Spec => []InFlightRegistered`.
* `ExactAccounting`: `Spec => [](Accounted /\ OffMeansEmpty)`.
* `PrintsSound`: `Spec => [](PrintSound /\ ReadSound)`.  On top of `Inv` it needs `ReadSound`:
  what a refresh is about to commit describes the sources if they still have the print it took
  at its start.
* `Sound`: `Spec => []RegistrySound`, the conjunction the run `registry` checks.
* `Fresh`: `Spec => FreshSections`, an action property, from the same invariants.
* `OrderOfUse`: `Spec => []Ordered`.  No two entries share a time of use and the clock is not behind
  any of them, the renumbering included: the ranks of the entries are in the order of their times
  (`RankOrder`), and the next use is later than all of them (`AgedOrder`).
* `RegistryIsLru`: `Spec => ImplementsLru`, the refinement.  Under `Inv`, `Ordered` and `Undecided`
  (how a run ends is not known before its command is over) every step is one of the cache or hidden
  from it, action by action: beginning a lifecycle is `Arrive`, consuming the command's answer `Ended`, publishing
  `Settle`, failing or being refused `Abandon`, closing and switching retention `Control`.  The lemmas
  that carry it: what will stay of a registry is what the cache calls recent (`RecentIs`), an
  iteration of the loop does not change what will stay (`OldestGoes`: the oldest would not, and for
  the others nothing used since is gone), and at the loop's exit that is everything (`AllRemain`).

`WarmIndexProofs`.  `IInv` says that nothing written down lies in the future and a section has the
text of its key or a newer one (`Recorded`, with `Sound`), that what the sweep or a worker noted of
a file is not newer than the file (`Behind`), and what each phase of a refresh has in hand
(`Working`).  `ColdInv` says what follows as long as the files still are what a print says: of the
retained sections for the recorded print (`IndexHolds`), of plan and parse for the print of the
running sweep (`PlanHolds`, `ParseHolds`); `Refound`, that a sweep finds again what is still as
recorded, is where a file that comes and goes unnoticed would break it.

* `NothingStaleIsServed`: `Spec => ServedFresh`.  `NeverOverTheLimit`: `Spec => LimitHolds`.
* `ShortCutIsCold`: `Outside = {} /\ Flicker = FALSE` gives `Spec => []WarmIsCold`.  Without either
  hypothesis the formula is false (section 6); they are what the run `index` sets.

Assumed: `Order` enumerates the theories, and the value that stands for "no fingerprint" is not one.

`LoopProofs` is about the loops of the query side and what the verbs answer.  Of the parallel parse, `Inv` is `TypeOK`, `ClaimedOnce` and: every slot below the counter is
filled, held by a worker or given up (`Handled`); held and filled slots lie below it (`Below`);
the stop flag is up only if a worker has failed (`StopCause`); a worker returns only because the
counter has passed the end or the flag is up (`ReturnCause`); and `NoHole`.  If all have
returned and none failed, the flag was never up, so no slot was given up and the counter passed
the end: all are filled.

* `Complete`: `Spec => []NoHole`.  `Once`: `Spec => []ClaimedOnce`.

Of `unused`, the specification is `UnusedSpec(Queries)`: any of a set of queries is put, and the
sweeps run with the names of a pass in any order; what a query must be is `IsQuery`, and the run
`usage` checks that of all that `cmd_unused` hands over (in `ChainsExact`).  `SweepInv` has for
each sweep what makes its result least: what is listed already is in every closed set
(`CascadeInv`, `MarkedInv`, `ForestInv`), and what is not listed yet is known to have a citer
outside, or to be still to be visited, or the pass is marked as changed.  The depths need more: a
name that would come next has a citer on the deepest level reached (`OneBelow`, `Deepest`), which is
what a level-synchronised pass keeps and one that reads its own result does not.

* `FixedPoints`: `UnusedSpec(Queries) => []FixedPointsExact`, for every set of queries.
* `Sweeps`: `UsageSpec => []FixedPointsExact`: what `cmd_unused` hands over for a corpus is such a
  query, whatever is kept and whatever is evidence.

Of the tokenizer, the specification `RegionSpec(Tokens)` reads any lines over any tokens.  `ScanInv`
(`StandsFor`) says of which brackets the stack consists, given the registers: the region the scanner
is in, as often as `depth` says, above the term around a note, as often as `resumeDepth` says.  It is
kept by each token (one lemma for each way a bracket opens or closes), and by a line by a least
counterexample among its places.

* `Scanner`: `RegionSpec(Tokens) => []ScannerIsPushdown`.

Of a corpus, the invariant is `IsCorpus`: sections and their names, directories and lines are
sequences, a name is not empty, and the value for an unknown closure is none.  Writing a line keeps it
(`CorpusStep`), `CorporaAssumption` gives it for the empty corpora, and everything else is about one
state, for any number of theories, imports, cycles and lines:

* The breadth-first walk `BfsDepths` reaches the least closed set, and the depth it gives is the length
  of a shortest walk (`Walk`, `Walks`): a ring that adds nothing ends it, and by counting one of the
  first `n + 1` rings must.  Shortest walks read from the other end give `uses -r` the distances of
  `deps -r` (`CorpusDepsMirror`), and first rings are the direct imports (`CorpusImportsAgree`).
* The closure over files, which the properties are stated with, and the closure over theory names,
  which the code computes, are then two least closed sets, and one is the image of the other.  So
  `Sees` may drop a citation only if no file upward declares the name for export, and must if theories
  have names of their own and can be read (`SeesOffered`, `CorpusUsesExact`).
* `callers` and the graph go through the same lines and ask the same question, so they agree
  (`CorpusCallersAgree`); rows, groups and locality are read off the same visibility
  (`CorpusRowsAreRight`, `CorpusGroupsExact`, `CorpusExternalMirrors`).
* Depths go up by one at a time (`Levels`), so they depend only on what is next to what is reached
  (`LevelsBound`): the closures of `callees -r`, over names, and of `callers -r`, over names and top
  levels, are one relation read from both ends (`ClosuresMirror`).  A top level is in the closure for
  an edge from one level below, and the first line that makes one is the row `callers -r` prints
  (`TopSite`, `CorpusTsv`).
* The closure `refs` ranks owners by is that of the files, with the imports as its first ring
  (`ClosureIs`); the owner of a name is nearest in it (`OwnerIs`); that an edge stands for a use and a
  use for an edge is `UsesExact`, so what the table says of an import is so (`CorpusRefsExact`).
* A label is the shortest safe suffix of the path; a longer suffix with the same end is the same path
  (`CorpusLabelsRoundTrip`, `CorpusKeepsAsPrinted`).  The lines of an entry are those between two
  declarations (`CorpusShownExact`).

With these: `Uses`: `UsageSpec => []UsesExact`, and `Verbs`: `UsageSpec => []VerbsExact`.

The parts have the hypotheses under which the code promises them, and the proofs showed some that TLC
could not, for want of a corpus that breaks them: `Separate` (theories have names of their own and can
be read) is where visibility claims to be exact and not merely safe; `OwnNames`, for relations between
theory names, is its first half; `NamesApart`, that the label of a theory's top level is neither the
name of an entry nor the `?` of one without; `Unambiguous`, for `refs` only, that no bare import may
denote two theories; `Placed`, that no file is loaded twice, since labels are suffixes of absolute paths
(`model.py` 514) and one path from the root cannot end another.

Assumed: `CorporaAssumption`, which TLC evaluates for the corpora of the run.

tlapm and SANY disagree on `UNION A \ B` and on `UNION A \cup B`: the first takes the union of the
difference, the second the difference of the union.  The modules put the parentheses.

`QueryHostProofs`.  `stop()` runs in several threads against an accept thread that is about to track
a connection.  The flag is set before the sweep and tested by the accept thread under the lock the
sweep takes, so the table stays empty behind the first sweep (`Stopping`).  An open connection is
always somebody's to close: it is in the table, its handler is closing it, a thread in `stop()` has
taken it over, or the accept thread has it in hand (`Owned`, `Coming`).  The row is gone before a
shutdown is acknowledged (`Withdrawn`).  `Phases` and `Handlers` tie the stages to the threads.

* `TypeCorrect`, `EveryStopCloses`: `Spec => []StopClosesAll`, `RowTellsTheTruth`:
  `Spec => []RowIsTrue`, `ForeignRowIsKept`: `Spec => ForeignRowStays`.

`ThinClientProofs`.  `IInv` is `TypeOK`, `Candidacy` (a candidate is a server somebody started;
what is pruned or shut down is no host, and one that is pruned has stopped listening, which is for
good), `Builds` (the payload's build is not newer than that of a server found compatible, nor than
the one on disk), `Output` (what leaves for the cold path wrote nothing) and `Ownership` (a server
this invocation launched and still up is in `owned`, or is the one that boots).

* `TypeCorrect`; `ColdPathIsClean`: `Spec => []AnsweredOnce`; `NothingLeftBehind`:
  `Spec => []NoStrayLaunch`; `StaleMeansRebuilt`: `Spec => []StaleOnlyIfRebuilt`; `OthersAreSafe`:
  `Spec => OthersKeepTheirs`.
* `AlwaysForward`: for a finite set of servers, every step of the client decreases a lexicographic
  measure.  It is the half of `GetsOn` that is an action property; the other half, that the client
  can always take a step, is `ENABLED` and stays with TLC.

`QueryPanelProofs`.  The question is what a text in the cache is worth.  `IInv` has: a cached
section fits its key, and the file if that still has the stamp of the key (`CachesFit`); whoever
has asked has seen every file as it now is (`SeenByAll`), and what a forced refresh finds in the cache was seen
since it was asked for (`RefreshIsFresh`); the keys the job has checked so far, and what it may take
from the cache under them (`Reading`); what a query reads is what the job built (`Published`); a
ticket that is still current is newer than the barrier of its scope (`CurrentIsNewer`).  A file
saved with an unchanged stamp (`quick`) is the one exception, as in the property.

* `QueriesReadAsAsked`: `Spec => []ReadAsAsked`.  `OnlyWantedIsShown`: `Spec => ShownAreWanted`.

Assumed: the value for "nothing" is neither a text nor the record of a file.

`CensusProofs`.  `IInv` follows a record through the three places it can be in: a proof still to be
measured, the buffer, the lines of the file.  `Once` says that no record is twice in one place or in
two of them, but that one still to be measured may be in the file if its key was read for the
resume; `Own`, that every record is of a command of a session that lists its file.  `Told`
compares the counted failures with the sessions behind, by cardinality.  `KeptInv` says that a run which skipped no
session has added the files of all it has passed (`Reached`), and that of their records at most one
is in none of the places, and none before the run has written onto a torn line (`OneLost`); what is
skipped as done is in the file (`Resumed`).

* `EveryProofOnce`: `Spec => []MeasuredOnce`.  `LossesAreTold`: `Spec => []LossesTold`.

Assumed: sessions and proofs are sequences, and a torn line is not a record.  The order in which a
session's proofs are read is a chosen increasing enumeration (`InOrder`); that there is one for every
finite set of places is proved by a least counterexample.

`NamespaceProofs`.  Processes share only heaps and files, so the invariant is one on what is shared
(`Versions`, `CacheOk`: a cached table is that of the heap of its print or of a later one) and one on
the record of each process (`Knows`, `Dated`), stated so that the steps of others leave it alone.
`QuietInv` says of a process nothing has disturbed that it has bound the table of every heap that
loads among the sessions it is done with (`Exact`); a failure record belongs to a dump that failed
over the heaps it names (`FailuresOk`).  Which session a process is at needs the least place in the
project, from the well-foundedness of the naturals.

* `NothingOutdatedIsBound`: `Spec => []NotOutdated`.  `QuietQueriesAreExact`:
  `Spec => []ExactWhenQuiet`.

Assumed: a project is a sequence of sessions, a parent is a session or none, and "none" is not the
key of a failure.

Model-checked only.

* All liveness (`EngineReleased`, `ObserversAnswered`, `Ends`, `ToldToEnd`, `Settled`, and what is
  `ENABLED` in `GetsOn`): outside of what the prover does.
* That the sweeps of `unused` come to an end, and that their results are what follows along the
  chains of citations (`ChainsExact`): the first is liveness, the second induction over chains.
* `AnswersExact`: the rows and counts of `unused` (a sum over a fold), the
  premises of `unused --locals` and the command line, where the code is a recursion or a fold over
  words, tokens or rounds.
* The other properties of `theory` and `sites`: they are about what recursive functions compute for
  every text.
* Type correctness of `WarmIndex` as TLC states it.  The proofs use the parts they need
  (`DiskType`, `Recorded`).


## 5. Not modelled

* Options other than those in `CommandLine`, and layout: of `outline`, `show`, `largest` and their like, which lines and
  entries they print is in `Loci` and `Answers`, the text around them is not.  The patterns and
  filters of `find` and `structure` are functions from entries to text without state.  The
  repository compares them with the Python reference by differential tests.
* Of `shape`: widths, redundancy, extraction, inductions.  See the plan.
* `census` without sessions, which loads one index and runs the same loop over its sections.
* Two heap directories: which of them wins is fixed by their order, and both are in the print.
* Thin client: status, cache control, settings cache.  Shim: build check and class archive.
* A file that exists and cannot be read, for the warm index; ROOT files reached through ROOTS
  outside the root.
* An embedded host whose accept loop has died of a lack of resources keeps its row and a socket
  nobody serves.  The step is in `QueryHost`; what clients make of it is `Unverified` in
  `ThinClient`.
* MCP tool, menus and options of the plugin: they keep no state of their own.


## 6. Disagreements found

Most were found with the formulas named here, which the modules keep.  Each is reproduced by
checking the formula in the configuration named.

| formula | configuration | what happens |
|---|---|---|
| `WarmIsCold` | `MCWarmIndex.cfg`, `Order <- SharedOrder`, `Outside = {x}` | A theory outside the project root that did not exist at the last refresh is not in the fingerprint; once saved, the short cut still answers without it. |
| `WarmIsCold` | `MCWarmIndex.cfg`, `Flicker = TRUE` | The fingerprint is taken before discovery.  A ROOT that is absent for the sweep, present for the plan and gone again is served as long as nothing else changes. |
| `AlwaysFresh` | `MCWarmIndex.cfg` | All missing files have one stamp, and a worker caches under it.  A text parsed when its file was missing at the stat is found again the next time that happens, in place of the newer text this refresh has seen. |
| `SilentWasAsked` | `MCThinClient.cfg` | The probe of a server the client has just started has the 250 ms meant for dead listeners; when they run out the invocation ends with "no answer within 600s", although it never sent a query and the cold path could have answered. |
| `EveryDeclIndexed` | `MCTheory.cfg` | A declaration that is indented below an axiomatization without a blank line between is read as one of its lines (`parsing.py` 2316), where the matcher says that layout does not matter (1328). |
| `BoundWhenProved` | `MCTheory.cfg` | A label is bound at the command that ends its proof, and the arguments of that command's method read it already: `have a: "P" by (rule a)` cites an older `a` in Isabelle and the new one here, where the description of the walk has it bound once its proof is over. |
| `LabelsStay` | `MCTheory.cfg` | `_proof_blocks` keeps the goal of a line until a block opens, and forgets it only if the line that proves it begins with the proof command: after `have b: "P" by simp` the next block is reported as the proof of `b`. |
| `ObtainedAreTracked` | `MCTheory.cfg` | `obtain x where a: ...` introduces the fact `a`, and no interval is kept for it: the label is looked for behind the goal command itself. |
| `ExclusiveDies` | `MCUsage.cfg` | `unused --roots` calls exclusive to an unused root what a citation from top level also keeps alive: such callers are not in the maps it iterates over. |
| `RefsSeePrivate` | `MCUsage.cfg` | `refs` gives the credit for a citation to the nearest import that declares the name, `private` or not; all other verbs ask what the theory can name (`_Visibility.sees`).  An import whose fact is used is then told as one "no citation reaches". |
| `ShownFromOwnFile` | `MCUsage.cfg` | `show` looks the section of an entry up by its theory name (`render.py` 438).  With two files of one theory name it prints the other file's lines at the entry's place, where the loader says that a name is not an identity (`graph.py` 54). |
| `RowsAreKept` | `MCUsage.cfg` | A row of `unused` names the theory without its directory.  Where two theories share that name, the row pasted into a keep file is looked up in the first of them and keeps nothing; the label of the theory, or its path, would (`KeepsAsPrinted`). |
| `ServedWhatever` | `MCUsage.cfg` | The client serves a word that names nothing here, "the server resolves it exactly as a local run would" (`query_client.py`, `ambiguous`): it does not if the word is something where the server runs, and a path inside a word (`--theory=`, `FILE:1..2`) is not looked at at all.  `ServedAsTyped` says that these are the only ways. |
| `WindowsAddUp` | `MCUsage.cfg` | `grep P A:1 A:2` searches line 1 only: a file is loaded for the first word that names it. |
| `SelectorsAreErrors` | `MCUsage.cfg` | A selector that a verb does not take "falls through to the normal resolver and its existing error" (`_split_path_window`), but behind a path with `.thy` the resolver drops it with the suffix, and the whole theory is loaded. |
| `TypoIsNoScope` | `MCUsage.cfg` | A `--theory` that names nothing is "skipped rather than silently narrowing to nothing" (`_scope_to_theories`); if it is the only one, the scope is empty and the verb finds nothing. |
| `EmptyIsTold` | `MCUsage.cfg` | "Every path that can yield an empty index" is to say why (`_fail_root`); a directory without theories among the words of `grep` is searched as nothing, with exit status 0. |
| `BodyInSpan` | `MCTheory.cfg` | "Never past `thy_end`" (`model.py` 97) of the last line of a body: a heading below a statement without a proof is taken into the body and not into the span. |
| `UnusedHasNoCallers` | `MCUsage.cfg` | A citation in an entry without a name makes no edge in the call graph: `unused` reports the cited name, and `callers` lists the line.  The docstring of `_find_callers` says that the two agree. |
| `PremisesComplete` | `MCUsage.cfg` | A round of `premise_cascade` looks only at the premises that became unread in the round before (`proof_locals.py` 743).  A label that feeds two of them, unread in different rounds, is never reported, where the description has the rounds go "to a fixed point" (666). |
| `FailsAgain` | `MCNamespace.cfg` | "A dump that failed against these exact heaps fails again" (`_namespace_resolve.py` 317): one that ran out of time or memory need not, and the record stays until a heap changes. |
| `TruncationTolerated` | `MCCensus.cfg` | `_load_done` promises that "a truncated final record from a kill is tolerated" (`shape_cmds.py` 489), but the resumed run appends its first record to the half line, so that this record is lost too, and it exits 0.  `OnlyTheTornIsLost`, a part of `LossesTold`, bounds the loss, and the next resume repairs it. |
| `OthersKept` | `MCCensus.cfg` | A theory counts as seen once one session has read it.  If that session then fails on another of its theories, no later session measures the shared one, where `cmd_shape_census` says that one session must not lose the others. |

Seen in the comparison of `Locals` and `Steps` with the code, at inputs the run leaves out: a
`private` in front of a statement is read as its first word (`read_statement`); a line that opens a
term with `{` at its end, or ends in `proof`, gives `_proof_blocks` a block of no goal; `}` with
text after it closes nothing there, and the block keeps a wrong span; the word of a marginal note
in text form (`\<comment>`) counts as a cited fact, and `then` before one makes a step of its own.

Seen while `Names`, `Sites` and `CodeSites` were compared with the code, at lines the run leaves out
because the answer there is not what the author says:

* `subclass` is not among the commands that end a declaration (`_SPAN_BOUNDARY_COMMANDS`): after a
  lemma inside a class block the child of the edge is the lemma, and `instances -r` of the parent
  loses the rows behind the class.  `sublocale (in c) L` is an edge of the hierarchy and never a
  row.  A qualified child (`sublocale T.b < c`) breaks the walk.
* `declare` or `lemmas` alone on its line, or behind `private`, is not scanned for `[code]`; one
  `declare` of two facts reports every attribute for both, under the name of the first.
* A named hypothesis in a one-line `lemma x: assumes "A" and b: "B" shows ...` is indexed as a
  conclusion, where the comment (`parsing.py` 322) says hypotheses are excluded; a `shows` in the
  middle of a later line, and a conclusion with an attribute (`and d[simp]:`), are lost.
* The comment at `parsing.py` 743 says that a blank line cannot end a declaration of which nothing
  has been seen; the code ends it.  A name on the line below `lemma` is not looked for.
* `fun f and "g" and h` binds a sibling called `and`.  A blank line in a locale's head ends the
  search for labels.  By reading: `notes n = thm` is never indexed, since the label expression wants
  a colon, and `private locale x` is an entry without a name.

Seen by reading, at the command line: a relative `ISABELLE_QUERY_ROOT` is forwarded as it is and means
another directory to the server (`server.scala` 604); so does a relative value glued to any option but
`--root` (`--keep-file=x`); the keyword table a file is parsed with depends on the order of the words;
`unused --roots -c` prints a sentence and no 0 when there are none.  And `refs` follows one of the
theories a bare import may denote (`_resolve_import`), where visibility takes all: an import through
another of them is told as not imported.  `RefsExact` leaves such corpora out (`Unambiguous`); with
`Unambiguous` true of all, TLC shows it.

Seen on the way, and covered by a property that holds: the payload names the build before a
server is looked for, so a build in between ends as "stale query server" (exit status 2) and not
in the cold path.  `StaleOnlyIfRebuilt` says that this is the only way to that message.


## 7. Plan

The registry and its index came first, since a wrong answer is what the repository calls the
worst outcome; then the processes that carry them; then the editor; then the pure algorithms.
Left:

1. What else the command line decides: the other options of the verbs, the committed fallback.
2. The rest of `shape.py`: widths, greedy extraction, redundancy across steps.
3. `Discovery` as a function, against a reference over small projects; several ROOT files, among
   them those that are reached outside the root.  The shim's class archive.
4. Composition: `ThinClient` promises others that rows of live servers stay (`LiveRowStays`), and
   `QueryHost` assumes just that of `Prune`; one module with both would close the circle.
5. Proofs: type correctness of `WarmIndex`; that `Refresh` of `WarmRegistry`, whose sources are a
   stamp, is what `WarmIndex` does with files.
