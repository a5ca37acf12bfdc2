----------------------------- MODULE Namespace -----------------------------
(***************************************************************************)
(* The method table of a query comes from the heaps of the sessions of its *)
(* project: out of a cache that is keyed by a stat of the heap, or by one  *)
(* run of Isabelle that dumps it.  Several processes share the cache       *)
(* directory and write it in place, and the user builds and removes heaps  *)
(* while they run.                                                         *)
(*                                                                         *)
(* A heap is a version: each build gives a new one, which is also its      *)
(* table.  A child heap loads only over the parent it was built on.        *)
(***************************************************************************)
EXTENDS Integers, Sequences, FiniteSets

CONSTANTS
    Query,          \* the processes
    Project,        \* the sessions of the project, each once, in the order of its ROOT files
    Parent,         \* [session -> its parent session, or None]
    MaxVersion,     \* bound: builds of one behaviour
    MaxQueries,     \* bound: queries of one behaviour
    MaxTrouble,     \* bound: crashes, time limits and failures of one behaviour
    None

Session == DOMAIN Parent

ASSUME NamespaceAssumption ==
    /\ None \notin Session
    /\ \A s \in Session : Parent[s] \in Session \cup {None}
    /\ Project \in Seq(Session)
    /\ None \notin Nat \X [Session -> [version : Nat, over : Nat] \cup {None}]

VARIABLES
    heap,       \* [session -> [version, over] or None]: the heap files
    version,    \* the newest version given out
    cache,      \* [session -> [print, table], "torn" or None]: the cache files
    failure,    \* [session -> key or None]: the failure records
    queries,    \* how many queries were started
    trouble,    \* how often something failed that need not
    q,          \* [process -> what it is doing]
    failed      \* history: <<session, heaps>> of each dump that failed

world == <<heap, version>>
files == <<cache, failure>>
vars == <<world, files, queries, trouble, q, failed>>

NoHeap == [s \in Session |-> None]

Resting == [pc |-> "idle", todo |-> {}, knows |-> FALSE, print |-> None,
            key |-> None, seen |-> None,
            table |-> None, bound |-> [s \in Session |-> None],
            source |-> "none", first |-> NoHeap, quiet |-> TRUE, coarse |-> {}]

Init ==
    /\ heap \in {h \in [Session -> {None, [version |-> 1, over |-> 0]}] :
                    \A s \in Session : Parent[s] # None => h[s] = None}
    /\ version = 1
    /\ cache = [s \in Session |-> None]
    /\ failure = [s \in Session |-> None]
    /\ queries = 0 /\ trouble = 0
    /\ q = [p \in Query |-> Resting]
    /\ failed = {}

-----------------------------------------------------------------------------
(***************************************************************************)
(* The user: isabelle build, and heaps that are removed.                   *)
(***************************************************************************)
Unquiet == [p \in Query |-> IF q[p].pc = "idle" THEN q[p] ELSE [q[p] EXCEPT !.quiet = FALSE]]

Build(s) ==
    /\ version < MaxVersion
    /\ Parent[s] # None => heap[Parent[s]] # None
    /\ version' = version + 1
    /\ heap' = [heap EXCEPT ![s] =
            [version |-> version + 1,
             over |-> IF Parent[s] = None THEN 0 ELSE heap[Parent[s]].version]]
    /\ q' = Unquiet
    /\ UNCHANGED <<files, queries, trouble, failed>>

Remove(s) ==
    /\ heap[s] # None
    /\ heap' = [heap EXCEPT ![s] = None]
    /\ q' = Unquiet
    /\ UNCHANGED <<version, files, queries, trouble, failed>>

\* What ML_process makes of a session it is told the directory of.
Loads(s) ==
    /\ heap[s] # None
    /\ heap[s].over # 0 => heap[Parent[s]] # None /\ heap[Parent[s]].version = heap[s].over

-----------------------------------------------------------------------------
(***************************************************************************)
(* resolve_project, in one process.                                        *)
(***************************************************************************)
Goto(p, r) == q' = [q EXCEPT ![p] = r]

\* One glob for what is built; `knows': the ROOT directories were passed on.
Begin(p, knows) ==
    /\ q[p].pc = "idle" /\ queries < MaxQueries
    /\ queries' = queries + 1
    /\ LET built == {s \in Session : heap[s] # None} IN
       Goto(p, [Resting EXCEPT !.pc = "next", !.knows = knows, !.first = heap,
                    !.todo = built \cap {Project[i] : i \in DOMAIN Project}])
    /\ UNCHANGED <<world, files, trouble, failed>>

\* The loop takes the sessions that are built, in the order of the project.
Place(s) == CHOOSE i \in DOMAIN Project : Project[i] = s
Current(p) == CHOOSE s \in q[p].todo : \A t \in q[p].todo : Place(s) <= Place(t)

\* The session is done; one that was not dumped adds nothing to the union.
Passed(p, table) ==
    [q[p] EXCEPT !.pc = "next", !.todo = @ \ {Current(p)}, !.print = None, !.key = None, !.seen = None,
                 !.table = None,
                 !.bound[Current(p)] = table]

\* The stat of the heap, or the version of Isabelle alone if there is none.
Fingerprint(s) == IF heap[s] = None THEN 0 ELSE heap[s].version

Stat(p) ==
    /\ q[p].pc = "next" /\ q[p].todo # {}
    /\ LET print == Fingerprint(Current(p)) IN
       Goto(p, [q[p] EXCEPT !.pc = "load", !.print = print,
                    !.coarse = IF print = 0 THEN @ \cup {Current(p)} ELSE @])
    /\ UNCHANGED <<world, files, queries, trouble, failed>>

\* load_cache: a file that was cut short is no cache.
Load(p) ==
    /\ q[p].pc = "load"
    /\ LET c == cache[Current(p)] IN
       IF c # None /\ c.print = q[p].print
       THEN Goto(p, Passed(p, c.table))
       ELSE Goto(p, [q[p] EXCEPT !.pc = "check"])
    /\ UNCHANGED <<world, files, queries, trouble, failed>>

\* Mutant: a failure is recorded against the session's own heap.
OwnHeap(p) == <<q[p].print, heap[Current(p)]>>

\* Whether a dump can succeed depends on every heap.
FailKey(p) == <<q[p].print, heap>>

\* No heap, or a dump known to fail: nothing is spawned.
Check(p) ==
    /\ q[p].pc = "check"
    /\ LET s == Current(p) IN
       IF heap[s] = None \/ failure[s] = FailKey(p)
       THEN Goto(p, Passed(p, None))
       ELSE Goto(p, [q[p] EXCEPT !.pc = "dump", !.key = FailKey(p), !.seen = heap])
    /\ UNCHANGED <<world, files, queries, trouble, failed>>

\* If the heap went after it was checked for, ML_process refuses (DumpFails), or
\* "would build an absent session": a Build, and then this step.
Dumped(p) ==
    /\ q[p].pc = "dump"
    /\ q[p].knows /\ Loads(Current(p))
    /\ Goto(p, [q[p] EXCEPT !.pc = "open", !.table = heap[Current(p)].version])
    /\ UNCHANGED <<world, files, queries, trouble, failed>>

\* The process ran and produced no table; this is recorded.
DumpFails(p) ==
    /\ q[p].pc = "dump"
    /\ ~(q[p].knows /\ Loads(Current(p)))
    /\ failure' = [failure EXCEPT ![Current(p)] = q[p].key]
    /\ failed' = failed \cup {<<Current(p), q[p].seen>>}
    /\ Goto(p, Passed(p, None))
    /\ UNCHANGED <<world, cache, queries, trouble>>

\* A dump that hangs is given up, and not recorded.
TimesOut(p) ==
    /\ q[p].pc = "dump"
    /\ trouble < MaxTrouble
    /\ trouble' = trouble + 1
    /\ Goto(p, [Passed(p, None) EXCEPT !.quiet = FALSE])
    /\ UNCHANGED <<world, files, queries, failed>>

(***************************************************************************)
(* save_cache writes in place: the file is empty first, and two writers    *)
(* may leave the text of either or a mixture.                              *)
(***************************************************************************)
Torn == [print |-> -1, table |-> None]

Open(p) ==
    /\ q[p].pc = "open"
    /\ cache' = [cache EXCEPT ![Current(p)] = Torn]
    /\ Goto(p, [q[p] EXCEPT !.pc = "write"])
    /\ UNCHANGED <<world, failure, queries, trouble, failed>>

\* Mutant: the fingerprint is taken when the table is written.
LatePrint(p) == Fingerprint(Current(p))

OwnPrint(p) == q[p].print

Contested(p) ==
    \E o \in Query \ {p} : q[o].pc = "write" /\ Current(o) = Current(p)

WriteCache(p) ==
    LET s == Current(p) IN
    /\ q[p].pc = "write"
    /\ \E text \in {[print |-> OwnPrint(p), table |-> q[p].table]}
                   \cup (IF Contested(p) \/ cache[s] # Torn THEN {Torn} ELSE {}) :
            cache' = [cache EXCEPT ![s] = text]
    /\ Goto(p, Passed(p, q[p].table))
    /\ UNCHANGED <<world, failure, queries, trouble, failed>>

\* The directory cannot be written, or a heap goes between glob and stat: the
\* exception ends the resolution, and the default table stays bound.
Raises(p) ==
    /\ q[p].pc \in {"next", "open", "write"} /\ q[p].todo # {}
    /\ trouble < MaxTrouble
    /\ trouble' = trouble + 1
    /\ Goto(p, [q[p] EXCEPT !.pc = "answer", !.todo = {}, !.source = "default",
                    !.bound = NoHeap, !.quiet = FALSE])
    /\ UNCHANGED <<world, files, queries, failed>>

\* _configure_namespace: the union of what was found, or the fallback.
Bind(p) ==
    /\ q[p].pc = "next" /\ q[p].todo = {}
    /\ Goto(p, [q[p] EXCEPT !.pc = "answer",
                    !.source = IF \A s \in Session : q[p].bound[s] = None
                               THEN "committed" ELSE "isabelle"])
    /\ UNCHANGED <<world, files, queries, trouble, failed>>

Answer(p) ==
    /\ q[p].pc = "answer"
    /\ Goto(p, Resting)
    /\ UNCHANGED <<world, files, queries, trouble, failed>>

Kill(p) ==
    /\ q[p].pc # "idle"
    /\ trouble < MaxTrouble
    /\ trouble' = trouble + 1
    /\ Goto(p, Resting)
    /\ UNCHANGED <<world, files, queries, failed>>

Resolve(p) ==
    \/ Stat(p) \/ Load(p) \/ Check(p)
    \/ Dumped(p) \/ DumpFails(p) \/ TimesOut(p)
    \/ Open(p) \/ WriteCache(p) \/ Raises(p)
    \/ Bind(p) \/ Answer(p)

Next ==
    \/ \E s \in Session : Build(s) \/ Remove(s)
    \/ \E p \in Query : \/ \E knows \in BOOLEAN : Begin(p, knows)
                        \/ Resolve(p)
                        \/ Kill(p)

Spec == Init /\ [][Next]_vars

-----------------------------------------------------------------------------
\* A table that is bound is not older than the heap the query found when it
\* began, although heaps are rebuilt between stat, dump and write and the cache
\* is written by others ("keyed by a fingerprint of the heap").  The exception
\* is a heap that goes in the moment between the glob and the stat: its print
\* names no version.
NotOutdated ==
    \A p \in Query : \A s \in Session \ q[p].coarse :
        q[p].bound[s] # None /\ q[p].first[s] # None => q[p].bound[s] >= q[p].first[s].version

\* A query of a project whose heaps load, in whose course no heap changes and
\* nothing fails that need not, binds the very table of every heap: neither a
\* torn cache nor a failure that belongs to other heaps stands in its way.
ExactWhenQuiet ==
    \A p \in Query :
        (q[p].pc = "answer" /\ q[p].quiet /\ q[p].knows) =>
            \A i \in DOMAIN Project : LET s == Project[i] IN
                (Loads(s) /\ <<s, heap>> \notin failed) => q[p].bound[s] = heap[s].version

\* resolve_namespace: "A dump that failed against these exact heaps fails again".
FailsAgain ==
    \A p \in Query :
        (q[p].pc = "answer" /\ q[p].quiet /\ q[p].knows) =>
            \A i \in DOMAIN Project : LET s == Project[i] IN
                Loads(s) => q[p].bound[s] = heap[s].version
=============================================================================
