----------------------------- MODULE WarmIndex ------------------------------
(***************************************************************************)
(* One warm index, file by file (Index.refresh in                          *)
(* query_base/src/server.scala): the stat sweep, discovery and the header  *)
(* pass, the parallel parse over the per-file cache, and the commit, with  *)
(* an editor that saves and deletes files between any two of them.         *)
(*                                                                         *)
(* The project is one ROOT file and some theories; those Outside lie in a  *)
(* directory the ROOT's `directories' clause names and that is not below   *)
(* the project root.  A text is identified by its stamp: every save gives  *)
(* the file a stamp that no file had before.                               *)
(***************************************************************************)
EXTENDS Integers, Sequences, FiniteSets

LOCAL INSTANCE SequencesExt

CONSTANTS
  Order,      \* the theories, in the order discovery finds them
  Outside,    \* those not below the project root
  Tag, NoTag, \* what a header's keywords clause makes of a command, if any
  Limit,      \* request limits; 0 is none
  MaxStamp,   \* bound: saves
  Flicker,    \* whether a file may be deleted before any sweep has seen it
  Unprinted   \* no fingerprint yet

File == {Order[i] : i \in DOMAIN Order}

ASSUME OrderAssumption == /\ Order \in Seq(File) /\ IsInjective(Order)
                          /\ Outside \subseteq File
ASSUME TagAssumption == NoTag \notin Tag
ASSUME FlickerAssumption == Flicker \in BOOLEAN
ASSUME LimitAssumption == Limit \subseteq Nat /\ MaxStamp \in Nat \ {0}

Stamp == 0..MaxStamp
PartialTo(S) == UNION {[F -> S] : F \in SUBSET File}
Stamps == [root : Stamp, files : PartialTo(Stamp)]

ASSUME UnprintedAssumption == Unprinted \notin Stamps

VARIABLES
  disk,      \* theory -> [stamp, tag]; stamp 0: there is no such file
  rootfile,  \* ROOT: [stamp, theories]; stamp 0: there is none
  now,       \* the last stamp given
  print,     \* the index: fingerprint of the last commit
  parsed,    \* the index: theory -> [key, text], its sections with their keys
  step,      \* how far the refresh is
  limit,     \* the request's limit
  seen,      \* fingerprint of this refresh
  session,   \* whether discovery found a session
  own,       \* theories found -> tag of their keywords clause
  keys,      \* theories a worker has claimed -> stamp it read first
  built,     \* results of the workers
  todo       \* theories the present step has not come to

sources == <<disk, rootfile, now>>
index == <<print, parsed>>
local == <<seen, session, own, keys, built, todo>>
vars == <<sources, index, step, limit, local>>

-----------------------------------------------------------------------------
Place(f) == CHOOSE i \in DOMAIN Order : Order[i] = f
Inside == File \ Outside
Present == {f \in File : disk[f].stamp > 0}
Empty == [f \in {} |-> 0]
With(fun, f, v) == [g \in DOMAIN fun \cup {f} |-> IF g = f THEN v ELSE fun[g]]

(* Plan.union: header after header, a later one wins; Plan.table: a         *)
(* theory's own clause wins over the union.                                 *)
Union(tags) ==
  FoldLeft(LAMBDA t, f : IF f \in DOMAIN tags /\ tags[f] # NoTag THEN tags[f] ELSE t,
           NoTag, Order)
Table(tags, f) == IF tags[f] # NoTag THEN tags[f] ELSE Union(tags)

(* Without a ROOT every theory below the project root belongs to it. *)
Declared == IF rootfile.stamp > 0 THEN rootfile.theories ELSE Inside

(* What a cold run makes of the saved sources. *)
Cold ==
  LET tags == [f \in Declared \cap Present |-> disk[f].tag]
  IN  [f \in DOMAIN tags |-> [text |-> disk[f].stamp, table |-> Table(tags, f),
                             session |-> rootfile.stamp > 0]]

(* What the warm index holds: a section depends on its text and on what     *)
(* its key names.                                                           *)
Warm == [f \in DOMAIN parsed |-> [text |-> parsed[f].text, table |-> parsed[f].key.table,
                                 session |-> parsed[f].key.session]]

(* The fingerprint of the sources as they are: everything below the root,   *)
(* and the theories of the index wherever they are.                         *)
Watched == (Inside \cap Present) \cup DOMAIN parsed
Fingerprint == [root |-> rootfile.stamp, files |-> [f \in Watched |-> disk[f].stamp]]

-----------------------------------------------------------------------------
Init ==
  /\ disk \in [File -> [stamp : {0, 1}, tag : {NoTag}]]
  /\ rootfile \in [stamp : {1}, theories : SUBSET File] \cup {[stamp |-> 0, theories |-> {}]}
  /\ now = 1
  /\ print = Unprinted /\ parsed = Empty
  /\ step = "idle" /\ limit = 0
  /\ seen = Unprinted /\ session = FALSE
  /\ own = Empty /\ keys = Empty /\ built = Empty /\ todo = {}

(* A request; the walk below the root and the theories of the index. *)
Begin(n) ==
  /\ step = "idle"
  /\ step' = "stat" /\ limit' = n
  /\ seen' = [root |-> rootfile.stamp, files |-> Empty]
  /\ todo' = Watched
  /\ UNCHANGED <<sources, index, session, own, keys, built>>

(* The sweep goes from file to file; the workers of the later passes do not. *)
First(files) == CHOOSE f \in files : \A g \in files : Place(f) <= Place(g)

(* attrs_of; a file that has gone meanwhile gets the stamp of no file. *)
Stat(f) ==
  /\ step = "stat" /\ f \in todo /\ f = First(todo)
  /\ seen' = [seen EXCEPT !.files = With(@, f, disk[f].stamp)]
  /\ todo' = todo \ {f}
  /\ UNCHANGED <<sources, index, step, limit, session, own, keys, built>>

Clear == /\ seen' = Unprinted /\ session' = FALSE
         /\ own' = Empty /\ keys' = Empty /\ built' = Empty /\ todo' = {}

(* An error detaches the entry: the next request starts with a new index. *)
Refuse == /\ step' = "idle" /\ print' = Unprinted /\ parsed' = Empty /\ Clear
          /\ UNCHANGED <<sources, limit>>

TooMany(files) == limit > 0 /\ Cardinality(files) > limit

(* The limit comes before the short cut. *)
Unchanged == print = seen /\ DOMAIN parsed # {}
Swept == step = "stat" /\ todo = {}
OverLimit == Swept /\ TooMany(DOMAIN seen.files) /\ Refuse
(* Mutant: the short cut comes before the limit. *)
AnyShortCut == /\ Swept /\ Unchanged
               /\ step' = "idle" /\ Clear
               /\ UNCHANGED <<sources, index, limit>>
ShortCut == /\ Swept /\ ~TooMany(DOMAIN seen.files) /\ Unchanged
            /\ step' = "idle" /\ Clear
            /\ UNCHANGED <<sources, index, limit>>

(* Theory.plan: the ROOT says which theories are wanted, those that exist   *)
(* are found, and their headers are read.                                   *)
Discover ==
  /\ Swept /\ ~TooMany(DOMAIN seen.files) /\ ~Unchanged
  /\ step' = "plan"
  /\ session' = (rootfile.stamp > 0)
  /\ todo' = Declared
  /\ UNCHANGED <<sources, index, limit, seen, own, keys, built>>

Header(f) ==
  /\ step = "plan" /\ f \in todo
  /\ own' = IF f \in Present THEN With(own, f, disk[f].tag) ELSE own
  /\ todo' = todo \ {f}
  /\ UNCHANGED <<sources, index, step, limit, seen, session, keys, built>>

Planned == step = "plan" /\ todo = {}
NothingFound == Planned /\ (DOMAIN own = {} \/ TooMany(DOMAIN own)) /\ Refuse
StartParse ==
  /\ Planned /\ DOMAIN own # {} /\ ~TooMany(DOMAIN own)
  /\ step' = "parse" /\ todo' = DOMAIN own
  /\ UNCHANGED <<sources, index, limit, seen, session, own, keys, built>>

(* A worker: first the stamp, then the cache or the text. *)
Claim(f) ==
  /\ step = "parse" /\ f \in todo \ DOMAIN keys
  /\ keys' = With(keys, f, disk[f].stamp)
  /\ UNCHANGED <<sources, index, step, limit, seen, session, own, built, todo>>

Key(f) == [stamp |-> keys[f], table |-> Table(own, f), session |-> session]
(* Mutants: half of the key is compared. *)
HitByTable(f) == f \in DOMAIN parsed /\ parsed[f].key.table = Key(f).table
HitByStamp(f) == f \in DOMAIN parsed /\ parsed[f].key.stamp = Key(f).stamp
Hit(f) == f \in DOMAIN parsed /\ parsed[f].key = Key(f)

Parse(f) ==
  /\ step = "parse" /\ f \in todo \cap DOMAIN keys
  /\ built' = IF Hit(f) THEN With(built, f, parsed[f])
              ELSE IF f \in Present
              THEN With(built, f, [key |-> Key(f), text |-> disk[f].stamp])
              ELSE built
  /\ todo' = todo \ {f}
  /\ UNCHANGED <<sources, index, step, limit, seen, session, own, keys>>

(* An exception no parse recovers from: nothing of this refresh is kept. *)
WorkerDies == step = "parse" /\ todo # {} /\ Refuse

Commit ==
  /\ step = "parse" /\ todo = {}
  /\ print' = seen /\ parsed' = built
  /\ step' = "idle" /\ Clear
  /\ UNCHANGED <<sources, limit>>

-----------------------------------------------------------------------------
Forgotten == step = "idle" /\ print = Unprinted
Noted == {p \in {seen, print} : p # Unprinted}
Noticed(f) == Forgotten \/ \E p \in Noted : f \in DOMAIN p.files /\ p.files[f] = disk[f].stamp
RootNoticed == Forgotten \/ \E p \in Noted : p.root = rootfile.stamp

Save(f, tag) ==
  /\ now < MaxStamp /\ now' = now + 1
  /\ disk' = [disk EXCEPT ![f] = [stamp |-> now + 1, tag |-> tag]]
  /\ UNCHANGED <<rootfile, index, step, limit, local>>
Delete(f) ==
  /\ f \in Present /\ (Flicker \/ Noticed(f))
  /\ disk' = [disk EXCEPT ![f] = [stamp |-> 0, tag |-> NoTag]]
  /\ UNCHANGED <<rootfile, now, index, step, limit, local>>
SaveRoot(theories) ==
  /\ now < MaxStamp /\ now' = now + 1
  /\ rootfile' = [stamp |-> now + 1, theories |-> theories]
  /\ UNCHANGED <<disk, index, step, limit, local>>
DeleteRoot ==
  /\ rootfile.stamp > 0 /\ (Flicker \/ RootNoticed)
  /\ rootfile' = [stamp |-> 0, theories |-> {}]
  /\ UNCHANGED <<disk, now, index, step, limit, local>>

Edit == \/ \E f \in File : Delete(f) \/ \E tag \in Tag \cup {NoTag} : Save(f, tag)
        \/ DeleteRoot
        \/ \E theories \in SUBSET File : SaveRoot(theories)
Sweep == (\E f \in File : Stat(f)) \/ OverLimit \/ ShortCut \/ Discover
Plan == (\E f \in File : Header(f)) \/ NothingFound \/ StartParse
Parsing == (\E f \in File : Claim(f) \/ Parse(f)) \/ WorkerDies \/ Commit
Refresh == Sweep \/ Plan \/ Parsing

Next == (\E n \in Limit : Begin(n)) \/ Refresh \/ Edit
Spec == Init /\ [][Next]_vars

-----------------------------------------------------------------------------
KeySpace == [stamp : Stamp, table : Tag \cup {NoTag}, session : BOOLEAN]

TypeOK ==
  /\ disk \in [File -> [stamp : Stamp, tag : Tag \cup {NoTag}]]
  /\ rootfile \in [stamp : Stamp, theories : SUBSET File]
  /\ now \in Stamp
  /\ print = Unprinted \/ print \in Stamps
  /\ parsed \in PartialTo([key : KeySpace, text : Stamp \ {0}])
  /\ step \in {"idle", "stat", "plan", "parse"}
  /\ step # "idle" => seen \in Stamps
  /\ DOMAIN keys \subseteq DOMAIN own /\ DOMAIN built \subseteq DOMAIN keys

(* The promise of the stat check, "every theory the project could load,     *)
(* every ROOT and ROOTS that could change which those are": whenever the    *)
(* next request would take the short cut, what it would answer from is what *)
(* a cold run would read from the saved sources, texts, keyword tables and  *)
(* sessions alike, whatever was saved or deleted during the refresh.        *)
WarmIsCold ==
  step = "idle" /\ DOMAIN parsed # {} /\ print = Fingerprint => Warm = Cold

(* No section handed over is older than what was saved when the sweep      *)
(* looked at its file.  A section is excepted that was parsed although its  *)
(* file was missing when the worker took the stamp: its key says so.        *)
Older(f) == f \in DOMAIN seen.files /\ parsed'[f].text < seen.files[f]
ServedFresh ==
  [][step # "idle" /\ step' = "idle" =>
       \A f \in DOMAIN parsed' : parsed'[f].key.stamp > 0 => ~Older(f)]_vars

(* The same with no exception: "A warm answer that is one edit out of date  *)
(* is worse than a cold one".                                               *)
AlwaysFresh ==
  [][step # "idle" /\ step' = "idle" => \A f \in DOMAIN parsed' : ~Older(f)]_vars

(* A request is never answered from more theories than it asked for, not    *)
(* even from an index that an earlier request with a larger limit built.    *)
LimitHolds ==
  [][step # "idle" /\ step' = "idle" => ~TooMany(DOMAIN parsed')]_vars
=============================================================================
