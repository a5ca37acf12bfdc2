---------------------------- MODULE WarmRegistry ----------------------------
(***************************************************************************)
(* The warm query server's index registry (query_base/src/server.scala).   *)
(*                                                                         *)
(* Every open, run and close lifecycle holds engine_lock from beginning to *)
(* end; the registry itself is guarded by an inner registry_lock, so that  *)
(* query_version can be answered while a long query holds the engine.  The *)
(* lifecycle of a run or an open is split here where another thread, or an *)
(* editor writing the sources, can act in between:                         *)
(*                                                                         *)
(*   Enter, Fingerprint, Plan, Parse, Commit, Consume, Publish, Evict*, Reply *)
(*                                                                         *)
(* A root's sources are one stamp (what Fingerprint compares: mtimes and   *)
(* sizes of all files) and one size, which stands for the number of        *)
(* theories and for the UTF-8 bytes retained for them.  WarmIndex.tla has  *)
(* the files.                                                              *)
(***************************************************************************)
EXTENDS Integers, FiniteSets

CONSTANTS
  Client,    \* server connections: each runs one command at a time
  Observer,  \* those that also send query_version
  Root,      \* canonical project roots
  Stamp,     \* fingerprints: large enough that an edit always moves the stamp
  MaxSize,   \* bound on the size of a root
  Budget,    \* cache_limit_bytes; 0 disables retention
  Cap,       \* REGISTRY_ENTRIES_MAX
  LongMax,   \* Long.MaxValue: saturation of byte sums, wrap of the use clock
  None       \* no value

ASSUME SizeAssumption == MaxSize \in Nat
ASSUME BudgetAssumption == /\ Budget \in Nat /\ Cap \in Nat \ {0} /\ LongMax \in Nat
                           /\ Budget < LongMax /\ Cap + 2 <= LongMax
ASSUME RootAssumption == IsFiniteSet(Root) /\ Observer \subseteq Client
ASSUME NoneAssumption == None \notin Client \cup Root \cup Stamp
ASSUME StampAssumption == Stamp # {}

VARIABLES
  disk,      \* root -> [stamp, size]: the saved sources
  enabled,   \* retention_enabled
  registry,  \* root -> [charge, used, index], for the registered roots
  clock,     \* use_clock
  cur,       \* the lifecycle that holds engine_lock, or Idle
  pc,        \* what each connection is doing
  todo       \* open_indexes: the indexes whose stats are still to be read

vars == <<disk, enabled, registry, clock, cur, pc, todo>>

-----------------------------------------------------------------------------
Blank == [print |-> None, content |-> None, size |-> 0]

Index == [print : Stamp \cup {None}, content : Stamp \cup {None},
          size : 0..MaxSize]
Entry == [charge : 0..MaxSize, used : 1..LongMax, index : Index]

Idle == [phase |-> "none", client |-> None, kind |-> "none", root |-> None,
         print |-> None, ended |-> "no", read |-> Blank]

(* The entry the running lifecycle holds is still the registered one:      *)
(* registry.get(key).contains(entry).  Only a lifecycle creates entries,   *)
(* and it keeps the engine, so the entry of its root is the one it holds.  *)
Current == cur.root \in DOMAIN registry

Without(reg, roots) == [r \in DOMAIN reg \ roots |-> reg[r]]

(* retain_indexes_locked *)
Retaining == enabled /\ Budget > 0

(* retained_bytes_locked: the sum of the charges is the number of          *)
(* (root, byte) pairs; saturated_sum stops it at Long.MaxValue.            *)
ChargedBytes(reg) == UNION {{r} \X (1..reg[r].charge) : r \in DOMAIN reg}
RetainedBytes(reg) ==
  LET total == Cardinality(ChargedBytes(reg))
  IN  IF total >= LongMax THEN LongMax ELSE total

(* Mutant: the bytes are not tested. *)
OverCapOnly(reg) == DOMAIN reg # {} /\ Cardinality(DOMAIN reg) > Cap

(* The condition of the eviction loop in evict_locked. *)
Over(reg) == /\ DOMAIN reg # {}
             /\ \/ Cardinality(DOMAIN reg) > Cap
                \/ RetainedBytes(reg) > Budget

Oldest(reg) == {r \in DOMAIN reg : \A q \in DOMAIN reg : reg[r].used <= reg[q].used}

(* next_use_locked: at the end of the clock the entries are renumbered     *)
(* 1, 2, ... in their order of use before the next use is handed out.      *)
Rank(reg, r) == Cardinality({q \in DOMAIN reg : reg[q].used <= reg[r].used})
Aged(reg) == IF clock = LongMax
             THEN [r \in DOMAIN reg |-> [reg[r] EXCEPT !.used = Rank(reg, r)]]
             ELSE reg
NextUse(reg) == (IF clock = LongMax THEN Cardinality(DOMAIN reg) ELSE clock) + 1

-----------------------------------------------------------------------------
Init == /\ disk \in [Root -> [stamp : {CHOOSE s \in Stamp : TRUE}, size : 0..MaxSize]]
        /\ enabled = TRUE
        /\ registry = [r \in {} |-> None]
        /\ clock = 0
        /\ cur = Idle
        /\ pc = [c \in Client |-> "idle"]
        /\ todo = [c \in Client |-> {}]

(* A connection sends a command that needs engine_lock. *)
Ask(c) == /\ pc[c] = "idle"
          /\ pc' = [pc EXCEPT ![c] = "waiting"]
          /\ UNCHANGED <<disk, enabled, registry, clock, cur, todo>>

(* Mutant: the handler does not take the lock. *)
Unlocked(c) == pc[c] = "waiting"

(* c is admitted to engine_lock. *)
Admitted(c) == pc[c] = "waiting" /\ cur = Idle

(* A command that ends inside one acquisition of engine_lock. *)
Answer(c) == pc' = [pc EXCEPT ![c] = "idle"]

(* entry_for, as the first step of a lifecycle that now holds the engine. *)
Enter(c, kind, r) ==
  /\ cur' = [phase |-> "stat", client |-> c, kind |-> kind, root |-> r,
             print |-> None, ended |-> "no", read |-> Blank]
  /\ IF r \in DOMAIN registry
     THEN UNCHANGED <<registry, clock>>
     ELSE /\ registry' = [q \in DOMAIN registry \cup {r} |->
                            IF q = r
                            THEN [charge |-> 0, used |-> NextUse(registry), index |-> Blank]
                            ELSE Aged(registry)[q]]
          /\ clock' = NextUse(registry)
  /\ pc' = [pc EXCEPT ![c] = "working"]
  /\ UNCHANGED <<disk, enabled, todo>>

(* query_run of a command that loads an index.  An index_id pins the run to *)
(* the root it is registered for, which Run then names; an id that is not   *)
(* registered (it was evicted or closed) ends as RunNoIndex.                *)
Run(c, r) == Admitted(c) /\ Enter(c, "run", r)

(* query_run that never asks for an index: help, usage errors, an expired   *)
(* index_id, a pinned run whose explicit root is another one.               *)
RunNoIndex(c) == /\ Admitted(c) /\ Answer(c)
                 /\ UNCHANGED <<disk, enabled, registry, clock, cur, todo>>

(* query_open: refused outright when nothing may be retained. *)
Open(c, r) == Admitted(c) /\ Retaining /\ Enter(c, "open", r)
OpenRefused(c) == /\ Admitted(c) /\ ~Retaining /\ Answer(c)
                  /\ UNCHANGED <<disk, enabled, registry, clock, cur, todo>>

-----------------------------------------------------------------------------
(* Index.refresh.  The index monitor is held from Fingerprint to Commit.    *)
Sources == disk[cur.root]
Loaded == registry[cur.root].index
AfterRefresh == IF cur.kind = "open" THEN "publish" ELSE "answer"

(* Mutant: whatever was loaded once is good enough. *)
NeverStale ==
  /\ cur.phase = "stat"
  /\ cur' = IF Loaded.size > 0
            THEN [cur EXCEPT !.phase = AfterRefresh]
            ELSE [cur EXCEPT !.phase = "plan", !.print = Sources.stamp]
  /\ UNCHANGED <<disk, enabled, registry, clock, pc, todo>>

(* Unchanged sources are the short cut, but an index that came out empty is *)
(* never taken to be up to date.                                            *)
Fingerprint ==
  /\ cur.phase = "stat"
  /\ cur' = IF Loaded.print = Sources.stamp /\ Loaded.size > 0
            THEN [cur EXCEPT !.phase = AfterRefresh]
            ELSE [cur EXCEPT !.phase = "plan", !.print = Sources.stamp]
  /\ UNCHANGED <<disk, enabled, registry, clock, pc, todo>>

Plan ==
  /\ cur.phase = "plan" /\ Sources.size > 0
  /\ cur' = [cur EXCEPT !.phase = "parse"]
  /\ UNCHANGED <<disk, enabled, registry, clock, pc, todo>>

(* The workers read the sources as they are now, which an edit may already  *)
(* have changed since the print was taken, and may change again before the  *)
(* commit.                                                                  *)
Parse ==
  /\ cur.phase = "parse"
  /\ cur' = [cur EXCEPT !.phase = "commit",
                        !.read = [print |-> cur.print, content |-> Sources.stamp,
                                  size |-> Sources.size]]
  /\ UNCHANGED <<disk, enabled, registry, clock, pc, todo>>

Commit ==
  /\ cur.phase = "commit"
  /\ registry' = [registry EXCEPT ![cur.root].index = cur.read]
  /\ cur' = [cur EXCEPT !.phase = AfterRefresh, !.print = None, !.read = Blank]
  /\ UNCHANGED <<disk, enabled, clock, pc, todo>>

(* Mutant: a project with no theories left is not handled. *)
EmptyUnhandled ==
  /\ cur.phase \in {"stat", "parse"}
  /\ registry' = Without(registry, IF Current THEN {cur.root} ELSE {})
  /\ Answer(cur.client)
  /\ cur' = Idle
  /\ UNCHANGED <<disk, enabled, clock, todo>>

(* The refresh is refused (more theories than the request's limit, or none  *)
(* at all) or throws: the entry is detached, whatever it held before.       *)
RefreshFails ==
  /\ cur.phase \in {"stat", "plan", "parse"}
  /\ registry' = Without(registry, IF Current THEN {cur.root} ELSE {})
  /\ Answer(cur.client)
  /\ cur' = Idle
  /\ UNCHANGED <<disk, enabled, clock, todo>>

(* The CLI consumes the sections, and ends with status 0, with another one, *)
(* or throws; the publication follows in any case.                          *)
Ending == {"zero", "nonzero", "thrown"}
Consume(how) ==
  /\ cur.phase = "answer"
  /\ cur' = [cur EXCEPT !.phase = "publish", !.ended = how]
  /\ UNCHANGED <<disk, enabled, registry, clock, pc, todo>>

-----------------------------------------------------------------------------
(* publish: admission first, then the aggregate eviction.  registry_lock is *)
(* held from Publish to the end of the eviction loop.                       *)

Admissible == Current /\ Retaining /\ Loaded.size <= Budget

(* Mutant: rc is 0 also when the CLI threw, and is not all there is to ask. *)
ExitOnly == cur.kind = "open" \/ cur.ended # "nonzero"

(* Only a completed exit 0 promotes; an open always does. *)
Promotes == cur.kind = "open" \/ cur.ended = "zero"

Publish ==
  /\ cur.phase = "publish" /\ Admissible
  /\ LET aged == IF Promotes THEN Aged(registry) ELSE registry
     IN  registry' = [aged EXCEPT ![cur.root] =
                        [charge |-> Loaded.size,
                         used |-> IF Promotes THEN NextUse(registry) ELSE @.used,
                         index |-> Loaded]]
  /\ clock' = IF Promotes THEN NextUse(registry) ELSE clock
  /\ cur' = [cur EXCEPT !.phase = "evict"]
  /\ UNCHANGED <<disk, enabled, pc, todo>>

(* An inadmissible entry detaches itself and nothing else. *)
PublishRefused ==
  /\ cur.phase = "publish" /\ ~Admissible
  /\ registry' = Without(registry, IF Current THEN {cur.root} ELSE {})
  /\ cur' = Idle
  /\ Answer(cur.client)
  /\ UNCHANGED <<disk, enabled, clock, todo>>

Evict ==
  /\ cur.phase = "evict" /\ Over(registry)
  /\ \E r \in Oldest(registry) : registry' = Without(registry, {r})
  /\ UNCHANGED <<disk, enabled, clock, cur, pc, todo>>

(* The end of the loop: both locks are released and the reply is sent. *)
Reply ==
  /\ cur.phase = "evict" /\ ~Over(registry)
  /\ cur' = Idle
  /\ Answer(cur.client)
  /\ UNCHANGED <<disk, enabled, registry, clock, todo>>

-----------------------------------------------------------------------------
(* query_close and query_cache: engine_lock, then registry_lock. *)
Removing(c, roots) == /\ Admitted(c) /\ Answer(c)
                      /\ registry' = Without(registry, roots)
                      /\ UNCHANGED <<disk, clock, cur, todo>>

Close(c, r) == Removing(c, {r}) /\ UNCHANGED enabled
CloseAll(c) == Removing(c, Root) /\ UNCHANGED enabled
CacheOff(c) == Removing(c, Root) /\ enabled' = FALSE
CacheOn(c) == Removing(c, {}) /\ enabled' = TRUE

(* query_version takes registry_lock alone. *)
EngineFree == cur = Idle  \* mutant: one lock for both

RegistryFree == cur.phase # "evict"

AskVersion(c) == /\ pc[c] = "idle"
                 /\ pc' = [pc EXCEPT ![c] = "version"]
                 /\ UNCHANGED <<disk, enabled, registry, clock, cur, todo>>
Version(c) == /\ pc[c] = "version" /\ RegistryFree /\ Answer(c)
              /\ UNCHANGED <<disk, enabled, registry, clock, cur, todo>>

(* open_indexes: the registered indexes under registry_lock, then the stats *)
(* of each under its own monitor, which a refresh of that root holds.       *)
IndexBusy(r) == cur.phase \in {"plan", "parse", "commit"} /\ cur.root = r

Status(c) == /\ pc[c] = "idle" /\ RegistryFree
             /\ pc' = [pc EXCEPT ![c] = "status"]
             /\ todo' = [todo EXCEPT ![c] = DOMAIN registry]
             /\ UNCHANGED <<disk, enabled, registry, clock, cur>>
Stats(c, r) == /\ pc[c] = "status" /\ r \in todo[c] /\ ~IndexBusy(r)
               /\ todo' = [todo EXCEPT ![c] = @ \ {r}]
               /\ UNCHANGED <<disk, enabled, registry, clock, cur, pc>>
StatusDone(c) == /\ pc[c] = "status" /\ todo[c] = {} /\ Answer(c)
                 /\ UNCHANGED <<disk, enabled, registry, clock, cur, todo>>

(* The user saves or deletes sources: the stamp moves to one no index of    *)
(* the root remembers.                                                      *)
Remembered(r) ==
  {disk[r].stamp} \cup (IF cur.root = r THEN {cur.print, cur.read.content} ELSE {})
    \cup (IF r \in DOMAIN registry
          THEN {registry[r].index.print, registry[r].index.content} ELSE {})
Edit(r, n) ==
  /\ \E s \in Stamp : s \notin Remembered(r)
  /\ disk' = [disk EXCEPT ![r] =
                [stamp |-> CHOOSE s \in Stamp : s \notin Remembered(r), size |-> n]]
  /\ UNCHANGED <<enabled, registry, clock, cur, pc, todo>>

-----------------------------------------------------------------------------
Begin(c) == \/ \E r \in Root : Run(c, r) \/ Open(c, r)
            \/ RunNoIndex(c)
            \/ OpenRefused(c)
Control(c) == \/ CloseAll(c) \/ CacheOff(c) \/ CacheOn(c)
              \/ \E r \in Root : Close(c, r)
Observe(c) == \/ AskVersion(c) \/ Version(c) \/ Status(c) \/ StatusDone(c)
              \/ \E r \in Root : Stats(c, r)
Refresh == Fingerprint \/ Plan \/ Parse \/ Commit \/ RefreshFails
Settle == Publish \/ PublishRefused \/ Evict \/ Reply
Lifecycle == Refresh \/ Settle \/ \E how \in Ending : Consume(how)

Next == \/ \E c \in Client : Ask(c) \/ Begin(c) \/ Control(c)
        \/ \E c \in Observer : Observe(c)
        \/ Lifecycle
        \/ \E r \in Root, n \in 0..MaxSize : Edit(r, n)

Spec == Init /\ [][Next]_vars

(* A thread that only waits for a short monitor (registry_lock or that of   *)
(* an index) gets it if the monitor is released again and again: strong     *)
(* fairness, since other threads may take it in between.  The eviction loop *)
(* runs to its end.                                                         *)
Fairness == /\ WF_vars(Evict \/ Reply)
            /\ \A c \in Observer : /\ SF_vars(Version(c)) /\ WF_vars(StatusDone(c))
                                   /\ \A r \in Root : SF_vars(Stats(c, r))
FairSpec == Spec /\ Fairness

(* What some of the promises need in addition, and query_version does not:  *)
(* the thread inside the engine keeps running, and the CLI call it makes    *)
(* terminates.                                                              *)
EngineRuns == WF_vars(Lifecycle)

-----------------------------------------------------------------------------
(* Types, and which phases the lifecycle in the engine can be in. *)
Phase == {"none", "stat", "plan", "parse", "commit", "answer", "publish", "evict"}

TypeOK ==
  /\ disk \in [Root -> [stamp : Stamp, size : 0..MaxSize]]
  /\ enabled \in BOOLEAN
  /\ DOMAIN registry \subseteq Root
  /\ registry \in [DOMAIN registry -> Entry]
  /\ clock \in 0..LongMax
  /\ cur \in [phase : Phase, client : Client \cup {None}, kind : {"none", "run", "open"},
              root : Root \cup {None}, print : Stamp \cup {None}, ended : Ending \cup {"no"},
              read : Index]
  /\ pc \in [Client -> {"idle", "waiting", "working", "version", "status"}]
  /\ todo \in [Client -> SUBSET Root]

(* What query_version can see, at any moment it can look: the retained     *)
(* bytes are within the budget, and the entry count within the cap but for *)
(* the one root the running lifecycle has just registered.                 *)
WithinBudget == RegistryFree => RetainedBytes(registry) <= Budget
WithinCap == RegistryFree =>
  Cardinality(DOMAIN registry) <= IF cur = Idle THEN Cap ELSE Cap + 1

(* The root a lifecycle is working on cannot be closed, evicted or replaced *)
(* under it: between its refresh and its publication the entry it holds is  *)
(* the registered one.                                                      *)
InFlightRegistered == cur.phase \notin {"none", "evict"} => Current

(* The budget is charged what is really retained: every entry no lifecycle  *)
(* is working on is charged the bytes of the snapshot in its index, after   *)
(* edits, failed refreshes and refused publications alike.                  *)
Accounted == \A r \in DOMAIN registry : cur.root = r \/ registry[r].charge = registry[r].index.size

(* With retention off nothing is kept: the only entry there can be is the   *)
(* transient one of the running request, charged nothing.                   *)
OffMeansEmpty == ~Retaining =>
  \A r \in DOMAIN registry : cur.root = r /\ registry[r].charge = 0

(* An index whose recorded fingerprint is that of the saved sources holds   *)
(* those sources: the print is taken before the parse, so an edit that      *)
(* falls in between, or that the parse half sees, can only make it stale.   *)
PrintSound == \A r \in DOMAIN registry :
  registry[r].index.print = disk[r].stamp
    => registry[r].index.content = disk[r].stamp /\ registry[r].index.size = disk[r].size

(* What holds of the registry at any moment: sizes, charges and prints.     *)
RegistrySound ==
  TypeOK /\ WithinBudget /\ WithinCap /\ Accounted /\ OffMeansEmpty /\ PrintSound

(* "A warm answer that is one edit out of date is worse than a cold one": a *)
(* refresh that succeeds while the sources are those its fingerprint saw    *)
(* hands over the sections of those sources, by the short cut or by a       *)
(* parse, whatever was retained before.                                     *)
FreshSections ==
  [][(\/ cur.phase = "stat" /\ cur'.phase \in {"answer", "publish"}
      \/ cur.phase = "commit" /\ cur.print = Sources.stamp)
       => /\ registry'[cur.root].index.content = Sources.stamp
          /\ registry'[cur.root].index.size = Sources.size]_<<cur, registry>>

(* A lifecycle that was admitted leaves the engine, whatever fails in it,   *)
(* so the engine never stays locked.                                        *)
EngineReleased == EngineRuns => (cur # Idle ~> cur = Idle)

(* query_version is answered even if the query in the engine never ends;    *)
(* and if it does end, so does reading the statistics of all open indexes,  *)
(* those that are being refreshed or have been closed meanwhile included.   *)
ObserversAnswered ==
  /\ \A c \in Observer : pc[c] = "version" ~> pc[c] = "idle"
  /\ EngineRuns => \A c \in Observer : pc[c] = "status" ~> pc[c] = "idle"
=============================================================================
