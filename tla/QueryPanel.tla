----------------------------- MODULE QueryPanel -----------------------------
(***************************************************************************)
(* The jEdit plugin's result panel on top of its project index.            *)
(* The event thread (EDT) owns the buffers, the tickets and the result     *)
(* tree; one FIFO worker owns the engine.  A request takes a ticket,       *)
(* copies the dirty buffers and queues a job; the job reparses what        *)
(* changed, publishes cache and snapshot together and posts its answer     *)
(* back to the EDT, where only a ticket that is still current may touch    *)
(* the tree.  The user edits, saves, asks, refreshes, clears and removes   *)
(* at any moment, also in the middle of a job.                             *)
(*                                                                         *)
(* A theory is one of the texts in Text; Keywords[t] is what its header    *)
(* adds to the root-wide keyword table.  A stamp is a file's (mtime,size). *)
(***************************************************************************)
EXTENDS Integers, Sequences, FiniteSets

CONSTANTS
    File,       \* the theory files of one project
    Text,       \* the contents a theory can have
    First,      \* bound: the contents each theory starts with
    Keywords,   \* [Text -> keyword names declared by the header]
    Scope,      \* what a result set is about: a name, a kind, a root
    Usages,     \* the scopes whose kind is Usages
    FileLimit,  \* the file count over which a refresh is refused
    MaxAsk,     \* bound: requests of one behaviour
    MaxWrite,   \* bound: edits and saves of one behaviour
    None

ASSUME PanelAssumption ==
    /\ Usages \subseteq Scope
    /\ First \in [File -> Text]
    /\ DOMAIN Keywords = Text
    /\ None \notin Text /\ None \notin [text : Text, stamp : Nat]

VARIABLES
    disk,       \* [File -> [text, stamp] or None]
    buffer,     \* [File -> the text of a dirty buffer or None]
    clock,      \* the newest stamp given out
    quick,      \* files once saved with an unchanged stamp
    writes,     \* edits and saves so far
    serial,     \* Result_Tree.serial
    pending,    \* Result_Tree.pending: [Scope -> serial or 0]
    tree,       \* the result sets below the root, first to last
    last,       \* last_request: a scope or None
    queue,      \* the worker's queue of jobs
    job,        \* the job the worker is running, or None
    cache,      \* Published.cache: [File -> [key, section] or None]
    snapshot,   \* Published.snapshot: [id, sections] or None
    posts,      \* answers handed to GUI_Thread.later
    barrier     \* history: [Scope -> the serial an answer must exceed]

userVars == <<disk, buffer, clock, quick, writes>>
panelVars == <<serial, pending, tree, last, barrier>>
indexVars == <<cache, snapshot>>
vars == <<userVars, panelVars, indexVars, queue, job, posts>>

NoCache == [f \in File |-> None]
OnDisk == {f \in File : disk[f] # None}

(***************************************************************************)
(* Section_for reads a stamp first and the text later.  A section is what  *)
(* the parser saw: the text and the keyword table in force.                *)
(***************************************************************************)
Table == UNION {Keywords[disk[f].text] : f \in OnDisk}

\* file_key, or the exact overlay text of a dirty buffer, with the table.
CacheKey(f, j) ==
    IF j.overlay[f] # None
    THEN [stamp |-> -1, overlay |-> j.overlay[f], table |-> j.table]
    ELSE [stamp |-> IF disk[f] = None THEN 0 ELSE disk[f].stamp,
          overlay |-> None, table |-> j.table]

Init ==
    /\ \E here \in SUBSET File :
           disk = [f \in File |-> IF f \in here THEN [text |-> First[f], stamp |-> 1] ELSE None]
    /\ buffer = NoCache
    /\ clock = 1
    /\ quick = {}
    /\ writes = 0
    /\ serial = 0
    /\ pending = [s \in Scope |-> 0]
    /\ tree = <<>>
    /\ last = None
    /\ queue = <<>>
    /\ job = None
    /\ cache = NoCache
    /\ snapshot = None
    /\ posts = <<>>
    /\ barrier = [s \in Scope |-> 0]

-----------------------------------------------------------------------------
(***************************************************************************)
(* The user's files and buffers.  Every queued or running job remembers    *)
(* in `seen' what each file has held since it was asked (history only).    *)
(***************************************************************************)
Saw(j, f, t) == [j EXCEPT !.seen[f] = @ \cup {t}]

Write(f, t, stamp) ==
    /\ disk' = [disk EXCEPT ![f] = [text |-> t, stamp |-> stamp]]
    /\ queue' = [i \in DOMAIN queue |-> Saw(queue[i], f, t)]
    /\ job' = IF job = None THEN None ELSE Saw(job, f, t)

Edit(f, t) ==
    /\ writes < MaxWrite
    /\ writes' = writes + 1
    /\ disk[f] # None
    /\ buffer' = [buffer EXCEPT ![f] = IF t = disk[f].text THEN None ELSE t]
    /\ UNCHANGED <<disk, clock, quick, panelVars, indexVars, queue, job, posts>>

Save(f) ==
    /\ buffer[f] # None
    /\ Write(f, buffer[f], clock + 1)
    /\ buffer' = [buffer EXCEPT ![f] = None]
    /\ clock' = clock + 1
    /\ UNCHANGED <<quick, writes, panelVars, indexVars, posts>>

\* Another program writes the file; `same' keeps its time and its size.
External(f, t, same) ==
    /\ writes < MaxWrite
    /\ writes' = writes + 1
    /\ disk[f] # None
    /\ Write(f, t, IF same THEN disk[f].stamp ELSE clock + 1)
    /\ clock' = IF same THEN clock ELSE clock + 1
    /\ quick' = IF same THEN quick \cup {f} ELSE quick
    /\ UNCHANGED <<buffer, panelVars, indexVars, posts>>

-----------------------------------------------------------------------------
(***************************************************************************)
(* Result_Tree and the panel's operations, all on the EDT.                 *)
(***************************************************************************)
Ticket(s, stack) == [scope |-> s, serial |-> serial + 1, stack |-> stack]

\* Mutant: an unstacked request leaves the older tickets valid.
BeginKeepingOthers(s, stack) ==
    /\ serial' = serial + 1
    /\ pending' = [pending EXCEPT ![s] = serial + 1]
    /\ barrier' = [r \in Scope |-> IF r = s \/ ~stack THEN serial ELSE barrier[r]]

\* A new request: what it makes obsolete is what `barrier' records.
Begin(s, stack) ==
    /\ serial' = serial + 1
    /\ pending' = [r \in Scope |-> IF r = s THEN serial + 1
                                   ELSE IF stack THEN pending[r] ELSE 0]
    /\ barrier' = [r \in Scope |-> IF r = s \/ ~stack THEN serial ELSE barrier[r]]

Job(ticket, refresh) ==
    [ticket |-> ticket, overlay |-> buffer, refresh |-> refresh,
     seen |-> [f \in File |-> {IF disk[f] = None THEN None ELSE disk[f].text}],
     phase |-> "queued", same |-> TRUE, cache |-> NoCache, base |-> None,
     table |-> {}, key |-> NoCache, built |-> NoCache]

Run(s, stack, refresh) ==
    /\ serial < MaxAsk
    /\ Begin(s, stack)
    /\ last' = s
    /\ queue' = Append(queue, Job(Ticket(s, stack), refresh))

Request(s, stack) ==
    /\ Run(s, stack, FALSE)
    /\ UNCHANGED <<userVars, tree, indexVars, job, posts>>

\* Dropping the cache replaces the published object under a running job.
Invalidate ==
    /\ cache' = NoCache
    /\ job' = IF job = None THEN None ELSE [job EXCEPT !.same = FALSE]

Refresh(stack) ==
    /\ last # None
    /\ Run(last, stack, TRUE)
    /\ Invalidate
    /\ UNCHANGED <<userVars, tree, snapshot, posts>>

\* Refresh before the first question: rebuild, and tell no ticket.
Reindex ==
    /\ last = None
    /\ serial < MaxAsk
    /\ serial' = serial + 1     \* bound: counted as a request
    /\ queue' = Append(queue, Job(None, TRUE))
    /\ Invalidate
    /\ UNCHANGED <<userVars, pending, tree, last, barrier, snapshot, posts>>

Clear ==
    /\ tree # <<>> \/ \E s \in Scope : pending[s] # 0
    /\ pending' = [s \in Scope |-> 0]
    /\ tree' = <<>>
    /\ barrier' = [s \in Scope |-> serial]
    /\ UNCHANGED <<userVars, serial, last, indexVars, queue, job, posts>>

Remove(i) ==
    /\ LET s == tree[i].scope IN
           /\ pending' = [pending EXCEPT ![s] = 0]
           /\ barrier' = [barrier EXCEPT ![s] = serial]
    /\ tree' = SubSeq(tree, 1, i - 1) \o SubSeq(tree, i + 1, Len(tree))
    /\ UNCHANGED <<userVars, serial, last, indexVars, queue, job, posts>>

Current(ticket) == pending[ticket.scope] = ticket.serial

\* A Usages answer replaces its own subtree in place; anything else is added.
Publish(ticket, found) ==
    LET s == ticket.scope
        node == [scope |-> s, serial |-> ticket.serial]
        mine == {i \in DOMAIN tree : s \in Usages /\ tree[i].scope = s}
    IN  /\ pending' = [pending EXCEPT ![s] = 0]
        /\ tree' = IF s \notin Usages /\ ~found THEN tree
                   ELSE IF mine # {} THEN [i \in DOMAIN tree |->
                       IF i = CHOOSE m \in mine : \A n \in mine : m <= n
                       THEN node ELSE tree[i]]
                   ELSE IF ticket.stack THEN Append(tree, node)
                   ELSE <<node>>

Handle ==
    /\ posts # <<>>
    /\ posts' = Tail(posts)
    /\ LET p == Head(posts) IN
           IF Current(p.ticket) THEN Publish(p.ticket, p.found)
           ELSE UNCHANGED <<pending, tree>>
    /\ UNCHANGED <<userVars, serial, last, barrier, indexVars, queue, job>>

-----------------------------------------------------------------------------
(***************************************************************************)
(* The worker: Query_Index.refreshed, then the query, then the post.       *)
(***************************************************************************)
\* Mutant: a failed refresh or query posts nothing.
AnswerOnlyHits(found) ==
    posts' = IF job.ticket = None \/ ~found THEN posts
             ELSE Append(posts, [ticket |-> job.ticket, found |-> found])

Answer(found) ==
    posts' = IF job.ticket = None THEN posts
             ELSE Append(posts, [ticket |-> job.ticket, found |-> found])

Start ==
    /\ job = None
    /\ queue # <<>>
    /\ queue' = Tail(queue)
    /\ job' = [Head(queue) EXCEPT !.phase = "planned", !.cache = cache,
                   !.base = snapshot]
    /\ UNCHANGED <<userVars, panelVars, indexVars, posts>>

\* Theory.plan: the discovered files and the root-wide table, from the disk.
Plan ==
    /\ job # None /\ job.phase = "planned"
    /\ OnDisk # {} /\ Cardinality(OnDisk) <= FileLimit
    /\ job' = [job EXCEPT !.phase = "parsing", !.table = Table]
    /\ UNCHANGED <<userVars, panelVars, indexVars, queue, posts>>

\* No theory, or too many: the refresh fails and says so; nothing is replaced.
Refuse ==
    /\ job # None /\ job.phase = "planned"
    /\ OnDisk = {} \/ Cardinality(OnDisk) > FileLimit
    /\ job' = None
    /\ Answer(FALSE)
    /\ UNCHANGED <<userVars, panelVars, indexVars, queue>>

Stat(f) ==
    /\ job # None /\ job.phase = "parsing"
    /\ disk[f] # None /\ job.key[f] = None
    /\ job' = [job EXCEPT !.key[f] = CacheKey(f, job)]
    /\ UNCHANGED <<userVars, panelVars, indexVars, queue, posts>>

Section(f) ==
    LET text == IF job.overlay[f] # None THEN job.overlay[f] ELSE disk[f].text IN
    IF job.cache[f] # None /\ job.cache[f].key = job.key[f] THEN job.cache[f]
    ELSE [key |-> job.key[f], section |-> [text |-> text, table |-> job.table]]

Parse(f) ==
    /\ job # None /\ job.phase = "parsing"
    /\ job.key[f] # None /\ job.built[f] = None
    /\ job' = [job EXCEPT !.built[f] = Section(f)]
    /\ UNCHANGED <<userVars, panelVars, indexVars, queue, posts>>

\* Mutant: the commit takes no notice of an invalidation.
KeptAlways == job.built

\* What the commit under cache_lock keeps of a finished refresh.
Kept == IF job.same THEN job.built ELSE NoCache

Commit ==
    /\ job # None /\ job.phase = "parsing"
    /\ \A f \in OnDisk : job.built[f] # None
    /\ snapshot = job.base      \* one worker: nobody else has published
    /\ cache' = Kept
    /\ snapshot' = [id |-> IF snapshot = None THEN 1 ELSE snapshot.id + 1,
                    sections |-> [f \in File |-> IF job.built[f] = None THEN None
                                                 ELSE job.built[f].section]]
    /\ job' = [job EXCEPT !.phase = "querying"]
    /\ UNCHANGED <<userVars, panelVars, queue, posts>>

\* The query itself; one that throws answers "query failed", found = FALSE.
Query(found) ==
    /\ job # None /\ job.phase = "querying"
    /\ job' = None
    /\ Answer(found)
    /\ UNCHANGED <<userVars, panelVars, indexVars, queue>>

Worker == Start \/ Plan \/ Refuse \/ Commit \/ (\E found \in BOOLEAN : Query(found))
              \/ (\E f \in File : Stat(f) \/ Parse(f))

User ==
    \/ \E f \in File, t \in Text : Edit(f, t)
    \/ \E f \in File : Save(f)
    \/ \E f \in File, t \in Text, same \in BOOLEAN : External(f, t, same)
    \/ \E s \in Scope, stack \in BOOLEAN : Request(s, stack)
    \/ \E stack \in BOOLEAN : Refresh(stack)
    \/ Reindex
    \/ Clear
    \/ \E i \in DOMAIN tree : Remove(i)

Next == User \/ Handle \/ Worker

Spec == Init /\ [][Next]_vars
FairSpec == Spec /\ WF_vars(Worker) /\ WF_vars(Handle)

-----------------------------------------------------------------------------
(***************************************************************************)
(* What is shown changes only to the answer of a request made after the    *)
(* last clear, the last removal of its result set, the last request of the *)
(* same scope and the last request that was not stacked: a late answer     *)
(* never covers a newer one or brings back what the user threw away        *)
(* (query_dockable.scala, "EDT-owned request arbitration").                *)
(***************************************************************************)
ShownAreWanted ==
    [][\A i \in DOMAIN tree' :
          (\A k \in DOMAIN tree : tree[k] # tree'[i])
              => tree'[i].serial > barrier[tree'[i].scope]]_vars

(***************************************************************************)
(* What a query reads is what the user had: the dirty text as it was when  *)
(* the question was asked, else a text the file has held since then, under *)
(* the table of this refresh.  A file rewritten under an unchanged stamp   *)
(* is exempt, unless the question was Refresh, which promises to start     *)
(* from the files (query_index.scala, `invalidate').                       *)
(***************************************************************************)
ReadAsAsked ==
    (job # None /\ job.phase = "querying") =>
        \A f \in File : snapshot.sections[f] # None =>
            /\ snapshot.sections[f].table = job.table
            /\ IF job.overlay[f] # None
               THEN snapshot.sections[f].text = job.overlay[f]
               ELSE \/ snapshot.sections[f].text \in job.seen[f]
                    \/ f \in quick /\ ~job.refresh

\* Every request that nothing supersedes is answered: its ticket is settled,
\* whether the refresh was refused, the query failed or hits were found.
Settled == \A s \in Scope : \A n \in 1..MaxAsk : pending[s] = n ~> pending[s] # n
=============================================================================
