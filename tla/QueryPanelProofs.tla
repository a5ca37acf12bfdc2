-------------------------- MODULE QueryPanelProofs --------------------------
(***************************************************************************)
(* Proofs about QueryPanel, for any files, texts, keyword tables, scopes   *)
(* and bounds.                                                             *)
(*                                                                         *)
(* The worker reads a file's stamp and its text at two moments, and may    *)
(* take a section from a cache of an earlier refresh, while the user       *)
(* saves and asks on.  The argument: a section whose stamp is still the    *)
(* file's holds the file's text, in the published cache as in the running  *)
(* job's copy of it; everything in the cache was read after any refresh    *)
(* that is still queued, since asking for one drops the cache and keeps    *)
(* the running job from filling it; a ticket that is current is newer than *)
(* whatever made others obsolete.                                          *)
(***************************************************************************)
EXTENDS QueryPanel, SequenceTheorems, TLAPS

Texts == Text \cup {None}
Tables == SUBSET UNION {Keywords[t] : t \in Text}
Key == [stamp : Int, overlay : Texts, table : Tables]
Sections == [text : Text, table : Tables]
Entry == [key : Key, section : Sections]
Cache == [File -> Entry \cup {None}]
Tickets == [scope : Scope, serial : Nat \ {0}, stack : BOOLEAN]
Nodes == [scope : Scope, serial : Nat]
Posts == [ticket : Tickets, found : BOOLEAN]
Snapshots == [id : Nat, sections : [File -> Sections \cup {None}]]
Jobs ==
  [ticket : Tickets \cup {None}, overlay : [File -> Texts], refresh : BOOLEAN,
   seen : [File -> SUBSET Texts], phase : {"queued", "planned", "parsing", "querying"},
   same : BOOLEAN, cache : Cache, base : Snapshots \cup {None}, table : Tables,
   key : [File -> Key \cup {None}], built : Cache]

UserType ==
  /\ disk \in [File -> [text : Text, stamp : Nat \ {0}] \cup {None}]
  /\ buffer \in [File -> Texts] /\ \A f \in File : disk[f] = None => buffer[f] = None
  /\ clock \in Nat /\ quick \subseteq File /\ writes \in Nat
  /\ \A f \in File : disk[f] # None => disk[f].stamp <= clock
PanelType ==
  /\ serial \in Nat /\ pending \in [Scope -> Nat] /\ barrier \in [Scope -> Nat]
  /\ tree \in Seq(Nodes) /\ last \in Scope \cup {None}
  /\ posts \in Seq(Posts)
IndexType == cache \in Cache /\ snapshot \in Snapshots \cup {None}
JobType == queue \in Seq(Jobs) /\ job \in Jobs \cup {None}
TypeOK == UserType /\ PanelType /\ IndexType /\ JobType

Queued == {queue[i] : i \in DOMAIN queue}

(* A ticket is current as long as nothing newer speaks against it.          *)
CurrentIsNewer == \A s \in Scope : pending[s] # 0 => pending[s] > barrier[s]

(* What a section in a cache says of the file it was read from.             *)
Fits(e, f) ==
  e # None =>
    /\ e.key.table = e.section.table
    /\ e.key.overlay # None => e.section.text = e.key.overlay /\ e.key.stamp = -1
    /\ e.key.stamp <= clock
    /\ disk[f] # None /\ e.key.stamp = disk[f].stamp /\ f \notin quick => e.section.text = disk[f].text

SinceAsked(e, f, j) == e # None /\ e.key.overlay = None => e.section.text \in j.seen[f]

CachesFit ==
  \A f \in File : /\ Fits(cache[f], f)
                  /\ job # None => Fits(job.cache[f], f) /\ Fits(job.built[f], f)

(* Whoever asked has seen the file as it is.                                *)
SeenByAll ==
  \A f \in File : disk[f] # None =>
    /\ \A j \in Queued : disk[f].text \in j.seen[f]
    /\ job # None => disk[f].text \in job.seen[f]

(* A refresh finds nothing that is older than itself.                       *)
RefreshIsFresh ==
  \A f \in File :
    /\ \A j \in Queued : j.refresh =>
         /\ SinceAsked(cache[f], f, j)
         /\ job # None /\ job.same => SinceAsked(job.cache[f], f, j) /\ SinceAsked(job.built[f], f, j)
    /\ job # None /\ job.refresh => SinceAsked(job.cache[f], f, job)

(* What the running job has read so far.                                    *)
Known(e, f) == e.section.text \in job.seen[f] \/ (f \in quick /\ ~job.refresh)
Reading ==
  /\ \A j \in Queued : \A f \in File : j.key[f] = None /\ j.built[f] = None
  /\ job # None => \A f \in File :
       /\ job.key[f] # None =>
            /\ job.key[f].table = job.table /\ job.key[f].overlay = job.overlay[f]
            /\ job.key[f].stamp <= clock /\ job.phase \in {"parsing", "querying"} /\ disk[f] # None
            /\ job.overlay[f] # None => job.key[f].stamp = -1
            /\ job.overlay[f] = None /\ job.cache[f] # None /\ job.cache[f].key = job.key[f]
                 => Known(job.cache[f], f)
       /\ job.built[f] # None =>
            /\ job.key[f] # None /\ job.built[f].key = job.key[f]
            /\ job.overlay[f] = None => Known(job.built[f], f)
Published ==
  job # None /\ job.phase = "querying" =>
    \A f \in File : snapshot.sections[f] = IF job.built[f] = None THEN None
                                           ELSE job.built[f].section

IInv == TypeOK /\ CurrentIsNewer /\ CachesFit /\ SeenByAll /\ RefreshIsFresh /\ Reading /\ Published

-----------------------------------------------------------------------------
LEMMA SawIs ==
  ASSUME NEW j \in Jobs, NEW f \in File, NEW t \in Texts
  PROVE  /\ Saw(j, f, t) \in Jobs
         /\ Saw(j, f, t).ticket = j.ticket /\ Saw(j, f, t).overlay = j.overlay
         /\ Saw(j, f, t).refresh = j.refresh /\ Saw(j, f, t).phase = j.phase
         /\ Saw(j, f, t).same = j.same /\ Saw(j, f, t).cache = j.cache
         /\ Saw(j, f, t).table = j.table /\ Saw(j, f, t).key = j.key
         /\ Saw(j, f, t).built = j.built
         /\ t \in Saw(j, f, t).seen[f]
         /\ \A g \in File : j.seen[g] \subseteq Saw(j, f, t).seen[g]
<1>1. ASSUME NEW seen \in [File -> SUBSET Texts] PROVE [j EXCEPT !.seen = seen] \in Jobs
  BY DEF Jobs
<1>2. j.seen \in [File -> SUBSET Texts]
  BY DEF Jobs
<1>3. [j.seen EXCEPT ![f] = @ \cup {t}] \in [File -> SUBSET Texts]
  BY <1>2
<1>4. Saw(j, f, t) = [j EXCEPT !.seen = [j.seen EXCEPT ![f] = @ \cup {t}]]
  BY DEF Saw, Jobs
<1>5. Saw(j, f, t) \in Jobs
  BY <1>1, <1>3, <1>4
<1>6. Saw(j, f, t).seen = [j.seen EXCEPT ![f] = @ \cup {t}]
  BY <1>4 DEF Jobs
<1>7. t \in Saw(j, f, t).seen[f] /\ \A g \in File : j.seen[g] \subseteq Saw(j, f, t).seen[g]
  BY <1>2, <1>6
<1> QED BY <1>4, <1>5, <1>7 DEF Jobs

LEMMA JobIs ==
  ASSUME TypeOK, NEW ticket \in Tickets \cup {None}, NEW refresh \in BOOLEAN
  PROVE  /\ Job(ticket, refresh) \in Jobs
         /\ Job(ticket, refresh).refresh = refresh
         /\ \A f \in File : /\ Job(ticket, refresh).key[f] = None
                            /\ Job(ticket, refresh).built[f] = None
                            /\ disk[f] # None => disk[f].text \in Job(ticket, refresh).seen[f]
<1>1. /\ [f \in File |-> {IF disk[f] = None THEN None ELSE disk[f].text}] \in [File -> SUBSET Texts]
      /\ NoCache \in Cache /\ NoCache \in [File -> Key \cup {None}] /\ {} \in Tables
      /\ buffer \in [File -> Texts]
  BY DEF TypeOK, UserType, Texts, NoCache, Cache, Tables
<1> QED BY <1>1 DEF Job, Jobs, NoCache

LEMMA QueueIs ==
  ASSUME queue \in Seq(Jobs)
  PROVE  /\ Queued \subseteq Jobs
         /\ \A j : queue' = Append(queue, j) => Queued' = Queued \cup {j}
         /\ \A j \in Jobs : queue' = Append(queue, j) => queue' \in Seq(Jobs)
         /\ queue # <<>> => /\ Head(queue) \in Queued
                            /\ queue' = Tail(queue) => queue' \in Seq(Jobs) /\ Queued' \subseteq Queued
<1>1. Queued \subseteq Jobs
  BY DEF Queued
<1>2. ASSUME NEW j, queue' = Append(queue, j) PROVE Queued' = Queued \cup {j}
  BY <1>2 DEF Queued
<1>3. ASSUME NEW j \in Jobs, queue' = Append(queue, j) PROVE queue' \in Seq(Jobs)
  BY <1>3
<1>4. ASSUME queue # <<>>
      PROVE  /\ Head(queue) \in Queued
             /\ queue' = Tail(queue) => queue' \in Seq(Jobs) /\ Queued' \subseteq Queued
  BY <1>4 DEF Queued
<1> QED BY <1>1, <1>2, <1>3, <1>4

-----------------------------------------------------------------------------
(* A step that leaves the files and the worker alone.                       *)
LEMMA TypeKept ==
  ASSUME IInv, UserType', PanelType', UNCHANGED <<indexVars, queue, job>>
  PROVE  TypeOK'
BY DEF IInv, TypeOK, IndexType, JobType, indexVars

(* A step that leaves alone what the worker has read and may read.          *)
LEMMA WorkKept ==
  ASSUME IInv, UNCHANGED <<disk, clock, quick, cache, snapshot, queue, job>>
  PROVE  CachesFit' /\ SeenByAll' /\ RefreshIsFresh' /\ Reading' /\ Published'
<1>1. Queued' = Queued
  BY DEF Queued
<1>2. CachesFit'
  BY DEF IInv, CachesFit, Fits
<1>3. SeenByAll' /\ Published'
  BY <1>1 DEF IInv, SeenByAll, Published
<1>4. RefreshIsFresh'
  BY <1>1 DEF IInv, RefreshIsFresh, SinceAsked
<1>5. Reading'
  <2> DEFINE R(j, c, d, q) ==
               \A f \in File :
                 /\ j.key[f] # None =>
                      /\ j.key[f].table = j.table /\ j.key[f].overlay = j.overlay[f]
                      /\ j.key[f].stamp <= c /\ j.phase \in {"parsing", "querying"} /\ d[f] # None
                      /\ j.overlay[f] # None => j.key[f].stamp = -1
                      /\ j.overlay[f] = None /\ j.cache[f] # None /\ j.cache[f].key = j.key[f]
                           => j.cache[f].section.text \in j.seen[f] \/ (f \in q /\ ~j.refresh)
                 /\ j.built[f] # None =>
                      /\ j.key[f] # None /\ j.built[f].key = j.key[f]
                      /\ j.overlay[f] = None => j.built[f].section.text \in j.seen[f] \/ (f \in q /\ ~j.refresh)
  <2>1. Reading <=> /\ \A j \in Queued : \A f \in File : j.key[f] = None /\ j.built[f] = None
                    /\ job # None => R(job, clock, disk, quick)
    BY DEF Reading, Known
  <2>2. Reading' <=> /\ \A j \in Queued' : \A f \in File : j.key[f] = None /\ j.built[f] = None
                     /\ job' # None => R(job', clock', disk', quick')
    BY DEF Reading, Known
  <2> HIDE DEF R
  <2> QED BY <1>1, <2>1, <2>2 DEF IInv
<1> QED BY <1>2, <1>3, <1>4, <1>5

LEMMA EditKeeps ==
  ASSUME IInv, \E f \in File, t \in Text : Edit(f, t)
  PROVE  IInv'
<1> PICK f \in File, t \in Text : Edit(f, t)
  OBVIOUS
<1>1. UserType'
  <2>1. (IF t = disk[f].text THEN None ELSE t) \in Texts
    BY DEF Texts
  <2> QED BY <2>1 DEF Edit, IInv, TypeOK, UserType
<1>2. PanelType' /\ IndexType' /\ JobType'
  BY DEF Edit, IInv, TypeOK, PanelType, IndexType, JobType, panelVars, indexVars
<1>3. CurrentIsNewer'
  BY DEF Edit, panelVars, IInv, CurrentIsNewer
<1>4. UNCHANGED <<disk, clock, quick, cache, snapshot, queue, job>>
  BY DEF Edit, indexVars
<1> QED BY <1>1, <1>2, <1>3, <1>4, WorkKept DEF IInv, TypeOK

(* A file is written, under a new stamp or under the old one.               *)
LEMMA WritingKeeps ==
  ASSUME IInv, NEW f \in File, NEW t \in Text, NEW stamp, Write(f, t, stamp), disk[f] # None,
         UNCHANGED <<panelVars, indexVars, posts>>,
         buffer' \in [File -> Texts], \A g \in File : disk'[g] = None => buffer'[g] = None,
         writes' \in Nat,
         \/ stamp = clock + 1 /\ clock' = clock + 1 /\ quick' = quick
         \/ stamp = disk[f].stamp /\ clock' = clock /\ quick' = quick \cup {f}
  PROVE  IInv'
<1>0. /\ t \in Texts /\ clock \in Nat /\ queue \in Seq(Jobs) /\ job \in Jobs \cup {None}
      /\ disk \in [File -> [text : Text, stamp : Nat \ {0}] \cup {None}]
      /\ \A g \in File : disk[g] # None => disk[g].stamp <= clock
      /\ quick \subseteq File
  BY DEF Texts, IInv, TypeOK, UserType, JobType
<1>1. /\ disk'[f] = [text |-> t, stamp |-> stamp] /\ stamp \in Nat \ {0}
      /\ \A g \in File \ {f} : disk'[g] = disk[g]
      /\ disk' \in [File -> [text : Text, stamp : Nat \ {0}] \cup {None}]
  <2>1. stamp \in Nat \ {0}
    BY <1>0
  <2> QED BY <1>0, <2>1 DEF Write
<1>2. Queued \subseteq Jobs /\ Queued' = {Saw(j, f, t) : j \in Queued} /\ queue' \in Seq(Jobs)
  <2>1. Queued \subseteq Jobs
    BY <1>0, QueueIs
  <2>2. \A i \in DOMAIN queue : Saw(queue[i], f, t) \in Jobs
    BY <1>0, <2>1, SawIs DEF Queued
  <2>3. queue' = [i \in 1..Len(queue) |-> Saw(queue[i], f, t)] /\ DOMAIN queue = 1..Len(queue)
    BY <1>0 DEF Write
  <2>4. queue' \in Seq(Jobs)
    BY <1>0, <2>2, <2>3
  <2>5. Queued' = {Saw(j, f, t) : j \in Queued}
    BY <2>3 DEF Queued
  <2> QED BY <2>1, <2>4, <2>5
<1>3. job' = IF job = None THEN None ELSE Saw(job, f, t)
  BY DEF Write
<1>4. TypeOK'
  <2>1. UserType'
    BY <1>0, <1>1 DEF UserType
  <2>2. PanelType' /\ IndexType'
    BY DEF IInv, TypeOK, PanelType, IndexType, panelVars, indexVars
  <2>3. job' \in Jobs \cup {None}
    BY <1>0, <1>3, SawIs
  <2> QED BY <1>2, <2>1, <2>2, <2>3 DEF TypeOK, JobType
<1>5. ASSUME NEW e \in Entry \cup {None}, NEW g \in File, Fits(e, g) PROVE Fits(e, g)'
  <2>1. e # None => e.key.stamp \in Int
    BY DEF Entry, Key
  <2> QED BY <1>0, <1>1, <1>5, <2>1 DEF Fits
<1>6. ASSUME NEW g \in File
      PROVE  /\ cache[g] \in Entry \cup {None}
             /\ job # None => job.cache[g] \in Entry \cup {None} /\ job.built[g] \in Entry \cup {None}
  BY DEF IInv, TypeOK, IndexType, JobType, Jobs, Cache
<1>7. job # None => /\ job'.cache = job.cache /\ job'.built = job.built /\ job'.key = job.key
                    /\ job'.refresh = job.refresh /\ job'.same = job.same /\ job'.phase = job.phase
                    /\ job'.table = job.table /\ job'.overlay = job.overlay
                    /\ t \in job'.seen[f] /\ \A g \in File : job.seen[g] \subseteq job'.seen[g]
  BY <1>0, <1>3, SawIs
<1>8. \A j \in Queued : /\ t \in Saw(j, f, t).seen[f] /\ Saw(j, f, t).refresh = j.refresh
                        /\ Saw(j, f, t).key = j.key /\ Saw(j, f, t).built = j.built
                        /\ \A g \in File : j.seen[g] \subseteq Saw(j, f, t).seen[g]
  BY <1>0, <1>2, SawIs
<1>9. job' # None => job # None
  BY <1>3
<1>10. CachesFit'
  BY <1>5, <1>6, <1>7, <1>9 DEF IInv, CachesFit, indexVars
<1>11. SeenByAll'
  BY <1>1, <1>2, <1>7, <1>8, <1>9 DEF IInv, SeenByAll
<1>12. RefreshIsFresh'
  <2> SUFFICES ASSUME NEW g \in File PROVE
        /\ \A j \in Queued' : j.refresh =>
             /\ SinceAsked(cache[g], g, j)
             /\ job' # None /\ job'.same => SinceAsked(job'.cache[g], g, j) /\ SinceAsked(job'.built[g], g, j)
        /\ job' # None /\ job'.refresh => SinceAsked(job'.cache[g], g, job')
    BY DEF RefreshIsFresh, indexVars, SinceAsked
  <2>1. ASSUME NEW k \in Queued, k.refresh
        PROVE  /\ SinceAsked(cache[g], g, Saw(k, f, t))
               /\ job' # None /\ job'.same => /\ SinceAsked(job'.cache[g], g, Saw(k, f, t))
                                              /\ SinceAsked(job'.built[g], g, Saw(k, f, t))
    BY <2>1, <1>7, <1>8, <1>9 DEF IInv, RefreshIsFresh, SinceAsked
  <2>2. job' # None /\ job'.refresh => SinceAsked(job'.cache[g], g, job')
    BY <1>7, <1>9 DEF IInv, RefreshIsFresh, SinceAsked
  <2> QED BY <1>2, <1>8, <2>1, <2>2
<1>13. Reading'
  <2>1. \A j \in Queued' : \A g \in File : j.key[g] = None /\ j.built[g] = None
    BY <1>2, <1>8 DEF IInv, Reading
  <2>2. ASSUME job' # None, NEW g \in File, NEW e, Known(e, g) PROVE Known(e, g)'
    BY <2>2, <1>7, <1>9 DEF Known
  <2>3. ASSUME job' # None, NEW g \in File, job'.key[g] # None
        PROVE  /\ job'.key[g].table = job'.table /\ job'.key[g].overlay = job'.overlay[g]
               /\ job'.key[g].stamp <= clock' /\ job'.phase \in {"parsing", "querying"}
               /\ disk'[g] # None
               /\ job'.overlay[g] # None => job'.key[g].stamp = -1
               /\ job'.overlay[g] = None /\ job'.cache[g] # None /\ job'.cache[g].key = job'.key[g]
                    => Known(job.cache[g], g)
    <3>1. job.key[g].stamp \in Int
      BY <1>0, <1>7, <1>9, <2>3 DEF Jobs, Key
    <3>2. disk'[g] # None
      BY <1>0, <1>1, <1>7, <1>9, <2>3, PanelAssumption DEF IInv, Reading
    <3>3. job.key[g].stamp <= clock' /\ job.key[g].stamp \in Int
      BY <1>0, <1>7, <1>9, <2>3, <3>1 DEF IInv, Reading
    <3> QED BY <1>7, <1>9, <2>3, <3>2, <3>3 DEF IInv, Reading
  <2>4. ASSUME job' # None, NEW g \in File, job'.built[g] # None
        PROVE  /\ job'.key[g] # None /\ job'.built[g].key = job'.key[g]
               /\ job'.overlay[g] = None => Known(job.built[g], g)
    BY <1>7, <1>9, <2>4 DEF IInv, Reading
  <2> QED BY <1>7, <1>9, <2>1, <2>2, <2>3, <2>4 DEF Reading
<1>14. CurrentIsNewer' /\ Published'
  BY <1>7, <1>9 DEF IInv, CurrentIsNewer, Published, panelVars, indexVars
<1> QED BY <1>4, <1>10, <1>11, <1>12, <1>13, <1>14 DEF IInv

(* Another job in the queue, and perhaps an invalidated cache.              *)
LEMMA QueueingKeeps ==
  ASSUME IInv, UNCHANGED <<userVars, posts, snapshot>>, PanelType', CurrentIsNewer',
         NEW ticket \in Tickets \cup {None}, NEW refresh \in BOOLEAN,
         queue' = Append(queue, Job(ticket, refresh)),
         \/ ~refresh /\ UNCHANGED <<cache, job>>
         \/ Invalidate
  PROVE  IInv'
<1> DEFINE new == Job(ticket, refresh)
<1>0. TypeOK /\ queue \in Seq(Jobs) /\ job \in Jobs \cup {None}
  BY DEF IInv, TypeOK, JobType
<1>1. /\ new \in Jobs /\ new.refresh = refresh
      /\ \A f \in File : /\ new.key[f] = None /\ new.built[f] = None
                         /\ disk[f] # None => disk[f].text \in new.seen[f]
  BY <1>0, JobIs
<1> HIDE DEF new
<1>2. Queued' = Queued \cup {new} /\ queue' \in Seq(Jobs)
  BY <1>0, <1>1, QueueIs DEF new
<1>3. cache' = cache \/ cache' = NoCache
  BY DEF Invalidate
<1>4. /\ job' \in Jobs \cup {None} /\ (job' # None => job # None)
      /\ job # None => /\ job'.cache = job.cache /\ job'.built = job.built /\ job'.key = job.key
                       /\ job'.refresh = job.refresh /\ job'.phase = job.phase
                       /\ job'.table = job.table /\ job'.overlay = job.overlay
                       /\ job'.seen = job.seen
                       /\ job'.same => job.same /\ ~refresh /\ cache' = cache
  <2>1. CASE ~refresh /\ UNCHANGED <<cache, job>>
    BY <1>0, <2>1
  <2>2. CASE Invalidate
    BY <1>0, <2>2 DEF Invalidate, Jobs
  <2> QED BY <2>1, <2>2
<1>5. TypeOK'
  <2>1. cache' \in Cache
    BY <1>0, <1>3 DEF TypeOK, IndexType, NoCache, Cache
  <2> QED BY <1>0, <1>2, <1>4, <2>1 DEF TypeOK, UserType, userVars, IndexType, JobType
<1>6. CachesFit'
  BY <1>3, <1>4 DEF IInv, CachesFit, Fits, NoCache, userVars
<1>7. SeenByAll'
  BY <1>1, <1>2, <1>4 DEF IInv, SeenByAll, userVars
<1>8. RefreshIsFresh'
  <2>1. ASSUME NEW f \in File, NEW j \in Queued, j.refresh
        PROVE  /\ SinceAsked(cache'[f], f, j)
               /\ job' # None /\ job'.same => /\ SinceAsked(job'.cache[f], f, j)
                                              /\ SinceAsked(job'.built[f], f, j)
    BY <1>3, <1>4, <2>1 DEF IInv, RefreshIsFresh, SinceAsked, NoCache
  <2>2. ASSUME NEW f \in File, refresh
        PROVE  SinceAsked(cache'[f], f, new) /\ (job' = None \/ ~job'.same)
    BY <1>4, <2>2 DEF Invalidate, SinceAsked, NoCache
  <2>3. \A f \in File : job' # None /\ job'.refresh => SinceAsked(job'.cache[f], f, job')
    BY <1>4 DEF IInv, RefreshIsFresh, SinceAsked
  <2> QED BY <1>1, <1>2, <2>1, <2>2, <2>3 DEF RefreshIsFresh, SinceAsked
<1>9. Reading'
  BY <1>1, <1>2, <1>4 DEF IInv, Reading, Known, userVars
<1>10. Published'
  BY <1>4 DEF IInv, Published
<1> QED BY <1>5, <1>6, <1>7, <1>8, <1>9, <1>10 DEF IInv

LEMMA RequestKeeps ==
  ASSUME IInv, NEW s \in Scope, NEW stack \in BOOLEAN, NEW refresh \in BOOLEAN,
         Run(s, stack, refresh), UNCHANGED <<userVars, tree, snapshot, posts>>,
         \/ ~refresh /\ UNCHANGED <<cache, job>>
         \/ Invalidate
  PROVE  IInv'
<1>0. serial \in Nat /\ pending \in [Scope -> Nat] /\ barrier \in [Scope -> Nat] /\ CurrentIsNewer
  BY DEF IInv, TypeOK, PanelType
<1>1. Ticket(s, stack) \in Tickets
  BY <1>0 DEF Ticket, Tickets
<1>2. PanelType'
  BY <1>0 DEF Run, Begin, IInv, TypeOK, PanelType
<1>3. CurrentIsNewer'
  BY <1>0 DEF Run, Begin, CurrentIsNewer
<1> QED BY <1>1, <1>2, <1>3, QueueingKeeps DEF Run

LEMMA ReindexKeeps ==
  ASSUME IInv, Reindex
  PROVE  IInv'
<1>1. PanelType' /\ CurrentIsNewer'
  BY DEF Reindex, IInv, TypeOK, PanelType, CurrentIsNewer
<1> QED BY <1>1, QueueingKeeps DEF Reindex

(* The result tree after a removal, and after an answer.                    *)
Removed(q, i) == SubSeq(q, 1, i - 1) \o SubSeq(q, i + 1, Len(q))

LEMMA RemovalIs ==
  ASSUME NEW S, NEW q \in Seq(S), NEW i \in DOMAIN q
  PROVE  /\ Removed(q, i) \in Seq(S)
         /\ \A k \in DOMAIN Removed(q, i) : \E m \in DOMAIN q : Removed(q, i)[k] = q[m]
<1> DEFINE a == SubSeq(q, 1, i - 1)
           b == SubSeq(q, i + 1, Len(q))
<1>1. i \in 1..Len(q) /\ Len(q) \in Nat /\ DOMAIN q = 1..Len(q) /\ \A k \in 1..Len(q) : q[k] \in S
  BY LenProperties, ElementOfSeq
<1>2. a \in Seq(S) /\ Len(a) = i - 1 /\ \A k \in 1..i - 1 : a[k] = q[k]
  <2>1. /\ a \in Seq(S) /\ Len(a) = IF 1 <= i - 1 THEN i - 1 - 1 + 1 ELSE 0
        /\ \A k \in 1..(i - 1 - 1 + 1) : a[k] = q[1 + k - 1]
    BY <1>1, SubSeqProperties
  <2> HIDE DEF a
  <2> QED BY <1>1, <2>1
<1>3. b \in Seq(S) /\ Len(b) = Len(q) - i /\ \A k \in 1..Len(q) - i : b[k] = q[i + k]
  <2>1. /\ b \in Seq(S) /\ Len(b) = IF i + 1 <= Len(q) THEN Len(q) - (i + 1) + 1 ELSE 0
        /\ \A k \in 1..(Len(q) - (i + 1) + 1) : b[k] = q[(i + 1) + k - 1]
    BY <1>1, SubSeqProperties
  <2> HIDE DEF b
  <2>2. i \in Int /\ Len(q) \in Int /\ i <= Len(q) /\ Len(q) - (i + 1) + 1 = Len(q) - i
    BY <1>1
  <2>3. Len(b) = Len(q) - i
    BY <2>1, <2>2
  <2>4. ASSUME NEW k \in 1..Len(q) - i PROVE b[k] = q[i + k]
    <3>1. (i + 1) + k - 1 = i + k
      BY <2>2
    <3> QED BY <2>1, <2>2, <3>1
  <2> QED BY <2>1, <2>3, <2>4
<1> HIDE DEF a, b
<1>4. /\ a \o b \in Seq(S) /\ Len(a \o b) = Len(a) + Len(b)
      /\ \A k \in 1..Len(a) + Len(b) : (a \o b)[k] = IF k <= Len(a) THEN a[k] ELSE b[k - Len(a)]
  BY <1>2, <1>3, ConcatProperties
<1> DEFINE r == Removed(q, i)
<1>5. r = a \o b
  BY DEF a, b, Removed
<1> HIDE DEF r
<1>6. DOMAIN r = 1..Len(q) - 1
  <2>1. DOMAIN r = 1..Len(a \o b)
    BY <1>4, <1>5, LenProperties
  <2>2. Len(a \o b) = Len(q) - 1
    BY <1>1, <1>2, <1>3, <1>4
  <2> QED BY <2>1, <2>2
<1>7. ASSUME NEW k \in 1..Len(q) - 1 PROVE \E m \in DOMAIN q : r[k] = q[m]
  <2>0. i \in Int /\ k \in Int /\ Len(q) \in Int /\ k \in 1..Len(a) + Len(b) /\ Len(a) = i - 1
    BY <1>1, <1>2, <1>3
  <2>1. r[k] = IF k <= Len(a) THEN a[k] ELSE b[k - Len(a)]
    BY <1>4, <1>5, <2>0
  <2>2. CASE k <= i - 1
    <3>1. k \in 1..i - 1 /\ k \in 1..Len(q)
      BY <1>1, <2>0, <2>2
    <3>2. r[k] = q[k]
      BY <1>2, <2>0, <2>1, <2>2, <3>1
    <3> QED BY <1>1, <3>1, <3>2
  <2>3. CASE ~(k <= i - 1)
    <3>0. k >= i /\ k + 1 <= Len(q) /\ k >= 1
      BY <2>0, <2>3
    <3>1. k - (i - 1) \in 1..Len(q) - i /\ k + 1 \in 1..Len(q) /\ i + (k - (i - 1)) = k + 1
      <4>1. k - (i - 1) >= 1 /\ k - (i - 1) <= Len(q) - i /\ k - (i - 1) \in Int
        BY SMTT(20), <2>0, <3>0
      <4>2. k + 1 \in 1..Len(q)
        BY <2>0, <3>0
      <4>3. i + (k - (i - 1)) = k + 1
        BY <2>0
      <4> QED BY <2>0, <4>1, <4>2, <4>3
    <3>2. r[k] = b[k - (i - 1)]
      BY <2>0, <2>1, <2>3
    <3>3. b[k - (i - 1)] = q[i + (k - (i - 1))]
      BY <1>3, <3>1
    <3> QED BY <1>1, <3>1, <3>2, <3>3
  <2> QED BY <2>2, <2>3
<1> QED BY <1>4, <1>5, <1>6, <1>7 DEF r

LEMMA PublishIs ==
  ASSUME tree \in Seq(Nodes), NEW ticket \in Tickets, NEW found, Publish(ticket, found)
  PROVE  /\ tree' \in Seq(Nodes)
         /\ \A k \in DOMAIN tree' : \/ tree'[k] = [scope |-> ticket.scope, serial |-> ticket.serial]
                                    \/ \E m \in DOMAIN tree : tree'[k] = tree[m]
<1> DEFINE node == [scope |-> ticket.scope, serial |-> ticket.serial]
<1>1. node \in Nodes
  BY DEF Tickets, Nodes
<1>2. \/ tree' = tree \/ tree' = Append(tree, node) \/ tree' = <<node>>
      \/ \E m : tree' = [i \in DOMAIN tree |-> IF i = m THEN node ELSE tree[i]]
  BY DEF Publish
<1>3. Len(tree) \in Nat /\ DOMAIN tree = 1..Len(tree) /\ \A i \in 1..Len(tree) : tree[i] \in Nodes
  BY LenProperties, ElementOfSeq
<1> HIDE DEF node
<1>4. CASE tree' = tree \/ tree' = Append(tree, node) \/ tree' = <<node>>
  <2>1. CASE tree' = tree
    BY <1>3, <2>1
  <2>2. CASE tree' = Append(tree, node)
    <3>1. /\ tree' \in Seq(Nodes) /\ Len(tree') = Len(tree) + 1
          /\ \A k \in 1..Len(tree) + 1 : tree'[k] = IF k <= Len(tree) THEN tree[k] ELSE node
      BY <1>1, <1>3, <2>2, AppendProperties
    <3>2. DOMAIN tree' = 1..Len(tree) + 1
      BY <3>1, LenProperties
    <3>3. \A k \in 1..Len(tree) + 1 : k <= Len(tree) => k \in DOMAIN tree
      BY <1>3
    <3> QED BY <3>1, <3>2, <3>3 DEF node
  <2>3. CASE tree' = <<node>>
    <3>1. tree' \in Seq(Nodes) /\ DOMAIN tree' = {1} /\ tree'[1] = node
      BY <1>1, <2>3
    <3> QED BY <3>1 DEF node
  <2> QED BY <1>4, <2>1, <2>2, <2>3
<1>5. ASSUME NEW m, tree' = [i \in DOMAIN tree |-> IF i = m THEN node ELSE tree[i]]
      PROVE  /\ tree' \in Seq(Nodes)
             /\ \A k \in DOMAIN tree' : tree'[k] = node \/ \E n \in DOMAIN tree : tree'[k] = tree[n]
  <2>1. tree' \in [1..Len(tree) -> Nodes]
    BY <1>1, <1>3, <1>5
  <2>2. tree' \in Seq(Nodes)
    BY <1>3, <2>1
  <2> QED BY <1>3, <1>5, <2>2
<1> USE DEF node
<1> QED BY <1>2, <1>4, <1>5

(* What removes from the tree settles the tickets of what it removes.       *)
LEMMA TreeKeeps ==
  ASSUME IInv, Clear \/ \E i \in DOMAIN tree : Remove(i)
  PROVE  IInv'
<1>0. /\ serial \in Nat /\ pending \in [Scope -> Nat] /\ barrier \in [Scope -> Nat]
      /\ tree \in Seq(Nodes) /\ posts \in Seq(Posts) /\ last \in Scope \cup {None} /\ CurrentIsNewer
  BY DEF IInv, TypeOK, PanelType
<1>1. PanelType' /\ CurrentIsNewer'
  <2>1. CASE Clear
    <3>1. tree' \in Seq(Nodes)
      BY <2>1, EmptySeq DEF Clear
    <3> QED BY <1>0, <2>1, <3>1 DEF Clear, PanelType, CurrentIsNewer
  <2>2. ASSUME NEW i \in DOMAIN tree, Remove(i) PROVE PanelType' /\ CurrentIsNewer'
    <3>1. tree[i] \in Nodes
      BY <1>0, LenProperties, ElementOfSeq
    <3>2. tree[i].scope \in Scope
      BY <3>1 DEF Nodes
    <3>3. tree' \in Seq(Nodes)
      BY <1>0, <2>2, RemovalIs DEF Remove, Removed
    <3> QED BY <1>0, <2>2, <3>2, <3>3 DEF Remove, PanelType, CurrentIsNewer
  <2> QED BY <2>1, <2>2
<1>2. UNCHANGED <<userVars, indexVars, queue, job, posts>>
  BY DEF Clear, Remove
<1>3. TypeOK'
  BY <1>1, <1>2 DEF userVars, indexVars, IInv, TypeOK, UserType, IndexType, JobType
<1>4. UNCHANGED <<disk, clock, quick, cache, snapshot, queue, job>>
  BY <1>2 DEF userVars, indexVars
<1> QED BY <1>1, <1>3, <1>4, WorkKept DEF IInv

LEMMA UserKeeps ==
  ASSUME IInv, User
  PROVE  IInv'
<1>0. TypeOK /\ Queued \subseteq Jobs /\ clock \in Nat /\ writes \in Nat
  BY QueueIs DEF IInv, TypeOK, JobType, UserType
<1>1. ASSUME NEW f \in File, NEW t \in Text, Edit(f, t) PROVE IInv'
  BY <1>1, EditKeeps
<1>2. ASSUME NEW f \in File, Save(f) PROVE IInv'
  <2>1. disk[f] # None /\ buffer[f] \in Text /\ buffer \in [File -> Texts]
    BY <1>2 DEF Save, IInv, TypeOK, UserType, Texts
  <2>2. buffer' \in [File -> Texts] /\ \A g \in File : buffer'[g] # None => buffer[g] # None
    BY <1>2, <2>1 DEF Save, Texts
  <2>3. \A g \in File : disk'[g] = None => buffer'[g] = None
    BY <1>2, <2>1, <2>2 DEF Save, Write, IInv, TypeOK, UserType
  <2>4. UNCHANGED <<panelVars, indexVars, posts>> /\ writes' \in Nat
    BY <1>0, <1>2 DEF Save
  <2> QED BY <1>2, <2>1, <2>2, <2>3, <2>4, WritingKeeps DEF Save
<1>3. ASSUME NEW f \in File, NEW t \in Text, NEW same \in BOOLEAN, External(f, t, same) PROVE IInv'
  <2>1. buffer' \in [File -> Texts] /\ \A g \in File : disk'[g] = None => buffer'[g] = None
    <3>1. disk \in [File -> [text : Text, stamp : Nat \ {0}] \cup {None}] /\ buffer \in [File -> Texts]
      BY <1>0 DEF TypeOK, UserType
    <3>2. \A g \in File : disk'[g] = None => disk[g] = None \/ g = f
      BY <1>3, <3>1 DEF External, Write
    <3>3. \A stamp \in Nat : [text |-> t, stamp |-> stamp] # None
      BY PanelAssumption
    <3>4. clock + 1 \in Nat /\ disk[f].stamp \in Nat
      BY <1>0, <1>3, <3>1 DEF External
    <3>5. disk'[f] # None
      BY <1>3, <3>1, <3>3, <3>4 DEF External, Write
    <3> QED BY <1>0, <1>3, <3>1, <3>2, <3>5 DEF External, TypeOK, UserType
  <2>2. UNCHANGED <<panelVars, indexVars, posts>> /\ writes' \in Nat /\ disk[f] # None
    BY <1>0, <1>3 DEF External
  <2> QED BY <1>3, <2>1, <2>2, WritingKeeps DEF External
<1>4. ASSUME NEW s \in Scope, NEW stack \in BOOLEAN, Request(s, stack) PROVE IInv'
  BY <1>4, RequestKeeps DEF Request, indexVars
<1>5. ASSUME NEW stack \in BOOLEAN, Refresh(stack) PROVE IInv'
  <2>1. last \in Scope \cup {None} /\ last # None
    BY <1>0, <1>5 DEF Refresh, TypeOK, PanelType
  <2> QED BY <1>5, <2>1, RequestKeeps DEF Refresh
<1>6. CASE Reindex
  BY <1>6, ReindexKeeps
<1>7. CASE Clear \/ \E i \in DOMAIN tree : Remove(i)
  BY <1>7, TreeKeeps
<1> QED BY <1>1, <1>2, <1>3, <1>4, <1>5, <1>6, <1>7 DEF User

(* The answer on the event thread: its ticket is settled.                   *)
LEMMA HandleKeeps ==
  ASSUME IInv, Handle
  PROVE  IInv'
<1>0. /\ serial \in Nat /\ pending \in [Scope -> Nat] /\ barrier \in [Scope -> Nat]
      /\ tree \in Seq(Nodes) /\ posts \in Seq(Posts) /\ posts # <<>>
      /\ last \in Scope \cup {None} /\ CurrentIsNewer
  BY DEF IInv, TypeOK, PanelType, Handle
<1>1. PICK p \in Posts : /\ p = Head(posts) /\ posts' \in Seq(Posts)
                         /\ Publish(p.ticket, p.found) \/ UNCHANGED <<pending, tree>>
  BY <1>0, HeadTailProperties DEF Handle
<1>2. UNCHANGED <<userVars, serial, last, barrier, indexVars, queue, job>>
  BY DEF Handle
<1>3. p.ticket \in Tickets
  BY DEF Posts
<1>4. \/ UNCHANGED pending
      \/ p.ticket.scope \in Scope /\ pending' = [pending EXCEPT ![p.ticket.scope] = 0]
  BY <1>1, <1>3 DEF Publish, Tickets
<1>5. pending' \in [Scope -> Nat] /\ \A s \in Scope : pending'[s] # 0 => pending'[s] = pending[s]
  BY <1>0, <1>4
<1>9. CurrentIsNewer'
  BY <1>0, <1>2, <1>5 DEF CurrentIsNewer
<1>6. tree' \in Seq(Nodes)
  BY <1>0, <1>1, <1>3, PublishIs
<1>7. PanelType'
  BY <1>0, <1>1, <1>2, <1>5, <1>6 DEF PanelType
<1>8. TypeOK'
  BY <1>2, <1>7 DEF userVars, indexVars, IInv, TypeOK, UserType, IndexType, JobType
<1>10. UNCHANGED <<disk, clock, quick, cache, snapshot, queue, job>>
  BY <1>2 DEF userVars, indexVars
<1> QED BY <1>8, <1>9, <1>10, WorkKept DEF IInv

LEMMA AnswerIs ==
  ASSUME PanelType, NEW found \in BOOLEAN, Answer(found), UNCHANGED panelVars,
         job.ticket \in Tickets \cup {None}
  PROVE  PanelType'
<1>1. posts' \in Seq(Posts)
  <2>1. CASE job.ticket = None
    BY <2>1 DEF Answer, PanelType
  <2>2. CASE job.ticket # None
    <3>1. [ticket |-> job.ticket, found |-> found] \in Posts
      BY <2>2 DEF Posts
    <3> QED BY <2>2, <3>1 DEF Answer, PanelType
  <2> QED BY <2>1, <2>2
<1> QED BY <1>1 DEF PanelType, panelVars

(* The job that is over leaves nothing behind but its answer.               *)
LEMMA OverKeeps ==
  ASSUME IInv, Refuse \/ \E found \in BOOLEAN : Query(found)
  PROVE  IInv'
<1>1. PICK found \in BOOLEAN : Answer(found)
  BY DEF Refuse, Query
<1>2. /\ UNCHANGED <<userVars, panelVars, indexVars, queue>> /\ job' = None
      /\ job # None /\ job \in Jobs
  BY DEF Refuse, Query, IInv, TypeOK, JobType
<1>3. PanelType'
  BY <1>1, <1>2, AnswerIs DEF IInv, TypeOK, Jobs
<1>4. TypeOK' /\ CurrentIsNewer' /\ CachesFit' /\ SeenByAll' /\ RefreshIsFresh' /\ Reading' /\ Published'
  BY <1>2, <1>3 DEF userVars, panelVars, indexVars, IInv, TypeOK, UserType, IndexType, JobType,
     CurrentIsNewer, CachesFit, Fits, SeenByAll, Queued, RefreshIsFresh, SinceAsked, Reading,
     Known, Published
<1> QED BY <1>4 DEF IInv

(* The worker takes a job, and a copy of the cache that is published then.  *)
LEMMA BeginningKeeps ==
  ASSUME IInv, Start
  PROVE  IInv'
<1>0. queue \in Seq(Jobs) /\ queue # <<>> /\ cache \in Cache /\ snapshot \in Snapshots \cup {None} /\ job = None
  BY DEF IInv, TypeOK, JobType, IndexType, Start
<1>1. /\ Queued \subseteq Jobs /\ Head(queue) \in Queued /\ queue' \in Seq(Jobs)
      /\ Queued' \subseteq Queued
  BY <1>0, QueueIs DEF Start
<1>2. PICK j \in Queued : j = Head(queue)
  BY <1>1
<1>3. ASSUME NEW k \in Jobs
      PROVE  [k EXCEPT !.phase = "planned", !.cache = cache, !.base = snapshot] \in Jobs
  BY <1>0 DEF Jobs
<1>4. /\ job' \in Jobs /\ job'.refresh = j.refresh /\ job'.seen = j.seen /\ job'.cache = cache
      /\ job'.key = j.key /\ job'.built = j.built /\ job'.phase = "planned"
  BY ZenonT(30), <1>0, <1>1, <1>2, <1>3 DEF Start, Jobs
<1>5. UNCHANGED <<userVars, panelVars, indexVars, posts>>
  BY DEF Start
<1>6. \A f \in File : job'.key[f] = None /\ job'.built[f] = None
  BY <1>4 DEF IInv, Reading
<1>7. TypeOK'
  BY <1>1, <1>4, <1>5
     DEF IInv, TypeOK, UserType, PanelType, IndexType, JobType, userVars, panelVars, indexVars
<1>8. CurrentIsNewer' /\ CachesFit' /\ SeenByAll'
  BY <1>1, <1>4, <1>5, <1>6
     DEF userVars, panelVars, indexVars, IInv, CurrentIsNewer, CachesFit, Fits, SeenByAll
<1>9. RefreshIsFresh'
  BY <1>1, <1>4, <1>5, <1>6 DEF indexVars, IInv, RefreshIsFresh, SinceAsked
<1>10. Reading' /\ Published'
  BY <1>1, <1>4, <1>6 DEF IInv, Reading, Published
<1> QED BY <1>7, <1>8, <1>9, <1>10 DEF IInv

LEMMA PlanKeeps ==
  ASSUME IInv, Plan
  PROVE  IInv'
<1>0. job # None /\ job \in Jobs /\ job.phase = "planned"
  BY DEF Plan, IInv, TypeOK, JobType
<1>1. Table \in Tables
  <2>1. \A f \in OnDisk : disk[f].text \in Text
    BY DEF IInv, TypeOK, UserType, OnDisk
  <2> QED BY <2>1 DEF Table, Tables
<1>2. ASSUME NEW j \in Jobs, NEW table \in Tables
      PROVE  [j EXCEPT !.phase = "parsing", !.table = table] \in Jobs
  BY DEF Jobs
<1>3. /\ job' \in Jobs /\ job'.refresh = job.refresh /\ job'.seen = job.seen
      /\ job'.cache = job.cache
      /\ job'.key = job.key /\ job'.built = job.built /\ job'.phase = "parsing"
      /\ job'.same = job.same
  BY <1>0, <1>1, <1>2 DEF Plan, Jobs
<1>4. UNCHANGED <<userVars, panelVars, indexVars, queue, posts>>
  BY DEF Plan
<1>5. \A f \in File : job'.key[f] = None /\ job'.built[f] = None
  BY <1>0, <1>3 DEF IInv, Reading
<1>6. TypeOK'
  BY <1>3, <1>4 DEF IInv, TypeOK, UserType, PanelType, IndexType, JobType, userVars, panelVars,
     indexVars
<1>7. CurrentIsNewer' /\ CachesFit' /\ SeenByAll'
  BY <1>0, <1>3, <1>4 DEF userVars, panelVars, indexVars, IInv, CurrentIsNewer, CachesFit, Fits,
     SeenByAll, Queued
<1>8. RefreshIsFresh'
  BY <1>0, <1>3, <1>4 DEF indexVars, IInv, RefreshIsFresh, SinceAsked, Queued
<1>9. Reading' /\ Published'
  BY <1>3, <1>4, <1>5 DEF IInv, Reading, Published, Queued
<1> QED BY <1>6, <1>7, <1>8, <1>9 DEF IInv

(* The stamp is read: a section of the cache that has it is one of those    *)
(* the question allows.                                                     *)
LEMMA StatKeeps ==
  ASSUME IInv, NEW f \in File, Stat(f)
  PROVE  IInv'
<1> DEFINE key == CacheKey(f, job)
<1>0. /\ job # None /\ job \in Jobs /\ job.phase = "parsing" /\ disk[f] # None /\ job.key[f] = None
      /\ disk[f].stamp \in Nat \ {0} /\ disk[f].stamp <= clock /\ clock \in Nat
      /\ job.key \in [File -> Key \cup {None}]
  BY DEF Stat, IInv, TypeOK, JobType, UserType, Jobs
<1>1. /\ key \in Key /\ key.table = job.table /\ key.overlay = job.overlay[f]
      /\ key.stamp = IF job.overlay[f] # None THEN -1 ELSE disk[f].stamp
  BY <1>0 DEF CacheKey, Key, Jobs, Texts
<1> HIDE DEF key
<1>2. key.stamp <= clock
  BY <1>0, <1>1
<1>3. ASSUME NEW keys \in [File -> Key \cup {None}] PROVE [job EXCEPT !.key = keys] \in Jobs
  BY <1>0 DEF Jobs
<1>4. job' = [job EXCEPT !.key = [job.key EXCEPT ![f] = key]]
  BY <1>0 DEF Stat, Jobs, key
<1>5. /\ job' \in Jobs /\ job'.refresh = job.refresh /\ job'.seen = job.seen
      /\ job'.cache = job.cache
      /\ job'.built = job.built /\ job'.phase = "parsing" /\ job'.same = job.same
      /\ job'.table = job.table /\ job'.overlay = job.overlay
      /\ job'.key = [job.key EXCEPT ![f] = key]
  <2>1. [job.key EXCEPT ![f] = key] \in [File -> Key \cup {None}]
    BY <1>0, <1>1
  <2> QED BY <1>0, <1>3, <1>4, <2>1 DEF Jobs
<1>6. job'.key[f] = key /\ \A g \in File \ {f} : job'.key[g] = job.key[g]
  BY <1>0, <1>5
<1>7. UNCHANGED <<userVars, panelVars, indexVars, queue, posts>>
  BY DEF Stat
<1>8. TypeOK'
  BY <1>5, <1>7 DEF IInv, TypeOK, UserType, PanelType, IndexType, JobType, userVars, panelVars,
     indexVars
<1>9. CurrentIsNewer' /\ CachesFit' /\ SeenByAll'
  BY <1>0, <1>5, <1>7 DEF userVars, panelVars, indexVars, IInv, CurrentIsNewer, CachesFit, Fits,
     SeenByAll, Queued
<1>10. RefreshIsFresh'
  BY <1>0, <1>5, <1>7 DEF indexVars, IInv, RefreshIsFresh, SinceAsked, Queued
<1>11. ASSUME job.overlay[f] = None, job.cache[f] # None, job.cache[f].key = key
       PROVE  Known(job.cache[f], f)
  <2>1. /\ disk[f].text \in job.seen[f]
        /\ f \notin quick => job.cache[f].section.text = disk[f].text
        /\ job.refresh => job.cache[f].section.text \in job.seen[f]
    BY <1>0, <1>1, <1>11 DEF IInv, SeenByAll, CachesFit, Fits, RefreshIsFresh, SinceAsked
  <2> QED BY <2>1 DEF Known
<1>12. Reading'
  <2>1. \A j \in Queued' : \A g \in File : j.key[g] = None /\ j.built[g] = None
    BY <1>7 DEF IInv, Reading, Queued
  <2>2. job.built[f] = None
    BY <1>0 DEF IInv, Reading
  <2>3. clock' = clock /\ disk' = disk /\ quick' = quick
    BY <1>7 DEF userVars
  <2>4. ASSUME NEW g \in File, job'.key[g] # None
        PROVE  /\ job'.key[g].table = job'.table /\ job'.key[g].overlay = job'.overlay[g]
               /\ job'.key[g].stamp <= clock /\ disk[g] # None
               /\ job'.overlay[g] # None => job'.key[g].stamp = -1
               /\ job'.overlay[g] = None /\ job'.cache[g] # None /\ job'.cache[g].key = job'.key[g]
                    => Known(job.cache[g], g)
    <3>1. CASE g = f
      BY <1>0, <1>1, <1>2, <1>5, <1>6, <1>11, <3>1
    <3>2. CASE g # f
      BY <1>0, <1>5, <1>6, <2>4, <3>2 DEF IInv, Reading
    <3> QED BY <3>1, <3>2
  <2>5. ASSUME NEW g \in File, job'.built[g] # None
        PROVE  /\ job'.key[g] # None /\ job'.built[g].key = job'.key[g]
               /\ job'.overlay[g] = None => Known(job.built[g], g)
    BY <1>0, <1>5, <1>6, <2>2, <2>5 DEF IInv, Reading
  <2>6. \A e, g : Known(e, g) => Known(e, g)'
    BY <1>5, <2>3 DEF Known
  <2> QED BY <1>5, <2>1, <2>3, <2>4, <2>5, <2>6 DEF Reading
<1>13. Published'
  BY <1>5 DEF Published
<1> QED BY <1>8, <1>9, <1>10, <1>12, <1>13 DEF IInv

(* The text is read, or the section taken from the cache.                   *)
LEMMA ParseKeeps ==
  ASSUME IInv, NEW f \in File, Parse(f)
  PROVE  IInv'
<1> DEFINE new == Section(f)
<1>0. /\ job # None /\ job \in Jobs /\ job.phase = "parsing" /\ job.key[f] # None
      /\ job.built[f] = None
      /\ job.key[f] \in Key /\ job.built \in Cache /\ job.cache[f] \in Entry \cup {None}
      /\ disk[f] # None /\ disk[f].text \in Text /\ disk[f].stamp \in Nat \ {0}
      /\ job.key[f].table = job.table /\ job.key[f].overlay = job.overlay[f]
      /\ job.key[f].stamp <= clock /\ (job.overlay[f] # None => job.key[f].stamp = -1)
      /\ job.overlay[f] \in Texts
      /\ job.overlay[f] = None /\ job.cache[f] # None /\ job.cache[f].key = job.key[f]
           => Known(job.cache[f], f)
  BY DEF Parse, IInv, TypeOK, JobType, UserType, Jobs, Cache, Reading
<1>1. /\ disk[f].text \in job.seen[f] /\ \A j \in Queued : disk[f].text \in j.seen[f]
      /\ Fits(job.cache[f], f)
      /\ job.cache[f] # None /\ job.same
           => \A j \in Queued : j.refresh => SinceAsked(job.cache[f], f, j)
  BY <1>0 DEF IInv, SeenByAll, CachesFit, RefreshIsFresh
<1>2. /\ new \in Entry /\ Fits(new, f) /\ new.key = job.key[f]
      /\ job.overlay[f] = None => Known(new, f)
      /\ job.same => \A j \in Queued : j.refresh => SinceAsked(new, f, j)
  <2>1. CASE job.cache[f] # None /\ job.cache[f].key = job.key[f]
    BY <1>0, <1>1, <2>1 DEF Section
  <2>2. CASE ~(job.cache[f] # None /\ job.cache[f].key = job.key[f])
    <3> DEFINE text == IF job.overlay[f] # None THEN job.overlay[f] ELSE disk[f].text
    <3>1. text \in Text
      BY <1>0 DEF Texts
    <3>2. new = [key |-> job.key[f], section |-> [text |-> text, table |-> job.table]]
      BY <2>2 DEF Section
    <3> HIDE DEF new
    <3>3. /\ new.key = job.key[f] /\ new.section.text = text /\ new.section.table = job.table
      BY <3>2
    <3>4. new \in Entry
      BY <1>0, <3>1, <3>2 DEF Entry, Sections, Jobs
    <3>5. Fits(new, f)
      BY <1>0, <3>3 DEF Fits
    <3>6. job.overlay[f] = None => Known(new, f) /\ \A j \in Queued : SinceAsked(new, f, j)
      BY <1>1, <3>3 DEF Known, SinceAsked
    <3>7. job.overlay[f] # None => \A j \in Queued : SinceAsked(new, f, j)
      BY <1>0, <3>3 DEF SinceAsked
    <3> QED BY <3>3, <3>4, <3>5, <3>6, <3>7
  <2> QED BY <2>1, <2>2
<1>3. job' = [job EXCEPT !.built = [job.built EXCEPT ![f] = new]]
  BY <1>0 DEF Parse, Jobs
<1> HIDE DEF new
<1>4. ASSUME NEW built \in Cache PROVE [job EXCEPT !.built = built] \in Jobs
  BY <1>0 DEF Jobs
<1>5. /\ job' \in Jobs /\ job'.refresh = job.refresh /\ job'.seen = job.seen
      /\ job'.cache = job.cache
      /\ job'.key = job.key /\ job'.phase = "parsing" /\ job'.same = job.same
      /\ job'.table = job.table /\ job'.overlay = job.overlay
      /\ job'.built = [job.built EXCEPT ![f] = new]
  <2>1. [job.built EXCEPT ![f] = new] \in Cache
    BY <1>0, <1>2 DEF Cache
  <2> QED BY <1>0, <1>3, <1>4, <2>1 DEF Jobs
<1>6. job'.built[f] = new /\ \A g \in File \ {f} : job'.built[g] = job.built[g]
  BY <1>0, <1>5 DEF Cache
<1>7. UNCHANGED <<userVars, panelVars, indexVars, queue, posts>>
  BY DEF Parse
<1>8. clock' = clock /\ disk' = disk /\ quick' = quick /\ cache' = cache /\ Queued' = Queued
  BY <1>7 DEF userVars, indexVars, Queued
<1>9. TypeOK'
  BY <1>5, <1>7 DEF IInv, TypeOK, UserType, PanelType, IndexType, JobType, userVars, panelVars,
     indexVars
<1>10. CurrentIsNewer' /\ SeenByAll'
  BY <1>0, <1>5, <1>7, <1>8 DEF panelVars, IInv, CurrentIsNewer, SeenByAll
<1>11. CachesFit'
  <2>1. \A e, g : Fits(e, g) => Fits(e, g)'
    BY <1>8 DEF Fits
  <2> QED BY <1>0, <1>2, <1>5, <1>6, <1>8, <2>1 DEF IInv, CachesFit
<1>12. RefreshIsFresh'
  BY <1>0, <1>2, <1>5, <1>6, <1>8 DEF IInv, RefreshIsFresh, SinceAsked
<1>13. Reading'
  <2>1. \A e, g : Known(e, g) => Known(e, g)'
    BY <1>5, <1>8 DEF Known
  <2> QED BY <1>0, <1>2, <1>5, <1>6, <1>8, <2>1 DEF IInv, Reading
<1>14. Published'
  BY <1>5 DEF Published
<1> QED BY <1>9, <1>10, <1>11, <1>12, <1>13, <1>14 DEF IInv

LEMMA CommitKeeps ==
  ASSUME IInv, Commit
  PROVE  IInv'
<1>0. job # None /\ job \in Jobs /\ job.built \in Cache /\ snapshot \in Snapshots \cup {None}
  BY DEF Commit, IInv, TypeOK, JobType, IndexType, Jobs
<1>1. ASSUME NEW j \in Jobs PROVE [j EXCEPT !.phase = "querying"] \in Jobs
  BY DEF Jobs
<1>2. /\ job' \in Jobs /\ job'.refresh = job.refresh /\ job'.seen = job.seen
      /\ job'.cache = job.cache
      /\ job'.key = job.key /\ job'.built = job.built /\ job'.phase = "querying"
      /\ job'.same = job.same /\ job'.table = job.table /\ job'.overlay = job.overlay
  BY <1>0, <1>1 DEF Commit, Jobs
<1>3. UNCHANGED <<userVars, panelVars, queue, posts>> /\ Queued' = Queued
  BY DEF Commit, Queued
<1>4. cache' = NoCache \/ (job.same /\ cache' = job.built)
  BY DEF Commit, Kept
<1>5. cache' \in Cache
  BY <1>0, <1>4 DEF NoCache, Cache
<1>6. /\ snapshot' \in Snapshots
      /\ \A f \in File : snapshot'.sections[f] = IF job.built[f] = None THEN None
                                                 ELSE job.built[f].section
  <2> DEFINE sections == [f \in File |-> IF job.built[f] = None THEN None ELSE job.built[f].section]
             id == IF snapshot = None THEN 1 ELSE snapshot.id + 1
  <2>1. sections \in [File -> Sections \cup {None}]
    BY <1>0 DEF Cache, Entry
  <2>2. id \in Nat
    BY <1>0 DEF Snapshots
  <2>3. snapshot' = [id |-> id, sections |-> sections]
    BY DEF Commit
  <2>4. \A f \in File : sections[f] = IF job.built[f] = None THEN None ELSE job.built[f].section
    OBVIOUS
  <2> HIDE DEF id, sections
  <2> QED BY <2>1, <2>2, <2>3, <2>4 DEF Snapshots
<1>7. TypeOK'
  BY <1>2, <1>3, <1>5, <1>6 DEF IInv, TypeOK, UserType, PanelType, IndexType, JobType, userVars,
     panelVars
<1>8. CurrentIsNewer' /\ SeenByAll'
  BY <1>0, <1>2, <1>3 DEF userVars, panelVars, IInv, CurrentIsNewer, SeenByAll
<1>9. CachesFit'
  <2>1. \A e, g : Fits(e, g) => Fits(e, g)'
    BY <1>3 DEF Fits, userVars
  <2>2. \A g \in File : Fits(NoCache[g], g)'
    BY DEF Fits, NoCache
  <2> QED BY <1>0, <1>2, <1>4, <2>1, <2>2 DEF IInv, CachesFit
<1>10. RefreshIsFresh'
  BY <1>0, <1>2, <1>3, <1>4 DEF IInv, RefreshIsFresh, SinceAsked, NoCache
<1>11. Reading'
  BY <1>0, <1>2, <1>3 DEF IInv, Reading, Known, userVars
<1>12. Published'
  BY <1>2, <1>6 DEF Published
<1> QED BY <1>7, <1>8, <1>9, <1>10, <1>11, <1>12 DEF IInv

LEMMA Initially == Init => IInv
<1> SUFFICES ASSUME Init PROVE IInv
  OBVIOUS
<1>1. UserType
  BY PanelAssumption DEF Init, UserType, NoCache, Texts
<1>2. PanelType /\ IndexType /\ JobType
  BY DEF Init, PanelType, IndexType, JobType, NoCache, Cache
<1>3. Queued = {}
  BY DEF Init, Queued
<1>4. CurrentIsNewer /\ CachesFit /\ SeenByAll /\ RefreshIsFresh /\ Reading /\ Published
  BY <1>3 DEF Init, CurrentIsNewer, CachesFit, Fits, SeenByAll, RefreshIsFresh, SinceAsked, Reading,
     Published, NoCache
<1> QED BY <1>1, <1>2, <1>4 DEF IInv, TypeOK

LEMMA StepKeeps == IInv /\ [Next]_vars => IInv'
<1> SUFFICES ASSUME IInv, [Next]_vars PROVE IInv'
  OBVIOUS
<1>1. CASE UNCHANGED vars
  <2>1. /\ UNCHANGED <<disk, buffer, clock, quick, writes, serial, pending, tree, last, barrier>>
        /\ UNCHANGED <<cache, snapshot, queue, job, posts>>
    BY <1>1 DEF vars, userVars, panelVars, indexVars
  <2>2. TypeOK'
    BY <2>1 DEF IInv, TypeOK, UserType, PanelType, IndexType, JobType
  <2>3. CurrentIsNewer'
    BY <2>1 DEF IInv, CurrentIsNewer
  <2> QED BY <2>1, <2>2, <2>3, WorkKept DEF IInv
<1>2. CASE Next
  BY <1>2, UserKeeps, HandleKeeps, OverKeeps, BeginningKeeps, PlanKeeps, StatKeeps, ParseKeeps,
     CommitKeeps DEF Next, Worker
<1> QED BY <1>1, <1>2

-----------------------------------------------------------------------------
(* IInv is an inductive invariant: it holds in every reachable state.       *)
THEOREM Inductive == Spec => []IInv
BY Initially, StepKeeps, PTL DEF Spec

(* Whatever the worker reads between the stat and the parse of a file,      *)
(* whatever it takes from the cache: a query sees what the user had when he *)
(* asked, or later (query_index.scala, section_for and invalidate).         *)
THEOREM QueriesReadAsAsked == Spec => []ReadAsAsked
<1>1. ASSUME IInv PROVE ReadAsAsked
  <2> SUFFICES ASSUME job # None, job.phase = "querying", NEW f \in File, snapshot.sections[f] # None
               PROVE  /\ snapshot.sections[f].table = job.table
                      /\ IF job.overlay[f] # None
                         THEN snapshot.sections[f].text = job.overlay[f]
                         ELSE \/ snapshot.sections[f].text \in job.seen[f]
                              \/ f \in quick /\ ~job.refresh
    BY DEF ReadAsAsked
  <2>1. job.built[f] # None /\ snapshot.sections[f] = job.built[f].section
    BY <1>1 DEF IInv, Published
  <2>2. /\ job.key[f] # None /\ job.built[f].key = job.key[f] /\ job.key[f].table = job.table
        /\ job.key[f].overlay = job.overlay[f] /\ (job.overlay[f] = None => Known(job.built[f], f))
    BY <1>1, <2>1 DEF IInv, Reading
  <2>3. Fits(job.built[f], f)
    BY <1>1 DEF IInv, CachesFit
  <2> QED BY <2>1, <2>2, <2>3 DEF Fits, Known
<1> QED BY <1>1, Inductive, PTL

(* A result set is shown or replaced only by the answer to a request that   *)
(* is newer than all that made older ones obsolete.                         *)
THEOREM OnlyWantedIsShown == Spec => ShownAreWanted
<1>1. ASSUME IInv, [Next]_vars, NEW i \in DOMAIN tree', \A k \in DOMAIN tree : tree[k] # tree'[i]
      PROVE  tree'[i].serial > barrier[tree'[i].scope]
  <2>0. tree \in Seq(Nodes) /\ posts \in Seq(Posts)
    BY <1>1 DEF IInv, TypeOK, PanelType
  <2>1. ~UNCHANGED tree
    BY <1>1
  <2>2. CASE Handle
    <3>1. PICK p \in Posts : p = Head(posts) /\ Current(p.ticket) /\ Publish(p.ticket, p.found)
      BY <2>0, <2>1, <2>2, HeadTailProperties DEF Handle
    <3>2. p.ticket \in Tickets
      BY DEF Posts
    <3>3. tree'[i] = [scope |-> p.ticket.scope, serial |-> p.ticket.serial]
      BY <1>1, <2>0, <3>1, <3>2, PublishIs
    <3>4. pending[p.ticket.scope] = p.ticket.serial /\ p.ticket.scope \in Scope /\ p.ticket.serial # 0
      BY <3>1, <3>2 DEF Current, Tickets
    <3> QED BY <1>1, <3>3, <3>4 DEF IInv, CurrentIsNewer
  <2>3. ASSUME NEW m \in DOMAIN tree, Remove(m) PROVE FALSE
    <3>1. tree' = Removed(tree, m)
      BY <2>3 DEF Remove, Removed
    <3> QED BY <1>1, <2>0, <3>1, RemovalIs
  <2>4. CASE Clear
    BY <1>1, <2>4 DEF Clear
  <2>5. Handle \/ Clear \/ \E m \in DOMAIN tree : Remove(m)
    BY <1>1, <2>1 DEF Next, User, Edit, Save, External, Request, Refresh, Reindex, Worker, Start,
       Plan, Refuse, Commit, Query, Stat, Parse, panelVars, vars
  <2> QED BY <2>2, <2>3, <2>4, <2>5
<1>2. IInv /\ [Next]_vars =>
        [\A i \in DOMAIN tree' : (\A k \in DOMAIN tree : tree[k] # tree'[i])
            => tree'[i].serial > barrier[tree'[i].scope]]_vars
  BY <1>1
<1> QED BY <1>2, Inductive, PTL DEF Spec, ShownAreWanted

=============================================================================
