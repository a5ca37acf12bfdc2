-------------------------- MODULE NamespaceProofs ---------------------------
(***************************************************************************)
(* Proofs about Namespace, for any number of processes, any tree of        *)
(* sessions and any number of builds.                                      *)
(*                                                                         *)
(* What the invariant says of a process is said of its record r, of the    *)
(* heaps h and of the newest version n, so that a step of another process, *)
(* which changes none of them, leaves it as it is.                         *)
(***************************************************************************)
EXTENDS Namespace, SequenceTheorems, WellFoundedInduction, TLAPS

-----------------------------------------------------------------------------
Heap == [version : Nat, over : Nat]
Heaps == [Session -> Heap \cup {None}]
FailKeys == Nat \X Heaps
Cached == [print : Nat, table : Nat]
Working == {"load", "check", "dump", "open", "write"}
Sessions == {Project[i] : i \in DOMAIN Project}
Bounds == [Session -> Nat \cup {None}]

Process ==
  [pc : {"idle", "next", "answer"} \cup Working, todo : SUBSET Sessions, knows : BOOLEAN,
   print : Nat \cup {None}, key : FailKeys \cup {None}, seen : Heaps \cup {None},
   table : Nat \cup {None}, bound : Bounds,
   source : {"none", "default", "committed", "isabelle"}, first : Heaps, quiet : BOOLEAN,
   coarse : SUBSET Session]

Types == /\ heap \in Heaps /\ version \in Nat
         /\ cache \in [Session -> Cached \cup {Torn, None}]
         /\ failure \in [Session -> FailKeys \cup {None}]
         /\ q \in [Query -> Process]

(* Every heap has a version that was given out. *)
Versions == \A s \in Session : heap[s] # None => heap[s].version \in 1..version

(* The heap of a session, if there is one, is not older than v. *)
NotOlder(s, v, h, n) == v <= n /\ (h[s] # None => v <= h[s].version)

(* A cached table is the one of the heap of its print or of a later one. *)
CacheOk ==
  \A s \in Session : cache[s] \notin {None, Torn} =>
    cache[s].print <= cache[s].table /\ NotOlder(s, cache[s].table, heap, version)

(* The session that a process with this much to do is at. *)
Cur(todo) == CHOOSE s \in todo : \A t \in todo : Place(s) <= Place(t)

(* What a process knows of the session s it is at. *)
KnowsOf(s, r, h, n) ==
  /\ r.print \in Nat
  /\ NotOlder(s, r.print, h, n)
  /\ r.print = 0 => s \in r.coarse
  /\ r.print > 0 /\ r.first[s] # None => r.first[s].version <= r.print
  /\ r.pc \in {"open", "write"} => /\ r.table \in Nat
                                   /\ NotOlder(s, r.table, h, n)
                                   /\ r.print <= r.table
Knows(r, h, n) ==
  /\ \A s \in Session : r.first[s] # None => NotOlder(s, r.first[s].version, h, n)
  /\ \A s \in r.todo : r.first[s] # None
  /\ r.pc \in Working => r.todo # {} /\ KnowsOf(Cur(r.todo), r, h, n)
Dated(r) ==
  \A s \in Session \ r.coarse :
    r.bound[s] # None /\ r.first[s] # None => r.bound[s] >= r.first[s].version

IInv == /\ Types
        /\ Versions
        /\ CacheOk
        /\ \A p \in Query : Knows(q[p], heap, version) /\ Dated(q[p])

-----------------------------------------------------------------------------
(* A failure record belongs to a dump that failed over the heaps it names. *)
FailuresOk == \A s \in Session : failure[s] # None => <<s, failure[s][2]>> \in failed
KeyOk(r) == r.pc = "dump" => r.seen \in Heaps /\ r.key \in FailKeys /\ r.key[2] = r.seen

LoadsIn(s, h) ==
  /\ h[s] # None
  /\ h[s].over # 0 => h[Parent[s]] # None /\ h[Parent[s]].version = h[s].over

(* A process that nothing disturbed has bound the table of every heap that *)
(* loads among the sessions it is done with.                               *)
Exact(r, h, f) ==
  r.pc # "idle" /\ r.quiet /\ r.knows =>
    /\ r.first = h
    /\ \A s \in Sessions \ r.todo :
         LoadsIn(s, h) /\ <<s, h>> \notin f => r.bound[s] = h[s].version
    /\ r.pc \in Working =>
         /\ h[Cur(r.todo)] # None /\ r.print = h[Cur(r.todo)].version
         /\ r.pc \in {"open", "write"} => r.table = h[Cur(r.todo)].version
    /\ r.pc = "answer" => r.todo = {}

QuietInv == /\ FailuresOk
            /\ \A p \in Query : KeyOk(q[p]) /\ Exact(q[p], heap, failed)

-----------------------------------------------------------------------------
(* The session a process is at is one of those it has still to do.         *)
LEMMA SessionsAre == Sessions \subseteq Session
BY NamespaceAssumption, ElementOfSeq, LenProperties DEF Sessions

LEMMA PlaceIs ==
  ASSUME NEW s \in Sessions
  PROVE  Place(s) \in Nat /\ Project[Place(s)] = s
<1>1. PICK i \in DOMAIN Project : Project[i] = s
  BY DEF Sessions
<1>2. Place(s) \in DOMAIN Project /\ Project[Place(s)] = s
  BY <1>1 DEF Place
<1>3. DOMAIN Project = 1..Len(Project) /\ Len(Project) \in Nat
  BY NamespaceAssumption, LenProperties
<1> QED BY <1>2, <1>3

LEMMA CurIs ==
  ASSUME NEW todo \in SUBSET Sessions, todo # {}
  PROVE  Cur(todo) \in todo
<1> DEFINE Places == {Place(s) : s \in todo}
<1>1. Places \subseteq Nat /\ Places # {}
  BY PlaceIs
<1> DEFINE Less == OpToRel(<, Nat)
<1>2. \A m, k \in Nat : m < k => <<m, k>> \in Less
  BY DEF OpToRel
<1>3. IsWellFoundedOn(Less, Nat)
  BY NatLessThanWellFounded
<1> HIDE DEF Less, Places
<1>4. PICK n \in Places : \A m \in Places : ~(<<m, n>> \in Less)
  BY <1>1, <1>3, WFMin
<1>5. ASSUME NEW m \in Places PROVE n <= m
  <2>1. m \in Nat /\ n \in Nat
    BY <1>1, <1>4
  <2>2. ~(m < n)
    BY <2>1, <1>2, <1>4
  <2> QED BY <2>1, <2>2
<1> USE DEF Places
<1>6. PICK s \in todo : n = Place(s)
  BY <1>4
<1>7. \A t \in todo : Place(s) <= Place(t)
  BY <1>5, <1>6
<1> QED BY <1>7 DEF Cur

LEMMA CurrentIs ==
  ASSUME Types, NEW p \in Query, q[p].todo # {}
  PROVE  /\ Current(p) = Cur(q[p].todo)
         /\ Current(p) \in q[p].todo
         /\ Current(p) \in Session /\ Current(p) \in Sessions
<1>1. q[p].todo \in SUBSET Sessions
  BY DEF Types, Process
<1>2. Current(p) = Cur(q[p].todo)
  BY DEF Current, Cur
<1> QED BY <1>1, <1>2, CurIs, SessionsAre

-----------------------------------------------------------------------------
LEMMA RestingIs ==
  /\ Resting \in Process
  /\ Resting.pc = "idle" /\ Resting.todo = {} /\ Resting.first = NoHeap
  /\ \A s \in Session : Resting.bound[s] = None /\ NoHeap[s] = None
<1>1. /\ NoHeap \in Heaps
      /\ [s \in Session |-> None] \in Bounds
      /\ \A s \in Session : NoHeap[s] = None
  BY DEF NoHeap, Heaps, Bounds
<1>2. Resting \in Process
  BY <1>1 DEF Resting, Process
<1> QED BY <1>1, <1>2 DEF Resting

LEMMA RestingOk ==
  ASSUME NEW h, NEW n, NEW f
  PROVE  /\ Knows(Resting, h, n) /\ Dated(Resting)
         /\ KeyOk(Resting) /\ Exact(Resting, h, f)
BY RestingIs DEF Knows, Dated, KeyOk, Exact, Working

LEMMA Initially == Init => IInv /\ QuietInv
<1> SUFFICES ASSUME Init PROVE IInv /\ QuietInv
  OBVIOUS
<1>1. heap \in Heaps /\ \A s \in Session : heap[s] # None => heap[s].version = 1
  BY DEF Init, Heaps, Heap
<1>2. Types
  BY <1>1, RestingIs DEF Init, Types
<1>3. Versions /\ CacheOk /\ FailuresOk
  BY <1>1 DEF Init, Versions, CacheOk, FailuresOk
<1>4. ASSUME NEW p \in Query PROVE q[p] = Resting
  BY DEF Init
<1> QED BY <1>2, <1>3, <1>4, RestingOk DEF IInv, QuietInv

-----------------------------------------------------------------------------
(* A step of process p that leaves the heaps alone, and gives p record r.  *)
LEMMA Moved ==
  ASSUME IInv, UNCHANGED world, NEW p \in Query, NEW r \in Process, Goto(p, r),
         Knows(r, heap, version), Dated(r),
         cache' \in [Session -> Cached \cup {Torn, None}],
         failure' \in [Session -> FailKeys \cup {None}],
         \A s \in Session : cache'[s] \notin {cache[s], None, Torn} =>
            cache'[s].print <= cache'[s].table /\ NotOlder(s, cache'[s].table, heap, version)
  PROVE  IInv'
<1>1. heap' = heap /\ version' = version
  BY DEF world
<1>2. q' = [q EXCEPT ![p] = r]
  BY DEF Goto
<1>3. q \in [Query -> Process]
  BY DEF IInv, Types
<1>4. Types'
  BY <1>1, <1>2, <1>3 DEF IInv, Types
<1>5. Versions'
  BY <1>1 DEF IInv, Versions
<1>6. CacheOk'
  <2> SUFFICES ASSUME NEW s \in Session, cache'[s] \notin {None, Torn}
               PROVE  cache'[s].print <= cache'[s].table /\ NotOlder(s, cache'[s].table, heap, version)
    BY <1>1 DEF CacheOk
  <2>1. CASE cache'[s] = cache[s]
    BY <2>1 DEF IInv, CacheOk
  <2>2. CASE cache'[s] # cache[s]
    BY <2>2
  <2> QED BY <2>1, <2>2
<1>7. ASSUME NEW o \in Query PROVE Knows(q'[o], heap', version') /\ Dated(q'[o])
  <2>1. CASE o = p
    BY <2>1, <1>1, <1>2, <1>3
  <2>2. CASE o # p
    <3>1. q'[o] = q[o]
      BY <2>2, <1>2, <1>3
    <3> QED BY <3>1, <1>1 DEF IInv
  <2> QED BY <2>1, <2>2
<1> QED BY <1>4, <1>5, <1>6, <1>7 DEF IInv

LEMMA MovedQuietly ==
  ASSUME IInv, QuietInv, UNCHANGED world, NEW p \in Query, NEW r \in Process, Goto(p, r),
         KeyOk(r), Exact(r, heap, failed'), failed \subseteq failed',
         \A s \in Session : failure'[s] # failure[s] => <<s, failure'[s][2]>> \in failed'
  PROVE  QuietInv'
<1>1. heap' = heap /\ version' = version
  BY DEF world
<1>2. q' = [q EXCEPT ![p] = r] /\ q \in [Query -> Process]
  BY DEF Goto, IInv, Types
<1>3. FailuresOk'
  <2> SUFFICES ASSUME NEW s \in Session, failure'[s] # None
               PROVE  <<s, failure'[s][2]>> \in failed'
    BY DEF FailuresOk
  <2>1. CASE failure'[s] = failure[s]
    BY <2>1 DEF QuietInv, FailuresOk
  <2>2. CASE failure'[s] # failure[s]
    BY <2>2
  <2> QED BY <2>1, <2>2
<1>4. ASSUME NEW o \in Query PROVE KeyOk(q'[o]) /\ Exact(q'[o], heap', failed')
  <2>1. CASE o = p
    BY <2>1, <1>1, <1>2
  <2>2. CASE o # p
    <3>1. q'[o] = q[o]
      BY <2>2, <1>2
    <3>2. KeyOk(q[o]) /\ Exact(q[o], heap, failed)
      BY DEF QuietInv
    <3>3. Exact(q[o], heap, failed')
      BY <3>2 DEF Exact
    <3> QED BY <3>1, <3>2, <3>3, <1>1
  <2> QED BY <2>1, <2>2
<1> QED BY <1>3, <1>4 DEF QuietInv

-----------------------------------------------------------------------------
(* What is known of the session a process is at.                           *)
LEMMA AtWork ==
  ASSUME IInv, NEW p \in Query, q[p].pc \in Working
  PROVE  /\ q[p] \in Process /\ q[p].todo # {}
         /\ Current(p) = Cur(q[p].todo)
         /\ Current(p) \in q[p].todo /\ Current(p) \in Session /\ Current(p) \in Sessions
         /\ KnowsOf(Current(p), q[p], heap, version)
<1>1. q[p] \in Process
  BY DEF IInv, Types
<1>2. q[p].todo # {} /\ KnowsOf(Cur(q[p].todo), q[p], heap, version)
  BY DEF IInv, Knows
<1> QED BY <1>1, <1>2, CurrentIs DEF IInv

(* The process is done with its session and has bound table for it.        *)
LEMMA PassedIs ==
  ASSUME IInv, NEW p \in Query, q[p].pc \in Working,
         NEW table \in Nat \cup {None},
         table # None /\ q[p].first[Current(p)] # None /\ Current(p) \notin q[p].coarse =>
            table >= q[p].first[Current(p)].version
  PROVE  /\ Passed(p, table) \in Process
         /\ Knows(Passed(p, table), heap, version) /\ Dated(Passed(p, table))
         /\ KeyOk(Passed(p, table))
<1> DEFINE s == Current(p)
           r == Passed(p, table)
<1>1. /\ q[p] \in Process /\ s \in Session
      /\ Knows(q[p], heap, version) /\ Dated(q[p])
  BY AtWork DEF IInv
<1>2. q[p].bound \in Bounds
  BY <1>1 DEF Process
<1>3. [q[p].bound EXCEPT ![s] = table] \in Bounds
  BY <1>1, <1>2 DEF Bounds
<1>4. /\ r.pc = "next" /\ r.todo = q[p].todo \ {s}
      /\ r.first = q[p].first /\ r.coarse = q[p].coarse
      /\ r.bound = [q[p].bound EXCEPT ![s] = table]
  BY <1>1 DEF Passed, Process
<1>5. r \in Process
  BY <1>1, <1>3 DEF Passed, Process
<1>6. Knows(r, heap, version) /\ KeyOk(r)
  BY <1>1, <1>4 DEF Knows, Working, KeyOk
<1>7. Dated(r)
  <2> SUFFICES ASSUME NEW t \in Session \ r.coarse, r.bound[t] # None, r.first[t] # None
               PROVE  r.bound[t] >= r.first[t].version
    BY DEF Dated
  <2>1. CASE t = s
    BY <2>1, <1>1, <1>2, <1>4 DEF Bounds
  <2>2. CASE t # s
    <3>1. r.bound[t] = q[p].bound[t]
      BY <2>2, <1>2, <1>4 DEF Bounds
    <3> QED BY <3>1, <1>1, <1>4 DEF Dated
  <2> QED BY <2>1, <2>2
<1> QED BY <1>5, <1>6, <1>7

(* If nothing disturbed it, that must be the table of the heap.            *)
LEMMA PassedExactly ==
  ASSUME IInv, NEW p \in Query, q[p].pc \in Working, NEW f, NEW table \in Nat \cup {None},
         Exact(q[p], heap, f),
         q[p].quiet /\ q[p].knows /\ heap[Current(p)] # None =>
            \/ table = heap[Current(p)].version
            \/ ~LoadsIn(Current(p), heap)
            \/ <<Current(p), heap>> \in f
  PROVE  Exact(Passed(p, table), heap, f)
<1> DEFINE s == Current(p)
           r == Passed(p, table)
<1>1. q[p] \in Process /\ s \in Session /\ s = Cur(q[p].todo)
  BY AtWork
<1>2. q[p].bound \in Bounds
  BY <1>1 DEF Process
<1>4. /\ r.pc = "next" /\ r.todo = q[p].todo \ {s}
      /\ r.first = q[p].first /\ r.quiet = q[p].quiet /\ r.knows = q[p].knows
      /\ r.bound = [q[p].bound EXCEPT ![s] = table]
  BY <1>1 DEF Passed, Process
<1> HIDE DEF r
<1> SUFFICES ASSUME r.quiet, r.knows PROVE
      /\ r.first = heap
      /\ \A t \in Sessions \ r.todo :
           LoadsIn(t, heap) /\ <<t, heap>> \notin f => r.bound[t] = heap[t].version
  BY <1>4 DEF Exact, Working, r
<1>5. /\ q[p].first = heap /\ heap[s] # None
      /\ \A t \in Sessions \ q[p].todo :
           LoadsIn(t, heap) /\ <<t, heap>> \notin f => q[p].bound[t] = heap[t].version
  BY <1>1, <1>4 DEF Exact, Working
<1>6. ASSUME NEW t \in Sessions \ r.todo, LoadsIn(t, heap), <<t, heap>> \notin f
      PROVE  r.bound[t] = heap[t].version
  <2>1. t \in Session
    BY SessionsAre
  <2>2. CASE t = s
    BY <2>1, <2>2, <1>2, <1>4, <1>5, <1>6 DEF Bounds
  <2>3. CASE t # s
    BY <2>1, <2>3, <1>2, <1>4, <1>5, <1>6 DEF Bounds
  <2> QED BY <2>2, <2>3
<1> QED BY <1>4, <1>5, <1>6

-----------------------------------------------------------------------------
LEMMA BeginOk ==
  ASSUME IInv, NEW p \in Query, NEW knows \in BOOLEAN, Begin(p, knows)
  PROVE  IInv' /\ (QuietInv => QuietInv')
<1> DEFINE built == {s \in Session : heap[s] # None}
           r == [Resting EXCEPT !.pc = "next", !.knows = knows, !.first = heap,
                                !.todo = built \cap Sessions]
<1>1. Goto(p, r) /\ UNCHANGED <<world, files, failed>>
  BY DEF Begin, Sessions
<1>2. heap \in Heaps
  BY DEF IInv, Types
<1>3. r \in Process
  BY <1>2, RestingIs DEF Process
<1>4. /\ r.pc = "next" /\ r.first = heap /\ r.bound = Resting.bound
      /\ r.todo = built \cap Sessions
  BY RestingIs DEF Process
<1> HIDE DEF r
<1>5. Knows(r, heap, version) /\ KeyOk(r)
  <2>1. ASSUME NEW s \in Session, heap[s] # None
        PROVE  NotOlder(s, heap[s].version, heap, version)
    <3>1. heap[s].version \in 1..version /\ version \in Nat
      BY <2>1 DEF IInv, Versions, Types
    <3> QED BY <3>1 DEF NotOlder
  <2> QED BY <2>1, <1>4 DEF Knows, Working, KeyOk
<1>6. Dated(r)
  BY <1>4, RestingIs DEF Dated
<1>7. Exact(r, heap, failed')
  BY <1>4, SessionsAre DEF Exact, LoadsIn, Working
<1>8. IInv'
  BY <1>1, <1>3, <1>5, <1>6, Moved DEF files, IInv, Types
<1>9. QuietInv => QuietInv'
  BY <1>1, <1>3, <1>5, <1>7, MovedQuietly DEF files
<1> QED BY <1>8, <1>9

LEMMA StatOk ==
  ASSUME IInv, NEW p \in Query, Stat(p)
  PROVE  IInv' /\ (QuietInv => QuietInv')
<1> DEFINE s == Current(p)
           print == Fingerprint(s)
           r == [q[p] EXCEPT !.pc = "load", !.print = print,
                             !.coarse = IF print = 0 THEN @ \cup {s} ELSE @]
<1>1. Goto(p, r) /\ UNCHANGED <<world, files, failed>> /\ q[p].pc = "next" /\ q[p].todo # {}
  BY DEF Stat
<1>2. /\ q[p] \in Process /\ heap \in Heaps /\ version \in Nat
      /\ Knows(q[p], heap, version) /\ Dated(q[p])
  BY DEF IInv, Types
<1>3. s = Cur(q[p].todo) /\ s \in q[p].todo /\ s \in Session
  BY <1>1, CurrentIs DEF IInv
<1>4. /\ heap[s] = None => print = 0
      /\ heap[s] # None => print = heap[s].version /\ print \in 1..version
  BY <1>3 DEF Fingerprint, IInv, Versions
<1>5. print \in Nat /\ NotOlder(s, print, heap, version)
  BY <1>2, <1>4 DEF NotOlder
<1> HIDE DEF print
<1>6. r \in Process
  BY <1>2, <1>3, <1>5 DEF Process, Working
<1>7. /\ r.pc = "load" /\ r.print = print /\ r.first = q[p].first /\ r.bound = q[p].bound
      /\ r.todo = q[p].todo /\ r.coarse = (IF print = 0 THEN q[p].coarse \cup {s} ELSE q[p].coarse)
      /\ r.quiet = q[p].quiet /\ r.knows = q[p].knows
  BY <1>2 DEF Process
<1> HIDE DEF r
<1>8. KnowsOf(s, r, heap, version)
  <2>1. ASSUME print > 0, r.first[s] # None PROVE r.first[s].version <= r.print
    BY <2>1, <1>2, <1>3, <1>4, <1>7 DEF Knows, NotOlder
  <2> QED BY <2>1, <1>5, <1>7 DEF KnowsOf
<1>9. Knows(r, heap, version) /\ Dated(r) /\ KeyOk(r)
  BY <1>1, <1>2, <1>3, <1>7, <1>8 DEF Knows, Dated, KeyOk
<1>10. QuietInv => Exact(r, heap, failed')
  <2>1. ASSUME QuietInv PROVE Exact(q[p], heap, failed)
    BY <2>1 DEF QuietInv
  <2> QED BY <2>1, <1>1, <1>2, <1>3, <1>4, <1>7 DEF Exact, Knows, Working
<1>11. IInv'
  BY <1>1, <1>6, <1>9, Moved DEF files, IInv, Types
<1>12. QuietInv => QuietInv'
  BY <1>1, <1>6, <1>9, <1>10, MovedQuietly DEF files
<1> QED BY <1>11, <1>12

LEMMA LoadOk ==
  ASSUME IInv, NEW p \in Query, Load(p)
  PROVE  IInv' /\ (QuietInv => QuietInv')
<1> DEFINE s == Current(p)
           c == cache[s]
<1>1. UNCHANGED <<world, files, failed>> /\ q[p].pc = "load"
  BY DEF Load
<1>2. /\ q[p] \in Process /\ s = Cur(q[p].todo) /\ s \in Session
      /\ KnowsOf(s, q[p], heap, version)
  BY <1>1, AtWork DEF Working
<1>3. Knows(q[p], heap, version) /\ Dated(q[p]) /\ heap \in Heaps /\ version \in Nat
  BY DEF IInv, Types
<1>4. CASE c # None /\ c.print = q[p].print
  <2>1. Goto(p, Passed(p, c.table))
    BY <1>4 DEF Load
  <2>2. q[p].print \in Nat
    BY <1>2 DEF KnowsOf
  <2>3. c # Torn
    BY <1>4, <2>2 DEF Torn
  <2>4. /\ c \in Cached /\ c.print <= c.table /\ NotOlder(s, c.table, heap, version)
    BY <1>2, <1>4, <2>3 DEF IInv, Types, CacheOk
  <2>5. c.table \in Nat /\ c.print \in Nat
    BY <2>4 DEF Cached
  <2>6. ASSUME q[p].first[s] # None, s \notin q[p].coarse
        PROVE  c.table >= q[p].first[s].version
    <3>1. q[p].print > 0 /\ q[p].first[s].version <= q[p].print
      BY <2>6, <2>2, <1>2 DEF KnowsOf
    <3>2. q[p].first[s].version \in Nat
      BY <1>2, <2>6 DEF Process, Heaps, Heap
    <3> QED BY <3>1, <3>2, <2>2, <2>4, <2>5, <1>4
  <2>7. /\ Passed(p, c.table) \in Process
        /\ Knows(Passed(p, c.table), heap, version) /\ Dated(Passed(p, c.table))
        /\ KeyOk(Passed(p, c.table))
    BY <1>1, <2>5, <2>6, PassedIs DEF Working
  <2>8. IInv'
    BY <1>1, <2>1, <2>7, Moved DEF files, IInv, Types
  <2>9. ASSUME QuietInv PROVE QuietInv'
    <3>1. Exact(q[p], heap, failed)
      BY <2>9 DEF QuietInv
    <3>2. ASSUME q[p].quiet, q[p].knows, heap[s] # None PROVE c.table = heap[s].version
      <4>1. q[p].print = heap[s].version
        BY <3>1, <3>2, <1>1, <1>2 DEF Exact, Working
      <4>2. c.table <= heap[s].version
        BY <2>4, <3>2 DEF NotOlder
      <4> QED BY <4>1, <4>2, <2>2, <2>4, <2>5, <1>4
    <3>3. Exact(Passed(p, c.table), heap, failed)
      BY <1>1, <2>5, <3>1, <3>2, PassedExactly DEF Working
    <3> QED BY <1>1, <2>1, <2>7, <2>9, <3>3, MovedQuietly DEF files
  <2> QED BY <2>8, <2>9
<1>5. CASE ~(c # None /\ c.print = q[p].print)
  <2> DEFINE r == [q[p] EXCEPT !.pc = "check"]
  <2>1. Goto(p, r)
    BY <1>5 DEF Load
  <2>2. /\ r \in Process
        /\ r.pc = "check" /\ r.print = q[p].print /\ r.first = q[p].first /\ r.bound = q[p].bound
        /\ r.todo = q[p].todo /\ r.coarse = q[p].coarse
        /\ r.quiet = q[p].quiet /\ r.knows = q[p].knows
    BY <1>2 DEF Process, Working
  <2> HIDE DEF r
  <2>3. Knows(r, heap, version) /\ Dated(r) /\ KeyOk(r)
    BY <1>1, <1>2, <1>3, <2>2 DEF Knows, KnowsOf, Dated, KeyOk, Working
  <2>4. IInv'
    BY <1>1, <2>1, <2>2, <2>3, Moved DEF files, IInv, Types
  <2>5. ASSUME QuietInv PROVE QuietInv'
    <3>1. Exact(q[p], heap, failed)
      BY <2>5 DEF QuietInv
    <3>2. Exact(r, heap, failed)
      BY <3>1, <1>1, <1>2, <2>2 DEF Exact, Working
    <3> QED BY <1>1, <2>1, <2>2, <2>3, <2>5, <3>2, MovedQuietly DEF files
  <2> QED BY <2>4, <2>5
<1> QED BY <1>4, <1>5

LEMMA CheckOk ==
  ASSUME IInv, NEW p \in Query, Check(p)
  PROVE  IInv' /\ (QuietInv => QuietInv')
<1> DEFINE s == Current(p)
<1>1. UNCHANGED <<world, files, failed>> /\ q[p].pc = "check"
  BY DEF Check
<1>2. /\ q[p] \in Process /\ s = Cur(q[p].todo) /\ s \in Session
      /\ KnowsOf(s, q[p], heap, version)
  BY <1>1, AtWork DEF Working
<1>3. Knows(q[p], heap, version) /\ Dated(q[p]) /\ heap \in Heaps /\ version \in Nat
  BY DEF IInv, Types
<1>4. FailKey(p) \in FailKeys /\ FailKey(p)[2] = heap /\ FailKey(p) # None
  BY <1>2, <1>3, NamespaceAssumption DEF FailKey, FailKeys, KnowsOf, Heaps, Heap
<1>5. CASE heap[s] = None \/ failure[s] = FailKey(p)
  <2>1. Goto(p, Passed(p, None))
    BY <1>5 DEF Check
  <2>2. /\ Passed(p, None) \in Process
        /\ Knows(Passed(p, None), heap, version) /\ Dated(Passed(p, None))
        /\ KeyOk(Passed(p, None))
    BY <1>1, PassedIs DEF Working
  <2>3. IInv'
    BY <1>1, <2>1, <2>2, Moved DEF files, IInv, Types
  <2>4. ASSUME QuietInv PROVE QuietInv'
    <3>1. Exact(q[p], heap, failed)
      BY <2>4 DEF QuietInv
    <3>2. heap[s] # None => <<s, heap>> \in failed
      BY <1>2, <1>4, <1>5, <2>4 DEF QuietInv, FailuresOk
    <3>3. Exact(Passed(p, None), heap, failed)
      BY <1>1, <3>1, <3>2, PassedExactly DEF Working
    <3> QED BY <1>1, <2>1, <2>2, <2>4, <3>3, MovedQuietly DEF files
  <2> QED BY <2>3, <2>4
<1>6. CASE ~(heap[s] = None \/ failure[s] = FailKey(p))
  <2> DEFINE r == [q[p] EXCEPT !.pc = "dump", !.key = FailKey(p), !.seen = heap]
  <2>1. Goto(p, r)
    BY <1>6 DEF Check
  <2>2. /\ r \in Process
        /\ r.pc = "dump" /\ r.print = q[p].print /\ r.first = q[p].first /\ r.bound = q[p].bound
        /\ r.todo = q[p].todo /\ r.coarse = q[p].coarse
        /\ r.quiet = q[p].quiet /\ r.knows = q[p].knows
        /\ r.key = FailKey(p) /\ r.seen = heap
    BY <1>2, <1>3, <1>4 DEF Process, Working
  <2> HIDE DEF r
  <2>3. Knows(r, heap, version) /\ Dated(r) /\ KeyOk(r)
    BY <1>1, <1>2, <1>3, <1>4, <2>2 DEF Knows, KnowsOf, Dated, KeyOk, Working
  <2>4. IInv'
    BY <1>1, <2>1, <2>2, <2>3, Moved DEF files, IInv, Types
  <2>5. ASSUME QuietInv PROVE QuietInv'
    <3>1. Exact(q[p], heap, failed)
      BY <2>5 DEF QuietInv
    <3>2. Exact(r, heap, failed)
      BY <3>1, <1>1, <1>2, <2>2 DEF Exact, Working
    <3> QED BY <1>1, <2>1, <2>2, <2>3, <2>5, <3>2, MovedQuietly DEF files
  <2> QED BY <2>4, <2>5
<1> QED BY <1>5, <1>6

LEMMA DumpedOk ==
  ASSUME IInv, NEW p \in Query, Dumped(p)
  PROVE  IInv' /\ (QuietInv => QuietInv')
<1> DEFINE s == Current(p)
           r == [q[p] EXCEPT !.pc = "open", !.table = heap[s].version]
<1>1. /\ Goto(p, r) /\ UNCHANGED <<world, files, failed>>
      /\ q[p].pc = "dump" /\ heap[s] # None
  BY DEF Dumped, Loads
<1>2. /\ q[p] \in Process /\ s = Cur(q[p].todo) /\ s \in Session
      /\ KnowsOf(s, q[p], heap, version)
  BY <1>1, AtWork DEF Working
<1>3. Knows(q[p], heap, version) /\ Dated(q[p]) /\ heap \in Heaps /\ version \in Nat
  BY DEF IInv, Types
<1>4. heap[s].version \in 1..version
  BY <1>1, <1>2 DEF IInv, Versions
<1>5. heap[s].version \in Nat /\ NotOlder(s, heap[s].version, heap, version)
  BY <1>3, <1>4 DEF NotOlder
<1>6. /\ r \in Process
      /\ r.pc = "open" /\ r.print = q[p].print /\ r.first = q[p].first /\ r.bound = q[p].bound
      /\ r.todo = q[p].todo /\ r.coarse = q[p].coarse
      /\ r.quiet = q[p].quiet /\ r.knows = q[p].knows /\ r.table = heap[s].version
  BY <1>2, <1>5 DEF Process, Working
<1> HIDE DEF r
<1>7. KnowsOf(s, r, heap, version)
  <2>1. r.print <= r.table
    BY <1>1, <1>2, <1>6 DEF KnowsOf, NotOlder
  <2> QED BY <2>1, <1>2, <1>5, <1>6 DEF KnowsOf
<1>8. Knows(r, heap, version) /\ Dated(r) /\ KeyOk(r)
  BY <1>1, <1>2, <1>3, <1>6, <1>7 DEF Knows, Dated, KeyOk, Working
<1>9. IInv'
  BY <1>1, <1>6, <1>8, Moved DEF files, IInv, Types
<1>10. ASSUME QuietInv PROVE QuietInv'
  <2>1. Exact(q[p], heap, failed)
    BY <1>10 DEF QuietInv
  <2>2. Exact(r, heap, failed)
    BY <2>1, <1>1, <1>2, <1>6 DEF Exact, Working
  <2> QED BY <1>1, <1>6, <1>8, <1>10, <2>2, MovedQuietly DEF files
<1> QED BY <1>9, <1>10

LEMMA DumpFailsOk ==
  ASSUME IInv, NEW p \in Query, DumpFails(p)
  PROVE  IInv' /\ (QuietInv => QuietInv')
<1> DEFINE s == Current(p)
<1>1. /\ Goto(p, Passed(p, None)) /\ UNCHANGED <<world, cache>>
      /\ q[p].pc = "dump" /\ ~(q[p].knows /\ Loads(s))
      /\ failure' = [failure EXCEPT ![s] = q[p].key]
      /\ failed' = failed \cup {<<s, q[p].seen>>}
  BY DEF DumpFails
<1>2. q[p] \in Process /\ s \in Session
  BY <1>1, AtWork DEF Working
<1>3. failure \in [Session -> FailKeys \cup {None}] /\ q[p].key \in FailKeys \cup {None}
  BY <1>2 DEF IInv, Types, Process
<1>4. failure' \in [Session -> FailKeys \cup {None}]
  BY <1>1, <1>3
<1>5. /\ Passed(p, None) \in Process
      /\ Knows(Passed(p, None), heap, version) /\ Dated(Passed(p, None))
      /\ KeyOk(Passed(p, None))
  BY <1>1, PassedIs DEF Working
<1>6. IInv'
  BY <1>1, <1>4, <1>5, Moved DEF IInv, Types
<1>7. ASSUME QuietInv PROVE QuietInv'
  <2>1. Exact(q[p], heap, failed) /\ KeyOk(q[p])
    BY <1>7 DEF QuietInv
  <2>2. Exact(q[p], heap, failed')
    BY <2>1, <1>1 DEF Exact
  <2>3. q[p].knows => ~LoadsIn(s, heap)
    BY <1>1 DEF Loads, LoadsIn
  <2>4. Exact(Passed(p, None), heap, failed')
    BY <1>1, <2>2, <2>3, PassedExactly DEF Working
  <2>5. ASSUME NEW t \in Session, failure'[t] # failure[t]
        PROVE  <<t, failure'[t][2]>> \in failed'
    <3>1. t = s /\ failure'[t] = q[p].key
      BY <1>1, <1>3, <2>5
    <3> QED BY <3>1, <1>1, <2>1 DEF KeyOk
  <2>6. failed \subseteq failed'
    BY <1>1
  <2> QED BY <1>1, <1>5, <1>7, <2>4, <2>5, <2>6, MovedQuietly
<1> QED BY <1>6, <1>7

LEMMA TimesOutOk ==
  ASSUME IInv, NEW p \in Query, TimesOut(p)
  PROVE  IInv' /\ (QuietInv => QuietInv')
<1> DEFINE o == Passed(p, None)
           r == [o EXCEPT !.quiet = FALSE]
<1>1. Goto(p, r) /\ UNCHANGED <<world, files, failed>> /\ q[p].pc = "dump"
  BY DEF TimesOut
<1>2. o \in Process /\ Knows(o, heap, version) /\ Dated(o) /\ KeyOk(o)
  BY <1>1, PassedIs DEF Working
<1> HIDE DEF o
<1>3. /\ r \in Process
      /\ r.pc = o.pc /\ r.print = o.print /\ r.first = o.first /\ r.bound = o.bound
      /\ r.todo = o.todo /\ r.coarse = o.coarse /\ r.table = o.table
      /\ r.key = o.key /\ r.seen = o.seen /\ ~r.quiet
  BY <1>2 DEF Process
<1> HIDE DEF r
<1>4. /\ Knows(r, heap, version) /\ Dated(r)
      /\ KeyOk(r) /\ Exact(r, heap, failed')
  BY <1>2, <1>3 DEF Knows, KnowsOf, Dated, KeyOk, Exact
<1>5. IInv'
  BY <1>1, <1>3, <1>4, Moved DEF files, IInv, Types
<1>6. QuietInv => QuietInv'
  BY <1>1, <1>3, <1>4, MovedQuietly DEF files
<1> QED BY <1>5, <1>6

LEMMA OpenOk ==
  ASSUME IInv, NEW p \in Query, Open(p)
  PROVE  IInv' /\ (QuietInv => QuietInv')
<1> DEFINE s == Current(p)
           r == [q[p] EXCEPT !.pc = "write"]
<1>1. /\ Goto(p, r) /\ UNCHANGED <<world, failure, failed>>
      /\ q[p].pc = "open" /\ cache' = [cache EXCEPT ![s] = Torn]
  BY DEF Open
<1>2. /\ q[p] \in Process /\ s = Cur(q[p].todo) /\ s \in Session
      /\ KnowsOf(s, q[p], heap, version)
  BY <1>1, AtWork DEF Working
<1>3. Knows(q[p], heap, version) /\ Dated(q[p]) /\ heap \in Heaps /\ version \in Nat
  BY DEF IInv, Types
<1>4. /\ r \in Process
      /\ r.pc = "write" /\ r.print = q[p].print /\ r.first = q[p].first /\ r.bound = q[p].bound
      /\ r.todo = q[p].todo /\ r.coarse = q[p].coarse
      /\ r.quiet = q[p].quiet /\ r.knows = q[p].knows /\ r.table = q[p].table
  BY <1>2 DEF Process, Working
<1> HIDE DEF r
<1>5. Knows(r, heap, version) /\ Dated(r) /\ KeyOk(r)
  BY <1>1, <1>2, <1>3, <1>4 DEF Knows, KnowsOf, Dated, KeyOk, Working
<1>6. /\ cache' \in [Session -> Cached \cup {Torn, None}]
      /\ \A t \in Session : cache'[t] \in {cache[t], Torn}
  BY <1>1, <1>2 DEF IInv, Types
<1>7. failure' \in [Session -> FailKeys \cup {None}]
  BY <1>1 DEF IInv, Types
<1>8. IInv'
  BY <1>1, <1>4, <1>5, <1>6, <1>7, Moved
<1>9. ASSUME QuietInv PROVE QuietInv'
  <2>1. Exact(q[p], heap, failed)
    BY <1>9 DEF QuietInv
  <2>2. Exact(r, heap, failed)
    BY <2>1, <1>1, <1>2, <1>4 DEF Exact, Working
  <2> QED BY <1>1, <1>4, <1>5, <1>9, <2>2, MovedQuietly
<1> QED BY <1>8, <1>9

LEMMA WriteCacheOk ==
  ASSUME IInv, NEW p \in Query, WriteCache(p)
  PROVE  IInv' /\ (QuietInv => QuietInv')
<1> DEFINE s == Current(p)
           table == q[p].table
           own == [print |-> q[p].print, table |-> table]
<1>1. /\ Goto(p, Passed(p, table)) /\ UNCHANGED <<world, failure, failed>>
      /\ q[p].pc = "write"
  BY DEF WriteCache
<1>2. PICK text \in {own, Torn} : cache' = [cache EXCEPT ![s] = text]
  BY DEF WriteCache, OwnPrint
<1>3. /\ q[p] \in Process /\ s = Cur(q[p].todo) /\ s \in Session
      /\ KnowsOf(s, q[p], heap, version)
  BY <1>1, AtWork DEF Working
<1>4. /\ table \in Nat /\ q[p].print \in Nat
      /\ NotOlder(s, table, heap, version) /\ q[p].print <= table
  BY <1>1, <1>3 DEF KnowsOf
<1>5. own \in Cached /\ own.print = q[p].print /\ own.table = table
  BY <1>4 DEF Cached
<1> HIDE DEF own
<1>6. cache' \in [Session -> Cached \cup {Torn, None}]
  BY <1>2, <1>3, <1>5 DEF IInv, Types
<1>7. ASSUME NEW t \in Session, cache'[t] \notin {cache[t], None, Torn}
      PROVE  cache'[t].print <= cache'[t].table /\ NotOlder(t, cache'[t].table, heap, version)
  <2>1. t = s /\ cache'[t] = own
    BY <1>2, <1>3, <1>7 DEF IInv, Types
  <2> QED BY <2>1, <1>4, <1>5
<1>8. ASSUME q[p].first[s] # None, s \notin q[p].coarse
      PROVE  table >= q[p].first[s].version
  <2>1. q[p].print > 0 /\ q[p].first[s].version <= q[p].print
    BY <1>3, <1>4, <1>8 DEF KnowsOf
  <2>2. q[p].first[s].version \in Nat
    BY <1>3, <1>8 DEF Process, Heaps, Heap
  <2> QED BY <2>1, <2>2, <1>4
<1>9. /\ Passed(p, table) \in Process
      /\ Knows(Passed(p, table), heap, version) /\ Dated(Passed(p, table))
      /\ KeyOk(Passed(p, table))
  BY <1>1, <1>4, <1>8, PassedIs DEF Working
<1>10. failure' \in [Session -> FailKeys \cup {None}]
  BY <1>1 DEF IInv, Types
<1>11. IInv'
  BY <1>1, <1>6, <1>7, <1>9, <1>10, Moved
<1>12. ASSUME QuietInv PROVE QuietInv'
  <2>1. Exact(q[p], heap, failed)
    BY <1>12 DEF QuietInv
  <2>2. ASSUME q[p].quiet, q[p].knows, heap[s] # None PROVE table = heap[s].version
    BY <2>1, <2>2, <1>1, <1>3 DEF Exact, Working
  <2>3. Exact(Passed(p, table), heap, failed)
    BY <1>1, <1>4, <2>1, <2>2, PassedExactly DEF Working
  <2> QED BY <1>1, <1>9, <1>12, <2>3, MovedQuietly
<1> QED BY <1>11, <1>12

LEMMA RaisesOk ==
  ASSUME IInv, NEW p \in Query, Raises(p)
  PROVE  IInv' /\ (QuietInv => QuietInv')
<1> DEFINE r == [q[p] EXCEPT !.pc = "answer", !.todo = {}, !.source = "default",
                             !.bound = NoHeap, !.quiet = FALSE]
<1>1. Goto(p, r) /\ UNCHANGED <<world, files, failed>>
  BY DEF Raises
<1>2. /\ q[p] \in Process /\ Knows(q[p], heap, version)
      /\ NoHeap \in Bounds /\ \A s \in Session : NoHeap[s] = None
  BY DEF IInv, Types, NoHeap, Bounds
<1>3. /\ r \in Process
      /\ r.pc = "answer" /\ r.first = q[p].first /\ r.bound = NoHeap
      /\ r.todo = {} /\ r.coarse = q[p].coarse /\ ~r.quiet
  BY <1>2 DEF Process
<1> HIDE DEF r
<1>4. /\ Knows(r, heap, version) /\ Dated(r)
      /\ KeyOk(r) /\ Exact(r, heap, failed')
  BY <1>2, <1>3 DEF Knows, Working, Dated, KeyOk, Exact
<1>5. IInv'
  BY <1>1, <1>3, <1>4, Moved DEF files, IInv, Types
<1>6. QuietInv => QuietInv'
  BY <1>1, <1>3, <1>4, MovedQuietly DEF files
<1> QED BY <1>5, <1>6

LEMMA BindOk ==
  ASSUME IInv, NEW p \in Query, Bind(p)
  PROVE  IInv' /\ (QuietInv => QuietInv')
<1> DEFINE source == IF \A s \in Session : q[p].bound[s] = None THEN "committed" ELSE "isabelle"
           r == [q[p] EXCEPT !.pc = "answer", !.source = source]
<1>1. /\ Goto(p, r) /\ UNCHANGED <<world, files, failed>>
      /\ q[p].pc = "next" /\ q[p].todo = {}
  BY DEF Bind
<1>2. q[p] \in Process /\ Knows(q[p], heap, version) /\ Dated(q[p])
  BY DEF IInv, Types
<1>3. source \in {"committed", "isabelle"}
  OBVIOUS
<1> HIDE DEF source
<1>4. /\ r \in Process
      /\ r.pc = "answer" /\ r.first = q[p].first /\ r.bound = q[p].bound
      /\ r.todo = q[p].todo /\ r.coarse = q[p].coarse
      /\ r.quiet = q[p].quiet /\ r.knows = q[p].knows
  BY <1>2, <1>3 DEF Process
<1> HIDE DEF r
<1>5. Knows(r, heap, version) /\ Dated(r) /\ KeyOk(r)
  BY <1>2, <1>4 DEF Knows, Working, Dated, KeyOk
<1>6. IInv'
  BY <1>1, <1>4, <1>5, Moved DEF files, IInv, Types
<1>7. ASSUME QuietInv PROVE QuietInv'
  <2>1. Exact(q[p], heap, failed)
    BY <1>7 DEF QuietInv
  <2>2. Exact(r, heap, failed)
    BY <2>1, <1>1, <1>4 DEF Exact, Working
  <2> QED BY <1>1, <1>4, <1>5, <1>7, <2>2, MovedQuietly DEF files
<1> QED BY <1>6, <1>7

(* The process ends, or is killed: the files stay as they are.             *)
LEMMA EndOk ==
  ASSUME IInv, NEW p \in Query, Answer(p) \/ Kill(p)
  PROVE  IInv' /\ (QuietInv => QuietInv')
<1>1. Goto(p, Resting) /\ UNCHANGED <<world, files, failed>>
  BY DEF Answer, Kill
<1>2. IInv'
  BY <1>1, RestingIs, RestingOk, Moved DEF files, IInv, Types
<1>3. QuietInv => QuietInv'
  BY <1>1, RestingIs, RestingOk, MovedQuietly DEF files
<1> QED BY <1>2, <1>3

-----------------------------------------------------------------------------
(* A build gives a session a heap newer than every other, and a heap that  *)
(* is removed is no heap: what was not older than a heap stays so.         *)
LEMMA WorldMoves ==
  ASSUME IInv, heap' \in Heaps, version' \in Nat, version <= version',
         q' = Unquiet, UNCHANGED <<files, failed>>,
         NEW s \in Session, \A t \in Session \ {s} : heap'[t] = heap[t],
         heap'[s] # None => heap'[s].version \in Nat
                            /\ version < heap'[s].version /\ heap'[s].version <= version'
  PROVE  IInv' /\ (QuietInv => QuietInv')
<1>1. /\ heap \in Heaps /\ version \in Nat /\ q \in [Query -> Process]
      /\ cache \in [Session -> Cached \cup {Torn, None}]
      /\ failure \in [Session -> FailKeys \cup {None}]
      /\ cache' = cache /\ failure' = failure /\ failed' = failed
  BY DEF IInv, Types, files
<1>2. ASSUME NEW o \in Query
      PROVE  /\ q'[o] \in Process
             /\ q'[o].pc = q[o].pc /\ q'[o].print = q[o].print /\ q'[o].first = q[o].first
             /\ q'[o].bound = q[o].bound /\ q'[o].todo = q[o].todo /\ q'[o].coarse = q[o].coarse
             /\ q'[o].table = q[o].table /\ q'[o].key = q[o].key /\ q'[o].seen = q[o].seen
             /\ q[o].pc = "idle" \/ ~q'[o].quiet
  <2> DEFINE r == [q[o] EXCEPT !.quiet = FALSE]
  <2>1. q[o] \in Process
    BY <1>1
  <2>2. /\ r \in Process
        /\ r.pc = q[o].pc /\ r.print = q[o].print /\ r.first = q[o].first
        /\ r.bound = q[o].bound /\ r.todo = q[o].todo /\ r.coarse = q[o].coarse
        /\ r.table = q[o].table /\ r.key = q[o].key /\ r.seen = q[o].seen
        /\ ~r.quiet
    BY <2>1 DEF Process
  <2>3. q'[o] = IF q[o].pc = "idle" THEN q[o] ELSE r
    BY DEF Unquiet
  <2> HIDE DEF r
  <2>4. CASE q[o].pc = "idle"
    BY <2>1, <2>3, <2>4
  <2>5. CASE q[o].pc # "idle"
    BY <2>2, <2>3, <2>5
  <2> QED BY <2>4, <2>5
<1>3. q' \in [Query -> Process]
  <2>1. q' = [o \in Query |-> q'[o]]
    BY DEF Unquiet
  <2> QED BY <2>1, <1>2
<1>4. Types'
  BY <1>1, <1>3 DEF Types
<1>5. Versions'
  BY <1>1 DEF Versions, IInv
<1>6. ASSUME NEW t \in Session, NEW v \in Nat, NotOlder(t, v, heap, version)
      PROVE  NotOlder(t, v, heap', version')
  BY <1>1, <1>6 DEF NotOlder
<1>7. CacheOk'
  <2> SUFFICES ASSUME NEW t \in Session, cache[t] \notin {None, Torn}
               PROVE  cache[t].print <= cache[t].table /\ NotOlder(t, cache[t].table, heap', version')
    BY <1>1 DEF CacheOk
  <2>1. cache[t].table \in Nat
    BY <1>1 DEF Cached
  <2> QED BY <2>1, <1>6 DEF IInv, CacheOk
<1>8. ASSUME NEW o \in Query PROVE Knows(q'[o], heap', version') /\ Dated(q'[o])
  <2>1. q[o] \in Process /\ Knows(q[o], heap, version) /\ Dated(q[o])
    BY <1>1 DEF IInv
  <2>2. Dated(q'[o])
    BY <2>1, <1>2 DEF Dated
  <2>3. ASSUME NEW t \in Session, q'[o].first[t] # None
        PROVE  NotOlder(t, q'[o].first[t].version, heap', version')
    <3>1. q[o].first[t].version \in Nat /\ q'[o].first[t] = q[o].first[t]
      BY <1>2, <2>1, <2>3 DEF Process, Heaps, Heap
    <3> QED BY <3>1, <2>1, <2>3, <1>6 DEF Knows
  <2>4. ASSUME q'[o].pc \in Working
        PROVE  q'[o].todo # {} /\ KnowsOf(Cur(q'[o].todo), q'[o], heap', version')
    <3>1. q[o].todo # {} /\ KnowsOf(Cur(q[o].todo), q[o], heap, version)
      BY <2>1, <2>4, <1>2 DEF Knows
    <3>2. Cur(q[o].todo) \in Session
      BY <2>1, <3>1, CurIs, SessionsAre DEF Process
    <3> QED BY <3>1, <3>2, <1>2, <1>6 DEF KnowsOf
  <2>5. \A t \in q'[o].todo : q'[o].first[t] # None
    BY <2>1, <1>2 DEF Knows
  <2> QED BY <2>2, <2>3, <2>4, <2>5 DEF Knows
<1>9. IInv'
  BY <1>4, <1>5, <1>7, <1>8 DEF IInv
<1>10. QuietInv => QuietInv'
  <2> SUFFICES ASSUME QuietInv PROVE QuietInv'
    OBVIOUS
  <2>1. FailuresOk'
    BY <1>1 DEF QuietInv, FailuresOk
  <2>2. ASSUME NEW o \in Query PROVE KeyOk(q'[o]) /\ Exact(q'[o], heap', failed')
    BY <1>2 DEF QuietInv, KeyOk, Exact
  <2> QED BY <2>1, <2>2 DEF QuietInv
<1> QED BY <1>9, <1>10

LEMMA BuildOk ==
  ASSUME IInv, NEW s \in Session, Build(s)
  PROVE  IInv' /\ (QuietInv => QuietInv')
<1> DEFINE over == IF Parent[s] = None THEN 0 ELSE heap[Parent[s]].version
           new == [version |-> version + 1, over |-> over]
<1>1. /\ Parent[s] # None => heap[Parent[s]] # None
      /\ version' = version + 1 /\ heap' = [heap EXCEPT ![s] = new]
      /\ q' = Unquiet /\ UNCHANGED <<files, failed>>
  BY DEF Build
<1>2. heap \in Heaps /\ version \in Nat
  BY DEF IInv, Types
<1>3. over \in Nat
  BY <1>1, <1>2, NamespaceAssumption DEF Heaps, Heap
<1> HIDE DEF over
<1>4. new \in Heap /\ new.version = version + 1
  BY <1>2, <1>3 DEF Heap
<1> HIDE DEF new
<1>5. heap' \in Heaps /\ heap'[s] = new /\ \A t \in Session \ {s} : heap'[t] = heap[t]
  BY <1>1, <1>2, <1>4 DEF Heaps
<1>6. version' \in Nat /\ version <= version'
  BY <1>1, <1>2
<1>7. /\ heap'[s].version \in Nat
      /\ version < heap'[s].version /\ heap'[s].version <= version'
  BY <1>1, <1>2, <1>4, <1>5
<1> QED BY <1>1, <1>5, <1>6, <1>7, WorldMoves

LEMMA RemoveOk ==
  ASSUME IInv, NEW s \in Session, Remove(s)
  PROVE  IInv' /\ (QuietInv => QuietInv')
<1>1. /\ version' = version /\ heap' = [heap EXCEPT ![s] = None]
      /\ q' = Unquiet /\ UNCHANGED <<files, failed>>
  BY DEF Remove
<1>2. heap \in Heaps /\ version \in Nat
  BY DEF IInv, Types
<1>3. heap' \in Heaps /\ heap'[s] = None /\ \A t \in Session \ {s} : heap'[t] = heap[t]
  BY <1>1, <1>2 DEF Heaps
<1>4. version' \in Nat /\ version <= version'
  BY <1>1, <1>2
<1> QED BY <1>1, <1>3, <1>4, WorldMoves

-----------------------------------------------------------------------------
LEMMA Step ==
  ASSUME IInv, [Next]_vars
  PROVE  IInv' /\ (QuietInv => QuietInv')
<1>1. ASSUME NEW s \in Session, Build(s) \/ Remove(s)
      PROVE  IInv' /\ (QuietInv => QuietInv')
  BY <1>1, BuildOk, RemoveOk
<1>2. ASSUME NEW p \in Query, \E knows \in BOOLEAN : Begin(p, knows)
      PROVE  IInv' /\ (QuietInv => QuietInv')
  BY <1>2, BeginOk
<1>3. ASSUME NEW p \in Query, Resolve(p)
      PROVE  IInv' /\ (QuietInv => QuietInv')
  BY <1>3, StatOk, LoadOk, CheckOk, DumpedOk, DumpFailsOk, TimesOutOk, OpenOk, WriteCacheOk,
     RaisesOk, BindOk, EndOk DEF Resolve
<1>4. ASSUME NEW p \in Query, Kill(p)
      PROVE  IInv' /\ (QuietInv => QuietInv')
  BY <1>4, EndOk
<1>5. CASE UNCHANGED vars
  BY <1>5 DEF vars, world, files, IInv, Types, Versions, CacheOk, QuietInv, FailuresOk
<1> QED BY <1>1, <1>2, <1>3, <1>4, <1>5 DEF Next

(* What is cached and what a process knows is never newer than the heap it *)
(* is of, nor older than its fingerprint, whatever is built, removed, cut  *)
(* short or killed.                                                        *)
THEOREM Inductive == Spec => [](IInv /\ QuietInv)
<1>1. Init => IInv /\ QuietInv
  BY Initially
<1>2. (IInv /\ QuietInv) /\ [Next]_vars => (IInv /\ QuietInv)'
  BY Step
<1> QED BY <1>1, <1>2, PTL DEF Spec

(* A bound table is not older than the heap its query found at first.      *)
THEOREM NothingOutdatedIsBound == Spec => []NotOutdated
<1>1. IInv => NotOutdated
  BY DEF IInv, Dated, NotOutdated
<1> QED BY <1>1, Inductive, PTL

(* An undisturbed query binds the table of every heap that loads.          *)
THEOREM QuietQueriesAreExact == Spec => []ExactWhenQuiet
<1>1. IInv /\ QuietInv => ExactWhenQuiet
  <2> SUFFICES ASSUME QuietInv, NEW p \in Query,
                      q[p].pc = "answer", q[p].quiet, q[p].knows,
                      NEW i \in DOMAIN Project, Loads(Project[i]), <<Project[i], heap>> \notin failed
               PROVE  q[p].bound[Project[i]] = heap[Project[i]].version
    BY DEF ExactWhenQuiet
  <2>1. Exact(q[p], heap, failed) /\ Project[i] \in Sessions
    BY DEF QuietInv, Sessions
  <2> QED BY <2>1 DEF Exact, Loads, LoadsIn
<1> QED BY <1>1, Inductive, PTL
=============================================================================
