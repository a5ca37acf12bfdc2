-------------------------- MODULE ThinClientProofs --------------------------
(***************************************************************************)
(* Proofs about ThinClient, for any servers, settings and number of        *)
(* builds.                                                                 *)
(*                                                                         *)
(* The invocation works from a list of rows read once, while others start, *)
(* end and prune servers.  The argument: a server that refused once never  *)
(* listens again, so that pruning its row later harms nobody; the build    *)
(* the payload names is never newer than the one asked for, nor than that  *)
(* of a server that was found compatible; a server the invocation started  *)
(* is on its list or still boots; and what leaves for the cold path wrote  *)
(* nothing.  Most steps land in a place where no candidates are known      *)
(* (Lands) while servers only go (Shrinks): one lemma, DepartureKeeps,     *)
(* serves them all.                                                        *)
(***************************************************************************)
EXTENDS ThinClient, FiniteSetTheorems, TLAPS

(* The candidates of a discovery are servers that somebody started, and     *)
(* the one to prune has stopped listening for good: who listens once never  *)
(* does so again.                                                           *)
Candidacy ==
  /\ \A s \in Host : name[s] = "host"
  /\ me.seen \cap later = {} /\ \A s \in me.seen : name[s] # "none"
  /\ me.old # None => me.old \in Server /\ name[me.old] \in {"default", "fallback"}
  /\ At("prune") \/ At("shutdown") =>
       me.conn \in Server /\ name[me.conn] \in {"default", "fallback"}
  /\ At("prune") => me.conn \notin later /\ ~Listens(me.conn)

(* Whoever is asked is not older than the payload.                          *)
Builds ==
  /\ \A s \in DOMAIN up : up[s] <= jar
  /\ me.id <= jar
  /\ At("scan") \/ At("prune") => me.id <= me.stamp /\ me.stamp <= jar
  /\ (At("query") \/ At("await")) /\ Listens(me.conn) => me.id <= up[me.conn]
  /\ StaleOnlyIfRebuilt

(* The cold path is left what nothing has been written of.                  *)
Output == AnsweredOnce /\ (~At("exit") /\ me.rc = 97 => me.out = "none")

(* A server of this invocation is known to it, or the one that boots.       *)
Ownership ==
  /\ DOMAIN up \cap Launch \subseteq me.owned \cup (IF At("boot") THEN {Mine} ELSE {})
  /\ At("shim") \/ At("exit") => me.owned = {}

IInv == TypeOK /\ Candidacy /\ Builds /\ Output /\ Ownership

-----------------------------------------------------------------------------
(* A client stays one when fields are given values of their types.          *)
LEMMA Updates ==
  ASSUME NEW r \in Client
  PROVE  /\ \A i \in 0..MaxBuild : [r EXCEPT !.id = i] \in Client
         /\ \A t \in Launch : [r EXCEPT !.tries = t] \in Client
         /\ \A servers \in SUBSET Server : [r EXCEPT !.seen = servers] \in Client
         /\ \A c \in Server \cup {None} : [r EXCEPT !.conn = c] \in Client
         /\ \A w \in {"none", "default", "fallback"} : [r EXCEPT !.want = w] \in Client
<1>1. ASSUME NEW i \in 0..MaxBuild PROVE [r EXCEPT !.id = i] \in Client
  BY DEF Client
<1>2. ASSUME NEW t \in Launch PROVE [r EXCEPT !.tries = t] \in Client
  BY DEF Client
<1>3. ASSUME NEW servers \in SUBSET Server PROVE [r EXCEPT !.seen = servers] \in Client
  BY DEF Client
<1>4. ASSUME NEW c \in Server \cup {None} PROVE [r EXCEPT !.conn = c] \in Client
  BY DEF Client
<1>5. ASSUME NEW w \in {"none", "default", "fallback"} PROVE [r EXCEPT !.want = w] \in Client
  BY DEF Client
<1> QED BY <1>1, <1>2, <1>3, <1>4, <1>5

LEMMA FreshTyped == \A set \in Setting : Fresh(set) \in Client
<1>1. "none" \in Reason /\ "request" \in Place /\ 1 \in Launch
  BY DEF Reason, Place, Launch
<1>2. 0 \in 0..MaxBuild
  BY BuildAssumption
<1> QED BY <1>1, <1>2 DEF Fresh, Client

LEMMA OnwardTyped ==
  ASSUME me \in Client
  PROVE  \A place \in Place : Onward(place) \in Client
<1>1. /\ me.set \in Setting /\ me.tries \in Launch /\ me.id \in 0..MaxBuild
      /\ me.owned \in SUBSET Launch
  BY DEF Client
<1>2. Fresh(me.set) \in Client
  BY FreshTyped, <1>1
<1> QED BY ZenonT(30), <1>1, <1>2 DEF Onward, Client

(* What a step does to the invocation that forgets the discovery. *)
Lands(place) ==
  /\ me' \in Client /\ me'.pc = place /\ me'.id = me.id /\ me'.owned = me.owned
  /\ me'.seen = {} /\ me'.old = None /\ me'.out = "none"

LEMMA OnwardLands ==
  ASSUME me \in Client, NEW place \in Place, me' = Onward(place)
  PROVE  Lands(place) /\ me'.why = "none"
<1>1. me' \in Client
  BY OnwardTyped
<1> QED BY <1>1 DEF Onward, Fresh, Lands

LEMMA ConnectLands ==
  ASSUME me \in Client, NEW place \in Place, NEW c \in Server \cup {None},
         me' = [Onward(place) EXCEPT !.conn = c]
  PROVE  Lands(place) /\ me'.conn = c /\ me'.why = "none"
<1>1. me' \in Client
  BY OnwardTyped, Updates
<1> QED BY <1>1 DEF Onward, Fresh, Lands

LEMMA WantLands ==
  ASSUME me \in Client, NEW w \in {"none", "default", "fallback"},
         me' = [Onward("launch") EXCEPT !.want = w]
  PROVE  Lands("launch") /\ me'.why = "none"
<1>1. me' \in Client
  BY OnwardTyped, Updates DEF Place
<1> QED BY <1>1 DEF Onward, Fresh, Lands

LEMMA FinishLands ==
  ASSUME me \in Client, NEW status \in {0, 2, 97, 130, 141}, NEW reason \in Reason,
         Finish(status, reason)
  PROVE  Lands("close") /\ me'.why = reason
<1>1. ASSUME NEW r \in Client, NEW b \in BOOLEAN
      PROVE  [r EXCEPT !.sent = b, !.rc = status, !.why = reason] \in Client
  BY ZenonT(30) DEF Client
<1>2. Onward("close") \in Client
  BY OnwardTyped DEF Place
<1>3. me.sent \in BOOLEAN
  BY DEF Client
<1>4. me' \in Client
  BY <1>1, <1>2, <1>3 DEF Finish
<1> QED BY <1>4 DEF Finish, Onward, Fresh, Lands

LEMMA DeclineLands ==
  ASSUME me \in Client, NEW reason \in Reason, Decline(reason)
  PROVE  Lands("close") /\ me'.why = reason
BY FinishLands DEF Decline

LEMMA RetryLands ==
  ASSUME me \in Client, Retry
  PROVE  \/ Lands("close") /\ me'.why = "lost"
         \/ Lands("connect") /\ me'.why = "none"
<1>1. CASE me' = [Onward("connect") EXCEPT !.tries = 2]
  <2>1. me' \in Client
    BY <1>1, OnwardTyped, Updates DEF Launch, Place
  <2> QED BY <1>1, <2>1 DEF Onward, Fresh, Lands
<1>2. CASE Decline("lost")
  BY <1>2, DeclineLands DEF Reason
<1> QED BY <1>1, <1>2 DEF Retry

-----------------------------------------------------------------------------
(* A step to a place where nothing is known about the rows, while servers   *)
(* may end and rows go, keeps the invariant if the place is one for which   *)
(* whoever is connected is fit.                                             *)
Shrinks ==
  /\ UNCHANGED others /\ rows' \subseteq rows
  /\ \E gone \in SUBSET Server : up' = Without(gone)

Departs ==
  /\ me' \in Client /\ me'.pc \notin {"scan", "prune", "boot", "shim", "exit"}
  /\ me'.id = me.id /\ me'.owned = me.owned /\ me'.seen = {} /\ me'.old = None
  /\ me'.out # "twice" /\ (me'.rc = 97 => me'.out = "none")
  /\ me'.why = "stale" => me.id < jar
  /\ me'.pc = "shutdown" => me'.conn \in Server /\ name[me'.conn] \in {"default", "fallback"}
  /\ me'.pc \in {"query", "await"} /\ Listens(me'.conn) => me.id <= up[me'.conn]
  /\ DOMAIN up' \cap Launch \subseteq me.owned

LEMMA DepartureKeeps ==
  ASSUME IInv, Shrinks, Departs
  PROVE  IInv'
<1> PICK gone \in SUBSET Server : up' = Without(gone)
  BY DEF Shrinks
<1>1. DOMAIN up' \subseteq DOMAIN up /\ \A s \in DOMAIN up' : up'[s] = up[s]
  BY DEF Without
<1>2. up' \in [DOMAIN up' -> 0..MaxBuild]
  BY <1>1 DEF Without, IInv, TypeOK, WorldType
<1>3. TypeOK'
  BY <1>1, <1>2 DEF Shrinks, Departs, IInv, TypeOK, WorldType, others
<1>4. Candidacy'
  BY DEF Shrinks, Departs, IInv, Candidacy, others, At
<1>5. Builds'
  BY <1>1
     DEF Shrinks, Departs, IInv, Builds, StaleOnlyIfRebuilt, TypeOK, WorldType, others, At,
         Listens
<1>6. Output' /\ Ownership'
  BY DEF Shrinks, Departs, Output, AnsweredOnce, Ownership, At
<1> QED BY <1>3, <1>4, <1>5, <1>6 DEF IInv

LEMMA StillShrinks ==
  ASSUME IInv, UNCHANGED <<others, shared>>
  PROVE  Shrinks
<1>1. up = Without({})
  BY DEF Without, IInv, TypeOK, WorldType
<1> QED BY <1>1 DEF Shrinks, shared

LEMMA NoneLaunched ==
  ASSUME IInv, ~At("boot")
  PROVE  DOMAIN up \cap Launch \subseteq me.owned
BY DEF IInv, Ownership

-----------------------------------------------------------------------------
LEMMA RequestKeeps ==
  ASSUME IInv, Request \/ RefuseHost \/ Discover
  PROVE  IInv'
<1>0. me \in Client /\ jar \in 0..MaxBuild
  BY BuildAssumption DEF IInv, TypeOK, WorldType
<1>1. CASE Request
  <2>1. /\ me' \in Client /\ me'.pc = "connect" /\ me'.id = jar /\ me'.owned = me.owned
        /\ me'.seen = {} /\ me'.old = None /\ me'.out = "none" /\ me'.why = "none"
    <3>1. Onward("connect") \in Client
      BY <1>0, OnwardTyped DEF Place
    <3>2. me' \in Client
      BY <1>0, <1>1, <3>1, Updates DEF Request
    <3> QED BY <1>1, <3>2 DEF Request, Onward, Fresh
  <2>2. UNCHANGED <<others, shared>> /\ DOMAIN up \cap Launch \subseteq me.owned
    BY <1>1, NoneLaunched DEF Request, At
  <2>3. TypeOK' /\ Candidacy' /\ Output' /\ Ownership'
    BY <2>1, <2>2 DEF IInv, TypeOK, WorldType, Candidacy, Output, AnsweredOnce, Ownership, At,
       others, shared, Listens
  <2>4. Builds'
    BY <2>1, <2>2, <1>0 DEF IInv, Builds, StaleOnlyIfRebuilt, At, others, shared, Listens
  <2> QED BY <2>3, <2>4 DEF IInv
<1>2. CASE RefuseHost
  <2>1. Lands("close") /\ me'.why = "host"
    BY <1>0, <1>2, DeclineLands DEF RefuseHost, Reason
  <2>2. Shrinks /\ Departs
    BY <1>2, <2>1, StillShrinks, NoneLaunched DEF RefuseHost, Lands, Departs, At, shared
  <2> QED BY <2>2, DepartureKeeps
<1>3. CASE Discover
  <2> DEFINE named == \E s \in rows : name[s] = me.set.name
  <2>1. /\ me' \in Client /\ me'.pc = "scan" /\ me'.id = me.id /\ me'.owned = me.owned
        /\ me'.stamp = jar /\ me'.seen = Candidates /\ me'.old = None
        /\ me'.out = "none" /\ me'.why = "none"
    <3>1. Onward("scan") \in Client /\ Candidates \in SUBSET Server /\ named \in BOOLEAN
      BY <1>0, OnwardTyped DEF Place, Candidates, IInv, TypeOK, WorldType
    <3>2. ASSUME NEW r \in Client, NEW b \in BOOLEAN, NEW c \in SUBSET Server
          PROVE  [r EXCEPT !.stamp = jar, !.seen = c, !.named = b] \in Client
      BY <1>0 DEF Client
    <3>3. me' \in Client
      BY <1>3, <3>1, <3>2 DEF Discover
    <3> QED BY <1>3, <3>3 DEF Discover, Onward, Fresh
  <2>2. UNCHANGED <<others, shared>> /\ DOMAIN up \cap Launch \subseteq me.owned
    BY <1>3, NoneLaunched DEF Discover, At
  <2>3. TypeOK' /\ Output' /\ Ownership'
    BY <2>1, <2>2 DEF IInv, TypeOK, WorldType, Output, AnsweredOnce, Ownership, At, others, shared
  <2>4. Candidacy'
    <3>1. me.set.name \in {"default", "host"}
      BY <1>0, SettingAssumption DEF Client
    <3> QED BY <2>1, <2>2, <3>1
       DEF IInv, TypeOK, WorldType, Candidacy, Candidates, At, others, shared
  <2>5. Builds'
    BY <2>1, <2>2, <1>0 DEF IInv, Builds, StaleOnlyIfRebuilt, At, others, shared, Listens
  <2> QED BY <2>3, <2>4, <2>5 DEF IInv
<1> QED BY <1>1, <1>2, <1>3

(* What stays as it is while candidates are tried. *)
Tries ==
  /\ me' \in Client /\ me'.pc \in {"scan", "prune"}
  /\ me'.id = me.id /\ me'.owned = me.owned /\ me'.stamp = me.stamp
  /\ me'.out = me.out /\ me'.rc = me.rc /\ me'.why = me.why
  /\ me'.seen \subseteq me.seen

LEMMA TryingKeeps ==
  ASSUME IInv, At("scan") \/ At("prune"), Tries, UNCHANGED others, UNCHANGED up,
         rows' \subseteq rows,
         me'.old # None => me'.old \in Server /\ name[me'.old] \in {"default", "fallback"},
         me'.pc = "prune" => /\ me'.conn \in Server /\ name[me'.conn] \in {"default", "fallback"}
                             /\ me'.conn \notin later /\ ~Listens(me'.conn)
  PROVE  IInv'
<1>1. TypeOK'
  BY DEF IInv, TypeOK, WorldType, Tries, others
<1>2. Candidacy'
  BY DEF IInv, Candidacy, Tries, others, At, Listens
<1>3. Builds' /\ Output' /\ Ownership'
  BY DEF IInv, Builds, StaleOnlyIfRebuilt, Output, AnsweredOnce, Ownership, Tries, others, At,
     Listens
<1> QED BY <1>1, <1>2, <1>3 DEF IInv

LEMMA ProbeKeeps ==
  ASSUME IInv, NEW s \in Server, Probe(s)
  PROVE  IInv'
<1>0. /\ me \in Client /\ me.seen \subseteq Server
      /\ name[s] \in {"host", "default", "fallback", "none"}
  BY DEF IInv, TypeOK, WorldType, Client
<1>1. Passed(s) \in Client
  BY <1>0, Updates DEF Passed
<1>2. /\ At("scan") /\ UNCHANGED <<others, shared>> /\ DOMAIN up \cap Launch \subseteq me.owned
      /\ s \in me.seen /\ s \notin later /\ name[s] # "none"
  BY NoneLaunched
     DEF Probe, Refused, Unverified, Use, End, PassOver, Verified, Turn, At, IInv, Candidacy
<1>3. CASE Refused(s)
  <2> DEFINE refused == me.refused \/ name[s] = me.set.name
  <2>0. ASSUME NEW r \in Client, NEW b \in BOOLEAN PROVE [r EXCEPT !.refused = b] \in Client
    BY DEF Client
  <2>1. [Passed(s) EXCEPT !.refused = refused] \in Client
    BY <1>1, <2>0
  <2>2. CASE Prunable(s)
    <3>1. /\ Tries /\ me'.pc = "prune" /\ me'.conn = s /\ me'.old = me.old
      <4>1. me' = [[Passed(s) EXCEPT !.refused = refused] EXCEPT !.pc = "prune", !.conn = s]
        BY <1>3, <2>2 DEF Refused, Passed
      <4>2. ASSUME NEW r \in Client, NEW place \in Place
            PROVE  [r EXCEPT !.pc = place, !.conn = s] \in Client
        BY DEF Client
      <4>3. me' \in Client
        BY <4>1, <4>2, <2>1 DEF Place
      <4> QED BY <4>1, <4>3, <1>0 DEF Tries, Passed, Client
    <3>2. name[s] \in {"default", "fallback"} /\ ~Listens(s)
      BY <1>0, <1>2, <1>3, <2>2 DEF Refused, Prunable
    <3> QED BY <1>2, <3>1, <3>2, TryingKeeps DEF shared, IInv, Candidacy
  <2>3. CASE ~Prunable(s)
    <3>1. /\ Tries /\ me'.pc = "scan" /\ me'.old = me.old
      <4>1. me' = [Passed(s) EXCEPT !.refused = refused]
        BY <1>3, <2>3 DEF Refused, Passed
      <4> QED BY <4>1, <2>1, <1>0, <1>2 DEF Tries, Passed, Client, At
    <3> QED BY <1>2, <3>1, TryingKeeps DEF shared, IInv, Candidacy
  <2> QED BY <2>2, <2>3
<1>4. CASE Unverified(s)
  <2>0. ASSUME NEW r \in Client PROVE [r EXCEPT !.failed = TRUE] \in Client
    BY DEF Client
  <2>1. me' \in Client
    BY <1>1, <1>4, <2>0 DEF Unverified
  <2>2. Tries /\ me'.pc = "scan" /\ me'.old = me.old
    BY <2>1, <1>0, <1>2, <1>4 DEF Tries, Unverified, Passed, Client, At
  <2> QED BY <1>2, <2>2, TryingKeeps DEF shared, IInv, Candidacy
<1>5. CASE PassOver(s)
  <2>1. me' \in Client /\ ((me'.old = s /\ name[s] # "host") \/ me'.old = me.old)
    <3>1. CASE me' = [Passed(s) EXCEPT !.old = s] /\ name[s] # "host"
      BY <1>1, <3>1 DEF Client
    <3>2. CASE me' = [Passed(s) EXCEPT !.old = @]
      BY <1>1, <3>2 DEF Client, Passed
    <3> QED BY <1>5, <3>1, <3>2 DEF PassOver, Passed
  <2>2. Tries /\ me'.pc = "scan"
    BY <2>1, <1>0, <1>2, <1>5 DEF Tries, PassOver, Passed, Client, At
  <2> QED BY <1>0, <1>2, <2>1, <2>2, TryingKeeps DEF shared, IInv, Candidacy
<1>6. CASE Use(s)
  <2>1. Lands("query") /\ me'.conn = s /\ me'.why = "none"
    BY <1>0, <1>6, ConnectLands DEF Use, Place
  <2>2. me.id <= up[s]
    BY <1>2, <1>6 DEF Use, Compatible, IInv, Builds
  <2>3. Departs
    BY <1>2, <2>1, <2>2 DEF Lands, Departs, shared, IInv, Output
  <2> QED BY <1>2, <2>3, StillShrinks, DepartureKeeps
<1>7. CASE End(s)
  <2>1. Lands("shutdown") /\ me'.conn = s /\ me'.why = "none"
    BY <1>0, <1>7, ConnectLands DEF End, Place
  <2>2. name[s] \in {"default", "fallback"}
    BY <1>0, <1>2, <1>7 DEF End, NotAHost
  <2>3. Departs
    BY <1>2, <2>1, <2>2 DEF Lands, Departs, shared
  <2> QED BY <1>2, <2>3, StillShrinks, DepartureKeeps
<1> QED BY <1>3, <1>4, <1>5, <1>6, <1>7 DEF Probe

LEMMA ScanKeeps ==
  ASSUME IInv, Scan
  PROVE  IInv'
<1>0. me \in Client
  BY DEF IInv, TypeOK
<1>1. ASSUME NEW s \in Server, Probe(s) PROVE IInv'
  BY <1>1, ProbeKeeps
<1>2. CASE Prune
  <2>1. ASSUME NEW r \in Client, NEW place \in Place
        PROVE  [r EXCEPT !.pc = place, !.conn = None] \in Client
    BY DEF Client
  <2>2. me' \in Client
    BY <1>0, <1>2, <2>1 DEF Prune, Place
  <2>3. Tries /\ me'.pc = "scan" /\ me'.old = me.old
    BY <1>0, <1>2, <2>2 DEF Prune, Tries, Client
  <2>4. At("prune") /\ UNCHANGED others /\ UNCHANGED up /\ rows' \subseteq rows
    BY <1>2 DEF Prune
  <2> QED BY <2>3, <2>4, TryingKeeps DEF IInv, Candidacy
<1>3. CASE Expired
  <2>1. me' \in Client
    BY <1>0, <1>3, Updates DEF Expired
  <2>2. Tries /\ me'.pc = "scan" /\ me'.old = me.old
    BY <1>0, <1>3, <2>1 DEF Expired, Tries, Client, At
  <2>3. At("scan") /\ UNCHANGED <<others, shared>>
    BY <1>3 DEF Expired
  <2> QED BY <2>2, <2>3, TryingKeeps DEF IInv, Candidacy, shared
<1>4. CASE NothingToStop \/ EndOld \/ Unavailable \/ StartOwn
  <2>1. UNCHANGED <<others, shared>> /\ DOMAIN up \cap Launch \subseteq me.owned
    BY <1>4, NoneLaunched DEF NothingToStop, EndOld, Unavailable, StartOwn, NothingToUse, Tried, At
  <2>2. CASE NothingToStop
    <3>1. Lands("close") /\ me'.why = "stopped"
      BY <1>0, <2>2, FinishLands DEF NothingToStop, Reason
    <3> QED BY <2>1, <3>1, StillShrinks, DepartureKeeps DEF Lands, Departs, shared
  <2>3. CASE EndOld
    <3>1. me.old \in Server /\ name[me.old] \in {"default", "fallback"}
      BY <2>3 DEF EndOld, IInv, Candidacy
    <3>2. Lands("shutdown") /\ me'.conn = me.old /\ me'.why = "none"
      BY <1>0, <2>3, <3>1, ConnectLands DEF EndOld, Place
    <3> QED BY <2>1, <3>1, <3>2, StillShrinks, DepartureKeeps DEF Lands, Departs, shared
  <2>4. CASE Unavailable
    <3>1. Lands("close") /\ me'.why = "unavailable"
      BY <1>0, <2>4, DeclineLands DEF Unavailable, Reason
    <3> QED BY <2>1, <3>1, StillShrinks, DepartureKeeps DEF Lands, Departs, shared
  <2>5. CASE StartOwn
    <3>1. me.set.name \in {"default", "host"}
      BY <1>0, SettingAssumption DEF Client
    <3>2. (IF Keep THEN me.set.name ELSE "fallback") \in {"none", "default", "fallback"}
      BY <2>5, <3>1 DEF StartOwn, LeaveAlone
    <3>3. Lands("launch") /\ me'.why = "none"
      BY <1>0, <2>5, <3>2, WantLands DEF StartOwn
    <3> QED BY <2>1, <3>3, StillShrinks, DepartureKeeps DEF Lands, Departs, shared
  <2> QED BY <1>4, <2>2, <2>3, <2>4, <2>5
<1> QED BY <1>1, <1>2, <1>3, <1>4 DEF Scan

LEMMA EndingKeeps ==
  ASSUME IInv, Shutdown \/ ShutdownFails
  PROVE  IInv'
<1>0. me \in Client /\ me.conn \in Server /\ name[me.conn] \in {"default", "fallback"}
  BY DEF IInv, TypeOK, Candidacy, Shutdown, ShutdownFails
<1>1. DOMAIN up \cap Launch \subseteq me.owned
  BY NoneLaunched DEF Shutdown, ShutdownFails, At
<1>2. Shrinks
  <2>1. ASSUME ShutDown, UNCHANGED others PROVE Shrinks
    <3>1. CASE up' = Without({me.conn})
      BY <1>0, <2>1, <3>1 DEF ShutDown, Shrinks
    <3>2. CASE up' = up
      <4>1. Without({}) = up
        BY DEF Without, IInv, TypeOK, WorldType
      <4> QED BY <2>1, <3>2, <4>1 DEF ShutDown, Shrinks
    <3> QED BY <2>1, <3>1, <3>2 DEF ShutDown
  <2> QED BY <2>1, StillShrinks DEF Shutdown, ShutdownFails
<1>3. DOMAIN up' \cap Launch \subseteq me.owned
  BY <1>1, <1>2 DEF Shrinks, Without
<1>4. \/ Lands("close") /\ me'.why \in {"stopped", "lost", "refused", "shutdown"}
      \/ Lands("connect") /\ me'.why = "none"
      \/ Lands("launch") /\ me'.why = "none"
  <2>1. CASE Shutdown
    BY <1>0, <2>1, FinishLands, WantLands DEF Shutdown, Reason
  <2>2. CASE ShutdownFails
    BY <1>0, <2>2, FinishLands, DeclineLands, RetryLands DEF ShutdownFails, Reason
  <2> QED BY <2>1, <2>2
<1>5. Departs
  BY <1>3, <1>4 DEF Lands, Departs
<1> QED BY <1>2, <1>5, DepartureKeeps

LEMMA StartKeeps ==
  ASSUME IInv, Start \/ Register
  PROVE  IInv'
<1>0. me \in Client /\ Mine \in Launch
  BY DEF IInv, TypeOK, Client, Mine
<1>1. CASE Spawn
  <2>1. Lands("boot") /\ me'.why = "none" /\ me'.tries = me.tries
    BY <1>0, <1>1, OnwardLands DEF Spawn, Place, Onward, Fresh
  <2>2. /\ DOMAIN up \cap Launch \subseteq me.owned /\ Mine \notin Others
        /\ me.want \in {"none", "default", "fallback"}
    BY <1>0, <1>1, NoneLaunched, ServerAssumption DEF Spawn, At, Client
  <2>3. /\ DOMAIN up' = DOMAIN up \cup {Mine} /\ up'[Mine] = jar
        /\ \A s \in DOMAIN up : up'[s] \in {up[s], jar}
    BY <1>1 DEF Spawn, WithNew
  <2>4. up' \in [DOMAIN up' -> 0..MaxBuild]
    BY <1>1, <2>3, BuildAssumption DEF Spawn, WithNew, IInv, TypeOK, WorldType
  <2>5. TypeOK'
    BY <1>0, <1>1, <2>1, <2>2, <2>3, <2>4 DEF IInv, TypeOK, WorldType, Lands, Spawn, Server
  <2>6. Candidacy'
    BY <1>0, <1>1, <2>1, <2>2
       DEF IInv, TypeOK, WorldType, Candidacy, Lands, Spawn, At, Others, Server
  <2>7. Builds'
    BY <1>1, <2>1, <2>3, BuildAssumption
       DEF IInv, TypeOK, WorldType, Builds, StaleOnlyIfRebuilt, Lands, Spawn, At, Listens
  <2>8. Output' /\ Ownership'
    BY <1>0, <1>1, <2>1, <2>2, <2>3 DEF Output, AnsweredOnce, Ownership, Lands, Spawn, At, Mine
  <2> QED BY <2>5, <2>6, <2>7, <2>8 DEF IInv
<1>2. CASE Register
  BY <1>0, <1>2, ServerAssumption
     DEF Register, IInv, TypeOK, WorldType, Candidacy, Builds, StaleOnlyIfRebuilt,
     Output, AnsweredOnce, Ownership, others, At, Listens, Mine, Server
<1>3. CASE Greeted
  <2>1. /\ me' \in Client /\ me'.pc = "check" /\ me'.id = me.id /\ me'.owned = me.owned \cup {Mine}
        /\ me'.seen = {} /\ me'.old = None /\ me'.out = "none" /\ me'.why = "none"
    <3>1. me.owned \in SUBSET Launch
      BY <1>0 DEF Client
    <3>2. Onward("check") \in Client /\ Onward("check").owned = me.owned
      BY <1>0, OnwardTyped DEF Place, Onward, Fresh
    <3>3. ASSUME NEW r \in Client, NEW own \in SUBSET Launch PROVE [r EXCEPT !.owned = own] \in Client
      BY DEF Client
    <3>4. me' = [Onward("check") EXCEPT !.owned = me.owned \cup {Mine}]
      BY <1>3, <3>2 DEF Greeted, Client
    <3>5. me' \in Client
      BY <1>0, <3>1, <3>2, <3>3, <3>4
    <3> QED BY <3>4, <3>5 DEF Onward, Fresh
  <2>2. UNCHANGED <<others, shared>> /\ At("boot")
    BY <1>3 DEF Greeted
  <2>3. TypeOK' /\ Candidacy' /\ Output' /\ Ownership'
    BY <2>1, <2>2 DEF IInv, TypeOK, WorldType, Candidacy, Output, AnsweredOnce, Ownership, At,
       others, shared, Listens
  <2>4. Builds'
    BY <2>1, <2>2, <1>0 DEF IInv, Builds, StaleOnlyIfRebuilt, At, others, shared, Listens
  <2> QED BY <2>3, <2>4 DEF IInv
<1>4. CASE BootFails \/ CheckFails
  <2>1. \/ Lands("connect") /\ me'.why = "none"
        \/ Lands("close") /\ me'.why \in {"boot", "lost", "incompatible", "silent"}
    <3>1. CASE BootFails
      BY <1>0, <3>1, DeclineLands DEF BootFails, Reason
    <3>2. CASE CheckFails
      <4>1. Retry \/ Decline("incompatible") \/ Finish(2, "silent")
        BY <3>2 DEF CheckFails
      <4>2. CASE Retry
        BY <1>0, <4>2, RetryLands
      <4>3. CASE Decline("incompatible")
        BY <1>0, <4>3, DeclineLands DEF Reason
      <4>4. CASE Finish(2, "silent")
        BY <1>0, <4>4, FinishLands DEF Reason
      <4> QED BY <4>1, <4>2, <4>3, <4>4
    <3> QED BY <1>4, <3>1, <3>2
  <2>2. Shrinks
    BY <1>0, <1>4 DEF BootFails, CheckFails, Close, Shrinks, Server
  <2>3. DOMAIN up' \cap Launch \subseteq me.owned
    BY <1>4 DEF BootFails, CheckFails, Close, Without, IInv, Ownership, At
  <2>4. Departs
    BY <2>1, <2>3 DEF Lands, Departs
  <2> QED BY <2>2, <2>4, DepartureKeeps
<1>5. CASE Checked
  <2>1. Lands("query") /\ me'.conn = Mine /\ me'.why = "none"
    BY <1>0, <1>5, ConnectLands DEF Checked, Place, Server
  <2>2. me.id <= up[Mine] /\ DOMAIN up \cap Launch \subseteq me.owned /\ UNCHANGED <<others, shared>>
    BY <1>5, NoneLaunched DEF Checked, IInv, Builds, At
  <2>3. Departs
    BY <2>1, <2>2 DEF Lands, Departs, shared
  <2> QED BY <2>2, <2>3, StillShrinks, DepartureKeeps
<1> QED BY <1>1, <1>2, <1>3, <1>4, <1>5 DEF Start

LEMMA AskKeeps ==
  ASSUME IInv, Ask
  PROVE  IInv'
<1>0. /\ me \in Client /\ UNCHANGED <<others, shared>> /\ DOMAIN up \cap Launch \subseteq me.owned
      /\ me.out # "twice" /\ (me.rc # 97 \/ me.out = "none")
  BY NoneLaunched
     DEF Ask, Send, Answered, Stale, Failed, Write, At, IInv, TypeOK, Output, AnsweredOnce
<1>1. CASE Send
  <2>1. ASSUME NEW r \in Client, NEW place \in Place
        PROVE  [r EXCEPT !.pc = place, !.sent = TRUE] \in Client
    BY DEF Client
  <2>2. me' \in Client
    BY <1>0, <1>1, <2>1 DEF Send, Place
  <2>3. /\ me'.pc = "await" /\ me'.id = me.id /\ me'.owned = me.owned /\ me'.seen = me.seen
        /\ me'.old = me.old /\ me'.out = me.out /\ me'.rc = me.rc /\ me'.why = me.why
        /\ me'.conn = me.conn
    BY <1>0, <1>1 DEF Send, Client
  <2>4. TypeOK' /\ Candidacy' /\ Output' /\ Ownership'
    BY <1>0, <1>1, <2>2, <2>3 DEF Send, IInv, TypeOK, WorldType, Candidacy, Output, AnsweredOnce,
       Ownership, At, others, shared, Listens
  <2>5. Builds'
    BY <1>0, <1>1, <2>3 DEF Send, IInv, Builds, StaleOnlyIfRebuilt, At, others, shared, Listens
  <2> QED BY <2>4, <2>5 DEF IInv
<1>2. CASE Answered
  <2>1. Lands("write") /\ me'.why = "none"
    BY <1>0, <1>2, OnwardLands DEF Answered, Place
  <2> QED BY <1>0, <2>1, StillShrinks, DepartureKeeps DEF Lands, Departs, shared
<1>3. CASE Stale
  <2>1. Lands("close") /\ me'.why = "stale"
    BY <1>0, <1>3, FinishLands DEF Stale, Reason
  <2>2. me.id < jar
    BY <1>3 DEF Stale, IInv, TypeOK, WorldType, Builds, At, Listens, Client
  <2> QED BY <1>0, <2>1, <2>2, StillShrinks, DepartureKeeps DEF Lands, Departs, shared
<1>4. CASE Failed
  <2>1. \/ Lands("close") /\ me'.why \in {"error", "malformed", "lost", "silent"}
        \/ Lands("connect") /\ me'.why = "none"
    BY <1>0, <1>4, FinishLands, DeclineLands, RetryLands DEF Failed, Reason
  <2> QED BY <1>0, <2>1, StillShrinks, DepartureKeeps DEF Lands, Departs, shared
<1>5. CASE Write
  <2>1. PICK out \in {"answer", "part"}, status \in {0, 141, 2} : Emit(out, status)
    BY <1>5 DEF Write
  <2>2. ASSUME NEW r \in Client PROVE [r EXCEPT !.out = out, !.rc = status] \in Client
    BY ZenonT(30) DEF Client
  <2>3. me' \in Client
    BY <1>0, <2>1, <2>2, OnwardTyped DEF Emit, Place
  <2>4. /\ me'.pc = "close" /\ me'.id = me.id /\ me'.owned = me.owned /\ me'.seen = {}
        /\ me'.old = None /\ me'.out = out /\ me'.rc = status /\ me'.why = "none"
    BY <2>1 DEF Emit, Onward, Fresh
  <2> QED BY <1>0, <2>3, <2>4, StillShrinks, DepartureKeeps DEF Departs, shared
<1> QED BY <1>1, <1>2, <1>3, <1>4, <1>5 DEF Ask

LEMMA LeavingKeeps ==
  ASSUME IInv, CloseOwned \/ Shim \/ Interrupt
  PROVE  IInv'
<1>0. me \in Client /\ Mine \in Launch /\ me.owned \in SUBSET Launch /\ {} \in SUBSET Launch
  BY DEF IInv, TypeOK, Client, Mine
<1>1. CASE CloseOwned
  <2>1. me' \in Client
    <3>1. ASSUME NEW r \in Client, NEW own \in SUBSET Launch
          PROVE  [r EXCEPT !.owned = own] \in Client
      BY DEF Client
    <3>4. /\ \A r \in Client, o \in {"none", "part", "answer", "twice"} : [r EXCEPT !.out = o] \in Client
          /\ \A r \in Client, status \in {0, 2, 97, 130, 141} : [r EXCEPT !.rc = status] \in Client
      BY DEF Client
    <3>5. me' = [[[Onward("shim") EXCEPT !.owned = {}] EXCEPT !.out = me.out] EXCEPT !.rc = me.rc]
      BY <1>1 DEF CloseOwned
    <3>2. me.out \in {"none", "part", "answer", "twice"} /\ me.rc \in {0, 2, 97, 130, 141}
      BY <1>0 DEF Client
    <3>3. Onward("shim") \in Client
      BY <1>0, OnwardTyped DEF Place
    <3>6. [Onward("shim") EXCEPT !.owned = {}] \in Client
      BY <1>0, <3>1, <3>3
    <3>7. [[Onward("shim") EXCEPT !.owned = {}] EXCEPT !.out = me.out] \in Client
      BY <3>2, <3>4, <3>6
    <3> QED BY ZenonT(30), <3>2, <3>4, <3>5, <3>7
  <2>2. /\ me'.pc = "shim" /\ me'.id = me.id /\ me'.owned = {} /\ me'.seen = {} /\ me'.old = None
        /\ me'.out = me.out /\ me'.rc = me.rc /\ me'.why = "none"
    BY <1>1 DEF CloseOwned, Onward, Fresh
  <2>3. /\ DOMAIN up' = DOMAIN up \ me.owned /\ \A s \in DOMAIN up' : up'[s] = up[s]
        /\ rows' \subseteq rows /\ UNCHANGED others /\ DOMAIN up \cap Launch \subseteq me.owned
    BY <1>1, NoneLaunched DEF CloseOwned, Close, Without, At
  <2>4. up' \in [DOMAIN up' -> 0..MaxBuild]
    BY <1>1, <2>3 DEF CloseOwned, Close, Without, IInv, TypeOK, WorldType
  <2>5. TypeOK'
    BY <2>1, <2>3, <2>4 DEF IInv, TypeOK, WorldType, others
  <2>6. Candidacy' /\ Output' /\ Ownership'
    BY <1>1, <2>2, <2>3
       DEF CloseOwned, IInv, Candidacy, Output, AnsweredOnce, Ownership, At, others, Listens
  <2>7. Builds'
    BY <2>2, <2>3 DEF IInv, Builds, StaleOnlyIfRebuilt, At, others, Listens
  <2> QED BY <2>5, <2>6, <2>7 DEF IInv
<1>2. CASE Shim
  <2>1. PICK o \in {me.out, "answer", "twice"} :
          /\ me' = [me EXCEPT !.pc = "exit", !.out = o]
          /\ o = me.out \/ (o = "answer" /\ me.rc = 97) \/ (me.rc = 97 /\ me.out # "none")
    BY <1>0, <1>2 DEF Shim, Client
  <2>2. me' \in Client
    <3>1. ASSUME NEW r \in Client, NEW e \in {"none", "part", "answer", "twice"}, NEW place \in Place
          PROVE  [r EXCEPT !.pc = place, !.out = e] \in Client
      BY DEF Client
    <3>2. me.out \in {"none", "part", "answer", "twice"}
      BY <1>0 DEF Client
    <3> QED BY <1>0, <2>1, <3>1, <3>2 DEF Place
  <2>3. /\ me'.pc = "exit" /\ me'.id = me.id /\ me'.owned = me.owned /\ me'.seen = me.seen
        /\ me'.old = me.old /\ me'.rc = me.rc /\ me'.why = me.why /\ me'.out = o
    BY <1>0, <2>1 DEF Client
  <2>4. UNCHANGED <<others, shared>> /\ At("shim")
    BY <1>2 DEF Shim
  <2>5. TypeOK' /\ Candidacy' /\ Output' /\ Ownership'
    BY <2>1, <2>2, <2>3, <2>4 DEF IInv, TypeOK, WorldType, Candidacy, Output, AnsweredOnce,
       Ownership, At, others, shared, Listens
  <2>6. Builds'
    BY <2>3, <2>4 DEF IInv, Builds, StaleOnlyIfRebuilt, At, others, shared, Listens
  <2> QED BY <2>5, <2>6 DEF IInv
<1>3. CASE Interrupt
  <2>1. Lands("close") /\ me'.why = "interrupt"
    BY <1>0, <1>3, FinishLands DEF Interrupt, Reason
  <2>2. Shrinks /\ DOMAIN up' \cap Launch \subseteq me.owned
    <3>1. CASE At("boot")
      BY <1>0, <1>3, <3>1 DEF Interrupt, Shrinks, Server, Without, IInv, Ownership
    <3>2. CASE ~At("boot")
      BY <1>3, <3>2, StillShrinks, NoneLaunched DEF Interrupt, shared
    <3> QED BY <3>1, <3>2
  <2> QED BY <2>1, <2>2, DepartureKeeps DEF Lands, Departs
<1> QED BY <1>1, <1>2, <1>3

(* Whatever others do to the servers and the rows.                          *)
LEMMA WorldKeeps ==
  ASSUME IInv, World, me.pc \notin {"shim", "exit"}
  PROVE  IInv'
<1> USE DEF IInv, others, shared, At, Listens
<1>1. CASE Rebuild
  <2>1. TypeOK'
    BY <1>1, BuildAssumption DEF Rebuild, TypeOK, WorldType
  <2>2. Candidacy' /\ Output' /\ Ownership'
    BY <1>1 DEF Rebuild, Candidacy, Output, AnsweredOnce, Ownership, Mine
  <2>3. Builds'
    <3>1. jar \in Int /\ me.id \in Int /\ me.stamp \in Int /\ \A s \in DOMAIN up : up[s] \in Int
      BY DEF TypeOK, WorldType, Client
    <3> QED BY <1>1, <3>1 DEF Rebuild, Builds, StaleOnlyIfRebuilt
  <2> QED BY <2>1, <2>2, <2>3
<1>2. ASSUME NEW s \in Server, Appear(s) PROVE IInv'
  <2>1. /\ DOMAIN up' = DOMAIN up \cup {s} /\ \A t \in DOMAIN up' : up'[t] = IF t = s THEN jar ELSE up[t]
        /\ s \in Others /\ s \notin DOMAIN up
    BY <1>2 DEF Appear, WithNew, TypeOK, WorldType
  <2>2. up' \in [DOMAIN up' -> 0..MaxBuild]
    BY <1>2, <2>1, BuildAssumption DEF Appear, WithNew, TypeOK, WorldType
  <2>3. TypeOK'
    BY <1>2, <2>1, <2>2 DEF Appear, TypeOK, WorldType
  <2>4. Candidacy'
    BY <1>2, <2>1 DEF Appear, Candidacy
  <2>5. Output' /\ Ownership'
    BY <1>2, <2>1, ServerAssumption DEF Appear, Output, AnsweredOnce, Ownership, Mine
  <2>6. Builds'
    BY <1>2, <2>1 DEF Appear, Builds, StaleOnlyIfRebuilt, TypeOK, WorldType, Client
  <2> QED BY <2>3, <2>4, <2>5, <2>6
<1>3. ASSUME NEW s \in Server, Die(s) \/ Withdraw(s) PROVE IInv'
  <2>1. /\ DOMAIN up' \subseteq DOMAIN up /\ \A t \in DOMAIN up' : up'[t] = up[t]
        /\ up' \in [DOMAIN up' -> 0..MaxBuild]
        /\ rows' \subseteq rows /\ UNCHANGED <<others, me>>
    BY <1>3 DEF Die, Withdraw, Without, TypeOK, WorldType
  <2>2. TypeOK' /\ Candidacy'
    BY <2>1 DEF TypeOK, WorldType, Candidacy
  <2>3. Builds' /\ Output' /\ Ownership'
    BY <2>1 DEF Builds, StaleOnlyIfRebuilt, Output, AnsweredOnce, Ownership, Mine
  <2> QED BY <2>2, <2>3
<1> QED BY <1>1, <1>2, <1>3 DEF World

LEMMA Initially == Init => IInv
<1> SUFFICES ASSUME Init PROVE IInv
  OBVIOUS
<1>1. PICK set \in Setting : me = Fresh(set)
  BY DEF Init
<1>2. me \in Client
  BY <1>1, FreshTyped
<1>3. /\ me.pc = "request" /\ me.seen = {} /\ me.old = None /\ me.id = 0 /\ me.out = "none"
      /\ me.owned = {} /\ me.why = "none"
  BY <1>1 DEF Fresh
<1>4. rows \subseteq Others /\ DOMAIN up \subseteq rows /\ up \in [DOMAIN up -> {0, 1}]
  BY DEF Init
<1>5. TypeOK
  BY <1>2, <1>4, BuildAssumption DEF Init, TypeOK, WorldType, Server
<1>6. Candidacy /\ Builds
  BY <1>3, <1>4, BuildAssumption
     DEF Init, Candidacy, Builds, StaleOnlyIfRebuilt, At, Server, Others, Listens
<1>7. Output /\ Ownership
  BY <1>3, <1>4, ServerAssumption DEF Output, AnsweredOnce, Ownership, At
<1> QED BY <1>5, <1>6, <1>7 DEF IInv

LEMMA StepKeeps == IInv /\ [Next]_vars => IInv'
<1> SUFFICES ASSUME IInv, [Next]_vars PROVE IInv'
  OBVIOUS
<1>1. CASE UNCHANGED vars
  BY <1>1 DEF vars, others, shared, IInv, TypeOK, WorldType, Candidacy, Builds, StaleOnlyIfRebuilt,
     Output, AnsweredOnce, Ownership, At, Mine, Listens
<1>2. CASE Next
  BY <1>2, RequestKeeps, ScanKeeps, EndingKeeps, StartKeeps, AskKeeps, LeavingKeeps, WorldKeeps
     DEF Next, Invocation
<1> QED BY <1>1, <1>2

-----------------------------------------------------------------------------
(* IInv is an inductive invariant: it holds in every reachable state.       *)
THEOREM Inductive == Spec => []IInv
BY Initially, StepKeeps, PTL DEF Spec

(* The model's variables keep their types.                                  *)
THEOREM TypeCorrect == Spec => []TypeOK
<1>1. IInv => TypeOK
  BY DEF IInv
<1> QED BY <1>1, Inductive, PTL

(* Nothing is answered twice, or after a part of it was written: whatever   *)
(* declines to the cold path (query_client.py's status 97) wrote nothing.   *)
THEOREM ColdPathIsClean == Spec => []AnsweredOnce
<1>1. IInv => AnsweredOnce
  BY DEF IInv, Output
<1> QED BY <1>1, Inductive, PTL

(* No server this invocation started survives it unless it is kept for the  *)
(* next attempt and closed with the rest (close_owned_since).               *)
THEOREM NothingLeftBehind == Spec => []NoStrayLaunch
<1>1. IInv => NoStrayLaunch
  BY DEF IInv, Ownership, NoStrayLaunch, At
<1> QED BY <1>1, Inductive, PTL

(* A server that refuses a query as stale was of the payload's build when   *)
(* it was chosen: the component was built anew since then.                  *)
THEOREM StaleMeansRebuilt == Spec => []StaleOnlyIfRebuilt
<1>1. IInv => StaleOnlyIfRebuilt
  BY DEF IInv, Builds
<1> QED BY <1>1, Inductive, PTL

LEMMA Harmless ==
  ASSUME IInv, [Next]_vars, me' # me
  PROVE  /\ \A s \in rows \ rows' : s \in Launch \/ (At("shutdown") /\ me.conn = s)
                                    \/ (At("prune") /\ me.conn = s)
         /\ \A s \in DOMAIN up \ DOMAIN up' : s \in Launch \/ (At("shutdown") /\ me.conn = s)
<1>0. Mine \in Launch /\ me.owned \subseteq Launch
  BY DEF IInv, TypeOK, Client, Mine
<1>1. CASE Request \/ RefuseHost \/ Discover \/ Ask \/ Shim
  BY <1>1 DEF Request, RefuseHost, Discover, Ask, Send, Answered, Stale, Failed, Write, Shim, shared
<1>2. CASE Scan
  <2>1. CASE Prune
    BY <2>1 DEF Prune
  <2>2. CASE ~Prune
    BY <1>2, <2>2 DEF Scan, Probe, Refused, Unverified, Use, Verified, End, PassOver, Expired,
       NothingToStop, EndOld, Unavailable, StartOwn, NothingToUse, Tried, shared
  <2> QED BY <2>1, <2>2
<1>3. CASE Shutdown \/ ShutdownFails
  BY <1>3 DEF Shutdown, ShutdownFails, ShutDown, Without, shared, At
<1>4. CASE Start
  BY <1>0, <1>4
     DEF Start, Spawn, WithNew, Greeted, BootFails, Checked, CheckFails, Close, Without, shared
<1>5. CASE CloseOwned
  BY <1>0, <1>5 DEF CloseOwned, Close, Without
<1>6. CASE Interrupt
  BY <1>0, <1>6 DEF Interrupt, Without
<1>7. Invocation \/ Interrupt
  BY DEF Next, Register, World, Rebuild, Appear, Die, Withdraw, vars
<1> QED BY <1>1, <1>2, <1>3, <1>4, <1>5, <1>6, <1>7 DEF Invocation

(* An invocation, whatever becomes of it, neither ends nor hides a server   *)
(* of somebody else that listens, but the dedicated one it was told to end: *)
(* prune_refused_server removes by listener and not by name.                *)
THEOREM OthersAreSafe == Spec => OthersKeepTheirs
<1>1. ASSUME IInv, [Next]_vars, me' # me, NEW s \in Host
      PROVE  (s \in rows => s \in rows') /\ (Listens(s) => s \in DOMAIN up')
  <2>1. s \notin Launch /\ ~((At("shutdown") \/ At("prune")) /\ me.conn = s)
    BY <1>1, ServerAssumption DEF IInv, Candidacy, Others
  <2> QED BY <1>1, <2>1, Harmless DEF Listens
<1>2. ASSUME IInv, [Next]_vars, me' # me, NEW s \in (rows \ rows') \cap DOMAIN up
      PROVE  s \in Launch \/ (At("shutdown") /\ me.conn = s)
  BY <1>2, Harmless DEF IInv, Candidacy, Listens
<1>3. IInv /\ [Next]_vars =>
        [/\ me' # me => \A s \in Host : /\ s \in rows => s \in rows'
                                        /\ Listens(s) => s \in DOMAIN up'
         /\ me' # me => \A s \in (rows \ rows') \cap DOMAIN up :
                          s \in Launch \/ (At("shutdown") /\ me.conn = s)]_vars
  BY <1>1, <1>2
<1> QED BY <1>3, Inductive, PTL DEF Spec, OthersKeepTheirs, HostsUntouched, LiveRowStays

-----------------------------------------------------------------------------
(* Every step of the invocation brings it closer to its end.                *)
Advances(m, n) ==
  \/ Last(n.pc) < Last(m.pc)
  \/ /\ Last(n.pc) = 3 /\ Last(m.pc) = 3
     /\ n.tries > m.tries \/ (n.tries = m.tries /\ Stage(n.pc) < Stage(m.pc))

LEMMA OnwardAdvances ==
  ASSUME me \in Client, NEW place \in Place,
         \/ me' = Onward(place)
         \/ \E c \in Server \cup {None} : me' = [Onward(place) EXCEPT !.conn = c]
         \/ \E w \in {"none", "default", "fallback"} : me' = [Onward(place) EXCEPT !.want = w]
  PROVE  me'.pc = place /\ me'.tries = me.tries
BY ZenonT(30) DEF Onward, Fresh

LEMMA EndAdvances ==
  ASSUME me.pc \notin {"close", "shim", "exit"},
         NEW status, NEW reason, Finish(status, reason) \/ Decline(reason)
  PROVE  Advances(me, me')
<1>1. me'.pc = "close"
  BY ZenonT(30) DEF Finish, Decline, Onward, Fresh
<1> QED BY <1>1 DEF Advances, Last

LEMMA RetryAdvances ==
  ASSUME me.pc \notin {"close", "shim", "exit"}, Retry
  PROVE  Advances(me, me')
<1>1. CASE me.tries = 1 /\ me' = [Onward("connect") EXCEPT !.tries = 2]
  <2>1. me'.pc = "connect" /\ me'.tries = 2
    BY <1>1 DEF Onward, Fresh
  <2> QED BY <1>1, <2>1 DEF Advances, Last
<1> QED BY <1>1, EndAdvances DEF Retry

LEMMA FewerRows ==
  ASSUME IsFiniteSet(Server), me \in Client, me'.tries = me.tries, me.pc = "scan",
         me'.pc = "scan" \/ me'.pc = "prune",
         me'.seen \subseteq me.seen, me'.seen # me.seen
  PROVE  Closer(me, me')
<1>1. IsFiniteSet(me.seen) /\ IsFiniteSet(me'.seen)
  BY FS_Subset DEF Client
<1>2. /\ Cardinality(me'.seen) \in Nat /\ Cardinality(me.seen) \in Nat
      /\ Cardinality(me'.seen) < Cardinality(me.seen)
  BY <1>1, FS_CardinalityType, FS_Subset
<1> QED BY <1>2 DEF Closer, Rows, Last, Stage

LEMMA EveryStepCloser ==
  ASSUME IsFiniteSet(Server), IInv, [Next]_vars, me' # me
  PROVE  Closer(me, me')
<1>0. me \in Client
  BY DEF IInv, TypeOK
<1>1. Advances(me, me') => Closer(me, me')
  BY DEF Advances, Closer
<1>2. CASE Request \/ RefuseHost \/ Discover
  <2>1. CASE Request
    BY <1>0, <1>1, <2>1 DEF Request, At, Onward, Fresh, Advances, Last, Stage
  <2>2. CASE RefuseHost
    BY <1>1, <2>2, EndAdvances DEF RefuseHost, At
  <2>3. CASE Discover
    BY <1>0, <1>1, <2>3 DEF Discover, At, Onward, Fresh, Advances, Last, Stage
  <2> QED BY <1>2, <2>1, <2>2, <2>3
<1>3. CASE Scan
  <2>1. ASSUME NEW s \in Server, Refused(s) \/ Unverified(s) \/ PassOver(s) PROVE Closer(me, me')
    <3>1. me.pc = "scan" /\ s \in me.seen
      BY <2>1 DEF Refused, Unverified, PassOver, Verified, Turn, At
    <3>2. me'.tries = me.tries /\ me'.seen = me.seen \ {s} /\ (me'.pc = "scan" \/ me'.pc = "prune")
      <4>1. CASE Refused(s)
        BY <1>0, <3>1, <4>1 DEF Refused, Passed, Client
      <4>2. CASE Unverified(s)
        BY <1>0, <3>1, <4>2 DEF Unverified, Passed, Client
      <4>3. CASE PassOver(s)
        BY <1>0, <3>1, <4>3 DEF PassOver, Passed, Client
      <4> QED BY <2>1, <4>1, <4>2, <4>3
    <3> QED BY <1>0, <3>1, <3>2, FewerRows
  <2>2. ASSUME NEW s \in Server, Use(s) \/ End(s) PROVE Closer(me, me')
    <3>1. me.pc = "scan" /\ (me'.pc = "query" \/ me'.pc = "shutdown") /\ me'.tries = me.tries
      BY <1>0, <2>2, OnwardAdvances DEF Use, End, Verified, Turn, At, Place
    <3> QED BY <1>1, <3>1 DEF Advances, Last, Stage
  <2>3. CASE Prune
    <3>1. me.pc = "prune" /\ me'.pc = "scan" /\ me'.tries = me.tries /\ me'.seen = me.seen
      BY <1>0, <2>3 DEF Prune, At, Client
    <3>2. Cardinality(me.seen) \in Nat
      BY <1>0, FS_Subset, FS_CardinalityType DEF Client
    <3> QED BY <3>1, <3>2 DEF Closer, Rows, Last, Stage
  <2>4. CASE Expired
    <3>1. me.pc = "scan" /\ me'.pc = "scan" /\ me'.tries = me.tries /\ me'.seen = {} /\ me.seen # {}
      BY <1>0, <2>4 DEF Expired, At, Client
    <3> QED BY <1>0, <3>1, FewerRows
  <2>5. CASE NothingToStop \/ Unavailable
    BY <1>1, <2>5, EndAdvances DEF NothingToStop, Unavailable, NothingToUse, Tried, At
  <2>6. CASE EndOld \/ StartOwn
    <3>1. me.pc = "scan" /\ (me'.pc = "shutdown" \/ me'.pc = "launch") /\ me'.tries = me.tries
      BY ZenonT(30), <1>0, <2>6 DEF EndOld, StartOwn, NothingToUse, Tried, At, Onward, Fresh
    <3> QED BY <1>1, <3>1 DEF Advances, Last, Stage
  <2> QED BY <1>3, <2>1, <2>2, <2>3, <2>4, <2>5, <2>6 DEF Scan, Probe
<1>4. CASE Shutdown
  <2>1. CASE me.set.mode = "stop"
    BY <1>1, <1>4, <2>1, EndAdvances DEF Shutdown, At
  <2>2. CASE me.set.mode # "stop"
    <3>1. me.pc = "shutdown" /\ me'.pc = "launch" /\ me'.tries = me.tries
      BY <1>4, <2>2 DEF Shutdown, At, Onward, Fresh
    <3> QED BY <1>1, <3>1 DEF Advances, Last, Stage
  <2> QED BY <2>1, <2>2
<1>5. CASE ShutdownFails \/ BootFails \/ CheckFails \/ Stale \/ Failed \/ Interrupt
  BY <1>1, <1>5, EndAdvances, RetryAdvances
     DEF ShutdownFails, BootFails, CheckFails, Stale, Failed, Interrupt, At
<1>6. CASE Spawn \/ Greeted \/ Checked \/ Send \/ Answered \/ Write
  <2>1. CASE Spawn \/ Answered
    <3>1. /\ me'.tries = me.tries
          /\ \/ me.pc = "launch" /\ me'.pc = "boot"
             \/ me.pc = "await" /\ me'.pc = "write"
      BY <1>0, <2>1, OnwardAdvances DEF Spawn, Answered, At, Place
    <3> QED BY <1>1, <3>1 DEF Advances, Last, Stage
  <2>5. CASE Checked
    <3>1. me.pc = "check" /\ me'.pc = "query" /\ me'.tries = me.tries
      BY <2>5 DEF Checked, At, Onward, Fresh
    <3> QED BY <1>1, <3>1 DEF Advances, Last, Stage
  <2>2. CASE Greeted
    <3>1. me.pc = "boot" /\ me'.pc = "check" /\ me'.tries = me.tries
      BY <2>2 DEF Greeted, At, Onward, Fresh
    <3> QED BY <1>1, <3>1 DEF Advances, Last, Stage
  <2>3. CASE Send
    <3>1. me.pc = "query" /\ me'.pc = "await" /\ me'.tries = me.tries
      BY <1>0, <2>3 DEF Send, At, Client
    <3> QED BY <1>1, <3>1 DEF Advances, Last, Stage
  <2>4. CASE Write
    <3>1. me.pc = "write" /\ me'.pc = "close"
      BY ZenonT(30), <2>4 DEF Write, Emit, At, Onward, Fresh
    <3> QED BY <1>1, <3>1 DEF Advances, Last
  <2> QED BY <1>6, <2>1, <2>2, <2>3, <2>4, <2>5
<1>7. CASE CloseOwned \/ Shim
  <2>1. \/ me.pc = "close" /\ me'.pc = "shim"
        \/ me.pc = "shim" /\ me'.pc = "exit"
    BY ZenonT(30), <1>0, <1>7 DEF CloseOwned, Shim, Onward, Fresh, Client, At
  <2> QED BY <1>1, <2>1 DEF Advances, Last
<1>8. Invocation \/ Interrupt
  BY DEF Next, Register, World, Rebuild, Appear, Die, Withdraw, vars
<1> QED BY <1>2, <1>3, <1>4, <1>5, <1>6, <1>7, <1>8 DEF Invocation, Start, Ask

(* However many servers there are, every step of the invocation brings it   *)
(* closer to its end: it tries each row once, and asks at most twice.       *)
THEOREM AlwaysForward ==
  ASSUME IsFiniteSet(Server)
  PROVE  Spec => OnlyForward
<1>1. IInv /\ [Next]_vars => [Closer(me, me')]_me
  BY EveryStepCloser
<1> QED BY <1>1, Inductive, PTL DEF Spec, OnlyForward
=============================================================================
