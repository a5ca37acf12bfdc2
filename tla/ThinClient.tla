----------------------------- MODULE ThinClient -----------------------------
(***************************************************************************)
(* What a typed `isabelle query' does before any JVM starts                *)
(* (query_base/lib/scripts/query_client.py and lib/Tools/query): it looks  *)
(* for a resident server of the installed build in servers.db, prunes rows *)
(* nobody listens behind, starts a server of its own if there is none,     *)
(* asks once more after a lost connection, and leaves everything it cannot *)
(* settle to the cold path by exit status 97.                              *)
(*                                                                         *)
(* One invocation, in a world where other invocations and applications     *)
(* start, end, lose and prune servers at any time.  A server is one        *)
(* listener: its row in servers.db has a port and a password of its own.   *)
(* Rows exclude each other only under the default name; hosts and          *)
(* fallbacks have names made unique.                                       *)
(***************************************************************************)
EXTENDS Integers, FiniteSets

CONSTANTS
  Host,      \* embedded hosts of jEdit or PIDE
  Manual,    \* dedicated servers of the default name that others start
  Fallback,  \* fallback servers that other invocations start
  Setting,   \* [mode, name, explicit] the invocation may have
  MaxBuild,  \* bound: builds of the component
  None       \* no server

Others == Host \cup Manual \cup Fallback
Launch == {1, 2}  \* the servers this invocation starts, one in each attempt
Server == Others \cup Launch

ASSUME ServerAssumption == None \notin Server /\ Others \cap Launch = {}
ASSUME BuildAssumption == MaxBuild \in Nat \ {0}
ASSUME SettingAssumption ==
  Setting \subseteq [mode : {"run", "restart", "stop"}, name : {"default", "host"},
                     explicit : BOOLEAN]

VARIABLES
  jar,     \* the build on disk
  later,   \* servers others have not started yet
  up,      \* the servers that listen, and the build each runs
  rows,    \* those with a row in servers.db
  name,    \* server -> "host", "default", "fallback", or "none": not started
  me       \* the invocation: [set: its setting, pc, tries, id: the build it
           \*  names in its payload, stamp: the build it looks for, seen: rows
           \*  not tried yet, named, refused, failed: what discovery found, old:
           \*  a dedicated server of another build, conn, want: name to start,
           \*  owned, sent, out, rc, why]

shared == <<up, rows>>
others == <<jar, later, name>>
vars == <<others, shared, me>>

Fresh(set) ==
  [set |-> set, pc |-> "request", tries |-> 1, id |-> 0, stamp |-> 0, seen |-> {},
   named |-> FALSE, refused |-> FALSE, failed |-> FALSE, old |-> None, conn |-> None,
   want |-> "none", owned |-> {}, sent |-> FALSE, out |-> "none", rc |-> 0, why |-> "none"]

Listens(s) == s \in DOMAIN up
Without(servers) == [s \in DOMAIN up \ servers |-> up[s]]
WithNew(s) == [t \in DOMAIN up \cup {s} |-> IF t = s THEN jar ELSE up[t]]

(* One row for the default name. *)
Registrable(s, taken) ==
  s \in Manual \/ name[s] = "default" => \A t \in taken : name[t] # "default"

Init ==
  /\ jar = 1
  /\ name = [s \in Server |-> IF s \in Host THEN "host" ELSE IF s \in Manual THEN "default"
                              ELSE IF s \in Fallback THEN "fallback" ELSE "none"]
  /\ rows \in {r \in SUBSET Others : \A s \in r : Registrable(s, r \ {s})}
  /\ \E listening \in SUBSET rows : up \in [listening -> {0, 1}]
  /\ later = Others \ rows
  /\ \E set \in Setting : me = Fresh(set)

-----------------------------------------------------------------------------
At(place) == me.pc = place

(* What is known at every stage: the rest is local to the discovery. *)
Onward(place) == [Fresh(me.set) EXCEPT !.pc = place, !.tries = me.tries, !.id = me.id,
                                       !.owned = me.owned]
Finish(status, reason) == me' = [Onward("close") EXCEPT !.sent = me.sent, !.rc = status,
                                                        !.why = reason]

(* Fallback, and what else means: do not trust the warm path.  A run        *)
(* declines; an action, and a restart, have nothing to decline to.          *)
Decline(reason) == Finish(IF me.set.mode = "run" THEN 97 ELSE 2, reason)

(* A lost connection: discover once more, as an ordinary run. *)
RetryAlways == me' = Onward("connect")  \* mutant
Retry == IF me.tries = 1 /\ me.set.mode # "stop"
         THEN me' = [Onward("connect") EXCEPT !.tries = 2]
         ELSE Decline("lost")
Restarting == me.set.mode = "restart" /\ me.tries = 1
Dedicated == me.set.mode = "stop" \/ Restarting

(* The payload names the build on disk before any server is looked for. *)
Request == /\ At("request") /\ me' = [Onward("connect") EXCEPT !.id = jar]
           /\ UNCHANGED <<others, shared>>

(* candidate_rows: one lookup; what happens to the rows later is not seen.  *)
Candidates ==
  {s \in rows : \/ name[s] = me.set.name
                \/ ~me.set.explicit /\ ~Dedicated /\ name[s] \in {"host", "fallback"}}
RefuseHost == /\ At("connect") /\ Dedicated /\ me.set.name = "host"
              /\ Decline("host") /\ UNCHANGED <<others, shared>>
Discover ==
  /\ At("connect") /\ ~(Dedicated /\ me.set.name = "host")
  /\ me' = [Onward("scan") EXCEPT !.stamp = jar, !.seen = Candidates,
                                  !.named = \E s \in rows : name[s] = me.set.name]
  /\ UNCHANGED <<others, shared>>

-----------------------------------------------------------------------------
(* The candidates one after the other, in the order of candidate_rank. *)
Rank(s) == CASE name[s] = "host" -> 0 [] name[s] = "default" -> 1 [] OTHER -> 2
Turn(s) == At("scan") /\ s \in me.seen /\ \A t \in me.seen : Rank(s) <= Rank(t)
Passed(s) == [me EXCEPT !.seen = @ \ {s}]

(* prune_refused_server: a row is pruned if it is a fallback's, or has the  *)
(* name this invocation selected; never a host's.                           *)
Selected(s) == (me.set.explicit \/ Dedicated) /\ name[s] = me.set.name
Prunable(s) == name[s] # "host" /\ (name[s] = "fallback" \/ Selected(s))
Refused(s) ==
  /\ Turn(s) /\ ~Listens(s)
  /\ LET passed == [Passed(s) EXCEPT !.refused = @ \/ name[s] = me.set.name]
     IN  me' = IF Prunable(s) THEN [passed EXCEPT !.pc = "prune", !.conn = s] ELSE passed
  /\ UNCHANGED <<others, shared>>
PruneName ==  \* mutant: the row of that name, whosever it is by now
  /\ At("prune") /\ me' = [me EXCEPT !.pc = "scan", !.conn = None]
  /\ rows' = {s \in rows : name[s] # name[me.conn]}
  /\ UNCHANGED <<others, up>>
Prune ==
  /\ At("prune") /\ me' = [me EXCEPT !.pc = "scan", !.conn = None]
  /\ rows' \in {rows, rows \ {me.conn}}
  /\ UNCHANGED <<others, up>>

(* It did not answer in time or not as it should, or it is a stranger on a  *)
(* reused port.                                                             *)
Unverified(s) == /\ Turn(s) /\ me' = [Passed(s) EXCEPT !.failed = TRUE]
                 /\ UNCHANGED <<others, shared>>

AnyBuild(s) == s \in Server  \* mutant
Compatible(s) == up[s] = me.stamp
Verified(s) == Turn(s) /\ Listens(s) /\ UNCHANGED <<others, shared>>
NotAHost(s) == Dedicated => name[s] # "host"
Use(s) == /\ Verified(s) /\ ~Dedicated /\ Compatible(s)
          /\ me' = [Onward("query") EXCEPT !.conn = s]
End(s) == /\ Verified(s) /\ Dedicated /\ NotAHost(s)
          /\ me.set.mode = "stop" \/ Compatible(s)
          /\ me' = [Onward("shutdown") EXCEPT !.conn = s]
PassOver(s) ==
  /\ Verified(s) /\ me.set.mode # "stop" /\ NotAHost(s) /\ ~Compatible(s)
  /\ me' = [Passed(s) EXCEPT !.old = IF @ = None /\ name[s] # "host" THEN s ELSE @]

(* The two seconds for the discovery are over. *)
Expired == /\ At("scan") /\ me.seen # {} /\ me' = [me EXCEPT !.seen = {}]
           /\ UNCHANGED <<others, shared>>

(* Every candidate was tried.  A restart falls back on a dedicated server   *)
(* of another build; a selected server that is there and does not answer is *)
(* left alone; otherwise the invocation starts a server of its own.         *)
Tried == At("scan") /\ me.seen = {} /\ UNCHANGED <<others, shared>>
NothingToStop == /\ Tried /\ me.set.mode = "stop"
                 /\ Finish(IF me.failed THEN 2 ELSE 0, "stopped")
EndOld == /\ Tried /\ Restarting /\ me.old # None
          /\ me' = [Onward("shutdown") EXCEPT !.conn = me.old]
Keep == me.set.explicit \/ Restarting
LeaveAlone == me.set.name = "host" \/ (me.named /\ ~me.refused /\ Keep)
NothingToUse == Tried /\ me.set.mode # "stop" /\ ~(Restarting /\ me.old # None)
Unavailable == NothingToUse /\ LeaveAlone /\ Decline("unavailable")
StartOwn == /\ NothingToUse /\ ~LeaveAlone
            /\ me' = [Onward("launch") EXCEPT !.want = IF Keep THEN me.set.name ELSE "fallback"]

(* shutdown_connection: the row is gone before the reply; the process may   *)
(* listen a little longer.  The reply may be lost on the way.               *)
ShutDown == /\ Listens(me.conn) /\ rows' = rows \ {me.conn}
            /\ up' \in {up, Without({me.conn})}
Shutdown ==
  /\ At("shutdown") /\ ShutDown
  /\ IF me.set.mode = "stop" THEN Finish(0, "stopped")
     ELSE me' = [Onward("launch") EXCEPT !.want = name[me.conn]]
  /\ UNCHANGED others
ShutdownFails ==
  /\ At("shutdown") /\ (ShutDown \/ UNCHANGED shared)
  /\ Retry \/ Decline("refused") \/ Finish(2, "shutdown")
  /\ UNCHANGED others

-----------------------------------------------------------------------------
(* start_server: the process is bound before it has its row, and has its    *)
(* row before it greets.                                                    *)
Mine == me.tries
Spawn ==
  /\ At("launch") /\ me' = Onward("boot")
  /\ up' = WithNew(Mine)
  /\ name' = [name EXCEPT ![Mine] = me.want]
  /\ UNCHANGED <<jar, later, rows>>
Register ==
  /\ At("boot") /\ Listens(Mine) /\ Mine \notin rows /\ Registrable(Mine, rows)
  /\ rows' = rows \cup {Mine}
  /\ UNCHANGED <<others, up, me>>
Greeted ==
  /\ At("boot") /\ Mine \in rows /\ me' = [Onward("check") EXCEPT !.owned = @ \cup {Mine}]
  /\ UNCHANGED <<others, shared>>

(* No greeting in time, none at all (the name was taken), or no sense in    *)
(* it: the process group is killed, and a row it had stays.                 *)
LeaveBooting == At("boot") /\ Decline("boot") /\ UNCHANGED <<others, shared>>  \* mutant
BootFails == /\ At("boot") /\ Decline("boot") /\ up' = Without({Mine})
             /\ UNCHANGED <<others, rows>>

(* start_checked: the new server has to be of the build that is installed   *)
(* now.  If not, or if it does not answer, it is closed again.              *)
Close(servers) == up' = Without(servers) /\ rows' \in {rows, rows \ servers}
Checked ==
  /\ At("check") /\ Listens(Mine) /\ up[Mine] = jar
  /\ me' = [Onward("query") EXCEPT !.conn = Mine]
  /\ UNCHANGED <<others, shared>>
CheckFails ==
  /\ At("check") /\ Close({Mine})
  /\ Retry \/ Decline("incompatible") \/ Finish(2, "silent")
  /\ UNCHANGED others

-----------------------------------------------------------------------------
(* query_run.  The server compares the build the payload names with its     *)
(* own, and answers or refuses.                                             *)
Send == /\ At("query") /\ me' = [me EXCEPT !.pc = "await", !.sent = TRUE]
        /\ UNCHANGED <<others, shared>>
Answered == /\ At("await") /\ Listens(me.conn) /\ up[me.conn] = me.id
            /\ me' = Onward("write") /\ UNCHANGED <<others, shared>>
Stale == /\ At("await") /\ Listens(me.conn) /\ up[me.conn] # me.id
         /\ Finish(2, "stale") /\ UNCHANGED <<others, shared>>

(* An error of the engine, a reply that makes no sense, a lost connection,  *)
(* and no answer in the time the caller allowed.                            *)
Failed == /\ At("await") /\ UNCHANGED <<others, shared>>
          /\ Finish(2, "error") \/ Decline("malformed") \/ Retry \/ Finish(2, "silent")

(* Bytes may have escaped when writing fails: 141 for a closed pipe. *)
Emit(out, status) == me' = [Onward("close") EXCEPT !.out = out, !.rc = status]
Replay ==  \* mutant: a failed write is left to the cold path
  /\ At("write") /\ (Emit("answer", 0) \/ Emit("part", 141) \/ Emit("part", 97))
  /\ UNCHANGED <<others, shared>>
Write == /\ At("write") /\ (Emit("answer", 0) \/ Emit("part", 141) \/ Emit("part", 2))
         /\ UNCHANGED <<others, shared>>

(* SIGINT, SIGTERM or SIGHUP, anywhere; the cleanup still runs. *)
Interrupt == /\ me.pc \notin {"close", "shim", "exit"} /\ Finish(130, "interrupt")
             /\ up' = IF At("boot") THEN Without({Mine}) ELSE up
             /\ UNCHANGED <<others, rows>>

(* close_owned_since, and the shim: status 97 is the cold path. *)
CloseOwned == /\ At("close") /\ Close(me.owned)
              /\ me' = [Onward("shim") EXCEPT !.owned = {}, !.out = me.out, !.rc = me.rc]
              /\ UNCHANGED others
Shim == /\ At("shim") /\ UNCHANGED <<others, shared>>
        /\ me' = [me EXCEPT !.pc = "exit",
                            !.out = IF me.rc # 97 THEN @
                                    ELSE IF @ = "none" THEN "answer" ELSE "twice"]

-----------------------------------------------------------------------------
(* The world: somebody starts a server; a server withdraws its row, dies,   *)
(* or both; another invocation prunes; the component is built anew.  It is  *)
(* of no more interest once the invocation has closed its servers.          *)
Appear(s) ==
  /\ s \in later /\ Registrable(s, rows) /\ later' = later \ {s}
  /\ up' = WithNew(s) /\ rows' = rows \cup {s}
  /\ UNCHANGED <<jar, name, me>>
Die(s) == Listens(s) /\ up' = Without({s}) /\ UNCHANGED <<others, rows, me>>
Withdraw(s) == /\ s \in rows /\ (Listens(s) \/ name[s] # "host") /\ rows' = rows \ {s}
               /\ UNCHANGED <<others, up, me>>
Rebuild == /\ jar < MaxBuild /\ jar' = jar + 1
           /\ UNCHANGED <<later, name, shared, me>>

Probe(s) == Refused(s) \/ Unverified(s) \/ Use(s) \/ End(s) \/ PassOver(s)
Scan == \/ (\E s \in Server : Probe(s)) \/ Prune \/ Expired
        \/ NothingToStop \/ EndOld \/ Unavailable \/ StartOwn
Start == Spawn \/ Greeted \/ BootFails \/ Checked \/ CheckFails
Ask == Send \/ Answered \/ Stale \/ Failed \/ Write
Invocation == \/ Request \/ RefuseHost \/ Discover \/ Scan \/ Shutdown \/ ShutdownFails
              \/ Start \/ Ask \/ CloseOwned \/ Shim
World == Rebuild \/ \E s \in Server : Appear(s) \/ Die(s) \/ Withdraw(s)
Next == Invocation \/ Register \/ Interrupt \/ (me.pc \notin {"shim", "exit"} /\ World)
Spec == Init /\ [][Next]_vars

-----------------------------------------------------------------------------
Place == {"request", "connect", "scan", "prune", "shutdown", "launch", "boot", "check",
          "query", "await", "write", "close", "shim", "exit"}
Reason == {"none", "host", "lost", "stopped", "unavailable", "refused", "shutdown", "boot",
           "incompatible", "silent", "stale", "error", "malformed", "interrupt"}
Client ==
  [set : Setting, pc : Place, tries : Launch, id : 0..MaxBuild, stamp : 0..MaxBuild,
   seen : SUBSET Server, named : BOOLEAN, refused : BOOLEAN, failed : BOOLEAN,
   old : Server \cup {None}, conn : Server \cup {None},
   want : {"none", "default", "fallback"}, owned : SUBSET Launch, sent : BOOLEAN,
   out : {"none", "part", "answer", "twice"}, rc : {0, 2, 97, 130, 141}, why : Reason]
WorldType ==
  /\ jar \in 1..MaxBuild /\ later \subseteq Others
  /\ up \in [DOMAIN up -> 0..MaxBuild] /\ DOMAIN up \subseteq Server \ later
  /\ rows \subseteq Server \ later
  /\ name \in [Server -> {"host", "default", "fallback", "none"}]
TypeOK == me \in Client /\ WorldType

(* "a decline at any point, for any reason, can neither duplicate nor       *)
(* truncate output": the cold path answers only if nothing was written.     *)
AnsweredOnce == me.out # "twice"

(* No invocation ends, restarts or prunes a host that belongs to an editor. *)
HostsUntouched ==
  [][me' # me => \A s \in Host : /\ s \in rows => s \in rows'
                                 /\ Listens(s) => s \in DOMAIN up']_vars

(* The invocation takes the row of a live server away only if it has        *)
(* verified it and told it to end, or started it: a row that came to the    *)
(* name after the old listener refused stays.                               *)
LiveRowStays ==
  [][me' # me => \A s \in (rows \ rows') \cap DOMAIN up :
       s \in Launch \/ (At("shutdown") /\ me.conn = s)]_vars

(* In all, other people's servers and rows survive an invocation.           *)
OthersKeepTheirs == HostsUntouched /\ LiveRowStays

(* An invocation that ends leaves no server of its own behind. *)
NoStrayLaunch == me.pc \in {"shim", "exit"} => DOMAIN up \cap Launch = {}

(* An old server is passed over, not asked: "stale query server" can only   *)
(* be the answer if the component was built anew under the running client.  *)
StaleOnlyIfRebuilt == me.why = "stale" => me.id < jar

(* Every invocation ends: it can always take a step, without any other      *)
(* process, and every step of its brings it closer to the end.  What is     *)
(* left to do is counted in attempts, in stages of an attempt, and in rows  *)
(* not tried yet.                                                           *)
Stage(at) == CASE at = "request" -> 9 [] at = "connect" -> 8 [] at \in {"scan", "prune"} -> 7
               [] at = "shutdown" -> 6 [] at = "launch" -> 5 [] at = "boot" -> 4
               [] at = "check" -> 3 [] at = "query" -> 2 [] at = "await" -> 1 [] at = "write" -> 0
Last(at) == CASE at = "close" -> 2 [] at = "shim" -> 1 [] at = "exit" -> 0 [] OTHER -> 3
Rows(m) == 2 * Cardinality(m.seen) + IF m.pc = "prune" THEN 1 ELSE 0
Closer(m, n) == \/ Last(n.pc) < Last(m.pc)
                \/ /\ Last(n.pc) = 3 /\ Last(m.pc) = 3
                   /\ \/ n.tries > m.tries
                      \/ n.tries = m.tries /\ Stage(n.pc) < Stage(m.pc)
                      \/ n.tries = m.tries /\ Stage(n.pc) = Stage(m.pc) /\ Rows(n) < Rows(m)
NeverStuck == At("exit") \/ ENABLED Invocation
OnlyForward == [][Closer(me, me')]_me
GetsOn == []NeverStuck /\ OnlyForward

(* "the cost of being wrong here is a spurious fall back to the cold path,  *)
(* not an error": no server is reported as silent that was never asked.     *)
SilentWasAsked == me.why = "silent" => me.sent
=============================================================================
