----------------------------- MODULE QueryHost ------------------------------
(***************************************************************************)
(* One process that answers queries on a loopback port: the endpoint, its  *)
(* row in servers.db and its life cycle (query_base/src/query_host.scala), *)
(* and the dedicated server's owner thread (query_server.scala).           *)
(*                                                                         *)
(* An embedded host lives inside jEdit or PIDE and is started and stopped  *)
(* by it.  A dedicated server ends when a client asks it to, or when the   *)
(* owner of its stdin goes away; both, and the main thread on its way out, *)
(* run Endpoint.stop(), possibly at the same time.                         *)
(***************************************************************************)

CONSTANTS
  Connection,  \* connections from clients, each used once
  Kind,        \* what the host may be: "embedded", "dedicated" or either
  None         \* no connection

ASSUME KindAssumption == Kind \subseteq {"embedded", "dedicated"}
ASSUME ConnectionAssumption == Connection \cap {None, "main", "owner"} = {}

VARIABLES
  host,     \* [kind, life, main, owner: the process and its two own threads,
            \*  closing: begin_shutdown was called, set: the owner thread
            \*  sees the endpoint, identity: host_identity names this host]
  row,      \* the row of this host's name: "none", "mine" or "other"
  ep,       \* Endpoint: [listening, stopped, backlog: made by the kernel and
            \*  not accepted, accept: the accept thread, incoming: what it
            \*  just got, tracked: connections, open: accepted, not closed]
  handler,  \* the thread of each connection
  stage,    \* progress of stop() in each thread that calls it
  grabbed   \* connections that thread has taken to close

vars == <<host, row, ep, handler, stage, grabbed>>

Stopper == {"main", "owner"} \cup Connection
Alive == host.life = "alive"
Embedded == host.kind = "embedded"

Init ==
  /\ \E kind \in Kind :
       host = [kind |-> kind, life |-> "alive", main |-> "bind", closing |-> FALSE,
               set |-> FALSE, owner |-> IF kind = "embedded" THEN "none" ELSE "reading",
               identity |-> kind = "dedicated"]
  /\ row \in IF Embedded THEN {"none"} ELSE {"none", "other"}
  /\ ep = [listening |-> FALSE, stopped |-> FALSE, backlog |-> {}, accept |-> "off",
           incoming |-> None, tracked |-> {}, open |-> {}]
  /\ handler = [c \in Connection |-> "none"]
  /\ stage = [t \in Stopper |-> "none"]
  /\ grabbed = [t \in Stopper |-> {}]

-----------------------------------------------------------------------------
(* Endpoint.stop(), in the thread t. *)
BeginStop(t) == /\ ep' = [ep EXCEPT !.stopped = TRUE]
                /\ stage' = [stage EXCEPT ![t] = "close"]
CloseSocket(t) ==
  /\ stage[t] = "close" /\ stage' = [stage EXCEPT ![t] = "swap"]
  /\ ep' = [ep EXCEPT !.listening = FALSE, !.backlog = {}]
  /\ UNCHANGED <<host, row, handler, grabbed>>
Swap(t) ==
  /\ stage[t] = "swap" /\ stage' = [stage EXCEPT ![t] = "hang"]
  /\ ep' = [ep EXCEPT !.tracked = {}] /\ grabbed' = [grabbed EXCEPT ![t] = ep.tracked]
  /\ UNCHANGED <<host, row, handler>>
HangUp(t) ==
  /\ stage[t] = "hang" /\ stage' = [stage EXCEPT ![t] = "join"]
  /\ ep' = [ep EXCEPT !.open = @ \ grabbed[t]] /\ grabbed' = [grabbed EXCEPT ![t] = {}]
  /\ UNCHANGED <<host, row, handler>>
Join(t) ==
  /\ stage[t] = "join" /\ ep.accept = "done" /\ stage' = [stage EXCEPT ![t] = "done"]
  /\ UNCHANGED <<host, row, ep, handler, grabbed>>
Stop(t) == CloseSocket(t) \/ Swap(t) \/ HangUp(t) \/ Join(t)

(* remove_row: only the exact row of this listener. *)
RemoveByName == row' = "none"  \* mutant: whatever has the name
RemoveRow == row' = IF row = "mine" THEN "none" ELSE row

-----------------------------------------------------------------------------
(* with_server, or start and stop under lifecycle_lock. *)
Bind ==
  /\ host.main = "bind" /\ host' = [host EXCEPT !.main = "start", !.identity = TRUE]
  /\ ep' = [ep EXCEPT !.listening = TRUE]
  /\ UNCHANGED <<row, handler, stage, grabbed>>
Start ==
  /\ host.main = "start" /\ host' = [host EXCEPT !.main = "register"]
  /\ ep' = [ep EXCEPT !.accept = "loop"]
  /\ UNCHANGED <<row, handler, stage, grabbed>>

(* A row is only ever inserted, never replaced. *)
Register ==
  /\ host.main = "register" /\ row = "none" /\ row' = "mine"
  /\ host' = [host EXCEPT !.main = IF Embedded THEN "up" ELSE "set"]
  /\ UNCHANGED <<ep, handler, stage, grabbed>>

(* The finally of with_server calls shutdown_started first. *)
Leave == /\ host' = [host EXCEPT !.main = "stop", !.closing = @ \/ ~Embedded]
         /\ BeginStop("main") /\ UNCHANGED <<row, handler, grabbed>>
RegisterFails == host.main = "register" /\ Leave

(* Query_Server_Main sets the endpoint before it looks at closing. *)
SetEndpoint ==
  /\ host.main = "set" /\ host' = [host EXCEPT !.main = "check", !.set = TRUE]
  /\ UNCHANGED <<row, ep, handler, stage, grabbed>>
CheckClosing == host.main = "check" /\ host.closing /\ Leave
AnnounceAnyway ==  \* mutant: closing is not looked at
  /\ host.main = "check" /\ host' = [host EXCEPT !.main = "up"]
  /\ UNCHANGED <<row, ep, handler, stage, grabbed>>
Announce ==
  /\ host.main = "check" /\ ~host.closing /\ host' = [host EXCEPT !.main = "up"]
  /\ UNCHANGED <<row, ep, handler, stage, grabbed>>

(* A dedicated server has joined the accept thread; an embedded host is     *)
(* stopped by its application.                                              *)
Down == host.main = "up" /\ (Embedded \/ ep.accept = "done") /\ Leave
Remove(worked) ==
  /\ host.main = "stop" /\ stage["main"] = "done" /\ host' = [host EXCEPT !.main = "forget"]
  /\ IF worked THEN RemoveRow ELSE UNCHANGED row
  /\ UNCHANGED <<ep, handler, stage, grabbed>>
Finish ==
  /\ host.main = "forget"
  /\ host' = [host EXCEPT !.main = "done", !.identity = ~Embedded,
                          !.life = IF Embedded THEN @ ELSE "exited"]
  /\ UNCHANGED <<row, ep, handler, stage, grabbed>>
Begin == Bind \/ Start \/ Register \/ RegisterFails \/ SetEndpoint \/ CheckClosing \/ Announce
End == Finish \/ \E worked \in BOOLEAN : Remove(worked)

(* The owner thread: begin_shutdown at the end of stdin, then the endpoint  *)
(* if there is one yet.                                                     *)
EndOfInput ==
  /\ host.owner = "reading" /\ host' = [host EXCEPT !.owner = "eof", !.closing = TRUE]
  /\ UNCHANGED <<row, ep, handler, stage, grabbed>>
OwnerStops ==
  /\ host.owner = "eof" /\ host' = [host EXCEPT !.owner = "done"]
  /\ IF host.set THEN BeginStop("owner") ELSE UNCHANGED <<ep, stage>>
  /\ UNCHANGED <<row, handler, grabbed>>

(* The watchdog of begin_shutdown halts the process three seconds later;    *)
(* any process may be killed as abruptly.                                   *)
Halt == /\ host' = [host EXCEPT !.life = "halted"]
        /\ UNCHANGED <<row, ep, handler, stage, grabbed>>

-----------------------------------------------------------------------------
(* The accept thread. *)
AcceptLoop ==
  /\ ep.accept = "loop"
  /\ ep' = [ep EXCEPT !.accept = IF ep.stopped THEN "done" ELSE "accept"]
  /\ UNCHANGED <<host, row, handler, stage, grabbed>>
Accept(c) ==
  /\ ep.accept = "accept" /\ c \in ep.backlog
  /\ ep' = [ep EXCEPT !.accept = "got", !.incoming = c, !.backlog = @ \ {c},
                      !.open = @ \cup {c}]
  /\ UNCHANGED <<host, row, handler, stage, grabbed>>

(* The socket was closed, or accept() failed for want of resources. *)
AcceptFails ==
  /\ ep.accept = "accept" /\ ep' = [ep EXCEPT !.accept = "done", !.stopped = TRUE]
  /\ UNCHANGED <<host, row, handler, stage, grabbed>>
TrackAlways ==  \* mutant: stopped is not tested again under the lock
  /\ ep.accept = "got"
  /\ ep' = [ep EXCEPT !.accept = "fork", !.tracked = @ \cup {ep.incoming}]
  /\ UNCHANGED <<host, row, handler, stage, grabbed>>
Track ==
  /\ ep.accept = "got"
  /\ ep' = IF ep.stopped
           THEN [ep EXCEPT !.accept = "loop", !.open = @ \ {ep.incoming}]
           ELSE [ep EXCEPT !.accept = "fork", !.tracked = @ \cup {ep.incoming}]
  /\ UNCHANGED <<host, row, handler, stage, grabbed>>
Fork ==
  /\ ep.accept = "fork" /\ ep' = [ep EXCEPT !.accept = "loop"]
  /\ handler' = [handler EXCEPT ![ep.incoming] = "password"]
  /\ UNCHANGED <<host, row, stage, grabbed>>
ForkFails ==
  /\ ep.accept = "fork"
  /\ ep' = [ep EXCEPT !.accept = "done", !.stopped = TRUE, !.open = @ \ {ep.incoming},
                      !.tracked = @ \ {ep.incoming}]
  /\ UNCHANGED <<host, row, handler, stage, grabbed>>
Accepting == \/ AcceptLoop \/ AcceptFails \/ Track \/ Fork \/ ForkFails
             \/ \E c \in Connection : Accept(c)

-----------------------------------------------------------------------------
(* The thread of a connection.  Reading from or writing to one that either  *)
(* side has closed throws, and ends it.  The password is in the row.        *)
Goto(c, next) == handler' = [handler EXCEPT ![c] = next]
Step(c, from, to) == handler[c] = from /\ Goto(c, to) /\ UNCHANGED <<host, row, ep, stage, grabbed>>

Greet(c) == host.main \notin {"bind", "start", "register"} /\ c \in ep.open /\ Step(c, "password", "loop")
Loop(c) == Step(c, "loop", IF ep.stopped THEN "finally" ELSE "read")
Read(c) == c \in ep.open /\ Step(c, "read", "dispatch")
Dispatch(c) == c \in ep.open /\ Step(c, "dispatch", "loop")
Broken(c) == \E at \in {"password", "read", "dispatch", "reply"} : Step(c, at, "finally")

(* The shutdown command: before_shutdown, the reply, stop(). *)
AskShutdown(c) ==
  /\ ~Embedded /\ handler[c] = "read" /\ c \in ep.open /\ Goto(c, "remove")
  /\ host' = [host EXCEPT !.closing = TRUE]
  /\ UNCHANGED <<row, ep, stage, grabbed>>
ReplyFirst(c) == Step(c, "remove", "reply")  \* mutant: the row is left to the main thread
RemoveFirst(c) == /\ handler[c] = "remove" /\ Goto(c, "reply") /\ RemoveRow
                  /\ UNCHANGED <<host, ep, stage, grabbed>>
RemoveFails(c) == Step(c, "remove", IF c \in ep.open THEN "loop" ELSE "finally")
Acknowledge(c) == /\ handler[c] = "reply" /\ c \in ep.open /\ Goto(c, "stop") /\ BeginStop(c)
                  /\ UNCHANGED <<host, row, grabbed>>
Stopped(c) == stage[c] = "done" /\ Step(c, "stop", "loop")

Untrack(c) == /\ handler[c] = "finally" /\ Goto(c, "close")
              /\ ep' = [ep EXCEPT !.tracked = @ \ {c}] /\ UNCHANGED <<host, row, stage, grabbed>>
Close(c) == /\ handler[c] = "close" /\ Goto(c, "done")
            /\ ep' = [ep EXCEPT !.open = @ \ {c}] /\ UNCHANGED <<host, row, stage, grabbed>>
Serve(c) == \/ Greet(c) \/ Loop(c) \/ Read(c) \/ Dispatch(c) \/ Broken(c)
            \/ AskShutdown(c) \/ RemoveFirst(c) \/ RemoveFails(c) \/ Acknowledge(c) \/ Stopped(c)
            \/ Untrack(c) \/ Close(c)

-----------------------------------------------------------------------------
(* Clients, and other processes that use the registry. *)
Connect(c) ==
  /\ Alive /\ ep.listening /\ handler[c] = "none" /\ c \notin ep.backlog \cup ep.open
  /\ c # ep.incoming /\ ep' = [ep EXCEPT !.backlog = @ \cup {c}]
  /\ UNCHANGED <<host, row, handler, stage, grabbed>>
OtherRegisters == /\ ~Embedded /\ row = "none" /\ row' = "other"
                  /\ UNCHANGED <<host, ep, handler, stage, grabbed>>
(* A client that was refused prunes the exact row. *)
Prune == /\ ~Embedded /\ row = "mine" /\ ~(Alive /\ ep.listening) /\ row' = "none"
         /\ UNCHANGED <<host, ep, handler, stage, grabbed>>

Threads == \/ Begin \/ Down \/ End \/ EndOfInput \/ OwnerStops \/ Halt \/ Accepting
           \/ \E t \in Stopper : Stop(t)
           \/ \E c \in Connection : Serve(c)
World == OtherRegisters \/ Prune \/ \E c \in Connection : Connect(c)
Next == (Alive /\ Threads) \/ World
Spec == Init /\ [][Next]_vars

(* The threads of a dedicated server's life cycle run.  Neither the         *)
(* watchdog nor any connection's thread is relied on, but that one which    *)
(* has acknowledged a shutdown runs stop().                                 *)
Fairness == /\ WF_vars(Alive /\ (Begin \/ Down \/ End))
            /\ WF_vars(Alive /\ OwnerStops)
            /\ WF_vars(Alive /\ Accepting /\ (ep.accept = "accept" => ~ep.listening))
            /\ \A t \in Stopper : WF_vars(Alive /\ Stop(t))
FairSpec == Spec /\ Fairness

-----------------------------------------------------------------------------
HostType ==
  host \in [kind : Kind, life : {"alive", "exited", "halted"},
            owner : {"none", "reading", "eof", "done"},
            main : {"bind", "start", "register", "set", "check", "up", "stop", "forget", "done"},
            closing : BOOLEAN, set : BOOLEAN, identity : BOOLEAN]
EndpointType ==
  ep \in [listening : BOOLEAN, stopped : BOOLEAN, backlog : SUBSET Connection,
          accept : {"off", "loop", "accept", "got", "fork", "done"},
          incoming : Connection \cup {None}, tracked : SUBSET Connection,
          open : SUBSET Connection]
ThreadType ==
  /\ handler \in [Connection -> {"none", "password", "loop", "read", "dispatch", "remove",
                                 "reply", "stop", "finally", "close", "done"}]
  /\ stage \in [Stopper -> {"none", "close", "swap", "hang", "join", "done"}]
  /\ grabbed \in [Stopper -> SUBSET Connection]
TypeOK ==
  /\ HostType /\ EndpointType /\ ThreadType
  /\ row \in {"none", "mine", "other"}
  /\ ep.tracked \subseteq ep.open

(* When stop() has returned nobody is accepted any more, and every          *)
(* connection there ever was is closed, or about to be by the thread that   *)
(* took it: none slips in between the flag and the sweep.                   *)
StopClosesAll ==
  \A t \in Stopper : stage[t] = "done" =>
    /\ ~ep.listening /\ ep.accept = "done"
    /\ \A c \in ep.open : handler[c] = "close" \/ \E u \in Stopper : c \in grabbed[u]

(* "Only remove the exact row published by this listener": a server that    *)
(* has taken over the name keeps its row.                                   *)
ForeignRowStays == [][row = "other" => row' = "other"]_row

(* A client that finds the row and is answered sees the name of the row: it *)
(* rejects a host that reports another one.                                 *)
IdentityPublished == Alive /\ ep.listening /\ row = "mine" => host.identity

(* A client whose shutdown was acknowledged may start a server of the same  *)
(* name at once: the insertion will not collide with the row of this one.   *)
Acknowledged == \E c \in Connection : stage[c] # "none"
AckedMeansRemoved == Acknowledged => row # "mine"

(* What servers.db says of this process is true as long as a client may act *)
(* on it: the row it finds is answered for, the row it had removed is gone. *)
RowIsTrue == IdentityPublished /\ AckedMeansRemoved

(* A dedicated server ends with its owner, also if the owner went away      *)
(* before there was an endpoint to stop, and without help of the watchdog.  *)
OwnerEnds == host.owner = "eof" ~> ~Alive

(* An acknowledged shutdown ends the process, whatever its other            *)
(* connections are doing.                                                   *)
AckEnds == Acknowledged ~> ~Alive

(* The process ends when it is told to, whoever tells it and whenever.      *)
ToldToEnd == OwnerEnds /\ AckEnds
=============================================================================
