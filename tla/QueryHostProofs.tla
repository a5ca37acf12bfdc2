--------------------------- MODULE QueryHostProofs ---------------------------
(***************************************************************************)
(* Proofs about QueryHost, for any number of connections.                  *)
(*                                                                         *)
(* stop() may run in the main thread, the owner thread and any number of   *)
(* handlers at once, against an accept thread that is about to track a     *)
(* connection.  The argument: the flag is set before the sweep and tested  *)
(* by the accept thread under the lock the sweep takes, so that tracked    *)
(* stays empty behind the first sweep; an open connection always has an    *)
(* owner that will close it.                                               *)
(***************************************************************************)
EXTENDS QueryHost, TLAPS

Early == {"bind", "start", "register"}
Swept(t) == stage[t] \in {"hang", "join", "done"}

(* What the main thread has not done yet. *)
Phases ==
  /\ host.main \in {"bind", "start"} => ep.accept = "off"
  /\ host.main = "bind" => ~ep.listening
  /\ host.main \in Early \cup {"set", "check", "up"} => stage["main"] = "none"
  /\ host.main \in {"forget", "done"} => stage["main"] = "done"
  /\ host.set => host.main \notin Early \cup {"set"}
  /\ stage["owner"] # "none" => host.set /\ host.owner = "done"
  /\ ~host.identity => Embedded /\ host.main \in {"bind", "done"}

(* What a handler does, and when it runs stop(). *)
Handlers ==
  \A c \in Connection :
    /\ ep.accept = "off" => handler[c] = "none"
    /\ host.main \in Early => handler[c] \in {"none", "password", "finally", "close", "done"}
    /\ host.main \in Early => stage[c] = "none"
    /\ stage[c] \in {"close", "swap", "hang", "join"} => handler[c] = "stop"
    /\ handler[c] \in {"close", "done"} => c \notin ep.tracked

(* How far each stop() is. *)
Stopping ==
  \A t \in Stopper :
    /\ stage[t] # "none" => ep.stopped
    /\ Swept(t) \/ stage[t] = "swap" => ~ep.listening /\ ep.backlog = {}
    /\ Swept(t) => ep.tracked = {}
    /\ stage[t] = "done" => ep.accept = "done"
    /\ grabbed[t] # {} => stage[t] = "hang"

(* Connections before their handler runs. *)
Coming ==
  /\ \A c \in ep.backlog : handler[c] = "none" /\ c \notin ep.open /\ c # ep.incoming
  /\ ep.accept \in {"got", "fork"} => ep.incoming \in Connection /\ handler[ep.incoming] = "none"
  /\ ep.accept = "got" => /\ ep.incoming \in ep.open \ ep.tracked
                          /\ \A t \in Stopper : ep.incoming \notin grabbed[t]

(* An open connection is always somebody's to close. *)
Owned ==
  \A c \in ep.open :
    \/ c \in ep.tracked
    \/ handler[c] = "close"
    \/ \E t \in Stopper : c \in grabbed[t]
    \/ ep.accept = "got" /\ c = ep.incoming

(* Whoever acknowledges a shutdown has removed the row. *)
Withdrawn == \A c \in Connection : handler[c] = "reply" \/ stage[c] # "none" => row # "mine"

IInv == TypeOK /\ Phases /\ Handlers /\ Stopping /\ Coming /\ Owned /\ Withdrawn

-----------------------------------------------------------------------------
(* A step that changes several fields of the endpoint, or one of two ways,  *)
(* keeps its type.                                                          *)
LEMMA EndpointKept ==
  ASSUME EndpointType
  PROVE  /\ \A c \in Connection : Accept(c) => EndpointType'
         /\ ep.incoming \in Connection /\ Track => EndpointType'
         /\ HostType /\ OwnerStops => EndpointType'
<1>1. ASSUME NEW c \in Connection, Accept(c) PROVE EndpointType'
  BY <1>1 DEF EndpointType, Accept
<1>2. ASSUME ep.incoming \in Connection, Track PROVE EndpointType'
  <2>1. CASE ep.stopped
    BY <1>2, <2>1 DEF EndpointType, Track
  <2>2. CASE ~ep.stopped
    BY <1>2, <2>2 DEF EndpointType, Track
  <2> QED BY <2>1, <2>2
<1>3. ASSUME HostType, OwnerStops PROVE EndpointType'
  <2>1. CASE host.set
    BY <1>3, <2>1 DEF EndpointType, OwnerStops, BeginStop
  <2>2. CASE ~host.set
    BY <1>3, <2>2 DEF EndpointType, OwnerStops, BeginStop
  <2> QED BY <2>1, <2>2
<1> QED BY <1>1, <1>2, <1>3

LEMMA StopKeeps ==
  ASSUME IInv, NEW t \in Stopper, Stop(t)
  PROVE  IInv'
<1> USE KindAssumption, ConnectionAssumption
    DEF IInv, TypeOK, Phases, Handlers, Stopping, Coming, Owned, Withdrawn, Early, Swept,
        Stopper, Embedded, Alive
<1>1. CASE CloseSocket(t)
  <2>1. HostType' /\ row' \in {"none", "mine", "other"}
    BY <1>1 DEF CloseSocket, HostType
  <2>2. EndpointType'
    BY <1>1 DEF CloseSocket, EndpointType, HostType
  <2>3. ThreadType'
    BY <1>1 DEF CloseSocket, ThreadType
  <2>4. (ep.tracked \subseteq ep.open)' /\ Phases' /\ Handlers' /\ Stopping'
    BY <1>1 DEF CloseSocket, HostType, EndpointType, ThreadType
  <2>5. Coming' /\ Owned' /\ Withdrawn'
    BY <1>1 DEF CloseSocket, HostType, EndpointType, ThreadType
  <2> QED BY <2>1, <2>2, <2>3, <2>4, <2>5
<1>2. CASE Swap(t)
  BY <1>2 DEF Swap, HostType, EndpointType, ThreadType
<1>3. CASE HangUp(t)
  BY <1>3 DEF HangUp, HostType, EndpointType, ThreadType
<1>4. CASE Join(t)
  BY <1>4 DEF Join, HostType, EndpointType, ThreadType
<1> QED BY <1>1, <1>2, <1>3, <1>4 DEF Stop

LEMMA MainKeeps ==
  ASSUME IInv, Begin \/ Down \/ End
  PROVE  IInv'
<1> USE KindAssumption, ConnectionAssumption
    DEF IInv, TypeOK, Phases, Handlers, Stopping, Coming, Owned, Withdrawn, Early, Swept,
        Stopper, Embedded, Alive
<1>1. CASE Bind
  <2>1. HostType' /\ row' \in {"none", "mine", "other"}
    BY <1>1 DEF Bind, HostType
  <2>2. EndpointType'
    BY <1>1 DEF Bind, EndpointType, HostType
  <2>3. ThreadType'
    BY <1>1 DEF Bind, ThreadType
  <2>4. (ep.tracked \subseteq ep.open)' /\ Phases' /\ Handlers' /\ Stopping'
    BY <1>1 DEF Bind, HostType, EndpointType, ThreadType
  <2>5. Coming' /\ Owned' /\ Withdrawn'
    BY <1>1 DEF Bind, HostType, EndpointType, ThreadType
  <2> QED BY <2>1, <2>2, <2>3, <2>4, <2>5
<1>2. CASE Start
  BY <1>2 DEF Start, HostType, EndpointType, ThreadType
<1>3. CASE Register
  BY <1>3 DEF Register, HostType, EndpointType, ThreadType
<1>4. CASE RegisterFails
  <2>1. HostType' /\ row' \in {"none", "mine", "other"}
    BY <1>4 DEF RegisterFails, Leave, BeginStop, HostType
  <2>2. EndpointType'
    BY <1>4 DEF RegisterFails, Leave, BeginStop, EndpointType, HostType
  <2>3. ThreadType'
    BY <1>4 DEF RegisterFails, Leave, BeginStop, ThreadType
  <2>4. (ep.tracked \subseteq ep.open)' /\ Phases' /\ Handlers' /\ Stopping'
    BY <1>4 DEF RegisterFails, Leave, BeginStop, HostType, EndpointType, ThreadType
  <2>5. Coming' /\ Owned' /\ Withdrawn'
    BY <1>4 DEF RegisterFails, Leave, BeginStop, HostType, EndpointType, ThreadType
  <2> QED BY <2>1, <2>2, <2>3, <2>4, <2>5
<1>5. CASE SetEndpoint
  <2>1. HostType' /\ row' \in {"none", "mine", "other"}
    BY <1>5 DEF SetEndpoint, HostType
  <2>2. EndpointType'
    BY <1>5 DEF SetEndpoint, EndpointType, HostType
  <2>3. ThreadType'
    BY <1>5 DEF SetEndpoint, ThreadType
  <2>4. (ep.tracked \subseteq ep.open)' /\ Phases' /\ Handlers' /\ Stopping'
    BY <1>5 DEF SetEndpoint, HostType, EndpointType, ThreadType
  <2>5. Coming' /\ Owned' /\ Withdrawn'
    BY <1>5 DEF SetEndpoint, HostType, EndpointType, ThreadType
  <2> QED BY <2>1, <2>2, <2>3, <2>4, <2>5
<1>6. CASE CheckClosing
  <2>1. HostType' /\ row' \in {"none", "mine", "other"}
    BY <1>6 DEF CheckClosing, Leave, BeginStop, HostType
  <2>2. EndpointType'
    BY <1>6 DEF CheckClosing, Leave, BeginStop, EndpointType, HostType
  <2>3. ThreadType'
    BY <1>6 DEF CheckClosing, Leave, BeginStop, ThreadType
  <2>4. (ep.tracked \subseteq ep.open)' /\ Phases' /\ Handlers' /\ Stopping'
    BY <1>6 DEF CheckClosing, Leave, BeginStop, HostType, EndpointType, ThreadType
  <2>5. Coming' /\ Owned' /\ Withdrawn'
    BY <1>6 DEF CheckClosing, Leave, BeginStop, HostType, EndpointType, ThreadType
  <2> QED BY <2>1, <2>2, <2>3, <2>4, <2>5
<1>7. CASE Announce
  BY <1>7 DEF Announce, HostType, EndpointType, ThreadType
<1>8. CASE Down
  <2>1. HostType' /\ row' \in {"none", "mine", "other"}
    BY <1>8 DEF Down, Leave, BeginStop, HostType
  <2>2. EndpointType'
    BY <1>8 DEF Down, Leave, BeginStop, EndpointType, HostType
  <2>3. ThreadType'
    BY <1>8 DEF Down, Leave, BeginStop, ThreadType
  <2>4. (ep.tracked \subseteq ep.open)' /\ Phases' /\ Handlers' /\ Stopping'
    BY <1>8 DEF Down, Leave, BeginStop, HostType, EndpointType, ThreadType
  <2>5. Coming' /\ Owned' /\ Withdrawn'
    BY <1>8 DEF Down, Leave, BeginStop, HostType, EndpointType, ThreadType
  <2> QED BY <2>1, <2>2, <2>3, <2>4, <2>5
<1>9. CASE Finish
  <2>1. HostType' /\ row' \in {"none", "mine", "other"}
    BY <1>9 DEF Finish, HostType
  <2>2. EndpointType'
    BY <1>9 DEF Finish, EndpointType, HostType
  <2>3. ThreadType'
    BY <1>9 DEF Finish, ThreadType
  <2>4. (ep.tracked \subseteq ep.open)' /\ Phases' /\ Handlers' /\ Stopping'
    BY <1>9 DEF Finish, HostType, EndpointType, ThreadType
  <2>5. Coming' /\ Owned' /\ Withdrawn'
    BY <1>9 DEF Finish, HostType, EndpointType, ThreadType
  <2> QED BY <2>1, <2>2, <2>3, <2>4, <2>5
<1>10. CASE \E worked \in BOOLEAN : Remove(worked)
  BY <1>10 DEF Remove, RemoveRow, HostType, EndpointType, ThreadType
<1> QED BY <1>1, <1>2, <1>3, <1>4, <1>5, <1>6, <1>7, <1>8, <1>9, <1>10 DEF Begin, End

LEMMA OwnerKeeps ==
  ASSUME IInv, EndOfInput \/ OwnerStops \/ Halt
  PROVE  IInv'
<1> USE KindAssumption, ConnectionAssumption
    DEF IInv, TypeOK, Phases, Handlers, Stopping, Coming, Owned, Withdrawn, Early, Swept,
        Stopper, Embedded, Alive
<1>1. CASE EndOfInput
  <2>1. HostType' /\ row' \in {"none", "mine", "other"}
    BY <1>1 DEF EndOfInput, HostType
  <2>2. EndpointType'
    BY <1>1 DEF EndOfInput, EndpointType, HostType
  <2>3. ThreadType'
    BY <1>1 DEF EndOfInput, ThreadType
  <2>4. (ep.tracked \subseteq ep.open)' /\ Phases' /\ Handlers' /\ Stopping'
    BY <1>1 DEF EndOfInput, HostType, EndpointType, ThreadType
  <2>5. Coming' /\ Owned' /\ Withdrawn'
    BY <1>1 DEF EndOfInput, HostType, EndpointType, ThreadType
  <2> QED BY <2>1, <2>2, <2>3, <2>4, <2>5
<1>2. CASE OwnerStops
  <2>1. HostType' /\ row' \in {"none", "mine", "other"}
    BY <1>2 DEF OwnerStops, BeginStop, HostType
  <2>2. EndpointType'
    BY <1>2, EndpointKept
  <2>3. ThreadType'
    BY <1>2 DEF OwnerStops, BeginStop, ThreadType
  <2>4. (ep.tracked \subseteq ep.open)' /\ Phases' /\ Handlers' /\ Stopping'
    BY <1>2 DEF OwnerStops, BeginStop, HostType, EndpointType, ThreadType
  <2>5. Coming' /\ Owned' /\ Withdrawn'
    BY <1>2 DEF OwnerStops, BeginStop, HostType, EndpointType, ThreadType
  <2> QED BY <2>1, <2>2, <2>3, <2>4, <2>5
<1>3. CASE Halt
  BY <1>3 DEF Halt, HostType, EndpointType, ThreadType
<1> QED BY <1>1, <1>2, <1>3 DEF Stop

LEMMA AcceptKeeps ==
  ASSUME IInv, Accepting
  PROVE  IInv'
<1> USE KindAssumption, ConnectionAssumption
    DEF IInv, TypeOK, Phases, Handlers, Stopping, Coming, Owned, Withdrawn, Early, Swept,
        Stopper, Embedded, Alive
<1>1. CASE AcceptLoop
  BY <1>1 DEF AcceptLoop, HostType, EndpointType, ThreadType
<1>2. CASE AcceptFails
  <2>1. HostType' /\ row' \in {"none", "mine", "other"}
    BY <1>2 DEF AcceptFails, HostType
  <2>2. EndpointType'
    BY <1>2 DEF AcceptFails, EndpointType, HostType
  <2>3. ThreadType'
    BY <1>2 DEF AcceptFails, ThreadType
  <2>4. (ep.tracked \subseteq ep.open)' /\ Phases' /\ Handlers' /\ Stopping'
    BY <1>2 DEF AcceptFails, HostType, EndpointType, ThreadType
  <2>5. Coming' /\ Owned' /\ Withdrawn'
    BY <1>2 DEF AcceptFails, HostType, EndpointType, ThreadType
  <2> QED BY <2>1, <2>2, <2>3, <2>4, <2>5
<1>3. CASE Track
  <2>1. HostType' /\ row' \in {"none", "mine", "other"}
    BY <1>3 DEF Track, HostType
  <2>2. EndpointType'
    BY <1>3, EndpointKept DEF Track
  <2>3. ThreadType'
    BY <1>3 DEF Track, ThreadType
  <2>4. (ep.tracked \subseteq ep.open)' /\ Phases' /\ Handlers' /\ Stopping'
    BY <1>3 DEF Track, HostType, EndpointType, ThreadType
  <2>5. Coming' /\ Owned' /\ Withdrawn'
    BY <1>3 DEF Track, HostType, EndpointType, ThreadType
  <2> QED BY <2>1, <2>2, <2>3, <2>4, <2>5
<1>4. CASE Fork
  BY <1>4 DEF Fork, HostType, EndpointType, ThreadType
<1>5. CASE ForkFails
  <2>1. HostType' /\ row' \in {"none", "mine", "other"}
    BY <1>5 DEF ForkFails, HostType
  <2>2. EndpointType'
    BY <1>5 DEF ForkFails, EndpointType, HostType
  <2>3. ThreadType'
    BY <1>5 DEF ForkFails, ThreadType
  <2>4. (ep.tracked \subseteq ep.open)' /\ Phases' /\ Handlers' /\ Stopping'
    BY <1>5 DEF ForkFails, HostType, EndpointType, ThreadType
  <2>5. Coming' /\ Owned' /\ Withdrawn'
    BY <1>5 DEF ForkFails, HostType, EndpointType, ThreadType
  <2> QED BY <2>1, <2>2, <2>3, <2>4, <2>5
<1>6. CASE \E c \in Connection : Accept(c)
  <2>1. PICK c \in Connection : Accept(c)
    BY <1>6
  <2>2. HostType' /\ ThreadType' /\ row' \in {"none", "mine", "other"}
    BY <2>1 DEF Accept, HostType, EndpointType, ThreadType
  <2>3. EndpointType'
    BY <2>1, EndpointKept
  <2>4. (ep.tracked \subseteq ep.open)' /\ Phases' /\ Handlers' /\ Stopping'
    BY <2>1 DEF Accept, HostType, EndpointType, ThreadType
  <2>5. Coming' /\ Owned' /\ Withdrawn'
    BY <2>1 DEF Accept, HostType, EndpointType, ThreadType
  <2> QED BY <2>2, <2>3, <2>4, <2>5
<1> QED BY <1>1, <1>2, <1>3, <1>4, <1>5, <1>6 DEF Accepting

LEMMA ServeKeeps ==
  ASSUME IInv, NEW c \in Connection, Serve(c)
  PROVE  IInv'
<1> USE KindAssumption, ConnectionAssumption
    DEF IInv, TypeOK, Phases, Handlers, Stopping, Coming, Owned, Withdrawn, Early, Swept,
        Stopper, Embedded, Alive
<1>1. CASE Greet(c)
  BY <1>1 DEF Greet, Step, Goto, HostType, EndpointType, ThreadType
<1>2. CASE Loop(c)
  BY <1>2 DEF Loop, Step, Goto, HostType, EndpointType, ThreadType
<1>3. CASE Read(c)
  BY <1>3 DEF Read, Step, Goto, HostType, EndpointType, ThreadType
<1>4. CASE Dispatch(c)
  BY <1>4 DEF Dispatch, Step, Goto, HostType, EndpointType, ThreadType
<1>5. CASE Broken(c)
  BY <1>5 DEF Broken, Step, Goto, HostType, EndpointType, ThreadType
<1>6. CASE RemoveFails(c)
  BY <1>6 DEF RemoveFails, Step, Goto, HostType, EndpointType, ThreadType
<1>7. CASE Stopped(c)
  BY <1>7 DEF Stopped, Step, Goto, HostType, EndpointType, ThreadType
<1>8. CASE AskShutdown(c)
  <2>1. HostType' /\ row' \in {"none", "mine", "other"}
    BY <1>8 DEF AskShutdown, Goto, HostType
  <2>2. EndpointType'
    BY <1>8 DEF AskShutdown, Goto, EndpointType, HostType
  <2>3. ThreadType'
    BY <1>8 DEF AskShutdown, Goto, ThreadType
  <2>4. (ep.tracked \subseteq ep.open)' /\ Phases' /\ Handlers' /\ Stopping'
    BY <1>8 DEF AskShutdown, Goto, HostType, EndpointType, ThreadType
  <2>5. Coming' /\ Owned' /\ Withdrawn'
    BY <1>8 DEF AskShutdown, Goto, HostType, EndpointType, ThreadType
  <2> QED BY <2>1, <2>2, <2>3, <2>4, <2>5
<1>9. CASE RemoveFirst(c)
  BY <1>9 DEF RemoveFirst, RemoveRow, Goto, HostType, EndpointType, ThreadType
<1>10. CASE Acknowledge(c)
  <2>1. HostType' /\ row' \in {"none", "mine", "other"}
    BY <1>10 DEF Acknowledge, BeginStop, Goto, HostType
  <2>2. EndpointType'
    BY <1>10 DEF Acknowledge, BeginStop, Goto, EndpointType, HostType
  <2>3. ThreadType'
    BY <1>10 DEF Acknowledge, BeginStop, Goto, ThreadType
  <2>4. (ep.tracked \subseteq ep.open)' /\ Phases' /\ Handlers' /\ Stopping'
    BY <1>10 DEF Acknowledge, BeginStop, Goto, HostType, EndpointType, ThreadType
  <2>5. Coming' /\ Owned' /\ Withdrawn'
    BY <1>10 DEF Acknowledge, BeginStop, Goto, HostType, EndpointType, ThreadType
  <2> QED BY <2>1, <2>2, <2>3, <2>4, <2>5
<1>11. CASE Untrack(c)
  BY <1>11 DEF Untrack, Goto, HostType, EndpointType, ThreadType
<1>12. CASE Close(c)
  BY <1>12 DEF Close, Goto, HostType, EndpointType, ThreadType
<1> QED BY <1>1, <1>2, <1>3, <1>4, <1>5, <1>6, <1>7, <1>8, <1>9, <1>10, <1>11, <1>12 DEF Serve

LEMMA WorldKeeps ==
  ASSUME IInv, World
  PROVE  IInv'
<1> USE KindAssumption, ConnectionAssumption
    DEF IInv, TypeOK, Phases, Handlers, Stopping, Coming, Owned, Withdrawn, Early, Swept,
        Stopper, Embedded, Alive
<1>1. CASE OtherRegisters
  BY <1>1 DEF OtherRegisters, HostType, EndpointType, ThreadType
<1>2. CASE Prune
  BY <1>2 DEF Prune, HostType, EndpointType, ThreadType
<1>3. CASE \E c \in Connection : Connect(c)
  BY <1>3 DEF Connect, HostType, EndpointType, ThreadType
<1> QED BY <1>1, <1>2, <1>3 DEF World

(* The inductive invariant holds of the first state and is kept. *)
THEOREM Inductive == Spec => []IInv
<1>1. Init => IInv
  <2> SUFFICES ASSUME Init PROVE IInv
    OBVIOUS
  <2>1. PICK kind \in Kind : host = [kind |-> kind, life |-> "alive", main |-> "bind",
               closing |-> FALSE, set |-> FALSE,
               owner |-> IF kind = "embedded" THEN "none" ELSE "reading",
               identity |-> kind = "dedicated"]
    BY DEF Init
  <2>2. TypeOK
    BY <2>1, KindAssumption DEF Init, TypeOK, HostType, EndpointType, ThreadType, Embedded
  <2>3. ~host.identity => Embedded
    BY <2>1, KindAssumption DEF Embedded
  <2> QED
    BY <2>1, <2>2, <2>3, ConnectionAssumption
    DEF Init, IInv, Phases, Handlers, Stopping, Coming, Owned, Withdrawn, Early, Swept, Stopper
<1>2. IInv /\ [Next]_vars => IInv'
  <2> SUFFICES ASSUME IInv, [Next]_vars PROVE IInv'
    OBVIOUS
  <2>1. CASE \E t \in Stopper : Stop(t)
    BY <2>1, StopKeeps
  <2>2. CASE Begin \/ Down \/ End
    BY <2>2, MainKeeps
  <2>3. CASE EndOfInput \/ OwnerStops \/ Halt
    BY <2>3, OwnerKeeps
  <2>4. CASE Accepting
    BY <2>4, AcceptKeeps
  <2>5. CASE \E c \in Connection : Serve(c)
    BY <2>5, ServeKeeps
  <2>6. CASE World
    BY <2>6, WorldKeeps
  <2>7. CASE UNCHANGED vars
    BY <2>7 DEF vars, IInv, TypeOK, HostType, EndpointType, ThreadType, Phases, Handlers,
                Stopping, Coming, Owned, Withdrawn, Early, Swept, Embedded
  <2> QED BY <2>1, <2>2, <2>3, <2>4, <2>5, <2>6, <2>7 DEF Next, Threads
<1> QED BY <1>1, <1>2, PTL DEF Spec

-----------------------------------------------------------------------------
(* The variables have their types, and no connection is tracked that is     *)
(* not open.                                                                *)
THEOREM TypeCorrect == Spec => []TypeOK
  BY Inductive, PTL DEF IInv

(* A stop() that has returned leaves nobody accepted and no connection      *)
(* without a thread that closes it, however many threads run stop() and     *)
(* wherever the accept thread was.                                          *)
THEOREM EveryStopCloses == Spec => []StopClosesAll
<1>1. IInv => StopClosesAll
  BY DEF IInv, Stopping, Owned, Swept, StopClosesAll
<1> QED BY <1>1, Inductive, PTL

(* A client that acts on the row of this host is answered by a host of that *)
(* name, and one whose shutdown was acknowledged finds no row of it.        *)
THEOREM RowTellsTheTruth == Spec => []RowIsTrue
<1>1. IInv => RowIsTrue
  <2> SUFFICES ASSUME IInv PROVE RowIsTrue
    OBVIOUS
  <2>1. ASSUME ep.listening PROVE host.identity
    <3>1. CASE host.main = "bind"
      BY <2>1, <3>1 DEF IInv, Phases
    <3>2. CASE host.main = "done"
      BY <2>1, <3>2 DEF IInv, Phases, Stopping, Swept, Stopper
    <3> QED BY <3>1, <3>2 DEF IInv, Phases
  <2>2. AckedMeansRemoved
    BY DEF IInv, Withdrawn, AckedMeansRemoved, Acknowledged
  <2> QED BY <2>1, <2>2 DEF RowIsTrue, IdentityPublished
<1> QED BY <1>1, Inductive, PTL

(* The row of a server that took over the name is never removed, neither on *)
(* the way out nor on behalf of a client.                                   *)
THEOREM ForeignRowIsKept == Spec => ForeignRowStays
<1>1. ASSUME Next, row = "other" PROVE row' = "other"
  <2>1. CASE \E t \in Stopper : Stop(t)
    BY <2>1, <1>1 DEF Stop, CloseSocket, Swap, HangUp, Join
  <2>2. CASE Begin \/ Down \/ End
    BY <2>2, <1>1 DEF Begin, Bind, Start, Register, RegisterFails, SetEndpoint, CheckClosing,
                      Announce, Down, Leave, BeginStop, End, Finish, Remove, RemoveRow
  <2>3. CASE EndOfInput \/ OwnerStops \/ Halt
    BY <2>3, <1>1 DEF EndOfInput, OwnerStops, Halt
  <2>4. CASE Accepting
    BY <2>4, <1>1 DEF Accepting, AcceptLoop, AcceptFails, Track, Fork, ForkFails, Accept
  <2>5. CASE \E c \in Connection : Serve(c)
    BY <2>5, <1>1 DEF Serve, Step, Greet, Loop, Read, Dispatch, Broken, AskShutdown, RemoveFirst,
                      RemoveRow, RemoveFails, Acknowledge, Stopped, Untrack, Close
  <2>6. CASE World
    BY <2>6, <1>1 DEF World, OtherRegisters, Prune, Connect
  <2> QED BY <1>1, <2>1, <2>2, <2>3, <2>4, <2>5, <2>6 DEF Next, Threads
<1>2. [Next]_vars => [row = "other" => row' = "other"]_row
  BY <1>1 DEF vars
<1> QED BY <1>2, PTL DEF Spec, ForeignRowStays
=============================================================================
