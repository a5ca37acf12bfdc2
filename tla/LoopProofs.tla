----------------------------- MODULE LoopProofs -----------------------------
(***************************************************************************)
(* Theorems about the loops of the query side and the answers they give:   *)
(* the workers of the bounded parallel parse (MapBounded), the sweeps of   *)
(* `unused' (Unused), the tokenizer's pass over a line (Regions), and over *)
(* every corpus the walks along imports and citations, so the uses the     *)
(* verbs see and what they promise one another (Usage).                    *)
(***************************************************************************)
EXTENDS MapBounded, Usage, Regions, FiniteSetTheorems, SequenceTheorems, WellFoundedInduction, TLAPS

-----------------------------------------------------------------------------
(***************************************************************************)
(* The parallel parse: for lists of any length and any workers.            *)
(***************************************************************************)
(* The slots below the counter are filled or held, unless the workers were  *)
(* told to stop; they are told so only by one that failed; and none returns *)
(* before the counter has passed the end otherwise.                         *)
Handled == \A i \in Input : i < next =>
  i \in filled \/ stopped \/ \E w \in Worker : Busy(w) /\ slot[w] = i
Below == /\ \A i \in filled : i < next
         /\ \A w \in Worker : Busy(w) => slot[w] < next
StopCause == stopped => \E w \in Worker : pc[w] = "failed"
ReturnCause == \A w \in Worker : pc[w] = "returned" => stopped \/ next > N

Inv == TypeOK /\ ClaimedOnce /\ Handled /\ Below /\ StopCause /\ ReturnCause /\ NoHole

-----------------------------------------------------------------------------
(* Nothing is claimed, filled or stopped in the beginning. *)
LEMMA InitInv == Init => Inv
<1> SUFFICES ASSUME Init PROVE Inv
  OBVIOUS
<1>2. \A w \in Worker : ~Busy(w) /\ pc[w] = "loop"
  BY DEF Init, Busy
<1>1. TypeOK
  <2>1. next \in Nat \ {0}
    BY SMT DEF Init
  <2>6. stopped \in BOOLEAN
    BY Zenon DEF Init
  <2>7. outcome \in {"running", "list", "exception"}
    BY DEF Init
  <2>2. filled \subseteq Input
    BY DEF Init
  <2>3. pc \in [Worker -> {"loop", "claim", "check", "apply"} \cup Finished]
    BY DEF Init
  <2>4. slot \in [Worker -> Nat]
    BY DEF Init
  <2>5. \A w \in Worker : pc[w] \in {"check", "apply"} => slot[w] \in Input
    BY <1>2
  <2> QED BY <2>1, <2>2, <2>3, <2>4, <2>5, <2>6, <2>7 DEF TypeOK
<1>3. \A i \in Input : ~(i < next)
  BY NAssumption DEF Init, Input
<1>4. ClaimedOnce /\ Handled /\ Below
  BY <1>2, <1>3 DEF Init, ClaimedOnce, Handled, Below
<1>5. StopCause /\ ReturnCause /\ NoHole
  BY <1>2 DEF Init, StopCause, ReturnCause, NoHole
<1> QED BY <1>1, <1>4, <1>5 DEF Inv

(* The first test of the flag. *)
LEMMA LoopStep == ASSUME Inv, NEW w \in Worker, Loop(w) PROVE Inv'
<1>1. TypeOK'
  BY DEF Inv, TypeOK, Loop, Finished
<1>2. \A v \in Worker : Busy(v)' <=> Busy(v)
  BY DEF Inv, TypeOK, Loop, Busy
<1>3. (ClaimedOnce /\ Handled /\ Below /\ NoHole)'
  BY <1>2 DEF Inv, Loop, ClaimedOnce, Handled, Below, NoHole
<1>4. StopCause' /\ ReturnCause'
  BY DEF Inv, TypeOK, Loop, StopCause, ReturnCause
<1> QED BY <1>1, <1>3, <1>4 DEF Inv

(* A claim takes the slot the counter stood at, which nobody has. *)
LEMMA ClaimStep == ASSUME Inv, NEW w \in Worker, Claim(w) PROVE Inv'
<1>1. /\ TypeOK /\ pc[w] = "claim" /\ next' = next + 1 /\ slot' = [slot EXCEPT ![w] = next]
      /\ pc' = [pc EXCEPT ![w] = IF next \in Input THEN "check" ELSE "returned"]
      /\ UNCHANGED <<stopped, filled, outcome>> /\ next \in Nat \ {0}
  BY DEF Inv, Claim, TypeOK
<1>2. TypeOK'
  BY <1>1, NAssumption DEF TypeOK, Input, Finished
<1>3. /\ \A v \in Worker : v # w => slot'[v] = slot[v] /\ pc'[v] = pc[v]
      /\ slot'[w] = next /\ ~Busy(w)
      /\ pc'[w] = IF next \in Input THEN "check" ELSE "returned"
  BY <1>1 DEF TypeOK, Busy
<1>4. \A v \in Worker : v # w => (Busy(v)' <=> Busy(v))
  BY <1>3 DEF Busy
<1>5. ClaimedOnce'
  <2>1. next \notin filled /\ \A v \in Worker : Busy(v) => slot[v] # next
    BY <1>1 DEF Inv, Below, TypeOK
  <2> QED BY <1>1, <1>3, <1>4, <2>1 DEF Inv, ClaimedOnce
<1>6. Handled'
  <2> SUFFICES ASSUME NEW i \in Input, i < next', i \notin filled, ~stopped
               PROVE  \E v \in Worker : (Busy(v) /\ slot[v] = i)'
    BY <1>1 DEF Handled
  <2>1. CASE i = next
    BY <1>3, <2>1 DEF Busy
  <2>2. CASE i # next
    <3>1. i < next
      BY <1>1, <2>2, NAssumption DEF Input
    <3>2. PICK v \in Worker : Busy(v) /\ slot[v] = i
      BY <3>1 DEF Inv, Handled
    <3> QED BY <1>3, <1>4, <3>2
  <2> QED BY <2>1, <2>2
<1>7. Below'
  <2>1. \A i \in filled : i \in Nat /\ i < next
    BY <1>1, NAssumption DEF Inv, Below, TypeOK, Input
  <2>2. \A v \in Worker : v # w /\ Busy(v) => slot[v] < next /\ slot[v] \in Nat
    BY <1>1 DEF Inv, Below, TypeOK
  <2> QED BY <1>1, <1>3, <1>4, <2>1, <2>2 DEF Below
<1>8. StopCause'
  BY <1>1, <1>3 DEF Inv, StopCause
<1>9. ReturnCause'
  <2>1. next \notin Input => next' > N
    BY <1>1, NAssumption DEF Input
  <2>2. next > N => next' > N
    BY <1>1, NAssumption
  <2> QED BY <1>1, <1>3, <2>1, <2>2 DEF Inv, ReturnCause
<1> QED BY <1>1, <1>2, <1>5, <1>6, <1>7, <1>8, <1>9 DEF Inv, NoHole

(* A slot is given up only when the flag is set. *)
LEMMA CheckStep == ASSUME Inv, NEW w \in Worker, Check(w) PROVE Inv'
<1>1. /\ TypeOK /\ pc[w] = "check" /\ pc' = [pc EXCEPT ![w] = IF stopped THEN "loop" ELSE "apply"]
      /\ UNCHANGED <<next, stopped, filled, slot, outcome>>
  BY DEF Inv, Check
<1>2. /\ \A v \in Worker : v # w => pc'[v] = pc[v]
      /\ pc'[w] = IF stopped THEN "loop" ELSE "apply"
  BY <1>1 DEF TypeOK
<1>3. TypeOK'
  BY <1>1, <1>2 DEF TypeOK, Finished
<1>4. \A v \in Worker : /\ Busy(v)' => Busy(v)
                        /\ ~stopped => (Busy(v)' <=> Busy(v))
  BY <1>1, <1>2 DEF Busy
<1>5. (ClaimedOnce /\ Handled /\ Below)'
  BY <1>1, <1>4 DEF Inv, ClaimedOnce, Handled, Below
<1>6. (StopCause /\ ReturnCause)'
  BY <1>1, <1>2 DEF Inv, StopCause, ReturnCause
<1> QED BY <1>1, <1>3, <1>5, <1>6 DEF Inv, NoHole

(* The slot a worker holds is filled by it, and no other holds it. *)
LEMMA ApplyStep == ASSUME Inv, NEW w \in Worker, Apply(w) PROVE Inv'
<1>1. /\ TypeOK /\ pc[w] = "apply" /\ pc' = [pc EXCEPT ![w] = "loop"] /\ Busy(w)
      /\ filled' = filled \cup {slot[w]} /\ slot[w] \in Input /\ slot[w] < next
      /\ UNCHANGED <<next, stopped, slot, outcome>>
  BY DEF Inv, Apply, TypeOK, Below, Busy
<1>2. pc'[w] = "loop" /\ \A v \in Worker : v # w => pc'[v] = pc[v]
  BY <1>1 DEF TypeOK
<1>3. TypeOK'
  BY <1>1, <1>2 DEF TypeOK, Finished
<1>4. ~Busy(w)' /\ \A v \in Worker : v # w => (Busy(v)' <=> Busy(v))
  BY <1>2 DEF Busy
<1>5. ClaimedOnce'
  BY <1>1, <1>4 DEF Inv, ClaimedOnce
<1>6. (Handled /\ Below)'
  BY <1>1, <1>4 DEF Inv, Handled, Below
<1>7. (StopCause /\ ReturnCause)'
  BY <1>1, <1>2 DEF Inv, StopCause, ReturnCause
<1> QED BY <1>1, <1>3, <1>5, <1>6, <1>7 DEF Inv, NoHole

(* A failure sets the flag, and is there for the join to see. *)
LEMMA FailStep == ASSUME Inv, NEW w \in Worker, Fail(w) PROVE Inv'
<1>1. /\ TypeOK /\ pc[w] \notin Finished /\ pc' = [pc EXCEPT ![w] = "failed"]
      /\ stopped' = TRUE /\ UNCHANGED <<next, filled, slot, outcome>>
  BY DEF Inv, Fail, Finished
<1>2. pc'[w] = "failed" /\ \A v \in Worker : v # w => pc'[v] = pc[v]
  BY <1>1 DEF TypeOK
<1>3. TypeOK'
  BY <1>1, <1>2 DEF TypeOK, Finished
<1>4. \A v \in Worker : Busy(v)' => Busy(v)
  BY <1>2 DEF Busy
<1>5. (ClaimedOnce /\ Handled /\ Below)'
  BY <1>1, <1>4 DEF Inv, ClaimedOnce, Handled, Below
<1>6. (StopCause /\ ReturnCause)'
  BY <1>1, <1>2 DEF StopCause, ReturnCause
<1> QED BY <1>1, <1>3, <1>5, <1>6 DEF Inv, NoHole

(* The join: without a failure the counter has passed the end, and every    *)
(* slot below it is filled.                                                 *)
LEMMA JoinStep == ASSUME Inv, Join PROVE Inv'
<1>1. /\ TypeOK /\ \A w \in Worker : pc[w] \in Finished
      /\ outcome' = IF \E w \in Worker : pc[w] = "failed" THEN "exception" ELSE "list"
      /\ UNCHANGED <<next, stopped, filled, pc, slot>>
  BY DEF Inv, Join
<1>2. ASSUME \A w \in Worker : pc[w] # "failed" PROVE filled = Input
  <2>1. ~stopped
    BY <1>2 DEF Inv, StopCause
  <2>2. CASE Worker = {}
    BY <1>1, <2>2, WorkerAssumption DEF TypeOK, Input
  <2>3. CASE Worker # {}
    <3>1. next > N
      BY <1>1, <1>2, <2>1, <2>3 DEF Inv, ReturnCause, Finished
    <3>2. \A i \in Input : i < next
      BY <1>1, <3>1, NAssumption DEF Input, TypeOK
    <3>3. \A w \in Worker : ~Busy(w)
      BY <1>1 DEF Busy, Finished
    <3> QED BY <1>1, <2>1, <3>2, <3>3 DEF Inv, Handled, TypeOK
  <2> QED BY <2>2, <2>3
<1>3. TypeOK' /\ NoHole'
  BY <1>1, <1>2 DEF TypeOK, NoHole
<1> QED BY <1>1, <1>3
       DEF Inv, ClaimedOnce, Handled, Below, StopCause, ReturnCause, Busy

-----------------------------------------------------------------------------
(* Every step of every worker and of the caller keeps Inv. *)
LEMMA NextInv == Inv /\ [Next]_vars => Inv'
<1> SUFFICES ASSUME Inv, [Next]_vars PROVE Inv'
  OBVIOUS
<1>1. ASSUME NEW w \in Worker, Apply(w) PROVE Inv'
  BY <1>1, ApplyStep
<1>2. CASE JoinInterrupted
  BY <1>2 DEF JoinInterrupted, Inv, TypeOK, ClaimedOnce, Handled, Below, StopCause,
              ReturnCause, NoHole, Busy
<1>3. CASE UNCHANGED vars
  BY <1>3 DEF vars, Inv, TypeOK, ClaimedOnce, Handled, Below, StopCause, ReturnCause,
              NoHole, Busy
<1> QED BY <1>1, <1>2, <1>3, LoopStep, ClaimStep, CheckStep, FailStep, JoinStep
       DEF Next, Work

(* The inductive invariant holds of every behaviour. *)
THEOREM Invariance == Spec => []Inv
  BY InitInv, NextInv, PTL DEF Spec

(* The list map_bounded returns has a result in every slot: no worker that  *)
(* left early, and no slot that was given up, is ever part of a success.    *)
THEOREM Complete == Spec => []NoHole
<1>1. Inv => NoHole
  BY DEF Inv
<1> QED BY <1>1, Invariance, PTL

(* No input is given to f by two workers, or again once it has a result.    *)
THEOREM Once == Spec => []ClaimedOnce
<1>1. Inv => ClaimedOnce
  BY DEF Inv
<1> QED BY <1>1, Invariance, PTL
-----------------------------------------------------------------------------
(***************************************************************************)
(* `unused': three fixed points over a citation graph of any size, visited *)
(* in any order.                                                           *)
(***************************************************************************)
Asked == phase # "idle"
Callers(n) == query.callers[n]
Entries == Nodes(query.callers)
Ready(n) == n \in Entries \ query.live /\ Callers(n) \subseteq DOMAIN dead

(* Where a query is, for each verb. *)
Phases ==
  /\ phase \in {"idle", "cascade", "forest", "marked", "done"}
  /\ Asked => IsQuery(query)
  /\ phase = "cascade" => query.verb = "recursive" /\ marked = <<>>
  /\ phase = "forest" => query.verb = "roots" /\ todo \subseteq Entries \ AllRoots
  /\ phase = "marked" => query.verb # "roots" /\ todo \subseteq query.marks

(* Every depth is one more than the deepest citer's, and a name that would  *)
(* be next has a citer on the deepest level reached.                        *)
OneBelow(n) ==
  /\ dead[n] \in Nat /\ Callers(n) \subseteq DOMAIN dead
  /\ Callers(n) = {} => dead[n] = 0
  /\ Callers(n) # {} => /\ \E c \in Callers(n) : dead[n] = dead[c] + 1
                        /\ \A c \in Callers(n) : dead[c] < dead[n]
Deepest(c) == c \in DOMAIN dead /\ \A x \in DOMAIN dead : dead[x] <= dead[c]

CascadeInv == Asked =>
  /\ Uncited(query.callers, query.live) \subseteq DOMAIN dead
  /\ DOMAIN dead \subseteq Entries \ query.live
  /\ \A S \in SUBSET Entries : CascadeClosed(S) => DOMAIN dead \subseteq S
  /\ \A n \in DOMAIN dead : OneBelow(n)
  /\ DOMAIN dead = {} \/ \E c \in DOMAIN dead : Deepest(c)
  /\ phase = "cascade" => \A n \in Entries \ DOMAIN dead : Ready(n) => \E c \in Callers(n) : Deepest(c)
  /\ phase # "cascade" /\ query.verb = "recursive" => CascadeClosed(DOMAIN dead)

(* A marked name has lost its citers, for a reason that does not rest on    *)
(* itself; in a pass that has found nothing, a visited name has one left.   *)
MarkedDepth(n) ==
  marked[n] = IF Callers(n) = {} THEN 0 ELSE 1 + Max(ListedDepths(Callers(n)))
MarksClosed(S) == \A n \in query.marks : Gone(Callers(n), S) => n \in S

MarkedInv == Asked /\ query.verb # "roots" =>
  /\ DOMAIN marked \subseteq query.marks
  /\ \A n \in DOMAIN marked : CitersGone(Callers(n)) /\ MarkedDepth(n)
  /\ \A S \in SUBSET query.marks : MarksClosed(S) => DOMAIN marked \subseteq S
  /\ phase = "marked" /\ ~changed =>
       \A n \in query.marks \ (todo \cup DOMAIN marked) : ~CitersGone(Callers(n))
  /\ phase = "done" => \A n \in query.marks \ DOMAIN marked : ~CitersGone(Callers(n))

(* Root sets only grow, so each is at most that of the citers together; in  *)
(* a pass that has found nothing, a visited name has it all.                *)
FromCiters(n) == UNION {RootsOf(c) : c \in Callers(n)}
RootsClosed(S) == \A n \in Entries \ AllRoots : Callers(n) \cap S # {} => n \in S

ForestInv == Asked /\ query.verb = "roots" =>
  /\ AllRoots \subseteq DOMAIN rootSets
  /\ \A r \in AllRoots : rootSets[r] = {r}
  /\ \A n \in Entries \ AllRoots : RootsOf(n) \subseteq FromCiters(n)
  /\ \A S \in SUBSET (Entries \cup AllRoots) : RootsClosed(S) =>
       \A n \in DOMAIN rootSets \ S : rootSets[n] \cap S = {}
  /\ phase = "forest" /\ ~changed =>
       \A n \in Entries \ (AllRoots \cup todo) : RootsOf(n) = FromCiters(n)
  /\ phase = "done" => \A n \in Entries \ AllRoots : RootsOf(n) = FromCiters(n)

SweepInv == Phases /\ CascadeInv /\ MarkedInv /\ ForestInv

(* The maximum of the levels reached, by one that reaches it. *)
LEMMA MaxIs ==
  ASSUME NEW S, NEW m \in S, S \subseteq Int, \A x \in S : x <= m
  PROVE  Max(S) = m
<1>1. \A x \in S : m >= x
  OBVIOUS
<1>2. Max(S) \in S /\ \A y \in S : Max(S) >= y
  BY <1>1 DEF Max
<1>3. Max(S) \in Int /\ m \in Int /\ Max(S) >= m /\ Max(S) <= m
  BY <1>2
<1> QED BY <1>3

(* No query is being answered in the beginning. *)
LEMMA UnusedInitInv == UnusedInit => SweepInv
BY DEF UnusedInit, SweepInv, Phases, CascadeInv, MarkedInv, ForestInv, Asked

(* A query begins with what nothing cites, all on level 0. *)
LEMMA AskStep ==
  ASSUME SweepInv, NEW q, IsQuery(q), Ask(q.callers, q.live, q.marks, q.verb)
  PROVE  SweepInv'
<1> DEFINE U == Uncited(q.callers, q.live)
<1>1. /\ phase' \in {"cascade", "forest", "marked"}
      /\ query' = [callers |-> q.callers, live |-> q.live, marks |-> q.marks, verb |-> q.verb]
      /\ dead' = [n \in U |-> 0] /\ marked' = <<>> /\ changed' = FALSE
      /\ rootSets' = [r \in U \cup q.live |-> {r}]
      /\ phase' = "forest" <=> q.verb = "roots"
      /\ phase' = "cascade" <=> q.verb = "recursive"
      /\ phase' = "forest" => todo' = Nodes(q.callers) \ (U \cup q.live)
      /\ phase' = "marked" => todo' = q.marks
  BY DEF Ask
<1>2. /\ query'.callers = q.callers /\ query'.live = q.live /\ query'.marks = q.marks
      /\ query'.verb = q.verb
  BY <1>1
<1>3. DOMAIN dead' = U /\ \A n \in U : dead'[n] = 0
  BY <1>1
<1>4. DOMAIN marked' = {}
  BY <1>1
<1>5. Phases'
  <2>1. IsQuery(query)'
    BY <1>2 DEF IsQuery
  <2>2. (AllRoots)' = U \cup q.live /\ Entries' = Nodes(q.callers)
    BY <1>2 DEF AllRoots, Entries
  <2> QED BY <1>1, <1>2, <2>1, <2>2 DEF Phases, IsQuery
<1>6. CascadeInv'
  <2>1. U = {n \in Nodes(q.callers) \ q.live : q.callers[n] = {}}
    BY DEF Uncited
  <2>2. Uncited(query.callers, query.live)' = U /\ Entries' = Nodes(q.callers) /\ query'.live = q.live
    BY <1>2 DEF Entries, Uncited
  <2>3. ASSUME NEW S \in SUBSET (Entries'), CascadeClosed(S)' PROVE U \subseteq S
    BY <1>2, <2>1, <2>3 DEF CascadeClosed
  <2>4. ASSUME NEW n \in U PROVE OneBelow(n)'
    BY <1>2, <1>3, <2>1 DEF OneBelow, Callers
  <2>5. U = {} \/ \E c \in U : Deepest(c)'
    BY <1>3 DEF Deepest
  <2>6. ASSUME NEW n \in Entries' \ U, Ready(n)' PROVE \E c \in Callers(n)' : Deepest(c)'
    <3>1. q.callers[n] # {} /\ q.callers[n] \subseteq U
      BY <1>2, <1>3, <2>1, <2>6, <2>2 DEF Ready, Callers
    <3> QED BY <1>2, <1>3, <3>1 DEF Deepest, Callers
  <2>7. phase' # "cascade" => query'.verb # "recursive"
    BY <1>1, <1>2
  <2>8. DOMAIN dead' = U /\ U \subseteq Entries' \ query'.live
    BY <1>3, <2>1, <2>2
  <2> QED BY <2>2, <2>3, <2>4, <2>5, <2>6, <2>7, <2>8 DEF CascadeInv
<1>7. MarkedInv'
  <2>1. phase' # "done" /\ (phase' = "marked" => todo' = query'.marks)
    BY <1>1, <1>2
  <2> QED BY <1>4, <2>1 DEF MarkedInv
<1>8. ForestInv'
  <2> SUFFICES ASSUME Asked', query'.verb = "roots" PROVE ForestInv'
    BY DEF ForestInv
  <2>1. AllRoots' = U \cup q.live /\ Entries' = Nodes(q.callers)
    BY <1>2 DEF AllRoots, Entries
  <2>2. DOMAIN rootSets' = AllRoots' /\ \A r \in AllRoots' : rootSets'[r] = {r}
    BY <1>1, <2>1
  <2>3. \A n \in Entries' \ AllRoots' : RootsOf(n)' = {}
    BY <2>2 DEF RootsOf
  <2>4. phase' = "forest" /\ todo' = Entries' \ AllRoots'
    BY <1>1, <1>2, <2>1
  <2> QED BY <2>2, <2>3, <2>4 DEF ForestInv
<1> QED BY <1>5, <1>6, <1>7, <1>8 DEF SweepInv

(* The last of a cascade, when no name is ready: the marks come next. *)
LEMMA CascadeEnds ==
  ASSUME SweepInv, phase = "cascade", StartMarked, UNCHANGED <<query, dead, marked, rootSets>>,
         Newly(query.callers, query.live, DOMAIN dead) = {}
  PROVE  SweepInv'
<1>1. /\ phase' = "marked" /\ todo' = query.marks /\ changed' = FALSE
      /\ query' = query /\ dead' = dead /\ marked' = marked /\ rootSets' = rootSets
      /\ query.verb = "recursive" /\ marked = <<>> /\ IsQuery(query)
  BY DEF StartMarked, SweepInv, Phases, Asked
<1>2. Phases'
  BY <1>1 DEF Phases, IsQuery
<1>3. CascadeClosed(DOMAIN dead)
  BY <1>1 DEF CascadeClosed, Newly, SweepInv, CascadeInv, Asked, Uncited
<1>4. CascadeInv'
  BY <1>1, <1>3 DEF SweepInv, CascadeInv, Asked, OneBelow, Deepest, CascadeClosed, Entries, Callers
<1>5. MarkedInv'
  BY <1>1 DEF MarkedInv
<1>6. ForestInv'
  BY <1>1 DEF ForestInv
<1> QED BY <1>2, <1>4, <1>5, <1>6 DEF SweepInv

(* A pass of the cascade adds what its frontier cites alone, one level on.  *)
LEMMA CascadePassStep == ASSUME SweepInv, CascadePass PROVE SweepInv'
<1> DEFINE D == DOMAIN dead
           W == Newly(query.callers, query.live, D)
           depth == 1 + Max({dead[n] : n \in D} \cup {-1})
<1>1. CASE W = {}
  BY <1>1, CascadeEnds DEF CascadePass
<1>2. CASE W # {}
  <2>1. /\ phase = "cascade" /\ phase' = phase /\ query' = query /\ marked' = marked
        /\ rootSets' = rootSets /\ todo' = todo /\ changed' = changed
        /\ dead' = Extended(dead, W, depth) /\ Asked /\ query.verb = "recursive"
    BY <1>2 DEF CascadePass, SweepInv, Phases, Asked
  <2>2. W = {n \in Entries \ (D \cup query.live) : Callers(n) # {} /\ Callers(n) \subseteq D}
    BY DEF Newly, Entries, Callers
  <2>3. /\ DOMAIN dead' = D \cup W
        /\ \A n \in W : dead'[n] = depth
        /\ \A n \in D : dead'[n] = dead[n]
    <3>1. D \ W = D
      BY <2>2
    <3> QED BY <2>1, <3>1 DEF Extended
  <2>4. PICK m \in D : Deepest(m)
    BY <1>2, <2>1, <2>2 DEF SweepInv, CascadeInv
  <2>5. \A n \in D : dead[n] \in Nat /\ dead[n] <= dead[m]
    BY <2>1, <2>4 DEF SweepInv, CascadeInv, OneBelow, Deepest
  <2>6. depth = dead[m] + 1
    <3> DEFINE L == {dead[n] : n \in D} \cup {-1}
    <3>1. dead[m] \in L /\ L \subseteq Int /\ \A x \in L : x <= dead[m]
      BY <2>4, <2>5
    <3> HIDE DEF L
    <3>2. Max(L) = dead[m]
      BY <3>1, MaxIs
    <3> QED BY <2>4, <2>5, <3>2 DEF L
  <2> HIDE DEF depth, W
  <2>7. /\ Entries' = Entries /\ query'.live = query.live /\ \A n : Callers(n)' = Callers(n)
        /\ \A S : CascadeClosed(S)' <=> CascadeClosed(S)
    BY <2>1 DEF Entries, Callers, CascadeClosed
  <2>8. \A n \in W : Deepest(n)'
    BY <2>3, <2>5, <2>6 DEF Deepest
  <2>9. CascadeInv'
    <3>1. (Uncited(query.callers, query.live) \subseteq DOMAIN dead)'
      BY <2>1, <2>3 DEF SweepInv, CascadeInv
    <3>2. (DOMAIN dead \subseteq Entries \ query.live)'
      BY <2>1, <2>2, <2>3, <2>7 DEF SweepInv, CascadeInv
    <3>3. ASSUME NEW S \in SUBSET Entries, CascadeClosed(S) PROVE D \cup W \subseteq S
      <4>1. D \subseteq S
        BY <2>1, <3>3 DEF SweepInv, CascadeInv
      <4> QED BY <2>2, <3>3, <4>1 DEF CascadeClosed, Entries, Callers
    <3>4. ASSUME NEW n \in D \cup W PROVE OneBelow(n)'
      <4>1. CASE n \in D
        <5>1. OneBelow(n) /\ dead'[n] = dead[n] /\ \A c \in Callers(n) : c \in D /\ dead'[c] = dead[c]
          BY <2>1, <2>3, <4>1 DEF SweepInv, CascadeInv, OneBelow
        <5> QED BY <2>3, <2>7, <5>1 DEF OneBelow
      <4>2. CASE n \in W
        <5>1. n \notin D /\ Callers(n) # {} /\ Callers(n) \subseteq D /\ Ready(n) /\ n \in Entries
          BY <2>2, <4>2 DEF Ready
        <5>2. PICK c \in Callers(n) : Deepest(c)
          BY <2>1, <5>1 DEF SweepInv, CascadeInv
        <5>3. dead[c] = dead[m]
          BY <2>4, <2>5, <5>1, <5>2 DEF Deepest
        <5>4. dead'[n] = depth /\ \A x \in Callers(n) : dead'[x] = dead[x] /\ dead[x] \in Nat /\ dead[x] <= dead[m]
          BY <2>3, <2>5, <4>2, <5>1
        <5>5. depth \in Nat
          BY <2>5, <2>6
        <5> QED BY <2>3, <2>6, <2>7, <5>1, <5>2, <5>3, <5>4, <5>5 DEF OneBelow
      <4> QED BY <3>4, <4>1, <4>2
    <3>5. \E c \in DOMAIN dead' : Deepest(c)'
      BY <1>2, <2>3, <2>8
    <3>6. ASSUME NEW n \in Entries \ (D \cup W), Ready(n)' PROVE \E c \in Callers(n) : Deepest(c)'
      <4>1. Callers(n) \subseteq D \cup W /\ n \notin query.live
        BY <2>3, <2>7, <3>6 DEF Ready
      <4>2. ~(Callers(n) \subseteq D)
        BY <2>1, <2>2, <3>6, <4>1 DEF SweepInv, CascadeInv, Uncited, Entries, Callers
      <4> QED BY <2>8, <4>1, <4>2
    <3> QED BY <2>1, <2>3, <2>7, <3>1, <3>2, <3>3, <3>4, <3>5, <3>6 DEF CascadeInv
  <2>10. Phases'
    BY <2>1 DEF SweepInv, Phases, Asked, IsQuery
  <2>11. MarkedInv'
    BY <2>1 DEF SweepInv, Phases, MarkedInv
  <2>12. ForestInv'
    BY <2>1 DEF ForestInv
  <2> QED BY <2>9, <2>10, <2>11, <2>12 DEF SweepInv
<1> QED BY <1>1, <1>2

(* What the later phases leave alone, the earlier parts keep. *)
LEMMA CascadeKept ==
  ASSUME CascadeInv, Asked, phase # "cascade", phase' # "cascade", query' = query, dead' = dead
  PROVE  CascadeInv'
BY DEF CascadeInv, Asked, OneBelow, Deepest, Ready, CascadeClosed, Entries, Callers

(* Listing one more marked name gives the names listed no other depth. *)
LEMMA MarkStep == ASSUME SweepInv, NEW n \in todo, VisitMarked(n) PROVE SweepInv'
<1> DEFINE M == DOMAIN marked
<1>1. /\ phase = "marked" /\ phase' = phase /\ query' = query /\ dead' = dead /\ rootSets' = rootSets
      /\ todo' = todo \ {n} /\ Asked /\ query.verb # "roots" /\ todo \subseteq query.marks
      /\ IsQuery(query)
  BY DEF VisitMarked, SweepInv, Phases, Asked
<1>2. Phases'
  BY <1>1 DEF Phases, IsQuery
<1>3. CascadeInv'
  BY <1>1, CascadeKept DEF SweepInv, Asked
<1>4. ForestInv'
  BY <1>1 DEF ForestInv
<1>5. /\ M \subseteq query.marks
      /\ \A x \in M : CitersGone(Callers(x)) /\ MarkedDepth(x)
      /\ \A S \in SUBSET query.marks : MarksClosed(S) => M \subseteq S
      /\ ~changed => \A x \in query.marks \ (todo \cup M) : ~CitersGone(Callers(x))
  BY <1>1 DEF SweepInv, MarkedInv
<1>6. \A x : Callers(x)' = Callers(x) /\ \A S : MarksClosed(S)' <=> MarksClosed(S)
  BY <1>1 DEF Callers, MarksClosed, Gone
<1>7. CASE n \notin M /\ CitersGone(Callers(n))
  <2>1. /\ marked' = Extended(marked, {n}, IF Callers(n) = {} THEN 0 ELSE 1 + Max(ListedDepths(Callers(n))))
        /\ changed' = TRUE
    BY <1>7 DEF VisitMarked, Callers
  <2>2. /\ DOMAIN marked' = M \cup {n}
        /\ marked'[n] = IF Callers(n) = {} THEN 0 ELSE 1 + Max(ListedDepths(Callers(n)))
        /\ \A x \in M : marked'[x] = marked[x]
    BY <1>7, <2>1 DEF Extended
  <2>3. n \notin DOMAIN dead
    BY <1>1 DEF SweepInv, CascadeInv, IsQuery
  <2>4. ASSUME NEW x \in M \cup {n} PROVE CitersGone(Callers(x)) /\ (CitersGone(Callers(x)))'
    <3>1. CitersGone(Callers(x))
      BY <1>5, <1>7
    <3> QED BY <1>1, <1>6, <2>2, <3>1 DEF CitersGone, Gone
  <2>5. ASSUME NEW x \in M \cup {n} PROVE MarkedDepth(x)'
    <3>1. CASE Callers(x) = {}
      BY <1>5, <1>6, <2>2, <3>1 DEF MarkedDepth
    <3>2. CASE Callers(x) # {}
      <4>1. Callers(x) \subseteq DOMAIN dead \cup M
        BY <2>4, <3>2 DEF CitersGone, Gone
      <4>2. n \notin Callers(x)
        BY <1>7, <2>3, <4>1
      <4>3. /\ Callers(x) \cap DOMAIN marked' = Callers(x) \cap M
            /\ \A c \in Callers(x) \cap M : marked'[c] = marked[c]
        BY <2>2, <4>2
      <4>4. ListedDepths(Callers(x))' = ListedDepths(Callers(x))
        BY <1>1, <1>6, <4>3 DEF ListedDepths
      <4>5. marked'[x] = 1 + Max(ListedDepths(Callers(x)))
        BY <1>5, <2>2, <3>2 DEF MarkedDepth
      <4> QED BY <1>6, <3>2, <4>4, <4>5 DEF MarkedDepth
    <3> QED BY <3>1, <3>2
  <2>6. ASSUME NEW S \in SUBSET query.marks, MarksClosed(S) PROVE M \cup {n} \subseteq S
    <3>1. M \subseteq S
      BY <1>5, <2>6
    <3>2. Gone(Callers(n), S)
      BY <1>7, <3>1 DEF CitersGone, Gone
    <3> QED BY <1>1, <2>6, <3>1, <3>2 DEF MarksClosed
  <2>7. MarkedInv'
    BY <1>1, <1>5, <1>6, <2>1, <2>2, <2>4, <2>5, <2>6 DEF MarkedInv
  <2> QED BY <1>2, <1>3, <1>4, <2>7 DEF SweepInv
<1>8. CASE ~(n \notin M /\ CitersGone(Callers(n)))
  <2>1. marked' = marked /\ changed' = changed
    BY <1>8 DEF VisitMarked, Callers
  <2>2. \A cs : (CitersGone(cs)' <=> CitersGone(cs)) /\ ListedDepths(cs)' = ListedDepths(cs)
    BY <1>1, <2>1 DEF CitersGone, Gone, ListedDepths
  <2>3. \A x : MarkedDepth(x)' <=> MarkedDepth(x)
    BY <1>6, <2>1, <2>2 DEF MarkedDepth
  <2>4. ~changed => \A x \in query.marks \ (todo' \cup M) : ~CitersGone(Callers(x))
    BY <1>1, <1>5, <1>8
  <2>5. MarkedInv'
    BY <1>1, <1>5, <1>6, <2>1, <2>2, <2>3, <2>4 DEF MarkedInv
  <2> QED BY <1>2, <1>3, <1>4, <2>5 DEF SweepInv
<1> QED BY <1>7, <1>8

(* The union a name is given is that of all its citers' root sets. *)
LEMMA NewRootsAre ==
  ASSUME NEW cs PROVE UNION {rootSets[c] : c \in cs \cap DOMAIN rootSets} = UNION {RootsOf(c) : c \in cs}
BY DEF RootsOf

(* A name given the root sets of its citers: nobody's set shrinks. *)
LEMMA ForestStep == ASSUME SweepInv, NEW n \in todo, VisitForest(n) PROVE SweepInv'
<1> DEFINE new == FromCiters(n)
<1>1. /\ phase = "forest" /\ phase' = phase /\ query' = query /\ dead' = dead /\ marked' = marked
      /\ todo' = todo \ {n} /\ Asked /\ query.verb = "roots" /\ IsQuery(query)
      /\ n \in Entries \ AllRoots
      /\ IF new # {} /\ NewRoots(n, new)
         THEN rootSets' = Extended(rootSets, {n}, new) /\ changed' = TRUE
         ELSE rootSets' = rootSets /\ changed' = changed
  BY NewRootsAre DEF VisitForest, SweepInv, Phases, Asked, FromCiters, Callers
<1> HIDE DEF new
<1>2. /\ Entries' = Entries /\ AllRoots' = AllRoots /\ \A x : Callers(x)' = Callers(x)
      /\ \A S : RootsClosed(S)' <=> RootsClosed(S)
  BY <1>1 DEF Entries, AllRoots, Callers, RootsClosed
<1>3. Phases'
  BY <1>1, <1>2 DEF SweepInv, Phases, IsQuery, Asked
<1>4. CascadeInv'
  BY <1>1, CascadeKept DEF SweepInv, Asked
<1>5. MarkedInv'
  BY <1>1 DEF MarkedInv
<1>6. /\ AllRoots \subseteq DOMAIN rootSets
      /\ \A r \in AllRoots : rootSets[r] = {r}
      /\ \A x \in Entries \ AllRoots : RootsOf(x) \subseteq FromCiters(x)
      /\ \A S \in SUBSET (Entries \cup AllRoots) : RootsClosed(S) =>
           \A x \in DOMAIN rootSets \ S : rootSets[x] \cap S = {}
      /\ ~changed => \A x \in Entries \ (AllRoots \cup todo) : RootsOf(x) = FromCiters(x)
  BY <1>1 DEF SweepInv, ForestInv
<1>7. CASE new # {} /\ NewRoots(n, new)
  <2>1. /\ rootSets' = Extended(rootSets, {n}, new) /\ changed' = TRUE
        /\ DOMAIN rootSets' = DOMAIN rootSets \cup {n} /\ rootSets'[n] = new
        /\ \A x \in DOMAIN rootSets \ {n} : rootSets'[x] = rootSets[x]
    BY <1>1, <1>7 DEF Extended
  <2>2. RootsOf(n) \subseteq new /\ RootsOf(n)' = new /\ \A x : x # n => RootsOf(x)' = RootsOf(x)
    BY <1>1, <1>6, <2>1 DEF RootsOf, new
  <2>3. \A x : FromCiters(x) \subseteq FromCiters(x)'
    BY <1>2, <2>2 DEF FromCiters
  <2>4. \A x \in Entries \ AllRoots : RootsOf(x)' \subseteq FromCiters(x)'
    BY <1>6, <2>2, <2>3 DEF new
  <2>5. ASSUME NEW S \in SUBSET (Entries \cup AllRoots), RootsClosed(S),
               NEW x \in DOMAIN rootSets' \ S
        PROVE  rootSets'[x] \cap S = {}
    <3>1. CASE x # n
      BY <1>6, <2>1, <2>5, <3>1
    <3>2. CASE x = n
      <4>1. Callers(n) \cap S = {}
        BY <1>1, <2>5, <3>2 DEF RootsClosed
      <4>2. \A c \in Callers(n) : RootsOf(c) \cap S = {}
        BY <1>6, <2>5, <4>1 DEF RootsOf
      <4> QED BY <2>1, <3>2, <4>2 DEF new, FromCiters
    <3> QED BY <3>1, <3>2
  <2>6. ForestInv'
    BY <1>1, <1>2, <1>6, <2>1, <2>4, <2>5 DEF ForestInv
  <2> QED BY <1>3, <1>4, <1>5, <2>6 DEF SweepInv
<1>8. CASE ~(new # {} /\ NewRoots(n, new))
  <2>1. rootSets' = rootSets /\ changed' = changed
    BY <1>1, <1>8
  <2>2. RootsOf(n) = FromCiters(n)
    BY <1>1, <1>6, <1>8 DEF NewRoots, RootsOf, new
  <2>3. \A x : RootsOf(x)' = RootsOf(x) /\ FromCiters(x)' = FromCiters(x)
    BY <1>2, <2>1 DEF RootsOf, FromCiters
  <2>4. ~changed => \A x \in Entries \ (AllRoots \cup todo') : RootsOf(x) = FromCiters(x)
    BY <1>1, <1>6, <2>2
  <2>5. ForestInv'
    BY <1>1, <1>2, <1>6, <2>1, <2>3, <2>4 DEF ForestInv
  <2> QED BY <1>3, <1>4, <1>5, <2>5 DEF SweepInv
<1> QED BY <1>7, <1>8

(* A pass that found nothing was the last. *)
LEMMA PassEndsStep == ASSUME SweepInv, PassEnds PROVE SweepInv'
<1>1. /\ phase \in {"marked", "forest"} /\ todo = {} /\ Asked
      /\ query' = query /\ dead' = dead /\ marked' = marked /\ rootSets' = rootSets
      /\ IF changed
         THEN /\ todo' = IF phase = "marked" THEN query.marks ELSE Entries \ AllRoots
              /\ changed' = FALSE /\ phase' = phase
         ELSE phase' = "done" /\ todo' = todo /\ changed' = changed
      /\ IsQuery(query) /\ Asked'
  BY DEF PassEnds, SweepInv, Phases, Asked, Entries
<1>2. Entries' = Entries /\ AllRoots' = AllRoots
  BY <1>1 DEF Entries, AllRoots
<1>3. Phases'
  BY <1>1, <1>2 DEF SweepInv, Phases, IsQuery
<1>4. CascadeInv'
  BY <1>1, CascadeKept DEF SweepInv
<1>5. /\ \A cs : (CitersGone(cs)' <=> CitersGone(cs)) /\ ListedDepths(cs)' = ListedDepths(cs)
      /\ \A x : Callers(x)' = Callers(x) /\ \A S : MarksClosed(S)' <=> MarksClosed(S)
  BY <1>1 DEF CitersGone, Gone, ListedDepths, Callers, MarksClosed
<1>6. \A x : MarkedDepth(x)' <=> MarkedDepth(x)
  BY <1>1, <1>5 DEF MarkedDepth
<1>7. MarkedInv'
  BY <1>1, <1>5, <1>6 DEF SweepInv, Phases, MarkedInv
<1>8. \A x : RootsOf(x)' = RootsOf(x) /\ FromCiters(x)' = FromCiters(x)
  BY <1>1, <1>5 DEF RootsOf, FromCiters
<1>9. \A S : RootsClosed(S)' <=> RootsClosed(S)
  BY <1>1, <1>2, <1>5 DEF RootsClosed
<1>10. ForestInv'
  BY <1>1, <1>2, <1>8, <1>9 DEF SweepInv, Phases, ForestInv
<1> QED BY <1>3, <1>4, <1>7, <1>10 DEF SweepInv

(* Between the steps of a query nothing here changes. *)
LEMMA UnusedStutter == ASSUME SweepInv, UNCHANGED unusedVars PROVE SweepInv'
<1>1. /\ phase' = phase /\ query' = query /\ dead' = dead /\ marked' = marked
      /\ rootSets' = rootSets /\ todo' = todo /\ changed' = changed
  BY DEF unusedVars
<1>2. /\ Entries' = Entries /\ AllRoots' = AllRoots /\ (Asked' <=> Asked)
      /\ \A x : Callers(x)' = Callers(x) /\ RootsOf(x)' = RootsOf(x)
  BY <1>1 DEF Entries, AllRoots, Callers, RootsOf, Asked
<1>3. \A cs : (CitersGone(cs)' <=> CitersGone(cs)) /\ ListedDepths(cs)' = ListedDepths(cs)
  BY <1>1 DEF CitersGone, Gone, ListedDepths
<1>4. /\ \A x : (MarkedDepth(x)' <=> MarkedDepth(x)) /\ FromCiters(x)' = FromCiters(x)
      /\ \A S : (MarksClosed(S)' <=> MarksClosed(S)) /\ (RootsClosed(S)' <=> RootsClosed(S))
  BY <1>1, <1>2, <1>3 DEF MarkedDepth, FromCiters, MarksClosed, RootsClosed, Gone
<1>5. Phases'
  BY <1>1, <1>2 DEF SweepInv, Phases, IsQuery
<1>6. CascadeInv'
  BY <1>1 DEF SweepInv, CascadeInv, Asked, OneBelow, Deepest, Ready, CascadeClosed, Entries, Callers
<1>7. MarkedInv'
  BY <1>1, <1>2, <1>3, <1>4 DEF SweepInv, MarkedInv
<1>8. ForestInv'
  BY <1>1, <1>2, <1>4 DEF SweepInv, ForestInv
<1> QED BY <1>5, <1>6, <1>7, <1>8 DEF SweepInv

(* When a sweep is done, the invariant says which fixed point it reached. *)
LEMMA SweepInvIsEnough == SweepInv => FixedPointsExact
<1> SUFFICES ASSUME SweepInv PROVE FixedPointsExact
  OBVIOUS
<1>1. CascadeLeast
  <2> SUFFICES ASSUME phase = "done", query.verb = "recursive" PROVE CascadeLeast
    BY DEF CascadeLeast
  <2>1. /\ DOMAIN dead \subseteq Entries /\ CascadeClosed(DOMAIN dead)
        /\ \A S \in SUBSET Entries : CascadeClosed(S) => DOMAIN dead \subseteq S
        /\ \A n \in DOMAIN dead : OneBelow(n)
    BY DEF SweepInv, CascadeInv, Asked
  <2>2. ASSUME NEW n \in DOMAIN dead, Callers(n) # {}
        PROVE  dead[n] = 1 + Max({dead[c] : c \in Callers(n)})
    <3> DEFINE L == {dead[c] : c \in Callers(n)}
    <3>1. PICK c \in Callers(n) : dead[n] = dead[c] + 1
      BY <2>1, <2>2 DEF OneBelow
    <3>2. \A x \in Callers(n) : dead[x] \in Nat /\ dead[x] <= dead[c]
      BY <2>1, <2>2, <3>1 DEF OneBelow
    <3>3. dead[c] \in L /\ L \subseteq Int /\ \A x \in L : x <= dead[c]
      BY <3>1, <3>2
    <3> HIDE DEF L
    <3>4. Max(L) = dead[c]
      BY <3>3, MaxIs
    <3>5. dead[c] \in Nat
      BY <3>1, <3>2
    <3> QED BY <3>1, <3>4, <3>5 DEF L
  <2> QED BY <2>1, <2>2 DEF CascadeLeast, Entries, Callers, OneBelow
<1>2. MarkedExact
  BY DEF SweepInv, MarkedInv, Asked, MarkedExact, MarkedDepth, MarksClosed, Callers
<1>3. RootsLeast
  BY DEF SweepInv, ForestInv, Asked, RootsLeast, RootsClosed, RootsOf, FromCiters, Entries, Callers
<1> QED BY <1>1, <1>2, <1>3 DEF FixedPointsExact

(* `unused', for every set of queries the command may make: the cascade,    *)
(* the marked names and the root sets it ends with are the least solutions, *)
(* whatever the graph, its cycles and the order a pass visits names in.     *)
THEOREM FixedPoints ==
  ASSUME NEW CONSTANT Queries, \A q \in Queries : IsQuery(q)
  PROVE  UnusedSpec(Queries) => []FixedPointsExact
<1> DEFINE Asking == \E q \in Queries : Ask(q.callers, q.live, q.marks, q.verb)
<1>1. UnusedInit => SweepInv
  BY UnusedInitInv
<1>2. SweepInv /\ [Asking \/ Sweep]_unusedVars => SweepInv'
  <2>1. ASSUME SweepInv, Asking PROVE SweepInv'
    BY <2>1, AskStep
  <2>2. ASSUME SweepInv, Sweep PROVE SweepInv'
    BY <2>2, CascadePassStep, MarkStep, ForestStep, PassEndsStep DEF Sweep
  <2>3. ASSUME SweepInv, UNCHANGED unusedVars PROVE SweepInv'
    BY <2>3, UnusedStutter
  <2> QED BY <2>1, <2>2, <2>3
<1>3. SweepInv => FixedPointsExact
  BY SweepInvIsEnough
<1> QED BY <1>1, <1>2, <1>3, PTL DEF UnusedSpec

-----------------------------------------------------------------------------
(***************************************************************************)
(* The tokenizer: for any theory, line by line.                            *)
(***************************************************************************)
Brackets == {"comment", "verbatim", "string", "term", "cartouche"}
Registers == [state : Brackets \cup {"text"}, depth : Nat,
              resume : {"text", "string", "term"}, resumeDepth : Nat]

(* How many of the open brackets are of the region the scanner is in, and   *)
(* how many belong to the term around a note.                               *)
Inside(r) == IF r.state = "text" THEN 0
             ELSE IF r.state \in {"string", "verbatim"} THEN 1 ELSE r.depth
Around(r) == IF r.state # "cartouche" THEN 0
             ELSE IF r.resume = "string" THEN 1 ELSE r.resumeDepth

(* The registers say of which brackets the stack consists. *)
StandsFor(r, s) ==
  /\ r \in Registers /\ s \in Seq(Brackets)
  /\ r.state \in {"comment", "term", "cartouche"} => r.depth > 0
  /\ r.state \in {"text", "string", "verbatim"} => r.depth = 0
  /\ r.state # "cartouche" => r.resume = "text" /\ r.resumeDepth = 0
  /\ r.resume = "term" => r.resumeDepth > 0
  /\ r.resume # "term" => r.resumeDepth = 0
  /\ Len(s) = Around(r) + Inside(r)
  /\ \A k \in 1..Around(r) : s[k] = r.resume
  /\ \A k \in (Around(r) + 1)..Len(s) : s[k] = r.state
ScanInv == StandsFor(scan, stack)

(* f is the recursion from start over 1..n, and it stays in D. *)
FoldsTo(n, D, start, g, f) ==
  f \in [0..n -> D] /\ f[0] = start /\ \A k \in 1..n : f[k] = g[<<k, f[k-1]>>]

(* A recursion over 1..n that stays in a set has a solution. *)
LEMMA FoldExists ==
  ASSUME NEW n \in Nat, NEW D, NEW start \in D, NEW g, g \in [(1..n) \X D -> D]
  PROVE  \E f : FoldsTo(n, D, start, g, f)
<1> DEFINE Folded(m) == \E f \in [0..m -> D] : f[0] = start /\ \A k \in 1..m : f[k] = g[<<k, f[k-1]>>]
           Bad == {m \in 0..n : ~Folded(m)}
           Less == OpToRel(<, Nat)
<1> SUFFICES ASSUME Bad # {} PROVE FALSE
  BY SMTT(20) DEF Bad, FoldsTo
<1>1. \A m, k \in Nat : m < k => <<m, k>> \in Less
  BY DEF OpToRel
<1>2. IsWellFoundedOn(Less, Nat)
  BY NatLessThanWellFounded, Zenon
<1> HIDE DEF Less
<1>3. Bad \subseteq Nat
  OBVIOUS
<1> HIDE DEF Bad
<1>4. PICK m \in Bad : \A k \in Bad : ~(<<k, m>> \in Less)
  BY <1>2, <1>3, WFMin
<1>5. m \in 0..n /\ ~Folded(m) /\ \A k \in 0..n : k < m => Folded(k)
  BY <1>1, <1>3, <1>4 DEF Bad
<1>6. CASE m = 0
  <2> DEFINE h == [k \in 0..0 |-> start]
  <2>1. h \in [0..m -> D] /\ h[0] = start
    BY <1>6
  <2>2. \A k \in 1..m : h[k] = g[<<k, h[k-1]>>]
    BY <1>6
  <2> HIDE DEF h
  <2> QED BY <1>5, <2>1, <2>2
<1>7. CASE m # 0
  <2>1. m - 1 \in 0..n /\ m - 1 < m /\ m \in 1..n
    BY <1>5, <1>7
  <2>2. PICK f \in [0..(m-1) -> D] : f[0] = start /\ \A k \in 1..(m-1) : f[k] = g[<<k, f[k-1]>>]
    BY <1>5, <2>1
  <2> DEFINE h == [k \in 0..m |-> IF k = m THEN g[<<m, f[m-1]>>] ELSE f[k]]
  <2>3. f[m-1] \in D /\ g[<<m, f[m-1]>>] \in D
    BY <2>1, <2>2
  <2>4. h \in [0..m -> D] /\ h[0] = start
    BY <1>7, <2>1, <2>2, <2>3
  <2>5. ASSUME NEW k \in 1..m PROVE h[k] = g[<<k, h[k-1]>>]
    <3>1. k - 1 \in 0..m /\ k - 1 # m /\ k \in 0..m
      BY <2>1, <2>5
    <3>0. h[k-1] = f[k-1]
      BY <3>1
    <3>2. CASE k = m
      <4>1. h[k] = g[<<m, f[m-1]>>]
        BY <3>1, <3>2
      <4> QED BY <3>0, <3>2, <4>1
    <3>3. CASE k # m
      <4>1. k \in 1..(m-1)
        BY <2>1, <2>5, <3>3
      <4>2. h[k] = f[k]
        BY <3>1, <3>3
      <4> QED BY <2>2, <3>0, <4>1, <4>2
    <3> QED BY <3>2, <3>3
  <2> HIDE DEF h
  <2> QED BY <1>5, <2>4, <2>5
<1> QED BY <1>6, <1>7

(* The registers field by field: where a bracket opens, *)
LEMMA FreshIs ==
  ASSUME NEW state \in Brackets
  PROVE  /\ Fresh(state) \in Registers /\ Fresh(state).state = state /\ Fresh(state).depth = 1
         /\ Fresh(state).resume = "text" /\ Fresh(state).resumeDepth = 0
BY DEF Registers, Brackets, Fresh

(* outside all brackets, *)
LEMMA TextIs ==
  /\ Text \in Registers /\ Text.state = "text" /\ Text.depth = 0
  /\ Text.resume = "text" /\ Text.resumeDepth = 0
BY DEF Registers, Text

(* where the depth is left alone, *)
LEMMA EnterIs ==
  ASSUME NEW r \in Registers, NEW state
  PROVE  Enter(r, state) = [state |-> state, depth |-> r.depth, resume |-> r.resume,
                            resumeDepth |-> r.resumeDepth]
BY DEF Registers, Enter

(* one bracket deeper, *)
LEMMA DeeperIs ==
  ASSUME NEW r \in Registers
  PROVE  Deeper(r) = [state |-> r.state, depth |-> r.depth + 1, resume |-> r.resume,
                      resumeDepth |-> r.resumeDepth]
BY DEF Registers, Deeper

(* and one less deep. *)
LEMMA ClosedIs ==
  ASSUME NEW r \in Registers, NEW q
  PROVE  Closed(r, q) = IF r.depth <= 1 THEN q
                        ELSE [state |-> r.state, depth |-> r.depth - 1, resume |-> r.resume,
                              resumeDepth |-> r.resumeDepth]
BY DEF Registers, Closed

(* What becomes of a stack. *)
LEMMA StackIs ==
  ASSUME NEW s \in Seq(Brackets), NEW b \in Brackets
  PROVE  /\ Len(s) \in Nat /\ (s = <<>> <=> Len(s) = 0)
         /\ Append(s, b) \in Seq(Brackets) /\ Len(Append(s, b)) = Len(s) + 1
         /\ \A k \in 1..Len(s) : Append(s, b)[k] = s[k]
         /\ Append(s, b)[Len(s) + 1] = b
         /\ s # <<>> => /\ Front(s) \in Seq(Brackets) /\ Len(Front(s)) = Len(s) - 1
                        /\ \A k \in 1..(Len(s) - 1) : Front(s)[k] = s[k]
                        /\ Last(s) = s[Len(s)] /\ Last(s) \in Brackets
         /\ <<b>> \in Seq(Brackets) /\ Len(<<b>>) = 1 /\ <<b>>[1] = b
<1>1. Len(s) \in Nat /\ (s = <<>> <=> Len(s) = 0)
  BY LenProperties, EmptySeq
<1>2. /\ Append(s, b) \in Seq(Brackets) /\ Len(Append(s, b)) = Len(s) + 1
      /\ \A k \in 1..Len(s) : Append(s, b)[k] = s[k]
      /\ Append(s, b)[Len(s) + 1] = b
  BY AppendProperties
<1>3. ASSUME s # <<>>
      PROVE  /\ Front(s) \in Seq(Brackets) /\ Len(Front(s)) = Len(s) - 1
             /\ \A k \in 1..(Len(s) - 1) : Front(s)[k] = s[k]
             /\ Last(s) = s[Len(s)] /\ Last(s) \in Brackets
  <2>1. Front(s) = SubSeq(s, 1, Len(s) - 1) /\ Len(s) - 1 \in Nat
    BY <1>1, <1>3 DEF Front
  <2>3. \A k \in 1..(Len(s) - 1) : s[k] \in Brackets
    BY <1>1, ElementOfSeq
  <2> DEFINE n == Len(s) - 1
  <2> HIDE DEF n
  <2>4. /\ SubSeq(s, 1, n) \in Seq(Brackets) /\ Len(SubSeq(s, 1, n)) = IF 1 <= n THEN n - 1 + 1 ELSE 0
        /\ \A k \in 1..(n - 1 + 1) : SubSeq(s, 1, n)[k] = s[1 + k - 1]
    BY <2>1, <2>3, SubSeqProperties DEF n
  <2>5. n \in Nat /\ n - 1 + 1 = n /\ \A k \in 1..n : 1 + k - 1 = k
    BY <2>1 DEF n
  <2>2. Last(s) = s[Len(s)] /\ Last(s) \in Brackets
    BY <1>1, <1>3, ElementOfSeq DEF Last
  <2> QED BY <2>1, <2>2, <2>4, <2>5 DEF n
<1> QED BY <1>1, <1>2, <1>3


(* The region the scanner is in is the innermost open bracket. *)
LEMMA TopIs ==
  ASSUME NEW r, NEW s, StandsFor(r, s)
  PROVE  r.state = IF s = <<>> THEN "text" ELSE Last(s)
<1>1. /\ r.state \in Brackets \cup {"text"} /\ r.depth \in Nat /\ r.resumeDepth \in Nat
      /\ Len(s) = Around(r) + Inside(r) /\ Around(r) \in Nat
      /\ \A k \in (Around(r) + 1)..Len(s) : s[k] = r.state
  BY DEF StandsFor, Registers, Around
<1>2. s \in Seq(Brackets) /\ Len(s) \in Nat /\ (s = <<>> <=> Len(s) = 0)
  BY StackIs DEF StandsFor, Brackets
<1>3. CASE r.state = "text"
  BY <1>1, <1>2, <1>3 DEF Around, Inside
<1>4. CASE r.state # "text"
  <2>1. Inside(r) > 0 /\ Inside(r) \in Nat
    BY <1>1, <1>4 DEF StandsFor, Inside, Brackets
  <2>2. Len(s) \in (Around(r) + 1)..Len(s) /\ Len(s) > 0
    BY <1>1, <1>2, <2>1
  <2> QED BY <1>1, <1>2, <1>4, <2>2 DEF Last
<1> QED BY <1>3, <1>4

(* A bracket of the region around is opened or closed. *)
LEMMA GoesDeeper ==
  ASSUME NEW r, NEW s, StandsFor(r, s), r.state \in {"comment", "term", "cartouche"}
  PROVE  StandsFor(Deeper(r), Append(s, r.state))
<1> DEFINE q == Deeper(r)
           t == Append(s, r.state)
<1>1. r \in Registers /\ s \in Seq(Brackets) /\ r.state \in Brackets /\ r.depth \in Nat /\ r.resumeDepth \in Nat
  BY DEF StandsFor, Registers, Brackets
<1>2. /\ q.state = r.state /\ q.depth = r.depth + 1 /\ q.resume = r.resume
      /\ q.resumeDepth = r.resumeDepth /\ q \in Registers
  BY <1>1, DeeperIs DEF Registers
<1>3. Around(q) = Around(r) /\ Inside(q) = Inside(r) + 1 /\ Around(r) \in Nat /\ Inside(r) \in Nat
  BY <1>1, <1>2 DEF Around, Inside
<1>4. /\ t \in Seq(Brackets) /\ Len(t) = Len(s) + 1 /\ Len(s) \in Nat
      /\ (\A k \in 1..Len(s) : t[k] = s[k]) /\ t[Len(s) + 1] = r.state
  BY <1>1, StackIs
<1> HIDE DEF q, t
<1>5. Len(t) = Around(q) + Inside(q)
  BY <1>3, <1>4 DEF StandsFor
<1>6. \A k \in 1..Around(q) : t[k] = q.resume
  <2>1. Around(r) <= Len(s)
    BY <1>3 DEF StandsFor
  <2> QED BY <1>2, <1>3, <1>4, <2>1 DEF StandsFor
<1>7. \A k \in (Around(q) + 1)..Len(t) : t[k] = q.state
  BY <1>2, <1>3, <1>4 DEF StandsFor
<1>8. StandsFor(q, t)
  BY <1>1, <1>2, <1>4, <1>5, <1>6, <1>7 DEF StandsFor
<1> QED BY <1>8 DEF q, t

(* ... the last of the region gives way to what is around it. *)
LEMMA IsClosed ==
  ASSUME NEW r, NEW s, StandsFor(r, s), r.state \in {"comment", "term", "cartouche"},
         NEW q, r.depth <= 1 => q = IF r.state = "cartouche" THEN Resumed(r) ELSE Text
  PROVE  StandsFor(Closed(r, q), Front(s))
<1> DEFINE p == Closed(r, q)
           t == Front(s)
<1>1. /\ r \in Registers /\ s \in Seq(Brackets) /\ r.state \in Brackets /\ r.depth \in Nat /\ r.depth > 0
      /\ r.resumeDepth \in Nat /\ r.resume \in {"text", "string", "term"}
  BY DEF StandsFor, Registers, Brackets
<1>2. Around(r) \in Nat /\ Inside(r) = r.depth /\ Len(s) = Around(r) + r.depth
  BY <1>1 DEF Around, Inside, StandsFor
<1>3. /\ t \in Seq(Brackets) /\ Len(t) = Len(s) - 1 /\ Len(s) \in Nat
      /\ (\A k \in 1..(Len(s) - 1) : t[k] = s[k])
  BY <1>1, <1>2, StackIs
<1>4. CASE r.depth <= 1
  <2>1. r.depth = 1 /\ Len(t) = Around(r) /\ \A k \in 1..Around(r) : t[k] = r.resume
    BY <1>1, <1>2, <1>3, <1>4 DEF StandsFor
  <2>2. p = q
    BY <1>1, <1>4, ClosedIs
  <2>3. CASE r.state = "cartouche"
    <3>1. p = [state |-> r.resume, depth |-> r.resumeDepth, resume |-> "text", resumeDepth |-> 0]
      <4>1. q = Resumed(r)
        BY <1>4, <2>3
      <4> QED BY <2>2, <4>1 DEF Resumed
    <3>2. /\ p.state = r.resume /\ p.depth = r.resumeDepth /\ p.resume = "text" /\ p.resumeDepth = 0
          /\ p \in Registers
      BY <1>1, <3>1 DEF Registers, Brackets
    <3> HIDE DEF p, t
    <3>3. /\ r.resume = "term" => r.resumeDepth > 0 /\ Around(r) = r.resumeDepth
          /\ r.resume = "string" => r.resumeDepth = 0 /\ Around(r) = 1
          /\ r.resume = "text" => r.resumeDepth = 0 /\ Around(r) = 0
      BY <2>3 DEF StandsFor, Around
    <3>4. Around(p) = 0 /\ Inside(p) = Around(r)
      BY <1>1, <3>2, <3>3 DEF Around, Inside
    <3>5. StandsFor(p, t)
      <4>1. Len(t) = Around(p) + Inside(p) /\ \A k \in 1..Around(p) : t[k] = p.resume
        BY <1>2, <2>1, <3>4
      <4>2. \A k \in (Around(p) + 1)..Len(t) : t[k] = p.state
        BY <1>2, <2>1, <3>2, <3>4
      <4>3. /\ p.state \in {"text", "string", "term"}
            /\ p.state = "term" => p.depth > 0
            /\ p.state # "term" => p.depth = 0
        BY <1>1, <3>2, <3>3
      <4> QED BY <1>3, <3>2, <4>1, <4>2, <4>3 DEF StandsFor
    <3> QED BY <3>5 DEF p, t
  <2>4. CASE r.state # "cartouche"
    <3>1. p = Text
      BY <1>4, <2>2, <2>4
    <3>2. Around(r) = 0
      BY <2>4 DEF Around
    <3>3. Around(Text) = 0 /\ Inside(Text) = 0
      BY TextIs DEF Around, Inside
    <3> HIDE DEF p, t
    <3>4. StandsFor(p, t)
      BY <1>3, <2>1, <3>1, <3>2, <3>3, TextIs DEF StandsFor
    <3> QED BY <3>4 DEF p, t
  <2> QED BY <2>3, <2>4
<1>5. CASE r.depth > 1
  <2>1. p = [state |-> r.state, depth |-> r.depth - 1, resume |-> r.resume, resumeDepth |-> r.resumeDepth]
    BY <1>1, <1>5, ClosedIs
  <2>2. /\ p.state = r.state /\ p.depth = r.depth - 1 /\ p.resume = r.resume
        /\ p.resumeDepth = r.resumeDepth /\ p \in Registers /\ p.depth > 0
    BY <1>1, <1>5, <2>1 DEF Registers
  <2> HIDE DEF p, t
  <2>3. Around(p) = Around(r) /\ Inside(p) = r.depth - 1
    BY <1>1, <2>2 DEF Around, Inside
  <2>4. \A k \in 1..Around(p) : t[k] = p.resume
    BY <1>1, <1>2, <1>3, <1>5, <2>2, <2>3 DEF StandsFor
  <2>5. \A k \in (Around(p) + 1)..Len(t) : t[k] = p.state
    BY <1>1, <1>2, <1>3, <1>5, <2>2, <2>3 DEF StandsFor
  <2>6. Len(t) = Around(p) + Inside(p)
    BY <1>1, <1>2, <1>3, <2>3
  <2>7. StandsFor(p, t)
    BY <1>1, <1>3, <2>2, <2>4, <2>5, <2>6 DEF StandsFor
  <2> QED BY <2>7 DEF p, t
<1> QED BY <1>1, <1>4, <1>5

(* A note opens in a term or a string. *)
LEMMA NoteOpens ==
  ASSUME NEW r, NEW s, StandsFor(r, s), r.state \in {"string", "term"}
  PROVE  StandsFor(Note(r), Append(s, "cartouche"))
<1> DEFINE q == Note(r)
           t == Append(s, "cartouche")
<1>1. r \in Registers /\ s \in Seq(Brackets) /\ "cartouche" \in Brackets /\ r.depth \in Nat
  BY DEF StandsFor, Registers, Brackets
<1>2. /\ q.state = "cartouche" /\ q.depth = 1 /\ q.resume = r.state
      /\ q.resumeDepth = r.depth /\ q \in Registers
  BY <1>1 DEF Registers, Note, Brackets
<1>3. /\ t \in Seq(Brackets) /\ Len(t) = Len(s) + 1 /\ Len(s) \in Nat
      /\ (\A k \in 1..Len(s) : t[k] = s[k]) /\ t[Len(s) + 1] = "cartouche"
  BY <1>1, StackIs
<1> HIDE DEF q, t
<1>4. Around(r) = 0 /\ Len(s) = Inside(r) /\ Around(q) = Inside(r) /\ Inside(q) = 1 /\ Inside(r) \in Nat
  BY <1>1, <1>2 DEF StandsFor, Around, Inside
<1>5. \A k \in 1..Around(q) : t[k] = q.resume
  BY <1>2, <1>3, <1>4 DEF StandsFor
<1>6. \A k \in (Around(q) + 1)..Len(t) : t[k] = q.state
  BY <1>2, <1>3, <1>4
<1>7. Len(t) = Around(q) + Inside(q)
  BY <1>3, <1>4
<1>8. StandsFor(q, t)
  BY <1>2, <1>3, <1>4, <1>5, <1>6, <1>7 DEF StandsFor
<1> QED BY <1>8 DEF q, t

(* A region opens at top level, and a string or verbatim text closes. *)
LEMMA Opens ==
  ASSUME NEW b \in {"comment", "term", "cartouche"}
  PROVE  StandsFor(Fresh(b), <<b>>)
<1>1. /\ b \in Brackets /\ Fresh(b) \in Registers /\ Fresh(b).state = b /\ Fresh(b).depth = 1
      /\ Fresh(b).resume = "text" /\ Fresh(b).resumeDepth = 0
  BY FreshIs DEF Brackets
<1>2. <<b>> \in Seq(Brackets) /\ Len(<<b>>) = 1 /\ <<b>>[1] = b
  BY <1>1, StackIs, EmptySeq
<1>3. Around(Fresh(b)) = 0 /\ Inside(Fresh(b)) = 1
  BY <1>1 DEF Around, Inside
<1> QED BY <1>1, <1>2, <1>3 DEF StandsFor

(* The registers in which a theory starts stand for no bracket. *)
LEMMA NothingOpen == StandsFor(Text, <<>>)
<1>1. Around(Text) = 0 /\ Inside(Text) = 0
  BY TextIs DEF Around, Inside
<1> QED BY <1>1, TextIs, EmptySeq DEF StandsFor

(* A string or a verbatim text opens outside all brackets, and only there. *)
LEMMA Enters ==
  ASSUME NEW r, NEW s, StandsFor(r, s), r.state = "text", NEW b \in {"string", "verbatim"}
  PROVE  s = <<>> /\ StandsFor(Enter(r, b), <<b>>) /\ StandsFor(r, s)
<1>1. /\ r \in Registers /\ r.depth = 0 /\ r.resume = "text" /\ r.resumeDepth = 0 /\ Len(s) = 0
      /\ s \in Seq(Brackets)
  BY DEF StandsFor, Inside, Around
<1> DEFINE q == Enter(r, b)
<1>2. q = [state |-> b, depth |-> 0, resume |-> "text", resumeDepth |-> 0]
  BY <1>1, EnterIs
<1>3. b \in Brackets /\ q \in Registers /\ q.state = b /\ q.depth = 0 /\ q.resume = "text" /\ q.resumeDepth = 0
  BY <1>2 DEF Registers, Brackets
<1> HIDE DEF q
<1>4. Around(q) = 0 /\ Inside(q) = 1
  BY <1>3 DEF Around, Inside
<1>5. <<b>> \in Seq(Brackets) /\ Len(<<b>>) = 1 /\ <<b>>[1] = b
  BY <1>3, StackIs, EmptySeq
<1>6. StandsFor(q, <<b>>)
  BY <1>3, <1>4, <1>5 DEF StandsFor
<1> QED BY <1>1, <1>6, EmptySeq DEF q

(* Its end is the end of the only open bracket. *)
LEMMA Leaves ==
  ASSUME NEW r, NEW s, StandsFor(r, s), r.state \in {"string", "verbatim"}
  PROVE  StandsFor(Enter(r, "text"), Front(s))
<1>1. /\ r \in Registers /\ r.depth = 0 /\ r.resume = "text" /\ r.resumeDepth = 0 /\ Len(s) = 1
      /\ s \in Seq(Brackets) /\ "term" \in Brackets
  BY DEF StandsFor, Inside, Around, Brackets
<1>2. Enter(r, "text") = Text
  BY <1>1, EnterIs DEF Text
<1>3. Front(s) \in Seq(Brackets) /\ Len(Front(s)) = 0
  <2>1. PICK b \in Brackets : TRUE
    BY <1>1
  <2>2. s \in Seq(Brackets) /\ Len(s) = 1
    BY <1>1
  <2>3. s # <<>>
    BY <2>1, <2>2, StackIs
  <2>4. Front(s) \in Seq(Brackets) /\ Len(Front(s)) = Len(s) - 1
    BY <2>1, <2>2, <2>3, StackIs
  <2> QED BY <1>1, <2>4
<1>4. Front(s) = <<>>
  BY <1>3, EmptySeq
<1> QED BY <1>2, <1>4, NothingOpen

(* One token read by both. *)
LEMMA TokenRead ==
  ASSUME NEW r, NEW s, StandsFor(r, s), NEW tok, NEW ml \in BOOLEAN
  PROVE  StandsFor(ScanToken(r, tok, ml), Nest(s, tok, ml))
<1>1. r \in Registers /\ s \in Seq(Brackets) /\ r.state \in Brackets \cup {"text"}
  BY DEF StandsFor, Registers
<1>2. r.state = IF s = <<>> THEN "text" ELSE Last(s)
  BY TopIs
<1>3. PICK q, t : q = ScanToken(r, tok, ml) /\ t = Nest(s, tok, ml)
  OBVIOUS
<1> SUFFICES StandsFor(q, t)
  BY <1>3
<1>4. CASE r.state = "text"
  <2>1. s = <<>>
    BY <1>4, Enters
  <2>2. q = IF tok = "(*" THEN Fresh("comment")
            ELSE IF tok = "{*" THEN Enter(r, "verbatim")
            ELSE IF tok = "quote" THEN Enter(r, "string")
            ELSE IF tok \in Markers \/ (tok = "open" /\ ml) THEN Fresh("cartouche")
            ELSE IF tok = "open" THEN Fresh("term") ELSE r
    BY <1>3, <1>4 DEF ScanToken
  <2>3. t = IF tok = "(*" THEN <<"comment">>
            ELSE IF tok = "{*" THEN <<"verbatim">>
            ELSE IF tok = "quote" THEN <<"string">>
            ELSE IF tok = "open" THEN <<IF ml THEN "cartouche" ELSE "term">>
            ELSE IF tok \in Markers THEN Append(s, "cartouche") ELSE s
    BY <1>2, <1>3, <1>4 DEF Nest, Markers
  <2>4. Append(s, "cartouche") = <<"cartouche">>
    BY <2>1
  <2>5. \A b \in {"comment", "term", "cartouche"} : StandsFor(Fresh(b), <<b>>)
    BY Opens
  <2>6. \A b \in {"string", "verbatim"} : StandsFor(Enter(r, b), <<b>>)
    BY <1>4, Enters
  <2>7. "open" \notin Markers /\ "(*" \notin Markers /\ "{*" \notin Markers /\ "quote" \notin Markers
    BY DEF Markers
  <2> QED BY <2>2, <2>3, <2>4, <2>5, <2>6, <2>7
<1>5. CASE r.state = "string"
  <2>1. q = IF tok = "quote" THEN Enter(r, "text") ELSE IF tok \in Markers THEN Note(r) ELSE r
    BY <1>3, <1>5 DEF ScanToken
  <2>2. t = IF tok = "quote" THEN Front(s) ELSE IF tok \in Markers THEN Append(s, "cartouche") ELSE s
    BY <1>2, <1>3, <1>5 DEF Nest, Markers
  <2> QED BY <1>5, <2>1, <2>2, Leaves, NoteOpens
<1>6. CASE r.state = "comment"
  <2>1. q = IF tok = "(*" THEN Deeper(r) ELSE IF tok = "*)" THEN Closed(r, Text) ELSE r
    BY <1>3, <1>6 DEF ScanToken
  <2>2. t = IF tok = "(*" THEN Append(s, "comment") ELSE IF tok = "*)" THEN Front(s) ELSE s
    BY <1>2, <1>3, <1>6 DEF Nest, Markers
  <2>3. StandsFor(Deeper(r), Append(s, "comment"))
    BY <1>6, GoesDeeper
  <2>4. StandsFor(Closed(r, Text), Front(s))
    BY <1>6, IsClosed
  <2> QED BY <2>1, <2>2, <2>3, <2>4
<1>7. CASE r.state = "verbatim"
  <2>1. q = IF tok = "*}" THEN Enter(r, "text") ELSE r
    BY <1>3, <1>7 DEF ScanToken
  <2>2. t = IF tok = "*}" THEN Front(s) ELSE s
    BY <1>2, <1>3, <1>7 DEF Nest, Markers
  <2> QED BY <1>7, <2>1, <2>2, Leaves
<1>8. CASE r.state = "term"
  <2>1. q = IF tok \in Markers THEN Note(r) ELSE IF tok = "open" THEN Deeper(r)
            ELSE IF tok = "close" THEN Closed(r, Text) ELSE r
    BY <1>3, <1>8 DEF ScanToken
  <2>2. t = IF tok \in Markers THEN Append(s, "cartouche") ELSE IF tok = "open" THEN Append(s, "term")
            ELSE IF tok = "close" THEN Front(s) ELSE s
    BY <1>2, <1>3, <1>8 DEF Nest, Markers
  <2>3. StandsFor(Deeper(r), Append(s, "term"))
    BY <1>8, GoesDeeper
  <2>4. StandsFor(Closed(r, Text), Front(s))
    BY <1>8, IsClosed
  <2>5. StandsFor(Note(r), Append(s, "cartouche"))
    BY <1>8, NoteOpens
  <2> QED BY <2>1, <2>2, <2>3, <2>4, <2>5
<1>9. CASE r.state = "cartouche"
  <2>1. q = IF tok \in Markers \cup {"open"} THEN Deeper(r)
            ELSE IF tok = "close" THEN Closed(r, Resumed(r)) ELSE r
    BY <1>3, <1>9 DEF ScanToken
  <2>2. t = IF tok \in Markers \cup {"open"} THEN Append(s, "cartouche")
            ELSE IF tok = "close" THEN Front(s) ELSE s
    BY <1>2, <1>3, <1>9 DEF Nest, Markers
  <2>3. StandsFor(Deeper(r), Append(s, "cartouche"))
    BY <1>9, GoesDeeper
  <2>4. StandsFor(Closed(r, Resumed(r)), Front(s))
    BY <1>9, IsClosed
  <2> QED BY <2>1, <2>2, <2>3, <2>4
<1> QED BY <1>1, <1>4, <1>5, <1>6, <1>7, <1>8, <1>9 DEF Brackets

(* A line read by both, one token after the other: what the last token      *)
(* leaves of the one stands for what it leaves of the other.                *)
LEMMA LineRead ==
  ASSUME NEW Tokens, NEW lines, NEW line \in Seq(Tokens), NEW r, NEW s, StandsFor(r, s)
  PROVE  StandsFor(Last(Trace(ScanToken, r, lines, line)), Last(Trace(Nest, s, lines, line)))
<1> DEFINE n == Len(line)
           ML(k) == OpensMLBody(lines, line, k)
           Scans[k \in 0..Len(line)] ==
             IF k = 0 THEN r ELSE ScanToken(Scans[k - 1], line[k], OpensMLBody(lines, line, k))
           Nests[k \in 0..Len(line)] ==
             IF k = 0 THEN s ELSE Nest(Nests[k - 1], line[k], OpensMLBody(lines, line, k))
           IsScans(f) == f = [k \in 0..n |-> IF k = 0 THEN r ELSE ScanToken(f[k - 1], line[k], ML(k))]
           IsNests(f) == f = [k \in 0..n |-> IF k = 0 THEN s ELSE Nest(f[k - 1], line[k], ML(k))]
<1>1. n \in Nat
  BY LenProperties
<1>2. \A k : ML(k) \in BOOLEAN
  BY DEF OpensMLBody
<1>3. PICK f, h : IsScans(f) /\ IsNests(h)
  <2> DEFINE D == {p \in Registers \X Seq(Brackets) : StandsFor(p[1], p[2])}
             g == [kp \in (1..n) \X D |->
                     <<ScanToken(kp[2][1], line[kp[1]], ML(kp[1])), Nest(kp[2][2], line[kp[1]], ML(kp[1]))>>]
  <2>1. \A p \in D : StandsFor(p[1], p[2])
    OBVIOUS
  <2>2. \A q, t : StandsFor(q, t) => <<q, t>> \in D
    BY DEF StandsFor
  <2> HIDE DEF D, ML
  <2>3. ASSUME NEW k \in 1..n, NEW p \in D
        PROVE  <<ScanToken(p[1], line[k], ML(k)), Nest(p[2], line[k], ML(k))>> \in D
    BY <1>2, <2>1, <2>2, TokenRead
  <2>4. g \in [(1..n) \X D -> D]
    BY <2>3
  <2>5. \A k \in 1..n : \A p \in D :
          g[<<k, p>>] = <<ScanToken(p[1], line[k], ML(k)), Nest(p[2], line[k], ML(k))>>
    OBVIOUS
  <2>6. <<r, s>> \in D
    BY <2>2
  <2> HIDE DEF g, n
  <2>7. PICK b \in [0..n -> D] : b[0] = <<r, s>> /\ \A k \in 1..n : b[k] = g[<<k, b[k-1]>>]
    <3>1. PICK b : FoldsTo(n, D, <<r, s>>, g, b)
      BY <1>1, <2>4, <2>6, FoldExists
    <3> QED BY <3>1 DEF FoldsTo
  <2> DEFINE f == [k \in 0..n |-> b[k][1]]
             h == [k \in 0..n |-> b[k][2]]
  <2>8. ASSUME NEW k \in 1..n
        PROVE  b[k] = <<ScanToken(f[k - 1], line[k], ML(k)), Nest(h[k - 1], line[k], ML(k))>>
    <3>1. k - 1 \in 0..n
      BY <1>1
    <3>2. b[k-1] \in D /\ f[k - 1] = b[k - 1][1] /\ h[k - 1] = b[k - 1][2]
      BY <2>7, <3>1
    <3> HIDE DEF f, h
    <3> QED BY <2>5, <2>7, <3>2
  <2>9. \A k \in 0..n : f[k] = b[k][1] /\ h[k] = b[k][2]
    OBVIOUS
  <2>10. IsScans(f)
    <3>1. ASSUME NEW k \in 0..n
          PROVE  f[k] = IF k = 0 THEN r ELSE ScanToken(f[k - 1], line[k], ML(k))
      <4>1. CASE k = 0
        BY <1>1, <2>7, <2>9, <4>1
      <4>2. CASE k # 0
        <5>1. k \in 1..n
          BY <1>1, <4>2
        <5> HIDE DEF f, h
        <5> QED BY <2>8, <2>9, <4>2, <5>1
      <4> QED BY <4>1, <4>2
    <3> QED BY <3>1
  <2>11. IsNests(h)
    <3>1. ASSUME NEW k \in 0..n
          PROVE  h[k] = IF k = 0 THEN s ELSE Nest(h[k - 1], line[k], ML(k))
      <4>1. CASE k = 0
        BY <1>1, <2>7, <2>9, <4>1
      <4>2. CASE k # 0
        <5>1. k \in 1..n
          BY <1>1, <4>2
        <5> HIDE DEF f, h
        <5> QED BY <2>8, <2>9, <4>2, <5>1
      <4> QED BY <4>1, <4>2
    <3> QED BY <3>1
  <2> QED BY <2>10, <2>11
<1>4. IsScans(Scans)
  BY <1>3
<1>5. IsNests(Nests)
  BY <1>3
<1>6. /\ Trace(ScanToken, r, lines, line) = [k \in 1..(n + 1) |-> Scans[k - 1]]
      /\ Trace(Nest, s, lines, line) = [k \in 1..(n + 1) |-> Nests[k - 1]]
  BY DEF Trace
<1> HIDE DEF n, ML, Scans, Nests
<1>7. /\ Last(Trace(ScanToken, r, lines, line)) = Scans[n]
      /\ Last(Trace(Nest, s, lines, line)) = Nests[n]
  <2>1. PICK a, b : a = [k \in 1..(n + 1) |-> Scans[k - 1]] /\ b = [k \in 1..(n + 1) |-> Nests[k - 1]]
    OBVIOUS
  <2>2. Len(a) = n + 1 /\ Len(b) = n + 1 /\ a[n + 1] = Scans[n] /\ b[n + 1] = Nests[n]
    BY <1>1, <2>1
  <2> QED BY <1>6, <2>1, <2>2 DEF Last
<1>8. StandsFor(Scans[n], Nests[n])
  <2> DEFINE Bad == {k \in 0..n : ~StandsFor(Scans[k], Nests[k])}
             Less == OpToRel(<, Nat)
  <2> SUFFICES ASSUME Bad # {} PROVE FALSE
    BY <1>1
  <2>1. \A m, k \in Nat : m < k => <<m, k>> \in Less
    BY DEF OpToRel
  <2>2. IsWellFoundedOn(Less, Nat)
    BY NatLessThanWellFounded, Zenon
  <2>8. Bad \subseteq Nat
    BY <1>1
  <2> HIDE DEF Less, Bad
  <2>3. PICK m \in Bad : \A k \in Bad : ~(<<k, m>> \in Less)
    BY <2>2, <2>8, WFMin
  <2>9. \A k \in Bad : ~(k < m)
    BY <2>1, <2>3, <2>8
  <2>4. m \in 0..n /\ ~StandsFor(Scans[m], Nests[m])
        /\ \A k \in 0..n : k < m => StandsFor(Scans[k], Nests[k])
    BY <2>3, <2>9 DEF Bad
  <2>5. /\ Scans[m] = IF m = 0 THEN r ELSE ScanToken(Scans[m - 1], line[m], ML(m))
        /\ Nests[m] = IF m = 0 THEN s ELSE Nest(Nests[m - 1], line[m], ML(m))
    BY <1>4, <1>5, <2>4
  <2>6. CASE m = 0
    BY <2>4, <2>5, <2>6
  <2>7. CASE m # 0
    <3>1. m - 1 \in 0..n /\ m - 1 < m
      BY <1>1, <2>4, <2>7
    <3>2. StandsFor(Scans[m - 1], Nests[m - 1])
      BY <2>4, <3>1
    <3> QED BY <1>2, <2>4, <2>5, <2>7, <3>2, TokenRead
  <2> QED BY <2>6, <2>7
<1> QED BY <1>7, <1>8

(* The registers that stand for the stack tell its regions apart. *)
LEMMA ScanInvIsEnough == ScanInv => ScannerIsPushdown
<1> SUFFICES ASSUME ScanInv PROVE ScannerIsPushdown
  OBVIOUS
<1>1. /\ scan.state \in Brackets \cup {"text"} /\ scan.depth \in Nat /\ scan.resumeDepth \in Nat
      /\ scan.resume \in {"text", "string", "term"}
      /\ stack \in Seq(Brackets) /\ Len(stack) = Around(scan) + Inside(scan)
  BY DEF ScanInv, StandsFor, Registers
<1>2. Around(scan) \in Nat /\ Inside(scan) \in Nat /\ (Inside(scan) = 0 <=> scan.state = "text")
  BY <1>1 DEF ScanInv, StandsFor, Around, Inside, Brackets
<1>3. (stack = <<>> <=> Len(stack) = 0) /\ DOMAIN stack = 1..Len(stack) /\ Len(stack) \in Nat
  BY <1>1, EmptySeq, LenProperties
<1>4. scan.state = "text" <=> stack = <<>>
  <2>1. scan.state = "text" => Around(scan) = 0
    BY DEF Around
  <2> QED BY <1>1, <1>2, <1>3, <2>1
<1>5. scan.state \in NoiseStates <=> \E k \in DOMAIN stack : stack[k] \in NoiseStates
  <2>1. ASSUME scan.state \in NoiseStates PROVE \E k \in DOMAIN stack : stack[k] \in NoiseStates
    <3>1. scan.state # "text"
      BY <2>1 DEF NoiseStates
    <3>2. Len(stack) \in (Around(scan) + 1)..Len(stack) /\ Len(stack) \in DOMAIN stack
      <4>1. Inside(scan) > 0 /\ Len(stack) = Around(scan) + Inside(scan)
        BY <1>1, <1>2, <3>1
      <4> QED BY <1>2, <1>3, <4>1
    <3>3. stack[Len(stack)] = scan.state
      BY <3>2 DEF ScanInv, StandsFor
    <3> QED BY <2>1, <3>2, <3>3
  <2>2. ASSUME NEW k \in DOMAIN stack, stack[k] \in NoiseStates PROVE scan.state \in NoiseStates
    <3>1. CASE k <= Around(scan)
      <4>1. stack[k] = scan.resume
        BY <1>2, <1>3, <3>1 DEF ScanInv, StandsFor
      <4> QED BY <1>1, <2>2, <4>1 DEF NoiseStates
    <3>2. CASE k > Around(scan)
      <4>1. stack[k] = scan.state
        BY <1>2, <1>3, <3>2 DEF ScanInv, StandsFor
      <4> QED BY <2>2, <4>1
    <3> QED BY <1>2, <1>3, <3>1, <3>2
  <2> QED BY <2>1, <2>2
<1> QED BY <1>4, <1>5 DEF ScannerIsPushdown

(* The four registers are enough, for a theory of any length over any       *)
(* tokens and however deep its terms, comments and notes nest.              *)
THEOREM Scanner ==
  ASSUME NEW CONSTANT Tokens
  PROVE  RegionSpec(Tokens) => []ScannerIsPushdown
<1>1. RegionInit => ScanInv
  BY NothingOpen DEF RegionInit, ScanInv
<1>2. ScanInv /\ [\E line \in Seq(Tokens) : ReadLine(line)]_regionVars => ScanInv'
  <2>1. ASSUME ScanInv, NEW line \in Seq(Tokens), ReadLine(line) PROVE ScanInv'
    <3>1. /\ scan' = Last(Trace(ScanToken, scan, doc, line))
          /\ stack' = Last(Trace(Nest, stack, doc, line))
      BY <2>1 DEF ReadLine
    <3> QED BY <2>1, <3>1, LineRead DEF ScanInv
  <2>2. ASSUME ScanInv, UNCHANGED regionVars PROVE ScanInv'
    BY <2>2 DEF regionVars, ScanInv
  <2> QED BY <2>1, <2>2
<1>3. ScanInv => ScannerIsPushdown
  BY ScanInvIsEnough
<1> QED BY <1>1, <1>2, <1>3, PTL DEF RegionSpec

-----------------------------------------------------------------------------
(***************************************************************************)
(* Visibility: the breadth-first walk over theory names against the files  *)
(* a file imports, for corpora of any size and any import graph.           *)
(***************************************************************************)
(* A set of numbers has a least one. *)
LEMMA LeastIs ==
  ASSUME NEW S, S \subseteq Nat, S # {}
  PROVE  \E m \in S : \A k \in S : m <= k
<1> DEFINE Less == OpToRel(<, Nat)
<1>1. \A m, k \in Nat : m < k => <<m, k>> \in Less
  BY DEF OpToRel
<1>2. IsWellFoundedOn(Less, Nat)
  BY NatLessThanWellFounded, Zenon
<1> HIDE DEF Less
<1>3. PICK m \in S : \A k \in S : ~(<<k, m>> \in Less)
  BY <1>2, WFMin
<1>4. \A k \in S : ~(k < m)
  BY <1>1, <1>3
<1>5. S \subseteq Nat
  OBVIOUS
<1> QED BY <1>4, <1>5

(* What holds of 0 and is handed on holds up to n. *)
LEMMA UpTo ==
  ASSUME NEW n \in Nat, NEW P, 0 \in P, \A k \in 1..n : k - 1 \in P => k \in P
  PROVE  \A k \in 0..n : k \in P
<1> DEFINE Bad == (0..n) \ P
<1> SUFFICES ASSUME Bad # {} PROVE FALSE
  OBVIOUS
<1>1. Bad \subseteq Nat
  OBVIOUS
<1>2. PICK m \in Bad : \A k \in Bad : m <= k
  BY <1>1, LeastIs
<1>3. m # 0 /\ m \in 1..n /\ m - 1 \in 0..n /\ ~(m <= m - 1)
  BY <1>2
<1> QED BY <1>2, <1>3

(* Sets that grow within a finite one stop growing. *)
LEMMA GrowthEnds ==
  ASSUME NEW G, IsFiniteSet(G), NEW n \in Nat, NEW S \in [0..n -> SUBSET G],
         \A k \in 1..n : S[k - 1] \subseteq S[k],
         Cardinality(G) < Cardinality(S[0]) + n
  PROVE  \E k \in 1..n : S[k] = S[k - 1]
<1> SUFFICES ASSUME \A k \in 1..n : S[k] # S[k - 1] PROVE FALSE
  OBVIOUS
<1>1. \A k \in 0..n : S[k] \in SUBSET G /\ IsFiniteSet(S[k]) /\ Cardinality(S[k]) \in Nat
  BY FS_Subset, FS_CardinalityType
<1> DEFINE P == {k \in 0..n : Cardinality(S[k]) >= Cardinality(S[0]) + k}
<1>2. 0 \in P
  BY <1>1
<1>3. ASSUME NEW k \in 1..n, k - 1 \in P PROVE k \in P
  <2>1. k \in 0..n /\ k - 1 \in 0..n
    OBVIOUS
  <2>2. S[k - 1] \in SUBSET S[k] /\ IsFiniteSet(S[k]) /\ S[k] # S[k - 1]
    BY <1>1, <2>1
  <2>3. Cardinality(S[k - 1]) <= Cardinality(S[k]) /\ Cardinality(S[k - 1]) # Cardinality(S[k])
    BY <2>2, FS_Subset
  <2>4. Cardinality(S[k - 1]) \in Nat /\ Cardinality(S[k]) \in Nat /\ Cardinality(S[0]) \in Nat
    BY <1>1, <2>1
  <2> QED BY <1>3, <2>1, <2>3, <2>4
<1>4. n \in P
  <2> HIDE DEF P
  <2>1. \A k \in 0..n : k \in P
    BY <1>2, <1>3, UpTo
  <2> QED BY <2>1
<1>5. Cardinality(S[n]) <= Cardinality(G) /\ Cardinality(G) \in Nat
  BY <1>1, FS_Subset, FS_CardinalityType
<1> QED BY <1>1, <1>4, <1>5

-----------------------------------------------------------------------------
(* The breadth-first walk, ring by ring. *)
Widen(nb, r) ==
  [seen |-> r.seen \cup (r.frontier \ r.seen), frontier |-> UNION {nb[x] : x \in r.frontier \ r.seen}]
Rings(G, nb, seeds, n, R) ==
  /\ R \in [0..n -> [seen : SUBSET G, frontier : SUBSET G]]
  /\ R[0] = [seen |-> {}, frontier |-> seeds]
  /\ \A k \in 1..n : R[k] = Widen(nb, R[k - 1])
FirstRing(R, n, x) ==
  CHOOSE k \in 0..n : x \in R[k].frontier /\ \A j \in 0..(k - 1) : x \notin R[j].frontier

LEMMA WalkIs ==
  ASSUME NEW G, IsFiniteSet(G), NEW nb \in [G -> SUBSET G], NEW seeds \in SUBSET G, NEW sd \in Int,
         NEW n, n = Cardinality(G) + 1
  PROVE  \E R : /\ Rings(G, nb, seeds, n, R)
                /\ BfsDepths(nb, seeds, sd) = [x \in R[n].seen |-> sd + FirstRing(R, n, x)]
<1> DEFINE D == [seen : SUBSET G, frontier : SUBSET G]
           start == [seen |-> {}, frontier |-> seeds]
           IsRing(f) == f = [k \in 0..n |->
             IF k = 0 THEN [seen |-> {}, frontier |-> seeds]
             ELSE [seen |-> f[k - 1].seen \cup (f[k - 1].frontier \ f[k - 1].seen),
                   frontier |-> UNION {nb[x] : x \in f[k - 1].frontier \ f[k - 1].seen}]]
           R == CHOOSE f : IsRing(f)
<1>1. n \in Nat \ {0} /\ DOMAIN nb = G
  BY FS_CardinalityType
<1>2. start \in D /\ \A r \in D : Widen(nb, r) \in D
  BY DEF Widen
<1>3. \E f : IsRing(f)
  <2> DEFINE g == [kr \in (1..n) \X D |-> Widen(nb, kr[2])]
  <2>1. g \in [(1..n) \X D -> D] /\ \A k \in 1..n : \A r \in D : g[<<k, r>>] = Widen(nb, r)
    BY <1>2
  <2> HIDE DEF D, start, g
  <2>2. PICK f : FoldsTo(n, D, start, g, f)
    BY <1>1, <1>2, <2>1, FoldExists
  <2>3. ASSUME NEW k \in 0..n, k # 0 PROVE f[k] = Widen(nb, f[k - 1])
    <3>1. k \in 1..n /\ k - 1 \in 0..n
      BY <1>1, <2>3
    <3> QED BY <2>1, <2>2, <3>1 DEF FoldsTo
  <2>4. f = [k \in 0..n |-> f[k]] /\ f[0] = start
    BY <2>2 DEF FoldsTo
  <2>5. IsRing(f)
    BY <2>3, <2>4 DEF Widen, start
  <2> QED BY <2>5
<1>4. IsRing(R)
  BY <1>3
<1>5. BfsDepths(nb, seeds, sd) = [x \in R[n].seen |-> sd + FirstRing(R, n, x)]
  BY <1>1 DEF BfsDepths, FirstRing
<1> HIDE DEF R
<1>6. R[0] = start /\ \A k \in 1..n : R[k] = Widen(nb, R[k - 1])
  <2>1. \A k \in 0..n : R[k] = IF k = 0 THEN start ELSE Widen(nb, R[k - 1])
    BY <1>4 DEF Widen
  <2>2. 0 \in 0..n /\ \A k \in 1..n : k \in 0..n /\ k # 0
    BY <1>1
  <2> QED BY <2>1, <2>2
<1>7. \A k \in 0..n : R[k] \in D
  <2> DEFINE P == {k \in 0..n : R[k] \in D}
  <2>1. 0 \in P
    BY <1>1, <1>2, <1>6
  <2>2. \A k \in 1..n : k - 1 \in P => k \in P
    BY <1>2, <1>6
  <2> HIDE DEF P
  <2>3. \A k \in 0..n : k \in P
    BY <1>1, <2>1, <2>2, UpTo
  <2> QED BY <2>3 DEF P
<1>8. R = [k \in 0..n |-> R[k]]
  BY <1>4
<1>9. R \in [0..n -> D]
  BY <1>7, <1>8
<1> QED BY <1>5, <1>6, <1>9 DEF Rings

(* Ring by ring: what is seen is what was in an earlier frontier.            *)
Spreads(G, nb, seeds, n, R) ==
  /\ R[0].seen = {} /\ R[0].frontier = seeds
  /\ \A k \in 0..n : R[k].seen \in SUBSET G /\ R[k].frontier \in SUBSET G
  /\ \A k \in 1..n : /\ R[k].seen = R[k - 1].seen \cup R[k - 1].frontier
                     /\ R[k].frontier = UNION {nb[x] : x \in R[k - 1].frontier \ R[k - 1].seen}
  /\ \A k \in 0..n : \A x : x \in R[k].seen <=> \E j \in 0..(k - 1) : x \in R[j].frontier

LEMMA RingsAre ==
  ASSUME NEW G, NEW nb \in [G -> SUBSET G], NEW seeds \in SUBSET G,
         NEW n \in Nat, NEW R, Rings(G, nb, seeds, n, R)
  PROVE  Spreads(G, nb, seeds, n, R)
<1>1. R[0].seen = {} /\ R[0].frontier = seeds
  BY DEF Rings
<1>2. ASSUME NEW k \in 0..n PROVE R[k].seen \in SUBSET G /\ R[k].frontier \in SUBSET G
  <2>1. R[k] \in [seen : SUBSET G, frontier : SUBSET G]
    BY DEF Rings
  <2> QED BY <2>1
<1>3. ASSUME NEW k \in 1..n
      PROVE  /\ R[k].seen = R[k - 1].seen \cup R[k - 1].frontier
             /\ R[k].frontier = UNION {nb[x] : x \in R[k - 1].frontier \ R[k - 1].seen}
  <2>1. R[k] = Widen(nb, R[k - 1])
    BY DEF Rings
  <2> QED BY <2>1 DEF Widen
<1>4. \A k \in 0..n : \A x : x \in R[k].seen <=> \E j \in 0..(k - 1) : x \in R[j].frontier
  <2> DEFINE P == {k \in 0..n : \A x : x \in R[k].seen <=> \E j \in 0..(k - 1) : x \in R[j].frontier}
  <2>1. 0 \in P
    BY <1>1
  <2>2. ASSUME NEW k \in 1..n, k - 1 \in P PROVE k \in P
    <3>1. k \in 0..n /\ k - 1 \in 0..(k - 1) /\ \A j \in 0..(k - 1) : j = k - 1 \/ j \in 0..((k - 1) - 1)
      OBVIOUS
    <3>2. \A j \in 0..((k - 1) - 1) : j \in 0..(k - 1)
      OBVIOUS
    <3>3. \A x : x \in R[k].seen <=> x \in R[k - 1].seen \/ x \in R[k - 1].frontier
      BY <1>3
    <3>4. \A x : x \in R[k].seen <=> \E j \in 0..(k - 1) : x \in R[j].frontier
      BY <2>2, <3>1, <3>2, <3>3
    <3> QED BY <3>1, <3>4
  <2> HIDE DEF P
  <2>3. \A k \in 0..n : k \in P
    BY <2>1, <2>2, UpTo
  <2> QED BY <2>3 DEF P
<1> QED BY <1>1, <1>2, <1>3, <1>4 DEF Spreads

(* More rings than there are nodes: the last has nothing left to visit.     *)
LEMMA LastRing ==
  ASSUME NEW G, IsFiniteSet(G), NEW nb \in [G -> SUBSET G], NEW seeds \in SUBSET G,
         NEW n, n = Cardinality(G) + 1, NEW R, Rings(G, nb, seeds, n, R)
  PROVE  R[n].frontier = {}
<1>1. n \in Nat \ {0} /\ Cardinality(G) \in Nat
  BY FS_CardinalityType
<1>2. /\ R[0].seen = {}
      /\ \A k \in 0..n : R[k].seen \in SUBSET G /\ R[k].frontier \in SUBSET G
      /\ \A k \in 1..n : /\ R[k].seen = R[k - 1].seen \cup R[k - 1].frontier
                         /\ R[k].frontier = UNION {nb[x] : x \in R[k - 1].frontier \ R[k - 1].seen}
  <2>1. n \in Nat
    BY <1>1
  <2>2. Spreads(G, nb, seeds, n, R)
    BY <2>1, RingsAre
  <2> QED BY <2>2 DEF Spreads
<1>3. n \in 0..n /\ 0 \in 0..n /\ \A k \in 1..n : k - 1 \in 0..n /\ k \in 0..n
  BY <1>1
<1> DEFINE S == [k \in 0..n |-> R[k].seen]
<1>4. S \in [0..n -> SUBSET G] /\ S[0] = {} /\ \A k \in 0..n : S[k] = R[k].seen
  BY <1>2, <1>3
<1> HIDE DEF S
<1>5. \A k \in 1..n : S[k - 1] \subseteq S[k]
  BY <1>2, <1>3, <1>4
<1>6. Cardinality(G) < Cardinality(S[0]) + n
  BY <1>1, <1>4, FS_EmptySet
<1>7. PICK k \in 1..n : S[k] = S[k - 1]
  <2>1. n \in Nat
    BY <1>1
  <2>2. S \in [0..n -> SUBSET G]
    BY <1>4
  <2>3. \A b, f : b \in Nat /\ f \in [0..b -> SUBSET G] /\ (\A k \in 1..b : f[k - 1] \subseteq f[k])
                 /\ Cardinality(G) < Cardinality(f[0]) + b => \E k \in 1..b : f[k] = f[k - 1]
    BY GrowthEnds
  <2> HIDE DEF Rings
  <2>4. \E k \in 1..n : S[k] = S[k - 1]
    BY <1>5, <1>6, <2>1, <2>2, <2>3, Zenon
  <2> QED BY <2>4
<1>8. R[k - 1].frontier \subseteq R[k - 1].seen
  <2>1. k - 1 \in 0..n /\ k \in 0..n
    BY <1>3
  <2>2. S[k] = R[k].seen /\ S[k - 1] = R[k - 1].seen
    BY <1>4, <2>1
  <2>3. R[k].seen = R[k - 1].seen \cup R[k - 1].frontier
    BY <1>2
  <2> QED BY <1>7, <2>2, <2>3
<1> DEFINE P == {j \in 0..n : j >= k => R[j].frontier = {}}
<1>9. 0 \in P
  BY <1>3
<1>10. ASSUME NEW j \in 1..n, j - 1 \in P PROVE j \in P
  <2>1. ASSUME j >= k PROVE R[j].frontier = {}
    <3>1. R[j - 1].frontier \subseteq R[j - 1].seen
      <4>1. CASE j = k
        BY <1>8, <4>1
      <4>2. CASE j # k
        <5>1. j - 1 >= k
          BY <2>1, <4>2
        <5> QED BY <1>10, <5>1
      <4> QED BY <4>1, <4>2
    <3> QED BY <1>2, <3>1
  <2> QED BY <1>3, <2>1
<1> HIDE DEF P
<1>11. n \in P
  BY <1>1, <1>3, <1>9, <1>10, UpTo
<1> QED BY <1>1, <1>11 DEF P

(* Each member is at the first ring that has it in its frontier.            *)
LEMMA FirstRingIs ==
  ASSUME NEW n \in Nat, NEW R, NEW x, NEW k \in 0..n, x \in R[k].frontier
  PROVE  /\ FirstRing(R, n, x) \in 0..n /\ x \in R[FirstRing(R, n, x)].frontier
         /\ \A j \in 0..(FirstRing(R, n, x) - 1) : x \notin R[j].frontier
<1> DEFINE At == {j \in 0..n : x \in R[j].frontier}
<1>1. At # {} /\ At \subseteq Nat
  OBVIOUS
<1>2. PICK m \in At : \A j \in At : m <= j
  BY <1>1, LeastIs
<1>3. m \in 0..n /\ x \in R[m].frontier /\ \A j \in 0..(m - 1) : x \notin R[j].frontier
  <2>1. ASSUME NEW j \in 0..(m - 1), x \in R[j].frontier PROVE FALSE
    <3>1. j \in At /\ ~(m <= j)
      BY <1>2, <2>1
    <3> QED BY <1>2, <3>1
  <2> QED BY <1>2, <2>1
<1> QED BY <1>3 DEF FirstRing

(* What the walk reaches: the least set with the seeds that is closed, each  *)
(* member at a depth of its own.                                           *)
Reached(G, nb, seeds, sd, d) ==
  /\ DOMAIN d \in SUBSET G /\ seeds \subseteq DOMAIN d
  /\ \A x \in DOMAIN d : nb[x] \subseteq DOMAIN d
  /\ \A T : seeds \subseteq T /\ (\A x \in T \cap G : nb[x] \subseteq T) => DOMAIN d \subseteq T
  /\ d = [x \in DOMAIN d |-> d[x]] /\ \A x \in DOMAIN d : d[x] \in Int /\ d[x] >= sd

LEMMA WalkReaches ==
  ASSUME NEW G, IsFiniteSet(G), NEW nb \in [G -> SUBSET G], NEW seeds \in SUBSET G, NEW sd \in Int,
         NEW d, d = BfsDepths(nb, seeds, sd)
  PROVE  Reached(G, nb, seeds, sd, d)
<1> DEFINE n == Cardinality(G) + 1
<1>1. n \in Nat \ {0} /\ Cardinality(G) \in Nat
  BY FS_CardinalityType
<1>2. PICK R : Rings(G, nb, seeds, n, R) /\ d = [x \in R[n].seen |-> sd + FirstRing(R, n, x)]
  BY WalkIs
<1>3. /\ R[0].seen = {} /\ R[0].frontier = seeds
      /\ \A k \in 0..n : R[k].seen \in SUBSET G /\ R[k].frontier \in SUBSET G
      /\ \A k \in 1..n : /\ R[k].seen = R[k - 1].seen \cup R[k - 1].frontier
                         /\ R[k].frontier = UNION {nb[x] : x \in R[k - 1].frontier \ R[k - 1].seen}
      /\ \A k \in 0..n : \A x : x \in R[k].seen <=> \E j \in 0..(k - 1) : x \in R[j].frontier
  <2> HIDE DEF n
  <2>1. n \in Nat
    BY <1>1
  <2>2. Spreads(G, nb, seeds, n, R)
    BY <1>2, <2>1, RingsAre
  <2> QED BY <2>2 DEF Spreads
<1>7. R[n].frontier = {}
  BY <1>2, LastRing
<1> HIDE DEF n
<1>4. DOMAIN d = R[n].seen /\ n \in 0..n /\ 0 \in 0..n
  BY <1>1, <1>2
<1>5. \A k \in 1..n : k - 1 \in 0..n /\ k \in 0..n
  BY <1>1
<1>6. \A k \in 0..n : /\ seeds \subseteq R[k].seen \cup R[k].frontier
                      /\ \A x \in R[k].seen : nb[x] \subseteq R[k].seen \cup R[k].frontier
  <2> DEFINE P == {k \in 0..n : /\ seeds \subseteq R[k].seen \cup R[k].frontier
                                /\ \A x \in R[k].seen : nb[x] \subseteq R[k].seen \cup R[k].frontier}
  <2>1. 0 \in P
    BY <1>3, <1>4
  <2>2. ASSUME NEW k \in 1..n, k - 1 \in P PROVE k \in P
    <3>1. ASSUME NEW x \in R[k].seen PROVE nb[x] \subseteq R[k].seen \cup R[k].frontier
      <4>1. CASE x \in R[k - 1].seen
        BY <1>3, <2>2, <4>1
      <4>2. CASE x \notin R[k - 1].seen
        BY <1>3, <3>1, <4>2
      <4> QED BY <4>1, <4>2
    <3>2. seeds \subseteq R[k].seen
      BY <1>3, <2>2
    <3> QED BY <1>5, <3>1, <3>2
  <2> HIDE DEF P
  <2>3. \A k \in 0..n : k \in P
    BY <1>1, <2>1, <2>2, UpTo
  <2> QED BY <2>3 DEF P
<1>8. ASSUME NEW T, seeds \subseteq T, \A x \in T \cap G : nb[x] \subseteq T PROVE R[n].seen \subseteq T
  <2> DEFINE P == {k \in 0..n : R[k].seen \subseteq T /\ R[k].frontier \subseteq T}
  <2>1. 0 \in P
    BY <1>3, <1>4, <1>8
  <2>2. ASSUME NEW k \in 1..n, k - 1 \in P PROVE k \in P
    <3>1. R[k].seen \subseteq T
      BY <1>3, <2>2
    <3>2. \A x \in R[k - 1].frontier : x \in G /\ nb[x] \subseteq T
      BY <1>3, <1>5, <1>8, <2>2
    <3>3. R[k].frontier \subseteq T
      BY <1>3, <3>2
    <3> QED BY <1>5, <3>1, <3>3
  <2> HIDE DEF P
  <2>3. n \in P
    BY <1>1, <1>4, <2>1, <2>2, UpTo
  <2> QED BY <2>3 DEF P
<1>9. ASSUME NEW x \in R[n].seen PROVE FirstRing(R, n, x) \in 0..n
  <2>1. PICK k \in 0..(n - 1) : x \in R[k].frontier
    BY <1>3, <1>4, <1>9
  <2>2. n \in Nat /\ k \in 0..n
    BY <1>1
  <2> QED BY <2>1, <2>2, FirstRingIs
<1>10. d = [x \in DOMAIN d |-> d[x]] /\ \A x \in DOMAIN d : d[x] \in Int /\ d[x] >= sd
  <2>1. \A x \in R[n].seen : sd + FirstRing(R, n, x) \in Int /\ sd + FirstRing(R, n, x) >= sd
    BY <1>1, <1>9
  <2> QED BY <1>2, <2>1
<1>11. seeds \subseteq DOMAIN d /\ \A x \in DOMAIN d : nb[x] \subseteq DOMAIN d
  BY <1>4, <1>6, <1>7
<1> QED BY <1>3, <1>4, <1>8, <1>10, <1>11 DEF Reached

-----------------------------------------------------------------------------
(* What a corpus is made of is finite. *)
LEMMA CorpusIs ==
  ASSUME NEW secs, IsCorpus(secs)
  PROVE  /\ Len(secs) \in Nat /\ DOMAIN secs = 1..Len(secs)
         /\ IsFiniteSet(DOMAIN secs) /\ Cardinality(DOMAIN secs) = Len(secs)
         /\ IsFiniteSet(Names(secs))
<1>1. Len(secs) \in Nat /\ DOMAIN secs = 1..Len(secs)
  <2>1. secs \in Seq(Range(secs))
    BY DEF IsCorpus, IsSequence
  <2> QED BY <2>1, LenProperties
<1>2. IsFiniteSet(DOMAIN secs) /\ Cardinality(DOMAIN secs) = Len(secs)
  <2>1. /\ IsFiniteSet(1..Len(secs))
        /\ Cardinality(1..Len(secs)) = IF 1 > Len(secs) THEN 0 ELSE Len(secs) - 1 + 1
    BY SMTT(20), <1>1, FS_Interval
  <2> QED BY <1>1, <2>1
<1>3. IsFiniteSet(Names(secs))
  <2> DEFINE f == [i \in DOMAIN secs |-> secs[i].name]
  <2>1. f \in Surjection(DOMAIN secs, Names(secs))
    BY DEF Names, Surjection
  <2> QED BY <1>2, <2>1, FS_Surjection
<1> QED BY <1>1, <1>2, <1>3

LEMMA CandidatesAre ==
  ASSUME NEW token, NEW names
  PROVE  ImportCandidates(token, names) \subseteq names
BY DEF ImportCandidates, LeafIndex

(* The headers of one name, if all can be read. *)
LEMMA ImportsRead ==
  ASSUME NEW secs, IsCorpus(secs), NEW x
  PROVE  /\ (\A i \in DOMAIN secs : secs[i].name = x => secs[i].readable) =>
              ReadImports(secs, x) # Unknown
         /\ ReadImports(secs, x) # Unknown =>
              /\ ReadImports(secs, x) \subseteq Names(secs)
              /\ \A i \in DOMAIN secs : secs[i].name = x =>
                   /\ secs[i].readable
                   /\ \A t \in secs[i].imports : ImportCandidates(t, Names(secs)) \subseteq ReadImports(secs, x)
              /\ \A y \in ReadImports(secs, x) : \E i \in DOMAIN secs :
                   secs[i].name = x /\ \E t \in secs[i].imports : y \in ImportCandidates(t, Names(secs))
<1> DEFINE all == UNION {ImportCandidates(t, Names(secs)) : t \in UNION {secs[i].imports : i \in SectionsOf(secs, x)}}
<1>1. all \subseteq Names(secs)
  BY CandidatesAre
<1>2. all # Unknown
  BY <1>1 DEF IsCorpus
<1>3. ReadImports(secs, x) = IF \E i \in SectionsOf(secs, x) : ~secs[i].readable THEN Unknown ELSE all
  BY DEF ReadImports
<1>4. CASE \E i \in SectionsOf(secs, x) : ~secs[i].readable
  BY <1>3, <1>4 DEF SectionsOf
<1>5. CASE \A i \in SectionsOf(secs, x) : secs[i].readable
  <2>1. ReadImports(secs, x) = all
    BY <1>3, <1>5
  <2>2. \A i \in DOMAIN secs : secs[i].name = x => i \in SectionsOf(secs, x)
    BY DEF SectionsOf
  <2>3. \A y \in all : \E i \in DOMAIN secs :
           secs[i].name = x /\ \E t \in secs[i].imports : y \in ImportCandidates(t, Names(secs))
    BY DEF SectionsOf
  <2>4. ASSUME NEW i \in DOMAIN secs, secs[i].name = x, NEW t \in secs[i].imports
        PROVE  ImportCandidates(t, Names(secs)) \subseteq all
    BY <2>2, <2>4
  <2> HIDE DEF all
  <2> QED BY <1>1, <1>2, <1>5, <2>1, <2>2, <2>3, <2>4
<1> QED BY <1>4, <1>5

(* The closure a theory sees: known if what it reaches can be read, and then *)
(* the least set with the theory that is closed under imports.             *)
LEMMA DepthsAre ==
  ASSUME NEW secs, IsCorpus(secs), NEW t \in Names(secs), NEW d, d = Depths(secs, t)
  PROVE  /\ (\A i \in DOMAIN secs : secs[i].readable) => d # Unknown
         /\ d = Unknown \/
              /\ t \in DOMAIN d /\ DOMAIN d \subseteq Names(secs)
              /\ \A x \in DOMAIN d : ReadImports(secs, x) # Unknown /\ ReadImports(secs, x) \subseteq DOMAIN d
              /\ \A T : t \in T /\ (\A x \in T \cap Names(secs) : ReadImports(secs, x) = Unknown \/ ReadImports(secs, x) \subseteq T)
                   => DOMAIN d \subseteq T
<1> DEFINE V == Names(secs)
           adj == [x \in V |-> IF ReadImports(secs, x) = Unknown THEN {} ELSE ReadImports(secs, x)]
           b == BfsDepths(adj, {t}, 0)
<1>1. IsFiniteSet(V)
  BY CorpusIs
<1>2. adj \in [V -> SUBSET V]
  BY ImportsRead
<1>3. d = IF \E x \in DOMAIN b : ReadImports(secs, x) = Unknown THEN Unknown ELSE b
  BY DEF Depths
<1>4. \A x \in V : adj[x] = IF ReadImports(secs, x) = Unknown THEN {} ELSE ReadImports(secs, x)
  OBVIOUS
<1>5. {t} \in SUBSET V
  OBVIOUS
<1> HIDE DEF V, adj, b
<1>6. /\ DOMAIN b \in SUBSET V /\ {t} \subseteq DOMAIN b
      /\ \A x \in DOMAIN b : adj[x] \subseteq DOMAIN b
      /\ \A T : {t} \subseteq T /\ (\A x \in T \cap V : adj[x] \subseteq T) => DOMAIN b \subseteq T
      /\ b \in [DOMAIN b -> Nat]
  <2>1. b = BfsDepths(adj, {t}, 0)
    BY DEF b
  <2>2. PICK seeds, sd : seeds = {t} /\ sd = 0
    OBVIOUS
  <2>3. seeds \in SUBSET V /\ sd \in Int /\ b = BfsDepths(adj, seeds, sd)
    BY <1>5, <2>1, <2>2
  <2>4. Reached(V, adj, seeds, sd, b)
    BY <1>1, <1>2, <2>3, WalkReaches
  <2> QED BY <2>2, <2>4 DEF Reached
<1>7. b # Unknown
  BY <1>6 DEF IsCorpus, V
<1>8. (\A i \in DOMAIN secs : secs[i].readable) => d # Unknown
  BY <1>3, <1>7, ImportsRead
<1>9. ASSUME d # Unknown
      PROVE  /\ t \in DOMAIN d /\ DOMAIN d \subseteq V
             /\ \A x \in DOMAIN d : ReadImports(secs, x) # Unknown /\ ReadImports(secs, x) \subseteq DOMAIN d
             /\ \A T : t \in T /\ (\A x \in T \cap V : ReadImports(secs, x) = Unknown \/ ReadImports(secs, x) \subseteq T)
                  => DOMAIN d \subseteq T
  <2>1. d = b /\ \A x \in DOMAIN b : ReadImports(secs, x) # Unknown
    BY <1>3, <1>9
  <2>2. \A x \in DOMAIN b : ReadImports(secs, x) \subseteq DOMAIN b
    BY <1>4, <1>6, <2>1
  <2>3. ASSUME NEW T, t \in T, \A x \in T \cap V : ReadImports(secs, x) = Unknown \/ ReadImports(secs, x) \subseteq T
        PROVE  DOMAIN b \subseteq T
    <3>1. \A x \in T \cap V : adj[x] \subseteq T
      BY <1>4, <2>3
    <3> QED BY <1>6, <2>3, <3>1
  <2> QED BY <1>6, <2>1, <2>2, <2>3
<1> QED BY <1>8, <1>9 DEF V

(* The files a file imports, ring by ring: the least set that is closed.    *)
LEMMA FilesUpAre ==
  ASSUME IsCorpus(sections), NEW i \in DOMAIN sections, NEW F, F = FilesUpFrom(i)
  PROVE  /\ i \in F /\ F \subseteq DOMAIN sections
         /\ \A j \in F : Imports(j) \subseteq F
         /\ \A T : i \in T /\ (\A j \in T \cap DOMAIN sections : Imports(j) \subseteq T) => F \subseteq T
<1> DEFINE G == DOMAIN sections
           n == Len(sections)
           Wider(x) == x \cup UNION {Imports(j) : j \in x}
           IsUp(f) == f = [k \in 0..n |->
             IF k = 0 THEN {i} ELSE f[k - 1] \cup UNION {Imports(j) : j \in f[k - 1]}]
           Up == CHOOSE f : IsUp(f)
<1>1. n \in Nat /\ G = 1..n /\ IsFiniteSet(G) /\ Cardinality(G) = n
  BY CorpusIs
<1>2. \A j : Imports(j) \in SUBSET G
  BY DEF Imports
<1>3. {i} \in SUBSET G /\ \A x \in SUBSET G : Wider(x) \in SUBSET G
  BY <1>2
<1>4. \E f : IsUp(f)
  <2> DEFINE g == [kx \in (1..n) \X SUBSET G |-> Wider(kx[2])]
  <2>1. g \in [(1..n) \X SUBSET G -> SUBSET G] /\ \A k \in 1..n : \A x \in SUBSET G : g[<<k, x>>] = Wider(x)
    BY <1>3
  <2> HIDE DEF G, n, Wider, g
  <2>2. PICK f : FoldsTo(n, SUBSET G, {i}, g, f)
    BY <1>1, <1>3, <2>1, FoldExists
  <2>3. ASSUME NEW k \in 0..n, k # 0 PROVE f[k] = Wider(f[k - 1])
    <3>1. k \in 1..n /\ k - 1 \in 0..n
      BY <1>1, <2>3
    <3> QED BY <2>1, <2>2, <3>1 DEF FoldsTo
  <2>4. f = [k \in 0..n |-> f[k]] /\ f[0] = {i}
    BY <2>2 DEF FoldsTo
  <2>5. IsUp(f)
    BY <2>3, <2>4 DEF Wider
  <2> QED BY <2>5
<1>5. IsUp(Up)
  BY <1>4
<1>6. F = Up[n]
  BY DEF FilesUpFrom
<1> HIDE DEF Up
<1>7. \A k \in 0..n : Up[k] = IF k = 0 THEN {i} ELSE Wider(Up[k - 1])
  BY <1>5
<1>8. Up[0] = {i} /\ \A k \in 1..n : Up[k] = Wider(Up[k - 1])
  <2>1. 0 \in 0..n /\ \A k \in 1..n : k \in 0..n /\ k # 0
    BY <1>1
  <2> HIDE DEF n, Wider
  <2> QED BY <1>7, <2>1
<1>9. Up = [k \in 0..n |-> Up[k]]
  BY <1>5
<1>10. \A k \in 1..n : Up[k - 1] \subseteq Up[k] /\ \A j \in Up[k - 1] : Imports(j) \subseteq Up[k]
  BY <1>8
<1>11. \A k \in 1..n : \A T : Up[k - 1] \subseteq T /\ (\A j \in Up[k - 1] : Imports(j) \subseteq T) => Up[k] \subseteq T
  BY <1>8
<1> HIDE DEF G, n, Wider, IsUp
<1>12. 0 \in 0..n /\ n \in 0..n /\ \A k \in 1..n : k \in 0..n /\ k - 1 \in 0..n
  BY <1>1
<1>13. \A k \in 0..n : i \in Up[k] /\ Up[k] \in SUBSET G
  <2> DEFINE P == {k \in 0..n : i \in Up[k] /\ Up[k] \in SUBSET G}
  <2>1. 0 \in P
    BY <1>3, <1>8, <1>12
  <2>2. \A k \in 1..n : k - 1 \in P => k \in P
    BY <1>3, <1>8, <1>10, <1>12
  <2> HIDE DEF P
  <2>3. \A k \in 0..n : k \in P
    BY <1>1, <2>1, <2>2, UpTo
  <2> QED BY <2>3 DEF P
<1>14. \A j \in Up[n] : Imports(j) \subseteq Up[n]
  <2>1. Up \in [0..n -> SUBSET G]
    BY <1>9, <1>13
  <2>2. Cardinality(G) < Cardinality(Up[0]) + n
    <3>1. Cardinality({i}) = 1
      BY FS_Singleton
    <3>2. Cardinality(G) = n /\ n \in Nat /\ Cardinality(Up[0]) = 1
      BY <1>1, <1>8, <3>1
    <3> QED BY <3>2
  <2>3. \A k \in 1..n : Up[k - 1] \subseteq Up[k]
    BY <1>10
  <2>4. PICK k \in 1..n : Up[k] = Up[k - 1]
    BY <1>1, <2>1, <2>2, <2>3, GrowthEnds
  <2> DEFINE P == {j \in 0..n : j >= k => Up[j] = Up[k]}
  <2>5. 0 \in P
    BY <1>12
  <2>6. ASSUME NEW j \in 1..n, j - 1 \in P PROVE j \in P
    <3>1. ASSUME j >= k PROVE Up[j] = Up[k]
      <4>1. CASE j = k
        BY <4>1
      <4>2. CASE j # k
        <5>1. Up[j - 1] = Up[k]
          BY <2>6, <3>1, <4>2
        <5> QED BY <1>8, <2>4, <5>1
      <4> QED BY <4>1, <4>2
    <3> QED BY <1>12, <3>1
  <2> HIDE DEF P
  <2>7. n \in P
    BY <1>1, <1>12, <2>5, <2>6, UpTo
  <2>8. Up[n] = Up[k]
    BY <1>1, <2>7 DEF P
  <2> QED BY <1>10, <2>4, <2>8
<1>15. ASSUME NEW T, i \in T, \A j \in T \cap G : Imports(j) \subseteq T PROVE Up[n] \subseteq T
  <2> DEFINE P == {k \in 0..n : Up[k] \subseteq T}
  <2>1. 0 \in P
    BY <1>8, <1>12, <1>15
  <2>2. ASSUME NEW k \in 1..n, k - 1 \in P PROVE k \in P
    <3>1. Up[k - 1] \subseteq T \cap G
      BY <1>12, <1>13, <2>2
    <3> QED BY <1>11, <1>12, <1>15, <3>1
  <2> HIDE DEF P
  <2>3. n \in P
    BY <1>1, <1>12, <2>1, <2>2, UpTo
  <2> QED BY <2>3 DEF P
<1> QED BY <1>6, <1>12, <1>13, <1>14, <1>15 DEF G

-----------------------------------------------------------------------------
(* Which theories a theory reaches are those of the files its file imports. *)
LEMMA SameClosure ==
  ASSUME IsCorpus(sections), NEW i \in DOMAIN sections,
         NEW d, d = Depths(sections, sections[i].name), NEW F, F = FilesUpFrom(i)
  PROVE  /\ F \subseteq DOMAIN sections
         /\ d # Unknown => \A j \in F : sections[j].name \in DOMAIN d
         /\ Separate => /\ d # Unknown
                        /\ \A x \in DOMAIN d : \E j \in F : sections[j].name = x
<1> DEFINE V == Names(sections)
<1>1. \A j \in DOMAIN sections : sections[j].name \in V
  BY DEF Names
<1>2. PICK t : t = sections[i].name
  OBVIOUS
<1>3. /\ (\A j \in DOMAIN sections : sections[j].readable) => d # Unknown
      /\ d = Unknown \/
           /\ t \in DOMAIN d /\ DOMAIN d \subseteq V
           /\ \A x \in DOMAIN d : ReadImports(sections, x) # Unknown /\ ReadImports(sections, x) \subseteq DOMAIN d
           /\ \A T : t \in T /\ (\A x \in T \cap V : ReadImports(sections, x) = Unknown \/ ReadImports(sections, x) \subseteq T)
                => DOMAIN d \subseteq T
  <2>1. t \in V /\ d = Depths(sections, t)
    BY <1>1, <1>2
  <2> QED BY <2>1, DepthsAre
<1>4. /\ i \in F /\ F \subseteq DOMAIN sections
      /\ \A j \in F : Imports(j) \subseteq F
      /\ \A T : i \in T /\ (\A j \in T \cap DOMAIN sections : Imports(j) \subseteq T) => F \subseteq T
  BY FilesUpAre
<1>5. \A x : ReadImports(sections, x) # Unknown =>
         /\ \A j \in DOMAIN sections : sections[j].name = x =>
              \A u \in sections[j].imports : ImportCandidates(u, V) \subseteq ReadImports(sections, x)
         /\ \A y \in ReadImports(sections, x) : \E j \in DOMAIN sections :
              sections[j].name = x /\ \E u \in sections[j].imports : y \in ImportCandidates(u, V)
  BY ImportsRead
<1>6. \A j, k : k \in Imports(j) <=>
         k \in DOMAIN sections /\ \E u \in sections[j].imports : sections[k].name \in ImportCandidates(u, V)
  BY DEF Imports
<1>7. \A u : ImportCandidates(u, V) \subseteq V
  BY CandidatesAre
<1>8. ASSUME d # Unknown PROVE \A j \in F : sections[j].name \in DOMAIN d
  <2> DEFINE T == {j \in DOMAIN sections : sections[j].name \in DOMAIN d}
  <2>1. i \in T
    BY <1>2, <1>3, <1>8
  <2>2. ASSUME NEW j \in T, NEW k \in Imports(j) PROVE k \in T
    <3>1. PICK u \in sections[j].imports : sections[k].name \in ImportCandidates(u, V)
      BY <1>6, <2>2
    <3>2. ReadImports(sections, sections[j].name) # Unknown
          /\ ReadImports(sections, sections[j].name) \subseteq DOMAIN d
      BY <1>3, <1>8, <2>2
    <3>3. sections[k].name \in ReadImports(sections, sections[j].name)
      BY <1>5, <2>2, <3>1, <3>2
    <3> QED BY <1>6, <2>2, <3>2, <3>3
  <2> HIDE DEF V
  <2>3. F \subseteq T
    <3> HIDE DEF T
    <3> QED BY <1>4, <2>1, <2>2
  <2> QED BY <2>3
<1>9. ASSUME Separate PROVE d # Unknown /\ \A x \in DOMAIN d : \E j \in F : sections[j].name = x
  <2> DEFINE T == {sections[j].name : j \in F}
  <2>1. d # Unknown
    BY <1>3, <1>9 DEF Separate, OwnNames
  <2>2. t \in T
    BY <1>2, <1>4
  <2>3. ASSUME NEW x \in T \cap V, ReadImports(sections, x) # Unknown, NEW y \in ReadImports(sections, x)
        PROVE  y \in T
    <3>1. PICK j \in F : sections[j].name = x
      BY <2>3
    <3>2. PICK k \in DOMAIN sections :
             sections[k].name = x /\ \E u \in sections[k].imports : y \in ImportCandidates(u, V)
      BY <1>5, <2>3
    <3>3. k = j
      BY <1>4, <1>9, <3>1, <3>2 DEF Separate, OwnNames
    <3>4. y \in V
      BY <1>7, <3>2
    <3>5. PICK m \in DOMAIN sections : sections[m].name = y
      BY <3>4 DEF Names
    <3>6. m \in Imports(j)
      BY <1>6, <3>2, <3>3, <3>5
    <3> QED BY <1>4, <3>1, <3>5, <3>6
  <2>4. DOMAIN d \subseteq T
    <3> HIDE DEF T, V
    <3> QED BY <1>3, <2>1, <2>2, <2>3
  <2> QED BY <2>1, <2>4
<1> QED BY <1>4, <1>8, <1>9

LEMMA DeclarationsAre ==
  ASSUME NEW d
  PROVE  d \in Declarations(sections, FALSE) <=>
           \E i \in DOMAIN sections : \E l \in DeclLines(sections[i]) :
             d = [sec |-> i, line |-> l, name |-> sections[i].lines[l].name,
                  private |-> sections[i].lines[l].private]
BY DEF Declarations

(* So what a theory sees is what the files it imports declare for export.   *)
LEMMA SeesIff ==
  ASSUME IsCorpus(sections), NEW i \in DOMAIN sections, NEW n
  PROVE  /\ Declares(i, n) \/ (\E j \in FilesUpFrom(i) : Exports(j, n)) =>
              Sees(sections, Declarations(sections, FALSE), sections[i].name, n)
         /\ Separate /\ n \in AllNames(sections)
              /\ Sees(sections, Declarations(sections, FALSE), sections[i].name, n) =>
              Declares(i, n) \/ \E j \in FilesUpFrom(i) : Exports(j, n)
<1> DEFINE decls == Declarations(sections, FALSE)
           mine == {d \in decls : d.name = n}
           public == {sections[d.sec].name : d \in {e \in mine : ~e.private}}
           reach == Depths(sections, sections[i].name)
<1>1. Sees(sections, decls, sections[i].name, n) <=>
        \/ mine = {}
        \/ \E d \in mine : sections[d.sec].name = sections[i].name
        \/ public # {} /\ reach = Unknown
        \/ reach # Unknown /\ public \cap DOMAIN reach # {}
  BY DEF Sees
<1>2. \A j \in DOMAIN sections : Declares(j, n) => \E d \in mine : d.sec = j
  <2>1. ASSUME NEW j \in DOMAIN sections, NEW l \in DeclLines(sections[j]), sections[j].lines[l].name = n
        PROVE  \E d \in mine : d.sec = j
    <3> DEFINE d == [sec |-> j, line |-> l, name |-> sections[j].lines[l].name,
                     private |-> sections[j].lines[l].private]
    <3>1. d \in decls
      BY DeclarationsAre
    <3>2. d.sec = j /\ d.name = n
      BY <2>1
    <3> HIDE DEF d
    <3> QED BY <3>1, <3>2
  <2> QED BY <2>1 DEF Declares
<1>3. \A j \in DOMAIN sections : Exports(j, n) => \E d \in mine : d.sec = j /\ ~d.private
  <2>1. ASSUME NEW j \in DOMAIN sections, NEW l \in DeclLines(sections[j]),
               sections[j].lines[l].name = n, ~sections[j].lines[l].private
        PROVE  \E d \in mine : d.sec = j /\ ~d.private
    <3> DEFINE d == [sec |-> j, line |-> l, name |-> sections[j].lines[l].name,
                     private |-> sections[j].lines[l].private]
    <3>1. d \in decls
      BY DeclarationsAre
    <3>2. d.sec = j /\ d.name = n /\ ~d.private
      BY <2>1
    <3> HIDE DEF d
    <3> QED BY <3>1, <3>2
  <2> QED BY <2>1 DEF Exports
<1>4. \A d \in mine : d.sec \in DOMAIN sections /\ Declares(d.sec, n) /\ (~d.private => Exports(d.sec, n))
  <2>1. ASSUME NEW d \in mine
        PROVE  d.sec \in DOMAIN sections /\ Declares(d.sec, n) /\ (~d.private => Exports(d.sec, n))
    <3> HIDE DEF decls
    <3>1. d \in decls /\ d.name = n
      BY <2>1
    <3>2. PICK j \in DOMAIN sections : \E l \in DeclLines(sections[j]) :
             d = [sec |-> j, line |-> l, name |-> sections[j].lines[l].name,
                  private |-> sections[j].lines[l].private]
      BY <3>1, DeclarationsAre DEF decls
    <3>3. PICK l \in DeclLines(sections[j]) :
             d = [sec |-> j, line |-> l, name |-> sections[j].lines[l].name,
                  private |-> sections[j].lines[l].private]
      BY <3>2
    <3>4. d.sec = j /\ sections[j].lines[l].name = n /\ d.private = sections[j].lines[l].private
      BY <3>1, <3>3
    <3> QED BY <3>3, <3>4 DEF Declares, Exports
  <2> QED BY <2>1
<1> DEFINE F == FilesUpFrom(i)
<1>5. /\ F \subseteq DOMAIN sections
      /\ reach # Unknown => \A j \in F : sections[j].name \in DOMAIN reach
      /\ Separate => /\ reach # Unknown
                     /\ \A x \in DOMAIN reach : \E j \in F : sections[j].name = x
  BY SameClosure
<1>6. \A x : x \in public <=> \E d \in mine : ~d.private /\ sections[d.sec].name = x
  OBVIOUS
<1>7. n \in AllNames(sections) => mine # {}
  <2>1. n \in AllNames(sections) => \E j \in DOMAIN sections : Declares(j, n)
    BY DEF AllNames, Declares
  <2> QED BY <1>2, <2>1
<1> HIDE DEF mine, public, reach, F
<1>8. ASSUME Declares(i, n) PROVE Sees(sections, decls, sections[i].name, n)
  BY <1>1, <1>2, <1>8
<1>9. ASSUME NEW j \in F, Exports(j, n) PROVE Sees(sections, decls, sections[i].name, n)
  <2>1. PICK d \in mine : d.sec = j /\ ~d.private
    BY <1>3, <1>5, <1>9
  <2>2. sections[j].name \in public
    BY <1>6, <2>1
  <2> QED BY <1>1, <1>5, <1>9, <2>2
<1>10. ASSUME Separate, n \in AllNames(sections), Sees(sections, decls, sections[i].name, n)
       PROVE  Declares(i, n) \/ \E j \in F : Exports(j, n)
  <2>1. CASE \E d \in mine : sections[d.sec].name = sections[i].name
    BY <1>4, <1>10, <2>1 DEF Separate, OwnNames
  <2>2. CASE public \cap DOMAIN reach # {}
    <3>1. PICK x \in DOMAIN reach, d \in mine : ~d.private /\ sections[d.sec].name = x
      BY <1>6, <2>2
    <3>2. PICK j \in F : sections[j].name = x
      BY <1>5, <1>10, <3>1
    <3>3. d.sec = j
      BY <1>4, <1>5, <1>10, <3>1, <3>2 DEF Separate, OwnNames
    <3> QED BY <1>4, <3>1, <3>3
  <2> QED BY <1>1, <1>5, <1>7, <1>10, <2>1, <2>2
<1> QED BY <1>8, <1>9, <1>10 DEF F

-----------------------------------------------------------------------------
(* The edges of the call graph are the uses a line's theory can see.        *)
LEMMA EdgesAre ==
  ASSUME NEW e
  PROVE  e \in CallGraph(sections, FALSE, TRUE) <=>
           \E i \in DOMAIN sections : \E l \in Lines(sections[i]) :
             \E c \in CallerOf(sections, i, l) :
             \E n \in UsedOn(sections[i].lines[l], AllNames(sections), FALSE) :
               /\ e = [caller |-> c, callee |-> n]
               /\ ~Noise(sections[i], l) /\ ~DefSite(sections[i], l, n, FALSE)
               /\ Sees(sections, Declarations(sections, FALSE), sections[i].name, n)
<1> DEFINE Edges(i, l) == LineEdges(sections, i, l, AllNames(sections), Declarations(sections, FALSE), FALSE, TRUE)
<1>1. e \in CallGraph(sections, FALSE, TRUE) <=>
         \E i \in DOMAIN sections : \E l \in Lines(sections[i]) : e \in Edges(i, l)
  <2> DEFINE Of(i) == UNION {Edges(i, l) : l \in Lines(sections[i])}
  <2>1. CallGraph(sections, FALSE, TRUE) = UNION {Of(i) : i \in DOMAIN sections}
    BY Zenon DEF CallGraph
  <2> HIDE DEF Edges
  <2>2. \A i : e \in Of(i) <=> \E l \in Lines(sections[i]) : e \in Edges(i, l)
    OBVIOUS
  <2> HIDE DEF Of
  <2> QED BY <2>1, <2>2
<1> DEFINE Edge(i, l, c, n) == e = [caller |-> c, callee |-> n]
           Live(i, l, n) == /\ ~Noise(sections[i], l) /\ ~DefSite(sections[i], l, n, FALSE)
                            /\ Sees(sections, Declarations(sections, FALSE), sections[i].name, n)
<1>2. ASSUME NEW i \in DOMAIN sections, NEW l \in Lines(sections[i])
      PROVE  e \in Edges(i, l) <=>
                \E c \in CallerOf(sections, i, l) :
                \E n \in UsedOn(sections[i].lines[l], AllNames(sections), FALSE) :
                  Edge(i, l, c, n) /\ Live(i, l, n)
  <2> DEFINE used == UsedOn(sections[i].lines[l], AllNames(sections), FALSE)
             owners == CallerOf(sections, i, l)
  <2>1. Edges(i, l) = {[caller |-> c, callee |-> n] : c \in owners, n \in {m \in used : Live(i, l, m)}}
    BY DEF LineEdges
  <2> HIDE DEF Edges, Live, used, owners
  <2>2. e \in Edges(i, l) <=> \E c \in owners : \E n \in used : Edge(i, l, c, n) /\ Live(i, l, n)
    BY <2>1
  <2> QED BY <2>2 DEF used, owners
<1> HIDE DEF Edges, Edge, Live
<1>3. e \in CallGraph(sections, FALSE, TRUE) <=>
         \E i \in DOMAIN sections : \E l \in Lines(sections[i]) : \E c \in CallerOf(sections, i, l) :
         \E n \in UsedOn(sections[i].lines[l], AllNames(sections), FALSE) : Edge(i, l, c, n) /\ Live(i, l, n)
  BY <1>1, <1>2
<1> QED BY <1>3 DEF Edge, Live

LEMMA CorpusUsesExact ==
  ASSUME IsCorpus(sections)
  PROVE  UsesExact
<1> DEFINE Known(i, n) == Declares(i, n) \/ \E j \in FilesUpFrom(i) : Exports(j, n)
           Seen(i, n) == Sees(sections, Declarations(sections, FALSE), sections[i].name, n)
<1>1. \A i \in DOMAIN sections : \A n : Known(i, n) => Seen(i, n)
  BY SeesIff
<1>2. Separate => \A i \in DOMAIN sections : \A n \in AllNames(sections) : Seen(i, n) => Known(i, n)
  BY SeesIff
<1>3. NoUseDropped
  <2>1. ASSUME NEW i \in DOMAIN sections, NEW l \in Lines(sections[i]), NEW n \in AllNames(sections),
               PlainUse(i, l, n), Known(i, n), NEW c \in CallerOf(sections, i, l)
        PROVE  [caller |-> c, callee |-> n] \in CallGraph(sections, FALSE, TRUE)
    <3>1. n \in UsedOn(sections[i].lines[l], AllNames(sections), FALSE)
      <4> DEFINE m == [name |-> n, how |-> "fact"]
      <4>1. m \in sections[i].lines[l].cites /\ m.name = n /\ Counts(m, FALSE)
        BY <2>1 DEF PlainUse, Counts
      <4> HIDE DEF m
      <4> QED BY <4>1 DEF UsedOn
    <3>2. ~Noise(sections[i], l) /\ ~DefSite(sections[i], l, n, FALSE) /\ Seen(i, n)
      BY <1>1, <2>1 DEF PlainUse
    <3> QED BY <3>1, <3>2, EdgesAre
  <2> QED BY <2>1 DEF NoUseDropped
<1>4. NoPhantomUse
  <2>1. ASSUME Separate, NEW e \in CallGraph(sections, FALSE, TRUE)
        PROVE  \E i \in DOMAIN sections : \E l \in Lines(sections[i]) :
                 /\ ~Noise(sections[i], l)
                 /\ \E m \in sections[i].lines[l].cites :
                      m.name = e.callee /\ (m.how = "method" => m.name \notin NonCitation)
                 /\ e.caller \in CallerOf(sections, i, l)
                 /\ Known(i, e.callee)
    <3> DEFINE Edge(i, l, c, n) == /\ e = [caller |-> c, callee |-> n]
                                   /\ ~Noise(sections[i], l) /\ ~DefSite(sections[i], l, n, FALSE) /\ Seen(i, n)
    <3>0. PICK i \in DOMAIN sections : \E l \in Lines(sections[i]) : \E c \in CallerOf(sections, i, l) :
             \E n \in UsedOn(sections[i].lines[l], AllNames(sections), FALSE) : Edge(i, l, c, n)
      BY <2>1, EdgesAre
    <3>1. PICK l \in Lines(sections[i]) : \E c \in CallerOf(sections, i, l) :
             \E n \in UsedOn(sections[i].lines[l], AllNames(sections), FALSE) : Edge(i, l, c, n)
      BY <3>0
    <3>2. PICK c \in CallerOf(sections, i, l), n \in UsedOn(sections[i].lines[l], AllNames(sections), FALSE) : Edge(i, l, c, n)
      BY <3>1
    <3>3. e.caller = c /\ e.callee = n
      BY <3>2
    <3>4. n \in AllNames(sections) /\ \E m \in sections[i].lines[l].cites :
             m.name = n /\ (m.how = "method" => m.name \notin NonCitation)
      BY DEF UsedOn, Counts
    <3>5. Known(i, n)
      BY <1>2, <2>1, <3>1, <3>2, <3>4
    <3> HIDE DEF Known, Seen
    <3> QED BY <3>1, <3>2, <3>3, <3>4, <3>5
  <2> QED BY <2>1 DEF NoPhantomUse
<1>5. EvidenceSeen
  <2> DEFINE Shows(i, n) == \E l \in Lines(sections[i]) : [name |-> n, how |-> "doc"] \in sections[i].lines[l].cites
             Sure(n) == \E i \in DOMAIN sections : Shows(i, n) /\ Known(i, n)
             Stated(n) == \E d \in Named(Declarations(sections, FALSE), n) : sections[d.sec].lines[d.line].stays
  <2>1. \A n \in AllNames(sections) : \A t : t \in DocMentions(sections)[n] <=>
           \E i \in DOMAIN sections : Shows(i, n) /\ sections[i].name = t
    BY DEF DocMentions
  <2> HIDE DEF Shows
  <2>2. \A n \in AllNames(sections) : n \in Evidence(sections) <=>
           Stated(n) \/ \E t \in DocMentions(sections)[n] : Sees(sections, Declarations(sections, FALSE), t, n)
    BY DEF Evidence
  <2> HIDE DEF Stated
  <2>3. \A n \in AllNames(sections) : n \in Evidence(sections) <=>
           Stated(n) \/ \E i \in DOMAIN sections : Shows(i, n) /\ Seen(i, n)
    BY <2>1, <2>2
  <2> HIDE DEF Known, Seen
  <2>4. \A n \in AllNames(sections) : /\ Sure(n) => n \in Evidence(sections)
                                      /\ Separate => (n \in Evidence(sections) <=> Stated(n) \/ Sure(n))
    BY <1>1, <1>2, <2>3
  <2> QED BY <2>4 DEF EvidenceSeen, Shows, Stated, Known
<1> QED BY <1>3, <1>4, <1>5 DEF UsesExact

-----------------------------------------------------------------------------
(* Names that entries bind make no difference to a name that none binds.    *)
LEMMA UnboundIs ==
  ASSUME NEW n, n \notin {d.name : d \in Declarations(sections, TRUE) \ Declarations(sections, FALSE)}
  PROVE  /\ {d \in Declarations(sections, TRUE) : d.name = n} = {d \in Declarations(sections, FALSE) : d.name = n}
         /\ \A i \in DOMAIN sections : \A l : DefSite(sections[i], l, n, TRUE) <=> DefSite(sections[i], l, n, FALSE)
<1> DEFINE Rec(i, l, m) == [sec |-> i, line |-> l, name |-> m, private |-> sections[i].lines[l].private]
<1>1. \A d : d \in Declarations(sections, TRUE) <=>
         \E i \in DOMAIN sections : \E l \in DeclLines(sections[i]) :
           \E m \in {sections[i].lines[l].name} \cup sections[i].lines[l].binds : d = Rec(i, l, m)
  <2> DEFINE At(i, l) == {Rec(i, l, m) : m \in {sections[i].lines[l].name} \cup sections[i].lines[l].binds}
             Of(i) == UNION {At(i, l) : l \in DeclLines(sections[i])}
  <2>1. Declarations(sections, TRUE) = UNION {Of(i) : i \in DOMAIN sections}
    BY DEF Declarations
  <2>2. \A i, l, d : d \in At(i, l) <=>
           \E m \in {sections[i].lines[l].name} \cup sections[i].lines[l].binds : d = Rec(i, l, m)
    OBVIOUS
  <2> HIDE DEF At
  <2>3. \A i, d : d \in Of(i) <=> \E l \in DeclLines(sections[i]) : d \in At(i, l)
    OBVIOUS
  <2> HIDE DEF Of
  <2>4. \A d : d \in Declarations(sections, TRUE) <=> \E i \in DOMAIN sections : d \in Of(i)
    BY <2>1
  <2>5. \A i, d : d \in Of(i) <=> \E l \in DeclLines(sections[i]) :
           \E m \in {sections[i].lines[l].name} \cup sections[i].lines[l].binds : d = Rec(i, l, m)
    BY <2>2, <2>3
  <2> DEFINE Is(i, d) == \E l \in DeclLines(sections[i]) :
           \E m \in {sections[i].lines[l].name} \cup sections[i].lines[l].binds : d = Rec(i, l, m)
  <2>6. \A i, d : d \in Of(i) <=> Is(i, d)
    BY <2>5
  <2> HIDE DEF Is
  <2>7. \A d : d \in Declarations(sections, TRUE) <=> \E i \in DOMAIN sections : Is(i, d)
    BY <2>4, <2>6
  <2> QED BY <2>7 DEF Is
<1>2. \A d : d \in Declarations(sections, FALSE) <=>
         \E i \in DOMAIN sections : \E l \in DeclLines(sections[i]) : d = Rec(i, l, sections[i].lines[l].name)
  BY DeclarationsAre
<1>3. \A i, l, m : Rec(i, l, m).name = m /\ Rec(i, l, m).sec = i /\ Rec(i, l, m).line = l
  OBVIOUS
<1>4. Declarations(sections, FALSE) \subseteq Declarations(sections, TRUE)
  BY <1>1, <1>2
<1>5. ASSUME NEW d \in Declarations(sections, TRUE), d.name = n PROVE d \in Declarations(sections, FALSE)
  BY <1>5
<1>6. ASSUME NEW i \in DOMAIN sections, NEW l \in DeclLines(sections[i]), n \in sections[i].lines[l].binds
      PROVE  sections[i].lines[l].name = n
  <2>1. Rec(i, l, n) \in Declarations(sections, TRUE)
    BY <1>1, <1>6
  <2>2. Rec(i, l, n) \in Declarations(sections, FALSE)
    <3>1. PICK d : d = Rec(i, l, n)
      OBVIOUS
    <3>2. d \in Declarations(sections, TRUE) /\ d.name = n
      BY <1>3, <2>1, <3>1
    <3> QED BY <1>5, <3>1, <3>2
  <2>3. PICK j \in DOMAIN sections : \E k \in DeclLines(sections[j]) : Rec(i, l, n) = Rec(j, k, sections[j].lines[k].name)
    BY <1>2, <2>2
  <2> QED BY <1>3, <2>3
<1>7. \A i \in DOMAIN sections : \A l : DefSite(sections[i], l, n, TRUE) <=> DefSite(sections[i], l, n, FALSE)
  BY <1>6 DEF DefSite
<1> QED BY <1>4, <1>5, <1>7

(* The hits of one name are the lines its edges come from.                  *)
LEMMA CorpusCallersAgree == CallersAgree
<1> DEFINE decls == Declarations(sections, FALSE)
           graph == CallGraph(sections, FALSE, TRUE)
           Seen(i, n) == Sees(sections, decls, sections[i].name, n)
           Used(i, l, n) == \E m \in sections[i].lines[l].cites : Counts(m, FALSE) /\ m.name = n
           Hit(i, l, n) == /\ Used(i, l, n) /\ ~DefSite(sections[i], l, n, FALSE)
                           /\ ~Noise(sections[i], l) /\ Seen(i, n)
<1> SUFFICES ASSUME NEW n \in AllNames(sections),
                    n \notin {d.name : d \in Declarations(sections, TRUE) \ decls}
             PROVE  UNION {CallerOf(sections, h.sec, h.line) : h \in FindCallers(sections, n, FALSE)}
                      = {e.caller : e \in {g \in graph : g.callee = n}}
  BY DEF CallersAgree
<1>1. \A i \in DOMAIN sections : Admits(sections, n, sections[i].name) <=> Seen(i, n)
  <2>1. {d \in Declarations(sections, TRUE) : d.name = n} = {d \in decls : d.name = n}
    BY UnboundIs
  <2>2. \A t : Sees(sections, Declarations(sections, TRUE), t, n) <=> Sees(sections, decls, t, n)
    <3> HIDE DEF decls
    <3> QED BY <2>1, Zenon DEF Sees
  <2>3. (\E d \in Declarations(sections, TRUE) : d.name = n) \/ \A t : Sees(sections, decls, t, n)
    <3> HIDE DEF decls
    <3> QED BY <2>1 DEF Sees
  <2> QED BY <2>2, <2>3 DEF Admits
<1>2. \A h : h \in FindCallers(sections, n, FALSE) <=>
         \E i \in DOMAIN sections : \E l \in Lines(sections[i]) : h = [sec |-> i, line |-> l] /\ Hit(i, l, n)
  <2> DEFINE HitLines(i) == {l \in Lines(sections[i]) : /\ n \in UsedOn(sections[i].lines[l], {n}, FALSE)
                                                     /\ ~DefSite(sections[i], l, n, TRUE)
                                                     /\ ~Noise(sections[i], l)}
             Of(i) == {[sec |-> i, line |-> l] : l \in HitLines(i)}
             Open == {i \in DOMAIN sections : Admits(sections, n, sections[i].name)}
  <2>1. FindCallers(sections, n, FALSE) = UNION {Of(i) : i \in Open}
    BY DEF FindCallers
  <2>2. \A i \in DOMAIN sections : \A l : l \in HitLines(i) <=>
           /\ l \in Lines(sections[i]) /\ Used(i, l, n)
           /\ ~DefSite(sections[i], l, n, FALSE) /\ ~Noise(sections[i], l)
    BY UnboundIs DEF UsedOn
  <2> HIDE DEF HitLines
  <2>3. \A i, h : h \in Of(i) <=> \E l \in HitLines(i) : h = [sec |-> i, line |-> l]
    OBVIOUS
  <2>4. \A i : i \in Open <=> i \in DOMAIN sections /\ Seen(i, n)
    BY <1>1
  <2> HIDE DEF Of, Open
  <2>5. \A h : h \in FindCallers(sections, n, FALSE) <=> \E i \in Open : h \in Of(i)
    BY <2>1
  <2>6. \A i \in DOMAIN sections : \A h : i \in Open /\ h \in Of(i) <=>
           \E l \in Lines(sections[i]) : h = [sec |-> i, line |-> l] /\ Hit(i, l, n)
    BY <2>2, <2>3, <2>4
  <2> HIDE DEF Hit
  <2> QED BY <2>4, <2>5, <2>6
<1>3. \A c : c \in {e.caller : e \in {g \in graph : g.callee = n}} <=>
         \E i \in DOMAIN sections : \E l \in Lines(sections[i]) : c \in CallerOf(sections, i, l) /\ Hit(i, l, n)
  <2>1. \A i, l : n \in UsedOn(sections[i].lines[l], AllNames(sections), FALSE) <=> Used(i, l, n)
    BY DEF UsedOn
  <2>2. ASSUME NEW e \in graph, e.callee = n
        PROVE  \E i \in DOMAIN sections : \E l \in Lines(sections[i]) : e.caller \in CallerOf(sections, i, l) /\ Hit(i, l, n)
    <3> DEFINE Edge(i, l, c, m) == /\ e = [caller |-> c, callee |-> m]
                                   /\ ~Noise(sections[i], l) /\ ~DefSite(sections[i], l, m, FALSE) /\ Seen(i, m)
    <3>1. PICK i \in DOMAIN sections : \E l \in Lines(sections[i]) : \E c \in CallerOf(sections, i, l) :
             \E m \in UsedOn(sections[i].lines[l], AllNames(sections), FALSE) : Edge(i, l, c, m)
      BY <2>2, EdgesAre
    <3>2. PICK l \in Lines(sections[i]) : \E c \in CallerOf(sections, i, l) :
             \E m \in UsedOn(sections[i].lines[l], AllNames(sections), FALSE) : Edge(i, l, c, m)
      BY <3>1
    <3>3. PICK c \in CallerOf(sections, i, l), m \in UsedOn(sections[i].lines[l], AllNames(sections), FALSE) : Edge(i, l, c, m)
      BY <3>2
    <3>4. e.caller = c /\ m = n
      BY <2>2, <3>3
    <3> QED BY <2>1, <3>3, <3>4
  <2>3. ASSUME NEW i \in DOMAIN sections, NEW l \in Lines(sections[i]), NEW c \in CallerOf(sections, i, l), Hit(i, l, n)
        PROVE  \E e \in graph : e.callee = n /\ e.caller = c
    <3>1. [caller |-> c, callee |-> n] \in graph
      BY <2>1, <2>3, EdgesAre
    <3> QED BY <3>1
  <2> HIDE DEF graph, Hit
  <2> QED BY <2>2, <2>3
<1>4. \A c : c \in UNION {CallerOf(sections, h.sec, h.line) : h \in FindCallers(sections, n, FALSE)} <=>
         \E i \in DOMAIN sections : \E l \in Lines(sections[i]) : c \in CallerOf(sections, i, l) /\ Hit(i, l, n)
  <2>1. \A i, l : [sec |-> i, line |-> l].sec = i /\ [sec |-> i, line |-> l].line = l
    OBVIOUS
  <2> DEFINE hits == FindCallers(sections, n, FALSE)
  <2> HIDE DEF Hit
  <2>2. \A c : c \in UNION {CallerOf(sections, h.sec, h.line) : h \in hits} <=>
           \E h \in hits : c \in CallerOf(sections, h.sec, h.line)
    OBVIOUS
  <2>3. ASSUME NEW h \in hits, NEW c \in CallerOf(sections, h.sec, h.line)
        PROVE  \E i \in DOMAIN sections : \E l \in Lines(sections[i]) : c \in CallerOf(sections, i, l) /\ Hit(i, l, n)
    <3>1. PICK i \in DOMAIN sections : \E l \in Lines(sections[i]) : h = [sec |-> i, line |-> l] /\ Hit(i, l, n)
      BY <1>2, <2>3
    <3>2. PICK l \in Lines(sections[i]) : h = [sec |-> i, line |-> l] /\ Hit(i, l, n)
      BY <3>1
    <3> QED BY <2>1, <2>3, <3>2
  <2>4. ASSUME NEW i \in DOMAIN sections, NEW l \in Lines(sections[i]), Hit(i, l, n)
        PROVE  \E h \in hits : h.sec = i /\ h.line = l
    <3>1. [sec |-> i, line |-> l] \in hits
      BY <1>2, <2>4
    <3> QED BY <2>1, <3>1
  <2> HIDE DEF hits
  <2>5. \A c : (\E h \in hits : c \in CallerOf(sections, h.sec, h.line)) <=>
           \E i \in DOMAIN sections : \E l \in Lines(sections[i]) : c \in CallerOf(sections, i, l) /\ Hit(i, l, n)
    BY <2>3, <2>4
  <2> QED BY <2>2, <2>5 DEF hits
<1> HIDE DEF graph, Hit
<1> QED BY <1>3, <1>4

-----------------------------------------------------------------------------
\* The declarations of n that file i has, or that a file it imports exports.
Offers(i, decls, n) ==
  {d \in decls : d.name = n /\ (d.sec = i \/ (~d.private /\ d.sec \in FilesUpFrom(i)))}

LEMMA SeesOffered ==
  ASSUME IsCorpus(sections), NEW i \in DOMAIN sections, NEW n,
         NEW decls, \A d \in decls : d.sec \in DOMAIN sections
  PROVE  /\ Offers(i, decls, n) # {} => Sees(sections, decls, sections[i].name, n)
         /\ Separate /\ Named(decls, n) # {} /\ Sees(sections, decls, sections[i].name, n) =>
              Offers(i, decls, n) # {}
<1> DEFINE mine == Named(decls, n)
           public == {sections[d.sec].name : d \in {e \in mine : ~e.private}}
           reach == Depths(sections, sections[i].name)
           F == FilesUpFrom(i)
<1>1. Sees(sections, decls, sections[i].name, n) <=>
        \/ mine = {}
        \/ \E d \in mine : sections[d.sec].name = sections[i].name
        \/ public # {} /\ reach = Unknown
        \/ reach # Unknown /\ public \cap DOMAIN reach # {}
  BY DEF Sees, Named
<1>2. /\ F \subseteq DOMAIN sections
      /\ reach # Unknown => \A j \in F : sections[j].name \in DOMAIN reach
      /\ Separate => /\ reach # Unknown
                     /\ \A x \in DOMAIN reach : \E j \in F : sections[j].name = x
  BY SameClosure
<1>3. \A x : x \in public <=> \E d \in mine : ~d.private /\ sections[d.sec].name = x
  OBVIOUS
<1>4. Offers(i, decls, n) = {d \in mine : d.sec = i \/ (~d.private /\ d.sec \in F)}
  BY DEF Offers, Named
<1>5. \A d \in mine : d.sec \in DOMAIN sections
  BY DEF Named
<1> HIDE DEF mine, public, reach, F
<1>6. ASSUME NEW d \in Offers(i, decls, n) PROVE Sees(sections, decls, sections[i].name, n)
  <2>1. CASE d.sec = i
    BY <1>1, <1>4, <1>6, <2>1
  <2>2. CASE ~d.private /\ d.sec \in F
    <3>1. sections[d.sec].name \in public
      BY <1>3, <1>4, <1>6, <2>2
    <3> QED BY <1>1, <1>2, <2>2, <3>1
  <2> QED BY <1>4, <1>6, <2>1, <2>2
<1>7. ASSUME Separate, mine # {}, Sees(sections, decls, sections[i].name, n)
      PROVE  Offers(i, decls, n) # {}
  <2>1. CASE \E d \in mine : sections[d.sec].name = sections[i].name
    BY <1>4, <1>5, <1>7, <2>1 DEF Separate, OwnNames
  <2>2. CASE public \cap DOMAIN reach # {}
    <3>1. PICK x \in DOMAIN reach, d \in mine : ~d.private /\ sections[d.sec].name = x
      BY <1>3, <2>2
    <3>2. PICK j \in F : sections[j].name = x
      BY <1>2, <1>7, <3>1
    <3>3. d.sec = j
      BY <1>2, <1>5, <1>7, <3>1, <3>2 DEF Separate, OwnNames
    <3> QED BY <1>4, <3>1, <3>3
  <2> QED BY <1>1, <1>2, <1>7, <2>1, <2>2
<1> QED BY <1>6, <1>7 DEF mine

(* What a site can mean is what its file offers it, or more if that is not  *)
(* sure.                                                                    *)
LEMMA VisibleOffers ==
  ASSUME IsCorpus(sections), NEW i \in DOMAIN sections, NEW n,
         NEW decls, \A d \in decls : d.sec \in DOMAIN sections,
         NEW g, g = DOMAIN Visible(sections, Named(decls, n), {sections[i].name})
  PROVE  /\ Offers(i, decls, n) \subseteq g
         /\ Separate /\ Offers(i, decls, n) # {} => g = Offers(i, decls, n)
<1> DEFINE D == Named(decls, n)
           t == sections[i].name
           reach == Depths(sections, t)
           F == FilesUpFrom(i)
           offered == Offers(i, decls, n)
           open == {d \in D : ~d.private \/ sections[d.sec].name \in {t}}
           pool == IF open = {} THEN D ELSE open
           Near(d) == {Depths(sections, u)[sections[d.sec].name] :
                         u \in {v \in {t} : sections[d.sec].name \in DOMAIN Depths(sections, v)}}
           near == {d \in pool : Near(d) # {}}
<1>1. g = IF reach = Unknown THEN pool ELSE IF near = {} THEN pool ELSE near
  BY DEF Visible
<1>2. \A d : Near(d) # {} <=> sections[d.sec].name \in DOMAIN reach
  OBVIOUS
<1>3. /\ F \subseteq DOMAIN sections
      /\ reach # Unknown => \A j \in F : sections[j].name \in DOMAIN reach
      /\ Separate => /\ reach # Unknown
                     /\ \A x \in DOMAIN reach : \E j \in F : sections[j].name = x
  BY SameClosure
<1>4. i \in F
  BY FilesUpAre
<1>5. offered = {d \in D : d.sec = i \/ (~d.private /\ d.sec \in F)}
  BY DEF Offers, Named
<1>6. \A d \in D : d.sec \in DOMAIN sections
  BY DEF Named
<1>7. offered \subseteq open
  BY <1>5
<1>8. near = {d \in pool : sections[d.sec].name \in DOMAIN reach}
  BY <1>2
<1>9. open = {d \in D : ~d.private \/ sections[d.sec].name = t} /\ open \subseteq D
  OBVIOUS
<1>10. offered # {} => pool = open
  BY <1>7
<1> HIDE DEF D, reach, F, offered, pool, near, open
<1>11. offered \subseteq g
  <2>1. reach # Unknown => offered \subseteq near
    BY <1>3, <1>4, <1>5, <1>7, <1>8, <1>10
  <2> QED BY <1>1, <1>7, <1>10, <2>1
<1>12. ASSUME Separate, offered # {} PROVE g = offered
  <2>1. g = near
    <3>1. reach # Unknown
      BY <1>3, <1>12
    <3>2. near # {}
      BY <1>3, <1>4, <1>5, <1>7, <1>8, <1>10, <1>12, <3>1
    <3> QED BY <1>1, <3>1, <3>2
  <2>2. ASSUME NEW d \in near PROVE d \in offered
    <3>1. d \in D /\ d.sec \in DOMAIN sections /\ (~d.private \/ sections[d.sec].name = t)
      BY <1>6, <1>8, <1>9, <1>10, <1>12
    <3>2. sections[d.sec].name = t => d.sec = i
      BY <1>12, <3>1 DEF Separate, OwnNames
    <3>3. PICK j \in F : sections[j].name = sections[d.sec].name
      BY <1>3, <1>8, <1>12
    <3>4. d.sec = j
      BY <1>3, <1>12, <3>1, <3>3 DEF Separate, OwnNames
    <3> QED BY <1>5, <3>1, <3>2, <3>4
  <2> QED BY <1>11, <2>1, <2>2
<1> QED BY <1>11, <1>12 DEF offered

LEMMA CorpusGroupsExact ==
  ASSUME IsCorpus(sections)
  PROVE  GroupsExact
<1> DEFINE decls == Declarations(sections, TRUE)
<1>1. \A d \in decls : d.sec \in DOMAIN sections
  <2> DEFINE At(i, l) == {[sec |-> i, line |-> l, name |-> m, private |-> sections[i].lines[l].private] :
                            m \in {sections[i].lines[l].name} \cup sections[i].lines[l].binds}
             Of(i) == UNION {At(i, l) : l \in DeclLines(sections[i])}
  <2>1. decls = UNION {Of(i) : i \in DOMAIN sections}
    BY DEF Declarations
  <2>2. \A i, l : \A d \in At(i, l) : d.sec = i
    OBVIOUS
  <2> HIDE DEF At
  <2>3. \A i : \A d \in Of(i) : d.sec = i
    BY <2>2
  <2> HIDE DEF Of, decls
  <2> QED BY <2>1, <2>3
<1> SUFFICES ASSUME NEW n \in {d.name : d \in decls},
                    NEW g \in DOMAIN CallerGroups(sections, n, FALSE),
                    NEW h \in CallerGroups(sections, n, FALSE)[g]
             PROVE  LET offered == {d \in Named(decls, n) :
                                      d.sec = h.sec \/ (~d.private /\ d.sec \in FilesUpFrom(h.sec))}
                    IN  /\ offered \subseteq g
                        /\ Separate => Cardinality(Named(decls, n)) < 2 \/ g = offered
  BY DEF GroupsExact
<1> SUFFICES /\ Offers(h.sec, decls, n) \subseteq g
             /\ Separate => Cardinality(Named(decls, n)) < 2 \/ g = Offers(h.sec, decls, n)
  <2>1. Offers(h.sec, decls, n) = {d \in Named(decls, n) :
                                     d.sec = h.sec \/ (~d.private /\ d.sec \in FilesUpFrom(h.sec))}
    BY DEF Offers, Named
  <2> QED BY <2>1, Zenon
<1> DEFINE hits == FindCallers(sections, n, FALSE)
           D == Named(decls, n)
           MeantAt(x) == IF Cardinality(D) < 2 THEN D ELSE DOMAIN Visible(sections, D, {sections[x.sec].name})
<1>2. h \in hits /\ g = MeantAt(h)
  <2>1. CallerGroups(sections, n, FALSE) = [G \in {MeantAt(x) : x \in hits} |-> {x \in hits : MeantAt(x) = G}]
    BY DEF CallerGroups
  <2> HIDE DEF MeantAt, hits
  <2> QED BY <2>1
<1>3. h.sec \in DOMAIN sections /\ Admits(sections, n, sections[h.sec].name)
  <2> DEFINE HitLines(i) == {l \in Lines(sections[i]) : /\ n \in UsedOn(sections[i].lines[l], {n}, FALSE)
                                                     /\ ~DefSite(sections[i], l, n, TRUE)
                                                     /\ ~Noise(sections[i], l)}
             Of(i) == {[sec |-> i, line |-> l] : l \in HitLines(i)}
             Open == {i \in DOMAIN sections : Admits(sections, n, sections[i].name)}
  <2>1. hits = UNION {Of(i) : i \in Open}
    BY DEF FindCallers
  <2> HIDE DEF HitLines
  <2>2. \A i : \A x \in Of(i) : x.sec = i
    OBVIOUS
  <2> HIDE DEF hits, Of, Open
  <2>3. h.sec \in Open
    BY <1>2, <2>1, <2>2
  <2> QED BY <2>3 DEF Open
<1>4. D # {}
  BY DEF Named
<1>5. Sees(sections, decls, sections[h.sec].name, n)
  BY <1>3, <1>4 DEF Admits, Named
<1>6. Separate => Offers(h.sec, decls, n) # {}
  <2> HIDE DEF decls
  <2> QED BY <1>1, <1>3, <1>4, <1>5, SeesOffered
<1>7. CASE Cardinality(D) < 2
  <2>1. g = D
    BY <1>2, <1>7
  <2>2. Offers(h.sec, decls, n) \subseteq D
    BY DEF Offers, Named
  <2> QED BY <1>7, <2>1, <2>2
<1>8. CASE ~(Cardinality(D) < 2)
  <2>1. g = DOMAIN Visible(sections, Named(decls, n), {sections[h.sec].name})
    BY <1>2, <1>8
  <2> HIDE DEF decls, D, MeantAt, hits
  <2> QED BY <1>1, <1>3, <1>6, <2>1, VisibleOffers
<1> QED BY <1>7, <1>8

-----------------------------------------------------------------------------
(* Walks of k edges: what a breadth-first walk measures.                    *)
Walk(W, k, x, z) == <<x, z>> \in W[k]
Walks(G, nb, n, W) ==
  /\ \A x, z \in G : Walk(W, 0, x, z) <=> x = z
  /\ \A k \in 1..n : \A x, z \in G : Walk(W, k, x, z) <=> \E y \in G : Walk(W, k - 1, x, y) /\ z \in nb[y]

LEMMA WalksExist ==
  ASSUME NEW G, NEW nb, NEW n \in Nat
  PROVE  \E W : Walks(G, nb, n, W)
<1> DEFINE D == SUBSET (G \X G)
           start == {xz \in G \X G : xz[1] = xz[2]}
           Longer(r) == {xz \in G \X G : \E y \in G : <<xz[1], y>> \in r /\ xz[2] \in nb[y]}
           g == [kr \in (1..n) \X D |-> Longer(kr[2])]
<1>1. start \in D /\ \A r : Longer(r) \in D
  OBVIOUS
<1>6. /\ \A x, z \in G : <<x, z>> \in start <=> x = z
      /\ \A r : \A x, z \in G : <<x, z>> \in Longer(r) <=> \E y \in G : <<x, y>> \in r /\ z \in nb[y]
  OBVIOUS
<1> HIDE DEF Longer, start
<1>2. g \in [(1..n) \X D -> D] /\ \A k \in 1..n : \A r \in D : g[<<k, r>>] = Longer(r)
  BY <1>1
<1> HIDE DEF D, g
<1>3. PICK W : FoldsTo(n, D, start, g, W)
  BY <1>1, <1>2, FoldExists
<1>4. W \in [0..n -> D] /\ W[0] = start
  BY <1>3 DEF FoldsTo
<1>5. ASSUME NEW k \in 1..n PROVE W[k] = Longer(W[k - 1])
  <2>1. k - 1 \in 0..n
    OBVIOUS
  <2> QED BY <1>2, <1>3, <1>4, <2>1 DEF FoldsTo
<1>7. \A x, z \in G : Walk(W, 0, x, z) <=> x = z
  BY <1>4, <1>6 DEF Walk
<1>8. ASSUME NEW k \in 1..n, NEW x \in G, NEW z \in G
      PROVE  Walk(W, k, x, z) <=> \E y \in G : Walk(W, k - 1, x, y) /\ z \in nb[y]
  <2>1. PICK r : r = W[k - 1]
    OBVIOUS
  <2>2. W[k] = Longer(r)
    BY <1>5, <2>1
  <2>3. <<x, z>> \in W[k] <=> \E y \in G : <<x, y>> \in r /\ z \in nb[y]
    BY SMTT(20), <1>6, <2>2
  <2> QED BY <2>1, <2>3 DEF Walk
<1> QED BY <1>7, <1>8 DEF Walks

\* x is k edges from s, and no fewer.
Nearest(W, s, x, k) == Walk(W, k, s, x) /\ \A j \in 0..(k - 1) : ~Walk(W, j, s, x)

(* The depths are those of the shortest walks.                              *)
Shortest(G, W, n, s, sd, d) ==
  /\ DOMAIN d \subseteq G
  /\ \A x \in G : x \in DOMAIN d <=> \E k \in 0..n : Nearest(W, s, x, k)
  /\ \A x \in DOMAIN d : \A k \in 0..n : Nearest(W, s, x, k) => d[x] = sd + k

LEMMA DepthsAreShortest ==
  ASSUME NEW G, IsFiniteSet(G), NEW nb \in [G -> SUBSET G], NEW s \in G, NEW seeds \in SUBSET G,
         \A x : x \in seeds <=> x = s, NEW sd \in Int,
         NEW n, n = Cardinality(G) + 1, NEW W, Walks(G, nb, n, W), NEW d, d = BfsDepths(nb, seeds, sd)
  PROVE  Shortest(G, W, n, s, sd, d)
<1>1. n \in Nat \ {0}
  BY FS_CardinalityType
<1>2. PICK R : Rings(G, nb, seeds, n, R) /\ d = [x \in R[n].seen |-> sd + FirstRing(R, n, x)]
  BY WalkIs
<1>3. Spreads(G, nb, seeds, n, R)
  <2>1. n \in Nat
    BY <1>1
  <2> QED BY <1>1, <1>2, <2>1, RingsAre
<1>4. R[n].frontier = {}
  BY <1>1, <1>2, LastRing
<1> DEFINE At(x, k) == x \in R[k].frontier
<1>5. \A k \in 0..n : \A x : x \in R[k].seen <=> \E j \in 0..(k - 1) : At(x, j)
  BY <1>3 DEF Spreads
<1>6. /\ \A x : At(x, 0) <=> x = s
      /\ \A k \in 1..n : \A x : At(x, k) <=> \E y : At(y, k - 1) /\ y \notin R[k - 1].seen /\ x \in nb[y]
      /\ \A k \in 0..n : \A x : At(x, k) => x \in G
  BY <1>3 DEF Spreads
<1>7. /\ \A x \in G : Walk(W, 0, s, x) <=> x = s
      /\ \A k \in 1..n : \A x \in G : Walk(W, k, s, x) <=> \E y \in G : Walk(W, k - 1, s, y) /\ x \in nb[y]
  BY DEF Walks
<1> HIDE DEF At
<1>8. \A k \in 0..n : \A x \in G : At(x, k) => Walk(W, k, s, x)
  <2> DEFINE P == {k \in 0..n : \A x \in G : At(x, k) => Walk(W, k, s, x)}
  <2>1. 0 \in P
    BY <1>1, <1>6, <1>7
  <2>2. ASSUME NEW k \in 1..n, k - 1 \in P PROVE k \in P
    <3>1. k \in 0..n /\ k - 1 \in 0..n
      BY <1>1
    <3> QED BY <1>6, <1>7, <2>2, <3>1
  <2> HIDE DEF P
  <2>3. \A k \in 0..n : k \in P
    BY <1>1, <2>1, <2>2, UpTo
  <2> QED BY <2>3 DEF P
<1>9. \A k \in 0..n : \A x \in G : Walk(W, k, s, x) => \E j \in 0..k : At(x, j)
  <2> DEFINE P == {k \in 0..n : \A x \in G : Walk(W, k, s, x) => \E j \in 0..k : At(x, j)}
  <2>1. 0 \in P
    BY <1>1, <1>6, <1>7
  <2>2. ASSUME NEW k \in 1..n, k - 1 \in P PROVE k \in P
    <3>1. ASSUME NEW x \in G, Walk(W, k, s, x) PROVE \E j \in 0..k : At(x, j)
      <4>1. PICK y \in G : Walk(W, k - 1, s, y) /\ x \in nb[y]
        BY <1>7, <3>1
      <4>2. PICK j \in 0..(k - 1) : At(y, j)
        BY <2>2, <4>1
      <4>3. j \in 0..n
        BY <1>1
      <4>4. PICK i \in 0..n : At(y, i) /\ i <= j /\ \A h \in 0..(i - 1) : ~At(y, h)
        <5> DEFINE S == {h \in 0..n : At(y, h)}
        <5>1. j \in S /\ S \subseteq Nat
          BY <4>2, <4>3
        <5>2. PICK m \in S : \A h \in S : m <= h
          <6>1. S # {} /\ S \subseteq Nat
            BY <5>1
          <6> QED BY <6>1, LeastIs
        <5>3. ASSUME NEW h \in 0..(m - 1), At(y, h) PROVE FALSE
          <6>1. h \in S /\ ~(m <= h)
            BY <1>1, <5>2, <5>3
          <6> QED BY <5>2, <6>1
        <5> QED BY <5>1, <5>2, <5>3
      <4>5. y \notin R[i].seen
        BY <1>5, <4>4
      <4>6. i + 1 \in 1..n /\ (i + 1) - 1 = i /\ i + 1 \in 0..k
        BY <1>1, <4>4
      <4>7. At(x, i + 1)
        BY <1>6, <4>1, <4>4, <4>5, <4>6
      <4> QED BY <4>6, <4>7
    <3> QED BY <1>1, <3>1
  <2> HIDE DEF P
  <2>3. \A k \in 0..n : k \in P
    BY <1>1, <2>1, <2>2, UpTo
  <2> QED BY <2>3 DEF P
<1>10. ASSUME NEW x \in G, NEW k \in 0..n
       PROVE  Nearest(W, s, x, k) <=> At(x, k) /\ \A j \in 0..(k - 1) : ~At(x, j)
  <2>1. \A j \in 0..(k - 1) : j \in 0..n /\ \A h \in 0..j : h \in 0..(k - 1)
    BY <1>1
  <2>2. \A h \in 0..k : h = k \/ h \in 0..(k - 1)
    BY <1>1
  <2>3. (\A j \in 0..(k - 1) : ~Walk(W, j, s, x)) <=> \A j \in 0..(k - 1) : ~At(x, j)
    BY <1>8, <1>9, <2>1
  <2> QED BY <1>8, <1>9, <2>2, <2>3 DEF Nearest
<1>15. DOMAIN d \subseteq G
  <2>1. n \in 0..n
    BY <1>1
  <2> QED BY <1>2, <1>3, <2>1 DEF Spreads
<1>11. ASSUME NEW x \in DOMAIN d
       PROVE  FirstRing(R, n, x) \in 0..n /\ Nearest(W, s, x, FirstRing(R, n, x))
  <2>1. PICK k \in 0..(n - 1) : At(x, k)
    <3>1. x \in R[n].seen /\ n \in 0..n
      BY <1>1, <1>2
    <3> QED BY <1>5, <3>1
  <2>2. n \in Nat /\ k \in 0..n /\ x \in R[k].frontier
    BY <1>1, <2>1 DEF At
  <2>3. /\ FirstRing(R, n, x) \in 0..n /\ x \in R[FirstRing(R, n, x)].frontier
        /\ \A j \in 0..(FirstRing(R, n, x) - 1) : x \notin R[j].frontier
    BY <2>2, FirstRingIs
  <2> QED BY <1>10, <1>15, <2>3 DEF At
<1>12. ASSUME NEW x \in G, NEW k \in 0..n, Nearest(W, s, x, k) PROVE x \in DOMAIN d
  <2>1. At(x, k)
    BY <1>10, <1>12
  <2>2. k # n
    BY <1>4, <2>1 DEF At
  <2>3. k \in 0..(n - 1) /\ n \in 0..n
    BY <1>1, <2>2
  <2> QED BY <1>2, <1>5, <2>1, <2>3
<1>13. ASSUME NEW x \in G, NEW k \in 0..n, NEW m \in 0..n, Nearest(W, s, x, k), Nearest(W, s, x, m) PROVE k = m
  <2>1. k \in Int /\ m \in Int /\ (k < m => k \in 0..(m - 1)) /\ (m < k => m \in 0..(k - 1))
    BY <1>1
  <2>2. ~(k < m) /\ ~(m < k)
    BY <1>13, <2>1 DEF Nearest
  <2> QED BY <2>1, <2>2
<1>14. ASSUME NEW x \in DOMAIN d, NEW k \in 0..n, Nearest(W, s, x, k) PROVE d[x] = sd + k
  <2>1. FirstRing(R, n, x) = k
    BY <1>11, <1>13, <1>14, <1>15
  <2> QED BY <1>2, <2>1
<1> QED BY <1>11, <1>12, <1>14, <1>15 DEF Shortest

(* A walk can be read from its other end.                                   *)
LEMMA WalksMirror ==
  ASSUME NEW G, NEW n \in Nat, NEW nb, NEW bn, \A x, y \in G : y \in nb[x] <=> x \in bn[y],
         NEW W, Walks(G, nb, n, W), NEW V, Walks(G, bn, n, V)
  PROVE  \A k \in 0..n : \A x, z \in G : Walk(W, k, x, z) <=> Walk(V, k, z, x)
<1>1. /\ \A x, z \in G : Walk(W, 0, x, z) <=> x = z
      /\ \A k \in 1..n : \A x, z \in G : Walk(W, k, x, z) <=> \E y \in G : Walk(W, k - 1, x, y) /\ z \in nb[y]
  BY DEF Walks
<1>2. /\ \A x, z \in G : Walk(V, 0, x, z) <=> x = z
      /\ \A k \in 1..n : \A x, z \in G : Walk(V, k, x, z) <=> \E y \in G : Walk(V, k - 1, x, y) /\ z \in bn[y]
  BY DEF Walks
<1>3. \A k \in 1..n : k \in 0..n /\ k - 1 \in 0..n /\ (k = 1 \/ (k - 1 \in 1..n))
  OBVIOUS
<1>4. \A k \in 0..n : k >= 1 => \A x, z \in G : Walk(W, k, x, z) <=> \E y \in G : y \in nb[x] /\ Walk(W, k - 1, y, z)
  <2> DEFINE P == {k \in 0..n : k >= 1 => \A x, z \in G : Walk(W, k, x, z) <=> \E y \in G : y \in nb[x] /\ Walk(W, k - 1, y, z)}
  <2>1. 0 \in P
    OBVIOUS
  <2>2. ASSUME NEW k \in 1..n, k - 1 \in P PROVE k \in P
    <3>1. CASE k = 1
      <4>1. k - 1 = 0
        BY <3>1
      <4> QED BY <1>1, <1>3, <4>1
    <3>2. CASE k # 1
      <4>1. k - 1 \in 1..n /\ k - 1 >= 1 /\ k \in 0..n
        BY <3>2
      <4>2. \A x, z \in G : Walk(W, k - 1, x, z) <=> \E y \in G : y \in nb[x] /\ Walk(W, (k - 1) - 1, y, z)
        BY <2>2, <4>1
      <4>3. \A x, z \in G : Walk(W, k - 1, x, z) <=> \E y \in G : Walk(W, (k - 1) - 1, x, y) /\ z \in nb[y]
        BY <1>1, <4>1
      <4>4. \A x, z \in G : Walk(W, k, x, z) <=> \E y \in G : Walk(W, k - 1, x, y) /\ z \in nb[y]
        BY <1>1
      <4> DEFINE Short(x, z) == Walk(W, (k - 1) - 1, x, z)
                 Mid(x, z) == Walk(W, k - 1, x, z)
      <4>5. \A x, z \in G : Mid(x, z) <=> \E y \in G : y \in nb[x] /\ Short(y, z)
        BY <4>2
      <4>6. \A x, z \in G : Mid(x, z) <=> \E y \in G : Short(x, y) /\ z \in nb[y]
        BY <4>3
      <4>7. \A x, z \in G : (\E y \in G : Mid(x, y) /\ z \in nb[y]) <=> \E y \in G : y \in nb[x] /\ Mid(y, z)
        <5> HIDE DEF Mid, Short
        <5> QED BY <4>5, <4>6
      <4> QED BY <4>1, <4>4, <4>7
    <3> QED BY <3>1, <3>2
  <2> HIDE DEF P
  <2>3. \A k \in 0..n : k \in P
    BY <2>1, <2>2, UpTo
  <2> QED BY <2>3 DEF P
<1> DEFINE Q == {k \in 0..n : \A x, z \in G : Walk(W, k, x, z) <=> Walk(V, k, z, x)}
<1>5. 0 \in Q
  BY <1>1, <1>2
<1>6. ASSUME NEW k \in 1..n, k - 1 \in Q PROVE k \in Q
  <2>1. \A x, z \in G : Walk(W, k - 1, x, z) <=> Walk(V, k - 1, z, x)
    BY <1>6
  <2>2. k \in 0..n /\ k >= 1
    OBVIOUS
  <2>3. \A x, z \in G : Walk(W, k, x, z) <=> \E y \in G : y \in nb[x] /\ Walk(W, k - 1, y, z)
    BY <1>4, <2>2
  <2>4. \A x, z \in G : Walk(V, k, z, x) <=> \E y \in G : Walk(V, k - 1, z, y) /\ x \in bn[y]
    BY <1>2
  <2> QED BY <2>1, <2>2, <2>3, <2>4
<1> HIDE DEF Q
<1>7. \A k \in 0..n : k \in Q
  BY <1>5, <1>6, UpTo
<1> QED BY <1>7 DEF Q

LEMMA DepthsMirror ==
  ASSUME NEW G, IsFiniteSet(G), NEW nb \in [G -> SUBSET G], NEW bn \in [G -> SUBSET G],
         \A x, y \in G : y \in nb[x] <=> x \in bn[y], NEW a \in G, NEW b \in G,
         NEW sa \in SUBSET G, \A x : x \in sa <=> x = a, NEW sb \in SUBSET G, \A x : x \in sb <=> x = b,
         NEW sd \in Int, NEW d, d = BfsDepths(nb, sa, sd), NEW e, e = BfsDepths(bn, sb, sd)
  PROVE  (b \in DOMAIN d <=> a \in DOMAIN e) /\ (b \in DOMAIN d => d[b] = e[a])
<1>1. PICK n : n = Cardinality(G) + 1 /\ n \in Nat
  BY FS_CardinalityType
<1>2. PICK W : Walks(G, nb, n, W)
  BY <1>1, WalksExist
<1>3. PICK V : Walks(G, bn, n, V)
  BY <1>1, WalksExist
<1>4. \A k \in 0..n : Walk(W, k, a, b) <=> Walk(V, k, b, a)
  <2>1. n \in Nat
    BY <1>1
  <2> QED BY <1>2, <1>3, <2>1, WalksMirror
<1>5. \A k \in 0..n : Nearest(W, a, b, k) <=> Nearest(V, b, a, k)
  <2>1. \A k \in 0..n : \A j \in 0..(k - 1) : j \in 0..n
    BY <1>1
  <2> QED BY <1>4, <2>1 DEF Nearest
<1>6. Shortest(G, W, n, a, sd, d)
  BY <1>1, <1>2, DepthsAreShortest
<1>7. Shortest(G, V, n, b, sd, e)
  BY <1>1, <1>3, DepthsAreShortest
<1> QED BY <1>5, <1>6, <1>7 DEF Shortest

NextTo(G, nb, a, sd, d) ==
  /\ DOMAIN d \subseteq G
  /\ \A x \in G : x \in nb[a] /\ x # a <=> x \in DOMAIN d /\ x # a /\ d[x] = sd + 1
  /\ \A x \in DOMAIN d : x # a => d[x] \in Int /\ d[x] >= sd + 1

LEMMA FirstRingOf ==
  ASSUME NEW G, IsFiniteSet(G), NEW nb \in [G -> SUBSET G], NEW a \in G,
         NEW sa \in SUBSET G, \A x : x \in sa <=> x = a,
         NEW sd \in Int, NEW d, d = BfsDepths(nb, sa, sd)
  PROVE  NextTo(G, nb, a, sd, d)
<1>1. PICK n : n = Cardinality(G) + 1 /\ n \in Nat /\ n >= 1
  BY FS_CardinalityType
<1>2. PICK W : Walks(G, nb, n, W)
  BY <1>1, WalksExist
<1>3. /\ DOMAIN d \subseteq G
      /\ \A x \in G : x \in DOMAIN d <=> \E k \in 0..n : Nearest(W, a, x, k)
      /\ \A x \in DOMAIN d : \A k \in 0..n : Nearest(W, a, x, k) => d[x] = sd + k
  <2>1. Shortest(G, W, n, a, sd, d)
    BY <1>1, <1>2, DepthsAreShortest
  <2> QED BY <2>1 DEF Shortest
<1>4. /\ \A x \in G : Walk(W, 0, a, x) <=> x = a
      /\ \A x \in G : Walk(W, 1, a, x) <=> x \in nb[a]
  <2>1. 1 \in 1..n /\ 1 - 1 = 0
    BY <1>1
  <2>2. \A x \in G : Walk(W, 1, a, x) <=> \E y \in G : Walk(W, 0, a, y) /\ x \in nb[y]
    BY <1>2, <2>1 DEF Walks
  <2> QED BY <1>2, <2>2 DEF Walks
<1>5. \A x \in G : Nearest(W, a, x, 1) <=> x \in nb[a] /\ x # a
  <2>1. \A j : j \in 0..(1 - 1) <=> j = 0
    OBVIOUS
  <2> QED BY <1>4, <2>1 DEF Nearest
<1>6. ASSUME NEW x \in G, x \in nb[a], x # a PROVE x \in DOMAIN d /\ d[x] = sd + 1
  <2>1. 1 \in 0..n /\ Nearest(W, a, x, 1)
    BY <1>1, <1>5, <1>6
  <2> QED BY <1>3, <2>1
<1>7. ASSUME NEW x \in DOMAIN d, x # a, d[x] = sd + 1 PROVE x \in nb[a]
  <2>1. PICK k \in 0..n : Nearest(W, a, x, k)
    BY <1>3
  <2>2. k = 1
    BY <1>3, <1>7, <2>1
  <2> QED BY <1>3, <1>5, <2>1, <2>2
<1>8. ASSUME NEW x \in DOMAIN d, x # a PROVE d[x] \in Int /\ d[x] >= sd + 1
  <2>1. PICK k \in 0..n : Nearest(W, a, x, k)
    BY <1>3
  <2>2. k # 0
    BY <1>3, <1>4, <1>8, <2>1 DEF Nearest
  <2> QED BY <1>3, <2>1, <2>2
<1> QED BY <1>3, <1>6, <1>7, <1>8 DEF NextTo

(* The two import graphs the verbs walk, where theories have names of their *)
(* own: the edges of one turned round are those of the other.               *)
Children == [n \in Names(sections) |->
  UNION {ResolveImport(u, Names(sections)) : u \in Header(sections[LastOf(sections, n)])}]
Importers == [n \in Names(sections) |-> {sections[i].name : i \in
  {j \in DOMAIN sections : \E u \in Header(sections[j]) : n \in ResolveImport(u, Names(sections))}}]

LEMMA ImportEdges ==
  ASSUME IsCorpus(sections), OwnNames
  PROVE  /\ Children \in [Names(sections) -> SUBSET Names(sections)]
         /\ Importers \in [Names(sections) -> SUBSET Names(sections)]
         /\ \A x, y \in Names(sections) : y \in Children[x] <=> x \in Importers[y]
         /\ \A i \in DOMAIN sections : /\ Children[sections[i].name] = Resolved(sections, i)
                                       /\ Importers[sections[i].name] = DirectUses(sections, i)
<1> DEFINE V == Names(sections)
<1>1. \A u : ResolveImport(u, V) \subseteq V
  <2>1. \A u : ImportCandidates(u, V) \subseteq V
    BY CandidatesAre
  <2> QED BY <2>1 DEF ResolveImport
<1>2. \A i \in DOMAIN sections : sections[i].name \in V
  BY DEF Names
<1>3. \A x \in V : \E i \in DOMAIN sections : sections[i].name = x
  BY DEF Names
<1>4. \A i \in DOMAIN sections : LastOf(sections, sections[i].name) = i
  <2>1. ASSUME NEW i \in DOMAIN sections PROVE LastOf(sections, sections[i].name) = i
    <3>1. i <= i
      BY CorpusIs
    <3>2. \A k \in DOMAIN sections :
             (sections[k].name = sections[i].name
                /\ \A j \in DOMAIN sections : sections[j].name = sections[i].name => j <= k) <=> k = i
      BY <3>1 DEF OwnNames
    <3> QED BY <3>2 DEF LastOf
  <2> QED BY <2>1
<1>5. \A i \in DOMAIN sections : Resolved(sections, i) \subseteq V
  BY <1>1 DEF Resolved
<1>6. ASSUME NEW i \in DOMAIN sections PROVE Children[sections[i].name] = Resolved(sections, i)
  BY <1>2, <1>4 DEF Children, Resolved
<1>7. \A i \in DOMAIN sections : \A x : x \in Resolved(sections, i) <=>
         \E u \in Header(sections[i]) : x \in ResolveImport(u, V)
  BY DEF Resolved
<1>8. ASSUME NEW x \in V
      PROVE  Importers[x] = {sections[j].name : j \in {k \in DOMAIN sections : x \in Resolved(sections, k)}}
  <2>1. {k \in DOMAIN sections : x \in Resolved(sections, k)}
          = {k \in DOMAIN sections : \E u \in Header(sections[k]) : x \in ResolveImport(u, V)}
    BY <1>7
  <2> QED BY <2>1, Zenon DEF Importers
<1>9. \A i \in DOMAIN sections : Importers[sections[i].name] = DirectUses(sections, i)
  BY <1>2, <1>8 DEF DirectUses
<1>10. Children \in [V -> SUBSET V]
  <2>1. \A x \in V : Children[x] \in SUBSET V
    BY <1>3, <1>5, <1>6
  <2> QED BY <2>1 DEF Children
<1>11. Importers \in [V -> SUBSET V]
  <2>1. \A x \in V : Importers[x] \in SUBSET V
    BY <1>2, <1>8
  <2> QED BY <2>1 DEF Importers
<1>12. ASSUME NEW x \in V, NEW y \in V PROVE y \in Children[x] <=> x \in Importers[y]
  <2>1. PICK i \in DOMAIN sections : sections[i].name = x
    BY <1>3
  <2>2. y \in Children[x] <=> y \in Resolved(sections, i)
    BY <1>6, <2>1
  <2>3. x \in Importers[y] <=> \E j \in DOMAIN sections : y \in Resolved(sections, j) /\ sections[j].name = x
    BY <1>8
  <2> QED BY <2>1, <2>2, <2>3 DEF OwnNames
<1> QED BY <1>6, <1>9, <1>10, <1>11, <1>12

LEMMA CorpusDepsMirror ==
  ASSUME IsCorpus(sections)
  PROVE  DepsMirrorUses
<1> SUFFICES ASSUME OwnNames, NEW i \in DOMAIN sections, NEW j \in DOMAIN sections
             PROVE  LET a == sections[i].name  b == sections[j].name
                        down == ImportDepths(sections, a)
                        up == ImporterDepths(sections, b)
                    IN  /\ b \in DOMAIN down <=> a \in DOMAIN up
                        /\ b \in DOMAIN down => down[b] = up[a]
  BY DEF DepsMirrorUses, OwnNames
<1>1. PICK a, b, sa, sb, sd : a = sections[i].name /\ b = sections[j].name /\ sa = {a} /\ sb = {b} /\ sd = -1
  OBVIOUS
<1> DEFINE d == BfsDepths(Children, sa, sd)
           e == BfsDepths(Importers, sb, sd)
<1>2. ImportDepths(sections, a) = Without(d, a) /\ ImporterDepths(sections, b) = Without(e, b)
  BY <1>1 DEF ImportDepths, ImporterDepths, Children, Importers
<1>3. (b \in DOMAIN d <=> a \in DOMAIN e) /\ (b \in DOMAIN d => d[b] = e[a])
  <2>1. /\ a \in Names(sections) /\ b \in Names(sections) /\ sd \in Int
        /\ sa \in SUBSET Names(sections) /\ (\A x : x \in sa <=> x = a)
        /\ sb \in SUBSET Names(sections) /\ (\A x : x \in sb <=> x = b)
    BY <1>1 DEF Names
  <2>2. /\ Children \in [Names(sections) -> SUBSET Names(sections)]
        /\ Importers \in [Names(sections) -> SUBSET Names(sections)]
        /\ \A x, y \in Names(sections) : y \in Children[x] <=> x \in Importers[y]
    BY ImportEdges
  <2>3. IsFiniteSet(Names(sections))
    BY CorpusIs
  <2> QED BY <2>1, <2>2, <2>3, DepthsMirror
<1> HIDE DEF d, e
<1>4. /\ \A x : x \in DOMAIN Without(d, a) <=> x \in DOMAIN d /\ x # a
      /\ \A x \in DOMAIN Without(d, a) : Without(d, a)[x] = d[x]
      /\ \A x : x \in DOMAIN Without(e, b) <=> x \in DOMAIN e /\ x # b
      /\ \A x \in DOMAIN Without(e, b) : Without(e, b)[x] = e[x]
  BY DEF Without
<1>5. /\ b \in DOMAIN Without(d, a) <=> a \in DOMAIN Without(e, b)
      /\ b \in DOMAIN Without(d, a) => Without(d, a)[b] = Without(e, b)[a]
  BY <1>3, <1>4
<1> QED BY <1>1, <1>2, <1>5

LEMMA CorpusImportsAgree ==
  ASSUME IsCorpus(sections)
  PROVE  ImportVerbsAgree
<1> SUFFICES ASSUME OwnNames, NEW i \in DOMAIN sections
             PROVE  LET name == sections[i].name
                        Ring(depths) == {t \in DOMAIN depths : depths[t] = 0}
                        edges == {e \in ImportGraph(sections) : ~e.external /\ e.from # e.to}
                    IN  /\ DirectDeps(sections, i) = Ring(ImportDepths(sections, name))
                        /\ DirectDeps(sections, i) = {e.to : e \in {e \in edges : e.from = name}}
                        /\ DirectUses(sections, i) \ {name} = Ring(ImporterDepths(sections, name))
  BY DEF ImportVerbsAgree, OwnNames, Separate
<1>1. PICK a, sa, sd : a = sections[i].name /\ sa = {a} /\ sd = -1
  OBVIOUS
<1> DEFINE d == BfsDepths(Children, sa, sd)
           e == BfsDepths(Importers, sa, sd)
           Zeroes(depths) == {t \in DOMAIN depths : depths[t] = 0}
<1>2. ImportDepths(sections, a) = Without(d, a) /\ ImporterDepths(sections, a) = Without(e, a)
  BY <1>1 DEF ImportDepths, ImporterDepths, Children, Importers
<1>3. /\ a \in Names(sections) /\ sd \in Int
      /\ sa \in SUBSET Names(sections) /\ (\A x : x \in sa <=> x = a)
  BY <1>1 DEF Names
<1>4. /\ Children \in [Names(sections) -> SUBSET Names(sections)]
      /\ Importers \in [Names(sections) -> SUBSET Names(sections)]
      /\ Children[a] = Resolved(sections, i) /\ Importers[a] = DirectUses(sections, i)
  BY <1>1, ImportEdges
<1>5. IsFiniteSet(Names(sections))
  BY CorpusIs
<1>6. /\ DOMAIN d \subseteq Names(sections)
      /\ \A x \in Names(sections) : x \in Children[a] /\ x # a <=> x \in DOMAIN d /\ x # a /\ d[x] = sd + 1
  <2>1. NextTo(Names(sections), Children, a, sd, d)
    BY <1>3, <1>4, <1>5, FirstRingOf
  <2> QED BY <2>1 DEF NextTo
<1>7. /\ DOMAIN e \subseteq Names(sections)
      /\ \A x \in Names(sections) : x \in Importers[a] /\ x # a <=> x \in DOMAIN e /\ x # a /\ e[x] = sd + 1
  <2>1. NextTo(Names(sections), Importers, a, sd, e)
    BY <1>3, <1>4, <1>5, FirstRingOf
  <2> QED BY <2>1 DEF NextTo
<1>8. sd + 1 = 0
  BY <1>1
<1>9. Children[a] \subseteq Names(sections) /\ Importers[a] \subseteq Names(sections)
  BY <1>3, <1>4
<1> HIDE DEF d, e
<1>10. Zeroes(Without(d, a)) = Children[a] \ {a}
  BY <1>6, <1>8, <1>9 DEF Without
<1>11. Zeroes(Without(e, a)) = Importers[a] \ {a}
  BY <1>7, <1>8, <1>9 DEF Without
<1>12. DirectDeps(sections, i) = Children[a] \ {a}
  BY <1>1, <1>4 DEF DirectDeps
<1> DEFINE edges == {x \in ImportGraph(sections) : ~x.external /\ x.from # x.to}
<1>13. {x.to : x \in {y \in edges : y.from = a}} = Resolved(sections, i) \ {a}
  <2> DEFINE At(k, u) == LET found == ResolveImport(u, Names(sections)) IN
               {[from |-> sections[k].name, to |-> m, external |-> found = {}] :
                  m \in IF found = {} THEN {u.path} ELSE found}
             Of(k) == UNION {At(k, u) : u \in Header(sections[k])}
  <2>1. ImportGraph(sections) = UNION {Of(k) : k \in DOMAIN sections}
    BY DEF ImportGraph
  <2>2. ASSUME NEW k, NEW u, NEW x
        PROVE  x \in At(k, u) /\ ~x.external <=>
                 \E m \in ResolveImport(u, Names(sections)) : x = [from |-> sections[k].name, to |-> m, external |-> FALSE]
    <3> DEFINE found == ResolveImport(u, Names(sections))
               node(m, out) == [from |-> sections[k].name, to |-> m, external |-> out]
    <3>1. At(k, u) = {node(m, found = {}) : m \in IF found = {} THEN {u.path} ELSE found}
      OBVIOUS
    <3>2. \A m, out : node(m, out).external = out
      OBVIOUS
    <3> HIDE DEF node, found, At
    <3>3. CASE found = {}
      <4>1. (found = {}) <=> TRUE
        BY <3>3
      <4>2. PICK out : out = (found = {})
        OBVIOUS
      <4>3. At(k, u) = {node(m, out) : m \in {u.path}}
        BY <3>1, <3>3, <4>2
      <4>4. \A y \in At(k, u) : y.external = out
        BY <3>2, <4>3
      <4>5. \A y \in At(k, u) : y.external
        BY <3>3, <4>2, <4>4
      <4> QED BY <3>3, <4>5 DEF found
    <3>4. CASE found # {}
      <4>1. (found = {}) = FALSE
        BY <3>4
      <4>2. x \in At(k, u) <=> \E m \in found : x = node(m, FALSE)
        BY <3>1, <3>4, <4>1
      <4>3. \A m : ~node(m, FALSE).external
        BY <3>2
      <4>4. x \in At(k, u) /\ ~x.external <=> \E m \in found : x = node(m, FALSE)
        BY <4>2, <4>3
      <4> QED BY <4>4 DEF found, node
    <3> QED BY <3>3, <3>4
  <2> HIDE DEF At
  <2>3. \A k, x : x \in Of(k) <=> \E u \in Header(sections[k]) : x \in At(k, u)
    OBVIOUS
  <2> HIDE DEF Of
  <2>4. \A x : x \in ImportGraph(sections) <=> \E k \in DOMAIN sections : x \in Of(k)
    BY <2>1
  <2>5. \A k, m : m \in Resolved(sections, k) <=>
           \E u \in Header(sections[k]) : m \in ResolveImport(u, Names(sections))
    BY DEF Resolved
  <2>6. ASSUME NEW x \in edges, x.from = a PROVE x.to \in Resolved(sections, i) \ {a}
    <3>1. x \in ImportGraph(sections) /\ ~x.external /\ x.to # a
      BY <2>6
    <3>2. PICK k \in DOMAIN sections : x \in Of(k)
      BY <2>4, <3>1
    <3>3. PICK u \in Header(sections[k]) : x \in At(k, u)
      BY <2>3, <3>2
    <3>4. PICK m \in ResolveImport(u, Names(sections)) : x = [from |-> sections[k].name, to |-> m, external |-> FALSE]
      BY <2>2, <3>1, <3>3
    <3>5. x.from = sections[k].name /\ x.to = m
      BY <3>4
    <3>6. k = i
      BY <1>1, <2>6, <3>5 DEF OwnNames
    <3> QED BY <2>5, <3>1, <3>4, <3>5, <3>6
  <2>7. ASSUME NEW m \in Resolved(sections, i), m # a PROVE \E x \in edges : x.from = a /\ x.to = m
    <3> DEFINE x == [from |-> a, to |-> m, external |-> FALSE]
    <3>1. PICK u \in Header(sections[i]) : m \in ResolveImport(u, Names(sections))
      BY <2>5, <2>7
    <3>2. x \in At(i, u) /\ ~x.external /\ x.from = a /\ x.to = m
      BY <1>1, <2>2, <3>1
    <3> HIDE DEF x
    <3>3. x \in ImportGraph(sections)
      BY <2>3, <2>4, <3>1, <3>2
    <3> QED BY <2>7, <3>2, <3>3
  <2> HIDE DEF edges
  <2> QED BY <2>6, <2>7
<1> QED BY <1>1, <1>2, <1>4, <1>10, <1>11, <1>12, <1>13

-----------------------------------------------------------------------------
(* The lines of a file, and the last of some of them. *)
LEMMA LinesAre ==
  ASSUME IsCorpus(sections), NEW i \in DOMAIN sections
  PROVE  /\ Len(sections[i].lines) \in Nat
         /\ Lines(sections[i]) = 1..Len(sections[i].lines)
         /\ DeclLines(sections[i]) \subseteq Lines(sections[i])
         /\ \A d \in DeclLines(sections[i]) : IsDecl(sections[i].lines[d])
<1>1. IsSection(sections[i])
  BY DEF IsCorpus
<1>2. sections[i].lines \in Seq(Range(sections[i].lines))
  BY <1>1 DEF IsSection, IsSequence
<1>3. Len(sections[i].lines) \in Nat
  BY <1>2, LenProperties
<1> QED BY <1>3 DEF Lines, DeclLines

LEMMA GreatestIs ==
  ASSUME NEW n \in Nat, NEW S, S \subseteq 1..n, S # {}
  PROVE  \E m \in S : \A k \in S : k <= m
<1> DEFINE T == {n - k : k \in S}
<1>1. T \subseteq Nat /\ T # {}
  <2>1. \A k \in S : k \in 1..n /\ n - k \in Nat
    OBVIOUS
  <2> QED BY <2>1
<1> HIDE DEF T
<1>2. PICK t \in T : \A k \in T : t <= k
  BY <1>1, LeastIs
<1>3. PICK m \in S : t = n - m
  BY <1>2 DEF T
<1>4. \A k \in S : n - k \in T
  BY DEF T
<1>5. \A k \in S : k \in Int /\ k <= m
  BY <1>2, <1>3, <1>4
<1> QED BY <1>5

(* The entry at a line declares what the line speaks for. *)
LEMMA EntryIs ==
  ASSUME IsCorpus(sections), NEW i \in DOMAIN sections, NEW l, NEW d \in EntryAtLine(sections[i], l)
  PROVE  d \in DeclLines(sections[i])
<1> DEFINE before == {x \in DeclLines(sections[i]) : SrcStart(sections[i], x) <= l}
           last == CHOOSE x \in before : \A y \in before : y <= x
<1>1. before # {} /\ d = last
  BY DEF EntryAtLine
<1>2. before \subseteq 1..Len(sections[i].lines) /\ Len(sections[i].lines) \in Nat
  BY LinesAre
<1> HIDE DEF before
<1>3. last \in before
  BY <1>1, <1>2, GreatestIs
<1> QED BY <1>1, <1>3 DEF before

LEMMA CallerDeclared ==
  ASSUME IsCorpus(sections), NamesApart, NEW i \in DOMAIN sections, NEW l,
         NEW c \in AllNames(sections), c \in CallerOf(sections, i, l)
  PROVE  /\ Declares(i, c)
         /\ \E d \in EntryAtLine(sections[i], l) : d \in DeclLines(sections[i]) /\ sections[i].lines[d].name = c
<1>1. c # TopLevel(i)
  BY DEF NamesApart
<1>2. PICK d \in EntryAtLine(sections[i], l) : sections[i].lines[d].name = c
  BY <1>1 DEF CallerOf
<1>3. d \in DeclLines(sections[i])
  BY EntryIs
<1> QED BY <1>2, <1>3 DEF Declares

(* The declarations of a name, and the files that declare it. *)
DeclaredBy(n, mine) ==
  /\ \A d \in mine :
       /\ d.sec \in DOMAIN sections /\ d.line \in DeclLines(sections[d.sec])
       /\ d.name = n /\ sections[d.sec].lines[d.line].name = n /\ Declares(d.sec, n)
  /\ \A i \in DOMAIN sections : \A l \in DeclLines(sections[i]) : sections[i].lines[l].name = n =>
       \E d \in mine : d.sec = i /\ d.line = l
  /\ n \in AllNames(sections) => mine # {}
  /\ n # Anonymous /\ mine # {} => n \in AllNames(sections)

LEMMA DeclaredIs ==
  ASSUME NEW n
  PROVE  DeclaredBy(n, Named(Declarations(sections, FALSE), n))
<1> DEFINE Rec(i, l) == [sec |-> i, line |-> l, name |-> sections[i].lines[l].name,
                         private |-> sections[i].lines[l].private]
           decls == Declarations(sections, FALSE)
           mine == Named(decls, n)
<1>1. \A d : d \in decls <=> \E i \in DOMAIN sections : \E l \in DeclLines(sections[i]) : d = Rec(i, l)
  BY DeclarationsAre
<1>2. \A i, l : /\ Rec(i, l).sec = i /\ Rec(i, l).line = l
                /\ Rec(i, l).name = sections[i].lines[l].name
  OBVIOUS
<1>3. \A d : d \in mine <=> d \in decls /\ d.name = n
  BY DEF Named
<1> HIDE DEF Rec, decls, mine
<1>4. ASSUME NEW d \in mine
      PROVE  /\ d.sec \in DOMAIN sections /\ d.line \in DeclLines(sections[d.sec])
             /\ d.name = n /\ sections[d.sec].lines[d.line].name = n
  <2>1. d \in decls /\ d.name = n
    BY <1>3, <1>4
  <2>2. PICK i \in DOMAIN sections : \E l \in DeclLines(sections[i]) : d = Rec(i, l)
    BY <1>1, <2>1
  <2>3. PICK l \in DeclLines(sections[i]) : d = Rec(i, l)
    BY <2>2
  <2> QED BY <1>2, <2>1, <2>3
<1>5. ASSUME NEW i \in DOMAIN sections, NEW l \in DeclLines(sections[i]), sections[i].lines[l].name = n
      PROVE  \E d \in mine : d.sec = i /\ d.line = l
  <2>1. Rec(i, l) \in decls
    BY <1>1
  <2>2. Rec(i, l) \in mine
    BY <1>2, <1>3, <1>5, <2>1
  <2> QED BY <1>2, <2>2
<1>6. \A x : x \in AllNames(sections) <=>
         x # Anonymous /\ \E i \in DOMAIN sections : \E l \in DeclLines(sections[i]) : sections[i].lines[l].name = x
  <2> DEFINE Of(i) == {sections[i].lines[l].name : l \in DeclLines(sections[i])}
  <2>1. \A i, x : x \in Of(i) <=> \E l \in DeclLines(sections[i]) : sections[i].lines[l].name = x
    OBVIOUS
  <2>2. AllNames(sections) = (UNION {Of(i) : i \in DOMAIN sections}) \ {Anonymous}
    BY DEF AllNames
  <2> HIDE DEF Of
  <2>3. PICK every : every = UNION {Of(i) : i \in DOMAIN sections}
    OBVIOUS
  <2>4. \A x : x \in every <=> \E i \in DOMAIN sections : x \in Of(i)
    BY <2>3
  <2>5. AllNames(sections) = every \ {Anonymous}
    BY <2>2, <2>3, Zenon
  <2>6. \A x : x \in AllNames(sections) <=> x # Anonymous /\ \E i \in DOMAIN sections : x \in Of(i)
    BY <2>4, <2>5
  <2> QED BY <2>1, <2>6
<1>7. \A d \in mine : Declares(d.sec, n)
  BY <1>4 DEF Declares
<1>8. n \in AllNames(sections) => mine # {}
  BY <1>5, <1>6
<1>9. n # Anonymous /\ mine # {} => n \in AllNames(sections)
  BY <1>4, <1>6
<1>10. DeclaredBy(n, mine)
  BY <1>4, <1>5, <1>7, <1>8, <1>9 DEF DeclaredBy
<1> QED BY <1>10 DEF mine, decls

(* Distances are numbers. *)
LEMMA DepthsAreNumbers ==
  ASSUME NEW secs, IsCorpus(secs), NEW t \in Names(secs), NEW d, d = Depths(secs, t), d # Unknown
  PROVE  \A x \in DOMAIN d : d[x] \in Int
<1> DEFINE V == Names(secs)
           adj == [x \in V |-> IF ReadImports(secs, x) = Unknown THEN {} ELSE ReadImports(secs, x)]
           b == BfsDepths(adj, {t}, 0)
<1>1. IsFiniteSet(V)
  BY CorpusIs
<1>2. adj \in [V -> SUBSET V]
  BY ImportsRead
<1>3. d = b
  BY DEF Depths
<1>4. {t} \in SUBSET V
  OBVIOUS
<1> HIDE DEF V, adj, b
<1>5. b = BfsDepths(adj, {t}, 0)
  BY DEF b
<1>6. PICK seeds, sd : seeds = {t} /\ sd = 0
  OBVIOUS
<1>7. seeds \in SUBSET V /\ sd \in Int /\ b = BfsDepths(adj, seeds, sd)
  BY <1>4, <1>5, <1>6
<1>8. Reached(V, adj, seeds, sd, b)
  BY <1>1, <1>2, <1>7, WalkReaches
<1> QED BY <1>3, <1>8 DEF Reached

(* An edge of the graph comes from a line of a file that declares the       *)
(* caller and whose theory sees the callee.                                 *)
LEMMA EdgeIs ==
  ASSUME IsCorpus(sections), NamesApart,
         NEW e \in CallGraph(sections, FALSE, TRUE), e.caller \in AllNames(sections)
  PROVE  /\ e.callee \in AllNames(sections)
         /\ \E i \in DOMAIN sections : \E l \in Lines(sections[i]) :
              /\ Declares(i, e.caller) /\ e.caller \in CallerOf(sections, i, l)
              /\ ~Noise(sections[i], l) /\ ~DefSite(sections[i], l, e.callee, FALSE)
              /\ \E m \in sections[i].lines[l].cites : Counts(m, FALSE) /\ m.name = e.callee
              /\ Sees(sections, Declarations(sections, FALSE), sections[i].name, e.callee)
<1> DEFINE Edge(i, l, c, n) == /\ e = [caller |-> c, callee |-> n]
                               /\ ~Noise(sections[i], l) /\ ~DefSite(sections[i], l, n, FALSE)
                               /\ Sees(sections, Declarations(sections, FALSE), sections[i].name, n)
<1>1. PICK i \in DOMAIN sections : \E l \in Lines(sections[i]) : \E c \in CallerOf(sections, i, l) :
         \E n \in UsedOn(sections[i].lines[l], AllNames(sections), FALSE) : Edge(i, l, c, n)
  BY EdgesAre
<1>2. PICK l \in Lines(sections[i]) : \E c \in CallerOf(sections, i, l) :
         \E n \in UsedOn(sections[i].lines[l], AllNames(sections), FALSE) : Edge(i, l, c, n)
  BY <1>1
<1>3. PICK c \in CallerOf(sections, i, l), n \in UsedOn(sections[i].lines[l], AllNames(sections), FALSE) : Edge(i, l, c, n)
  BY <1>2
<1>4. e.caller = c /\ e.callee = n
  BY <1>3
<1>5. n \in AllNames(sections) /\ \E m \in sections[i].lines[l].cites : Counts(m, FALSE) /\ m.name = n
  BY DEF UsedOn
<1>6. Declares(i, c)
  BY <1>4, CallerDeclared
<1> QED BY <1>3, <1>4, <1>5, <1>6

(* What one file can mean by a name, with the distances if all is known.    *)
CanMean(t, D, rows) ==
  /\ DOMAIN rows \subseteq D /\ DOMAIN rows # {}
  /\ \A d \in D : sections[d.sec].name = t => d \in DOMAIN rows
  /\ Depths(sections, t) # Unknown
       /\ (\E d \in D : sections[d.sec].name \in DOMAIN Depths(sections, t)
                        /\ (~d.private \/ sections[d.sec].name = t)) =>
       \A d \in DOMAIN rows : /\ sections[d.sec].name \in DOMAIN Depths(sections, t)
                              /\ rows[d] = Depths(sections, t)[sections[d.sec].name]

LEMMA VisibleIs ==
  ASSUME IsCorpus(sections), NEW t \in Names(sections), NEW D, D # {},
         NEW rows, rows = Visible(sections, D, {t})
  PROVE  CanMean(t, D, rows)
<1> DEFINE reach == Depths(sections, t)
           open == {d \in D : ~d.private \/ sections[d.sec].name \in {t}}
           pool == IF open = {} THEN D ELSE open
           Near(d) == {Depths(sections, u)[sections[d.sec].name] :
                         u \in {v \in {t} : sections[d.sec].name \in DOMAIN Depths(sections, v)}}
           near == {d \in pool : Near(d) # {}}
           Least(d) == CHOOSE k \in Near(d) : \A m \in Near(d) : k <= m
<1>1. rows = IF reach = Unknown \/ near = {} THEN [d \in pool |-> 0] ELSE [d \in near |-> Least(d)]
  BY DEF Visible
<1>2. \A d : Near(d) = IF sections[d.sec].name \in DOMAIN reach THEN {reach[sections[d.sec].name]} ELSE {}
  OBVIOUS
<1>3. open = {d \in D : ~d.private \/ sections[d.sec].name = t}
  OBVIOUS
<1>4. near = {d \in pool : sections[d.sec].name \in DOMAIN reach}
  BY <1>2
<1>5. pool \subseteq D /\ pool # {} /\ open \subseteq pool
  OBVIOUS
<1>6. reach # Unknown => t \in DOMAIN reach /\ \A x \in DOMAIN reach : reach[x] \in Int
  BY DepthsAre, DepthsAreNumbers
<1> HIDE DEF reach, open, pool, near
<1>7. \A d : sections[d.sec].name \in DOMAIN reach /\ reach # Unknown => Least(d) = reach[sections[d.sec].name]
  <2>1. ASSUME NEW d, sections[d.sec].name \in DOMAIN reach, reach # Unknown
        PROVE  Least(d) = reach[sections[d.sec].name]
    <3> DEFINE k == reach[sections[d.sec].name]
    <3>1. Near(d) = {k} /\ k \in Int
      BY <1>2, <1>6, <2>1
    <3> HIDE DEF Near, k
    <3>2. k \in Near(d) /\ \A m \in Near(d) : k <= m
      BY <3>1
    <3>3. Least(d) \in Near(d)
      BY <3>2
    <3> QED BY <3>1, <3>3 DEF k
  <2> QED BY <2>1
<1> HIDE DEF Near, Least
<1>8. DOMAIN rows = IF reach = Unknown \/ near = {} THEN pool ELSE near
  BY <1>1
<1>9. DOMAIN rows \subseteq D /\ DOMAIN rows # {}
  BY <1>4, <1>5, <1>8
<1>10. ASSUME NEW d \in D, sections[d.sec].name = t PROVE d \in DOMAIN rows
  BY <1>3, <1>4, <1>5, <1>6, <1>8, <1>10
<1>11. ASSUME reach # Unknown, NEW x \in D, sections[x.sec].name \in DOMAIN reach,
              ~x.private \/ sections[x.sec].name = t, NEW d \in DOMAIN rows
       PROVE  sections[d.sec].name \in DOMAIN reach /\ rows[d] = reach[sections[d.sec].name]
  <2>1. x \in near
    BY <1>3, <1>4, <1>5, <1>11
  <2>2. rows = [y \in near |-> Least(y)] /\ d \in near
    BY <1>1, <1>8, <1>11, <2>1
  <2> QED BY <1>4, <1>7, <1>11, <2>2
<1> QED BY <1>9, <1>10, <1>11 DEF reach, CanMean

-----------------------------------------------------------------------------
(* What the rows of a citation show. *)
LEMMA CorpusRowsAreRight ==
  ASSUME IsCorpus(sections)
  PROVE  RowsAreRight
<1> DEFINE decls == Declarations(sections, FALSE)
<1> SUFFICES ASSUME NamesApart, NEW e \in CallGraph(sections, FALSE, TRUE), e.caller \in AllNames(sections),
                    NEW rows, rows = SeenFrom(sections, e.caller, e.callee),
                    NEW homes, homes = {sections[d.sec].name : d \in {x \in decls : x.name = e.caller}}
             PROVE  /\ rows # <<>>
                    /\ Cardinality(homes) = 1 /\ (\A i \in DOMAIN sections : sections[i].readable) =>
                         \A h \in homes : \A d \in DOMAIN rows :
                           /\ sections[d.sec].name \in DOMAIN Depths(sections, h)
                           /\ rows[d] = Depths(sections, h)[sections[d.sec].name]
                    /\ \A i \in DOMAIN sections : \A l \in Lines(sections[i]) :
                         PlainUse(i, l, e.callee) /\ e.caller \in CallerOf(sections, i, l)
                           /\ Sees(sections, decls, sections[i].name, e.callee)
                         => \E d \in Seeing(sections, e.callee, e.caller) :
                                d.sec = i /\ d.line \in EntryAtLine(sections[i], l)
  BY DEF RowsAreRight
<1> DEFINE mine == Named(decls, e.callee)
           own == Named(decls, e.caller)
           public == {sections[d.sec].name : d \in {x \in mine : ~x.private}}
<1>1. rows = Visible(sections, mine, homes)
  BY DEF SeenFrom, Named
<1>2. \A x : x \in homes <=> \E d \in own : sections[d.sec].name = x
  BY DEF Named
<1>3. /\ DeclaredBy(e.callee, mine) /\ DeclaredBy(e.caller, own)
      /\ e.callee \in AllNames(sections)
  BY DeclaredIs, EdgeIs
<1>4. \A i \in DOMAIN sections : sections[i].name \in Names(sections)
  BY DEF Names
<1>5. \A t : Sees(sections, decls, t, e.callee) =>
         \/ mine = {}
         \/ \E d \in mine : sections[d.sec].name = t
         \/ public # {} /\ Depths(sections, t) = Unknown
         \/ Depths(sections, t) # Unknown /\ public \cap DOMAIN Depths(sections, t) # {}
  BY DEF Sees, Named
<1>6. \A x : x \in public <=> \E d \in mine : ~d.private /\ sections[d.sec].name = x
  OBVIOUS
<1>7. PICK i \in DOMAIN sections : Declares(i, e.caller) /\ Sees(sections, decls, sections[i].name, e.callee)
  BY EdgeIs
<1> HIDE DEF mine, own, public, decls
<1>8. /\ \A d \in mine : d.sec \in DOMAIN sections
      /\ \A d \in own : d.sec \in DOMAIN sections
      /\ mine # {} /\ own # {}
      /\ \A j \in DOMAIN sections : \A l \in DeclLines(sections[j]) : sections[j].lines[l].name = e.caller =>
           \E d \in own : d.sec = j /\ d.line = l
  BY <1>3 DEF DeclaredBy
<1>0. homes \subseteq Names(sections)
  <2> SUFFICES ASSUME NEW x \in homes PROVE x \in Names(sections)
    OBVIOUS
  <2>1. PICK d \in own : sections[d.sec].name = x
    BY <1>2
  <2>2. d.sec \in DOMAIN sections
    BY <1>8
  <2> QED BY <1>4, <2>1, <2>2
<1>9. rows # <<>>
  <2>1. DOMAIN rows # {}
    <3> DEFINE open == {d \in mine : ~d.private \/ sections[d.sec].name \in homes}
               pool == IF open = {} THEN mine ELSE open
               Near(d) == {Depths(sections, u)[sections[d.sec].name] :
                             u \in {v \in homes : sections[d.sec].name \in DOMAIN Depths(sections, v)}}
               near == {d \in pool : Near(d) # {}}
    <3>1. pool # {}
      BY <1>8
    <3>2. DOMAIN rows = pool \/ (near # {} /\ DOMAIN rows = near)
      <4> DEFINE Least(d) == CHOOSE k \in Near(d) : \A m \in Near(d) : k <= m
      <4>1. rows = IF (\E t \in homes : Depths(sections, t) = Unknown) \/ near = {}
                   THEN [d \in pool |-> 0] ELSE [d \in near |-> Least(d)]
        BY <1>1 DEF Visible
      <4> HIDE DEF near, pool, Least
      <4> QED BY <4>1
    <3> QED BY <3>1, <3>2
  <2>2. DOMAIN << >> = {}
    OBVIOUS
  <2> QED BY <2>1, <2>2
<1>10. ASSUME Cardinality(homes) = 1, \A j \in DOMAIN sections : sections[j].readable,
              NEW h \in homes, NEW d \in DOMAIN rows
       PROVE  /\ sections[d.sec].name \in DOMAIN Depths(sections, h)
              /\ rows[d] = Depths(sections, h)[sections[d.sec].name]
  <2>1. PICK t \in Names(sections) : t = h
    BY <1>0, <1>10
  <2>2. homes = {t}
    <3>1. IsFiniteSet(homes)
      <4>1. homes \subseteq Names(sections) /\ IsFiniteSet(Names(sections))
        BY <1>0, CorpusIs
      <4> QED BY <4>1, FS_Subset
    <3>2. \E x : homes = {x}
      BY <1>10, <3>1, FS_Singleton, Zenon
    <3>3. \A x \in homes : x = t
      BY <1>10, <2>1, <3>2, Zenon
    <3> QED BY <1>10, <2>1, <3>3
  <2>3. sections[i].name = t
    <3>1. PICK l \in DeclLines(sections[i]) : sections[i].lines[l].name = e.caller
      BY <1>7 DEF Declares
    <3>2. PICK x \in own : x.sec = i
      BY <1>8, <3>1
    <3> QED BY <1>2, <2>2, <3>2
  <2>4. Depths(sections, t) # Unknown
    BY <1>10, DepthsAre
  <2>5. t \in DOMAIN Depths(sections, t)
    BY <2>4, DepthsAre
  <2>6. \E x \in mine : sections[x.sec].name \in DOMAIN Depths(sections, t)
                       /\ (~x.private \/ sections[x.sec].name = t)
    BY <1>5, <1>6, <1>7, <1>8, <2>3, <2>4, <2>5
  <2>7. rows = Visible(sections, mine, {t})
    BY <1>1, <2>2
  <2>8. CanMean(t, mine, rows)
    BY <1>8, <2>7, VisibleIs
  <2>9. sections[d.sec].name \in DOMAIN Depths(sections, t) /\ rows[d] = Depths(sections, t)[sections[d.sec].name]
    BY <1>10, <2>4, <2>6, <2>8 DEF CanMean
  <2> QED BY <2>1, <2>9
<1>11. ASSUME NEW j \in DOMAIN sections, NEW l \in Lines(sections[j]), e.caller \in CallerOf(sections, j, l),
              Sees(sections, decls, sections[j].name, e.callee)
       PROVE  \E d \in Seeing(sections, e.callee, e.caller) : d.sec = j /\ d.line \in EntryAtLine(sections[j], l)
  <2>1. PICK k \in EntryAtLine(sections[j], l) : k \in DeclLines(sections[j]) /\ sections[j].lines[k].name = e.caller
    BY <1>11, CallerDeclared
  <2>2. PICK d \in own : d.sec = j /\ d.line = k
    BY <1>8, <2>1
  <2> DEFINE targets == {sections[x.sec].name : x \in mine}
             Reaches(x) == Depths(sections, sections[x.sec].name)
             kept == {x \in own : targets \cap DOMAIN Reaches(x) # {}}
  <2>3. Seeing(sections, e.callee, e.caller) =
          IF Cardinality(own) < 2 \/ \E x \in own : Reaches(x) = Unknown THEN own
          ELSE IF kept = {} THEN own ELSE kept
    BY Zenon DEF Seeing, own, mine, decls, Named
  <2>4. PICK t \in Names(sections) : t = sections[j].name
    BY <1>4
  <2>5. Depths(sections, t) = Unknown \/ t \in DOMAIN Depths(sections, t)
    BY DepthsAre
  <2>6. \A x \in mine : sections[x.sec].name \in targets
    OBVIOUS
  <2>7. Reaches(d) = Depths(sections, t)
    BY <2>2, <2>4
  <2>8. d \in kept <=> targets \cap DOMAIN Reaches(d) # {}
    OBVIOUS
  <2> HIDE DEF kept, Reaches, targets
  <2>9. Depths(sections, t) = Unknown \/ targets \cap DOMAIN Depths(sections, t) # {}
    BY <1>5, <1>6, <1>8, <1>11, <2>4, <2>5, <2>6
  <2>10. d \in Seeing(sections, e.callee, e.caller)
    BY <2>2, <2>3, <2>7, <2>8, <2>9
  <2> QED BY <2>1, <2>2, <2>10
<1> QED BY <1>9, <1>10, <1>11 DEF decls

-----------------------------------------------------------------------------
(* There is a first declaration in load order. *)
LEMMA FirstIs ==
  ASSUME IsCorpus(sections), NEW D, D # {},
         \A d \in D : d.sec \in DOMAIN sections /\ d.line \in DeclLines(sections[d.sec])
  PROVE  FirstOf(D) \in D
<1> DEFINE Secs == {d.sec : d \in D}
<1>1. Secs \subseteq Nat /\ Secs # {}
  <2>1. DOMAIN sections \subseteq Nat
    BY CorpusIs
  <2> QED BY <2>1
<1>2. \A d \in D : d.sec \in Secs
  OBVIOUS
<1>3. \A s \in Secs : \E d \in D : d.sec = s
  OBVIOUS
<1> HIDE DEF Secs
<1>4. PICK s \in Secs : \A t \in Secs : s <= t
  BY <1>1, LeastIs
<1> DEFINE Here == {d.line : d \in {x \in D : x.sec = s}}
<1>5. Here \subseteq Nat /\ Here # {}
  <2>1. \A i \in DOMAIN sections : \A l \in DeclLines(sections[i]) : l \in Nat
    BY LinesAre
  <2>2. \A d \in D : d.line \in Nat
    BY <2>1
  <2> QED BY <1>3, <2>2
<1>6. \A d \in D : d.sec = s => d.line \in Here
  OBVIOUS
<1>7. \A l \in Here : \E d \in D : d.sec = s /\ d.line = l
  OBVIOUS
<1> HIDE DEF Here
<1>8. PICK l \in Here : \A k \in Here : l <= k
  BY <1>5, LeastIs
<1>9. PICK d \in D : d.sec = s /\ d.line = l
  BY <1>7
<1>10. \A e \in D : d.sec < e.sec \/ (d.sec = e.sec /\ d.line <= e.line)
  <2>1. \A e \in D : e.sec \in Secs /\ s <= e.sec /\ e.sec \in Nat /\ s \in Nat
    BY <1>1, <1>2, <1>4
  <2>2. \A e \in D : e.sec = s => l <= e.line
    BY <1>6, <1>8
  <2>3. \A e \in D : s < e.sec \/ e.sec = s
    BY <2>1
  <2> QED BY <1>9, <2>2, <2>3
<1> QED BY <1>9, <1>10 DEF FirstOf

(* An entry reaches over its first line. *)
LEMMA ReachesItself ==
  ASSUME IsCorpus(sections), NEW i \in DOMAIN sections, NEW d \in DeclLines(sections[i])
  PROVE  d \in Lines(sections[i]) /\ d <= Stop(sections[i], d)
<1> DEFINE n == Len(sections[i].lines)
           ends == {SrcStart(sections[i], e) : e \in {l \in Lines(sections[i]) : IsDecl(sections[i].lines[l])}}
                     \cup {l \in Lines(sections[i]) : sections[i].lines[l].kind = "outer"}
           later == {l \in ends : l > d}
           least == CHOOSE l \in later : \A m \in later : l <= m
<1>1. n \in Nat /\ Lines(sections[i]) = 1..n /\ d \in Lines(sections[i])
  BY LinesAre
<1>2. Stop(sections[i], d) = IF later = {} THEN n ELSE least - 1
  BY DEF Stop
<1>3. ends \subseteq Nat
  <2>1. \A e \in 1..n : SrcStart(sections[i], e) \in Nat
    BY <1>1 DEF SrcStart
  <2> QED BY <1>1, <2>1
<1>4. later # {} => least \in later
  <2>1. later \subseteq Nat
    BY <1>3
  <2> HIDE DEF later
  <2> QED BY <2>1, LeastIs
<1>5. \A l \in later : l \in Nat /\ l > d
  BY <1>3
<1> HIDE DEF later, least, n
<1> QED BY <1>1, <1>2, <1>4, <1>5

LEMMA DefSiteIs ==
  ASSUME IsCorpus(sections), NEW i \in DOMAIN sections, NEW n
  PROVE  (\E k \in Lines(sections[i]) : DefSite(sections[i], k, n, FALSE)) <=> Declares(i, n)
<1>1. ASSUME NEW k, DefSite(sections[i], k, n, FALSE) PROVE Declares(i, n)
  BY <1>1 DEF DefSite, Declares
<1>2. ASSUME NEW d \in DeclLines(sections[i]), sections[i].lines[d].name = n
      PROVE  d \in Lines(sections[i]) /\ DefSite(sections[i], d, n, FALSE)
  <2>1. d \in Lines(sections[i]) /\ d <= Stop(sections[i], d)
    BY ReachesItself
  <2>2. d \in Int
    BY <2>1, LinesAre
  <2> QED BY <1>2, <2>1, <2>2 DEF DefSite
<1> QED BY <1>1, <1>2 DEF Declares

(* A hit is a line of a file. *)
LEMMA HitsAreSites ==
  ASSUME NEW n, NEW external, NEW h \in FindCallers(sections, n, external)
  PROVE  /\ h.sec \in DOMAIN sections /\ h = [sec |-> h.sec, line |-> h.line]
         /\ ~DefSite(sections[h.sec], h.line, n, TRUE)
<1> DEFINE HitLines(j) == {k \in Lines(sections[j]) : /\ n \in UsedOn(sections[j].lines[k], {n}, FALSE)
                                                   /\ ~DefSite(sections[j], k, n, TRUE)
                                                   /\ ~Noise(sections[j], k)}
           Of(j) == {[sec |-> j, line |-> k] : k \in HitLines(j)}
           Open == {j \in DOMAIN sections :
                      /\ Admits(sections, n, sections[j].name)
                      /\ ~(external /\ \E k \in Lines(sections[j]) : DefSite(sections[j], k, n, TRUE))}
<1>1. FindCallers(sections, n, external) = UNION {Of(j) : j \in Open}
  BY DEF FindCallers
<1>2. \A j : \A k \in HitLines(j) : ~DefSite(sections[j], k, n, TRUE)
  OBVIOUS
<1>3. \A j \in Open : j \in DOMAIN sections
  OBVIOUS
<1> HIDE DEF HitLines, Open
<1>4. \A j : \A x \in Of(j) : \E k \in HitLines(j) : x = [sec |-> j, line |-> k]
  OBVIOUS
<1> HIDE DEF Of
<1>5. PICK j \in Open : h \in Of(j)
  BY <1>1
<1>6. PICK k \in HitLines(j) : h = [sec |-> j, line |-> k]
  BY <1>4, <1>5
<1> QED BY <1>2, <1>3, <1>6

(* The hits of a name that no entry binds. *)
Unbound(n) == n \notin {d.name : d \in Declarations(sections, TRUE) \ Declarations(sections, FALSE)}
HitAt(n, external, i, l) ==
  /\ l \in Lines(sections[i])
  /\ \E m \in sections[i].lines[l].cites : Counts(m, FALSE) /\ m.name = n
  /\ ~DefSite(sections[i], l, n, FALSE) /\ ~Noise(sections[i], l)
  /\ Sees(sections, Declarations(sections, FALSE), sections[i].name, n)
  /\ ~(external /\ \E k \in Lines(sections[i]) : DefSite(sections[i], k, n, FALSE))

LEMMA HitsAre ==
  ASSUME NEW n, Unbound(n), NEW external, NEW i \in DOMAIN sections, NEW l
  PROVE  [sec |-> i, line |-> l] \in FindCallers(sections, n, external) <=> HitAt(n, external, i, l)
<1> DEFINE decls == Declarations(sections, FALSE)
           Seen(j) == Sees(sections, decls, sections[j].name, n)
           Used(j, k) == \E m \in sections[j].lines[k].cites : Counts(m, FALSE) /\ m.name = n
           Own(j) == \E k \in Lines(sections[j]) : DefSite(sections[j], k, n, FALSE)
<1>0. n \notin {d.name : d \in Declarations(sections, TRUE) \ Declarations(sections, FALSE)}
  BY DEF Unbound
<1>1. \A j \in DOMAIN sections : Admits(sections, n, sections[j].name) <=> Seen(j)
  <2>1. {d \in Declarations(sections, TRUE) : d.name = n} = {d \in decls : d.name = n}
    BY <1>0, UnboundIs
  <2>2. \A t : Sees(sections, Declarations(sections, TRUE), t, n) <=> Sees(sections, decls, t, n)
    <3> HIDE DEF decls
    <3> QED BY <2>1, Zenon DEF Sees
  <2>3. (\E d \in Declarations(sections, TRUE) : d.name = n) \/ \A t : Sees(sections, decls, t, n)
    <3> HIDE DEF decls
    <3> QED BY <2>1 DEF Sees
  <2> QED BY <2>2, <2>3 DEF Admits
<1> DEFINE HitLines(j) == {k \in Lines(sections[j]) : /\ n \in UsedOn(sections[j].lines[k], {n}, FALSE)
                                                   /\ ~DefSite(sections[j], k, n, TRUE)
                                                   /\ ~Noise(sections[j], k)}
           Of(j) == {[sec |-> j, line |-> k] : k \in HitLines(j)}
           Open == {j \in DOMAIN sections :
                      /\ Admits(sections, n, sections[j].name)
                      /\ ~(external /\ \E k \in Lines(sections[j]) : DefSite(sections[j], k, n, TRUE))}
<1>2. FindCallers(sections, n, external) = UNION {Of(j) : j \in Open}
  BY DEF FindCallers
<1>3. \A j \in DOMAIN sections : \A k : k \in HitLines(j) <=>
         k \in Lines(sections[j]) /\ Used(j, k) /\ ~DefSite(sections[j], k, n, FALSE) /\ ~Noise(sections[j], k)
  BY <1>0, UnboundIs DEF UsedOn
<1> HIDE DEF HitLines
<1>4. \A j, h : h \in Of(j) <=> \E k \in HitLines(j) : h = [sec |-> j, line |-> k]
  OBVIOUS
<1>5. \A j \in DOMAIN sections : j \in Open <=> Seen(j) /\ ~(external /\ Own(j))
  BY <1>0, <1>1, UnboundIs
<1>6. \A j \in Open : j \in DOMAIN sections
  OBVIOUS
<1> DEFINE h == [sec |-> i, line |-> l]
<1>7. \A j : h \in Of(j) <=> j = i /\ l \in HitLines(i)
  <2>1. \A j, k : h = [sec |-> j, line |-> k] <=> i = j /\ l = k
    OBVIOUS
  <2> HIDE DEF h
  <2> QED BY <1>4, <2>1
<1> HIDE DEF Of, Open, h
<1>8. h \in FindCallers(sections, n, external) <=> \E j \in Open : h \in Of(j)
  BY <1>2
<1>9. h \in FindCallers(sections, n, external) <=> i \in Open /\ l \in HitLines(i)
  BY <1>7, <1>8
<1> HIDE DEF Seen, Used, Own
<1>10. h \in FindCallers(sections, n, external) <=>
         /\ l \in Lines(sections[i]) /\ Used(i, l)
         /\ ~DefSite(sections[i], l, n, FALSE) /\ ~Noise(sections[i], l)
         /\ Seen(i) /\ ~(external /\ Own(i))
  BY <1>3, <1>5, <1>9
<1> QED BY <1>10 DEF h, Seen, Used, Own, decls, HitAt

(* What a caller prints of its own file is what its file declares.          *)
LEMMA CorpusExternalMirrors ==
  ASSUME IsCorpus(sections)
  PROVE  ExternalMirrors
<1> DEFINE graph == Graph(sections)
           entries == Declarations(sections, FALSE)
           bound == {d.name : d \in Declarations(sections, TRUE) \ entries}
           homesOf(n) == {d.sec : d \in Named(entries, n)}
<1> SUFFICES ASSUME NamesApart, OwnNames, NEW e \in graph, e.caller \in AllNames(sections),
                    Cardinality(homesOf(e.caller)) = 1, e.callee \notin bound
             PROVE  e.callee \in ExternalCallees(sections, graph, e.caller)
                      <=> \E h \in FindCallers(sections, e.callee, TRUE) : e.caller \in CallerOf(sections, h.sec, h.line)
  BY DEF ExternalMirrors, CitationGraph
<1> DEFINE c == e.caller
           u == e.callee
           own == Named(entries, c)
           mine == Named(entries, u)
<1>1. e \in CallGraph(sections, FALSE, TRUE)
  BY DEF Graph
<1>2. u \in AllNames(sections) /\ DeclaredBy(c, own) /\ DeclaredBy(u, mine)
  BY <1>1, EdgeIs, DeclaredIs
<1>3. PICK i \in DOMAIN sections : \E l \in Lines(sections[i]) :
         /\ Declares(i, c) /\ c \in CallerOf(sections, i, l)
         /\ ~Noise(sections[i], l) /\ ~DefSite(sections[i], l, u, FALSE)
         /\ \E m \in sections[i].lines[l].cites : Counts(m, FALSE) /\ m.name = u
         /\ Sees(sections, entries, sections[i].name, u)
  BY <1>1, EdgeIs
<1>4. PICK l \in Lines(sections[i]) :
         /\ Declares(i, c) /\ c \in CallerOf(sections, i, l)
         /\ ~Noise(sections[i], l) /\ ~DefSite(sections[i], l, u, FALSE)
         /\ \E m \in sections[i].lines[l].cites : Counts(m, FALSE) /\ m.name = u
         /\ Sees(sections, entries, sections[i].name, u)
  BY <1>3
<1>5. \A s : s \in homesOf(c) <=> \E d \in own : d.sec = s
  OBVIOUS
<1>6. Cardinality(homesOf(c)) = 1
  OBVIOUS
<1> HIDE DEF own, mine, homesOf
<1>7. \A j \in DOMAIN sections : Declares(j, c) => j \in homesOf(c)
  <2>1. ASSUME NEW j \in DOMAIN sections, NEW k \in DeclLines(sections[j]), sections[j].lines[k].name = c
        PROVE  j \in homesOf(c)
    <3>1. PICK d \in own : d.sec = j
      BY <1>2, <2>1 DEF DeclaredBy
    <3> QED BY <1>5, <3>1
  <2> QED BY <2>1 DEF Declares
<1>8. \A s \in homesOf(c) : s = i
  <2>1. homesOf(c) \subseteq DOMAIN sections /\ IsFiniteSet(DOMAIN sections)
    BY <1>2, <1>5, CorpusIs DEF DeclaredBy
  <2>2. IsFiniteSet(homesOf(c))
    BY <2>1, FS_Subset
  <2>3. i \in homesOf(c)
    BY <1>4, <1>7
  <2> QED BY <1>6, <2>2, <2>3, FS_Singleton
<1>9. u \in ExternalCallees(sections, graph, c) <=> ~Declares(i, u)
  <2> DEFINE rows == SeenFrom(sections, c, u)
             far == \A d \in DOMAIN rows : TheoryOf(sections, d) # TheoryOf(sections, FirstOf(own))
  <2>1. u \in ExternalCallees(sections, graph, c) <=> far
    <3>1. u \in CalleesOf(graph, c)
      BY <1>1 DEF CalleesOf
    <3> HIDE DEF graph
    <3> QED BY <3>1 DEF ExternalCallees, own
  <2>2. PICK t \in Names(sections) : t = sections[i].name
    BY DEF Names
  <2>3. TheoryOf(sections, FirstOf(own)) = t
    <3>1. FirstOf(own) \in own
      BY <1>2, FirstIs DEF DeclaredBy
    <3> QED BY <1>5, <1>8, <2>2, <3>1 DEF TheoryOf
  <2>4. {sections[d.sec].name : d \in own} = {t}
    <3>1. \A d \in own : d.sec = i
      BY <1>5, <1>8
    <3>2. \E d \in own : d.sec = i
      BY <1>4, <1>5, <1>7
    <3> QED BY <2>2, <3>1, <3>2
  <2>5. rows = Visible(sections, mine, {t})
    <3>1. rows = Visible(sections, mine, {sections[d.sec].name : d \in own})
      BY DEF SeenFrom, mine, own, Named
    <3> HIDE DEF rows
    <3> QED BY <2>4, <3>1
  <2> HIDE DEF rows
  <2>6. mine # {}
    BY <1>2 DEF DeclaredBy
  <2>7. CanMean(t, mine, rows)
    BY <2>5, <2>6, VisibleIs
  <2>8. ASSUME Declares(i, u) PROVE ~far
    <3>1. PICK k \in DeclLines(sections[i]) : sections[i].lines[k].name = u
      BY <2>8 DEF Declares
    <3>2. PICK d \in mine : d.sec = i
      BY <1>2, <3>1 DEF DeclaredBy
    <3>3. d \in DOMAIN rows
      BY <2>2, <2>7, <3>2 DEF CanMean
    <3> QED BY <2>2, <2>3, <3>2, <3>3 DEF TheoryOf
  <2>9. ASSUME NEW d \in DOMAIN rows, TheoryOf(sections, d) = t PROVE Declares(i, u)
    <3>1. d \in mine
      BY <2>7 DEF CanMean
    <3>2. d.sec \in DOMAIN sections /\ Declares(d.sec, u)
      BY <1>2, <3>1 DEF DeclaredBy
    <3>3. d.sec = i
      BY <2>2, <2>9, <3>2 DEF OwnNames, TheoryOf
    <3> QED BY <3>2, <3>3
  <2> QED BY <2>1, <2>3, <2>8, <2>9
<1>10. (\E h \in FindCallers(sections, u, TRUE) : c \in CallerOf(sections, h.sec, h.line)) <=> ~Declares(i, u)
  <2> DEFINE hits == FindCallers(sections, u, TRUE)
             Hit(j, k) == /\ k \in Lines(sections[j])
                          /\ \E m \in sections[j].lines[k].cites : Counts(m, FALSE) /\ m.name = u
                          /\ ~DefSite(sections[j], k, u, FALSE) /\ ~Noise(sections[j], k)
                          /\ Sees(sections, entries, sections[j].name, u)
                          /\ ~Declares(j, u)
  <2>1. \A j \in DOMAIN sections : \A k : [sec |-> j, line |-> k] \in hits <=> Hit(j, k)
    <3> TAKE j \in DOMAIN sections
    <3> TAKE k
    <3>1. Unbound(u)
      BY DEF Unbound
    <3>2. (\E x \in Lines(sections[j]) : DefSite(sections[j], x, u, FALSE)) <=> Declares(j, u)
      BY DefSiteIs
    <3>3. [sec |-> j, line |-> k] \in hits <=> HitAt(u, TRUE, j, k)
      BY <3>1, HitsAre
    <3> HIDE DEF hits
    <3> QED BY <3>2, <3>3 DEF HitAt
  <2>2. ASSUME ~Declares(i, u) PROVE \E h \in hits : c \in CallerOf(sections, h.sec, h.line)
    <3>1. [sec |-> i, line |-> l] \in hits
      BY <1>4, <2>1, <2>2
    <3> HIDE DEF hits
    <3> QED BY <1>4, <3>1
  <2>3. ASSUME NEW h \in hits, c \in CallerOf(sections, h.sec, h.line) PROVE ~Declares(i, u)
    <3>0. PICK j \in DOMAIN sections : j = h.sec /\ h = [sec |-> h.sec, line |-> h.line]
      BY <2>3, HitsAreSites
    <3>1. PICK k : h = [sec |-> j, line |-> k]
      BY <3>0
    <3>2. h.sec = j /\ h.line = k
      BY <3>1
    <3>3. Declares(j, c)
      BY <1>1, <2>3, <3>2, CallerDeclared
    <3>4. j = i
      BY <1>7, <1>8, <3>3
    <3> HIDE DEF hits
    <3> QED BY <2>1, <2>3, <3>1, <3>4
  <2> QED BY <2>2, <2>3
<1> QED BY <1>9, <1>10

-----------------------------------------------------------------------------
(* Declarations with the names they bind. *)
LEMMA BoundIs ==
  ASSUME NEW d \in Declarations(sections, TRUE)
  PROVE  /\ d.sec \in DOMAIN sections /\ d.line \in DeclLines(sections[d.sec])
         /\ \/ sections[d.sec].lines[d.line].name = d.name
            \/ d.name \in sections[d.sec].lines[d.line].binds
<1> DEFINE Rec(i, l, m) == [sec |-> i, line |-> l, name |-> m, private |-> sections[i].lines[l].private]
           Heads(i, l) == {sections[i].lines[l].name} \cup sections[i].lines[l].binds
           At(i, l) == {Rec(i, l, m) : m \in Heads(i, l)}
           Of(i) == UNION {At(i, l) : l \in DeclLines(sections[i])}
<1>1. Declarations(sections, TRUE) = UNION {Of(i) : i \in DOMAIN sections}
  BY DEF Declarations
<1>2. \A i, l, x : x \in At(i, l) <=> \E m \in Heads(i, l) : x = Rec(i, l, m)
  OBVIOUS
<1>3. \A i, l, m : Rec(i, l, m).sec = i /\ Rec(i, l, m).line = l /\ Rec(i, l, m).name = m
  OBVIOUS
<1>4. \A i, l, m : m \in Heads(i, l) => m = sections[i].lines[l].name \/ m \in sections[i].lines[l].binds
  OBVIOUS
<1> HIDE DEF At, Rec, Heads
<1>5. \A i, x : x \in Of(i) <=> \E l \in DeclLines(sections[i]) : x \in At(i, l)
  OBVIOUS
<1> HIDE DEF Of
<1>6. PICK i \in DOMAIN sections : d \in Of(i)
  BY <1>1
<1>7. PICK l \in DeclLines(sections[i]) : d \in At(i, l)
  BY <1>5, <1>6
<1>8. PICK m \in Heads(i, l) : d = Rec(i, l, m)
  BY <1>2, <1>7
<1>9. d.sec = i /\ d.line = l /\ d.name = m
  BY <1>3, <1>8
<1> QED BY <1>4, <1>8, <1>9

(* What `show' prints of an entry is the entry.                             *)
LEMMA CorpusShownExact ==
  ASSUME IsCorpus(sections)
  PROVE  ShownExact
<1> DEFINE entries == Declarations(sections, FALSE)
           decls == Declarations(sections, TRUE)
           Name(d) == sections[d.sec].lines[d.line].name
<1> SUFFICES ASSUME Separate, NEW n \in {d.name : d \in decls} \ {Anonymous}
             PROVE  /\ Subject(sections, n) \ {Anonymous} \subseteq {Name(d) : d \in Shown(sections, n)}
                    /\ \A d \in Shown(sections, n) :
                         LET text == TextOf(sections, d) IN
                         /\ text.sec = d.sec /\ d.line \in text.lines
                         /\ \A h \in FindCallers(sections, n, FALSE) : h.sec # text.sec \/ h.line \notin text.lines
  BY DEF ShownExact, ShownTold
<1> DEFINE declared == Named(entries, n)
           every == Named(decls, n)
           shown == IF declared # {} THEN declared ELSE every
<1>1. Shown(sections, n) = shown
  BY DEF Shown
<1>2. DeclaredBy(n, declared)
  BY DeclaredIs
<1>3. \A d \in every : /\ d.sec \in DOMAIN sections /\ d.line \in DeclLines(sections[d.sec])
                       /\ Name(d) = n \/ n \in sections[d.sec].lines[d.line].binds
  <2> SUFFICES ASSUME NEW d \in every
               PROVE  /\ d.sec \in DOMAIN sections /\ d.line \in DeclLines(sections[d.sec])
                      /\ Name(d) = n \/ n \in sections[d.sec].lines[d.line].binds
    OBVIOUS
  <2>1. d \in decls /\ d.name = n
    BY DEF Named
  <2> HIDE DEF decls, every
  <2> QED BY <2>1, BoundIs DEF decls
<1> HIDE DEF declared, every
<1>4. \A d \in shown : /\ d.sec \in DOMAIN sections /\ d.line \in DeclLines(sections[d.sec])
                       /\ Name(d) = n \/ n \in sections[d.sec].lines[d.line].binds
  BY <1>2, <1>3 DEF DeclaredBy
<1>5. Subject(sections, n) \ {Anonymous} \subseteq {Name(d) : d \in shown}
  <2>1. CASE n \in AllNames(sections)
    <3>1. Subject(sections, n) = {n}
      BY <2>1 DEF Subject
    <3>2. PICK d \in declared : Name(d) = n
      BY <1>2, <2>1 DEF DeclaredBy
    <3> QED BY <3>1, <3>2
  <2>2. CASE n \notin AllNames(sections)
    <3> DEFINE binders == {d \in decls : d.name = n /\ n \in sections[d.sec].lines[d.line].binds}
    <3>1. Subject(sections, n) = IF binders = {} THEN {} ELSE {Name(FirstOf(binders))}
      BY <2>2 DEF Subject, ResolveBinding
    <3>2. declared = {}
      BY <1>2, <2>2 DEF DeclaredBy
    <3>3. binders \subseteq every
      BY DEF Named, every
    <3>4. binders # {} => FirstOf(binders) \in binders
      <4> HIDE DEF binders
      <4> QED BY <1>3, <3>3, FirstIs
    <3> HIDE DEF binders
    <3> QED BY <3>1, <3>2, <3>3, <3>4
  <2> QED BY <2>1, <2>2
<1>6. ASSUME NEW d \in shown, NEW text, text = TextOf(sections, d)
      PROVE  /\ text.sec = d.sec /\ d.line \in text.lines
             /\ \A h \in FindCallers(sections, n, FALSE) : h.sec # text.sec \/ h.line \notin text.lines
  <2>1. PICK i \in DOMAIN sections : i = d.sec /\ d.line \in DeclLines(sections[i])
    BY <1>4
  <2>2. LastOf(sections, sections[i].name) = i
    <3> DEFINE Is(k) == sections[k].name = sections[i].name /\ \A j \in DOMAIN sections : sections[j].name = sections[i].name => j <= k
    <3>1. \A j \in DOMAIN sections : sections[j].name = sections[i].name => j = i
      BY DEF Separate, OwnNames
    <3>2. i \in Int
      BY CorpusIs
    <3>3. Is(i) /\ \A k \in DOMAIN sections : Is(k) => k = i
      BY <3>1, <3>2
    <3>4. LastOf(sections, sections[i].name) = CHOOSE k \in DOMAIN sections : Is(k)
      BY DEF LastOf
    <3> HIDE DEF Is
    <3> QED BY <3>3, <3>4
  <2>3. text = [sec |-> i, lines |-> {l \in Lines(sections[i]) : d.line <= l /\ l <= Stop(sections[i], d.line)}]
    BY <1>6, <2>1, <2>2 DEF TextOf, TheoryOf
  <2>4. text.sec = i /\ text.lines = {l \in Lines(sections[i]) : d.line <= l /\ l <= Stop(sections[i], d.line)}
    BY <2>3
  <2>5. d.line \in Lines(sections[i]) /\ d.line <= Stop(sections[i], d.line)
    BY <2>1, ReachesItself
  <2>6. d.line \in Int
    BY <2>5, LinesAre
  <2>7. ASSUME NEW h \in FindCallers(sections, n, FALSE), h.sec = i, h.line \in text.lines PROVE FALSE
    <3>1. ~DefSite(sections[i], h.line, n, TRUE)
      BY <2>7, HitsAreSites
    <3>2. DefSite(sections[i], h.line, n, TRUE)
      BY <1>4, <2>1, <2>4, <2>7 DEF DefSite
    <3> QED BY <3>1, <3>2
  <2>8. d.line \in text.lines
    BY <2>4, <2>5, <2>6
  <2>9. text.sec = d.sec
    BY <2>1, <2>4
  <2> QED BY <2>4, <2>7, <2>8, <2>9
<1> HIDE DEF shown
<1> QED BY <1>1, <1>5, <1>6

-----------------------------------------------------------------------------
(* The tail of a sequence, and what was appended. *)
LEMMA SuffixIs ==
  ASSUME NEW T, NEW s \in Seq(T), NEW k \in 0..Len(s)
  PROVE  Len(Suffix(s, k)) = k /\ (k = Len(s) => Suffix(s, k) = s)
<1>1. Len(s) \in Nat /\ \A i \in 1..Len(s) : s[i] \in T
  BY LenProperties, ElementOfSeq
<1>2. CASE k = Len(s)
  BY <1>1, <1>2 DEF Suffix
<1>3. CASE k < Len(s)
  <2>0. Len(s) - k + 1 \in Int /\ Len(s) \in Int
    BY <1>1
  <2>1. PICK m \in Int, n \in Int : m = Len(s) - k + 1 /\ n = Len(s)
    BY <2>0, Zenon
  <2>2. \A i \in m..n : s[i] \in T
    BY <1>1, <1>3, <2>1
  <2>3. Len(SubSeq(s, m, n)) = IF m <= n THEN n - m + 1 ELSE 0
    BY <2>2, SubSeqProperties
  <2>4. Suffix(s, k) = SubSeq(s, m, n)
    BY <1>1, <1>3, <2>1 DEF Suffix
  <2> QED BY <1>1, <1>3, <2>1, <2>3, <2>4
<1> QED BY <1>1, <1>2, <1>3

LEMMA AppendedIs ==
  ASSUME NEW T, NEW s \in Seq(T), NEW t \in Seq(T)
  PROVE  Suffix(s \o t, Len(t)) = t
<1> DEFINE u == s \o t
<1>1. Len(s) \in Nat /\ Len(t) \in Nat /\ \A i \in 1..Len(t) : t[i] \in T
  BY LenProperties, ElementOfSeq
<1>2. /\ u \in Seq(T) /\ Len(u) = Len(s) + Len(t)
      /\ \A i \in 1..(Len(s) + Len(t)) : u[i] = IF i <= Len(s) THEN s[i] ELSE t[i - Len(s)]
  BY ConcatProperties
<1>3. \A i \in 1..Len(u) : u[i] \in T
  BY <1>2, ElementOfSeq
<1> HIDE DEF u
<1>4. CASE Len(t) >= Len(u)
  <2>1. Len(s) = 0 /\ Len(u) = Len(t)
    BY <1>1, <1>2, <1>4
  <2>2. \A i \in 1..Len(u) : u[i] = t[i]
    BY <1>1, <1>2, <2>1
  <2>3. u = t
    BY <1>2, <2>1, <2>2, SeqEqual
  <2> QED BY <1>4, <2>3 DEF Suffix, u
<1>5. CASE ~(Len(t) >= Len(u))
  <2>1. PICK m \in Int, n \in Int : m = Len(u) - Len(t) + 1 /\ n = Len(u)
    BY <1>1, <1>2
  <2>2. m = Len(s) + 1 /\ n - m + 1 = Len(t)
    BY <1>1, <1>2, <2>1
  <2>3. \A i \in m..n : u[i] \in T
    BY <1>1, <1>3, <2>1, <2>2
  <2>4. /\ SubSeq(u, m, n) \in Seq(T)
        /\ Len(SubSeq(u, m, n)) = IF m <= n THEN n - m + 1 ELSE 0
        /\ \A i \in 1..(n - m + 1) : SubSeq(u, m, n)[i] = u[m + i - 1]
    BY <2>3, SubSeqProperties
  <2> DEFINE w == SubSeq(u, m, n)
  <2>5. Len(w) = Len(t)
    BY <1>1, <1>2, <2>1, <2>2, <2>4
  <2>6. \A i \in 1..Len(w) : w[i] = t[i]
    <3> SUFFICES ASSUME NEW i \in 1..Len(t) PROVE w[i] = t[i]
      BY <2>5
    <3>1. w[i] = u[m + i - 1]
      BY <2>2, <2>4
    <3>2. m + i - 1 \in 1..(Len(s) + Len(t)) /\ ~(m + i - 1 <= Len(s)) /\ m + i - 1 - Len(s) = i
      BY <1>1, <2>2
    <3>3. PICK j : j = m + i - 1
      OBVIOUS
    <3>4. j \in 1..(Len(s) + Len(t)) /\ ~(j <= Len(s)) /\ j - Len(s) = i
      BY <3>2, <3>3
    <3>5. u[j] = IF j <= Len(s) THEN s[j] ELSE t[j - Len(s)]
      BY <1>2, <3>4, Zenon
    <3>6. u[j] = t[i]
      BY <3>4, <3>5, Zenon
    <3> QED BY <3>1, <3>3, <3>6
  <2>7. Suffix(u, Len(t)) = w
    BY <1>5, <2>1 DEF Suffix
  <2> HIDE DEF w
  <2>8. w \in Seq(T)
    BY <2>4 DEF w
  <2>9. w = t
    BY <2>5, <2>6, <2>8, SeqEqual
  <2> QED BY <2>7, <2>9 DEF u
<1> QED BY <1>4, <1>5

(* A label ends with the name of its theory. *)
Chained(i) ==
  LET chain == LabelChain(sections[i])  name == sections[i].name IN
  /\ Len(name) \in Nat \ {0} /\ Len(chain) \in Nat /\ Len(name) <= Len(chain)
  /\ Suffix(chain, Len(name)) = name
  /\ \A k \in 0..Len(chain) : Len(Suffix(chain, k)) = k
  /\ Suffix(chain, Len(chain)) = chain

LEMMA ChainIs ==
  ASSUME IsCorpus(sections), NEW i \in DOMAIN sections
  PROVE  Chained(i)
<1> DEFINE name == sections[i].name
           dir == sections[i].dir
           k == Len(name) - 1
           base == IF k > 0 /\ Suffix(dir, k) = SubSeq(name, 1, k) /\ Len(dir) >= k
                   THEN SubSeq(dir, 1, Len(dir) - k) ELSE dir
           chain == LabelChain(sections[i])
           T == Range(name) \cup Range(dir)
<1>1. IsSection(sections[i])
  BY DEF IsCorpus
<1>2. name \in Seq(T) /\ dir \in Seq(T) /\ name # <<>>
  <2>1. name \in Seq(Range(name)) /\ dir \in Seq(Range(dir)) /\ name # <<>>
    BY <1>1 DEF IsSection, IsSequence
  <2> HIDE DEF name, dir
  <2>2. /\ Len(name) \in Nat /\ name \in [1..Len(name) -> Range(name)]
        /\ Len(dir) \in Nat /\ dir \in [1..Len(dir) -> Range(dir)]
    BY <2>1, LenProperties
  <2>3. name \in [1..Len(name) -> T] /\ dir \in [1..Len(dir) -> T]
    BY <2>2
  <2> QED BY <2>1, <2>2, <2>3, SeqDef
<1>3. chain = base \o name
  BY DEF LabelChain
<1> HIDE DEF name, dir, chain, T
<1>4. Len(name) \in Nat \ {0} /\ Len(dir) \in Nat /\ \A j \in 1..Len(dir) : dir[j] \in T
  BY <1>2, EmptySeq, LenProperties, ElementOfSeq
<1>5. base \in Seq(T)
  <2>1. CASE base = dir
    BY <1>2, <2>1
  <2>2. CASE k > 0 /\ Len(dir) >= k /\ base = SubSeq(dir, 1, Len(dir) - k)
    <3>1. PICK m \in Int, n \in Int : m = 1 /\ n = Len(dir) - k
      BY <1>4
    <3>2. \A j \in m..n : dir[j] \in T
      BY <1>4, <2>2, <3>1
    <3>3. SubSeq(dir, m, n) \in Seq(T)
      BY <3>2, SubSeqProperties
    <3> QED BY <2>2, <3>1, <3>3
  <2> QED BY <2>1, <2>2
<1> HIDE DEF base, k
<1>6. chain \in Seq(T) /\ Len(chain) = Len(base) + Len(name) /\ Len(base) \in Nat
  BY <1>2, <1>3, <1>5, ConcatProperties, LenProperties
<1>7. Suffix(chain, Len(name)) = name
  BY <1>2, <1>3, <1>5, AppendedIs
<1>8. \A j \in 0..Len(chain) : Len(Suffix(chain, j)) = j /\ (j = Len(chain) => Suffix(chain, j) = chain)
  BY <1>6, SuffixIs
<1>9. Len(chain) \in 0..Len(chain) /\ Len(chain) \in Nat /\ Len(name) <= Len(chain)
  BY <1>4, <1>6
<1> QED BY <1>4, <1>7, <1>8, <1>9 DEF Chained, chain, name

LEMMA FirstNamedIs ==
  ASSUME IsCorpus(sections), NEW i \in DOMAIN sections, NEW label
  PROVE  /\ SectionsOf(sections, label) = {i} => FirstNamed(sections, label) = {i}
         /\ SectionsOf(sections, label) = {} => FirstNamed(sections, label) = {}
<1>1. \A j : j \in SectionsOf(sections, label) <=> j \in DOMAIN sections /\ sections[j].name = label
  BY DEF SectionsOf
<1>2. \A j : j \in FirstNamed(sections, label) <=>
         j \in DOMAIN sections /\ sections[j].name = label /\ \A k \in 1..(j - 1) : sections[k].name # label
  BY DEF FirstNamed
<1>3. \A j \in DOMAIN sections : j \in Nat /\ \A k \in 1..(j - 1) : k \in DOMAIN sections /\ k # j
  BY CorpusIs
<1>4. ASSUME SectionsOf(sections, label) = {i} PROVE FirstNamed(sections, label) = {i}
  <2>1. sections[i].name = label /\ \A j \in DOMAIN sections : sections[j].name = label => j = i
    BY <1>1, <1>4
  <2>2. i \in FirstNamed(sections, label)
    BY <1>2, <1>3, <2>1
  <2>3. \A j \in FirstNamed(sections, label) : j = i
    BY <1>2, <2>1
  <2> QED BY <2>2, <2>3
<1>5. ASSUME SectionsOf(sections, label) = {} PROVE FirstNamed(sections, label) = {}
  BY <1>1, <1>2, <1>5
<1> QED BY <1>4, <1>5

(* The label a theory is printed with is a safe one, and the full label is. *)
LEMMA LabelIs ==
  ASSUME IsCorpus(sections), Placed, NEW i \in DOMAIN sections
  PROVE  ResolveTheory(sections, TheoryLabel(sections, i)) = {i}
<1> DEFINE Chain(j) == LabelChain(sections[j])
           n == Len(Chain(i))
           a == Len(sections[i].name)
           fit == {d \in a..n : SafeLabel(sections, i, d) \/ d >= n}
           depth == CHOOSE d \in fit : \A e \in fit : d <= e
           label == Suffix(Chain(i), depth)
           Bearing(d) == SectionsOf(sections, Suffix(Chain(i), d))
           Only(d) == \A j \in DOMAIN sections : Suffix(Chain(j), d) = Suffix(Chain(i), d) => j = i
<1>1. TheoryLabel(sections, i) = label
  BY DEF TheoryLabel
<1>2. /\ a \in Nat \ {0} /\ n \in Nat /\ a <= n /\ Suffix(Chain(i), a) = sections[i].name
      /\ \A d \in 0..n : Len(Suffix(Chain(i), d)) = d
      /\ Suffix(Chain(i), n) = Chain(i)
  BY ChainIs DEF Chained
<1>3. \A j \in DOMAIN sections : Suffix(Chain(j), Len(sections[j].name)) = sections[j].name
  BY ChainIs DEF Chained
<1>4. \A d : SafeLabel(sections, i, d) <=> IF Bearing(d) # {} THEN Bearing(d) = {i} ELSE Only(d)
  BY DEF SafeLabel
<1>5. \A j \in DOMAIN sections : Suffix(Chain(j), n) = Chain(i) => j = i
  BY DEF Placed
<1>6. \A d, j : j \in Bearing(d) <=> j \in DOMAIN sections /\ sections[j].name = Suffix(Chain(i), d)
  BY DEF SectionsOf
<1>7. depth \in a..n /\ (SafeLabel(sections, i, depth) \/ depth >= n)
  <2>1. fit \subseteq Nat /\ n \in fit
    BY <1>2
  <2>2. \A d \in fit : d \in a..n /\ (SafeLabel(sections, i, d) \/ d >= n)
    OBVIOUS
  <2> HIDE DEF fit
  <2>3. depth \in fit
    BY <2>1, LeastIs
  <2> QED BY <2>2, <2>3
<1> HIDE DEF Bearing, Only, depth, n, a, Chain
<1>8. SafeLabel(sections, i, n)
  <2>1. ASSUME NEW j \in Bearing(n) PROVE j = i
    <3>1. j \in DOMAIN sections /\ sections[j].name = Chain(i)
      BY <1>2, <1>6
    <3>2. Suffix(Chain(j), Len(Chain(i))) = Chain(i)
      BY <1>3, <3>1
    <3> QED BY <1>5, <3>1, <3>2 DEF n
  <2>2. Bearing(n) # {} => Bearing(n) = {i}
    BY <2>1
  <2>3. Only(n)
    BY <1>2, <1>5 DEF Only
  <2> QED BY <1>4, <2>2, <2>3
<1>9. SafeLabel(sections, i, depth)
  <2>1. depth >= n => depth = n
    BY <1>2, <1>7
  <2> QED BY <1>7, <1>8, <2>1
<1>10. Len(label) = depth /\ depth \in Nat \ {0}
  BY <1>2, <1>7
<1> DEFINE hits == {j \in DOMAIN sections : Suffix(LabelChain(sections[j]), Len(label)) = label}
<1>11. ResolveTheory(sections, label) =
         IF FirstNamed(sections, label) # {} THEN FirstNamed(sections, label)
         ELSE IF Len(label) > 1 /\ Cardinality(hits) = 1 THEN hits
         ELSE IF Len(label) > 1 THEN FirstNamed(sections, LeafOf(label))
         ELSE {}
  BY DEF ResolveTheory
<1>12. Bearing(depth) = SectionsOf(sections, label)
  BY DEF Bearing
<1>13. CASE Bearing(depth) # {}
  <2>1. SectionsOf(sections, label) = {i}
    BY <1>4, <1>9, <1>12, <1>13
  <2>2. FirstNamed(sections, label) = {i}
    BY <2>1, FirstNamedIs
  <2> QED BY <1>1, <1>11, <2>2
<1>14. CASE Bearing(depth) = {}
  <2>1. FirstNamed(sections, label) = {}
    BY <1>12, <1>14, FirstNamedIs
  <2>2. Only(depth)
    BY <1>4, <1>9, <1>14
  <2>3. hits = {i}
    <3>1. \A j \in DOMAIN sections : Suffix(Chain(j), depth) = label <=> j = i
      BY <2>2 DEF Only
    <3>2. \A j : j \in hits <=> j \in DOMAIN sections /\ Suffix(Chain(j), depth) = label
      BY <1>10 DEF Chain
    <3> HIDE DEF hits
    <3> QED BY <3>1, <3>2
  <2>4. Cardinality(hits) = 1
    BY <2>3, FS_Singleton
  <2>5. depth # 1
    <3>1. depth = 1 => a = 1
      BY <1>2, <1>7
    <3>2. depth = a => i \in Bearing(depth)
      BY <1>2, <1>6
    <3> QED BY <1>14, <3>1, <3>2
  <2>6. Len(label) > 1
    BY <1>10, <2>5
  <2> HIDE DEF hits, label
  <2> QED BY <1>1, <1>11, <2>1, <2>3, <2>4, <2>6
<1> QED BY <1>13, <1>14

LEMMA CorpusLabelsRoundTrip ==
  ASSUME IsCorpus(sections)
  PROVE  LabelsRoundTrip
BY LabelIs DEF LabelsRoundTrip

LEMMA CorpusKeepsAsPrinted ==
  ASSUME IsCorpus(sections)
  PROVE  KeepsAsPrinted
<1> SUFFICES ASSUME Placed, NEW i \in DOMAIN sections, NEW n \in AllNames(sections), NEW at \in {{}, {i}},
                    NEW line, line = [thy |-> TheoryLabel(sections, i), at |-> at, name |-> n]
             PROVE  ReadKeepFile(sections, <<line>>) = {m \in {n} : Declares(i, m)}
  BY DEF KeepsAsPrinted
<1>1. line.name = n /\ line.at = at /\ line.thy = TheoryLabel(sections, i)
  OBVIOUS
<1>2. (IF line.at # {} THEN line.at ELSE ResolveTheory(sections, line.thy)) = {i}
  BY <1>1, LabelIs
<1>3. KeptBy(sections, line) <=> Declares(i, n)
  <2> DEFINE at2 == IF line.at # {} THEN line.at ELSE ResolveTheory(sections, line.thy)
  <2>1. KeptBy(sections, line) <=> \E j \in at2 : \E d \in DeclLines(sections[j]) : sections[j].lines[d].name = n
    BY <1>1 DEF KeptBy
  <2>2. at2 = {i}
    BY <1>2
  <2> HIDE DEF at2
  <2> QED BY <2>1, <2>2 DEF Declares
<1>4. Range(<<line>>) = {line}
  BY DEF Range
<1>5. ReadKeepFile(sections, <<line>>) = {k.name : k \in {x \in {line} : KeptBy(sections, x)}}
  BY <1>4 DEF ReadKeepFile
<1> QED BY <1>1, <1>3, <1>5

(* Where imports are unambiguous and can be read, the closure `deps -r'     *)
(* prints is that of the files, and its first ring the imports.             *)
ClosureOf(i, closure) ==
  /\ \A x \in DOMAIN closure : /\ closure[x] \in Int /\ closure[x] >= 0 /\ x # sections[i].name
                               /\ \E j \in FilesUpFrom(i) : sections[j].name = x
  /\ \A j \in FilesUpFrom(i) : j # i => sections[j].name \in DOMAIN closure
  /\ \A j \in DOMAIN sections : j \in Imports(i) /\ j # i
       <=> sections[j].name \in DOMAIN closure /\ closure[sections[j].name] = 0

(* The theories next to one are those of the files it imports.              *)
LEMMA ChildrenAre ==
  ASSUME IsCorpus(sections), Separate, Unambiguous, NEW i \in DOMAIN sections
  PROVE  /\ \A x \in Children[sections[i].name] : \E j \in Imports(i) : sections[j].name = x
         /\ \A j \in Imports(i) : sections[j].name \in Children[sections[i].name]
<1> DEFINE V == Names(sections)
<1>1. Children[sections[i].name] = Resolved(sections, i)
  BY ImportEdges DEF Separate
<1>2. Header(sections[i]) = sections[i].imports
  BY DEF Header, Separate
<1>3. \A u \in sections[i].imports : ResolveImport(u, V) = ImportCandidates(u, V)
  BY DEF Unambiguous
<1>4. \A x : x \in Resolved(sections, i) <=> \E u \in sections[i].imports : x \in ImportCandidates(u, V)
  BY <1>2, <1>3 DEF Resolved
<1>5. \A u : ImportCandidates(u, V) \subseteq V
  BY CandidatesAre
<1>6. \A x \in V : \E j \in DOMAIN sections : sections[j].name = x
  BY DEF Names
<1>7. \A j : j \in Imports(i) <=> j \in DOMAIN sections /\ \E u \in sections[i].imports :
                                     sections[j].name \in ImportCandidates(u, V)
  BY DEF Imports
<1> QED BY <1>1, <1>4, <1>5, <1>6, <1>7

LEMMA ClosureIs ==
  ASSUME IsCorpus(sections), Separate, Unambiguous, NEW i \in DOMAIN sections,
         NEW closure, closure = ImportDepths(sections, sections[i].name)
  PROVE  ClosureOf(i, closure)
<1> DEFINE V == Names(sections)
           F == FilesUpFrom(i)
<1>1. PICK a, sa, sd : a = sections[i].name /\ sa = {a} /\ sd = -1
  OBVIOUS
<1> DEFINE d == BfsDepths(Children, sa, sd)
<1>2. closure = Without(d, a)
  BY <1>1 DEF ImportDepths, Children
<1>3. /\ a \in V /\ sd \in Int /\ sa \in SUBSET V /\ \A x : x \in sa <=> x = a
  BY <1>1 DEF Names
<1>4. Children \in [V -> SUBSET V]
  BY ImportEdges DEF Separate
<1>5. IsFiniteSet(V)
  BY CorpusIs
<1>6. NextTo(V, Children, a, sd, d)
  BY <1>3, <1>4, <1>5, FirstRingOf
<1>7. Reached(V, Children, sa, sd, d)
  BY <1>3, <1>4, <1>5, WalkReaches
<1>8. /\ i \in F /\ F \subseteq DOMAIN sections
      /\ \A j \in F : Imports(j) \subseteq F
      /\ \A T : i \in T /\ (\A j \in T \cap DOMAIN sections : Imports(j) \subseteq T) => F \subseteq T
  BY FilesUpAre
<1>9. \A j \in DOMAIN sections : /\ \A x \in Children[sections[j].name] : \E k \in Imports(j) : sections[k].name = x
                                 /\ \A k \in Imports(j) : sections[k].name \in Children[sections[j].name]
  BY ChildrenAre
<1>10. \A j \in DOMAIN sections : Imports(j) \subseteq DOMAIN sections /\ sections[j].name \in V
  BY DEF Imports, Names
<1>11. \A j, k \in DOMAIN sections : sections[j].name = sections[k].name => j = k
  BY DEF Separate, OwnNames
<1> HIDE DEF d, V, F
<1>12. ASSUME NEW x \in DOMAIN d PROVE \E j \in F : sections[j].name = x
  <2> DEFINE T == {sections[j].name : j \in F}
  <2>1. sa \subseteq T
    BY <1>1, <1>3, <1>8
  <2>2. ASSUME NEW y \in T \cap V PROVE Children[y] \subseteq T
    <3>1. PICK j \in F : sections[j].name = y
      BY <2>2
    <3>2. \A z \in Children[y] : \E k \in F : sections[k].name = z
      BY <1>8, <1>9, <3>1
    <3> QED BY <3>2
  <2> HIDE DEF T
  <2>3. DOMAIN d \subseteq T
    BY <1>7, <2>1, <2>2 DEF Reached
  <2> QED BY <2>3 DEF T
<1>13. \A j \in F : sections[j].name \in DOMAIN d
  <2> DEFINE T == {j \in DOMAIN sections : sections[j].name \in DOMAIN d}
  <2>1. i \in T
    BY <1>1, <1>3, <1>7 DEF Reached
  <2>2. \A j \in T : Imports(j) \subseteq T
    BY <1>7, <1>9, <1>10 DEF Reached
  <2>3. F \subseteq T
    <3> HIDE DEF T
    <3> QED BY <1>8, <2>1, <2>2
  <2> QED BY <2>3
<1>14. /\ DOMAIN d \subseteq V
       /\ \A x \in V : x \in Children[a] /\ x # a <=> x \in DOMAIN d /\ x # a /\ d[x] = 0
       /\ \A x \in DOMAIN d : x # a => d[x] \in Int /\ d[x] >= 0
  <2>1. sd + 1 = 0
    BY <1>1
  <2> QED BY <1>6, <2>1 DEF NextTo
<1>15. /\ \A x : x \in DOMAIN closure <=> x \in DOMAIN d /\ x # a
       /\ \A x \in DOMAIN closure : closure[x] = d[x]
  BY <1>2 DEF Without
<1>16. \A j \in DOMAIN sections : sections[j].name \in Children[a] <=> j \in Imports(i)
  BY <1>1, <1>9, <1>10, <1>11
<1>17. \A x \in DOMAIN closure : /\ closure[x] \in Int /\ closure[x] >= 0 /\ x # a
                                 /\ \E j \in F : sections[j].name = x
  BY <1>12, <1>14, <1>15
<1>18. \A j \in F : j # i => sections[j].name \in DOMAIN closure
  BY <1>1, <1>8, <1>11, <1>13, <1>15
<1>19. ASSUME NEW j \in DOMAIN sections
       PROVE  j \in Imports(i) /\ j # i <=> sections[j].name \in DOMAIN closure /\ closure[sections[j].name] = 0
  <2>1. j # i <=> sections[j].name # a
    BY <1>1, <1>11
  <2> QED BY <1>10, <1>14, <1>15, <1>16, <2>1
<1> QED BY <1>1, <1>17, <1>18, <1>19 DEF ClosureOf, F

(* The names the entries of a theory cite, as `refs' counts them.           *)
LEMMA TallyIs ==
  ASSUME NEW i \in DOMAIN sections, NEW graph, NEW n
  PROVE  n \in DOMAIN Tally(sections, graph, i) <=>
           \E c : Declares(i, c) /\ n \in CalleesOf(graph, c)
<1> DEFINE Cited(d) == CalleesOf(graph, sections[i].lines[d].name)
           every == UNION {Cited(d) : d \in DeclLines(sections[i])}
<1>1. DOMAIN Tally(sections, graph, i) = every
  BY DEF Tally
<1>2. n \in every <=> \E d \in DeclLines(sections[i]) : n \in Cited(d)
  OBVIOUS
<1> QED BY <1>1, <1>2 DEF Declares

(* Whom `refs' owes a name to.                                              *)
Owed(i, n, closure, owner) ==
  /\ Declares(i, n) => owner = sections[i].name
  /\ \E j \in DOMAIN sections : Declares(j, n) /\ sections[j].name = owner
  /\ ~Declares(i, n) => \A k \in DOMAIN sections :
       Declares(k, n) /\ sections[k].name \in DOMAIN closure =>
         owner \in DOMAIN closure /\ closure[owner] <= closure[sections[k].name]

(* It is owed to the nearest theory up the imports that declares it.        *)
LEMMA OwnerIs ==
  ASSUME IsCorpus(sections), Separate, Unambiguous, NEW i \in DOMAIN sections, NEW n \in AllNames(sections),
         NEW closure, closure = ImportDepths(sections, sections[i].name)
  PROVE  Owed(i, n, closure, OwnerOf(sections, i, n))
<1> DEFINE own == sections[i].name
           mine == Named(Declarations(sections, FALSE), n)
           within == {TheoryOf(sections, d) : d \in mine} \cap DOMAIN closure
           nearest == {t \in within : \A u \in within : closure[t] <= closure[u]}
           first == FirstOf(mine)
           owner == OwnerOf(sections, i, n)
<1>1. owner = IF \E d \in mine : TheoryOf(sections, d) = own THEN own
              ELSE IF within # {} THEN CHOOSE t \in nearest : TRUE
              ELSE TheoryOf(sections, first)
  BY DEF OwnerOf
<1>2. DeclaredBy(n, mine)
  BY DeclaredIs
<1>3. \A j \in DOMAIN sections : Declares(j, n) <=> \E d \in mine : d.sec = j
  <2> HIDE DEF mine
  <2>1. ASSUME NEW j \in DOMAIN sections, Declares(j, n) PROVE \E d \in mine : d.sec = j
    BY <1>2, <2>1 DEF DeclaredBy, Declares
  <2>2. \A d \in mine : Declares(d.sec, n)
    BY <1>2 DEF DeclaredBy
  <2> QED BY <2>1, <2>2
<1>4. first \in mine
  <2> HIDE DEF mine
  <2> QED BY <1>2, FirstIs DEF DeclaredBy
<1>5. \A x : x \in within <=> x \in DOMAIN closure /\ \E d \in mine : sections[d.sec].name = x
  BY DEF TheoryOf
<1>6. ClosureOf(i, closure)
  BY ClosureIs
<1>7. \A x \in DOMAIN closure : closure[x] \in Nat
  BY <1>6 DEF ClosureOf
<1>8. \A d \in mine : d.sec \in DOMAIN sections
  BY <1>2 DEF DeclaredBy
<1>9. \A j, k \in DOMAIN sections : sections[j].name = sections[k].name => j = k
  BY DEF Separate, OwnNames
<1>10. (\E d \in mine : TheoryOf(sections, d) = own) <=> Declares(i, n)
  BY <1>3, <1>8, <1>9 DEF TheoryOf
<1> HIDE DEF mine, within, first, owner
<1>11. within # {} => nearest # {}
  <2> SUFFICES ASSUME within # {} PROVE nearest # {}
    OBVIOUS
  <2> DEFINE S == {closure[t] : t \in within}
  <2>1. S \subseteq Nat /\ S # {}
    BY <1>5, <1>7
  <2> HIDE DEF S
  <2>2. PICK m \in S : \A k \in S : m <= k
    BY <2>1, LeastIs
  <2>3. PICK t \in within : m = closure[t]
    BY DEF S
  <2>4. \A u \in within : closure[t] <= closure[u]
    BY <2>2, <2>3 DEF S
  <2> QED BY <2>4
<1>12. CASE Declares(i, n)
  <2>1. owner = own
    BY <1>1, <1>10, <1>12
  <2> QED BY <1>12, <2>1 DEF Owed, owner
<1>13. CASE ~Declares(i, n) /\ within # {}
  <2>1. owner \in nearest
    <3>1. owner = CHOOSE t \in nearest : TRUE
      BY <1>1, <1>10, <1>13
    <3> QED BY <1>11, <1>13, <3>1
  <2>2. owner \in within /\ \A u \in within : closure[owner] <= closure[u]
    BY <2>1
  <2>3. \E j \in DOMAIN sections : Declares(j, n) /\ sections[j].name = owner
    BY <1>3, <1>5, <1>8, <2>2
  <2>4. \A k \in DOMAIN sections : Declares(k, n) /\ sections[k].name \in DOMAIN closure => sections[k].name \in within
    BY <1>3, <1>5
  <2> QED BY <1>5, <1>13, <2>2, <2>3, <2>4 DEF Owed, owner
<1>14. CASE ~Declares(i, n) /\ within = {}
  <2>1. owner = sections[first.sec].name
    BY <1>1, <1>10, <1>14 DEF TheoryOf
  <2>2. Declares(first.sec, n) /\ first.sec \in DOMAIN sections
    BY <1>3, <1>4, <1>8
  <2>3. \A k \in DOMAIN sections : ~(Declares(k, n) /\ sections[k].name \in DOMAIN closure)
    BY <1>3, <1>5, <1>14
  <2> QED BY <1>14, <2>1, <2>2, <2>3 DEF Owed, owner
<1> QED BY <1>12, <1>13, <1>14

(* The table without -e, for the theories the cited names are owed to.      *)
TableOf(i, owner, refs) ==
  LET own == sections[i].name
      owners == {owner[n] : n \in DOMAIN owner}
      closure == ImportDepths(sections, own)
      direct == {t \in DOMAIN closure : closure[t] = 0}
  IN  /\ DOMAIN refs.groups = owners
      /\ refs.unreached = IF DOMAIN owner = {} THEN {} ELSE direct \ owners
      /\ refs.indirect = IF DOMAIN owner = {} THEN {} ELSE owners \ (direct \cup {own})

LEMMA TableIs ==
  ASSUME NEW i, NEW owner
  PROVE  TableOf(i, owner, OwnedBy(sections, i, owner, FALSE))
<1> DEFINE own == sections[i].name
           owners == {owner[n] : n \in DOMAIN owner}
           closure == ImportDepths(sections, own)
           direct == {t \in DOMAIN closure : closure[t] = 0}
           refs == OwnedBy(sections, i, owner, FALSE)
           some == {n \in DOMAIN owner : ~(FALSE /\ owner[n] = own)}
           theirs == {owner[n] : n \in some}
           Told(theories) == IF some = {} THEN {} ELSE theories
           table == [t \in theirs |-> {n \in some : owner[n] = t}]
           unused == Told(direct \ theirs)
           missing == Told(theirs \ (direct \cup {own}))
<1>1. refs = [groups |-> table, unreached |-> unused, indirect |-> missing]
  BY DEF OwnedBy
<1>2. \A a, b, c : LET r == [groups |-> a, unreached |-> b, indirect |-> c]
                   IN  r.groups = a /\ r.unreached = b /\ r.indirect = c
  OBVIOUS
<1>3. some = DOMAIN owner /\ theirs = owners /\ DOMAIN table = theirs
  OBVIOUS
<1> HIDE DEF refs, table, some, theirs, owners, direct
<1>4. refs.groups = table /\ refs.unreached = unused /\ refs.indirect = missing
  <2> HIDE DEF unused, missing
  <2> QED BY <1>1, <1>2
<1> QED BY <1>3, <1>4 DEF refs, owners, direct, TableOf

(* What `refs' tells of the imports of a theory.                            *)
LEMMA CorpusRefsExact ==
  ASSUME IsCorpus(sections)
  PROVE  RefsExact
<1> SUFFICES ASSUME phase = "idle", Separate, Unambiguous, NamesApart, NEW i \in DOMAIN sections,
                    NEW graph, graph = Graph(sections), NEW refs, refs = Refs(sections, graph, i, FALSE)
             PROVE  TableTold(i, refs, Declares)
  BY DEF RefsExact, RefsTold
<1> DEFINE V == AllNames(sections)
           own == sections[i].name
           listed == DOMAIN Tally(sections, graph, i)
           owner == [n \in listed |-> OwnerOf(sections, i, n)]
           owners == {owner[n] : n \in listed}
           closure == ImportDepths(sections, own)
           direct == {t \in DOMAIN closure : closure[t] = 0}
<1>1. /\ DOMAIN refs.groups = owners
      /\ refs.unreached = IF listed = {} THEN {} ELSE direct \ owners
      /\ refs.indirect = IF listed = {} THEN {} ELSE owners \ (direct \cup {own})
  <2>1. DOMAIN owner = listed
    OBVIOUS
  <2>2. refs = OwnedBy(sections, i, owner, FALSE)
    BY DEF Refs
  <2> HIDE DEF owner, listed
  <2>3. TableOf(i, owner, refs)
    BY <2>2, TableIs
  <2> QED BY <2>1, <2>3 DEF TableOf
<1>2. \A n : n \in listed <=> \E c : Declares(i, c) /\ [caller |-> c, callee |-> n] \in graph
  <2>1. \A n, c : n \in CalleesOf(graph, c) <=> [caller |-> c, callee |-> n] \in graph
    <3>1. ASSUME NEW e \in graph PROVE e = [caller |-> e.caller, callee |-> e.callee]
      <4>1. e \in CallGraph(sections, FALSE, TRUE)
        BY DEF Graph
      <4>2. \E c, n : e = [caller |-> c, callee |-> n]
        BY <4>1, EdgesAre
      <4> QED BY <4>2
    <3> QED BY <3>1 DEF CalleesOf
  <2> QED BY <2>1, TallyIs
<1>3. ClosureOf(i, closure)
  BY ClosureIs
<1>4. \A n \in V : Owed(i, n, closure, OwnerOf(sections, i, n))
  BY OwnerIs
<1>5. \A n \in listed : owner[n] = OwnerOf(sections, i, n)
  OBVIOUS
<1>6. \A x : x \in owners <=> \E n \in listed : owner[n] = x
  OBVIOUS
<1>7. \A j, k \in DOMAIN sections : sections[j].name = sections[k].name => j = k
  BY DEF Separate, OwnNames
<1>8. UsesExact
  BY CorpusUsesExact
<1>9. ASSUME NEW n \in listed
      PROVE  /\ n \in V
             /\ \E k \in DOMAIN sections : \E l \in Lines(sections[k]) : \E c \in CallerOf(sections, k, l) \cap V :
                  /\ Declares(i, c) /\ Declares(k, c)
                  /\ \E m \in sections[k].lines[l].cites : m.name = n
                  /\ Declares(k, n) \/ \E j \in FilesUpFrom(k) : Exports(j, n)
  <2>1. PICK c : Declares(i, c) /\ [caller |-> c, callee |-> n] \in graph
    BY <1>2
  <2>2. PICK e : e.caller = c /\ e.callee = n /\ e \in CallGraph(sections, FALSE, TRUE)
    <3> DEFINE e == [caller |-> c, callee |-> n]
    <3>1. e.caller = c /\ e.callee = n /\ e \in graph
      BY <2>1
    <3> HIDE DEF e
    <3> QED BY <3>1 DEF Graph
  <2>3. PICK k \in DOMAIN sections : \E l \in Lines(sections[k]) :
           /\ \E m \in sections[k].lines[l].cites : m.name = n
           /\ c \in CallerOf(sections, k, l)
           /\ Declares(k, n) \/ \E j \in FilesUpFrom(k) : Exports(j, n)
    <3>1. NoPhantomUse
      BY <1>8 DEF UsesExact
    <3> QED BY <2>2, <3>1 DEF NoPhantomUse
  <2>8. PICK l \in Lines(sections[k]) :
           /\ \E m \in sections[k].lines[l].cites : m.name = n
           /\ c \in CallerOf(sections, k, l)
           /\ Declares(k, n) \/ \E j \in FilesUpFrom(k) : Exports(j, n)
    BY <2>3
  <2>4. c # Anonymous
    <3>1. TopLevel(k) # Anonymous
      BY DEF NamesApart
    <3> QED BY <2>8, <3>1 DEF CallerOf
  <2>5. c \in V
    <3>1. PICK l0 \in DeclLines(sections[i]) : sections[i].lines[l0].name = c
      BY <2>1 DEF Declares
    <3>2. DeclaredBy(c, Named(Declarations(sections, FALSE), c))
      BY DeclaredIs
    <3> QED BY <2>4, <3>1, <3>2 DEF DeclaredBy
  <2>6. Declares(k, c)
    BY <2>8, <2>5, CallerDeclared
  <2>7. n \in V
    <3>1. e.caller \in AllNames(sections)
      BY <2>2, <2>5
    <3>2. e.callee \in AllNames(sections)
      BY <2>2, <3>1, EdgeIs
    <3> QED BY <2>2, <3>2
  <2> QED BY <2>1, <2>8, <2>5, <2>6, <2>7
<1> HIDE DEF V, listed, owner, owners, closure
<1>10. ASSUME NEW j \in Imports(i) \ {i}, own # sections[j].name, sections[j].name \in refs.unreached, NEW n \in V,
              NEW l \in Lines(sections[i]), PlainUse(i, l, n), CallerOf(sections, i, l) \cap V # {},
              Exports(j, n), ~Declares(i, n)
       PROVE  \E k \in Imports(i) \ {j} : Declares(k, n)
  <2>1. sections[j].name \notin owners
    BY <1>1, <1>10
  <2>2. j \in DOMAIN sections /\ Declares(j, n)
    BY <1>10 DEF Imports, Exports, Declares
  <2>3. sections[j].name \in DOMAIN closure /\ closure[sections[j].name] = 0
    BY <1>3, <2>2 DEF ClosureOf
  <2>4. n \in listed
    <3>1. PICK c \in V : c \in CallerOf(sections, i, l)
      BY <1>10
    <3>2. Declares(i, c)
      BY <3>1, CallerDeclared DEF V
    <3>3. j \in FilesUpFrom(i)
      BY FilesUpAre
    <3>4. NoUseDropped
      BY <1>8 DEF UsesExact
    <3>5. [caller |-> c, callee |-> n] \in CallGraph(sections, FALSE, TRUE)
      BY <1>10, <3>1, <3>3, <3>4 DEF NoUseDropped, V
    <3> QED BY <1>2, <3>2, <3>5 DEF Graph
  <2>5. PICK t : t = owner[n]
    OBVIOUS
  <2>6. Owed(i, n, closure, t)
    BY <1>4, <1>5, <2>4, <2>5
  <2>7. t \in DOMAIN closure /\ closure[t] <= 0
    BY <1>10, <2>2, <2>3, <2>6 DEF Owed
  <2>8. PICK k \in DOMAIN sections : Declares(k, n) /\ sections[k].name = t
    BY <2>6 DEF Owed
  <2>9. closure[t] = 0
    BY <1>3, <2>7 DEF ClosureOf
  <2>10. k \in Imports(i)
    BY <1>3, <2>7, <2>8, <2>9 DEF ClosureOf
  <2>11. k # j
    BY <1>6, <2>1, <2>4, <2>5, <2>8
  <2> QED BY <2>8, <2>10, <2>11
<1>11. ASSUME NEW j \in Imports(i) \ {i}, sections[j].name \notin refs.unreached, DOMAIN refs.groups # {}
       PROVE  \E k \in DOMAIN sections : \E l \in Lines(sections[k]) :
                /\ \E c \in CallerOf(sections, k, l) \cap V : Declares(i, c)
                /\ \E m \in sections[k].lines[l].cites : m.name \in V /\ Declares(j, m.name)
  <2>1. j \in DOMAIN sections
    BY DEF Imports
  <2>2. sections[j].name \in direct
    BY <1>3, <2>1 DEF ClosureOf
  <2>3. listed # {}
    BY <1>1, <1>6, <1>11
  <2>4. PICK n \in listed : owner[n] = sections[j].name
    BY <1>1, <1>6, <1>11, <2>2, <2>3
  <2>5. n \in V
    BY <1>9
  <2>6. Owed(i, n, closure, sections[j].name)
    BY <1>4, <1>5, <2>4, <2>5
  <2>7. Declares(j, n)
    BY <1>7, <2>1, <2>6 DEF Owed
  <2> QED BY <1>9, <2>5, <2>7
<1>12. ASSUME NEW t \in refs.indirect
       PROVE  \/ \E k \in FilesUpFrom(i) \ Imports(i) : sections[k].name = t
              \/ \E n \in V : Declares(i, n) /\ \E k \in DOMAIN sections \ {i} : Declares(k, n)
  <2>1. t \in owners /\ t \notin direct /\ t # own
    BY <1>1
  <2>2. PICK n \in listed : owner[n] = t
    BY <1>6, <2>1
  <2>0. PICK k \in DOMAIN sections : \E l \in Lines(sections[k]) : \E c \in CallerOf(sections, k, l) \cap V :
           /\ Declares(i, c) /\ Declares(k, c)
           /\ Declares(k, n) \/ \E j \in FilesUpFrom(k) : Exports(j, n)
    BY <1>9
  <2>3. (\E c \in V : Declares(i, c) /\ Declares(k, c)) /\ (Declares(k, n) \/ \E j \in FilesUpFrom(k) : Exports(j, n))
    BY <2>0
  <2>4. CASE k # i
    BY <2>3, <2>4
  <2>5. CASE k = i
    <3>1. n \in V
      BY <1>9
    <3>2. Owed(i, n, closure, t)
      BY <1>4, <1>5, <2>2, <3>1
    <3>3. ~Declares(i, n)
      BY <2>1, <3>2 DEF Owed
    <3>4. PICK j \in FilesUpFrom(i) : Exports(j, n)
      BY <2>3, <2>5, <3>3
    <3>5. Declares(j, n) /\ j # i /\ j \in DOMAIN sections
      <4>1. FilesUpFrom(i) \subseteq DOMAIN sections
        BY FilesUpAre
      <4>2. Declares(j, n)
        BY <3>4 DEF Exports, Declares
      <4> QED BY <3>3, <4>1, <4>2
    <3>6. sections[j].name \in DOMAIN closure
      BY <1>3, <3>5 DEF ClosureOf
    <3>7. t \in DOMAIN closure
      BY <3>2, <3>3, <3>5, <3>6 DEF Owed
    <3>8. PICK u \in FilesUpFrom(i) : sections[u].name = t
      BY <1>3, <3>7 DEF ClosureOf
    <3>9. u \notin Imports(i)
      <4>1. u # i
        BY <2>1, <3>8
      <4>2. u \in Imports(i) => u \in DOMAIN sections
        BY DEF Imports
      <4> QED BY <1>3, <2>1, <3>7, <3>8, <4>1, <4>2 DEF ClosureOf
    <3> QED BY <3>8, <3>9
  <2> QED BY <2>4, <2>5
<1> QED
  <2> DEFINE Used(n) == \E l \in Lines(sections[i]) :
                 PlainUse(i, l, n) /\ CallerOf(sections, i, l) \cap AllNames(sections) # {}
             OwnLines(k) == {l \in Lines(sections[k]) :
                 \E c \in CallerOf(sections, k, l) \cap AllNames(sections) : Declares(i, c)}
             Mentioned(k) == UNION {{m.name : m \in sections[k].lines[l].cites} : l \in OwnLines(k)}
  <2>1. ASSUME NEW j \in Imports(i) \ {i}, sections[j].name \in refs.unreached, NEW n \in AllNames(sections),
               Used(n), Exports(j, n)
        PROVE  Declares(i, n) \/ \E k \in Imports(i) \ {j} : Declares(k, n)
    <3>1. PICK l \in Lines(sections[i]) : PlainUse(i, l, n) /\ CallerOf(sections, i, l) \cap V # {}
      BY <2>1 DEF V
    <3>2. own # sections[j].name
      <4>1. j \in DOMAIN sections /\ j # i
        BY <2>1 DEF Imports
      <4> QED BY <1>7, <4>1
    <3> HIDE DEF Used
    <3> QED BY <1>10, <2>1, <3>1, <3>2 DEF V
  <2>2. ASSUME NEW j \in Imports(i) \ {i}, sections[j].name \notin refs.unreached, DOMAIN refs.groups # {}
        PROVE  \E k \in DOMAIN sections : \E n \in Mentioned(k) \cap AllNames(sections) : Declares(j, n)
    <3>0. PICK k \in DOMAIN sections : \E l \in Lines(sections[k]) :
             /\ \E c \in CallerOf(sections, k, l) \cap V : Declares(i, c)
             /\ \E m \in sections[k].lines[l].cites : m.name \in V /\ Declares(j, m.name)
      BY <1>11, <2>2
    <3>1. PICK l \in Lines(sections[k]) :
             /\ \E c \in CallerOf(sections, k, l) \cap V : Declares(i, c)
             /\ \E m \in sections[k].lines[l].cites : m.name \in V /\ Declares(j, m.name)
      BY <3>0
    <3>2. PICK m \in sections[k].lines[l].cites : m.name \in V /\ Declares(j, m.name)
      BY <3>1
    <3>3. l \in OwnLines(k)
      BY <3>1 DEF V
    <3>4. m.name \in Mentioned(k)
      <4> HIDE DEF OwnLines
      <4> QED BY <3>3
    <3> HIDE DEF Mentioned
    <3> QED BY <3>2, <3>4 DEF V
  <2> HIDE DEF Used, Mentioned
  <2>3. \A j \in Imports(i) \ {i} :
            IF sections[j].name \in refs.unreached
            THEN \A n \in AllNames(sections) : Used(n) /\ Exports(j, n) =>
                     Declares(i, n) \/ \E k \in Imports(i) \ {j} : Declares(k, n)
            ELSE DOMAIN refs.groups # {} => \E k \in DOMAIN sections :
                     \E n \in Mentioned(k) \cap AllNames(sections) : Declares(j, n)
    BY <2>1, <2>2
  <2> QED BY <1>12, <2>3 DEF TableTold, V, Used, Mentioned

(* Depths go up by one at a time: the seed is at none, what is next to      *)
(* something at most one above it, and everything else one above something  *)
(* it is next to.                                                           *)
Levels(nb, a, d) ==
  /\ a \in DOMAIN d /\ d[a] = 0
  /\ \A x \in DOMAIN d : d[x] \in Nat /\ (x # a => d[x] > 0)
  /\ \A x \in DOMAIN d : \A y \in nb[x] : y \in DOMAIN d /\ d[y] <= d[x] + 1
  /\ \A x \in DOMAIN d : x # a => \E y \in DOMAIN d : x \in nb[y] /\ d[x] = d[y] + 1

LEMMA DepthsAreLevels ==
  ASSUME NEW G, IsFiniteSet(G), NEW nb \in [G -> SUBSET G], NEW a \in G, NEW sa \in SUBSET G,
         \A x : x \in sa <=> x = a, NEW d, d = BfsDepths(nb, sa, 0)
  PROVE  DOMAIN d \subseteq G /\ Levels(nb, a, d)
<1>1. PICK n : n = Cardinality(G) + 1 /\ n \in Nat
  BY FS_CardinalityType
<1>2. PICK W : Walks(G, nb, n, W)
  BY <1>1, WalksExist
<1>3. PICK sd \in Int : sd = 0
  OBVIOUS
<1>4. Shortest(G, W, n, a, sd, d) /\ Reached(G, nb, sa, sd, d)
  <2>1. d = BfsDepths(nb, sa, sd)
    BY <1>3
  <2> QED BY <1>1, <1>2, <2>1, DepthsAreShortest, WalkReaches
<1>5. /\ DOMAIN d \subseteq G
      /\ \A x \in G : x \in DOMAIN d <=> \E k \in 0..n : Nearest(W, a, x, k)
      /\ \A x \in DOMAIN d : \A k \in 0..n : Nearest(W, a, x, k) => d[x] = k
      /\ \A x \in DOMAIN d : nb[x] \subseteq DOMAIN d
  BY <1>3, <1>4 DEF Shortest, Reached
<1>6. /\ \A x \in G : Walk(W, 0, a, x) <=> x = a
      /\ \A k \in 1..n : \A x \in G : Walk(W, k, a, x) <=> \E y \in G : Walk(W, k - 1, a, y) /\ x \in nb[y]
  BY <1>2 DEF Walks
<1>7. \A x \in DOMAIN d : d[x] \in 0..n /\ Nearest(W, a, x, d[x])
  BY <1>5
<1>8. a \in DOMAIN d /\ d[a] = 0
  <2>1. Nearest(W, a, a, 0) /\ 0 \in 0..n
    BY <1>1, <1>6 DEF Nearest
  <2> QED BY <1>5, <2>1
<1>9. ASSUME NEW x \in DOMAIN d, x # a PROVE d[x] > 0
  <2>1. d[x] # 0
    BY <1>5, <1>6, <1>7, <1>9 DEF Nearest
  <2> QED BY <1>7, <2>1
<1>10. ASSUME NEW x \in DOMAIN d, NEW y \in nb[x] PROVE y \in DOMAIN d /\ d[y] <= d[x] + 1
  <2>1. y \in DOMAIN d /\ y \in G /\ x \in G
    BY <1>5
  <2>2. d[x] \in 0..n /\ d[y] \in 0..n /\ Walk(W, d[x], a, x) /\ \A j \in 0..(d[y] - 1) : ~Walk(W, j, a, y)
    BY <1>7, <2>1 DEF Nearest
  <2>3. ASSUME d[y] > d[x] + 1 PROVE FALSE
    <3>1. d[x] + 1 \in 1..n /\ (d[x] + 1) - 1 = d[x] /\ d[x] + 1 \in 0..(d[y] - 1)
      BY <2>2, <2>3, <1>1
    <3>2. Walk(W, d[x] + 1, a, y)
      BY <1>6, <2>1, <2>2, <3>1
    <3> QED BY <2>2, <3>1, <3>2
  <2> QED BY <1>1, <2>1, <2>2, <2>3
<1>11. ASSUME NEW x \in DOMAIN d, x # a PROVE \E y \in DOMAIN d : x \in nb[y] /\ d[x] = d[y] + 1
  <2>1. PICK k : k = d[x] /\ k \in 1..n /\ k - 1 \in 0..n
    BY <1>1, <1>7, <1>9, <1>11
  <2>2. Walk(W, k, a, x) /\ \A j \in 0..(k - 1) : ~Walk(W, j, a, x)
    BY <1>7, <2>1 DEF Nearest
  <2>3. PICK y \in G : Walk(W, k - 1, a, y) /\ x \in nb[y]
    BY <1>5, <1>6, <2>1, <2>2
  <2>4. ASSUME NEW j \in 0..((k - 1) - 1), Walk(W, j, a, y) PROVE FALSE
    <3>1. j + 1 \in 1..n /\ (j + 1) - 1 = j /\ j + 1 \in 0..(k - 1)
      BY <1>1, <2>1
    <3>2. Walk(W, j + 1, a, x)
      BY <1>5, <1>6, <2>3, <2>4, <3>1
    <3> QED BY <2>2, <3>1, <3>2
  <2>5. Nearest(W, a, y, k - 1)
    BY <2>3, <2>4 DEF Nearest
  <2>6. y \in DOMAIN d /\ d[y] = k - 1
    BY <1>5, <2>1, <2>3, <2>5
  <2> QED BY <2>1, <2>3, <2>6
<1> QED BY <1>5, <1>7, <1>8, <1>9, <1>10, <1>11 DEF Levels

(* So they depend only on what is next to what is reached.                  *)
LEMMA LevelsBound ==
  ASSUME NEW nb, NEW mb, NEW a, NEW d, NEW e, Levels(nb, a, d), Levels(mb, a, e),
         \A x \in DOMAIN d : nb[x] \subseteq mb[x]
  PROVE  \A x \in DOMAIN d : x \in DOMAIN e /\ e[x] <= d[x]
<1> DEFINE Bad == {x \in DOMAIN d : ~(x \in DOMAIN e /\ e[x] <= d[x])}
           S == {d[x] : x \in Bad}
<1> SUFFICES ASSUME Bad # {} PROVE FALSE
  OBVIOUS
<1>1. S \subseteq Nat /\ S # {}
  BY DEF Levels
<1> HIDE DEF S
<1>2. PICK m \in S : \A k \in S : m <= k
  BY <1>1, LeastIs
<1>3. PICK x \in Bad : d[x] = m
  BY DEF S
<1>4. x # a
  BY <1>3 DEF Levels
<1>5. PICK y \in DOMAIN d : x \in nb[y] /\ d[x] = d[y] + 1
  BY <1>4 DEF Levels
<1>6. d[y] \in Nat /\ d[x] \in Nat
  BY DEF Levels
<1>7. y \notin Bad
  <2>1. y \in Bad => d[y] \in S
    BY DEF S
  <2> QED BY <1>2, <1>3, <1>5, <1>6, <2>1
<1>8. y \in DOMAIN e /\ e[y] <= d[y]
  BY <1>7
<1>9. x \in DOMAIN e /\ e[x] <= e[y] + 1
  BY <1>5, <1>8 DEF Levels
<1>10. e[x] \in Nat /\ e[y] \in Nat
  BY <1>8, <1>9 DEF Levels
<1> QED BY <1>5, <1>6, <1>8, <1>9, <1>10

(* The graph of citations between names, with the labels of top levels.     *)
GraphNodes == AllNames(sections) \cup {TopLevel(i) : i \in DOMAIN sections}

(* There are finitely many.                                                 *)
LEMMA NamesAreFinite ==
  ASSUME IsCorpus(sections)
  PROVE  IsFiniteSet(AllNames(sections)) /\ IsFiniteSet(GraphNodes)
<1> DEFINE Of(i) == {sections[i].lines[d].name : d \in DeclLines(sections[i])}
           every == UNION {Of(i) : i \in DOMAIN sections}
<1>1. IsFiniteSet(DOMAIN sections)
  BY CorpusIs
<1>2. ASSUME NEW i \in DOMAIN sections PROVE IsFiniteSet(Of(i))
  <2> DEFINE f == [d \in DeclLines(sections[i]) |-> sections[i].lines[d].name]
  <2>1. /\ Len(sections[i].lines) \in Nat
        /\ DeclLines(sections[i]) \subseteq 1..Len(sections[i].lines)
    BY LinesAre
  <2>2. IsFiniteSet(1..Len(sections[i].lines))
    BY SMTT(20), <2>1, FS_Interval
  <2>3. IsFiniteSet(DeclLines(sections[i]))
    BY <2>1, <2>2, FS_Subset
  <2>4. f \in Surjection(DeclLines(sections[i]), Of(i))
    BY DEF Surjection
  <2> QED BY <2>3, <2>4, FS_Surjection
<1> DEFINE g == [i \in DOMAIN sections |-> Of(i)]
           sets == {Of(i) : i \in DOMAIN sections}
<1>3. g \in Surjection(DOMAIN sections, sets)
  <2> HIDE DEF Of
  <2> QED BY DEF Surjection
<1>4. IsFiniteSet(sets)
  BY <1>1, <1>3, FS_Surjection
<1>5. IsFiniteSet(every)
  <2>1. \A T \in sets : IsFiniteSet(T)
    BY <1>2
  <2> HIDE DEF sets
  <2>2. IsFiniteSet(UNION sets)
    BY <1>4, <2>1, FS_UNION
  <2> QED BY <2>2 DEF sets
<1>6. AllNames(sections) = every \ {Anonymous}
  BY DEF AllNames
<1>7. IsFiniteSet(AllNames(sections))
  <2> HIDE DEF every
  <2>1. AllNames(sections) \subseteq every
    BY <1>6
  <2> QED BY <1>5, <2>1, FS_Subset
<1> DEFINE tops == {TopLevel(i) : i \in DOMAIN sections}
           h == [i \in DOMAIN sections |-> TopLevel(i)]
<1>8. h \in Surjection(DOMAIN sections, tops)
  BY DEF Surjection
<1>9. IsFiniteSet(tops)
  BY <1>1, <1>8, FS_Surjection
<1> QED BY <1>7, <1>9, FS_Union DEF GraphNodes

\* What line l of file i cites.
CitedAt(i, l, n) ==
  /\ n \in UsedOn(sections[i].lines[l], AllNames(sections), FALSE)
  /\ ~Noise(sections[i], l) /\ ~DefSite(sections[i], l, n, FALSE)
  /\ Sees(sections, Declarations(sections, FALSE), sections[i].name, n)

(* The graph has an edge for each citation, and callees and citers read it. *)
LEMMA EdgesCite ==
  ASSUME NEW c, NEW n
  PROVE  [caller |-> c, callee |-> n] \in Graph(sections) <=>
           \E i \in DOMAIN sections : \E l \in Lines(sections[i]) : c \in CallerOf(sections, i, l) /\ CitedAt(i, l, n)
<1> DEFINE e == [caller |-> c, callee |-> n]
<1>1. \A b, m : e = [caller |-> b, callee |-> m] <=> c = b /\ n = m
  OBVIOUS
<1> HIDE DEF e
<1>2. ASSUME e \in CallGraph(sections, FALSE, TRUE)
      PROVE  \E i \in DOMAIN sections : \E l \in Lines(sections[i]) : c \in CallerOf(sections, i, l) /\ CitedAt(i, l, n)
  <2>1. PICK i \in DOMAIN sections : \E l \in Lines(sections[i]) :
          \E b \in CallerOf(sections, i, l) : \E m \in UsedOn(sections[i].lines[l], AllNames(sections), FALSE) :
            /\ e = [caller |-> b, callee |-> m]
            /\ ~Noise(sections[i], l) /\ ~DefSite(sections[i], l, m, FALSE)
            /\ Sees(sections, Declarations(sections, FALSE), sections[i].name, m)
    BY <1>2, EdgesAre
  <2>2. PICK l \in Lines(sections[i]) :
          \E b \in CallerOf(sections, i, l) : \E m \in UsedOn(sections[i].lines[l], AllNames(sections), FALSE) :
            /\ e = [caller |-> b, callee |-> m]
            /\ ~Noise(sections[i], l) /\ ~DefSite(sections[i], l, m, FALSE)
            /\ Sees(sections, Declarations(sections, FALSE), sections[i].name, m)
    BY <2>1
  <2>3. c \in CallerOf(sections, i, l) /\ CitedAt(i, l, n)
    BY <1>1, <2>2 DEF CitedAt
  <2> QED BY <2>3
<1>3. ASSUME NEW i \in DOMAIN sections, NEW l \in Lines(sections[i]), c \in CallerOf(sections, i, l), CitedAt(i, l, n)
      PROVE  e \in CallGraph(sections, FALSE, TRUE)
  <2>1. e = [caller |-> c, callee |-> n]
    BY <1>1
  <2>2. /\ n \in UsedOn(sections[i].lines[l], AllNames(sections), FALSE)
        /\ ~Noise(sections[i], l) /\ ~DefSite(sections[i], l, n, FALSE)
        /\ Sees(sections, Declarations(sections, FALSE), sections[i].name, n)
    BY <1>3 DEF CitedAt
  <2> QED BY <1>3, <2>1, <2>2, EdgesAre
<1> QED BY <1>2, <1>3 DEF Graph, e

LEMMA GraphIs ==
  ASSUME IsCorpus(sections), NEW graph, graph = Graph(sections)
  PROVE  \A c, n : /\ n \in CalleesOf(graph, c) <=> [caller |-> c, callee |-> n] \in graph
                   /\ c \in CitersOf(graph, n) <=> [caller |-> c, callee |-> n] \in graph
                   /\ [caller |-> c, callee |-> n] \in graph => n \in AllNames(sections) /\ c \in GraphNodes
<1>1. ASSUME NEW e \in graph PROVE e = [caller |-> e.caller, callee |-> e.callee]
  <2>1. e \in CallGraph(sections, FALSE, TRUE)
    BY DEF Graph
  <2>2. \E c, n : e = [caller |-> c, callee |-> n]
    BY <2>1, EdgesAre
  <2> QED BY <2>2
<1>2. \A c, n : /\ n \in CalleesOf(graph, c) <=> [caller |-> c, callee |-> n] \in graph
                /\ c \in CitersOf(graph, n) <=> [caller |-> c, callee |-> n] \in graph
  BY <1>1 DEF CalleesOf, CitersOf
<1>3. ASSUME NEW c, NEW n, [caller |-> c, callee |-> n] \in graph PROVE n \in AllNames(sections) /\ c \in GraphNodes
  <2>1. PICK i \in DOMAIN sections : \E l \in Lines(sections[i]) : c \in CallerOf(sections, i, l) /\ CitedAt(i, l, n)
    BY <1>3, EdgesCite
  <2>2. PICK l \in Lines(sections[i]) : c \in CallerOf(sections, i, l) /\ CitedAt(i, l, n)
    BY <2>1
  <2>3. n \in AllNames(sections)
    BY <2>2 DEF CitedAt, UsedOn
  <2>4. CASE c = TopLevel(i)
    BY <2>3, <2>4 DEF GraphNodes
  <2>5. CASE c # TopLevel(i)
    <3>1. PICK d \in EntryAtLine(sections[i], l) : c = sections[i].lines[d].name /\ c # Anonymous
      BY <2>2, <2>5 DEF CallerOf
    <3>2. d \in DeclLines(sections[i])
      BY EntryIs
    <3>3. DeclaredBy(c, Named(Declarations(sections, FALSE), c))
      BY DeclaredIs
    <3>4. c \in AllNames(sections)
      BY <3>1, <3>2, <3>3 DEF DeclaredBy
    <3> QED BY <2>3, <3>4 DEF GraphNodes
  <2> QED BY <2>3, <2>4, <2>5
<1> QED BY <1>2, <1>3

(* The closures of `callees -r' and `callers -r' are one relation.          *)
LEMMA ClosuresMirror ==
  ASSUME IsCorpus(sections), NEW graph, graph = Graph(sections),
         NEW n \in AllNames(sections), NEW c \in AllNames(sections), c # n,
         NEW up, up = CallerClosure(sections, graph, n), NEW down, down = CalleeClosure(sections, graph, c)
  PROVE  /\ n \in DOMAIN down <=> c \in DOMAIN up
         /\ n \in DOMAIN down => down[n] = up[c]
<1> DEFINE V == AllNames(sections)
           nb == [x \in GraphNodes |-> CalleesOf(graph, x)]
           bn == [x \in GraphNodes |-> CitersOf(graph, x)]
           mb == [x \in V |-> CalleesOf(graph, x)]
<1>1. V \subseteq GraphNodes /\ IsFiniteSet(V) /\ IsFiniteSet(GraphNodes)
  BY NamesAreFinite DEF GraphNodes
<1>2. /\ nb \in [GraphNodes -> SUBSET GraphNodes] /\ bn \in [GraphNodes -> SUBSET GraphNodes] /\ mb \in [V -> SUBSET V]
      /\ \A x, y \in GraphNodes : y \in nb[x] <=> x \in bn[y]
      /\ \A x \in V : nb[x] = mb[x]
  BY <1>1, GraphIs
<1>3. PICK sn, sc, sd : sn = {n} /\ sc = {c} /\ sd = 0
  OBVIOUS
<1> DEFINE d == BfsDepths(nb, sc, sd)
           e == BfsDepths(mb, sc, sd)
<1>4. up = BfsDepths(bn, sn, sd) /\ down = Without(e, c)
  BY <1>3 DEF CallerClosure, CalleeClosure, GraphNodes
<1> HIDE DEF V, nb, bn, mb, d, e
<1>5. /\ sn \in SUBSET GraphNodes /\ sc \in SUBSET GraphNodes /\ sc \in SUBSET V /\ sd \in Int
      /\ (\A x : x \in sn <=> x = n) /\ (\A x : x \in sc <=> x = c)
      /\ n \in GraphNodes /\ c \in GraphNodes /\ c \in V
  BY <1>1, <1>3 DEF V
<1>6. (n \in DOMAIN d <=> c \in DOMAIN up) /\ (n \in DOMAIN d => d[n] = up[c])
  BY <1>1, <1>2, <1>4, <1>5, DepthsMirror DEF d
<1>7. Levels(nb, c, d)
  BY <1>1, <1>2, <1>3, <1>5, DepthsAreLevels DEF d
<1>8. DOMAIN e \subseteq V /\ Levels(mb, c, e)
  BY <1>1, <1>2, <1>3, <1>5, DepthsAreLevels DEF e
<1>9. \A x \in DOMAIN e : x \in DOMAIN d /\ d[x] <= e[x]
  <2>1. \A x \in DOMAIN e : mb[x] \subseteq nb[x]
    BY <1>2, <1>8
  <2> QED BY <1>7, <1>8, <2>1, LevelsBound
<1>10. \A x \in DOMAIN d : x \in V
  <2> SUFFICES ASSUME NEW x \in DOMAIN d PROVE x \in V
    OBVIOUS
  <2>1. x # c => \E y \in DOMAIN d : x \in nb[y]
    BY <1>7 DEF Levels
  <2>2. DOMAIN d \subseteq GraphNodes
    BY <1>1, <1>2, <1>3, <1>5, DepthsAreLevels DEF d
  <2>3. \A y \in GraphNodes : nb[y] \subseteq V
    BY GraphIs DEF nb, V
  <2> QED BY <1>5, <2>1, <2>2, <2>3
<1>11. \A x \in DOMAIN d : x \in DOMAIN e /\ e[x] <= d[x]
  <2>1. \A x \in DOMAIN d : nb[x] \subseteq mb[x]
    BY <1>2, <1>10
  <2> QED BY <1>7, <1>8, <2>1, LevelsBound
<1>12. /\ n \in DOMAIN d <=> n \in DOMAIN e
       /\ n \in DOMAIN e => d[n] = e[n]
  <2>1. n \in DOMAIN e => e[n] \in Nat /\ d[n] \in Nat
    BY <1>7, <1>8, <1>9 DEF Levels
  <2> QED BY <1>9, <1>11, <2>1
<1>13. /\ n \in DOMAIN down <=> n \in DOMAIN e
       /\ n \in DOMAIN down => down[n] = e[n]
  BY <1>4 DEF Without
<1> QED BY <1>6, <1>12, <1>13

(* Some declaration of a name sees the seed, or all are told.               *)
LEMMA SeeingIs ==
  ASSUME NEW n, NEW m \in AllNames(sections)
  PROVE  /\ Seeing(sections, n, m) # {}
         /\ \A d \in Seeing(sections, n, m) : d.sec \in DOMAIN sections
<1> DEFINE decls == Declarations(sections, FALSE)
           mine == {d \in decls : d.name = m}
           targets == {sections[d.sec].name : d \in {e \in decls : e.name = n}}
           Reaches(d) == Depths(sections, sections[d.sec].name)
           kept == {d \in mine : targets \cap DOMAIN Reaches(d) # {}}
<1>1. Seeing(sections, n, m) =
        IF Cardinality(mine) < 2 \/ \E d \in mine : Reaches(d) = Unknown THEN mine
        ELSE IF kept = {} THEN mine ELSE kept
  BY DEF Seeing
<1>2. kept \subseteq mine
  OBVIOUS
<1>3. mine = Named(Declarations(sections, FALSE), m)
  BY DEF Named
<1> HIDE DEF mine, kept
<1>4. mine # {} /\ \A d \in mine : d.sec \in DOMAIN sections
  BY <1>3, DeclaredIs DEF DeclaredBy
<1> QED
  <2> HIDE DEF Reaches
  <2> QED BY <1>1, <1>2, <1>4

(* The rows of `callers -r'.                                                *)
RowIs(r, who, depth, i) == r.who = who /\ r.depth = depth /\ r.sec = i

LEMMA RowsAre ==
  ASSUME IsCorpus(sections), NamesApart, NEW n, NEW up, NEW rows, rows = RowsOf(sections, n, up)
  PROVE  /\ \A m \in (DOMAIN up \cap AllNames(sections)) \ {n} : \E r \in rows : r.who = m
         /\ \A r \in rows : /\ r.sec \in DOMAIN sections /\ r.depth = up[r.who]
                            /\ \/ r.who \in (DOMAIN up \cap AllNames(sections)) \ {n}
                               \/ /\ r.who = TopLevel(r.sec) /\ r.who \in DOMAIN up
                                  /\ r.line = ToplevelSite(FirstCitations(sections, r.sec), up, r.depth)
<1> DEFINE Row(who, i, l) == [who |-> who, depth |-> up[who], sec |-> i, line |-> l]
           Site(i) == ToplevelSite(FirstCitations(sections, i), up, up[TopLevel(i)])
           tops == {i \in DOMAIN sections : TopLevel(i) \in DOMAIN up}
           members == (DOMAIN up \cap AllNames(sections)) \ {n}
           Of(m) == {Row(m, d.sec, d.line) : d \in Seeing(sections, n, m)}
<1>1. rows = {Row(TopLevel(i), i, Site(i)) : i \in tops} \cup UNION {Of(m) : m \in members}
  BY DEF RowsOf
<1>2. \A who, i, l : LET r == Row(who, i, l)
                     IN  r.who = who /\ r.depth = up[who] /\ r.sec = i /\ r.line = l
  OBVIOUS
<1> HIDE DEF Row, Site
<1>3. ASSUME NEW m \in members PROVE \E r \in rows : r.who = m
  <2>1. PICK d \in Seeing(sections, n, m) : TRUE
    BY SeeingIs
  <2>2. Row(m, d.sec, d.line) \in Of(m)
    BY <2>1
  <2>3. Row(m, d.sec, d.line) \in rows
    <3> HIDE DEF Of, members
    <3> QED BY <1>1, <1>3, <2>2
  <2> QED BY <1>2, <2>3
<1>4. ASSUME NEW r \in rows
      PROVE  /\ r.sec \in DOMAIN sections /\ r.depth = up[r.who]
             /\ \/ r.who \in members
                \/ /\ r.who = TopLevel(r.sec) /\ r.who \in DOMAIN up
                   /\ r.line = ToplevelSite(FirstCitations(sections, r.sec), up, r.depth)
  <2>1. CASE \E i \in tops : r = Row(TopLevel(i), i, Site(i))
    <3>1. PICK i \in tops : r = Row(TopLevel(i), i, Site(i))
      BY <2>1
    <3>2. r.who = TopLevel(i) /\ r.depth = up[TopLevel(i)] /\ r.sec = i /\ r.line = Site(i)
      BY <1>2, <3>1
    <3>3. i \in DOMAIN sections /\ TopLevel(i) \in DOMAIN up
      OBVIOUS
    <3> QED BY <3>2, <3>3 DEF Site
  <2>2. CASE \E m \in members : r \in Of(m)
    <3>1. PICK m \in members : r \in Of(m)
      BY <2>2
    <3>2. PICK d \in Seeing(sections, n, m) : r = Row(m, d.sec, d.line)
      BY <3>1
    <3>3. r.who = m /\ r.depth = up[m] /\ r.sec = d.sec
      BY <1>2, <3>2
    <3>4. d.sec \in DOMAIN sections
      BY <3>2, SeeingIs
    <3> HIDE DEF members
    <3> QED BY <3>1, <3>3, <3>4
  <2> HIDE DEF Of, members, tops
  <2> QED BY <1>1, <2>1, <2>2
<1> QED BY <1>3, <1>4

(* The first line of a top level that cites a name.                         *)
CitesAt(i, l, n) == l \in Lines(sections[i]) /\ EntryAtLine(sections[i], l) = {} /\ CitedAt(i, l, n)

(* The lines that speak for a top level are those of no entry.              *)
LEMMA TopCaller ==
  ASSUME IsCorpus(sections), NamesApart, NEW i \in DOMAIN sections, NEW j \in DOMAIN sections, NEW l
  PROVE  TopLevel(i) \in CallerOf(sections, j, l) <=> i = j /\ EntryAtLine(sections[j], l) = {}
<1>1. TopLevel(i) = TopLevel(j) <=> i = j
  BY DEF TopLevel
<1>2. ASSUME NEW d \in EntryAtLine(sections[j], l), sections[j].lines[d].name = TopLevel(i) PROVE FALSE
  <2>1. d \in DeclLines(sections[j])
    BY EntryIs
  <2>2. TopLevel(i) # Anonymous
    BY DEF NamesApart
  <2>3. DeclaredBy(TopLevel(i), Named(Declarations(sections, FALSE), TopLevel(i)))
    BY DeclaredIs
  <2>4. TopLevel(i) \in AllNames(sections)
    BY <1>2, <2>1, <2>2, <2>3 DEF DeclaredBy
  <2> QED BY <2>4 DEF NamesApart
<1>3. CASE EntryAtLine(sections[j], l) = {}
  BY <1>1, <1>3 DEF CallerOf
<1>4. CASE EntryAtLine(sections[j], l) # {}
  <2>1. CallerOf(sections, j, l) \subseteq {sections[j].lines[d].name : d \in EntryAtLine(sections[j], l)}
    BY <1>4 DEF CallerOf
  <2>2. TopLevel(i) \notin {sections[j].lines[d].name : d \in EntryAtLine(sections[j], l)}
    BY <1>2
  <2> QED BY <1>4, <2>1, <2>2
<1> QED BY <1>3, <1>4

LEMMA FirstCitationsAre ==
  ASSUME IsCorpus(sections), NamesApart, NEW i \in DOMAIN sections,
         NEW first, first = FirstCitations(sections, i)
  PROVE  \A n : /\ n \in DOMAIN first <=> \E l : CitesAt(i, l, n)
                /\ n \in DOMAIN first => /\ CitesAt(i, first[n], n)
                                         /\ \A l : CitesAt(i, l, n) => first[n] <= l
<1> DEFINE names == AllNames(sections)
           decls == Declarations(sections, FALSE)
           Edges(l) == LineEdges(sections, i, l, names, decls, FALSE, TRUE)
           cited == [l \in Lines(sections[i]) |-> {e.callee : e \in {g \in Edges(l) : g.caller = TopLevel(i)}}]
           At(n) == {l \in Lines(sections[i]) : n \in cited[l]}
<1>1. first = [n \in UNION Range(cited) |-> Min(At(n))]
  BY DEF FirstCitations
<1>2. ASSUME NEW l, NEW c, NEW n
      PROVE  [caller |-> c, callee |-> n] \in Edges(l) <=> c \in CallerOf(sections, i, l) /\ CitedAt(i, l, n)
  <2>1. \A b, m : [caller |-> b, callee |-> m] = [caller |-> c, callee |-> n] <=> b = c /\ m = n
    OBVIOUS
  <2> DEFINE e == [caller |-> c, callee |-> n]
             Live == {m \in UsedOn(sections[i].lines[l], names, FALSE) :
                        /\ ~Noise(sections[i], l) /\ ~DefSite(sections[i], l, m, FALSE)
                        /\ TRUE => Sees(sections, decls, sections[i].name, m)}
  <2>2. Edges(l) = {[caller |-> b, callee |-> m] : b \in CallerOf(sections, i, l), m \in Live}
    BY DEF LineEdges
  <2>3. n \in Live <=> CitedAt(i, l, n)
    BY DEF CitedAt
  <2> HIDE DEF Live, Edges
  <2>4. e \in Edges(l) <=> \E b \in CallerOf(sections, i, l) : \E m \in Live : e = [caller |-> b, callee |-> m]
    BY <2>2
  <2> QED BY <2>1, <2>3, <2>4
<1>3. ASSUME NEW l, NEW e \in Edges(l) PROVE e = [caller |-> e.caller, callee |-> e.callee]
  <2> DEFINE Live == {m \in UsedOn(sections[i].lines[l], names, FALSE) :
                        /\ ~Noise(sections[i], l) /\ ~DefSite(sections[i], l, m, FALSE)
                        /\ TRUE => Sees(sections, decls, sections[i].name, m)}
  <2>0. Edges(l) = {[caller |-> c, callee |-> n] : c \in CallerOf(sections, i, l), n \in Live}
    BY DEF LineEdges
  <2> HIDE DEF Edges, Live
  <2>1. \E c, n : e = [caller |-> c, callee |-> n]
    BY <2>0
  <2> QED BY <2>1
<1>4. ASSUME NEW l \in Lines(sections[i]), NEW n PROVE n \in cited[l] <=> CitesAt(i, l, n)
  <2> HIDE DEF Edges
  <2>1. n \in cited[l] <=> \E e \in Edges(l) : e.caller = TopLevel(i) /\ e.callee = n
    OBVIOUS
  <2>2. n \in cited[l] <=> [caller |-> TopLevel(i), callee |-> n] \in Edges(l)
    <3> HIDE DEF cited
    <3>1. ASSUME n \in cited[l] PROVE [caller |-> TopLevel(i), callee |-> n] \in Edges(l)
      BY <1>3, <2>1, <3>1
    <3>2. ASSUME [caller |-> TopLevel(i), callee |-> n] \in Edges(l) PROVE n \in cited[l]
      BY <2>1, <3>2
    <3> QED BY <3>1, <3>2
  <2> HIDE DEF cited
  <2> QED BY <1>2, <2>2, TopCaller DEF CitesAt
<1>5. \A n : n \in UNION Range(cited) <=> \E l \in Lines(sections[i]) : n \in cited[l]
  <2>1. DOMAIN cited = Lines(sections[i])
    OBVIOUS
  <2> HIDE DEF cited
  <2> QED BY <2>1 DEF Range
<1> HIDE DEF cited
<1>6. \A n, l : l \in At(n) <=> CitesAt(i, l, n)
  <2>1. \A n, l : CitesAt(i, l, n) => l \in Lines(sections[i])
    BY DEF CitesAt
  <2> QED BY <1>4, <2>1
<1>7. \A n : At(n) \subseteq Nat
  <2>1. Lines(sections[i]) \subseteq Nat
    BY LinesAre
  <2> QED BY <2>1
<1>8. \A n : n \in DOMAIN first <=> At(n) # {}
  <2>1. DOMAIN first = UNION Range(cited)
    BY <1>1
  <2> QED BY <1>5, <2>1
<1>9. ASSUME NEW n \in DOMAIN first PROVE first[n] \in At(n) /\ \A l \in At(n) : first[n] <= l
  <2>1. first[n] = Min(At(n))
    BY <1>1
  <2> HIDE DEF At
  <2>2. \E m \in At(n) : \A k \in At(n) : m <= k
    BY <1>7, <1>8, LeastIs
  <2> QED BY <2>1, <2>2 DEF Min
<1> HIDE DEF At
<1> QED BY <1>6, <1>8, <1>9

(* The closure of `callers -r' goes up by one at a time.                    *)
LEMMA UpLevels ==
  ASSUME IsCorpus(sections), NEW graph, graph = Graph(sections), NEW n \in AllNames(sections),
         NEW up, up = CallerClosure(sections, graph, n)
  PROVE  Levels([x \in GraphNodes |-> CitersOf(graph, x)], n, up) /\ DOMAIN up \subseteq GraphNodes
<1> DEFINE nb == [x \in GraphNodes |-> CitersOf(graph, x)]
<1>1. nb \in [GraphNodes -> SUBSET GraphNodes]
  BY GraphIs
<1>2. n \in GraphNodes /\ IsFiniteSet(GraphNodes)
  BY NamesAreFinite DEF GraphNodes
<1>3. PICK sn : sn = {n}
  OBVIOUS
<1>4. up = BfsDepths(nb, sn, 0)
  BY <1>3 DEF CallerClosure, GraphNodes
<1> HIDE DEF nb
<1>5. sn \in SUBSET GraphNodes /\ \A x : x \in sn <=> x = n
  BY <1>2, <1>3
<1>6. DOMAIN up \subseteq GraphNodes /\ Levels(nb, n, up)
  BY <1>1, <1>2, <1>4, <1>5, DepthsAreLevels
<1> QED BY <1>6 DEF nb

(* What a verb is asked for stands for a name of the graph.                 *)
LEMMA SubjectIs ==
  ASSUME IsCorpus(sections), NEW asked, NEW n \in Subject(sections, asked) \ {Anonymous}
  PROVE  n \in AllNames(sections)
<1> DEFINE binders == {d \in Declarations(sections, TRUE) :
                         d.name = asked /\ asked \in sections[d.sec].lines[d.line].binds}
           d == FirstOf(binders)
<1>1. CASE asked \in AllNames(sections)
  BY <1>1 DEF Subject
<1>2. CASE asked \notin AllNames(sections)
  <2>1. n \in ResolveBinding(sections, asked)
    BY <1>2 DEF Subject
  <2>2. binders # {} /\ n = sections[d.sec].lines[d.line].name
    BY <2>1 DEF ResolveBinding
  <2>3. \A x \in binders : x.sec \in DOMAIN sections /\ x.line \in DeclLines(sections[x.sec])
    BY BoundIs
  <2> HIDE DEF binders
  <2>4. d.sec \in DOMAIN sections /\ d.line \in DeclLines(sections[d.sec])
    BY <2>2, <2>3, FirstIs
  <2> HIDE DEF d
  <2>5. DeclaredBy(n, Named(Declarations(sections, FALSE), n))
    BY DeclaredIs
  <2> QED BY <2>2, <2>4, <2>5 DEF DeclaredBy
<1> QED BY <1>1, <1>2

(* A top level is in it for its first citation of what is one step nearer.  *)
LEMMA TopSite ==
  ASSUME IsCorpus(sections), NamesApart, NEW graph, graph = Graph(sections), NEW n \in AllNames(sections),
         NEW up, up = CallerClosure(sections, graph, n), NEW i \in DOMAIN sections, TopLevel(i) \in DOMAIN up,
         NEW k, k = up[TopLevel(i)], NEW site, site = ToplevelSite(FirstCitations(sections, i), up, k)
  PROVE  /\ k \in Nat \ {0} /\ site \in Nat
         /\ \E m \in AllNames(sections) : m \in DOMAIN up /\ up[m] = k - 1 /\ CitesAt(i, site, m)
         /\ \A m \in DOMAIN up : up[m] = k - 1 => \A l : CitesAt(i, l, m) => site <= l
<1> DEFINE nb == [x \in GraphNodes |-> CitersOf(graph, x)]
           first == FirstCitations(sections, i)
           near == {m \in DOMAIN first \cap DOMAIN up : up[m] = k - 1}
           sites == {first[m] : m \in near}
<1>3. Levels(nb, n, up) /\ DOMAIN up \subseteq GraphNodes
  BY UpLevels
<1>4. TopLevel(i) # n
  BY DEF NamesApart
<1>5. PICK y \in DOMAIN up : TopLevel(i) \in nb[y] /\ k = up[y] + 1
  <2> HIDE DEF nb
  <2> QED BY <1>3, <1>4 DEF Levels
<1>6. k \in Nat \ {0} /\ up[y] \in Nat /\ up[y] = k - 1
  <2> HIDE DEF nb
  <2> QED BY <1>3, <1>4, <1>5 DEF Levels
<1>7. [caller |-> TopLevel(i), callee |-> y] \in graph
  <2>1. TopLevel(i) \in CitersOf(graph, y)
    BY <1>3, <1>5
  <2> QED BY <2>1, GraphIs
<1>8. \E l : CitesAt(i, l, y)
  <2>1. PICK j \in DOMAIN sections : \E l \in Lines(sections[j]) : TopLevel(i) \in CallerOf(sections, j, l) /\ CitedAt(j, l, y)
    BY <1>7, EdgesCite
  <2>2. PICK l \in Lines(sections[j]) : TopLevel(i) \in CallerOf(sections, j, l) /\ CitedAt(j, l, y)
    BY <2>1
  <2>3. i = j /\ EntryAtLine(sections[j], l) = {}
    BY <2>2, TopCaller
  <2> QED BY <2>2, <2>3 DEF CitesAt
<1> HIDE DEF nb, first
<1>9. \A m : /\ m \in DOMAIN first <=> \E l : CitesAt(i, l, m)
             /\ m \in DOMAIN first => /\ CitesAt(i, first[m], m)
                                      /\ \A l : CitesAt(i, l, m) => first[m] <= l
  BY FirstCitationsAre DEF first
<1>10. \A m, l : CitesAt(i, l, m) => l \in Nat /\ m \in AllNames(sections)
  <2>1. Lines(sections[i]) \subseteq Nat
    BY LinesAre
  <2> QED BY <2>1 DEF CitesAt, CitedAt, UsedOn
<1>11. sites # {} /\ sites \subseteq Nat
  <2>1. y \in near
    BY <1>5, <1>6, <1>8, <1>9
  <2>2. \A m \in near : first[m] \in Nat
    BY <1>9, <1>10
  <2> QED BY <2>1, <2>2
<1>12. site = Min(sites)
  BY DEF ToplevelSite, first
<1>13. \A s : s \in sites <=> \E m \in near : s = first[m]
  OBVIOUS
<1> HIDE DEF sites
<1>14. site \in sites /\ \A s \in sites : site <= s
  <2>1. \E s \in sites : \A t \in sites : s <= t
    BY <1>11, LeastIs
  <2> QED BY <1>12, <2>1 DEF Min
<1>15. PICK m \in near : site = first[m]
  BY <1>13, <1>14
<1>16. m \in AllNames(sections) /\ m \in DOMAIN up /\ up[m] = k - 1 /\ CitesAt(i, site, m)
  BY <1>9, <1>10, <1>15
<1>17. ASSUME NEW x \in DOMAIN up, up[x] = k - 1, NEW l, CitesAt(i, l, x) PROVE site <= l
  <2>1. x \in near
    BY <1>9, <1>17
  <2>2. site <= first[x] /\ first[x] <= l
    BY <1>9, <1>13, <1>14, <1>17, <2>1
  <2>3. site \in Nat /\ first[x] \in Nat /\ l \in Nat
    BY <1>9, <1>10, <1>11, <1>14, <1>17, <2>1
  <2> QED BY <2>2, <2>3
<1> QED BY <1>6, <1>10, <1>11, <1>14, <1>16, <1>17

(* The table of `callers -r'.                                               *)
LEMMA CorpusTsv ==
  ASSUME IsCorpus(sections)
  PROVE  TsvPointsAtCause
<1> SUFFICES ASSUME phase = "idle", NamesApart, NEW graph, graph = Graph(sections),
                    NEW asked \in {d.name : d \in Declarations(sections, TRUE)},
                    NEW n \in Subject(sections, asked) \ {Anonymous}
             PROVE  RowsPointAtCause(n, CallersTsv(sections, graph, n), graph)
  BY DEF TsvPointsAtCause
<1> DEFINE V == AllNames(sections)
           up == CallerClosure(sections, graph, n)
           rows == CallersTsv(sections, graph, n)
<1>1. n \in V
  BY SubjectIs
<1>2. /\ \A m \in (DOMAIN up \cap V) \ {n} : \E r \in rows : r.who = m
      /\ \A r \in rows : /\ r.sec \in DOMAIN sections /\ r.depth = up[r.who]
                         /\ \/ r.who \in (DOMAIN up \cap V) \ {n}
                            \/ /\ r.who = TopLevel(r.sec) /\ r.who \in DOMAIN up
                               /\ r.line = ToplevelSite(FirstCitations(sections, r.sec), up, r.depth)
  BY RowsAre DEF CallersTsv
<1>3. \A i \in DOMAIN sections : TopLevel(i) \notin V
  BY DEF NamesApart
<1>4. /\ n \in DOMAIN up /\ up[n] = 0
      /\ \A x \in DOMAIN up : up[x] \in Nat /\ (x # n => up[x] > 0)
  BY <1>1, UpLevels DEF Levels
<1> HIDE DEF rows, up
<1>5. ASSUME NEW c \in V \ {n}, NEW down, down = CalleeClosure(sections, graph, c)
      PROVE  /\ n \in DOMAIN down <=> \E r \in rows : r.who = c
             /\ \A r \in {r \in rows : r.who = c} : r.depth = down[n]
  <2>1. n \in DOMAIN down <=> c \in DOMAIN up
    BY <1>1, <1>5, ClosuresMirror DEF up
  <2>2. n \in DOMAIN down => down[n] = up[c]
    BY <1>1, <1>5, ClosuresMirror DEF up
  <2>3. \A r \in rows : r.who = c => c \in DOMAIN up /\ r.depth = up[c]
    BY <1>2, <1>3
  <2>4. c \in DOMAIN up => \E r \in rows : r.who = c
    BY <1>2
  <2> QED BY <2>1, <2>2, <2>3, <2>4
<1>6. ASSUME NEW r \in rows, r.who = TopLevel(r.sec), NEW near,
             near = IF r.depth = 1 THEN {n} ELSE {q.who : q \in {q \in rows : q.depth = r.depth - 1}}
      PROVE  /\ EntryAtLine(sections[r.sec], r.line) = {}
             /\ \E m \in sections[r.sec].lines[r.line].cites : m.name \in near
             /\ \A l \in 1..(r.line - 1) : \A m \in near \cap V :
                  ~(/\ EntryAtLine(sections[r.sec], l) = {} /\ PlainUse(r.sec, l, m)
                    /\ Sees(sections, Declarations(sections, FALSE), sections[r.sec].name, m))
  <2>1. /\ r.sec \in DOMAIN sections /\ TopLevel(r.sec) \in DOMAIN up /\ r.depth = up[TopLevel(r.sec)]
        /\ r.line = ToplevelSite(FirstCitations(sections, r.sec), up, r.depth)
    <3>1. r.sec \in DOMAIN sections /\ r.who \notin V
      BY <1>2, <1>3, <1>6
    <3> QED BY <1>2, <1>6, <3>1
  <2>2. /\ r.depth \in Nat \ {0} /\ r.line \in Nat
        /\ \E m \in V : m \in DOMAIN up /\ up[m] = r.depth - 1 /\ CitesAt(r.sec, r.line, m)
        /\ \A m \in DOMAIN up : up[m] = r.depth - 1 => \A l : CitesAt(r.sec, l, m) => r.line <= l
    BY <1>1, <2>1, TopSite DEF up
  <2>3. ASSUME NEW m \in V PROVE m \in near <=> m \in DOMAIN up /\ up[m] = r.depth - 1
    <3>1. CASE r.depth = 1
      BY <1>4, <1>6, <3>1
    <3>2. CASE r.depth # 1
      <4>1. m \in near <=> \E q \in rows : q.who = m /\ q.depth = r.depth - 1
        BY <1>6, <3>2
      <4>2. \A q \in rows : q.who = m => m \in (DOMAIN up \cap V) \ {n} /\ q.depth = up[m]
        BY <1>2, <1>3
      <4>3. m \in DOMAIN up /\ up[m] = r.depth - 1 => m # n
        BY <1>4, <2>2, <3>2
      <4>4. ASSUME m \in DOMAIN up, up[m] = r.depth - 1 PROVE \E q \in rows : q.who = m /\ q.depth = r.depth - 1
        <5>1. PICK q \in rows : q.who = m
          BY <1>2, <4>3, <4>4
        <5> QED BY <4>2, <4>4, <5>1
      <4> QED BY <4>1, <4>2, <4>4
    <3> QED BY <3>1, <3>2
  <2>4. PICK m \in V : m \in near /\ CitesAt(r.sec, r.line, m)
    BY <2>2, <2>3
  <2>5. EntryAtLine(sections[r.sec], r.line) = {} /\ CitedAt(r.sec, r.line, m)
    BY <2>4 DEF CitesAt
  <2>6. \E c \in sections[r.sec].lines[r.line].cites : c.name \in near
    BY <2>4, <2>5 DEF CitedAt, UsedOn
  <2>7. ASSUME NEW l \in 1..(r.line - 1), NEW x \in near \cap V, EntryAtLine(sections[r.sec], l) = {},
               PlainUse(r.sec, l, x), Sees(sections, Declarations(sections, FALSE), sections[r.sec].name, x)
        PROVE  FALSE
    <3>1. l \in Lines(sections[r.sec])
      <4>1. r.line \in Lines(sections[r.sec])
        BY <2>4 DEF CitesAt
      <4>2. Len(sections[r.sec].lines) \in Nat /\ Lines(sections[r.sec]) = 1..Len(sections[r.sec].lines)
        BY <2>1, LinesAre
      <4> QED BY <2>2, <2>7, <4>1, <4>2
    <3>2. CitedAt(r.sec, l, x)
      <4>1. x \in UsedOn(sections[r.sec].lines[l], AllNames(sections), FALSE)
        <5>1. PICK c \in sections[r.sec].lines[l].cites : c.name = x /\ c.how = "fact"
          BY <2>7 DEF PlainUse
        <5>2. Counts(c, FALSE)
          BY <5>1 DEF Counts
        <5> QED BY <2>7, <5>1, <5>2 DEF UsedOn
      <4> QED BY <2>7, <4>1 DEF CitedAt, PlainUse
    <3>3. CitesAt(r.sec, l, x)
      BY <2>7, <3>1, <3>2 DEF CitesAt
    <3>4. r.line <= l
      BY <2>2, <2>3, <2>7, <3>3
    <3> QED BY <2>2, <2>7, <3>4
  <2> QED BY <2>5, <2>6, <2>7
<1> QED
  <2>1. \A c \in V \ {n} : /\ n \in DOMAIN CalleeClosure(sections, graph, c) <=> \E r \in rows : r.who = c
                           /\ \A r \in {r \in rows : r.who = c} : r.depth = CalleeClosure(sections, graph, c)[n]
    BY <1>5
  <2> QED BY <1>6, <2>1 DEF RowsPointAtCause, V, rows

(* Sections get lines and keep their names. *)
LEMMA CorpusStep ==
  ASSUME IsCorpus(sections), [UsageNext]_usageVars
  PROVE  IsCorpus(sections)'
<1> SUFFICES ASSUME NEW i \in DOMAIN sections, NEW line, Write(i, line) PROVE IsCorpus(sections)'
  <2>1. CASE UNCHANGED sections
    BY <2>1 DEF IsCorpus, Names
  <2> QED BY <2>1, Zenon DEF UsageNext, usageVars, CmdUnused, State, Say
<1>1. sections' = [sections EXCEPT ![i].lines = Append(@, line)]
  BY DEF Write
<1>2. DOMAIN sections' = DOMAIN sections
      /\ \A j \in DOMAIN sections : sections'[j] = IF j = i THEN [sections[i] EXCEPT !.lines = Append(@, line)] ELSE sections[j]
  BY <1>1
<1>3. \A j \in DOMAIN sections : IsSection(sections'[j]) /\ sections'[j].name = sections[j].name
  <2> DEFINE r == sections[i]
             w == [r EXCEPT !.lines = Append(r.lines, line)]
  <2>1. IsSection(r)
    BY DEF IsCorpus
  <2>2. DOMAIN w = DOMAIN r /\ w.name = r.name /\ w.dir = r.dir /\ w.lines = Append(r.lines, line)
    <3> HIDE DEF r
    <3> QED BY <2>1 DEF IsSection
  <2>3. IsSequence(Append(r.lines, line))
    <3>1. r.lines \in Seq(Range(r.lines) \cup {line}) /\ line \in Range(r.lines) \cup {line}
      <4>1. r.lines \in Seq(Range(r.lines))
        BY <2>1 DEF IsSection, IsSequence
      <4> HIDE DEF r
      <4>2. r.lines \in [1..Len(r.lines) -> Range(r.lines)] /\ Len(r.lines) \in Nat
        BY <4>1, LenProperties
      <4>3. r.lines \in [1..Len(r.lines) -> Range(r.lines) \cup {line}]
        BY <4>2
      <4> QED BY <4>2, <4>3, SeqDef
    <3> DEFINE s == Append(r.lines, line)
    <3>2. s \in Seq(Range(r.lines) \cup {line})
      BY <3>1, AppendProperties
    <3> HIDE DEF s
    <3>3. s \in [1..Len(s) -> Range(r.lines) \cup {line}] /\ Len(s) \in Nat
      BY <3>2, LenProperties
    <3>4. s \in [1..Len(s) -> Range(s)]
      BY <3>3 DEF Range
    <3>5. s \in Seq(Range(s))
      BY <3>3, <3>4, SeqDef
    <3> QED BY <3>5 DEF IsSequence, s
  <2> HIDE DEF r
  <2>4. IsSection(w)
    BY <2>1, <2>2, <2>3 DEF IsSection
  <2>5. \A j \in DOMAIN sections : sections'[j] = IF j = i THEN w ELSE sections[j]
    BY <1>2 DEF r
  <2>6. \A j \in DOMAIN sections : IsSection(sections[j])
    BY DEF IsCorpus
  <2>7. w.name = sections[i].name
    BY <2>2 DEF r
  <2> HIDE DEF w
  <2> QED BY <2>4, <2>5, <2>6, <2>7
<1>4. Names(sections)' = Names(sections)
  BY <1>2, <1>3 DEF Names
<1>5. IsSequence(sections')
  <2>1. Len(sections) \in Nat /\ DOMAIN sections = 1..Len(sections)
    BY CorpusIs
  <2>2. sections' \in [1..Len(sections) -> Range(sections')]
    BY <1>1, <1>2, <2>1 DEF Range
  <2> QED BY <2>1, <2>2, SeqDef DEF IsSequence
<1> QED BY <1>2, <1>3, <1>4, <1>5 DEF IsCorpus

(* The citation graph has every use of a declaration that the citing file,  *)
(* or one it imports, can mean, and, where theories have names of their own *)
(* and can be read, no other; documents speak for the entries they show by  *)
(* the same rule.  For every corpus: any number of theories, any imports    *)
(* and import cycles, shared names and unreadable headers, any lines.       *)
THEOREM Uses == UsageSpec => []UsesExact
<1>1. UsageInit => IsCorpus(sections)
  BY CorporaAssumption DEF UsageInit
<1>2. IsCorpus(sections) /\ [UsageNext]_usageVars => IsCorpus(sections)'
  BY CorpusStep
<1>3. IsCorpus(sections) => UsesExact
  BY CorpusUsesExact
<1> QED BY <1>1, <1>2, <1>3, PTL DEF UsageSpec

(* The verbs agree with one another and with the files in every corpus:     *)
(* `callers' and the graph of `unused' have the same uses, its rows and     *)
(* groups are declarations the citing theory means, `callers -e' mirrors    *)
(* `callees -e', `uses -r' mirrors `deps -r' at the same distances, `deps'  *)
(* is their first ring, `refs' owes names to the theories that bring them,  *)
(* the table of `callers -r' points at causes, a label leads back to its    *)
(* theory, a keep file keeps what is printed, `show' prints no line that    *)
(* `callers' lists.                                                         *)
THEOREM Verbs == UsageSpec => []VerbsExact
<1>1. UsageInit => IsCorpus(sections)
  BY CorporaAssumption DEF UsageInit
<1>2. IsCorpus(sections) /\ [UsageNext]_usageVars => IsCorpus(sections)'
  BY CorpusStep
<1>3. IsCorpus(sections) => VerbsExact
  BY CorpusCallersAgree, CorpusRowsAreRight, CorpusGroupsExact, CorpusExternalMirrors, CorpusDepsMirror,
     CorpusImportsAgree, CorpusLabelsRoundTrip, CorpusKeepsAsPrinted, CorpusShownExact, CorpusRefsExact,
     CorpusTsv DEF VerbsExact
<1> QED BY <1>1, <1>2, <1>3, PTL DEF UsageSpec

(* The graph of a corpus and what is kept in it are a query.                *)
LEMMA QueryStep == ASSUME SweepInv, [UsageNext]_usageVars PROVE SweepInv'
<1>1. ASSUME NEW show \in BOOLEAN, NEW verb \in {"direct", "recursive", "roots"}, CmdUnused(show, verb)
      PROVE  SweepInv'
  <2> DEFINE callers == CallersOf(sections, TRUE)
             liveIn(keep, evidence) == IF verb = "roots" /\ show THEN keep ELSE keep \cup evidence
             marks(evidence) == IF show THEN evidence ELSE {}
  <2>1. PICK keep \in SUBSET AllNames(sections) : \E evidence \in SUBSET (AllNames(sections) \ keep) :
           Ask(callers, liveIn(keep, evidence), marks(evidence), verb)
    BY <1>1 DEF CmdUnused
  <2>2. PICK evidence \in SUBSET (AllNames(sections) \ keep) :
           Ask(callers, liveIn(keep, evidence), marks(evidence), verb)
    BY <2>1
  <2>3. Nodes(callers) = AllNames(sections) /\ callers = [n \in AllNames(sections) |-> callers[n]]
    BY DEF Nodes, CallersOf
  <2> HIDE DEF callers
  <2> DEFINE q == [callers |-> callers, live |-> liveIn(keep, evidence), marks |-> marks(evidence), verb |-> verb]
  <2>4. /\ q.callers = callers /\ q.live = liveIn(keep, evidence)
        /\ q.marks = marks(evidence) /\ q.verb = verb
    OBVIOUS
  <2>5. marks(evidence) \subseteq AllNames(sections) /\ (verb # "roots" => marks(evidence) \subseteq liveIn(keep, evidence))
    BY <2>2
  <2> HIDE DEF q, liveIn, marks
  <2>6. IsQuery(q)
    BY <2>3, <2>4, <2>5 DEF IsQuery
  <2>7. Ask(q.callers, q.live, q.marks, q.verb)
    BY <2>2, <2>4
  <2> QED BY <2>6, <2>7, AskStep
<1>2. ASSUME Sweep PROVE SweepInv'
  BY <1>2, CascadePassStep, MarkStep, ForestStep, PassEndsStep DEF Sweep
<1>3. ASSUME UNCHANGED unusedVars PROVE SweepInv'
  BY <1>3, UnusedStutter
<1>4. CASE UNCHANGED usageVars
  BY <1>3, <1>4 DEF usageVars
<1>5. CASE UsageNext
  BY <1>1, <1>2, <1>3, <1>5 DEF UsageNext, Write, State, Say
<1> QED BY <1>4, <1>5

(* `unused' of every corpus, with any names kept and any evidence: each of   *)
(* its sweeps ends at the least fixed point, whatever order a pass takes.   *)
THEOREM Sweeps == UsageSpec => []FixedPointsExact
<1>1. UsageInit => SweepInv
  BY UnusedInitInv DEF UsageInit
<1> QED BY <1>1, QueryStep, SweepInvIsEnough, PTL DEF UsageSpec
=============================================================================
