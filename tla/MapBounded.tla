----------------------------- MODULE MapBounded -----------------------------
(***************************************************************************)
(* Theory.map_bounded (query_base/src/theory.scala): a few workers map a   *)
(* function over a list, claiming its slots from a shared counter.  A      *)
(* worker that fails tells the others to stop; only when every worker has  *)
(* returned is the array of results read, and it is read as a whole, so a  *)
(* slot nobody filled would surface as a null in the middle of a project.  *)
(***************************************************************************)
EXTENDS Integers

CONSTANTS
  Worker,  \* the indices Par_List.map runs work on
  N        \* length of the list

ASSUME NAssumption == N \in Nat
(* min(parallelism, length) workers, and parallelism is at least 1 *)
ASSUME WorkerAssumption == Worker = {} => N = 0

VARIABLES
  next,     \* the shared counter (an AtomicInteger, slots counted from 1)
  stopped,  \* the shared flag (an AtomicBoolean)
  filled,   \* slots that hold a result
  pc,       \* where each worker is
  slot,     \* the slot each worker claimed last
  outcome   \* of the call: "running", "list" or "exception"

vars == <<next, stopped, filled, pc, slot, outcome>>

Input == 1..N
Finished == {"returned", "failed"}

Init == /\ next = 1 /\ stopped = FALSE /\ filled = {}
        /\ pc = [w \in Worker |-> "loop"]
        /\ slot = [w \in Worker |-> 0]
        /\ outcome = "running"

-----------------------------------------------------------------------------
(* while (!done && !stopped.get()) *)
Loop(w) ==
  /\ pc[w] = "loop"
  /\ pc' = [pc EXCEPT ![w] = IF stopped THEN "returned" ELSE "claim"]
  /\ UNCHANGED <<next, stopped, filled, slot, outcome>>

(* val i = next.getAndIncrement(): the counter runs past the end once for   *)
(* every worker.                                                            *)
Claim(w) ==
  /\ pc[w] = "claim"
  /\ next' = next + 1
  /\ slot' = [slot EXCEPT ![w] = next]
  /\ pc' = [pc EXCEPT ![w] = IF next \in Input THEN "check" ELSE "returned"]
  /\ UNCHANGED <<stopped, filled, outcome>>

(* Mutant: the flag is tested here again and again. *)
CheckAgain(w) ==
  /\ pc[w] = "check"
  /\ pc' = [pc EXCEPT ![w] = IF stopped THEN "check" ELSE "apply"]
  /\ UNCHANGED <<next, stopped, filled, slot, outcome>>

(* if (!stopped.get()): otherwise the slot is given up. *)
Check(w) ==
  /\ pc[w] = "check"
  /\ pc' = [pc EXCEPT ![w] = IF stopped THEN "loop" ELSE "apply"]
  /\ UNCHANGED <<next, stopped, filled, slot, outcome>>

(* result(i) = f(input(i)) *)
Apply(w) ==
  /\ pc[w] = "apply"
  /\ filled' = filled \cup {slot[w]}
  /\ pc' = [pc EXCEPT ![w] = "loop"]
  /\ UNCHANGED <<next, stopped, slot, outcome>>

(* Mutant: the handler does not throw again. *)
FailQuietly(w) ==
  /\ pc[w] \in {"claim", "apply"}
  /\ stopped' = TRUE
  /\ pc' = [pc EXCEPT ![w] = "returned"]
  /\ UNCHANGED <<next, filled, slot, outcome>>

(* f throws, or an interrupt (of the caller, or Par_List's own once another *)
(* worker has failed) is exposed at the head of the loop or inside f.       *)
Fail(w) ==
  /\ pc[w] \in {"claim", "apply"}
  /\ stopped' = TRUE
  /\ pc' = [pc EXCEPT ![w] = "failed"]
  /\ UNCHANGED <<next, filled, slot, outcome>>

(* Par_List.map joins all workers; a failure of one is the failure of all.  *)
Join ==
  /\ outcome = "running" /\ \A w \in Worker : pc[w] \in Finished
  /\ outcome' = IF \E w \in Worker : pc[w] = "failed" THEN "exception" ELSE "list"
  /\ UNCHANGED <<next, stopped, filled, pc, slot>>

(* Interrupted between the join and the list: Exn.Interrupt.expose(). *)
JoinInterrupted ==
  /\ outcome = "running" /\ \A w \in Worker : pc[w] \in Finished
  /\ outcome' = "exception"
  /\ UNCHANGED <<next, stopped, filled, pc, slot>>

Work(w) == Loop(w) \/ Claim(w) \/ Check(w) \/ Apply(w) \/ Fail(w)
Next == (\E w \in Worker : Work(w)) \/ Join \/ JoinInterrupted

Spec == Init /\ [][Next]_vars

(* Isabelle's thread pool runs every worker, and f terminates. *)
FairSpec == Spec /\ WF_vars(Join) /\ \A w \in Worker : WF_vars(Work(w))

-----------------------------------------------------------------------------
TypeOK ==
  /\ next \in Nat \ {0} /\ stopped \in BOOLEAN
  /\ filled \subseteq Input
  /\ pc \in [Worker -> {"loop", "claim", "check", "apply"} \cup Finished]
  /\ slot \in [Worker -> Nat]
  /\ outcome \in {"running", "list", "exception"}
  /\ \A w \in Worker : pc[w] \in {"check", "apply"} => slot[w] \in Input

(* The list that is returned has every slot filled: slots are given up, and *)
(* workers leave early, only after a failure that becomes the outcome.      *)
NoHole == outcome = "list" => filled = Input

(* No input is given to f twice: no slot is held by two workers, or claimed *)
(* again once it is filled.                                                 *)
Busy(w) == pc[w] \in {"check", "apply"}
ClaimedOnce ==
  \A v \in Worker : Busy(v) => /\ slot[v] \notin filled
                               /\ \A w \in Worker : Busy(w) /\ slot[w] = slot[v] => w = v

(* The call ends, and what a failed worker leaves behind does not keep the  *)
(* others from ending.                                                      *)
Ends == <>(outcome # "running")
=============================================================================
