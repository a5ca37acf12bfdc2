--------------------------- MODULE WarmRegistryLru --------------------------
(***************************************************************************)
(* WarmRegistry implements LruCache: the timestamps, with their            *)
(* renumbering at the end of the clock, are an order of use, and the       *)
(* eviction loop, one minimum at a time, keeps exactly the recent part     *)
(* that fits.                                                              *)
(***************************************************************************)
EXTENDS WarmRegistry

(* The entries that fit together with all that were used since.             *)
Since(reg, r) == {q \in DOMAIN reg : reg[q].used >= reg[r].used}
Remaining(reg) ==
  {r \in DOMAIN reg : ~Over(Without(reg, DOMAIN reg \ Since(reg, r)))}

(* The entries as they will be when the eviction loop that is running has   *)
(* ended: its iterations are hidden.                                        *)
Staying == IF cur.phase = "evict" THEN Remaining(registry) ELSE DOMAIN registry

Charges(reg) == [r \in DOMAIN reg |-> reg[r].charge]
Uses(reg) == {p \in (DOMAIN reg) \X (DOMAIN reg) : reg[p[1]].used < reg[p[2]].used}
Kept == [r \in Staying |-> registry[r]]
Busy == IF cur.phase \in {"none", "evict"} THEN None ELSE cur.root
UsedAs == IF cur.phase \in {"none", "evict"} THEN "none"
          ELSE IF cur.kind = "open" THEN "open"
          ELSE IF cur.ended = "no" THEN "run" ELSE cur.ended

Cache == INSTANCE LruCache WITH
           CacheRoot <- Root, MaxCharge <- MaxSize, MaxBytes <- Budget, MaxEntries <- Cap,
           Nobody <- None, charge <- Charges(Kept), before <- Uses(Kept), on <- enabled, busy <- Busy,
           use <- UsedAs

(* Every step of the registry is a step of the bounded cache in order of    *)
(* use, or hidden from it.                                                  *)
ImplementsLru == Cache!Promise

=============================================================================
