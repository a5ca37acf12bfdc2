------------------------------ MODULE LruCache ------------------------------
(***************************************************************************)
(* What the server's registry promises, without locks, clocks or indexes:  *)
(* a bounded cache of whole indexes in order of use.  One root at a time   *)
(* is being worked on; when that ends, it is charged its size, becomes the *)
(* most recent if the use counts, and the oldest roots leave, just so many *)
(* that the rest fits.  A root too large for the whole budget leaves       *)
(* alone.  An open counts as a use, a run only if its command has come to  *)
(* its end with exit status 0.                                             *)
(***************************************************************************)
EXTENDS Integers, FiniteSets

CONSTANTS CacheRoot, MaxCharge, MaxBytes, MaxEntries, Nobody

VARIABLES
  charge,  \* root -> bytes, for the roots in the cache
  before,  \* the order of use: {<<p, q>> : p was used before q}
  on,      \* retention
  busy,    \* the root being worked on, or Nobody
  use      \* as what: "open", "run", and of a run whose command is over, how

cache == <<charge, before, on, busy, use>>

Outcome == {"zero", "nonzero", "thrown"}
Counts == use \in {"open", "zero"}

Part(c, roots) == [r \in roots |-> c[r]]
Units(c) == UNION {{r} \X (1..c[r]) : r \in DOMAIN c}
Fits(c) == Cardinality(DOMAIN c) <= MaxEntries /\ Cardinality(Units(c)) <= MaxBytes

(* The roots that fit together with all that were used since. *)
Since(c, order, r) == {q \in DOMAIN c : q = r \/ <<r, q>> \in order}
Recent(c, order) == {r \in DOMAIN c : Fits(Part(c, Since(c, order, r)))}

Among(order, roots) == order \cap (roots \X roots)
Promoted(r) == Among(before, DOMAIN charge \ {r}) \cup ((DOMAIN charge \ {r}) \X {r})

(* The cache holds just these roots, charged so, in this order. *)
Holds(roots, c, order) == charge' = Part(c, roots) /\ before' = Among(order, roots)
Drops(roots) == Holds(DOMAIN charge \ roots, charge, before)

Start == DOMAIN charge = {} /\ before = {} /\ on = TRUE /\ busy = Nobody /\ use = "none"

(* A root the cache does not hold yet enters as the most recent, uncharged. *)
Arrive(r, as) ==
             /\ busy = Nobody /\ busy' = r /\ use' = as
             /\ IF r \in DOMAIN charge
                THEN UNCHANGED <<charge, before>>
                ELSE /\ charge' = [q \in DOMAIN charge \cup {r} |-> IF q = r THEN 0 ELSE charge[q]]
                     /\ before' = before \cup ((DOMAIN charge) \X {r})
             /\ UNCHANGED on

(* The command of a run is over. *)
Ended(how) == /\ busy # Nobody /\ use = "run" /\ use' = how
              /\ UNCHANGED <<charge, before, on, busy>>

Leave == busy # Nobody /\ busy' = Nobody /\ use' = "none"

Settle(n) ==
  /\ Leave
  /\ on /\ MaxBytes > 0 /\ n <= MaxBytes
  /\ LET c == [charge EXCEPT ![busy] = n]
         order == IF Counts THEN Promoted(busy) ELSE before
     IN  Holds(Recent(c, order), c, order)
  /\ UNCHANGED on

Abandon == Leave /\ Drops({busy}) /\ UNCHANGED on

Control(roots) == /\ busy = Nobody
                  /\ Drops(roots)
                  /\ on' \in BOOLEAN
                  /\ ~on' => DOMAIN charge' = {}
                  /\ UNCHANGED <<busy, use>>

Move == \/ \E r \in CacheRoot : Control({r}) \/ \E as \in {"open", "run"} : Arrive(r, as)
        \/ \E how \in Outcome : Ended(how)
        \/ \E n \in 0..MaxCharge : Settle(n)
        \/ Abandon
        \/ Control({}) \/ Control(CacheRoot)

Promise == Start /\ [][Move]_cache
=============================================================================
