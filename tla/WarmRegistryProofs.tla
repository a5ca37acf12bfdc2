------------------------- MODULE WarmRegistryProofs -------------------------
(***************************************************************************)
(* Theorems about WarmRegistry, for every number of connections and roots  *)
(* and every budget, cap and clock width the assumptions allow.            *)
(***************************************************************************)
EXTENDS WarmRegistryLru, FiniteSetTheorems, TLAPS

-----------------------------------------------------------------------------
(* Lemmas about the operators. *)

(* The bytes charged to a registry of typed entries are a finite set. *)
LEMMA ChargesFinite ==
  ASSUME NEW reg, DOMAIN reg \subseteq Root,
         \A r \in DOMAIN reg : reg[r].charge \in 0..MaxSize
  PROVE  IsFiniteSet(ChargedBytes(reg)) /\ Cardinality(ChargedBytes(reg)) \in Nat
<1>1. IsFiniteSet(Root \X (1..MaxSize))
  <2>1. 1 \in Int /\ MaxSize \in Int
    BY SizeAssumption
  <2>2. IsFiniteSet(1..MaxSize)
    BY <2>1, FS_Interval
  <2> QED BY <2>2, RootAssumption, FS_Product DEF RootAssumption
<1>2. ChargedBytes(reg) \subseteq Root \X (1..MaxSize)
  BY SizeAssumption DEF ChargedBytes
<1> QED BY <1>1, <1>2, FS_Subset, FS_CardinalityType

(* A registry charged no more than another one is within the budget if the  *)
(* other one is.                                                            *)
LEMMA FewerCharges ==
  ASSUME NEW small, NEW large,
         IsFiniteSet(ChargedBytes(large)),
         ChargedBytes(small) \subseteq ChargedBytes(large),
         RetainedBytes(large) <= Budget
  PROVE  RetainedBytes(small) <= Budget
<1>1. /\ Cardinality(ChargedBytes(small)) \in Nat
      /\ Cardinality(ChargedBytes(large)) \in Nat
      /\ Cardinality(ChargedBytes(small)) <= Cardinality(ChargedBytes(large))
  BY FS_Subset, FS_CardinalityType
<1> QED BY <1>1, BudgetAssumption DEF RetainedBytes

(* Taking roots out of a registry keeps it within the budget, and leaves    *)
(* the other entries as they are.                                           *)
LEMMA WithoutFacts ==
  ASSUME NEW reg, NEW roots
  PROVE  /\ DOMAIN Without(reg, roots) = DOMAIN reg \ roots
         /\ \A r \in DOMAIN reg \ roots : Without(reg, roots)[r] = reg[r]
         /\ ChargedBytes(Without(reg, roots)) \subseteq ChargedBytes(reg)
  BY DEF Without, ChargedBytes

(* A finite set of at most LongMax elements: counting those below a member  *)
(* gives it a rank the use clock can hold.                                  *)
LEMMA RankType ==
  ASSUME NEW reg, IsFiniteSet(DOMAIN reg), Cardinality(DOMAIN reg) <= LongMax,
         NEW r \in DOMAIN reg, reg[r].used \in Int
  PROVE  Rank(reg, r) \in 1..LongMax
<1> DEFINE below == {q \in DOMAIN reg : reg[q].used <= reg[r].used}
<1>1. IsFiniteSet(below) /\ Cardinality(below) <= Cardinality(DOMAIN reg)
  BY FS_Subset
<1>2. Cardinality(below) \in Nat /\ Cardinality(DOMAIN reg) \in Nat
  BY <1>1, FS_CardinalityType
<1>3. r \in below
  OBVIOUS
<1>4. Cardinality(below) # 0
  BY <1>1, <1>3, FS_EmptySet
<1> QED BY <1>1, <1>2, <1>4, BudgetAssumption DEF Rank

-----------------------------------------------------------------------------
(* The inductive invariant.  Between Publish and the end of the eviction    *)
(* loop the budget may be exceeded, so the loop's exit test has to give it  *)
(* back; the cap is exceeded by the transient root only; and a lifecycle    *)
(* that publishes does so with retention on.                                *)
Shape == IF cur.phase = "none"
         THEN cur = Idle
         ELSE cur.client \in Client /\ cur.root \in Root /\ cur.kind \in {"run", "open"}
Small == Cardinality(DOMAIN registry) <= IF cur.phase = "none" THEN Cap ELSE Cap + 1
Evicting == cur.phase = "evict" =>
  /\ Retaining
  /\ \A r \in DOMAIN registry : registry[r].charge = registry[r].index.size

Inv == /\ TypeOK /\ Shape /\ Small /\ Evicting
       /\ WithinBudget /\ InFlightRegistered /\ Accounted /\ OffMeansEmpty

(* The registry is a finite set of entries, whose charges are finite. *)
LEMMA RegistryFinite ==
  ASSUME TypeOK
  PROVE  /\ IsFiniteSet(DOMAIN registry)
         /\ Cardinality(DOMAIN registry) \in Nat
         /\ IsFiniteSet(ChargedBytes(registry))
         /\ Cardinality(ChargedBytes(registry)) \in Nat
<1>1. DOMAIN registry \in SUBSET Root
  BY DEF TypeOK
<1>2. \A r \in DOMAIN registry : registry[r].charge \in 0..MaxSize
  BY DEF TypeOK, Entry
<1> QED BY <1>1, <1>2, ChargesFinite, RootAssumption, FS_Subset, FS_CardinalityType

(* Ageing the clock keeps every entry but for its time of use, which stays  *)
(* within the clock; so does the next use handed out.                       *)
LEMMA AgedFacts ==
  ASSUME TypeOK, Cardinality(DOMAIN registry) <= Cap + 1
  PROVE  /\ DOMAIN Aged(registry) = DOMAIN registry
         /\ Aged(registry) \in [DOMAIN registry -> Entry]
         /\ \A r \in DOMAIN registry : /\ Aged(registry)[r].charge = registry[r].charge
                                       /\ Aged(registry)[r].index = registry[r].index
         /\ NextUse(registry) \in 1..LongMax
<1>1. /\ IsFiniteSet(DOMAIN registry)
      /\ Cardinality(DOMAIN registry) \in Nat
      /\ Cardinality(DOMAIN registry) <= LongMax
  BY RegistryFinite, BudgetAssumption
<1>2. \A r \in DOMAIN registry : registry[r] \in Entry /\ registry[r].used \in Int
  BY BudgetAssumption DEF TypeOK, Entry
<1>3. \A r \in DOMAIN registry : Rank(registry, r) \in 1..LongMax
  BY <1>1, <1>2, RankType
<1>4. NextUse(registry) \in 1..LongMax
  BY <1>1, BudgetAssumption DEF TypeOK, NextUse
<1>5. \A r \in DOMAIN registry :
         [registry[r] EXCEPT !.used = Rank(registry, r)] \in Entry
  BY <1>2, <1>3 DEF Entry
<1> QED BY <1>2, <1>4, <1>5 DEF Aged, TypeOK, Entry

(* The state of an index nothing was parsed into. *)
LEMMA BlankType == Blank \in Index
  BY SizeAssumption DEF Blank, Index

(* The server starts with an empty registry. *)
LEMMA InitInv == Init => Inv
<1> SUFFICES ASSUME Init PROVE Inv
  OBVIOUS
<1>1. registry = [r \in {} |-> None] /\ DOMAIN registry = {} /\ cur = Idle
  BY DEF Init
<1>2. Cardinality(DOMAIN registry) = 0
  BY <1>1, FS_EmptySet
<1>3. ChargedBytes(registry) = {}
  BY <1>1 DEF ChargedBytes
<1>4. RetainedBytes(registry) <= Budget
  BY <1>3, FS_EmptySet, BudgetAssumption DEF RetainedBytes
<1>5. TypeOK
  <2>1. (CHOOSE s \in Stamp : TRUE) \in Stamp
    BY StampAssumption
  <2>2. disk \in [Root -> [stamp : Stamp, size : 0..MaxSize]]
    BY <2>1 DEF Init
  <2>3. registry \in [DOMAIN registry -> Entry]
    BY <1>1
  <2> QED BY <1>1, <2>2, <2>3, BlankType, BudgetAssumption DEF Init, TypeOK, Idle, Phase
<1> QED BY <1>1, <1>2, <1>4, <1>5, BudgetAssumption
       DEF Inv, Shape, Small, Evicting, WithinBudget, InFlightRegistered, Accounted,
           OffMeansEmpty, Idle

(* Steps of connections and editors that leave the registry, the engine and *)
(* the retention switch alone.                                              *)
LEMMA OutsideStep ==
  ASSUME Inv, TypeOK', UNCHANGED <<registry, cur, enabled>>
  PROVE  Inv'
  BY DEF Inv, Shape, Small, Evicting, WithinBudget, InFlightRegistered, Accounted,
         OffMeansEmpty, RegistryFree, Current, Retaining

(* A removal: the roots of a set leave the registry. *)
LEMMA RemovalFacts ==
  ASSUME TypeOK, NEW roots, registry' = Without(registry, roots)
  PROVE  /\ DOMAIN registry' = DOMAIN registry \ roots
         /\ DOMAIN registry' \subseteq Root
         /\ registry' \in [DOMAIN registry' -> Entry]
         /\ \A r \in DOMAIN registry' : r \in DOMAIN registry /\ registry'[r] = registry[r]
         /\ Cardinality(DOMAIN registry') \in Nat
         /\ Cardinality(DOMAIN registry') <= Cardinality(DOMAIN registry)
         /\ RetainedBytes(registry) <= Budget => RetainedBytes(registry') <= Budget
<1>1. /\ DOMAIN registry' = DOMAIN registry \ roots
      /\ \A r \in DOMAIN registry \ roots : registry'[r] = registry[r]
      /\ ChargedBytes(registry') \subseteq ChargedBytes(registry)
  BY WithoutFacts
<1>2. registry' = [r \in DOMAIN registry \ roots |-> registry[r]]
  BY DEF Without
<1>3. registry' \in [DOMAIN registry' -> Entry]
  BY <1>1, <1>2 DEF TypeOK
<1>4. RetainedBytes(registry) <= Budget => RetainedBytes(registry') <= Budget
  BY <1>1, RegistryFinite, FewerCharges
<1>5. /\ Cardinality(DOMAIN registry') \in Nat
      /\ Cardinality(DOMAIN registry') <= Cardinality(DOMAIN registry)
  BY <1>1, RegistryFinite, FS_Subset, FS_CardinalityType
<1> QED BY <1>1, <1>3, <1>4, <1>5 DEF TypeOK

(* query_close and query_cache: only with the engine free. *)
LEMMA RemovingStep ==
  ASSUME Inv, NEW c \in Client, NEW roots, Removing(c, roots),
         enabled' \in BOOLEAN, enabled' = enabled \/ enabled' = TRUE \/ Root \subseteq roots
  PROVE  Inv'
<1>1. TypeOK /\ cur = Idle /\ cur' = Idle /\ registry' = Without(registry, roots)
  BY DEF Inv, Removing, Admitted
<1>2. cur.phase = "none" /\ cur'.phase = "none" /\ cur.root = None
  BY <1>1 DEF Idle
<1>3. TypeOK'
  BY <1>1, RemovalFacts DEF TypeOK, Removing, Answer
<1>4. Small' /\ WithinBudget'
  <2>1. Cardinality(DOMAIN registry) <= Cap /\ RetainedBytes(registry) <= Budget
    BY <1>2 DEF Inv, Small, WithinBudget, RegistryFree
  <2>2. /\ Cardinality(DOMAIN registry') \in Nat
        /\ Cardinality(DOMAIN registry') <= Cardinality(DOMAIN registry)
        /\ RetainedBytes(registry') <= Budget
    BY <1>1, <2>1, RemovalFacts
  <2>3. Cardinality(DOMAIN registry') <= Cap
    BY <1>1, <2>1, <2>2, RegistryFinite, BudgetAssumption
  <2> QED BY <1>2, <2>2, <2>3 DEF Small, WithinBudget
<1>5. Accounted'
  BY <1>1, <1>2, RemovalFacts DEF Inv, Accounted
<1>6. OffMeansEmpty'
  <2>1. CASE Root \subseteq roots
    <3>1. DOMAIN registry' = DOMAIN registry \ roots
      BY <1>1, RemovalFacts
    <3>2. DOMAIN registry' = {}
      BY <1>1, <2>1, <3>1 DEF TypeOK
    <3> QED BY <3>2 DEF OffMeansEmpty
  <2>2. CASE enabled' = enabled \/ enabled' = TRUE
    <3>1. ~Retaining' => ~Retaining
      BY <2>2, <1>1 DEF Retaining, TypeOK
    <3> QED BY <3>1, <1>1, <1>2, RemovalFacts DEF Inv, OffMeansEmpty
  <2> QED BY <2>1, <2>2
<1> QED BY <1>1, <1>2, <1>3, <1>4, <1>5, <1>6
       DEF Inv, Shape, Evicting, InFlightRegistered

(* The start of a lifecycle: the root enters the registry uncharged. *)
LEMMA EnterStep ==
  ASSUME Inv, NEW c \in Client, NEW kind \in {"run", "open"}, NEW r \in Root,
         cur = Idle, Enter(c, kind, r)
  PROVE  Inv'
<1>1. /\ TypeOK /\ cur.phase = "none" /\ cur.root = None /\ cur'.phase = "stat"
      /\ cur'.root = r /\ cur'.client = c /\ cur'.kind = kind
      /\ enabled' = enabled
      /\ Cardinality(DOMAIN registry) <= Cap
  BY DEF Inv, Enter, Idle, Small
<1>2. None \notin Root
  BY NoneAssumption
<1>3. CASE r \in DOMAIN registry
  <2>1. UNCHANGED registry
    BY <1>3 DEF Enter
  <2>2. TypeOK'
    BY <1>1, <2>1, <1>3, BlankType DEF Enter, TypeOK, Phase
  <2> QED BY <1>1, <1>2, <1>3, <2>1, <2>2, RegistryFinite, BudgetAssumption
          DEF Inv, Shape, Small, Evicting, WithinBudget, RegistryFree, InFlightRegistered,
              Current, Accounted, OffMeansEmpty, Retaining, TypeOK
<1>4. CASE r \notin DOMAIN registry
  <2> DEFINE new == [charge |-> 0, used |-> NextUse(registry), index |-> Blank]
  <2>1. registry' = [q \in DOMAIN registry \cup {r} |->
                       IF q = r THEN new ELSE Aged(registry)[q]]
    BY <1>4 DEF Enter
  <2>2. /\ Aged(registry) \in [DOMAIN registry -> Entry]
        /\ \A q \in DOMAIN registry : /\ Aged(registry)[q].charge = registry[q].charge
                                      /\ Aged(registry)[q].index = registry[q].index
        /\ NextUse(registry) \in 1..LongMax
    BY <1>1, RegistryFinite, BudgetAssumption, AgedFacts
  <2>3. new \in Entry
    BY <2>2, SizeAssumption DEF Entry, Index, Blank
  <2>4. DOMAIN registry' = DOMAIN registry \cup {r}
    BY <2>1
  <2>5. registry' \in [DOMAIN registry' -> Entry]
    BY <2>1, <2>2, <2>3, <2>4
  <2>6. /\ registry'[r].charge = 0 /\ registry'[r].index = Blank
        /\ \A q \in DOMAIN registry : /\ q # r
                                     /\ registry'[q].charge = registry[q].charge
                                     /\ registry'[q].index = registry[q].index
    BY <1>4, <2>1, <2>2
  <2>7. ChargedBytes(registry') \subseteq ChargedBytes(registry)
    BY <2>4, <2>6 DEF ChargedBytes
  <2>8. RetainedBytes(registry') <= Budget
    BY <1>1, <2>7, RegistryFinite, FewerCharges DEF Inv, WithinBudget, RegistryFree
  <2>9. Cardinality(DOMAIN registry') = Cardinality(DOMAIN registry) + 1
    BY SMTT(20), <1>1, <1>4, <2>4, RegistryFinite, FS_AddElement
  <2>10. TypeOK'
    BY <1>1, <2>2, <2>4, <2>5, <1>4, BlankType DEF Enter, TypeOK, Phase
  <2>11. Small' /\ WithinBudget'
    BY <1>1, <2>8, <2>9, RegistryFinite, BudgetAssumption DEF Small, WithinBudget
  <2>12. Accounted' /\ OffMeansEmpty'
    BY <1>1, <1>2, <2>4, <2>6 DEF Inv, Accounted, OffMeansEmpty, Retaining, TypeOK
  <2> QED BY <1>1, <2>4, <2>10, <2>11, <2>12
          DEF Inv, Shape, Evicting, InFlightRegistered, Current
<1> QED BY <1>3, <1>4

(* Fingerprint, Plan, Parse, Consume: the lifecycle moves on to a later phase.  *)
LEMMA AdvanceStep ==
  ASSUME Inv, TypeOK', UNCHANGED <<registry, enabled>>,
         cur.phase \notin {"none", "evict"}, cur'.phase \notin {"none", "evict"},
         cur'.root = cur.root, cur'.client = cur.client, cur'.kind = cur.kind
  PROVE  Inv'
  BY DEF Inv, Shape, Small, Evicting, WithinBudget, InFlightRegistered, Accounted,
         OffMeansEmpty, RegistryFree, Current, Retaining

(* Commit: the index of the running root is replaced, its charge is not. *)
LEMMA CommitStep == ASSUME Inv, Commit PROVE Inv'
<1>1. /\ TypeOK /\ cur.phase = "commit" /\ cur.root \in DOMAIN registry
      /\ cur.client \in Client /\ cur.root \in Root /\ cur.kind \in {"run", "open"}
  BY DEF Inv, Commit, InFlightRegistered, Current, Shape
<1> DEFINE index == cur.read
<1>2. registry' = [registry EXCEPT ![cur.root].index = index]
  BY DEF Commit
<1>3. index \in Index
  BY <1>1 DEF TypeOK
<1>4. /\ DOMAIN registry' = DOMAIN registry
      /\ registry' \in [DOMAIN registry' -> Entry]
  BY <1>1, <1>2, <1>3 DEF TypeOK, Entry
<1>5. \A r \in DOMAIN registry :
         /\ registry'[r].charge = registry[r].charge
         /\ r # cur.root => registry'[r] = registry[r]
  BY <1>1, <1>2 DEF TypeOK, Entry
<1>6. ChargedBytes(registry') = ChargedBytes(registry)
  BY <1>4, <1>5 DEF ChargedBytes
<1>7. RetainedBytes(registry') = RetainedBytes(registry)
  BY <1>6 DEF RetainedBytes
<1>8. /\ cur' = [cur EXCEPT !.phase = AfterRefresh, !.print = None, !.read = Blank]
      /\ AfterRefresh \in {"answer", "publish"}
      /\ cur'.phase \in {"answer", "publish"}
      /\ cur'.root = cur.root /\ cur'.client = cur.client /\ cur'.kind = cur.kind
  BY <1>1 DEF Commit, AfterRefresh, TypeOK
<1>9. TypeOK'
  BY <1>1, <1>4, <1>8, BlankType DEF Commit, TypeOK, Phase
<1> QED BY <1>1, <1>4, <1>5, <1>7, <1>8, <1>9
       DEF Inv, Shape, Small, Evicting, WithinBudget, InFlightRegistered, Accounted,
           OffMeansEmpty, RegistryFree, Current, Retaining, Commit

(* RefreshFails and PublishRefused: the running root leaves, and the engine *)
(* is free.                                                                 *)
LEMMA DetachStep ==
  ASSUME Inv, cur.phase \notin {"none", "evict"},
         registry' = Without(registry, IF Current THEN {cur.root} ELSE {}),
         Answer(cur.client), cur' = Idle, UNCHANGED <<disk, enabled, clock, todo>>
  PROVE  Inv'
<1>1. /\ TypeOK /\ cur.root \in DOMAIN registry /\ cur.client \in Client
      /\ RetainedBytes(registry) <= Budget
      /\ Cardinality(DOMAIN registry) <= Cap + 1
  BY DEF Inv, InFlightRegistered, Current, Shape, WithinBudget, RegistryFree, Small
<1>2. registry' = Without(registry, {cur.root})
  BY <1>1 DEF Current
<1>3. /\ DOMAIN registry' = DOMAIN registry \ {cur.root}
      /\ \A r \in DOMAIN registry' :
           r \in DOMAIN registry /\ r # cur.root /\ registry'[r] = registry[r]
  BY <1>2 DEF Without
<1>4. Cardinality(DOMAIN registry') = Cardinality(DOMAIN registry) - 1
  BY <1>1, <1>3, RegistryFinite, FS_RemoveElement
<1>5. cur'.phase = "none"
  BY DEF Idle
<1>6. TypeOK'
  BY <1>1, <1>2, RemovalFacts, BlankType DEF TypeOK, Answer, Idle, Phase
<1>7. Small' /\ WithinBudget'
  <2>1. RetainedBytes(registry') <= Budget
    BY <1>1, <1>2, RemovalFacts
  <2>2. Cardinality(DOMAIN registry') <= Cap
    BY <1>1, <1>4, RegistryFinite, BudgetAssumption
  <2> QED BY <1>5, <2>1, <2>2 DEF Small, WithinBudget
<1>8. Accounted' /\ OffMeansEmpty'
  BY <1>3 DEF Inv, Accounted, OffMeansEmpty, Retaining
<1> QED BY <1>5, <1>6, <1>7, <1>8 DEF Inv, Shape, Evicting, InFlightRegistered

(* Publish: the running root is charged what its index retains. *)
LEMMA PublishStep == ASSUME Inv, Publish PROVE Inv'
<1> DEFINE aged == IF Promotes THEN Aged(registry) ELSE registry
           used == IF Promotes THEN NextUse(registry) ELSE aged[cur.root].used
           entry == [charge |-> Loaded.size, used |-> used, index |-> Loaded]
<1>1. /\ TypeOK /\ cur.phase = "publish" /\ cur.root \in DOMAIN registry
      /\ cur.client \in Client /\ cur.root \in Root /\ cur.kind \in {"run", "open"}
      /\ Retaining /\ Cardinality(DOMAIN registry) <= Cap + 1
  BY DEF Inv, Publish, Admissible, Current, Shape, Small
<1>2. /\ DOMAIN Aged(registry) = DOMAIN registry
      /\ Aged(registry) \in [DOMAIN registry -> Entry]
      /\ \A r \in DOMAIN registry : /\ Aged(registry)[r].charge = registry[r].charge
                                    /\ Aged(registry)[r].index = registry[r].index
      /\ NextUse(registry) \in 1..LongMax
  BY <1>1, AgedFacts
<1>3. /\ aged \in [DOMAIN registry -> Entry]
      /\ \A r \in DOMAIN registry : /\ aged[r].charge = registry[r].charge
                                   /\ aged[r].index = registry[r].index
  BY <1>1, <1>2 DEF TypeOK
<1>4. Loaded \in Index /\ Loaded.size \in 0..MaxSize /\ used \in 1..LongMax
  BY <1>1, <1>2, <1>3 DEF TypeOK, Loaded, Entry, Index
<1>5. entry \in Entry /\ entry.charge = entry.index.size
  BY <1>4 DEF Entry
<1>6. registry' = [aged EXCEPT ![cur.root] = entry]
  BY DEF Publish
<1>7. /\ DOMAIN registry' = DOMAIN registry
      /\ registry' \in [DOMAIN registry' -> Entry]
  BY <1>3, <1>5, <1>6
<1>8. \A r \in DOMAIN registry :
         /\ r = cur.root => registry'[r] = entry
         /\ r # cur.root => registry'[r] = aged[r]
  BY <1>1, <1>3, <1>6
<1>9. \A r \in DOMAIN registry' : registry'[r].charge = registry'[r].index.size
  <2>1. \A r \in DOMAIN registry : r # cur.root => registry[r].charge = registry[r].index.size
    BY DEF Inv, Accounted
  <2> QED BY <2>1, <1>3, <1>5, <1>7, <1>8
<1>10. /\ cur' = [cur EXCEPT !.phase = "evict"] /\ cur'.phase = "evict"
       /\ cur'.root = cur.root /\ cur'.client = cur.client /\ cur'.kind = cur.kind
       /\ enabled' = enabled
  BY <1>1 DEF Publish, TypeOK
<1>11. TypeOK'
  <2>1. clock' \in 0..LongMax
    BY <1>1, <1>2, BudgetAssumption DEF Publish, TypeOK
  <2> QED BY <1>1, <1>7, <1>10, <2>1 DEF Publish, TypeOK, Phase
<1>12. Retaining'
  BY <1>1, <1>10 DEF Retaining
<1> QED BY <1>1, <1>7, <1>9, <1>10, <1>11, <1>12
       DEF Inv, Shape, Small, Evicting, WithinBudget, RegistryFree, InFlightRegistered,
           Accounted, OffMeansEmpty

(* An iteration of the eviction loop. *)
LEMMA EvictStep == ASSUME Inv, Evict PROVE Inv'
<1>1. PICK r \in Oldest(registry) : registry' = Without(registry, {r})
  BY DEF Evict
<1>2. TypeOK /\ cur.phase = "evict" /\ UNCHANGED <<disk, enabled, clock, cur, pc, todo>>
  BY DEF Inv, Evict
<1>3. /\ DOMAIN registry' \subseteq Root
      /\ registry' \in [DOMAIN registry' -> Entry]
      /\ \A q \in DOMAIN registry' : q \in DOMAIN registry /\ registry'[q] = registry[q]
      /\ Cardinality(DOMAIN registry') \in Nat
      /\ Cardinality(DOMAIN registry') <= Cardinality(DOMAIN registry)
  BY <1>1, <1>2, RemovalFacts
<1>4. TypeOK'
  BY <1>2, <1>3 DEF TypeOK
<1>5. Small'
  BY <1>2, <1>3, RegistryFinite, BudgetAssumption DEF Inv, Small
<1> QED BY <1>2, <1>3, <1>4, <1>5
       DEF Inv, Shape, Evicting, Retaining, WithinBudget, RegistryFree,
           InFlightRegistered, Accounted, OffMeansEmpty

(* The end of the loop: its exit test gives the cap and the budget back. *)
LEMMA ReplyStep == ASSUME Inv, Reply PROVE Inv'
<1>1. /\ TypeOK /\ cur.phase = "evict" /\ ~Over(registry)
      /\ cur' = Idle /\ cur'.phase = "none"
      /\ Answer(cur.client) /\ cur.client \in Client
      /\ UNCHANGED <<disk, enabled, registry, clock, todo>>
  BY DEF Inv, Reply, Shape, Idle
<1>2. Cardinality(DOMAIN registry) <= Cap /\ RetainedBytes(registry) <= Budget
  <2>1. CASE DOMAIN registry = {}
    <3>1. ChargedBytes(registry) = {}
      BY <2>1 DEF ChargedBytes
    <3> QED BY <2>1, <3>1, FS_EmptySet, BudgetAssumption DEF RetainedBytes
  <2>2. CASE DOMAIN registry # {}
    <3>1. RetainedBytes(registry) \in Nat
      BY <1>1, RegistryFinite, BudgetAssumption DEF RetainedBytes
    <3> QED BY <1>1, <2>2, <3>1, RegistryFinite, BudgetAssumption DEF Over
  <2> QED BY <2>1, <2>2
<1>3. TypeOK'
  BY <1>1, BlankType DEF TypeOK, Answer, Idle, Phase
<1>4. Small' /\ WithinBudget'
  BY <1>1, <1>2 DEF Small, WithinBudget
<1> QED BY <1>1, <1>3, <1>4
       DEF Inv, Shape, Evicting, Retaining, InFlightRegistered, Accounted, OffMeansEmpty

-----------------------------------------------------------------------------
(* Every step of the server, of its clients and of the editors keeps Inv. *)
LEMMA NextInv == Inv /\ [Next]_vars => Inv'
<1> SUFFICES ASSUME Inv, [Next]_vars PROVE Inv'
  OBVIOUS
<1>0. TypeOK /\ None \notin Client
  BY NoneAssumption DEF Inv
<1>1. CASE UNCHANGED vars
  <2>1. TypeOK'
    BY <1>0, <1>1 DEF vars, TypeOK
  <2> QED BY <1>1, <2>1, OutsideStep DEF vars
<1>2. ASSUME NEW c \in Client,
             Ask(c) \/ RunNoIndex(c) \/ OpenRefused(c) \/ AskVersion(c) \/ Version(c)
               \/ Status(c) \/ StatusDone(c) \/ \E r \in Root : Stats(c, r)
      PROVE  Inv'
  <2>1. UNCHANGED <<disk, registry, cur, enabled, clock>>
    BY <1>2 DEF Ask, RunNoIndex, OpenRefused, AskVersion, Version, Status, StatusDone, Stats
  <2>2. pc' \in [Client -> {"idle", "waiting", "working", "version", "status"}]
    BY <1>0, <1>2 DEF TypeOK, Ask, RunNoIndex, OpenRefused, AskVersion, Version, Status,
                      StatusDone, Stats, Answer
  <2>3. todo' \in [Client -> SUBSET Root]
    BY <1>0, <1>2 DEF TypeOK, Ask, RunNoIndex, OpenRefused, AskVersion, Version, Status,
                      StatusDone, Stats
  <2>4. TypeOK'
    BY <1>0, <2>1, <2>2, <2>3 DEF TypeOK
  <2> QED BY <2>1, <2>4, OutsideStep
<1>3. ASSUME NEW c \in Client, NEW r \in Root, Run(c, r) \/ Open(c, r)
      PROVE  Inv'
  BY <1>3, EnterStep DEF Run, Open, Admitted
<1>4. ASSUME NEW c \in Client, Control(c) PROVE Inv'
  <2>1. ASSUME NEW r \in Root, Close(c, r) PROVE Inv'
    BY <1>0, <2>1, RemovingStep DEF Close, TypeOK
  <2>2. CASE CloseAll(c)
    BY <1>0, <2>2, RemovingStep DEF CloseAll, TypeOK
  <2>3. CASE CacheOff(c)
    BY <2>3, RemovingStep DEF CacheOff
  <2>4. CASE CacheOn(c)
    BY <2>4, RemovingStep DEF CacheOn
  <2> QED BY <1>4, <2>1, <2>2, <2>3, <2>4 DEF Control
<1>5. CASE Fingerprint \/ Plan \/ Parse \/ \E how \in Ending : Consume(how)
  <2>1. /\ UNCHANGED <<disk, registry, enabled, clock, pc, todo>>
        /\ cur.phase \in {"stat", "plan", "parse", "answer"}
    BY <1>5 DEF Fingerprint, Plan, Parse, Consume
  <2>2. cur.root \in Root
    BY <2>1 DEF Inv, Shape
  <2> DEFINE Advanced ==
        /\ cur' \in [phase : Phase, client : Client \cup {None}, kind : {"none", "run", "open"},
                     root : Root \cup {None}, print : Stamp \cup {None}, ended : Ending \cup {"no"},
                     read : Index]
        /\ cur'.phase \in {"plan", "parse", "commit", "answer", "publish"}
        /\ cur'.root = cur.root /\ cur'.client = cur.client /\ cur'.kind = cur.kind
  <2>3. Advanced
    <3>1. CASE Fingerprint
      <4>1. Sources.stamp \in Stamp /\ AfterRefresh \in {"answer", "publish"}
        BY <1>0, <2>2 DEF TypeOK, Sources, AfterRefresh
      <4> QED BY <1>0, <3>1, <4>1 DEF Fingerprint, TypeOK, Phase
    <3>2. CASE Plan
      BY <1>0, <3>2 DEF Plan, TypeOK, Phase
    <3>3. ASSUME NEW how \in Ending, Consume(how)
          PROVE  Advanced
      BY <1>0, <3>3 DEF Consume, TypeOK, Phase
    <3>4. CASE Parse
      <4> DEFINE read == [print |-> cur.print, content |-> Sources.stamp,
                          size |-> Sources.size]
      <4>1. read \in Index
        BY <1>0, <2>2 DEF TypeOK, Sources, Index
      <4>2. cur' = [cur EXCEPT !.phase = "commit", !.read = read]
        BY <3>4 DEF Parse
      <4> HIDE DEF read
      <4> QED BY <1>0, <4>1, <4>2 DEF TypeOK, Phase
    <3> QED BY <1>5, <3>1, <3>2, <3>3, <3>4
  <2>4. TypeOK'
    BY <1>0, <2>1, <2>3 DEF TypeOK
  <2> QED BY <2>1, <2>3, <2>4, AdvanceStep
<1>6. CASE Commit
  BY <1>6, CommitStep
<1>7. CASE RefreshFails \/ PublishRefused
  BY <1>7, DetachStep DEF RefreshFails, PublishRefused
<1>8. CASE Publish
  BY <1>8, PublishStep
<1>9. CASE Evict
  BY <1>9, EvictStep
<1>10. CASE Reply
  BY <1>10, ReplyStep
<1>11. ASSUME NEW r \in Root, NEW n \in 0..MaxSize, Edit(r, n) PROVE Inv'
  <2>1. UNCHANGED <<registry, cur, enabled, clock, pc, todo>>
    BY <1>11 DEF Edit
  <2>2. (CHOOSE s \in Stamp : s \notin Remembered(r)) \in Stamp
    BY <1>11 DEF Edit
  <2>3. TypeOK'
    BY <1>0, <1>11, <2>1, <2>2 DEF Edit, TypeOK
  <2> QED BY <2>1, <2>3, OutsideStep
<1> QED BY <1>1, <1>2, <1>3, <1>4, <1>5, <1>6, <1>7, <1>8, <1>9, <1>10, <1>11, RootAssumption
       DEF Next, Begin, Observe, Lifecycle, Refresh, Settle

(* The inductive invariant holds of every behaviour of the server.          *)
THEOREM Invariance == Spec => []Inv
BY InitInv, NextInv, PTL DEF Spec

(* The registry, the lifecycle in the engine and the connections stay in    *)
(* their types, the use clock within Long.MaxValue in particular.           *)
THEOREM TypeCorrect == Spec => []TypeOK
<1>1. Inv => TypeOK
  BY DEF Inv
<1> QED BY <1>1, Invariance, PTL

(* Whenever query_version can look, the retained bytes are within the       *)
(* budget and the entries within the cap, the transient root excepted.      *)
THEOREM Bounded == Spec => [](WithinBudget /\ WithinCap)
<1>1. Inv => WithinBudget /\ WithinCap
  BY DEF Inv, WithinCap, Small, Shape, RegistryFree, Idle
<1> QED BY <1>1, Invariance, PTL

(* No close, cache control or eviction takes the entry of the running       *)
(* lifecycle away before it publishes.                                      *)
THEOREM NeverDetachedInFlight == Spec => []InFlightRegistered
<1>1. Inv => InFlightRegistered
  BY DEF Inv
<1> QED BY <1>1, Invariance, PTL

(* Every entry at rest is charged exactly what its index retains, and with  *)
(* retention off there is none.                                             *)
THEOREM ExactAccounting == Spec => [](Accounted /\ OffMeansEmpty)
<1>1. Inv => Accounted /\ OffMeansEmpty
  BY DEF Inv
<1> QED BY <1>1, Invariance, PTL

-----------------------------------------------------------------------------
(* Freshness.  An edit moves the stamp away from every print an index of    *)
(* the root remembers; a commit records a print next to the sources it has  *)
(* just read, so a print that is still current describes them.              *)

(* What the workers read belongs to the print the refresh took, if that is  *)
(* still the print of the sources.                                          *)
ReadSound ==
  cur.phase = "commit" =>
    /\ cur.read.print = cur.print
    /\ cur.print = Sources.stamp => /\ cur.read.content = Sources.stamp
                                    /\ cur.read.size = Sources.size

(* A step that changes no index and no sources keeps the prints sound. *)
LEMMA SameIndexes ==
  ASSUME PrintSound, UNCHANGED disk,
         \A r \in DOMAIN registry' :
           \/ registry'[r].index.print \notin {disk[q].stamp : q \in Root} /\ r \in Root
           \/ r \in DOMAIN registry /\ registry'[r].index = registry[r].index
  PROVE  PrintSound'
  BY DEF PrintSound

(* The prints of the registered indexes stay sound. *)
LEMMA PrintSoundStep == Inv /\ PrintSound /\ ReadSound /\ [Next]_vars => PrintSound'
<1> SUFFICES ASSUME Inv, PrintSound, ReadSound, [Next]_vars PROVE PrintSound'
  OBVIOUS
<1>0. TypeOK /\ None \notin Stamp
  BY NoneAssumption DEF Inv
<1>1. CASE UNCHANGED <<disk, registry>>
  BY <1>1, SameIndexes
<1>2. ASSUME NEW c \in Client, NEW kind \in {"run", "open"}, NEW r \in Root,
             Admitted(c), Enter(c, kind, r)
      PROVE  PrintSound'
  <2>1. CASE r \in DOMAIN registry
    BY <1>1, <1>2, <2>1 DEF Enter
  <2>2. CASE r \notin DOMAIN registry
    <3>1. /\ DOMAIN registry' = DOMAIN registry \cup {r} /\ UNCHANGED disk
          /\ registry'[r].index = Blank
          /\ \A q \in DOMAIN registry : registry'[q] = Aged(registry)[q]
      BY <1>2, <2>2 DEF Enter
    <3>2. \A q \in DOMAIN registry : Aged(registry)[q].index = registry[q].index
      BY <1>0, <1>2, AgedFacts, RegistryFinite, BudgetAssumption
         DEF Inv, Small, Admitted, Idle
    <3>3. \A q \in Root : disk[q].stamp # Blank.print
      BY <1>0 DEF TypeOK, Blank
    <3> QED BY <3>1, <3>2, <3>3, SameIndexes DEF TypeOK
  <2> QED BY <2>1, <2>2
<1>3. CASE UNCHANGED disk /\ \E roots : registry' = Without(registry, roots)
  <2>1. \A r \in DOMAIN registry' : r \in DOMAIN registry /\ registry'[r] = registry[r]
    BY <1>3 DEF Without
  <2> QED BY <1>3, <2>1, SameIndexes
<1>4. CASE Commit
  <2>1. /\ cur.root \in DOMAIN registry /\ cur.root \in Root
    BY <1>4 DEF Inv, InFlightRegistered, Current, Shape, Commit
  <2>2. /\ DOMAIN registry' = DOMAIN registry /\ UNCHANGED disk
        /\ registry'[cur.root].index = cur.read
        /\ \A r \in DOMAIN registry : r # cur.root => registry'[r] = registry[r]
    BY <1>0, <1>4, <2>1 DEF Commit, TypeOK, Entry
  <2> QED BY <1>4, <2>1, <2>2 DEF PrintSound, ReadSound, Sources, Commit
<1>5. CASE Publish
  <2>1. cur.root \in DOMAIN registry /\ Cardinality(DOMAIN registry) <= Cap + 1
    BY <1>5 DEF Inv, Small, Publish, Admissible, Current
  <2>2. \A r \in DOMAIN registry : Aged(registry)[r].index = registry[r].index
    BY <1>0, <2>1, AgedFacts
  <2>3. DOMAIN Aged(registry) = DOMAIN registry
    BY <1>0, <2>1, AgedFacts
  <2> DEFINE aged == IF Promotes THEN Aged(registry) ELSE registry
             used == IF Promotes THEN NextUse(registry) ELSE aged[cur.root].used
             entry == [charge |-> Loaded.size, used |-> used, index |-> Loaded]
  <2>4. registry' = [aged EXCEPT ![cur.root] = entry] /\ UNCHANGED disk
    BY <1>5 DEF Publish
  <2>5. /\ DOMAIN aged = DOMAIN registry
        /\ \A r \in DOMAIN registry : aged[r].index = registry[r].index
    BY <2>2, <2>3
  <2>6. entry.index = registry[cur.root].index
    BY DEF Loaded
  <2>7. \A r \in DOMAIN registry' :
           r \in DOMAIN registry /\ registry'[r].index = registry[r].index
    <3> HIDE DEF aged, entry
    <3> QED BY <2>1, <2>4, <2>5, <2>6
  <2> QED BY <2>4, <2>7, SameIndexes
<1>6. ASSUME NEW r \in Root, NEW n \in 0..MaxSize, Edit(r, n) PROVE PrintSound'
  <2> DEFINE s == CHOOSE t \in Stamp : t \notin Remembered(r)
  <2>1. s \in Stamp /\ s \notin Remembered(r)
    BY <1>6 DEF Edit
  <2>2. /\ UNCHANGED registry
        /\ disk' = [disk EXCEPT ![r] = [stamp |-> s, size |-> n]]
    BY <1>6 DEF Edit
  <2>3. r \in DOMAIN registry => registry[r].index.print # s
    BY <2>1 DEF Remembered
  <2> HIDE DEF s
  <2>4. disk'[r].stamp = s /\ \A q \in Root : q # r => disk'[q] = disk[q]
    BY <1>0, <2>2 DEF TypeOK
  <2>5. DOMAIN registry \subseteq Root
    BY <1>0 DEF TypeOK
  <2> QED BY <2>2, <2>3, <2>4, <2>5 DEF PrintSound
<1>7. ASSUME NEW c \in Client, Control(c) PROVE PrintSound'
  BY <1>3, <1>7 DEF Control, CloseAll, CacheOff, CacheOn, Close, Removing
<1>8. CASE RefreshFails \/ PublishRefused \/ Evict
  BY <1>3, <1>8 DEF RefreshFails, PublishRefused, Evict
<1>9. ASSUME NEW c \in Client, Begin(c) PROVE PrintSound'
  BY <1>1, <1>2, <1>9 DEF Begin, Run, Open, RunNoIndex, OpenRefused
<1>10. ASSUME NEW c \in Client, Ask(c) \/ Observe(c) PROVE PrintSound'
  BY <1>1, <1>10 DEF Ask, Observe, AskVersion, Version, Status, Stats, StatusDone
<1>11. CASE Fingerprint \/ Plan \/ Parse \/ Reply \/ \E how \in Ending : Consume(how)
  BY <1>1, <1>11 DEF Fingerprint, Plan, Parse, Reply, Consume
<1>12. CASE UNCHANGED vars
  BY <1>1, <1>12 DEF vars
<1> QED BY <1>4, <1>5, <1>6, <1>7, <1>8, <1>9, <1>10, <1>11, <1>12, RootAssumption
       DEF Next, Lifecycle, Refresh, Settle

(* What the workers read stays sound until the commit. *)
LEMMA ReadSoundStep == Inv /\ ReadSound /\ [Next]_vars => ReadSound'
<1> SUFFICES ASSUME Inv, ReadSound, [Next]_vars, cur'.phase = "commit" PROVE ReadSound'
  BY DEF ReadSound
<1>0. TypeOK
  BY DEF Inv
<1>1. CASE UNCHANGED <<disk, cur>>
  BY <1>1 DEF ReadSound, Sources
<1>2. CASE Parse
  <2> DEFINE read == [print |-> cur.print, content |-> Sources.stamp, size |-> Sources.size]
  <2>1. cur' = [cur EXCEPT !.phase = "commit", !.read = read] /\ UNCHANGED disk
    BY <1>2 DEF Parse
  <2>2. cur'.print = cur.print /\ cur'.root = cur.root /\ cur'.read = read
    <3> HIDE DEF read
    <3> QED BY <1>0, <2>1 DEF TypeOK
  <2> QED BY <2>1, <2>2 DEF ReadSound, Sources
<1>3. ASSUME NEW r \in Root, NEW n \in 0..MaxSize, Edit(r, n) PROVE ReadSound'
  <2> DEFINE s == CHOOSE t \in Stamp : t \notin Remembered(r)
  <2>1. s \in Stamp /\ s \notin Remembered(r)
    BY <1>3 DEF Edit
  <2>2. UNCHANGED cur /\ disk' = [disk EXCEPT ![r] = [stamp |-> s, size |-> n]]
    BY <1>3 DEF Edit
  <2>3. cur.root = r => cur.print # s
    BY <2>1 DEF Remembered
  <2>4. cur.root \in Root
    BY <2>2 DEF Inv, Shape
  <2> HIDE DEF s
  <2>5. disk'[r].stamp = s /\ \A q \in Root : q # r => disk'[q] = disk[q]
    BY <1>0, <2>2 DEF TypeOK
  <2> QED BY <2>2, <2>3, <2>4, <2>5 DEF ReadSound, Sources
<1>4. ASSUME NEW c \in Client, Ask(c) \/ Control(c) \/ RunNoIndex(c) \/ OpenRefused(c)
      PROVE  ReadSound'
  BY <1>1, <1>4 DEF Ask, Control, CloseAll, CacheOff, CacheOn, Close, Removing, RunNoIndex,
                    OpenRefused
<1>5. ASSUME NEW c \in Client, NEW r \in Root, Run(c, r) \/ Open(c, r) PROVE FALSE
  BY <1>5 DEF Run, Open, Enter
<1>6. ASSUME NEW c \in Client, Observe(c) PROVE ReadSound'
  BY <1>1, <1>6 DEF Observe, AskVersion, Version, Status, Stats, StatusDone
<1>7. ~ (Fingerprint \/ Plan \/ Commit)
  BY <1>0 DEF Fingerprint, Plan, Commit, AfterRefresh, TypeOK
<1>8. ~ (RefreshFails \/ PublishRefused \/ Reply)
  BY DEF RefreshFails, PublishRefused, Reply, Idle
<1>9. ~ (Publish \/ \E how \in Ending : Consume(how))
  BY <1>0 DEF Publish, Consume, TypeOK
<1>10. CASE Evict \/ UNCHANGED vars
  BY <1>1, <1>10 DEF Evict, vars
<1> QED BY <1>2, <1>3, <1>4, <1>5, <1>6, <1>7, <1>8, <1>9, <1>10, RootAssumption
       DEF Next, Begin, Lifecycle, Refresh, Settle

(* The fingerprint an index records is, as long as it is current, that of   *)
(* the sources the index holds.                                             *)
THEOREM PrintsSound == Spec => [](PrintSound /\ ReadSound)
<1>1. Init => PrintSound /\ ReadSound
  BY DEF Init, PrintSound, ReadSound, Idle
<1> QED BY <1>1, PrintSoundStep, ReadSoundStep, Invariance, PTL DEF Spec

(* The invariant of the runs: everything query_version can report about the *)
(* registry is in order, and what the entries remember is in order too.     *)
THEOREM Sound == Spec => []RegistrySound
<1>1. Inv /\ PrintSound => RegistrySound
  BY DEF Inv, RegistrySound, WithinCap, Small, Shape, RegistryFree, Idle
<1> QED BY <1>1, Invariance, PrintsSound, PTL

(* A refresh that succeeds, by the short cut or by a parse, while the       *)
(* sources are those its fingerprint saw hands those sources over.          *)
THEOREM Fresh == Spec => FreshSections
<1> DEFINE Success == \/ cur.phase = "stat" /\ cur'.phase \in {"answer", "publish"}
                      \/ cur.phase = "commit" /\ cur.print = Sources.stamp
           Result == /\ registry'[cur.root].index.content = Sources.stamp
                     /\ registry'[cur.root].index.size = Sources.size
           Working == UNCHANGED <<cur, registry>>
<1>1. ASSUME Inv, PrintSound, ReadSound, [Next]_vars, Success, ~Working PROVE Result
  <2>1. TypeOK /\ cur.root \in DOMAIN registry /\ cur.phase \in {"stat", "commit"}
        /\ cur # Idle
    BY <1>1 DEF Inv, InFlightRegistered, Current, Idle
  <2>2. ~ \E c \in Client : Ask(c) \/ Begin(c) \/ Control(c)
    BY <1>1, <2>1 DEF Ask, Begin, Run, Open, RunNoIndex, OpenRefused, Admitted, Control, Close,
                CloseAll, CacheOff, CacheOn, Removing
  <2>3. ~ \E c \in Observer : Observe(c)
    BY <1>1 DEF Observe, AskVersion, Version, Status, Stats, StatusDone
  <2>4. ~ (Plan \/ Parse \/ RefreshFails \/ Settle
             \/ \E how \in Ending : Consume(how))
    <3>1. ~ (Plan \/ Parse \/ Settle \/ \E how \in Ending : Consume(how))
      BY <2>1 DEF Plan, Parse, Settle, Publish, PublishRefused, Evict, Reply, Consume
    <3>2. ASSUME RefreshFails PROVE FALSE
      <4>1. cur.phase = "stat" /\ cur'.phase = "none"
        BY <2>1, <3>2 DEF RefreshFails, Idle
      <4> QED BY <1>1, <4>1
    <3> QED BY <3>1, <3>2
  <2>5. ~ (UNCHANGED vars \/ \E r \in Root, n \in 0..MaxSize : Edit(r, n))
    BY <1>1 DEF vars, Edit
  <2>6. Fingerprint \/ Commit
    BY <1>1, <2>2, <2>3, <2>4, <2>5 DEF Next, Lifecycle, Refresh
  <2>7. CASE Fingerprint
    <3>1. Loaded.print = Sources.stamp /\ UNCHANGED registry
      BY <1>1, <2>1, <2>7 DEF Fingerprint, TypeOK
    <3> QED BY <1>1, <2>1, <3>1 DEF Loaded, Sources, PrintSound
  <2>8. CASE Commit
    <3>1. registry'[cur.root].index = cur.read
      BY <2>1, <2>8 DEF Commit, TypeOK, Entry
    <3> QED BY <1>1, <2>8, <3>1 DEF Commit, ReadSound
  <2> QED BY <2>6, <2>7, <2>8
<1>2. Inv /\ PrintSound /\ ReadSound /\ [Next]_vars => [Success => Result]_<<cur, registry>>
  <2> HIDE DEF Success, Result
  <2> QED BY <1>1
<1> QED BY <1>2, Invariance, PrintsSound, PTL DEF Spec, FreshSections

-----------------------------------------------------------------------------
(* The refinement of LruCache.  Times of use are an order: no two entries   *)
(* share one, and the clock is not behind any, not even when it has come to *)
(* its end and the entries were renumbered.                                 *)
Distinct(reg) == \A p, q \in DOMAIN reg : reg[p].used = reg[q].used => p = q
Ordered == Distinct(registry) /\ \A r \in DOMAIN registry : registry[r].used <= clock

(* Ranks are in the order of the times, and no rank exceeds their number.   *)
LEMMA RankOrder ==
  ASSUME NEW reg, IsFiniteSet(DOMAIN reg), \A r \in DOMAIN reg : reg[r].used \in Int,
         NEW p \in DOMAIN reg, NEW q \in DOMAIN reg
  PROVE  /\ Rank(reg, p) \in Nat /\ Rank(reg, p) <= Cardinality(DOMAIN reg)
         /\ Rank(reg, p) < Rank(reg, q) <=> reg[p].used < reg[q].used
<1> DEFINE Below(r) == {s \in DOMAIN reg : reg[s].used <= reg[r].used}
<1>1. \A r \in DOMAIN reg : /\ IsFiniteSet(Below(r)) /\ Cardinality(Below(r)) \in Nat
                            /\ Cardinality(Below(r)) <= Cardinality(DOMAIN reg)
                            /\ Cardinality(Below(r)) = Rank(reg, r)
  BY FS_Subset, FS_CardinalityType DEF Rank
<1>2. ASSUME reg[p].used < reg[q].used PROVE Cardinality(Below(p)) < Cardinality(Below(q))
  <2>1. Below(p) \subseteq Below(q) /\ q \in Below(q) \ Below(p)
    BY <1>2
  <2>2. Below(p) # Below(q)
    BY <2>1
  <2> HIDE DEF Below
  <2>3. /\ Cardinality(Below(p)) <= Cardinality(Below(q))
        /\ Cardinality(Below(p)) # Cardinality(Below(q))
    BY <1>1, <2>1, <2>2, FS_Subset
  <2> QED BY <1>1, <2>3
<1>3. ASSUME reg[q].used <= reg[p].used PROVE Cardinality(Below(q)) <= Cardinality(Below(p))
  <2>1. Below(q) \subseteq Below(p)
    BY <1>3
  <2> HIDE DEF Below
  <2> QED BY <1>1, <2>1, FS_Subset
<1> HIDE DEF Below
<1>4. reg[p].used \in Int /\ reg[q].used \in Int
  OBVIOUS
<1> QED BY <1>1, <1>2, <1>3, <1>4

(* The next use is later than every entry, and ageing keeps the order.      *)
LEMMA AgedOrder ==
  ASSUME TypeOK, Ordered
  PROVE  /\ \A p \in DOMAIN registry : Aged(registry)[p].used < NextUse(registry)
         /\ \A p, q \in DOMAIN registry :
              Aged(registry)[p].used < Aged(registry)[q].used
                <=> registry[p].used < registry[q].used
<1>1. /\ IsFiniteSet(DOMAIN registry) /\ Cardinality(DOMAIN registry) \in Nat /\ clock \in Int
      /\ \A r \in DOMAIN registry : registry[r] \in Entry /\ registry[r].used \in Int
  BY RegistryFinite, BudgetAssumption DEF TypeOK, Entry
<1>2. CASE clock = LongMax
  <2>1. \A r \in DOMAIN registry : Aged(registry)[r].used = Rank(registry, r)
    BY <1>1, <1>2 DEF Aged, Entry
  <2>2. NextUse(registry) = Cardinality(DOMAIN registry) + 1
    BY <1>2 DEF NextUse
  <2>3. \A p, q \in DOMAIN registry :
          /\ Rank(registry, p) \in Nat /\ Rank(registry, p) <= Cardinality(DOMAIN registry)
          /\ Rank(registry, p) < Rank(registry, q) <=> registry[p].used < registry[q].used
    BY <1>1, RankOrder
  <2> QED BY <1>1, <2>1, <2>2, <2>3
<1>3. CASE clock # LongMax
  <2>1. Aged(registry) = registry /\ NextUse(registry) = clock + 1
    BY <1>3 DEF Aged, NextUse
  <2> QED BY <1>1, <2>1 DEF Ordered
<1> QED BY <1>2, <1>3

(* An entry that is used now, whether it was registered before or not, is   *)
(* the last one in the order, which is otherwise as it was.                 *)
LEMMA UsedNow ==
  ASSUME TypeOK, TypeOK', Ordered, NEW r,
         DOMAIN registry' = DOMAIN registry \cup {r},
         registry'[r].used = NextUse(registry), clock' = NextUse(registry),
         \A q \in DOMAIN registry \ {r} : registry'[q].used = Aged(registry)[q].used
  PROVE  /\ Ordered'
         /\ Uses(registry') = {p \in Uses(registry) : p[1] # r /\ p[2] # r}
                                \cup ((DOMAIN registry \ {r}) \X {r})
<1>1. /\ \A p \in DOMAIN registry : Aged(registry)[p].used < NextUse(registry)
      /\ \A p, q \in DOMAIN registry :
           Aged(registry)[p].used < Aged(registry)[q].used <=> registry[p].used < registry[q].used
  BY AgedOrder
<1>2. /\ \A p \in DOMAIN registry : registry[p].used \in Int
      /\ \A p \in DOMAIN registry' : registry'[p].used \in Int
  BY BudgetAssumption DEF TypeOK, Entry
<1>3. \A p \in DOMAIN registry \ {r} : registry'[p].used < registry'[r].used
  BY <1>1
<1>4. \A p, q \in DOMAIN registry \ {r} :
        registry'[p].used < registry'[q].used <=> registry[p].used < registry[q].used
  BY <1>1
<1>5. Distinct(registry')
  <2> SUFFICES ASSUME NEW p \in DOMAIN registry', NEW q \in DOMAIN registry',
                      registry'[p].used = registry'[q].used, p # q
               PROVE  FALSE
    BY DEF Distinct
  <2>1. CASE p = r \/ q = r
    BY <2>1, <1>2, <1>3
  <2>2. CASE p # r /\ q # r
    <3>1. ~(registry[p].used < registry[q].used) /\ ~(registry[q].used < registry[p].used)
      BY <2>2, <1>2, <1>4
    <3> QED BY <2>2, <3>1, <1>2 DEF Ordered, Distinct
  <2> QED BY <2>1, <2>2
<1>6. \A p \in DOMAIN registry' : registry'[p].used <= clock'
  BY <1>2, <1>3
<1>7. Uses(registry') = {p \in Uses(registry) : p[1] # r /\ p[2] # r}
                          \cup ((DOMAIN registry \ {r}) \X {r})
  <2>1. \A p, q : <<p, q>> \in Uses(registry') <=>
                    <<p, q>> \in {s \in Uses(registry) : s[1] # r /\ s[2] # r}
                                   \cup ((DOMAIN registry \ {r}) \X {r})
    <3> SUFFICES ASSUME NEW p, NEW q
                 PROVE  /\ p \in DOMAIN registry' /\ q \in DOMAIN registry'
                             /\ registry'[p].used < registry'[q].used
                        <=> \/ /\ p \in DOMAIN registry /\ q \in DOMAIN registry
                               /\ registry[p].used < registry[q].used /\ p # r /\ q # r
                            \/ p \in DOMAIN registry \ {r} /\ q = r
      BY DEF Uses
    <3>1. CASE p = r
      BY <3>1, <1>2, <1>3
    <3>2. CASE p # r /\ q = r
      BY <3>2, <1>3
    <3>3. CASE p # r /\ q # r
      BY <3>3, <1>4
    <3> QED BY <3>1, <3>2, <3>3
  <2>2. /\ Uses(registry') \subseteq (DOMAIN registry') \X (DOMAIN registry')
        /\ {p \in Uses(registry) : p[1] # r /\ p[2] # r} \cup ((DOMAIN registry \ {r}) \X {r})
             \subseteq (DOMAIN registry') \X (DOMAIN registry')
    BY DEF Uses
  <2> HIDE DEF Uses
  <2> QED BY <2>1, <2>2
<1> QED BY <1>5, <1>6, <1>7 DEF Ordered

(* Steps that give no entry a new time keep the order.                      *)
LEMMA SameUses ==
  ASSUME Ordered, clock' = clock, DOMAIN registry' \subseteq DOMAIN registry,
         \A r \in DOMAIN registry' : registry'[r].used = registry[r].used
  PROVE  Ordered'
BY DEF Ordered, Distinct

(* What Enter and Publish make of the registry.                             *)
LEMMA Entered ==
  ASSUME Inv, NEW c, NEW kind, NEW r \in Root, Enter(c, kind, r), r \notin DOMAIN registry
  PROVE  /\ DOMAIN registry' = DOMAIN registry \cup {r}
         /\ registry'[r].used = NextUse(registry) /\ clock' = NextUse(registry)
         /\ registry'[r].charge = 0
         /\ \A q \in DOMAIN registry \ {r} : /\ registry'[q].used = Aged(registry)[q].used
                                             /\ registry'[q].charge = Aged(registry)[q].charge
BY DEF Enter

(* A publication gives the running root its charge, and its use if that     *)
(* counted; the rest of the registry is as it was, but for ageing.          *)
LEMMA Published ==
  ASSUME Inv, Publish
  PROVE  /\ cur.root \in DOMAIN registry /\ DOMAIN registry' = DOMAIN registry
         /\ cur.phase = "publish" /\ cur'.phase = "evict" /\ Loaded.size \in 0..MaxSize
         /\ registry'[cur.root].charge = Loaded.size
         /\ \A q \in DOMAIN registry \ {cur.root} : registry'[q].charge = registry[q].charge
         /\ Promotes =>
              /\ registry'[cur.root].used = NextUse(registry) /\ clock' = NextUse(registry)
              /\ \A q \in DOMAIN registry \ {cur.root} :
                   registry'[q].used = Aged(registry)[q].used
         /\ ~Promotes =>
              /\ clock' = clock
              /\ \A q \in DOMAIN registry : registry'[q].used = registry[q].used
<1> DEFINE aged == IF Promotes THEN Aged(registry) ELSE registry
           used == IF Promotes THEN NextUse(registry) ELSE aged[cur.root].used
           entry == [charge |-> Loaded.size, used |-> used, index |-> Loaded]
<1>1. /\ TypeOK /\ cur.phase = "publish" /\ cur.root \in DOMAIN registry
      /\ Cardinality(DOMAIN registry) <= Cap + 1
  BY DEF Inv, Publish, Admissible, Current, Small
<1>2. /\ DOMAIN Aged(registry) = DOMAIN registry
      /\ \A r \in DOMAIN registry : Aged(registry)[r].charge = registry[r].charge
  BY <1>1, AgedFacts
<1>3. Loaded.size \in 0..MaxSize
  BY <1>1 DEF TypeOK, Loaded, Entry, Index
<1>4. registry' = [aged EXCEPT ![cur.root] = entry]
  BY DEF Publish
<1>5. /\ DOMAIN aged = DOMAIN registry
      /\ \A r \in DOMAIN registry : aged[r].charge = registry[r].charge
  BY <1>2
<1>6. /\ DOMAIN registry' = DOMAIN registry /\ registry'[cur.root] = entry
      /\ \A q \in DOMAIN registry \ {cur.root} : registry'[q] = aged[q]
  <2> HIDE DEF aged, entry
  <2> QED BY <1>1, <1>4, <1>5
<1>7. cur'.phase = "evict" /\ clock' = IF Promotes THEN NextUse(registry) ELSE clock
  BY <1>1 DEF Publish, TypeOK
<1> QED BY <1>1, <1>3, <1>5, <1>6, <1>7

(* The order of use is kept by every step.                                  *)
LEMMA OrderedStep == Inv /\ Ordered /\ [Next]_vars => Ordered'
<1> SUFFICES ASSUME Inv, Ordered, [Next]_vars PROVE Ordered'
  OBVIOUS
<1>0. TypeOK /\ TypeOK'
  BY NextInv DEF Inv
<1>1. CASE UNCHANGED <<registry, clock>>
  BY <1>1, SameUses
<1>2. ASSUME NEW c \in Client, Begin(c) PROVE Ordered'
  <2>1. ASSUME NEW kind, NEW r \in Root, Enter(c, kind, r) PROVE Ordered'
    <3>1. CASE r \in DOMAIN registry
      BY <1>1, <2>1, <3>1 DEF Enter
    <3>2. CASE r \notin DOMAIN registry
      BY <1>0, <2>1, <3>2, Entered, UsedNow
    <3> QED BY <3>1, <3>2
  <2> QED BY <1>1, <1>2, <2>1 DEF Begin, Run, Open, RunNoIndex, OpenRefused
<1>3. CASE clock' = clock /\ \E roots : registry' = Without(registry, roots)
  <2>1. /\ DOMAIN registry' \subseteq DOMAIN registry
        /\ \A r \in DOMAIN registry' : registry'[r] = registry[r]
    BY <1>3 DEF Without
  <2> QED BY <1>3, <2>1, SameUses
<1>4. CASE Commit
  <2>1. /\ DOMAIN registry' = DOMAIN registry /\ clock' = clock
        /\ \A r \in DOMAIN registry : registry'[r].used = registry[r].used
    BY <1>0, <1>4 DEF Commit, TypeOK, Entry
  <2> QED BY <2>1, SameUses
<1>5. CASE Publish
  <2>1. CASE Promotes
    BY <1>0, <1>5, <2>1, Published, UsedNow
  <2>2. CASE ~Promotes
    BY <1>5, <2>2, Published, SameUses
  <2> QED BY <2>1, <2>2
<1>6. ASSUME NEW c \in Client, Ask(c) \/ Observe(c) \/ Control(c) PROVE Ordered'
  BY <1>1, <1>3, <1>6 DEF Ask, Observe, AskVersion, Version, Status, Stats, StatusDone, Control,
                          CloseAll, CacheOff, CacheOn, Close, Removing
<1>7. CASE RefreshFails \/ PublishRefused \/ Evict
  BY <1>3, <1>7 DEF RefreshFails, PublishRefused, Evict
<1>8. CASE Fingerprint \/ Plan \/ Parse \/ Reply \/ \E how \in Ending : Consume(how)
  BY <1>1, <1>8 DEF Fingerprint, Plan, Parse, Reply, Consume
<1>9. CASE UNCHANGED vars \/ \E r \in Root, n \in 0..MaxSize : Edit(r, n)
  BY <1>1, <1>9 DEF vars, Edit
<1> QED BY <1>2, <1>4, <1>5, <1>6, <1>7, <1>8, <1>9, RootAssumption
       DEF Next, Lifecycle, Refresh, Settle

-----------------------------------------------------------------------------
(* What stays is the recent part that fits, and the eviction loop leaves    *)
(* just that.                                                               *)
Charged(reg) == /\ DOMAIN reg \subseteq Root /\ Distinct(reg)
                /\ \A r \in DOMAIN reg : reg[r].charge \in 0..MaxSize /\ reg[r].used \in Int

(* The registry is one of those the lemmas below are about.                 *)
LEMMA RegistryCharged == ASSUME TypeOK, Ordered PROVE Charged(registry)
BY BudgetAssumption DEF TypeOK, Entry, Ordered, Charged

(* The test of the loop, without the saturation of the byte sum.            *)
LEMMA OverIs ==
  ASSUME NEW reg, DOMAIN reg \subseteq Root, \A r \in DOMAIN reg : reg[r].charge \in 0..MaxSize
  PROVE  ~Over(reg) <=> DOMAIN reg = {} \/ (/\ Cardinality(DOMAIN reg) <= Cap
                                           /\ Cardinality(ChargedBytes(reg)) <= Budget)
<1>1. Cardinality(ChargedBytes(reg)) \in Nat /\ Cardinality(DOMAIN reg) \in Nat
  BY ChargesFinite, RootAssumption, FS_Subset, FS_CardinalityType
<1> QED BY <1>1, BudgetAssumption DEF Over, RetainedBytes

(* The instance brings its own Cardinality, which is the same.              *)
LEMMA SameCount == \A S : Cache!Cardinality(S) = Cardinality(S)
BY DEF Cache!Cardinality, Cardinality

(* What will be left of a registry is the recent part of the cache that     *)
(* fits.                                                                    *)
LEMMA RecentIs ==
  ASSUME NEW reg, Charged(reg)
  PROVE  Remaining(reg) = Cache!Recent(Charges(reg), Uses(reg))
<1> SUFFICES ASSUME NEW r \in DOMAIN reg
             PROVE  ~Over(Without(reg, DOMAIN reg \ Since(reg, r)))
                      <=> Cache!Fits(Cache!Part(Charges(reg),
                                                Cache!Since(Charges(reg), Uses(reg), r)))
  BY DEF Remaining, Since, Cache!Recent, Charges
<1>1. Cache!Since(Charges(reg), Uses(reg), r) = Since(reg, r)
  BY DEF Cache!Since, Charges, Uses, Since, Charged, Distinct
<1> DEFINE part == Without(reg, DOMAIN reg \ Since(reg, r))
<1>2. /\ DOMAIN part = Since(reg, r) /\ r \in Since(reg, r) /\ Since(reg, r) \subseteq DOMAIN reg
      /\ \A q \in Since(reg, r) : part[q] = reg[q]
  BY DEF Without, Since, Charged
<1> DEFINE c == Cache!Part(Charges(reg), Since(reg, r))
<1>3. DOMAIN c = Since(reg, r) /\ \A q \in Since(reg, r) : c[q] = reg[q].charge
  BY <1>2 DEF Cache!Part, Charges
<1> HIDE DEF part, c
<1>4. ChargedBytes(part) = Cache!Units(c)
  BY <1>2, <1>3 DEF ChargedBytes, Cache!Units
<1>5. ~Over(part) <=> Cardinality(DOMAIN part) <= Cap /\ Cardinality(ChargedBytes(part)) <= Budget
  BY <1>2, OverIs DEF Charged
<1>6. ~Over(part) <=> Cache!Fits(c)
  <2>1. /\ Cardinality(DOMAIN part) = Cardinality(DOMAIN c)
        /\ Cardinality(ChargedBytes(part)) = Cardinality(Cache!Units(c))
    BY <1>2, <1>3, <1>4
  <2> QED BY <1>5, <2>1, SameCount DEF Cache!Fits
<1> QED BY <1>1, <1>6 DEF part, c

(* At the end of the loop nothing has to leave any more.                    *)
LEMMA AllRemain ==
  ASSUME NEW reg, Charged(reg), ~Over(reg)
  PROVE  Remaining(reg) = DOMAIN reg
<1> SUFFICES ASSUME NEW r \in DOMAIN reg
             PROVE  ~Over(Without(reg, DOMAIN reg \ Since(reg, r)))
  BY DEF Remaining, Since
<1> DEFINE part == Without(reg, DOMAIN reg \ Since(reg, r))
<1>1. /\ DOMAIN part \subseteq DOMAIN reg /\ \A q \in DOMAIN part : part[q] = reg[q]
      /\ ChargedBytes(part) \subseteq ChargedBytes(reg)
  <2> DEFINE gone == DOMAIN reg \ Since(reg, r)
  <2>1. DOMAIN Without(reg, gone) = DOMAIN reg \ gone
    BY WithoutFacts
  <2> HIDE DEF gone
  <2>2. /\ \A q \in DOMAIN reg \ gone : Without(reg, gone)[q] = reg[q]
        /\ ChargedBytes(Without(reg, gone)) \subseteq ChargedBytes(reg)
    BY WithoutFacts
  <2> QED BY <2>1, <2>2 DEF gone
<1> HIDE DEF part
<1>2. /\ IsFiniteSet(DOMAIN reg) /\ IsFiniteSet(ChargedBytes(reg))
      /\ Cardinality(DOMAIN reg) \in Nat /\ Cardinality(ChargedBytes(reg)) \in Nat
  BY ChargesFinite, RootAssumption, FS_Subset, FS_CardinalityType DEF Charged
<1>3. /\ Cardinality(DOMAIN part) <= Cardinality(DOMAIN reg)
      /\ Cardinality(ChargedBytes(part)) <= Cardinality(ChargedBytes(reg))
      /\ Cardinality(DOMAIN part) \in Nat /\ Cardinality(ChargedBytes(part)) \in Nat
  BY <1>1, <1>2, FS_Subset, FS_CardinalityType
<1>4. Cardinality(DOMAIN reg) <= Cap /\ Cardinality(ChargedBytes(reg)) <= Budget
  BY OverIs DEF Charged
<1>5. Cardinality(DOMAIN part) <= Cap /\ Cardinality(ChargedBytes(part)) <= Budget
  BY <1>2, <1>3, <1>4, BudgetAssumption
<1>6. ~Over(part)
  BY <1>1, <1>5, OverIs DEF Charged
<1> QED BY <1>6 DEF part

(* An iteration takes what would not stay, and nothing that would.          *)
LEMMA OldestGoes ==
  ASSUME NEW reg, Charged(reg), Over(reg), NEW r \in Oldest(reg)
  PROVE  Remaining(Without(reg, {r})) = Remaining(reg)
<1> DEFINE rest == Without(reg, {r})
<1>1. /\ DOMAIN rest = DOMAIN reg \ {r} /\ r \in DOMAIN reg
      /\ \A q \in DOMAIN rest : rest[q] = reg[q] /\ reg[r].used < reg[q].used
  BY DEF Without, Oldest, Charged, Distinct
<1>2. r \notin Remaining(reg)
  <2>1. Since(reg, r) = DOMAIN reg
    BY DEF Since, Oldest, Charged
  <2>2. ChargedBytes(Without(reg, {})) = ChargedBytes(reg) /\ DOMAIN Without(reg, {}) = DOMAIN reg
    BY DEF ChargedBytes, Without
  <2>3. Over(Without(reg, {}))
    BY <2>2 DEF Over, RetainedBytes
  <2>4. Over(Without(reg, DOMAIN reg \ Since(reg, r)))
    BY <2>1, <2>3
  <2> QED BY <2>4 DEF Remaining, Since
<1>3. ASSUME NEW q \in DOMAIN rest
      PROVE  Without(rest, DOMAIN rest \ Since(rest, q)) = Without(reg, DOMAIN reg \ Since(reg, q))
  <2>0. /\ q \in DOMAIN reg /\ rest[q] = reg[q] /\ reg[q].used \in Int /\ reg[r].used \in Int
        /\ ~(reg[r].used >= reg[q].used)
    <3>1. q \in DOMAIN reg /\ rest[q] = reg[q] /\ reg[r].used < reg[q].used
      BY <1>1, <1>3
    <3> QED BY <1>1, <3>1 DEF Charged
  <2>1. Since(rest, q) = Since(reg, q) /\ Since(reg, q) \subseteq DOMAIN rest
    <3> HIDE DEF rest
    <3> QED BY <1>1, <2>0 DEF Since
  <2>2. /\ DOMAIN rest \ (DOMAIN rest \ Since(rest, q)) = Since(reg, q)
        /\ DOMAIN reg \ (DOMAIN reg \ Since(reg, q)) = Since(reg, q)
        /\ \A s \in Since(reg, q) : rest[s] = reg[s]
    BY <1>1, <2>1
  <2> HIDE DEF rest
  <2> QED BY <2>2 DEF Without
<1> HIDE DEF rest
<1>4. \A q \in DOMAIN rest : q \in Remaining(rest) <=> q \in Remaining(reg)
  BY <1>1, <1>3 DEF Remaining, Since
<1>5. Remaining(rest) \subseteq DOMAIN rest /\ Remaining(reg) \subseteq DOMAIN reg
  BY DEF Remaining
<1>6. Remaining(rest) = Remaining(reg)
  BY <1>1, <1>2, <1>4, <1>5
<1> QED BY <1>6 DEF rest

-----------------------------------------------------------------------------
(* The state of the cache that a state of the registry stands for.          *)
LEMMA Restricted ==
  ASSUME NEW reg, NEW roots, roots \subseteq DOMAIN reg
  PROVE  LET part == [r \in roots |-> reg[r]]
         IN  /\ Charges(part) = Cache!Part(Charges(reg), roots)
             /\ Uses(part) = Cache!Among(Uses(reg), roots)
<1> DEFINE part == [r \in roots |-> reg[r]]
<1>1. DOMAIN part = roots /\ \A r \in roots : part[r] = reg[r]
  OBVIOUS
<1> HIDE DEF part
<1>2. Charges(part) = Cache!Part(Charges(reg), roots)
  BY <1>1 DEF Charges, Cache!Part
<1>3. Uses(part) = Cache!Among(Uses(reg), roots)
  BY <1>1 DEF Uses, Cache!Among
<1> QED BY <1>2, <1>3 DEF part

(* Restricted to all its roots, a cache is itself.                          *)
LEMMA Entire ==
  ASSUME NEW reg
  PROVE  /\ Cache!Part(Charges(reg), DOMAIN reg) = Charges(reg)
         /\ Cache!Among(Uses(reg), DOMAIN reg) = Uses(reg)
BY DEF Charges, Uses, Cache!Part, Cache!Among

(* Outside the eviction loop it is the registry, and during the loop what   *)
(* will be left of it.                                                      *)
LEMMA View ==
  /\ Charges(Kept) = Cache!Part(Charges(registry), Staying)
  /\ Uses(Kept) = Cache!Among(Uses(registry), Staying)
  /\ cur.phase # "evict" => Charges(Kept) = Charges(registry) /\ Uses(Kept) = Uses(registry)
<1>1. Staying \subseteq DOMAIN registry
  BY DEF Staying, Remaining
<1>2. /\ Charges(Kept) = Cache!Part(Charges(registry), Staying)
      /\ Uses(Kept) = Cache!Among(Uses(registry), Staying)
  BY <1>1, Restricted DEF Kept
<1> QED BY <1>2, Entire DEF Staying

(* The same of the next state.                                              *)
LEMMA NextView ==
  /\ Charges(Kept)' = Cache!Part(Charges(registry'), Staying')
  /\ Uses(Kept)' = Cache!Among(Uses(registry'), Staying')
  /\ cur'.phase # "evict" => Charges(Kept)' = Charges(registry') /\ Uses(Kept)' = Uses(registry')
<1>1. Staying' \subseteq DOMAIN registry'
  BY DEF Staying, Remaining
<1>2. /\ Charges(Kept)' = Cache!Part(Charges(registry'), Staying')
      /\ Uses(Kept)' = Cache!Among(Uses(registry'), Staying')
  BY <1>1, Restricted DEF Kept
<1> QED BY <1>2, Entire DEF Staying

(* Initially the cache is empty.                                            *)
LEMMA CacheStart == Init => Cache!Start /\ Ordered
<1> SUFFICES ASSUME Init PROVE Cache!Start /\ Ordered
  OBVIOUS
<1>1. DOMAIN registry = {} /\ cur.phase = "none" /\ enabled = TRUE
  BY DEF Init, Idle
<1>2. DOMAIN Charges(registry) = {} /\ Uses(registry) = {}
  BY <1>1 DEF Charges, Uses
<1> QED BY <1>1, <1>2, View DEF Cache!Start, Busy, UsedAs, Ordered, Distinct

(* How a run ends is not known before its command is over.                  *)
Undecided == cur.phase \in {"stat", "plan", "parse", "commit", "answer"} => cur.ended = "no"

LEMMA UndecidedStep == TypeOK /\ Undecided /\ [Next]_vars => Undecided'
<1> SUFFICES ASSUME TypeOK, Undecided, [Next]_vars PROVE Undecided'
  OBVIOUS
<1>1. CASE UNCHANGED cur
  BY <1>1 DEF Undecided
<1>2. ASSUME NEW c \in Client, Begin(c) PROVE Undecided'
  <2>1. ASSUME NEW kind, NEW r, Enter(c, kind, r) PROVE Undecided'
    BY <2>1 DEF Enter, Undecided
  <2> QED BY <1>1, <1>2, <2>1 DEF Begin, Run, Open, RunNoIndex, OpenRefused
<1>3. ASSUME NEW c \in Client, Ask(c) \/ Control(c) \/ Observe(c) PROVE UNCHANGED cur
  BY <1>3 DEF Ask, Control, Observe, Close, CloseAll, CacheOff, CacheOn, Removing, AskVersion,
              Version, Status, Stats, StatusDone
<1>4. CASE Fingerprint \/ Plan \/ Parse \/ Commit
  BY <1>4 DEF Fingerprint, Plan, Parse, Commit, Undecided, TypeOK
<1>5. CASE Publish \/ \E how \in Ending : Consume(how)
  BY <1>5 DEF Publish, Consume, Undecided, TypeOK
<1>6. CASE RefreshFails \/ PublishRefused \/ Reply
  BY <1>6 DEF RefreshFails, PublishRefused, Reply, Idle, Undecided
<1>7. CASE Evict \/ UNCHANGED vars \/ \E r \in Root, n \in 0..MaxSize : Edit(r, n)
  BY <1>1, <1>7 DEF Evict, Edit, vars
<1> QED BY <1>1, <1>2, <1>3, <1>4, <1>5, <1>6, <1>7, RootAssumption
       DEF Next, Lifecycle, Refresh, Settle

(* Steps the cache does not see.                                            *)
LEMMA Hidden ==
  ASSUME UNCHANGED <<registry, cur, enabled>>
  PROVE  UNCHANGED Cache!cache
BY DEF Cache!cache, Kept, Staying, Busy, UsedAs

(* The lifecycle works on its root: neither charge nor order changes.       *)
LEMMA Working ==
  ASSUME cur.phase \notin {"none", "evict"}, cur'.phase \notin {"none", "evict"},
         cur'.root = cur.root, cur'.kind = cur.kind, UNCHANGED enabled,
         DOMAIN registry' = DOMAIN registry,
         \A r \in DOMAIN registry : /\ registry'[r].charge = registry[r].charge
                                    /\ registry'[r].used = registry[r].used
  PROVE  /\ UNCHANGED <<Charges(Kept), Uses(Kept), Busy>>
         /\ cur'.ended = cur.ended => UNCHANGED Cache!cache
<1>1. Charges(registry') = Charges(registry) /\ Uses(registry') = Uses(registry)
  BY DEF Charges, Uses
<1>2. UNCHANGED <<Charges(Kept), Uses(Kept), Busy>>
  BY <1>1, View, NextView DEF Busy
<1> QED BY <1>2 DEF Cache!cache, UsedAs

(* The command of a run is over; that of an open never is.                  *)
LEMMA ConsumeEnds ==
  ASSUME Inv, Undecided, NEW how \in Ending, Consume(how)
  PROVE  Cache!Ended(how) \/ UNCHANGED Cache!cache
<1>1. /\ TypeOK /\ cur.phase = "answer" /\ cur'.phase = "publish" /\ cur'.ended = how
      /\ cur'.root = cur.root /\ cur'.kind = cur.kind /\ UNCHANGED <<registry, enabled>>
      /\ cur.ended = "no" /\ how # "no" /\ cur.root # None
  BY NoneAssumption DEF Inv, Shape, TypeOK, Consume, Undecided, Ending
<1>2. UNCHANGED <<Charges(Kept), Uses(Kept), Busy, enabled>> /\ Busy # None
  <2>1. Busy # None
    BY <1>1 DEF Busy
  <2> QED BY <1>1, <2>1, Working
<1>3. IF cur.kind = "open" THEN UNCHANGED UsedAs ELSE UsedAs = "run" /\ UsedAs' = how
  BY <1>1 DEF UsedAs
<1> QED BY <1>2, <1>3 DEF Cache!Ended, Cache!cache

(* An iteration of the loop removes what the cache has let go already.      *)
LEMMA EvictHidden ==
  ASSUME Inv, Ordered, Evict
  PROVE  UNCHANGED Cache!cache
<1>1. /\ Charged(registry) /\ Over(registry) /\ cur.phase = "evict" /\ UNCHANGED <<cur, enabled>>
      /\ \E r \in Oldest(registry) : registry' = Without(registry, {r})
  BY RegistryCharged DEF Inv, Evict
<1>2. PICK r \in Oldest(registry) : registry' = Without(registry, {r})
  BY <1>1
<1>3. Remaining(registry') = Remaining(registry)
  BY <1>1, <1>2, OldestGoes
<1>4. Staying' = Staying /\ Staying = Remaining(registry) /\ Staying' \subseteq DOMAIN registry'
  BY <1>1, <1>3 DEF Staying, Remaining
<1>5. \A q \in Staying : registry'[q] = registry[q]
  BY <1>2, <1>4 DEF Without
<1>6. Kept' = Kept
  BY <1>4, <1>5 DEF Kept
<1> QED BY <1>1, <1>6 DEF Cache!cache, Busy, UsedAs

(* At the end of the loop the registry holds just what the cache holds.     *)
LEMMA ReplyHidden ==
  ASSUME Inv, Ordered, Reply
  PROVE  UNCHANGED Cache!cache
<1>1. /\ Charged(registry) /\ ~Over(registry) /\ cur.phase = "evict"
      /\ cur'.phase = "none" /\ UNCHANGED <<registry, enabled>>
  BY RegistryCharged DEF Inv, Reply, Idle
<1>2. Staying = DOMAIN registry
  BY <1>1, AllRemain DEF Staying
<1>3. /\ Charges(Kept) = Charges(registry) /\ Uses(Kept) = Uses(registry)
      /\ Charges(Kept)' = Charges(registry) /\ Uses(Kept)' = Uses(registry)
  BY <1>1, <1>2, View, NextView, Entire
<1> QED BY <1>1, <1>3 DEF Cache!cache, Busy, UsedAs

(* A removal takes its roots out of the cache.                              *)
LEMMA Removed ==
  ASSUME NEW roots, registry' = Without(registry, roots),
         cur.phase # "evict", cur'.phase # "evict"
  PROVE  Cache!Drops(roots)
<1> DEFINE rest == DOMAIN registry \ roots
<1>1. registry' = [r \in rest |-> registry[r]] /\ rest \subseteq DOMAIN registry
  BY DEF Without
<1>2. /\ Charges(registry') = Cache!Part(Charges(registry), rest)
      /\ Uses(registry') = Cache!Among(Uses(registry), rest)
  <2> HIDE DEF rest
  <2> QED BY <1>1, Restricted
<1>3. DOMAIN Charges(registry) = DOMAIN registry
  BY DEF Charges
<1> QED BY <1>2, <1>3, View, NextView DEF Cache!Drops, Cache!Holds

(* A lifecycle that fails or is refused gives its root up, and no other.    *)
LEMMA DetachAbandons ==
  ASSUME Inv, cur.phase \notin {"none", "evict"},
         registry' = Without(registry, IF Current THEN {cur.root} ELSE {}),
         cur' = Idle, UNCHANGED enabled
  PROVE  Cache!Abandon
<1>1. cur'.phase = "none" /\ Current /\ cur.root # None
  BY NoneAssumption DEF Inv, Idle, InFlightRegistered, Shape
<1>2. Busy = cur.root /\ Busy' = None /\ UsedAs' = "none"
  BY <1>1 DEF Busy, UsedAs
<1>3. Cache!Drops({Busy})
  BY <1>1, <1>2, Removed
<1> QED BY <1>1, <1>2, <1>3 DEF Cache!Abandon, Cache!Leave

(* query_close and query_cache take roots out between two lifecycles, and   *)
(* retention is only ever off with the cache empty.                         *)
LEMMA RemovingControls ==
  ASSUME Inv, NEW c, NEW roots, Removing(c, roots), enabled' \in BOOLEAN,
         ~enabled' => Root \subseteq roots \/ UNCHANGED enabled
  PROVE  Cache!Control(roots)
<1>1. /\ TypeOK /\ cur = Idle /\ cur' = Idle /\ cur.phase = "none" /\ cur'.phase = "none"
      /\ cur.root = None /\ registry' = Without(registry, roots)
  BY DEF Inv, Removing, Admitted, Idle
<1>2. Busy = None /\ Busy' = None /\ UNCHANGED UsedAs
  BY <1>1 DEF Busy, UsedAs
<1>3. Cache!Drops(roots)
  BY <1>1, Removed
<1>4. ~enabled' => DOMAIN registry' = {}
  <2>1. DOMAIN registry' = DOMAIN registry \ roots /\ DOMAIN registry \subseteq Root
    BY <1>1 DEF Without, TypeOK
  <2>2. ASSUME ~enabled PROVE DOMAIN registry = {}
    BY <1>1, <2>1, <2>2, NoneAssumption DEF Inv, OffMeansEmpty, Retaining
  <2> QED BY <2>1, <2>2
<1>5. ~enabled' => DOMAIN Charges(Kept)' = {}
  <2>1. DOMAIN Charges(registry') = DOMAIN registry'
    BY DEF Charges
  <2> QED BY <1>1, <1>4, <2>1, NextView
<1> QED BY <1>2, <1>3, <1>5 DEF Cache!Control

(* A lifecycle that begins: its root arrives.                               *)
LEMMA EnterArrives ==
  ASSUME Inv, Ordered, TypeOK', NEW c, NEW kind \in {"open", "run"},
         NEW r \in Root, cur = Idle, Enter(c, kind, r)
  PROVE  Cache!Arrive(r, kind)
<1>1. /\ TypeOK /\ cur.phase = "none" /\ cur'.phase = "stat" /\ cur'.root = r
      /\ cur'.kind = kind /\ cur'.ended = "no" /\ UNCHANGED enabled
  BY DEF Inv, Enter, Idle
<1>2. Busy = None /\ Busy' = r /\ UsedAs' = kind
  BY <1>1 DEF Busy, UsedAs
<1>3. DOMAIN Charges(registry) = DOMAIN registry
  BY DEF Charges
<1>4. CASE r \in DOMAIN registry
  <2>1. UNCHANGED registry
    BY <1>4 DEF Enter
  <2> QED BY <1>1, <1>2, <1>3, <1>4, <2>1, View, NextView DEF Cache!Arrive
<1>5. CASE r \notin DOMAIN registry
  <2>1. /\ DOMAIN registry' = DOMAIN registry \cup {r}
        /\ registry'[r].charge = 0
        /\ \A q \in DOMAIN registry : registry'[q].charge = Aged(registry)[q].charge
    BY <1>5, Entered
  <2>2. \A q \in DOMAIN registry : Aged(registry)[q].charge = registry[q].charge
    BY <1>1, AgedFacts, RegistryFinite, BudgetAssumption DEF Inv, Small
  <2>3. Charges(registry') = [q \in DOMAIN registry \cup {r} |->
                                IF q = r THEN 0 ELSE Charges(registry)[q]]
    BY <1>5, <2>1, <2>2 DEF Charges
  <2>4. Uses(registry') = {p \in Uses(registry) : p[1] # r /\ p[2] # r}
                            \cup ((DOMAIN registry \ {r}) \X {r})
    <3>1. /\ registry'[r].used = NextUse(registry) /\ clock' = NextUse(registry)
          /\ \A q \in DOMAIN registry \ {r} : registry'[q].used = Aged(registry)[q].used
      BY <1>5, Entered
    <3> QED BY <1>1, <2>1, <3>1, UsedNow
  <2>5. Uses(registry') = Uses(registry) \cup ((DOMAIN registry) \X {r})
    <3>1. \A p \in Uses(registry) : p[1] # r /\ p[2] # r
      BY <1>5 DEF Uses
    <3>2. DOMAIN registry \ {r} = DOMAIN registry
      BY <1>5
    <3> QED BY <2>4, <3>1, <3>2
  <2> QED BY <1>1, <1>2, <1>3, <1>5, <2>3, <2>5, View, NextView DEF Cache!Arrive
<1> QED BY <1>4, <1>5

(* A publication: the root is charged, used if the use counted, and what    *)
(* does not fit is as good as gone.                                         *)
LEMMA PublishSettles ==
  ASSUME Inv, Ordered, TypeOK', Publish
  PROVE  Cache!Settle(Loaded.size)
<1> DEFINE n == Loaded.size
           c == [Charges(registry) EXCEPT ![cur.root] = n]
           order == IF Promotes THEN Cache!Promoted(cur.root) ELSE Uses(registry)
<1>1. /\ TypeOK /\ cur.root \in DOMAIN registry /\ DOMAIN registry' = DOMAIN registry
      /\ cur.phase = "publish" /\ cur'.phase = "evict" /\ cur.root # None
      /\ registry'[cur.root].charge = n
      /\ \A q \in DOMAIN registry \ {cur.root} : registry'[q].charge = registry[q].charge
  BY Published, NoneAssumption DEF Inv, TypeOK
<1>2. Retaining /\ n <= Budget /\ UNCHANGED enabled
  BY DEF Publish, Admissible
<1>3. /\ Busy = cur.root /\ Busy' = None /\ UsedAs' = "none"
      /\ Promotes <=> Cache!Counts
  <2>1. cur.ended \in Ending \cup {"no"}
    BY <1>1 DEF TypeOK
  <2>2. Promotes <=> UsedAs \in {"open", "zero"}
    BY <1>1, <2>1 DEF UsedAs, Promotes, Ending
  <2> QED BY <1>1, <2>2 DEF Busy, UsedAs, Cache!Counts
<1>4. Charges(Kept) = Charges(registry) /\ Uses(Kept) = Uses(registry)
  BY <1>1, View
<1>5. Charges(registry') = c
  <2>1. DOMAIN Charges(registry) = DOMAIN registry
    BY DEF Charges
  <2> HIDE DEF n
  <2> QED BY <1>1, <2>1 DEF Charges
<1>6. Uses(registry') = order /\ Ordered'
  <2>1. CASE Promotes
    <3>1. /\ Uses(registry') = {p \in Uses(registry) : p[1] # cur.root /\ p[2] # cur.root}
                                 \cup ((DOMAIN registry \ {cur.root}) \X {cur.root})
          /\ Ordered'
      <4>1. DOMAIN registry' = DOMAIN registry \cup {cur.root}
        BY <1>1
      <4> QED BY <1>1, <2>1, <4>1, Published, UsedNow
    <3>2. {p \in Uses(registry) : p[1] # cur.root /\ p[2] # cur.root}
            = Cache!Among(Uses(registry), DOMAIN registry \ {cur.root})
      BY DEF Uses, Cache!Among
    <3>3. DOMAIN Charges(registry) = DOMAIN registry
      BY DEF Charges
    <3> QED BY <1>4, <2>1, <3>1, <3>2, <3>3 DEF Cache!Promoted
  <2>2. CASE ~Promotes
    <3>1. clock' = clock /\ \A q \in DOMAIN registry : registry'[q].used = registry[q].used
      BY <2>2, Published
    <3> QED BY <1>1, <2>2, <3>1, SameUses DEF Uses
  <2> QED BY <2>1, <2>2
<1>7. Staying' = Cache!Recent(c, order)
  <2>1. Charged(registry')
    BY <1>6, BudgetAssumption DEF TypeOK, Entry, Ordered, Charged
  <2> HIDE DEF c, order
  <2> QED BY <1>1, <1>5, <1>6, <2>1, RecentIs DEF Staying
<1>8. Cache!Holds(Cache!Recent(c, order), c, order)
  <2> HIDE DEF c, order
  <2> QED BY <1>5, <1>6, <1>7, NextView DEF Cache!Holds
<1> QED BY <1>1, <1>2, <1>3, <1>4, <1>8 DEF Cache!Settle, Cache!Leave, Retaining

(* Every step of the registry is a step of the cache, or hidden from it.    *)
LEMMA CacheStep == Inv /\ Ordered /\ Undecided /\ [Next]_vars => [Cache!Move]_Cache!cache
<1> SUFFICES ASSUME Inv, Ordered, Undecided, [Next]_vars PROVE Cache!Move \/ UNCHANGED Cache!cache
  OBVIOUS
<1>0. TypeOK /\ TypeOK'
  BY NextInv DEF Inv
<1>1. CASE UNCHANGED vars \/ \E r \in Root, n \in 0..MaxSize : Edit(r, n)
  BY <1>1, Hidden DEF vars, Edit
<1>2. ASSUME NEW c \in Client,
             Ask(c) \/ Observe(c) \/ RunNoIndex(c) \/ OpenRefused(c)
      PROVE  UNCHANGED Cache!cache
  BY <1>2, Hidden DEF Ask, Observe, AskVersion, Version, Status, Stats, StatusDone, RunNoIndex,
                      OpenRefused
<1>3. ASSUME NEW c \in Client, NEW r \in Root, Run(c, r) \/ Open(c, r)
      PROVE  Cache!Arrive(r, "run") \/ Cache!Arrive(r, "open")
  BY <1>0, <1>3, EnterArrives DEF Run, Open, Admitted
<1>4. ASSUME NEW c \in Client, Control(c) PROVE Cache!Move
  <2>1. ASSUME NEW r \in Root, Close(c, r) PROVE Cache!Control({r})
    BY <1>0, <2>1, RemovingControls DEF Close, TypeOK
  <2>2. CASE CloseAll(c)
    BY <1>0, <2>2, RemovingControls DEF CloseAll, TypeOK, Cache!Move
  <2>3. CASE CacheOff(c)
    BY <2>3, RemovingControls DEF CacheOff, Cache!Move
  <2>4. CASE CacheOn(c)
    BY <2>4, RemovingControls DEF CacheOn, Cache!Move
  <2> QED BY <1>4, <2>1, <2>2, <2>3, <2>4 DEF Control, Cache!Move
<1>5. CASE Fingerprint \/ Plan \/ Parse
  <2>1. /\ UNCHANGED <<registry, enabled>> /\ cur.phase \in {"stat", "plan", "parse"}
        /\ cur'.phase \in {"plan", "parse", "commit", "answer", "publish"}
        /\ cur'.root = cur.root /\ cur'.kind = cur.kind /\ cur'.ended = cur.ended
    <3>1. \A p, v : /\ [cur EXCEPT !.phase = p].phase = p
                   /\ [cur EXCEPT !.phase = p, !.print = v].phase = p
                   /\ [cur EXCEPT !.phase = p, !.read = v].phase = p
      BY <1>0 DEF TypeOK
    <3>2. CASE Fingerprint BY <3>1, <3>2 DEF Fingerprint, AfterRefresh
    <3>3. CASE Plan BY <3>1, <3>3 DEF Plan
    <3>4. CASE Parse BY <3>1, <3>4 DEF Parse
    <3> QED BY <1>5, <3>2, <3>3, <3>4
  <2> QED BY <2>1, Working
<1>6. CASE Commit
  <2>1. /\ cur.phase = "commit" /\ cur'.phase \in {"answer", "publish"} /\ UNCHANGED enabled
        /\ cur'.root = cur.root /\ cur'.kind = cur.kind /\ cur'.ended = cur.ended
    BY <1>0, <1>6 DEF Commit, AfterRefresh, TypeOK
  <2>2. /\ DOMAIN registry' = DOMAIN registry
        /\ \A r \in DOMAIN registry : /\ registry'[r].charge = registry[r].charge
                                      /\ registry'[r].used = registry[r].used
    BY <1>0, <1>6 DEF Commit, TypeOK, Entry
  <2> QED BY <2>1, <2>2, Working
<1>7. CASE RefreshFails \/ PublishRefused
  BY <1>7, DetachAbandons DEF RefreshFails, PublishRefused, Cache!Move
<1>8. CASE Publish
  <2>1. Loaded.size \in 0..MaxSize
    BY <1>0, <1>8, Published DEF TypeOK
  <2> QED BY <1>0, <1>8, <2>1, PublishSettles DEF Cache!Move
<1>9. CASE Evict
  BY <1>9, EvictHidden
<1>10. CASE Reply
  BY <1>10, ReplyHidden
<1>11. ASSUME NEW how \in Ending, Consume(how) PROVE Cache!Move \/ UNCHANGED Cache!cache
  BY <1>11, ConsumeEnds DEF Cache!Move, Cache!Outcome, Ending
<1> QED BY <1>1, <1>2, <1>3, <1>4, <1>5, <1>6, <1>7, <1>8, <1>9, <1>10, <1>11, RootAssumption
       DEF Next, Begin, Lifecycle, Refresh, Settle, Cache!Move

(* No two entries share a time of use and the clock is not behind any of    *)
(* them, however often it came to its end: the victim of an eviction is     *)
(* never a matter of chance.                                                *)
THEOREM OrderOfUse == Spec => []Ordered
<1>1. Init => Ordered
  BY CacheStart
<1> QED BY <1>1, OrderedStep, Invariance, PTL DEF Spec

(* The registry is a bounded cache in order of use: clock, renumbering and  *)
(* the iterations of the eviction loop show in nothing it keeps.            *)
THEOREM RegistryIsLru == Spec => ImplementsLru
<1>1. Init => Cache!Start /\ Ordered /\ Undecided
  BY CacheStart DEF Init, Idle, Undecided
<1>2. /\ Inv /\ Ordered /\ Undecided /\ [Next]_vars => [Cache!Move]_Cache!cache
      /\ Inv /\ Ordered /\ Undecided /\ [Next]_vars => Ordered' /\ Undecided'
  BY OrderedStep, UndecidedStep, CacheStep DEF Inv
<1> QED BY <1>1, <1>2, Invariance, PTL DEF Spec, ImplementsLru, Cache!Promise
=============================================================================
