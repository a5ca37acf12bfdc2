------------------------------- MODULE Unused -------------------------------
(***************************************************************************)
(* `unused': what nothing live cites.  Three fixed points over a call      *)
(* graph of names: the cascade of `-r', which tests a snapshot of the      *)
(* frontier; the root sets of `--roots' and the marked entries, which are  *)
(* computed in place, in whatever order the names come out of a hash set.  *)
(***************************************************************************)
EXTENDS Integers, Sequences, FiniteSets, FiniteSetsExt, Functions

VARIABLES
    phase,      \* idle, cascade, forest, marked, done
    query,      \* [callers, live, marks, verb] of the query being answered
    dead,       \* unused_map: name -> cascade depth
    marked,     \* the same for entries that carry evidence
    rootSets,   \* root_sets: name -> the roots that reach it
    todo,       \* the names this pass has not visited
    changed     \* whether this pass found anything

unusedVars == <<phase, query, dead, marked, rootSets, todo, changed>>

NoQuery == [callers |-> [n \in {} |-> {}], live |-> {}, marks |-> {}, verb |-> "none"]

UnusedInit ==
    /\ phase = "idle"
    /\ query = NoQuery
    /\ dead = <<>> /\ marked = <<>> /\ rootSets = <<>>
    /\ todo = {} /\ changed = FALSE

Nodes(callers) == DOMAIN callers

\* What cmd_unused hands over: a citation graph and, unless --roots forgets
\* it, evidence that counts as live while the rest is swept.
IsQuery(q) ==
    /\ q.callers = [n \in Nodes(q.callers) |-> q.callers[n]]
    /\ q.verb \in {"direct", "recursive", "roots"}
    /\ q.marks \subseteq Nodes(q.callers)
    /\ q.verb # "roots" => q.marks \subseteq q.live

\* _compute_unused
Uncited(callers, live) == {n \in Nodes(callers) \ live : callers[n] = {}}

AllRoots == Uncited(query.callers, query.live) \cup query.live

Extended(f, names, value) ==
    [n \in DOMAIN f \cup names |-> IF n \in names THEN value ELSE f[n]]

-----------------------------------------------------------------------------
Newly(callers, live, frontier) ==
    {n \in Nodes(callers) \ (frontier \cup live) :
        callers[n] # {} /\ callers[n] \subseteq frontier}

\* The marks to list again; `direct' asks for the uncited ones only.
StartMarked ==
    /\ phase' = "marked"
    /\ todo' = query.marks
    /\ changed' = FALSE

Ask(callers, live, marks, verb) ==
    /\ phase = "idle"
    /\ query' = [callers |-> callers, live |-> live, marks |-> marks, verb |-> verb]
    /\ dead' = [n \in Uncited(callers, live) |-> 0]
    /\ marked' = <<>>
    /\ rootSets' = [r \in Uncited(callers, live) \cup live |-> {r}]
    /\ changed' = FALSE
    /\ \/ verb = "roots" /\ phase' = "forest"
          /\ todo' = Nodes(callers) \ (Uncited(callers, live) \cup live)
       \/ verb = "recursive" /\ phase' = "cascade" /\ todo' = {}
       \/ verb = "direct" /\ phase' = "marked" /\ todo' = marks

\* _compute_unused_recursive: one level-synchronised pass.
CascadePass ==
    LET newly == Newly(query.callers, query.live, DOMAIN dead)
        depth == 1 + Max({dead[n] : n \in DOMAIN dead} \cup {-1})
    IN  /\ phase = "cascade"
        /\ IF newly = {} THEN StartMarked /\ UNCHANGED dead
           ELSE dead' = Extended(dead, newly, depth) /\ UNCHANGED <<phase, todo, changed>>
        /\ UNCHANGED <<query, marked, rootSets>>

\* With the marked names in gone listed, nothing that is not listed cites.
Gone(cs, gone) ==
    cs = {} \/ (query.verb = "recursive" /\ cs \subseteq DOMAIN dead \cup gone)
CitersGone(cs) == Gone(cs, DOMAIN marked)

ListedDepths(cs) ==
    {dead[c] : c \in cs \cap DOMAIN dead} \cup {marked[c] : c \in cs \cap DOMAIN marked}

\* _dead_marked, one name of a pass.
VisitMarked(n) ==
    LET cs == query.callers[n]
        depths == ListedDepths(cs)
    IN  /\ phase = "marked" /\ n \in todo
        /\ todo' = todo \ {n}
        /\ IF n \notin DOMAIN marked /\ CitersGone(cs)
           THEN /\ marked' = Extended(marked, {n}, IF cs = {} THEN 0 ELSE 1 + Max(depths))
                /\ changed' = TRUE
           ELSE UNCHANGED <<marked, changed>>
        /\ UNCHANGED <<phase, query, dead, rootSets>>

\* Mutant: a name is settled when it is first reached.
FirstRoots(n, new) == n \notin DOMAIN rootSets

NewRoots(n, new) == n \notin DOMAIN rootSets \/ rootSets[n] # new

\* _compute_forest, one name of a pass.
VisitForest(n) ==
    LET new == UNION {rootSets[c] : c \in query.callers[n] \cap DOMAIN rootSets}
    IN  /\ phase = "forest" /\ n \in todo
        /\ todo' = todo \ {n}
        /\ IF new # {} /\ NewRoots(n, new)
           THEN rootSets' = Extended(rootSets, {n}, new) /\ changed' = TRUE
           ELSE UNCHANGED <<rootSets, changed>>
        /\ UNCHANGED <<phase, query, dead, marked>>

PassEnds ==
    /\ phase \in {"marked", "forest"} /\ todo = {}
    /\ IF changed
       THEN /\ todo' = IF phase = "marked" THEN query.marks
                       ELSE Nodes(query.callers) \ AllRoots
            /\ changed' = FALSE
            /\ UNCHANGED phase
       ELSE phase' = "done" /\ UNCHANGED <<todo, changed>>
    /\ UNCHANGED <<query, dead, marked, rootSets>>

Sweep ==
    \/ CascadePass
    \/ \E n \in todo : VisitMarked(n) \/ VisitForest(n)
    \/ PassEnds

UnusedSpec(Queries) ==
    UnusedInit /\ [][(\E q \in Queries : Ask(q.callers, q.live, q.marks, q.verb)) \/ Sweep]_unusedVars

-----------------------------------------------------------------------------
(***************************************************************************)
(* What the three must compute, said twice: as least solutions, and by the *)
(* chains of citations.                                                    *)
(***************************************************************************)
\* Whatever only members cite, and nothing keeps, is a member.
CascadeClosed(S) == \A n \in Nodes(query.callers) \ query.live : query.callers[n] \subseteq S => n \in S

\* `unused -r' drops the least set that is closed under losing its last citer,
\* so no cycle and nothing it cites, and shows each name one level below the
\* last of its citers, in whatever order a pass visits names: commands.py calls
\* order the thing that broke.
CascadeLeast ==
    (phase = "done" /\ query.verb = "recursive") =>
        /\ DOMAIN dead \subseteq Nodes(query.callers) /\ CascadeClosed(DOMAIN dead)
        /\ \A S \in SUBSET Nodes(query.callers) : CascadeClosed(S) => DOMAIN dead \subseteq S
        /\ \A n \in DOMAIN dead :
              dead[n] = IF query.callers[n] = {} THEN 0
                        ELSE 1 + Max({dead[c] : c \in query.callers[n]})

\* An entry with evidence is listed if and only if taking away every name
\* listed leaves no citer of it, and not because it is listed itself: they are
\* the least such set, in every visiting order, each below its last citer.
MarkedExact ==
    (phase = "done" /\ query.verb # "roots") =>
        /\ DOMAIN marked = {n \in query.marks : CitersGone(query.callers[n])}
        /\ \A S \in SUBSET query.marks :
              (\A n \in query.marks : Gone(query.callers[n], S) => n \in S) => DOMAIN marked \subseteq S
        /\ \A n \in DOMAIN marked :
              marked[n] = IF query.callers[n] = {} THEN 0 ELSE 1 + Max(ListedDepths(query.callers[n]))

RootsOf(n) == IF n \in DOMAIN rootSets THEN rootSets[n] ELSE {}

\* `unused --roots': the names credited to a root are the least set that holds
\* the root and every other name, no root itself, that a member cites.
RootsLeast ==
    (phase = "done" /\ query.verb = "roots") =>
        /\ \A r \in AllRoots : RootsOf(r) = {r}
        /\ \A n \in Nodes(query.callers) \ AllRoots :
              RootsOf(n) = UNION {RootsOf(c) : c \in query.callers[n]}
        /\ \A S \in SUBSET (Nodes(query.callers) \cup AllRoots) :
              (\A n \in Nodes(query.callers) \ AllRoots : query.callers[n] \cap S # {} => n \in S) =>
                  \A n \in DOMAIN rootSets \ S : rootSets[n] \cap S = {}

\* The fixed points are the least ones, in whatever order names are visited.
FixedPointsExact == CascadeLeast /\ MarkedExact /\ RootsLeast

\* Chains a_1 cites a_2 cites ... cites n, no name twice, over known callers.
Chains(callers, n) ==
    LET names == Nodes(callers)
        Longer[k \in 0..Cardinality(names)] ==
            IF k = 0 THEN {<<n>>}
            ELSE Longer[k - 1] \cup
                 UNION {{<<c>> \o s : c \in (callers[s[1]] \cap names) \ Range(s)} : s \in Longer[k - 1]}
    IN  Longer[Cardinality(names)]

Above(callers, n) == (UNION {Range(s) : s \in Chains(callers, n)}) \ {n}

OnCycle(callers, n) == \E c \in Above(callers, n) : n \in callers[c]

\* Everything above n is uncited in the end: no live name, no citation from
\* top level, no cycle.
Doomed(callers, live, n) ==
    \A a \in Above(callers, n) \cup {n} :
        a \notin live /\ callers[a] \subseteq Nodes(callers) /\ ~OnCycle(callers, a)

Height(callers, n) == Max({Cardinality(DOMAIN s) - 1 : s \in Chains(callers, n)})

\* The same of `unused -r' along the citations: it drops what only doomed
\* entries cite, each shown at the length of its longest chain of citers.
CascadeExact ==
    (phase = "done" /\ query.verb = "recursive") =>
        dead = [n \in {m \in Nodes(query.callers) : Doomed(query.callers, query.live, m)} |->
                  Height(query.callers, n)]

\* The same of `unused --roots': the roots credited with an entry are those
\* with a chain to it that passes no other root, cycles or not.
ForestExact ==
    (phase = "done" /\ query.verb = "roots") =>
        \A n \in Nodes(query.callers) \ AllRoots :
            (IF n \in DOMAIN rootSets THEN rootSets[n] ELSE {})
              = {r \in AllRoots : \E s \in Chains(query.callers, n) :
                    s[1] = r /\ \A i \in 2..Cardinality(DOMAIN s) : s[i] \notin AllRoots}

\* The least solutions are those along the chains, of the queries that are
\* what cmd_unused hands over.
ChainsExact == (phase # "idle" => IsQuery(query)) /\ CascadeExact /\ ForestExact

\* commands.py, _compute_forest: what --roots counts as exclusive to an unused
\* root would not survive its removal (cycles aside).
ExclusiveDies ==
    (phase = "done" /\ query.verb = "roots") =>
        \A n \in DOMAIN rootSets \ AllRoots :
            /\ \A a \in Above(query.callers, n) \cup {n} : ~OnCycle(query.callers, a)
            /\ \E r \in Uncited(query.callers, query.live) : rootSets[n] = {r}
            => Doomed(query.callers, query.live, n)
=============================================================================
