------------------------------ MODULE Tallies ------------------------------
(***************************************************************************)
(* What is counted of proofs: the method behind every introducer, which    *)
(* `methods' reads off the live text of a project and the shape of a proof *)
(* off its raw steps, and the steps that introduce or consume a fact.      *)
(***************************************************************************)
EXTENDS Loci

Introducers == {"by", "apply", "proof"}
TrivialMethods == {"word"}

-----------------------------------------------------------------------------
(***************************************************************************)
(* The words in the place of a method, terms and all, each a match of one  *)
(* pattern that starts behind the match before it.                         *)
(***************************************************************************)
\* A backslash is in front of the word that marks a note.
MethodWord(tok) == IsName(tok) /\ tok \notin Delimiters \cup Markers \cup {"(*", "*)", "comment"}

MethodPlaces(toks) ==
    LET Behind(k) == IF k < Len(toks) /\ toks[k + 1] = "(" THEN k + 2 ELSE k + 1
        Step(s, k) ==
            IF k > s.past /\ toks[k] \in Introducers /\ Behind(k) \in DOMAIN toks /\ MethodWord(toks[Behind(k)])
            THEN [past |-> Behind(k), places |-> Append(s.places, Behind(k))] ELSE s
    IN  FoldLeft(Step, [past |-> 0, places |-> <<>>], [k \in DOMAIN toks |-> k]).places

LeadingMethod(line) ==
    LET places == MethodPlaces(line) IN IF places = <<>> THEN "" ELSE line[places[1]]

\* _scan_methods: [line, at, method], where `at' is the place on the raw line.
MethodUses ==
    LET noise == NoiseLines
        Toks(i) == [n \in DOMAIN live[i] |-> live[i][n].tok]
    IN  UNION {{[line |-> i, at |-> live[i][n].at, method |-> live[i][n].tok] : n \in Range(MethodPlaces(Toks(i)))} :
               i \in DOMAIN doc \ noise}

\* cmd_methods without a name, and with one: a line once, under its owner.
MethodTally(uses) ==
    [m \in {u.method : u \in uses} |-> Cardinality({u \in uses : u.method = m})]
MethodsLocated(uses, name) == {[line |-> u.line, owner |-> EntryAt(u.line)] : u \in {u \in uses : u.method = name}}

-----------------------------------------------------------------------------
(***************************************************************************)
(* Of one proof: the steps that discharge a goal, how many of them by      *)
(* automation, and how many steps bring or cite a fact.                    *)
(***************************************************************************)
Discharged(steps) == {n \in DOMAIN steps : LeadingMethod(steps[n].words) # ""}
TrivialSteps(steps) == {n \in Discharged(steps) : LeadingMethod(steps[n].words) \in TrivialMethods}

\* Mutant: a step that starts with the facts it cites introduces none.
IntroducesByWord(step) == step.kw \in GoalIntro \cup ContextIntro \cup PlumbingIntro

Introduces(step) ==
    CASE step.kind = "goal" -> step.goal \in GoalIntro
      [] step.kind = "context" -> step.kw \in ContextIntro
      [] step.kind = "plumbing" -> step.kw \in PlumbingIntro
      [] OTHER -> FALSE

Consumes(step) == step.facts # {}

IntroduceConsume(steps) ==
    LET intro == {n \in DOMAIN steps : Introduces(steps[n])}
        cons == {n \in DOMAIN steps : Consumes(steps[n])}
    IN  [introduce |-> intro, consume |-> cons, both |-> intro \cap cons,
         neither |-> DOMAIN steps \ (intro \cup cons)]

-----------------------------------------------------------------------------
(***************************************************************************)
(* A method and the facts cited on its line are told apart by place alone: *)
(* a method of any other name would be counted there, and none of its name *)
(* is cited.                                                               *)
(***************************************************************************)
InTerm(u) == \E n \in DOMAIN live[u.line] : live[u.line][n].at = u.at /\ live[u.line][n].inner

MethodsAreNoFacts ==
    \A u \in {u \in MethodUses : ~InTerm(u)} :
        LET renamed == [doc[u.line] EXCEPT ![u.at] = "tactic"] IN "tactic" \notin CitedFacts(Raw(renamed))

(***************************************************************************)
(* The two counts of methods are of the same proofs: each step that a      *)
(* method discharges is found by `methods' under its entry, and `methods'  *)
(* finds nothing else in a proof but what is on a line that is no step.    *)
(***************************************************************************)
MethodsAgree ==
    LET uses == MethodUses IN
    \A k \in {k \in DOMAIN entries : entries[k].proof > 0 /\ \A j \in DOMAIN entries : SameLine(j, k) => j = k} :
        LET steps == measured[k].steps
            methods == {[line |-> steps[n].line, method |-> LeadingMethod(steps[n].words)] : n \in Discharged(steps)}
            First(u) == \A v \in uses : v.line = u.line => u.at <= v.at
            here == {u \in uses : /\ u.line \in entries[k].proof..entries[k].body
                                  /\ EntryAt(u.line) = {k} /\ First(u)}
            found == {[line |-> u.line, method |-> u.method] : u \in here}
        IN  /\ \A m \in methods : [line |-> m.line, owner |-> {k}] \in MethodsLocated(uses, m.method)
            /\ methods \subseteq found
            /\ \A m \in found \ methods : \A n \in DOMAIN steps : steps[n].line # m.line
            /\ \A m \in DOMAIN MethodTally(uses) :
                    Cardinality(MethodsLocated(uses, m)) <= MethodTally(uses)[m]

(***************************************************************************)
(* A step that is counted as introducing a fact is a command that binds    *)
(* one: every name the walk over the proof binds as a fact, and a proof    *)
(* can cite, is on the line of such a step, and every name whose life is   *)
(* measured is bound where it is born.                                     *)
(***************************************************************************)
IntroducersBind ==
    \A k \in DOMAIN measured :
        LET w == walks[k]
            steps == measured[k].steps
            births == measured[k].facts.births
            introducing == {steps[n].line : n \in IntroduceConsume(steps).introduce}
            bound == {b \in Range(w.bound) : b.at > 0 /\ b.kind # "let"}
        IN  /\ \A b \in bound : w.toks[b.at].line \in introducing
            /\ \A name \in DOMAIN births : w.end = 0 \/ steps[births[name]].line <= w.end =>
                \E b \in bound : b.name = name /\ w.toks[b.at].line = steps[births[name]].line

\* What is counted of a proof is in the proof.
TalliesExact == phase = "parsed" => MethodsAreNoFacts /\ MethodsAgree /\ IntroducersBind
=============================================================================
