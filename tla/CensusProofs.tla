---------------------------- MODULE CensusProofs ----------------------------
(***************************************************************************)
(* Proofs about Census, for any corpus, any number of runs over its output *)
(* file and any failures.  That no record is written twice needs to know   *)
(* in which of the three places a record is (IInv); that a run tells what  *)
(* it lost, which sessions are past (Told) and what may be gone (KeptInv). *)
(***************************************************************************)
EXTENDS Census, FiniteSetTheorems, SequenceTheorems, WellFoundedInduction, TLAPS

-----------------------------------------------------------------------------
Item == [file : Files, proof : Nat]
Line == Item \cup {Garbled}
InSession == phase \in {"load", "measure"}

Types == /\ lines \in Seq(Line)
         /\ buffer \in Seq(Item) /\ proofs \in Seq(Item) /\ queue \in Seq(Files)
         /\ seen \in SUBSET Files
         /\ session \in 0..Len(Sessions)
         /\ phase \in {"idle", "group", "load", "measure", "ended"}
         /\ loaded \in Nat /\ skipped \in Nat

(* What is queued or still to be measured belongs to the current session.  *)
AtSession ==
  /\ phase = "group" => proofs = <<>>
  /\ phase = "measure" => queue = <<>>
  /\ InSession => /\ session \in DOMAIN Sessions /\ table = Table(session)
                  /\ Range(queue) \subseteq SessionFiles(session)
                  /\ \A r \in Range(proofs) : r.file \in SessionFiles(session)

(* A record is in one place: the lines l, the buffer b or the proofs p still *)
(* to be measured.  One that is measured though it is in the lines has a key *)
(* read for --resume; every other is of a file already added in this run.    *)
NoDup(l) == \A i, j \in DOMAIN l : l[i] # Garbled /\ l[i] = l[j] => i = j
Once(l, b, p, keys, added) ==
  /\ NoDup(l) /\ IsInjective(b) /\ IsInjective(p)
  /\ Range(b) \cap Range(p) = {} /\ Range(b) \cap Range(l) = {}
  /\ \A r \in Range(p) \cap Range(l) : Key(r) \in keys
  /\ \A r \in Range(l) \ {Garbled} : Key(r) \in keys \/ r.file \in added
  /\ \A r \in Range(b) \cup Range(p) : r.file \in added

(* Every record is of a command of a session that lists its file.          *)
Mine == UNION {UNION {Measurable(f, s) : f \in SessionFiles(s)} : s \in DOMAIN Sessions}
Own(l, b, p) == (Range(l) \ {Garbled}) \cup Range(b) \cup Range(p) \subseteq Mine

IInv == /\ Types
        /\ AtSession
        /\ Once(lines, buffer, proofs, done, seen)
        /\ Own(lines, buffer, proofs)

-----------------------------------------------------------------------------
Unread == unparsed \cup unmeasured
Failing(n, bad) == {s \in 1..n : SessionFiles(s) \cap bad # {}}
Past == IF InSession THEN session - 1 ELSE session

(* Of the sessions that are past, each was read or is counted as skipped.  *)
Told ==
  /\ skipped <= Cardinality(Failing(Past, Unread))
  /\ Running /\ loaded = 0 => Failing(Past, Unread) = 1..Past
  /\ exit = "bad root" => Failing(Len(Sessions), Unread) = 1..Len(Sessions)

-----------------------------------------------------------------------------
(* What a run has added that is in none of these places and not of a key    *)
(* that was read for --resume.                                             *)
Lost(places, keys, added) ==
  {r \in UNION {Measurable(f, Owner(f)) : f \in added} : r \notin places /\ Key(r) \notin keys}

Places == Range(proofs) \cup Range(buffer) \cup Range(lines)

(* What is skipped as done is in the file, or was in the rest at its end.  *)
Resumed == \A k \in done : \/ k \in {Key(r) : r \in Range(lines) \ {Garbled}}
                           \/ start.kind = "whole" /\ k = Key(start.rec)

(* A run that skipped no session has added what it has passed.             *)
Reached == /\ \A s \in 1..Past : SessionFiles(s) \subseteq seen
           /\ InSession => SessionFiles(session) \subseteq seen \cup Range(queue)

(* It has lost nothing until it wrote onto the rest, and one record then.  *)
OneLost == /\ tail \in {start, Empty}
           /\ tail = start => Lost(Places, done, seen) = {}
           /\ \A r1, r2 \in Lost(Places, done, seen) : r1 = r2

KeptInv ==
  /\ tail = Empty <=> tail.kind = "empty"
  /\ start = Empty <=> start.kind = "empty"
  /\ Running => exit = "none"
  /\ Running /\ skipped = 0 => Reached /\ OneLost
  /\ Resumed
  /\ OnlyTheTornIsLost

-----------------------------------------------------------------------------
(* What the helpers return.                                                *)
LEMMA RangeIs ==
  ASSUME NEW S, NEW s \in Seq(S)
  PROVE  /\ DOMAIN s = 1..Len(s) /\ Len(s) \in Nat
         /\ \A i \in 1..Len(s) : s[i] \in Range(s) /\ s[i] \in S
         /\ \A x \in Range(s) : x \in S /\ \E i \in 1..Len(s) : s[i] = x
BY LenProperties, ElementOfSeq DEF Range

LEMMA FiniteIs ==
  ASSUME NEW n \in Nat, NEW S \in SUBSET (1..n)
  PROVE  IsFiniteSet(S) /\ Cardinality(S) \in Nat
<1>1. IsFiniteSet(1..n)
  BY FS_Interval
<1>2. IsFiniteSet(S)
  BY <1>1, FS_Subset
<1> QED BY <1>2, FS_CardinalityType

LEMMA Enumerable ==
  ASSUME NEW n \in Nat, NEW S \in SUBSET (1..n)
  PROVE  \E t \in [1..Cardinality(S) -> S] : \A i, j \in DOMAIN t : i < j => t[i] < t[j]
<1> DEFINE Listed(T) ==
             \E t \in [1..Cardinality(T) -> T] : \A i, j \in DOMAIN t : i < j => t[i] < t[j]
           Bad == {m \in Nat : \E T \in SUBSET (1..m) : ~Listed(T)}
           Less == OpToRel(<, Nat)
<1> SUFFICES ASSUME Bad # {} PROVE FALSE
  OBVIOUS
<1>1. \A m, k \in Nat : m < k => <<m, k>> \in Less
  BY DEF OpToRel
<1>2. IsWellFoundedOn(Less, Nat)
  BY NatLessThanWellFounded
<1> HIDE DEF Less
<1>3. Bad \subseteq Nat
  OBVIOUS
<1> HIDE DEF Bad
<1>4. PICK m \in Bad : \A k \in Bad : ~(<<k, m>> \in Less)
  BY <1>2, <1>3, WFMin
<1>5. m \in Nat /\ \A k \in Bad : ~(k < m)
  BY <1>1, <1>3, <1>4
<1> HIDE DEF Listed
<1>6. PICK T \in SUBSET (1..m) : ~Listed(T)
  BY <1>4 DEF Bad
<1>7. IsFiniteSet(T) /\ Cardinality(T) \in Nat
  BY <1>5, <1>6, FiniteIs
<1>8. CASE m = 0
  <2>1. T = {}
    BY <1>6, <1>8
  <2>3. Cardinality(T) = 0
    BY <2>1, FS_EmptySet
  <2>2. Listed(T)
    <3>1. [i \in 1..Cardinality(T) |-> i] \in [1..Cardinality(T) -> T]
      BY <2>3
    <3> QED BY <2>3, <3>1 DEF Listed
  <2> QED BY <2>2, <1>6
<1>9. CASE m # 0
  <2>1. m - 1 \in Nat /\ m - 1 < m
    BY <1>5, <1>9
  <2>2. ASSUME NEW U \in SUBSET (1..(m-1)) PROVE Listed(U)
    BY <1>5, <2>1 DEF Bad
  <2>3. CASE m \notin T
    <3>1. T \in SUBSET (1..(m-1))
      BY <1>5, <1>6, <2>3
    <3> QED BY <3>1, <2>2, <1>6
  <2>4. CASE m \in T
    <3> DEFINE U == T \ {m}
               c == Cardinality(U)
    <3>1. U \in SUBSET (1..(m-1))
      BY <1>5, <1>6
    <3>2. c \in Nat /\ Cardinality(T) = c + 1
      <4>1. IsFiniteSet(U) /\ c = Cardinality(T) - 1
        BY <1>7, <2>4, FS_RemoveElement
      <4>2. c \in Nat
        BY <4>1, FS_CardinalityType
      <4> HIDE DEF c
      <4> QED BY <1>7, <4>1, <4>2
    <3>3. PICK t \in [1..c -> U] : \A i, j \in DOMAIN t : i < j => t[i] < t[j]
      BY <3>1, <2>2 DEF Listed
    <3> DEFINE v == [i \in 1..(c + 1) |-> IF i = c + 1 THEN m ELSE t[i]]
    <3> HIDE DEF c
    <3>4. v \in [1..(c + 1) -> T]
      BY <3>2, <3>3, <2>4
    <3>5. ASSUME NEW i \in 1..(c + 1), NEW j \in 1..(c + 1), i < j PROVE v[i] < v[j]
      <4>1. i \in 1..c /\ v[i] = t[i] /\ t[i] \in 1..(m-1)
        BY <3>1, <3>2, <3>3, <3>5, SMTT(30)
      <4>2. CASE j = c + 1
        BY <4>1, <4>2, <1>5
      <4>3. CASE j # c + 1
        <5>1. j \in 1..c /\ v[j] = t[j]
          BY <4>3, <3>2
        <5> QED BY <5>1, <4>1, <3>3, <3>5
      <4> QED BY <4>2, <4>3
    <3>6. Listed(T)
      BY <3>2, <3>4, <3>5 DEF Listed
    <3> QED BY <3>6, <1>6
  <2> QED BY <2>3, <2>4
<1> QED BY <1>8, <1>9

LEMMA InOrderIs ==
  ASSUME NEW n \in Nat, NEW S \in SUBSET (1..n)
  PROVE  /\ Cardinality(S) \in Nat
         /\ InOrder(S) \in [1..Cardinality(S) -> S]
         /\ IsInjective(InOrder(S)) /\ Range(InOrder(S)) = S
<1> DEFINE c == Cardinality(S)
           t == InOrder(S)
<1>1. IsFiniteSet(S) /\ c \in Nat
  BY FiniteIs
<1>2. t \in [1..c -> S] /\ \A i, j \in DOMAIN t : i < j => t[i] < t[j]
  BY Enumerable DEF InOrder
<1> HIDE DEF c, t
<1>3. IsInjective(t)
  <2> SUFFICES ASSUME NEW i \in 1..c, NEW j \in 1..c, t[i] = t[j], i # j PROVE FALSE
    BY <1>2 DEF IsInjective
  <2>1. t[i] \in Nat /\ t[j] \in Nat
    <3>1. t[i] \in S /\ t[j] \in S
      BY <1>2
    <3>2. \A x \in S : x \in Nat
      OBVIOUS
    <3> QED BY <3>1, <3>2
  <2>2. i \in Nat /\ j \in Nat /\ (i < j \/ j < i)
    BY <1>1
  <2>3. ~(t[i] < t[j]) /\ ~(t[j] < t[i])
    BY <2>1
  <2> QED BY <1>2, <2>2, <2>3
<1>4. t \in Injection(1..c, S)
  BY <1>2, <1>3 DEF Injection
<1>5. Cardinality(1..c) = c
  BY <1>1, FS_Interval
<1>6. t \in Surjection(1..c, S)
  BY <1>1, <1>4, <1>5, FS_Injection DEF c
<1>7. Range(t) = S
  BY <1>2, <1>6 DEF Surjection, Range
<1> QED BY <1>1, <1>2, <1>3, <1>7 DEF c, t

LEMMA EntriesAre ==
  ASSUME NEW f \in Files
  PROVE  /\ Entries(f) \in Seq(Item) /\ IsInjective(Entries(f))
         /\ Range(Entries(f)) =
              {Record(f, i) : i \in {k \in DOMAIN Proofs[f] : Proofs[f][k].command \in Plain \cup table}}
<1> DEFINE S == {k \in DOMAIN Proofs[f] : Proofs[f][k].command \in Plain \cup table}
           t == InOrder(S)
           c == Cardinality(S)
<1>1. Proofs[f] \in Seq(Range(Proofs[f]))
  BY CensusAssumption
<1>2. DOMAIN Proofs[f] = 1..Len(Proofs[f]) /\ Len(Proofs[f]) \in Nat
  BY <1>1, LenProperties
<1> HIDE DEF c
<1>3. c \in Nat /\ t \in [1..c -> S] /\ IsInjective(t) /\ Range(t) = S
  BY <1>2, InOrderIs DEF c
<1>4. Entries(f) = [k \in 1..c |-> Record(f, t[k])]
  BY <1>3 DEF Entries
<1> HIDE DEF t
<1>5. \A k \in 1..c : Record(f, t[k]) \in Item /\ t[k] \in S
  BY <1>2, <1>3 DEF Item, Record
<1>6. Entries(f) \in Seq(Item)
  BY <1>3, <1>4, <1>5, IsASeq
<1>7. IsInjective(Entries(f))
  BY <1>3, <1>4 DEF IsInjective, Record
<1>8. Range(Entries(f)) = {Record(f, i) : i \in S}
  BY <1>3, <1>4 DEF Range
<1> QED BY <1>6, <1>7, <1>8

-----------------------------------------------------------------------------
(* The sequences records move through keep each record once.               *)
LEMMA HeadTailIs ==
  ASSUME NEW S, NEW s \in Seq(S), s # <<>>
  PROVE  /\ Head(s) \in S /\ Tail(s) \in Seq(S)
         /\ Range(s) = Range(Tail(s)) \cup {Head(s)}
         /\ IsInjective(s) => IsInjective(Tail(s)) /\ Head(s) \notin Range(Tail(s))
<1>1. /\ Head(s) \in S /\ Tail(s) \in Seq(S)
      /\ Len(Tail(s)) = Len(s) - 1
      /\ \A i \in 1..Len(Tail(s)) : Tail(s)[i] = s[i + 1]
  BY HeadTailProperties
<1>2. DOMAIN s = 1..Len(s) /\ Len(s) \in Nat /\ Len(s) # 0
  BY LenProperties, EmptySeq
<1>3. DOMAIN Tail(s) = 1..(Len(s) - 1)
  BY <1>1, LenProperties
<1>4. Head(s) = s[1]
  BY <1>2
<1> DEFINE t == Tail(s)
           h == Head(s)
           n == Len(s)
<1> HIDE DEF t, h, n
<1>5. /\ DOMAIN s = 1..n /\ n \in Nat \ {0} /\ DOMAIN t = 1..(n - 1) /\ h = s[1]
      /\ \A i \in 1..(n - 1) : t[i] = s[i + 1]
  BY <1>1, <1>2, <1>3, <1>4 DEF t, h, n
<1>6. Range(s) = Range(t) \cup {h}
  <2>1. ASSUME NEW i \in 1..n PROVE s[i] \in Range(t) \cup {h}
    <3>1. CASE i = 1
      BY <3>1, <1>5
    <3>2. CASE i # 1
      <4>1. i - 1 \in 1..(n - 1) /\ (i - 1) + 1 = i
        BY <3>2, <1>5
      <4>2. t[i - 1] = s[i]
        BY <4>1, <1>5
      <4> QED BY <4>1, <4>2, <1>5 DEF Range
    <3> QED BY <3>1, <3>2
  <2>2. ASSUME NEW i \in 1..(n - 1) PROVE t[i] \in Range(s)
    <3>1. i + 1 \in 1..n
      BY <1>5
    <3> QED BY <3>1, <1>5 DEF Range
  <2>3. h \in Range(s)
    <3>1. 1 \in 1..n
      BY <1>5
    <3> QED BY <3>1, <1>5 DEF Range
  <2> QED BY <2>1, <2>2, <2>3, <1>5 DEF Range
<1>7. ASSUME IsInjective(s) PROVE IsInjective(t) /\ h \notin Range(t)
  <2>1. ASSUME NEW i \in 1..(n - 1), NEW j \in 1..(n - 1), t[i] = t[j] PROVE i = j
    <3>1. i + 1 \in 1..n /\ j + 1 \in 1..n /\ s[i + 1] = s[j + 1]
      BY <1>5, <2>1
    <3>2. i + 1 = j + 1
      BY <3>1, <1>5, <1>7 DEF IsInjective
    <3> QED BY <3>2
  <2>2. ASSUME NEW i \in 1..(n - 1), t[i] = h PROVE FALSE
    <3>1. i + 1 \in 1..n /\ 1 \in 1..n /\ s[i + 1] = s[1]
      BY <1>5, <2>2
    <3>2. i + 1 = 1
      BY <3>1, <1>5, <1>7 DEF IsInjective
    <3> QED BY <3>2
  <2> QED BY <2>1, <2>2, <1>5 DEF IsInjective, Range
<1> QED BY <1>1, <1>6, <1>7 DEF t, h

LEMMA ConcatIs ==
  ASSUME NEW S, NEW s \in Seq(S), NEW t \in Seq(S), IsInjective(s), IsInjective(t),
         Range(s) \cap Range(t) = {}
  PROVE  IsInjective(s \o t)
<1> DEFINE u == s \o t
           m == Len(s)
           n == Len(t)
<1>1. /\ DOMAIN s = 1..m /\ m \in Nat /\ DOMAIN t = 1..n /\ n \in Nat
  BY LenProperties
<1>2. /\ u \in Seq(S) /\ Len(u) = m + n
      /\ \A i \in 1..(m + n) : u[i] = IF i <= m THEN s[i] ELSE t[i - m]
  BY ConcatProperties
<1>3. DOMAIN u = 1..(m + n)
  BY <1>2, LenProperties
<1> HIDE DEF u, m, n
<1>4. ASSUME NEW i \in 1..(m + n), NEW j \in 1..(m + n), u[i] = u[j], i <= m PROVE i = j
  <2>1. i \in 1..m /\ u[i] = s[i]
    BY <1>1, <1>2, <1>4
  <2>2. CASE j <= m
    <3>1. j \in 1..m /\ u[j] = s[j]
      BY <1>1, <1>2, <2>2
    <3> QED BY <3>1, <2>1, <1>1, <1>4 DEF IsInjective
  <2>3. CASE ~(j <= m)
    <3>1. j - m \in 1..n /\ u[j] = t[j - m]
      BY <1>1, <1>2, <2>3
    <3> QED BY <3>1, <2>1, <1>1, <1>4 DEF Range
  <2> QED BY <2>2, <2>3
<1>5. ASSUME NEW i \in 1..(m + n), NEW j \in 1..(m + n), u[i] = u[j], ~(i <= m), ~(j <= m)
      PROVE  i = j
  <2>1. i - m \in 1..n /\ u[i] = t[i - m] /\ j - m \in 1..n /\ u[j] = t[j - m]
    BY <1>1, <1>2, <1>5
  <2>2. i - m = j - m
    BY <2>1, <1>1, <1>5 DEF IsInjective
  <2> QED BY <2>2, <1>1
<1>6. ASSUME NEW i \in 1..(m + n), NEW j \in 1..(m + n), u[i] = u[j] PROVE i = j
  BY <1>4, <1>5, <1>6
<1> QED BY <1>3, <1>6 DEF IsInjective, u

LEMMA AppendIs ==
  ASSUME NEW S, NEW s \in Seq(S), NEW x \in S, IsInjective(s), x \notin Range(s)
  PROVE  /\ Append(s, x) \in Seq(S) /\ IsInjective(Append(s, x))
         /\ Range(Append(s, x)) = Range(s) \cup {x}
<1> DEFINE t == <<x>>
<1>1. t \in Seq(S) /\ Range(t) = {x} /\ IsInjective(t)
  BY DEF Range, IsInjective
<1>2. Append(s, x) = s \o t
  BY AppendIsConcat
<1> HIDE DEF t
<1>3. IsInjective(s \o t)
  BY <1>1, ConcatIs
<1>4. Range(s \o t) = Range(s) \cup Range(t)
  BY <1>1, RangeConcatenation
<1>5. Append(s, x) \in Seq(S)
  BY AppendProperties
<1> QED BY <1>1, <1>2, <1>3, <1>4, <1>5

LEMMA PrefixIs ==
  ASSUME NEW S, NEW s \in Seq(S), IsInjective(s), NEW k \in 0..Len(s)
  PROVE  /\ SubSeq(s, 1, k) \in Seq(S) /\ IsInjective(SubSeq(s, 1, k))
         /\ Range(SubSeq(s, 1, k)) \subseteq Range(s)
<1> DEFINE t == SubSeq(s, 1, k)
           n == Len(s)
<1>1. DOMAIN s = 1..n /\ n \in Nat /\ \A i \in 1..n : s[i] \in S
  BY LenProperties, ElementOfSeq
<1>2. k \in Nat /\ k <= n
  BY <1>1
<1>3. \A i \in 1..k : s[i] \in S
  BY <1>1, <1>2
<1>4. /\ t \in Seq(S) /\ Len(t) = (IF 1 <= k THEN k - 1 + 1 ELSE 0)
      /\ \A i \in 1..(k - 1 + 1) : t[i] = s[1 + i - 1]
  BY <1>2, <1>3, SubSeqProperties
<1>5. DOMAIN t = 1..Len(t)
  BY <1>4, LenProperties
<1> HIDE DEF t, n
<1>6. DOMAIN t = 1..k /\ \A i \in 1..k : t[i] = s[i]
  BY <1>2, <1>4, <1>5
<1>7. \A i \in 1..k : i \in 1..n
  BY <1>1, <1>2
<1> QED BY <1>1, <1>4, <1>6, <1>7 DEF t, Range, IsInjective

-----------------------------------------------------------------------------
(* Records that are written out: each becomes its line, but for the first, *)
(* which is garbled if it is appended to a rest.                           *)
LEMMA GarbledIs == Garbled \notin Item
BY CensusAssumption DEF Item

LEMMA WriteIs ==
  ASSUME NEW recs \in Seq(Item)
  PROVE  /\ Write(recs) \in Seq(Line) /\ Len(Write(recs)) = Len(recs)
         /\ \A i \in 1..Len(recs) : Write(recs)[i] \in {recs[i], Garbled}
         /\ \A i \in 1..Len(recs) : tail = Empty \/ i # 1 => Write(recs)[i] = recs[i]
<1> DEFINE n == Len(recs)
<1>1. n \in Nat /\ \A i \in 1..n : recs[i] \in Item
  BY LenProperties, ElementOfSeq
<1>2. Write(recs) = [i \in 1..n |-> IF i = 1 /\ tail # Empty THEN Garbled ELSE recs[i]]
  BY DEF Write
<1> HIDE DEF n
<1>3. \A i \in 1..n : (IF i = 1 /\ tail # Empty THEN Garbled ELSE recs[i]) \in Line
  BY <1>1 DEF Line
<1>4. Write(recs) \in Seq(Line)
  BY <1>1, <1>2, <1>3, IsASeq
<1>5. DOMAIN Write(recs) = 1..n /\ DOMAIN Write(recs) = 1..Len(Write(recs)) /\ Len(Write(recs)) \in Nat
  BY <1>2, <1>4, LenProperties
<1>6. Len(Write(recs)) = n
  BY <1>1, <1>5
<1> QED BY <1>2, <1>4, <1>6 DEF n

LEMMA WrittenIs ==
  ASSUME NEW l \in Seq(Line), NEW recs \in Seq(Item), NoDup(l), IsInjective(recs),
         Range(recs) \cap Range(l) = {}
  PROVE  /\ l \o Write(recs) \in Seq(Line) /\ NoDup(l \o Write(recs))
         /\ Range(l) \subseteq Range(l \o Write(recs))
         /\ Range(l \o Write(recs)) \subseteq Range(l) \cup Range(recs) \cup {Garbled}
         /\ tail = Empty => Range(recs) \subseteq Range(l \o Write(recs))
         /\ \A r1, r2 \in Range(recs) \ Range(l \o Write(recs)) : r1 = r2
<1> DEFINE w == Write(recs)
           u == l \o w
           m == Len(l)
           n == Len(recs)
<1>1. /\ w \in Seq(Line) /\ Len(w) = n
      /\ \A i \in 1..n : w[i] \in {recs[i], Garbled}
      /\ \A i \in 1..n : tail = Empty \/ i # 1 => w[i] = recs[i]
  BY WriteIs
<1> HIDE DEF w
<1>2. /\ DOMAIN l = 1..m /\ m \in Nat /\ DOMAIN recs = 1..n /\ n \in Nat
      /\ DOMAIN w = 1..n
      /\ \A i \in 1..n : recs[i] \in Item
  BY <1>1, LenProperties, ElementOfSeq
<1>3. /\ u \in Seq(Line) /\ Len(u) = m + n
      /\ \A i \in 1..(m + n) : u[i] = IF i <= m THEN l[i] ELSE w[i - m]
  <2>1. /\ l \o w \in Seq(Line) /\ Len(l \o w) = Len(l) + Len(w)
        /\ \A i \in 1..(Len(l) + Len(w)) : (l \o w)[i] = IF i <= Len(l) THEN l[i] ELSE w[i - Len(l)]
    BY ZenonT(30), <1>1, ConcatProperties
  <2> QED BY <2>1, <1>1
<1>4. DOMAIN u = 1..(m + n)
  BY <1>3, LenProperties
<1>5. Range(u) = Range(l) \cup Range(w)
  BY <1>1, RangeConcatenation
<1> HIDE DEF u, m, n
<1>6. NoDup(u)
  <2>1. ASSUME NEW i \in 1..(m + n), NEW j \in 1..(m + n), u[i] # Garbled, u[i] = u[j], i <= m
        PROVE  i = j
    <3>1. i \in 1..m /\ u[i] = l[i]
      BY <1>2, <1>3, <2>1
    <3>2. CASE j <= m
      <4>1. j \in 1..m /\ u[j] = l[j]
        BY SMTT(20), <1>2, <1>3, <3>2
      <4> QED BY <4>1, <3>1, <2>1, <1>2 DEF NoDup
    <3>3. CASE ~(j <= m)
      <4>1. j - m \in 1..n /\ u[j] = w[j - m]
        BY <1>2, <1>3, <3>3
      <4>2. u[j] = recs[j - m]
        BY <4>1, <1>1, <2>1
      <4> QED BY <4>1, <4>2, <3>1, <1>2, <2>1 DEF Range
    <3> QED BY <3>2, <3>3
  <2>2. ASSUME NEW i \in 1..(m + n), NEW j \in 1..(m + n), u[i] # Garbled, u[i] = u[j],
               ~(i <= m), ~(j <= m)
        PROVE  i = j
    <3>1. i - m \in 1..n /\ u[i] = w[i - m] /\ j - m \in 1..n /\ u[j] = w[j - m]
      BY <1>2, <1>3, <2>2
    <3>2. recs[i - m] = recs[j - m]
      BY <3>1, <1>1, <2>2
    <3>3. i - m = j - m
      BY <3>1, <3>2, <1>2 DEF IsInjective
    <3> QED BY <3>3, <1>2
  <2>3. ASSUME NEW i \in 1..(m + n), NEW j \in 1..(m + n), u[i] # Garbled, u[i] = u[j]
        PROVE  i = j
    BY <2>1, <2>2, <2>3
  <2> QED BY <2>3, <1>4 DEF NoDup
<1>7. Range(w) \subseteq Range(recs) \cup {Garbled}
  BY <1>1, <1>2 DEF Range
<1>8. ASSUME NEW i \in 1..n, tail = Empty \/ i # 1 PROVE recs[i] \in Range(w)
  BY <1>1, <1>2, <1>8 DEF Range
<1>9. tail = Empty => Range(recs) \subseteq Range(u)
  BY <1>2, <1>5, <1>8 DEF Range
<1>10. ASSUME NEW r1 \in Range(recs) \ Range(u), NEW r2 \in Range(recs) \ Range(u) PROVE r1 = r2
  <2>1. PICK i \in 1..n : recs[i] = r1
    BY <1>2 DEF Range
  <2>2. PICK j \in 1..n : recs[j] = r2
    BY <1>2 DEF Range
  <2>3. i = 1 /\ j = 1
    BY <2>1, <2>2, <1>5, <1>8
  <2> QED BY <2>1, <2>2, <2>3
<1> QED BY <1>3, <1>5, <1>6, <1>7, <1>9, <1>10 DEF u, w

LEMMA FlushOnce ==
  ASSUME NEW recs \in Seq(Item), IsInjective(recs), Range(recs) \subseteq Range(buffer),
         Types, Once(lines, buffer, proofs, done, seen), Own(lines, buffer, proofs)
  PROVE  /\ lines \o Write(recs) \in Seq(Line)
         /\ Once(lines \o Write(recs), <<>>, proofs, done, seen)
         /\ Own(lines \o Write(recs), <<>>, proofs)
<1> DEFINE u == lines \o Write(recs)
<1>1. /\ u \in Seq(Line) /\ NoDup(u)
      /\ Range(u) \subseteq Range(lines) \cup Range(recs) \cup {Garbled}
  BY WrittenIs DEF Types, Once
<1> HIDE DEF u
<1>2. Garbled \notin Range(proofs)
  BY RangeIs, GarbledIs DEF Types
<1>3. Range(<<>>) = {} /\ IsInjective(<<>>)
  BY DEF Range, IsInjective
<1>4. Once(u, <<>>, proofs, done, seen)
  BY <1>1, <1>2, <1>3 DEF Once
<1>5. Own(u, <<>>, proofs)
  BY <1>1, <1>3 DEF Own
<1> QED BY <1>1, <1>4, <1>5 DEF u

-----------------------------------------------------------------------------
LEMMA SessionsAre ==
  /\ Len(Sessions) \in Nat /\ DOMAIN Sessions = 1..Len(Sessions)
  /\ \A s \in DOMAIN Sessions : /\ Sessions[s] \in Seq(Files)
                                /\ SessionFiles(s) = Range(Sessions[s])
                                /\ SessionFiles(s) \subseteq Files
<1>1. Len(Sessions) \in Nat /\ DOMAIN Sessions = 1..Len(Sessions)
  BY CensusAssumption, LenProperties
<1>2. ASSUME NEW s \in DOMAIN Sessions
      PROVE  /\ Sessions[s] \in Seq(Files)
             /\ SessionFiles(s) = Range(Sessions[s])
             /\ SessionFiles(s) \subseteq Files
  <2>1. Sessions[s] \in Seq(Files)
    BY <1>1, CensusAssumption, ElementOfSeq
  <2>2. SessionFiles(s) = Range(Sessions[s])
    BY DEF SessionFiles, Range
  <2> QED BY <2>1, <2>2, RangeIs
<1> QED BY <1>1, <1>2

(* Nothing is on its way when a run begins or ends.                        *)
LEMMA EmptyIs == Range(<<>>) = {} /\ IsInjective(<<>>) /\ \A S : <<>> \in Seq(S)
BY EmptySeq DEF Range, IsInjective

LEMMA InitOk == Init => IInv
<1> SUFFICES ASSUME Init PROVE IInv
  OBVIOUS
<1>1. Types
  BY SessionsAre, EmptyIs DEF Init, Types
<1>2. AtSession
  BY DEF Init, AtSession, InSession
<1>3. Once(lines, buffer, proofs, done, seen) /\ Own(lines, buffer, proofs)
  <2>1. lines = <<>> /\ buffer = <<>> /\ proofs = <<>>
    BY DEF Init
  <2>2. NoDup(<<>>)
    BY DEF NoDup
  <2> QED BY <2>1, <2>2, EmptyIs DEF Once, Own
<1> QED BY <1>1, <1>2, <1>3 DEF IInv

LEMMA StartOk == ASSUME IInv, Start PROVE IInv'
<1>1. /\ lines' = lines /\ buffer' = <<>> /\ proofs' = <<>> /\ queue' = <<>>
      /\ done' = LoadDone /\ seen' = {} /\ session' = 0 /\ phase' = "group"
      /\ loaded' = 0 /\ skipped' = 0
  BY DEF Start, output
<1>2. Types'
  BY <1>1, SessionsAre, EmptyIs DEF IInv, Types
<1>3. AtSession'
  BY <1>1 DEF AtSession, InSession
<1>4. \A r \in Range(lines) \ {Garbled} : Key(r) \in LoadDone
  BY DEF LoadDone, Range
<1>5. Once(lines, <<>>, <<>>, LoadDone, {})
  BY <1>4, EmptyIs DEF IInv, Once
<1>6. Own(lines, <<>>, <<>>)
  BY EmptyIs DEF IInv, Own
<1> QED BY <1>1, <1>2, <1>3, <1>5, <1>6 DEF IInv

LEMMA LoadOk == ASSUME IInv, Load PROVE IInv'
<1>1. /\ UNCHANGED <<lines, buffer, proofs, done, seen, loaded, skipped>>
      /\ phase = "group" /\ phase' = "load" /\ session < Len(Sessions) /\ session' = session + 1
      /\ table' = Table(session + 1) /\ queue' = Sessions[session + 1]
  BY DEF Load, output, world
<1>2. session + 1 \in DOMAIN Sessions
  BY <1>1, SessionsAre DEF IInv, Types
<1>3. Types'
  BY <1>1, <1>2, SessionsAre DEF IInv, Types
<1>4. proofs = <<>>
  BY <1>1 DEF IInv, AtSession
<1>5. AtSession'
  BY <1>1, <1>2, <1>4, SessionsAre, EmptyIs DEF AtSession, InSession
<1> QED BY <1>1, <1>3, <1>5 DEF IInv

(* A session that failed leaves what it wrote, and nothing to be measured. *)
LEMMA SkipOk ==
  ASSUME IInv, Skip, UNCHANGED <<lines, buffer, done, session, loaded>>,
         seen \subseteq seen', seen' \subseteq Files
  PROVE  IInv'
<1>1. skipped' = skipped + 1 /\ queue' = <<>> /\ proofs' = <<>> /\ phase' = "group"
  BY DEF Skip
<1>2. Types'
  BY <1>1, EmptyIs DEF IInv, Types
<1>3. AtSession'
  BY <1>1 DEF AtSession, InSession
<1>4. Once(lines, buffer, <<>>, done, seen')
  BY EmptyIs DEF IInv, Once
<1>5. Own(lines, buffer, <<>>)
  BY EmptyIs DEF IInv, Own
<1> QED BY <1>1, <1>2, <1>3, <1>4, <1>5 DEF IInv

LEMMA MeasurableIs ==
  ASSUME IInv, InSession, NEW f \in SessionFiles(session)
  PROVE  /\ Entries(f) \in Seq(Item) /\ IsInjective(Entries(f))
         /\ Range(Entries(f)) = Measurable(f, session)
         /\ \A r \in Range(Entries(f)) : r.file = f
<1>1. table = Table(session) /\ f \in Files
  BY SessionsAre DEF IInv, AtSession
<1>2. Commands(session) = Plain \cup table
  BY <1>1 DEF Commands, Table
<1>3. Range(Entries(f)) = Measurable(f, session)
  BY <1>1, <1>2, EntriesAre DEF Measurable
<1>4. \A r \in Measurable(f, session) : r.file = f
  BY DEF Measurable, Record
<1> QED BY <1>1, <1>3, <1>4, EntriesAre

LEMMA AddSectionOk == ASSUME IInv, AddSection PROVE IInv'
<1> DEFINE f == Head(queue)
<1>1. /\ UNCHANGED <<lines, buffer, done, session, loaded, table>>
      /\ phase = "load" /\ queue # <<>> /\ seen' = seen \cup {f}
  BY DEF AddSection, output, world, Seen
<1>2. f \in Files /\ Tail(queue) \in Seq(Files) /\ Range(queue) = Range(Tail(queue)) \cup {f}
  BY <1>1, HeadTailIs DEF IInv, Types
<1>3. InSession /\ f \in SessionFiles(session)
  BY <1>1, <1>2 DEF InSession, IInv, AtSession
<1>4. CASE f \in unparsed \ seen
  <2>1. Skip
    BY <1>4 DEF AddSection, Seen
  <2>2. seen \subseteq seen' /\ seen' \subseteq Files
    BY <1>1, <1>2 DEF IInv, Types
  <2> QED BY <1>1, <2>1, <2>2, SkipOk
<1>5. CASE f \notin unparsed \ seen
  <2>1. /\ queue' = Tail(queue) /\ UNCHANGED <<skipped, phase>>
        /\ proofs' = IF f \in seen THEN proofs ELSE proofs \o Entries(f)
    BY <1>5 DEF AddSection, Seen
  <2>2. /\ proofs' \in Seq(Item)
        /\ \A r \in Range(proofs') : r.file \in SessionFiles(session)
        /\ Once(lines, buffer, proofs', done, seen') /\ Own(lines, buffer, proofs')
    <3>1. CASE f \in seen
      <4>1. proofs' = proofs /\ seen' = seen
        BY <1>1, <2>1, <3>1
      <4> QED BY <4>1, <1>3 DEF IInv, Types, AtSession
    <3>2. CASE f \notin seen
      <4> DEFINE e == Entries(f)
                 p == proofs \o e
      <4>1. /\ e \in Seq(Item) /\ IsInjective(e)
            /\ Range(e) = Measurable(f, session) /\ \A r \in Range(e) : r.file = f
        BY <1>3, MeasurableIs
      <4> HIDE DEF e
      <4>2. proofs \in Seq(Item) /\ IsInjective(proofs)
        BY DEF IInv, Types, Once
      <4>3. \A r \in Range(buffer) \cup Range(proofs) : r.file \in seen
        BY DEF IInv, Once
      <4>4. Range(proofs) \cap Range(e) = {} /\ Range(buffer) \cap Range(e) = {}
        BY <3>2, <4>1, <4>3
      <4>5. p \in Seq(Item)
        BY <4>1, <4>2, ConcatProperties
      <4>6. IsInjective(p)
        BY <4>1, <4>2, <4>4, ConcatIs
      <4>7. Range(p) = Range(proofs) \cup Range(e)
        BY <4>1, <4>2, RangeConcatenation
      <4>8. proofs' = p
        BY <2>1, <3>2 DEF e
      <4> HIDE DEF p
      <4>9. \A r \in Range(e) : r # Garbled
        BY <4>1, RangeIs, GarbledIs
      <4>10. Once(lines, buffer, p, done, seen')
        BY <1>1, <3>2, <4>1, <4>4, <4>6, <4>7, <4>9 DEF IInv, Once
      <4>11. Range(e) \subseteq Mine
        BY <1>3, <4>1 DEF Mine, IInv, AtSession
      <4>12. Own(lines, buffer, p)
        BY <4>7, <4>11 DEF IInv, Own
      <4>13. \A r \in Range(p) : r.file \in SessionFiles(session)
        BY <1>3, <4>1, <4>7 DEF IInv, AtSession
      <4> QED BY <4>5, <4>8, <4>10, <4>12, <4>13
    <3> QED BY <3>1, <3>2
  <2>3. Types'
    BY <1>1, <1>2, <2>1, <2>2 DEF IInv, Types
  <2>4. AtSession'
    BY <1>1, <1>2, <1>3, <2>1, <2>2 DEF IInv, AtSession, InSession
  <2> QED BY <1>1, <2>2, <2>3, <2>4 DEF IInv
<1> QED BY <1>4, <1>5

LEMMA LoadedOk == ASSUME IInv, Loaded PROVE IInv'
<1>1. /\ UNCHANGED <<lines, buffer, proofs, done, seen, loaded, skipped, session, table, queue>>
      /\ phase = "load" /\ queue = <<>> /\ phase' = "measure"
  BY DEF Loaded, output, world
<1>2. Types'
  BY <1>1 DEF IInv, Types
<1>3. AtSession'
  BY <1>1 DEF IInv, AtSession, InSession
<1> QED BY <1>1, <1>2, <1>3 DEF IInv

(* A pipe that broke takes what was buffered with it.                      *)
LEMMA LoseBuffer ==
  ASSUME Once(lines, buffer, proofs, done, seen), Own(lines, buffer, proofs)
  PROVE  Once(lines, <<>>, proofs, done, seen) /\ Own(lines, <<>>, proofs)
BY EmptyIs DEF Once, Own

LEMMA BrokenPipeOk ==
  ASSUME IInv, BrokenPipe, UNCHANGED <<lines, done, session, loaded, seen>>
  PROVE  IInv'
<1>1. phase' = "ended" /\ buffer' = <<>> /\ UNCHANGED <<queue, proofs, skipped>>
  BY DEF BrokenPipe
<1>2. Types'
  BY <1>1, EmptyIs DEF IInv, Types
<1>3. AtSession'
  BY <1>1 DEF AtSession, InSession
<1>4. Once(lines, <<>>, proofs, done, seen) /\ Own(lines, <<>>, proofs)
  BY LoseBuffer DEF IInv
<1> QED BY <1>1, <1>2, <1>3, <1>4 DEF IInv

LEMMA MeasureOk == ASSUME IInv, Measure PROVE IInv'
<1> DEFINE r == Head(proofs)
           p == Tail(proofs)
<1>1. /\ UNCHANGED <<lines, done, session, loaded, seen, table>>
      /\ phase = "measure" /\ proofs # <<>>
  BY DEF Measure, output, world
<1>2. /\ r \in Item /\ p \in Seq(Item) /\ Range(proofs) = Range(p) \cup {r}
      /\ IsInjective(p) /\ r \notin Range(p)
  BY <1>1, HeadTailIs DEF IInv, Types, Once
<1>3. CASE Skip /\ UNCHANGED <<buffer, exit>>
  BY <1>1, <1>3, SkipOk DEF IInv, Types
<1>4. CASE BrokenPipe
  BY <1>1, <1>4, BrokenPipeOk
<1>5. CASE /\ proofs' = p /\ UNCHANGED <<queue, skipped, phase>>
           /\ buffer' = IF Key(r) \in done THEN buffer ELSE Append(buffer, r)
  <2>1. Once(lines, buffer, p, done, seen) /\ Own(lines, buffer, p) /\ r.file \in seen
    BY <1>2 DEF IInv, Once, Own
  <2>2. /\ buffer' \in Seq(Item)
        /\ Once(lines, buffer', p, done, seen) /\ Own(lines, buffer', p)
    <3>1. CASE Key(r) \in done
      BY <1>5, <2>1, <3>1 DEF IInv, Types
    <3>2. CASE Key(r) \notin done
      <4> DEFINE b == Append(buffer, r)
      <4>1. r \notin Range(lines) /\ r \notin Range(buffer) /\ r \in Mine
        BY <1>2, <3>2 DEF IInv, Once, Own
      <4>2. b \in Seq(Item) /\ IsInjective(b) /\ Range(b) = Range(buffer) \cup {r}
        BY <1>2, <4>1, AppendIs DEF IInv, Types, Once
      <4>3. buffer' = b
        BY <1>5, <3>2
      <4> HIDE DEF b
      <4>4. Once(lines, b, p, done, seen)
        BY <1>2, <2>1, <4>1, <4>2 DEF Once
      <4>5. Own(lines, b, p)
        BY <2>1, <4>1, <4>2 DEF Own
      <4> QED BY <4>2, <4>3, <4>4, <4>5
    <3> QED BY <3>1, <3>2
  <2>3. Types'
    BY <1>1, <1>2, <1>5, <2>2 DEF IInv, Types
  <2>4. AtSession'
    BY <1>1, <1>2, <1>5 DEF IInv, AtSession, InSession
  <2> QED BY <1>1, <1>5, <2>2, <2>3, <2>4 DEF IInv
<1> QED BY <1>3, <1>4, <1>5 DEF Measure

(* A part of the buffer is written out, or all of it.                      *)
LEMMA FlushOk ==
  ASSUME IInv, UNCHANGED <<proofs, queue, done, seen, skipped, session>>,
         NEW recs \in Seq(Item), IsInjective(recs), Range(recs) \subseteq Range(buffer),
         lines' = lines \o Write(recs), buffer' = <<>>, loaded' \in Nat,
         phase' \in {"group", "ended"}, phase' = "group" => proofs = <<>>
  PROVE  IInv'
<1> DEFINE u == lines \o Write(recs)
<1>1. u \in Seq(Line) /\ Once(u, <<>>, proofs, done, seen) /\ Own(u, <<>>, proofs)
  BY FlushOnce DEF IInv
<1>2. lines' = u
  OBVIOUS
<1> HIDE DEF u
<1>3. Types'
  BY <1>1, <1>2, EmptyIs DEF IInv, Types
<1>4. AtSession'
  BY DEF AtSession, InSession
<1> QED BY <1>1, <1>2, <1>3, <1>4 DEF IInv

LEMMA EndSessionOk == ASSUME IInv, EndSession PROVE IInv'
<1>1. /\ UNCHANGED <<done, session, seen>>
      /\ phase = "measure" /\ proofs = <<>>
  BY DEF EndSession, world
<1>2. CASE ~reader /\ buffer # <<>>
  BY <1>1, <1>2, BrokenPipeOk DEF EndSession, output
<1>3. CASE ~(~reader /\ buffer # <<>>)
  <2>1. /\ lines' = lines \o Write(buffer) /\ buffer' = <<>> /\ loaded' = loaded + 1
        /\ phase' = "group" /\ UNCHANGED <<queue, proofs, skipped>>
    BY <1>3 DEF EndSession, Flush
  <2>2. buffer \in Seq(Item) /\ IsInjective(buffer) /\ loaded' \in Nat
    BY <2>1 DEF IInv, Types, Once
  <2> QED BY <1>1, <2>1, <2>2, FlushOk
<1> QED BY <1>2, <1>3

LEMMA ExitOk == ASSUME IInv, Exit PROVE IInv'
<1>1. /\ UNCHANGED <<done, session, seen, queue, proofs, loaded, skipped>>
      /\ phase' = "ended" /\ buffer' = <<>>
  BY DEF Exit, world
<1>2. CASE exit' = "lost"
  <2>1. lines' = lines
    BY <1>2 DEF Exit, output
  <2>2. Types'
    BY <1>1, <2>1, EmptyIs DEF IInv, Types
  <2>3. AtSession'
    BY <1>1 DEF AtSession, InSession
  <2>4. Once(lines, <<>>, proofs, done, seen) /\ Own(lines, <<>>, proofs)
    BY LoseBuffer DEF IInv
  <2> QED BY <1>1, <2>1, <2>2, <2>3, <2>4 DEF IInv
<1>3. CASE exit' # "lost"
  <2>1. lines' = lines \o Write(buffer)
    BY <1>3 DEF Exit, Flush
  <2>2. buffer \in Seq(Item) /\ IsInjective(buffer) /\ loaded' \in Nat
    BY <1>1 DEF IInv, Types, Once
  <2> QED BY <1>1, <2>1, <2>2, FlushOk
<1> QED BY <1>2, <1>3

LEMMA KillOk == ASSUME IInv, Kill PROVE IInv'
<1>1. /\ UNCHANGED <<done, session, seen, queue, proofs, loaded, skipped>>
      /\ phase' = "ended" /\ buffer' = <<>>
  BY DEF Kill, world
<1>2. PICK k \in 0..Len(buffer) : Cut(k)
  BY DEF Kill
<1>3. lines' = lines \o Write(SubSeq(buffer, 1, k))
  BY <1>2 DEF Cut
<1>4. buffer \in Seq(Item) /\ IsInjective(buffer) /\ loaded' \in Nat
  BY <1>1 DEF IInv, Types, Once
<1> DEFINE recs == SubSeq(buffer, 1, k)
<1>5. recs \in Seq(Item) /\ IsInjective(recs) /\ Range(recs) \subseteq Range(buffer)
  BY <1>4, PrefixIs
<1> HIDE DEF recs
<1>6. lines' = lines \o Write(recs)
  BY <1>3 DEF recs
<1> QED BY <1>1, <1>4, <1>5, <1>6, FlushOk

LEMMA StepOk == ASSUME IInv, [Next]_vars PROVE IInv'
<1>1. CASE UNCHANGED vars
  BY <1>1 DEF vars, output, world, IInv, Types, AtSession, InSession
<1>2. CASE CloseReader
  BY <1>2 DEF CloseReader, output, world, IInv, Types, AtSession, InSession
<1> QED BY <1>1, <1>2, StartOk, LoadOk, AddSectionOk, LoadedOk, MeasureOk, EndSessionOk, ExitOk, KillOk
        DEF Next, Census

(* Whatever is killed, resumed, skipped or cut off, every record is in at  *)
(* most one place, and belongs to a session of its file.                   *)
THEOREM Inductive == Spec => []IInv
<1>1. IInv /\ [Next]_vars => IInv'
  BY StepOk
<1> QED BY InitOk, <1>1, PTL DEF Spec

(* The output file has no proof twice and no proof of a foreign command.   *)
THEOREM EveryProofOnce == Spec => []MeasuredOnce
<1>1. IInv => MeasuredOnce
  BY DEF IInv, Once, NoDup, Own, Mine, MeasuredOnce, NoDuplicate, OwnCommandsOnly, InFile, Range
<1> QED BY <1>1, Inductive, PTL

-----------------------------------------------------------------------------
(* Failures that are counted.                                              *)
LEMMA FailingIs ==
  ASSUME NEW n \in Nat, NEW bad
  PROVE  /\ IsFiniteSet(Failing(n, bad)) /\ Cardinality(Failing(n, bad)) \in Nat
         /\ \A m \in 0..n : Cardinality(Failing(m, bad)) <= Cardinality(Failing(n, bad))
<1>1. Failing(n, bad) \in SUBSET (1..n)
  BY DEF Failing
<1>2. IsFiniteSet(Failing(n, bad)) /\ Cardinality(Failing(n, bad)) \in Nat
  BY <1>1, FiniteIs
<1>3. ASSUME NEW m \in 0..n
      PROVE  Cardinality(Failing(m, bad)) <= Cardinality(Failing(n, bad))
  <2>1. Failing(m, bad) \in SUBSET Failing(n, bad)
    BY DEF Failing
  <2> QED BY <1>2, <2>1, FS_Subset
<1> QED BY <1>2, <1>3

LEMMA FailingGrows ==
  ASSUME NEW n \in Nat, NEW bad, SessionFiles(n + 1) \cap bad # {}
  PROVE  /\ Cardinality(Failing(n + 1, bad)) = Cardinality(Failing(n, bad)) + 1
         /\ Failing(n, bad) = 1..n => Failing(n + 1, bad) = 1..(n + 1)
<1>1. Failing(n + 1, bad) = Failing(n, bad) \cup {n + 1} /\ n + 1 \notin Failing(n, bad)
  BY DEF Failing
<1>2. IsFiniteSet(Failing(n, bad))
  BY FailingIs
<1>3. Cardinality(Failing(n, bad) \cup {n + 1}) = Cardinality(Failing(n, bad)) + 1
  BY <1>1, <1>2, FS_AddElement
<1>4. 1..(n + 1) = 1..n \cup {n + 1}
  OBVIOUS
<1> QED BY <1>1, <1>3, <1>4

LEMMA PastIs ==
  ASSUME IInv
  PROVE  /\ Past \in Nat /\ session \in Nat /\ Past <= session /\ session <= Len(Sessions)
         /\ Past \in 0..Len(Sessions)
         /\ InSession => session = Past + 1
BY SessionsAre DEF IInv, Types, AtSession, Past

LEMMA ToldSkip ==
  ASSUME IInv, Told, Skip, InSession, UNCHANGED <<unparsed, unmeasured, session, loaded, exit>>,
         SessionFiles(session) \cap Unread # {}
  PROVE  Told'
<1>1. skipped' = skipped + 1 /\ phase' = "group" /\ skipped \in Nat
  BY DEF Skip, IInv, Types
<1>2. Past' = session /\ Unread' = Unread /\ session = Past + 1 /\ Past \in Nat
  BY <1>1, PastIs DEF Past, InSession, Unread
<1>3. /\ Cardinality(Failing(session, Unread)) = Cardinality(Failing(Past, Unread)) + 1
      /\ Failing(Past, Unread) = 1..Past => Failing(session, Unread) = 1..session
  BY <1>2, FailingGrows
<1>4. Running
  BY DEF Running, InSession
<1>5. Cardinality(Failing(Past, Unread)) \in Nat
  BY <1>2, FailingIs
<1> DEFINE c == Cardinality(Failing(Past, Unread))
           d == Cardinality(Failing(session, Unread))
<1>6. skipped <= c /\ c \in Nat /\ d = c + 1
  BY <1>3, <1>5 DEF Told
<1> HIDE DEF c, d
<1>7. skipped' <= d
  BY <1>1, <1>6
<1> USE DEF d
<1> QED BY <1>2, <1>3, <1>4, <1>7 DEF Told

LEMMA SkippedAreFew ==
  ASSUME IInv, Told
  PROVE  skipped <= Cardinality(Failing(session, Unread))
<1> DEFINE c == Cardinality(Failing(Past, Unread))
           d == Cardinality(Failing(session, Unread))
<1>1. Past \in 0..session /\ session \in Nat /\ Past \in Nat
  BY PastIs
<1>2. c <= d /\ d \in Nat
  BY <1>1, FailingIs
<1>3. c \in Nat
  BY <1>1, FailingIs
<1>4. skipped \in Nat /\ skipped <= c
  BY DEF IInv, Types, Told
<1> HIDE DEF c, d
<1>5. skipped <= d
  BY <1>2, <1>3, <1>4
<1> QED BY <1>5 DEF d

(* A session that is read, or a run that ends in the middle of one.        *)
LEMMA ToldOn ==
  ASSUME IInv, Told, UNCHANGED <<unparsed, unmeasured, session, skipped>>,
         phase' \in {"group", "ended"}, Running' => loaded' # 0,
         exit' = "bad root" => Failing(Len(Sessions), Unread) = 1..Len(Sessions)
  PROVE  Told'
<1>1. Past' = session /\ Unread' = Unread
  BY DEF Past, InSession, Unread
<1> QED BY <1>1, SkippedAreFew DEF Told

LEMMA ToldSame ==
  ASSUME IInv, Told, UNCHANGED <<unparsed, unmeasured, skipped, loaded, exit>>,
         Past' = Past, Running' => Running
  PROVE  Told'
<1>1. Unread' = Unread
  BY DEF Unread
<1> QED BY <1>1 DEF Told

LEMMA ToldStep == ASSUME IInv, Told, [Next]_vars PROVE Told'
<1>1. CASE UNCHANGED vars \/ CloseReader \/ Loaded \/ Load
  <2>1. UNCHANGED <<unparsed, unmeasured, skipped, loaded, exit>>
    BY <1>1 DEF vars, world, CloseReader, Loaded, Load
  <2>2. Past' = Past /\ Running' = Running
    BY <1>1, PastIs DEF vars, CloseReader, Loaded, Load, Past, InSession, Running
  <2> QED BY <2>1, <2>2, ToldSame
<1>2. CASE Start
  <2>1. skipped' = 0 /\ exit' = "none" /\ session' = 0 /\ phase' = "group"
    BY <1>2 DEF Start
  <2>2. Past' = 0
    BY <2>1 DEF Past, InSession
  <2>3. Cardinality(Failing(0, Unread')) \in Nat /\ Failing(0, Unread') = 1..0
    BY FailingIs DEF Failing
  <2>4. skipped' <= Cardinality(Failing(Past', Unread'))
    BY <2>1, <2>2, <2>3
  <2> QED BY <2>1, <2>2, <2>3, <2>4 DEF Told
<1>3. CASE AddSection
  <2> DEFINE f == Head(queue)
  <2>1. /\ UNCHANGED <<unparsed, unmeasured, session, loaded, exit>>
        /\ phase = "load" /\ queue # <<>>
    BY <1>3 DEF AddSection, world
  <2>2. f \in Range(queue)
    BY <2>1, HeadTailIs DEF IInv, Types
  <2>3. InSession /\ f \in SessionFiles(session)
    BY <2>1, <2>2 DEF InSession, IInv, AtSession
  <2>4. CASE f \in unparsed \ seen
    <3>1. Skip
      BY <1>3, <2>4 DEF AddSection, Seen
    <3>2. SessionFiles(session) \cap Unread # {}
      BY <2>3, <2>4 DEF Unread
    <3> QED BY <2>1, <2>3, <3>1, <3>2, ToldSkip
  <2>5. CASE f \notin unparsed \ seen
    <3>1. UNCHANGED <<skipped, phase>>
      BY <1>3, <2>5 DEF AddSection, Seen
    <3>2. Past' = Past /\ Running' = Running
      BY <2>1, <3>1 DEF Past, InSession, Running
    <3> QED BY <2>1, <3>1, <3>2, ToldSame
  <2> QED BY <2>4, <2>5
<1>4. CASE Measure
  <2> DEFINE r == Head(proofs)
  <2>1. /\ UNCHANGED <<unparsed, unmeasured, session, loaded>>
        /\ phase = "measure" /\ proofs # <<>>
    BY <1>4 DEF Measure, world
  <2>2. r \in Range(proofs)
    BY <2>1, HeadTailIs DEF IInv, Types
  <2>3. InSession /\ r.file \in SessionFiles(session)
    BY <2>1, <2>2 DEF InSession, IInv, AtSession
  <2>4. CASE r.file \in unmeasured /\ Skip /\ UNCHANGED <<buffer, exit>>
    <3>1. SessionFiles(session) \cap Unread # {}
      BY <2>3, <2>4 DEF Unread
    <3> QED BY <2>1, <2>3, <2>4, <3>1, ToldSkip
  <2>5. CASE UNCHANGED <<skipped, phase, exit>>
    <3>1. Past' = Past /\ Running' = Running
      BY <2>1, <2>5 DEF Past, InSession, Running
    <3> QED BY <2>1, <2>5, <3>1, ToldSame
  <2>6. CASE BrokenPipe
    <3>1. phase' = "ended" /\ exit' = "sigpipe" /\ skipped' = skipped
      BY <2>6 DEF BrokenPipe
    <3> QED BY <2>1, <3>1, ToldOn DEF Running
  <2> QED BY <1>4, <2>4, <2>5, <2>6 DEF Measure
<1>5. CASE EndSession
  <2>1. UNCHANGED <<unparsed, unmeasured, session>>
    BY <1>5 DEF EndSession, world
  <2>2. CASE BrokenPipe
    <3>1. phase' = "ended" /\ exit' = "sigpipe" /\ skipped' = skipped
      BY <2>2 DEF BrokenPipe
    <3> QED BY <2>1, <3>1, ToldOn DEF Running
  <2>3. CASE loaded' = loaded + 1 /\ phase' = "group" /\ UNCHANGED <<skipped, exit>>
    <3>1. loaded' # 0
      BY <2>3 DEF IInv, Types
    <3> QED BY <2>1, <2>3, <3>1, ToldOn DEF Told
  <2> QED BY <1>5, <2>2, <2>3 DEF EndSession
<1>6. CASE Exit
  <2>1. /\ UNCHANGED <<unparsed, unmeasured, session, skipped, loaded>>
        /\ phase = "group" /\ phase' = "ended" /\ session = Len(Sessions)
        /\ exit' = "bad root" => loaded = 0
    BY <1>6 DEF Exit, world
  <2>2. Past = session /\ Running
    BY <2>1 DEF Past, InSession, Running
  <2>3. exit' = "bad root" => Failing(Len(Sessions), Unread) = 1..Len(Sessions)
    BY <2>1, <2>2 DEF Told
  <2> QED BY <2>1, <2>3, ToldOn DEF Running
<1>7. CASE Kill
  <2>1. /\ UNCHANGED <<unparsed, unmeasured, session, skipped>>
        /\ phase' = "ended" /\ exit' = "killed"
    BY <1>7 DEF Kill, world
  <2> QED BY <2>1, ToldOn DEF Running
<1> QED BY <1>1, <1>2, <1>3, <1>4, <1>5, <1>6, <1>7 DEF Next, Census

LEMMA ToldInit == Init => Told
<1> SUFFICES ASSUME Init PROVE Told
  OBVIOUS
<1>1. Past = 0 /\ skipped = 0 /\ exit = "none"
  BY DEF Init, Past, InSession
<1>2. Cardinality(Failing(0, Unread)) \in Nat /\ Failing(0, Unread) = 1..0
  BY FailingIs DEF Failing
<1> QED BY <1>1, <1>2 DEF Told

LEMMA ToldImplies == ASSUME IInv, Told PROVE SkipsAreFailures
<1> DEFINE n == Len(Sessions)
<1>1. n \in Nat /\ Past \in 0..n /\ skipped \in Nat
  BY SessionsAre, PastIs DEF IInv, Types
<1>2. Failing(n, Unread) = {s \in DOMAIN Sessions : SessionFiles(s) \cap (unparsed \cup unmeasured) # {}}
  BY SessionsAre DEF Failing, Unread
<1>3. /\ Cardinality(Failing(Past, Unread)) <= Cardinality(Failing(n, Unread))
      /\ Cardinality(Failing(Past, Unread)) \in Nat /\ Cardinality(Failing(n, Unread)) \in Nat
  BY <1>1, FailingIs
<1> DEFINE c == Cardinality(Failing(Past, Unread))
           d == Cardinality(Failing(n, Unread))
<1>6. c <= d /\ c \in Nat /\ d \in Nat /\ skipped <= c
  BY <1>3 DEF Told
<1> HIDE DEF c, d
<1>7. skipped <= d
  BY <1>1, <1>6
<1> USE DEF d
<1>4. skipped <= Cardinality(Failing(n, Unread))
  BY <1>7
<1>5. exit = "bad root" => \A s \in DOMAIN Sessions :
                            SessionFiles(s) \cap (unparsed \cup unmeasured) # {}
  <2>1. DOMAIN Sessions = 1..n
    BY SessionsAre
  <2> QED BY <1>2, <2>1 DEF Told
<1> QED BY <1>2, <1>4, <1>5 DEF SkipsAreFailures

-----------------------------------------------------------------------------
(* What is lost.                                                           *)
LEMMA OwnerIs ==
  ASSUME NEW n \in DOMAIN Sessions, NEW f \in SessionFiles(n),
         \A s \in 1..(n - 1) : f \notin SessionFiles(s)
  PROVE  Owner(f) = n
<1> DEFINE S == {s \in DOMAIN Sessions : f \in SessionFiles(s)}
<1>1. n \in S /\ \A s \in S : n <= s
  BY SessionsAre
<1>2. S \subseteq Nat
  BY SessionsAre
<1> HIDE DEF S
<1>3. \A x \in S : (\A y \in S : x <= y) => x = n
  BY <1>1, <1>2
<1>4. Min(S) = n
  BY <1>1, <1>3 DEF Min
<1> QED BY <1>4 DEF Owner, S

LEMMA FewerLost ==
  ASSUME NEW p1, NEW p2, NEW keys, NEW added, p1 \subseteq p2
  PROVE  Lost(p2, keys, added) \subseteq Lost(p1, keys, added)
BY DEF Lost

(* A step that leaves what the run has added where it is.                  *)
LEMMA KeptSame ==
  ASSUME IInv, KeptInv, UNCHANGED <<lines, tail, done, start, seen, skipped, exit>>,
         Running, Reached', Places \subseteq Places'
  PROVE  KeptInv'
<1>1. exit = "none"
  BY DEF KeptInv
<1>2. OnlyTheTornIsLost'
  BY <1>1 DEF OnlyTheTornIsLost
<1>3. Resumed'
  BY DEF KeptInv, Resumed
<1>4. ASSUME skipped = 0 PROVE OneLost'
  <2>1. OneLost
    BY <1>4 DEF KeptInv
  <2>2. Lost(Places', done, seen) \subseteq Lost(Places, done, seen)
    BY FewerLost
  <2> QED BY <2>1, <2>2 DEF OneLost
<1> QED BY <1>1, <1>2, <1>3, <1>4 DEF KeptInv

(* A step that skips a session, or ends the run before its end.            *)
LEMMA KeptElse ==
  ASSUME IInv, KeptInv, UNCHANGED <<done, start>>,
         Range(lines) \subseteq Range(lines'), tail' = Empty <=> tail'.kind = "empty",
         exit' # "ok", Running' => exit' = "none" /\ skipped' # 0
  PROVE  KeptInv'
<1>1. OnlyTheTornIsLost'
  BY DEF OnlyTheTornIsLost
<1>2. Resumed'
  BY DEF KeptInv, Resumed
<1> QED BY <1>1, <1>2 DEF KeptInv

LEMMA KeptSkip ==
  ASSUME IInv, KeptInv, Skip, InSession, UNCHANGED <<lines, tail, done, start, exit>>
  PROVE  KeptInv'
<1>1. skipped' # 0
  BY DEF Skip, IInv, Types
<1>2. exit' = "none"
  BY DEF KeptInv, Running, InSession
<1> QED BY <1>1, <1>2, KeptElse DEF KeptInv

LEMMA KeptStart == ASSUME IInv, KeptInv, Start PROVE KeptInv'
<1>1. /\ lines' = lines /\ tail' = tail /\ done' = LoadDone /\ start' = tail /\ seen' = {}
      /\ session' = 0 /\ phase' = "group" /\ exit' = "none"
  BY DEF Start, output
<1>2. OnlyTheTornIsLost'
  BY <1>1 DEF OnlyTheTornIsLost
<1>3. Resumed'
  BY <1>1 DEF LoadDone, Resumed, Range
<1>4. Reached'
  BY <1>1 DEF Reached, Past, InSession
<1>5. Lost(Places', done', seen') = {}
  BY <1>1 DEF Lost
<1>6. OneLost'
  BY <1>1, <1>5 DEF OneLost
<1> QED BY <1>1, <1>2, <1>3, <1>4, <1>6 DEF KeptInv

LEMMA KeptLoad == ASSUME IInv, KeptInv, Load PROVE KeptInv'
<1>1. /\ UNCHANGED <<lines, tail, done, start, seen, skipped, exit, buffer, proofs>>
      /\ phase = "group" /\ phase' = "load" /\ session' = session + 1
      /\ queue' = Sessions[session + 1] /\ session < Len(Sessions)
  BY DEF Load, output, world
<1>2. session + 1 \in DOMAIN Sessions
  BY <1>1, SessionsAre DEF IInv, Types
<1>3. SessionFiles(session') = Range(queue')
  BY <1>1, <1>2, SessionsAre
<1>4. Past' = Past
  BY <1>1, PastIs DEF Past, InSession
<1>5. Running /\ Places' = Places
  BY <1>1 DEF Running, Places
<1>6. skipped # 0 \/ Reached'
  BY <1>1, <1>3, <1>4, <1>5 DEF KeptInv, Reached
<1>7. CASE Reached'
  BY <1>1, <1>5, <1>7, KeptSame
<1>8. CASE skipped # 0
  BY <1>1, <1>5, <1>8, KeptElse DEF KeptInv
<1> QED BY <1>6, <1>7, <1>8

LEMMA KeptAddSection == ASSUME IInv, KeptInv, AddSection PROVE KeptInv'
<1> DEFINE f == Head(queue)
<1>1. /\ UNCHANGED <<lines, tail, done, start, buffer, session, exit, table>>
      /\ phase = "load" /\ queue # <<>> /\ seen' = seen \cup {f}
  BY DEF AddSection, output, world, Seen
<1>2. f \in Files /\ Range(queue) = Range(Tail(queue)) \cup {f}
  BY <1>1, HeadTailIs DEF IInv, Types
<1>3. /\ InSession /\ Running /\ f \in SessionFiles(session)
      /\ session \in DOMAIN Sessions /\ session = Past + 1
  BY <1>1, <1>2, PastIs DEF InSession, Running, IInv, AtSession
<1>4. exit = "none"
  BY <1>3 DEF KeptInv
<1>5. CASE f \in unparsed \ seen
  <2>1. Skip
    BY <1>5 DEF AddSection, Seen
  <2> QED BY <1>1, <1>3, <2>1, KeptSkip
<1>6. CASE skipped' # 0
  BY <1>1, <1>4, <1>6, KeptElse DEF KeptInv
<1>7. CASE f \notin unparsed \ seen /\ skipped' = 0
  <2>1. /\ queue' = Tail(queue) /\ UNCHANGED <<skipped, phase>>
        /\ proofs' = IF f \in seen THEN proofs ELSE proofs \o Entries(f)
    BY <1>7 DEF AddSection, Seen
  <2>2. Reached /\ OneLost
    BY <1>3, <1>7, <2>1 DEF KeptInv
  <2>3. Past' = Past /\ InSession'
    BY <1>1, <1>3, <2>1 DEF Past, InSession
  <2>4. Reached'
    BY <1>1, <1>2, <1>3, <2>1, <2>2, <2>3 DEF Reached
  <2>5. Lost(Places', done, seen') \subseteq Lost(Places, done, seen)
    <3>1. CASE f \in seen
      <4>1. seen' = seen /\ Places' = Places
        BY <1>1, <2>1, <3>1 DEF Places
      <4> QED BY <4>1
    <3>2. CASE f \notin seen
      <4>1. \A s \in 1..(session - 1) : f \notin SessionFiles(s)
        BY <1>3, <2>2, <3>2, PastIs DEF Reached
      <4>2. Owner(f) = session
        BY <1>3, <4>1, OwnerIs
      <4>3. Entries(f) \in Seq(Item) /\ Range(Entries(f)) = Measurable(f, session)
        BY <1>3, MeasurableIs
      <4>4. proofs \in Seq(Item)
        BY DEF IInv, Types
      <4>5. Range(proofs \o Entries(f)) = Range(proofs) \cup Range(Entries(f))
        BY <4>3, <4>4, RangeConcatenation
      <4>6. Places' = Places \cup Measurable(f, session)
        BY <1>1, <2>1, <3>2, <4>3, <4>5 DEF Places
      <4> QED BY <1>1, <4>2, <4>6 DEF Lost
    <3> QED BY <3>1, <3>2
  <2>6. OneLost'
    BY <1>1, <2>2, <2>5 DEF OneLost
  <2>7. OnlyTheTornIsLost'
    BY <1>1, <1>4 DEF OnlyTheTornIsLost
  <2>8. Resumed'
    BY <1>1 DEF KeptInv, Resumed
  <2> QED BY <1>1, <1>4, <2>4, <2>6, <2>7, <2>8 DEF KeptInv
<1> QED BY <1>5, <1>6, <1>7

LEMMA KeptLoaded == ASSUME IInv, KeptInv, Loaded PROVE KeptInv'
<1>1. /\ UNCHANGED <<lines, tail, done, start, seen, skipped, exit, buffer, proofs, session, queue>>
      /\ phase = "load" /\ phase' = "measure"
  BY DEF Loaded, output, world
<1>2. Running /\ Places' = Places /\ Past' = Past /\ InSession /\ InSession'
  BY <1>1 DEF Running, Places, Past, InSession
<1>3. CASE skipped = 0
  <2>1. Reached'
    BY <1>1, <1>2, <1>3 DEF KeptInv, Reached
  <2> QED BY <1>1, <1>2, <2>1, KeptSame
<1>4. CASE skipped # 0
  BY <1>1, <1>2, <1>4, KeptElse DEF KeptInv
<1> QED BY <1>3, <1>4

LEMMA KeptMeasure == ASSUME IInv, KeptInv, Measure PROVE KeptInv'
<1> DEFINE r == Head(proofs)
<1>1. /\ UNCHANGED <<lines, tail, done, start, session, seen>>
      /\ phase = "measure" /\ proofs # <<>>
  BY DEF Measure, output, world
<1>2. InSession /\ Running
  BY <1>1 DEF InSession, Running
<1>3. CASE Skip /\ UNCHANGED <<buffer, exit>>
  BY <1>1, <1>2, <1>3, KeptSkip
<1>4. CASE BrokenPipe
  <2>1. exit' = "sigpipe" /\ ~Running'
    BY <1>4 DEF BrokenPipe, Running
  <2> QED BY <1>1, <2>1, KeptElse DEF KeptInv
<1>5. CASE /\ proofs' = Tail(proofs) /\ UNCHANGED <<queue, skipped, phase, exit>>
           /\ buffer' = IF Key(r) \in done THEN buffer ELSE Append(buffer, r)
  <2>1. CASE skipped # 0
    BY <1>1, <1>2, <1>5, <2>1, KeptElse DEF KeptInv
  <2>2. CASE skipped = 0
    <3>1. Reached /\ OneLost /\ exit = "none"
      BY <1>2, <2>2 DEF KeptInv
    <3>2. Reached'
      BY <1>1, <1>5, <3>1 DEF Reached, Past, InSession
    <3>3. r \in Item /\ Range(proofs) = Range(Tail(proofs)) \cup {r}
      BY <1>1, HeadTailIs DEF IInv, Types
    <3>4. Key(r) \in done \/ Places \subseteq Places'
      <4>1. ASSUME Key(r) \notin done PROVE Range(buffer') = Range(buffer) \cup {r}
        <5>1. r \notin Range(buffer) /\ buffer \in Seq(Item) /\ IsInjective(buffer)
          BY <3>3 DEF IInv, Types, Once
        <5>2. Range(Append(buffer, r)) = Range(buffer) \cup {r}
          BY <3>3, <5>1, AppendIs
        <5> QED BY <1>5, <4>1, <5>2
      <4> QED BY <1>1, <1>5, <3>3, <4>1 DEF Places
    <3>5. Lost(Places', done, seen) \subseteq Lost(Places, done, seen)
      <4>1. CASE Key(r) \in done
        <5>1. Places \subseteq Places' \cup {r}
          BY <1>1, <1>5, <3>3, <4>1 DEF Places
        <5> QED BY <4>1, <5>1 DEF Lost
      <4>2. CASE Places \subseteq Places'
        BY <4>2, FewerLost
      <4> QED BY <3>4, <4>1, <4>2
    <3>6. OneLost'
      BY <1>1, <3>1, <3>5 DEF OneLost
    <3>7. OnlyTheTornIsLost'
      BY <1>5, <3>1 DEF OnlyTheTornIsLost
    <3>8. Resumed'
      BY <1>1 DEF KeptInv, Resumed
    <3> QED BY <1>1, <1>5, <3>1, <3>2, <3>6, <3>7, <3>8 DEF KeptInv
  <2> QED BY <2>1, <2>2
<1> QED BY <1>3, <1>4, <1>5 DEF Measure

(* The buffer is written out: if it is onto a rest, its first record goes. *)
LEMMA FlushLoses ==
  ASSUME IInv, OneLost, Flush(buffer), buffer' = <<>>, UNCHANGED <<proofs, done, start, seen>>
  PROVE  /\ OneLost' /\ Range(lines) \subseteq Range(lines')
         /\ tail' \in {tail, Empty}
<1> DEFINE b == Range(buffer)
           l == Range(lines')
           was == Lost(Places, done, seen)
           is == Lost(Places', done, seen)
<1>1. lines' = lines \o Write(buffer) /\ tail' = IF buffer = <<>> THEN tail ELSE Empty
  BY DEF Flush
<1>2. /\ Range(lines) \subseteq l
      /\ tail = Empty => b \subseteq l
      /\ \A r1, r2 \in b \ l : r1 = r2
  BY <1>1, WrittenIs DEF IInv, Types, Once
<1>3. Range(buffer') = {} /\ (buffer = <<>> => b = {})
  BY EmptyIs
<1> HIDE DEF b, l
<1>4. Places' = Range(proofs) \cup l /\ Places = Range(proofs) \cup b \cup Range(lines)
  BY <1>3 DEF Places, b, l
<1>5. is \subseteq was \cup (b \ l)
  BY <1>2, <1>4 DEF Lost
<1> HIDE DEF was, is
<1>6. /\ tail \in {start, Empty} /\ (tail = start => was = {})
      /\ \A r1, r2 \in was : r1 = r2
  BY DEF OneLost, was
<1>7. CASE tail = Empty
  BY <1>1, <1>2, <1>5, <1>6, <1>7 DEF OneLost, is, l
<1>8. CASE tail # Empty /\ buffer = <<>>
  BY <1>1, <1>2, <1>3, <1>5, <1>6, <1>8 DEF OneLost, is, l
<1>9. CASE tail # Empty /\ buffer # <<>>
  BY <1>1, <1>2, <1>5, <1>6, <1>9 DEF OneLost, is, l
<1> QED BY <1>7, <1>8, <1>9

LEMMA FlushExtends ==
  ASSUME IInv, Flush(buffer), KeptInv
  PROVE  /\ Range(lines) \subseteq Range(lines')
         /\ tail' = Empty <=> tail'.kind = "empty"
<1>1. lines' = lines \o Write(buffer) /\ tail' = IF buffer = <<>> THEN tail ELSE Empty
  BY DEF Flush
<1>2. Range(lines) \subseteq Range(lines')
  BY <1>1, WrittenIs DEF IInv, Types, Once
<1>3. Empty.kind = "empty"
  BY DEF Empty
<1> QED BY <1>1, <1>2, <1>3 DEF KeptInv

LEMMA KeptEndSession == ASSUME IInv, KeptInv, EndSession PROVE KeptInv'
<1>1. /\ UNCHANGED <<done, start, session, seen>>
      /\ phase = "measure" /\ proofs = <<>>
  BY DEF EndSession, world
<1>2. Running /\ InSession /\ exit = "none"
  BY <1>1 DEF Running, InSession, KeptInv
<1>3. CASE BrokenPipe /\ UNCHANGED <<output, loaded>>
  <2>1. exit' = "sigpipe" /\ ~Running' /\ lines' = lines /\ tail' = tail
    BY <1>3 DEF BrokenPipe, Running, output
  <2> QED BY <1>1, <2>1, KeptElse DEF KeptInv
<1>4. CASE /\ Flush(buffer) /\ buffer' = <<>> /\ phase' = "group"
           /\ UNCHANGED <<queue, proofs, skipped, exit>>
  <2>1. Range(lines) \subseteq Range(lines') /\ (tail' = Empty <=> tail'.kind = "empty")
    BY <1>4, FlushExtends
  <2>2. CASE skipped # 0
    BY <1>1, <1>2, <1>4, <2>1, <2>2, KeptElse
  <2>3. CASE skipped = 0
    <3>1. Reached /\ OneLost
      BY <1>2, <2>3 DEF KeptInv
    <3>2. OneLost'
      BY <1>1, <1>4, <3>1, FlushLoses
    <3>3. Reached'
      <4>1. queue = <<>> /\ SessionFiles(session) \subseteq seen
        BY <1>1, <1>2, <3>1, EmptyIs DEF IInv, AtSession, Reached
      <4>2. Past' = session /\ session = Past + 1 /\ Past \in Nat /\ ~InSession'
        BY <1>1, <1>2, <1>4, PastIs DEF Past, InSession
      <4>3. 1..session = 1..Past \cup {session}
        BY <4>2
      <4> QED BY <1>1, <3>1, <4>1, <4>2, <4>3 DEF Reached
    <3>4. OnlyTheTornIsLost'
      BY <1>2, <1>4 DEF OnlyTheTornIsLost
    <3>5. Resumed'
      BY <1>1, <2>1 DEF KeptInv, Resumed
    <3> QED BY <1>1, <1>2, <1>4, <2>1, <3>2, <3>3, <3>4, <3>5 DEF KeptInv
  <2> QED BY <2>2, <2>3
<1> QED BY <1>3, <1>4 DEF EndSession

LEMMA KeptKill == ASSUME IInv, KeptInv, Kill PROVE KeptInv'
<1>1. UNCHANGED <<done, start>> /\ phase' = "ended" /\ exit' = "killed"
  BY DEF Kill, world
<1>2. PICK k \in 0..Len(buffer) : Cut(k)
  BY DEF Kill
<1> DEFINE recs == SubSeq(buffer, 1, k)
<1>3. recs \in Seq(Item) /\ IsInjective(recs) /\ Range(recs) \subseteq Range(buffer)
  BY PrefixIs DEF IInv, Types, Once
<1>4. lines' = lines \o Write(recs)
  BY <1>2 DEF Cut
<1> HIDE DEF recs
<1>5. Range(recs) \cap Range(lines) = {}
  BY <1>3 DEF IInv, Once
<1>6. Range(lines) \subseteq Range(lines')
  BY <1>3, <1>4, <1>5, WrittenIs DEF IInv, Types, Once
<1>7. \/ tail' = tail \/ tail' = Empty \/ tail' = [kind |-> "mess"]
      \/ \E r : tail' = Part(r) \/ tail' = Whole(r)
  BY <1>2 DEF Cut
<1>8. tail' = Empty <=> tail'.kind = "empty"
  <2>1. CASE tail' = tail
    BY <2>1 DEF KeptInv
  <2>2. CASE tail' = Empty
    BY <2>2 DEF Empty
  <2>3. CASE tail' = [kind |-> "mess"]
    BY <2>3 DEF Empty
  <2>4. ASSUME NEW r, tail' = Part(r) \/ tail' = Whole(r)
        PROVE  tail' # Empty /\ tail'.kind # "empty"
    BY <2>4 DEF Part, Whole, Empty
  <2> QED BY <1>7, <2>1, <2>2, <2>3, <2>4
<1> QED BY <1>1, <1>6, <1>8, KeptElse DEF Running

LEMMA AtMostTwo ==
  ASSUME NEW a, NEW b, NEW S, S \subseteq {a, b}
  PROVE  Cardinality(S) <= 2
<1>1. IsFiniteSet({a}) /\ Cardinality({a}) = 1
  BY FS_Singleton
<1> DEFINE A == {a}
<1> HIDE DEF A
<1>2. /\ IsFiniteSet(A \cup {b})
      /\ Cardinality(A \cup {b}) = IF b \in A THEN Cardinality(A) ELSE Cardinality(A) + 1
  BY <1>1, FS_AddElement DEF A
<1>3. IsFiniteSet({a, b}) /\ Cardinality({a, b}) \in 1..2
  BY <1>1, <1>2 DEF A
<1>4. Cardinality(S) <= Cardinality({a, b})
  BY <1>3, FS_Subset
<1>5. Cardinality(S) \in Nat
  BY <1>3, FS_Subset, FS_CardinalityType
<1> QED BY <1>3, <1>4, <1>5

LEMMA AtMostOne ==
  ASSUME NEW S, \A x, y \in S : x = y
  PROVE  Cardinality(S) <= 1
<1>1. CASE S = {}
  BY <1>1, FS_EmptySet
<1>2. CASE S # {}
  <2>1. PICK x \in S : TRUE
    BY <1>2
  <2>2. S = {x}
    BY <2>1
  <2>3. Cardinality(S) = 1
    BY <2>2, FS_Singleton
  <2> QED BY <2>3
<1> QED BY <1>1, <1>2

LEMMA MeasuredAreItems ==
  ASSUME IInv, NEW f \in seen, NEW r \in Measurable(f, Owner(f))
  PROVE  r \in Item
<1>1. f \in Files
  BY DEF IInv, Types
<1>2. Proofs[f] \in Seq(Range(Proofs[f]))
  BY <1>1, CensusAssumption
<1>3. DOMAIN Proofs[f] \subseteq Nat
  BY <1>2, LenProperties
<1> QED BY <1>1, <1>3 DEF Measurable, Record, Item

(* A run that comes to its end has every proof in the file, but for the    *)
(* record it wrote onto the rest and the one that was in the rest.         *)
LEMMA KeptExit == ASSUME IInv, KeptInv, Exit PROVE KeptInv'
<1>1. /\ UNCHANGED <<done, start, session, seen, queue, proofs, skipped>>
      /\ phase = "group" /\ phase' = "ended" /\ session = Len(Sessions) /\ buffer' = <<>>
      /\ exit' = "lost" => UNCHANGED <<lines, tail>>
      /\ exit' # "lost" => Flush(buffer)
  BY DEF Exit, world, output
<1>2. Running /\ ~Running' /\ Past = Len(Sessions) /\ proofs = <<>>
  BY <1>1 DEF Running, Past, InSession, IInv, AtSession
<1>3. Range(lines) \subseteq Range(lines') /\ (tail' = Empty <=> tail'.kind = "empty")
  BY <1>1, FlushExtends DEF KeptInv
<1>4. CASE ~(exit' = "ok" /\ skipped = 0)
  <2>1. OnlyTheTornIsLost'
    BY <1>1, <1>4 DEF OnlyTheTornIsLost
  <2>2. Resumed'
    BY <1>1, <1>3 DEF KeptInv, Resumed
  <2> QED BY <1>1, <1>2, <1>3, <2>1, <2>2 DEF KeptInv
<1>5. CASE exit' = "ok" /\ skipped = 0
  <2>1. Reached /\ OneLost /\ Flush(buffer)
    BY <1>1, <1>2, <1>5 DEF KeptInv
  <2>2. OneLost'
    BY <1>1, <2>1, FlushLoses
  <2>3. Resumed'
    BY <1>1, <1>3 DEF KeptInv, Resumed
  <2> DEFINE gone == Lost(Places', done, seen)
             key == {Key(r) : r \in gone}
             rest == IF start.kind = "whole" THEN {Key(start.rec)} ELSE {}
             written == {Key(r) : r \in Range(lines') \ {Garbled}}
  <2>5. Expected \subseteq UNION {Measurable(f, Owner(f)) : f \in seen}
    BY <1>2, <2>1, SessionsAre DEF Expected, Reached
  <2>6. Places' = Range(lines')
    BY <1>1, <1>2, EmptyIs DEF Places
  <2>7. ASSUME NEW r \in Expected PROVE Key(r) \in key \cup rest \cup written
    <3>1. CASE r \in gone
      BY <3>1
    <3>2. CASE Key(r) \in done
      BY <1>1, <2>3, <3>2 DEF Resumed
    <3>3. CASE r \in Range(lines')
      <4>1. r \in Item
        BY <2>5, MeasuredAreItems
      <4> QED BY <3>3, <4>1, GarbledIs
    <3> QED BY <2>5, <2>6, <3>1, <3>2, <3>3 DEF Lost
  <2>8. written = {Key(r) : r \in InFile'}
    BY DEF InFile, Range
  <2>9. Missing' \subseteq key \cup rest
    BY <2>7, <2>8 DEF Missing
  <2>10. \A r1, r2 \in gone : r1 = r2
    BY <1>1, <2>2 DEF OneLost
  <2>11. start = Empty => gone = {}
    BY <1>1, <2>2 DEF OneLost
  <2> HIDE DEF gone, written
  <2>12. \A x, y \in key : x = y
    BY <2>10
  <2>13. start.kind = "empty" => Missing' = {}
    BY <2>9, <2>11 DEF KeptInv
  <2>14. start.kind # "whole" => Cardinality(Missing') <= 1
    <3>1. start.kind # "whole" => \A x, y \in Missing' : x = y
      BY <2>9, <2>12
    <3> QED BY <3>1, AtMostOne
  <2>15. start.kind = "whole" => Cardinality(Missing') <= 2
    <3>1. CASE key = {}
      BY <3>1, <2>9, AtMostTwo
    <3>2. CASE key # {}
      <4>1. PICK x \in key : TRUE
        BY <3>2
      <4>2. start.kind = "whole" => Missing' \subseteq {x, Key(start.rec)}
        BY <2>9, <2>12, <4>1
      <4> QED BY <4>2, AtMostTwo
    <3> QED BY <3>1, <3>2
  <2>16. OnlyTheTornIsLost'
    BY <1>1, <2>13, <2>14, <2>15, FS_EmptySet DEF OnlyTheTornIsLost
  <2> QED BY <1>1, <1>2, <1>3, <2>3, <2>16 DEF KeptInv
<1> QED BY <1>4, <1>5

LEMMA KeptStep == ASSUME IInv, KeptInv, [Next]_vars PROVE KeptInv'
<1>1. CASE UNCHANGED vars
  <2>1. UNCHANGED <<lines, tail, done, start, seen, skipped, exit, buffer, proofs, session, queue,
                    phase, toFile>>
    BY <1>1 DEF vars, output, world
  <2>2. Reached' = Reached /\ OneLost' = OneLost /\ Resumed' = Resumed /\ Running' = Running
    BY <2>1 DEF Reached, OneLost, Resumed, Running, Past, InSession, Places
  <2>3. OnlyTheTornIsLost' = OnlyTheTornIsLost
    BY <2>1 DEF OnlyTheTornIsLost, Missing, InFile
  <2> QED BY <2>1, <2>2, <2>3 DEF KeptInv
<1>2. CASE CloseReader
  <2>1. /\ UNCHANGED <<lines, tail, done, start, seen, skipped, exit, buffer, proofs, session>>
        /\ UNCHANGED <<queue, phase>> /\ Running
    BY <1>2 DEF CloseReader, output, world
  <2>2. CASE skipped # 0
    <3>1. exit = "none"
      BY <2>1 DEF KeptInv
    <3> QED BY <2>1, <2>2, <3>1, KeptElse DEF KeptInv
  <2>3. CASE skipped = 0
    <3>1. Reached' /\ Places' = Places
      BY <2>1, <2>3 DEF KeptInv, Reached, Past, InSession, Places
    <3> QED BY <2>1, <3>1, KeptSame
  <2> QED BY <2>2, <2>3
<1> QED BY <1>1, <1>2, KeptStart, KeptLoad, KeptAddSection, KeptLoaded, KeptMeasure, KeptEndSession,
        KeptExit, KeptKill DEF Next, Census

LEMMA KeptInit == Init => KeptInv
<1> SUFFICES ASSUME Init PROVE KeptInv
  OBVIOUS
<1>1. /\ phase = "idle" /\ exit = "none" /\ tail = Empty /\ start = Empty /\ done = {}
  BY DEF Init
<1> QED BY <1>1 DEF KeptInv, Running, Resumed, OnlyTheTornIsLost, Empty

(* What a run says it lost is what it lost, but for the torn line.         *)
THEOREM LossesAreTold == Spec => []LossesTold
<1>1. Init => IInv /\ Told /\ KeptInv
  BY InitOk, ToldInit, KeptInit
<1>2. (IInv /\ Told /\ KeptInv) /\ [Next]_vars => (IInv /\ Told /\ KeptInv)'
  BY StepOk, ToldStep, KeptStep
<1>3. IInv /\ Told /\ KeptInv => LossesTold
  BY ToldImplies DEF KeptInv, LossesTold
<1> QED BY <1>1, <1>2, <1>3, PTL DEF Spec
=============================================================================
